---------------------------- MODULE MCSupervisor ----------------------------
(* A handler that pays with the fee payer and one with its own signer. *)
EXTENDS Supervisor
CONSTANTS liquidator, curator
=============================================================================
