---------------------------- MODULE MCRepayPlan -----------------------------
(***************************************************************************)
(* Amounts on both sides of every threshold of the arithmetic: 1000 is the *)
(* partial floor, 1084 = 1000 + 20 + 64 stages a P2Pool debt of 1000, 1%   *)
(* of 150000 is 1500, and 199990 saturates when it is staged.              *)
(***************************************************************************)
EXTENDS RepayPlan

MCOutstanding == {1, 900, 1001, 150000, 199990}

MCLoans == [p2pool : {TRUE}, outstanding : MCOutstanding, principal : {1000, 2000}]
             \cup [p2pool : {FALSE}, outstanding : MCOutstanding \cup {2999}, principal : {1000}]

MCBalances == {0, 999, 1000, 1083, 1084, 1499, 1500, 199999}
=============================================================================
