---------------------------- MODULE AccountBatch ----------------------------
(***************************************************************************)
(* Rpc::batch_get_multiple_accounts (src/rpc.rs) and the loop that calls   *)
(* it, spawn_ata_balance_loop (src/metrics.rs).  The addresses are cut     *)
(* into chunks, one task per chunk waits for one of MaxConcurrency permits *)
(* and asks the node; tasks finish in any order and each is written to the *)
(* place of its chunk; the first failure drops the rest.  The loop pairs   *)
(* the answers with the mints it listed, by position.                      *)
(***************************************************************************)
EXTENDS Naturals, FiniteSets, Sequences

CONSTANTS
  Mints,           \* mints the registry may come to know
  CHUNK_SIZE, MAX_CONCURRENCY,
  MaxVersion       \* changes of one account explored

ASSUME BatchAssumption ==
  /\ IsFiniteSet(Mints)
  /\ CHUNK_SIZE \in Nat \ {0} /\ MAX_CONCURRENCY \in Nat \ {0} /\ MaxVersion \in Nat

VARIABLES
  loop,      \* "idle", "join" (the call is under way) or "ended"
  stop,      \* the shutdown flag
  known,     \* mints of the registry
  entries,   \* the mints of this batch, in the order they were listed
  task,      \* per chunk: "waiting", "fetching", "ok", "failed", "joined"
  reply,     \* per chunk: what the node answered
  output,    \* what the call has collected
  balances,  \* ata_balances: mint -> what was last read
  version,   \* the chain: each account's current content
  started    \* history: contents when this batch began

batchVars == <<loop, stop, known, entries, task, reply, output, balances, version, started>>

\* Chunk c holds the positions above Base(c) up to Base(c) + CHUNK_SIZE.
Base(c)      == c * CHUNK_SIZE
Positions(c) == { i \in 1 .. Len(entries) : Base(c) < i /\ i <= Base(c) + CHUNK_SIZE }
Chunks       == { c \in 0 .. Len(entries) : Positions(c) # {} }

\* What is read of an account says whose it is; Unread is the None an output
\* place starts with, which the loop takes for a balance of 0.
Content(m, v) == [mint |-> m, version |-> v]
Unread        == [mint |-> "none", version |-> 0]

BatchInit ==
  /\ loop = "idle" /\ stop = FALSE /\ known \in SUBSET Mints
  /\ entries = <<>> /\ task = << >> /\ reply = << >> /\ output = <<>>
  /\ balances = << >> /\ version = [m \in Mints |-> 0] /\ started = version

-----------------------------------------------------------------------------
(* The loop and the batch. *)

\* The order in which a hash map gives its keys is arbitrary.
Orders(S) == { s \in [1 .. Cardinality(S) -> S] : \A i, j \in DOMAIN s : i # j => s[i] # s[j] }

\* The loop head: stop ends it, an empty registry is slept over, else the mints
\* are listed and a task per chunk is spawned.
Begin ==
  /\ loop = "idle" /\ ~stop /\ known # {}
  /\ entries' \in Orders(known)
  /\ task' = [c \in Chunks' |-> "waiting"] /\ reply' = [c \in Chunks' |-> << >>]
  /\ output' = [i \in 1 .. Len(entries') |-> Unread]
  /\ started' = version
  /\ loop' = "join"
  /\ UNCHANGED <<stop, known, balances, version>>

End == /\ loop = "idle" /\ stop
       /\ loop' = "ended"
       /\ UNCHANGED <<stop, known, entries, task, reply, output, balances, version, started>>

\* mutant: a permit does not come back with its task
PermitsNeverReturned == { c \in DOMAIN task : task[c] # "waiting" }

\* The tasks that hold a permit.
Fetching == { c \in DOMAIN task : task[c] = "fetching" }

\* mutant: the semaphore is not asked
AcquireFreely(c) ==
  /\ loop = "join" /\ task[c] = "waiting"
  /\ task' = [task EXCEPT ![c] = "fetching"]
  /\ UNCHANGED <<loop, stop, known, entries, reply, output, balances, version, started>>

\* A task gets a permit.
Acquire(c) ==
  /\ loop = "join" /\ task[c] = "waiting" /\ Cardinality(Fetching) < MAX_CONCURRENCY
  /\ task' = [task EXCEPT ![c] = "fetching"]
  /\ UNCHANGED <<loop, stop, known, entries, reply, output, balances, version, started>>

\* The node reads the chunk's accounts at one moment, in the order asked.
NodeAnswers(c) ==
  /\ loop = "join" /\ task[c] = "fetching"
  /\ task' = [task EXCEPT ![c] = "ok"]
  /\ reply' = [reply EXCEPT ![c] =
                  [j \in 1 .. Cardinality(Positions(c)) |->
                     Content(entries[Base(c) + j], version[entries[Base(c) + j]])]]
  /\ UNCHANGED <<loop, stop, known, entries, output, balances, version, started>>

Fails(c) ==
  /\ loop = "join" /\ task[c] = "fetching"
  /\ task' = [task EXCEPT ![c] = "failed"]
  /\ UNCHANGED <<loop, stop, known, entries, reply, output, balances, version, started>>

\* mutant: answers are appended in the order they come
CollectInOrderOfArrival(c) ==
  LET n == Cardinality({ i \in DOMAIN output : output[i] # Unread })
  IN  [i \in 1 .. Len(entries) |->
         IF i - n \in DOMAIN reply[c] THEN reply[c][i - n] ELSE output[i]]

\* output[base + j] = acct
Collect(c) ==
  [i \in 1 .. Len(entries) |-> IF i \in Positions(c) THEN reply[c][i - Base(c)] ELSE output[i]]

\* join_next hands over a finished task.
Join(c) ==
  /\ loop = "join" /\ task[c] = "ok"
  /\ task' = [task EXCEPT ![c] = "joined"]
  /\ output' = Collect(c)
  /\ UNCHANGED <<loop, stop, known, entries, reply, balances, version, started>>

\* The locals of one round are gone.
Forget == entries' = <<>> /\ task' = << >> /\ reply' = << >> /\ output' = <<>>

\* join_next hands over a failed task: the call returns Err, the other tasks are
\* dropped with the set, and the loop keeps the balances it has.
JoinFailed(c) ==
  /\ loop = "join" /\ task[c] = "failed"
  /\ loop' = "idle" /\ Forget
  /\ UNCHANGED <<stop, known, balances, version, started>>

\* Nothing left to join: Ok(output), and the loop replaces the balances.
Finish ==
  /\ loop = "join" /\ \A c \in DOMAIN task : task[c] = "joined"
  /\ balances' = [m \in { entries[i] : i \in DOMAIN entries } |->
                    output[CHOOSE i \in DOMAIN entries : entries[i] = m]]
  /\ loop' = "idle" /\ Forget
  /\ UNCHANGED <<stop, known, version, started>>

Loop == \/ Begin \/ End \/ Finish
        \/ \E c \in DOMAIN task : Acquire(c) \/ NodeAnswers(c) \/ Join(c) \/ JoinFailed(c)

-----------------------------------------------------------------------------
(* Everybody else. *)

BalanceMoves(m) ==
  /\ version[m] < MaxVersion
  /\ version' = [version EXCEPT ![m] = @ + 1]
  /\ UNCHANGED <<loop, stop, known, entries, task, reply, output, balances, started>>

\* The registry refresh merges a bank.
RegistryGrows(m) ==
  /\ known' = known \cup {m}
  /\ UNCHANGED <<loop, stop, entries, task, reply, output, balances, version, started>>

Stop == stop' = TRUE /\ UNCHANGED <<loop, known, entries, task, reply, output, balances, version, started>>

BatchNext ==
  \/ Loop \/ (\E c \in DOMAIN task : Fails(c))
  \/ (\E m \in Mints : BalanceMoves(m) \/ RegistryGrows(m)) \/ Stop

\* The runtime runs every task that can run.
Fairness == WF_batchVars(Loop)

BatchSpec == BatchInit /\ [][BatchNext]_batchVars /\ Fairness

-----------------------------------------------------------------------------
(* Properties. *)

\* The type invariant: no more requests under way than permits.
BatchTypeOK ==
  /\ loop \in {"idle", "join", "ended"} /\ stop \in BOOLEAN /\ known \subseteq Mints
  /\ entries \in Seq(Mints) /\ DOMAIN task = Chunks
  /\ \A c \in DOMAIN task : task[c] \in {"waiting", "fetching", "ok", "failed", "joined"}
  /\ Cardinality(Fetching) <= MAX_CONCURRENCY
  /\ DOMAIN output = 1 .. Len(entries) /\ DOMAIN reply = Chunks
  /\ version \in [Mints -> 0 .. MaxVersion] /\ started \in [Mints -> 0 .. MaxVersion]

\* Whatever the order in which the chunks are answered and joined, and whatever
\* moves meanwhile, a round that shows new balances shows for every listed mint
\* the content of its own account, no older than the round: never a neighbour's
\* and never the None of a chunk that failed.
RoundsAreTrue ==
  [][balances' # balances => \A m \in DOMAIN balances' :
       /\ balances'[m].mint = m
       /\ balances'[m].version \in started[m] .. version[m]]_batchVars

\* Every call returns: no permit is lost to a failed or dropped task.
RoundsEnd == loop = "join" ~> loop = "idle"
=============================================================================
