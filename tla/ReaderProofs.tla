---------------------------- MODULE ReaderProofs ----------------------------
(***************************************************************************)
(* What tasks read from the chain together.  AccountBatch: a batch of any  *)
(* length, cut into chunks of any size and fetched by any number of tasks, *)
(* gives every address the content of its own account.  MarketCache: for   *)
(* any number of tasks and markets, any TTL and latency, an answer is no   *)
(* staler than it may be and the snapshot is never lost.  Each part is     *)
(* about its own specification, BatchSpec or Spec.                         *)
(***************************************************************************)
EXTENDS AccountBatch, MarketCache, FiniteSetTheorems, WellFoundedInduction, TLAPS

-----------------------------------------------------------------------------
(* AccountBatch: the inductive invariant. *)

\* What a place of the output must hold, for the address at position i.
TrueAt(i, content) ==
  /\ content.mint = entries[i]
  /\ content.version \in started[entries[i]] .. version[entries[i]]

\* A reply that has come holds the contents of its chunk, and what has been
\* joined is in the places of its chunk.
AnswersTrue ==
  \A c \in DOMAIN task : task[c] = "ok" => \A i \in Positions(c) : TrueAt(i, reply[c][i - Base(c)])

OutputTrue ==
  \A c \in DOMAIN task : task[c] = "joined" => \A i \in Positions(c) : TrueAt(i, output[i])

BatchIInv ==
  /\ BatchTypeOK
  /\ loop # "join" => entries = <<>>
  /\ \A m \in Mints : started[m] <= version[m]
  /\ AnswersTrue /\ OutputTrue

-----------------------------------------------------------------------------
(* Chunks. *)

\* Multiplication is used through these two facts only.
LEMMA BaseFacts ==
  ASSUME NEW c \in Nat
  PROVE  Base(c) \in Nat /\ c <= Base(c) /\ Base(0) = 0 /\ Base(c + 1) = Base(c) + CHUNK_SIZE
<1>1. CHUNK_SIZE \in Nat /\ CHUNK_SIZE >= 1
  BY BatchAssumption
<1>2. c * CHUNK_SIZE \in Nat /\ 0 * CHUNK_SIZE = 0
  BY <1>1
<1>3. (c + 1) * CHUNK_SIZE = c * CHUNK_SIZE + CHUNK_SIZE
  BY <1>1
<1>4. c <= c * CHUNK_SIZE
  <2>1. PICK d \in Nat : CHUNK_SIZE = 1 + d
    BY <1>1
  <2>2. c * (1 + d) = c + c * d /\ c * d \in Nat
    OBVIOUS
  <2> QED
    BY <2>1, <2>2
<1> QED
  BY <1>2, <1>3, <1>4 DEF Base

LEMMA LeastChunk ==
  ASSUME NEW T, \A t \in T : t \in Nat, T # {} PROVE \E x \in T : \A y \in T : x <= y
<1> DEFINE R == OpToRel(<, Nat)
<1>1. IsWellFoundedOn(R, Nat)
  BY NatLessThanWellFounded
<1>2. R = { s \in Nat \X Nat : s[1] < s[2] }
  BY DEF OpToRel
<1> HIDE DEF R
<1>3. PICK x \in T : \A y \in T : ~(<<y, x>> \in R)
  BY <1>1, WFMin
<1>4. ASSUME NEW y \in T PROVE x <= y
  <2>1. x \in Nat /\ y \in Nat
    OBVIOUS
  <2>2. ~(<<y, x>> \in R)
    BY <1>3
  <2>3. y < x => <<y, x>> \in R
    BY <1>2, <2>1
  <2> QED
    BY <2>1, <2>2, <2>3
<1> QED
  BY <1>4

\* Every position lies in a chunk: no account is left out.
LEMMA ChunksCover ==
  ASSUME entries \in Seq(Mints), NEW i \in 1 .. Len(entries)
  PROVE  \E c \in Chunks : i \in Positions(c)
<1> DEFINE n == Len(entries)
<1>0. n \in Nat /\ CHUNK_SIZE \in Nat /\ CHUNK_SIZE >= 1 /\ i \in 1 .. n
  BY BatchAssumption
<1> HIDE DEF n
<1>1. i \in Nat /\ i >= 1 /\ i <= n
  BY <1>0
<1> DEFINE T == { c \in Nat : i <= Base(c) + CHUNK_SIZE }
<1>2. i \in T
  <2>1. Base(i) \in Nat /\ i <= Base(i)
    BY <1>1, BaseFacts
  <2>2. i <= Base(i) + CHUNK_SIZE
    BY <1>0, <1>1, <2>1
  <2> QED
    BY <1>1, <2>2
<1>3. PICK c \in T : \A d \in T : c <= d
  BY <1>2, LeastChunk
<1>4. c \in Nat /\ i <= Base(c) + CHUNK_SIZE /\ Base(c) \in Nat /\ c <= Base(c)
  BY <1>3, BaseFacts
<1>5. Base(c) < i
  <2>1. CASE c = 0
    BY <1>1, <2>1, BaseFacts
  <2>2. CASE c # 0
    <3>1. PICK d \in Nat : c = d + 1
      BY <1>4, <2>2
    <3>2. ~(i <= Base(d) + CHUNK_SIZE)
      BY <1>3, <3>1
    <3>3. Base(c) = Base(d) + CHUNK_SIZE /\ Base(d) \in Nat
      BY <3>1, BaseFacts
    <3> QED
      BY <1>0, <1>1, <1>4, <3>2, <3>3
  <2> QED
    BY <2>1, <2>2
<1>6. i \in Positions(c)
  BY <1>4, <1>5 DEF Positions
<1>7. c \in 0 .. n
  BY <1>0, <1>1, <1>4, <1>5
<1> QED
  BY <1>6, <1>7 DEF Chunks, n

\* The j-th account of a reply belongs to the j-th position of the chunk.
LEMMA PositionsOfChunk ==
  ASSUME entries \in Seq(Mints), NEW c \in Nat, NEW i \in Positions(c)
  PROVE  /\ i \in 1 .. Len(entries) /\ i - Base(c) \in 1 .. Cardinality(Positions(c))
         /\ Base(c) + (i - Base(c)) = i
<1> DEFINE n == Len(entries)
           b == Base(c)
           top == IF b + CHUNK_SIZE <= n THEN b + CHUNK_SIZE ELSE n
<1>1. n \in Nat /\ b \in Nat /\ CHUNK_SIZE \in Nat /\ CHUNK_SIZE >= 1 /\ top \in Nat
  BY BaseFacts, BatchAssumption
<1>2. i \in 1 .. n /\ b < i /\ i <= b + CHUNK_SIZE
  BY DEF Positions
<1> HIDE DEF n, b
<1>3. \A k : (k \in 1 .. n /\ b < k /\ k <= b + CHUNK_SIZE) <=> k \in (b + 1) .. top
  BY <1>1
<1>4. Positions(c) = (b + 1) .. top
  BY <1>3 DEF Positions, n, b
<1>5. b + 1 <= top /\ i <= top
  BY <1>1, <1>2
<1>6. Cardinality(Positions(c)) = top - b
  BY <1>1, <1>4, <1>5, FS_Interval
<1> QED
  BY <1>1, <1>2, <1>5, <1>6 DEF n, b
-----------------------------------------------------------------------------
(* The steps. *)

\* Requests under way are finitely many; fewer of them are not more.
LEMMA FetchingIsFinite == ASSUME BatchTypeOK PROVE IsFiniteSet(Fetching)
<1>1. Len(entries) \in Nat
  BY DEF BatchTypeOK
<1>2. IsFiniteSet(0 .. Len(entries))
  BY <1>1, FS_Interval
<1>3. Fetching \subseteq 0 .. Len(entries)
  BY DEF Fetching, BatchTypeOK, Chunks
<1> QED
  BY <1>2, <1>3, FS_Subset

LEMMA FetchingShrinks ==
  ASSUME BatchTypeOK, Fetching' \subseteq Fetching PROVE Cardinality(Fetching') <= MAX_CONCURRENCY
<1>1. IsFiniteSet(Fetching) /\ Cardinality(Fetching) <= MAX_CONCURRENCY
  BY FetchingIsFinite DEF BatchTypeOK
<1>2. /\ Cardinality(Fetching') <= Cardinality(Fetching)
      /\ Cardinality(Fetching') \in Nat /\ Cardinality(Fetching) \in Nat
  BY <1>1, FS_Subset, FS_CardinalityType
<1> QED
  BY <1>1, <1>2, BatchAssumption

\* Steps during a call that change neither the addresses nor the accounts.
LEMMA TaskKeeps ==
  ASSUME BatchIInv, loop = "join", loop' = loop, NEW c \in DOMAIN task,
         NEW s \in {"fetching", "ok", "failed", "joined"},
         task' = [task EXCEPT ![c] = s],
         Cardinality(Fetching') <= MAX_CONCURRENCY,
         DOMAIN reply' = DOMAIN reply, DOMAIN output' = DOMAIN output,
         \A d \in DOMAIN task : d # c => reply'[d] = reply[d],
         s = "ok" => \A i \in Positions(c) : TrueAt(i, reply'[c][i - Base(c)]),
         \A i \in DOMAIN output : output'[i] = output[i] \/ TrueAt(i, output'[i]),
         s = "joined" => \A i \in Positions(c) : TrueAt(i, output'[i]),
         UNCHANGED <<stop, known, entries, version, started>>
  PROVE  BatchIInv'
<1> USE DEF BatchIInv
<1>1. BatchTypeOK'
  BY DEF BatchTypeOK, Chunks, Positions
<1>3. \A d : Positions(d)' = Positions(d) /\ Positions(d) \subseteq DOMAIN output
  BY DEF Positions, BatchTypeOK
<1>4. AnswersTrue'
  <2> SUFFICES ASSUME NEW d \in DOMAIN task', task'[d] = "ok", NEW i \in Positions(d)'
               PROVE  TrueAt(i, reply[d][i - Base(d)])'
    BY DEF AnswersTrue
  <2>1. d \in DOMAIN task /\ i \in Positions(d)
    BY <1>3
  <2>2. TrueAt(i, reply'[d][i - Base(d)])
    BY <2>1 DEF AnswersTrue
  <2> QED
    BY <2>2 DEF TrueAt, Base
<1>5. OutputTrue'
  <2> SUFFICES ASSUME NEW d \in DOMAIN task', task'[d] = "joined", NEW i \in Positions(d)'
               PROVE  TrueAt(i, output[i])'
    BY DEF OutputTrue
  <2>1. d \in DOMAIN task /\ i \in Positions(d) /\ i \in DOMAIN output
    BY <1>3
  <2>2. TrueAt(i, output'[i])
    BY <2>1 DEF OutputTrue
  <2> QED
    BY <2>2 DEF TrueAt
<1> QED
  BY <1>1, <1>4, <1>5

\* The end of a round, with or without a result.
LEMMA ForgetKeeps ==
  ASSUME BatchIInv, Forget, loop' = "idle", UNCHANGED <<stop, known, version, started>> PROVE BatchIInv'
<1> USE DEF BatchIInv
<1>1. entries' = <<>> /\ DOMAIN task' = {} /\ DOMAIN reply' = {} /\ DOMAIN output' = {} /\ Len(entries') = 0
  BY DEF Forget
<1>2. Chunks' = {} /\ Fetching' = {}
  BY <1>1 DEF Chunks, Positions, Fetching
<1>3. Cardinality(Fetching') <= MAX_CONCURRENCY
  BY <1>2, FS_EmptySet, BatchAssumption
<1>4. BatchTypeOK'
  BY <1>1, <1>2, <1>3 DEF BatchTypeOK, Forget
<1> QED
  BY <1>1, <1>4 DEF AnswersTrue, OutputTrue

\* Steps that leave the call alone; accounts only move on.
LEMMA OutsideKeeps ==
  ASSUME BatchIInv, UNCHANGED <<entries, task, reply, output, started>>, loop' \in {"idle", "join", "ended"},
         loop' # "join" => loop # "join", stop' \in BOOLEAN, known' \subseteq Mints,
         version' \in [Mints -> 0 .. MaxVersion], \A m \in Mints : version[m] <= version'[m]
  PROVE  BatchIInv'
<1> USE DEF BatchIInv
<1>1. Chunks' = Chunks /\ Fetching' = Fetching /\ \A d : Positions(d)' = Positions(d)
  BY DEF Chunks, Positions, Fetching
<1>2. BatchTypeOK'
  BY <1>1 DEF BatchTypeOK
<1>3. \A m \in Mints : version[m] \in Nat /\ version'[m] \in Nat /\ started[m] \in Nat
  BY BatchAssumption DEF BatchTypeOK
<1>4. \A i \in 1 .. Len(entries) : \A x : TrueAt(i, x) =>
         x.mint = entries[i] /\ x.version \in started[entries[i]] .. version'[entries[i]]
  <2> SUFFICES ASSUME NEW i \in 1 .. Len(entries), NEW x, TrueAt(i, x)
               PROVE  x.mint = entries[i] /\ x.version \in started[entries[i]] .. version'[entries[i]]
    OBVIOUS
  <2>1. entries[i] \in Mints
    BY DEF BatchTypeOK
  <2> QED
    BY <1>3, <2>1 DEF TrueAt
<1>5. \A d : Positions(d) \subseteq 1 .. Len(entries)
  BY DEF Positions
<1>6. AnswersTrue' /\ OutputTrue'
  BY <1>1, <1>4, <1>5 DEF AnswersTrue, OutputTrue, TrueAt
<1>7. \A m \in Mints : started'[m] <= version'[m]
  BY <1>3
<1> QED
  BY <1>2, <1>6, <1>7

\* The node answers for the chunk it was asked about.
LEMMA AnswersKeeps == ASSUME BatchIInv, NEW c \in DOMAIN task, NodeAnswers(c) PROVE BatchIInv'
<1> USE DEF BatchIInv
<1>1. /\ loop = "join" /\ task[c] = "fetching" /\ task' = [task EXCEPT ![c] = "ok"]
      /\ reply' = [reply EXCEPT ![c] =
                      [j \in 1 .. Cardinality(Positions(c)) |->
                         Content(entries[Base(c) + j], version[entries[Base(c) + j]])]]
      /\ UNCHANGED <<loop, stop, known, entries, output, balances, version, started>>
  BY DEF NodeAnswers
<1>2. c \in Nat /\ entries \in Seq(Mints) /\ c \in DOMAIN reply
  BY DEF BatchTypeOK, Chunks
<1>3. ASSUME NEW i \in Positions(c) PROVE TrueAt(i, reply'[c][i - Base(c)])
  <2>1. /\ i \in 1 .. Len(entries) /\ i - Base(c) \in 1 .. Cardinality(Positions(c))
        /\ Base(c) + (i - Base(c)) = i
    BY <1>2, PositionsOfChunk
  <2>2. reply'[c][i - Base(c)] = Content(entries[i], version[entries[i]])
    BY <1>1, <1>2, <2>1
  <2>3. entries[i] \in Mints
    BY <1>2, <2>1
  <2>4. version[entries[i]] \in Nat /\ started[entries[i]] \in Nat /\ started[entries[i]] <= version[entries[i]]
    BY <2>3, BatchAssumption DEF BatchTypeOK
  <2> QED
    BY <2>2, <2>4 DEF TrueAt, Content
<1>4. Fetching' \subseteq Fetching
  BY <1>1 DEF Fetching
<1>5. \A d \in DOMAIN task : d # c => reply'[d] = reply[d]
  BY <1>1 DEF BatchTypeOK
<1> QED
  BY <1>1, <1>3, <1>4, <1>5, FetchingShrinks, TaskKeeps

LEMMA JoinKeeps == ASSUME BatchIInv, NEW c \in DOMAIN task, Join(c) PROVE BatchIInv'
<1> USE DEF BatchIInv
<1>1. /\ loop = "join" /\ task[c] = "ok" /\ task' = [task EXCEPT ![c] = "joined"]
      /\ output' = [i \in 1 .. Len(entries) |->
                      IF i \in Positions(c) THEN reply[c][i - Base(c)] ELSE output[i]]
      /\ UNCHANGED <<loop, stop, known, entries, reply, balances, version, started>>
  BY DEF Join, Collect
<1>2. \A i \in Positions(c) : i \in 1 .. Len(entries) /\ TrueAt(i, output'[i])
  <2>1. \A i \in Positions(c) : i \in 1 .. Len(entries) /\ TrueAt(i, reply[c][i - Base(c)])
    BY <1>1 DEF AnswersTrue, Positions
  <2> QED
    BY <1>1, <2>1
<1>3. \A i \in DOMAIN output : output'[i] = output[i] \/ TrueAt(i, output'[i])
  BY <1>1, <1>2 DEF BatchTypeOK
<1>4. Fetching' \subseteq Fetching
  BY <1>1 DEF Fetching
<1>5. DOMAIN output' = DOMAIN output
  BY <1>1 DEF BatchTypeOK
<1> QED
  BY <1>1, <1>2, <1>3, <1>4, <1>5, FetchingShrinks, TaskKeeps

LEMMA AcquireKeeps == ASSUME BatchIInv, NEW c \in DOMAIN task, Acquire(c) PROVE BatchIInv'
<1> USE DEF BatchIInv
<1>1. /\ loop = "join" /\ task[c] = "waiting" /\ Cardinality(Fetching) < MAX_CONCURRENCY
      /\ task' = [task EXCEPT ![c] = "fetching"]
      /\ UNCHANGED <<loop, stop, known, entries, reply, output, balances, version, started>>
  BY DEF Acquire
<1>2. Fetching' = Fetching \cup {c} /\ c \notin Fetching
  BY <1>1 DEF Fetching
<1>3. IsFiniteSet(Fetching) /\ Cardinality(Fetching) \in Nat
  BY FetchingIsFinite, FS_CardinalityType
<1>4. Cardinality(Fetching') = Cardinality(Fetching) + 1
  BY <1>2, <1>3, FS_AddElement
<1>5. Cardinality(Fetching') <= MAX_CONCURRENCY
  BY <1>1, <1>3, <1>4, BatchAssumption
<1> QED
  BY <1>1, <1>5, TaskKeeps

\* A batch starts with every place empty and every task waiting.
LEMMA BeginKeeps == ASSUME BatchIInv, Begin PROVE BatchIInv'
<1> USE DEF BatchIInv
<1>1. /\ entries' \in Orders(known) /\ task' = [c \in Chunks' |-> "waiting"]
      /\ reply' = [c \in Chunks' |-> << >>] /\ output' = [i \in 1 .. Len(entries') |-> Unread]
      /\ started' = version /\ loop' = "join" /\ UNCHANGED <<stop, known, balances, version>>
  BY DEF Begin
<1>2. entries' \in Seq(Mints)
  <2>1. known \subseteq Mints /\ IsFiniteSet(known)
    BY BatchAssumption, FS_Subset DEF BatchTypeOK
  <2>2. Cardinality(known) \in Nat
    BY <2>1, FS_CardinalityType
  <2>3. entries' \in [1 .. Cardinality(known) -> Mints]
    BY <1>1, <2>1 DEF Orders
  <2> QED
    BY <2>2, <2>3
<1>3. Fetching' = {}
  BY <1>1 DEF Fetching
<1>4. Cardinality(Fetching') <= MAX_CONCURRENCY
  BY <1>3, FS_EmptySet, BatchAssumption
<1>5. BatchTypeOK'
  BY <1>1, <1>2, <1>4 DEF BatchTypeOK
<1>6. AnswersTrue' /\ OutputTrue'
  BY <1>1 DEF AnswersTrue, OutputTrue
<1>7. \A m \in Mints : version[m] \in Nat
  BY BatchAssumption DEF BatchTypeOK
<1> QED
  BY <1>1, <1>5, <1>6, <1>7

-----------------------------------------------------------------------------
(* The invariant. *)

LEMMA InitBatchIInv == BatchInit => BatchIInv
<1> SUFFICES ASSUME BatchInit PROVE BatchIInv
  OBVIOUS
<1>1. entries = <<>> /\ DOMAIN task = {} /\ DOMAIN reply = {} /\ DOMAIN output = {} /\ Len(entries) = 0
  BY DEF BatchInit
<1>2. Chunks = {} /\ Fetching = {}
  BY <1>1 DEF Chunks, Positions, Fetching
<1>3. Cardinality(Fetching) <= MAX_CONCURRENCY
  BY <1>2, FS_EmptySet, BatchAssumption
<1>4. version \in [Mints -> 0 .. MaxVersion] /\ started = version /\ \A m \in Mints : version[m] = 0
  BY BatchAssumption DEF BatchInit
<1>5. DOMAIN task = Chunks /\ DOMAIN reply = Chunks /\ DOMAIN output = 1 .. Len(entries)
  BY <1>1, <1>2
<1>6. entries \in Seq(Mints)
  BY <1>1
<1>7. loop \in {"idle", "join", "ended"} /\ stop \in BOOLEAN /\ known \subseteq Mints
  BY DEF BatchInit
<1>8. BatchTypeOK
  BY <1>1, <1>3, <1>4, <1>5, <1>6, <1>7 DEF BatchTypeOK
<1> QED
  BY <1>1, <1>4, <1>8 DEF BatchIInv, AnswersTrue, OutputTrue

LEMMA NextBatchIInv == BatchIInv /\ [BatchNext]_batchVars => BatchIInv'
<1> SUFFICES ASSUME BatchIInv, [BatchNext]_batchVars PROVE BatchIInv'
  OBVIOUS
<1>0. \A m \in Mints : version[m] \in Nat /\ version[m] <= version[m]
  BY BatchAssumption DEF BatchIInv, BatchTypeOK
<1>1. CASE Begin
  BY <1>1, BeginKeeps
<1>2. CASE End
  BY <1>0, <1>2, OutsideKeeps DEF End, BatchIInv, BatchTypeOK
<1>3. CASE Finish
  BY <1>3, ForgetKeeps DEF Finish
<1>4. ASSUME NEW c \in DOMAIN task, Acquire(c) \/ NodeAnswers(c) \/ Join(c) PROVE BatchIInv'
  BY <1>4, AcquireKeeps, AnswersKeeps, JoinKeeps
<1>5. ASSUME NEW c \in DOMAIN task, JoinFailed(c) PROVE BatchIInv'
  BY <1>5, ForgetKeeps DEF JoinFailed
<1>6. ASSUME NEW c \in DOMAIN task, Fails(c) PROVE BatchIInv'
  <2>1. Fetching' \subseteq Fetching
    BY <1>6 DEF Fails, Fetching
  <2>2. Cardinality(Fetching') <= MAX_CONCURRENCY
    BY <2>1, FetchingShrinks DEF BatchIInv
  <2> QED
    BY <1>6, <2>2, TaskKeeps DEF Fails
<1>7. ASSUME NEW m \in Mints, BalanceMoves(m) PROVE BatchIInv'
  <2>1. version' \in [Mints -> 0 .. MaxVersion] /\ \A k \in Mints : version[k] <= version'[k]
    <3>1. version[m] \in Nat /\ version[m] + 1 \in 0 .. MaxVersion
      BY <1>7, BatchAssumption DEF BalanceMoves, BatchIInv, BatchTypeOK
    <3> QED
      BY <1>0, <1>7, <3>1 DEF BalanceMoves, BatchIInv, BatchTypeOK
  <2> QED
    BY <1>7, <2>1, OutsideKeeps DEF BalanceMoves, BatchIInv, BatchTypeOK
<1>8. ASSUME NEW m \in Mints, RegistryGrows(m) PROVE BatchIInv'
  BY <1>0, <1>8, OutsideKeeps DEF RegistryGrows, BatchIInv, BatchTypeOK
<1>9. CASE Stop
  BY <1>0, <1>9, OutsideKeeps DEF Stop, BatchIInv, BatchTypeOK
<1>10. CASE UNCHANGED batchVars
  BY <1>0, <1>10, OutsideKeeps DEF batchVars, BatchIInv, BatchTypeOK
<1> QED
  BY <1>1, <1>2, <1>3, <1>4, <1>5, <1>6, <1>7, <1>8, <1>9, <1>10 DEF BatchNext, Loop

THEOREM BatchInvariance == BatchSpec => []BatchIInv
  BY InitBatchIInv, NextBatchIInv, PTL DEF BatchSpec

\* No more requests under way than permits, and a task for every chunk, for every
\* number of addresses, chunk size and number of permits.
THEOREM BatchTypeCorrect == BatchSpec => []BatchTypeOK
<1>1. BatchIInv => BatchTypeOK
  BY DEF BatchIInv
<1> QED
  BY <1>1, BatchInvariance, PTL

\* The balances a round shows are those of the mints they are shown under, read
\* during the round, for every chunk size and order of completion.
THEOREM EveryRoundIsTrue == BatchSpec => RoundsAreTrue
<1> DEFINE P == balances' # balances => \A m \in DOMAIN balances' :
                  balances'[m].mint = m /\ balances'[m].version \in started[m] .. version[m]
<1>1. BatchIInv /\ [BatchNext]_batchVars => P
  <2> SUFFICES ASSUME BatchIInv, Finish PROVE P
    BY DEF BatchNext, Loop, Begin, End, Acquire, NodeAnswers, Join, JoinFailed, Fails,
           BalanceMoves, RegistryGrows, Stop, batchVars
  <2> SUFFICES ASSUME NEW m \in DOMAIN balances'
               PROVE  balances'[m].mint = m /\ balances'[m].version \in started[m] .. version[m]
    OBVIOUS
  <2> DEFINE i == CHOOSE k \in DOMAIN entries : entries[k] = m
  <2>1. m \in { entries[k] : k \in DOMAIN entries } /\ balances'[m] = output[i]
    BY DEF Finish
  <2>2. i \in DOMAIN entries /\ entries[i] = m
    BY <2>1
  <2> HIDE DEF i
  <2>3. entries \in Seq(Mints) /\ i \in 1 .. Len(entries)
    BY <2>2 DEF BatchIInv, BatchTypeOK
  <2>4. PICK c \in Chunks : i \in Positions(c)
    BY <2>3, ChunksCover
  <2>5. c \in DOMAIN task /\ task[c] = "joined"
    BY <2>4 DEF Finish, BatchIInv, BatchTypeOK
  <2>6. TrueAt(i, output[i])
    BY <2>4, <2>5 DEF BatchIInv, OutputTrue
  <2> QED
    BY <2>1, <2>2, <2>6 DEF TrueAt
<1>2. P => [balances' # balances => \A m \in DOMAIN balances' :
              /\ balances'[m].mint = m
              /\ balances'[m].version \in started[m] .. version[m]]_batchVars
  OBVIOUS
<1> HIDE DEF P
<1> QED
  BY <1>1, <1>2, BatchInvariance, PTL DEF BatchSpec, RoundsAreTrue

-----------------------------------------------------------------------------
(* The safety half of RoundsEnd. *)

Stage == [waiting |-> 0, fetching |-> 1, ok |-> 2, failed |-> 2, joined |-> 3]

\* During a call no task is spawned again, forgotten or sent back to wait: a step
\* ends the call, or leaves every task where it is or further on.
TasksMoveOn ==
  [][loop = "join" =>
       \/ loop' = "idle"
       \/ /\ loop' = "join" /\ entries' = entries /\ DOMAIN task' = DOMAIN task
          /\ \A c \in DOMAIN task : task'[c] = task[c] \/ Stage[task'[c]] > Stage[task[c]]]_batchVars

\* A call never waits for a permit nobody holds: it can return, or a task can be
\* joined or answered, or one of the waiting tasks finds a permit free.
PermitsComeBack ==
  loop = "join" =>
    \/ \A c \in DOMAIN task : task[c] = "joined"
    \/ \E c \in DOMAIN task : \/ task[c] \in {"fetching", "ok", "failed"}
                              \/ task[c] = "waiting" /\ Cardinality(Fetching) < MAX_CONCURRENCY

\* For every number of chunks and permits, a call takes at most three steps per
\* chunk and one to return.
THEOREM EveryTaskMovesOn == BatchSpec => TasksMoveOn
<1> DEFINE P == loop = "join" =>
                  \/ loop' = "idle"
                  \/ /\ loop' = "join" /\ entries' = entries /\ DOMAIN task' = DOMAIN task
                     /\ \A c \in DOMAIN task : task'[c] = task[c] \/ Stage[task'[c]] > Stage[task[c]]
<1>1. BatchIInv /\ [BatchNext]_batchVars => [P]_batchVars
  <2> SUFFICES ASSUME BatchIInv, BatchNext, loop = "join" PROVE P
    OBVIOUS
  <2>1. ASSUME NEW c \in DOMAIN task, Acquire(c) \/ NodeAnswers(c) \/ Join(c) \/ Fails(c) PROVE P
    <3>1. PICK s \in {"fetching", "ok", "joined", "failed"} :
            task' = [task EXCEPT ![c] = s] /\ Stage[s] > Stage[task[c]]
      BY <2>1 DEF Acquire, NodeAnswers, Join, Fails, Stage
    <3>2. loop' = "join" /\ entries' = entries
      BY <2>1 DEF Acquire, NodeAnswers, Join, Fails
    <3> QED
      BY <3>1, <3>2
  <2>2. ASSUME UNCHANGED <<loop, entries, task>> PROVE P
    BY <2>2
  <2>3. ASSUME NEW c \in DOMAIN task, JoinFailed(c) PROVE P
    BY <2>3 DEF JoinFailed
  <2>4. CASE Finish
    BY <2>4 DEF Finish
  <2> QED
    BY <2>1, <2>2, <2>3, <2>4 DEF BatchNext, Loop, Begin, End, BalanceMoves, RegistryGrows, Stop
<1> QED
  BY <1>1, BatchInvariance, PTL DEF BatchSpec, TasksMoveOn

\* A failed or dropped task never keeps a permit from the others, for every
\* number of permits: no call is stuck.
THEOREM NoCallIsStuck == BatchSpec => []PermitsComeBack
<1>1. BatchIInv => PermitsComeBack
  <2> SUFFICES ASSUME BatchIInv, NEW c \in DOMAIN task, task[c] # "joined",
                      \A d \in DOMAIN task : task[d] \notin {"fetching", "ok", "failed"}
               PROVE  task[c] = "waiting" /\ Cardinality(Fetching) < MAX_CONCURRENCY
    BY DEF PermitsComeBack
  <2>1. task[c] = "waiting"
    BY DEF BatchIInv, BatchTypeOK
  <2>2. Fetching = {}
    BY DEF Fetching
  <2> QED
    BY <2>1, <2>2, FS_EmptySet, BatchAssumption
<1> QED
  BY <1>1, BatchInvariance, PTL

-----------------------------------------------------------------------------
(* MarketCache: the inductive invariant.  OldMarketsListed says nothing of *)
(* what is in the cache or on the wire, so it is strengthened along the    *)
(* way of a row: a request is no older than MaxLatency, the rows read for  *)
(* it name every market that is older than the request, hence the snapshot *)
(* names every market older than its time stamp by more than MaxLatency.   *)

Clock == /\ \A m \in Markets : born[m] <= now
         /\ answer.at <= now

InFlight == \A c \in Callers : pc[c] # "idle" => now <= since[c] + MaxLatency

RowsComplete ==
  \A c \in Callers : pc[c] = "read" /\ rows[c] # {} =>
    \A m \in live \ Malformed : born[m] < since[c] => m \in rows[c]

CacheComplete ==
  cached => /\ markets # {}
            /\ \A m \in live \ Malformed : born[m] + MaxLatency < fetched_at => m \in markets

CacheIInv == /\ TypeOK /\ Clock /\ InFlight /\ RowsComplete
             /\ CacheComplete /\ OldMarketsListed

\* The initial state satisfies the inductive invariant: no call has been made
\* and nothing is cached.
LEMMA InitCacheIInv == Init => CacheIInv
<1> SUFFICES ASSUME Init PROVE CacheIInv
  OBVIOUS
<1>1. TypeOK
  <2>1. {} \in SUBSET (Markets \ Malformed) /\ {} \in SUBSET Markets
    OBVIOUS
  <2>2. answer \in Answers
    BY <2>1 DEF Init, Answers, Vias
  <2>3. rows \in [Callers -> SUBSET (Markets \ Malformed)]
    BY <2>1 DEF Init
  <2>4. /\ pc \in [Callers -> {"idle", "asked", "read"}]
        /\ op \in [Callers -> {"list", "refresh"}]
        /\ since \in [Callers -> 0 .. now]
        /\ born \in [Markets -> Nat]
    BY DEF Init
  <2>5. now \in Nat /\ fetched_at \in 0 .. now
    BY DEF Init
  <2>6. live \in SUBSET Markets /\ markets \in SUBSET (Markets \ Malformed) /\ cached \in BOOLEAN
    BY <2>1, Zenon DEF Init
  <2> QED
    BY <2>2, <2>3, <2>4, <2>5, <2>6 DEF TypeOK
<1>2. Clock /\ InFlight /\ RowsComplete /\ CacheComplete /\ OldMarketsListed
  BY DEF Init, Clock, InFlight, RowsComplete, CacheComplete, OldMarketsListed
<1> QED
  BY <1>1, <1>2 DEF CacheIInv

\* What storing the rows of a finished request keeps: the snapshot is complete
\* up to MaxLatency before its time stamp (markets_cache_put, called after
\* fetch_markets returned).
LEMMA PutKeepsCacheComplete ==
  ASSUME CacheIInv, NEW c \in Callers, pc[c] = "read", rows[c] # {},
         markets_cache_put(rows[c]), UNCHANGED <<now, born, live>>
  PROVE  CacheComplete'
<1>1. now <= since[c] + MaxLatency
  BY DEF CacheIInv, InFlight
<1>2. ASSUME NEW m \in live \ Malformed, born[m] + MaxLatency < now
      PROVE  m \in rows[c]
  <2>1. born[m] < since[c]
    BY <1>1, <1>2, MarketCacheAssumption DEF CacheIInv, TypeOK
  <2> QED
    BY <2>1 DEF CacheIInv, RowsComplete
<1> QED
  BY <1>2 DEF CacheComplete, markets_cache_put

\* What a returning call keeps: the other calls are as they were.
LEMMA ReturnKeepsCalls ==
  ASSUME CacheIInv, NEW c \in Callers, NEW via \in Vias, NEW ms \in SUBSET (Markets \ Malformed),
         Return(c, via, ms), UNCHANGED <<now, born, live>>
  PROVE  /\ pc' \in [Callers -> {"idle", "asked", "read"}]
         /\ op' \in [Callers -> {"list", "refresh"}]
         /\ since' \in [Callers -> 0 .. now']
         /\ rows' \in [Callers -> SUBSET (Markets \ Malformed)]
         /\ answer' \in Answers /\ answer' = [via |-> via, rows |-> ms, at |-> now]
         /\ Clock' /\ InFlight' /\ RowsComplete'
<1>1. /\ pc' \in [Callers -> {"idle", "asked", "read"}]
      /\ op' \in [Callers -> {"list", "refresh"}]
      /\ since' \in [Callers -> 0 .. now']
      /\ rows' \in [Callers -> SUBSET (Markets \ Malformed)]
  BY DEF CacheIInv, TypeOK, Return
<1>2. answer' = [via |-> via, rows |-> ms, at |-> now] /\ answer' \in Answers
  BY DEF CacheIInv, TypeOK, Return, Reply, Answers
<1>3. Clock'
  BY <1>2 DEF CacheIInv, TypeOK, Clock
<1>4. InFlight' /\ RowsComplete'
  BY DEF CacheIInv, TypeOK, InFlight, RowsComplete, Return
<1> QED
  BY <1>1, <1>2, <1>3, <1>4

\* Every step of the cache keeps the inductive invariant.
LEMMA NextCacheIInv == CacheIInv /\ [Next]_vars => CacheIInv'
<1> SUFFICES ASSUME CacheIInv, [Next]_vars PROVE CacheIInv'
  OBVIOUS
<1> USE MarketCacheAssumption DEF CacheIInv
<1>1. ASSUME NEW c \in Callers, ListCached(c) PROVE CacheIInv'
  <2>1. TypeOK'
    BY <1>1
    DEF ListCached, Reply, TypeOK, Answers, Vias,
        cacheVars, callVars
  <2>2. Clock' /\ InFlight' /\ RowsComplete' /\ CacheComplete'
    BY <1>1
    DEF ListCached, Reply, TypeOK, Clock, InFlight, RowsComplete,
        CacheComplete, cacheVars, callVars
  <2>3. OldMarketsListed'
    BY <1>1
    DEF ListCached, Fresh, Reply, TypeOK, CacheComplete,
        OldMarketsListed, cacheVars, callVars
  <2> QED
    BY <2>1, <2>2, <2>3
<1>2. ASSUME NEW c \in Callers, NEW method \in {"list", "refresh"}, Ask(c, method) PROVE CacheIInv'
  <2>1. TypeOK'
    BY <1>2 DEF Ask, TypeOK, cacheVars
  <2>2. Clock' /\ InFlight' /\ RowsComplete' /\ CacheComplete' /\ OldMarketsListed'
    BY <1>2
    DEF Ask, TypeOK, Clock, InFlight, RowsComplete, CacheComplete,
        OldMarketsListed, cacheVars
  <2> QED
    BY <2>1, <2>2
<1>3. ASSUME NEW c \in Callers, Read(c) PROVE CacheIInv'
  <2>1. TypeOK'
    BY <1>3 DEF Read, TypeOK, cacheVars
  <2>2. RowsComplete'
    BY <1>3 DEF Read, TypeOK, RowsComplete, cacheVars
  <2>3. Clock' /\ InFlight' /\ CacheComplete' /\ OldMarketsListed'
    BY <1>3
    DEF Read, TypeOK, Clock, InFlight, CacheComplete, OldMarketsListed,
        cacheVars
  <2> QED
    BY <2>1, <2>2, <2>3
<1>4. ASSUME NEW c \in Callers, ListReturns(c) PROVE CacheIInv'
  <2>1. CASE rows[c] # {} /\ markets_cache_put(rows[c]) /\ Return(c, "fetch", rows[c])
    <3>1. CacheComplete'
      BY <1>4, <2>1, PutKeepsCacheComplete DEF ListReturns
    <3>2. rows[c] \in SUBSET (Markets \ Malformed)
      BY DEF TypeOK
    <3>3. /\ pc' \in [Callers -> {"idle", "asked", "read"}]
          /\ op' \in [Callers -> {"list", "refresh"}]
          /\ since' \in [Callers -> 0 .. now']
          /\ rows' \in [Callers -> SUBSET (Markets \ Malformed)]
          /\ answer' \in Answers /\ answer' = [via |-> "fetch", rows |-> rows[c], at |-> now]
          /\ Clock' /\ InFlight' /\ RowsComplete'
      BY <1>4, <2>1, <3>2, ReturnKeepsCalls DEF ListReturns, Vias
    <3>4. TypeOK'
      BY <1>4, <2>1, <3>2, <3>3 DEF ListReturns, markets_cache_put, TypeOK
    <3>5. OldMarketsListed'
      <4>1. now <= since[c] + MaxLatency
        BY <1>4 DEF ListReturns, InFlight
      <4>2. ASSUME NEW m \in live \ Malformed, born[m] + TTL + MaxLatency <= now
            PROVE  m \in rows[c]
        <5>1. born[m] < since[c]
          BY <4>1, <4>2 DEF TypeOK
        <5> QED
          BY <1>4, <2>1, <5>1 DEF ListReturns, RowsComplete
      <4> QED
        BY <1>4, <3>3, <4>2 DEF ListReturns, OldMarketsListed
    <3> QED
      BY <3>1, <3>3, <3>4, <3>5
  <2>2. ASSUME NEW via \in {"stale", "empty"}, NEW ms \in SUBSET (Markets \ Malformed),
               Return(c, via, ms), UNCHANGED cacheVars
        PROVE  CacheIInv'
    <3>1. /\ pc' \in [Callers -> {"idle", "asked", "read"}]
          /\ op' \in [Callers -> {"list", "refresh"}]
          /\ since' \in [Callers -> 0 .. now']
          /\ rows' \in [Callers -> SUBSET (Markets \ Malformed)]
          /\ answer' \in Answers /\ answer' = [via |-> via, rows |-> ms, at |-> now]
          /\ Clock' /\ InFlight' /\ RowsComplete'
      BY <1>4, <2>2, ReturnKeepsCalls DEF ListReturns, Vias
    <3>2. TypeOK' /\ CacheComplete' /\ OldMarketsListed'
      BY <1>4, <2>2, <3>1
      DEF ListReturns, TypeOK, CacheComplete, OldMarketsListed,
          cacheVars
    <3> QED
      BY <3>1, <3>2
  <2>3. markets \in SUBSET (Markets \ Malformed) /\ {} \in SUBSET (Markets \ Malformed)
    BY DEF TypeOK
  <2> QED
    BY <1>4, <2>1, <2>2, <2>3 DEF ListReturns
<1>5. ASSUME NEW c \in Callers, RefreshReturns(c) PROVE CacheIInv'
  <2>1. rows[c] \in SUBSET (Markets \ Malformed)
    BY DEF TypeOK
  <2>2. /\ pc' \in [Callers -> {"idle", "asked", "read"}]
        /\ op' \in [Callers -> {"list", "refresh"}]
        /\ since' \in [Callers -> 0 .. now']
        /\ rows' \in [Callers -> SUBSET (Markets \ Malformed)]
        /\ answer' \in Answers /\ answer' = [via |-> "refresh", rows |-> rows[c], at |-> now]
        /\ Clock' /\ InFlight' /\ RowsComplete'
    BY <1>5, <2>1, ReturnKeepsCalls DEF RefreshReturns, Vias
  <2>3. CacheComplete'
    <3>1. CASE rows[c] # {} /\ markets_cache_put(rows[c])
      BY <1>5, <3>1, PutKeepsCacheComplete DEF RefreshReturns
    <3>2. CASE UNCHANGED cacheVars
      BY <1>5, <3>2 DEF RefreshReturns, CacheComplete, cacheVars
    <3> QED
      BY <1>5, <3>1, <3>2 DEF RefreshReturns
  <2>4. TypeOK'
    <3>1. CASE markets_cache_put(rows[c])
      BY <1>5, <2>1, <2>2, <3>1 DEF RefreshReturns, markets_cache_put, TypeOK
    <3>2. CASE UNCHANGED cacheVars
      BY <1>5, <2>2, <3>2 DEF RefreshReturns, TypeOK, cacheVars
    <3> QED
      BY <1>5, <3>1, <3>2 DEF RefreshReturns
  <2>5. OldMarketsListed'
    BY <2>2 DEF OldMarketsListed
  <2> QED
    BY <2>2, <2>3, <2>4, <2>5
<1>6. ASSUME NEW c \in Callers, FetchFails(c) PROVE CacheIInv'
  <2>1. /\ pc' \in [Callers -> {"idle", "asked", "read"}]
        /\ op' \in [Callers -> {"list", "refresh"}]
        /\ since' \in [Callers -> 0 .. now']
        /\ rows' \in [Callers -> SUBSET (Markets \ Malformed)]
        /\ answer' \in Answers /\ answer' = [via |-> "err", rows |-> {}, at |-> now]
        /\ Clock' /\ InFlight' /\ RowsComplete'
    BY <1>6, ReturnKeepsCalls DEF FetchFails, Vias
  <2>2. TypeOK' /\ CacheComplete' /\ OldMarketsListed'
    BY <1>6, <2>1
    DEF FetchFails, TypeOK, CacheComplete, OldMarketsListed, cacheVars
  <2> QED
    BY <2>1, <2>2
<1>7. ASSUME NEW m \in Markets, CreateMarket(m) PROVE CacheIInv'
  <2>1. TypeOK' /\ Clock' /\ InFlight'
    BY <1>7 DEF CreateMarket, TypeOK, Clock, InFlight, cacheVars, callVars
  <2>2. RowsComplete'
    BY <1>7 DEF CreateMarket, TypeOK, RowsComplete, cacheVars, callVars
  <2>3. CacheComplete'
    BY <1>7 DEF CreateMarket, TypeOK, CacheComplete, cacheVars, callVars
  <2>4. OldMarketsListed'
    BY <1>7
    DEF CreateMarket, TypeOK, Clock, OldMarketsListed, Answers,
        cacheVars, callVars
  <2> QED
    BY <2>1, <2>2, <2>3, <2>4
<1>8. CASE Tick
  BY <1>8
  DEF Tick, TypeOK, Answers, Clock, InFlight, RowsComplete, CacheComplete,
      OldMarketsListed, cacheVars, callVars
<1>9. CASE UNCHANGED vars
  BY <1>9
  DEF vars, TypeOK, Clock, InFlight, RowsComplete, CacheComplete,
      OldMarketsListed, cacheVars, callVars
<1> QED
  BY <1>1, <1>2, <1>3, <1>4, <1>5, <1>6, <1>7, <1>8, <1>9
  DEF Next, Call, ListAsks, RefreshAsks

\* The inductive invariant holds in every reachable state of the cache.
THEOREM CacheInvariance == Spec => []CacheIInv
  BY InitCacheIInv, NextCacheIInv, PTL DEF Spec

\* The cache and every call stay well typed, and no time stamp is ahead of the
\* clock, whatever the number of tasks.
THEOREM CacheTypeCorrect == Spec => []TypeOK
<1>1. CacheIInv => TypeOK
  BY DEF CacheIInv
<1> QED
  BY <1>1, CacheInvariance, PTL

\* list_markets names every decodable market older than TTL + MaxLatency when
\* it answers from the cache or a fetch, for every TTL and every latency.
THEOREM StalenessIsBounded == Spec => []OldMarketsListed
<1>1. CacheIInv => OldMarketsListed
  BY DEF CacheIInv
<1> QED
  BY <1>1, CacheInvariance, PTL

\* No list_markets call returns an empty list once a snapshot is stored: the
\* snapshot is never empty, and an empty fetch is answered from it.
THEOREM SnapshotSurvivesEmptyFetch == Spec => NoBlackout
<1>1. CacheIInv /\ [Next]_vars =>
        [cached /\ answer' # answer /\ answer'.via \in {"cache", "fetch", "stale", "empty"}
           => answer'.rows # {}]_vars
  <2> SUFFICES ASSUME CacheIInv, [Next]_vars, cached, answer' # answer,
                      answer'.via \in {"cache", "fetch", "stale", "empty"}
               PROVE  answer'.rows # {}
    OBVIOUS
  <2>1. markets # {}
    BY DEF CacheIInv, CacheComplete
  <2>2. ASSUME NEW c \in Callers, Call(c) PROVE answer'.rows # {}
    BY <2>1, <2>2
    DEF Call, ListCached, ListAsks, RefreshAsks, Ask,
        Read, ListReturns, RefreshReturns, FetchFails, Return,
        Reply
  <2>3. ASSUME NEW m \in Markets, CreateMarket(m) PROVE FALSE
    BY <2>3 DEF CreateMarket
  <2>4. CASE Tick \/ UNCHANGED vars
    BY <2>4 DEF Tick, vars
  <2> QED
    BY <2>2, <2>3, <2>4 DEF Next
<1> QED
  BY <1>1, CacheInvariance, PTL DEF Spec, NoBlackout
=============================================================================
