---------------------------- MODULE MarketCache ----------------------------
(***************************************************************************)
(* The market cache of ChainReader (chain_reader.rs): one snapshot of the  *)
(* program's market accounts behind a mutex, shared by every handler       *)
(* (list_markets) and by the bank refresh loop (refresh_markets).  The     *)
(* lock is never held over the fetch, so fetches of several tasks overlap  *)
(* and are stored in the order in which they return.                       *)
(***************************************************************************)
EXTENDS Naturals

CONSTANTS Callers,     \* the tasks that share the ChainReader
          Markets,     \* market accounts that may come to exist
          Malformed,   \* those whose data decode_market_fixed refuses
          TTL,         \* MARKET_CACHE_TTL, in ticks of the clock
          MaxLatency,  \* the longest a getProgramAccounts call takes
          MaxTime      \* bound of the clock

ASSUME MarketCacheAssumption ==
  /\ Malformed \subseteq Markets
  /\ TTL \in Nat \ {0} /\ MaxLatency \in Nat /\ MaxTime \in Nat

VARIABLES
  now,         \* the clock
  born,        \* per market: the time its account appeared
  live,        \* the market accounts on chain
  cached,      \* markets_cache is Some
  fetched_at,  \* its time stamp
  markets,     \* its snapshot
  pc,          \* per caller: idle, asked (request sent), read (rows taken)
  op,          \* per caller: the method under way, list or refresh
  since,       \* per caller: when the request was sent
  rows,        \* per caller: the decoded rows the node returned
  answer       \* history: the last answer to any caller, [via, rows, at]

cacheVars == <<cached, fetched_at, markets>>
callVars  == <<pc, op, since, rows>>
vars      == <<now, born, live, cacheVars, callVars, answer>>

Vias == {"none", "cache", "fetch", "stale", "empty", "refresh", "err"}

Answers == [via : Vias, rows : SUBSET Markets, at : Nat]

Init ==
  /\ now = 0 /\ live \in SUBSET Markets /\ born = [m \in Markets |-> 0]
  /\ cached = FALSE /\ fetched_at = 0 /\ markets = {}
  /\ pc = [c \in Callers |-> "idle"] /\ op = [c \in Callers |-> "list"]
  /\ since = [c \in Callers |-> 0] /\ rows = [c \in Callers |-> {}]
  /\ answer = [via |-> "none", rows |-> {}, at |-> 0]

Reply(via, ms) == answer' = [via |-> via, rows |-> ms, at |-> now]

\* A call that has waited for the node is over; its locals are gone.
Return(c, via, ms) ==
  /\ pc' = [pc EXCEPT ![c] = "idle"] /\ op' = op
  /\ since' = [since EXCEPT ![c] = 0] /\ rows' = [rows EXCEPT ![c] = {}]
  /\ Reply(via, ms)

\* mutant: the age test admits an entry that is exactly TTL old
FreshInclusive == cached /\ now - fetched_at <= TTL

\* markets_cache_get: an entry younger than the TTL.
Fresh == cached /\ now - fetched_at < TTL

\* markets_cache_put stamps the entry with the time of storing it, which is
\* after the fetch returned.
markets_cache_put(ms) == /\ cached' = TRUE
                         /\ fetched_at' = now
                         /\ markets' = ms

\* list_markets, answered from the cache.
ListCached(c) ==
  /\ pc[c] = "idle" /\ Fresh
  /\ Reply("cache", markets)
  /\ UNCHANGED <<now, born, live, cacheVars, callVars>>

Ask(c, method) ==
  /\ pc[c] = "idle" /\ pc' = [pc EXCEPT ![c] = "asked"]
  /\ op' = [op EXCEPT ![c] = method]
  /\ since' = [since EXCEPT ![c] = now]
  /\ UNCHANGED <<now, born, live, cacheVars, rows, answer>>

\* list_markets, expired or never filled: the request of fetch_markets is sent.
ListAsks(c) == ~Fresh /\ Ask(c, "list")

\* refresh_markets does not look at the cache.
RefreshAsks(c) == Ask(c, "refresh")

\* mutant: a row that does not decode is kept
ReadKeepsMalformed(c) ==
  /\ pc[c] = "asked" /\ pc' = [pc EXCEPT ![c] = "read"]
  /\ \E ms \in {live, {}} : rows' = [rows EXCEPT ![c] = ms]
  /\ UNCHANGED <<now, born, live, cacheVars, op, since, answer>>

\* The node evaluates the request, at once over all accounts, or returns zero
\* rows under load; fetch_markets skips the rows that do not decode.
Read(c) ==
  /\ pc[c] = "asked" /\ pc' = [pc EXCEPT ![c] = "read"]
  /\ \E ms \in {live \ Malformed, {}} : rows' = [rows EXCEPT ![c] = ms]
  /\ UNCHANGED <<now, born, live, cacheVars, op, since, answer>>

\* mutant: an empty fetch is stored like any other
ListReturnsStoresEmpty(c) ==
  /\ pc[c] = "read" /\ op[c] = "list"
  /\ markets_cache_put(rows[c])
  /\ Return(c, IF rows[c] = {} THEN "empty" ELSE "fetch", rows[c])
  /\ UNCHANGED <<now, born, live>>

\* The rest of list_markets: rows are stored and returned; an empty fetch
\* leaves the cache alone and is answered from it, whatever its age.
ListReturns(c) ==
  /\ pc[c] = "read" /\ op[c] = "list"
  /\ \/ rows[c] # {} /\ markets_cache_put(rows[c]) /\ Return(c, "fetch", rows[c])
     \/ rows[c] = {} /\ cached /\ Return(c, "stale", markets) /\ UNCHANGED cacheVars
     \/ rows[c] = {} /\ ~cached /\ Return(c, "empty", {}) /\ UNCHANGED cacheVars
  /\ UNCHANGED <<now, born, live>>

\* The rest of refresh_markets.
RefreshReturns(c) ==
  /\ pc[c] = "read" /\ op[c] = "refresh"
  /\ Return(c, "refresh", rows[c])
  /\ \/ rows[c] # {} /\ markets_cache_put(rows[c])
     \/ rows[c] = {} /\ UNCHANGED cacheVars
  /\ UNCHANGED <<now, born, live>>

\* `?`: the RPC call fails, before or after the node has evaluated it.
FetchFails(c) ==
  /\ pc[c] # "idle"
  /\ Return(c, "err", {})
  /\ UNCHANGED <<now, born, live, cacheVars>>

\* Environment: a market is created; its account is never closed.
CreateMarket(m) ==
  /\ m \notin live
  /\ live' = live \union {m} /\ born' = [born EXCEPT ![m] = now]
  /\ UNCHANGED <<now, cacheVars, callVars, answer>>

\* Environment: time passes; no request outlives MaxLatency.
Tick ==
  /\ now < MaxTime
  /\ \A c \in Callers : pc[c] # "idle" => now < since[c] + MaxLatency
  /\ now' = now + 1
  /\ UNCHANGED <<born, live, cacheVars, callVars, answer>>

Call(c) == \/ ListCached(c) \/ ListAsks(c) \/ RefreshAsks(c) \/ Read(c)
           \/ ListReturns(c) \/ RefreshReturns(c) \/ FetchFails(c)

Next == \/ \E c \in Callers : Call(c)
        \/ \E m \in Markets : CreateMarket(m)
        \/ Tick

Spec == Init /\ [][Next]_vars

-----------------------------------------------------------------------------
(* Properties *)

\* The type invariant: the cache holds decoded markets only, and no time stamp
\* is ahead of the clock, so `elapsed` is never negative.
TypeOK ==
  /\ now \in Nat /\ live \in SUBSET Markets /\ born \in [Markets -> Nat]
  /\ cached \in BOOLEAN /\ fetched_at \in 0 .. now
  /\ markets \in SUBSET (Markets \ Malformed)
  /\ pc \in [Callers -> {"idle", "asked", "read"}]
  /\ op \in [Callers -> {"list", "refresh"}]
  /\ since \in [Callers -> 0 .. now]
  /\ rows \in [Callers -> SUBSET (Markets \ Malformed)]
  /\ answer \in Answers

\* Once any task has stored a snapshot, no list_markets call that returns Ok
\* is answered with an empty list: a transient empty fetch neither wipes the
\* snapshot nor shows through it, however the fetches of the tasks overlap.
NoBlackout ==
  [][cached /\ answer' # answer /\ answer'.via \in {"cache", "fetch", "stale", "empty"}
       => answer'.rows # {}]_vars

\* How late a market may be seen: a list_markets answer from the cache or from
\* a fetch names every decodable market older than TTL + MaxLatency, although
\* a slow fetch may overwrite a newer snapshot and restart its age.
OldMarketsListed ==
  answer.via \in {"cache", "fetch"} =>
    \A m \in live \ Malformed :
      born[m] + TTL + MaxLatency <= answer.at
        => m \in answer.rows
=============================================================================
