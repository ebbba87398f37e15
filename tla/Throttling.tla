------------------------------- MODULE Throttling -------------------------------
(***************************************************************************)
(* The rate limit of one key (a throttler and a client).  Redis counts for *)
(* all servers, one command at a time; a server whose connection is down   *)
(* or whose command fails counts in its own memory instead.  Time is in    *)
(* the expiries: the window of a count, and a block, may end at any moment.*)
(***************************************************************************)
EXTENDS Integers, FiniteSets

CONSTANTS
    Hits,        \* requests of the key
    Servers,     \* processes of the API
    RateLimit,   \* limit: hits of a window that pass
    MaxWindows   \* bound on the windows of Redis and of one memory

ASSUME ThrottlingAssumption == RateLimit \in Nat \ {0} /\ MaxWindows \in Nat \ {0}

VARIABLES
    counter,      \* rate:<key>: its count, whether it has an expiry, its window
    blockKey,     \* rate:block:<key> is set
    bucket,       \* bucket[s]: the memory of s: count, window, over (expired), blocked
    hit,          \* hit[h]: where it is, on which server, what INCR answered and in which window
    interrupted   \* a request broke off between INCR and PEXPIRE

throttlingVars == <<counter, blockKey, bucket, hit, interrupted>>

NoBucket == [count |-> 0, window |-> 0, over |-> FALSE, blocked |-> FALSE]

ThrottlingTypeOK ==
    /\ counter \in [count : 0 .. Cardinality(Hits), expiring : BOOLEAN, window : 0 .. MaxWindows]
    /\ blockKey \in BOOLEAN /\ interrupted \in BOOLEAN
    /\ bucket \in [Servers -> [count : 0 .. Cardinality(Hits), window : 0 .. MaxWindows,
                               over : BOOLEAN, blocked : BOOLEAN]]
    /\ hit \in [Hits -> [pc : {"new", "arrived", "counting", "expiring", "judged", "memory",
                               "admitted", "refused", "lost"},
                         server : Servers, total : Nat, by : {"none", "redis", "memory"}, window : Nat]]

ThrottlingInit ==
    /\ counter = [count |-> 0, expiring |-> FALSE, window |-> 0] /\ blockKey = FALSE
    /\ bucket = [s \in Servers |-> NoBucket]
    /\ hit \in [Hits -> {[pc |-> "new", server |-> s, total |-> 0, by |-> "none", window |-> 0] : s \in Servers}]
    /\ interrupted = FALSE

\* increment: Redis if the connection of the server is ready, else memory.
Arrive(h, ready) ==
    /\ hit[h].pc = "new" /\ hit' = [hit EXCEPT ![h].pc = IF ready THEN "arrived" ELSE "memory"]
    /\ UNCHANGED <<counter, blockKey, bucket, interrupted>>

CheckBlock(h) ==
    /\ hit[h].pc = "arrived" /\ hit' = [hit EXCEPT ![h].pc = IF blockKey THEN "refused" ELSE "counting"]
    /\ UNCHANGED <<counter, blockKey, bucket, interrupted>>

\* Mutant: the count is read at its expiry instead of taken from INCR.
IncrementStale(h) ==
    /\ hit[h].pc = "counting"
    /\ hit' = [hit EXCEPT ![h] = [@ EXCEPT !.pc = "expiring", !.total = counter.count,
                                           !.by = "redis", !.window = counter.window]]
    /\ counter' = [counter EXCEPT !.count = @ + 1]
    /\ UNCHANGED <<blockKey, bucket, interrupted>>
\* INCR, which makes the key when it is not there; only the first hit sets its expiry.
Increment(h) ==
    /\ hit[h].pc = "counting" /\ (counter.count = 0 => counter.window < MaxWindows)
    /\ LET total == counter.count + 1
           window == counter.window + (IF total = 1 THEN 1 ELSE 0)
       IN /\ counter' = [counter EXCEPT !.count = total, !.window = window]
          /\ hit' = [hit EXCEPT ![h] = [@ EXCEPT !.pc = IF total = 1 THEN "expiring" ELSE "judged",
                                                 !.total = total, !.by = "redis", !.window = window]]
    /\ UNCHANGED <<blockKey, bucket, interrupted>>

SetExpiry(h) ==
    /\ hit[h].pc = "expiring" /\ hit' = [hit EXCEPT ![h].pc = "judged"]
    /\ counter' = [counter EXCEPT !.expiring = TRUE]
    /\ UNCHANGED <<blockKey, bucket, interrupted>>

Judge(h) ==
    /\ hit[h].pc = "judged"
    /\ hit' = [hit EXCEPT ![h].pc = IF hit[h].total > RateLimit THEN "refused" ELSE "admitted"]
    /\ blockKey' = (blockKey \/ hit[h].total > RateLimit)
    /\ UNCHANGED <<counter, bucket, interrupted>>

\* Any command may fail, or its answer be lost; the request goes to memory.
RedisFails(h) ==
    /\ hit[h].pc \in {"arrived", "counting", "expiring", "judged"}
    /\ interrupted' = (interrupted \/ hit[h].pc = "expiring")
    /\ hit' = [hit EXCEPT ![h] = [@ EXCEPT !.pc = "memory", !.by = "none"]]
    /\ UNCHANGED <<counter, blockKey, bucket>>

\* The memory of a process counts in one step of its event loop.
CountInMemory(h) ==
    LET s == hit[h].server   b == bucket[s]
        fresh == b.count = 0 \/ (b.over /\ ~b.blocked)
        count == IF fresh THEN 1 ELSE b.count + 1
        window == b.window + (IF fresh THEN 1 ELSE 0)
        refused == b.blocked \/ count > RateLimit
    IN /\ hit[h].pc = "memory" /\ window <= MaxWindows
       /\ bucket' = IF b.blocked THEN bucket
                    ELSE [bucket EXCEPT ![s] = [count |-> count, window |-> window,
                                                over |-> ~fresh /\ b.over, blocked |-> refused]]
       /\ hit' = [hit EXCEPT ![h] = [@ EXCEPT !.pc = IF refused THEN "refused" ELSE "admitted",
                                              !.by = "memory", !.window = window]]
       /\ UNCHANGED <<counter, blockKey, interrupted>>

WindowEnds ==
    /\ counter.expiring /\ counter' = [counter EXCEPT !.count = 0, !.expiring = FALSE]
    /\ UNCHANGED <<blockKey, bucket, hit, interrupted>>

BlockEnds == blockKey /\ blockKey' = FALSE /\ UNCHANGED <<counter, bucket, hit, interrupted>>

MemoryWindowEnds(s) ==
    /\ bucket[s].count > 0 /\ ~bucket[s].over /\ bucket' = [bucket EXCEPT ![s].over = TRUE]
    /\ UNCHANGED <<counter, blockKey, hit, interrupted>>

MemoryBlockEnds(s) ==
    /\ bucket[s].blocked /\ bucket' = [bucket EXCEPT ![s].blocked = FALSE]
    /\ UNCHANGED <<counter, blockKey, hit, interrupted>>

\* A process stops: its requests are lost and its memory starts anew.
ServerStops(s) ==
    LET lost == {h \in Hits : hit[h].server = s /\ hit[h].pc \notin {"new", "admitted", "refused", "lost"}} IN
    /\ lost # {}
    /\ interrupted' = (interrupted \/ \E h \in lost : hit[h].pc = "expiring")
    /\ hit' = [h \in Hits |-> IF h \in lost THEN [hit[h] EXCEPT !.pc = "lost"] ELSE hit[h]]
    /\ bucket' = [bucket EXCEPT ![s] = [NoBucket EXCEPT !.window = bucket[s].window]]
    /\ UNCHANGED <<counter, blockKey>>

ThrottlingNext ==
    \/ WindowEnds \/ BlockEnds
    \/ \E h \in Hits : \/ \E ready \in BOOLEAN : Arrive(h, ready)
                       \/ CheckBlock(h) \/ Increment(h) \/ SetExpiry(h)
                       \/ Judge(h) \/ RedisFails(h) \/ CountInMemory(h)
    \/ \E s \in Servers : MemoryWindowEnds(s) \/ MemoryBlockEnds(s) \/ ServerStops(s)

ThrottlingSpec == ThrottlingInit /\ [][ThrottlingNext]_throttlingVars

(***************************************************************************)
(* Properties.                                                             *)
(***************************************************************************)
\* "The API keeps rejecting abusive traffic (degraded, not wide open)"
\* (memory-throttler.storage.ts:14-15): whatever fails, a window of the shared counter, and a
\* window of one server's memory, lets at most the limit through, and a counter that counts
\* has an expiry coming unless the one request that would set it was interrupted.
LimitsHold ==
    /\ \A h \in Hits : hit[h].pc = "admitted" =>
         Cardinality({g \in Hits : /\ hit[g].pc = "admitted" /\ hit[g].by = hit[h].by
                                   /\ hit[g].window = hit[h].window
                                   /\ hit[h].by = "memory" => hit[g].server = hit[h].server}) <= RateLimit
    /\ counter.count > 0 /\ ~counter.expiring /\ ~interrupted =>
         \E h \in Hits : hit[h].pc = "expiring" /\ hit[h].window = counter.window
===============================================================================
