------------------------------ MODULE QueryCache ------------------------------
(***************************************************************************)
(* AuthQueryCache (src/pdns/auth-querycache.cc): the packet threads'      *)
(* record cache.  Entries live in shards chosen by the query name; each   *)
(* shard is a multi-index whose sequenced index keeps insertion order, the *)
(* front being the least recently inserted or replaced entry.  One gauge, *)
(* query-cache-size, is shared by all shards: insert() compares it with   *)
(* d_maxEntries to decide between growing and evicting, and purge(),      *)
(* purgeExact() and cleanup() lower it.                                   *)
(*                                                                         *)
(* Threads run insert(), purge(), purge(match) and cleanup() concurrently. *)
(* A shard's critical section is one step, except insert()'s: it reads    *)
(* the gauge and only then increments it, and other shards' threads may   *)
(* move the gauge in between, so that section is two steps and the shard *)
(* lock is explicit.  Gauge updates outside a shard lock are steps of     *)
(* their own.  The gauge is a 64-bit unsigned atomic; GaugeModulus keeps  *)
(* its wrap-around below zero.                                            *)
(***************************************************************************)
EXTENDS Naturals, FiniteSets, Sequences, SequencesExt

CONSTANTS
    Threads,       \* threads that call into the cache
    Names,         \* query names (one qtype and zone per name)
    NumShards,     \* d_maps.size()
    ShardOf,       \* getMap(): name -> shard index
    Matches,      \* match strings ending in '$' given to purge(match)
    SuffixMatch,   \* the names each such match selects
    MaxEntries,    \* d_maxEntries
    GaugeModulus,  \* 2^w for the gauge's width w
    OpsSettings,   \* the mixes of calls the threads may make
    NoThread       \* "unlocked" (model value)

Shards == 1..NumShards

ASSUME ShardOf \in [Names -> Shards]
ASSUME SuffixMatch \in [Matches -> SUBSET Names]
ASSUME MaxEntries \in Nat /\ GaugeModulus > MaxEntries
ASSUME OpsSettings \subseteq SUBSET {"insert", "purge", "purgeExact", "purgeSuffix", "cleanup"}

VARIABLES
    cache,   \* shard -> sequenced index: <<[name, live]>>, front first
    gauge,   \* *d_statnumentries
    lock,    \* shard -> thread holding its write lock, or NoThread
    pc,      \* thread -> where it is in its call
    arg,     \* thread -> the name or match it was called with
    seen,    \* thread -> the gauge value insert() compared
    delcount,\* thread -> entries erased and not yet subtracted
    next,    \* thread -> the next shard a loop over d_maps visits
    ops      \* the calls the threads make, fixed for a behaviour

vars == <<cache, gauge, lock, pc, arg, seen, delcount, next>>

Entry == [name : Names, live : BOOLEAN]

PC == {"idle", "count", "purging", "sub", "suffix", "pruning"}

\* The hash index is unique on the name, and a name lives in its own shard.
TypeOK ==
    /\ cache \in [Shards -> Seq(Entry)]
    /\ \A s \in Shards : \A i, j \in 1..Len(cache[s]) :
         /\ ShardOf[cache[s][i].name] = s
         /\ (cache[s][i].name = cache[s][j].name => i = j)
    /\ gauge \in 0..(GaugeModulus - 1)
    /\ lock \in [Shards -> Threads \cup {NoThread}]
    /\ pc \in [Threads -> PC]
    /\ arg \in [Threads -> Names \cup Matches]
    /\ seen \in [Threads -> 0..(GaugeModulus - 1)]
    /\ delcount \in [Threads -> Nat]
    /\ next \in [Threads -> 1..(NumShards + 1)]

Cached(s) == {cache[s][i].name : i \in 1..Len(cache[s])}

CachedNames == UNION {Cached(s) : s \in Shards}

TotalEntries == SumFunction([s \in Shards |-> Len(cache[s])])

\* Unsigned subtraction and increment of the gauge.
Minus(g, d) == (g - d) % GaugeModulus
Plus1(g) == (g + 1) % GaugeModulus

Free(s) == lock[s] = NoThread

Init ==
    /\ cache = [s \in Shards |-> <<>>]
    /\ gauge = 0
    /\ lock = [s \in Shards |-> NoThread]
    /\ pc = [t \in Threads |-> "idle"]
    /\ arg = [t \in Threads |-> CHOOSE n \in Names : TRUE]
    /\ seen = [t \in Threads |-> 0]
    /\ delcount = [t \in Threads |-> 0]
    /\ next = [t \in Threads |-> 1]

-----------------------------------------------------------------------------
(* insert(): try_write_lock on the name's shard; when another thread holds *)
(* it the insert is deferred, which leaves the cache as it was.  Under the *)
(* lock an existing entry is replaced and moved to the back; a new entry   *)
(* is appended and the gauge is read for the capacity test.  ttl 0 returns *)
(* before any of this.                                                     *)
InsertLockedAppendOnly(t, n) ==
    LET s == ShardOf[n] IN
    /\ "insert" \in ops
    /\ pc[t] = "idle"
    /\ Free(s)
    /\ cache' = [cache EXCEPT ![s] = Append(@, [name |-> n, live |-> TRUE])]
    /\ lock' = [lock EXCEPT ![s] = t]
    /\ seen' = [seen EXCEPT ![t] = gauge]
    /\ pc' = [pc EXCEPT ![t] = "count"]
    /\ arg' = [arg EXCEPT ![t] = n]
    /\ UNCHANGED <<gauge, delcount, next>>

InsertLocked(t, n) ==
    LET s == ShardOf[n]
        i == CHOOSE j \in 1..Len(cache[s]) : cache[s][j].name = n
    IN
    /\ "insert" \in ops
    /\ pc[t] = "idle"
    /\ Free(s)
    /\ IF n \in Cached(s)
         THEN /\ cache' = [cache EXCEPT ![s] = Append(RemoveAt(@, i), [name |-> n, live |-> TRUE])]
              /\ UNCHANGED <<lock, pc, seen>>
         ELSE /\ cache' = [cache EXCEPT ![s] = Append(@, [name |-> n, live |-> TRUE])]
              /\ lock' = [lock EXCEPT ![s] = t]
              /\ seen' = [seen EXCEPT ![t] = gauge]
              /\ pc' = [pc EXCEPT ![t] = "count"]
    /\ arg' = [arg EXCEPT ![t] = n]
    /\ UNCHANGED <<gauge, delcount, next>>

(* Still holding the lock: at capacity the front of this shard is popped, *)
(* otherwise the gauge is incremented; then the lock is released.          *)
InsertCountOffByOne(t) ==
    LET s == ShardOf[arg[t]] IN
    /\ pc[t] = "count"
    /\ IF seen[t] > MaxEntries
         THEN /\ cache' = [cache EXCEPT ![s] = Tail(@)]
              /\ UNCHANGED gauge
         ELSE /\ gauge' = Plus1(gauge)
              /\ UNCHANGED cache
    /\ lock' = [lock EXCEPT ![s] = NoThread]
    /\ pc' = [pc EXCEPT ![t] = "idle"]
    /\ UNCHANGED <<arg, seen, delcount, next>>

InsertCount(t) ==
    LET s == ShardOf[arg[t]] IN
    /\ pc[t] = "count"
    /\ IF seen[t] >= MaxEntries
         THEN /\ cache' = [cache EXCEPT ![s] = Tail(@)]
              /\ UNCHANGED gauge
         ELSE /\ gauge' = Plus1(gauge)
              /\ UNCHANGED cache
    /\ lock' = [lock EXCEPT ![s] = NoThread]
    /\ pc' = [pc EXCEPT ![t] = "idle"]
    /\ UNCHANGED <<arg, seen, delcount, next>>

(* purge(): the gauge is stored to 0 first ...                             *)
PurgeStoreZero(t) ==
    /\ "purge" \in ops
    /\ pc[t] = "idle"
    /\ gauge' = 0
    /\ next' = [next EXCEPT ![t] = 1]
    /\ pc' = [pc EXCEPT ![t] = "purging"]
    /\ UNCHANGED <<cache, lock, arg, seen, delcount>>

(* ... then purgeLockedCollectionsVector() clears the shards in order,     *)
(* each under its (blocking) write lock.                                   *)
PurgeShard(t) ==
    LET s == next[t] IN
    /\ pc[t] = "purging"
    /\ Free(s)
    /\ cache' = [cache EXCEPT ![s] = <<>>]
    /\ next' = [next EXCEPT ![t] = s + 1]
    /\ pc' = [pc EXCEPT ![t] = IF s = NumShards THEN "idle" ELSE "purging"]
    /\ UNCHANGED <<gauge, lock, arg, seen, delcount>>

(* purgeExact(qname), also purge(match) for a match without '$': erase     *)
(* every entry of the name from its shard under the lock, then subtract    *)
(* the count from the gauge.                                               *)
PurgeExact(t, n) ==
    LET s == ShardOf[n]
        kept == SelectSeq(cache[s], LAMBDA e : e.name # n)
    IN
    /\ "purgeExact" \in ops
    /\ pc[t] = "idle"
    /\ Free(s)
    /\ cache' = [cache EXCEPT ![s] = kept]
    /\ delcount' = [delcount EXCEPT ![t] = Len(cache[s]) - Len(kept)]
    /\ arg' = [arg EXCEPT ![t] = n]
    /\ pc' = [pc EXCEPT ![t] = "sub"]
    /\ UNCHANGED <<gauge, lock, seen, next>>

(* *d_statnumentries -= delcount, after the shard locks are released.      *)
SubtractErased(t) ==
    /\ pc[t] = "sub"
    /\ gauge' = Minus(gauge, delcount[t])
    /\ delcount' = [delcount EXCEPT ![t] = 0]
    /\ pc' = [pc EXCEPT ![t] = "idle"]
    /\ UNCHANGED <<cache, lock, arg, seen, next>>

(* purge(match) for a match ending in '$': every shard in order, under its *)
(* lock, loses the names the match selects; the total is then subtracted. *)
PurgeSuffixStart(t, m) ==
    /\ "purgeSuffix" \in ops
    /\ pc[t] = "idle"
    /\ arg' = [arg EXCEPT ![t] = m]
    /\ next' = [next EXCEPT ![t] = 1]
    /\ delcount' = [delcount EXCEPT ![t] = 0]
    /\ pc' = [pc EXCEPT ![t] = "suffix"]
    /\ UNCHANGED <<cache, gauge, lock, seen>>

PurgeSuffixShardNoSum(t) ==
    LET s == next[t]
        kept == SelectSeq(cache[s], LAMBDA e : e.name \notin SuffixMatch[arg[t]])
    IN
    /\ pc[t] = "suffix"
    /\ Free(s)
    /\ cache' = [cache EXCEPT ![s] = kept]
    /\ delcount' = [delcount EXCEPT ![t] = Len(cache[s]) - Len(kept)]
    /\ next' = [next EXCEPT ![t] = s + 1]
    /\ pc' = [pc EXCEPT ![t] = IF s = NumShards THEN "sub" ELSE "suffix"]
    /\ UNCHANGED <<gauge, lock, arg, seen>>

PurgeSuffixShard(t) ==
    LET s == next[t]
        kept == SelectSeq(cache[s], LAMBDA e : e.name \notin SuffixMatch[arg[t]])
    IN
    /\ pc[t] = "suffix"
    /\ Free(s)
    /\ cache' = [cache EXCEPT ![s] = kept]
    /\ delcount' = [delcount EXCEPT ![t] = @ + Len(cache[s]) - Len(kept)]
    /\ next' = [next EXCEPT ![t] = s + 1]
    /\ pc' = [pc EXCEPT ![t] = IF s = NumShards THEN "sub" ELSE "suffix"]
    /\ UNCHANGED <<gauge, lock, arg, seen>>

(* cleanupIfNeeded(): once every d_nextclean operations (or, at the        *)
(* longest interval, at most every 30 seconds) the calling thread runs     *)
(* cleanup() before its own insert or lookup.  The operation count and    *)
(* the interval only decide when; the model lets a cleanup start at any   *)
(* time.                                                                   *)
CleanupIfNeeded(t) ==
    /\ "cleanup" \in ops
    /\ pc[t] = "idle"
    /\ next' = [next EXCEPT ![t] = 1]
    /\ delcount' = [delcount EXCEPT ![t] = 0]
    /\ pc' = [pc EXCEPT ![t] = "pruning"]
    /\ UNCHANGED <<cache, gauge, lock, arg, seen>>

(* pruneLockedCollectionsVector<SequencedTag>: under the shard's lock, the *)
(* first (size + 9) / 10 entries of the sequenced index are looked at and *)
(* the expired ones among them erased.                                    *)
Prune(sq) ==
    LET lookAt == (Len(sq) + 9) \div 10 IN
    SelectSeq(SubSeq(sq, 1, lookAt), LAMBDA e : e.live)
        \o SubSeq(sq, lookAt + 1, Len(sq))

(* cleanup(): every shard in order, then *d_statnumentries -= totErased.   *)
PruneShard(t) ==
    LET s == next[t] IN
    /\ pc[t] = "pruning"
    /\ Free(s)
    /\ cache' = [cache EXCEPT ![s] = Prune(@)]
    /\ delcount' = [delcount EXCEPT ![t] = @ + Len(cache[s]) - Len(Prune(cache[s]))]
    /\ next' = [next EXCEPT ![t] = s + 1]
    /\ pc' = [pc EXCEPT ![t] = IF s = NumShards THEN "sub" ELSE "pruning"]
    /\ UNCHANGED <<gauge, lock, arg, seen>>

(* Time passes: an entry's ttd falls behind now. *)
Expire(n) ==
    LET s == ShardOf[n] IN
    /\ "cleanup" \in ops
    /\ \E i \in 1..Len(cache[s]) :
         /\ cache[s][i] = [name |-> n, live |-> TRUE]
         /\ cache' = [cache EXCEPT ![s][i].live = FALSE]
    /\ UNCHANGED <<gauge, lock, pc, arg, seen, delcount, next>>

Next ==
    \/ \E t \in Threads :
         \/ \E n \in Names : InsertLocked(t, n) \/ PurgeExact(t, n)
         \/ \E m \in Matches : PurgeSuffixStart(t, m)
         \/ InsertCount(t)
         \/ PurgeStoreZero(t) \/ PurgeShard(t)
         \/ PurgeSuffixShard(t)
         \/ CleanupIfNeeded(t) \/ PruneShard(t)
         \/ SubtractErased(t)
    \/ \E n \in Names : Expire(n)

\* Which calls the server's threads make is chosen once; no step changes it.
QCInit == Init /\ ops \in OpsSettings
QCSpec == QCInit /\ [][Next /\ UNCHANGED ops]_<<vars, ops>>

-----------------------------------------------------------------------------
(* Whenever no call is in progress, the query-cache-size gauge equals the  *)
(* number of entries in the shards: insert() counts what it adds, and      *)
(* purge(), purgeExact(), purge(match) and cleanup() take off what they     *)
(* erase, with the shard locks released in between.                         *)
GaugeMatchesEntries ==
    (\A t \in Threads : pc[t] = "idle") => gauge = TotalEntries

(* The same, in a server whose threads do not call purge(): its reset of  *)
(* the gauge before the shards are cleared is the one step that breaks it. *)
GaugeMatchesEntriesWithoutPurge ==
    "purge" \notin ops => GaugeMatchesEntries

(* insert()'s capacity test and increment are not atomic across shards,   *)
(* so concurrent inserts into different shards may each keep an entry      *)
(* after reading a gauge just below d_maxEntries; beyond that the cache    *)
(* never holds more than d_maxEntries entries once the inserts in progress *)
(* have made their capacity test (before it, the new entry is already in   *)
(* the shard and may be the one evicted).  Stated for the call mixes       *)
(* without purge(): its early reset of the gauge lets inserts overshoot.   *)
CapacityBound ==
    "purge" \notin ops =>
    LET racers == IF Cardinality(Threads) < NumShards
                    THEN Cardinality(Threads) ELSE NumShards
        testing == Cardinality({t \in Threads : pc[t] = "count"})
    IN TotalEntries - testing <= MaxEntries + racers - 1
====
