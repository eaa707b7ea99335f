--------------------------- MODULE RefreshTracker ---------------------------
(***************************************************************************)
(* refresh_tracker.go: the sharded map of refresh markers, its cleanup     *)
(* goroutine, Size and Stop, used by workers the way tryAsyncRefresh does: *)
(* Get, then TrySet, then Delete.                                          *)
(*                                                                         *)
(* Every critical section of a shard's lock is one action: it reads the    *)
(* clock once, after locking.  An expiry is kept as what is LEFT of it:    *)
(* expire - now, down to -1, which stands for every earlier time.          *)
(*                                                                         *)
(* An operator commented "Variant" is a faulty form of the definition that *)
(* follows it; nothing uses it but the checks that a property can fail.    *)
(***************************************************************************)
EXTENDS Integers, FiniteSets

CONSTANTS
  Keys, NoKey,
  Workers,          \* goroutines that refresh keys
  Stoppers,         \* goroutines that call Stop
  NumShards,        \* numShards
  ShardOf,          \* ShardOf[k]: fnv32a(k) & shardMask
  TrackerTTL,       \* EngineConfig.RefreshTrackerTTL
  RefreshTimeout,   \* EngineConfig.RefreshTimeout
  MinTTL            \* minRefreshTrackerTTL

ASSUME KeyAssumption == NoKey \notin Keys
ASSUME ShardAssumption ==
  /\ NumShards \in Nat \ {0}
  /\ ShardOf \in [Keys -> 0..NumShards - 1]
ASSUME TTLAssumption ==
  /\ TrackerTTL \in Int
  /\ RefreshTimeout \in Nat \ {0}
  /\ MinTTL \in Nat \ {0}

VARIABLES
  tracked,    \* keys with an entry in their shard's map
  left,       \* left[k]: expire time of that entry, less the time now
  wpc,        \* wpc[w]: "idle", "probed" (Get said no) or "holding"
  wkey,       \* wkey[w]: the key w is about
  cleaner,    \* the cleanup goroutine: "select", "shard" or "gone"
  shardIndex, \* the next shard it cleans
  stop,       \* cleanupCtx and stopOnce: "no", "closed" or "done"
  spc,        \* spc[s]: "no", "first" or "other" in Stop, or "returned"
  sizeAt,     \* the shard Size counts next; -1 when it is not running
  total,      \* what it has counted
  \* History, read by the properties and by no action of the tracker:
  mine,       \* mine[w]: what is left of the TTL since w's TrySet
  robbed,     \* robbed[w]: a worker that had no right to it ended w's lease
  ever,       \* keys with an entry at some time during the last Size
  always      \* keys with an entry all that time

mapVars    == <<tracked, left>>
workVars   == <<wpc, wkey, mine, robbed>>
cleanVars  == <<cleaner, shardIndex>>
stopVars   == <<stop, spc>>
sizeVars   == <<sizeAt, total>>
vars == <<mapVars, workVars, cleanVars, stopVars, sizeVars, ever, always>>

\* defaultRefreshTrackerTTL
DefaultTTL == IF 2 * RefreshTimeout < MinTTL THEN MinTTL ELSE 2 * RefreshTimeout

\* NewStaleEngineWithOptions, then NewRefreshTracker.
TTL == IF TrackerTTL =< 0 THEN DefaultTTL ELSE TrackerTTL

Shard(i) == {k \in Keys : ShardOf[k] = i}

Init ==
  /\ tracked = {}
  /\ left = [k \in Keys |-> 0]
  /\ wpc = [w \in Workers |-> "idle"]
  /\ wkey = [w \in Workers |-> NoKey]
  /\ cleaner = "select"
  /\ shardIndex = 0
  /\ stop = "no"
  /\ spc = [s \in Stoppers |-> "no"]
  /\ sizeAt = -1
  /\ total = 0
  /\ mine = [w \in Workers |-> 0]
  /\ robbed = [w \in Workers |-> FALSE]
  /\ ever = {}
  /\ always = {}

-----------------------------------------------------------------------------
(* TrySet, Get and Delete, in the order tryAsyncRefresh calls them.        *)

\* The map becomes new; a Size that is under way takes notice.
SetTracked(new) ==
  /\ tracked' = new
  /\ IF sizeAt \in 0..NumShards - 1
     THEN /\ ever' = ever \union new
          /\ always' = always \intersect new
     ELSE UNCHANGED <<ever, always>>

\* Variant: the entry counts as long as it is there.
ActiveWhileThere(k) == k \in tracked

\* exists && now.Before(expireTime)
Active(k) == k \in tracked /\ left[k] > 0

Worker(w, from, to, k) ==
  /\ wpc[w] = from
  /\ wpc' = [wpc EXCEPT ![w] = to]
  /\ wkey' = [wkey EXCEPT ![w] = k]
  /\ UNCHANGED <<cleanVars, stopVars, sizeVars>>

\* Get says no marker is there...
Get(w, k) ==
  /\ ~Active(k)
  /\ Worker(w, "idle", "probed", k)
  /\ UNCHANGED <<mapVars, mine, robbed, ever, always>>

\* ...but TrySet may still find one.
TrySetRefused(w) ==
  /\ Active(wkey[w])
  /\ Worker(w, "probed", "idle", NoKey)
  /\ UNCHANGED <<mapVars, mine, robbed, ever, always>>

\* Variant: an entry that is there keeps its expiry.
TrySetKeepsExpiry(w) ==
  /\ ~Active(wkey[w])
  /\ Worker(w, "probed", "holding", wkey[w])
  /\ SetTracked(tracked \union {wkey[w]})
  /\ left' = [left EXCEPT ![wkey[w]] = IF wkey[w] \in tracked THEN @ ELSE TTL]
  /\ mine' = [mine EXCEPT ![w] = TTL]
  /\ UNCHANGED robbed

TrySet(w) ==
  /\ ~Active(wkey[w])
  /\ Worker(w, "probed", "holding", wkey[w])
  /\ SetTracked(tracked \union {wkey[w]})
  /\ left' = [left EXCEPT ![wkey[w]] = TTL]
  /\ mine' = [mine EXCEPT ![w] = TTL]
  /\ UNCHANGED robbed

\* w was granted k less than TTL ago.
InLease(w, k) == wpc[w] = "holding" /\ wkey[w] = k /\ mine[w] > 0

\* Delete, whoever set the entry.
Delete(w) ==
  LET k == wkey[w] IN
  /\ Worker(w, "holding", "idle", NoKey)
  /\ SetTracked(tracked \ {k})
  /\ left' = [left EXCEPT ![k] = 0]
  /\ mine' = [mine EXCEPT ![w] = 0]
  /\ robbed' = [v \in Workers |->
       /\ v # w
       /\ robbed[v] \/ (InLease(v, k) /\ (robbed[w] \/ mine[w] = 0))]

\* Time passes for every expiry.
Tick ==
  /\ left' = [k \in Keys |-> IF k \in tracked /\ left[k] > -1 THEN left[k] - 1
                                                              ELSE left[k]]
  /\ mine' = [w \in Workers |-> IF mine[w] > 0 THEN mine[w] - 1 ELSE 0]
  /\ UNCHANGED <<tracked, wpc, wkey, robbed, cleanVars, stopVars, sizeVars,
                 ever, always>>

-----------------------------------------------------------------------------
(* The cleanup goroutine.                                                  *)

CleanerSteps(from, to) ==
  /\ cleaner = from
  /\ cleaner' = to
  /\ UNCHANGED <<workVars, stopVars, sizeVars>>

\* case <-ticker.C
CleanerTick ==
  /\ CleanerSteps("select", "shard")
  /\ UNCHANGED <<mapVars, shardIndex, ever, always>>

\* Variant: everything in the shard goes.
PastAll(i) == Shard(i) \intersect tracked

\* The entries of shard i with now.After(expireTime).
Past(i) == {k \in Shard(i) \intersect tracked : left[k] < 0}

\* Variant: the mask in place of the number of shards.
NextShardMasked(i) == (i + 1) % (NumShards - 1)

\* Variant: the round has no end.
NextShardPastEnd(i) == i + 1

\* (shardIndex + 1) % numShards
NextShard(i) == (i + 1) % NumShards

\* cleanupShard, and the next one in the round.
CleanupShard ==
  /\ CleanerSteps("shard", "select")
  /\ SetTracked(tracked \ Past(shardIndex))
  /\ left' = [k \in Keys |-> IF k \in Past(shardIndex) THEN 0 ELSE left[k]]
  /\ shardIndex' = NextShard(shardIndex)

\* Variant: Stop signals when it has waited.
CleanerStopsLate ==
  /\ stop = "done"
  /\ CleanerSteps("select", "gone")
  /\ UNCHANGED <<mapVars, shardIndex, ever, always>>

\* case <-rt.cleanupCtx, which select may pass over for a tick.
CleanerStops ==
  /\ stop # "no"
  /\ CleanerSteps("select", "gone")
  /\ UNCHANGED <<mapVars, shardIndex, ever, always>>

-----------------------------------------------------------------------------
(* Stop and Size.                                                          *)

\* stopOnce.Do: the first caller closes cleanupCtx.
StopBegins(s) ==
  /\ spc[s] = "no"
  /\ spc' = [spc EXCEPT ![s] = IF stop = "no" THEN "first" ELSE "other"]
  /\ stop' = IF stop = "no" THEN "closed" ELSE stop
  /\ UNCHANGED <<mapVars, workVars, cleanVars, sizeVars, ever, always>>

\* Variant: a flag in place of the Once, so that only the first caller waits.
MayReturnAtOnce(s) == spc[s] = "first" => cleaner = "gone"

\* The first caller has waited for the goroutine; the others for the first.
MayReturn(s) == IF spc[s] = "first" THEN cleaner = "gone" ELSE stop = "done"

StopReturns(s) ==
  /\ spc[s] \in {"first", "other"}
  /\ MayReturn(s)
  /\ spc' = [spc EXCEPT ![s] = "returned"]
  /\ stop' = "done"
  /\ UNCHANGED <<mapVars, workVars, cleanVars, sizeVars, ever, always>>

SizeBegins ==
  /\ sizeAt = -1
  /\ sizeAt' = 0
  /\ total' = 0
  /\ ever' = tracked
  /\ always' = tracked
  /\ UNCHANGED <<mapVars, workVars, cleanVars, stopVars>>

\* Variant: the whole map is counted for every shard.
CountedAll(i) == tracked

\* len(rt.shards[i].entries)
Counted(i) == Shard(i) \intersect tracked

\* One shard at a time, each under its own lock.
SizeCounts ==
  /\ sizeAt \in 0..NumShards - 1
  /\ sizeAt' = sizeAt + 1
  /\ total' = total + Cardinality(Counted(sizeAt))
  /\ UNCHANGED <<mapVars, workVars, cleanVars, stopVars, ever, always>>

SizeReturns ==
  /\ sizeAt = NumShards
  /\ sizeAt' = -1
  /\ total' = 0
  /\ ever' = {}
  /\ always' = {}
  /\ UNCHANGED <<mapVars, workVars, cleanVars, stopVars>>

-----------------------------------------------------------------------------
Refresh(w) ==
  (\E k \in Keys : Get(w, k)) \/ TrySetRefused(w) \/ TrySet(w) \/ Delete(w)

Next ==
  \/ \E w \in Workers : Refresh(w)
  \/ Tick
  \/ CleanerTick \/ CleanupShard \/ CleanerStops
  \/ \E s \in Stoppers : StopBegins(s) \/ StopReturns(s)
  \/ SizeBegins \/ SizeCounts \/ SizeReturns

Spec == Init /\ [][Next]_vars

\* The goroutines run and the ticker ticks; of two cases that are both ready
\* select picks one at random, so it does not pass over cleanupCtx for ever.
Fairness ==
  /\ WF_vars(CleanerTick \/ CleanupShard)
  /\ SF_vars(CleanerStops)
  /\ \A s \in Stoppers : WF_vars(StopReturns(s))

FairSpec == Spec /\ Fairness

-----------------------------------------------------------------------------
(* Properties.                                                             *)

TypeOK ==
  /\ tracked \in SUBSET Keys
  /\ left \in [Keys -> -1..TTL]
  /\ wpc \in [Workers -> {"idle", "probed", "holding"}]
  /\ wkey \in [Workers -> Keys \union {NoKey}]
  /\ \A w \in Workers : wpc[w] # "idle" <=> wkey[w] \in Keys
  /\ cleaner \in {"select", "shard", "gone"}
  /\ shardIndex \in 0..NumShards - 1
  /\ stop \in {"no", "closed", "done"}
  /\ spc \in [Stoppers -> {"no", "first", "other", "returned"}]
  /\ sizeAt \in -1..NumShards
  /\ total \in Nat
  /\ mine \in [Workers -> 0..TTL]
  /\ robbed \in [Workers -> BOOLEAN]
  /\ ever \in SUBSET Keys
  /\ always \in SUBSET Keys

\* The tracker is a lease service: the cleanup, the shards and Stop are
\* invisible to its users, a marker is granted only when none is active, and
\* it ends neither before nor after its TTL unless it is deleted.
Lease == INSTANCE RefreshLease WITH
  lease <- [k \in Keys |-> IF Active(k) THEN left[k] ELSE 0],
  held  <- [w \in Workers |-> IF wpc[w] = "holding" THEN wkey[w] ELSE NoKey]

ImplementsLease == Lease!Spec

\* Two workers are within the lease of one key only when one of them has lost
\* it to the Delete of a third that had outlived its own: TrySet itself never
\* admits a second refresh, and the cleanup never opens the way to one.
OneRefreshPerKey ==
  \A k \in Keys : \A v, w \in Workers :
    InLease(v, k) /\ InLease(w, k) /\ v # w => robbed[v] \/ robbed[w]

\* What Size returns, although it locks one shard after the other, is at least
\* the number of keys tracked all the time it ran and at most the number of
\* those tracked at some time of it.
SizeWithinCall ==
  sizeAt = NumShards => total \in Cardinality(always)..Cardinality(ever)

\* An expired marker that nobody replaces or deletes is removed by the round
\* of the cleanup, in whichever shard it is, as long as the tracker runs.
ExpiredRemoved ==
  \A k \in Keys :
    k \in tracked /\ left[k] < 0
      ~> k \notin tracked \/ left[k] > 0 \/ stop # "no"

\* No Stop returns before the cleanup goroutine is gone, the second of two
\* concurrent ones included.
StopMeansGone ==
  \A s \in Stoppers : spc[s] = "returned" => cleaner = "gone"

\* Every Stop returns, in the middle of a cleanup too.
StopEnds ==
  \A s \in Stoppers : spc[s] # "no" ~> spc[s] = "returned"

=============================================================================
