------------------------ MODULE RefreshTrackerProofs ------------------------
(***************************************************************************)
(* What RefreshTracker keeps for every set of keys and workers, every      *)
(* number of shards, however keys are spread over them, and every TTL.     *)
(***************************************************************************)
EXTENDS RefreshTracker, FiniteSetTheorems, TLAPS

\* A marker lasts for a positive time, whatever the configuration says.
LEMMA TTLPositive == TTL \in Nat \ {0}
  BY TTLAssumption DEF TTL, DefaultTTL

\* The round of the cleanup stays within the shards.
LEMMA NextShardInRange ==
  ASSUME NEW i \in 0..NumShards - 1
  PROVE  NextShard(i) \in 0..NumShards - 1
<1>1. /\ NumShards \in Nat \ {0}
      /\ i + 1 \in Nat
  BY ShardAssumption
<1>2. \A a \in Int, n \in Nat \ {0} : a % n \in 0..n - 1
  BY Z3
<1>3. QED
  BY <1>1, <1>2 DEF NextShard

-----------------------------------------------------------------------------
(* Types.                                                                  *)

\* Only finitely many keys are ever tracked, since they come one by one.
FiniteMaps == IsFiniteSet(tracked) /\ IsFiniteSet(ever)

Typed == TypeOK /\ FiniteMaps

LEMMA TypedInit == Init => Typed
  BY TTLPositive, ShardAssumption, KeyAssumption, FS_EmptySet
     DEF Init, Typed, TypeOK, FiniteMaps

\* What a new map means for the sets a Size under way keeps.
LEMMA SetTrackedTyped ==
  ASSUME Typed, NEW new \in SUBSET Keys, IsFiniteSet(new), SetTracked(new)
  PROVE  /\ tracked' \in SUBSET Keys
         /\ ever' \in SUBSET Keys
         /\ always' \in SUBSET Keys
         /\ FiniteMaps'
<1>1. IsFiniteSet(ever \union new)
  BY FS_Union DEF Typed, FiniteMaps
<1>2. QED
  BY <1>1 DEF Typed, TypeOK, FiniteMaps, SetTracked

LEMMA TypedStep == Typed /\ [Next]_vars => Typed'
<1> SUFFICES ASSUME Typed, [Next]_vars
             PROVE  Typed'
  OBVIOUS
<1> USE TTLPositive
<1>a. TypeOK /\ FiniteMaps
  BY DEF Typed
<1>1. ASSUME NEW w \in Workers, Refresh(w)
      PROVE  Typed'
  <2>1. ASSUME NEW k \in Keys, Get(w, k)
        PROVE  Typed'
    BY <1>a, <2>1 DEF Typed, TypeOK, FiniteMaps, Get, Worker, mapVars,
       cleanVars, stopVars, sizeVars
  <2>2. CASE TrySetRefused(w)
    BY <1>a, <2>2, KeyAssumption DEF Typed, TypeOK, FiniteMaps, TrySetRefused,
       Worker, mapVars, cleanVars, stopVars, sizeVars
  <2>3. CASE TrySet(w)
    <3>1. wkey[w] \in Keys
      BY <1>a, <2>3 DEF TypeOK, TrySet, Worker
    <3>2. IsFiniteSet(tracked \union {wkey[w]})
      BY <1>a, FS_AddElement DEF FiniteMaps
    <3>3. tracked \union {wkey[w]} \in SUBSET Keys
      BY <1>a, <3>1 DEF TypeOK
    <3>4. /\ tracked' \in SUBSET Keys /\ ever' \in SUBSET Keys
          /\ always' \in SUBSET Keys /\ FiniteMaps'
      <4>1. SetTracked(tracked \union {wkey[w]})
        BY <2>3 DEF TrySet
      <4>2. QED
        BY <3>2, <3>3, <4>1, SetTrackedTyped
    <3>5. QED
      BY <1>a, <2>3, <3>1, <3>4 DEF Typed, TypeOK, TrySet, Worker, cleanVars,
         stopVars, sizeVars
  <2>4. CASE Delete(w)
    <3>1. wkey[w] \in Keys
      BY <1>a, <2>4 DEF TypeOK, Delete, Worker
    <3>2. IsFiniteSet(tracked \ {wkey[w]})
      BY <1>a, FS_RemoveElement DEF FiniteMaps
    <3>3. tracked \ {wkey[w]} \in SUBSET Keys
      BY <1>a DEF TypeOK
    <3>4. /\ tracked' \in SUBSET Keys /\ ever' \in SUBSET Keys
          /\ always' \in SUBSET Keys /\ FiniteMaps'
      <4>1. SetTracked(tracked \ {wkey[w]})
        BY <2>4 DEF Delete
      <4>2. QED
        BY <3>2, <3>3, <4>1, SetTrackedTyped
    <3>5. /\ left' \in [Keys -> -1..TTL]
          /\ mine' \in [Workers -> 0..TTL]
          /\ wpc' \in [Workers -> {"idle", "probed", "holding"}]
          /\ wkey' \in [Workers -> Keys \union {NoKey}]
          /\ \A v \in Workers : wpc'[v] # "idle" <=> wkey'[v] \in Keys
      BY <1>a, <2>4, <3>1, KeyAssumption DEF TypeOK, Delete, Worker
    <3>6. robbed' \in [Workers -> BOOLEAN]
      <4>1. \A v \in Workers : robbed[v] \in BOOLEAN
        BY <1>a DEF TypeOK
      <4>2. QED
        BY <2>4, <4>1, Zenon DEF Delete, InLease
    <3>7. UNCHANGED <<cleanVars, stopVars, sizeVars>>
      BY <2>4 DEF Delete, Worker
    <3>8. QED
      BY <1>a, <3>4, <3>5, <3>6, <3>7 DEF Typed, TypeOK, cleanVars, stopVars,
         sizeVars
  <2>5. QED
    BY <1>1, <2>1, <2>2, <2>3, <2>4 DEF Refresh
<1>2. CASE Tick
  BY <1>a, <1>2 DEF Typed, TypeOK, FiniteMaps, Tick, cleanVars, stopVars,
     sizeVars
<1>3. CASE CleanerTick \/ CleanerStops
  BY <1>a, <1>3 DEF Typed, TypeOK, FiniteMaps, CleanerTick, CleanerStops,
     CleanerSteps, mapVars, workVars, stopVars, sizeVars
<1>4. CASE CleanupShard
  <2>1. IsFiniteSet(tracked \ Past(shardIndex))
    BY <1>a, FS_Difference DEF FiniteMaps
  <2>2. tracked \ Past(shardIndex) \in SUBSET Keys
    BY <1>a DEF TypeOK
  <2>3. /\ tracked' \in SUBSET Keys /\ ever' \in SUBSET Keys
        /\ always' \in SUBSET Keys /\ FiniteMaps'
    <3>1. SetTracked(tracked \ Past(shardIndex))
      BY <1>4 DEF CleanupShard
    <3>2. QED
      BY <2>1, <2>2, <3>1, SetTrackedTyped
  <2>4. shardIndex' \in 0..NumShards - 1
    BY <1>a, <1>4, NextShardInRange DEF TypeOK, CleanupShard
  <2>5. left' \in [Keys -> -1..TTL]
    BY <1>a, <1>4 DEF TypeOK, CleanupShard
  <2>6. QED
    BY <1>a, <1>4, <2>3, <2>4, <2>5 DEF Typed, TypeOK, CleanupShard,
       CleanerSteps, workVars, stopVars, sizeVars
<1>5. ASSUME NEW s \in Stoppers, StopBegins(s) \/ StopReturns(s)
      PROVE  Typed'
  BY <1>a, <1>5 DEF Typed, TypeOK, FiniteMaps, StopBegins, StopReturns, mapVars,
     workVars, cleanVars, sizeVars
<1>6. CASE SizeBegins \/ SizeReturns
  <2>1. IsFiniteSet({})
    BY FS_EmptySet
  <2>2. CASE SizeBegins
    BY <1>a, <2>2, ShardAssumption DEF Typed, TypeOK, FiniteMaps, SizeBegins,
       mapVars, workVars, cleanVars, stopVars
  <2>3. CASE SizeReturns
    BY <1>a, <2>1, <2>3, ShardAssumption DEF Typed, TypeOK, FiniteMaps,
       SizeReturns, mapVars, workVars, cleanVars, stopVars
  <2>4. QED
    BY <1>6, <2>2, <2>3
<1>7. CASE SizeCounts
  <2>1. Cardinality(Counted(sizeAt)) \in Nat
    <3>1. IsFiniteSet(Counted(sizeAt))
      BY <1>a, FS_Intersection DEF FiniteMaps, Counted
    <3>2. QED
      BY <3>1, FS_CardinalityType
  <2>2. QED
    BY <1>a, <1>7, <2>1, ShardAssumption DEF Typed, TypeOK, FiniteMaps,
       SizeCounts, mapVars, workVars, cleanVars, stopVars
<1>8. CASE UNCHANGED vars
  BY <1>a, <1>8 DEF Typed, TypeOK, FiniteMaps, vars, mapVars, workVars,
     cleanVars, stopVars, sizeVars
<1>9. QED
  BY <1>1, <1>2, <1>3, <1>4, <1>5, <1>6, <1>7, <1>8 DEF Next

LEMMA TypedInvariant == Spec => []Typed
  BY TypedInit, TypedStep, PTL DEF Spec

\* Type correctness of the tracker beside its cleanup, Size and Stop; the next
\* shard to clean is always one that exists.
THEOREM Typing == Spec => []TypeOK
<1>1. Typed => TypeOK
  BY DEF Typed
<1>2. QED
  BY TypedInvariant, <1>1, PTL


-----------------------------------------------------------------------------
(* A refresh per key.                                                      *)

\* w is within a lease of k that nobody has ended before its time.
Rightful(w, k) == InLease(w, k) /\ ~robbed[w]

\* The entry of a rightful holder is still there, and is its own.
MarkerKept ==
  \A k \in Keys : \A w \in Workers :
    Rightful(w, k) => k \in tracked /\ left[k] = mine[w]

LeaseInv == MarkerKept /\ OneRefreshPerKey

LEMMA LeaseInvInit == Init => LeaseInv
  BY DEF Init, LeaseInv, MarkerKept, OneRefreshPerKey, Rightful, InLease

LEMMA LeaseInvStep == TypeOK /\ LeaseInv /\ [Next]_vars => LeaseInv'
<1> SUFFICES ASSUME TypeOK, LeaseInv, [Next]_vars
             PROVE  LeaseInv'
  OBVIOUS
<1>a. MarkerKept /\ OneRefreshPerKey
  BY DEF LeaseInv
<1> USE DEF InLease
<1>1. ASSUME NEW w \in Workers, Refresh(w)
      PROVE  LeaseInv'
  <2>1. ASSUME TrySetRefused(w) \/ \E k \in Keys : Get(w, k)
        PROVE  LeaseInv'
    <3>1. /\ UNCHANGED <<tracked, left, mine, robbed>>
          /\ wpc[w] # "holding"
          /\ \E to \in {"idle", "probed"} : wpc' = [wpc EXCEPT ![w] = to]
          /\ \E k \in Keys \union {NoKey} : wkey' = [wkey EXCEPT ![w] = k]
      BY <2>1 DEF Get, TrySetRefused, Worker, mapVars
    <3>2. \A v \in Workers : /\ wpc'[v] = "holding" <=> wpc[v] = "holding"
                             /\ wpc[v] = "holding" => wkey'[v] = wkey[v]
      BY <3>1 DEF TypeOK
    <3>3. MarkerKept'
      BY <1>a, <3>1, <3>2 DEF MarkerKept, Rightful
    <3>4. OneRefreshPerKey'
      BY <1>a, <3>1, <3>2 DEF OneRefreshPerKey
    <3>5. QED
      BY <3>3, <3>4 DEF LeaseInv
  <2>2. CASE TrySet(w)
    <3>1. \A v \in Workers : ~Rightful(v, wkey[w])
      BY <1>a, <2>2 DEF TypeOK, MarkerKept, Rightful, TrySet, Active, Worker
    <3>2. /\ wkey[w] \in Keys /\ wpc[w] = "probed"
          /\ wpc' = [wpc EXCEPT ![w] = "holding"]
          /\ wkey' = [wkey EXCEPT ![w] = wkey[w]]
          /\ tracked' = tracked \union {wkey[w]}
          /\ left' = [left EXCEPT ![wkey[w]] = TTL]
          /\ mine' = [mine EXCEPT ![w] = TTL]
          /\ robbed' = robbed
      BY <2>2 DEF TypeOK, TrySet, Worker, SetTracked
    <3>3. MarkerKept'
      BY <1>a, <3>1, <3>2 DEF TypeOK, MarkerKept, Rightful
    <3>4. OneRefreshPerKey'
      BY <1>a, <3>1, <3>2 DEF TypeOK, OneRefreshPerKey, Rightful
    <3>5. QED
      BY <3>3, <3>4 DEF LeaseInv
  <2>3. CASE Delete(w)
    <3> DEFINE k == wkey[w]
               outlived == robbed[w] \/ mine[w] = 0
    <3>1. /\ k \in Keys /\ wpc[w] = "holding"
          /\ wpc' = [wpc EXCEPT ![w] = "idle"]
          /\ wkey' = [wkey EXCEPT ![w] = NoKey]
          /\ tracked' = tracked \ {k}
          /\ left' = [left EXCEPT ![k] = 0]
          /\ mine' = [mine EXCEPT ![w] = 0]
      BY <2>3 DEF TypeOK, Delete, Worker, SetTracked
    <3>2. \A v \in Workers : v # w =>
            (robbed'[v] <=> robbed[v] \/ (InLease(v, k) /\ outlived))
      BY <2>3, Zenon DEF Delete
    <3>3. \A v \in Workers, j \in Keys :
            InLease(v, j)' => v # w /\ InLease(v, j)
      BY <3>1 DEF TypeOK
    <3>4. \A v \in Workers : v # w /\ Rightful(v, k) => outlived
      BY <1>a, <3>1 DEF TypeOK, OneRefreshPerKey, Rightful
    <3>5. \A v \in Workers, j \in Keys :
            Rightful(v, j)' => v # w /\ j # k /\ Rightful(v, j)
      BY <3>2, <3>3, <3>4 DEF Rightful
    <3>6. MarkerKept'
      BY <1>a, <3>1, <3>5 DEF TypeOK, MarkerKept
    <3>7. OneRefreshPerKey'
      BY <1>a, <3>2, <3>3 DEF OneRefreshPerKey
    <3>8. QED
      BY <3>6, <3>7 DEF LeaseInv
  <2>4. QED
    BY <1>1, <2>1, <2>2, <2>3 DEF Refresh
<1>2. CASE Tick
  <2>1. /\ wpc' = wpc /\ wkey' = wkey /\ robbed' = robbed /\ tracked' = tracked
        /\ left' = [k \in Keys |-> IF k \in tracked /\ left[k] > -1
                                   THEN left[k] - 1 ELSE left[k]]
        /\ mine' = [w \in Workers |-> IF mine[w] > 0 THEN mine[w] - 1 ELSE 0]
    BY <1>2 DEF Tick
  <2>2. \A w \in Workers, k \in Keys : InLease(w, k)' => InLease(w, k)
    BY <2>1 DEF TypeOK
  <2>3. MarkerKept'
    BY <1>a, <2>1, <2>2 DEF TypeOK, MarkerKept, Rightful
  <2>4. OneRefreshPerKey'
    BY <1>a, <2>1, <2>2 DEF OneRefreshPerKey
  <2>5. QED
    BY <2>3, <2>4 DEF LeaseInv
<1>3. CASE CleanupShard
  <2>1. /\ tracked' = tracked \ Past(shardIndex)
        /\ left' = [k \in Keys |-> IF k \in Past(shardIndex) THEN 0 ELSE left[k]]
        /\ UNCHANGED workVars
    BY <1>3 DEF CleanupShard, SetTracked, CleanerSteps
  <2>2. \A w \in Workers, k \in Keys : Rightful(w, k) => k \notin Past(shardIndex)
    BY <1>a DEF TypeOK, MarkerKept, Rightful, Past
  <2>3. QED
    BY <1>a, <2>1, <2>2 DEF TypeOK, LeaseInv, MarkerKept, OneRefreshPerKey,
       Rightful, workVars
<1>4. ASSUME UNCHANGED <<mapVars, workVars>>
      PROVE  LeaseInv'
  BY <1>a, <1>4 DEF LeaseInv, MarkerKept, OneRefreshPerKey, Rightful, mapVars,
     workVars
<1>5. ASSUME \/ CleanerTick \/ CleanerStops
             \/ \E s \in Stoppers : StopBegins(s) \/ StopReturns(s)
             \/ SizeBegins \/ SizeCounts \/ SizeReturns
             \/ UNCHANGED vars
      PROVE  UNCHANGED <<mapVars, workVars>>
  BY <1>5 DEF CleanerTick, CleanerStops, CleanerSteps, StopBegins, StopReturns,
     SizeBegins, SizeCounts, SizeReturns, vars
<1>6. QED
  BY <1>1, <1>2, <1>3, <1>4, <1>5 DEF Next

LEMMA LeaseInvariant == Spec => []LeaseInv
  BY LeaseInvInit, LeaseInvStep, Typing, PTL DEF Spec

\* Two goroutines are within the lease of one key only after a third, whose
\* own lease was over, has deleted the marker of one of them: neither TrySet
\* nor the cleanup goroutine ever lets a second refresh in.
THEOREM RefreshExclusive == Spec => []OneRefreshPerKey
<1>1. LeaseInv => OneRefreshPerKey
  BY DEF LeaseInv
<1>2. QED
  BY LeaseInvariant, <1>1, PTL

-----------------------------------------------------------------------------
(* The end of a marker.                                                    *)

Holds(w, k) == wpc[w] = "holding" /\ wkey[w] = k

\* A key in the map has a goroutine that will delete it.
MarkerHeld == \A k \in tracked : \E w \in Workers : Holds(w, k)

LEMMA MarkerHeldStep == TypeOK /\ MarkerHeld /\ [Next]_vars => MarkerHeld'
<1> SUFFICES ASSUME TypeOK, MarkerHeld, [Next]_vars
             PROVE  MarkerHeld'
  OBVIOUS
<1>1. ASSUME \A w \in Workers : \A k \in Keys : Holds(w, k) => Holds(w, k)',
             tracked' \subseteq tracked
      PROVE  MarkerHeld'
  BY <1>1 DEF TypeOK, MarkerHeld
<1>2. ASSUME NEW w \in Workers, TrySetRefused(w) \/ \E k \in Keys : Get(w, k)
      PROVE  MarkerHeld'
  <2>1. wpc[w] # "holding" /\ tracked' = tracked
    BY <1>2 DEF Get, TrySetRefused, Worker, mapVars
  <2>2. \A v \in Workers : v # w => wpc'[v] = wpc[v] /\ wkey'[v] = wkey[v]
    BY <1>2 DEF TypeOK, Get, TrySetRefused, Worker
  <2>3. QED
    BY <1>1, <2>1, <2>2 DEF Holds
<1>3. ASSUME NEW w \in Workers, TrySet(w)
      PROVE  MarkerHeld'
  <2>1. /\ wpc[w] = "probed" /\ wpc' = [wpc EXCEPT ![w] = "holding"]
        /\ wkey' = wkey
        /\ tracked' = tracked \union {wkey[w]}
    BY <1>3 DEF TypeOK, TrySet, Worker, SetTracked
  <2>2. \A v \in Workers : \A k \in Keys : Holds(v, k) => Holds(v, k)'
    BY <2>1 DEF TypeOK, Holds
  <2>3. wpc'[w] = "holding" /\ wkey'[w] = wkey[w]
    BY <2>1 DEF TypeOK
  <2>4. QED
    BY <2>1, <2>2, <2>3 DEF TypeOK, MarkerHeld, Holds
<1>4. ASSUME NEW w \in Workers, Delete(w)
      PROVE  MarkerHeld'
  <2>1. wpc[w] = "holding" /\ tracked' = tracked \ {wkey[w]}
    BY <1>4 DEF Delete, Worker, SetTracked
  <2>2. \A v \in Workers : v # w => wpc'[v] = wpc[v] /\ wkey'[v] = wkey[v]
    BY <1>4 DEF TypeOK, Delete, Worker
  <2>3. QED
    BY <2>1, <2>2 DEF MarkerHeld, Holds
<1>5. ASSUME \/ Tick \/ CleanerTick \/ CleanupShard \/ CleanerStops
             \/ \E s \in Stoppers : StopBegins(s) \/ StopReturns(s)
             \/ SizeBegins \/ SizeCounts \/ SizeReturns
             \/ UNCHANGED vars
      PROVE  MarkerHeld'
  <2>1. wpc' = wpc /\ wkey' = wkey /\ tracked' \subseteq tracked
    BY <1>5 DEF Tick, CleanerTick, CleanupShard, CleanerStops, CleanerSteps,
       SetTracked, StopBegins, StopReturns, SizeBegins, SizeCounts,
       SizeReturns, mapVars, workVars, vars
  <2>2. QED
    BY <1>1, <2>1 DEF Holds
<1>6. QED
  BY <1>2, <1>3, <1>4, <1>5 DEF Next, Refresh

\* A key is in the map only while a goroutine that TrySet it is on its way to
\* the Delete: however markers expire, are cleaned up and are deleted by the
\* wrong goroutine, none is left to keep a refresh out with nobody to end it.
THEOREM NoMarkerForgotten == Spec => []MarkerHeld
<1>1. Init => MarkerHeld
  BY DEF Init, MarkerHeld
<1>2. QED
  BY <1>1, MarkerHeldStep, Typing, PTL DEF Spec

-----------------------------------------------------------------------------
(* Stop.                                                                   *)

\* Only the caller that closed cleanupCtx waits for the goroutine; "done"
\* means that it has, and the others wait for that.
StopInv ==
  /\ stop = "done" => cleaner = "gone"
  /\ \A s \in Stoppers : spc[s] = "returned" => stop = "done"

LEMMA StopInvStep == TypeOK /\ StopInv /\ [Next]_vars => StopInv'
<1> SUFFICES ASSUME TypeOK, StopInv, [Next]_vars
             PROVE  StopInv'
  OBVIOUS
<1> USE DEF StopInv
<1>1. ASSUME NEW s \in Stoppers, StopBegins(s)
      PROVE  StopInv'
  BY <1>1 DEF TypeOK, StopBegins, cleanVars
<1>2. ASSUME NEW s \in Stoppers, StopReturns(s)
      PROVE  StopInv'
  BY <1>2 DEF TypeOK, StopReturns, MayReturn, cleanVars
<1>3. ASSUME CleanerTick \/ CleanupShard \/ CleanerStops
      PROVE  StopInv'
  BY <1>3 DEF CleanerTick, CleanupShard, CleanerStops, CleanerSteps, stopVars
<1>4. ASSUME UNCHANGED <<cleanVars, stopVars>>
      PROVE  StopInv'
  BY <1>4 DEF cleanVars, stopVars
<1>5. ASSUME \/ \E w \in Workers : Refresh(w)
             \/ Tick \/ SizeBegins \/ SizeCounts \/ SizeReturns
             \/ UNCHANGED vars
      PROVE  UNCHANGED <<cleanVars, stopVars>>
  BY <1>5 DEF Refresh, Get, TrySetRefused, TrySet, Delete, Worker, Tick,
     SizeBegins, SizeCounts, SizeReturns, vars
<1>6. QED
  BY <1>1, <1>2, <1>3, <1>4, <1>5 DEF Next

\* Whoever returns from Stop, first or not, finds the cleanup goroutine gone.
THEOREM StopWaits == Spec => []StopMeansGone
<1>1. Init => StopInv
  BY DEF Init, StopInv
<1>2. StopInv => StopMeansGone
  BY DEF StopInv, StopMeansGone
<1>3. QED
  BY <1>1, StopInvStep, <1>2, Typing, PTL DEF Spec

\* The Once of Stop: one caller closes cleanupCtx and stays until it has waited,
\* the others came after it, and the goroutine leaves only when it is told to.
OnceInv ==
  /\ \A s \in Stoppers : spc[s] = "first" => stop = "closed"
  /\ \A s, r \in Stoppers : spc[s] = "first" /\ spc[r] = "first" => s = r
  /\ \A s \in Stoppers : spc[s] = "other" => stop # "no"
  /\ stop = "closed" => \E s \in Stoppers : spc[s] = "first"
  /\ cleaner = "gone" => stop # "no"

LEMMA OnceInvStep == TypeOK /\ OnceInv /\ [Next]_vars => OnceInv'
<1> SUFFICES ASSUME TypeOK, OnceInv, [Next]_vars
             PROVE  OnceInv'
  OBVIOUS
<1>a. /\ spc \in [Stoppers -> {"no", "first", "other", "returned"}]
      /\ stop \in {"no", "closed", "done"}
  BY DEF TypeOK
<1>1. ASSUME NEW s \in Stoppers, StopBegins(s)
      PROVE  OnceInv'
  <2>1. /\ spc[s] = "no" /\ cleaner' = cleaner /\ stop' # "no"
        /\ \A r \in Stoppers : r # s => spc'[r] = spc[r]
    BY <1>1, <1>a DEF StopBegins, cleanVars
  <2>2. CASE stop = "no"
    <3>1. spc'[s] = "first" /\ stop' = "closed"
      BY <1>1, <1>a, <2>2 DEF StopBegins
    <3>2. \A r \in Stoppers : spc[r] # "first"
      BY <2>2 DEF OnceInv
    <3>3. QED
      BY <2>1, <3>1, <3>2 DEF OnceInv
  <2>3. CASE stop # "no"
    <3>1. spc'[s] = "other" /\ stop' = stop
      BY <1>1, <1>a, <2>3 DEF StopBegins
    <3>2. QED
      BY <2>1, <2>3, <3>1 DEF OnceInv
  <2>4. QED
    BY <2>2, <2>3
<1>2. ASSUME NEW s \in Stoppers, StopReturns(s)
      PROVE  OnceInv'
  <2>1. /\ cleaner' = cleaner /\ stop' = "done" /\ spc'[s] = "returned"
        /\ \A r \in Stoppers : r # s => spc'[r] = spc[r]
    BY <1>2, <1>a DEF StopReturns, cleanVars
  <2>2. \A r \in Stoppers : r # s => spc[r] # "first"
    BY <1>2 DEF StopReturns, MayReturn, OnceInv
  <2>3. QED
    BY <2>1, <2>2 DEF OnceInv
<1>3. ASSUME CleanerTick \/ CleanupShard \/ CleanerStops
      PROVE  OnceInv'
  BY <1>3 DEF OnceInv, CleanerTick, CleanupShard, CleanerStops, CleanerSteps,
     stopVars
<1>4. ASSUME UNCHANGED <<cleanVars, stopVars>>
      PROVE  OnceInv'
  BY <1>4 DEF OnceInv, cleanVars, stopVars
<1>5. ASSUME \/ \E w \in Workers : Refresh(w)
             \/ Tick \/ SizeBegins \/ SizeCounts \/ SizeReturns
             \/ UNCHANGED vars
      PROVE  UNCHANGED <<cleanVars, stopVars>>
  BY <1>5 DEF Refresh, Get, TrySetRefused, TrySet, Delete, Worker, Tick,
     SizeBegins, SizeCounts, SizeReturns, vars
<1>6. QED
  BY <1>1, <1>2, <1>3, <1>4, <1>5 DEF Next

InStop(s) == spc[s] \in {"first", "other"}

\* Somebody inside Stop can leave it as soon as the goroutine is gone, and the
\* goroutine has been told to go.
StopGoesOn ==
  (\E s \in Stoppers : InStop(s)) =>
    /\ stop # "no"
    /\ cleaner = "gone" => \E s \in Stoppers : InStop(s) /\ MayReturn(s)

\* The callers of Stop never all wait for one another: while any of them waits
\* for the first, the first is there, and what it waits for has been told to
\* go.  That the goroutine does go is a matter of fairness.
THEOREM StopNeverStuck == Spec => []StopGoesOn
<1>1. Init => OnceInv
  BY DEF Init, OnceInv
<1>2. TypeOK /\ OnceInv => StopGoesOn
  <2> SUFFICES ASSUME TypeOK, OnceInv, NEW s \in Stoppers, InStop(s)
               PROVE  /\ stop # "no"
                      /\ cleaner = "gone" =>
                           \E r \in Stoppers : InStop(r) /\ MayReturn(r)
    BY DEF StopGoesOn
  <2>1. CASE spc[s] = "first"
    BY <2>1 DEF OnceInv, InStop, MayReturn
  <2>2. CASE spc[s] = "other" /\ stop = "done"
    BY <2>2 DEF InStop, MayReturn
  <2>3. CASE spc[s] = "other" /\ stop = "closed"
    BY <2>3 DEF OnceInv, InStop, MayReturn
  <2>4. stop \in {"no", "closed", "done"}
    BY DEF TypeOK
  <2>5. QED
    BY <2>1, <2>2, <2>3, <2>4 DEF OnceInv, InStop
<1>3. QED
  BY <1>1, OnceInvStep, <1>2, Typing, PTL DEF Spec

-----------------------------------------------------------------------------
(* The lease.                                                              *)

\* The tracker starts as a lease service with no lease.
LEMMA LeaseInit == Init => Lease!Init
  BY DEF Init, Lease!Init, Active

\* TrySet grants a free key, Delete releases one, a tick of the clock passes
\* for every lease, and no other step is seen.
LEMMA LeaseStep == TypeOK /\ [Next]_vars => [Lease!Next]_(Lease!leaseVars)
<1> SUFFICES ASSUME TypeOK, [Next]_vars
             PROVE  Lease!Next \/ UNCHANGED Lease!leaseVars
  OBVIOUS
<1> USE TTLPositive DEF Active
<1>1. ASSUME NEW w \in Workers, TrySetRefused(w) \/ \E k \in Keys : Get(w, k)
      PROVE  UNCHANGED Lease!leaseVars
  BY <1>1 DEF TypeOK, Get, TrySetRefused, Worker, mapVars, Lease!leaseVars
<1>2. ASSUME NEW w \in Workers, NEW k \in Keys, k = wkey[w], TrySet(w)
      PROVE  Lease!Grant(w, k)
  <2>1. /\ wpc[w] = "probed" /\ ~Active(k)
        /\ wpc' = [wpc EXCEPT ![w] = "holding"]
        /\ wkey' = wkey
        /\ tracked' = tracked \union {k}
        /\ left' = [left EXCEPT ![k] = TTL]
    BY <1>2 DEF TypeOK, TrySet, Worker, SetTracked
  <2> DEFINE lease == [j \in Keys |-> IF Active(j) THEN left[j] ELSE 0]
             held == [v \in Workers |->
                        IF wpc[v] = "holding" THEN wkey[v] ELSE NoKey]
  <2>2. lease' = [lease EXCEPT ![k] = TTL]
    <3>1. left \in [Keys -> -1..TTL]
      BY DEF TypeOK
    <3>2. \A j \in Keys : lease'[j] = IF j = k THEN TTL ELSE lease[j]
      BY <2>1, <3>1
    <3>3. QED
      BY <3>2
  <2>3. held' = [held EXCEPT ![w] = k]
    BY <1>2, <2>1 DEF TypeOK
  <2>4. lease[k] = 0 /\ held[w] = NoKey
    BY <2>1
  <2>5. QED
    BY <2>2, <2>3, <2>4 DEF Lease!Grant
<1>3. ASSUME NEW w \in Workers, Delete(w)
      PROVE  Lease!Release(w)
  <2>1. /\ wpc[w] = "holding" /\ wkey[w] \in Keys
        /\ wpc' = [wpc EXCEPT ![w] = "idle"]
        /\ wkey' = [wkey EXCEPT ![w] = NoKey]
        /\ tracked' = tracked \ {wkey[w]}
        /\ left' = [left EXCEPT ![wkey[w]] = 0]
    BY <1>3 DEF TypeOK, Delete, Worker, SetTracked
  <2>2. QED
    BY <2>1, KeyAssumption DEF TypeOK, Lease!Release
<1>4. CASE Tick
  <2>1. Lease!Pass
    BY <1>4 DEF TypeOK, Tick, Lease!Pass
  <2>2. QED
    BY <2>1 DEF Lease!Next
<1>5. CASE CleanupShard
  BY <1>5 DEF TypeOK, CleanupShard, SetTracked, CleanerSteps, Past, workVars,
     Lease!leaseVars
<1>6. ASSUME UNCHANGED <<mapVars, workVars>>
      PROVE  UNCHANGED Lease!leaseVars
  BY <1>6 DEF mapVars, workVars, Lease!leaseVars
<1>7. ASSUME \/ CleanerTick \/ CleanerStops
             \/ \E s \in Stoppers : StopBegins(s) \/ StopReturns(s)
             \/ SizeBegins \/ SizeCounts \/ SizeReturns
             \/ UNCHANGED vars
      PROVE  UNCHANGED <<mapVars, workVars>>
  BY <1>7 DEF CleanerTick, CleanerStops, CleanerSteps, StopBegins, StopReturns,
     SizeBegins, SizeCounts, SizeReturns, vars
<1>8. ASSUME NEW w \in Workers, Refresh(w)
      PROVE  Lease!Next \/ UNCHANGED Lease!leaseVars
  <2>1. CASE TrySet(w)
    <3>1. PICK k \in Keys : k = wkey[w]
      BY <2>1 DEF TypeOK, TrySet, Worker
    <3>2. Lease!Grant(w, k)
      BY <1>2, <2>1, <3>1
    <3>3. QED
      BY <3>2 DEF Lease!Next
  <2>2. CASE Delete(w)
    BY <1>3, <2>2 DEF Lease!Next
  <2>3. CASE TrySetRefused(w) \/ \E k \in Keys : Get(w, k)
    BY <1>1, <2>3
  <2>4. QED
    BY <1>8, <2>1, <2>2, <2>3 DEF Refresh
<1>9. QED
  BY <1>4, <1>5, <1>6, <1>7, <1>8 DEF Next

\* The sharded map, its cleanup goroutine and its Size implement a lease per
\* key: granted to one at a time, for the whole TTL, until Delete or its end.
THEOREM TrackerIsLease == Spec => ImplementsLease
<1>1. Spec => Lease!Init /\ [][Lease!Next]_(Lease!leaseVars)
  BY LeaseInit, LeaseStep, Typing, PTL DEF Spec
<1>2. QED
  BY <1>1 DEF ImplementsLease, Lease!Spec

-----------------------------------------------------------------------------
(* Size.                                                                   *)

\* The keys of the shards before the i-th.
Before(i) == {k \in Keys : ShardOf[k] < i}

\* Before(i + 1) is Before(i) with the keys of shard i, which are others.
LEMMA NextBefore ==
  ASSUME NEW i \in 0..NumShards - 1, NEW S \in SUBSET Keys, IsFiniteSet(S)
  PROVE  /\ IsFiniteSet(S \intersect Before(i))
         /\ IsFiniteSet(S \intersect Shard(i))
         /\ Cardinality(S \intersect Before(i + 1)) =
              Cardinality(S \intersect Before(i))
                + Cardinality(S \intersect Shard(i))
<1> DEFINE A == S \intersect Before(i)
           B == S \intersect Shard(i)
<1>1. A \in SUBSET S /\ B \in SUBSET S
  OBVIOUS
<1>2. IsFiniteSet(A) /\ IsFiniteSet(B)
  BY <1>1, FS_Subset
<1>3. S \intersect Before(i + 1) = A \union B /\ A \intersect B = {}
  <2>1. \A k \in Keys : ShardOf[k] \in Nat
    BY ShardAssumption
  <2>2. QED
    BY <2>1 DEF Before, Shard
<1>4. Cardinality(A \union B) =
        Cardinality(A) + Cardinality(B) - Cardinality(A \intersect B)
  BY <1>2, FS_Union
<1>5. Cardinality(A) \in Nat /\ Cardinality(B) \in Nat
  BY <1>2, FS_CardinalityType
<1>6. Cardinality(A \intersect B) = 0
  BY <1>3, FS_EmptySet
<1>7. Cardinality(S \intersect Before(i + 1)) = Cardinality(A \union B)
  BY <1>3, Zenon
<1> HIDE DEF A, B
<1>8. Cardinality(A \union B) = Cardinality(A) + Cardinality(B)
  BY <1>4, <1>5, <1>6
<1>9. QED
  BY <1>2, <1>7, <1>8 DEF A, B

LEMMA SmallerCount ==
  ASSUME NEW S, NEW T, IsFiniteSet(T), S \subseteq T
  PROVE  /\ IsFiniteSet(S)
         /\ Cardinality(S) \in Nat /\ Cardinality(T) \in Nat
         /\ Cardinality(S) =< Cardinality(T)
<1>1. S \in SUBSET T
  OBVIOUS
<1>2. IsFiniteSet(S) /\ Cardinality(S) =< Cardinality(T)
  BY <1>1, FS_Subset
<1>3. QED
  BY <1>2, FS_CardinalityType

\* What has been counted lies between the keys always and ever tracked, in the
\* shards that are done.
CountedRight ==
  /\ Cardinality(always \intersect Before(sizeAt)) =< total
  /\ total =< Cardinality(ever \intersect Before(sizeAt))

SizeInv ==
  /\ always \subseteq ever
  /\ sizeAt \in 0..NumShards - 1 => always \subseteq tracked /\ tracked \subseteq ever
  /\ sizeAt \in 0..NumShards => CountedRight

LEMMA SizeInvKept ==
  ASSUME Typed, Typed', SizeInv, NEW new, SetTracked(new), UNCHANGED sizeVars
  PROVE  SizeInv'
<1>1. sizeAt' = sizeAt /\ total' = total /\ tracked' = new
  BY DEF sizeVars, SetTracked
<1>2. CASE sizeAt \in 0..NumShards - 1
  <2>1. /\ ever' = ever \union new
        /\ always' = always \intersect new
    BY <1>2 DEF SetTracked
  <2>2. always' \subseteq ever' /\ always' \subseteq tracked' /\ tracked' \subseteq ever'
    BY <1>1, <2>1
  <2>3. IsFiniteSet(ever) /\ IsFiniteSet(ever')
    BY DEF Typed, FiniteMaps
  <2> DEFINE done(S) == S \intersect Before(sizeAt)
  <2>4. IsFiniteSet(done(ever)) /\ IsFiniteSet(done(ever'))
    BY <2>3, SmallerCount
  <2>5. /\ done(always') \subseteq done(always) /\ done(always) \subseteq done(ever)
        /\ done(ever) \subseteq done(ever')
    BY <2>1 DEF SizeInv
  <2>6. IsFiniteSet(done(always))
    BY <2>4, <2>5, SmallerCount
  <2>7. /\ Cardinality(done(always')) =< Cardinality(done(always))
        /\ Cardinality(done(ever)) =< Cardinality(done(ever'))
        /\ Cardinality(done(always')) \in Nat /\ Cardinality(done(always)) \in Nat
        /\ Cardinality(done(ever)) \in Nat /\ Cardinality(done(ever')) \in Nat
    BY <2>4, <2>5, <2>6, SmallerCount
  <2>8. total \in Nat /\ sizeAt \in 0..NumShards
    BY <1>2 DEF Typed, TypeOK
  <2>9. Cardinality(done(always)) =< total /\ total =< Cardinality(done(ever))
    BY <2>8 DEF SizeInv, CountedRight
  <2>10. Cardinality(done(always')) =< total /\ total =< Cardinality(done(ever'))
    <3> HIDE DEF done
    <3>1. QED
      BY <2>7, <2>8, <2>9
  <2>11. CountedRight'
    BY <1>1, <2>10 DEF CountedRight, Before
  <2>12. QED
    BY <2>2, <2>11 DEF SizeInv
<1>3. CASE sizeAt \notin 0..NumShards - 1
  <2>1. ever' = ever /\ always' = always
    BY <1>3 DEF SetTracked
  <2>2. QED
    BY <1>1, <1>3, <2>1 DEF SizeInv, CountedRight, Before
<1>4. QED
  BY <1>2, <1>3

LEMMA SizeInvStep == Typed /\ Typed' /\ SizeInv /\ [Next]_vars => SizeInv'
<1> SUFFICES ASSUME Typed, Typed', SizeInv, [Next]_vars
             PROVE  SizeInv'
  OBVIOUS
<1>1. ASSUME NEW new, SetTracked(new), UNCHANGED sizeVars
      PROVE  SizeInv'
  BY <1>1, SizeInvKept
<1>2. ASSUME NEW w \in Workers, TrySet(w) \/ Delete(w)
      PROVE  SizeInv'
  <2>1. UNCHANGED sizeVars
    BY <1>2 DEF TrySet, Delete, Worker
  <2>2. CASE TrySet(w)
    <3>1. SetTracked(tracked \union {wkey[w]})
      BY <2>2 DEF TrySet
    <3>2. QED
      BY <2>1, <3>1, SizeInvKept
  <2>3. CASE Delete(w)
    <3>1. SetTracked(tracked \ {wkey[w]})
      BY <2>3 DEF Delete
    <3>2. QED
      BY <2>1, <3>1, SizeInvKept
  <2>4. QED
    BY <1>2, <2>2, <2>3
<1>3. CASE CleanupShard
  <2>1. SetTracked(tracked \ Past(shardIndex)) /\ UNCHANGED sizeVars
    BY <1>3 DEF CleanupShard, CleanerSteps
  <2>2. QED
    BY <2>1, SizeInvKept
<1>4. CASE SizeBegins
  <2>1. sizeAt' = 0 /\ total' = 0 /\ ever' = tracked /\ always' = tracked
        /\ tracked' = tracked
    BY <1>4 DEF SizeBegins, mapVars
  <2>2. Before(0) = {}
    BY ShardAssumption DEF Before
  <2>3. Cardinality(tracked \intersect Before(0)) = 0
    BY <2>2, FS_EmptySet
  <2>4. QED
    BY <2>1, <2>3 DEF SizeInv, CountedRight, Before
<1>5. CASE SizeCounts
  <2>1. /\ sizeAt \in 0..NumShards - 1 /\ sizeAt' = sizeAt + 1
        /\ total' = total + Cardinality(Counted(sizeAt))
        /\ UNCHANGED <<tracked, ever, always>>
    BY <1>5 DEF SizeCounts, mapVars
  <2>2. /\ ever \in SUBSET Keys /\ IsFiniteSet(ever)
        /\ always \subseteq tracked /\ tracked \subseteq ever
    BY <2>1 DEF Typed, TypeOK, FiniteMaps, SizeInv
  <2>3. always \in SUBSET Keys /\ IsFiniteSet(always)
    BY <2>2, SmallerCount
  <2> DEFINE seen(S) == Cardinality(S \intersect Before(sizeAt))
             next(S) == Cardinality(S \intersect Before(sizeAt + 1))
             here(S) == Cardinality(S \intersect Shard(sizeAt))
  <2>4. /\ next(always) = seen(always) + here(always)
        /\ next(ever) = seen(ever) + here(ever)
    BY <2>1, <2>2, <2>3, NextBefore
  <2>5. IsFiniteSet(ever \intersect Shard(sizeAt))
    BY <2>2, SmallerCount
  <2>6. /\ always \intersect Shard(sizeAt) \subseteq Counted(sizeAt)
        /\ Counted(sizeAt) \subseteq ever \intersect Shard(sizeAt)
    BY <2>2 DEF Counted
  <2>7. IsFiniteSet(Counted(sizeAt))
    BY <2>5, <2>6, SmallerCount
  <2>8. /\ here(always) =< Cardinality(Counted(sizeAt))
        /\ Cardinality(Counted(sizeAt)) =< here(ever)
        /\ here(always) \in Nat /\ here(ever) \in Nat
        /\ Cardinality(Counted(sizeAt)) \in Nat
    BY <2>5, <2>6, <2>7, SmallerCount
  <2>9. seen(always) \in Nat /\ seen(ever) \in Nat
    <3>1. /\ IsFiniteSet(always \intersect Before(sizeAt))
          /\ IsFiniteSet(ever \intersect Before(sizeAt))
      BY <2>2, <2>3, SmallerCount
    <3>2. QED
      BY <3>1, FS_CardinalityType
  <2>10. total \in Nat /\ seen(always) =< total /\ total =< seen(ever)
    BY <2>1 DEF Typed, TypeOK, SizeInv, CountedRight
  <2>11. next(always) =< total' /\ total' =< next(ever)
    <3> DEFINE counted == Cardinality(Counted(sizeAt))
    <3>1. total' = total + counted
      BY <2>1
    <3> HIDE DEF seen, next, here, counted
    <3>2. QED
      BY <2>4, <2>8, <2>9, <2>10, <3>1 DEF counted
  <2>12. CountedRight'
    BY <2>1, <2>11 DEF CountedRight, Before
  <2>13. QED
    BY <2>1, <2>2, <2>12 DEF SizeInv
<1>6. CASE SizeReturns
  BY <1>6 DEF SizeReturns, SizeInv
<1>7. ASSUME UNCHANGED <<mapVars, sizeVars, ever, always>>
      PROVE  SizeInv'
  BY <1>7 DEF mapVars, sizeVars, SizeInv, CountedRight, Before
<1>8. ASSUME \/ \E w \in Workers : TrySetRefused(w) \/ \E k \in Keys : Get(w, k)
             \/ CleanerTick \/ CleanerStops
             \/ \E s \in Stoppers : StopBegins(s) \/ StopReturns(s)
             \/ UNCHANGED vars
      PROVE  UNCHANGED <<mapVars, sizeVars, ever, always>>
  BY <1>8 DEF Get, TrySetRefused, Worker, CleanerTick, CleanerStops,
     CleanerSteps, StopBegins, StopReturns, vars
<1>9. CASE Tick
  BY <1>9 DEF Tick, sizeVars, SizeInv, CountedRight, Before
<1>10. QED
  BY <1>2, <1>3, <1>4, <1>5, <1>6, <1>7, <1>8, <1>9 DEF Next, Refresh

\* Size takes one lock after the other while keys come and go: its answer is
\* between the number of keys there all the time and there at some time.
THEOREM SizeHonest == Spec => []SizeWithinCall
<1>1. Init => SizeInv
  BY ShardAssumption DEF Init, SizeInv
<1>2. Typed /\ SizeInv => SizeWithinCall
  <2> SUFFICES ASSUME Typed, SizeInv, sizeAt = NumShards
               PROVE  total \in Cardinality(always)..Cardinality(ever)
    BY DEF SizeWithinCall
  <2>1. CountedRight
    BY ShardAssumption DEF SizeInv
  <2>2. always \intersect Before(sizeAt) = always /\ ever \intersect Before(sizeAt) = ever
    BY ShardAssumption DEF Typed, TypeOK, Before
  <2>3. Cardinality(always) \in Nat /\ Cardinality(ever) \in Nat /\ total \in Nat
    BY SmallerCount DEF Typed, TypeOK, FiniteMaps, SizeInv
  <2>4. QED
    BY <2>1, <2>2, <2>3 DEF CountedRight
<1>3. QED
  BY <1>1, SizeInvStep, <1>2, TypedInvariant, PTL DEF Spec

=============================================================================
