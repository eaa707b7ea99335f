------------------------- MODULE StaleEngineProofs -------------------------
(***************************************************************************)
(* What StaleEngine keeps for every number of keys, callers, refresh       *)
(* goroutines and Execute calls, and every refresh limit.                  *)
(***************************************************************************)
EXTENDS StaleEngine, FiniteSetTheorems, TLAPS

\* Type correctness of the whole engine: after any interleaving of Execute,
\* safeCall, the refresh goroutines and Shutdown.
THEOREM Typing == Spec => []TypeOK
<1>1. Init => TypeOK
  BY KeyAssumption DEF Init, TypeOK, CallerPCs, RefresherPCs, Stages, Statuses,
     NoReply, Calls
<1>2. TypeOK /\ [Next]_vars => TypeOK'
  <2> SUFFICES ASSUME TypeOK, [Next]_vars
               PROVE  TypeOK'
    OBVIOUS
  <2>a. \A k \in Keys : discarded \union {call[k]} \in SUBSET Nat
    BY DEF TypeOK
  <2> USE DEF TypeOK, Calls, CallerPCs, RefresherPCs, Stages, Statuses,
              callerVars, storeVars, flightVars, callVars, refresherVars
  <2>1. ASSUME NEW c \in Callers, NEW k \in Keys, Execute(c, k)
        PROVE  TypeOK'
    <3> USE DEF Enter, EnterAt, Return, Continue, NoReply
    <3>1. CASE ExecuteError(c, k) BY <3>1 DEF ExecuteError
    <3>2. CASE ExecuteMiss(c, k) BY <3>2 DEF ExecuteMiss
    <3>3. CASE ExecuteHit(c, k) BY <3>3 DEF ExecuteHit
    <3>4. CASE ExecuteStale(c, k) BY <3>4 DEF ExecuteStale
    <3>5. QED BY <2>1, <3>1, <3>2, <3>3, <3>4 DEF Execute
  <2>2. ASSUME NEW c \in Callers, DoChan(c)
        PROVE  TypeOK'
    BY <2>2 DEF DoChan, Join, Continue
  <2>3. ASSUME NEW c \in Callers, CallerCancel(c) \/ TakeResult(c)
        PROVE  TypeOK'
    <3> USE DEF Return, Leaving
    <3>1. CASE CallerCancel(c) BY <3>1 DEF CallerCancel
    <3>2. CASE ResultError(c) BY <3>2 DEF ResultError
    <3>3. CASE ResultReread(c) BY <3>3 DEF ResultReread
    <3>4. CASE ResultRebuild(c) BY <3>4 DEF ResultRebuild
    <3>5. QED BY <2>3, <3>1, <3>2, <3>3, <3>4 DEF TakeResult
  <2>4. ASSUME NEW c \in Callers, TryAsyncRefresh(c)
        PROVE  TypeOK'
    <3> USE DEF Return, ReturnSeen, Continue, TryAsyncStay, Leaving
    <3>1. CASE CheckShutdown(c) BY <3>1 DEF CheckShutdown
    <3>2. CASE ProbeMarker(c) BY <3>2 DEF ProbeMarker
    <3>3. CASE TrySet(c) BY <3>3 DEF TrySet
    <3>4. CASE LaunchRefresh(c) BY <3>4 DEF LaunchRefresh
    <3>5. CASE OverLimit(c) BY <3>5 DEF OverLimit
    <3>6. CASE UndoCount(c) BY <3>6 DEF UndoCount
    <3>7. CASE UndoMark(c) BY <3>7 DEF UndoMark
    <3>8. CASE SkipRefresh(c) BY <3>8 DEF SkipRefresh
    <3>9. QED BY <2>4, <3>1, <3>2, <3>3, <3>4, <3>5, <3>6, <3>7, <3>8
              DEF TryAsyncRefresh
  <2>5. ASSUME NEW r \in Refreshers, RefresherWork(r)
        PROVE  TypeOK'
    <3> USE DEF RefresherStep
    <3>1. CASE RefresherDo(r) BY <3>1 DEF RefresherDo, Join
    <3>2. CASE RefresherDelete(r) BY <3>2 DEF RefresherDelete
    <3>3. CASE RefresherDec(r) BY <3>3 DEF RefresherDec
    <3>4. QED BY <2>5, <3>1, <3>2, <3>3 DEF RefresherWork
  <2>6. ASSUME NEW k \in Keys, SafeCall(k)
        PROVE  TypeOK'
    <3> USE DEF FlightStep, FlightFails
    <3>1. CASE StartCallback(k) BY <3>1 DEF StartCallback
    <3>2. CASE Abandon(k) \/ ReceiveFails(k)
      <4>1. /\ UNCHANGED <<executes, pc, key, seen, reply, floor, served, stored,
                          fresh, call, dead, started, running, rpc, rkey,
                          marker, count, shut>>
            /\ stage' = [stage EXCEPT ![k] = "end"]
            /\ ok' = [ok EXCEPT ![k] = FALSE]
            /\ discarded' = discarded \union {call[k]}
        BY <3>2 DEF Abandon, ReceiveFails
      <4>2. stage' \in [Keys -> Stages] /\ ok' \in [Keys -> BOOLEAN]
        BY <4>1
      <4>3. discarded' \in SUBSET Nat
        BY <2>a, <4>1
      <4>4. QED BY <4>1, <4>2, <4>3
    <3>3. CASE Receive(k) BY <3>3 DEF Receive
    <3>4. CASE Store(k) BY <3>4 DEF Store
    <3>5. CASE StoreFails(k) BY <3>5 DEF StoreFails
    <3>6. QED BY <2>6, <3>1, <3>2, <3>3, <3>4, <3>5 DEF SafeCall
  <2>7. ASSUME NEW k \in Keys, FlightEnd(k)
        PROVE  TypeOK'
    BY <2>7 DEF FlightEnd, Result
  <2>8. ASSUME NEW k \in Keys,
               Deadline(k) \/ Age(k) \/ Evict(k) \/ MarkerExpire(k)
        PROVE  TypeOK'
    <3>1. CASE Deadline(k) BY <3>1 DEF Deadline
    <3>2. CASE Age(k) BY <3>2 DEF Age
    <3>3. CASE Evict(k) BY <3>3 DEF Evict
    <3>4. CASE MarkerExpire(k) BY <3>4 DEF MarkerExpire
    <3>5. QED BY <2>8, <3>1, <3>2, <3>3, <3>4
  <2>9. ASSUME NEW a \in running, CallReturn(a[1], a[2])
        PROVE  TypeOK'
    <3>1. /\ a[1] \in Calls
          /\ a[2] \in Keys
      OBVIOUS
    <3>2. CASE CallAnswers(a[1], a[2])
      BY <2>9, <3>1, <3>2 DEF CallReturn, CallAnswers
    <3>3. CASE CallDropped(a[1], a[2])
      BY <2>9, <3>1, <3>3 DEF CallReturn, CallDropped
    <3>4. QED BY <2>9, <3>2, <3>3 DEF CallReturn
  <2>10. CASE Shutdown
    BY <2>10 DEF Shutdown, ShutdownBegin, ShutdownTick, ShutdownTimeout,
       ShutdownStep
  <2>11. CASE UNCHANGED vars
    BY <2>11 DEF vars
  <2>12. QED
    BY <2>1, <2>2, <2>3, <2>4, <2>5, <2>6, <2>7, <2>8, <2>9, <2>10, <2>11
       DEF Next, CallerStep, KeyStep, Done
<1>3. QED BY <1>1, <1>2, PTL DEF Spec

-----------------------------------------------------------------------------
(* currentRefreshes and the limit on background refreshes.                 *)

\* Only four steps touch the counter or the two groups it counts, and each
\* moves one member.
LEMMA CounterSteps ==
  ASSUME TypeOK, [Next]_vars
  PROVE  \/ UNCHANGED <<LiveRefreshers, Undoing, count>>
         \/ \E r \in Refreshers \ LiveRefreshers :
              /\ LiveRefreshers' = LiveRefreshers \union {r}
              /\ count + 1 =< MaxConcurrentRefreshes
              /\ count' = count + 1
              /\ UNCHANGED Undoing
         \/ \E r \in LiveRefreshers :
              /\ LiveRefreshers' = LiveRefreshers \ {r}
              /\ count' = count - 1
              /\ UNCHANGED Undoing
         \/ \E c \in Callers \ Undoing :
              /\ Undoing' = Undoing \union {c}
              /\ count' = count + 1
              /\ UNCHANGED LiveRefreshers
         \/ \E c \in Undoing :
              /\ Undoing' = Undoing \ {c}
              /\ count' = count - 1
              /\ UNCHANGED LiveRefreshers
<1> USE DEF TypeOK, LiveRefreshers, Undoing, callerVars, storeVars, flightVars,
            callVars, refresherVars
<1> DEFINE Same == UNCHANGED <<LiveRefreshers, Undoing, count>>
<1>1. ASSUME NEW c \in Callers, NEW k \in Keys, Execute(c, k)
      PROVE  Same
  BY <1>1 DEF Execute, ExecuteError, ExecuteMiss, ExecuteHit, ExecuteStale,
     Enter, EnterAt, Return, Continue
<1>2. ASSUME NEW c \in Callers, DoChan(c) \/ CallerCancel(c) \/ TakeResult(c)
      PROVE  Same
  BY <1>2 DEF DoChan, CallerCancel, TakeResult, ResultError, ResultReread,
     ResultRebuild, Return, Continue, Leaving
<1>3. ASSUME NEW c \in Callers,
             \/ SkipRefresh(c) \/ CheckShutdown(c) \/ ProbeMarker(c)
             \/ TrySet(c) \/ UndoMark(c)
      PROVE  Same
  BY <1>3 DEF SkipRefresh, CheckShutdown, ProbeMarker, TrySet, UndoMark,
     ReturnSeen, Return, TryAsyncStay, Continue, Leaving
<1>4. ASSUME NEW c \in Callers, LaunchRefresh(c)
      PROVE  \E r \in Refreshers \ LiveRefreshers :
               /\ LiveRefreshers' = LiveRefreshers \union {r}
               /\ count + 1 =< MaxConcurrentRefreshes
               /\ count' = count + 1
               /\ UNCHANGED Undoing
  <2>1. PICK r \in Refreshers : /\ rpc[r] = "none"
                                /\ rpc' = [rpc EXCEPT ![r] = "do"]
    BY <1>4 DEF LaunchRefresh
  <2>2. LiveRefreshers' = LiveRefreshers \union {r}
    BY <2>1
  <2>3. UNCHANGED Undoing
    BY <1>4 DEF LaunchRefresh, ReturnSeen, Return
  <2>4. QED BY <1>4, <2>1, <2>2, <2>3 DEF LaunchRefresh, WithinLimit
<1>5. ASSUME NEW c \in Callers, OverLimit(c)
      PROVE  /\ c \notin Undoing
             /\ Undoing' = Undoing \union {c}
             /\ count' = count + 1
             /\ UNCHANGED LiveRefreshers
  BY <1>5 DEF OverLimit, TryAsyncStay, Continue
<1>6. ASSUME NEW c \in Callers, UndoCount(c)
      PROVE  /\ c \in Undoing
             /\ Undoing' = Undoing \ {c}
             /\ count' = count - 1
             /\ UNCHANGED LiveRefreshers
  BY <1>6 DEF UndoCount, TryAsyncStay, Continue
<1>7. ASSUME NEW r \in Refreshers, RefresherDo(r) \/ RefresherDelete(r)
      PROVE  Same
  BY <1>7 DEF RefresherDo, RefresherDelete, RefresherStep
<1>8. ASSUME NEW r \in Refreshers, RefresherDec(r)
      PROVE  /\ r \in LiveRefreshers
             /\ LiveRefreshers' = LiveRefreshers \ {r}
             /\ count' = count - 1
             /\ UNCHANGED Undoing
  BY <1>8 DEF RefresherDec, RefresherStep
<1>9. ASSUME NEW k \in Keys, SafeCall(k)
      PROVE  Same
  BY <1>9 DEF SafeCall, StartCallback, Abandon, Receive, ReceiveFails, Store,
     StoreFails, FlightFails, FlightStep
<1>10. ASSUME NEW k \in Keys, FlightEnd(k)
       PROVE  Same
  BY <1>10 DEF FlightEnd
<1>11. ASSUME NEW k \in Keys,
              Deadline(k) \/ Age(k) \/ Evict(k) \/ MarkerExpire(k)
       PROVE  Same
  BY <1>11 DEF Deadline, Age, Evict, MarkerExpire
<1>12. ASSUME NEW a \in running, CallReturn(a[1], a[2])
       PROVE  Same
  BY <1>12 DEF CallReturn
<1>13. ASSUME Shutdown
       PROVE  Same
  BY <1>13 DEF Shutdown, ShutdownBegin, ShutdownTick, ShutdownTimeout,
     ShutdownStep
<1>14. ASSUME UNCHANGED vars
       PROVE  Same
  BY <1>14 DEF vars
<1>15. QED
  <2> USE DEF Done, CallerStep, TryAsyncRefresh, RefresherWork, KeyStep
  <2>1. CASE \E c \in Callers : CallerStep(c)
    BY <2>1, <1>2, <1>3, <1>4, <1>5, <1>6
  <2>2. CASE \E r \in Refreshers : RefresherWork(r)
    BY <2>2, <1>7, <1>8
  <2>3. CASE \E k \in Keys : KeyStep(k)
    BY <2>3, <1>9, <1>10, <1>11
  <2>4. QED
    BY <2>1, <2>2, <2>3, <1>1, <1>12, <1>13, <1>14 DEF Next

LimitInv == CounterMatchesHolders /\ RefreshBound

\* The limit holds because the counter is exact: a refresh is launched only
\* when the counter, which the new refresh already includes, is within it.
LEMMA LimitInvariant == Spec => []LimitInv
<1> USE DEF LimitInv, CounterMatchesHolders, RefreshBound
<1>1. Init => LimitInv
  <2> SUFFICES ASSUME Init PROVE LimitInv
    OBVIOUS
  <2>1. LiveRefreshers = {} /\ Undoing = {} /\ count = 0
    BY DEF Init, LiveRefreshers, Undoing
  <2>2. QED BY <2>1, FS_EmptySet, PoolAssumption
<1>2. TypeOK /\ LimitInv /\ [Next]_vars => LimitInv'
  <2> SUFFICES ASSUME TypeOK, LimitInv, [Next]_vars
               PROVE  LimitInv'
    OBVIOUS
  <2>1. /\ IsFiniteSet(LiveRefreshers)
        /\ IsFiniteSet(Undoing)
    BY PoolAssumption, FS_Subset DEF LiveRefreshers, Undoing
  <2>2. /\ Cardinality(LiveRefreshers) \in Nat
        /\ Cardinality(Undoing) \in Nat
        /\ MaxConcurrentRefreshes \in Nat
        /\ count \in Int
    BY <2>1, FS_CardinalityType, PoolAssumption DEF TypeOK
  <2>3. CASE UNCHANGED <<LiveRefreshers, Undoing, count>>
    BY <2>3
  <2>4. ASSUME NEW r \in Refreshers \ LiveRefreshers,
               LiveRefreshers' = LiveRefreshers \union {r},
               count + 1 =< MaxConcurrentRefreshes,
               count' = count + 1,
               UNCHANGED Undoing
        PROVE  LimitInv'
    <3>1. Cardinality(LiveRefreshers') = Cardinality(LiveRefreshers) + 1
      BY <2>1, <2>4, FS_AddElement
    <3>2. QED BY <2>2, <2>4, <3>1
  <2>5. ASSUME NEW r \in LiveRefreshers,
               LiveRefreshers' = LiveRefreshers \ {r},
               count' = count - 1,
               UNCHANGED Undoing
        PROVE  LimitInv'
    <3>1. Cardinality(LiveRefreshers') = Cardinality(LiveRefreshers) - 1
      BY <2>1, <2>5, FS_RemoveElement
    <3>2. QED BY <2>2, <2>5, <3>1
  <2>6. ASSUME NEW c \in Callers \ Undoing,
               Undoing' = Undoing \union {c},
               count' = count + 1,
               UNCHANGED LiveRefreshers
        PROVE  LimitInv'
    <3>1. Cardinality(Undoing') = Cardinality(Undoing) + 1
      BY <2>1, <2>6, FS_AddElement
    <3>2. QED BY <2>2, <2>6, <3>1
  <2>7. ASSUME NEW c \in Undoing,
               Undoing' = Undoing \ {c},
               count' = count - 1,
               UNCHANGED LiveRefreshers
        PROVE  LimitInv'
    <3>1. Cardinality(Undoing') = Cardinality(Undoing) - 1
      BY <2>1, <2>7, FS_RemoveElement
    <3>2. QED BY <2>2, <2>7, <3>1
  <2>8. QED BY CounterSteps, <2>3, <2>4, <2>5, <2>6, <2>7
<1>3. QED BY <1>1, <1>2, Typing, PTL DEF Spec

\* currentRefreshes never drifts from the refreshes it counts, so no slot is
\* lost for good and none is handed out twice.
THEOREM CounterExact == Spec => []CounterMatchesHolders
BY LimitInvariant, PTL DEF LimitInv

\* maxConcurrentRefreshes is never exceeded, even by a caller that loses.
THEOREM RefreshesBounded == Spec => []RefreshBound
BY LimitInvariant, PTL DEF LimitInv

FreeSlot == \E r \in Refreshers : rpc[r] = "none"

\* A caller that is within the limit always finds a free member of Refreshers:
\* `go` never blocks, and the set that stands for the goroutines, one larger
\* than the limit, never keeps the model from a launch the code would make.
THEOREM LaunchNeverBlocked == Spec => [](WithinLimit => FreeSlot)
<1>1. ASSUME TypeOK, LimitInv, WithinLimit
      PROVE  FreeSlot
  <2>1. SUFFICES ASSUME LiveRefreshers = Refreshers
                 PROVE  FALSE
    BY DEF FreeSlot, LiveRefreshers
  <2>2. IsFiniteSet(Undoing) /\ Cardinality(Undoing) \in Nat
    BY PoolAssumption, FS_Subset, FS_CardinalityType DEF Undoing
  <2>3. Cardinality(Refreshers) \in Nat
    BY PoolAssumption, FS_CardinalityType
  <2>4. count >= Cardinality(Refreshers)
    BY <1>1, <2>1, <2>2, <2>3 DEF LimitInv, CounterMatchesHolders
  <2>5. count + 1 =< MaxConcurrentRefreshes /\ count \in Int
    BY <1>1 DEF WithinLimit, TypeOK
  <2>6. QED BY <2>3, <2>4, <2>5, PoolAssumption
<1>2. QED BY <1>1, Typing, LimitInvariant, PTL

-----------------------------------------------------------------------------
(* The storage never regresses.                                            *)

\* Why: a flight that may still store holds the newest call of all those that
\* reached the storage, since its key has no other flight.
StoreBehindFlight ==
  \A k \in Keys :
    /\ stored[k] =< started
    /\ call[k] =< started
    /\ stage[k] \in {"call", "ready", "store"} => call[k] > stored[k]

LEMMA StoreBehindFlightInvariant == Spec => []StoreBehindFlight
<1> USE DEF StoreBehindFlight
<1>1. Init => StoreBehindFlight
  BY DEF Init
<1>2. TypeOK /\ StoreBehindFlight /\ [Next]_vars => StoreBehindFlight'
  <2> SUFFICES ASSUME TypeOK, StoreBehindFlight, [Next]_vars
               PROVE  StoreBehindFlight'
    OBVIOUS
  <2> USE DEF callerVars, storeVars, flightVars, callVars, refresherVars
  <2>0. /\ stored \in [Keys -> Nat]
        /\ call \in [Keys -> Nat]
        /\ stage \in [Keys -> Stages]
        /\ started \in Nat
    BY DEF TypeOK, Calls
  <2>1. ASSUME NEW c \in Callers, NEW k \in Keys, Execute(c, k)
        PROVE  StoreBehindFlight'
    BY <2>0, <2>1 DEF Execute, ExecuteError, ExecuteMiss, ExecuteHit,
       ExecuteStale, Enter, EnterAt
  <2>2. ASSUME NEW c \in Callers, CallerStep(c)
        PROVE  StoreBehindFlight'
    <3>1. CASE DoChan(c) BY <2>0, <3>1 DEF DoChan, Join
    <3>2. CASE CallerCancel(c) \/ TakeResult(c)
      BY <2>0, <3>2 DEF CallerCancel, TakeResult, ResultError, ResultReread,
         ResultRebuild, Leaving
    <3>3. CASE TryAsyncRefresh(c)
      BY <2>0, <3>3 DEF TryAsyncRefresh, SkipRefresh, CheckShutdown,
         ProbeMarker, TrySet, LaunchRefresh, OverLimit, UndoCount, UndoMark,
         TryAsyncStay, Leaving
    <3>4. QED BY <2>2, <3>1, <3>2, <3>3 DEF CallerStep
  <2>3. ASSUME NEW r \in Refreshers, RefresherWork(r)
        PROVE  StoreBehindFlight'
    BY <2>0, <2>3 DEF RefresherWork, RefresherDo, RefresherDelete,
       RefresherDec, RefresherStep, Join
  <2>4. ASSUME NEW k \in Keys, SafeCall(k)
        PROVE  StoreBehindFlight'
    <3>1. CASE StartCallback(k)
      <4>1. /\ stored' = stored
            /\ started' = started + 1
            /\ call' = [call EXCEPT ![k] = started + 1]
            /\ stage' = [stage EXCEPT ![k] = "call"]
        BY <3>1 DEF StartCallback
      <4>2. QED BY <2>0, <4>1
    <3>2. CASE Abandon(k) \/ ReceiveFails(k)
      BY <2>0, <3>2 DEF Abandon, ReceiveFails, FlightFails, FlightStep
    <3>3. CASE Receive(k) BY <2>0, <3>3 DEF Receive, FlightStep
    <3>4. CASE Store(k) BY <2>0, <3>4 DEF Store, FlightStep
    <3>5. CASE StoreFails(k) BY <2>0, <3>5 DEF StoreFails, FlightStep
    <3>6. QED BY <2>4, <3>1, <3>2, <3>3, <3>4, <3>5 DEF SafeCall
  <2>5. ASSUME NEW k \in Keys, FlightEnd(k)
        PROVE  StoreBehindFlight'
    <3>1. /\ UNCHANGED <<stored, started>>
          /\ call' = [call EXCEPT ![k] = 0]
          /\ stage' = [stage EXCEPT ![k] = "idle"]
      BY <2>5 DEF FlightEnd
    <3>2. QED BY <2>0, <3>1
  <2>6. ASSUME NEW k \in Keys,
               Deadline(k) \/ Age(k) \/ Evict(k) \/ MarkerExpire(k)
        PROVE  StoreBehindFlight'
    <3>1. UNCHANGED <<call, stage, started>>
      BY <2>6 DEF Deadline, Age, Evict, MarkerExpire
    <3>2. stored' = stored \/ stored' = [stored EXCEPT ![k] = 0]
      BY <2>6 DEF Deadline, Age, Evict, MarkerExpire
    <3>3. QED BY <2>0, <3>1, <3>2
  <2>7. ASSUME NEW a \in running, CallReturn(a[1], a[2])
        PROVE  StoreBehindFlight'
    BY <2>0, <2>7 DEF CallReturn, CallAnswers, CallDropped, Awaited
  <2>8. CASE Shutdown
    BY <2>8 DEF Shutdown, ShutdownBegin, ShutdownTick, ShutdownTimeout,
       ShutdownStep
  <2>9. CASE UNCHANGED vars
    BY <2>9 DEF vars
  <2>10. QED
    BY <2>1, <2>2, <2>3, <2>4, <2>5, <2>6, <2>7, <2>8, <2>9
       DEF Next, KeyStep, Done
<1>3. QED BY <1>1, <1>2, Typing, PTL DEF Spec

\* No step replaces a stored version by an older one: a superseded or orphaned
\* upstream call cannot overwrite what came after it.
THEOREM StoreMonotone == Spec => StoreNeverRegresses
<1> DEFINE Step == \A k \in Keys : stored'[k] >= stored[k] \/ stored'[k] = 0
<1>1. TypeOK /\ StoreBehindFlight /\ [Next]_vars => [Step]_vars
  <2> SUFFICES ASSUME TypeOK, StoreBehindFlight, [Next]_vars
               PROVE  Step
    OBVIOUS
  <2> USE DEF callerVars, storeVars, flightVars, callVars, refresherVars
  <2>0. stored \in [Keys -> Nat] /\ call \in [Keys -> Nat]
    BY DEF TypeOK
  <2>1. ASSUME UNCHANGED stored
        PROVE  Step
    BY <2>0, <2>1
  <2>2. ASSUME NEW k \in Keys, Store(k)
        PROVE  Step
    BY <2>0, <2>2 DEF Store, FlightStep, StoreBehindFlight
  <2>3. ASSUME NEW k \in Keys, Evict(k)
        PROVE  Step
    BY <2>0, <2>3 DEF Evict
  <2>4. ASSUME NEW c \in Callers, NEW k \in Keys, Execute(c, k)
        PROVE  UNCHANGED stored
    BY <2>4 DEF Execute, ExecuteError, ExecuteMiss, ExecuteHit, ExecuteStale,
       Enter, EnterAt
  <2>5. ASSUME NEW c \in Callers, CallerStep(c)
        PROVE  UNCHANGED stored
    BY <2>5 DEF CallerStep, DoChan, CallerCancel, TakeResult, ResultError,
       ResultReread, ResultRebuild, TryAsyncRefresh, SkipRefresh,
       CheckShutdown, ProbeMarker, TrySet, LaunchRefresh, OverLimit, UndoCount,
       UndoMark, TryAsyncStay, Leaving
  <2>6. ASSUME NEW r \in Refreshers, RefresherWork(r)
        PROVE  UNCHANGED stored
    BY <2>6 DEF RefresherWork, RefresherDo, RefresherDelete, RefresherDec,
       RefresherStep
  <2>7. ASSUME NEW k \in Keys,
               \/ StartCallback(k) \/ Abandon(k) \/ Receive(k)
               \/ ReceiveFails(k) \/ StoreFails(k) \/ FlightEnd(k)
               \/ Deadline(k) \/ Age(k) \/ MarkerExpire(k)
        PROVE  UNCHANGED stored
    BY <2>7 DEF StartCallback, Abandon, Receive, ReceiveFails, StoreFails,
       FlightFails, FlightStep, FlightEnd, Deadline, Age, MarkerExpire
  <2>8. ASSUME NEW a \in running, CallReturn(a[1], a[2])
        PROVE  UNCHANGED stored
    BY <2>8 DEF CallReturn
  <2>9. ASSUME Shutdown
        PROVE  UNCHANGED stored
    BY <2>9 DEF Shutdown, ShutdownBegin, ShutdownTick, ShutdownTimeout,
       ShutdownStep
  <2>10. ASSUME UNCHANGED vars
         PROVE  UNCHANGED stored
    BY <2>10 DEF vars
  <2>11. ASSUME NEW k \in Keys, KeyStep(k)
         PROVE  Step
    BY <2>11, <2>1, <2>2, <2>3, <2>7 DEF KeyStep, SafeCall
  <2>12. QED
    BY <2>1, <2>4, <2>5, <2>6, <2>8, <2>9, <2>10, <2>11 DEF Next, Done
<1>2. QED
  BY <1>1, Typing, StoreBehindFlightInvariant, PTL
     DEF Spec, StoreNeverRegresses

-----------------------------------------------------------------------------
(* Overlapping upstream calls.                                             *)

\* A callback still running is the one its key's flight waits for, or its
\* flight has reported an error; and a flight waits for the newest one.
RunningOwned ==
  \A a \in running :
    /\ a[1] =< started
    /\ a[1] \notin discarded => stage[a[2]] = "call" /\ call[a[2]] = a[1]
    /\ stage[a[2]] = "call" => a[1] =< call[a[2]]

LEMMA RunningOwnedInvariant == Spec => []RunningOwned
<1>1. Init => RunningOwned
  BY DEF Init, RunningOwned
<1>2. TypeOK /\ RunningOwned /\ [Next]_vars => RunningOwned'
  <2> SUFFICES ASSUME TypeOK, RunningOwned, [Next]_vars,
                      NEW a \in running'
               PROVE  /\ a[1] =< started'
                      /\ a[1] \notin discarded' =>
                           stage'[a[2]] = "call" /\ call'[a[2]] = a[1]
                      /\ stage'[a[2]] = "call" => a[1] =< call'[a[2]]
    BY DEF RunningOwned
  <2> DEFINE Goal == /\ a[1] =< started'
                     /\ a[1] \notin discarded' =>
                          stage'[a[2]] = "call" /\ call'[a[2]] = a[1]
                     /\ stage'[a[2]] = "call" => a[1] =< call'[a[2]]
  <2> HIDE DEF Goal
  <2> USE DEF callerVars, storeVars, flightVars, callVars, refresherVars
  <2>0. /\ stage \in [Keys -> Stages]
        /\ call \in [Keys -> Nat]
        /\ started \in Nat
        /\ running \subseteq Calls \X Keys
    BY DEF TypeOK, Calls
  <2>1. ASSUME UNCHANGED <<running, started, discarded, stage, call>>
        PROVE  Goal
    BY <2>1 DEF RunningOwned, Goal
  <2>2. ASSUME UNCHANGED <<running, started, discarded, call>>,
               NEW k \in Keys, stage[k] # "call",
               \E s \in Stages \ {"call"} : stage' = [stage EXCEPT ![k] = s]
        PROVE  Goal
    BY <2>0, <2>2 DEF RunningOwned, Goal
  <2>3. ASSUME NEW k \in Keys, StartCallback(k)
        PROVE  Goal
    <3>1. /\ stage[k] = "spawn"
          /\ stage' = [stage EXCEPT ![k] = "call"]
          /\ started' = started + 1
          /\ call' = [call EXCEPT ![k] = started + 1]
          /\ running' = running \union {<<started + 1, k>>}
          /\ discarded' = discarded
      BY <2>3 DEF StartCallback
    <3>2. CASE a = <<started + 1, k>>
      BY <2>0, <3>1, <3>2 DEF Goal
    <3>3. CASE a \in running
      <4>1. a[1] \in Nat /\ a[2] \in Keys
        BY <2>0, <3>3 DEF Calls
      <4>2. CASE a[2] = k
        BY <2>0, <3>1, <3>3, <4>1, <4>2 DEF RunningOwned, Goal
      <4>3. CASE a[2] # k
        BY <2>0, <3>1, <3>3, <4>1, <4>3 DEF RunningOwned, Goal
      <4>4. QED BY <4>2, <4>3
    <3>4. QED BY <3>1, <3>2, <3>3
  <2>4. ASSUME NEW k \in Keys, NEW from, FlightFails(k, from)
        PROVE  Goal
    <3>1. /\ stage' = [stage EXCEPT ![k] = "end"]
          /\ discarded' = discarded \union {call[k]}
          /\ UNCHANGED <<running, started, call>>
      BY <2>4 DEF FlightFails, FlightStep
    <3>2. QED BY <2>0, <3>1 DEF RunningOwned, Goal
  <2>5. ASSUME NEW k \in Keys, FlightEnd(k)
        PROVE  Goal
    <3>1. /\ stage[k] = "end"
          /\ stage' = [stage EXCEPT ![k] = "idle"]
          /\ call' = [call EXCEPT ![k] = 0]
          /\ UNCHANGED <<running, started, discarded>>
      BY <2>5 DEF FlightEnd
    <3>2. QED BY <2>0, <3>1 DEF RunningOwned, Goal
  <2>6. ASSUME NEW b \in running, CallReturn(b[1], b[2])
        PROVE  Goal
    <3>1. /\ running' = running \ {<<b[1], b[2]>>}
          /\ UNCHANGED <<call, started, discarded>>
          /\ \/ UNCHANGED stage
             \/ /\ stage' = [stage EXCEPT ![b[2]] = "ready"]
                /\ call[b[2]] = b[1]
      BY <2>6 DEF CallReturn, CallAnswers, CallDropped, Awaited
    <3>2. a \in running /\ a # <<b[1], b[2]>>
      BY <3>1
    <3>3. a[2] = b[2] => a[1] # b[1]
      <4>1. a = <<a[1], a[2]>>
        BY <2>0, <3>2
      <4>2. QED BY <3>2, <4>1
    <3>4. a[2] \in Keys /\ b[2] \in Keys
      BY <2>0, <3>2
    <3>5. CASE UNCHANGED stage
      BY <3>1, <3>2, <3>5 DEF RunningOwned, Goal
    <3>6. CASE /\ stage' = [stage EXCEPT ![b[2]] = "ready"]
               /\ call[b[2]] = b[1]
      BY <2>0, <3>1, <3>2, <3>3, <3>4, <3>6 DEF RunningOwned, Goal
    <3>7. QED BY <3>1, <3>5, <3>6
  <2>7. ASSUME NEW c \in Callers, NEW k \in Keys, Execute(c, k)
        PROVE  UNCHANGED <<running, started, discarded, stage, call>>
    BY <2>7 DEF Execute, ExecuteError, ExecuteMiss, ExecuteHit, ExecuteStale,
       Enter, EnterAt
  <2>8. ASSUME NEW k \in Keys, Join(k),
               UNCHANGED <<running, started, discarded>>
        PROVE  Goal
    <3>1. CASE stage[k] = "idle"
      BY <2>0, <2>2, <2>8, <3>1 DEF Join, Stages
    <3>2. CASE stage[k] # "idle"
      BY <2>0, <2>1, <2>8, <3>2 DEF Join
    <3>3. QED BY <3>1, <3>2
  <2>9. ASSUME NEW c \in Callers, DoChan(c)
        PROVE  Goal
    <3>1. key[c] \in Keys
      BY <2>9 DEF DoChan, TypeOK
    <3>2. QED BY <2>8, <2>9, <3>1 DEF DoChan
  <2>10. ASSUME NEW c \in Callers,
                CallerCancel(c) \/ TakeResult(c) \/ TryAsyncRefresh(c)
         PROVE  UNCHANGED <<running, started, discarded, stage, call>>
    BY <2>10 DEF CallerCancel, TakeResult, ResultError, ResultReread,
       ResultRebuild, TryAsyncRefresh, SkipRefresh, CheckShutdown, ProbeMarker,
       TrySet, LaunchRefresh, OverLimit, UndoCount, UndoMark, TryAsyncStay,
       Leaving
  <2>11. ASSUME NEW r \in Refreshers, RefresherDo(r)
         PROVE  Goal
    <3>1. rkey[r] \in Keys
      BY <2>11 DEF RefresherDo, RefresherStep, TypeOK
    <3>2. QED BY <2>8, <2>11, <3>1 DEF RefresherDo, RefresherStep
  <2>12. ASSUME NEW r \in Refreshers, RefresherDelete(r) \/ RefresherDec(r)
         PROVE  UNCHANGED <<running, started, discarded, stage, call>>
    BY <2>12 DEF RefresherDelete, RefresherDec, RefresherStep
  <2>13. ASSUME NEW k \in Keys, Receive(k) \/ Store(k) \/ StoreFails(k)
         PROVE  Goal
    <3>1. /\ UNCHANGED <<running, started, discarded, call>>
          /\ stage[k] # "call"
          /\ \E s \in Stages \ {"call"} : stage' = [stage EXCEPT ![k] = s]
      BY <2>13 DEF Receive, Store, StoreFails, FlightStep, Stages
    <3>2. QED BY <2>2, <3>1
  <2>14. ASSUME NEW k \in Keys,
                Deadline(k) \/ Age(k) \/ Evict(k) \/ MarkerExpire(k)
         PROVE  UNCHANGED <<running, started, discarded, stage, call>>
    BY <2>14 DEF Deadline, Age, Evict, MarkerExpire
  <2>15. ASSUME Shutdown \/ UNCHANGED vars
         PROVE  UNCHANGED <<running, started, discarded, stage, call>>
    BY <2>15 DEF Shutdown, ShutdownBegin, ShutdownTick, ShutdownTimeout,
       ShutdownStep, vars
  <2>16. ASSUME NEW c \in Callers, CallerStep(c)
         PROVE  Goal
    BY <2>1, <2>9, <2>10, <2>16 DEF CallerStep
  <2>17. ASSUME NEW r \in Refreshers, RefresherWork(r)
         PROVE  Goal
    BY <2>1, <2>11, <2>12, <2>17 DEF RefresherWork
  <2>18. ASSUME NEW k \in Keys, KeyStep(k)
         PROVE  Goal
    BY <2>1, <2>3, <2>4, <2>5, <2>13, <2>14, <2>18
       DEF KeyStep, SafeCall, Abandon, ReceiveFails
  <2>19. Goal
    BY <2>1, <2>6, <2>7, <2>15, <2>16, <2>17, <2>18 DEF Next, Done
  <2>20. QED BY <2>19 DEF Goal
<1>3. QED BY <1>1, <1>2, Typing, PTL DEF Spec

\* singleflight lets two upstream calls of a key overlap only after the older
\* one has been given up at a deadline or at Shutdown.
THEOREM OverlapAfterAbandon == Spec => []OverlapOnlyAfterAbandon
<1>1. TypeOK /\ RunningOwned => OverlapOnlyAfterAbandon
  <2> SUFFICES ASSUME TypeOK, RunningOwned,
                      NEW a \in running, NEW b \in running,
                      a[2] = b[2], a[1] < b[1]
               PROVE  a[1] \in discarded
    BY DEF OverlapOnlyAfterAbandon
  <2>1. a[1] \in Nat /\ b[1] \in Nat
    BY DEF TypeOK, Calls
  <2>2. QED BY <2>1 DEF RunningOwned
<1>2. QED BY <1>1, Typing, RunningOwnedInvariant, PTL

-----------------------------------------------------------------------------
(* One refresh per key.                                                    *)

\* Who holds the marker of k does not change, nor does the marker.
SameHolders(k) ==
  /\ \A c \in Callers : CallerHolds(c, k)' <=> CallerHolds(c, k)
  /\ \A r \in Refreshers : RefresherHolds(r, k)' <=> RefresherHolds(r, k)
SameMarker(k) == marker'[k] = marker[k]
HoldsUnchanged == \A k \in Keys : SameHolders(k) /\ SameMarker(k)
SameBut(h)     == \A k \in Keys \ {h} : SameHolders(k) /\ SameMarker(k)

\* The ways in which the marker of h, or a hold on it, changes: its TTL runs
\* out, a caller takes it, passes it on to a refresh, or deletes it, as a
\* refresh does.
Expires(h) == MarkerMayExpire /\ ~marker'[h] /\ SameHolders(h)

Takes(c, h) ==
  /\ ~marker[h] /\ marker'[h]
  /\ \A d \in Callers : CallerHolds(d, h)' <=> d = c \/ CallerHolds(d, h)
  /\ \A r \in Refreshers : RefresherHolds(r, h)' <=> RefresherHolds(r, h)

CallerLeaves(c, h) ==
  /\ CallerHolds(c, h)
  /\ \A d \in Callers : CallerHolds(d, h)' <=> d # c /\ CallerHolds(d, h)

PassesOn(c, r, h) ==
  /\ SameMarker(h)
  /\ CallerLeaves(c, h)
  /\ \A s \in Refreshers :
       RefresherHolds(s, h)' <=> s = r \/ RefresherHolds(s, h)

CallerDeletes(c, h) ==
  /\ ~marker'[h]
  /\ CallerLeaves(c, h)
  /\ \A r \in Refreshers : RefresherHolds(r, h)' <=> RefresherHolds(r, h)

RefresherDeletes(r, h) ==
  /\ ~marker'[h]
  /\ RefresherHolds(r, h)
  /\ \A c \in Callers : CallerHolds(c, h)' <=> CallerHolds(c, h)
  /\ \A s \in Refreshers :
       RefresherHolds(s, h)' <=> s # r /\ RefresherHolds(s, h)

Changes(h) ==
  \/ Expires(h)
  \/ \E c \in Callers : Takes(c, h) \/ CallerDeletes(c, h)
  \/ \E c \in Callers, r \in Refreshers : PassesOn(c, r, h)
  \/ \E r \in Refreshers : RefresherDeletes(r, h)

\* What any step of the engine does to markers and holds, for one key at most.
LEMMA HoldSteps ==
  ASSUME TypeOK, [Next]_vars
  PROVE  HoldsUnchanged \/ \E h \in Keys : SameBut(h) /\ Changes(h)
<1> DEFINE Goal == HoldsUnchanged \/ \E h \in Keys : SameBut(h) /\ Changes(h)
<1> USE DEF callerVars, storeVars, flightVars, callVars, refresherVars
<1>0. /\ pc \in [Callers -> CallerPCs]
      /\ key \in [Callers -> Keys \union {NoKey}]
      /\ rpc \in [Refreshers -> RefresherPCs]
      /\ rkey \in [Refreshers -> Keys \union {NoKey}]
      /\ marker \in [Keys -> BOOLEAN]
  BY DEF TypeOK
<1>00. /\ \A c \in Callers : pc[c] # "idle" => key[c] \in Keys
       /\ \A r \in Refreshers : rpc[r] # "none" => rkey[r] \in Keys
  BY DEF TypeOK
<1>1. ASSUME NEW c \in Callers, NEW k \in Keys, Execute(c, k)
      PROVE  HoldsUnchanged
  BY <1>0, <1>1 DEF HoldsUnchanged, SameHolders, SameMarker, CallerHolds,
     RefresherHolds, Execute, ExecuteError, ExecuteMiss, ExecuteHit,
     ExecuteStale, Enter, EnterAt, Return, Continue
<1>2. ASSUME NEW c \in Callers,
             \/ DoChan(c) \/ CallerCancel(c) \/ TakeResult(c)
             \/ SkipRefresh(c) \/ CheckShutdown(c) \/ ProbeMarker(c)
             \/ OverLimit(c) \/ UndoCount(c)
      PROVE  HoldsUnchanged
  <2> USE DEF HoldsUnchanged, SameHolders, SameMarker, CallerHolds,
              RefresherHolds, Return, Continue, Leaving, TryAsyncStay,
              ReturnSeen
  <2>1. CASE DoChan(c) BY <1>0, <2>1 DEF DoChan
  <2>2. CASE CallerCancel(c) BY <1>0, <2>2 DEF CallerCancel
  <2>3. CASE TakeResult(c)
    BY <1>0, <2>3 DEF TakeResult, ResultError, ResultReread, ResultRebuild
  <2>4. CASE SkipRefresh(c) BY <1>0, <2>4 DEF SkipRefresh
  <2>5. CASE CheckShutdown(c) \/ ProbeMarker(c)
    BY <1>0, <2>5 DEF CheckShutdown, ProbeMarker
  <2>6. CASE OverLimit(c) BY <1>0, <2>6 DEF OverLimit
  <2>7. CASE UndoCount(c) BY <1>0, <2>7 DEF UndoCount
  <2>8. QED BY <1>2, <2>1, <2>2, <2>3, <2>4, <2>5, <2>6, <2>7
<1>3. ASSUME NEW c \in Callers, TrySet(c)
      PROVE  Goal
  <2>1. PICK h \in Keys : h = key[c]
    BY <1>00, <1>3 DEF TrySet
  <2>2. /\ pc[c] = "mark" /\ ~marker[h]
        /\ marker' = [marker EXCEPT ![h] = TRUE]
        /\ pc' = [pc EXCEPT ![c] = "count"]
        /\ UNCHANGED <<key, rpc, rkey>>
    BY <1>3, <2>1 DEF TrySet, TryAsyncStay, Continue
  <2>3. SameBut(h)
    BY <1>0, <2>1, <2>2 DEF SameBut, SameHolders, SameMarker, CallerHolds,
       RefresherHolds
  <2>4. Takes(c, h)
    BY <1>0, <2>1, <2>2 DEF Takes, CallerHolds, RefresherHolds
  <2>5. QED BY <2>3, <2>4 DEF Changes
<1>4. ASSUME NEW c \in Callers, LaunchRefresh(c)
      PROVE  Goal
  <2>1. PICK h \in Keys : h = key[c]
    BY <1>00, <1>4 DEF LaunchRefresh
  <2>2. PICK r \in Refreshers : /\ rpc[r] = "none"
                                /\ rpc' = [rpc EXCEPT ![r] = "do"]
                                /\ rkey' = [rkey EXCEPT ![r] = h]
    BY <1>4, <2>1 DEF LaunchRefresh
  <2>3. /\ pc[c] = "count"
        /\ pc' = [pc EXCEPT ![c] = "idle"]
        /\ key' = [key EXCEPT ![c] = NoKey]
        /\ UNCHANGED marker
    BY <1>4 DEF LaunchRefresh, ReturnSeen, Return
  <2>4. SameBut(h)
    BY <1>0, <2>1, <2>2, <2>3 DEF SameBut, SameHolders, SameMarker,
       CallerHolds, RefresherHolds
  <2>5. CallerLeaves(c, h)
    BY <1>0, <2>1, <2>3 DEF CallerLeaves, CallerHolds
  <2>6. \A s \in Refreshers :
          RefresherHolds(s, h)' <=> s = r \/ RefresherHolds(s, h)
    BY <1>0, <2>2 DEF RefresherHolds
  <2>7. PassesOn(c, r, h)
    BY <2>3, <2>5, <2>6 DEF PassesOn, SameMarker
  <2>8. QED BY <2>4, <2>7 DEF Changes
<1>5. ASSUME NEW c \in Callers, UndoMark(c)
      PROVE  Goal
  <2>1. PICK h \in Keys : h = key[c]
    BY <1>00, <1>5 DEF UndoMark
  <2>2. /\ pc[c] = "unmark"
        /\ marker' = [marker EXCEPT ![h] = FALSE]
        /\ pc' = [pc EXCEPT ![c] = "idle"]
        /\ key' = [key EXCEPT ![c] = NoKey]
        /\ UNCHANGED <<rpc, rkey>>
    BY <1>5, <2>1 DEF UndoMark, ReturnSeen, Return
  <2>3. SameBut(h)
    BY <1>0, <2>1, <2>2 DEF SameBut, SameHolders, SameMarker, CallerHolds,
       RefresherHolds
  <2>4. CallerLeaves(c, h)
    BY <1>0, <2>1, <2>2 DEF CallerLeaves, CallerHolds
  <2>5. CallerDeletes(c, h)
    BY <1>0, <2>2, <2>4 DEF CallerDeletes, RefresherHolds
  <2>6. QED BY <2>3, <2>5 DEF Changes
<1>6. ASSUME NEW r \in Refreshers, RefresherDelete(r)
      PROVE  Goal
  <2>1. PICK h \in Keys : h = rkey[r]
    BY <1>00, <1>6 DEF RefresherDelete, RefresherStep
  <2>2. /\ rpc[r] = "unmark"
        /\ marker' = [marker EXCEPT ![h] = FALSE]
        /\ rpc' = [rpc EXCEPT ![r] = "dec"]
        /\ UNCHANGED <<pc, key, rkey>>
    BY <1>6, <2>1 DEF RefresherDelete, RefresherStep
  <2>3. SameBut(h)
    BY <1>0, <2>1, <2>2 DEF SameBut, SameHolders, SameMarker, CallerHolds,
       RefresherHolds
  <2>4. RefresherDeletes(r, h)
    BY <1>0, <2>1, <2>2 DEF RefresherDeletes, CallerHolds, RefresherHolds
  <2>5. QED BY <2>3, <2>4 DEF Changes
<1>7. ASSUME NEW r \in Refreshers, RefresherDo(r) \/ RefresherDec(r)
      PROVE  HoldsUnchanged
  BY <1>0, <1>7 DEF HoldsUnchanged, SameHolders, SameMarker, CallerHolds,
     RefresherHolds, RefresherDo, RefresherDec, RefresherStep
<1>8. ASSUME NEW k \in Keys, FlightEnd(k)
      PROVE  HoldsUnchanged
  <2>1. /\ UNCHANGED <<marker, key, rkey>>
        /\ \A c \in Callers :
             pc'[c] = IF pc[c] = "wait" /\ key[c] = k THEN "got" ELSE pc[c]
        /\ \A r \in Refreshers :
             rpc'[r] = IF rpc[r] = "wait" /\ rkey[r] = k
                       THEN "unmark" ELSE rpc[r]
    BY <1>8 DEF FlightEnd
  <2>2. QED BY <2>1 DEF HoldsUnchanged, SameHolders, SameMarker, CallerHolds,
               RefresherHolds
<1>9. ASSUME NEW k \in Keys, MarkerExpire(k)
      PROVE  Goal
  <2>1. /\ MarkerMayExpire
        /\ marker' = [marker EXCEPT ![k] = FALSE]
        /\ UNCHANGED <<pc, key, rpc, rkey>>
    BY <1>9 DEF MarkerExpire
  <2>2. SameBut(k) /\ Expires(k)
    BY <1>0, <2>1 DEF SameBut, Expires, SameHolders, SameMarker, CallerHolds,
       RefresherHolds
  <2>3. QED BY <2>2 DEF Changes
<1>10. ASSUME UNCHANGED <<marker, pc, key, rpc, rkey>>
       PROVE  HoldsUnchanged
  BY <1>10 DEF HoldsUnchanged, SameHolders, SameMarker, CallerHolds,
     RefresherHolds
<1>11. ASSUME NEW k \in Keys, SafeCall(k) \/ Deadline(k) \/ Age(k) \/ Evict(k)
       PROVE  UNCHANGED <<marker, pc, key, rpc, rkey>>
  BY <1>11 DEF SafeCall, StartCallback, Abandon, Receive, ReceiveFails,
     Store, StoreFails, FlightFails, FlightStep, Deadline, Age, Evict
<1>12. ASSUME NEW a \in running, CallReturn(a[1], a[2])
       PROVE  UNCHANGED <<marker, pc, key, rpc, rkey>>
  BY <1>12 DEF CallReturn
<1>13. ASSUME Shutdown \/ UNCHANGED vars
       PROVE  UNCHANGED <<marker, pc, key, rpc, rkey>>
  BY <1>13 DEF Shutdown, ShutdownBegin, ShutdownTick, ShutdownTimeout,
     ShutdownStep, vars
<1>14. ASSUME NEW c \in Callers, CallerStep(c)
       PROVE  Goal
  BY <1>2, <1>3, <1>4, <1>5, <1>14 DEF CallerStep, TryAsyncRefresh
<1>15. ASSUME NEW k \in Keys, KeyStep(k)
       PROVE  Goal
  BY <1>8, <1>9, <1>10, <1>11, <1>15 DEF KeyStep
<1>16. ASSUME NEW r \in Refreshers, RefresherWork(r)
       PROVE  Goal
  BY <1>6, <1>7, <1>16 DEF RefresherWork
<1>17. QED
  BY <1>1, <1>10, <1>12, <1>13, <1>14, <1>15, <1>16 DEF Next, Done

\* While the tracker's TTL outlasts every refresh, the marker of a key is up
\* exactly while one goroutine refreshes it or is about to.
THEOREM MarkerExclusive ==
  ASSUME ~MarkerMayExpire
  PROVE  Spec => []MarkerOwned
<1>1. Init => MarkerOwned
  BY DEF Init, MarkerOwned, OwnedOnce, CallerHolds, RefresherHolds
<1>2. TypeOK /\ MarkerOwned /\ [Next]_vars => MarkerOwned'
  <2> SUFFICES ASSUME TypeOK, MarkerOwned, [Next]_vars
               PROVE  MarkerOwned'
    OBVIOUS
  <2>1. ASSUME NEW k \in Keys, SameHolders(k), SameMarker(k)
        PROVE  OwnedOnce(k)'
    BY <2>1 DEF SameHolders, SameMarker, MarkerOwned, OwnedOnce
  <2>2. ASSUME NEW h \in Keys, Changes(h)
        PROVE  OwnedOnce(h)'
    <3> USE DEF MarkerOwned, OwnedOnce
    <3>1. ASSUME NEW c \in Callers, Takes(c, h)
          PROVE  OwnedOnce(h)'
      BY <3>1 DEF Takes
    <3>2. ASSUME NEW c \in Callers, CallerDeletes(c, h)
          PROVE  OwnedOnce(h)'
      BY <3>2 DEF CallerDeletes, CallerLeaves
    <3>3. ASSUME NEW c \in Callers, NEW r \in Refreshers, PassesOn(c, r, h)
          PROVE  OwnedOnce(h)'
      BY <3>3 DEF PassesOn, CallerLeaves, SameMarker
    <3>4. ASSUME NEW r \in Refreshers, RefresherDeletes(r, h)
          PROVE  OwnedOnce(h)'
      BY <3>4 DEF RefresherDeletes
    <3>5. QED BY <2>2, <3>1, <3>2, <3>3, <3>4 DEF Changes, Expires
  <2>3. QED
    BY HoldSteps, <2>1, <2>2 DEF HoldsUnchanged, SameBut, MarkerOwned
<1>3. QED BY <1>1, <1>2, Typing, PTL DEF Spec

\* Somebody in the engine will delete the marker of k.
Held(k) == \/ \E c \in Callers : CallerHolds(c, k)
           \/ \E r \in Refreshers : RefresherHolds(r, k)

MarkerHeld == \A k \in Keys : marker[k] => Held(k)

\* A marker always has somebody who will delete it, even when its TTL can run
\* out and two goroutines come to hold the same key: whoever leaves a key
\* takes the marker down, be it his own or not.
THEOREM NoMarkerForgotten == Spec => []MarkerHeld
<1>1. Init => MarkerHeld
  BY DEF Init, MarkerHeld
<1>2. TypeOK /\ MarkerHeld /\ [Next]_vars => MarkerHeld'
  <2> SUFFICES ASSUME TypeOK, MarkerHeld, [Next]_vars
               PROVE  MarkerHeld'
    OBVIOUS
  <2>1. ASSUME NEW k \in Keys, SameHolders(k), SameMarker(k), marker'[k]
        PROVE  Held(k)'
    BY <2>1 DEF SameHolders, SameMarker, MarkerHeld, Held
  <2>2. ASSUME NEW h \in Keys, Changes(h), marker'[h]
        PROVE  Held(h)'
    <3>1. ASSUME NEW c \in Callers, Takes(c, h)
          PROVE  Held(h)'
      BY <3>1 DEF Takes, Held
    <3>2. ASSUME NEW c \in Callers, NEW r \in Refreshers, PassesOn(c, r, h)
          PROVE  Held(h)'
      BY <3>2 DEF PassesOn, Held
    <3>3. QED
      BY <2>2, <3>1, <3>2 DEF Changes, Expires, CallerDeletes, RefresherDeletes
  <2>3. QED
    BY HoldSteps, <2>1, <2>2 DEF HoldsUnchanged, SameBut, MarkerHeld
<1>3. QED BY <1>1, <1>2, Typing, PTL DEF Spec

-----------------------------------------------------------------------------
(* Nothing is left behind, and nobody waits for what is not there.         *)

\* Whoever waits for a flight waits for one in progress.
Attended ==
  /\ \A c \in Callers : pc[c] = "wait" => stage[key[c]] # "idle"
  /\ \A r \in Refreshers : rpc[r] = "wait" => stage[rkey[r]] # "idle"

\* No caller and no background refresh ever waits for a result that nobody is
\* going to deliver: a goroutine that joins a flight finds it registered or
\* registers it, in one step, and the step that ends it lets all of them go.
THEOREM WaitersAttended == Spec => []Attended
<1>1. Init => Attended
  BY DEF Init, Attended
<1>2. TypeOK /\ Attended /\ [Next]_vars => Attended'
  <2> SUFFICES ASSUME TypeOK, Attended, [Next]_vars
               PROVE  Attended'
    OBVIOUS
  <2> USE DEF callerVars, storeVars, flightVars, callVars, refresherVars
  <2>0. /\ pc \in [Callers -> CallerPCs]
        /\ key \in [Callers -> Keys \union {NoKey}]
        /\ rpc \in [Refreshers -> RefresherPCs]
        /\ rkey \in [Refreshers -> Keys \union {NoKey}]
        /\ stage \in [Keys -> Stages]
    BY DEF TypeOK
  <2>00. /\ \A c \in Callers : pc[c] # "idle" => key[c] \in Keys
         /\ \A r \in Refreshers : rpc[r] # "none" => rkey[r] \in Keys
    BY DEF TypeOK
  \* Steps at which no flight ends and nobody new waits.
  <2>1. ASSUME \A k \in Keys : stage[k] # "idle" => stage'[k] # "idle",
               \A c \in Callers :
                 pc'[c] = "wait" => pc[c] = "wait" /\ key'[c] = key[c],
               \A r \in Refreshers :
                 rpc'[r] = "wait" => rpc[r] = "wait" /\ rkey'[r] = rkey[r]
        PROVE  Attended'
    BY <2>00, <2>1 DEF Attended
  <2>2. ASSUME NEW c \in Callers, NEW k \in Keys, Execute(c, k)
        PROVE  Attended'
    <3>1. /\ UNCHANGED <<stage, rpc, rkey>>
          /\ pc'[c] # "wait"
          /\ \A d \in Callers \ {c} : pc'[d] = pc[d] /\ key'[d] = key[d]
      BY <2>0, <2>2 DEF Execute, ExecuteError, ExecuteMiss, ExecuteHit,
         ExecuteStale, Enter, EnterAt, Return, Continue
    <3>2. QED BY <2>1, <3>1
  <2>3. ASSUME NEW c \in Callers, DoChan(c)
        PROVE  Attended'
    <3>1. /\ pc' = [pc EXCEPT ![c] = "wait"]
          /\ stage' = [stage EXCEPT ![key[c]] =
               IF stage[key[c]] = "idle" THEN "spawn" ELSE stage[key[c]]]
          /\ UNCHANGED <<key, rpc, rkey>>
          /\ key[c] \in Keys
      BY <2>00, <2>3 DEF DoChan, Join, Continue
    <3>2. /\ stage'[key[c]] # "idle"
          /\ \A k \in Keys : stage[k] # "idle" => stage'[k] # "idle"
      BY <2>0, <3>1
    <3>3. QED BY <2>0, <2>00, <3>1, <3>2 DEF Attended
  <2>4. ASSUME NEW c \in Callers,
               CallerCancel(c) \/ TakeResult(c) \/ TryAsyncRefresh(c)
        PROVE  Attended'
    <3>1. /\ UNCHANGED stage
          /\ pc'[c] # "wait"
          /\ \A d \in Callers \ {c} : pc'[d] = pc[d] /\ key'[d] = key[d]
      <4> USE DEF Return, Continue, Leaving, TryAsyncStay, ReturnSeen
      <4>1. CASE CallerCancel(c) \/ TakeResult(c)
        BY <2>0, <4>1 DEF CallerCancel, TakeResult, ResultError, ResultReread,
           ResultRebuild
      <4>2. CASE SkipRefresh(c) \/ LaunchRefresh(c) \/ UndoMark(c)
        BY <2>0, <4>2 DEF SkipRefresh, LaunchRefresh, UndoMark
      <4>3. CASE CheckShutdown(c) \/ ProbeMarker(c) \/ TrySet(c)
        BY <2>0, <4>3 DEF CheckShutdown, ProbeMarker, TrySet
      <4>4. CASE OverLimit(c) \/ UndoCount(c)
        BY <2>0, <4>4 DEF OverLimit, UndoCount
      <4>5. QED BY <2>4, <4>1, <4>2, <4>3, <4>4 DEF TryAsyncRefresh
    <3>2. \A r \in Refreshers :
            rpc'[r] = "wait" => rpc[r] = "wait" /\ rkey'[r] = rkey[r]
      <4>1. CASE LaunchRefresh(c)
        BY <2>0, <4>1 DEF LaunchRefresh
      <4>2. CASE ~LaunchRefresh(c)
        <5>1. UNCHANGED <<rpc, rkey>>
          BY <2>4, <4>2 DEF CallerCancel, TakeResult, ResultError,
             ResultReread, ResultRebuild, TryAsyncRefresh, SkipRefresh,
             CheckShutdown, ProbeMarker, TrySet, OverLimit, UndoCount,
             UndoMark, Leaving, TryAsyncStay
        <5>2. QED BY <5>1
      <4>3. QED BY <4>1, <4>2
    <3>3. QED BY <2>1, <3>1, <3>2
  <2>5. ASSUME NEW r \in Refreshers, RefresherDo(r)
        PROVE  Attended'
    <3>1. /\ rpc' = [rpc EXCEPT ![r] = "wait"]
          /\ stage' = [stage EXCEPT ![rkey[r]] =
               IF stage[rkey[r]] = "idle" THEN "spawn" ELSE stage[rkey[r]]]
          /\ UNCHANGED <<key, pc, rkey>>
          /\ rkey[r] \in Keys
      BY <2>00, <2>5 DEF RefresherDo, RefresherStep, Join
    <3>2. /\ stage'[rkey[r]] # "idle"
          /\ \A k \in Keys : stage[k] # "idle" => stage'[k] # "idle"
      BY <2>0, <3>1
    <3>3. QED BY <2>0, <2>00, <3>1, <3>2 DEF Attended
  <2>6. ASSUME NEW r \in Refreshers, RefresherDelete(r) \/ RefresherDec(r)
        PROVE  Attended'
    <3>1. /\ UNCHANGED <<stage, pc, key>>
          /\ rpc'[r] # "wait"
          /\ \A s \in Refreshers \ {r} : rpc'[s] = rpc[s] /\ rkey'[s] = rkey[s]
      BY <2>0, <2>6 DEF RefresherDelete, RefresherDec, RefresherStep
    <3>2. QED BY <2>1, <3>1
  <2>7. ASSUME NEW k \in Keys, SafeCall(k)
        PROVE  Attended'
    <3>1. /\ UNCHANGED <<pc, key, rpc, rkey>>
          /\ \E to \in Stages \ {"idle"} : stage' = [stage EXCEPT ![k] = to]
      BY <2>7 DEF SafeCall, StartCallback, Abandon, Receive, ReceiveFails,
         Store, StoreFails, FlightFails, FlightStep, Stages
    <3>2. QED BY <2>0, <2>1, <3>1
  <2>8. ASSUME NEW k \in Keys, FlightEnd(k)
        PROVE  Attended'
    <3>1. /\ UNCHANGED <<key, rkey>>
          /\ stage' = [stage EXCEPT ![k] = "idle"]
          /\ \A c \in Callers :
               pc'[c] = IF pc[c] = "wait" /\ key[c] = k THEN "got" ELSE pc[c]
          /\ \A r \in Refreshers :
               rpc'[r] = IF rpc[r] = "wait" /\ rkey[r] = k
                         THEN "unmark" ELSE rpc[r]
      BY <2>8 DEF FlightEnd
    <3>2. QED BY <2>0, <2>00, <3>1 DEF Attended
  <2>9. ASSUME UNCHANGED <<pc, key, rpc, rkey>>,
               \A k \in Keys : stage[k] # "idle" => stage'[k] # "idle"
        PROVE  Attended'
    BY <2>1, <2>9
  <2>10. ASSUME NEW k \in Keys,
                Deadline(k) \/ Age(k) \/ Evict(k) \/ MarkerExpire(k)
         PROVE  Attended'
    BY <2>9, <2>10 DEF Deadline, Age, Evict, MarkerExpire
  <2>11. ASSUME NEW a \in running, CallReturn(a[1], a[2])
         PROVE  Attended'
    <3>1. \/ stage' = [stage EXCEPT ![a[2]] = "ready"]
          \/ UNCHANGED stage
      BY <2>11 DEF CallReturn, CallAnswers, CallDropped
    <3>2. QED BY <2>0, <2>9, <2>11, <3>1 DEF CallReturn
  <2>12. ASSUME Shutdown \/ UNCHANGED vars
         PROVE  Attended'
    BY <2>9, <2>12 DEF Shutdown, ShutdownBegin, ShutdownTick, ShutdownTimeout,
       ShutdownStep, vars
  <2>13. QED
    BY <2>2, <2>3, <2>4, <2>5, <2>6, <2>7, <2>8, <2>10, <2>11, <2>12
       DEF Next, CallerStep, RefresherWork, KeyStep, Done
<1>3. QED BY <1>1, <1>2, Typing, PTL DEF Spec

\* Nobody is in Execute, and no refresh goroutine is alive.
Deserted == (\A c \in Callers : pc[c] = "idle") /\ LiveRefreshers = {}

RestIsClean == Deserted => count = 0 /\ \A k \in Keys : ~marker[k]

\* When the last goroutine has gone, currentRefreshes is 0 and no marker is
\* up, whatever deadlines, failures, expiries and Shutdown came between: no
\* later refresh is refused for something that an earlier one left behind.
THEOREM NothingLeftBehind == Spec => []RestIsClean
<1>1. ASSUME CounterMatchesHolders, MarkerHeld
      PROVE  RestIsClean
  <2> SUFFICES ASSUME Deserted
               PROVE  count = 0 /\ \A k \in Keys : ~marker[k]
    BY DEF RestIsClean
  <2>1. LiveRefreshers = {} /\ Undoing = {}
    BY DEF Deserted, Undoing
  <2>2. count = 0
    BY <1>1, <2>1, FS_EmptySet DEF CounterMatchesHolders
  <2>3. \A k \in Keys : ~Held(k)
    BY DEF Deserted, LiveRefreshers, Held, CallerHolds, RefresherHolds
  <2>4. QED BY <1>1, <2>2, <2>3 DEF MarkerHeld
<1>2. QED BY <1>1, CounterExact, NoMarkerForgotten, PTL

-----------------------------------------------------------------------------
(* Every key has values of its own.                                        *)

\* The versions that the engine has stored, served, is fetching or is about
\* to serve for k.
Values(k) == {stored[k], served[k], call[k]}
               \union {seen[c] : c \in {d \in Callers : key[d] = k}}

\* No value is in use for two keys (0 is no value, and 1 what the store of
\* any key may have held at the start), and what the upstream is asked for one
\* key never becomes a value of another one.
KeysApart ==
  /\ \A j, k \in Keys : j # k => Values(j) \intersect Values(k) \subseteq {0, 1}
  /\ \A a \in running, k \in Keys : a[1] \in Values(k) => a[2] = k

\* Numbers that have been given to calls.
NumbersTaken ==
  /\ \A k \in Keys : Values(k) \subseteq 0..started
  /\ \A a \in running : a[1] \in 1..started

KeepsValues(k) == Values(k)' \subseteq Values(k) \union {0}

\* The only step that brings a new value into use is the launch of a callback,
\* for the key of its flight.
LEMMA ValueSteps ==
  ASSUME TypeOK, [Next]_vars
  PROVE  \/ /\ started' = started
            /\ running' \subseteq running
            /\ \A k \in Keys : KeepsValues(k)
         \/ \E k \in Keys :
              /\ started' = started + 1
              /\ running' = running \union {<<started + 1, k>>}
              /\ Values(k)' \subseteq Values(k) \union {started + 1}
              /\ \A j \in Keys \ {k} : KeepsValues(j)
<1> DEFINE Kept == /\ started' = started
                   /\ running' \subseteq running
                   /\ \A k \in Keys : KeepsValues(k)
           In(v, k) == v \in Values(k) \union {0}
<1> USE DEF callerVars, storeVars, flightVars, callVars, refresherVars
<1>0. /\ pc \in [Callers -> CallerPCs]
      /\ key \in [Callers -> Keys \union {NoKey}]
      /\ \A c \in Callers : pc[c] # "idle" => key[c] \in Keys
      /\ seen \in [Callers -> Nat]
      /\ stored \in [Keys -> Nat]
      /\ served \in [Keys -> Nat]
      /\ call \in [Keys -> Nat]
      /\ NoKey \notin Keys
  BY KeyAssumption DEF TypeOK
<1>a. ASSUME NEW k \in Keys,
             In(stored'[k], k), In(served'[k], k), In(call'[k], k),
             \A c \in Callers : key'[c] = k => In(seen'[c], k)
      PROVE  KeepsValues(k)
  BY <1>a DEF KeepsValues, Values
<1>b. \A k \in Keys :
        /\ In(stored[k], k) /\ In(served[k], k) /\ In(call[k], k) /\ In(0, k)
        /\ \A c \in Callers : key[c] = k => In(seen[c], k)
  BY DEF Values
<1> HIDE DEF In
<1>1. ASSUME UNCHANGED <<stored, served, call, key, seen>>
      PROVE  \A k \in Keys : KeepsValues(k)
  BY <1>a, <1>b, <1>1
\* Execute of c, about h, ends with v, or goes on with it.
<1>2. ASSUME NEW c \in Callers, NEW h \in Keys, NEW status, NEW v, In(v, h),
             Return(c, h, status, v), UNCHANGED <<stored, call>>
      PROVE  \A k \in Keys : KeepsValues(k)
  <2>1. \A k \in Keys : served'[k] = served[k] \/ (k = h /\ served'[k] = v)
    BY <1>0, <1>2 DEF Return
  <2>2. /\ key'[c] = NoKey
        /\ \A d \in Callers \ {c} : key'[d] = key[d] /\ seen'[d] = seen[d]
    BY <1>0, <1>2 DEF Return
  <2>3. QED BY <1>0, <1>a, <1>b, <1>2, <2>1, <2>2
<1>3. ASSUME NEW c \in Callers, NEW h \in Keys, NEW step, NEW v, In(v, h),
             Continue(c, step, v), key' = [key EXCEPT ![c] = h],
             UNCHANGED <<stored, call>>
      PROVE  \A k \in Keys : KeepsValues(k)
  <2>1. /\ key'[c] = h /\ seen'[c] = v /\ served' = served
        /\ \A d \in Callers \ {c} : key'[d] = key[d] /\ seen'[d] = seen[d]
    BY <1>0, <1>3 DEF Continue
  <2>2. QED BY <1>a, <1>b, <1>3, <2>1
<1>4. ASSUME NEW c \in Callers, NEW k \in Keys, Execute(c, k)
      PROVE  Kept
  <2>1. UNCHANGED <<started, running, stored, call>>
    BY <1>4 DEF Execute, ExecuteError, ExecuteMiss, ExecuteHit, ExecuteStale,
       Enter, EnterAt
  <2>2. \/ \E status, v : In(v, k) /\ Return(c, k, status, v)
        \/ \E step, v : /\ In(v, k) /\ Continue(c, step, v)
                        /\ key' = [key EXCEPT ![c] = k]
    BY <1>4, <1>b DEF Execute, ExecuteError, ExecuteMiss, ExecuteHit,
       ExecuteStale, Enter, EnterAt
  <2>3. QED BY <1>2, <1>3, <2>1, <2>2
<1>5. ASSUME NEW c \in Callers, CallerStep(c)
      PROVE  Kept
  <2>1. PICK h \in Keys : h = key[c]
    BY <1>0, <1>5 DEF CallerStep, DoChan, CallerCancel, TakeResult,
       ResultError, ResultReread, ResultRebuild, TryAsyncRefresh, SkipRefresh,
       CheckShutdown, ProbeMarker, TrySet, LaunchRefresh, OverLimit, UndoCount,
       UndoMark
  <2>2. UNCHANGED <<started, running, stored, call>>
    BY <1>5 DEF CallerStep, DoChan, Join, CallerCancel, TakeResult,
       ResultError, ResultReread, ResultRebuild, TryAsyncRefresh, SkipRefresh,
       CheckShutdown, ProbeMarker, TrySet, LaunchRefresh, OverLimit, UndoCount,
       UndoMark, TryAsyncStay, Leaving
  <2>3. CASE CallerCancel(c) \/ TakeResult(c)
    <3>1. \E status, v : In(v, h) /\ Return(c, h, status, v)
      BY <1>b, <2>1, <2>3 DEF CallerCancel, TakeResult, ResultError,
         ResultReread, ResultRebuild
    <3>2. QED BY <1>2, <2>2, <3>1
  <2>4. CASE SkipRefresh(c) \/ LaunchRefresh(c) \/ UndoMark(c)
    <3>1. Return(c, h, "stale", seen[c]) /\ In(seen[c], h)
      BY <1>b, <2>1, <2>4 DEF SkipRefresh, LaunchRefresh, UndoMark, ReturnSeen
    <3>2. QED BY <1>2, <2>2, <3>1
  <2>5. CASE \/ DoChan(c) \/ CheckShutdown(c) \/ ProbeMarker(c) \/ TrySet(c)
             \/ OverLimit(c) \/ UndoCount(c)
    <3>1. \E step, v : In(v, h) /\ Continue(c, step, v)
      BY <1>b, <2>1, <2>5 DEF DoChan, CheckShutdown, ProbeMarker, TrySet,
         OverLimit, UndoCount, TryAsyncStay
    <3>2. key' = [key EXCEPT ![c] = h]
      BY <1>0, <2>1, <2>5 DEF DoChan, CheckShutdown, ProbeMarker, TrySet,
         OverLimit, UndoCount, TryAsyncStay
    <3>3. QED BY <1>3, <2>2, <3>1, <3>2
  <2>6. QED BY <1>5, <2>3, <2>4, <2>5 DEF CallerStep, TryAsyncRefresh
<1>6. ASSUME NEW r \in Refreshers, RefresherWork(r)
      PROVE  Kept
  BY <1>1, <1>6 DEF RefresherWork, RefresherDo, RefresherDelete, RefresherDec,
     RefresherStep, Join
<1>7. ASSUME NEW k \in Keys, StartCallback(k)
      PROVE  /\ started' = started + 1
             /\ running' = running \union {<<started + 1, k>>}
             /\ Values(k)' \subseteq Values(k) \union {started + 1}
             /\ \A j \in Keys \ {k} : KeepsValues(j)
  <2>1. /\ UNCHANGED <<stored, served, key, seen>>
        /\ call'[k] = started + 1
        /\ \A j \in Keys \ {k} : call'[j] = call[j]
    BY <1>0, <1>7 DEF StartCallback
  <2>2. Values(k)' \subseteq Values(k) \union {started + 1}
    BY <2>1 DEF Values
  <2>3. \A j \in Keys \ {k} : KeepsValues(j)
    BY <1>a, <1>b, <2>1
  <2>4. QED BY <1>7, <2>2, <2>3 DEF StartCallback
<1>8. ASSUME NEW k \in Keys, Store(k)
      PROVE  Kept
  <2>1. /\ UNCHANGED <<started, running, served, call, key, seen>>
        /\ stored'[k] = call[k]
        /\ \A j \in Keys \ {k} : stored'[j] = stored[j]
    BY <1>0, <1>8 DEF Store, FlightStep
  <2>2. QED BY <1>a, <1>b, <2>1
<1>9. ASSUME NEW k \in Keys,
             Abandon(k) \/ Receive(k) \/ ReceiveFails(k) \/ StoreFails(k)
      PROVE  Kept
  BY <1>1, <1>9 DEF Abandon, Receive, ReceiveFails, StoreFails, FlightFails,
     FlightStep
<1>10. ASSUME NEW k \in Keys, FlightEnd(k)
       PROVE  Kept
  <2>1. /\ UNCHANGED <<started, running, served, stored, key>>
        /\ call'[k] = 0
        /\ \A j \in Keys \ {k} : call'[j] = call[j]
        /\ \A c \in Callers :
             seen'[c] = seen[c] \/ (key[c] = k /\ seen'[c] \in {0, call[k]})
    BY <1>0, <1>10 DEF FlightEnd, Result
  <2>2. QED BY <1>a, <1>b, <2>1
<1>11. ASSUME NEW k \in Keys, Evict(k)
       PROVE  Kept
  <2>1. /\ UNCHANGED <<started, running, served, call, key, seen>>
        /\ stored'[k] = 0
        /\ \A j \in Keys \ {k} : stored'[j] = stored[j]
    BY <1>0, <1>11 DEF Evict
  <2>2. QED BY <1>a, <1>b, <2>1
<1>12. ASSUME NEW k \in Keys, Deadline(k) \/ Age(k) \/ MarkerExpire(k)
       PROVE  Kept
  BY <1>1, <1>12 DEF Deadline, Age, MarkerExpire
<1>13. ASSUME NEW a \in running, CallReturn(a[1], a[2])
       PROVE  Kept
  BY <1>1, <1>13 DEF CallReturn
<1>14. ASSUME Shutdown \/ UNCHANGED vars
       PROVE  Kept
  BY <1>1, <1>14 DEF Shutdown, ShutdownBegin, ShutdownTick, ShutdownTimeout,
     ShutdownStep, vars
<1>15. QED
  BY <1>4, <1>5, <1>6, <1>7, <1>8, <1>9, <1>10, <1>11, <1>12, <1>13, <1>14
     DEF Next, KeyStep, SafeCall, Done

\* One key's fetches never reach the callers or the entry of another: neither
\* a flight that is delivered to a waiter of another key, nor a late callback,
\* nor a goroutine that works on with a key of before can mix them up.
THEOREM KeysNeverMix == Spec => []KeysApart
<1>1. Init => NumbersTaken /\ KeysApart
  <2> SUFFICES ASSUME Init
               PROVE  NumbersTaken /\ KeysApart
    OBVIOUS
  <2>1. \A k \in Keys : Values(k) \subseteq {0, 1}
    BY DEF Init, Values
  <2>2. running = {} /\ started = 1
    BY DEF Init
  <2>3. QED BY <2>1, <2>2 DEF NumbersTaken, KeysApart
<1>2. TypeOK /\ NumbersTaken /\ KeysApart /\ [Next]_vars
        => (NumbersTaken /\ KeysApart)'
  <2> SUFFICES ASSUME TypeOK, NumbersTaken, KeysApart, [Next]_vars
               PROVE  NumbersTaken' /\ KeysApart'
    OBVIOUS
  <2>0. started \in Nat \ {0}
    BY DEF TypeOK, Calls
  <2>1. ASSUME started' = started, running' \subseteq running,
               \A k \in Keys : KeepsValues(k)
        PROVE  NumbersTaken' /\ KeysApart'
    <3>1. NumbersTaken'
      BY <2>0, <2>1 DEF KeepsValues, NumbersTaken
    <3>2. ASSUME NEW j \in Keys, NEW k \in Keys, j # k
          PROVE  (Values(j) \intersect Values(k) \subseteq {0, 1})'
      BY <2>1, <3>2 DEF KeepsValues, KeysApart
    <3>3. ASSUME NEW a \in running', NEW k \in Keys, a[1] \in Values(k)'
          PROVE  a[2] = k
      <4>1. a \in running /\ a[1] # 0
        BY <2>1, <3>3 DEF NumbersTaken
      <4>2. QED BY <2>1, <3>3, <4>1 DEF KeepsValues, KeysApart
    <3>4. QED BY <3>1, <3>2, <3>3 DEF KeysApart
  <2>2. ASSUME NEW k \in Keys,
               started' = started + 1,
               running' = running \union {<<started + 1, k>>},
               Values(k)' \subseteq Values(k) \union {started + 1},
               \A j \in Keys \ {k} : KeepsValues(j)
        PROVE  NumbersTaken' /\ KeysApart'
    <3>1. \A j \in Keys : started + 1 \notin Values(j)
      BY <2>0 DEF NumbersTaken
    <3>2. \A j \in Keys : Values(j)' \subseteq
            Values(j) \union {0} \union (IF j = k THEN {started + 1} ELSE {})
      BY <2>2 DEF KeepsValues
    <3>3. NumbersTaken'
      <4>1. \A j \in Keys : Values(j)' \subseteq 0..started'
        BY <2>0, <2>2, <3>2 DEF NumbersTaken
      <4>2. \A a \in running' : a[1] \in 1..started'
        BY <2>0, <2>2 DEF NumbersTaken
      <4>3. QED BY <4>1, <4>2 DEF NumbersTaken
    <3>4. ASSUME NEW i \in Keys, NEW j \in Keys, i # j
          PROVE  (Values(i) \intersect Values(j) \subseteq {0, 1})'
      <4>1. Values(i) \intersect Values(j) \subseteq {0, 1}
        BY <3>4 DEF KeysApart
      <4>2. QED BY <3>1, <3>2, <3>4, <4>1
    <3>5. ASSUME NEW a \in running', NEW j \in Keys, a[1] \in Values(j)'
          PROVE  a[2] = j
      <4>1. CASE a \in running
        <5>1. a[1] \in 1..started
          BY <4>1 DEF NumbersTaken
        <5>2. a[1] \in Values(j)
          BY <2>0, <3>2, <3>5, <5>1
        <5>3. QED BY <4>1, <5>2 DEF KeysApart
      <4>2. CASE a = <<started + 1, k>>
        <5>1. j = k
          BY <2>0, <3>1, <3>2, <3>5, <4>2
        <5>2. QED BY <4>2, <5>1
      <4>3. QED BY <2>2, <4>1, <4>2
    <3>6. QED BY <3>3, <3>4, <3>5 DEF KeysApart
  <2>3. QED BY ValueSteps, <2>1, <2>2
<1>3. QED BY <1>1, <1>2, Typing, PTL DEF Spec

-----------------------------------------------------------------------------
(* Refreshes after Shutdown has begun.                                     *)

\* Callers that have seen no shutdown and may still launch a refresh.
Committed == {c \in Callers : pc[c] \in {"probe", "mark", "count"}}

\* Refreshes that are alive, or may still be launched.
ToDrain == Cardinality(Committed) + Cardinality(LiveRefreshers)

\* A caller that is over the limit, or finds a marker, is not counted twice.
LEMMA CommittedSteps ==
  ASSUME TypeOK, [Next]_vars, shut # "no"
  PROVE  \/ /\ Committed' \subseteq Committed
            /\ LiveRefreshers' \subseteq LiveRefreshers
         \/ \E c \in Committed, r \in Refreshers :
              /\ Committed' = Committed \ {c}
              /\ LiveRefreshers' = LiveRefreshers \union {r}
<1> DEFINE Fewer == /\ Committed' \subseteq Committed
                    /\ LiveRefreshers' \subseteq LiveRefreshers
<1> USE DEF callerVars, storeVars, flightVars, callVars, refresherVars
<1>0. pc \in [Callers -> CallerPCs] /\ rpc \in [Refreshers -> RefresherPCs]
  BY DEF TypeOK
<1>1. ASSUME \A c \in Callers : \/ pc'[c] = pc[c]
                                \/ pc'[c] \notin {"probe", "mark", "count"}
                                \/ pc[c] \in {"probe", "mark", "count"},
             \A r \in Refreshers : rpc'[r] = "none" \/ rpc[r] # "none"
      PROVE  Fewer
  BY <1>1 DEF Committed, LiveRefreshers
<1>2. ASSUME UNCHANGED <<pc, rpc>>
      PROVE  Fewer
  BY <1>1, <1>2
<1>3. ASSUME NEW c \in Callers, NEW k \in Keys, Execute(c, k)
      PROVE  Fewer
  <2>1. /\ UNCHANGED rpc
        /\ \E step \in {"idle", "join", "check"} : pc' = [pc EXCEPT ![c] = step]
    BY <1>3 DEF Execute, ExecuteError, ExecuteMiss, ExecuteHit, ExecuteStale,
       Enter, EnterAt, Return, Continue
  <2>2. QED BY <1>0, <1>1, <2>1
<1>4. ASSUME NEW c \in Callers, DoChan(c) \/ CallerCancel(c) \/ TakeResult(c)
      PROVE  Fewer
  <2>1. /\ UNCHANGED rpc
        /\ \E step \in {"idle", "wait"} : pc' = [pc EXCEPT ![c] = step]
    BY <1>4 DEF DoChan, CallerCancel, TakeResult, ResultError, ResultReread,
       ResultRebuild, Return, Continue, Leaving
  <2>2. QED BY <1>0, <1>1, <2>1
<1>5. ASSUME NEW c \in Callers,
             \/ SkipRefresh(c) \/ ProbeMarker(c) \/ TrySet(c)
             \/ OverLimit(c) \/ UndoCount(c) \/ UndoMark(c)
      PROVE  Fewer
  <2>1. /\ UNCHANGED rpc
        /\ \/ pc' = [pc EXCEPT ![c] = "idle"]
           \/ pc[c] = "probe" /\ pc' = [pc EXCEPT ![c] = "mark"]
           \/ pc[c] = "mark" /\ pc' = [pc EXCEPT ![c] = "count"]
           \/ pc' = [pc EXCEPT ![c] = "undo"]
           \/ pc' = [pc EXCEPT ![c] = "unmark"]
    BY <1>5 DEF SkipRefresh, ProbeMarker, TrySet, OverLimit, UndoCount,
       UndoMark, TryAsyncStay, ReturnSeen, Return, Continue, Leaving
  <2>2. QED BY <1>0, <1>1, <2>1
<1>6. ASSUME NEW c \in Callers
      PROVE  ~CheckShutdown(c)
  BY DEF CheckShutdown
<1>7. ASSUME NEW c \in Callers, LaunchRefresh(c)
      PROVE  \E r \in Refreshers :
               /\ c \in Committed
               /\ Committed' = Committed \ {c}
               /\ LiveRefreshers' = LiveRefreshers \union {r}
  <2>1. PICK r \in Refreshers : rpc' = [rpc EXCEPT ![r] = "do"]
    BY <1>7 DEF LaunchRefresh
  <2>2. pc[c] = "count" /\ pc' = [pc EXCEPT ![c] = "idle"]
    BY <1>7 DEF LaunchRefresh, ReturnSeen, Return
  <2>3. c \in Committed /\ Committed' = Committed \ {c}
    BY <1>0, <2>2 DEF Committed
  <2>4. LiveRefreshers' = LiveRefreshers \union {r}
    BY <1>0, <2>1 DEF LiveRefreshers
  <2>5. QED BY <2>3, <2>4
<1>8. ASSUME NEW r \in Refreshers, RefresherWork(r)
      PROVE  Fewer
  <2>1. /\ UNCHANGED pc
        /\ rpc[r] # "none"
        /\ \E step \in RefresherPCs : rpc' = [rpc EXCEPT ![r] = step]
    BY <1>8 DEF RefresherWork, RefresherDo, RefresherDelete, RefresherDec,
       RefresherStep, RefresherPCs
  <2>2. QED BY <1>0, <1>1, <2>1
<1>9. ASSUME NEW k \in Keys, FlightEnd(k)
      PROVE  Fewer
  <2>1. /\ \A c \in Callers : pc'[c] \in {"got", pc[c]}
        /\ \A r \in Refreshers : rpc'[r] = rpc[r] \/ rpc[r] = "wait"
    BY <1>9 DEF FlightEnd
  <2>2. QED BY <1>1, <2>1
<1>10. ASSUME NEW k \in Keys, KeyStep(k), ~FlightEnd(k)
       PROVE  UNCHANGED <<pc, rpc>>
  BY <1>10 DEF KeyStep, SafeCall, StartCallback, Abandon, Receive,
     ReceiveFails, Store, StoreFails, FlightFails, FlightStep, Deadline, Age,
     Evict, MarkerExpire
<1>11. ASSUME NEW a \in running, CallReturn(a[1], a[2])
       PROVE  UNCHANGED <<pc, rpc>>
  BY <1>11 DEF CallReturn
<1>12. ASSUME Shutdown \/ UNCHANGED vars
       PROVE  UNCHANGED <<pc, rpc>>
  BY <1>12 DEF Shutdown, ShutdownBegin, ShutdownTick, ShutdownTimeout,
     ShutdownStep, vars
<1>13. QED
  <2>1. CASE \E c \in Callers : CallerStep(c)
    BY <2>1, <1>4, <1>5, <1>6, <1>7 DEF CallerStep, TryAsyncRefresh
  <2>2. QED
    BY <2>1, <1>2, <1>3, <1>8, <1>9, <1>10, <1>11, <1>12 DEF Next, Done

\* Once Shutdown has begun, the refreshes it waits for, with those that may
\* still be launched by callers who looked before it, never grow in number:
\* a launch after Shutdown is one that was on its way.  (Their number is not
\* 0 when Shutdown says so, see DrainedMeansNoRefresh.)
ShutdownDrains == [][shut # "no" => ToDrain' =< ToDrain]_vars

\* After Shutdown has begun no step raises the number of refreshes that are
\* alive or still to come, for any number of callers.
THEOREM DrainsOnly == Spec => ShutdownDrains
<1>1. TypeOK /\ [Next]_vars /\ shut # "no" => ToDrain' =< ToDrain
  <2> SUFFICES ASSUME TypeOK, [Next]_vars, shut # "no"
               PROVE  ToDrain' =< ToDrain
    OBVIOUS
  <2>1. IsFiniteSet(Committed) /\ IsFiniteSet(LiveRefreshers)
    BY PoolAssumption, FS_Subset DEF Committed, LiveRefreshers
  <2>2. Cardinality(Committed) \in Nat /\ Cardinality(LiveRefreshers) \in Nat
    BY <2>1, FS_CardinalityType
  <2>3. ASSUME Committed' \subseteq Committed,
               LiveRefreshers' \subseteq LiveRefreshers
        PROVE  ToDrain' =< ToDrain
    <3>1. /\ Cardinality(Committed') =< Cardinality(Committed)
          /\ Cardinality(LiveRefreshers') =< Cardinality(LiveRefreshers)
          /\ IsFiniteSet(Committed') /\ IsFiniteSet(LiveRefreshers')
      BY <2>1, <2>3, FS_Subset
    <3>2. Cardinality(Committed') \in Nat /\ Cardinality(LiveRefreshers') \in Nat
      BY <3>1, FS_CardinalityType
    <3>3. QED BY <2>2, <3>1, <3>2 DEF ToDrain
  <2>4. ASSUME NEW c \in Committed, NEW r \in Refreshers,
               Committed' = Committed \ {c},
               LiveRefreshers' = LiveRefreshers \union {r}
        PROVE  ToDrain' =< ToDrain
    <3>1. Cardinality(Committed') = Cardinality(Committed) - 1
      BY <2>1, <2>4, FS_RemoveElement
    <3>2. /\ Cardinality(LiveRefreshers') =< Cardinality(LiveRefreshers) + 1
          /\ Cardinality(LiveRefreshers') \in Nat
      <4>1. CASE r \in LiveRefreshers
        <5>1. LiveRefreshers' = LiveRefreshers
          BY <2>4, <4>1
        <5>2. QED BY <2>2, <5>1
      <4>2. CASE r \notin LiveRefreshers
        <5>1. Cardinality(LiveRefreshers') = Cardinality(LiveRefreshers) + 1
          BY <2>1, <2>4, <4>2, FS_AddElement
        <5>2. QED BY <2>2, <5>1
      <4>3. QED BY <4>1, <4>2
    <3>3. QED BY <2>2, <3>1, <3>2 DEF ToDrain
  <2>5. QED BY CommittedSteps, <2>3, <2>4
<1>2. TypeOK /\ [Next]_vars => [shut # "no" => ToDrain' =< ToDrain]_vars
  BY <1>1
<1>3. QED BY <1>2, Typing, PTL DEF Spec, ShutdownDrains

-----------------------------------------------------------------------------
(* Nobody is served a version older than what had been served before.      *)

\* Version v of key k is older than what the flight of k is fetching, and not
\* newer than what it has fetched.
Behind(v, k) ==
  /\ v =< started
  /\ stage[k] \in {"call", "ready", "store"} => v < call[k]
  /\ stage[k] = "end" => v =< call[k]

StalePCs   == {"check", "probe", "mark", "count", "undo", "unmark"}
HoldingPCs == StalePCs \union {"got"}

\* The store is never behind what was served from it, both are behind the
\* flight, ...
KeyInTime(k) ==
  /\ Behind(stored[k], k)
  /\ Behind(served[k], k)
  /\ stored[k] # 0 => served[k] =< stored[k]

\* ...and so is the version in a caller's hands, which is new enough for it.
\* The store may only be older than it if a flight's Set failed.
CallerInTime(c) ==
  /\ pc[c] # "idle" => floor[c] =< served[key[c]]
  /\ pc[c] = "wait" => stage[key[c]] # "idle"
  /\ pc[c] \in HoldingPCs =>
       Behind(seen[c], key[c]) /\ (seen[c] # 0 => floor[c] =< seen[c])
  /\ pc[c] \in StalePCs /\ stored[key[c]] # 0 => seen[c] =< stored[key[c]]
  /\ reply[c].version # 0 => reply[c].version >= floor[c]

InTime ==
  /\ \A k \in Keys : KeyInTime(k)
  /\ \A c \in Callers : CallerInTime(c)

\* Flights only move on to newer calls.
LEMMA BehindStable ==
  ASSUME TypeOK, [Next]_vars, NEW v \in Nat, NEW k \in Keys, Behind(v, k)
  PROVE  Behind(v, k)'
<1> USE DEF Behind, callerVars, storeVars, flightVars, callVars, refresherVars
<1>0. /\ stage \in [Keys -> Stages]
      /\ call \in [Keys -> Nat]
      /\ started \in Nat
  BY DEF TypeOK, Calls
<1>1. ASSUME UNCHANGED <<stage, call, started>>
      PROVE  Behind(v, k)'
  BY <1>1
<1>2. ASSUME NEW j \in Keys, UNCHANGED <<call, started>>,
             \/ stage[j] \in {"idle", "spawn"}
                  /\ stage' = [stage EXCEPT ![j] = "spawn"]
             \/ stage[j] \in {"call", "ready", "store"}
                  /\ \E s \in {"ready", "store", "end"} :
                       stage' = [stage EXCEPT ![j] = s]
      PROVE  Behind(v, k)'
  BY <1>0, <1>2
<1>3. ASSUME NEW c \in Callers, NEW j \in Keys, Execute(c, j)
      PROVE  UNCHANGED <<stage, call, started>>
  BY <1>3 DEF Execute, ExecuteError, ExecuteMiss, ExecuteHit, ExecuteStale,
     Enter, EnterAt
<1>4. ASSUME NEW j \in Keys, Join(j), UNCHANGED started
      PROVE  Behind(v, k)'
  <2>1. CASE stage[j] = "idle"
    BY <1>0, <1>2, <1>4, <2>1 DEF Join
  <2>2. CASE stage[j] # "idle"
    BY <1>0, <1>1, <1>4, <2>2 DEF Join
  <2>3. QED BY <2>1, <2>2
<1>5. ASSUME NEW c \in Callers, DoChan(c)
      PROVE  Behind(v, k)'
  BY <1>4, <1>5 DEF DoChan, TypeOK
<1>6. ASSUME NEW c \in Callers,
             CallerCancel(c) \/ TakeResult(c) \/ TryAsyncRefresh(c)
      PROVE  UNCHANGED <<stage, call, started>>
  BY <1>6 DEF CallerCancel, TakeResult, ResultError, ResultReread,
     ResultRebuild, TryAsyncRefresh, SkipRefresh, CheckShutdown, ProbeMarker,
     TrySet, LaunchRefresh, OverLimit, UndoCount, UndoMark, TryAsyncStay,
     Leaving
<1>7. ASSUME NEW r \in Refreshers, RefresherDo(r)
      PROVE  Behind(v, k)'
  <2>1. rkey[r] \in Keys
    BY <1>7 DEF RefresherDo, RefresherStep, TypeOK
  <2>2. QED BY <1>4, <1>7, <2>1 DEF RefresherDo, RefresherStep
<1>8. ASSUME NEW r \in Refreshers, RefresherDelete(r) \/ RefresherDec(r)
      PROVE  UNCHANGED <<stage, call, started>>
  BY <1>8 DEF RefresherDelete, RefresherDec, RefresherStep
<1>9. ASSUME NEW j \in Keys, StartCallback(j)
      PROVE  Behind(v, k)'
  <2>1. /\ stage' = [stage EXCEPT ![j] = "call"]
        /\ call' = [call EXCEPT ![j] = started + 1]
        /\ started' = started + 1
    BY <1>9 DEF StartCallback
  <2>2. QED BY <1>0, <2>1
<1>10. ASSUME NEW j \in Keys,
              \/ Abandon(j) \/ Receive(j) \/ ReceiveFails(j) \/ Store(j)
              \/ StoreFails(j)
       PROVE  Behind(v, k)'
  <2>1. /\ UNCHANGED <<call, started>>
        /\ stage[j] \in {"call", "ready", "store"}
        /\ \E s \in {"ready", "store", "end"} :
             stage' = [stage EXCEPT ![j] = s]
    BY <1>10 DEF Abandon, Receive, ReceiveFails, Store, StoreFails,
       FlightFails, FlightStep
  <2>2. QED BY <1>2, <2>1
<1>11. ASSUME NEW j \in Keys, FlightEnd(j)
       PROVE  Behind(v, k)'
  <2>1. /\ stage' = [stage EXCEPT ![j] = "idle"]
        /\ call' = [call EXCEPT ![j] = 0]
        /\ started' = started
    BY <1>11 DEF FlightEnd
  <2>2. QED BY <1>0, <2>1
<1>12. ASSUME NEW j \in Keys,
              Deadline(j) \/ Age(j) \/ Evict(j) \/ MarkerExpire(j)
       PROVE  UNCHANGED <<stage, call, started>>
  BY <1>12 DEF Deadline, Age, Evict, MarkerExpire
<1>13. ASSUME NEW a \in running, CallReturn(a[1], a[2])
       PROVE  Behind(v, k)'
  <2>1. a[2] \in Keys
    BY DEF TypeOK
  <2>2. CASE CallAnswers(a[1], a[2])
    BY <1>2, <1>13, <2>1, <2>2 DEF CallReturn, CallAnswers, Awaited
  <2>3. CASE CallDropped(a[1], a[2])
    BY <1>1, <1>13, <2>3 DEF CallReturn, CallDropped
  <2>4. QED BY <1>13, <2>2, <2>3 DEF CallReturn
<1>14. ASSUME Shutdown \/ UNCHANGED vars
       PROVE  UNCHANGED <<stage, call, started>>
  BY <1>14 DEF Shutdown, ShutdownBegin, ShutdownTick, ShutdownTimeout,
     ShutdownStep, vars
<1>15. ASSUME NEW c \in Callers, CallerStep(c)
       PROVE  Behind(v, k)'
  BY <1>1, <1>5, <1>6, <1>15 DEF CallerStep
<1>16. ASSUME NEW r \in Refreshers, RefresherWork(r)
       PROVE  Behind(v, k)'
  BY <1>1, <1>7, <1>8, <1>16 DEF RefresherWork
<1>17. ASSUME NEW j \in Keys, KeyStep(j)
       PROVE  Behind(v, k)'
  BY <1>1, <1>9, <1>10, <1>11, <1>12, <1>17 DEF KeyStep, SafeCall
<1>18. QED
  <2> HIDE DEF Behind
  <2>1. QED
    BY <1>1, <1>3, <1>13, <1>14, <1>15, <1>16, <1>17 DEF Next, Done

LEMMA InTimeInvariant ==
  ASSUME ~RereadMayFail
  PROVE  Spec => []InTime
<1>1. Init => InTime
  BY DEF Init, InTime, KeyInTime, CallerInTime, Behind, NoReply, HoldingPCs,
     StalePCs
<1>2. TypeOK /\ StoreBehindFlight /\ InTime /\ [Next]_vars => InTime'
  <2> SUFFICES ASSUME TypeOK, StoreBehindFlight, InTime, [Next]_vars
               PROVE  InTime'
    OBVIOUS
  <2>a. /\ pc \in [Callers -> CallerPCs]
        /\ key \in [Callers -> Keys \union {NoKey}]
        /\ seen \in [Callers -> Nat]
        /\ reply \in [Callers -> [status : Statuses, version : Nat]]
        /\ floor \in [Callers -> Nat]
        /\ served \in [Keys -> Nat]
        /\ stored \in [Keys -> Nat]
        /\ stage \in [Keys -> Stages]
        /\ call \in [Keys -> Nat]
        /\ started \in Nat
        /\ \A c \in Callers : pc[c] # "idle" => key[c] \in Keys
    BY DEF TypeOK, Calls
  <2>b. \A v \in Nat, k \in Keys : Behind(v, k) => Behind(v, k)'
    BY BehindStable
  \* A caller that the step leaves alone.
  <2>1. ASSUME NEW d \in Callers,
               UNCHANGED <<pc[d], key[d], seen[d], reply[d], floor[d]>>,
               pc[d] # "idle" => served[key[d]] =< served'[key[d]],
               pc[d] = "wait" => stage'[key[d]] # "idle",
               pc[d] \in StalePCs /\ stored'[key[d]] # 0
                 => seen[d] =< stored'[key[d]],
               served' \in [Keys -> Nat]
        PROVE  CallerInTime(d)'
    <3>1. CallerInTime(d)
      BY DEF InTime
    <3>2. pc[d] \in HoldingPCs => Behind(seen[d], key[d])'
      <4>1. SUFFICES ASSUME pc[d] \in HoldingPCs
                     PROVE  Behind(seen[d], key[d])'
        OBVIOUS
      <4>2. PICK k \in Keys : k = key[d]
        BY <2>a, <4>1 DEF HoldingPCs, StalePCs
      <4>3. PICK v \in Nat : v = seen[d]
        BY <2>a
      <4>4. Behind(v, k)'
        BY <2>b, <3>1, <4>1, <4>2, <4>3 DEF CallerInTime
      <4>5. QED BY <2>1, <4>2, <4>3, <4>4
    <3>3. floor[d] \in Nat /\ (pc[d] # "idle" => key[d] \in Keys)
      BY <2>a
    <3>4. QED BY <2>a, <2>1, <3>1, <3>2, <3>3 DEF CallerInTime
  \* Steps that leave all callers and the storage alone.
  <2>2. ASSUME UNCHANGED <<pc, key, seen, reply, floor, served, stored>>,
               \A k \in Keys : stage[k] # "idle" => stage'[k] # "idle"
        PROVE  InTime'
    <3>1. ASSUME NEW k \in Keys
          PROVE  KeyInTime(k)'
      BY <2>a, <2>b, <2>2 DEF InTime, KeyInTime
    <3>2. ASSUME NEW d \in Callers
          PROVE  CallerInTime(d)'
      <4>1. CallerInTime(d) /\ (pc[d] # "idle" => key[d] \in Keys)
        BY <2>a DEF InTime
      <4>2. pc[d] # "idle" => served[key[d]] \in Nat
        BY <2>a, <4>1
      <4>3. QED BY <2>a, <2>1, <2>2, <4>1, <4>2 DEF CallerInTime
    <3>3. QED BY <3>1, <3>2 DEF InTime
  \* Execute of c returns v.
  <2>3. ASSUME NEW c \in Callers, NEW k \in Keys, NEW status, NEW v \in Nat,
               Return(c, k, status, v),
               UNCHANGED <<stored, stage>>,
               Behind(v, k),
               stored[k] # 0 => v =< stored[k],
               \A d \in Callers \ {c} : floor'[d] = floor[d],
               floor'[c] \in Nat,
               v # 0 => v >= floor'[c]
        PROVE  InTime'
    <3>1. served' \in [Keys -> Nat]
      BY <2>a, <2>3 DEF Return
    <3>2. \A j \in Keys : served[j] =< served'[j]
      BY <2>a, <2>3 DEF Return
    <3>3. ASSUME NEW j \in Keys
          PROVE  KeyInTime(j)'
      <4>1. KeyInTime(j)
        BY DEF InTime
      <4>2. Behind(stored[j], j)'
        BY <2>a, <2>b, <2>3, <4>1 DEF KeyInTime
      <4>3. PICK w \in Nat : /\ w = served'[j]
                             /\ w = served[j] \/ (j = k /\ w = v)
        BY <2>a, <2>3, <3>1 DEF Return
      <4>4. Behind(w, j)'
        BY <2>a, <2>b, <2>3, <4>1, <4>3 DEF KeyInTime
      <4>5. QED BY <2>a, <2>3, <4>1, <4>2, <4>3, <4>4 DEF KeyInTime
    <3>4. CallerInTime(c)'
      BY <2>a, <2>3 DEF Return, CallerInTime, HoldingPCs, StalePCs
    <3>5. ASSUME NEW d \in Callers, d # c
          PROVE  CallerInTime(d)'
      <4>1. UNCHANGED <<pc[d], key[d], seen[d], reply[d], floor[d]>>
        BY <2>a, <2>3, <3>5 DEF Return
      <4>2. CallerInTime(d)
        BY DEF InTime
      <4>3. QED
        BY <2>a, <2>1, <2>3, <3>1, <3>2, <4>1, <4>2 DEF CallerInTime
    <3>6. QED BY <3>3, <3>4, <3>5 DEF InTime
  \* Execute of c goes on.
  <2>4. ASSUME NEW c \in Callers,
               \A d \in Callers \ {c} :
                 UNCHANGED <<pc[d], key[d], seen[d], reply[d], floor[d]>>,
               UNCHANGED <<stored, served>>,
               \A k \in Keys : stage[k] # "idle" => stage'[k] # "idle",
               CallerInTime(c)'
        PROVE  InTime'
    <3>1. ASSUME NEW k \in Keys
          PROVE  KeyInTime(k)'
      BY <2>a, <2>b, <2>4 DEF InTime, KeyInTime
    <3>2. ASSUME NEW d \in Callers, d # c
          PROVE  CallerInTime(d)'
      <4>1. CallerInTime(d) /\ (pc[d] # "idle" => key[d] \in Keys)
        BY <2>a DEF InTime
      <4>2. pc[d] # "idle" => served[key[d]] \in Nat
        BY <2>a, <4>1
      <4>3. QED BY <2>a, <2>1, <2>4, <3>2, <4>1, <4>2 DEF CallerInTime
    <3>3. QED BY <2>4, <3>1, <3>2 DEF InTime
  \* Execute, up to its first branch.
  <2>5. ASSUME NEW c \in Callers, NEW k \in Keys, Execute(c, k)
        PROVE  InTime'
    <3>1. Execute(c, k) =>
            /\ UNCHANGED <<stored, stage>>
            /\ floor' = [floor EXCEPT ![c] = served[k]]
      BY DEF Execute, ExecuteError, ExecuteMiss, ExecuteHit, ExecuteStale,
         Enter, EnterAt, storeVars, flightVars
    <3>2. /\ UNCHANGED <<stored, stage>>
          /\ floor'[c] = served[k]
          /\ \A d \in Callers \ {c} : floor'[d] = floor[d]
          /\ floor'[c] \in Nat
      BY <2>a, <2>5, <3>1
    <3>3. KeyInTime(k)
      BY DEF InTime
    <3>4. CASE ExecuteError(c, k)
      <4>1. Return(c, k, "error", 0)
        BY <3>4 DEF ExecuteError
      <4>2. Behind(0, k)
        BY <2>a, <3>3 DEF KeyInTime, Behind
      <4>3. stored[k] # 0 => 0 =< stored[k]
        BY <2>a
      <4>4. QED BY <2>3, <3>2, <4>1, <4>2, <4>3
    <3>5. CASE ExecuteHit(c, k)
      <4>1. Return(c, k, "hit", stored[k]) /\ stored[k] # 0
        BY <3>5 DEF ExecuteHit
      <4>2. /\ stored[k] \in Nat
            /\ stored[k] =< stored[k]
            /\ Behind(stored[k], k)
            /\ stored[k] >= floor'[c]
        BY <2>a, <3>2, <3>3, <4>1 DEF KeyInTime
      <4>3. QED BY <2>3, <3>2, <4>1, <4>2
    <3>6. CASE ExecuteMiss(c, k) \/ ExecuteStale(c, k)
      <4>1. PICK step \in {"join", "check"}, v \in {0, stored[k]} :
              /\ EnterAt(c, k, step, v)
              /\ step = "check" => v = stored[k]
              /\ v # 0 => v = stored[k]
        BY <3>6 DEF ExecuteMiss, ExecuteStale
      <4>2. /\ pc'[c] = step
            /\ key'[c] = k
            /\ seen'[c] = v
            /\ reply'[c].version = 0
            /\ UNCHANGED served
        BY <2>a, <4>1 DEF EnterAt, Continue, NoReply
      <4>3. \A d \in Callers \ {c} :
              UNCHANGED <<pc[d], key[d], seen[d], reply[d], floor[d]>>
        BY <2>a, <3>2, <4>1 DEF EnterAt, Continue
      <4>4. Behind(stored[k], k)'
        BY <2>a, <2>b, <3>2, <3>3 DEF KeyInTime
      <4>5. CallerInTime(c)'
        <5>1. (step = "check") => Behind(v, k)'
          BY <3>2, <4>1, <4>4
        <5>2. (v # 0) => (served[k] =< v)
          BY <3>3, <4>1 DEF KeyInTime
        <5>3. v \in Nat /\ served[k] \in Nat
          BY <2>a, <4>1
        <5>4. (step = "check") => Behind(seen[c], key[c])'
          BY <4>2, <5>1 DEF Behind
        <5>5. QED
          BY <3>2, <4>1, <4>2, <5>2, <5>3, <5>4
             DEF CallerInTime, HoldingPCs, StalePCs
      <4>6. QED BY <2>4, <3>2, <4>2, <4>3, <4>5
    <3>7. QED BY <2>5, <3>4, <3>5, <3>6 DEF Execute
  \* tryAsyncRefresh is over, and Execute returns the entry it read.
  <2>6. ASSUME NEW c \in Callers, pc[c] \in StalePCs, ReturnSeen(c),
               UNCHANGED <<stored, stage, floor>>
        PROVE  InTime'
    <3>1. PICK k \in Keys : k = key[c]
      BY <2>a, <2>6 DEF StalePCs
    <3>2. PICK v \in Nat : v = seen[c]
      BY <2>a
    <3>3. /\ Behind(v, k)
          /\ stored[k] # 0 => v =< stored[k]
          /\ v # 0 => v >= floor'[c]
          /\ floor'[c] \in Nat
      BY <2>a, <2>6, <3>1, <3>2 DEF InTime, CallerInTime, HoldingPCs
    <3>4. Return(c, k, "stale", v)
      BY <2>6, <3>1, <3>2 DEF ReturnSeen
    <3>5. QED BY <2>3, <2>6, <3>3, <3>4
  \* tryAsyncRefresh goes on.
  <2>7. ASSUME NEW c \in Callers, pc[c] \in StalePCs, NEW step \in StalePCs,
               TryAsyncStay(c, step)
        PROVE  InTime'
    <3>1. /\ UNCHANGED <<key, seen, reply, floor, served, stored, stage>>
          /\ pc'[c] = step
          /\ \A d \in Callers \ {c} : pc'[d] = pc[d]
      BY <2>a, <2>7 DEF TryAsyncStay, Continue, storeVars, flightVars
    <3>2. CallerInTime(c)
      BY DEF InTime
    <3>3. PICK k \in Keys : k = key[c]
      BY <2>a, <2>7 DEF StalePCs
    <3>4. PICK v \in Nat : v = seen[c]
      BY <2>a
    <3>5. Behind(v, k)'
      BY <2>b, <2>7, <3>2, <3>3, <3>4 DEF CallerInTime, HoldingPCs
    <3>6. Behind(seen[c], key[c])'
      BY <3>1, <3>3, <3>4, <3>5 DEF Behind
    <3>7. CallerInTime(c)'
      BY <2>7, <3>1, <3>2, <3>6 DEF CallerInTime, HoldingPCs, StalePCs
    <3>8. QED BY <2>4, <3>1, <3>7
  <2>8. ASSUME NEW c \in Callers, TryAsyncRefresh(c)
        PROVE  InTime'
    <3>1. CASE SkipRefresh(c) \/ LaunchRefresh(c) \/ UndoMark(c)
      <4>1. /\ pc[c] \in StalePCs
            /\ ReturnSeen(c)
            /\ UNCHANGED <<stored, stage, floor>>
        BY <3>1 DEF SkipRefresh, LaunchRefresh, UndoMark, Leaving, StalePCs,
           storeVars, flightVars
      <4>2. QED BY <2>6, <4>1
    <3>2. CASE \/ CheckShutdown(c) \/ ProbeMarker(c) \/ TrySet(c)
               \/ OverLimit(c) \/ UndoCount(c)
      <4>1. /\ pc[c] \in StalePCs
            /\ \E step \in StalePCs : TryAsyncStay(c, step)
        BY <3>2 DEF CheckShutdown, ProbeMarker, TrySet, OverLimit, UndoCount,
           StalePCs
      <4>2. QED BY <2>7, <4>1
    <3>3. QED BY <2>8, <3>1, <3>2 DEF TryAsyncRefresh
  \* syncRefresh.
  <2>9. ASSUME NEW c \in Callers, DoChan(c)
        PROVE  InTime'
    <3>1. pc[c] = "join" /\ key[c] \in Keys
      BY <2>a, <2>9 DEF DoChan
    <3>2. /\ UNCHANGED <<key, reply, floor, served, stored>>
          /\ pc'[c] = "wait"
          /\ \A d \in Callers \ {c} :
               pc'[d] = pc[d] /\ seen'[d] = seen[d]
      BY <2>a, <2>9 DEF DoChan, Continue, storeVars
    <3>3. /\ stage'[key[c]] # "idle"
          /\ \A k \in Keys : stage[k] # "idle" => stage'[k] # "idle"
      BY <2>a, <2>9, <3>1 DEF DoChan, Join
    <3>4. CallerInTime(c)
      BY DEF InTime
    <3>5. CallerInTime(c)'
      BY <3>1, <3>2, <3>3, <3>4 DEF CallerInTime, HoldingPCs, StalePCs
    <3>6. QED BY <2>4, <3>2, <3>3, <3>5
  <2>10. ASSUME NEW c \in Callers, CallerCancel(c) \/ TakeResult(c)
         PROVE  InTime'
    <3>1. /\ pc[c] \in {"wait", "got"}
          /\ UNCHANGED <<stored, stage, floor>>
      BY <2>10 DEF CallerCancel, TakeResult, ResultError, ResultReread,
         ResultRebuild, Leaving, storeVars, flightVars
    <3>2. PICK k \in Keys : k = key[c]
      BY <2>a, <3>1
    <3>3. KeyInTime(k) /\ CallerInTime(c)
      BY DEF InTime
    <3>4. /\ stored[k] \in Nat
          /\ seen[c] \in Nat
          /\ served[k] \in Nat
          /\ floor[c] \in Nat
          /\ call[k] \in Nat
          /\ started \in Nat
          /\ floor[c] =< served[k]
      BY <2>a, <3>1, <3>2, <3>3 DEF CallerInTime
    <3>5. PICK v \in {0, stored[k], seen[c]}, status \in Statuses :
            /\ Return(c, k, status, v)
            /\ v # 0 => \/ stored[k] # 0 /\ v = stored[k]
                        \/ stored[k] = 0 /\ v = seen[c] /\ pc[c] = "got"
      <4>1. CASE CallerCancel(c)
        BY <3>2, <4>1 DEF CallerCancel, Statuses
      <4>2. CASE ResultError(c)
        BY <3>2, <4>2 DEF ResultError, Statuses
      <4>3. CASE ResultReread(c)
        BY <3>2, <4>3 DEF ResultReread, Statuses
      <4>4. CASE ResultRebuild(c)
        BY <3>2, <4>4 DEF ResultRebuild, RereadFails, Statuses
      <4>5. QED BY <2>10, <4>1, <4>2, <4>3, <4>4 DEF TakeResult
    <3>6. /\ v \in Nat
          /\ stored[k] # 0 => v =< stored[k]
          /\ v # 0 => v >= floor[c]
      BY <3>2, <3>3, <3>4, <3>5 DEF KeyInTime, CallerInTime, HoldingPCs
    <3>7. Behind(v, k)
      <4>1. CASE v = 0
        BY <3>3, <3>4, <4>1 DEF KeyInTime, Behind
      <4>2. CASE v # 0
        BY <3>2, <3>3, <3>5, <4>2 DEF KeyInTime, CallerInTime, HoldingPCs
      <4>3. QED BY <4>1, <4>2
    <3>8. QED BY <2>3, <3>1, <3>4, <3>5, <3>6, <3>7
  \* Goroutines and timers that touch no caller and no entry.
  <2>11. ASSUME NEW r \in Refreshers, RefresherWork(r)
         PROVE  InTime'
    <3>1. UNCHANGED <<pc, key, seen, reply, floor, served, stored>>
      BY <2>11 DEF RefresherWork, RefresherDo, RefresherDelete, RefresherDec,
         RefresherStep, callerVars, storeVars
    <3>2. \A k \in Keys : stage[k] # "idle" => stage'[k] # "idle"
      BY <2>a, <2>11 DEF RefresherWork, RefresherDo, RefresherDelete,
         RefresherDec, Join, flightVars
    <3>3. QED BY <2>2, <3>1, <3>2
  <2>12. ASSUME NEW k \in Keys,
                \/ StartCallback(k) \/ Abandon(k) \/ Receive(k)
                \/ ReceiveFails(k) \/ StoreFails(k) \/ Deadline(k) \/ Age(k)
                \/ MarkerExpire(k)
         PROVE  InTime'
    <3>1. /\ UNCHANGED <<pc, key, seen, reply, floor, served, stored>>
          /\ \A j \in Keys : stage[j] # "idle" => stage'[j] # "idle"
      <4> USE DEF FlightStep, FlightFails, callerVars, storeVars, flightVars
      <4>1. CASE StartCallback(k) \/ Deadline(k) \/ Age(k) \/ MarkerExpire(k)
        BY <2>a, <4>1 DEF StartCallback, Deadline, Age, MarkerExpire
      <4>2. CASE Abandon(k) \/ ReceiveFails(k)
        BY <2>a, <4>2 DEF Abandon, ReceiveFails
      <4>3. CASE Receive(k) \/ StoreFails(k)
        BY <2>a, <4>3 DEF Receive, StoreFails
      <4>4. QED BY <2>12, <4>1, <4>2, <4>3
    <3>2. QED BY <2>2, <3>1
  <2>13. ASSUME NEW a \in running, CallReturn(a[1], a[2])
         PROVE  InTime'
    <3>1. UNCHANGED <<pc, key, seen, reply, floor, served, stored>>
      BY <2>13 DEF CallReturn, callerVars, storeVars
    <3>2. \A k \in Keys : stage[k] # "idle" => stage'[k] # "idle"
      BY <2>a, <2>13 DEF CallReturn, CallAnswers, CallDropped
    <3>3. QED BY <2>2, <3>1, <3>2
  <2>14. ASSUME Shutdown \/ UNCHANGED vars
         PROVE  InTime'
    <3>1. UNCHANGED <<pc, key, seen, reply, floor, served, stored, stage>>
      BY <2>14 DEF Shutdown, ShutdownBegin, ShutdownTick, ShutdownTimeout,
         ShutdownStep, vars, callerVars, storeVars, flightVars
    <3>2. QED BY <2>2, <3>1
  \* storage.Set stores an answer newer than whatever is around.
  <2>15. ASSUME NEW k \in Keys, Store(k)
         PROVE  InTime'
    <3>1. /\ UNCHANGED <<pc, key, seen, reply, floor, served, call, started>>
          /\ stage[k] = "store"
          /\ stage' = [stage EXCEPT ![k] = "end"]
          /\ stored' = [stored EXCEPT ![k] = call[k]]
      BY <2>15 DEF Store, FlightStep, callerVars, callVars
    <3>2. call[k] \in Nat /\ call[k] =< started
      BY <2>a DEF StoreBehindFlight
    <3>3. ASSUME NEW j \in Keys
          PROVE  KeyInTime(j)'
      <4>1. KeyInTime(j) /\ Behind(served[j], j)'
        <5>1. KeyInTime(j)
          BY DEF InTime
        <5>2. Behind(served[j], j)'
          BY <2>a, <2>b, <3>1, <5>1 DEF KeyInTime
        <5>3. QED BY <5>1, <5>2
      <4>2. CASE j = k
        BY <2>a, <3>1, <3>2, <4>1, <4>2 DEF KeyInTime, Behind
      <4>3. CASE j # k
        <5>1. stored'[j] = stored[j] /\ served'[j] = served[j]
          BY <2>a, <3>1, <4>3
        <5>2. PICK w \in Nat : w = stored[j]
          BY <2>a
        <5>3. Behind(w, j)'
          BY <2>b, <4>1, <5>2 DEF KeyInTime
        <5>4. QED BY <4>1, <5>1, <5>2, <5>3 DEF KeyInTime
      <4>4. QED BY <4>2, <4>3
    <3>4. ASSUME NEW d \in Callers
          PROVE  CallerInTime(d)'
      <4>1. CallerInTime(d) /\ (pc[d] # "idle" => key[d] \in Keys)
        BY <2>a DEF InTime
      <4>2. pc[d] # "idle" => served[key[d]] \in Nat
        BY <2>a, <4>1
      <4>3. (pc[d] = "wait") => (stage'[key[d]] # "idle")
        BY <2>a, <3>1, <4>1 DEF CallerInTime
      <4>4. ASSUME pc[d] \in StalePCs, stored'[key[d]] # 0
            PROVE  seen[d] =< stored'[key[d]]
        BY <2>a, <3>1, <3>2, <4>1, <4>4
           DEF CallerInTime, HoldingPCs, StalePCs, Behind
      <4>5. QED BY <2>a, <2>1, <3>1, <4>2, <4>3, <4>4
    <3>5. QED BY <3>3, <3>4 DEF InTime
  <2>16. ASSUME NEW k \in Keys, Evict(k)
         PROVE  InTime'
    <3>1. /\ UNCHANGED <<pc, key, seen, reply, floor, served, stage, call,
                         started>>
          /\ stored' = [stored EXCEPT ![k] = 0]
      BY <2>16 DEF Evict, callerVars, flightVars, callVars
    <3>2. ASSUME NEW j \in Keys
          PROVE  KeyInTime(j)'
      <4>1. KeyInTime(j)
        BY DEF InTime
      <4>2. QED BY <2>a, <3>1, <4>1 DEF KeyInTime, Behind
    <3>3. ASSUME NEW d \in Callers
          PROVE  CallerInTime(d)'
      <4>1. CallerInTime(d) /\ (pc[d] # "idle" => key[d] \in Keys)
        BY <2>a DEF InTime
      <4>2. pc[d] # "idle" => served[key[d]] \in Nat
        BY <2>a, <4>1
      <4>3. (pc[d] = "wait") => (stage'[key[d]] # "idle")
        BY <3>1, <4>1 DEF CallerInTime
      <4>4. ASSUME pc[d] \in StalePCs, stored'[key[d]] # 0
            PROVE  seen[d] =< stored'[key[d]]
        BY <2>a, <3>1, <4>1, <4>4 DEF CallerInTime, StalePCs
      <4>5. QED BY <2>a, <2>1, <3>1, <4>2, <4>3, <4>4
    <3>4. QED BY <3>2, <3>3 DEF InTime
  \* The flight of k hands its result to whoever waits for it.
  <2>17. ASSUME NEW k \in Keys, FlightEnd(k)
         PROVE  InTime'
    <3> DEFINE waits(c) == pc[c] = "wait" /\ key[c] = k
    <3>1. /\ UNCHANGED <<key, reply, floor, served, stored, started>>
          /\ stage[k] = "end"
          /\ stage' = [stage EXCEPT ![k] = "idle"]
          /\ pc' = [c \in Callers |-> IF waits(c) THEN "got" ELSE pc[c]]
          /\ seen' = [c \in Callers |-> IF waits(c) THEN Result(k)
                                                    ELSE seen[c]]
      BY <2>17 DEF FlightEnd, storeVars, callVars
    <3>2. ASSUME NEW j \in Keys
          PROVE  KeyInTime(j)'
      <4>1. KeyInTime(j)
        BY DEF InTime
      <4>2. Behind(served[j], j)' /\ Behind(stored[j], j)'
        <5>1. PICK v \in Nat, w \in Nat : v = served[j] /\ w = stored[j]
          BY <2>a
        <5>2. Behind(v, j)' /\ Behind(w, j)'
          BY <2>b, <4>1, <5>1 DEF KeyInTime
        <5>3. served'[j] = v /\ stored'[j] = w
          BY <3>1, <5>1
        <5>4. QED BY <5>2, <5>3
      <4>3. QED BY <3>1, <4>1, <4>2 DEF KeyInTime
    <3>3. ASSUME NEW d \in Callers, waits(d)
          PROVE  CallerInTime(d)'
      <4>1. KeyInTime(k) /\ CallerInTime(d)
        BY DEF InTime
      <4>2. /\ pc'[d] = "got"
            /\ seen'[d] = Result(k)
            /\ stage'[k] = "idle"
        BY <2>a, <3>1, <3>3
      <4>3. /\ Result(k) \in Nat
            /\ Result(k) =< started
            /\ Result(k) # 0 => served[k] =< Result(k)
        BY <2>a, <3>1, <4>1 DEF StoreBehindFlight, KeyInTime, Behind, Result
      <4>4. floor[d] =< served[k] /\ floor[d] \in Nat /\ served[k] \in Nat
        BY <2>a, <3>3, <4>1 DEF CallerInTime
      <4>5. QED
        BY <3>1, <3>3, <4>1, <4>2, <4>3, <4>4
           DEF CallerInTime, HoldingPCs, StalePCs, Behind
    <3>4. ASSUME NEW d \in Callers, ~waits(d)
          PROVE  CallerInTime(d)'
      <4>1. CallerInTime(d) /\ (pc[d] # "idle" => key[d] \in Keys)
        BY <2>a DEF InTime
      <4>2. UNCHANGED <<pc[d], key[d], seen[d], reply[d], floor[d]>>
        BY <2>a, <3>1, <3>4
      <4>3. pc[d] # "idle" => served[key[d]] \in Nat
        BY <2>a, <4>1
      <4>4. (pc[d] = "wait") => (stage'[key[d]] # "idle")
        BY <2>a, <3>1, <3>4, <4>1 DEF CallerInTime
      <4>5. QED BY <2>a, <2>1, <3>1, <4>1, <4>2, <4>3, <4>4 DEF CallerInTime
    <3>5. QED BY <3>2, <3>3, <3>4 DEF InTime
  <2>18. ASSUME NEW c \in Callers, CallerStep(c)
         PROVE  InTime'
    BY <2>8, <2>9, <2>10, <2>18 DEF CallerStep
  <2>19. ASSUME NEW k \in Keys, KeyStep(k)
         PROVE  InTime'
    BY <2>12, <2>15, <2>16, <2>17, <2>19 DEF KeyStep, SafeCall
  <2>20. QED
    BY <2>5, <2>11, <2>13, <2>14, <2>18, <2>19 DEF Next, Done
<1>3. QED BY <1>1, <1>2, Typing, StoreBehindFlightInvariant, PTL DEF Spec

\* No Execute answers with a version older than one already returned for the
\* key when it began: whatever a flight, the storage or a stale entry held in
\* hand has become in the meantime.  A storage.Get of syncRefresh that fails
\* breaks it: the entry is then rebuilt from the flight's own, older value.
THEOREM ServedInOrder ==
  ASSUME ~RereadMayFail
  PROVE  Spec => []NoTimeTravel
<1>1. InTime => NoTimeTravel
  BY DEF InTime, CallerInTime, NoTimeTravel
<1>2. QED BY <1>1, InTimeInvariant, PTL

-----------------------------------------------------------------------------
(* The answer of a call that was given up is never used.                   *)

\* The versions that the storage, a caller's hands or a reply holds.
Published ==
  {0} \union {stored[k] : k \in Keys} \union {seen[c] : c \in Callers}
      \union {reply[c].version : c \in Callers}

\* The flight of k may still give its call up.
Unanswered(k) == stage[k] \in {"call", "ready"}

\* The flight of k is about to publish its call's answer.
Delivering(k) == stage[k] = "store" \/ (stage[k] = "end" /\ ok[k])

\* No version is both published and discarded, because no call is published
\* before its flight can no longer give it up, and flights share no call.
FlightSeparate(k) ==
  /\ Unanswered(k) =>
       call[k] \in (1..started) \ (Published \union discarded)
  /\ Delivering(k) => call[k] \in (1..started) \ discarded
  /\ call[k] =< started
  /\ \A j \in Keys : call[j] = call[k] /\ call[k] # 0 => j = k

Separate ==
  /\ Published \subseteq 0..started
  /\ discarded \subseteq 1..started
  /\ Published \intersect discarded = {}
  /\ \A k \in Keys : FlightSeparate(k)

LEMMA SeparateInvariant == Spec => []Separate
<1>1. Init => Separate
  BY DEF Init, Separate, FlightSeparate, Published, Unanswered, Delivering,
     NoReply
<1>2. TypeOK /\ Separate /\ [Next]_vars => Separate'
  <2> SUFFICES ASSUME TypeOK, Separate, [Next]_vars
               PROVE  Separate'
    OBVIOUS
  <2>a. /\ pc \in [Callers -> CallerPCs]
        /\ key \in [Callers -> Keys \union {NoKey}]
        /\ seen \in [Callers -> Nat]
        /\ reply \in [Callers -> [status : Statuses, version : Nat]]
        /\ stored \in [Keys -> Nat]
        /\ stage \in [Keys -> Stages]
        /\ call \in [Keys -> Nat]
        /\ ok \in [Keys -> BOOLEAN]
        /\ started \in Nat
        /\ \A c \in Callers : pc[c] # "idle" => key[c] \in Keys
    BY DEF TypeOK, Calls
  <2>b. /\ 0 \in Published
        /\ \A k \in Keys : stored[k] \in Published
        /\ \A c \in Callers : seen[c] \in Published
        /\ \A c \in Callers : reply[c].version \in Published
    BY DEF Published
  \* What is published after a step, from what it writes.
  <2>1. ASSUME NEW V,
               \A k \in Keys : stored'[k] \in Published \union V,
               \A c \in Callers : seen'[c] \in Published \union V,
               \A c \in Callers : reply'[c].version \in Published \union V
        PROVE  Published' \subseteq Published \union V
    BY <2>1 DEF Published
  \* Steps that publish nothing new, and start and give up no call.
  <2>2. ASSUME UNCHANGED <<started, call, discarded>>,
               Published' \subseteq Published,
               \A k \in Keys : Unanswered(k)' => Unanswered(k),
               \A k \in Keys :
                 Delivering(k)' => Unanswered(k) \/ Delivering(k)
        PROVE  Separate'
    BY <2>2 DEF Separate, FlightSeparate
  \* Those among them that move no flight on.
  <2>3. ASSUME UNCHANGED <<started, call, ok, discarded>>,
               Published' \subseteq Published,
               \A k \in Keys : \/ stage'[k] = stage[k]
                               \/ stage'[k] \in {"idle", "spawn"}
        PROVE  Separate'
    <3>1. \A k \in Keys : Unanswered(k)' => Unanswered(k)
      BY <2>3 DEF Unanswered
    <3>2. \A k \in Keys : Delivering(k)' => Unanswered(k) \/ Delivering(k)
      BY <2>3 DEF Delivering
    <3>3. QED BY <2>2, <2>3, <3>1, <3>2
  \* A step of caller c, who takes and returns what is published.
  <2>4. ASSUME NEW c \in Callers,
               UNCHANGED <<started, call, ok, discarded, stored>>,
               \A k \in Keys : \/ stage'[k] = stage[k]
                               \/ stage'[k] \in {"idle", "spawn"},
               \A d \in Callers \ {c} :
                 seen'[d] = seen[d] /\ reply'[d] = reply[d],
               seen'[c] \in Published,
               reply'[c].version \in Published
        PROVE  Separate'
    <3>1. Published' \subseteq Published \union {}
      BY <2>b, <2>1, <2>4
    <3>2. QED BY <2>3, <2>4, <3>1
  <2>5. ASSUME NEW c \in Callers, NEW k \in Keys, Execute(c, k)
        PROVE  Separate'
    <3>1. /\ UNCHANGED <<started, call, ok, discarded, stored, stage>>
          /\ \A d \in Callers \ {c} :
               seen'[d] = seen[d] /\ reply'[d] = reply[d]
          /\ seen'[c] \in {0, stored[k]}
          /\ reply'[c].version \in {0, stored[k]}
      <4> USE DEF Enter, EnterAt, Return, Continue, NoReply, storeVars,
                  flightVars, callVars
      <4>1. CASE ExecuteError(c, k) BY <2>a, <4>1 DEF ExecuteError
      <4>2. CASE ExecuteMiss(c, k) BY <2>a, <4>2 DEF ExecuteMiss
      <4>3. CASE ExecuteHit(c, k) BY <2>a, <4>3 DEF ExecuteHit
      <4>4. CASE ExecuteStale(c, k) BY <2>a, <4>4 DEF ExecuteStale
      <4>5. QED BY <2>5, <4>1, <4>2, <4>3, <4>4 DEF Execute
    <3>2. QED BY <2>b, <2>4, <3>1
  <2>6. ASSUME NEW c \in Callers, CallerStep(c)
        PROVE  Separate'
    <3>1. CASE DoChan(c)
      <4>1. /\ UNCHANGED <<started, call, ok, discarded, stored, reply>>
            /\ seen' = [seen EXCEPT ![c] = 0]
            /\ stage' = [stage EXCEPT ![key[c]] =
                 IF stage[key[c]] = "idle" THEN "spawn" ELSE stage[key[c]]]
        BY <3>1 DEF DoChan, Join, Continue, storeVars, callVars
      <4>2. \A k \in Keys : stage'[k] = stage[k] \/ stage'[k] = "spawn"
        BY <2>a, <4>1
      <4>3. QED BY <2>a, <2>b, <2>4, <4>1, <4>2
    <3>2. CASE CallerCancel(c) \/ TakeResult(c)
      <4>1. /\ UNCHANGED <<started, call, ok, discarded, stored, stage>>
            /\ pc[c] \in {"wait", "got"}
        BY <3>2 DEF CallerCancel, TakeResult, ResultError, ResultReread,
           ResultRebuild, Leaving, storeVars, flightVars, callVars
      <4>2. PICK status \in Statuses, v \in {0, stored[key[c]], seen[c]} :
              Return(c, key[c], status, v)
        BY <3>2 DEF CallerCancel, TakeResult, ResultError, ResultReread,
           ResultRebuild, Statuses
      <4>3. v \in Published
        BY <2>a, <2>b, <4>1
      <4>4. QED BY <2>a, <2>b, <2>4, <4>1, <4>2, <4>3 DEF Return
    <3>3. CASE SkipRefresh(c) \/ LaunchRefresh(c) \/ UndoMark(c)
      <4>1. /\ UNCHANGED <<started, call, ok, discarded, stored, stage>>
            /\ Return(c, key[c], "stale", seen[c])
        BY <3>3 DEF SkipRefresh, LaunchRefresh, UndoMark, ReturnSeen, Leaving,
           storeVars, flightVars, callVars
      <4>2. QED BY <2>a, <2>b, <2>4, <4>1 DEF Return
    <3>4. CASE \/ CheckShutdown(c) \/ ProbeMarker(c) \/ TrySet(c)
               \/ OverLimit(c) \/ UndoCount(c)
      <4>1. UNCHANGED <<started, call, ok, discarded, stored, stage, seen,
                        reply>>
        BY <2>a, <3>4 DEF CheckShutdown, ProbeMarker, TrySet, OverLimit,
           UndoCount, TryAsyncStay, Continue, storeVars, flightVars, callVars
      <4>2. QED BY <2>b, <2>4, <4>1
    <3>5. QED BY <2>6, <3>1, <3>2, <3>3, <3>4 DEF CallerStep, TryAsyncRefresh
  \* Steps that leave what is published alone.
  <2>7. ASSUME UNCHANGED <<stored, seen, reply>>
        PROVE  Published' = Published
    BY <2>7 DEF Published
  <2>8. ASSUME NEW r \in Refreshers, RefresherWork(r)
        PROVE  Separate'
    <3>1. UNCHANGED <<stored, seen, reply, started, call, ok, discarded>>
      BY <2>8 DEF RefresherWork, RefresherDo, RefresherDelete, RefresherDec,
         RefresherStep, Join, callerVars, storeVars, callVars, flightVars
    <3>2. \A k \in Keys : stage'[k] = stage[k] \/ stage'[k] = "spawn"
      BY <2>a, <2>8 DEF RefresherWork, RefresherDo, RefresherDelete,
         RefresherDec, Join, flightVars
    <3>3. QED BY <2>3, <2>7, <3>1, <3>2
  <2>9. ASSUME NEW k \in Keys, StartCallback(k)
        PROVE  Separate'
    <3>1. /\ UNCHANGED <<stored, seen, reply, ok, discarded>>
          /\ stage' = [stage EXCEPT ![k] = "call"]
          /\ started' = started + 1
          /\ call' = [call EXCEPT ![k] = started + 1]
      BY <2>9 DEF StartCallback, callerVars, storeVars
    <3>2. Published' = Published
      BY <2>7, <3>1
    <3>3. ASSUME NEW j \in Keys
          PROVE  FlightSeparate(j)'
      <4>1. FlightSeparate(j) /\ \A i \in Keys : call[i] =< started
        BY DEF Separate, FlightSeparate
      <4>2. CASE j = k
        BY <2>a, <3>1, <3>2, <4>1, <4>2
           DEF Separate, FlightSeparate, Unanswered, Delivering
      <4>3. CASE j # k
        BY <2>a, <3>1, <3>2, <4>1, <4>3
           DEF Separate, FlightSeparate, Unanswered, Delivering
      <4>4. QED BY <4>2, <4>3
    <3>4. QED BY <2>a, <3>1, <3>2, <3>3 DEF Separate
  \* A call is given up.
  <2>10. ASSUME NEW k \in Keys, Abandon(k) \/ ReceiveFails(k)
         PROVE  Separate'
    <3>1. /\ UNCHANGED <<stored, seen, reply, started, call>>
          /\ stage' = [stage EXCEPT ![k] = "end"]
          /\ ok' = [ok EXCEPT ![k] = FALSE]
          /\ discarded' = discarded \union {call[k]}
          /\ Unanswered(k)
      BY <2>10 DEF Abandon, ReceiveFails, FlightFails, FlightStep, Unanswered,
         callerVars, storeVars, callVars
    <3>2. Published' = Published
      BY <2>7, <3>1
    <3>3. FlightSeparate(k)
      BY DEF Separate
    <3>4. ASSUME NEW j \in Keys
          PROVE  FlightSeparate(j)'
      <4>1. FlightSeparate(j)
        BY DEF Separate
      <4>2. CASE j = k
        BY <2>a, <3>1, <4>1, <4>2 DEF FlightSeparate, Unanswered, Delivering
      <4>3. CASE j # k
        <5>1. /\ Unanswered(j)' => Unanswered(j)
              /\ Delivering(j)' => Delivering(j)
          BY <2>a, <3>1, <4>3 DEF Unanswered, Delivering
        <5>2. call[j] # call[k]
          BY <3>1, <3>3, <4>3 DEF FlightSeparate
        <5>3. Unanswered(j)' =>
                call[j] \in (1..started) \ (Published' \union discarded')
          BY <3>1, <3>2, <4>1, <5>1, <5>2 DEF FlightSeparate
        <5>4. Delivering(j)' => call[j] \in (1..started) \ discarded'
          BY <3>1, <4>1, <5>1, <5>2 DEF FlightSeparate
        <5>5. QED BY <3>1, <4>1, <5>3, <5>4 DEF FlightSeparate
      <4>4. QED BY <4>2, <4>3
    <3>5. call[k] \in (1..started) \ Published
      BY <3>1, <3>3 DEF FlightSeparate
    <3>6. discarded' \subseteq 1..started' /\ Published' \subseteq 0..started'
      BY <3>1, <3>2, <3>5 DEF Separate
    <3>7. Published' \intersect discarded' = {}
      BY <3>1, <3>2, <3>5 DEF Separate
    <3>8. QED BY <3>4, <3>6, <3>7 DEF Separate
  \* A delivery in progress: no more giving up.
  <2>11. ASSUME NEW k \in Keys, Receive(k) \/ StoreFails(k)
         PROVE  Separate'
    <3>1. /\ UNCHANGED <<stored, seen, reply, started, call, discarded>>
          /\ Unanswered(k) \/ Delivering(k)
          /\ \E to \in {"store", "end"} : stage' = [stage EXCEPT ![k] = to]
          /\ ok' = [ok EXCEPT ![k] = TRUE]
      BY <2>11 DEF Receive, StoreFails, FlightStep, Unanswered, Delivering,
         callerVars, storeVars, callVars
    <3>2. \A j \in Keys : Unanswered(j)' => Unanswered(j)
      BY <2>a, <3>1 DEF Unanswered
    <3>3. \A j \in Keys : Delivering(j)' => Unanswered(j) \/ Delivering(j)
      BY <2>a, <3>1 DEF Delivering
    <3>4. QED BY <2>2, <2>7, <3>1, <3>2, <3>3
  <2>12. ASSUME NEW k \in Keys, Store(k)
         PROVE  Separate'
    <3>1. /\ UNCHANGED <<seen, reply, started, call, discarded>>
          /\ stage[k] = "store"
          /\ stage' = [stage EXCEPT ![k] = "end"]
          /\ ok' = [ok EXCEPT ![k] = TRUE]
          /\ stored' = [stored EXCEPT ![k] = call[k]]
      BY <2>12 DEF Store, FlightStep, callerVars, callVars
    <3>2. Published' \subseteq Published \union {call[k]}
      BY <2>a, <2>b, <2>1, <3>1
    <3>3. call[k] \in (1..started) \ discarded /\ FlightSeparate(k)
      BY <3>1 DEF Separate, FlightSeparate, Delivering
    <3>4. ASSUME NEW j \in Keys
          PROVE  FlightSeparate(j)'
      <4>1. FlightSeparate(j)
        BY DEF Separate
      <4>2. Delivering(j)' => Delivering(j)
        BY <2>a, <3>1 DEF Delivering
      <4>3. Unanswered(j)' => Unanswered(j) /\ j # k
        BY <2>a, <3>1 DEF Unanswered
      <4>4. Unanswered(j)' => call[j] # call[k]
        BY <3>3, <4>3 DEF FlightSeparate
      <4>5. Unanswered(j)' =>
              call[j] \in (1..started) \ (Published' \union discarded)
        BY <3>2, <4>1, <4>3, <4>4 DEF FlightSeparate
      <4>6. QED BY <3>1, <4>1, <4>2, <4>5 DEF FlightSeparate
    <3>5. QED BY <3>1, <3>2, <3>3, <3>4 DEF Separate
  <2>13. ASSUME NEW k \in Keys, FlightEnd(k)
         PROVE  Separate'
    <3>1. /\ UNCHANGED <<stored, reply, started, discarded>>
          /\ stage[k] = "end"
          /\ stage' = [stage EXCEPT ![k] = "idle"]
          /\ call' = [call EXCEPT ![k] = 0]
          /\ ok' = [ok EXCEPT ![k] = FALSE]
          /\ \A c \in Callers : seen'[c] \in {Result(k), seen[c]}
      BY <2>13 DEF FlightEnd, storeVars, callVars
    <3>2. Published' \subseteq Published \union {Result(k)}
      <4>1. /\ \A j \in Keys : stored'[j] \in Published
            /\ \A c \in Callers : seen'[c] \in Published \union {Result(k)}
            /\ \A c \in Callers : reply'[c].version \in Published
        BY <2>b, <3>1
      <4>2. QED BY <2>1, <4>1
    <3>3. FlightSeparate(k)
      BY DEF Separate
    <3>4. Result(k) = 0 \/ (Result(k) = call[k] /\ Delivering(k))
      BY <2>a, <3>1 DEF Result, Delivering
    <3>5. /\ Result(k) \in 0..started
          /\ Result(k) \notin discarded
      BY <2>a, <3>3, <3>4 DEF Separate, FlightSeparate
    <3>6. ASSUME NEW j \in Keys
          PROVE  FlightSeparate(j)'
      <4>1. FlightSeparate(j)
        BY DEF Separate
      <4>2. CASE j = k
        <5>1. /\ ~Unanswered(j)'
              /\ ~Delivering(j)'
              /\ call'[j] = 0
          BY <2>a, <3>1, <4>2 DEF Unanswered, Delivering
        <5>2. QED BY <2>a, <3>1, <5>1 DEF FlightSeparate
      <4>3. CASE j # k
        <5>1. /\ Unanswered(j)' => Unanswered(j)
              /\ Delivering(j)' => Delivering(j)
              /\ call'[j] = call[j]
          BY <2>a, <3>1, <4>3 DEF Unanswered, Delivering
        <5>2. Unanswered(j) => call[j] # Result(k)
          BY <3>3, <3>4, <4>1, <4>3 DEF FlightSeparate
        <5>3. Unanswered(j)' =>
                call[j] \in (1..started) \ (Published' \union discarded)
          BY <3>2, <4>1, <5>1, <5>2 DEF FlightSeparate
        <5>4. \A i \in Keys : call'[i] = call[j] /\ call[j] # 0 => i = j
          BY <2>a, <3>1, <4>1 DEF FlightSeparate
        <5>5. QED BY <3>1, <4>1, <5>1, <5>3, <5>4 DEF FlightSeparate
      <4>4. QED BY <4>2, <4>3
    <3>7. QED BY <3>1, <3>2, <3>5, <3>6 DEF Separate
  <2>14. ASSUME NEW k \in Keys,
                Deadline(k) \/ Age(k) \/ Evict(k) \/ MarkerExpire(k)
         PROVE  Separate'
    <3>1. UNCHANGED <<seen, reply, started, stage, call, ok, discarded>>
      BY <2>14 DEF Deadline, Age, Evict, MarkerExpire, callerVars, callVars,
         flightVars
    <3>2. stored' = stored \/ stored' = [stored EXCEPT ![k] = 0]
      BY <2>14 DEF Deadline, Age, Evict, MarkerExpire, storeVars
    <3>3. Published' \subseteq Published \union {}
      BY <2>a, <2>b, <2>1, <3>1, <3>2
    <3>4. QED BY <2>3, <3>1, <3>3
  <2>15. ASSUME NEW a \in running, CallReturn(a[1], a[2])
         PROVE  Separate'
    <3>1. /\ UNCHANGED <<stored, seen, reply, started, call, discarded>>
          /\ a[2] \in Keys
      BY <2>15 DEF CallReturn, callerVars, storeVars, TypeOK
    <3>2. CASE CallDropped(a[1], a[2])
      BY <2>3, <2>7, <3>1, <3>2 DEF CallDropped
    <3>3. CASE CallAnswers(a[1], a[2])
      <4>1. /\ Unanswered(a[2])
            /\ stage' = [stage EXCEPT ![a[2]] = "ready"]
            /\ \A j \in Keys \ {a[2]} : ok'[j] = ok[j]
        BY <2>a, <3>3 DEF CallAnswers, Awaited, Unanswered
      <4>2. \A j \in Keys : Unanswered(j)' => Unanswered(j)
        BY <2>a, <4>1 DEF Unanswered
      <4>3. \A j \in Keys : Delivering(j)' => Delivering(j)
        BY <2>a, <4>1 DEF Delivering
      <4>4. QED BY <2>2, <2>7, <3>1, <4>2, <4>3
    <3>4. QED BY <2>15, <3>2, <3>3 DEF CallReturn
  <2>16. ASSUME Shutdown \/ UNCHANGED vars
         PROVE  Separate'
    <3>1. UNCHANGED <<stored, seen, reply, started, stage, call, ok,
                      discarded>>
      BY <2>16 DEF Shutdown, ShutdownBegin, ShutdownTick, ShutdownTimeout,
         ShutdownStep, vars, callerVars, storeVars, flightVars, callVars
    <3>2. QED BY <2>3, <2>7, <3>1
  <2>17. ASSUME NEW k \in Keys, KeyStep(k)
         PROVE  Separate'
    BY <2>9, <2>10, <2>11, <2>12, <2>13, <2>14, <2>17 DEF KeyStep, SafeCall
  <2>18. QED
    BY <2>5, <2>6, <2>8, <2>15, <2>16, <2>17 DEF Next, Done
<1>3. QED BY <1>1, <1>2, Typing, PTL DEF Spec

\* A call whose flight reported an error is never stored and never returned,
\* however late its callback answers.
THEOREM DiscardedUnused == Spec => []NoDiscardedResult
<1>1. TypeOK /\ Separate => NoDiscardedResult
  BY DEF TypeOK, Separate, Published, NoDiscardedResult
<1>2. QED BY <1>1, Typing, SeparateInvariant, PTL

=============================================================================
