------------------------ MODULE CircuitBreakerProofs ------------------------
(***************************************************************************)
(* What CircuitBreaker keeps for every number of requests, and all         *)
(* thresholds and limits.                                                  *)
(***************************************************************************)
EXTENDS CircuitBreaker, FiniteSetTheorems, TLAPS

\* The steps of Execute that come before the engine is called, the others, and
\* those of Reset.
BeforeEngine(r) ==
  \/ Start(r) \/ LoadLastFailure(r) \/ RefuseOpen(r) \/ TryHalfOpen(r)
  \/ ClearSuccesses(r) \/ KeyRefuses(r) \/ KeyAllows(r) \/ Track(r)

AfterFailure(r) ==
  \/ CountFailure(r) \/ StampFailure(r) \/ JudgeFailure(r) \/ Trip(r)
  \/ Reopen(r) \/ ZeroFailures(r)

AfterSuccess(r) ==
  \/ JudgeSuccess(r) \/ CountSuccess(r) \/ Close(r) \/ ClosedFailures(r)
  \/ ClosedSuccesses(r)

EngineAnswers(r) == EngineFails(r) \/ EngineSucceeds(r)

LEMMA Steps ==
  ASSUME [Next]_vars
  PROVE  \/ \E r \in Requests : BeforeEngine(r)
         \/ \E r \in Requests : AddSlot(r)
         \/ \E r \in Requests : UndoSlot(r)
         \/ \E r \in Requests : EngineAnswers(r)
         \/ \E r \in Requests : AfterFailure(r)
         \/ \E r \in Requests : AfterSuccess(r)
         \/ \E r \in Requests : Leave(r)
         \/ ResetPhase
         \/ ResetGoesOn
         \/ Tick \/ UNCHANGED vars
BY DEF Next, Proceed, BeforeEngine, EngineAnswers, AfterFailure, AfterSuccess

\* Type correctness: the state is always one of the three and the counts of
\* failures and successes are never negative, whatever the order of the stores.
THEOREM Typing == Spec => []TypeOK
<1>1. Init => TypeOK
  BY ConfigAssumption
     DEF Init, TypeOK, Phases, PCs, ResetPCs, Ages, Old
<1>2. TypeOK /\ [Next]_vars => TypeOK'
  <2> SUFFICES ASSUME TypeOK, [Next]_vars
               PROVE  TypeOK'
    OBVIOUS
  <2> USE DEF TypeOK, Phases, PCs, ResetPCs, atomics, requestVars, outside,
              Goto
  <2>1. /\ Old \in Ages
        /\ 0 \in Ages
        /\ \A a \in Ages : Older(a) \in Ages /\ 0..a \subseteq Ages
    BY ConfigAssumption DEF Ages, Old, Older
  <2>2. ASSUME NEW r \in Requests, BeforeEngine(r)
        PROVE  TypeOK'
    <3>1. CASE Start(r)
      BY <3>1 DEF Start, CanExecute, CanExecuteOpen
    <3>2. CASE LoadLastFailure(r) BY <3>2 DEF LoadLastFailure
    <3>3. CASE RefuseOpen(r) BY <2>1, <3>3 DEF RefuseOpen
    <3>4. CASE TryHalfOpen(r) BY <3>4 DEF TryHalfOpen
    <3>5. CASE ClearSuccesses(r) BY <3>5 DEF ClearSuccesses
    <3>6. CASE KeyRefuses(r) \/ KeyAllows(r) \/ Track(r)
      BY <3>6 DEF KeyRefuses, KeyAllows, Track
    <3>7. QED
      BY <2>2, <3>1, <3>2, <3>3, <3>4, <3>5, <3>6 DEF BeforeEngine
  <2>3. ASSUME NEW r \in Requests, AddSlot(r)
        PROVE  TypeOK'
    BY <2>3, ConfigAssumption DEF AddSlot
  <2>4. ASSUME NEW r \in Requests,
               UndoSlot(r) \/ EngineAnswers(r) \/ Leave(r)
        PROVE  TypeOK'
    <3>1. CASE UndoSlot(r) BY <3>1 DEF UndoSlot
    <3>2. CASE EngineAnswers(r)
      BY <3>2 DEF EngineAnswers, EngineFails, EngineSucceeds
    <3>3. CASE Leave(r)
      <4>1. halfOpen' \in Int
        BY <3>3 DEF Leave
      <4>2. QED BY <3>3, <4>1 DEF Leave
    <3>4. QED BY <2>4, <3>1, <3>2, <3>3
  <2>5. ASSUME NEW r \in Requests, AfterFailure(r)
        PROVE  TypeOK'
    <3>1. CASE CountFailure(r) BY <2>1, <3>1 DEF CountFailure
    <3>2. CASE StampFailure(r)
      <4>1. lastAge' \in Ages
        BY <2>1, <3>2 DEF StampFailure
      <4>2. QED BY <2>1, <3>2, <4>1 DEF StampFailure
    <3>3. CASE JudgeFailure(r) BY <3>3 DEF JudgeFailure
    <3>4. CASE Trip(r) \/ Reopen(r) BY <3>4 DEF Trip, Reopen, SetOpen
    <3>5. CASE ZeroFailures(r) BY <3>5 DEF ZeroFailures
    <3>6. QED BY <2>5, <3>1, <3>2, <3>3, <3>4, <3>5 DEF AfterFailure
  <2>6. ASSUME NEW r \in Requests, AfterSuccess(r)
        PROVE  TypeOK'
    <3>1. CASE JudgeSuccess(r) BY <3>1 DEF JudgeSuccess
    <3>2. CASE CountSuccess(r) BY <3>2 DEF CountSuccess
    <3>3. CASE Close(r) BY <3>3 DEF Close
    <3>4. CASE ClosedFailures(r) \/ ClosedSuccesses(r)
      BY <3>4 DEF ClosedFailures, ClosedSuccesses
    <3>5. QED BY <2>6, <3>1, <3>2, <3>3, <3>4 DEF AfterSuccess
  <2>7. CASE ResetPhase \/ ResetGoesOn
    BY <2>7 DEF ResetPhase, ResetGoesOn, ResetFailures, ResetSuccesses,
       ResetHalfOpen, ResetStep
  <2>8. CASE Tick
    BY <2>1, <2>8 DEF Tick
  <2>9. CASE UNCHANGED vars
    BY <2>9 DEF vars
  <2>10. QED
    BY Steps, <2>2, <2>3, <2>4, <2>5, <2>6, <2>7, <2>8, <2>9
<1>3. QED BY <1>1, <1>2, PTL DEF Spec

-----------------------------------------------------------------------------
(* halfOpenRequests and its limit.                                         *)

\* Where a request may be that still has to take its Add back on return.
Counted == {"run", "failed", "stamp", "judge", "trip", "reopen", "zero",
            "succeeded", "praise", "close", "closed", "cleared", "leave"}

SlotHeldInside == \A r \in Requests : slot[r] => pc[r] \in Counted

\* A request asks for a place before the engine is called, and with none.
LEMMA SlotHeldInvariant == Spec => []SlotHeldInside
<1>1. Init => SlotHeldInside
  BY DEF Init, SlotHeldInside
<1>2. TypeOK /\ SlotHeldInside /\ [Next]_vars => SlotHeldInside'
  <2> SUFFICES ASSUME TypeOK, SlotHeldInside, [Next]_vars
               PROVE  SlotHeldInside'
    OBVIOUS
  <2> USE DEF TypeOK, SlotHeldInside, Counted, atomics, requestVars, outside,
              Goto
  <2>1. ASSUME NEW r \in Requests, BeforeEngine(r)
        PROVE  SlotHeldInside'
    BY <2>1 DEF BeforeEngine, Start, CanExecute, CanExecuteOpen,
       LoadLastFailure, RefuseOpen, TryHalfOpen, ClearSuccesses, KeyRefuses,
       KeyAllows, Track
  <2>2. ASSUME NEW r \in Requests, AddSlot(r) \/ UndoSlot(r) \/ Leave(r)
        PROVE  SlotHeldInside'
    BY <2>2 DEF AddSlot, UndoSlot, Leave
  <2>3. ASSUME NEW r \in Requests, EngineAnswers(r) \/ AfterFailure(r)
        PROVE  SlotHeldInside'
    BY <2>3 DEF EngineAnswers, EngineFails, EngineSucceeds, AfterFailure,
       CountFailure, StampFailure, JudgeFailure, Trip, Reopen, SetOpen,
       ZeroFailures
  <2>4. ASSUME NEW r \in Requests, AfterSuccess(r)
        PROVE  SlotHeldInside'
    BY <2>4 DEF AfterSuccess, JudgeSuccess, CountSuccess, Close,
       ClosedFailures, ClosedSuccesses
  <2>5. CASE ResetPhase \/ ResetGoesOn
    BY <2>5 DEF ResetPhase, ResetGoesOn, ResetFailures, ResetSuccesses,
       ResetHalfOpen, ResetStep
  <2>6. CASE Tick \/ UNCHANGED vars
    BY <2>6 DEF Tick, vars
  <2>7. QED BY Steps, <2>1, <2>2, <2>3, <2>4, <2>5, <2>6
<1>3. QED BY <1>1, <1>2, Typing, PTL DEF Spec

\* Only four steps of a request touch the counter or the two groups it counts,
\* and each moves one member; of Reset's, none does before the first call.
LEMMA SlotSteps ==
  ASSUME TypeOK, SlotHeldInside, [Next]_vars,
         resets = 0 => resetter = "no",
         resets' = 0
  PROVE  /\ resets = 0
         /\ resetter' = "no"
         /\ \/ UNCHANGED <<Slots, Undoing, halfOpen>>
            \/ \E r \in Requests \ Slots :
                 /\ Slots' = Slots \union {r}
                 /\ halfOpen + 1 =< MaxHalfOpenReqs
                 /\ halfOpen' = halfOpen + 1
                 /\ UNCHANGED Undoing
            \/ \E r \in Requests \ Undoing :
                 /\ Undoing' = Undoing \union {r}
                 /\ halfOpen' = halfOpen + 1
                 /\ UNCHANGED Slots
            \/ \E r \in Undoing :
                 /\ Undoing' = Undoing \ {r}
                 /\ halfOpen' = halfOpen - 1
                 /\ UNCHANGED Slots
            \/ \E r \in Slots :
                 /\ Slots' = Slots \ {r}
                 /\ halfOpen' = halfOpen - 1
                 /\ UNCHANGED Undoing
<1> USE DEF TypeOK, Slots, Undoing, atomics, requestVars, outside, Goto
<1> DEFINE Quiet == UNCHANGED <<resets, resetter>>
           Same  == UNCHANGED <<Slots, Undoing, halfOpen>>
<1>1. ASSUME NEW r \in Requests, BeforeEngine(r)
      PROVE  Quiet /\ Same
  BY <1>1 DEF BeforeEngine, Start, CanExecute, CanExecuteOpen,
     LoadLastFailure, RefuseOpen, TryHalfOpen, ClearSuccesses, KeyRefuses,
     KeyAllows, Track
<1>2. ASSUME NEW r \in Requests, AddSlot(r),
             halfOpen + 1 =< MaxHalfOpenReqs
      PROVE  /\ Quiet
             /\ r \notin Slots
             /\ Slots' = Slots \union {r}
             /\ halfOpen' = halfOpen + 1
             /\ UNCHANGED Undoing
  BY <1>2 DEF AddSlot, SlotHeldInside, Counted
<1>3. ASSUME NEW r \in Requests, AddSlot(r),
             ~(halfOpen + 1 =< MaxHalfOpenReqs)
      PROVE  /\ Quiet
             /\ r \notin Undoing
             /\ Undoing' = Undoing \union {r}
             /\ halfOpen' = halfOpen + 1
             /\ UNCHANGED Slots
  BY <1>3 DEF AddSlot, SlotHeldInside, Counted
<1>4. ASSUME NEW r \in Requests, UndoSlot(r)
      PROVE  /\ Quiet
             /\ r \in Undoing
             /\ Undoing' = Undoing \ {r}
             /\ halfOpen' = halfOpen - 1
             /\ UNCHANGED Slots
  BY <1>4 DEF UndoSlot
<1>5. ASSUME NEW r \in Requests, EngineAnswers(r) \/ AfterFailure(r)
      PROVE  Quiet /\ Same
  BY <1>5 DEF EngineAnswers, EngineFails, EngineSucceeds, AfterFailure,
     CountFailure, StampFailure, JudgeFailure, Trip, Reopen, SetOpen,
     ZeroFailures
<1>6. ASSUME NEW r \in Requests, AfterSuccess(r)
      PROVE  Quiet /\ Same
  BY <1>6 DEF AfterSuccess, JudgeSuccess, CountSuccess, Close,
     ClosedFailures, ClosedSuccesses
<1>7. ASSUME NEW r \in Requests, Leave(r), slot[r]
      PROVE  /\ Quiet
             /\ r \in Slots
             /\ Slots' = Slots \ {r}
             /\ halfOpen' = halfOpen - 1
             /\ UNCHANGED Undoing
  BY <1>7 DEF Leave
<1>8. ASSUME NEW r \in Requests, Leave(r), ~slot[r]
      PROVE  Quiet /\ Same
  BY <1>8 DEF Leave
<1>9. CASE ResetPhase \/ ResetGoesOn
  <2>1. resets' # 0
    BY <1>9 DEF ResetPhase, ResetGoesOn, ResetFailures, ResetSuccesses,
       ResetHalfOpen, ResetStep
  <2>2. QED BY <2>1
<1>10. ASSUME Tick \/ UNCHANGED vars
       PROVE  Quiet /\ Same
  BY <1>10 DEF Tick, vars
<1>11. QED
  BY Steps, <1>1, <1>2, <1>3, <1>4, <1>5, <1>6, <1>7, <1>8, <1>9, <1>10

SlotInv ==
  /\ resets = 0 => resetter = "no"
  /\ SlotsExact
  /\ PlacesBounded

\* The bound holds because the counter is exact: a request gets its place only
\* when the counter, which its own Add is in already, is within the limit.
LEMMA SlotInvariant == Spec => []SlotInv
<1> USE DEF SlotInv, SlotsExact, PlacesBounded
<1>1. Init => SlotInv
  <2> SUFFICES ASSUME Init PROVE SlotInv
    OBVIOUS
  <2>1. Slots = {} /\ Undoing = {} /\ halfOpen = 0 /\ resetter = "no"
    BY DEF Init, Slots, Undoing
  <2>2. QED BY <2>1, FS_EmptySet, ConfigAssumption
<1>2. TypeOK /\ SlotHeldInside /\ SlotInv /\ [Next]_vars => SlotInv'
  <2> SUFFICES ASSUME TypeOK, SlotHeldInside, SlotInv, [Next]_vars,
                      resets' = 0
               PROVE  /\ resetter' = "no"
                      /\ SlotsExact'
                      /\ PlacesBounded'
    BY Zenon
  <2> DEFINE Goal ==
        /\ halfOpen' = Cardinality(Slots') + Cardinality(Undoing')
        /\ Cardinality(Slots') =< MaxHalfOpenReqs
  <2>1. /\ IsFiniteSet(Slots)
        /\ IsFiniteSet(Undoing)
    BY RequestAssumption, FS_Subset DEF Slots, Undoing
  <2>2. /\ Cardinality(Slots) \in Nat
        /\ Cardinality(Undoing) \in Nat
        /\ MaxHalfOpenReqs \in Nat
        /\ halfOpen \in Int
    BY <2>1, FS_CardinalityType, ConfigAssumption DEF TypeOK
  <2>3. /\ resets = 0
        /\ resetter' = "no"
    BY SlotSteps
  <2>4. /\ halfOpen = Cardinality(Slots) + Cardinality(Undoing)
        /\ Cardinality(Slots) =< MaxHalfOpenReqs
    BY <2>3
  <2>5. ASSUME UNCHANGED <<Slots, Undoing, halfOpen>>
        PROVE  Goal
    BY <2>4, <2>5
  <2>6. ASSUME NEW r \in Requests \ Slots,
               Slots' = Slots \union {r},
               halfOpen + 1 =< MaxHalfOpenReqs,
               halfOpen' = halfOpen + 1,
               UNCHANGED Undoing
        PROVE  Goal
    <3>1. Cardinality(Slots') = Cardinality(Slots) + 1
      BY <2>1, <2>6, FS_AddElement
    <3>2. QED BY <2>2, <2>4, <2>6, <3>1
  <2>7. ASSUME NEW r \in Requests \ Undoing,
               Undoing' = Undoing \union {r},
               halfOpen' = halfOpen + 1,
               UNCHANGED Slots
        PROVE  Goal
    <3>1. Cardinality(Undoing') = Cardinality(Undoing) + 1
      BY <2>1, <2>7, FS_AddElement
    <3>2. QED BY <2>2, <2>4, <2>7, <3>1
  <2>8. ASSUME NEW r \in Undoing,
               Undoing' = Undoing \ {r},
               halfOpen' = halfOpen - 1,
               UNCHANGED Slots
        PROVE  Goal
    <3>1. Cardinality(Undoing') = Cardinality(Undoing) - 1
      BY <2>1, <2>8, FS_RemoveElement
    <3>2. QED BY <2>2, <2>4, <2>8, <3>1
  <2>9. ASSUME NEW r \in Slots,
               Slots' = Slots \ {r},
               halfOpen' = halfOpen - 1,
               UNCHANGED Undoing
        PROVE  Goal
    <3>1. Cardinality(Slots') = Cardinality(Slots) - 1
      BY <2>1, <2>9, FS_RemoveElement
    <3>2. QED BY <2>2, <2>4, <2>9, <3>1
  <2>10. QED BY SlotSteps, <2>3, <2>5, <2>6, <2>7, <2>8, <2>9
<1>3. QED BY <1>1, <1>2, Typing, SlotHeldInvariant, PTL DEF Spec

\* Unless Reset is called, no Add of Execute is lost or taken back twice.
THEOREM SlotCountExact == Spec => []SlotsExact
BY SlotInvariant, PTL DEF SlotInv

\* Unless Reset is called, no more than MaxHalfOpenReqs of the requests hold a
\* place in halfOpenRequests, for any number of requests.
THEOREM PlacesAreBounded == Spec => []PlacesBounded
BY SlotInvariant, PTL DEF SlotInv

-----------------------------------------------------------------------------
(* No threshold is missed.                                                 *)

\* r will open the breaker, or has closed it and will clear the failures.
Acting(r) ==
  \/ pc[r] \in {"trip", "closed"}
  \/ pc[r] \in {"stamp", "judge"} /\ got[r] >= FailureThreshold

\* A closed breaker with enough failures has somebody at work on it, and so has
\* a half-open one with enough successes.
FailuresNoticed ==
  phase = "closed" /\ failures >= FailureThreshold =>
    resetter = "failures" \/ \E r \in Requests : Acting(r)

SuccessesNoticed ==
  phase = "halfopen" /\ successes >= SuccessThreshold =>
    \E r \in Requests : pc[r] \in {"clear", "close"}

\* The last to count is the one that acts: Add returns every number once, and
\* the state it acts in is read after it.
LEMMA FailuresNoticedStep ==
  TypeOK /\ FailuresNoticed /\ [Next]_vars => FailuresNoticed'
<1> SUFFICES ASSUME TypeOK, FailuresNoticed, [Next]_vars
             PROVE  FailuresNoticed'
  OBVIOUS
<1> USE DEF TypeOK, atomics, requestVars, outside, Goto
<1>1. ASSUME phase' = "closed" => phase = "closed",
             failures' = failures \/ failures' = 0,
             resetter' = resetter,
             \A r \in Requests : Acting(r) => Acting(r)'
      PROVE  FailuresNoticed'
  BY <1>1, ConfigAssumption DEF FailuresNoticed
<1>2. ASSUME NEW r \in Requests,
             BeforeEngine(r) \/ AddSlot(r) \/ UndoSlot(r) \/ EngineAnswers(r)
               \/ Leave(r)
      PROVE  FailuresNoticed'
  <2>1. /\ phase' = "closed" => phase = "closed"
        /\ failures' = failures /\ resetter' = resetter /\ got' = got
        /\ \A q \in Requests : q # r => pc'[q] = pc[q]
        /\ pc[r] \notin {"trip", "closed", "stamp", "judge"}
    BY <1>2 DEF BeforeEngine, Start, CanExecute, CanExecuteOpen,
       LoadLastFailure, RefuseOpen, TryHalfOpen, ClearSuccesses, KeyRefuses,
       KeyAllows, Track, AddSlot, UndoSlot, EngineAnswers, EngineFails,
       EngineSucceeds, Leave
  <2>2. QED
    BY <1>1, <2>1 DEF Acting
<1>3. ASSUME NEW r \in Requests, CountFailure(r)
      PROVE  FailuresNoticed'
  <2>1. /\ pc[r] = "failed" /\ pc'[r] = "stamp" /\ got'[r] = failures + 1
        /\ failures' = failures + 1 /\ phase' = phase /\ resetter' = resetter
        /\ \A q \in Requests : q # r => pc'[q] = pc[q] /\ got'[q] = got[q]
    BY <1>3 DEF CountFailure
  <2>2. CASE failures + 1 >= FailureThreshold
    BY <2>1, <2>2 DEF Acting, FailuresNoticed
  <2>3. CASE ~(failures + 1 >= FailureThreshold)
    BY <2>1, <2>3 DEF FailuresNoticed
  <2>4. QED
    BY <2>2, <2>3
<1>4. ASSUME NEW r \in Requests, StampFailure(r)
      PROVE  FailuresNoticed'
  <2>1. /\ pc[r] = "stamp" /\ pc'[r] = "judge" /\ got' = got
        /\ failures' = failures /\ phase' = phase /\ resetter' = resetter
        /\ \A q \in Requests : q # r => pc'[q] = pc[q]
    BY <1>4 DEF StampFailure
  <2>2. QED
    BY <1>1, <2>1 DEF Acting
<1>5. ASSUME NEW r \in Requests, JudgeFailure(r)
      PROVE  FailuresNoticed'
  <2>1. /\ pc[r] = "judge"
        /\ failures' = failures /\ phase' = phase /\ resetter' = resetter
        /\ phase = "closed" /\ got[r] >= FailureThreshold => pc'[r] = "trip"
        /\ \A q \in Requests : q # r => pc'[q] = pc[q] /\ got'[q] = got[q]
    BY <1>5 DEF JudgeFailure
  <2>2. CASE phase = "closed" /\ got[r] >= FailureThreshold
    BY <2>1, <2>2 DEF Acting, FailuresNoticed
  <2>3. CASE phase # "closed"
    BY <2>1, <2>3 DEF FailuresNoticed
  <2>4. CASE ~(got[r] >= FailureThreshold)
    BY <1>1, <2>1, <2>4 DEF Acting
  <2>5. QED
    BY <2>2, <2>3, <2>4
<1>6. ASSUME NEW r \in Requests, Trip(r) \/ Reopen(r)
      PROVE  FailuresNoticed'
  BY <1>6 DEF Trip, Reopen, SetOpen, FailuresNoticed
<1>7. ASSUME NEW r \in Requests, ZeroFailures(r) \/ ClosedFailures(r)
      PROVE  FailuresNoticed'
  BY <1>7, ConfigAssumption DEF ZeroFailures, ClosedFailures, FailuresNoticed
<1>8. ASSUME NEW r \in Requests,
             JudgeSuccess(r) \/ CountSuccess(r) \/ ClosedSuccesses(r)
      PROVE  FailuresNoticed'
  <2>1. /\ phase' = phase /\ failures' = failures /\ resetter' = resetter
        /\ got' = got
        /\ \A q \in Requests : q # r => pc'[q] = pc[q]
        /\ pc[r] \notin {"trip", "closed", "stamp", "judge"}
    BY <1>8 DEF JudgeSuccess, CountSuccess, ClosedSuccesses
  <2>2. QED
    BY <1>1, <2>1 DEF Acting
<1>9. ASSUME NEW r \in Requests, Close(r)
      PROVE  FailuresNoticed'
  <2>1. pc'[r] = "closed"
    BY <1>9 DEF Close
  <2>2. QED
    BY <2>1 DEF Acting, FailuresNoticed
<1>10. CASE ResetPhase
  BY <1>10 DEF ResetPhase, ResetStep, FailuresNoticed
<1>11. CASE ResetGoesOn
  <2>1. CASE ResetFailures
    BY <2>1, ConfigAssumption DEF ResetFailures, FailuresNoticed
  <2>2. CASE ResetSuccesses \/ ResetHalfOpen
    BY <2>2 DEF ResetSuccesses, ResetHalfOpen, ResetStep, Acting,
       FailuresNoticed
  <2>3. QED
    BY <1>11, <2>1, <2>2 DEF ResetGoesOn
<1>12. CASE Tick \/ UNCHANGED vars
  <2>1. UNCHANGED <<phase, failures, resetter, pc, got>>
    BY <1>12 DEF Tick, vars
  <2>2. QED
    BY <1>1, <2>1 DEF Acting
<1>13. QED
  BY Steps, <1>2, <1>3, <1>4, <1>5, <1>6, <1>7, <1>8, <1>9, <1>10, <1>11,
     <1>12 DEF AfterFailure, AfterSuccess

LEMMA SuccessesNoticedStep ==
  TypeOK /\ SuccessesNoticed /\ [Next]_vars => SuccessesNoticed'
<1> SUFFICES ASSUME TypeOK, SuccessesNoticed, [Next]_vars
             PROVE  SuccessesNoticed'
  OBVIOUS
<1> USE DEF TypeOK, atomics, requestVars, outside, Goto
<1>1. ASSUME phase' = "halfopen" => phase = "halfopen",
             successes' = successes,
             \A r \in Requests :
               pc[r] \in {"clear", "close"} => pc'[r] \in {"clear", "close"}
      PROVE  SuccessesNoticed'
  BY <1>1 DEF SuccessesNoticed
<1>2. ASSUME phase' # "halfopen" \/ successes' = 0
      PROVE  SuccessesNoticed'
  BY <1>2, ConfigAssumption DEF SuccessesNoticed
<1>3. ASSUME NEW r \in Requests, BeforeEngine(r)
      PROVE  SuccessesNoticed'
  <2>1. CASE TryHalfOpen(r)
    <3>1. pc'[r] = "clear"
      BY <2>1 DEF TryHalfOpen
    <3>2. QED
      BY <3>1 DEF SuccessesNoticed
  <2>2. CASE ClearSuccesses(r)
    BY <1>2, <2>2 DEF ClearSuccesses
  <2>3. CASE \/ Start(r) \/ LoadLastFailure(r) \/ RefuseOpen(r)
             \/ KeyRefuses(r) \/ KeyAllows(r) \/ Track(r)
    <3>1. /\ phase' = phase /\ successes' = successes
          /\ \A q \in Requests : q # r => pc'[q] = pc[q]
          /\ pc[r] \notin {"clear", "close"}
      BY <2>3 DEF Start, CanExecute, CanExecuteOpen, LoadLastFailure,
         RefuseOpen, KeyRefuses, KeyAllows, Track
    <3>2. QED
      BY <1>1, <3>1
  <2>4. QED
    BY <1>3, <2>1, <2>2, <2>3 DEF BeforeEngine
<1>4. ASSUME NEW r \in Requests,
             \/ AddSlot(r) \/ UndoSlot(r) \/ EngineAnswers(r) \/ Leave(r)
             \/ AfterFailure(r) \/ JudgeSuccess(r) \/ ClosedFailures(r)
      PROVE  SuccessesNoticed'
  <2>1. /\ phase' = "halfopen" => phase = "halfopen"
        /\ successes' = successes
        /\ \A q \in Requests : q # r => pc'[q] = pc[q]
        /\ pc[r] \notin {"clear", "close"}
    BY <1>4 DEF AddSlot, UndoSlot, EngineAnswers, EngineFails, EngineSucceeds,
       Leave, AfterFailure, CountFailure, StampFailure, JudgeFailure, Trip,
       Reopen, SetOpen, ZeroFailures, JudgeSuccess, ClosedFailures
  <2>2. QED
    BY <1>1, <2>1
<1>5. ASSUME NEW r \in Requests, CountSuccess(r)
      PROVE  SuccessesNoticed'
  <2>1. /\ pc[r] = "praise" /\ phase' = phase /\ successes' = successes + 1
        /\ successes + 1 >= SuccessThreshold => pc'[r] = "close"
    BY <1>5 DEF CountSuccess
  <2>2. QED
    BY <2>1 DEF SuccessesNoticed
<1>6. ASSUME NEW r \in Requests, Close(r) \/ ClosedSuccesses(r)
      PROVE  SuccessesNoticed'
  BY <1>2, <1>6 DEF Close, ClosedSuccesses
<1>7. CASE ResetPhase \/ ResetSuccesses
  BY <1>2, <1>7 DEF ResetPhase, ResetSuccesses
<1>8. CASE \/ ResetFailures \/ ResetHalfOpen \/ Tick \/ UNCHANGED vars
  <2>1. UNCHANGED <<phase, successes, pc>>
    BY <1>8 DEF ResetFailures, ResetHalfOpen, ResetStep, Tick, vars
  <2>2. QED
    BY <1>1, <2>1
<1>9. QED
  BY Steps, <1>3, <1>4, <1>5, <1>6, <1>7, <1>8
  DEF AfterSuccess, ResetGoesOn

AtRest == resetter = "no" /\ \A r \in Requests : pc[r] = "idle"

\* With no Execute and no Reset under way, a closed breaker is below its
\* threshold of failures, a half-open one below its threshold of successes, and
\* every place of half-open is free (until Reset has been called).
RestIsBelow ==
  AtRest =>
    /\ phase = "closed" => failures < FailureThreshold
    /\ phase = "halfopen" => successes < SuccessThreshold
    /\ resets = 0 => halfOpen = 0

\* No threshold is missed, in whatever order the separate Adds, Loads and
\* Stores of concurrent requests and of Reset come: a breaker that should have
\* opened or closed has done so by the time its requests have returned.
THEOREM NoThresholdMissed == Spec => []RestIsBelow
<1>1. Init => FailuresNoticed /\ SuccessesNoticed
  BY ConfigAssumption DEF Init, FailuresNoticed, SuccessesNoticed
<1>2. TypeOK /\ SlotHeldInside /\ SlotInv /\ FailuresNoticed
        /\ SuccessesNoticed => RestIsBelow
  <2> SUFFICES ASSUME TypeOK, SlotHeldInside, SlotInv, FailuresNoticed,
                      SuccessesNoticed, AtRest
               PROVE  /\ phase = "closed" => failures < FailureThreshold
                      /\ phase = "halfopen" => successes < SuccessThreshold
                      /\ resets = 0 => halfOpen = 0
    BY DEF RestIsBelow
  <2>1. \A r \in Requests : pc[r] = "idle"
    BY DEF AtRest
  <2>2. phase = "closed" => failures < FailureThreshold
    BY <2>1, ConfigAssumption DEF FailuresNoticed, Acting, AtRest, TypeOK
  <2>3. phase = "halfopen" => successes < SuccessThreshold
    BY <2>1, ConfigAssumption DEF SuccessesNoticed, TypeOK
  <2>4. Slots = {} /\ Undoing = {}
    BY <2>1 DEF SlotHeldInside, Counted, Slots, Undoing
  <2>5. Cardinality({}) = 0
    BY FS_EmptySet
  <2>6. resets = 0 => halfOpen = 0
    BY <2>4, <2>5 DEF SlotInv, SlotsExact
  <2>7. QED
    BY <2>2, <2>3, <2>6
<1>3. Spec => [](FailuresNoticed /\ SuccessesNoticed)
  BY <1>1, FailuresNoticedStep, SuccessesNoticedStep, Typing, PTL DEF Spec
<1>4. QED
  BY <1>2, <1>3, Typing, SlotHeldInvariant, SlotInvariant, PTL

=============================================================================
