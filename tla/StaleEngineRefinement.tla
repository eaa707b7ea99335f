----------------------- MODULE StaleEngineRefinement -----------------------
(***************************************************************************)
(* StaleEngine implements MonotoneCache, for every number of keys, callers *)
(* and refresh goroutines: each step of the engine is one step of the      *)
(* abstract cache, or one that no caller can see.                          *)
(***************************************************************************)
EXTENDS StaleEngineProofs

\* A caller that is in no Execute is asking nothing.
IdleAsksNothing == \A c \in Callers : pc[c] = "idle" => key[c] = NoKey

LEMMA IdleInvariant == Spec => []IdleAsksNothing
<1>1. Init => IdleAsksNothing
  BY DEF Init, IdleAsksNothing
<1>2. TypeOK /\ IdleAsksNothing /\ [Next]_vars => IdleAsksNothing'
  <2> SUFFICES ASSUME TypeOK, IdleAsksNothing, [Next]_vars
               PROVE  IdleAsksNothing'
    OBVIOUS
  <2>a. pc \in [Callers -> CallerPCs] /\ key \in [Callers -> Keys \union {NoKey}]
    BY DEF TypeOK
  <2>1. ASSUME UNCHANGED <<pc, key>>
        PROVE  IdleAsksNothing'
    BY <2>1 DEF IdleAsksNothing
  <2>2. ASSUME NEW c \in Callers, NEW k, NEW status, NEW v, Return(c, k, status, v)
        PROVE  IdleAsksNothing'
    BY <2>a, <2>2 DEF Return, IdleAsksNothing
  <2>3. ASSUME NEW c \in Callers, NEW step, NEW v, Continue(c, step, v),
               step # "idle", \A d \in Callers \ {c} : key'[d] = key[d]
        PROVE  IdleAsksNothing'
    BY <2>a, <2>3 DEF Continue, IdleAsksNothing
  <2>4. ASSUME NEW c \in Callers, NEW k \in Keys, Execute(c, k)
        PROVE  IdleAsksNothing'
    <3>1. CASE ExecuteError(c, k) BY <2>2, <3>1 DEF ExecuteError
    <3>2. CASE ExecuteMiss(c, k)
      BY <2>a, <2>3, <3>2 DEF ExecuteMiss, EnterAt
    <3>3. CASE ExecuteHit(c, k) BY <2>2, <3>3 DEF ExecuteHit
    <3>4. CASE ExecuteStale(c, k)
      BY <2>a, <2>3, <3>4 DEF ExecuteStale, EnterAt
    <3>5. QED BY <2>4, <3>1, <3>2, <3>3, <3>4 DEF Execute
  <2>5. ASSUME NEW c \in Callers, CallerStep(c)
        PROVE  IdleAsksNothing'
    <3>1. CASE \/ CallerCancel(c) \/ TakeResult(c) \/ SkipRefresh(c)
               \/ LaunchRefresh(c) \/ UndoMark(c)
      BY <2>2, <3>1 DEF CallerCancel, TakeResult, ResultError, ResultReread,
         ResultRebuild, SkipRefresh, LaunchRefresh, UndoMark, ReturnSeen
    <3>2. CASE \/ DoChan(c) \/ CheckShutdown(c) \/ ProbeMarker(c) \/ TrySet(c)
               \/ OverLimit(c) \/ UndoCount(c)
      BY <2>3, <3>2 DEF DoChan, CheckShutdown, ProbeMarker, TrySet, OverLimit,
         UndoCount, TryAsyncStay
    <3>3. QED
      BY <2>5, <3>1, <3>2 DEF CallerStep, TryAsyncRefresh
  <2>6. ASSUME NEW k \in Keys, FlightEnd(k)
        PROVE  IdleAsksNothing'
    BY <2>a, <2>6 DEF FlightEnd, IdleAsksNothing
  <2>7. ASSUME NEW k \in Keys, KeyStep(k)
        PROVE  IdleAsksNothing'
    BY <2>1, <2>6, <2>7 DEF KeyStep, SafeCall, StartCallback, Abandon, Receive,
       ReceiveFails, Store, StoreFails, FlightFails, FlightStep, Deadline, Age,
       Evict, MarkerExpire, callerVars
  <2>8. QED
    BY <2>1, <2>4, <2>5, <2>7 DEF Next, RefresherWork, RefresherDo,
       RefresherDelete, RefresherDec, RefresherStep, CallReturn, Shutdown,
       ShutdownBegin, ShutdownTick, ShutdownTimeout, ShutdownStep, Done, vars,
       callerVars
<1>3. QED
  BY <1>1, <1>2, Typing, PTL DEF Spec

\* What the argument needs of the engine's state.
EngineInv ==
  TypeOK /\ StoreBehindFlight /\ InTime /\ Separate /\ IdleAsksNothing

CacheStep == Cache!Next \/ UNCHANGED Cache!cacheVars

\* What the abstract cache sees of a step.
LEMMA Invisible ==
  UNCHANGED <<stored, started, discarded, key, floor, served, reply>>
    => CacheStep
  BY DEF CacheStep, Cache!cacheVars

\* A version that somebody has is one that can be answered with.
LEMMA PublishedUsable ==
  EngineInv => \A v \in Published : v = 0 \/ Cache!Usable(v)
  BY DEF EngineInv, TypeOK, Calls, Separate, Cache!Usable

\* Execute returns: an answer, no older than what had been served.
LEMMA ReturnAnswers ==
  ASSUME EngineInv, NEW c \in Callers, NEW status \in Statuses,
         NEW v \in Published,
         pc[c] # "idle", Return(c, key[c], status, v),
         UNCHANGED <<stored, started, discarded, floor>>,
         v = 0 \/ v >= floor[c]
  PROVE  CacheStep
<1>1. /\ key[c] \in Keys /\ key[c] # NoKey
      /\ reply \in [Callers -> [status : Statuses, version : Nat]]
      /\ v \in 0..started
  BY KeyAssumption DEF EngineInv, TypeOK, Separate
<1>2. [d \in Callers |-> reply'[d].version]
        = [[d \in Callers |-> reply[d].version] EXCEPT ![c] = v]
  BY <1>1 DEF Return
<1>3. Cache!Answer(c, v)
  BY <1>1, <1>2, PublishedUsable DEF Return, Cache!Answer, Cache!Gets
<1>4. QED
  BY <1>1, <1>3 DEF CacheStep, Cache!Next

LEMMA ExecuteAsks ==
  ASSUME EngineInv, NEW c \in Callers, NEW k \in Keys, Execute(c, k)
  PROVE  CacheStep
<1>1. /\ key[c] = NoKey
      /\ reply \in [Callers -> [status : Statuses, version : Nat]]
      /\ UNCHANGED <<stored, started, discarded>>
      /\ floor' = [floor EXCEPT ![c] = served[k]]
  BY DEF EngineInv, TypeOK, IdleAsksNothing, Execute, ExecuteError, ExecuteMiss,
     ExecuteHit, ExecuteStale, Enter, EnterAt, storeVars, callVars
<1>2. ASSUME NEW v \in Published, NEW status, Return(c, k, status, v),
             v = 0 \/ v >= served[k]
      PROVE  CacheStep
  <2>1. [d \in Callers |-> reply'[d].version]
          = [[d \in Callers |-> reply[d].version] EXCEPT ![c] = v]
    BY <1>1, <1>2 DEF Return
  <2>2. v \in 0..started
    BY DEF EngineInv, Separate
  <2>3. Cache!AnswerAtOnce(c, k, v)
    <3>1. key' = [key EXCEPT ![c] = NoKey]
      BY <1>2 DEF Return
    <3>2. QED
      BY <1>1, <1>2, <2>1, <3>1, PublishedUsable
      DEF Return, Cache!AnswerAtOnce, Cache!Gets
  <2>4. QED
    BY <2>2, <2>3 DEF CacheStep, Cache!Next
<1>3. ASSUME NEW step, NEW v, EnterAt(c, k, step, v)
      PROVE  CacheStep
  <2>1. reply' = [reply EXCEPT ![c] = NoReply] /\ NoReply.version = 0
    BY <1>3 DEF EnterAt, NoReply
  <2>2. [d \in Callers |-> reply'[d].version]
          = [[d \in Callers |-> reply[d].version] EXCEPT ![c] = 0]
    BY <1>1, <2>1
  <2>3. Cache!Ask(c, k)
    BY <1>1, <1>3, <2>2 DEF EnterAt, Continue, Cache!Ask
  <2>4. QED
    BY <2>3 DEF CacheStep, Cache!Next
<1>4. CASE ExecuteError(c, k)
  BY <1>2, <1>4 DEF ExecuteError, Published
<1>5. CASE ExecuteHit(c, k)
  <2>1. /\ stored[k] \in Published
        /\ Return(c, k, "hit", stored[k])
        /\ stored[k] # 0
    BY <1>5 DEF ExecuteHit, Published
  <2>2. stored[k] >= served[k]
    BY <2>1 DEF EngineInv, TypeOK, InTime, KeyInTime
  <2>3. QED
    BY <1>2, <2>1, <2>2
<1>6. CASE ExecuteMiss(c, k) \/ ExecuteStale(c, k)
  BY <1>3, <1>6 DEF ExecuteMiss, ExecuteStale
<1>7. QED
  BY <1>4, <1>5, <1>6 DEF Execute

LEMMA CallerAnswers ==
  ASSUME EngineInv, NEW c \in Callers, CallerStep(c)
  PROVE  CacheStep
<1>a. /\ pc[c] # "idle" => key[c] \in Keys
      /\ seen \in [Callers -> Nat] /\ floor \in [Callers -> Nat]
      /\ served \in [Keys -> Nat] /\ stored \in [Keys -> Nat]
      /\ CallerInTime(c) /\ \A k \in Keys : KeyInTime(k)
  BY DEF EngineInv, TypeOK, InTime
<1>b. /\ 0 \in Published /\ seen[c] \in Published
      /\ \A k \in Keys : stored[k] \in Published
  BY DEF Published
<1>1. CASE SkipRefresh(c) \/ LaunchRefresh(c) \/ UndoMark(c)
  <2>1. /\ pc[c] \in StalePCs
        /\ Return(c, key[c], "stale", seen[c])
        /\ UNCHANGED <<stored, started, discarded, floor>>
    BY <1>1 DEF SkipRefresh, LaunchRefresh, UndoMark, ReturnSeen, Leaving,
       StalePCs, storeVars, callVars
  <2>2. seen[c] = 0 \/ seen[c] >= floor[c]
    BY <1>a, <2>1 DEF CallerInTime, HoldingPCs
  <2>3. pc[c] # "idle" /\ "stale" \in Statuses
    BY <2>1 DEF StalePCs, Statuses
  <2>4. QED
    BY <1>b, <2>1, <2>2, <2>3, ReturnAnswers
<1>2. CASE CallerCancel(c) \/ TakeResult(c)
  <2>1. pc[c] \in {"wait", "got"} /\ key[c] \in Keys
        /\ UNCHANGED <<stored, started, discarded, floor>>
    BY <1>a, <1>2 DEF CallerCancel, TakeResult, ResultError, ResultReread,
       ResultRebuild, Leaving, storeVars, callVars
  <2>2. PICK v \in Published, status \in Statuses :
          /\ Return(c, key[c], status, v)
          /\ v # 0 => \/ stored[key[c]] # 0 /\ v = stored[key[c]]
                      \/ v = seen[c] /\ pc[c] = "got"
    <3>1. CASE CallerCancel(c)
      BY <1>b, <3>1 DEF CallerCancel, Statuses
    <3>2. CASE ResultError(c)
      BY <1>b, <3>2 DEF ResultError, Statuses
    <3>3. CASE ResultReread(c)
      BY <1>b, <2>1, <3>3 DEF ResultReread, Statuses
    <3>4. CASE ResultRebuild(c)
      BY <1>b, <3>4 DEF ResultRebuild, Statuses
    <3>5. QED
      BY <1>2, <3>1, <3>2, <3>3, <3>4 DEF TakeResult
  <2>3. v = 0 \/ v >= floor[c]
    BY <1>a, <2>1, <2>2 DEF KeyInTime, CallerInTime, HoldingPCs
  <2>4. QED
    BY <2>1, <2>2, <2>3, ReturnAnswers
<1>3. CASE \/ DoChan(c) \/ CheckShutdown(c) \/ ProbeMarker(c) \/ TrySet(c)
           \/ OverLimit(c) \/ UndoCount(c)
  BY <1>3, Invisible DEF DoChan, CheckShutdown, ProbeMarker, TrySet, OverLimit,
     UndoCount, TryAsyncStay, Continue, storeVars, callVars
<1>4. QED
  BY <1>1, <1>2, <1>3 DEF CallerStep, TryAsyncRefresh

\* A flight fetches, publishes or withdraws.
LEMMA FlightPublishes ==
  ASSUME EngineInv, NEW k \in Keys, KeyStep(k)
  PROVE  CacheStep
<1>a. /\ started \in Nat /\ stored \in [Keys -> Nat]
      /\ FlightSeparate(k)
      /\ stage[k] = "store" => call[k] > stored[k]
      /\ \A j \in Keys : stored[j] \in Published
      /\ \A c \in Callers : reply[c].version \in Published
  BY DEF EngineInv, TypeOK, Calls, Separate, StoreBehindFlight, Published
<1>1. CASE StartCallback(k)
  BY <1>1 DEF StartCallback, callerVars, storeVars, CacheStep, Cache!Next,
     Cache!Fetch
<1>2. CASE Abandon(k) \/ ReceiveFails(k)
  <2>1. /\ stage[k] \in {"call", "ready"}
        /\ discarded' = discarded \union {call[k]}
        /\ UNCHANGED <<stored, started, key, floor, served, reply>>
    BY <1>2 DEF Abandon, ReceiveFails, FlightFails, FlightStep, callerVars,
       storeVars, callVars
  <2>2. call[k] \in (1..started) \ Published
    BY <1>a, <2>1 DEF FlightSeparate, Unanswered
  <2>3. Cache!Withdraw(call[k])
    BY <1>a, <2>1, <2>2 DEF Cache!Withdraw
  <2>4. QED
    BY <2>2, <2>3 DEF CacheStep, Cache!Next
<1>3. CASE Store(k)
  <2>1. /\ stage[k] = "store"
        /\ stored' = [stored EXCEPT ![k] = call[k]]
        /\ UNCHANGED <<started, discarded, key, floor, served, reply>>
    BY <1>3 DEF Store, FlightStep, callerVars, callVars
  <2>2. call[k] \in (1..started) \ discarded /\ call[k] > stored[k]
    BY <1>a, <2>1 DEF FlightSeparate, Delivering
  <2>3. Cache!Publish(k, call[k])
    BY <2>1, <2>2 DEF Cache!Publish, Cache!Usable
  <2>4. QED
    BY <2>2, <2>3 DEF CacheStep, Cache!Next
<1>4. CASE Evict(k)
  BY <1>4 DEF Evict, callerVars, callVars, CacheStep, Cache!Next, Cache!Drop
<1>5. CASE \/ Receive(k) \/ StoreFails(k) \/ Deadline(k) \/ Age(k)
           \/ MarkerExpire(k) \/ FlightEnd(k)
  BY <1>5, Invisible DEF Receive, StoreFails, FlightStep, Deadline, Age,
     MarkerExpire, FlightEnd, callerVars, storeVars, callVars
<1>6. QED
  BY <1>1, <1>2, <1>3, <1>4, <1>5 DEF KeyStep, SafeCall

\* The engine keeps the promise of the abstract cache: what it answers is never
\* older than what had been answered when the question came, what it stores only
\* gives way to newer answers, and a withdrawn call shows nowhere.  That holds
\* unless the storage.Get of syncRefresh fails.
THEOREM EngineIsCache ==
  ASSUME ~RereadMayFail
  PROVE  Spec => ImplementsCache
<1>1. Init => Cache!Init
  BY DEF Init, Cache!Init, NoReply
<1>2. EngineInv /\ [Next]_vars => [Cache!Next]_(Cache!cacheVars)
  <2> SUFFICES ASSUME EngineInv, [Next]_vars
               PROVE  CacheStep
    BY DEF CacheStep
  <2>1. CASE UNCHANGED vars \/ Done \/ Shutdown
             \/ (\E r \in Refreshers : RefresherWork(r))
             \/ (\E a \in running : CallReturn(a[1], a[2]))
    BY <2>1, Invisible DEF Done, Shutdown, ShutdownBegin, ShutdownTick,
       ShutdownTimeout, ShutdownStep, RefresherWork, RefresherDo,
       RefresherDelete, RefresherDec, RefresherStep, CallReturn, vars,
       callerVars, storeVars, callVars
  <2>2. QED
    BY <2>1, ExecuteAsks, CallerAnswers, FlightPublishes DEF Next
<1>3. Spec => []EngineInv
  BY Typing, StoreBehindFlightInvariant, InTimeInvariant, SeparateInvariant,
     IdleInvariant, PTL DEF EngineInv
<1>4. QED
  BY <1>1, <1>2, <1>3, PTL DEF Spec, ImplementsCache, Cache!Spec

-----------------------------------------------------------------------------
(* What the abstract cache is good for.                                    *)

\* The version of the last answer of each caller, as the abstract cache has it.
Answers == [c \in Callers |-> reply[c].version]

\* What its steps keep, whatever the engine's own variables do.
PromiseInv ==
  /\ stored \in [Keys -> Nat]
  /\ started \in Nat
  /\ discarded \subseteq 1..started
  /\ key \in [Callers -> Keys \union {NoKey}]
  /\ floor \in [Callers -> Nat]
  /\ served \in [Keys -> Nat]
  /\ Answers \in [Callers -> Nat]
  /\ \A k \in Keys : stored[k] \notin discarded
  /\ \A c \in Callers :
       /\ Answers[c] \notin discarded
       /\ Answers[c] # 0 => Answers[c] >= floor[c]

LEMMA PromiseStep ==
  ASSUME PromiseInv, [Cache!Next]_(Cache!cacheVars)
  PROVE  /\ PromiseInv'
         /\ \A k \in Keys : stored'[k] >= stored[k] \/ stored'[k] = 0
<1> DEFINE Goal == /\ PromiseInv'
                   /\ \A k \in Keys : stored'[k] >= stored[k] \/ stored'[k] = 0
<1> USE DEF PromiseInv
<1>1. CASE UNCHANGED Cache!cacheVars
  BY <1>1 DEF Cache!cacheVars, Answers
<1>2. CASE Cache!Fetch
  BY <1>2 DEF Cache!Fetch, Answers
<1>3. ASSUME NEW k \in Keys, Cache!Drop(k)
      PROVE  Goal
  BY <1>3 DEF Cache!Drop, Answers
<1>4. ASSUME NEW k \in Keys, NEW v \in 1..started, Cache!Publish(k, v)
      PROVE  Goal
  BY <1>4 DEF Cache!Publish, Cache!Usable, Answers
<1>5. ASSUME NEW v \in 1..started, Cache!Withdraw(v)
      PROVE  Goal
  BY <1>5 DEF Cache!Withdraw, Answers
<1>6. ASSUME NEW c \in Callers, NEW k \in Keys, Cache!Ask(c, k)
      PROVE  Goal
  <2>1. /\ floor' = [floor EXCEPT ![c] = served[k]]
        /\ key' = [key EXCEPT ![c] = k]
        /\ Answers' = [Answers EXCEPT ![c] = 0]
        /\ UNCHANGED <<stored, started, discarded, served>>
    BY <1>6 DEF Cache!Ask, Answers
  <2>2. QED BY <2>1
\* An answer about k, no older than the floor it is given.
<1>7. ASSUME NEW c \in Callers, NEW k \in Keys, NEW v \in 0..started,
             Cache!Gets(c, k, v), floor' \in [Callers -> Nat],
             v = 0 \/ v >= floor'[c],
             \A d \in Callers \ {c} : floor'[d] = floor[d]
      PROVE  Goal
  <2>1. /\ key' = [key EXCEPT ![c] = NoKey]
        /\ Answers' = [Answers EXCEPT ![c] = v]
        /\ served' = [served EXCEPT ![k] = IF v > served[k] THEN v
                                                            ELSE served[k]]
        /\ UNCHANGED <<stored, started, discarded>>
        /\ v \notin discarded
    BY <1>7 DEF Cache!Gets, Cache!Usable, Answers
  <2>2. served' \in [Keys -> Nat]
    BY <2>1
  <2>3. \A d \in Callers :
          /\ Answers'[d] \notin discarded
          /\ Answers'[d] # 0 => Answers'[d] >= floor'[d]
    BY <1>7, <2>1
  <2>4. QED BY <1>7, <2>1, <2>2, <2>3
<1>8. ASSUME NEW c \in Callers, NEW v \in 0..started, Cache!Answer(c, v)
      PROVE  Goal
  <2>1. key[c] \in Keys /\ Cache!Gets(c, key[c], v) /\ UNCHANGED floor
    BY <1>8 DEF Cache!Answer
  <2>2. v = 0 \/ v >= floor[c]
    BY <1>8 DEF Cache!Answer
  <2>3. QED BY <1>7, <2>1, <2>2
<1>9. ASSUME NEW c \in Callers, NEW k \in Keys, NEW v \in 0..started,
             Cache!AnswerAtOnce(c, k, v)
      PROVE  Goal
  <2>1. /\ Cache!Gets(c, k, v)
        /\ floor' = [floor EXCEPT ![c] = served[k]]
        /\ v = 0 \/ v >= served[k]
    BY <1>9 DEF Cache!AnswerAtOnce
  <2>2. QED BY <1>7, <2>1
<1>10. QED
  BY <1>1, <1>2, <1>3, <1>4, <1>5, <1>6, <1>8, <1>9 DEF Cache!Next

\* The abstract cache is strong enough to rely on: whatever implements it, by
\* the same mapping, answers nothing older than what had been answered before
\* the question, shows nothing that was withdrawn and stores nothing older.
THEOREM PromiseSuffices ==
  ImplementsCache => [](NoTimeTravel /\ NoDiscardedResult) /\ StoreNeverRegresses
<1>1. Cache!Init => PromiseInv
  BY DEF Cache!Init, PromiseInv, Answers
<1>2. PromiseInv /\ [Cache!Next]_(Cache!cacheVars) => PromiseInv'
  BY PromiseStep
<1>3. PromiseInv /\ [Cache!Next]_(Cache!cacheVars)
        => [\A k \in Keys : stored'[k] >= stored[k] \/ stored'[k] = 0]_vars
  BY PromiseStep
<1>4. PromiseInv => NoTimeTravel /\ NoDiscardedResult
  BY DEF PromiseInv, Answers, NoTimeTravel, NoDiscardedResult
<1>5. QED
  BY <1>1, <1>2, <1>3, <1>4, PTL
     DEF ImplementsCache, Cache!Spec, StoreNeverRegresses

=============================================================================
