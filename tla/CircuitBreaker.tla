--------------------------- MODULE CircuitBreaker ---------------------------
(***************************************************************************)
(* The global breaker of circuit_breaker.go: Execute, canExecute,          *)
(* recordFailure, recordSuccess and Reset, with one action per access to   *)
(* an atomic.  The breakers of single keys share no variable with it and   *)
(* are the module KeyBreakers; here canExecuteKey may refuse any request.  *)
(*                                                                         *)
(* A point in time is an AGE: how many units ago it was, up to Timeout + 1 *)
(* units, which stand for any longer time: only time.Since(t) > timeout is *)
(* ever asked.  Tick makes every age grow.                                 *)
(*                                                                         *)
(* An operator commented "Variant" is a faulty form of the definition that *)
(* follows it; nothing uses it but the checks that a property can fail.    *)
(***************************************************************************)
EXTENDS Integers, FiniteSets

CONSTANTS
  Requests,          \* goroutines that call Execute, again and again
  FailureThreshold,  \* failures before the breaker opens
  SuccessThreshold,  \* successes in half-open before it closes
  MaxHalfOpenReqs,   \* requests at a time in half-open
  Timeout,           \* how long the breaker stays open
  MaxResets          \* bound: calls of Reset

ASSUME RequestAssumption == IsFiniteSet(Requests)
ASSUME ConfigAssumption ==
  /\ FailureThreshold \in Nat \ {0}
  /\ SuccessThreshold \in Nat \ {0}
  /\ MaxHalfOpenReqs \in Nat \ {0}
  /\ Timeout \in Nat
  /\ MaxResets \in Nat

VARIABLES
  phase,      \* state
  failures,
  successes,
  lastAge,    \* age of lastFailureTime
  halfOpen,   \* halfOpenRequests
  pc,         \* pc[r]: where request r is in Execute
  got,        \* got[r]: what recordFailure's failures.Add(1) returned to r
  age,        \* age[r]: age of the time r has read and not yet used
  slot,       \* slot[r]: the deferred halfOpenRequests.Add(-1) is pending
  resetter,   \* where the goroutine that calls Reset is in it
  resets      \* calls of Reset so far

atomics     == <<phase, failures, successes, lastAge, halfOpen>>
requestVars == <<pc, got, age, slot>>
outside     == <<resetter, resets>>
vars        == <<atomics, requestVars, outside>>

Phases   == {"closed", "open", "halfopen"}
PCs      == {"idle", "last", "since", "clear", "key", "track", "add", "undo",
             "run", "failed", "stamp", "judge", "trip", "reopen", "zero",
             "succeeded", "praise", "close", "closed", "cleared", "leave"}
ResetPCs == {"no", "failures", "successes", "halfopen"}
Old      == Timeout + 1
Ages     == 0..Old

\* NewCircuitBreaker: the zero value of every atomic.
Init ==
  /\ phase = "closed"
  /\ failures = 0
  /\ successes = 0
  /\ lastAge = Old
  /\ halfOpen = 0
  /\ pc = [r \in Requests |-> "idle"]
  /\ got = [r \in Requests |-> 0]
  /\ age = [r \in Requests |-> Old]
  /\ slot = [r \in Requests |-> FALSE]
  /\ resetter = "no"
  /\ resets = 0

Goto(r, from, to) ==
  /\ pc[r] = from
  /\ pc' = [pc EXCEPT ![r] = to]

-----------------------------------------------------------------------------
(* canExecute.                                                             *)

\* The state is read; closed and half-open let the request pass.
CanExecute(r) ==
  /\ phase # "open"
  /\ Goto(r, "idle", "key")
  /\ UNCHANGED <<atomics, got, age, slot, outside>>

\* An open breaker looks at the time of the last failure.
CanExecuteOpen(r) ==
  /\ phase = "open"
  /\ Goto(r, "idle", "last")
  /\ UNCHANGED <<atomics, got, age, slot, outside>>

LoadLastFailure(r) ==
  /\ Goto(r, "last", "since")
  /\ age' = [age EXCEPT ![r] = lastAge]
  /\ UNCHANGED <<atomics, got, slot, outside>>

\* timeout has not passed since then: ErrCircuitOpen.
RefuseOpen(r) ==
  /\ age[r] =< Timeout
  /\ Goto(r, "since", "idle")
  /\ age' = [age EXCEPT ![r] = Old]
  /\ UNCHANGED <<atomics, got, slot, outside>>

\* It has: setState(CircuitHalfOpen), whatever the state is by now...
TryHalfOpen(r) ==
  /\ age[r] > Timeout
  /\ Goto(r, "since", "clear")
  /\ phase' = "halfopen"
  /\ UNCHANGED <<failures, successes, lastAge, halfOpen, got, age, slot,
                 outside>>

\* ...and successes.Store(0).
ClearSuccesses(r) ==
  /\ Goto(r, "clear", "key")
  /\ successes' = 0
  /\ UNCHANGED <<phase, failures, lastAge, halfOpen, got, age, slot, outside>>

-----------------------------------------------------------------------------
(* Execute: the breaker of the key, and the limit of half-open.            *)

KeyRefuses(r) ==
  /\ Goto(r, "key", "idle")
  /\ UNCHANGED <<atomics, got, age, slot, outside>>

KeyAllows(r) ==
  /\ Goto(r, "key", "track")
  /\ UNCHANGED <<atomics, got, age, slot, outside>>

\* The state is read again: only half-open requests are counted.
Track(r) ==
  /\ Goto(r, "track", IF phase = "halfopen" THEN "add" ELSE "run")
  /\ UNCHANGED <<atomics, got, age, slot, outside>>

\* Variant: the count before the Add is compared.
AddSlotOldCount(r) ==
  /\ halfOpen' = halfOpen + 1
  /\ Goto(r, "add", IF halfOpen =< MaxHalfOpenReqs THEN "run" ELSE "undo")
  /\ slot' = [slot EXCEPT ![r] = halfOpen =< MaxHalfOpenReqs]
  /\ UNCHANGED <<phase, failures, successes, lastAge, got, age, outside>>

\* halfOpenRequests.Add(1), compared with the limit.
AddSlot(r) ==
  /\ halfOpen' = halfOpen + 1
  /\ Goto(r, "add", IF halfOpen + 1 =< MaxHalfOpenReqs THEN "run" ELSE "undo")
  /\ slot' = [slot EXCEPT ![r] = halfOpen + 1 =< MaxHalfOpenReqs]
  /\ UNCHANGED <<phase, failures, successes, lastAge, got, age, outside>>

\* Variant: the refused request does not take its Add back.
UndoSlotForgotten(r) ==
  /\ Goto(r, "undo", "idle")
  /\ UNCHANGED <<atomics, got, age, slot, outside>>

\* Over the limit: halfOpenRequests.Add(-1) and ErrCircuitOpen.
UndoSlot(r) ==
  /\ Goto(r, "undo", "idle")
  /\ halfOpen' = halfOpen - 1
  /\ UNCHANGED <<phase, failures, successes, lastAge, got, age, slot, outside>>

\* engine.Execute returns an error, or an entry.
EngineFails(r) ==
  /\ Goto(r, "run", "failed")
  /\ UNCHANGED <<atomics, got, age, slot, outside>>

EngineSucceeds(r) ==
  /\ Goto(r, "run", "succeeded")
  /\ UNCHANGED <<atomics, got, age, slot, outside>>

\* Variant: a request that was let into half-open keeps its place.
LeaveKeepsSlot(r) ==
  /\ Goto(r, "leave", "idle")
  /\ slot' = [slot EXCEPT ![r] = FALSE]
  /\ UNCHANGED <<atomics, got, age, outside>>

\* Execute returns, and runs its deferred halfOpenRequests.Add(-1) if any.
Leave(r) ==
  /\ Goto(r, "leave", "idle")
  /\ halfOpen' = IF slot[r] THEN halfOpen - 1 ELSE halfOpen
  /\ slot' = [slot EXCEPT ![r] = FALSE]
  /\ UNCHANGED <<phase, failures, successes, lastAge, got, age, outside>>

-----------------------------------------------------------------------------
(* recordFailure.                                                          *)

\* failures.Add(1); time.Now() is read at some point after it.
CountFailure(r) ==
  /\ Goto(r, "failed", "stamp")
  /\ failures' = failures + 1
  /\ got' = [got EXCEPT ![r] = failures + 1]
  /\ age' = [age EXCEPT ![r] = 0]
  /\ UNCHANGED <<phase, successes, lastAge, halfOpen, slot, outside>>

\* lastFailureTime.Store, of a time read between the last step and this one.
StampFailure(r) ==
  /\ Goto(r, "stamp", "judge")
  /\ lastAge' \in 0..age[r]
  /\ age' = [age EXCEPT ![r] = Old]
  /\ UNCHANGED <<phase, failures, successes, halfOpen, got, slot, outside>>

\* The state is read, and decides with the count what the failure means.
JudgeFailure(r) ==
  /\ Goto(r, "judge",
          CASE phase = "closed" /\ got[r] >= FailureThreshold -> "trip"
            [] phase = "halfopen" -> "reopen"
            [] OTHER -> "leave")
  /\ got' = [got EXCEPT ![r] = 0]
  /\ UNCHANGED <<atomics, age, slot, outside>>

\* setState(CircuitOpen): from half-open, failures.Store(0) follows.
SetOpen(r, from, to) ==
  /\ Goto(r, from, to)
  /\ phase' = "open"
  /\ UNCHANGED <<failures, successes, lastAge, halfOpen, got, age, slot,
                 outside>>

Trip(r) == SetOpen(r, "trip", "leave")

\* Variant: the state stays half-open.
ReopenForgotten(r) ==
  /\ Goto(r, "reopen", "zero")
  /\ UNCHANGED <<atomics, got, age, slot, outside>>

Reopen(r) == SetOpen(r, "reopen", "zero")

\* Variant: one failure is taken back instead.
ForgiveFailure(r) ==
  /\ Goto(r, "zero", "leave")
  /\ failures' = failures - 1
  /\ UNCHANGED <<phase, successes, lastAge, halfOpen, got, age, slot, outside>>

\* failures.Store(0): the last step of a failure in half-open, and of a
\* success in the closed state.
ZeroFailures(r) ==
  /\ Goto(r, "zero", "leave")
  /\ failures' = 0
  /\ UNCHANGED <<phase, successes, lastAge, halfOpen, got, age, slot, outside>>

-----------------------------------------------------------------------------
(* recordSuccess.                                                          *)

\* The state is read.
JudgeSuccess(r) ==
  /\ Goto(r, "succeeded", CASE phase = "halfopen" -> "praise"
                            [] phase = "closed" -> "zero"
                            [] OTHER -> "leave")
  /\ UNCHANGED <<atomics, got, age, slot, outside>>

\* successes.Add(1), compared with the threshold.
CountSuccess(r) ==
  /\ successes' = successes + 1
  /\ Goto(r, "praise",
          IF successes + 1 >= SuccessThreshold THEN "close" ELSE "leave")
  /\ UNCHANGED <<phase, failures, lastAge, halfOpen, got, age, slot, outside>>

\* setState(CircuitClosed), failures.Store(0), successes.Store(0).
Close(r) ==
  /\ Goto(r, "close", "closed")
  /\ phase' = "closed"
  /\ UNCHANGED <<failures, successes, lastAge, halfOpen, got, age, slot,
                 outside>>

ClosedFailures(r) ==
  /\ Goto(r, "closed", "cleared")
  /\ failures' = 0
  /\ UNCHANGED <<phase, successes, lastAge, halfOpen, got, age, slot, outside>>

ClosedSuccesses(r) ==
  /\ Goto(r, "cleared", "leave")
  /\ successes' = 0
  /\ UNCHANGED <<phase, failures, lastAge, halfOpen, got, age, slot, outside>>

-----------------------------------------------------------------------------
(* Reset, one store after the other; the breakers of keys come after.      *)

ResetStep(from, to) ==
  /\ resetter = from
  /\ resetter' = to
  /\ UNCHANGED <<lastAge, requestVars>>

ResetPhase ==
  /\ resets < MaxResets
  /\ resets' = resets + 1
  /\ phase' = "closed"
  /\ ResetStep("no", "failures")
  /\ UNCHANGED <<failures, successes, halfOpen>>

ResetFailures ==
  /\ failures' = 0
  /\ ResetStep("failures", "successes")
  /\ UNCHANGED <<phase, successes, halfOpen, resets>>

ResetSuccesses ==
  /\ successes' = 0
  /\ ResetStep("successes", "halfopen")
  /\ UNCHANGED <<phase, failures, halfOpen, resets>>

ResetHalfOpen ==
  /\ halfOpen' = 0
  /\ ResetStep("halfopen", "no")
  /\ UNCHANGED <<phase, failures, successes, resets>>

-----------------------------------------------------------------------------
(* The environment.                                                        *)

Older(a) == IF a < Old THEN a + 1 ELSE Old

\* A unit of time passes.
Tick ==
  /\ lastAge # Old \/ \E r \in Requests : age[r] # Old
  /\ lastAge' = Older(lastAge)
  /\ age' = [r \in Requests |-> Older(age[r])]
  /\ UNCHANGED <<phase, failures, successes, halfOpen, pc, got, slot, outside>>

Start(r) == CanExecute(r) \/ CanExecuteOpen(r)

\* What a request that has started does on its own.
Proceed(r) ==
  \/ LoadLastFailure(r) \/ RefuseOpen(r) \/ TryHalfOpen(r) \/ ClearSuccesses(r)
  \/ KeyRefuses(r) \/ KeyAllows(r) \/ Track(r) \/ AddSlot(r) \/ UndoSlot(r)
  \/ EngineFails(r) \/ EngineSucceeds(r) \/ Leave(r)
  \/ CountFailure(r) \/ StampFailure(r) \/ JudgeFailure(r) \/ Trip(r)
  \/ Reopen(r) \/ ZeroFailures(r)
  \/ JudgeSuccess(r) \/ CountSuccess(r) \/ Close(r) \/ ClosedFailures(r)
  \/ ClosedSuccesses(r)

ResetGoesOn == ResetFailures \/ ResetSuccesses \/ ResetHalfOpen

Next ==
  \/ \E r \in Requests : Start(r) \/ Proceed(r)
  \/ ResetPhase
  \/ ResetGoesOn
  \/ Tick

Spec == Init /\ [][Next]_vars

\* Requests keep coming, and they, Reset and time go on.  The breaker of a key
\* does not refuse for ever: it lets a request through after timeout.
Fairness ==
  /\ \A r \in Requests :
       WF_vars(Start(r)) /\ WF_vars(Proceed(r)) /\ SF_vars(KeyAllows(r))
  /\ WF_vars(ResetGoesOn)
  /\ WF_vars(Tick)

FairSpec == Spec /\ Fairness

-----------------------------------------------------------------------------
(* Properties.                                                             *)

\* The state is one of the three, so that canExecute never meets its default
\* case, the counts of failures and successes are never negative, and every
\* goroutine is at a known step.
TypeOK ==
  /\ phase \in Phases
  /\ failures \in Nat
  /\ successes \in Nat
  /\ lastAge \in Ages
  /\ halfOpen \in Int
  /\ pc \in [Requests -> PCs]
  /\ got \in [Requests -> Nat]
  /\ age \in [Requests -> Ages]
  /\ slot \in [Requests -> BOOLEAN]
  /\ resetter \in ResetPCs
  /\ resets \in Nat

Slots   == {r \in Requests : slot[r]}
Undoing == {r \in Requests : pc[r] = "undo"}

\* Until somebody calls Reset, halfOpenRequests is exactly the requests that
\* hold a place in it and have not returned, plus the refused ones that have
\* not taken their Add back, whatever the state has become in the meantime.
SlotsExact ==
  resets = 0 => halfOpen = Cardinality(Slots) + Cardinality(Undoing)

\* Until somebody calls Reset, no more than MaxHalfOpenReqs requests hold a
\* place in halfOpenRequests, although every request adds to the counter before
\* it looks at it.  This bounds the places, not the requests of half-open: one
\* that reads the state as half-open in canExecute and as another when Execute
\* reads it again runs without a place (see HalfOpenRequests).
PlacesBounded == resets = 0 => Cardinality(Slots) =< MaxHalfOpenReqs

\* "Max concurrent requests in half-open state" (CircuitBreakerConfig), of the
\* requests that hold a place, and whether or not Reset is called.
PlacesLimit == phase = "halfopen" => Cardinality(Slots) =< MaxHalfOpenReqs

\* Now and then no request is under way.
Lulls == []<>(\A r \in Requests : pc[r] = "idle")

\* Once the upstream always answers, the breaker closes and stays closed,
\* whatever late stores of earlier decisions still come, Reset's among them.
\* Without lulls, requests could keep each other out of half-open, each over
\* the limit by another's Add.
Recovers ==
  Lulls /\ <>[][\A r \in Requests : ~EngineFails(r)]_vars =>
    <>[](phase = "closed")

\* While the upstream is down the breaker opens again and again: no order of
\* late successes and stores keeps it shut, or half-open, for ever.
Trips ==
  Lulls /\ <>[][\A r \in Requests : ~EngineSucceeds(r)]_vars =>
    []<>(phase = "open")

=============================================================================
