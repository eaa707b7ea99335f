-------------------------- MODULE HalfOpenRequests --------------------------
(***************************************************************************)
(* CircuitBreaker with a history variable: which requests canExecute has   *)
(* let pass as requests of half-open, whether or not they then took a      *)
(* place in halfOpenRequests.  Execute reads the state a second time to    *)
(* decide that, and anything may have happened to it in between.           *)
(***************************************************************************)
EXTENDS CircuitBreaker

VARIABLE trial  \* trial[r]: r was let pass in half-open, and has not returned

trialVars == <<vars, trial>>

TrialInit ==
  /\ Init
  /\ trial = [r \in Requests |-> FALSE]

\* canExecute finds the state half-open, or makes it so.
LetPass(r) ==
  \/ pc[r] = "idle" /\ pc'[r] = "key" /\ phase = "halfopen"
  \/ pc[r] = "since" /\ pc'[r] = "clear"

TrialNext ==
  /\ Next
  /\ trial' = [r \in Requests |->
                 pc'[r] # "idle" /\ (trial[r] \/ LetPass(r))]

TrialSpec == TrialInit /\ [][TrialNext]_trialVars

\* "Max concurrent requests in half-open state" (CircuitBreakerConfig): of the
\* requests that were let pass as such, no more than that many use the engine
\* at a time while the breaker is half-open.
HalfOpenLimit ==
  phase = "halfopen" =>
    Cardinality({r \in Requests : trial[r] /\ pc[r] = "run"})
      =< MaxHalfOpenReqs

=============================================================================
