---------------------------- MODULE RefreshLease ----------------------------
(***************************************************************************)
(* What the engine expects of its refresh tracker: a lease per key, which  *)
(* one worker is granted at a time and which ends when it is released or   *)
(* when it has lasted TTL units of time.  There are no shards, no map and  *)
(* no cleanup goroutine here: the module RefreshTracker implements it.     *)
(***************************************************************************)
EXTENDS Integers

CONSTANTS
  Keys, NoKey,
  Workers,    \* goroutines that refresh keys
  TTL         \* how long a lease lasts

VARIABLES
  lease,      \* lease[k]: how much longer k is leased; 0 when it is free
  held        \* held[w]: the key w was granted and has not released yet

leaseVars == <<lease, held>>

Init ==
  /\ lease = [k \in Keys |-> 0]
  /\ held = [w \in Workers |-> NoKey]

\* A free key is leased for the whole TTL; any other request is refused.
Grant(w, k) ==
  /\ held[w] = NoKey
  /\ lease[k] = 0
  /\ lease' = [lease EXCEPT ![k] = TTL]
  /\ held' = [held EXCEPT ![w] = k]

\* Releasing ends the lease of the key, even a later one of another worker.
Release(w) ==
  /\ held[w] # NoKey
  /\ lease' = [lease EXCEPT ![held[w]] = 0]
  /\ held' = [held EXCEPT ![w] = NoKey]

Pass ==
  /\ lease' = [k \in Keys |-> IF lease[k] > 0 THEN lease[k] - 1 ELSE 0]
  /\ UNCHANGED held

Next ==
  \/ \E w \in Workers, k \in Keys : Grant(w, k)
  \/ \E w \in Workers : Release(w)
  \/ Pass

Spec == Init /\ [][Next]_leaseVars

=============================================================================
