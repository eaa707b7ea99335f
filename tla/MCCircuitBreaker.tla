-------------------------- MODULE MCCircuitBreaker --------------------------
(***************************************************************************)
(* CircuitBreaker for TLC.                                                 *)
(***************************************************************************)
EXTENDS CircuitBreaker, TLC

\* Requests are interchangeable.
Symmetry == Permutations(Requests)

=============================================================================
