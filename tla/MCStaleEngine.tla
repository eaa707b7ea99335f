--------------------------- MODULE MCStaleEngine ---------------------------
(***************************************************************************)
(* StaleEngine on small instances.  Callers and refresh goroutines are     *)
(* interchangeable, and so are keys.                                       *)
(***************************************************************************)
EXTENDS StaleEngine, TLC

Symmetry ==
  Permutations(Callers) \union Permutations(Refreshers)
    \union Permutations(Keys)

=============================================================================
