-------------------------- MODULE MCRefreshTracker --------------------------
(* A small instance of RefreshTracker for TLC: two keys in two shards.      *)
EXTENDS RefreshTracker

CONSTANTS k1, k2

TwoShards == [k \in {k1, k2} |-> IF k = k1 THEN 0 ELSE 1]

=============================================================================
