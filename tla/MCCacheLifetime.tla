-------------------------- MODULE MCCacheLifetime --------------------------
(* A small instance of CacheLifetime for TLC: a second is two units of time *)
(* and a duration has 64 values.                                            *)
EXTENDS CacheLifetime

SmallNilTTLs == [total |-> 5, fresh |-> 1]

\* None, one never fresh and one that wraps around, to below the minimum.
SmallOverrides ==
  {NoTTL,
   [fresh |-> 0, stale |-> 1, expired |-> 2],
   [fresh |-> 20, stale |-> 0, expired |-> 0]}

\* Bound: the clock is set back only while no entry is followed.
SetBackAlone ==
  setBacks > 0 => stored = NoEntry /\ \A p \in Procs : draft[p] = NoEntry

\* The calculators of two configurations with a negative fresh duration: one has
\* it in its CacheTTL, one sets a DefaultTTL below the default offset.
SmallCalculated ==
  {ConfigTTLs([fresh |-> -1, stale |-> 2, expired |-> 1]), LegacyTTLs(5, 0)}

=============================================================================
