------------------------------ MODULE CacheTTL ------------------------------
(***************************************************************************)
(* The durations of a cache entry: how the configuration of the engine, a  *)
(* TTL override or a TTL calculator, and NewCacheEntryWithTTL make them.   *)
(*                                                                         *)
(* A duration is a number of units of time (nanoseconds in the code), and  *)
(* Seconds(n) is time.Duration(n) * time.Second in a signed integer of     *)
(* Width values, which is where a large number of seconds wraps around.    *)
(*                                                                         *)
(* An operator commented "Variant" is a faulty form of the definition that *)
(* follows it; nothing uses it but the checks that a property can fail.    *)
(***************************************************************************)
EXTENDS Integers

CONSTANTS
  Width,     \* 2^64: the values of a duration
  Second,    \* time.Second
  Minute,    \* time.Minute
  MinTTL,    \* the minimum of a total TTL: 5 seconds
  NilTTLs,   \* what ToEngineTTLs returns for no override at all
  LegacyTTL,    \* DefaultTTL when it is not set: 15 days
  LegacyOffset  \* DefaultStaleOffset when it is not set: 60 seconds

\* A lifetime: how long an entry is kept in total, and fresh.
LifetimeOf(n) == [total : n, fresh : n]

ASSUME DurationAssumption ==
  /\ Width \in Nat \ {0}
  /\ Second \in Nat \ {0}
  /\ Minute \in Nat
  /\ MinTTL \in Nat
  /\ Second =< MinTTL
  /\ NilTTLs \in LifetimeOf(Nat)
  /\ NilTTLs.fresh =< NilTTLs.total
  /\ MinTTL =< NilTTLs.total
  /\ LegacyTTL \in Int
  /\ LegacyOffset \in Int

\* The fields of a CacheTTL, in seconds.
CacheTTLs(n) == [fresh : n, stale : n, expired : n]

\* No CacheTTL.
NoTTL == [none |-> TRUE]

Wrap(x) == ((x + Width \div 2) % Width) - (Width \div 2)

Seconds(n) == Wrap(n * Second)

AtLeast(x, low) == IF x < low THEN low ELSE x
AtMost(x, high) == IF x > high THEN high ELSE x

SumOf(c) == c.fresh + c.stale + c.expired

\* ToEngineTTLs
ToEngineTTLs(c) ==
  IF c = NoTTL THEN NilTTLs
  ELSE LET total == AtLeast(Seconds(SumOf(c)), MinTTL) IN
       [total |-> total,
        fresh |-> AtMost(AtLeast(Seconds(c.fresh), 0), total)]

\* EngineConfig.SetDefaults with a DefaultCacheTTL: the calculator it installs
\* has the sums as they are.
ConfigTTLs(c) == [total |-> Seconds(SumOf(c)), fresh |-> Seconds(c.fresh)]

\* SetDefaults without one: DefaultTTL and DefaultStaleOffset, each with its own
\* default, so that the offset may be more than the total.
LegacyTTLs(ttl, offset) ==
  LET total == IF ttl = 0 THEN LegacyTTL ELSE ttl
      stale == IF offset = 0 THEN LegacyOffset ELSE offset
  IN [total |-> total, fresh |-> Wrap(total - stale)]

\* Variant: a negative fresh duration is only moved a minute from the end.
EntryTTLsOnce(t) ==
  LET total == AtLeast(t.total, MinTTL) IN
  [total |-> total,
   fresh |-> AtMost(IF t.fresh < 0 THEN total - Minute ELSE t.fresh, total)]

\* NewCacheEntryWithTTL: the minimum, then a negative fresh duration becomes
\* all but the last minute or, when that is nothing, one second.
EntryTTLs(t) ==
  LET total == AtLeast(t.total, MinTTL)
      early == IF t.fresh < 0 THEN total - Minute ELSE t.fresh
      fresh == IF early < 0 THEN Second ELSE early
  IN [total |-> total, fresh |-> AtMost(fresh, total)]

\* safeCall: the override of the key, or what the TTL calculator answered.
ChosenTTLs(override, calculated) ==
  EntryTTLs(IF override = NoTTL THEN calculated ELSE ToEngineTTLs(override))

\* safeCall's timeout of storage.Set, in milliseconds: 200 more for every KiB,
\* within what refreshTimeout leaves and what remains of it.
StoreTimeout(refreshTimeout, size, remaining) ==
  LET base  == AtMost(800, refreshTimeout)
      extra == IF size > 1024 /\ refreshTimeout - base > 0
               THEN AtMost((size \div 1024) * 200, refreshTimeout - base)
               ELSE 0
  IN AtMost(base + extra, remaining)

=============================================================================
