--------------------------- MODULE CacheTTLProofs ---------------------------
(***************************************************************************)
(* What the conversions of CacheTTL yield for every configuration, the     *)
(* negative and the overflowing ones included.                             *)
(***************************************************************************)
EXTENDS CacheTTL, TLAPS

\* A lifetime the engine can work with: at least the minimum in total, and
\* fresh for no more than that.
Ordered(life) ==
  /\ life.total \in Int
  /\ life.total >= MinTTL
  /\ life.fresh \in 0..life.total

LEMMA SecondsInt == \A n \in Int : Seconds(n) \in Int
<1>1. ASSUME NEW x \in Int PROVE Wrap(x) \in Int
  BY DurationAssumption DEF Wrap
<1>2. ASSUME NEW n \in Int PROVE n * Second \in Int
  BY DurationAssumption
<1>3. QED
  BY <1>1, <1>2 DEF Seconds

\* Whatever the seconds of an override, and however their products wrap around,
\* ToEngineTTLs yields an ordered lifetime.
THEOREM EngineTTLsOrdered ==
  \A c \in CacheTTLs(Int) \union {NoTTL} : Ordered(ToEngineTTLs(c))
<1>1. ASSUME NEW c \in CacheTTLs(Int) \union {NoTTL}
      PROVE  Ordered(ToEngineTTLs(c))
  <2>1. CASE c = NoTTL
    BY <2>1, DurationAssumption DEF ToEngineTTLs, Ordered, LifetimeOf
  <2>2. CASE c # NoTTL
    <3>1. c.fresh \in Int /\ SumOf(c) \in Int
      BY <2>2 DEF CacheTTLs, SumOf
    <3>2. PICK s \in Int, f \in Int : s = Seconds(SumOf(c)) /\ f = Seconds(c.fresh)
      BY <3>1, SecondsInt
    <3>3. ToEngineTTLs(c) =
            [total |-> AtLeast(s, MinTTL),
             fresh |-> AtMost(AtLeast(f, 0), AtLeast(s, MinTTL))]
      BY <2>2, <3>2 DEF ToEngineTTLs
    <3>4. QED
      BY <3>3, DurationAssumption DEF Ordered, AtLeast, AtMost
  <2>3. QED
    BY <2>1, <2>2
<1>2. QED
  BY <1>1

\* NewCacheEntryWithTTL makes an ordered lifetime of any two durations, also of
\* a negative fresh one and a total shorter than a minute.
THEOREM EntryTTLsOrdered ==
  \A t \in LifetimeOf(Int) : Ordered(EntryTTLs(t))
  BY DurationAssumption DEF LifetimeOf, EntryTTLs, Ordered, AtLeast, AtMost

\* What safeCall gives an entry is ordered, wherever it has it from.
THEOREM ChosenTTLsOrdered ==
  ASSUME NEW override \in CacheTTLs(Int) \union {NoTTL},
         NEW calculated \in LifetimeOf(Int)
  PROVE  Ordered(ChosenTTLs(override, calculated))
<1>1. CASE override = NoTTL
  BY <1>1, EntryTTLsOrdered DEF ChosenTTLs
<1>2. CASE override # NoTTL
  <2>1. ToEngineTTLs(override) \in LifetimeOf(Int)
    <3>1. Ordered(ToEngineTTLs(override))
      BY EngineTTLsOrdered
    <3>2. \E s, f : ToEngineTTLs(override) = [total |-> s, fresh |-> f]
      BY <1>2 DEF ToEngineTTLs
    <3>3. QED
      BY <3>1, <3>2 DEF Ordered, LifetimeOf
  <2>2. QED
    BY <1>2, <2>1, EntryTTLsOrdered DEF ChosenTTLs
<1>3. QED
  BY <1>1, <1>2

\* NewCacheEntryWithTTL does not change what an override was turned into: the
\* two clamp in the same way.
THEOREM OverrideKept ==
  \A t \in LifetimeOf(Int) : Ordered(t) => EntryTTLs(t) = t
  BY DurationAssumption DEF LifetimeOf, EntryTTLs, Ordered, AtLeast, AtMost

\* Without a negative field and without overflow an entry lives equally long
\* whether its CacheTTL is the default of the engine or the override of its key.
THEOREM RoutesAgree ==
  ASSUME NEW c \in CacheTTLs(Nat),
         SumOf(c) * Second < Width \div 2
  PROVE  EntryTTLs(ConfigTTLs(c)) = EntryTTLs(ToEngineTTLs(c))
<1>1. c.fresh \in Nat /\ SumOf(c) \in Nat /\ c.fresh =< SumOf(c) /\ c # NoTTL
  BY DEF CacheTTLs, SumOf, NoTTL
<1>2. PICK s \in Nat, f \in Nat :
        s = Seconds(SumOf(c)) /\ f = Seconds(c.fresh)
  <2>1. ASSUME NEW x \in Nat, x < Width \div 2
        PROVE  Wrap(x) = x
    BY <2>1, DurationAssumption DEF Wrap
  <2>2. SumOf(c) * Second \in Nat /\ c.fresh * Second \in Nat
        /\ c.fresh * Second =< SumOf(c) * Second
    BY <1>1, DurationAssumption
  <2>3. c.fresh * Second < Width \div 2
    BY <2>2, DurationAssumption
  <2>4. QED
    BY <2>1, <2>2, <2>3 DEF Seconds
<1>3. /\ ConfigTTLs(c) = [total |-> s, fresh |-> f]
      /\ ToEngineTTLs(c) =
           [total |-> AtLeast(s, MinTTL),
            fresh |-> AtMost(AtLeast(f, 0), AtLeast(s, MinTTL))]
  BY <1>1, <1>2 DEF ConfigTTLs, ToEngineTTLs
<1>4. QED
  BY <1>3, DurationAssumption DEF EntryTTLs, AtLeast, AtMost

\* The timeout of storage.Set never exceeds the refresh timeout nor what is left
\* of it, whatever the size of the value.
THEOREM StoreTimeoutBounded ==
  ASSUME NEW refreshTimeout \in Nat, NEW size \in Nat, NEW remaining \in Nat
  PROVE  /\ StoreTimeout(refreshTimeout, size, remaining) \in 0..remaining
         /\ StoreTimeout(refreshTimeout, size, remaining) =< refreshTimeout
<1>1. PICK k \in Nat : k = size \div 1024
  OBVIOUS
<1>2. QED
  BY <1>1 DEF StoreTimeout, AtMost

=============================================================================
