------------------------ MODULE CacheLifetimeProofs ------------------------
(***************************************************************************)
(* What CacheLifetime keeps for every number of goroutines, every interval *)
(* and grace period, and every configuration.                              *)
(***************************************************************************)
EXTENDS CacheLifetime, CacheTTLProofs

-----------------------------------------------------------------------------
(* The clock.                                                              *)

\* Where the wall clock has been, and what of it the cached time and the
\* goroutines inside NowUnixMilli still hold.
ClockInv ==
  /\ wall \in 1..MaxTime
  /\ peak \in wall..MaxTime
  /\ setBacks \in 0..SetBacks
  /\ setBacks = 0 => peak = wall
  /\ cached \in 0..peak
  /\ pc \in [Procs -> {"idle", "load", "read", "cas", "told"}]
  /\ last \in [Procs -> 0..peak]
  /\ now \in [Procs -> 0..peak]
  /\ low \in [Procs -> 0..MaxTime]
  /\ \A p \in Procs : pc[p] \in {"read", "cas", "told"} => low[p] \in 1..wall
  /\ \A p \in Procs : pc[p] = "cas" => now[p] >= low[p]
  /\ \A p \in Procs : pc[p] = "told" => now[p] > 0 /\ now[p] >= low[p] - Interval

LEMMA ClockInit == Init => ClockInv
  BY TimeAssumption DEF Init, ClockInv

LEMMA LoadKeepsClock ==
  ASSUME ClockInv, NEW p \in Procs, Load(p)
  PROVE  ClockInv'
  BY TimeAssumption DEF ClockInv, Load, clockVars

LEMMA TellKeepsClock ==
  ASSUME ClockInv, NEW p \in Procs,
         UseCached(p) \/ UpdateCached(p)
  PROVE  ClockInv'
<1>1. PICK t \in 1..peak :
        /\ Tell(p, t)
        /\ low[p] \in 1..wall
        /\ t >= low[p] - Interval
        /\ cached' \in 0..peak
  <2>1. CASE UseCached(p)
    BY <2>1, TimeAssumption DEF ClockInv, UseCached, Recent
  <2>2. CASE UpdateCached(p)
    BY <2>2, TimeAssumption DEF ClockInv, UpdateCached, Swap
  <2>3. QED
    BY <2>1, <2>2
<1>2. QED
  BY <1>1, TimeAssumption DEF ClockInv, Tell, clockVars

LEMMA ReadWallKeepsClock ==
  ASSUME ClockInv, NEW p \in Procs, ReadWall(p)
  PROVE  ClockInv'
  BY TimeAssumption DEF ClockInv, ReadWall, clockVars

\* The steps of an entry leave the clock alone: a goroutine only begins to ask
\* for the time, or is done with it.
LEMMA GoingKeepsClock ==
  ASSUME ClockInv, NEW p \in Procs, NEW to \in {"idle", "load"},
         pc' = [pc EXCEPT ![p] = to],
         UNCHANGED <<clockVars, cached, last>>,
         \/ UNCHANGED <<now, low>>
         \/ now' = [now EXCEPT ![p] = 0] /\ low' = [low EXCEPT ![p] = 0]
  PROVE  ClockInv'
  BY TimeAssumption DEF ClockInv, clockVars

\* However the wall clock moves, the lowest time of a call moves down with it
\* and the peak up.
LEMMA SetWallKeepsClock ==
  ASSUME ClockInv, Tick \/ SetBack
  PROVE  ClockInv'
<1>1. PICK t \in 1..MaxTime :
        /\ SetWall(t)
        /\ setBacks' \in 0..SetBacks
        /\ setBacks' = 0 => t >= peak
  BY TimeAssumption DEF ClockInv, Tick, SetBack
<1>2. peak' \in t..MaxTime /\ peak' >= peak /\ (setBacks' = 0 => peak' = t)
  BY <1>1 DEF ClockInv, SetWall, AtLeast
<1>3. \A p \in Procs :
        /\ low'[p] = AtMost(low[p], t)
        /\ low'[p] \in 0..MaxTime
        /\ low'[p] \in 0..t /\ low'[p] =< low[p]
        /\ low[p] > 0 => low'[p] > 0
  BY <1>1 DEF ClockInv, SetWall, AtMost
<1>4. low' \in [Procs -> 0..MaxTime]
  BY <1>1, <1>3, Zenon DEF SetWall
<1>5. QED
  BY <1>1, <1>2, <1>3, <1>4, TimeAssumption DEF ClockInv, SetWall

-----------------------------------------------------------------------------
(* The entry.                                                              *)

\* An entry with its times: both ends count from one reading of the clock.
Shaped(e) ==
  /\ Ordered(e.life)
  /\ e.begun \in Int
  /\ e.ended \in Int
  /\ e.stale \in Int
  /\ e.stale > e.life.fresh
  /\ e.expires = (e.stale - e.life.fresh) + e.life.total

\* That reading, when the clock was never set back.
InTime(e) ==
  e.stale - e.life.fresh \in (e.begun - Interval)..e.ended

\* An entry a writer is making, before and after it has its times, with the
\* bounds of the clock reading that is under way.
Making(w) ==
  /\ ~Stamped(w) =>
       /\ Ordered(draft[w].life)
       /\ draft[w].begun \in Int
       /\ setBacks = 0 =>
            /\ draft[w].begun =< wall
            /\ pc[w] # "load" => draft[w].begun =< low[w]
  /\ Stamped(w) =>
       /\ Shaped(draft[w])
       /\ setBacks = 0 =>
            /\ InTime(draft[w])
            /\ draft[w].ended =< wall
            /\ pc[w] # "load" => draft[w].ended =< low[w]

\* An entry in the store.
Kept(e) ==
  /\ Shaped(e)
  /\ setBacks = 0 =>
       /\ InTime(e)
       /\ e.dropAt > e.expires - Second
       /\ e.dropAt =< e.written + AtLeast(e.life.total + Interval, Grace)

Having(r) ==
  /\ Shaped(draft[r])
  /\ setBacks = 0 => InTime(draft[r])

EntryInv ==
  /\ \A p \in Procs : (pc[p] = "idle" \/ p \in Others) => draft[p] = NoEntry
  /\ \A w \in Writers : pc[w] # "idle" => Making(w)
  /\ \A r \in Readers : pc[r] # "idle" => Having(r)
  /\ stored # NoEntry => Kept(stored)

LifetimeInv == ClockInv /\ EntryInv /\ draft = [p \in Procs |-> draft[p]]

LEMMA LifetimeInit == Init => LifetimeInv
  BY ClockInit DEF Init, LifetimeInv, EntryInv, Procs

\* Inside NowUnixMilli: the lowest time of a call begins with the wall clock.
LEMMA ClockStepKeepsEntry ==
  ASSUME LifetimeInv, NEW p \in Procs, NowUnixMilli(p)
  PROVE  EntryInv'
<1>1. /\ UNCHANGED <<wall, setBacks, draft, stored>>
      /\ pc[p] # "idle"
      /\ pc' = [pc EXCEPT ![p] = pc'[p]]
      /\ pc'[p] \notin {"idle", "load"}
      /\ pc[p] = "load" => low' = [low EXCEPT ![p] = wall]
      /\ pc[p] # "load" => low' = low
  BY DEF LifetimeInv, ClockInv, NowUnixMilli, Load, UseCached, ReadWall,
     UpdateCached, Tell, clockVars
<1>2. \A q \in Procs : (pc'[q] = "idle" <=> pc[q] = "idle")
  BY <1>1 DEF LifetimeInv, ClockInv
<1>3. \A w \in Writers : pc[w] # "idle" => Making(w)'
  <2>1. ASSUME NEW w \in Writers, pc[w] # "idle"
        PROVE  Making(w)'
    <3>1. w \in Procs /\ Making(w)
      BY <2>1 DEF LifetimeInv, EntryInv, Procs
    <3>2. \/ low'[w] = low[w] /\ (pc[w] = "load" => pc'[w] = "load")
          \/ low'[w] = wall
      BY <1>1, <3>1 DEF LifetimeInv, ClockInv
    <3>3. QED
      BY <1>1, <3>1, <3>2 DEF Making, Stamped, Shaped, InTime
  <2>2. QED
    BY <2>1
<1>4. Writers \subseteq Procs /\ Readers \subseteq Procs
  BY DEF Procs
<1>5. \A r \in Readers : Having(r) => Having(r)'
  BY <1>1 DEF Having, Shaped, InTime
<1>6. stored' # NoEntry => Kept(stored)'
  BY <1>1 DEF LifetimeInv, EntryInv, Kept, Shaped, InTime
<1>7. \A q \in Procs : (pc'[q] = "idle" \/ q \in Others) => draft'[q] = NoEntry
  BY <1>1, <1>2 DEF LifetimeInv, EntryInv
<1>8. QED
  BY <1>2, <1>3, <1>4, <1>5, <1>6, <1>7 DEF LifetimeInv, EntryInv

\* A step of one goroutine with its entry changes the draft of nobody else.
LEMMA GoingKeepsOthers ==
  ASSUME LifetimeInv, NEW p \in Procs, NEW to \in {"idle", "load"}, NEW entry,
         draft' = [draft EXCEPT ![p] = entry],
         pc' = [pc EXCEPT ![p] = to],
         UNCHANGED clockVars,
         \/ UNCHANGED low
         \/ low' = [low EXCEPT ![p] = 0],
         to = "idle" \/ p \in Others => entry = NoEntry,
         p \in Writers /\ to = "load" => Making(p)',
         p \in Readers /\ to = "load" => Having(p)',
         stored' # NoEntry => Kept(stored)'
  PROVE  EntryInv'
<1>1. /\ draft'[p] = entry /\ pc'[p] = to
      /\ \A q \in Procs \ {p} :
           draft'[q] = draft[q] /\ pc'[q] = pc[q] /\ low'[q] = low[q]
  BY DEF LifetimeInv, ClockInv
<1>2. Writers \subseteq Procs /\ Readers \subseteq Procs
  BY DEF Procs
<1>3. \A w \in Writers : pc'[w] # "idle" => Making(w)'
  <2>1. ASSUME NEW w \in Writers, w # p, pc'[w] # "idle"
        PROVE  Making(w)'
    <3>1. Making(w)
      BY <1>1, <1>2, <2>1 DEF LifetimeInv, EntryInv
    <3>2. UNCHANGED <<wall, setBacks>> /\ draft'[w] = draft[w]
          /\ pc'[w] = pc[w] /\ low'[w] = low[w]
      BY <1>1, <1>2, <2>1 DEF clockVars
    <3>3. QED
      BY <3>1, <3>2 DEF Making, Stamped, Shaped, InTime
  <2>2. ASSUME p \in Writers, pc'[p] # "idle"
        PROVE  Making(p)'
    BY <1>1, <2>2
  <2>3. QED
    BY <2>1, <2>2
<1>4. \A r \in Readers : pc'[r] # "idle" => Having(r)'
  <2>1. ASSUME NEW r \in Readers, r # p, pc'[r] # "idle"
        PROVE  Having(r)'
    <3>1. Having(r)
      BY <1>1, <1>2, <2>1 DEF LifetimeInv, EntryInv
    <3>2. UNCHANGED <<wall, setBacks>> /\ draft'[r] = draft[r]
          /\ pc'[r] = pc[r] /\ low'[r] = low[r]
      BY <1>1, <1>2, <2>1 DEF clockVars
    <3>3. QED
      BY <3>1, <3>2 DEF Having, Shaped, InTime
  <2>2. ASSUME p \in Readers, pc'[p] # "idle"
        PROVE  Having(p)'
    BY <1>1, <2>2
  <2>3. QED
    BY <2>1, <2>2
<1>5. \A q \in Procs : (pc'[q] = "idle" \/ q \in Others) => draft'[q] = NoEntry
  BY <1>1 DEF LifetimeInv, EntryInv
<1>6. QED
  BY <1>3, <1>4, <1>5 DEF EntryInv

LEMMA KeptUnchanged ==
  LifetimeInv /\ UNCHANGED <<stored, clockVars>>
    => (stored' # NoEntry => Kept(stored)')
  BY DEF LifetimeInv, EntryInv, Kept, Shaped, InTime, clockVars

\* A new entry has an ordered lifetime, whichever way that was chosen.
LEMMA FetchKeepsEntry ==
  ASSUME LifetimeInv, NEW w \in Writers, Fetch(w)
  PROVE  EntryInv' /\ ClockInv'
<1>1. w \in Procs /\ w \notin Others /\ w \notin Readers
  BY InputAssumption DEF Procs
<1>2. PICK override \in Overrides, calculated \in Calculated :
        Goes(w, "idle", "load",
             [life |-> ChosenTTLs(override, calculated), begun |-> wall])
  BY DEF Fetch
<1>3. PICK life : life = ChosenTTLs(override, calculated) /\ Ordered(life)
  BY ChosenTTLsOrdered, InputAssumption
<1>4. /\ draft' = [draft EXCEPT ![w] = [life |-> life, begun |-> wall]]
      /\ pc' = [pc EXCEPT ![w] = "load"]
      /\ UNCHANGED <<clockVars, cached, last, now, stored, low>>
  BY <1>2, <1>3 DEF Goes, Fetch
<1>5. Making(w)'
  <2>1. draft'[w] = [life |-> life, begun |-> wall] /\ pc'[w] = "load"
    BY <1>1, <1>4 DEF LifetimeInv, ClockInv
  <2>2. ~Stamped(w)'
    BY <2>1 DEF Stamped
  <2>3. QED
    BY <1>3, <1>4, <2>1, <2>2 DEF Making, LifetimeInv, ClockInv, clockVars
<1>6. ClockInv'
  BY <1>1, <1>4, GoingKeepsClock DEF LifetimeInv
<1>7. EntryInv'
  BY <1>1, <1>4, <1>5, KeptUnchanged, GoingKeepsOthers
<1>8. QED
  BY <1>6, <1>7

\* The times of an entry count from a reading that is not before the value was
\* asked for, less the interval.
LEMMA StampKeepsEntry ==
  ASSUME LifetimeInv, NEW w \in Writers, Stamp(w)
  PROVE  EntryInv' /\ ClockInv'
<1>1. w \in Procs /\ w \notin Others /\ w \notin Readers
  BY InputAssumption DEF Procs
<1>2. PICK e : e = [life    |-> draft[w].life,
                    begun   |-> draft[w].begun,
                    ended   |-> wall,
                    stale   |-> now[w] + draft[w].life.fresh,
                    expires |-> now[w] + draft[w].life.total]
  OBVIOUS
<1>3. /\ draft' = [draft EXCEPT ![w] = e]
      /\ pc[w] = "told"
      /\ pc' = [pc EXCEPT ![w] = "load"]
      /\ UNCHANGED <<clockVars, cached, last, now, stored, low>>
  BY <1>2 DEF Stamp, Goes
<1>4. /\ Ordered(draft[w].life) /\ draft[w].begun \in Int
      /\ setBacks = 0 => draft[w].begun =< low[w]
  BY <1>1, <1>3 DEF Stamp, LifetimeInv, EntryInv, Making
<1>5. /\ now[w] \in 1..peak /\ now[w] >= low[w] - Interval /\ low[w] \in 1..wall
      /\ setBacks = 0 => peak = wall
      /\ wall \in Nat
  BY <1>1, <1>3 DEF LifetimeInv, ClockInv
<1>6. /\ Shaped(e)
      /\ setBacks = 0 => InTime(e) /\ e.ended =< wall
  BY <1>2, <1>4, <1>5, TimeAssumption DEF Shaped, InTime, Ordered
<1>7. Making(w)'
  <2>1. draft'[w] = e /\ pc'[w] = "load"
    BY <1>1, <1>3 DEF LifetimeInv, ClockInv
  <2>2. Stamped(w)'
    BY <1>2, <2>1 DEF Stamped
  <2>3. QED
    BY <1>3, <1>6, <2>1, <2>2 DEF Making, Shaped, InTime, clockVars
<1>8. ClockInv'
  BY <1>1, <1>3, GoingKeepsClock DEF LifetimeInv
<1>9. EntryInv'
  BY <1>1, <1>3, <1>7, KeptUnchanged, GoingKeepsOthers
<1>10. QED
  BY <1>8, <1>9

\* Whole seconds take less than one away.
LEMMA WholeSeconds ==
  \A t \in Nat : /\ (t \div Second) * Second \in Nat
                 /\ (t \div Second) * Second =< t
                 /\ (t \div Second) * Second > t - Second
  BY DurationAssumption

\* The storage TTL is counted from a second reading and applied at a third.
LEMMA WriteKeepsEntry ==
  ASSUME LifetimeInv, NEW w \in Writers, Write(w)
  PROVE  EntryInv' /\ ClockInv'
<1>1. w \in Procs /\ w \notin Others /\ w \notin Readers
  BY InputAssumption DEF Procs
<1>2. /\ draft' = [draft EXCEPT ![w] = NoEntry]
      /\ pc[w] = "told"
      /\ pc' = [pc EXCEPT ![w] = "idle"]
      /\ now' = [now EXCEPT ![w] = 0] /\ low' = [low EXCEPT ![w] = 0]
      /\ UNCHANGED <<clockVars, cached, last>>
  BY DEF Write, Leave, Goes
<1>3. PICK e : e = draft[w]
  OBVIOUS
<1>4. /\ Shaped(e)
      /\ setBacks = 0 => InTime(e) /\ e.ended =< low[w]
  BY <1>1, <1>2, <1>3 DEF Write, LifetimeInv, EntryInv, Making
<1>5. /\ now[w] \in 1..peak /\ now[w] >= low[w] - Interval /\ low[w] \in 1..wall
      /\ setBacks = 0 => peak = wall
      /\ wall \in Nat
  BY <1>1, <1>2 DEF LifetimeInv, ClockInv
<1>6. PICK ttl \in Nat : ttl = StorageTTL(e, now[w])
  BY <1>4, <1>5, TimeAssumption DEF StorageTTL, Shaped, Ordered
<1>7. DropAt(ttl) \in Nat /\ DropAt(ttl) =< wall + ttl
      /\ DropAt(ttl) > (wall + ttl) - Second
  BY <1>5, <1>6, WholeSeconds DEF DropAt
<1>8. ASSUME setBacks = 0
      PROVE  /\ DropAt(ttl) > e.expires - Second
             /\ DropAt(ttl) =< wall + AtLeast(e.life.total + Interval, Grace)
  <2>1. /\ now[w] =< wall
        /\ e.ended - Interval =< now[w]
        /\ e.expires =< e.ended + e.life.total
        /\ e.expires \in Int /\ e.life.total \in Int /\ e.ended \in Int
    BY <1>4, <1>5, <1>8, TimeAssumption DEF Shaped, InTime, Ordered
  <2>2. /\ wall + ttl >= e.expires
        /\ ttl =< AtLeast(e.life.total + Interval, Grace)
    BY <1>5, <1>6, <2>1, TimeAssumption DEF StorageTTL, AtLeast
  <2>3. AtLeast(e.life.total + Interval, Grace) \in Int
    BY <2>1, TimeAssumption DEF AtLeast
  <2>4. QED
    BY <1>5, <1>7, <2>1, <2>2, <2>3, DurationAssumption
<1>9. Kept(stored)'
  <2>1. stored' = [life    |-> e.life,
                   begun   |-> e.begun,
                   ended   |-> e.ended,
                   stale   |-> e.stale,
                   expires |-> e.expires,
                   written |-> wall,
                   dropAt  |-> DropAt(ttl)]
    BY <1>3, <1>6 DEF Write
  <2>2. QED
    BY <1>2, <1>4, <1>8, <2>1 DEF Kept, Shaped, InTime, clockVars
<1>10. ClockInv'
  BY <1>1, <1>2, GoingKeepsClock DEF LifetimeInv
<1>11. EntryInv'
  BY <1>1, <1>2, <1>9, GoingKeepsOthers
<1>12. QED
  BY <1>10, <1>11

\* A reader takes the entry with its times and gives it back.
LEMMA ReaderKeepsEntry ==
  ASSUME LifetimeInv, NEW r \in Readers, ReaderStep(r)
  PROVE  EntryInv' /\ ClockInv'
<1>1. r \in Procs /\ r \notin Others /\ r \notin Writers
  BY InputAssumption DEF Procs
<1>2. CASE Get(r)
  <2>1. /\ draft' = [draft EXCEPT ![r] = stored]
        /\ pc' = [pc EXCEPT ![r] = "load"]
        /\ UNCHANGED <<clockVars, cached, last, now, stored, low>>
        /\ stored # NoEntry
    BY <1>2 DEF Get, Goes
  <2>2. draft'[r] = stored
    BY <1>1, <2>1 DEF LifetimeInv
  <2>3. Having(r)'
    BY <2>1, <2>2
    DEF LifetimeInv, EntryInv, Kept, Having, Shaped, InTime, clockVars
  <2>4. ClockInv'
    BY <1>1, <2>1, GoingKeepsClock DEF LifetimeInv
  <2>5. EntryInv'
    BY <1>1, <2>1, <2>3, KeptUnchanged, GoingKeepsOthers
  <2>6. QED
    BY <2>4, <2>5
<1>3. CASE Answer(r)
  <2>1. /\ draft' = [draft EXCEPT ![r] = NoEntry]
        /\ pc' = [pc EXCEPT ![r] = "idle"]
        /\ now' = [now EXCEPT ![r] = 0] /\ low' = [low EXCEPT ![r] = 0]
        /\ UNCHANGED <<clockVars, cached, last, stored>>
    BY <1>3 DEF Answer, Leave, Goes
  <2>2. ClockInv'
    BY <1>1, <2>1, GoingKeepsClock DEF LifetimeInv
  <2>3. EntryInv'
    BY <1>1, <2>1, KeptUnchanged, GoingKeepsOthers
  <2>4. QED
    BY <2>2, <2>3
<1>4. QED
  BY <1>2, <1>3 DEF ReaderStep

LEMMA OtherKeepsEntry ==
  ASSUME LifetimeInv, NEW o \in Others, Ask(o) \/ Asked(o)
  PROVE  EntryInv' /\ ClockInv'
<1>1. o \in Procs /\ o \notin Readers /\ o \notin Writers
  BY InputAssumption DEF Procs
<1>2. PICK to \in {"idle", "load"} :
        /\ draft' = [draft EXCEPT ![o] = NoEntry]
        /\ pc' = [pc EXCEPT ![o] = to]
        /\ UNCHANGED <<clockVars, cached, last, stored>>
        /\ \/ UNCHANGED <<now, low>>
           \/ now' = [now EXCEPT ![o] = 0] /\ low' = [low EXCEPT ![o] = 0]
  BY DEF Ask, Asked, Leave, Goes
<1>3. ClockInv'
  BY <1>1, <1>2, GoingKeepsClock DEF LifetimeInv
<1>4. EntryInv'
  BY <1>1, <1>2, KeptUnchanged, GoingKeepsOthers
<1>5. QED
  BY <1>3, <1>4

\* Time passes, or is set back, which ends every promise about the past.
LEMMA SetWallKeepsEntry ==
  ASSUME LifetimeInv, Tick \/ SetBack
  PROVE  EntryInv'
<1>1. PICK t \in 1..MaxTime :
        /\ SetWall(t)
        /\ setBacks' = 0 => setBacks = 0 /\ t >= wall
  BY TimeAssumption DEF LifetimeInv, ClockInv, Tick, SetBack
<1>2. ASSUME NEW w \in Writers, pc[w] # "idle"
      PROVE  Making(w)'
  <2>1. /\ w \in Procs /\ Making(w)
        /\ pc[w] \in {"load", "read", "cas", "told"}
        /\ wall \in Nat
        /\ pc[w] # "load" => low[w] \in 1..wall
    BY <1>2 DEF LifetimeInv, EntryInv, ClockInv, Procs
  <2>2. setBacks' = 0 /\ pc[w] # "load" => low'[w] = low[w]
    BY <1>1, <2>1 DEF SetWall, AtMost
  <2>3. UNCHANGED <<pc, draft>> /\ wall' = t
    BY <1>1 DEF SetWall
  <2>4. CASE Stamped(w)
    BY <1>1, <2>1, <2>2, <2>3, <2>4 DEF Making, Stamped, Shaped, InTime
  <2>5. CASE ~Stamped(w)
    BY <1>1, <2>1, <2>2, <2>3, <2>5 DEF Making, Stamped, Shaped, InTime
  <2>6. QED
    BY <2>4, <2>5
<1>3. UNCHANGED <<pc, draft, stored>>
  BY <1>1 DEF SetWall
<1>4. \A r \in Readers : Having(r) => Having(r)'
  BY <1>1, <1>3 DEF Having, Shaped, InTime
<1>5. stored' # NoEntry => Kept(stored)'
  BY <1>1, <1>3 DEF LifetimeInv, EntryInv, Kept, Shaped, InTime
<1>6. QED
  BY <1>2, <1>3, <1>4, <1>5 DEF LifetimeInv, EntryInv

LEMMA LifetimeStep == LifetimeInv /\ [Next]_vars => LifetimeInv'
<1> SUFFICES ASSUME LifetimeInv, [Next]_vars
             PROVE  LifetimeInv'
  OBVIOUS
<1>1. ASSUME NEW p \in Procs, NowUnixMilli(p)
      PROVE  ClockInv' /\ EntryInv'
  BY <1>1, ClockStepKeepsEntry, LoadKeepsClock, TellKeepsClock,
     ReadWallKeepsClock DEF LifetimeInv, NowUnixMilli
<1>2. ASSUME NEW w \in Writers, WriterStep(w)
      PROVE  ClockInv' /\ EntryInv'
  BY <1>2, FetchKeepsEntry, StampKeepsEntry, WriteKeepsEntry DEF WriterStep
<1>3. ASSUME Tick \/ SetBack
      PROVE  ClockInv' /\ EntryInv'
  BY <1>3, SetWallKeepsClock, SetWallKeepsEntry DEF LifetimeInv
<1>4. ASSUME Compact \/ UNCHANGED vars
      PROVE  ClockInv' /\ EntryInv'
  <2>1. UNCHANGED <<clockVars, cached, pc, last, now, draft, low>>
        /\ (stored' = NoEntry \/ stored' = stored)
    BY <1>4 DEF Compact, vars
  <2>2. ClockInv'
    BY <2>1 DEF LifetimeInv, ClockInv, clockVars
  <2>3. stored' # NoEntry => Kept(stored)'
    BY <2>1 DEF LifetimeInv, EntryInv, Kept, Shaped, InTime, clockVars
  <2>4. EntryInv'
    BY <2>1, <2>3 DEF LifetimeInv, EntryInv, Making, Stamped, Having, Shaped,
       InTime, clockVars
  <2>5. QED
    BY <2>2, <2>4
<1>5. ClockInv' /\ EntryInv'
  BY <1>1, <1>2, <1>3, <1>4, ReaderKeepsEntry, OtherKeepsEntry DEF Next
<1>6. draft' = [p \in Procs |-> draft'[p]]
  <2>1. ASSUME NEW p, NEW from, NEW to, NEW entry, Goes(p, from, to, entry)
        PROVE  draft' = [q \in Procs |-> draft'[q]]
    BY <2>1 DEF LifetimeInv, Goes
  <2>2. UNCHANGED draft => draft' = [q \in Procs |-> draft'[q]]
    BY DEF LifetimeInv
  <2>3. QED
    BY <2>1, <2>2 DEF Next, NowUnixMilli, Load, UseCached, ReadWall,
       UpdateCached, Tell, WriterStep, Fetch, Stamp, Write, ReaderStep, Get,
       Answer, Ask, Asked, Leave, Compact, Tick, SetBack, SetWall, vars
<1>7. QED
  BY <1>5, <1>6 DEF LifetimeInv

LEMMA LifetimeInvariant == Spec => []LifetimeInv
  BY LifetimeInit, LifetimeStep, PTL DEF Spec

\* NowUnixMilli is bounded by the interval below and by the past above, for
\* every number of goroutines that race for the cached time and every number of
\* times the clock is set back.
THEOREM ClockIsBounded == Spec => []ClockBounded
<1>1. LifetimeInv => ClockBounded
  BY TimeAssumption DEF LifetimeInv, ClockInv, ClockBounded
<1>2. QED
  BY LifetimeInvariant, <1>1, PTL

\* Hit, stale and expired are each told in time, to an interval: a hit is bounded
\* by the fresh duration, expired by the total lifetime, and stale by both.
THEOREM StatusInTime == Spec => []StatusTimely
<1>1. ASSUME LifetimeInv, NEW r \in Readers, pc[r] = "told", setBacks = 0,
             NEW e, e = draft[r], NEW status, status = Status(e, now[r])
      PROVE  /\ status = "hit" =>
                  low[r] =< e.ended + e.life.fresh + Interval
             /\ status = "stale" =>
                  /\ wall > e.begun + e.life.fresh - Interval
                  /\ low[r] =< e.ended + e.life.total + Interval
             /\ status = "expired" =>
                  wall > e.begun + e.life.total - Interval
  <2>1. /\ r \in Procs /\ Shaped(e) /\ InTime(e)
        /\ now[r] \in 1..wall /\ now[r] >= low[r] - Interval /\ low[r] \in 1..wall
        /\ wall \in Nat
    BY <1>1 DEF LifetimeInv, EntryInv, Having, ClockInv, Procs
  <2>2. /\ e.life.fresh \in Nat /\ e.life.total \in Int
        /\ e.begun \in Int /\ e.ended \in Int
        /\ e.stale \in Int /\ e.expires \in Int
    BY <2>1 DEF Shaped, Ordered
  <2>3. /\ e.stale >= e.begun - Interval + e.life.fresh
        /\ e.stale =< e.ended + e.life.fresh
        /\ e.expires >= e.begun - Interval + e.life.total
        /\ e.expires =< e.ended + e.life.total
    BY <2>1, <2>2, TimeAssumption DEF Shaped, InTime
  <2>4. /\ status = "hit" => now[r] =< e.stale
        /\ status = "stale" => now[r] > e.stale /\ now[r] =< e.expires
        /\ status = "expired" => now[r] > e.expires
    <3>1. e.stale > 0 /\ e.expires > 0
      BY <2>1, <2>2 DEF Shaped, Ordered
    <3>2. QED
      BY <1>1, <2>1, <2>2, <3>1 DEF Status
  <2>5. QED
    BY <2>1, <2>2, <2>3, <2>4, TimeAssumption
<1>2. LifetimeInv => StatusTimely
  BY <1>1 DEF StatusTimely
<1>3. QED
  BY LifetimeInvariant, <1>2, PTL

\* The store drops an entry less than a second before it expires, and keeps it
\* no longer than its lifetime and the interval, or the grace period.
THEOREM StorageTTLInTime == Spec => []StorageTTLTimely
<1>1. LifetimeInv => StorageTTLTimely
  BY DEF LifetimeInv, EntryInv, Kept, StorageTTLTimely
<1>2. QED
  BY LifetimeInvariant, <1>1, PTL

\* Type correctness, and an ordered lifetime for whatever entry is on its way.
THEOREM Typing == Spec => []TypeOK
<1>1. ASSUME LifetimeInv
      PROVE  TypeOK
  <2>1. \A p \in Procs : draft[p] # NoEntry =>
          p \in Writers \union Readers /\ pc[p] # "idle"
    BY <1>1 DEF LifetimeInv, EntryInv, Procs
  <2>2. \A p \in Procs : draft[p] # NoEntry => Ordered(draft[p].life)
    BY <1>1, <2>1 DEF LifetimeInv, EntryInv, Making, Having, Shaped
  <2>3. /\ wall \in 1..MaxTime /\ peak \in wall..MaxTime /\ cached \in 0..peak
        /\ setBacks \in 0..SetBacks
        /\ pc \in [Procs -> {"idle", "load", "read", "cas", "told"}]
        /\ last \in [Procs -> 0..peak] /\ now \in [Procs -> 0..peak]
        /\ low \in [Procs -> Times]
    BY <1>1 DEF LifetimeInv, ClockInv, Times
  <2>4. wall \in Times /\ peak \in Times /\ cached \in Times
        /\ 0..peak \subseteq Times
    BY <2>3, TimeAssumption DEF Times
  <2>5. last \in [Procs -> Times] /\ now \in [Procs -> Times]
    BY <2>3, <2>4
  <2>6. QED
    BY <2>2, <2>3, <2>4, <2>5 DEF TypeOK, Ordered
<1>2. QED
  BY LifetimeInvariant, <1>1, PTL

-----------------------------------------------------------------------------
(* Forward only.                                                           *)

\* A goroutine at its CompareAndSwap has found the time it loaded too old.
SwapsForward == \A p \in Procs : pc[p] = "cas" => now[p] > last[p]

LEMMA SwapsForwardStep ==
  ASSUME ClockInv, SwapsForward, [Next]_vars
  PROVE  SwapsForward' /\ cached' >= cached
<1> USE DEF ClockInv, SwapsForward
<1>1. ASSUME NEW p \in Procs, pc'[p] # "cas",
             \A q \in Procs : q # p => UNCHANGED <<pc[q], now[q], last[q]>>
      PROVE  SwapsForward'
  BY <1>1
<1>2. ASSUME NEW p \in Procs, Load(p) \/ UseCached(p)
      PROVE  SwapsForward' /\ cached' >= cached
  BY <1>1, <1>2 DEF Load, UseCached, Tell
<1>3. ASSUME NEW p \in Procs, ReadWall(p)
      PROVE  SwapsForward' /\ cached' >= cached
  <2>1. /\ now'[p] = wall /\ last'[p] = last[p] /\ cached' = cached
        /\ \A q \in Procs : q # p => UNCHANGED <<pc[q], now[q], last[q]>>
    BY <1>3 DEF ReadWall
  <2>2. wall > last[p]
    BY <1>3, TimeAssumption DEF ReadWall, Recent
  <2>3. QED
    BY <2>1, <2>2
<1>4. ASSUME NEW p \in Procs, UpdateCached(p)
      PROVE  SwapsForward' /\ cached' >= cached
  <2>1. SwapsForward'
    BY <1>1, <1>4 DEF UpdateCached, Tell
  <2>2. cached' >= cached
    BY <1>4 DEF UpdateCached, Swap
  <2>3. QED
    BY <2>1, <2>2
<1>5. ASSUME NEW p, NEW from, NEW to \in {"idle", "load"}, NEW entry,
             Goes(p, from, to, entry),
             now' = now \/ now' = [now EXCEPT ![p] = 0]
      PROVE  SwapsForward' /\ cached' >= cached
  BY <1>5 DEF Goes
<1>6. ASSUME NEW w \in Writers, WriterStep(w)
      PROVE  SwapsForward' /\ cached' >= cached
  BY <1>5, <1>6 DEF WriterStep, Fetch, Stamp, Write, Leave
<1>7. ASSUME NEW r \in Readers, ReaderStep(r)
      PROVE  SwapsForward' /\ cached' >= cached
  BY <1>5, <1>7 DEF ReaderStep, Get, Answer, Leave
<1>8. ASSUME NEW o \in Others, Ask(o) \/ Asked(o)
      PROVE  SwapsForward' /\ cached' >= cached
  BY <1>5, <1>8 DEF Ask, Asked, Leave
<1>9. CASE Compact \/ Tick \/ SetBack \/ UNCHANGED vars
  BY <1>9 DEF Compact, Tick, SetBack, SetWall, vars
<1>10. QED
  BY <1>2, <1>3, <1>4, <1>6, <1>7, <1>8, <1>9 DEF Next, NowUnixMilli

\* lastTimeNow never goes back, not even when the wall clock does: a goroutine
\* that has been away between its Load and its CompareAndSwap, for however long
\* and whatever others stored meanwhile, replaces a time by a later one only.
CachedForward == [][cached' >= cached]_vars

\* No order of Loads and CompareAndSwaps sets the cached time back.
THEOREM CachedOnlyForward == Spec => CachedForward
<1>1. Init => SwapsForward
  BY DEF Init, SwapsForward
<1>2. ClockInv /\ SwapsForward /\ [Next]_vars => SwapsForward' /\ cached' >= cached
  BY SwapsForwardStep
<1>3. LifetimeInv => ClockInv
  BY DEF LifetimeInv
<1>4. QED
  BY <1>1, <1>2, <1>3, LifetimeInvariant, PTL DEF Spec, CachedForward

\* Neither of an entry's times is 0, which IsStaleAt and IsExpiredAt take for
\* "never", and they are in order: it is a hit, then stale, then expired.
Mortal(e) ==
  /\ 0 < e.stale /\ e.stale =< e.expires
  /\ \A t \in Int : /\ Status(e, t) = "hit" <=> t =< e.stale
                    /\ Status(e, t) = "expired" <=> t > e.expires

EntriesMortal ==
  /\ stored # NoEntry => Mortal(stored)
  /\ \A r \in Readers : pc[r] # "idle" => Mortal(draft[r])

\* Whatever the override, the calculator's answer and the clock at the moment of
\* stamping, also when it was set back, no entry in the store or in a reader's
\* hands lives for ever, is stale after it has expired or becomes fresh again.
THEOREM NoEntryForEver == Spec => []EntriesMortal
<1>1. ASSUME NEW e, Shaped(e)
      PROVE  Mortal(e)
  <2>1. /\ e.life.fresh \in Int /\ e.life.total \in Int
        /\ 0 =< e.life.fresh /\ e.life.fresh =< e.life.total
    BY <1>1 DEF Shaped, Ordered
  <2>2. /\ e.stale \in Int /\ e.expires \in Int
        /\ 0 < e.stale /\ e.stale =< e.expires
    BY <1>1, <2>1 DEF Shaped
  <2>3. QED
    BY <2>2 DEF Mortal, Status
<1>2. LifetimeInv => EntriesMortal
  BY <1>1 DEF LifetimeInv, EntryInv, Kept, Having, EntriesMortal
<1>3. QED
  BY LifetimeInvariant, <1>2, PTL

=============================================================================
