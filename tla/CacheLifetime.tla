--------------------------- MODULE CacheLifetime ---------------------------
(***************************************************************************)
(* The life of one cache entry in time: safeCall stamps it, the storage    *)
(* gives it a TTL of its own, and Execute calls it a hit, stale or expired *)
(* until Badger drops it.  Engine and storage tell the time with           *)
(* NowUnixMilli, which several goroutines cache in one atomic; Badger      *)
(* (external) uses the wall clock and keeps whole seconds.                 *)
(*                                                                         *)
(* The wall clock ticks in units; it may be set back SetBacks times.       *)
(*                                                                         *)
(* An operator commented "Variant" is a faulty form of the definition that *)
(* follows it; nothing uses it but the checks that a property can fail.    *)
(***************************************************************************)
EXTENDS CacheTTL

CONSTANTS
  Writers,    \* goroutines in safeCall, one entry after the other
  Readers,    \* goroutines that call Execute
  Others,     \* goroutines that ask for the time on behalf of other keys
  Overrides,  \* CacheTTLs a key may be given, and NoTTL
  Calculated, \* what the TTL calculator may answer
  Interval,   \* timeUpdateInterval
  Grace,      \* the storage TTL of an entry that has expired already: 30 s
  MaxTime,    \* bound: the wall clock
  SetBacks    \* bound: how often it is set back

Procs == Writers \union Readers \union Others

ASSUME InputAssumption ==
  /\ Writers \cap Readers = {}
  /\ Others \cap (Writers \union Readers) = {}
  /\ Overrides \subseteq CacheTTLs(Int) \union {NoTTL}
  /\ Calculated \subseteq LifetimeOf(Int)

ASSUME TimeAssumption ==
  /\ Interval \in Nat
  /\ Grace \in Nat
  /\ MaxTime \in Nat \ {0}
  /\ SetBacks \in Nat

VARIABLES
  wall,      \* time.Now()
  setBacks,  \* how often it was set back
  cached,    \* lastTimeNow
  pc,        \* pc[p]: "idle", at a step of NowUnixMilli, or "told" the time
  last,      \* last[p]: what p loaded from lastTimeNow
  now,       \* now[p]: the time p read, then what NowUnixMilli returned
  draft,     \* draft[p]: the entry p makes (a writer) or has read (a reader)
  stored,    \* the entry in the store
  \* History, read by the properties and by no action:
  peak,      \* the highest the wall clock has been
  low        \* low[p]: the lowest it has been since p called NowUnixMilli

clockVars == <<wall, setBacks, peak>>
vars == <<clockVars, cached, pc, last, now, draft, stored, low>>

NoEntry == [none |-> TRUE]

Init ==
  /\ wall = 1
  /\ setBacks = 0
  /\ cached = 0
  /\ pc = [p \in Procs |-> "idle"]
  /\ last = [p \in Procs |-> 0]
  /\ now = [p \in Procs |-> 0]
  /\ draft = [p \in Procs |-> NoEntry]
  /\ stored = NoEntry
  /\ peak = 1
  /\ low = [p \in Procs |-> 0]

-----------------------------------------------------------------------------
(* NowUnixMilli.                                                           *)

Load(p) ==
  /\ pc[p] = "load"
  /\ pc' = [pc EXCEPT ![p] = "read"]
  /\ last' = [last EXCEPT ![p] = cached]
  /\ low' = [low EXCEPT ![p] = wall]
  /\ UNCHANGED <<clockVars, cached, now, draft, stored>>

Tell(p, t) ==
  /\ pc' = [pc EXCEPT ![p] = "told"]
  /\ now' = [now EXCEPT ![p] = t]
  /\ last' = [last EXCEPT ![p] = 0]
  /\ UNCHANGED <<clockVars, draft, stored, low>>

\* Variant: no time is too old.
RecentAlways(p) == last[p] > 0

\* last > 0 && now-last <= timeUpdateInterval
Recent(p) == last[p] > 0 /\ wall - last[p] =< Interval

\* time.Now(), and the cached time while it is recent enough...
UseCached(p) ==
  /\ pc[p] = "read"
  /\ Recent(p)
  /\ Tell(p, last[p])
  /\ UNCHANGED cached

ReadWall(p) ==
  /\ pc[p] = "read"
  /\ ~Recent(p)
  /\ pc' = [pc EXCEPT ![p] = "cas"]
  /\ now' = [now EXCEPT ![p] = wall]
  /\ UNCHANGED <<clockVars, cached, last, draft, stored, low>>

\* CompareAndSwap(last, now)
Swap(p) == IF cached = last[p] THEN now[p] ELSE cached

\* ...else the time just read, whoever wins the update.
UpdateCached(p) ==
  /\ pc[p] = "cas"
  /\ cached' = Swap(p)
  /\ Tell(p, now[p])

NowUnixMilli(p) == Load(p) \/ UseCached(p) \/ ReadWall(p) \/ UpdateCached(p)

-----------------------------------------------------------------------------
(* safeCall and storage.Set.                                               *)

Goes(p, from, to, entry) ==
  /\ pc[p] = from
  /\ pc' = [pc EXCEPT ![p] = to]
  /\ draft' = [draft EXCEPT ![p] = entry]
  /\ UNCHANGED <<clockVars, cached, last>>

Leave(p) ==
  /\ Goes(p, "told", "idle", NoEntry)
  /\ now' = [now EXCEPT ![p] = 0]
  /\ low' = [low EXCEPT ![p] = 0]

\* A value has come; its lifetime is chosen, and NewCacheEntryWithTTL begins.
\* Bound: one entry at a time is followed.
Fetch(w) ==
  /\ stored = NoEntry
  /\ \A p \in Procs : draft[p] = NoEntry
  /\ \E override \in Overrides, calculated \in Calculated :
       Goes(w, "idle", "load",
            [life |-> ChosenTTLs(override, calculated), begun |-> wall])
  /\ UNCHANGED <<now, stored, low>>

Stamped(w) == "expires" \in DOMAIN draft[w]

\* The entry gets its times, and Set begins.
Stamp(w) ==
  /\ ~Stamped(w)
  /\ Goes(w, "told", "load",
          [life    |-> draft[w].life,
           begun   |-> draft[w].begun,
           ended   |-> wall,
           stale   |-> now[w] + draft[w].life.fresh,
           expires |-> now[w] + draft[w].life.total])
  /\ UNCHANGED <<now, stored, low>>

\* Variant: the storage keeps an entry for its whole lifetime from now on.
StorageTTLWhole(e, t) == IF e.expires > t THEN e.expires ELSE Grace

\* badgerStorage.Set: what remains, or a while for an expired entry.
StorageTTL(e, t) == IF e.expires > t THEN e.expires - t ELSE Grace

\* WithTTL: the wall clock again, and whole seconds.
DropAt(ttl) == ((wall + ttl) \div Second) * Second

Write(w) ==
  /\ Stamped(w)
  /\ Leave(w)
  /\ stored' = [life    |-> draft[w].life,
                begun   |-> draft[w].begun,
                ended   |-> draft[w].ended,
                stale   |-> draft[w].stale,
                expires |-> draft[w].expires,
                written |-> wall,
                dropAt  |-> DropAt(StorageTTL(draft[w], now[w]))]

-----------------------------------------------------------------------------
(* Execute.                                                                *)

Dropped == stored # NoEntry /\ wall >= stored.dropAt

\* storage.Get finds the entry; the time is asked for after that.
Get(r) ==
  /\ stored # NoEntry
  /\ ~Dropped
  /\ Goes(r, "idle", "load", stored)
  /\ UNCHANGED <<now, stored, low>>

\* Variant: what is no longer fresh is called stale, however old.
StatusNeverExpired(e, t) ==
  IF e.stale # 0 /\ e.stale < t THEN "stale" ELSE "hit"

\* IsExpiredAt, IsStaleAt and the order Execute asks them in.
Status(e, t) ==
  IF e.expires # 0 /\ e.expires < t THEN "expired"
  ELSE IF e.stale # 0 /\ e.stale < t THEN "stale"
  ELSE "hit"

\* The entry is returned with the status it has at the time told.
Answer(r) ==
  /\ Leave(r)
  /\ UNCHANGED stored

-----------------------------------------------------------------------------
\* Badger discards what it has dropped.
Compact ==
  /\ Dropped
  /\ stored' = NoEntry
  /\ UNCHANGED <<clockVars, cached, pc, last, now, draft, low>>

SetWall(t) ==
  /\ wall' = t
  /\ peak' = AtLeast(peak, t)
  /\ low' = [p \in Procs |-> AtMost(low[p], t)]
  /\ UNCHANGED <<cached, pc, last, now, draft, stored>>

Tick ==
  /\ wall < MaxTime
  /\ SetWall(wall + 1)
  /\ UNCHANGED setBacks

SetBack ==
  /\ setBacks < SetBacks
  /\ \E t \in 1..wall - 1 : SetWall(t)
  /\ setBacks' = setBacks + 1

\* Somebody else's Execute or Set.
Ask(o) ==
  /\ Goes(o, "idle", "load", NoEntry)
  /\ UNCHANGED <<now, stored, low>>

Asked(o) ==
  /\ Leave(o)
  /\ UNCHANGED stored

WriterStep(w) == Fetch(w) \/ Stamp(w) \/ Write(w)
ReaderStep(r) == Get(r) \/ Answer(r)

Next ==
  \/ \E p \in Procs : NowUnixMilli(p)
  \/ \E w \in Writers : WriterStep(w)
  \/ \E r \in Readers : ReaderStep(r)
  \/ \E o \in Others : Ask(o) \/ Asked(o)
  \/ Compact \/ Tick \/ SetBack

Spec == Init /\ [][Next]_vars

-----------------------------------------------------------------------------
(* Properties.                                                             *)

Times == 0..MaxTime

\* Every variable stays in its type, and a lifetime in order: at least the
\* minimum in total, and fresh for no more than that.
TypeOK ==
  /\ wall \in Times /\ peak \in Times /\ cached \in Times
  /\ setBacks \in 0..SetBacks
  /\ pc \in [Procs -> {"idle", "load", "read", "cas", "told"}]
  /\ last \in [Procs -> Times]
  /\ now \in [Procs -> Times]
  /\ low \in [Procs -> Times]
  /\ \A p \in Procs : draft[p] # NoEntry =>
       /\ draft[p].life.total >= MinTTL
       /\ draft[p].life.fresh \in 0..draft[p].life.total

\* NowUnixMilli never tells a time that has not been, and lags the wall clock
\* by the interval at most, however its callers race for the cached time and
\* however the clock is set.
ClockBounded ==
  \A p \in Procs : pc[p] = "told" =>
    now[p] \in (low[p] - Interval)..peak

\* Each status is told in time, to an interval: a hit is not older than its fresh
\* duration; what is called stale is older than that and not older than its total
\* lifetime; what is called expired is older than its total lifetime.  Two
\* goroutines read a lagging clock, one to stamp the entry and one to judge it.
StatusTimely ==
  \A r \in Readers :
    LET e      == draft[r]
        status == Status(e, now[r])
    IN pc[r] = "told" /\ setBacks = 0 =>
         /\ status = "hit" => low[r] =< e.ended + e.life.fresh + Interval
         /\ status = "stale" =>
              /\ wall > e.begun + e.life.fresh - Interval
              /\ low[r] =< e.ended + e.life.total + Interval
         /\ status = "expired" => wall > e.begun + e.life.total - Interval

\* The store keeps an entry until less than a second before it expires, and for
\* no longer than its lifetime and the interval (or the grace period) after it
\* was written, although entry and storage TTL are taken from three clock
\* readings and Badger keeps whole seconds.
StorageTTLTimely ==
  stored # NoEntry /\ setBacks = 0 =>
    /\ stored.dropAt > stored.expires - Second
    /\ stored.dropAt =<
         stored.written + AtLeast(stored.life.total + Interval, Grace)

=============================================================================
