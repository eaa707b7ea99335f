---------------------------- MODULE StaleEngine ----------------------------
(***************************************************************************)
(* The stale-while-revalidate engine of swr.go: Execute, syncRefresh,      *)
(* tryAsyncRefresh, safeCall and Shutdown, with the parts of the refresh   *)
(* tracker, the storage and golang.org/x/sync/singleflight they rely on.   *)
(*                                                                         *)
(* A value is the VERSION of the upstream call that produced it: calls are *)
(* numbered in the order safeCall launches them, so a smaller version is   *)
(* an older value.  0 stands for no value.  Version 1 is what an earlier   *)
(* process left in the persistent store.                                   *)
(*                                                                         *)
(* Every step between two accesses to shared state (storage, singleflight  *)
(* group, tracker, currentRefreshes, contexts, channels) is one action.    *)
(*                                                                         *)
(* An operator commented "Variant" is a faulty form of the definition that *)
(* follows it; nothing uses it but the checks that a property can fail.    *)
(***************************************************************************)
EXTENDS Integers, FiniteSets

CONSTANTS
  Keys,                    \* cache keys
  NoKey,                   \* the key of a goroutine that has none
  Callers,                 \* goroutines that call Execute
  Refreshers,              \* slots for background refresh goroutines
  MaxExecutes,             \* bound: Execute calls in a behaviour
  MaxConcurrentRefreshes,  \* EngineConfig.MaxConcurrentRefreshes
  MarkerMayExpire,         \* can the tracker TTL run out during a refresh?
  SetMayFail,              \* can storage.Set fail before the deadline?
  RereadMayFail            \* can the storage.Get of syncRefresh fail?

ASSUME PoolAssumption ==
  /\ IsFiniteSet(Callers)
  /\ IsFiniteSet(Refreshers)
  /\ MaxConcurrentRefreshes \in Nat \ {0}
  /\ Cardinality(Refreshers) > MaxConcurrentRefreshes
ASSUME KeyAssumption == NoKey \notin Keys
ASSUME BoundAssumption == MaxExecutes \in Nat
ASSUME FaultAssumption ==
  /\ MarkerMayExpire \in BOOLEAN
  /\ SetMayFail \in BOOLEAN
  /\ RereadMayFail \in BOOLEAN

VARIABLES
  executes,   \* Execute calls so far
  pc,         \* pc[c]: where caller c is in Execute
  key,        \* key[c]: the key of c's Execute, while it runs
  seen,       \* seen[c]: the version c holds (read, or delivered by a flight)
  reply,      \* reply[c]: what c's last Execute returned
  stored,     \* stored[k]: version in the storage
  fresh,      \* fresh[k]: StaleAfter of that entry is in the future
  \* The singleflight call of each key, with the safeCall it runs:
  stage,      \* stage[k]: how far it is
  call,       \* call[k]: the upstream call it made
  ok,         \* ok[k]: it has a value, not an error
  dead,       \* dead[k]: refreshTimeout has run out
  started,    \* number of the last upstream call
  running,    \* <<v, k>>: call v for k has not returned
  rpc,        \* rpc[r]: where background refresh goroutine r is
  rkey,       \* rkey[r]: the key it refreshes
  marker,     \* marker[k]: refreshTracker holds a live entry for k
  count,      \* currentRefreshes
  shut,       \* progress of Shutdown
  \* History, read by the properties and by no action:
  floor,      \* floor[c]: newest version served for key[c] before c's Execute
  served,     \* served[k]: newest version any Execute returned for k
  discarded   \* calls whose flight reported an error instead of their value

callerVars    == <<executes, pc, key, seen, reply, floor, served>>
storeVars     == <<stored, fresh>>
flightVars    == <<stage, call, ok, dead>>
callVars      == <<started, running>>
refresherVars == <<rpc, rkey>>
vars == <<callerVars, storeVars, flightVars, callVars, refresherVars,
          marker, count, shut, discarded>>

NoReply  == [status |-> "none", version |-> 0]
Statuses == {"none", "hit", "stale", "miss", "error", "cancelled"}

CallerPCs    == {"idle", "join", "wait", "got", "check", "probe", "mark",
                 "count", "undo", "unmark"}
RefresherPCs == {"none", "do", "wait", "unmark", "dec"}
Stages       == {"idle", "spawn", "call", "ready", "store", "end"}

\* NewStaleEngine: nothing in flight, over a store that may hold entries.
Init ==
  /\ executes = 0
  /\ pc = [c \in Callers |-> "idle"]
  /\ key = [c \in Callers |-> NoKey]
  /\ seen = [c \in Callers |-> 0]
  /\ reply = [c \in Callers |-> NoReply]
  /\ stored \in [Keys -> {0, 1}]
  /\ fresh = [k \in Keys |-> stored[k] = 1]
  /\ stage = [k \in Keys |-> "idle"]
  /\ call = [k \in Keys |-> 0]
  /\ ok = [k \in Keys |-> FALSE]
  /\ dead = [k \in Keys |-> FALSE]
  /\ started = 1
  /\ running = {}
  /\ rpc = [r \in Refreshers |-> "none"]
  /\ rkey = [r \in Refreshers |-> NoKey]
  /\ marker = [k \in Keys |-> FALSE]
  /\ count = 0
  /\ shut = "no"
  /\ floor = [c \in Callers |-> 0]
  /\ served = [k \in Keys |-> 0]
  /\ discarded = {}

-----------------------------------------------------------------------------
(* Execute: one storage.Get, then the branch on what it returned.          *)

\* Execute of c for key k ends with the given status and version.
Return(c, k, status, v) ==
  /\ pc' = [pc EXCEPT ![c] = "idle"]
  /\ key' = [key EXCEPT ![c] = NoKey]
  /\ seen' = [seen EXCEPT ![c] = 0]
  /\ reply' = [reply EXCEPT ![c] = [status |-> status, version |-> v]]
  /\ served' = [served EXCEPT ![k] = IF v > served[k] THEN v ELSE served[k]]

\* Execute of c goes on at another step, with version v in hand.
Continue(c, step, v) ==
  /\ pc' = [pc EXCEPT ![c] = step]
  /\ seen' = [seen EXCEPT ![c] = v]
  /\ UNCHANGED served

Enter(c, k) ==
  /\ pc[c] = "idle"
  /\ executes < MaxExecutes
  /\ executes' = executes + 1
  /\ floor' = [floor EXCEPT ![c] = served[k]]
  /\ UNCHANGED <<storeVars, flightVars, callVars, refresherVars, marker, count,
                 shut, discarded>>

\* Variant: the key is not kept for the steps to come.
EnterAtNoKey(c, k, step, v) ==
  /\ Enter(c, k)
  /\ Continue(c, step, v)
  /\ reply' = [reply EXCEPT ![c] = NoReply]
  /\ UNCHANGED key

EnterAt(c, k, step, v) ==
  /\ Enter(c, k)
  /\ Continue(c, step, v)
  /\ key' = [key EXCEPT ![c] = k]
  /\ reply' = [reply EXCEPT ![c] = NoReply]

\* storage.Get fails: c's context is already done, or the store is broken.
ExecuteError(c, k) ==
  /\ Enter(c, k)
  /\ Return(c, k, "error", 0)

ExecuteMiss(c, k) ==
  /\ stored[k] = 0
  /\ EnterAt(c, k, "join", 0)

ExecuteHit(c, k) ==
  /\ stored[k] # 0
  /\ fresh[k]
  /\ Enter(c, k)
  /\ Return(c, k, "hit", stored[k])

\* "stale" and "expired" entries take the same path; only the label differs.
ExecuteStale(c, k) ==
  /\ stored[k] # 0
  /\ ~fresh[k]
  /\ EnterAt(c, k, "check", stored[k])

Execute(c, k) ==
  \/ ExecuteError(c, k)
  \/ ExecuteMiss(c, k)
  \/ ExecuteHit(c, k)
  \/ ExecuteStale(c, k)

-----------------------------------------------------------------------------
(* syncRefresh: join the singleflight call of the key, or start one, then  *)
(* wait for its result or for the caller's own context.                    *)

\* Variant: no singleflight, every caller starts a call of its own.
JoinAlone(k) ==
  /\ stage' = [stage EXCEPT ![k] = "spawn"]
  /\ UNCHANGED <<call, ok, dead>>

\* singleflight Do and DoChan: the call in flight, or a new one.
Join(k) ==
  /\ stage' = [stage EXCEPT ![k] =
                  IF stage[k] = "idle" THEN "spawn" ELSE stage[k]]
  /\ UNCHANGED <<call, ok, dead>>

DoChan(c) ==
  /\ pc[c] = "join"
  /\ Join(key[c])
  /\ Continue(c, "wait", 0)
  /\ UNCHANGED <<executes, key, reply, floor, storeVars, callVars,
                 refresherVars, marker, count, shut, discarded>>

\* What a caller's last step leaves alone.
Leaving == UNCHANGED <<executes, floor, storeVars, flightVars, callVars,
                       refresherVars, marker, count, shut, discarded>>

\* The caller's context ends; with a result at hand too, select picks either.
CallerCancel(c) ==
  /\ pc[c] \in {"wait", "got"}
  /\ Return(c, key[c], "cancelled", 0)
  /\ Leaving

\* Variant: the flight's own value is returned without a look at the storage.
RereadSkipped(c) == c \in Callers

\* The storage.Get after the flight finds nothing, or fails.
RereadFails(c) == stored[key[c]] = 0 \/ RereadMayFail

\* The flight failed (and Execute passes syncRefresh no fallback entry), or
\* nothing is there to read and rebuilding the entry fails.
ResultError(c) ==
  /\ pc[c] = "got"
  /\ seen[c] = 0 \/ RereadFails(c)
  /\ Return(c, key[c], "error", 0)
  /\ Leaving

\* The flight succeeded: the storage is read again, and what it holds is
\* returned, whatever it is.
ResultReread(c) ==
  /\ pc[c] = "got"
  /\ seen[c] # 0
  /\ stored[key[c]] # 0
  /\ Return(c, key[c], "miss", stored[key[c]])
  /\ Leaving

\* Nothing there to read: the entry is rebuilt from the flight's value.
ResultRebuild(c) ==
  /\ pc[c] = "got"
  /\ seen[c] # 0
  /\ RereadFails(c)
  /\ Return(c, key[c], "miss", seen[c])
  /\ Leaving

TakeResult(c) == ResultError(c) \/ ResultReread(c) \/ ResultRebuild(c)

-----------------------------------------------------------------------------
(* tryAsyncRefresh, on the goroutine of the caller that saw a stale entry; *)
(* whatever it decides, Execute then returns the entry it read.            *)

ReturnSeen(c) == Return(c, key[c], "stale", seen[c])

TryAsyncStay(c, step) ==
  /\ Continue(c, step, seen[c])
  /\ UNCHANGED <<executes, key, reply, floor, storeVars, flightVars, callVars,
                 refresherVars, shut, discarded>>

\* The engine is shutting down, or the key is being refreshed already, which
\* refreshTracker.Get or, in a race, refreshTracker.TrySet finds out.
SkipRefresh(c) ==
  /\ \/ pc[c] = "check" /\ shut # "no"
     \/ pc[c] \in {"probe", "mark"} /\ marker[key[c]]
  /\ ReturnSeen(c)
  /\ Leaving

\* shutdownCtx.Err() is nil.
CheckShutdown(c) ==
  /\ pc[c] = "check"
  /\ shut = "no"
  /\ TryAsyncStay(c, "probe")
  /\ UNCHANGED <<marker, count>>

\* refreshTracker.Get finds no marker.
ProbeMarker(c) ==
  /\ pc[c] = "probe"
  /\ ~marker[key[c]]
  /\ TryAsyncStay(c, "mark")
  /\ UNCHANGED <<marker, count>>

\* refreshTracker.TrySet
TrySet(c) ==
  /\ pc[c] = "mark"
  /\ ~marker[key[c]]
  /\ marker' = [marker EXCEPT ![key[c]] = TRUE]
  /\ TryAsyncStay(c, "count")
  /\ UNCHANGED count

\* Variant: the count before the Add is compared.
OldCountWithinLimit == count =< MaxConcurrentRefreshes

\* int(newCount) > e.maxConcurrentRefreshes is false.
WithinLimit == count + 1 =< MaxConcurrentRefreshes

\* currentRefreshes.Add(1); within the limit the goroutine is launched.
LaunchRefresh(c) ==
  /\ pc[c] = "count"
  /\ WithinLimit
  /\ count' = count + 1
  /\ \E r \in Refreshers :
       /\ rpc[r] = "none"
       /\ rpc' = [rpc EXCEPT ![r] = "do"]
       /\ rkey' = [rkey EXCEPT ![r] = key[c]]
  /\ ReturnSeen(c)
  /\ UNCHANGED <<executes, floor, storeVars, flightVars, callVars, marker,
                 shut, discarded>>

OverLimit(c) ==
  /\ pc[c] = "count"
  /\ ~WithinLimit
  /\ count' = count + 1
  /\ TryAsyncStay(c, "undo")
  /\ UNCHANGED marker

\* Variant: the slot is not given back.
UndoCountForgotten(c) ==
  /\ pc[c] = "undo"
  /\ TryAsyncStay(c, "unmark")
  /\ UNCHANGED <<marker, count>>

\* currentRefreshes.Add(-1), then refreshTracker.Delete
UndoCount(c) ==
  /\ pc[c] = "undo"
  /\ count' = count - 1
  /\ TryAsyncStay(c, "unmark")
  /\ UNCHANGED marker

\* Variant: the marker is not deleted.
UndoMarkForgotten(c) ==
  /\ pc[c] = "unmark"
  /\ ReturnSeen(c)
  /\ Leaving

UndoMark(c) ==
  /\ pc[c] = "unmark"
  /\ marker' = [marker EXCEPT ![key[c]] = FALSE]
  /\ ReturnSeen(c)
  /\ UNCHANGED <<executes, floor, storeVars, flightVars, callVars,
                 refresherVars, count, shut, discarded>>

TryAsyncRefresh(c) ==
  \/ SkipRefresh(c)   \/ CheckShutdown(c) \/ ProbeMarker(c) \/ TrySet(c)
  \/ LaunchRefresh(c) \/ OverLimit(c)     \/ UndoCount(c)   \/ UndoMark(c)

-----------------------------------------------------------------------------
(* The background refresh goroutine.                                       *)

RefresherStep(r, from, to) ==
  /\ rpc[r] = from
  /\ rpc' = [rpc EXCEPT ![r] = to]
  /\ UNCHANGED <<callerVars, storeVars, callVars, shut, discarded>>

\* sfg.Do
RefresherDo(r) ==
  /\ RefresherStep(r, "do", "wait")
  /\ Join(rkey[r])
  /\ UNCHANGED <<rkey, marker, count>>

\* The deferred cleanup, which a panic reaches too: refreshTracker.Delete,
\* then currentRefreshes.Add(-1).
RefresherDelete(r) ==
  /\ RefresherStep(r, "unmark", "dec")
  /\ marker' = [marker EXCEPT ![rkey[r]] = FALSE]
  /\ UNCHANGED <<rkey, flightVars, count>>

\* Variant: the slot is not given back.
RefresherDecForgotten(r) ==
  /\ RefresherStep(r, "dec", "none")
  /\ rkey' = [rkey EXCEPT ![r] = NoKey]
  /\ UNCHANGED <<flightVars, marker, count>>

RefresherDec(r) ==
  /\ RefresherStep(r, "dec", "none")
  /\ rkey' = [rkey EXCEPT ![r] = NoKey]
  /\ count' = count - 1
  /\ UNCHANGED <<flightVars, marker>>

-----------------------------------------------------------------------------
(* safeCall, inside the singleflight call of k.                            *)

\* Variant: no refreshTimeout on the operation context.
OpDoneByShutdown(k) == k \in Keys /\ shut # "no"

\* The operation context of k's flight is done: refreshTimeout, or Shutdown.
OpDone(k) == dead[k] \/ shut # "no"

FlightStep(k, from, to, good) ==
  /\ stage[k] \in from
  /\ stage' = [stage EXCEPT ![k] = to]
  /\ ok' = [ok EXCEPT ![k] = good]
  /\ UNCHANGED <<callerVars, call, dead, callVars, refresherVars, marker,
                 count, shut>>

\* Variant: the error is dropped and the value returned.
FlightFailsSilently(k, from) ==
  /\ FlightStep(k, from, "end", TRUE)
  /\ discarded' = discarded \union {call[k]}
  /\ UNCHANGED storeVars

\* The flight of k reports an error, and its call's value is dropped.
FlightFails(k, from) ==
  /\ FlightStep(k, from, "end", FALSE)
  /\ discarded' = discarded \union {call[k]}
  /\ UNCHANGED storeVars

\* context.WithTimeout, then go func() { ... fn() ... }.  The callback has no
\* context: it is launched whether or not the engine is shutting down.
StartCallback(k) ==
  /\ stage[k] = "spawn"
  /\ stage' = [stage EXCEPT ![k] = "call"]
  /\ started' = started + 1
  /\ call' = [call EXCEPT ![k] = started + 1]
  /\ running' = running \union {<<started + 1, k>>}
  /\ UNCHANGED <<callerVars, storeVars, ok, dead, refresherVars, marker, count,
                 shut, discarded>>

Awaited(v, k) == stage[k] = "call" /\ call[k] = v

\* Call v, made by a flight of k, returns or panics, and sends its answer to
\* the channel of that flight...
CallAnswers(v, k) ==
  /\ Awaited(v, k)
  /\ stage' = [stage EXCEPT ![k] = "ready"]
  /\ \E good \in BOOLEAN : ok' = [ok EXCEPT ![k] = good]

\* ...or drops it, when the context of the flight is done.
CallDropped(v, k) ==
  /\ Awaited(v, k) => OpDone(k)
  /\ UNCHANGED <<stage, ok>>

\* Variant: a late answer is persisted by the callback's own goroutine.
CallReturnStores(v, k) ==
  /\ <<v, k>> \in running
  /\ running' = running \ {<<v, k>>}
  /\ \/ CallAnswers(v, k) /\ UNCHANGED stored
     \/ CallDropped(v, k) /\ stored' = [stored EXCEPT ![k] = v]
  /\ UNCHANGED <<callerVars, fresh, call, dead, started, refresherVars,
                 marker, count, shut, discarded>>

CallReturn(v, k) ==
  /\ <<v, k>> \in running
  /\ running' = running \ {<<v, k>>}
  /\ CallAnswers(v, k) \/ CallDropped(v, k)
  /\ UNCHANGED <<callerVars, storeVars, call, dead, started, refresherVars,
                 marker, count, shut, discarded>>

\* refreshTimeout runs out.
Deadline(k) ==
  /\ stage[k] \in {"call", "ready", "store"}
  /\ ~dead[k]
  /\ dead' = [dead EXCEPT ![k] = TRUE]
  /\ UNCHANGED <<callerVars, storeVars, stage, call, ok, callVars,
                 refresherVars, marker, count, shut, discarded>>

\* case <-opCtx.Done()
Abandon(k) ==
  /\ OpDone(k)
  /\ FlightFails(k, {"call", "ready"})

\* case r := <-resCh, with a value that transforms and serializes before the
\* deadline; a cancellation by Shutdown is not looked at here.
Receive(k) ==
  /\ ok[k]
  /\ ~dead[k]
  /\ FlightStep(k, {"ready"}, "store", TRUE)
  /\ UNCHANGED <<storeVars, discarded>>

\* The callback's own error, a failed transformation, serialization or TTL
\* calculation, or no time left.
ReceiveFails(k) == FlightFails(k, {"ready"})

\* storage.Set succeeds; it looks at its context once, on the way in, and may
\* commit after that has run out.
Store(k) ==
  /\ FlightStep(k, {"store"}, "end", TRUE)
  /\ stored' = [stored EXCEPT ![k] = call[k]]
  /\ fresh' = [fresh EXCEPT ![k] = TRUE]
  /\ UNCHANGED discarded

\* storage.Set fails: the flight returns its value all the same.
StoreFails(k) ==
  /\ OpDone(k) \/ SetMayFail
  /\ FlightStep(k, {"store"}, "end", TRUE)
  /\ UNCHANGED <<storeVars, discarded>>

SafeCall(k) ==
  \/ StartCallback(k) \/ Abandon(k) \/ Receive(k) \/ ReceiveFails(k)
  \/ Store(k) \/ StoreFails(k)

\* What the flight of k hands to its waiters; 0 is an error.
Result(k) == IF ok[k] THEN call[k] ELSE 0

\* singleflight forgets the key and delivers the result to every waiter, under
\* one lock.
FlightEnd(k) ==
  LET waits(c) == pc[c] = "wait" /\ key[c] = k IN
  /\ stage[k] = "end"
  /\ stage' = [stage EXCEPT ![k] = "idle"]
  /\ call' = [call EXCEPT ![k] = 0]
  /\ ok' = [ok EXCEPT ![k] = FALSE]
  /\ dead' = [dead EXCEPT ![k] = FALSE]
  /\ pc' = [c \in Callers |-> IF waits(c) THEN "got" ELSE pc[c]]
  /\ seen' = [c \in Callers |-> IF waits(c) THEN Result(k) ELSE seen[c]]
  /\ rpc' = [r \in Refreshers |->
               IF rpc[r] = "wait" /\ rkey[r] = k THEN "unmark" ELSE rpc[r]]
  /\ UNCHANGED <<executes, key, reply, floor, served, storeVars, callVars,
                 rkey, marker, count, shut, discarded>>

-----------------------------------------------------------------------------
(* The passing of time and the storage's own removals.                     *)

\* StaleAfter of the stored entry passes.
Age(k) ==
  /\ stored[k] # 0
  /\ fresh[k]
  /\ fresh' = [fresh EXCEPT ![k] = FALSE]
  /\ UNCHANGED <<callerVars, stored, flightVars, callVars, refresherVars,
                 marker, count, shut, discarded>>

\* The storage drops the entry: its TTL, or a Delete.
Evict(k) ==
  /\ stored[k] # 0
  /\ stored' = [stored EXCEPT ![k] = 0]
  /\ fresh' = [fresh EXCEPT ![k] = FALSE]
  /\ UNCHANGED <<callerVars, flightVars, callVars, refresherVars, marker,
                 count, shut, discarded>>

\* The tracker's TTL runs out while the refresh is still going.
MarkerExpire(k) ==
  /\ MarkerMayExpire
  /\ marker[k]
  /\ marker' = [marker EXCEPT ![k] = FALSE]
  /\ UNCHANGED <<callerVars, storeVars, flightVars, callVars, refresherVars,
                 count, shut, discarded>>

-----------------------------------------------------------------------------
(* Shutdown, which shutdownOnce runs once.                                 *)

ShutdownStep(from, to) ==
  /\ shut = from
  /\ shut' = to
  /\ UNCHANGED <<callerVars, storeVars, flightVars, callVars, refresherVars,
                 marker, count, discarded>>

\* shutdownCancel()
ShutdownBegin == ShutdownStep("no", "draining")

\* A tick finds currentRefreshes at 0: "all background refreshes completed".
ShutdownTick == count = 0 /\ ShutdownStep("draining", "drained")

\* Five seconds have passed.
ShutdownTimeout == ShutdownStep("draining", "timeout")

Shutdown == ShutdownBegin \/ ShutdownTick \/ ShutdownTimeout

-----------------------------------------------------------------------------
\* Every bounded Execute, and all the work it started, is over.
Quiet ==
  /\ \A c \in Callers : pc[c] = "idle"
  /\ \A k \in Keys : stage[k] = "idle" /\ ~marker[k]
  /\ \A r \in Refreshers : rpc[r] = "none"
  /\ count = 0

Done ==
  /\ Quiet
  /\ executes = MaxExecutes
  /\ running = {}
  /\ UNCHANGED vars

CallerStep(c) ==
  \/ DoChan(c) \/ CallerCancel(c) \/ TakeResult(c) \/ TryAsyncRefresh(c)

RefresherWork(r) == RefresherDo(r) \/ RefresherDelete(r) \/ RefresherDec(r)

KeyStep(k) ==
  \/ SafeCall(k) \/ FlightEnd(k) \/ Deadline(k)
  \/ Age(k) \/ Evict(k) \/ MarkerExpire(k)

Next ==
  \/ \E c \in Callers, k \in Keys : Execute(c, k)
  \/ \E c \in Callers : CallerStep(c)
  \/ \E r \in Refreshers : RefresherWork(r)
  \/ \E k \in Keys : KeyStep(k)
  \/ \E a \in running : CallReturn(a[1], a[2])
  \/ Shutdown
  \/ Done

Spec == Init /\ [][Next]_vars

\* The scheduler runs every goroutine that can run, and timers fire.  Nothing
\* makes a callback return, a caller cancel or Execute be called.
Fairness ==
  /\ \A c \in Callers :
       WF_vars(DoChan(c) \/ TakeResult(c) \/ TryAsyncRefresh(c))
  /\ \A r \in Refreshers : WF_vars(RefresherWork(r))
  /\ \A k \in Keys : WF_vars(SafeCall(k) \/ FlightEnd(k))
  /\ \A k \in Keys : WF_vars(Deadline(k))
  /\ WF_vars(ShutdownTick \/ ShutdownTimeout)

FairSpec == Spec /\ Fairness

-----------------------------------------------------------------------------
(* Properties.                                                             *)

Calls == Nat \ {0}

\* Every variable stays in its type: the goroutines are at known steps and
\* the counters are integers (currentRefreshes is never assumed positive).
TypeOK ==
  /\ executes \in Nat
  /\ pc \in [Callers -> CallerPCs]
  /\ key \in [Callers -> Keys \union {NoKey}]
  /\ \A c \in Callers : pc[c] # "idle" => key[c] \in Keys
  /\ seen \in [Callers -> Nat]
  /\ reply \in [Callers -> [status : Statuses, version : Nat]]
  /\ stored \in [Keys -> Nat]
  /\ fresh \in [Keys -> BOOLEAN]
  /\ stage \in [Keys -> Stages]
  /\ call \in [Keys -> Nat]
  /\ ok \in [Keys -> BOOLEAN]
  /\ dead \in [Keys -> BOOLEAN]
  /\ started \in Calls
  /\ running \in SUBSET (Calls \X Keys)
  /\ rpc \in [Refreshers -> RefresherPCs]
  /\ rkey \in [Refreshers -> Keys \union {NoKey}]
  /\ \A r \in Refreshers : rpc[r] # "none" => rkey[r] \in Keys
  /\ marker \in [Keys -> BOOLEAN]
  /\ count \in Int
  /\ shut \in {"no", "draining", "drained", "timeout"}
  /\ floor \in [Callers -> Nat]
  /\ served \in [Keys -> Nat]
  /\ discarded \in SUBSET Nat

\* Two upstream calls of one key run at once only when the flight of the older
\* one has given it up (safeCall returned at its deadline or at Shutdown while
\* the context-free callback went on): singleflight admits no other overlap.
OverlapOnlyAfterAbandon ==
  \A a, b \in running : a[2] = b[2] /\ a[1] < b[1] => a[1] \in discarded

\* A call whose flight reported an error is never persisted and never served,
\* however late its callback returns: its answer goes to a channel nobody
\* reads, not to the flight that has replaced it.
NoDiscardedResult ==
  /\ \A k \in Keys : stored[k] \notin discarded
  /\ \A c \in Callers : reply[c].version \notin discarded

\* The storage never goes back to the answer of an older upstream call; an
\* entry only gives way to a newer one or is removed.
StoreNeverRegresses ==
  [][\A k \in Keys : stored'[k] >= stored[k] \/ stored'[k] = 0]_vars

\* Execute never answers with a version older than one already returned for
\* the key when it began, whether it reads the store, waits for a flight or
\* rebuilds the entry.
NoTimeTravel ==
  \A c \in Callers : reply[c].version # 0 => reply[c].version >= floor[c]

\* The engine is a monotone cache: every step of its flights, callers and
\* background refreshes is a step of the abstract cache or changes nothing a
\* caller can see.
Cache == INSTANCE MonotoneCache WITH
  cache     <- stored,
  fetched   <- started,
  withdrawn <- discarded,
  asking    <- key,
  reply     <- [c \in Callers |-> reply[c].version]

ImplementsCache == Cache!Spec

LiveRefreshers == {r \in Refreshers : rpc[r] # "none"}
Undoing        == {c \in Callers : pc[c] = "undo"}

\* currentRefreshes is exactly the refresh goroutines alive plus the callers
\* between its Add(1) and the Add(-1) that undoes it: no path leaks or
\* returns a slot twice.
CounterMatchesHolders ==
  count = Cardinality(LiveRefreshers) + Cardinality(Undoing)

\* At most MaxConcurrentRefreshes background refresh goroutines are alive,
\* although every caller adds to the counter before it looks at it.
RefreshBound == Cardinality(LiveRefreshers) =< MaxConcurrentRefreshes

\* Who has set the refresh marker of k and has not deleted it yet.
CallerHolds(c, k)    == pc[c] \in {"count", "undo", "unmark"} /\ key[c] = k
RefresherHolds(r, k) == rpc[r] \in {"do", "wait", "unmark"} /\ rkey[r] = k

OwnedOnce(k) ==
  /\ marker[k] <=> \/ \E c \in Callers : CallerHolds(c, k)
                   \/ \E r \in Refreshers : RefresherHolds(r, k)
  /\ \A c, d \in Callers : CallerHolds(c, k) /\ CallerHolds(d, k) => c = d
  /\ \A r, s \in Refreshers :
       RefresherHolds(r, k) /\ RefresherHolds(s, k) => r = s
  /\ \A c \in Callers, r \in Refreshers :
       ~(CallerHolds(c, k) /\ RefresherHolds(r, k))

\* The refresh marker of a key is up exactly while one holder is: never two
\* refreshes of a key at once, no Delete of somebody else's marker, and no
\* marker left behind by a refresh that was given up.
MarkerOwned == \A k \in Keys : OwnedOnce(k)

\* Every Execute returns although callbacks may hang for ever: refreshTimeout
\* ends the flight a caller waits for.
ExecuteReturns == \A c \in Callers : pc[c] # "idle" ~> pc[c] = "idle"

\* When callers stop coming, the engine comes to rest although callbacks hang:
\* the counter returns to 0, and no marker, flight or goroutine is left.
ComesToRest == <>[]Quiet

-----------------------------------------------------------------------------
(* What the comments of the code say and the code does not keep.           *)

\* "Single upstream call per key at any time" (Execute).
SingleUpstreamCall == \A a, b \in running : a[2] = b[2] => a = b

\* "all background refreshes completed" (Shutdown).
DrainedMeansNoRefresh == shut = "drained" => LiveRefreshers = {}

=============================================================================
