------------------------- MODULE BadgerStorageProofs -------------------------
(***************************************************************************)
(* What BadgerStorage keeps for every number of openings, users and        *)
(* closers, and every limit of the GC loop.                                *)
(***************************************************************************)
EXTENDS BadgerStorage, TLAPS

-----------------------------------------------------------------------------
(* Types, and the counters of the GC loop.                                 *)

\* The loop starts with the store; a round starts from zero, and goes on below
\* the limit only.
RoundInv ==
  /\ store = NoAttempt => gc = "none"
  /\ gc \in {"none", "select"} => rewrites = 0
  /\ gc = "run" => rewrites < MaxRewrites

Typed == TypeOK /\ RoundInv /\ GCPaced

LEMMA RoundLimitInRange == RoundLimit \in Nat /\ RoundLimit =< MaxRewrites
  BY LimitAssumption DEF RoundLimit

LEMMA TypedInit == Init => Typed
<1> SUFFICES ASSUME Init
             PROVE  Typed
  OBVIOUS
<1>1. rewrites \in 0..MaxRewrites /\ successes \in 0..SuccessLimit + 1
      /\ failures \in 0..FailureLimit + 1
  BY LimitAssumption DEF Init
<1>2. QED
  BY <1>1 DEF Init, Typed, TypeOK, RoundInv, GCPaced

\* However a round ends, its counters stay apart and in range.
LEMMA RoundEndPaces ==
  ASSUME NEW rewrote \in BOOLEAN, NEW s \in Nat, NEW f \in Nat,
         rewrote \/ s = 0 \/ f = 0
  PROVE  LET newS == Capped(IF rewrote THEN s + 1 ELSE s, SuccessLimit)
             newF == IF rewrote THEN 0 ELSE Capped(f, FailureLimit)
         IN  /\ newS \in 0..SuccessLimit + 1
             /\ newF \in 0..FailureLimit + 1
             /\ newS = 0 \/ newF = 0
  BY LimitAssumption DEF Capped

LEMMA TypedStep == Typed /\ [Next]_vars => Typed'
<1> SUFFICES ASSUME Typed, [Next]_vars
             PROVE  Typed'
  OBVIOUS
<1>a. TypeOK /\ RoundInv /\ GCPaced
  BY DEF Typed
<1> USE DEF Typed, TypeOK, RoundInv, GCPaced
<1>1. ASSUME NEW a \in Attempts,
             NewRefused(a) \/ NewOpens(a) \/ NewReturns(a)
      PROVE  Typed'
  <2> USE DEF NewStep, gcVars, closeVars, userVars
  <2>1. CASE NewRefused(a) BY <1>a, <2>1 DEF NewRefused
  <2>2. CASE NewOpens(a) BY <1>a, <2>2 DEF NewOpens
  <2>3. CASE NewCancelled(a) BY <1>a, <2>3 DEF NewCancelled
  <2>4. CASE NewFails(a) BY <1>a, <2>4 DEF NewFails
  <2>5. CASE NewSucceeds(a)
    <3>1. CASE store = NoAttempt
      BY <1>a, <2>5, <3>1, AttemptAssumption DEF NewSucceeds
    <3>2. CASE store # NoAttempt
      BY <1>a, <2>5, <3>2 DEF NewSucceeds
    <3>3. QED
      BY <3>1, <3>2
  <2>6. QED BY <1>1, <2>1, <2>2, <2>3, <2>4, <2>5 DEF NewReturns
<1>2. ASSUME NEW a \in Attempts, ContextEnds(a) \/ OpenReturns(a) \/ Reap(a)
      PROVE  Typed'
  <2> USE DEF gcVars, closeVars, userVars
  <2>1. CASE ContextEnds(a) BY <1>a, <2>1 DEF ContextEnds
  <2>2. CASE OpenReturns(a) BY <1>a, <2>2 DEF OpenReturns
  <2>3. CASE Reap(a) BY <1>a, <2>3 DEF Reap
  <2>4. QED BY <1>2, <2>1, <2>2, <2>3
<1>3. ASSUME NEW u \in Users, Operation(u) \/ Transact(u)
      PROVE  Typed'
  <2>1. UNCHANGED <<openVars, handle, store, closeVars, gcVars>>
    BY <1>3 DEF Operation, Transact
  <2>2. PICK step \in {"idle", "use"} : upc' = [upc EXCEPT ![u] = step]
    BY <1>3 DEF Operation, Transact
  <2>3. PICK isLate \in BOOLEAN : late' = [late EXCEPT ![u] = isLate]
    <3>1. ACloseReturned \in BOOLEAN
      BY DEF ACloseReturned
    <3>2. QED
      BY <1>3, <3>1 DEF Operation, Transact
  <2>4. upc' \in [Users -> {"idle", "use"}] /\ late' \in [Users -> BOOLEAN]
    BY <1>a, <2>2, <2>3
  <2>5. QED
    BY <1>a, <2>1, <2>4 DEF openVars, closeVars, gcVars
<1>4. ASSUME NEW c \in Closers, CloseBegins(c) \/ CloseGoesOn(c)
      PROVE  Typed'
  <2> USE DEF CloseStep, openVars, gcVars, userVars
  <2>1. CASE CloseBegins(c) BY <1>a, <2>1 DEF CloseBegins
  <2>2. CASE CloseFlags(c) BY <1>a, <2>2 DEF CloseFlags
  <2>3. CASE CloseSignals(c) BY <1>a, <2>3 DEF CloseSignals
  <2>4. CASE CloseWaits(c) BY <1>a, <2>4 DEF CloseWaits
  <2>5. CASE CloseHandle(c) BY <1>a, <2>5 DEF CloseHandle
  <2>6. CASE CloseAgain(c) BY <1>a, <2>6 DEF CloseAgain
  <2>7. QED BY <1>4, <2>1, <2>2, <2>3, <2>4, <2>5, <2>6 DEF CloseGoesOn
<1>5. ASSUME RunValueLogGC \/ GCStops
      PROVE  Typed'
  <2>a. /\ rewrites \in 0..MaxRewrites /\ MaxRewrites \in Nat \ {0}
        /\ successes \in Nat /\ failures \in Nat
        /\ SuccessLimit \in Nat /\ FailureLimit \in Nat
    BY <1>a, LimitAssumption
  <2>b. ASSUME UNCHANGED <<openVars, handle, store, closeVars, userVars>>,
               gc' \in {"none", "select", "run", "pause", "backoff", "gone"},
               rewrites' \in 0..MaxRewrites,
               successes' \in 0..SuccessLimit + 1,
               failures' \in 0..FailureLimit + 1,
               RoundInv', GCPaced'
        PROVE  Typed'
    <3>1. TypeOK'
      BY <1>a, <2>b DEF openVars, closeVars, userVars
    <3>2. QED
      BY <2>b, <3>1
  <2>1. CASE GCTick
    BY <1>a, <2>a, <2>1, <2>b DEF GCTick, GCStep
  <2>2. CASE GCRewrites
    BY <1>a, <2>a, <2>2, <2>b DEF GCRewrites, GCStep
  <2>3. CASE GCNothingLeft
    <3> DEFINE s == IF rewrites > 0 THEN successes + 1 ELSE successes
    <3>1. EndRound(rewrites > 0, s, failures) /\ GCStep({"run"}, "select")
      BY <2>3 DEF GCNothingLeft
    <3>2. s \in Nat /\ (rewrites > 0 \/ s = 0 \/ failures = 0)
      BY <1>a, <2>a
    <3>3. /\ rewrites' = 0
          /\ successes' \in 0..SuccessLimit + 1
          /\ failures' \in 0..FailureLimit + 1
          /\ successes' = 0 \/ failures' = 0
      <4>1. (rewrites > 0) \in BOOLEAN
        OBVIOUS
      <4> HIDE DEF s
      <4>2. QED BY <2>a, <3>1, <3>2, <4>1, RoundEndPaces DEF EndRound
    <3>4. QED
      BY <2>a, <2>b, <3>1, <3>3 DEF GCStep
  <2>4. CASE GCFails
    <3>1. EndRound(rewrites > 0, 0, failures + 1) /\ GCStep({"run"}, "select")
      BY <2>4 DEF GCFails
    <3>2. /\ rewrites' = 0
          /\ successes' \in 0..SuccessLimit + 1
          /\ failures' \in 0..FailureLimit + 1
          /\ successes' = 0 \/ failures' = 0
      <4>1. (rewrites > 0) \in BOOLEAN /\ 0 \in Nat /\ failures + 1 \in Nat
        BY <2>a
      <4>2. QED
        BY <3>1, <4>1, RoundEndPaces DEF EndRound
    <3>3. QED
      BY <2>a, <2>b, <3>1, <3>2 DEF GCStep
  <2>5. CASE GCBacksOff
    <3>1. /\ GCStep({"run"}, "backoff") /\ successes' = 0 /\ rewrites' = rewrites
          /\ failures' = Capped(failures + 1, FailureLimit)
          /\ failures + 1 > FailureLimit
      BY <2>5 DEF GCBacksOff
    <3>2. failures' \in 0..FailureLimit + 1 /\ failures' > FailureLimit
      BY <2>a, <3>1 DEF Capped
    <3>3. QED
      BY <2>a, <2>b, <3>1, <3>2 DEF GCStep
  <2>6. CASE GCWakes
    <3>1. ASSUME NEW rewrote \in BOOLEAN, EndRound(rewrote, successes, failures),
                 GCStep({"backoff", "pause"}, "select")
          PROVE  Typed'
      <4>1. /\ rewrites' = 0
            /\ successes' \in 0..SuccessLimit + 1
            /\ failures' \in 0..FailureLimit + 1
            /\ successes' = 0 \/ failures' = 0
        BY <1>a, <2>a, <3>1, RoundEndPaces DEF EndRound
      <4>2. QED
        BY <2>a, <2>b, <3>1, <4>1 DEF GCStep
    <3>2. ASSUME GCStep({"pause"}, "run"), rewrites < RoundLimit,
                 UNCHANGED <<rewrites, successes, failures>>
          PROVE  Typed'
      BY <1>a, <2>a, <2>b, <3>2, RoundLimitInRange DEF GCStep
    <3>3. \/ /\ GCStep({"backoff"}, "select")
             /\ EndRound(rewrites > 0, successes, failures)
          \/ /\ rewrites < RoundLimit
             /\ GCStep({"pause"}, "run")
             /\ UNCHANGED <<rewrites, successes, failures>>
          \/ /\ GCStep({"pause"}, "select")
             /\ EndRound(TRUE, successes, failures)
      BY <2>6 DEF GCWakes
    <3>4. GCStep({"backoff"}, "select") => GCStep({"backoff", "pause"}, "select")
      BY DEF GCStep
    <3>5. GCStep({"pause"}, "select") => GCStep({"backoff", "pause"}, "select")
      BY DEF GCStep
    <3>6. (rewrites > 0) \in BOOLEAN /\ TRUE \in BOOLEAN
      OBVIOUS
    <3>7. QED
      BY <3>1, <3>2, <3>3, <3>4, <3>5, <3>6
  <2>7. CASE GCStops
    BY <1>a, <2>a, <2>7, <2>b DEF GCStops, GCStep
  <2>8. QED
    BY <1>5, <2>1, <2>2, <2>3, <2>4, <2>5, <2>6, <2>7 DEF RunValueLogGC
<1>6. ASSUME UNCHANGED vars
      PROVE  Typed'
  BY <1>a, <1>6 DEF vars, openVars, closeVars, gcVars, userVars
<1>7. QED
  BY <1>1, <1>2, <1>3, <1>4, <1>5, <1>6 DEF Next, Done

LEMMA TypedInvariant == Spec => []Typed
  BY TypedInit, TypedStep, PTL DEF Spec

\* Type correctness of opening, operations, Close and the GC loop; a round
\* makes no more rewrites than maxAttempts.
THEOREM Typing == Spec => []TypeOK
<1>1. Typed => TypeOK
  BY DEF Typed
<1>2. QED
  BY TypedInvariant, <1>1, PTL

\* The counters that make the GC loop do less and back off are never both
\* positive, in whatever order rewrites, errors and empty rounds come.
THEOREM GCPacing == Spec => []GCPaced
<1>1. Typed => GCPaced
  BY DEF Typed
<1>2. QED
  BY TypedInvariant, <1>1, PTL

-----------------------------------------------------------------------------
(* Handles, the store and Close.                                           *)

\* Between badger.Open and its caller the handle is in resCh, and a caller that
\* went away while it may still come has left a reaper.
OpenInv == \A a \in Attempts :
  /\ opening[a] => resCh[a] = "empty" /\ handle[a] = "none"
  /\ npc[a] \in {"start", "got"} => ~opening[a] /\ resCh[a] = "empty"
  /\ npc[a] = "start" => handle[a] = "none"
  /\ reaper[a] => npc[a] = "failed"
  /\ npc[a] = "failed" /\ (opening[a] \/ resCh[a] = "db") => reaper[a]
  /\ resCh[a] = "db" => handle[a] = "open"
  /\ handle[a] = "open" => npc[a] = "got" \/ resCh[a] = "db"

\* There is a store to close only after NewBadgerStorage has returned one.
StoreInv ==
  /\ store # NoAttempt => npc[store] = "got" /\ gc # "none"
  /\ store = NoAttempt => once = "no" /\ \A c \in Closers : cpc[c] = "idle"
  /\ GCOnOpenHandle

Closing(c) == cpc[c] \in {"flag", "signal", "wait", "db"}

\* One caller runs the function of closeOnce; what it has done by each step, and
\* what is true for good when it has ended.
CloseInv ==
  /\ \A c \in Closers : Closing(c) => once = "running"
  /\ \A c, d \in Closers : Closing(c) /\ Closing(d) => c = d
  /\ \A c \in Closers : cpc[c] \in {"signal", "wait", "db"} => closed
  /\ \A c \in Closers : cpc[c] = "db" => gc = "gone"
  /\ \A c \in Closers : cpc[c] = "returned" => once = "done"
  /\ once = "done" => closed /\ gc = "gone" /\ handle[store] = "closed"
  /\ \A u \in Users : ~late[u]

LifeInv == Typed /\ OpenInv /\ StoreInv /\ CloseInv

LEMMA LifeInit == Init => LifeInv
  BY TypedInit DEF Init, LifeInv, OpenInv, StoreInv, GCOnOpenHandle, CloseInv,
     Closing

\* What touches neither the opening of a handle nor a handle keeps OpenInv.
LEMMA OpenUntouched ==
  OpenInv /\ UNCHANGED <<npc, resCh, opening, reaper, handle>> => OpenInv'
  BY DEF OpenInv

\* Opening keeps to its own attempt: the store and its Close are not disturbed
\* by what happens to the handle of an attempt that has not returned.
LEMMA OthersUntouched ==
  ASSUME NEW a \in Attempts,
         Typed, StoreInv, CloseInv,
         npc[a] # "got",
         UNCHANGED <<store, closeVars, gcVars, userVars>>,
         \A b \in Attempts \ {a} : npc'[b] = npc[b] /\ handle'[b] = handle[b]
  PROVE  StoreInv' /\ CloseInv'
<1>1. store # NoAttempt => store \in Attempts /\ store # a
  BY DEF Typed, TypeOK, StoreInv
<1>2. store # NoAttempt =>
        npc'[store] = npc[store] /\ handle'[store] = handle[store]
  BY <1>1
<1>3. store = NoAttempt => gc = "none" /\ once = "no"
  BY DEF Typed, RoundInv, StoreInv
<1>4. StoreInv'
  BY <1>2, <1>3 DEF StoreInv, GCOnOpenHandle, closeVars, gcVars
<1>5. CloseInv'
  BY <1>2, <1>3 DEF CloseInv, Closing, closeVars, gcVars, userVars
<1>6. QED
  BY <1>4, <1>5

\* Opening and reaping.
LEMMA OpenStepKeeps ==
  ASSUME LifeInv, NEW a \in Attempts,
         \/ NewRefused(a) \/ NewOpens(a) \/ NewCancelled(a) \/ NewFails(a)
         \/ ContextEnds(a) \/ OpenReturns(a) \/ Reap(a)
  PROVE  OpenInv' /\ StoreInv' /\ CloseInv'
<1>a. TypeOK /\ OpenInv /\ Typed /\ StoreInv /\ CloseInv
  BY DEF LifeInv, Typed
<1> USE DEF NewStep
<1>b. /\ npc \in [Attempts -> {"start", "select", "got", "failed"}]
      /\ resCh \in [Attempts -> {"empty", "db", "error"}]
      /\ opening \in [Attempts -> BOOLEAN]
      /\ reaper \in [Attempts -> BOOLEAN]
      /\ handle \in [Attempts -> {"none", "open", "closed"}]
  BY <1>a DEF TypeOK
<1>1. CASE NewRefused(a)
  <2>1. OpenInv'
    BY <1>a, <1>b, <1>1 DEF NewRefused, OpenInv
  <2>2. QED
    BY <1>a, <1>b, <1>1, <2>1, OthersUntouched DEF NewRefused
<1>2. CASE NewOpens(a)
  <2>1. OpenInv'
    BY <1>a, <1>b, <1>2 DEF NewOpens, OpenInv
  <2>2. QED
    BY <1>a, <1>b, <1>2, <2>1, OthersUntouched DEF NewOpens
<1>3. CASE NewCancelled(a)
  <2>1. OpenInv'
    BY <1>a, <1>b, <1>3 DEF NewCancelled, OpenInv
  <2>2. QED
    BY <1>a, <1>b, <1>3, <2>1, OthersUntouched DEF NewCancelled
<1>4. CASE NewFails(a)
  <2>1. OpenInv'
    BY <1>a, <1>b, <1>4 DEF NewFails, OpenInv
  <2>2. QED
    BY <1>a, <1>b, <1>4, <2>1, OthersUntouched DEF NewFails
<1>5. CASE ContextEnds(a)
  <2>1. OpenInv'
    BY <1>a, <1>5, OpenUntouched DEF ContextEnds
  <2>2. StoreInv' /\ CloseInv'
    BY <1>a, <1>5 DEF ContextEnds, StoreInv, GCOnOpenHandle, CloseInv, Closing,
       closeVars, gcVars, userVars
  <2>3. QED
    BY <2>1, <2>2
<1>6. CASE OpenReturns(a)
  <2>1. OpenInv'
    BY <1>a, <1>b, <1>6 DEF OpenReturns, OpenInv
  <2>2. npc[a] # "got"
    BY <1>a, <1>6 DEF OpenReturns, OpenInv
  <2>3. QED
    BY <1>a, <1>b, <1>6, <2>1, <2>2, OthersUntouched DEF OpenReturns
<1>7. CASE Reap(a)
  <2>1. OpenInv'
    BY <1>a, <1>b, <1>7 DEF Reap, OpenInv
  <2>2. npc[a] # "got"
    BY <1>a, <1>7 DEF Reap, OpenInv
  <2>3. QED
    BY <1>a, <1>b, <1>7, <2>1, <2>2, OthersUntouched DEF Reap
<1>8. QED
  BY <1>1, <1>2, <1>3, <1>4, <1>5, <1>6, <1>7

\* The caller takes the handle; the first one that does has the store.
LEMMA NewSucceedsKeeps ==
  ASSUME LifeInv, NEW a \in Attempts, NewSucceeds(a)
  PROVE  OpenInv' /\ StoreInv' /\ CloseInv'
<1>a. TypeOK /\ OpenInv /\ Typed /\ StoreInv /\ CloseInv /\ a # NoAttempt
  BY AttemptAssumption DEF LifeInv, Typed
<1>b. /\ resCh[a] = "db" /\ npc[a] = "select"
      /\ npc' = [npc EXCEPT ![a] = "got"]
      /\ resCh' = [resCh EXCEPT ![a] = "empty"]
      /\ UNCHANGED <<opening, reaper, handle, closeVars, userVars>>
  BY DEF NewSucceeds, NewStep
<1>1. OpenInv'
  BY <1>a, <1>b DEF TypeOK, OpenInv
<1>2. CASE store = NoAttempt
  <2>1. store' = a /\ gc' = "select" /\ gc = "none"
    BY <1>a, <1>2 DEF NewSucceeds, Typed, RoundInv
  <2>2. npc'[store'] = "got" /\ handle'[store'] = "open"
    BY <1>a, <1>b, <2>1 DEF TypeOK, OpenInv
  <2>3. StoreInv'
    BY <1>a, <2>1, <2>2 DEF StoreInv, GCOnOpenHandle
  <2>4. CloseInv'
    BY <1>a, <1>b, <1>2 DEF StoreInv, CloseInv, Closing, closeVars, userVars
  <2>5. QED
    BY <1>1, <2>3, <2>4
<1>3. CASE store # NoAttempt
  <2>1. UNCHANGED <<store, gc>>
    BY <1>3 DEF NewSucceeds
  <2>2. store \in Attempts /\ npc'[store] = "got"
    BY <1>a, <1>b, <1>3 DEF TypeOK, StoreInv
  <2>3. StoreInv'
    BY <1>a, <1>b, <1>3, <2>1, <2>2 DEF StoreInv, GCOnOpenHandle
  <2>4. CloseInv'
    BY <1>a, <1>b, <2>1 DEF CloseInv, Closing, closeVars, userVars
  <2>5. QED
    BY <1>1, <2>3, <2>4
<1>4. QED
  BY <1>2, <1>3

\* An operation that has passed the flag began before any Close returned.
LEMMA OperationKeeps ==
  ASSUME LifeInv, NEW u \in Users, Operation(u) \/ Transact(u)
  PROVE  OpenInv' /\ StoreInv' /\ CloseInv'
<1>a. TypeOK /\ OpenInv /\ StoreInv /\ CloseInv
  BY DEF LifeInv, Typed
<1>1. UNCHANGED <<openVars, handle, store, closeVars, gcVars>>
  BY DEF Operation, Transact
<1>2. ~late'[u]
  <2>1. CASE Operation(u)
    BY <1>a, <2>1 DEF Operation, Accept, ACloseReturned, TypeOK, CloseInv
  <2>2. CASE Transact(u)
    BY <1>a, <2>2 DEF Transact, TypeOK
  <2>3. QED
    BY <2>1, <2>2
<1>3. \A v \in Users \ {u} : late'[v] = late[v]
  BY <1>a DEF Operation, Transact, TypeOK
<1>4. CloseInv'
  BY <1>a, <1>1, <1>2, <1>3 DEF CloseInv, Closing, closeVars, gcVars
<1>5. OpenInv' /\ StoreInv'
  BY <1>a, <1>1, OpenUntouched
  DEF StoreInv, GCOnOpenHandle, openVars, closeVars, gcVars
<1>6. QED
  BY <1>4, <1>5

\* Close.
LEMMA CloseKeeps ==
  ASSUME LifeInv, NEW c \in Closers, CloseBegins(c) \/ CloseGoesOn(c)
  PROVE  OpenInv' /\ StoreInv' /\ CloseInv'
<1>a. TypeOK /\ OpenInv /\ StoreInv /\ CloseInv
  BY DEF LifeInv, Typed
<1>b. UNCHANGED <<openVars, store, gcVars, userVars>> /\ store # NoAttempt
  BY <1>a DEF CloseBegins, CloseGoesOn, CloseFlags, CloseSignals, CloseWaits,
     CloseHandle, CloseAgain, CloseStep, StoreInv
<1>c. store \in Attempts /\ npc[store] = "got"
  BY <1>a, <1>b DEF TypeOK, StoreInv
<1>1. CASE UNCHANGED handle
  <2>1. OpenInv' /\ StoreInv'
    BY <1>a, <1>b, <1>1, OpenUntouched
    DEF StoreInv, GCOnOpenHandle, openVars, gcVars
  <2> USE DEF CloseStep, TypeOK, CloseInv, Closing, gcVars, userVars
  <2>2. CASE CloseBegins(c) BY <1>a, <1>b, <1>1, <2>1, <2>2 DEF CloseBegins
  <2>3. CASE CloseFlags(c) BY <1>a, <1>b, <1>1, <2>1, <2>3 DEF CloseFlags
  <2>4. CASE CloseSignals(c) BY <1>a, <1>b, <1>1, <2>1, <2>4 DEF CloseSignals
  <2>5. CASE CloseWaits(c) BY <1>a, <1>b, <1>1, <2>1, <2>5 DEF CloseWaits
  <2>6. CASE CloseAgain(c) BY <1>a, <1>b, <1>1, <2>1, <2>6 DEF CloseAgain
  <2>7. ASSUME CloseHandle(c) PROVE CloseInv'
    BY <1>a, <1>b, <1>c, <1>1, <2>7 DEF CloseHandle
  <2>8. QED
    BY <2>1, <2>2, <2>3, <2>4, <2>5, <2>6, <2>7 DEF CloseGoesOn
<1>2. CASE CloseHandle(c)
  <2>1. /\ cpc[c] = "db" /\ gc = "gone" /\ closed
        /\ cpc' = [cpc EXCEPT ![c] = "returned"]
        /\ handle' = [handle EXCEPT ![store] = "closed"]
        /\ once' = "done" /\ UNCHANGED closed
    BY <1>a, <1>2 DEF CloseHandle, CloseStep, CloseInv
  <2>2. OpenInv'
    BY <1>a, <1>b, <1>c, <2>1 DEF TypeOK, OpenInv, openVars
  <2>3. StoreInv'
    BY <1>a, <1>b, <1>c, <2>1 DEF StoreInv, GCOnOpenHandle, openVars, gcVars
  <2>4. \A d \in Closers : ~Closing(d)'
    BY <1>a, <2>1 DEF TypeOK, CloseInv, Closing
  <2>5. handle'[store'] = "closed"
    BY <1>a, <1>b, <1>c, <2>1 DEF TypeOK
  <2>6. CloseInv'
    BY <1>a, <1>b, <2>1, <2>4, <2>5 DEF CloseInv, Closing, gcVars, userVars
  <2>7. QED
    BY <2>2, <2>3, <2>6
<1>3. QED
  BY <1>1, <1>2 DEF CloseBegins, CloseGoesOn, CloseFlags, CloseSignals,
     CloseWaits, CloseAgain

\* The GC loop: once gone it does not come back.
LEMMA GCKeeps ==
  ASSUME LifeInv, RunValueLogGC \/ GCStops
  PROVE  OpenInv' /\ StoreInv' /\ CloseInv'
<1>a. TypeOK /\ OpenInv /\ StoreInv /\ CloseInv
  BY DEF LifeInv, Typed
<1>1. /\ UNCHANGED <<openVars, handle, store, closeVars, userVars>>
      /\ gc \notin {"none", "gone"}
      /\ gc' # "none"
  BY DEF RunValueLogGC, GCStops, GCTick, GCRewrites, GCNothingLeft, GCFails,
     GCBacksOff, GCWakes, GCStep
<1>2. OpenInv'
  BY <1>a, <1>1, OpenUntouched DEF openVars
<1>3. StoreInv'
  BY <1>a, <1>1 DEF StoreInv, GCOnOpenHandle, openVars, closeVars
<1>4. CloseInv'
  BY <1>a, <1>1 DEF CloseInv, Closing, closeVars, userVars
<1>5. QED
  BY <1>2, <1>3, <1>4

LEMMA LifeStep == LifeInv /\ [Next]_vars => LifeInv'
<1> SUFFICES ASSUME LifeInv, [Next]_vars
             PROVE  LifeInv'
  OBVIOUS
<1>1. Typed'
  BY TypedStep DEF LifeInv
<1>2. ASSUME UNCHANGED vars
      PROVE  OpenInv' /\ StoreInv' /\ CloseInv'
  BY <1>2, OpenUntouched DEF LifeInv, StoreInv, GCOnOpenHandle, CloseInv,
     Closing, vars, openVars, closeVars, gcVars, userVars
<1>3. OpenInv' /\ StoreInv' /\ CloseInv'
  BY <1>2, OpenStepKeeps, NewSucceedsKeeps, OperationKeeps, CloseKeeps, GCKeeps
  DEF Next, NewReturns, Done
<1>4. QED
  BY <1>1, <1>3 DEF LifeInv

LEMMA LifeInvariant == Spec => []LifeInv
  BY LifeInit, LifeStep, PTL DEF Spec

\* No open handle is lost, whenever the context ends and whichever case the
\* select of NewBadgerStorage picks.
THEOREM HandlesOwned == Spec => []HandleOwned
<1>1. LifeInv => HandleOwned
  BY DEF LifeInv, Typed, TypeOK, OpenInv, HandleOwned
<1>2. QED
  BY LifeInvariant, <1>1, PTL

\* The GC loop never runs on a handle that Close has closed.
THEOREM GCHandleOpen == Spec => []GCOnOpenHandle
<1>1. LifeInv => GCOnOpenHandle
  BY DEF LifeInv, StoreInv
<1>2. QED
  BY LifeInvariant, <1>1, PTL

\* A Close that has returned, the first or a concurrent one, means a closed
\* handle, no GC loop and no operation past the flag that began later.
THEOREM CloseIsClosed == Spec => []CloseMeansClosed
<1>1. LifeInv => CloseMeansClosed
  BY DEF LifeInv, CloseInv, CloseMeansClosed, ACloseReturned
<1>2. QED
  BY LifeInvariant, <1>1, PTL

-----------------------------------------------------------------------------
(* Close does each thing once.                                             *)

\* doneCh and the handle are closed by the caller that runs the function of
\* closeOnce; the GC loop leaves only when doneCh is closed.
OnceInv ==
  /\ once = "no" => ~done
  /\ \A c \in Closers : cpc[c] \in {"flag", "signal"} => ~done
  /\ \A c \in Closers : cpc[c] \in {"wait", "db"} => done
  /\ \A c \in Closers : cpc[c] = "blocked" => once # "no"
  /\ once = "running" => \E c \in Closers : Closing(c)
  /\ store # NoAttempt /\ once # "done" => handle[store] = "open"

\* What leaves the closers and the handle of the store alone keeps OnceInv.
LEMMA OnceUntouched ==
  OnceInv /\ UNCHANGED <<closeVars, store>>
  /\ (store # NoAttempt => handle'[store] = handle[store]) => OnceInv'
  BY DEF OnceInv, Closing, closeVars

LEMMA OnceOpenKeeps ==
  ASSUME LifeInv, OnceInv, NEW a \in Attempts,
         \/ NewRefused(a) \/ NewOpens(a) \/ NewCancelled(a) \/ NewFails(a)
         \/ ContextEnds(a) \/ OpenReturns(a) \/ Reap(a)
  PROVE  OnceInv'
<1>a. TypeOK /\ OpenInv /\ StoreInv
  BY DEF LifeInv, Typed
<1>1. UNCHANGED <<closeVars, store>>
  BY DEF NewRefused, NewOpens, NewCancelled, NewFails, NewStep, ContextEnds,
     OpenReturns, Reap
<1>2. handle' = handle \/ OpenReturns(a) \/ Reap(a)
  BY DEF NewRefused, NewOpens, NewCancelled, NewFails, ContextEnds
<1>3. OpenReturns(a) \/ Reap(a) =>
        /\ opening[a] \/ reaper[a]
        /\ \A b \in Attempts : b # a => handle'[b] = handle[b]
  BY <1>a DEF TypeOK, OpenReturns, Reap
<1>4. store # NoAttempt => store \in Attempts /\ npc[store] = "got"
  BY <1>a DEF TypeOK, StoreInv
<1>5. opening[a] \/ reaper[a] => npc[a] # "got"
  BY <1>a DEF OpenInv
<1>6. store # NoAttempt => handle'[store] = handle[store]
  BY <1>2, <1>3, <1>4, <1>5
<1>7. QED
  BY <1>1, <1>6, OnceUntouched

\* The first store is opened before any Close.
LEMMA OnceNewKeeps ==
  ASSUME LifeInv, OnceInv, NEW a \in Attempts, NewSucceeds(a)
  PROVE  OnceInv'
<1>a. TypeOK /\ OpenInv /\ StoreInv
  BY DEF LifeInv, Typed
<1>1. resCh[a] = "db" /\ handle' = handle /\ UNCHANGED closeVars
  BY DEF NewSucceeds, NewStep
<1>2. handle[a] = "open"
  BY <1>a, <1>1 DEF OpenInv
<1>3. CASE store = NoAttempt
  <2>1. store' = a
    BY <1>3 DEF NewSucceeds
  <2>2. QED
    BY <1>1, <1>2, <2>1 DEF OnceInv, Closing, closeVars
<1>4. CASE store # NoAttempt
  <2>1. store' = store
    BY <1>4 DEF NewSucceeds
  <2>2. QED
    BY <1>1, <2>1, OnceUntouched
<1>5. QED
  BY <1>3, <1>4

LEMMA OnceCloseKeeps ==
  ASSUME LifeInv, OnceInv, NEW c \in Closers, CloseBegins(c) \/ CloseGoesOn(c)
  PROVE  OnceInv'
<1>a. TypeOK /\ CloseInv
  BY DEF LifeInv, Typed
<1>b. cpc \in [Closers -> {"idle", "flag", "signal", "wait", "db", "blocked",
                            "returned"}]
  BY <1>a DEF TypeOK
<1>c. /\ store' = store
      /\ \A d \in Closers : d # c => cpc'[d] = cpc[d]
  BY <1>b DEF CloseBegins, CloseGoesOn, CloseFlags, CloseSignals, CloseWaits,
     CloseHandle, CloseAgain, CloseStep
<1>d. Closing(c) => once = "running" /\ \A d \in Closers : Closing(d) => d = c
  BY <1>a DEF CloseInv
<1>1. CASE CloseBegins(c)
  <2>1. /\ UNCHANGED <<handle, done>>
        /\ once' = IF once = "no" THEN "running" ELSE once
        /\ cpc[c] = "idle"
        /\ cpc'[c] = IF once = "no" THEN "flag" ELSE "blocked"
    BY <1>1, <1>b DEF CloseBegins, CloseStep
  <2>2. \A d \in Closers : Closing(d) => Closing(d)'
    BY <1>c, <2>1 DEF Closing
  <2>3. once = "no" => \A d \in Closers : ~Closing(d) /\ cpc[d] # "blocked"
    BY <1>a DEF CloseInv, OnceInv
  <2>4. QED
    BY <1>c, <2>1, <2>2, <2>3 DEF OnceInv, Closing
<1>2. CASE CloseFlags(c)
  <2>1. /\ UNCHANGED <<handle, done, once>>
        /\ cpc[c] = "flag" /\ cpc'[c] = "signal"
    BY <1>2, <1>b DEF CloseFlags, CloseStep
  <2>2. QED
    BY <1>c, <2>1 DEF OnceInv, Closing
<1>3. CASE CloseSignals(c)
  <2>1. /\ UNCHANGED <<handle, once>> /\ done' = TRUE
        /\ cpc[c] = "signal" /\ cpc'[c] = "wait"
    BY <1>3, <1>b DEF CloseSignals, CloseStep
  <2>2. once = "running" /\ \A d \in Closers : Closing(d) => d = c
    BY <1>d, <2>1 DEF Closing
  <2>3. QED
    BY <1>c, <2>1, <2>2 DEF OnceInv, Closing
<1>4. CASE CloseWaits(c)
  <2>1. /\ UNCHANGED <<handle, done, once>>
        /\ cpc[c] = "wait" /\ cpc'[c] = "db"
    BY <1>4, <1>b DEF CloseWaits, CloseStep
  <2>2. QED
    BY <1>c, <2>1 DEF OnceInv, Closing
<1>5. CASE CloseHandle(c)
  <2>1. /\ done' = done /\ once' = "done"
        /\ cpc[c] = "db" /\ cpc'[c] = "returned"
    BY <1>5, <1>b DEF CloseHandle, CloseStep
  <2>2. QED
    BY <1>c, <2>1 DEF OnceInv, Closing
<1>6. CASE CloseAgain(c)
  <2>1. /\ UNCHANGED <<handle, done, once>> /\ once = "done"
        /\ cpc[c] = "blocked" /\ cpc'[c] = "returned"
    BY <1>6, <1>b DEF CloseAgain, CloseStep
  <2>2. QED
    BY <1>c, <2>1 DEF OnceInv, Closing
<1>7. QED
  BY <1>1, <1>2, <1>3, <1>4, <1>5, <1>6 DEF CloseGoesOn

LEMMA OnceStep == LifeInv /\ OnceInv /\ [Next]_vars => OnceInv'
<1> SUFFICES ASSUME LifeInv, OnceInv, [Next]_vars
             PROVE  OnceInv'
  OBVIOUS
<1>1. ASSUME \/ RunValueLogGC \/ GCStops \/ UNCHANGED vars
             \/ \E u \in Users : Operation(u) \/ Transact(u)
      PROVE  UNCHANGED <<closeVars, store, handle>>
  BY <1>1 DEF RunValueLogGC, GCStops, GCTick, GCRewrites, GCNothingLeft,
     GCFails, GCBacksOff, GCWakes, GCStep, Operation, Transact, vars
<1>2. ASSUME UNCHANGED <<closeVars, store, handle>>
      PROVE  OnceInv'
  BY <1>2, OnceUntouched
<1>3. QED
  BY <1>1, <1>2, OnceOpenKeeps, OnceNewKeeps, OnceCloseKeeps
  DEF Next, NewReturns, Done

LEMMA OnceInvariant == Spec => [](LifeInv /\ OnceInv)
<1>1. Init => OnceInv
  BY DEF Init, OnceInv, Closing
<1>2. QED
  BY <1>1, OnceStep, LifeInvariant, PTL DEF Spec

\* Whoever is about to close doneCh finds it open (closing it again panics),
\* and whoever is about to close a handle, the Close of the store or the reaper
\* of an abandoned one, is the first to do so.
ClosesOnce ==
  /\ \A c \in Closers : cpc[c] = "signal" => ~done
  /\ \A c \in Closers : cpc[c] = "db" => handle[store] = "open"
  /\ \A a \in Attempts :
       reaper[a] /\ resCh[a] = "db" => handle[a] = "open" /\ a # store

\* However many goroutines call Close, and whenever the reaper of a cancelled
\* attempt comes, the channel and every handle are closed at most once.
THEOREM NothingClosedTwice == Spec => []ClosesOnce
<1>1. LifeInv /\ OnceInv => ClosesOnce
  <2> SUFFICES ASSUME LifeInv, OnceInv
               PROVE  ClosesOnce
    OBVIOUS
  <2>1. OpenInv /\ StoreInv /\ CloseInv /\ AttemptAssumption
    BY AttemptAssumption DEF LifeInv, AttemptAssumption
  <2>2. \A c \in Closers : cpc[c] = "db" => handle[store] = "open"
    <3>1. \A c \in Closers : cpc[c] = "db" =>
            once = "running" /\ store # NoAttempt
      BY <2>1 DEF CloseInv, Closing, StoreInv
    <3>2. QED
      BY <3>1 DEF OnceInv
  <2>3. \A a \in Attempts :
          reaper[a] /\ resCh[a] = "db" => handle[a] = "open" /\ a # store
    BY <2>1 DEF OpenInv, StoreInv, AttemptAssumption
  <2>4. QED
    BY <2>2, <2>3 DEF OnceInv, ClosesOnce
<1>2. QED
  BY OnceInvariant, <1>1, PTL

\* A Close that waits for the Once waits for one that is inside it, and when
\* that one waits for the GC loop, the loop has been told to leave.
CloseGoesForward ==
  /\ \A c \in Closers :
       cpc[c] = "blocked" => once = "done" \/ \E d \in Closers : Closing(d)
  /\ \A c \in Closers : cpc[c] = "wait" => done /\ gc # "none"

\* The callers of Close never all wait for one another, nor for a GC loop that
\* has not been signalled or was never started.
THEOREM CloseNeverStuck == Spec => []CloseGoesForward
<1>1. LifeInv /\ OnceInv => CloseGoesForward
  <2> SUFFICES ASSUME LifeInv, OnceInv
               PROVE  CloseGoesForward
    OBVIOUS
  <2>1. once \in {"no", "running", "done"} /\ StoreInv
    BY DEF LifeInv, Typed, TypeOK
  <2>2. \A c \in Closers : cpc[c] = "wait" => store # NoAttempt
    BY <2>1 DEF StoreInv
  <2>3. QED
    BY <2>1, <2>2 DEF OnceInv, StoreInv, CloseGoesForward
<1>2. QED
  BY OnceInvariant, <1>1, PTL

=============================================================================
