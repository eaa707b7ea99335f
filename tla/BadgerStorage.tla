--------------------------- MODULE BadgerStorage ---------------------------
(***************************************************************************)
(* The life of the persistent store of badger_storage.go: opening it in a  *)
(* goroutine that a context may abandon, the operations, the value-log GC  *)
(* loop and Close.  Badger itself is external: it opens a directory for    *)
(* one handle at a time, its Open and its GC may fail or take long, and an *)
(* operation on a closed handle fails with ErrDBClosed.                    *)
(*                                                                         *)
(* The model follows the first store that is opened; the handles of later  *)
(* ones are only kept count of.                                            *)
(*                                                                         *)
(* An operator commented "Variant" is a faulty form of the definition that *)
(* follows it; nothing uses it but the checks that a property can fail.    *)
(***************************************************************************)
EXTENDS Integers

CONSTANTS
  Attempts,      \* calls of NewBadgerStorage on one directory
  NoAttempt,
  Users,         \* goroutines that call Get, Set and Delete
  Closers,       \* goroutines that call Close
  MaxRewrites,   \* 3: rewrites in a GC round
  SuccessLimit,  \* 5: successes after which a round is a single rewrite
  FailureLimit   \* 3: failures after which the loop backs off

ASSUME AttemptAssumption == NoAttempt \notin Attempts
ASSUME LimitAssumption ==
  /\ MaxRewrites \in Nat \ {0}
  /\ SuccessLimit \in Nat
  /\ FailureLimit \in Nat

VARIABLES
  npc,        \* npc[a]: where NewBadgerStorage is
  ctxDone,    \* ctxDone[a]: its context has ended
  resCh,      \* resCh[a]: what the opening goroutine has sent and nobody taken
  opening,    \* opening[a]: that goroutine is in badger.Open
  reaper,     \* reaper[a]: a goroutine waits for resCh to close a late handle
  handle,     \* handle[a]: the *badger.DB: "none", "open" or "closed"
  store,      \* the attempt that returned the store the model follows
  closed,     \* the flag the operations read
  done,       \* doneCh is closed
  once,       \* closeOnce: "no", "running" or "done"
  cpc,        \* cpc[c]: where closer c is in Close
  gc,         \* where runValueLogGC is
  rewrites,   \* gcAttempts
  successes,  \* consecutiveSuccesses, up to SuccessLimit + 1
  failures,   \* consecutiveFailures, up to FailureLimit + 1
  upc,        \* upc[u]: "idle", or "use": past the checks of an operation
  late        \* history: late[u]: that operation began after a Close returned

openVars  == <<npc, ctxDone, resCh, opening, reaper>>
closeVars == <<closed, done, once, cpc>>
gcVars    == <<gc, rewrites, successes, failures>>
userVars  == <<upc, late>>
vars == <<openVars, handle, store, closeVars, gcVars, userVars>>

Init ==
  /\ npc = [a \in Attempts |-> "start"]
  /\ ctxDone = [a \in Attempts |-> FALSE]
  /\ resCh = [a \in Attempts |-> "empty"]
  /\ opening = [a \in Attempts |-> FALSE]
  /\ reaper = [a \in Attempts |-> FALSE]
  /\ handle = [a \in Attempts |-> "none"]
  /\ store = NoAttempt
  /\ closed = FALSE
  /\ done = FALSE
  /\ once = "no"
  /\ cpc = [c \in Closers |-> "idle"]
  /\ gc = "none"
  /\ rewrites = 0
  /\ successes = 0
  /\ failures = 0
  /\ upc = [u \in Users |-> "idle"]
  /\ late = [u \in Users |-> FALSE]

-----------------------------------------------------------------------------
(* NewBadgerStorage.                                                       *)

NewStep(a, from, to) ==
  /\ npc[a] = from
  /\ npc' = [npc EXCEPT ![a] = to]
  /\ UNCHANGED <<ctxDone, closeVars, userVars>>

\* No directory, or the context has ended already.
NewRefused(a) ==
  /\ NewStep(a, "start", "failed")
  /\ UNCHANGED <<resCh, opening, reaper, handle, store, gcVars>>

\* The goroutine that opens the directory is launched.
NewOpens(a) ==
  /\ ~ctxDone[a]
  /\ NewStep(a, "start", "select")
  /\ opening' = [opening EXCEPT ![a] = TRUE]
  /\ UNCHANGED <<resCh, reaper, handle, store, gcVars>>

ContextEnds(a) ==
  /\ ~ctxDone[a]
  /\ ctxDone' = [ctxDone EXCEPT ![a] = TRUE]
  /\ UNCHANGED <<npc, resCh, opening, reaper, handle, store, closeVars,
                 gcVars, userVars>>

\* badger.Open returns, with a handle when no other one is open, or an error.
OpenReturns(a) ==
  /\ opening[a]
  /\ opening' = [opening EXCEPT ![a] = FALSE]
  /\ \/ /\ \A b \in Attempts : handle[b] # "open"
        /\ handle' = [handle EXCEPT ![a] = "open"]
        /\ resCh' = [resCh EXCEPT ![a] = "db"]
     \/ /\ resCh' = [resCh EXCEPT ![a] = "error"]
        /\ UNCHANGED handle
  /\ UNCHANGED <<npc, ctxDone, reaper, store, closeVars, gcVars, userVars>>

\* Variant: the late result is left to the garbage collector.
NewCancelledNoReaper(a) ==
  /\ ctxDone[a]
  /\ NewStep(a, "select", "failed")
  /\ UNCHANGED <<resCh, opening, reaper, handle, store, gcVars>>

\* Variant: Open runs on the caller's goroutine, which cannot leave it.
NewCancelledAfterOpen(a) ==
  /\ ctxDone[a] /\ resCh[a] # "empty"
  /\ NewStep(a, "select", "failed")
  /\ reaper' = [reaper EXCEPT ![a] = TRUE]
  /\ UNCHANGED <<resCh, opening, handle, store, gcVars>>

\* case <-ctx.Done(), which select may pick although the result is there.
NewCancelled(a) ==
  /\ ctxDone[a]
  /\ NewStep(a, "select", "failed")
  /\ reaper' = [reaper EXCEPT ![a] = TRUE]
  /\ UNCHANGED <<resCh, opening, handle, store, gcVars>>

\* case r := <-resCh with an error
NewFails(a) ==
  /\ resCh[a] = "error"
  /\ NewStep(a, "select", "failed")
  /\ resCh' = [resCh EXCEPT ![a] = "empty"]
  /\ UNCHANGED <<opening, reaper, handle, store, gcVars>>

\* case r := <-resCh with a handle: the GC loop of the store starts.
NewSucceeds(a) ==
  /\ resCh[a] = "db"
  /\ NewStep(a, "select", "got")
  /\ resCh' = [resCh EXCEPT ![a] = "empty"]
  /\ IF store = NoAttempt THEN store' = a /\ gc' = "select"
                          ELSE UNCHANGED <<store, gc>>
  /\ UNCHANGED <<opening, reaper, handle, rewrites, successes, failures>>

\* The reaper takes the late result and closes the handle.
Reap(a) ==
  /\ reaper[a]
  /\ resCh[a] # "empty"
  /\ reaper' = [reaper EXCEPT ![a] = FALSE]
  /\ resCh' = [resCh EXCEPT ![a] = "empty"]
  /\ handle' = [handle EXCEPT ![a] = IF resCh[a] = "db" THEN "closed" ELSE @]
  /\ UNCHANGED <<npc, ctxDone, opening, store, closeVars, gcVars, userVars>>

-----------------------------------------------------------------------------
(* Get, Set and Delete.                                                    *)

ACloseReturned == \E c \in Closers : cpc[c] = "returned"

\* b.closed.Load() is false.
Accept(u) == u \in Users /\ ~closed

\* The flag is looked at first; after it, a context that has ended, a nil
\* entry or one that does not serialize ends the operation, which then changes
\* nothing.
Operation(u) ==
  /\ store # NoAttempt
  /\ upc[u] = "idle"
  /\ Accept(u)
  /\ upc' = [upc EXCEPT ![u] = "use"]
  /\ late' = [late EXCEPT ![u] = ACloseReturned]
  /\ UNCHANGED <<openVars, handle, store, closeVars, gcVars>>

\* The transaction, or the entry of a batch; Close may have closed the handle
\* since the flag was read, and Badger then refuses.
Transact(u) ==
  /\ upc[u] = "use"
  /\ upc' = [upc EXCEPT ![u] = "idle"]
  /\ late' = [late EXCEPT ![u] = FALSE]
  /\ UNCHANGED <<openVars, handle, store, closeVars, gcVars>>

-----------------------------------------------------------------------------
(* Close.                                                                  *)

CloseStep(c, from, to) ==
  /\ cpc[c] = from
  /\ cpc' = [cpc EXCEPT ![c] = to]
  /\ UNCHANGED <<openVars, store, gcVars, userVars>>

\* closeOnce.Do: the first caller runs the function, any other one waits...
CloseBegins(c) ==
  /\ store # NoAttempt
  /\ CloseStep(c, "idle", IF once = "no" THEN "flag" ELSE "blocked")
  /\ once' = IF once = "no" THEN "running" ELSE once
  /\ UNCHANGED <<handle, closed, done>>

\* Variant: a flag in place of the Once: the others do not wait.
CloseAgainAtOnce(c) ==
  /\ CloseStep(c, "blocked", "returned")
  /\ UNCHANGED <<handle, closed, done, once>>

\* ...until it has ended.
CloseAgain(c) ==
  /\ once = "done"
  /\ CloseStep(c, "blocked", "returned")
  /\ UNCHANGED <<handle, closed, done, once>>

\* closed.Store(true)
CloseFlags(c) ==
  /\ CloseStep(c, "flag", "signal")
  /\ closed' = TRUE
  /\ UNCHANGED <<handle, done, once>>

\* Variant: nobody tells the GC loop.
CloseSignalsNobody(c) ==
  /\ CloseStep(c, "signal", "wait")
  /\ UNCHANGED <<handle, closed, done, once>>

\* close(b.doneCh)
CloseSignals(c) ==
  /\ CloseStep(c, "signal", "wait")
  /\ done' = TRUE
  /\ UNCHANGED <<handle, closed, once>>

\* Variant: the GC loop is signalled and not waited for.
CloseWaitsForNothing(c) ==
  /\ CloseStep(c, "wait", "db")
  /\ UNCHANGED <<handle, closed, done, once>>

\* b.wg.Wait()
CloseWaits(c) ==
  /\ gc = "gone"
  /\ CloseStep(c, "wait", "db")
  /\ UNCHANGED <<handle, closed, done, once>>

\* b.db.Close(), whose error only this caller sees.
CloseHandle(c) ==
  /\ CloseStep(c, "db", "returned")
  /\ handle' = [handle EXCEPT ![store] = "closed"]
  /\ once' = "done"
  /\ UNCHANGED <<closed, done>>

-----------------------------------------------------------------------------
(* runValueLogGC.                                                          *)

GCStep(from, to) ==
  /\ gc \in from
  /\ gc' = to
  /\ UNCHANGED <<openVars, handle, store, closeVars, userVars>>

Capped(n, limit) == IF n > limit THEN limit + 1 ELSE n

\* Variant: a successful round leaves the failures.
EndRoundKeepsFailures(rewrote, s, f) ==
  /\ rewrites' = 0
  /\ successes' = Capped(IF rewrote THEN s + 1 ELSE s, SuccessLimit)
  /\ failures' = Capped(f, FailureLimit)

\* if successInRound: with it the counters become s and 0, else s and f.
EndRound(rewrote, s, f) ==
  /\ rewrites' = 0
  /\ successes' = Capped(IF rewrote THEN s + 1 ELSE s, SuccessLimit)
  /\ failures' = IF rewrote THEN 0 ELSE Capped(f, FailureLimit)

\* case <-ticker.C
GCTick ==
  /\ GCStep({"select"}, "run")
  /\ UNCHANGED <<rewrites, successes, failures>>

\* RunValueLogGC rewrote a file: a pause before the next attempt.
GCRewrites ==
  /\ GCStep({"run"}, "pause")
  /\ rewrites' = rewrites + 1
  /\ UNCHANGED <<successes, failures>>

\* ErrNoRewrite: after a rewrite the round counts here and once more at its end.
GCNothingLeft ==
  /\ GCStep({"run"}, "select")
  /\ EndRound(rewrites > 0,
              IF rewrites > 0 THEN successes + 1 ELSE successes, failures)

\* Any other error, within the limit or past it.
GCFails ==
  /\ failures + 1 =< FailureLimit
  /\ GCStep({"run"}, "select")
  /\ EndRound(rewrites > 0, 0, failures + 1)

GCBacksOff ==
  /\ failures + 1 > FailureLimit
  /\ GCStep({"run"}, "backoff")
  /\ successes' = 0
  /\ failures' = Capped(failures + 1, FailureLimit)
  /\ UNCHANGED rewrites

\* Variant: the limit of the round is off by one.
RoundLimitOff == IF successes > SuccessLimit THEN 1 ELSE MaxRewrites + 1

\* maxAttempts
RoundLimit == IF successes > SuccessLimit THEN 1 ELSE MaxRewrites

\* sleepOrDone returns true.
GCWakes ==
  \/ /\ GCStep({"backoff"}, "select")
     /\ EndRound(rewrites > 0, successes, failures)
  \/ /\ rewrites < RoundLimit
     /\ GCStep({"pause"}, "run")
     /\ UNCHANGED <<rewrites, successes, failures>>
  \/ /\ rewrites >= RoundLimit
     /\ GCStep({"pause"}, "select")
     /\ EndRound(TRUE, successes, failures)

\* doneCh is closed, in the select of the loop or of sleepOrDone.
GCStops ==
  /\ done
  /\ GCStep({"select", "pause", "backoff"}, "gone")
  /\ UNCHANGED <<rewrites, successes, failures>>

RunValueLogGC ==
  GCTick \/ GCRewrites \/ GCNothingLeft \/ GCFails \/ GCBacksOff \/ GCWakes

-----------------------------------------------------------------------------
NewReturns(a) == NewCancelled(a) \/ NewFails(a) \/ NewSucceeds(a)

CloseGoesOn(c) ==
  \/ CloseFlags(c) \/ CloseSignals(c) \/ CloseWaits(c) \/ CloseHandle(c)
  \/ CloseAgain(c)

\* Every call has returned and every goroutine is gone.
Done ==
  /\ \A a \in Attempts : npc[a] \in {"got", "failed"} /\ ~opening[a] /\ ~reaper[a]
  /\ store # NoAttempt => \A c \in Closers : cpc[c] = "returned"
  /\ \A u \in Users : upc[u] = "idle"
  /\ UNCHANGED vars

Next ==
  \/ \E a \in Attempts :
       \/ NewRefused(a) \/ NewOpens(a) \/ NewReturns(a)
       \/ ContextEnds(a) \/ OpenReturns(a) \/ Reap(a)
  \/ \E u \in Users : Operation(u) \/ Transact(u)
  \/ \E c \in Closers : CloseBegins(c) \/ CloseGoesOn(c)
  \/ RunValueLogGC
  \/ GCStops
  \/ Done

Spec == Init /\ [][Next]_vars

\* The goroutines run, the timers fire and Badger's GC returns; badger.Open
\* need not.  Of two cases that are both ready select picks one at random, so
\* it does not pass over doneCh for ever.
Fairness ==
  /\ \A a \in Attempts : WF_vars(NewReturns(a)) /\ WF_vars(Reap(a))
  /\ \A c \in Closers : WF_vars(CloseGoesOn(c))
  /\ WF_vars(RunValueLogGC)
  /\ SF_vars(GCStops)

FairSpec == Spec /\ Fairness

-----------------------------------------------------------------------------
(* Properties.                                                             *)

\* Every variable stays in its type; a GC round stays within its limit.
TypeOK ==
  /\ npc \in [Attempts -> {"start", "select", "got", "failed"}]
  /\ ctxDone \in [Attempts -> BOOLEAN]
  /\ resCh \in [Attempts -> {"empty", "db", "error"}]
  /\ opening \in [Attempts -> BOOLEAN]
  /\ reaper \in [Attempts -> BOOLEAN]
  /\ handle \in [Attempts -> {"none", "open", "closed"}]
  /\ store \in Attempts \union {NoAttempt}
  /\ closed \in BOOLEAN
  /\ done \in BOOLEAN
  /\ once \in {"no", "running", "done"}
  /\ cpc \in [Closers -> {"idle", "flag", "signal", "wait", "db", "blocked",
                          "returned"}]
  /\ gc \in {"none", "select", "run", "pause", "backoff", "gone"}
  /\ rewrites \in 0..MaxRewrites
  /\ successes \in 0..SuccessLimit + 1
  /\ failures \in 0..FailureLimit + 1
  /\ upc \in [Users -> {"idle", "use"}]
  /\ late \in [Users -> BOOLEAN]

\* Every open handle has somebody who will close it: the caller that has the
\* store, or the select or the reaper that waits for the result of Open.  No
\* handle is lost because the context ended first.
HandleOwned ==
  \A a \in Attempts :
    handle[a] = "open" =>
      \/ npc[a] = "got"
      \/ resCh[a] = "db" /\ (npc[a] = "select" \/ reaper[a])

\* The GC loop only ever runs on an open handle: Close waits for it, wherever
\* the signal finds it.
GCOnOpenHandle == gc \notin {"none", "gone"} => handle[store] = "open"

\* When any Close has returned, a concurrent second one included, the handle
\* is closed and the GC loop gone, and no operation that began later has passed
\* the flag.
CloseMeansClosed ==
  /\ ACloseReturned => handle[store] = "closed" /\ gc = "gone" /\ closed
  /\ \A u \in Users : ~late[u]

\* The two counters that pace the GC are never both positive, although a round
\* may see rewrites and an error: one of "do less" and "back off" at a time, and
\* the backoff only after more failures than the limit.
GCPaced ==
  /\ successes = 0 \/ failures = 0
  /\ gc = "backoff" => failures > FailureLimit

\* Every Close returns: the GC loop notices the signal in its select, in the
\* pause between two rewrites and in its backoff, and nobody waits for a round
\* that cannot end.
CloseReturns == \A c \in Closers : cpc[c] # "idle" ~> cpc[c] = "returned"

\* NewBadgerStorage returns once its context has ended, even when badger.Open
\* hangs.
NewReturnsOnCancel ==
  \A a \in Attempts : npc[a] = "select" /\ ctxDone[a] ~> npc[a] # "select"

\* A handle that arrives after its caller has gone is closed, so that the
\* directory can be opened by a retry.
AbandonedIsClosed ==
  \A a \in Attempts : npc[a] = "failed" /\ handle[a] = "open"
                        ~> handle[a] = "closed"

=============================================================================
