---------------------------- MODULE KeyBreakers ----------------------------
(***************************************************************************)
(* The breakers of single keys of circuit_breaker.go: canExecuteKey,       *)
(* recordKeyFailure, resetKeyBreaker and the second half of Reset.  A      *)
(* keyCircuitBreaker is found by its key in two places: the sync.Map       *)
(* keyBreakers, read without a lock, and the LRU cache keyBreakerLRU, used *)
(* under keyBreakerMutex, which bounds how many there are.                 *)
(*                                                                         *)
(* A request comes from the global breaker (module CircuitBreaker) to      *)
(* canExecuteKey and comes back with the engine's answer; the global       *)
(* breaker may also refuse it in between.  Ages are those of               *)
(* CircuitBreaker.                                                         *)
(*                                                                         *)
(* An operator commented "Variant" is a faulty form of the definition that *)
(* follows it; nothing uses it but the checks that a property can fail.    *)
(***************************************************************************)
EXTENDS Integers, FiniteSets, Sequences

CONSTANTS
  Keys,
  Requests,          \* goroutines that call Execute, again and again
  Breakers,          \* keyCircuitBreaker objects
  None,              \* no breaker, or no key
  NoOne,             \* nobody holds keyBreakerMutex
  Resetter,          \* the goroutine that calls Reset
  FailureThreshold,
  Timeout,
  MaxKeyBreakers,
  MaxResets          \* bound: calls of Reset

ASSUME NameAssumption ==
  /\ None \notin Keys \union Breakers
  /\ NoOne \notin Requests
  /\ Resetter \notin Requests \union {NoOne}
ASSUME ConfigAssumption ==
  /\ FailureThreshold \in Nat \ {0}
  /\ Timeout \in Nat
  /\ MaxKeyBreakers \in Nat \ {0}
  /\ MaxResets \in Nat

VARIABLES
  keyBreakers,  \* keyBreakers[k]: the breaker that the map has for k
  cached,       \* cached[k]: the breaker that the LRU cache has for k
  lru,          \* its keys, the most recently used last
  failures,     \* failures[b]
  lastAge,      \* lastAge[b]: age of b's lastFailureTime
  pc,           \* pc[r]: where request r is
  key,          \* key[r]: its key
  ref,          \* ref[r]: the breaker it has a pointer to
  age,          \* age[r]: age of the time it has read and not yet used
  mutex,        \* who holds keyBreakerMutex
  resets,       \* calls of Reset so far
  health        \* "mixed", or "up": the engine always answers

tableVars   == <<keyBreakers, cached, lru>>
breakerVars == <<failures, lastAge>>
requestVars == <<pc, key, ref, age>>
vars == <<tableVars, breakerVars, requestVars, mutex, resets, health>>

PCs  == {"idle", "count", "last", "since", "refused", "run", "lock", "add",
         "stamp", "new", "store", "reset", "zero", "touch"}
Old  == Timeout + 1
Ages == 0..Old

Init ==
  /\ keyBreakers = [k \in Keys |-> None]
  /\ cached = [k \in Keys |-> None]
  /\ lru = <<>>
  /\ failures = [b \in Breakers |-> 0]
  /\ lastAge = [b \in Breakers |-> Old]
  /\ pc = [r \in Requests |-> "idle"]
  /\ key = [r \in Requests |-> None]
  /\ ref = [r \in Requests |-> None]
  /\ age = [r \in Requests |-> Old]
  /\ mutex = NoOne
  /\ resets = 0
  /\ health = "mixed"

\* Request r goes on with breaker b in hand.
Goto(r, from, to, b) ==
  /\ pc[r] = from
  /\ pc' = [pc EXCEPT ![r] = to]
  /\ ref' = [ref EXCEPT ![r] = b]

\* Its Execute is over as far as this module goes.
Finish(r, from) ==
  /\ Goto(r, from, "idle", None)
  /\ key' = [key EXCEPT ![r] = None]
  /\ age' = [age EXCEPT ![r] = Old]

-----------------------------------------------------------------------------
(* canExecuteKey.                                                          *)

\* keyBreakers.Load
CanExecuteKey(r, k) ==
  /\ Goto(r, "idle", IF keyBreakers[k] = None THEN "run" ELSE "count",
          keyBreakers[k])
  /\ key' = [key EXCEPT ![r] = k]
  /\ UNCHANGED <<tableVars, breakerVars, age, mutex, resets, health>>

\* kb.failures.Load, compared with the threshold.
LoadFailures(r) ==
  /\ pc[r] = "count"
  /\ IF failures[ref[r]] >= FailureThreshold
       THEN Goto(r, "count", "last", ref[r])
       ELSE Goto(r, "count", "run", None)
  /\ UNCHANGED <<tableVars, breakerVars, key, age, mutex, resets, health>>

LoadLastFailure(r) ==
  /\ Goto(r, "last", "since", ref[r])
  /\ age' = [age EXCEPT ![r] = lastAge[ref[r]]]
  /\ UNCHANGED <<tableVars, breakerVars, key, mutex, resets, health>>

\* timeout has not passed: ErrCircuitOpen.
Refuse(r) ==
  /\ age[r] =< Timeout
  /\ Goto(r, "since", "refused", None)
  /\ UNCHANGED <<tableVars, breakerVars, key, age, mutex, resets, health>>

\* Variant: the timer starts again for every request that passes.
ForgiveOnProbation(r) ==
  /\ age[r] > Timeout
  /\ Goto(r, "since", "run", None)
  /\ lastAge' = [lastAge EXCEPT ![ref[r]] = 0]
  /\ UNCHANGED <<tableVars, failures, key, age, mutex, resets, health>>

\* It has: kb.failures.Store(0), and the request passes.
Forgive(r) ==
  /\ age[r] > Timeout
  /\ Goto(r, "since", "run", None)
  /\ failures' = [failures EXCEPT ![ref[r]] = 0]
  /\ UNCHANGED <<tableVars, lastAge, key, age, mutex, resets, health>>

Refused(r) ==
  /\ Finish(r, "refused")
  /\ UNCHANGED <<tableVars, breakerVars, mutex, resets, health>>

\* Half-open has no place left.
HalfOpenFull(r) ==
  /\ Finish(r, "run")
  /\ UNCHANGED <<tableVars, breakerVars, mutex, resets, health>>

\* engine.Execute returns an error, or an entry.
EngineFails(r) ==
  /\ health = "mixed"
  /\ Goto(r, "run", "lock", None)
  /\ UNCHANGED <<tableVars, breakerVars, key, age, mutex, resets, health>>

EngineSucceeds(r) ==
  /\ Goto(r, "run", "reset", None)
  /\ UNCHANGED <<tableVars, breakerVars, key, age, mutex, resets, health>>

-----------------------------------------------------------------------------
(* recordKeyFailure, under the mutex.                                      *)

Place(k) == CHOOSE i \in 1..Len(lru) : lru[i] = k

\* keyBreakerLRU.Get of a cached k: it moves to the end.
Used(k) ==
  [i \in 1..Len(lru) |-> IF i < Place(k) THEN lru[i]
                         ELSE IF i < Len(lru) THEN lru[i + 1]
                         ELSE k]

\* Lock, and keyBreakerLRU.Get finds the breaker of the key...
LockFound(r) ==
  /\ pc[r] = "lock"
  /\ mutex = NoOne
  /\ cached[key[r]] # None
  /\ mutex' = r
  /\ Goto(r, "lock", "add", cached[key[r]])
  /\ lru' = Used(key[r])
  /\ UNCHANGED <<keyBreakers, cached, breakerVars, key, age, resets, health>>

\* ...or does not.
LockMissing(r) ==
  /\ pc[r] = "lock"
  /\ mutex = NoOne
  /\ cached[key[r]] = None
  /\ mutex' = r
  /\ Goto(r, "lock", "new", None)
  /\ UNCHANGED <<tableVars, breakerVars, key, age, resets, health>>

\* kb.failures.Add(1); time.Now() is read at some point after it.
AddFailure(r) ==
  /\ Goto(r, "add", "stamp", ref[r])
  /\ failures' = [failures EXCEPT ![ref[r]] = failures[ref[r]] + 1]
  /\ age' = [age EXCEPT ![r] = 0]
  /\ UNCHANGED <<tableVars, lastAge, key, mutex, resets, health>>

\* kb.lastFailureTime.Store and Unlock.
StampFailure(r) ==
  /\ Finish(r, "stamp")
  /\ \E a \in 0..age[r] : lastAge' = [lastAge EXCEPT ![ref[r]] = a]
  /\ mutex' = NoOne
  /\ UNCHANGED <<tableVars, failures, resets, health>>

\* An object that nobody points to; which one is all the same.
Pointed == {keyBreakers[k] : k \in Keys} \union {cached[k] : k \in Keys}
             \union {ref[r] : r \in Requests}
Free    == CHOOSE b \in Breakers : b \notin Pointed

\* keyBreakerLRU.Add of a new key: a full cache gives up the oldest.
Full    == Len(lru) >= MaxKeyBreakers
Evicted == IF Full THEN {Head(lru)} ELSE {}
Added(k) == Append(IF Full THEN Tail(lru) ELSE lru, k)

\* Variant: no eviction callback.
NewBreakerEvictsSilently(r) ==
  LET k == key[r]
      b == Free IN
    /\ Breakers \ Pointed # {}
    /\ Goto(r, "new", "store", b)
    /\ failures' = [failures EXCEPT ![b] = 1]
    /\ lastAge' = [lastAge EXCEPT ![b] = 0]
    /\ lru' = Added(k)
    /\ cached' = [j \in Keys |-> IF j = k THEN b
                                 ELSE IF j \in Evicted THEN None
                                 ELSE cached[j]]
    /\ UNCHANGED <<keyBreakers, key, age, mutex, resets, health>>

\* A new breaker with one failure is added to the LRU cache, which may evict
\* another key; the callback deletes that key from the map.
NewBreaker(r) ==
  LET k == key[r]
      b == Free IN
    /\ Breakers \ Pointed # {}
    /\ Goto(r, "new", "store", b)
    /\ failures' = [failures EXCEPT ![b] = 1]
    /\ lastAge' = [lastAge EXCEPT ![b] = 0]
    /\ lru' = Added(k)
    /\ cached' = [j \in Keys |-> IF j = k THEN b
                                 ELSE IF j \in Evicted THEN None
                                 ELSE cached[j]]
    /\ keyBreakers' = [j \in Keys |-> IF j \in Evicted THEN None
                                      ELSE keyBreakers[j]]
    /\ UNCHANGED <<key, age, mutex, resets, health>>

\* keyBreakers.Store and Unlock.
StoreBreaker(r) ==
  /\ Finish(r, "store")
  /\ keyBreakers' = [keyBreakers EXCEPT ![key[r]] = ref[r]]
  /\ mutex' = NoOne
  /\ UNCHANGED <<cached, lru, breakerVars, resets, health>>

-----------------------------------------------------------------------------
(* resetKeyBreaker.                                                        *)

\* keyBreakers.Load finds nothing...
NoBreaker(r) ==
  /\ pc[r] = "reset"
  /\ keyBreakers[key[r]] = None
  /\ Finish(r, "reset")
  /\ UNCHANGED <<tableVars, breakerVars, mutex, resets, health>>

\* ...or a breaker, whose failures are set to 0...
FindBreaker(r) ==
  /\ pc[r] = "reset"
  /\ keyBreakers[key[r]] # None
  /\ Goto(r, "reset", "zero", keyBreakers[key[r]])
  /\ UNCHANGED <<tableVars, breakerVars, key, age, mutex, resets, health>>

\* Variant: one failure is taken back instead.
ForgiveFailure(r) ==
  /\ Goto(r, "zero", "touch", None)
  /\ failures' = [failures EXCEPT ![ref[r]] = failures[ref[r]] - 1]
  /\ UNCHANGED <<tableVars, lastAge, key, age, mutex, resets, health>>

ZeroFailures(r) ==
  /\ Goto(r, "zero", "touch", None)
  /\ failures' = [failures EXCEPT ![ref[r]] = 0]
  /\ UNCHANGED <<tableVars, lastAge, key, age, mutex, resets, health>>

\* ...and, under the mutex, the key is marked as used if it is still cached.
Touch(r) ==
  /\ pc[r] = "touch"
  /\ mutex = NoOne
  /\ Finish(r, "touch")
  /\ lru' = IF cached[key[r]] = None THEN lru ELSE Used(key[r])
  /\ UNCHANGED <<keyBreakers, cached, breakerVars, mutex, resets, health>>

-----------------------------------------------------------------------------
(* Reset, after the atomics of the global breaker.                         *)

\* Variant: without the lock.
ResetWithoutLock ==
  /\ resets < MaxResets
  /\ mutex # Resetter
  /\ resets' = resets + 1
  /\ mutex' = Resetter
  /\ UNCHANGED <<tableVars, breakerVars, requestVars, health>>

ResetLock ==
  /\ resets < MaxResets
  /\ mutex = NoOne
  /\ resets' = resets + 1
  /\ mutex' = Resetter
  /\ UNCHANGED <<tableVars, breakerVars, requestVars, health>>

\* keyBreakers.Range deletes one key after the other.
ResetDelete(k) ==
  /\ mutex = Resetter
  /\ keyBreakers[k] # None
  /\ keyBreakers' = [keyBreakers EXCEPT ![k] = None]
  /\ UNCHANGED <<cached, lru, breakerVars, requestVars, mutex, resets, health>>

\* Variant: the LRU cache is not purged.
ResetUnlock ==
  /\ mutex = Resetter
  /\ \A k \in Keys : keyBreakers[k] = None
  /\ mutex' = NoOne
  /\ UNCHANGED <<tableVars, breakerVars, requestVars, resets, health>>

\* keyBreakerLRU.Purge and Unlock.
ResetPurge ==
  /\ mutex = Resetter
  /\ \A k \in Keys : keyBreakers[k] = None
  /\ cached' = [k \in Keys |-> None]
  /\ lru' = <<>>
  /\ mutex' = NoOne
  /\ UNCHANGED <<keyBreakers, breakerVars, requestVars, resets, health>>

ResetGoesOn == (\E k \in Keys : ResetDelete(k)) \/ ResetPurge

-----------------------------------------------------------------------------
Older(a) == IF a < Old THEN a + 1 ELSE Old

\* A unit of time passes.  What nobody points to any more is forgotten.
Tick ==
  /\ \/ \E b \in Breakers : lastAge[b] # Old
     \/ \E r \in Requests : age[r] # Old
  /\ failures' = [b \in Breakers |-> IF b \in Pointed THEN failures[b] ELSE 0]
  /\ lastAge' = [b \in Breakers |->
                   IF b \in Pointed THEN Older(lastAge[b]) ELSE Old]
  /\ age' = [r \in Requests |-> Older(age[r])]
  /\ UNCHANGED <<tableVars, pc, key, ref, mutex, resets, health>>

\* From now on the engine answers.
Heal ==
  /\ health = "mixed"
  /\ health' = "up"
  /\ UNCHANGED <<tableVars, breakerVars, requestVars, mutex, resets>>

Proceed(r) ==
  \/ LoadFailures(r) \/ LoadLastFailure(r) \/ Refuse(r) \/ Forgive(r)
  \/ Refused(r) \/ HalfOpenFull(r) \/ EngineFails(r) \/ EngineSucceeds(r)
  \/ LockFound(r) \/ LockMissing(r) \/ AddFailure(r) \/ StampFailure(r)
  \/ NewBreaker(r) \/ StoreBreaker(r)
  \/ NoBreaker(r) \/ FindBreaker(r) \/ ZeroFailures(r) \/ Touch(r)

Next ==
  \/ \E r \in Requests, k \in Keys : CanExecuteKey(r, k)
  \/ \E r \in Requests : Proceed(r)
  \/ ResetLock
  \/ ResetGoesOn
  \/ Tick
  \/ Heal

Spec == Init /\ [][Next]_vars

\* Goroutines go on and time passes.  The mutex need not be fair.
Fairness ==
  /\ \A r \in Requests : WF_vars(Proceed(r))
  /\ WF_vars(ResetGoesOn)
  /\ WF_vars(Tick)

FairSpec == Spec /\ Fairness

-----------------------------------------------------------------------------
(* Properties.                                                             *)

TypeOK ==
  /\ keyBreakers \in [Keys -> Breakers \union {None}]
  /\ cached \in [Keys -> Breakers \union {None}]
  /\ lru \in Seq(Keys)
  /\ failures \in [Breakers -> Nat]
  /\ lastAge \in [Breakers -> Ages]
  /\ pc \in [Requests -> PCs]
  /\ key \in [Requests -> Keys \union {None}]
  /\ ref \in [Requests -> Breakers \union {None}]
  /\ age \in [Requests -> Ages]
  /\ mutex \in Requests \union {NoOne, Resetter}
  /\ resets \in Nat
  /\ health \in {"mixed", "up"}

\* Whenever nobody is at work on them, the map and the LRU cache hold the same
\* breakers: no breaker is counted in that no request looks at, and none is
\* looked at that eviction cannot reach.
TablesAgree == mutex = NoOne => keyBreakers = cached

\* At no moment does the map hold more than MaxKeyBreakers breakers.
MapBounded ==
  Cardinality({k \in Keys : keyBreakers[k] # None}) =< MaxKeyBreakers

\* A failure is counted in the breaker that requests for the key look at: it
\* is not evicted, replaced or reset between the Get and the Store.
RecordedWhereRead ==
  \A r \in Requests :
    pc[r] \in {"add", "stamp"} => keyBreakers[key[r]] = ref[r]

\* Once the engine answers, no key is refused for ever: every breaker lets a
\* request through after timeout, and is then cleared even if the global
\* breaker refuses that request.
KeysRecover == health = "up" ~> [](\A r \in Requests : pc[r] # "refused")

=============================================================================
