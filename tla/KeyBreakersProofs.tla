------------------------- MODULE KeyBreakersProofs -------------------------
(***************************************************************************)
(* What keyBreakerMutex protects in KeyBreakers, for every number of keys, *)
(* requests and breakers, and every threshold, timeout and bound.          *)
(***************************************************************************)
EXTENDS KeyBreakers, FiniteSetTheorems, SequenceTheorems,
        TLAPS

\* The part of the type invariant that the argument needs.
Shape ==
  /\ keyBreakers \in [Keys -> Breakers \union {None}]
  /\ cached \in [Keys -> Breakers \union {None}]
  /\ pc \in [Requests -> PCs]
  /\ key \in [Requests -> Keys \union {None}]
  /\ ref \in [Requests -> Breakers \union {None}]
  /\ \A r \in Requests : pc[r] # "idle" => key[r] \in Keys

\* The steps of recordKeyFailure under the mutex.
Locked == {"add", "stamp", "new", "store"}

HoldsMutex == \A r \in Requests : pc[r] \in Locked => mutex = r

\* What the holder of the mutex finds in the two tables at each of its steps.
Tables(r) ==
  /\ pc[r] \in {"add", "stamp"} =>
       keyBreakers = cached /\ cached[key[r]] = ref[r]
  /\ pc[r] = "new" => keyBreakers = cached
  /\ pc[r] = "store" => cached = [keyBreakers EXCEPT ![key[r]] = ref[r]]

LockInv ==
  /\ Shape
  /\ HoldsMutex
  /\ mutex = NoOne => keyBreakers = cached
  /\ \A r \in Requests : Tables(r)

\* Both tables are written only under the mutex: canExecuteKey and
\* resetKeyBreaker load from the map and change the breaker they find.
LEMMA LockInvariant == Spec => []LockInv
<1>1. Init => LockInv
  BY NameAssumption
     DEF Init, LockInv, Shape, HoldsMutex, Tables, Locked, PCs
<1>2. LockInv /\ [Next]_vars => LockInv'
  <2> SUFFICES ASSUME LockInv, [Next]_vars
               PROVE  LockInv'
    OBVIOUS
  <2> USE NameAssumption
      DEF LockInv, Shape, HoldsMutex, Tables, Locked, PCs, tableVars,
          breakerVars, requestVars, Goto, Finish
  <2>1. ASSUME NEW r \in Requests, NEW k \in Keys, CanExecuteKey(r, k)
        PROVE  LockInv'
    BY <2>1 DEF CanExecuteKey
  <2>2. ASSUME NEW r \in Requests,
               \/ LoadFailures(r) \/ LoadLastFailure(r) \/ Refuse(r)
               \/ Forgive(r)
        PROVE  LockInv'
    BY <2>2 DEF LoadFailures, LoadLastFailure, Refuse, Forgive
  <2>3. ASSUME NEW r \in Requests,
               \/ Refused(r) \/ HalfOpenFull(r) \/ EngineFails(r)
               \/ EngineSucceeds(r)
        PROVE  LockInv'
    BY <2>3 DEF Refused, HalfOpenFull, EngineFails, EngineSucceeds
  <2>4. ASSUME NEW r \in Requests, LockFound(r) \/ LockMissing(r)
        PROVE  LockInv'
    <3>1. /\ \A q \in Requests : pc[q] \notin Locked
          /\ keyBreakers = cached
      BY <2>4 DEF LockFound, LockMissing
    <3>2. CASE LockFound(r) BY <3>1, <3>2 DEF LockFound
    <3>3. CASE LockMissing(r) BY <3>1, <3>3 DEF LockMissing
    <3>4. QED BY <2>4, <3>2, <3>3
  <2>5. ASSUME NEW r \in Requests, AddFailure(r)
        PROVE  LockInv'
    BY <2>5 DEF AddFailure
  <2>6. ASSUME NEW r \in Requests, StampFailure(r)
        PROVE  LockInv'
    BY <2>6 DEF StampFailure
  <2>7. ASSUME NEW r \in Requests, NewBreaker(r)
        PROVE  LockInv'
    <3> DEFINE E == Evicted
    <3>1. /\ pc[r] = "new"
          /\ mutex = r
          /\ key[r] \in Keys
          /\ Free \in Breakers
      BY <2>7 DEF NewBreaker, Free
    <3>2. \A q \in Requests : q # r => pc[q] \notin Locked
      BY <3>1
    <3>3. /\ pc' = [pc EXCEPT ![r] = "store"]
          /\ ref' = [ref EXCEPT ![r] = Free]
          /\ cached' = [j \in Keys |-> IF j = key[r] THEN Free
                                       ELSE IF j \in E THEN None
                                       ELSE cached[j]]
          /\ keyBreakers' = [j \in Keys |-> IF j \in E THEN None
                                            ELSE keyBreakers[j]]
          /\ UNCHANGED <<key, mutex>>
      BY <2>7 DEF NewBreaker
    <3> HIDE DEF E
    <3>4. cached' = [keyBreakers' EXCEPT ![key[r]] = Free]
      BY <3>1, <3>3
    <3>5. Shape'
      BY <3>1, <3>3
    <3>6. QED BY <3>1, <3>2, <3>3, <3>4, <3>5
  <2>8. ASSUME NEW r \in Requests, StoreBreaker(r)
        PROVE  LockInv'
    <3>1. /\ pc[r] = "store"
          /\ mutex = r
          /\ key[r] \in Keys
          /\ keyBreakers' = cached'
      BY <2>8 DEF StoreBreaker
    <3>2. \A q \in Requests : pc'[q] \notin Locked
      BY <2>8, <3>1 DEF StoreBreaker
    <3>3. QED BY <2>8, <3>1, <3>2 DEF StoreBreaker
  <2>9. ASSUME NEW r \in Requests,
               \/ NoBreaker(r) \/ FindBreaker(r) \/ ZeroFailures(r)
               \/ Touch(r)
        PROVE  LockInv'
    BY <2>9 DEF NoBreaker, FindBreaker, ZeroFailures, Touch
  <2>10. CASE ResetLock
    BY <2>10 DEF ResetLock
  <2>11. CASE ResetGoesOn
    <3>1. ASSUME NEW k \in Keys, ResetDelete(k)
          PROVE  LockInv'
      BY <3>1 DEF ResetDelete
    <3>2. CASE ResetPurge
      BY <3>2 DEF ResetPurge
    <3>3. QED BY <2>11, <3>1, <3>2 DEF ResetGoesOn
  <2>12. CASE Tick \/ Heal \/ UNCHANGED vars
    BY <2>12 DEF Tick, Heal, vars
  <2>13. QED
    BY <2>1, <2>2, <2>3, <2>4, <2>5, <2>6, <2>7, <2>8, <2>9, <2>10, <2>11,
       <2>12 DEF Next, Proceed
<1>3. QED BY <1>1, <1>2, PTL DEF Spec

\* Between two holders of the mutex, the map and the LRU cache hold the same
\* breakers, through failures, evictions and Reset.
THEOREM TablesInStep == Spec => []TablesAgree
<1>1. LockInv => TablesAgree
  BY DEF LockInv, TablesAgree
<1>2. QED BY <1>1, LockInvariant, PTL

\* A failure is never counted in a breaker that requests for its key no longer
\* look at.
THEOREM FailureRecorded == Spec => []RecordedWhereRead
<1>1. LockInv => RecordedWhereRead
  BY DEF LockInv, Tables, RecordedWhereRead
<1>2. QED BY <1>1, LockInvariant, PTL

-----------------------------------------------------------------------------
(* The LRU cache and the bound of the map.                                 *)

\* The steps at which a request has a breaker in hand.
Pointing == {"count", "last", "since", "add", "stamp", "store", "zero"}

\* The part of the type invariant that Shape leaves out.
Fields ==
  /\ failures \in [Breakers -> Nat]
  /\ lastAge \in [Breakers -> Ages]
  /\ age \in [Requests -> Ages]
  /\ mutex \in Requests \union {NoOne, Resetter}
  /\ resets \in Nat
  /\ health \in {"mixed", "up"}
  /\ \A r \in Requests : pc[r] \in Pointing => ref[r] \in Breakers

\* The list is the set of cached keys, each once, and no longer than the bound.
Listed ==
  /\ lru \in Seq(Keys)
  /\ Len(lru) =< MaxKeyBreakers
  /\ \A i, j \in 1..Len(lru) : lru[i] = lru[j] => i = j
  /\ \A k \in Keys : cached[k] # None <=> \E i \in 1..Len(lru) : lru[i] = k

\* Whatever the map has, the LRU cache has, also while the two differ; a key is
\* added only while it has neither.
MapInside ==
  /\ \A k \in Keys : cached[k] = None => keyBreakers[k] = None
  /\ \A r \in Requests : pc[r] = "new" => cached[key[r]] = None

TableInv == Fields /\ Listed /\ MapInside

\* Using a key reorders the list.
LEMMA UsedReorders ==
  ASSUME Listed, NEW k \in Keys, cached[k] # None
  PROVE  /\ Used(k) \in Seq(Keys)
         /\ Len(Used(k)) = Len(lru)
         /\ \A i, j \in 1..Len(lru) : Used(k)[i] = Used(k)[j] => i = j
         /\ \A j \in Keys : (\E i \in 1..Len(lru) : lru[i] = j)
                              <=> (\E i \in 1..Len(lru) : Used(k)[i] = j)
<1> DEFINE n == Len(lru)
<1>1. n \in Nat /\ \A i \in 1..n : lru[i] \in Keys
  BY DEF Listed
<1>2. PICK p \in 1..n : p = Place(k) /\ lru[p] = k
  BY DEF Listed, Place
<1>3. Used(k) = [i \in 1..n |-> IF i < p THEN lru[i]
                               ELSE IF i < n THEN lru[i + 1]
                               ELSE k]
  BY <1>2 DEF Used
<1>4. \A i, j \in 1..n : lru[i] = lru[j] => i = j
  BY DEF Listed
<1> HIDE DEF n
<1>5. Used(k) \in Seq(Keys) /\ Len(Used(k)) = n
  <2>1. \A i \in 1..n : Used(k)[i] \in Keys
    BY <1>1, <1>2, <1>3
  <2>2. Used(k) \in [1..n -> Keys]
    BY <1>3, <2>1
  <2>3. QED
    BY <1>1, <2>2
<1>6. \A i, j \in 1..n : Used(k)[i] = Used(k)[j] => i = j
  BY <1>1, <1>2, <1>3, <1>4
<1>7. ASSUME NEW i \in 1..n
      PROVE  \E j \in 1..n : Used(k)[j] = lru[i]
  <2>1. CASE i < p
    BY <1>1, <1>2, <1>3, <2>1
  <2>2. CASE i = p
    <3>1. Used(k)[n] = k /\ n \in 1..n
      BY <1>1, <1>2, <1>3
    <3>2. QED
      BY <1>2, <2>2, <3>1
  <2>3. CASE i > p
    <3>1. i - 1 \in 1..n /\ ~(i - 1 < p) /\ i - 1 < n /\ (i - 1) + 1 = i
      BY <1>1, <1>2, <2>3
    <3>2. Used(k)[i - 1] = lru[i]
      BY <1>3, <3>1
    <3>3. QED
      BY <3>1, <3>2
  <2>4. QED
    BY <1>1, <1>2, <2>1, <2>2, <2>3
<1>8. ASSUME NEW i \in 1..n
      PROVE  \E j \in 1..n : lru[j] = Used(k)[i]
  BY <1>1, <1>2, <1>3
<1>9. \A j \in Keys :
        (\E i \in 1..n : lru[i] = j) <=> (\E i \in 1..n : Used(k)[i] = j)
  BY <1>7, <1>8
<1>10. Len(Used(k)) = Len(lru) /\ n = Len(lru)
  BY <1>5 DEF n
<1>11. QED
  BY <1>5, <1>6, <1>9, <1>10

\* Adding a key to a full list costs the oldest one.
LEMMA AddedBounded ==
  ASSUME Listed, NEW k \in Keys, cached[k] = None
  PROVE  /\ Added(k) \in Seq(Keys)
         /\ Len(Added(k)) =< MaxKeyBreakers
         /\ \A i, j \in 1..Len(Added(k)) : Added(k)[i] = Added(k)[j] => i = j
         /\ \A j \in Keys :
              (\E i \in 1..Len(Added(k)) : Added(k)[i] = j)
                <=> j = k \/ (cached[j] # None /\ j \notin Evicted)
<1>1. PICK n \in Nat : n = Len(lru)
  BY DEF Listed
<1>2. /\ lru \in Seq(Keys)
      /\ \A i \in 1..n : lru[i] \in Keys /\ lru[i] # k
      /\ n =< MaxKeyBreakers /\ MaxKeyBreakers \in Nat \ {0}
      /\ \A i, j \in 1..n : lru[i] = lru[j] => i = j
      /\ \A j \in Keys : cached[j] # None <=> \E i \in 1..n : lru[i] = j
  BY <1>1, ConfigAssumption DEF Listed
<1>3. CASE Full
  <2>1. n > 0 /\ lru # <<>>
    BY <1>1, <1>2, <1>3 DEF Full
  <2>2. /\ Tail(lru) \in Seq(Keys)
        /\ Len(Tail(lru)) = n - 1
        /\ \A i \in 1..Len(Tail(lru)) : Tail(lru)[i] = lru[i + 1]
        /\ Head(lru) = lru[1]
    BY <1>1, <1>2, <2>1, HeadTailProperties
  <2>3. PICK s \in Seq(Keys) :
          s = Tail(lru) /\ Len(s) = n - 1 /\ \A i \in 1..n - 1 : s[i] = lru[i + 1]
    BY <2>2
  <2>4. Added(k) = Append(s, k)
    BY <1>3, <2>3 DEF Added
  <2>5. PICK a \in Seq(Keys) :
          /\ a = Added(k)
          /\ Len(a) = n
          /\ a[n] = k
          /\ \A i \in 1..n - 1 : a[i] = lru[i + 1]
    <3>1. /\ Append(s, k) \in Seq(Keys)
          /\ Len(Append(s, k)) = Len(s) + 1
          /\ \A i \in 1..Len(s) : Append(s, k)[i] = s[i]
          /\ Append(s, k)[Len(s) + 1] = k
      BY AppendProperties
    <3>2. Len(s) + 1 = n /\ Len(s) = n - 1
      BY <1>1, <2>3
    <3>3. \A i \in 1..n - 1 : Append(s, k)[i] = lru[i + 1]
      <4>1. \A i \in 1..n - 1 : Append(s, k)[i] = s[i]
        BY <3>1, <3>2, Zenon
      <4>2. QED
        BY <2>3, <4>1, Zenon
    <3>4. Len(Append(s, k)) = n /\ Append(s, k)[n] = k
      BY <3>1, <3>2, Zenon
    <3>5. QED
      BY <2>4, <3>1, <3>3, <3>4, Zenon
  <2>6. \A i, j \in 1..n : a[i] = a[j] => i = j
    <3>1. \A i \in 1..n - 1 : a[i] # k /\ i + 1 \in 1..n
      BY <1>2, <2>1, <2>5
    <3>2. \A i \in 1..n : i = n \/ i \in 1..n - 1
      OBVIOUS
    <3>3. \A i, j \in 1..n - 1 : a[i] = a[j] => i = j
      BY <1>2, <2>5, <3>1
    <3>4. QED
      BY <2>5, <3>1, <3>2, <3>3
  <2>7. ASSUME NEW j \in Keys
        PROVE  (\E i \in 1..n : a[i] = j)
                 <=> j = k \/ (cached[j] # None /\ j # lru[1])
    <3>1. ASSUME NEW i \in 1..n, a[i] = j, j # k
          PROVE  cached[j] # None /\ j # lru[1]
      <4>1. i \in 1..n - 1 /\ i + 1 \in 1..n /\ 1 \in 1..n /\ i + 1 # 1
        BY <2>5, <3>1
      <4>2. lru[i + 1] = j
        BY <2>5, <3>1, <4>1
      <4>3. QED
        BY <1>2, <4>1, <4>2
    <3>2. ASSUME cached[j] # None, j # lru[1]
          PROVE  \E i \in 1..n : a[i] = j
      <4>1. PICK i \in 1..n : lru[i] = j /\ i # 1
        BY <1>2, <3>2
      <4>2. i - 1 \in 1..n - 1 /\ (i - 1) + 1 = i /\ i - 1 \in 1..n
        BY <4>1
      <4>3. QED
        BY <2>5, <4>1, <4>2
    <3>3. n \in 1..n /\ a[n] = k
      BY <2>1, <2>5
    <3>4. QED
      BY <3>1, <3>2, <3>3
  <2>8. Evicted = {lru[1]}
    BY <1>3, <2>2 DEF Evicted
  <2>9. Len(a) = n /\ n =< MaxKeyBreakers
    BY <1>2, <2>5
  <2>10. QED
    BY <2>5, <2>6, <2>7, <2>8, <2>9
<1>4. CASE ~Full
  <2>1. Added(k) = Append(lru, k)
    BY <1>4 DEF Added
  <2>2. PICK a \in Seq(Keys) :
          /\ a = Added(k)
          /\ Len(a) = n + 1
          /\ a[n + 1] = k
          /\ \A i \in 1..n : a[i] = lru[i]
    <3>1. /\ Append(lru, k) \in Seq(Keys)
          /\ Len(Append(lru, k)) = Len(lru) + 1
          /\ \A i \in 1..Len(lru) : Append(lru, k)[i] = lru[i]
          /\ Append(lru, k)[Len(lru) + 1] = k
      BY <1>2, AppendProperties
    <3>2. QED
      BY <1>1, <2>1, <3>1
  <2>3. n + 1 =< MaxKeyBreakers
    BY <1>1, <1>2, <1>4 DEF Full
  <2>4. \A i \in 1..n + 1 : i = n + 1 \/ i \in 1..n
    OBVIOUS
  <2>5. \A i, j \in 1..n + 1 : a[i] = a[j] => i = j
    BY <1>2, <2>2, <2>4
  <2>6. ASSUME NEW j \in Keys
        PROVE  (\E i \in 1..n + 1 : a[i] = j) <=> j = k \/ cached[j] # None
    <3>1. n + 1 \in 1..n + 1 /\ 1..n \subseteq 1..n + 1
      OBVIOUS
    <3>2. QED
      BY <1>2, <2>2, <2>4, <3>1
  <2>7. Evicted = {}
    BY <1>4 DEF Evicted
  <2>8. QED
    BY <2>2, <2>3, <2>5, <2>6, <2>7
<1>5. QED
  BY <1>3, <1>4

LEMMA FieldsStep == LockInv /\ Fields /\ [Next]_vars => Fields'
<1> SUFFICES ASSUME LockInv, Fields, [Next]_vars
             PROVE  Fields'
  OBVIOUS
<1>a. Shape
  BY DEF LockInv
<1>b. Timeout \in Nat /\ Old = Timeout + 1
  BY ConfigAssumption DEF Old
<1> USE <1>a, <1>b DEF Shape, Fields, Pointing, PCs, Ages, tableVars,
        breakerVars, requestVars, Goto, Finish
<1>1. ASSUME NEW r \in Requests, NEW k \in Keys, CanExecuteKey(r, k)
      PROVE  Fields'
  <2>1. keyBreakers[k] # None => keyBreakers[k] \in Breakers
    OBVIOUS
  <2>2. QED
    BY <1>1, <2>1 DEF CanExecuteKey
<1>2. ASSUME NEW r \in Requests,
             LoadFailures(r) \/ LoadLastFailure(r) \/ Refuse(r) \/ Forgive(r)
      PROVE  Fields'
  <2>1. CASE LoadFailures(r) BY <2>1 DEF LoadFailures
  <2>2. CASE LoadLastFailure(r) BY <2>2 DEF LoadLastFailure
  <2>3. CASE Refuse(r) BY <2>3 DEF Refuse
  <2>4. CASE Forgive(r) BY <2>4 DEF Forgive
  <2>5. QED BY <1>2, <2>1, <2>2, <2>3, <2>4
<1>3. ASSUME NEW r \in Requests,
             Refused(r) \/ HalfOpenFull(r) \/ EngineFails(r) \/ EngineSucceeds(r)
      PROVE  Fields'
  BY <1>3 DEF Refused, HalfOpenFull, EngineFails, EngineSucceeds
<1>4. ASSUME NEW r \in Requests,
             LockFound(r) \/ LockMissing(r) \/ NewBreaker(r) \/ StoreBreaker(r)
      PROVE  Fields'
  <2>1. CASE LockFound(r)
    <3>1. cached[key[r]] \in Breakers
      BY <2>1 DEF LockFound
    <3>2. QED BY <2>1, <3>1 DEF LockFound
  <2>2. CASE LockMissing(r) BY <2>2 DEF LockMissing
  <2>3. CASE NewBreaker(r)
    <3>1. Free \in Breakers
      BY <2>3 DEF NewBreaker, Free
    <3>2. QED BY <2>3, <3>1 DEF NewBreaker
  <2>4. CASE StoreBreaker(r) BY <2>4 DEF StoreBreaker
  <2>5. QED BY <1>4, <2>1, <2>2, <2>3, <2>4
<1>5. ASSUME NEW r \in Requests, AddFailure(r) \/ StampFailure(r)
      PROVE  Fields'
  <2>1. CASE AddFailure(r) BY <2>1 DEF AddFailure
  <2>2. CASE StampFailure(r) BY <2>2 DEF StampFailure
  <2>3. QED BY <1>5, <2>1, <2>2
<1>6. ASSUME NEW r \in Requests,
             NoBreaker(r) \/ FindBreaker(r) \/ ZeroFailures(r) \/ Touch(r)
      PROVE  Fields'
  <2>1. CASE NoBreaker(r) BY <2>1 DEF NoBreaker
  <2>2. CASE FindBreaker(r)
    <3>1. keyBreakers[key[r]] \in Breakers
      BY <2>2 DEF FindBreaker
    <3>2. QED BY <2>2, <3>1 DEF FindBreaker
  <2>3. CASE ZeroFailures(r) BY <2>3 DEF ZeroFailures
  <2>4. CASE Touch(r) BY <2>4 DEF Touch
  <2>5. QED BY <1>6, <2>1, <2>2, <2>3, <2>4
<1>7. CASE ResetLock \/ ResetGoesOn
  BY <1>7 DEF ResetLock, ResetGoesOn, ResetDelete, ResetPurge
<1>8. CASE Tick
  <2>1. \A a \in Ages : Older(a) \in Ages
    BY DEF Older
  <2>2. QED BY <1>8, <2>1 DEF Tick
<1>9. CASE Heal \/ UNCHANGED vars
  BY <1>9 DEF Heal, vars
<1>10. QED
  BY <1>1, <1>2, <1>3, <1>4, <1>5, <1>6, <1>7, <1>8, <1>9 DEF Next, Proceed

\* The list and the two tables change under the mutex only; a Touch reorders.
LEMMA ListStep == LockInv /\ TableInv /\ [Next]_vars => Listed' /\ MapInside'
<1> SUFFICES ASSUME LockInv, TableInv, [Next]_vars
             PROVE  Listed' /\ MapInside'
  OBVIOUS
<1>a. Shape /\ HoldsMutex /\ Listed /\ MapInside /\ (\A r \in Requests : Tables(r))
  BY DEF LockInv, TableInv
<1> USE DEF tableVars, breakerVars, requestVars, Goto, Finish
<1>1. ASSUME NEW r \in Requests, LockFound(r) \/ Touch(r)
      PROVE  Listed' /\ MapInside'
  <2>1. /\ UNCHANGED <<keyBreakers, cached>>
        /\ lru' = lru \/ (cached[key[r]] # None /\ lru' = Used(key[r]))
        /\ key[r] \in Keys
        /\ \A q \in Requests : pc'[q] = "new" => pc[q] = "new" /\ key'[q] = key[q]
    BY <1>a, <1>1 DEF LockFound, Touch, Shape
  <2>2. MapInside'
    BY <1>a, <2>1 DEF MapInside
  <2>3. CASE lru' = lru
    BY <1>a, <2>1, <2>2, <2>3 DEF Listed
  <2>4. CASE cached[key[r]] # None /\ lru' = Used(key[r])
    <3>1. /\ lru' \in Seq(Keys)
          /\ Len(lru') = Len(lru)
          /\ \A i, j \in 1..Len(lru) : lru'[i] = lru'[j] => i = j
          /\ \A j \in Keys : (\E i \in 1..Len(lru) : lru[i] = j)
                               <=> (\E i \in 1..Len(lru) : lru'[i] = j)
      BY <1>a, <2>1, <2>4, UsedReorders
    <3>2. QED
      BY <1>a, <2>1, <2>2, <3>1 DEF Listed
  <2>5. QED
    BY <2>1, <2>3, <2>4
<1>2. ASSUME NEW r \in Requests, LockMissing(r)
      PROVE  Listed' /\ MapInside'
  BY <1>a, <1>2 DEF LockMissing, Shape, Listed, MapInside
<1>3. ASSUME NEW r \in Requests, NewBreaker(r)
      PROVE  Listed' /\ MapInside'
  <2>1. /\ pc[r] = "new" /\ mutex = r /\ key[r] \in Keys
        /\ cached[key[r]] = None
        /\ Free \in Breakers
    BY <1>a, <1>3 DEF NewBreaker, Free, Shape, HoldsMutex, Locked, MapInside
  <2>2. PICK k \in Keys, b \in Breakers : k = key[r] /\ b = Free
    BY <2>1
  <2>3. /\ lru' = Added(k)
        /\ cached' = [j \in Keys |-> IF j = k THEN b
                                     ELSE IF j \in Evicted THEN None
                                     ELSE cached[j]]
        /\ keyBreakers' = [j \in Keys |-> IF j \in Evicted THEN None
                                          ELSE keyBreakers[j]]
        /\ pc' = [pc EXCEPT ![r] = "store"]
    BY <1>3, <2>2 DEF NewBreaker
  <2>4. b # None
    BY <2>2, NameAssumption
  <2>5. \A j \in Keys : cached'[j] # None
          <=> j = k \/ (cached[j] # None /\ j \notin Evicted)
    BY <2>3, <2>4
  <2>6. Listed'
    <3>1. /\ Added(k) \in Seq(Keys)
          /\ Len(Added(k)) =< MaxKeyBreakers
          /\ \A i, j \in 1..Len(Added(k)) : Added(k)[i] = Added(k)[j] => i = j
          /\ \A j \in Keys :
               (\E i \in 1..Len(Added(k)) : Added(k)[i] = j)
                 <=> j = k \/ (cached[j] # None /\ j \notin Evicted)
      BY <1>a, <2>1, <2>2, AddedBounded
    <3>2. lru' \in Seq(Keys) /\ Len(lru') =< MaxKeyBreakers
          /\ \A i, j \in 1..Len(lru') : lru'[i] = lru'[j] => i = j
      BY <2>3, <3>1
    <3>3. \A j \in Keys : cached'[j] # None
            <=> \E i \in 1..Len(lru') : lru'[i] = j
      BY <2>3, <2>5, <3>1, Zenon
    <3>4. QED
      BY <3>2, <3>3 DEF Listed
  <2>7. \A j \in Keys : cached'[j] = None => keyBreakers'[j] = None
    BY <1>a, <2>3, <2>5 DEF MapInside
  <2>8. \A q \in Requests : pc'[q] # "new"
    BY <1>a, <2>1, <2>3 DEF Shape, HoldsMutex, Locked
  <2>9. QED
    BY <2>6, <2>7, <2>8 DEF MapInside
<1>4. ASSUME NEW r \in Requests, StoreBreaker(r)
      PROVE  Listed' /\ MapInside'
  <2>1. /\ pc[r] = "store" /\ mutex = r /\ key[r] \in Keys
        /\ keyBreakers' = cached /\ UNCHANGED <<cached, lru>>
        /\ pc' = [pc EXCEPT ![r] = "idle"]
    BY <1>a, <1>4 DEF StoreBreaker, Shape, HoldsMutex, Locked, Tables
  <2>2. \A q \in Requests : pc'[q] # "new"
    BY <1>a, <2>1 DEF Shape, HoldsMutex, Locked
  <2>3. QED
    BY <1>a, <2>1, <2>2 DEF Listed, MapInside
<1>5. CASE ResetGoesOn
  <2>1. \A q \in Requests : pc[q] # "new"
    BY <1>a, <1>5, NameAssumption
    DEF ResetGoesOn, ResetDelete, ResetPurge, HoldsMutex, Locked
  <2>2. ASSUME NEW k \in Keys, ResetDelete(k)
        PROVE  Listed' /\ MapInside'
    BY <1>a, <2>1, <2>2 DEF ResetDelete, Shape, Listed, MapInside
  <2>3. CASE ResetPurge
    <3>1. lru' = <<>> /\ cached' = [k \in Keys |-> None]
          /\ UNCHANGED <<keyBreakers, pc>>
          /\ \A k \in Keys : keyBreakers[k] = None
      BY <2>3 DEF ResetPurge
    <3>2. Listed'
      BY <3>1, ConfigAssumption DEF Listed
    <3>3. QED
      BY <2>1, <3>1, <3>2 DEF MapInside
  <2>4. QED
    BY <1>5, <2>2, <2>3 DEF ResetGoesOn
<1>6. ASSUME UNCHANGED tableVars,
             \A q \in Requests :
               pc'[q] = "new" => pc[q] = "new" /\ key'[q] = key[q]
      PROVE  Listed' /\ MapInside'
  BY <1>a, <1>6 DEF Listed, MapInside
<1>7. ASSUME NEW r \in Requests, NEW k \in Keys, CanExecuteKey(r, k)
      PROVE  Listed' /\ MapInside'
  BY <1>a, <1>6, <1>7 DEF CanExecuteKey, Shape
<1>8. ASSUME NEW r \in Requests,
             \/ LoadFailures(r) \/ LoadLastFailure(r) \/ Refuse(r)
             \/ Forgive(r) \/ Refused(r) \/ HalfOpenFull(r)
             \/ EngineFails(r) \/ EngineSucceeds(r)
      PROVE  Listed' /\ MapInside'
  BY <1>a, <1>6, <1>8 DEF LoadFailures, LoadLastFailure, Refuse, Forgive,
     Refused, HalfOpenFull, EngineFails, EngineSucceeds, Shape
<1>9. ASSUME NEW r \in Requests,
             \/ AddFailure(r) \/ StampFailure(r) \/ NoBreaker(r)
             \/ FindBreaker(r) \/ ZeroFailures(r)
      PROVE  Listed' /\ MapInside'
  BY <1>a, <1>6, <1>9 DEF AddFailure, StampFailure, NoBreaker, FindBreaker,
     ZeroFailures, Shape
<1>10. CASE ResetLock \/ Tick \/ Heal \/ UNCHANGED vars
  BY <1>6, <1>10 DEF ResetLock, Tick, Heal, vars
<1>11. QED
  BY <1>1, <1>2, <1>3, <1>4, <1>5, <1>7, <1>8, <1>9, <1>10 DEF Next, Proceed

LEMMA TableInvariant == Spec => []TableInv
<1>1. Init => TableInv
  <2>1. Init => Fields
    BY NameAssumption, ConfigAssumption DEF Init, Fields, Pointing, Ages, Old
  <2>2. Init => Listed /\ MapInside
    BY ConfigAssumption DEF Init, Listed, MapInside
  <2>3. QED
    BY <2>1, <2>2 DEF TableInv
<1>2. LockInv /\ TableInv /\ [Next]_vars => TableInv'
  BY FieldsStep, ListStep DEF TableInv
<1>3. QED
  BY <1>1, <1>2, LockInvariant, PTL DEF Spec

\* Type correctness of both tables, the breakers and the requests.
THEOREM Typing == Spec => []TypeOK
<1>1. LockInv /\ TableInv => TypeOK
  BY DEF LockInv, TableInv, Shape, Fields, Listed, TypeOK
<1>2. QED
  BY <1>1, LockInvariant, TableInvariant, PTL

\* The keys with a breaker in the LRU cache.
Held == {k \in Keys : cached[k] # None}

LEMMA HeldBounded ==
  ASSUME Listed
  PROVE  IsFiniteSet(Held) /\ Cardinality(Held) =< MaxKeyBreakers
<1> DEFINE n == Len(lru)
<1>1. n \in Nat /\ n =< MaxKeyBreakers
  BY DEF Listed
<1>2. lru \in Surjection(1..n, Held)
  <2>1. lru \in [1..n -> Keys]
    BY DEF Listed
  <2>2. \A i \in 1..n : lru[i] \in Held
    BY <2>1 DEF Listed, Held
  <2>3. lru \in [1..n -> Held]
    BY <2>1, <2>2
  <2>4. \A k \in Held : \E i \in 1..n : lru[i] = k
    BY DEF Listed, Held
  <2>5. QED
    BY <2>3, <2>4 DEF Surjection
<1> HIDE DEF n
<1>3. IsFiniteSet(1..n) /\ Cardinality(1..n) = n
  BY <1>1, FS_Interval
<1>4. IsFiniteSet(Held) /\ Cardinality(Held) =< n
  BY <1>2, <1>3, FS_Surjection
<1>5. Cardinality(Held) \in Nat
  BY <1>4, FS_CardinalityType
<1>6. QED
  BY <1>1, <1>4, <1>5, ConfigAssumption

\* However many keys fail at once, the map never has more breakers than the LRU
\* cache may hold.
THEOREM MapIsBounded == Spec => []MapBounded
<1>1. ASSUME Listed, MapInside
      PROVE  MapBounded
  <2> DEFINE Open == {k \in Keys : keyBreakers[k] # None}
  <2>1. IsFiniteSet(Held) /\ Cardinality(Held) =< MaxKeyBreakers
    BY <1>1, HeldBounded
  <2>2. Open \in SUBSET Held
    BY <1>1 DEF MapInside, Held
  <2>3. IsFiniteSet(Open) /\ Cardinality(Open) =< Cardinality(Held)
    BY <2>1, <2>2, FS_Subset
  <2>4. Cardinality(Open) \in Nat /\ Cardinality(Held) \in Nat
    BY <2>1, <2>3, FS_CardinalityType
  <2>5. Cardinality(Open) =< MaxKeyBreakers
    BY <2>1, <2>3, <2>4, ConfigAssumption
  <2>6. QED
    BY <2>5 DEF MapBounded
<1>2. QED
  BY <1>1, TableInvariant, PTL DEF TableInv

-----------------------------------------------------------------------------
(* A breaker has one key.                                                  *)

\* Somebody could count, forgive or look up a failure of key k in b.
PointedBy(b, k) ==
  \/ keyBreakers[k] = b
  \/ cached[k] = b
  \/ \E r \in Requests : ref[r] = b /\ key[r] = k

KeysApart ==
  \A b \in Breakers : \A j, k \in Keys :
    PointedBy(b, j) /\ PointedBy(b, k) => j = k

\* A pointer is only ever passed on for its own key; a new one is to a breaker
\* that nobody points to.
LEMMA PointerSteps ==
  ASSUME LockInv, [Next]_vars
  PROVE  \/ \A b \in Breakers : \A k \in Keys :
              PointedBy(b, k)' => PointedBy(b, k)
         \/ \E n \in Breakers : \E m \in Keys :
              /\ \A k \in Keys : ~PointedBy(n, k)
              /\ \A k \in Keys : PointedBy(n, k)' => k = m
              /\ \A b \in Breakers \ {n} : \A k \in Keys :
                   PointedBy(b, k)' => PointedBy(b, k)
<1>a. Shape /\ None \notin Breakers
  BY NameAssumption DEF LockInv
<1> USE <1>a DEF Shape, PointedBy, tableVars, requestVars, Goto, Finish
<1> DEFINE PassedOn == \A b \in Breakers : \A k \in Keys :
                         PointedBy(b, k)' => PointedBy(b, k)
<1>1. ASSUME NEW r \in Requests, NEW k \in Keys, CanExecuteKey(r, k)
      PROVE  PassedOn
  <2>1. /\ UNCHANGED tableVars
        /\ ref'[r] = keyBreakers[k] /\ key'[r] = k
        /\ \A q \in Requests : q # r => ref'[q] = ref[q] /\ key'[q] = key[q]
    BY <1>1 DEF CanExecuteKey
  <2>2. QED
    BY <2>1
<1>2. ASSUME NEW r \in Requests,
             \/ ref'[r] = None
             \/ ref'[r] = ref[r] /\ key'[r] = key[r]
             \/ key'[r] = key[r] /\ ref'[r] = cached[key[r]]
             \/ key'[r] = key[r] /\ ref'[r] = keyBreakers[key[r]],
             \A q \in Requests : q # r => ref'[q] = ref[q] /\ key'[q] = key[q],
             UNCHANGED <<keyBreakers, cached>>
      PROVE  PassedOn
  BY <1>2
<1>3. ASSUME NEW r \in Requests,
             \/ LoadFailures(r) \/ LoadLastFailure(r) \/ Refuse(r) \/ Forgive(r)
             \/ Refused(r) \/ HalfOpenFull(r) \/ EngineFails(r)
             \/ EngineSucceeds(r)
      PROVE  PassedOn
  <2>1. /\ ref'[r] = None \/ (ref'[r] = ref[r] /\ key'[r] = key[r])
        /\ \A q \in Requests : q # r => ref'[q] = ref[q] /\ key'[q] = key[q]
        /\ UNCHANGED <<keyBreakers, cached>>
    BY <1>3 DEF LoadFailures, LoadLastFailure, Refuse, Forgive, Refused,
       HalfOpenFull, EngineFails, EngineSucceeds
  <2>2. QED
    BY <1>2, <2>1
<1>4. ASSUME NEW r \in Requests,
             \/ LockFound(r) \/ LockMissing(r) \/ AddFailure(r)
             \/ StampFailure(r)
      PROVE  PassedOn
  <2>1. /\ \/ ref'[r] = None
           \/ ref'[r] = ref[r] /\ key'[r] = key[r]
           \/ key'[r] = key[r] /\ ref'[r] = cached[key[r]]
        /\ \A q \in Requests : q # r => ref'[q] = ref[q] /\ key'[q] = key[q]
        /\ UNCHANGED <<keyBreakers, cached>>
    BY <1>4 DEF LockFound, LockMissing, AddFailure, StampFailure
  <2>2. QED
    BY <1>2, <2>1
<1>5. ASSUME NEW r \in Requests,
             \/ NoBreaker(r) \/ FindBreaker(r) \/ ZeroFailures(r) \/ Touch(r)
      PROVE  PassedOn
  <2>1. /\ \/ ref'[r] = None
           \/ key'[r] = key[r] /\ ref'[r] = keyBreakers[key[r]]
        /\ \A q \in Requests : q # r => ref'[q] = ref[q] /\ key'[q] = key[q]
        /\ UNCHANGED <<keyBreakers, cached>>
    BY <1>5 DEF NoBreaker, FindBreaker, ZeroFailures, Touch
  <2>2. QED
    BY <1>2, <2>1
<1>6. ASSUME NEW r \in Requests, StoreBreaker(r)
      PROVE  PassedOn
  <2>1. /\ ref'[r] = None /\ cached' = cached
        /\ keyBreakers' = [keyBreakers EXCEPT ![key[r]] = ref[r]]
        /\ \A q \in Requests : q # r => ref'[q] = ref[q] /\ key'[q] = key[q]
    BY <1>6 DEF StoreBreaker
  <2>2. \A k \in Keys : keyBreakers'[k] = keyBreakers[k]
                         \/ (k = key[r] /\ keyBreakers'[k] = ref[r])
    BY <2>1
  <2>3. QED
    BY <2>1, <2>2
<1>7. ASSUME NEW r \in Requests, NewBreaker(r)
      PROVE  \E n \in Breakers : \E m \in Keys :
               /\ \A k \in Keys : ~PointedBy(n, k)
               /\ \A k \in Keys : PointedBy(n, k)' => k = m
               /\ \A b \in Breakers \ {n} : \A k \in Keys :
                    PointedBy(b, k)' => PointedBy(b, k)
  <2>1. PICK n \in Breakers : n = Free /\ n \notin Pointed
    BY <1>7 DEF NewBreaker, Free
  <2>2. PICK m \in Keys : m = key[r]
    BY <1>7 DEF NewBreaker
  <2>3. /\ ref'[r] = n /\ key' = key
        /\ \A q \in Requests : q # r => ref'[q] = ref[q]
        /\ \A k \in Keys : keyBreakers'[k] \in {None, keyBreakers[k]}
        /\ cached'[m] = n
        /\ \A k \in Keys : k # m => cached'[k] \in {None, cached[k]}
    BY <1>7, <2>1, <2>2 DEF NewBreaker
  <2>4. /\ \A k \in Keys : keyBreakers[k] # n /\ cached[k] # n
        /\ \A q \in Requests : ref[q] # n
    BY <2>1 DEF Pointed
  <2>5. \A k \in Keys : ~PointedBy(n, k)
    BY <2>4
  <2>6. \A k \in Keys : PointedBy(n, k)' => k = m
    BY <2>2, <2>3, <2>4
  <2>7. \A b \in Breakers \ {n} : \A k \in Keys :
          PointedBy(b, k)' => PointedBy(b, k)
    BY <2>3
  <2>8. QED
    BY <2>5, <2>6, <2>7
<1>8. CASE ResetLock \/ Tick \/ Heal \/ UNCHANGED vars
  <2>1. UNCHANGED <<keyBreakers, cached, ref, key>>
    BY <1>8 DEF ResetLock, Tick, Heal, vars
  <2>2. QED
    BY <2>1
<1>9. CASE ResetGoesOn
  <2>1. /\ UNCHANGED <<ref, key>>
        /\ \A k \in Keys : /\ keyBreakers'[k] \in {None, keyBreakers[k]}
                            /\ cached'[k] \in {None, cached[k]}
    BY <1>9 DEF ResetGoesOn, ResetDelete, ResetPurge
  <2>2. QED
    BY <2>1
<1>10. QED
  BY <1>1, <1>3, <1>4, <1>5, <1>6, <1>7, <1>8, <1>9 DEF Next, Proceed

\* Whatever is evicted, reset and created again while requests still have a
\* pointer in hand, a breaker belongs to one key: no failure of a key is counted
\* against another one, and no success forgives another one's.
THEOREM BreakersApart == Spec => []KeysApart
<1>1. Init => KeysApart
  BY NameAssumption DEF Init, KeysApart, PointedBy
<1>2. LockInv /\ KeysApart /\ [Next]_vars => KeysApart'
  <2> SUFFICES ASSUME LockInv, KeysApart, [Next]_vars
               PROVE  KeysApart'
    OBVIOUS
  <2> HIDE DEF PointedBy
  <2>1. CASE \A b \in Breakers : \A k \in Keys :
               PointedBy(b, k)' => PointedBy(b, k)
    BY <2>1 DEF KeysApart
  <2>2. ASSUME NEW n \in Breakers, NEW m \in Keys,
               \A k \in Keys : PointedBy(n, k)' => k = m,
               \A b \in Breakers \ {n} : \A k \in Keys :
                 PointedBy(b, k)' => PointedBy(b, k)
        PROVE  KeysApart'
    BY <2>2 DEF KeysApart
  <2>3. QED
    BY PointerSteps, <2>1, <2>2
<1>3. QED
  BY <1>1, <1>2, LockInvariant, PTL DEF Spec

-----------------------------------------------------------------------------
(* The mutex comes free.                                                   *)

\* A request that holds the mutex is at one of the steps that lead to Unlock;
\* one that has found no breaker has none in hand.
MutexInv ==
  /\ mutex \in Requests => pc[mutex] \in Locked
  /\ \A r \in Requests : pc[r] = "new" => ref[r] = None

LEMMA MutexInvStep == LockInv /\ MutexInv /\ [Next]_vars => MutexInv'
<1> SUFFICES ASSUME LockInv, MutexInv, [Next]_vars
             PROVE  MutexInv'
  OBVIOUS
<1>a. /\ Shape
      /\ \A r \in Requests : pc[r] \in Locked => mutex = r
      /\ NoOne \notin Requests /\ Resetter \notin Requests
  BY NameAssumption DEF LockInv, HoldsMutex
<1> USE <1>a DEF Shape, MutexInv, Locked, tableVars, requestVars, Goto, Finish
<1>1. ASSUME NEW r \in Requests,
             pc[r] \notin Locked, pc'[r] # "new",
             mutex' = mutex,
             \A q \in Requests : q # r => pc'[q] = pc[q] /\ ref'[q] = ref[q]
      PROVE  MutexInv'
  BY <1>1
<1>2. ASSUME NEW r \in Requests,
             \/ \E k \in Keys : CanExecuteKey(r, k)
             \/ LoadFailures(r) \/ LoadLastFailure(r) \/ Refuse(r) \/ Forgive(r)
             \/ Refused(r) \/ HalfOpenFull(r) \/ EngineFails(r)
             \/ EngineSucceeds(r)
      PROVE  MutexInv'
  <2>1. /\ pc[r] \notin Locked /\ pc'[r] # "new" /\ mutex' = mutex
        /\ \A q \in Requests : q # r => pc'[q] = pc[q] /\ ref'[q] = ref[q]
    BY <1>2 DEF CanExecuteKey, LoadFailures, LoadLastFailure, Refuse, Forgive,
       Refused, HalfOpenFull, EngineFails, EngineSucceeds
  <2>2. QED
    BY <1>1, <2>1
<1>3. ASSUME NEW r \in Requests,
             \/ NoBreaker(r) \/ FindBreaker(r) \/ ZeroFailures(r) \/ Touch(r)
      PROVE  MutexInv'
  <2>1. /\ pc[r] \notin Locked /\ pc'[r] # "new" /\ mutex' = mutex
        /\ \A q \in Requests : q # r => pc'[q] = pc[q] /\ ref'[q] = ref[q]
    BY <1>3 DEF NoBreaker, FindBreaker, ZeroFailures, Touch
  <2>2. QED
    BY <1>1, <2>1
<1>4. ASSUME NEW r \in Requests, LockFound(r) \/ LockMissing(r)
      PROVE  MutexInv'
  <2>1. /\ mutex' = r
        /\ pc'[r] = "add" \/ (pc'[r] = "new" /\ ref'[r] = None)
        /\ \A q \in Requests : q # r => pc'[q] = pc[q] /\ ref'[q] = ref[q]
    BY <1>4 DEF LockFound, LockMissing
  <2>2. QED
    BY <2>1
<1>5. ASSUME NEW r \in Requests, AddFailure(r) \/ NewBreaker(r)
      PROVE  MutexInv'
  <2>1. /\ mutex' = mutex /\ pc'[r] \in {"stamp", "store"}
        /\ \A q \in Requests : q # r => pc'[q] = pc[q] /\ ref'[q] = ref[q]
    BY <1>5 DEF AddFailure, NewBreaker
  <2>2. QED
    BY <2>1
<1>6. ASSUME NEW r \in Requests, StampFailure(r) \/ StoreBreaker(r)
      PROVE  MutexInv'
  <2>1. /\ mutex' = NoOne /\ pc'[r] = "idle"
        /\ \A q \in Requests : q # r => pc'[q] = pc[q] /\ ref'[q] = ref[q]
    BY <1>6 DEF StampFailure, StoreBreaker
  <2>2. QED
    BY <2>1
<1>7. CASE ResetLock \/ ResetGoesOn
  <2>1. UNCHANGED <<pc, ref>> /\ mutex' \in {mutex, NoOne, Resetter}
    BY <1>7 DEF ResetLock, ResetGoesOn, ResetDelete, ResetPurge
  <2>2. QED
    BY <2>1
<1>8. CASE Tick \/ Heal \/ UNCHANGED vars
  <2>1. UNCHANGED <<pc, ref, mutex>>
    BY <1>8 DEF Tick, Heal, vars
  <2>2. QED
    BY <2>1
<1>9. QED
  BY <1>2, <1>3, <1>4, <1>5, <1>6, <1>7, <1>8 DEF Next, Proceed

\* Enough objects for the breakers that are cached and those in hand.
EnoughBreakers ==
  /\ IsFiniteSet(Requests) /\ IsFiniteSet(Breakers)
  /\ Cardinality(Breakers) >= MaxKeyBreakers + Cardinality(Requests)

\* A request that is about to make a breaker points to none, so that the cached
\* ones and those of the other requests leave one over.
LEMMA ABreakerIsFree ==
  ASSUME EnoughBreakers, LockInv, TableInv, MutexInv,
         NEW r \in Requests, pc[r] = "new"
  PROVE  Breakers \ Pointed # {}
<1> DEFINE A == {cached[k] : k \in Held}
           O == Requests \ {r}
           B == {ref[q] : q \in O}
<1>1. IsFiniteSet(Held) /\ Cardinality(Held) =< MaxKeyBreakers
  BY HeldBounded DEF TableInv
<1>2. IsFiniteSet(O) /\ Cardinality(O) = Cardinality(Requests) - 1
  BY FS_RemoveElement DEF EnoughBreakers
<1>3. IsFiniteSet(A) /\ Cardinality(A) =< Cardinality(Held)
  <2>1. [k \in Held |-> cached[k]] \in Surjection(Held, A)
    BY DEF Surjection
  <2>2. QED
    BY <1>1, <2>1, FS_Surjection
<1>4. IsFiniteSet(B) /\ Cardinality(B) =< Cardinality(O)
  <2>1. [q \in O |-> ref[q]] \in Surjection(O, B)
    BY DEF Surjection
  <2>2. QED
    BY <1>2, <2>1, FS_Surjection
<1>5. Breakers \intersect Pointed \subseteq A \union B
  <2>1. keyBreakers = cached /\ ref[r] = None /\ None \notin Breakers
    BY NameAssumption DEF LockInv, Tables, MutexInv
  <2>2. QED
    BY <2>1 DEF Pointed, Held
<1>6. Cardinality(Held) \in Nat /\ Cardinality(Requests) \in Nat
      /\ Cardinality(Breakers) \in Nat
  BY <1>1, FS_CardinalityType DEF EnoughBreakers
<1>7. Cardinality(A) \in Nat /\ Cardinality(B) \in Nat
      /\ Cardinality(A \intersect B) \in Nat
  <2>1. IsFiniteSet(A \intersect B)
    BY <1>3, FS_Subset
  <2>2. QED
    BY <1>3, <1>4, <2>1, FS_CardinalityType
<1> HIDE DEF A, B, O
<1>8. /\ IsFiniteSet(A \union B)
      /\ Cardinality(A \union B) =
           Cardinality(A) + Cardinality(B) - Cardinality(A \intersect B)
  BY <1>3, <1>4, FS_Union
<1>9. Cardinality(A \union B) =< MaxKeyBreakers + Cardinality(Requests) - 1
  BY <1>1, <1>2, <1>3, <1>4, <1>6, <1>7, <1>8, ConfigAssumption
<1>10. ASSUME Breakers \subseteq A \union B
       PROVE  Cardinality(Breakers) =< Cardinality(A \union B)
  BY <1>8, <1>10, FS_Subset
<1>11. Cardinality(A \union B) \in Nat
  BY <1>8, FS_CardinalityType
<1>12. ~(Breakers \subseteq A \union B)
  BY <1>6, <1>9, <1>10, <1>11, ConfigAssumption DEF EnoughBreakers
<1>13. QED
  BY <1>5, <1>12

\* Whoever holds keyBreakerMutex is at a step that waits for nothing: Reset in
\* its deletions, or a request on its way to Unlock.
HolderGoesOn ==
  mutex # NoOne =>
    \/ mutex = Resetter
    \/ /\ mutex \in Requests
       /\ pc[mutex] \in Locked
       /\ pc[mutex] = "new" => Breakers \ Pointed # {}

\* The mutex is never lost, in whatever branch recordKeyFailure, resetKeyBreaker
\* and Reset leave it; and the model's pool of objects, if it has one for every
\* cached breaker and every request, never keeps the holder from going on.
THEOREM MutexNeverLost == EnoughBreakers => (Spec => []HolderGoesOn)
<1> SUFFICES ASSUME EnoughBreakers
             PROVE  Spec => []HolderGoesOn
  OBVIOUS
<1>1. Init => MutexInv
  BY NameAssumption DEF Init, MutexInv
<1>2. LockInv /\ TableInv /\ MutexInv => HolderGoesOn
  <2> SUFFICES ASSUME LockInv, TableInv, MutexInv, mutex # NoOne,
                      mutex # Resetter
               PROVE  /\ mutex \in Requests
                      /\ pc[mutex] \in Locked
                      /\ pc[mutex] = "new" => Breakers \ Pointed # {}
    BY DEF HolderGoesOn
  <2>1. mutex \in Requests
    BY DEF TableInv, Fields
  <2>2. pc[mutex] \in Locked
    BY <2>1 DEF MutexInv
  <2>3. PICK r \in Requests : r = mutex
    BY <2>1
  <2>4. pc[r] = "new" => Breakers \ Pointed # {}
    BY ABreakerIsFree
  <2>5. QED
    BY <2>1, <2>2, <2>3, <2>4
<1>3. QED
  BY <1>1, MutexInvStep, <1>2, LockInvariant, TableInvariant, PTL DEF Spec

=============================================================================
