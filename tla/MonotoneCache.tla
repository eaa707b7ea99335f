---------------------------- MODULE MonotoneCache ----------------------------
(***************************************************************************)
(* What Execute promises its callers, with no flights, markers, goroutines *)
(* or deadlines: per key a value that only gives way to a newer one or is  *)
(* dropped, and answers that are never older than one already given when   *)
(* the question was asked.  A fetch that has been withdrawn (its caller    *)
(* was told an error) is never published or answered with.  The module     *)
(* StaleEngine implements it.                                              *)
(*                                                                         *)
(* Values are numbered by the fetch that brought them; 0 is no value, and  *)
(* 1 is what an earlier process may have left in the cache.                *)
(***************************************************************************)
EXTENDS Integers

CONSTANTS Keys, NoKey, Callers

VARIABLES
  cache,      \* cache[k]: the value published for k
  fetched,    \* the number of the last fetch
  withdrawn,  \* fetches whose value was given up
  asking,     \* asking[c]: the key c waits for an answer about
  floor,      \* floor[c]: served[asking[c]] when c asked
  served,     \* served[k]: the newest value any caller got for k
  reply       \* reply[c]: the last answer c got

cacheVars == <<cache, fetched, withdrawn, asking, floor, served, reply>>

Init ==
  /\ cache \in [Keys -> {0, 1}]
  /\ fetched = 1
  /\ withdrawn = {}
  /\ asking = [c \in Callers |-> NoKey]
  /\ floor = [c \in Callers |-> 0]
  /\ served = [k \in Keys |-> 0]
  /\ reply = [c \in Callers |-> 0]

Fetch ==
  /\ fetched' = fetched + 1
  /\ UNCHANGED <<cache, withdrawn, asking, floor, served, reply>>

Usable(v) == v \in 1..fetched /\ v \notin withdrawn

Publish(k, v) ==
  /\ Usable(v)
  /\ v > cache[k]
  /\ cache' = [cache EXCEPT ![k] = v]
  /\ UNCHANGED <<fetched, withdrawn, asking, floor, served, reply>>

Drop(k) ==
  /\ cache' = [cache EXCEPT ![k] = 0]
  /\ UNCHANGED <<fetched, withdrawn, asking, floor, served, reply>>

\* Only a value that nobody has seen can be withdrawn.
Withdraw(v) ==
  /\ v \in 1..fetched
  /\ \A k \in Keys : cache[k] # v
  /\ \A c \in Callers : reply[c] # v
  /\ withdrawn' = withdrawn \union {v}
  /\ UNCHANGED <<cache, fetched, asking, floor, served, reply>>

Ask(c, k) ==
  /\ asking[c] = NoKey
  /\ asking' = [asking EXCEPT ![c] = k]
  /\ floor' = [floor EXCEPT ![c] = served[k]]
  /\ reply' = [reply EXCEPT ![c] = 0]
  /\ UNCHANGED <<cache, fetched, withdrawn, served>>

\* c gets v for k, or an error, which is 0.
Gets(c, k, v) ==
  /\ v = 0 \/ Usable(v)
  /\ asking' = [asking EXCEPT ![c] = NoKey]
  /\ reply' = [reply EXCEPT ![c] = v]
  /\ served' = [served EXCEPT ![k] = IF v > served[k] THEN v ELSE served[k]]
  /\ UNCHANGED <<cache, fetched, withdrawn>>

Answer(c, v) ==
  /\ asking[c] # NoKey
  /\ v = 0 \/ v >= floor[c]
  /\ Gets(c, asking[c], v)
  /\ UNCHANGED floor

\* Question and answer in one step.
AnswerAtOnce(c, k, v) ==
  /\ asking[c] = NoKey
  /\ v = 0 \/ v >= served[k]
  /\ Gets(c, k, v)
  /\ floor' = [floor EXCEPT ![c] = served[k]]

Next ==
  \/ Fetch
  \/ \E k \in Keys : Drop(k) \/ \E v \in 1..fetched : Publish(k, v)
  \/ \E v \in 1..fetched : Withdraw(v)
  \/ \E c \in Callers, k \in Keys : Ask(c, k)
  \/ \E c \in Callers, v \in 0..fetched :
       Answer(c, v) \/ \E k \in Keys : AnswerAtOnce(c, k, v)

Spec == Init /\ [][Next]_cacheVars

=============================================================================
