-------------------------- MODULE TransactionPromise --------------------------
(***************************************************************************)
(* What $transaction, and a write of its own, promise their callers. Each  *)
(* call adds one to a counter that all of them share: it is made whole and *)
(* at most once, however often it is tried again, and no other call's is   *)
(* lost. A call that resolves was made; one that rejects was not, but for  *)
(* the call whose connection broke, which cannot know.                     *)
(***************************************************************************)
EXTENDS Integers

CONSTANT Calls

VARIABLES
  total,      \* the shared counter
  unknown,    \* the calls made whose answer was lost
  outcome     \* call -> "pending", "resolved", or the error it rejects with

Init ==
  /\ total = 0
  /\ unknown = {}
  /\ outcome = [t \in Calls |-> "pending"]

Resolve(t) ==
  /\ outcome[t] = "pending" /\ t \notin unknown
  /\ total' = total + 1
  /\ outcome' = [outcome EXCEPT ![t] = "resolved"]
  /\ UNCHANGED unknown

(* Made, and the answer lost with the connection.                          *)
LoseAnswer(t) ==
  /\ outcome[t] = "pending" /\ t \notin unknown
  /\ total' = total + 1
  /\ unknown' = unknown \cup {t}
  /\ outcome' \in {outcome, [outcome EXCEPT ![t] = "broken"]}

Reject(t, error) ==
  /\ outcome[t] = "pending"
  /\ t \in unknown => error = "broken"
  /\ outcome' = [outcome EXCEPT ![t] = error]
  /\ UNCHANGED <<total, unknown>>

Next ==
  \E t \in Calls :
    \/ Resolve(t)
    \/ LoseAnswer(t)
    \/ \E error \in {"40001", "sqlstate", "broken", "thrown"} : Reject(t, error)

Spec == Init /\ [][Next]_<<total, unknown, outcome>>
=============================================================================
