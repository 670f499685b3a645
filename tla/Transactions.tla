----------------------------- MODULE Transactions -----------------------------
(***************************************************************************)
(* Concurrent calls of $transaction and of single statements over a pool   *)
(* session: packages/dsqlbase/src/client/transaction (createTransaction-   *)
(* Runner, occ-retry) and packages/dsqlbase/src/pg (PGSession,             *)
(* PGTransactionSession). Every await is a step of its own.                *)
(*                                                                         *)
(* The pool and the database are external. A connection in the pool is     *)
(* handed to one caller at a time; the database runs a transaction on the  *)
(* snapshot its BEGIN took, and refuses a COMMIT that wrote what another   *)
(* one committed since. All calls write one row, a counter they increment. *)
(*                                                                         *)
(* Errors: "40001"; "sqlstate", any other the server answers; "broken", of *)
(* a connection that broke; "thrown", the callback's own.                  *)
(***************************************************************************)
EXTENDS Integers, FiniteSets

CONSTANTS
  Calls,        \* the calls, all made at once
  Kind,         \* call -> "callback", "batch" or "single"
  Careless,     \* the callbacks that catch a statement's error and go on
  Conns,        \* the connections the pool may open
  Nobody,       \* what holds a connection that is in the pool
  CodedBreaks,  \* whether a broken connection's error may carry a code
  MaxRetries,   \* maxRetries: how often a transaction is run at most
  MaxFaults     \* how many errors arise of themselves

ASSUME CallsAssumption ==
  /\ Kind \in [Calls -> {"callback", "batch", "single"}]
  /\ Careless \subseteq {t \in Calls : Kind[t] = "callback"}
  /\ Nobody \notin Calls

ASSUME LimitsAssumption ==
  /\ CodedBreaks \in BOOLEAN
  /\ MaxRetries \in Nat \ {0}
  /\ MaxFaults \in Nat

Errors == {"40001", "sqlstate", "broken"}

VARIABLES
  row,        \* the committed counter, and how many commits wrote it
  server,     \* connection -> the transaction open on it
  broken,     \* the connections that broke and are not yet destroyed
  holder,     \* connection -> the call the pool gave it to, or Nobody
  pc,         \* call -> where it is
  conn,       \* call -> the connection of its session
  ended,      \* call -> _released: its session's transaction is over
  attempt,    \* call -> which run of the transaction this is
  read,       \* call -> the counter as the callback read it
  error,      \* call -> the error it is rolling back for
  unknown,    \* the calls whose COMMIT was made and its answer lost
  faults      \* errors so far

dbVars   == <<row, server, broken>>
callVars == <<conn, ended, attempt, read, error>>
vars     == <<dbVars, holder, pc, callVars, unknown, faults>>

NoTransaction == [state |-> "none", version |-> 0, counter |-> 0, wrote |-> FALSE]

Snapshot == [state |-> "open", version |-> row.version,
             counter |-> row.counter, wrote |-> FALSE]

Init ==
  /\ row = [version |-> 0, counter |-> 0]
  /\ server = [c \in Conns |-> NoTransaction]
  /\ broken = {}
  /\ holder = [c \in Conns |-> Nobody]
  /\ pc = [t \in Calls |-> "connect"]
  /\ conn \in [Calls -> Conns]
  /\ ended = [t \in Calls |-> FALSE]
  /\ attempt = [t \in Calls |-> 1]
  /\ read = [t \in Calls |-> 0]
  /\ error = [t \in Calls |-> "none"]
  /\ unknown = {}
  /\ faults = 0

-----------------------------------------------------------------------------
Goto(t, label) == pc' = [pc EXCEPT ![t] = label]

(* A query on connection c fails with e: the connection broke before, or   *)
(* the error arises now.                                                   *)
QueryFails(c, e) ==
  \/ c \in broken /\ e = "broken" /\ UNCHANGED faults
  \/ /\ c \notin broken /\ e \in Errors
     /\ faults < MaxFaults /\ faults' = faults + 1

(* client.release, after the query that ended the session answered e. The  *)
(* pool destroys the connection if it is given the error, and opens        *)
(* another in its place.                                                   *)
Release(c, e, destroy) ==
  /\ holder' = [holder EXCEPT ![c] = Nobody]
  /\ server' = [server EXCEPT ![c] = NoTransaction]
  /\ broken' = IF e = "broken" /\ ~ destroy THEN broken \cup {c}
                                            ELSE broken \ {c}

(* connectionSurvives: the error has a code, as a SQLSTATE is one.         *)
Survives(e) ==
  CASE e # "broken" -> {TRUE}
    [] OTHER -> IF CodedBreaks THEN BOOLEAN ELSE {FALSE}

-----------------------------------------------------------------------------
(* beginTransaction: a connection from the pool, and BEGIN on it.          *)
Connect(t) ==
  /\ pc[t] = "connect" /\ Kind[t] # "single"
  /\ \E c \in Conns :
       /\ holder[c] = Nobody
       /\ holder' = [holder EXCEPT ![c] = t]
       /\ conn' = [conn EXCEPT ![t] = c]
  /\ Goto(t, "begin")
  /\ UNCHANGED <<dbVars, ended, attempt, read, error, unknown, faults>>

(* No connection can be had: nothing to release, nothing to roll back.     *)
ConnectFails(t) ==
  /\ pc[t] = "connect" /\ Kind[t] # "single"
  /\ faults < MaxFaults /\ faults' = faults + 1
  /\ \E e \in Errors : error' = [error EXCEPT ![t] = e]
  /\ Goto(t, "rejected")
  /\ UNCHANGED <<dbVars, holder, conn, ended, attempt, read, unknown>>

Begin(t) ==
  /\ pc[t] = "begin"
  /\ conn[t] \notin broken
  /\ server' = [server EXCEPT ![conn[t]] =
                  IF @.state = "none" THEN Snapshot ELSE @]
  /\ ended' = [ended EXCEPT ![t] = FALSE]
  /\ read' = [read EXCEPT ![t] = 0]
  /\ Goto(t, "first")
  /\ UNCHANGED <<row, broken, holder, conn, attempt, error, unknown, faults>>

(* A BEGIN that fails is thrown, whatever its error is.                    *)
BeginFails(t) ==
  /\ pc[t] = "begin"
  /\ \E e \in Errors :
       /\ QueryFails(conn[t], e)
       /\ \E survives \in Survives(e) : Release(conn[t], e, ~ survives)
       /\ error' = [error EXCEPT ![t] = e]
  /\ Goto(t, "rejected")
  /\ UNCHANGED <<row, conn, ended, attempt, read, unknown>>

-----------------------------------------------------------------------------
(* The work: a callback reads the counter and writes one more; a batch     *)
(* adds one in a statement, and reads.                                     *)
GoOn(t) == Goto(t, IF pc[t] = "first" THEN "second" ELSE "commit")

Write(c, counter) ==
  server' = [server EXCEPT ![c] = [@ EXCEPT !.counter = counter, !.wrote = TRUE]]

Read(t) ==
  /\ \/ Kind[t] = "callback" /\ pc[t] = "first"
     \/ Kind[t] = "batch" /\ pc[t] = "second"
  /\ conn[t] \notin broken /\ server[conn[t]].state = "open"
  /\ read' = [read EXCEPT ![t] = server[conn[t]].counter]
  /\ GoOn(t)
  /\ UNCHANGED <<dbVars, holder, conn, ended, attempt, error, unknown, faults>>

Increment(t) ==
  /\ conn[t] \notin broken /\ server[conn[t]].state = "open"
  /\ \/ /\ Kind[t] = "callback" /\ pc[t] = "second"
        /\ Write(conn[t], read[t] + 1)
     \/ /\ Kind[t] = "batch" /\ pc[t] = "first"
        /\ Write(conn[t], server[conn[t]].counter + 1)
  /\ GoOn(t)
  /\ UNCHANGED <<row, broken, holder, callVars, unknown, faults>>

(* A statement fails, or is refused after one that failed.                 *)
StatementFails(t) ==
  LET c == conn[t]
  IN  /\ pc[t] \in {"first", "second"}
      /\ \E e \in Errors :
           /\ \/ QueryFails(c, e)
              \/ /\ c \notin broken /\ server[c].state = "aborted"
                 /\ e = "sqlstate" /\ UNCHANGED faults
           /\ broken' = IF e = "broken" THEN broken \cup {c} ELSE broken
           /\ server' = [server EXCEPT ![c] = IF e = "broken" THEN NoTransaction
                                       ELSE [@ EXCEPT !.state = "aborted"]]
           /\ IF t \in Careless
                THEN GoOn(t) /\ UNCHANGED error
                ELSE Goto(t, "rollback") /\ error' = [error EXCEPT ![t] = e]
      /\ UNCHANGED <<row, holder, conn, ended, attempt, read, unknown>>

Throw(t) ==
  /\ Kind[t] = "callback" /\ pc[t] \in {"first", "second"}
  /\ error' = [error EXCEPT ![t] = "thrown"]
  /\ Goto(t, "rollback")
  /\ UNCHANGED <<dbVars, holder, conn, ended, attempt, read, unknown, faults>>

-----------------------------------------------------------------------------
Conflict(c) == server[c].wrote /\ server[c].version # row.version

Persist(c) ==
  row' = IF server[c].wrote
           THEN [version |-> row.version + 1, counter |-> server[c].counter]
           ELSE row

EndSession(t) == ended' = [ended EXCEPT ![t] = TRUE]

(* commit answers. A COMMIT after a failed statement answers too: the      *)
(* database rolled back.                                                   *)
Commit(t) ==
  LET c == conn[t]
  IN  /\ pc[t] = "commit"
      /\ c \notin broken
      /\ \/ server[c].state = "open" /\ ~ Conflict(c) /\ Persist(c)
         \/ server[c].state = "aborted" /\ UNCHANGED row
      /\ Release(c, "none", FALSE)
      /\ EndSession(t)
      /\ Goto(t, "resolved")
      /\ UNCHANGED <<conn, attempt, read, error, unknown, faults>>

(* Mutant: the connection of a COMMIT that failed is not released.         *)
CommitLeaks(c, e) ==
  /\ server' = [server EXCEPT ![c] = NoTransaction]
  /\ broken' = IF e = "broken" THEN broken \cup {c} ELSE broken
  /\ UNCHANGED holder

(* The release of a COMMIT that failed: the connection that survived goes  *)
(* back, and another is destroyed.                                         *)
CommitReleases(c, e) == \E survives \in Survives(e) : Release(c, e, ~ survives)

(* commit throws: a conflict, or an error; a COMMIT whose connection broke *)
(* may have been made.                                                     *)
CommitFails(t) ==
  LET c == conn[t]
  IN  /\ pc[t] = "commit"
      /\ \E e \in Errors :
           /\ \/ QueryFails(c, e)
              \/ /\ c \notin broken /\ server[c].state = "open" /\ Conflict(c)
                 /\ e = "40001" /\ UNCHANGED faults
           /\ \/ UNCHANGED <<row, unknown>>
              \/ /\ e = "broken" /\ c \notin broken
                 /\ server[c].state = "open" /\ server[c].wrote /\ ~ Conflict(c)
                 /\ Persist(c)
                 /\ unknown' = unknown \cup {t}
           /\ CommitReleases(c, e)
           /\ error' = [error EXCEPT ![t] = e]
      /\ EndSession(t)
      /\ Goto(t, "rollback")
      /\ UNCHANGED <<conn, attempt, read>>

(* Mutants: a connection is released without a ROLLBACK; it is released    *)
(* again after a COMMIT that failed.                                       *)
RollbackNotSent(t) ==
  /\ IF ended[t] THEN UNCHANGED holder
                 ELSE holder' = [holder EXCEPT ![conn[t]] = Nobody]
  /\ UNCHANGED <<dbVars, faults>>

RollbackUnguarded(t) ==
  /\ \/ conn[t] \notin broken /\ Release(conn[t], "none", FALSE) /\ UNCHANGED faults
     \/ \E e \in Errors : QueryFails(conn[t], e) /\ Release(conn[t], e, TRUE)
  /\ UNCHANGED row

(* rollback: a no-op if the session has ended. It never throws; if ROLLBACK *)
(* fails the connection is destroyed.                                      *)
RollbackSession(t) ==
  \/ ended[t] /\ UNCHANGED <<dbVars, holder, faults>>
  \/ /\ ~ ended[t]
     /\ \/ conn[t] \notin broken /\ Release(conn[t], "none", FALSE) /\ UNCHANGED faults
        \/ \E e \in Errors : QueryFails(conn[t], e) /\ Release(conn[t], e, TRUE)
     /\ UNCHANGED row

(* Mutants: one run too many; a broken connection's error is run again too.*)
RunsOnceMore(t) == error[t] = "40001" /\ attempt[t] <= MaxRetries
RunsAgainBroken(t) == error[t] \in {"40001", "broken"} /\ attempt[t] < MaxRetries

(* Only a 40001 is run again, and so many times.                           *)
RunsAgain(t) == error[t] = "40001" /\ attempt[t] < MaxRetries

Rollback(t) ==
  /\ pc[t] = "rollback"
  /\ RollbackSession(t)
  /\ EndSession(t)
  /\ Goto(t, IF RunsAgain(t) THEN "sleep" ELSE "rejected")
  /\ UNCHANGED <<conn, attempt, read, error, unknown>>

(* The backoff is over: another run of the whole, in a new transaction.    *)
Retry(t) ==
  /\ pc[t] = "sleep"
  /\ attempt' = [attempt EXCEPT ![t] = @ + 1]
  /\ error' = [error EXCEPT ![t] = "none"]
  /\ Goto(t, "connect")
  /\ UNCHANGED <<dbVars, holder, conn, ended, read, unknown, faults>>

-----------------------------------------------------------------------------
(* A statement outside $transaction: on any connection of the pool, its    *)
(* own transaction, and never run again.                                   *)
Single(t) ==
  /\ pc[t] = "connect" /\ Kind[t] = "single"
  /\ \E c \in Conns :
       /\ holder[c] = Nobody /\ c \notin broken
       /\ IF server[c].state = "none"
            THEN /\ row' = [version |-> row.version + 1,
                            counter |-> row.counter + 1]
                 /\ UNCHANGED server
            ELSE Write(c, server[c].counter + 1) /\ UNCHANGED row
  /\ Goto(t, "resolved")
  /\ UNCHANGED <<broken, holder, callVars, unknown, faults>>

(* Pool.query destroys the connection of a query that fails.               *)
SingleFails(t) ==
  /\ pc[t] = "connect" /\ Kind[t] = "single"
  /\ \E c \in Conns, e \in Errors :
       /\ holder[c] = Nobody
       /\ QueryFails(c, e)
       /\ \/ UNCHANGED <<row, unknown>>
          \/ /\ e = "broken" /\ c \notin broken
             /\ row' = [version |-> row.version + 1, counter |-> row.counter + 1]
             /\ unknown' = unknown \cup {t}
       /\ broken' = broken \ {c}
       /\ server' = [server EXCEPT ![c] = NoTransaction]
       /\ error' = [error EXCEPT ![t] = e]
  /\ Goto(t, "rejected")
  /\ UNCHANGED <<holder, conn, ended, attempt, read>>

Step(t) ==
  \/ Connect(t) \/ ConnectFails(t) \/ Begin(t) \/ BeginFails(t)
  \/ Read(t) \/ Increment(t) \/ StatementFails(t) \/ Throw(t)
  \/ Commit(t) \/ CommitFails(t) \/ Rollback(t) \/ Retry(t)
  \/ Single(t) \/ SingleFails(t)

Next == \E t \in Calls : Step(t)

Spec == Init /\ [][Next]_vars

(* Answers come, timers fire, and the pool serves who waits.               *)
FairSpec == Spec /\ \A t \in Calls : WF_vars(Step(t))

-----------------------------------------------------------------------------
Running == {"begin", "first", "second", "commit"}

TransactionState ==
  [state : {"none", "open", "aborted"}, version : Nat, counter : Nat, wrote : BOOLEAN]

TypeOK ==
  /\ row \in [version : Nat, counter : Nat]
  /\ server \in [Conns -> TransactionState]
  /\ broken \subseteq Conns
  /\ holder \in [Conns -> Calls \cup {Nobody}]
  /\ pc \in [Calls -> Running \cup {"connect", "rollback", "sleep",
                                    "resolved", "rejected"}]
  /\ conn \in [Calls -> Conns]
  /\ ended \in [Calls -> BOOLEAN]
  /\ attempt \in [Calls -> 1..MaxRetries]
  /\ read \in [Calls -> Nat]
  /\ error \in [Calls -> Errors \cup {"none", "thrown"}]
  /\ unknown \subseteq Calls
  /\ faults \in 0..MaxFaults

(* A session that has begun and not ended holds its connection, alone: a   *)
(* connection is returned once, by the call that took it, and no other     *)
(* call runs a statement on it before ("Each connection is returned        *)
(* exactly once").                                                         *)
InSession(t) == pc[t] \in Running \/ (pc[t] = "rollback" /\ ~ ended[t])

OwnConnection ==
  /\ \A t \in Calls : InSession(t) => holder[conn[t]] = t
  /\ \A c \in Conns : holder[c] # Nobody => InSession(holder[c]) /\ conn[holder[c]] = c

(* Nobody finds a transaction open on a connection from the pool: what it  *)
(* runs next would be part of it.                                          *)
PoolIsClean == \A c \in Conns : holder[c] = Nobody => server[c].state = "none"

(* A connection that broke is never handed out again.                      *)
PoolIsSound == \A c \in Conns : holder[c] = Nobody => c \notin broken

(* A $transaction that resolves has committed its writes.                  *)
ResolvedIsCommitted ==
  row.counter >= Cardinality({t \in Calls : pc[t] = "resolved"})

Outcome ==
  [t \in Calls |-> CASE pc[t] = "resolved" -> "resolved"
                     [] pc[t] = "rejected" -> error[t]
                     [] OTHER -> "pending"]

(* Each call is made whole and at most once, and none is lost.             *)
Promise == INSTANCE TransactionPromise
             WITH total <- row.counter, outcome <- Outcome

KeepsPromise == Promise!Spec

(* Every call ends: no connection leaks, and none waits for one for ever.  *)
Settles == \A t \in Calls : <>(pc[t] \in {"resolved", "rejected"})
=============================================================================
