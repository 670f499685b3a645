-------------------------- MODULE TransactionsProofs --------------------------
(***************************************************************************)
(* Proofs about Transactions for any number of calls and connections, and  *)
(* any bound on errors and retries: types, who holds a connection, what    *)
(* the pool holds, and that the calls keep TransactionPromise.             *)
(***************************************************************************)
EXTENDS Transactions, TLAPS

Working(t) == pc[t] \in {"first", "second", "commit"}

(* A session whose transaction runs has not ended: its connection has not  *)
(* been returned yet.                                                      *)
SessionsInv ==
  /\ TypeOK
  /\ OwnConnection
  /\ PoolIsClean
  /\ \A t \in Calls : Working(t) => ~ ended[t]
  /\ \A t \in Calls : pc[t] = "sleep" => attempt[t] < MaxRetries

(* Nothing was committed since the transaction s began.                    *)
Current(s) == s.version = row.version

(* How far a transaction is, on the snapshot it has: what it read or wrote *)
(* follows the committed counter for as long as it can still commit.       *)
Progress(t, s) ==
  /\ pc[t] = "begin" => s.state = "none"
  /\ Working(t) => s.state = "open" /\ s.version <= row.version
  /\ pc[t] = "first" => ~ s.wrote /\ (Current(s) => s.counter = row.counter)
  /\ pc[t] = "second" /\ Kind[t] = "callback" =>
       ~ s.wrote /\ (Current(s) => read[t] = row.counter)
  /\ (pc[t] = "second" /\ Kind[t] = "batch") \/ pc[t] = "commit" =>
       s.wrote /\ (Current(s) => s.counter = row.counter + 1)

(* A call whose answer was lost rejects as broken, and is not run again.   *)
Answers(t) ==
  /\ Kind[t] = "single" => pc[t] \in {"connect", "resolved", "rejected"}
  /\ pc[t] \in {"rollback", "rejected"} => error[t] # "none"
  /\ t \in unknown => pc[t] \in {"rollback", "rejected"} /\ error[t] = "broken"

WorkInv == \A t \in Calls : Progress(t, server[conn[t]]) /\ Answers(t)

-----------------------------------------------------------------------------
(* At first nobody holds a connection.                                     *)
LEMMA SessionsInit == Init => SessionsInv
BY CallsAssumption, LimitsAssumption
DEF Init, SessionsInv, TypeOK, TransactionState, OwnConnection, PoolIsClean, InSession, Running,
    Working, NoTransaction, Errors

(* A call takes a connection that nobody holds, with nothing open on it.   *)
LEMMA ConnectSessions ==
  ASSUME SessionsInv, NEW t \in Calls, Connect(t)
  PROVE  SessionsInv'
<1> USE CallsAssumption, LimitsAssumption
        DEF SessionsInv, TypeOK, TransactionState, Errors, Running
<1>1. TypeOK'
  BY DEF Connect, Goto, dbVars
<1>2. OwnConnection'
  BY DEF OwnConnection, InSession, Connect, Goto, dbVars
<1>3. PoolIsClean'
  BY DEF OwnConnection, InSession, PoolIsClean, Connect, Goto, dbVars
<1>4. \A u \in Calls : /\ Working(u)' => ~ ended'[u]
                       /\ pc'[u] = "sleep" => attempt'[u] < MaxRetries
  BY DEF Working, Connect, Goto, dbVars
<1> QED
  BY <1>1, <1>2, <1>3, <1>4

(* A call that gets no connection holds none.                              *)
LEMMA ConnectFailsSessions ==
  ASSUME SessionsInv, NEW t \in Calls, ConnectFails(t)
  PROVE  SessionsInv'
<1> USE CallsAssumption, LimitsAssumption
        DEF SessionsInv, TypeOK, TransactionState, Errors, Running
<1>1. TypeOK'
  BY DEF ConnectFails, Goto, dbVars
<1>2. OwnConnection'
  BY DEF OwnConnection, InSession, ConnectFails, Goto, dbVars
<1>3. PoolIsClean'
  BY DEF OwnConnection, InSession, PoolIsClean, ConnectFails, Goto, dbVars
<1>4. \A u \in Calls : /\ Working(u)' => ~ ended'[u]
                       /\ pc'[u] = "sleep" => attempt'[u] < MaxRetries
  BY DEF Working, ConnectFails, Goto, dbVars
<1> QED
  BY <1>1, <1>2, <1>3, <1>4

(* BEGIN makes the session of the connection the call holds.               *)
LEMMA BeginSessions ==
  ASSUME SessionsInv, NEW t \in Calls, Begin(t)
  PROVE  SessionsInv'
<1> USE CallsAssumption, LimitsAssumption
        DEF SessionsInv, TypeOK, TransactionState, Errors, Running
<1>1. TypeOK'
  BY DEF Begin, Snapshot, Goto
<1>2. OwnConnection'
  BY DEF OwnConnection, InSession, Begin, Snapshot, Goto
<1>3. PoolIsClean'
  BY DEF OwnConnection, InSession, PoolIsClean, Begin, Snapshot, Goto
<1>4. \A u \in Calls : /\ Working(u)' => ~ ended'[u]
                       /\ pc'[u] = "sleep" => attempt'[u] < MaxRetries
  BY DEF Working, Begin, Snapshot, Goto
<1> QED
  BY <1>1, <1>2, <1>3, <1>4

(* A BEGIN that fails returns or destroys the connection.                  *)
LEMMA BeginFailsSessions ==
  ASSUME SessionsInv, NEW t \in Calls, BeginFails(t)
  PROVE  SessionsInv'
<1> USE CallsAssumption, LimitsAssumption
        DEF SessionsInv, TypeOK, TransactionState, Errors, Running
<1>1. TypeOK'
  BY DEF BeginFails, QueryFails, Release, NoTransaction, Goto
<1>2. OwnConnection'
  BY DEF OwnConnection, InSession, BeginFails, QueryFails, Release,
         NoTransaction, Goto
<1>3. PoolIsClean'
  BY DEF OwnConnection, InSession, PoolIsClean, BeginFails, QueryFails, Release,
         NoTransaction, Goto
<1>4. \A u \in Calls : /\ Working(u)' => ~ ended'[u]
                       /\ pc'[u] = "sleep" => attempt'[u] < MaxRetries
  BY DEF Working, BeginFails, QueryFails, Release, NoTransaction, Goto
<1> QED
  BY <1>1, <1>2, <1>3, <1>4

(* A statement that reads leaves connections as they are.                  *)
LEMMA ReadSessions ==
  ASSUME SessionsInv, NEW t \in Calls, Read(t)
  PROVE  SessionsInv'
<1> USE CallsAssumption, LimitsAssumption
        DEF SessionsInv, TypeOK, TransactionState, Errors, Running
<1>1. TypeOK'
  BY DEF Read, GoOn, Goto, dbVars
<1>2. OwnConnection'
  BY DEF OwnConnection, InSession, Read, GoOn, Goto, dbVars
<1>3. PoolIsClean'
  BY DEF OwnConnection, InSession, PoolIsClean, Read, GoOn, Goto, dbVars
<1>4. \A u \in Calls : /\ Working(u)' => ~ ended'[u]
                       /\ pc'[u] = "sleep" => attempt'[u] < MaxRetries
  BY DEF Working, Read, GoOn, Goto, dbVars
<1> QED
  BY <1>1, <1>2, <1>3, <1>4

(* A statement that writes does so on the connection of its own session.   *)
LEMMA IncrementSessions ==
  ASSUME SessionsInv, NEW t \in Calls, Increment(t)
  PROVE  SessionsInv'
<1> USE CallsAssumption, LimitsAssumption
        DEF SessionsInv, TypeOK, TransactionState, Errors, Running
<1> DEFINE written(n) == [server[conn[t]] EXCEPT !.counter = n, !.wrote = TRUE]
<1>w. \E n \in Nat : server' = [server EXCEPT ![conn[t]] = written(n)]
  <2>1. /\ read[t] + 1 \in Nat
        /\ server[conn[t]].counter + 1 \in Nat
    OBVIOUS
  <2>2. \/ Write(conn[t], read[t] + 1)
        \/ Write(conn[t], server[conn[t]].counter + 1)
    BY DEF Increment
  <2>3. \A n : Write(conn[t], n) => server' = [server EXCEPT ![conn[t]] = written(n)]
    BY DEF Write
  <2> HIDE DEF written
  <2> QED
    BY <2>1, <2>2, <2>3
<1>1. TypeOK'
  <2>1. ASSUME NEW n \in Nat
        PROVE  written(n) \in TransactionState
    <3>1. server[conn[t]] \in TransactionState
      OBVIOUS
    <3> QED
      BY <3>1
  <2>2. server' \in [Conns -> TransactionState]
    <3> HIDE DEF written
    <3> QED BY <1>w, <2>1
  <2> QED
    BY <2>2 DEF Increment, GoOn, Goto, callVars
<1>2. OwnConnection'
  BY DEF OwnConnection, InSession, Increment, GoOn, Write, Goto, callVars
<1>3. PoolIsClean'
  <2> HIDE DEF written
  <2>1. holder[conn[t]] # Nobody /\ holder' = holder
    BY DEF OwnConnection, InSession, Increment
  <2> QED
    BY <1>w, <2>1 DEF PoolIsClean
<1>4. \A u \in Calls : /\ Working(u)' => ~ ended'[u]
                       /\ pc'[u] = "sleep" => attempt'[u] < MaxRetries
  BY DEF Working, Increment, GoOn, Write, Goto, callVars
<1> QED
  BY <1>1, <1>2, <1>3, <1>4

(* A statement that fails leaves its session on the connection.            *)
LEMMA StatementFailsSessions ==
  ASSUME SessionsInv, NEW t \in Calls, StatementFails(t)
  PROVE  SessionsInv'
<1> USE CallsAssumption, LimitsAssumption
        DEF SessionsInv, TypeOK, TransactionState, Errors, Running
<1>1. TypeOK'
  <2> DEFINE c == conn[t]
  <2>1. c \in Conns /\ [server[c] EXCEPT !.state = "aborted"] \in TransactionState
    OBVIOUS
  <2>2. server' \in [Conns -> TransactionState]
    BY <2>1 DEF StatementFails, NoTransaction
  <2>3. broken' \subseteq Conns /\ faults' \in 0..MaxFaults
    BY <2>1 DEF StatementFails, QueryFails
  <2>4. /\ pc' \in [Calls -> Running \cup {"connect", "rollback", "sleep",
                                         "resolved", "rejected"}]
        /\ error' \in [Calls -> Errors \cup {"none", "thrown"}]
    BY DEF StatementFails, GoOn, Goto
  <2> QED
    BY <2>2, <2>3, <2>4 DEF StatementFails
<1>2. OwnConnection'
  BY DEF OwnConnection, InSession, Working, StatementFails, GoOn, QueryFails,
         NoTransaction, Goto
<1>3. PoolIsClean'
  BY DEF OwnConnection, InSession, PoolIsClean, StatementFails, GoOn,
         QueryFails, NoTransaction, Goto
<1>4. \A u \in Calls : /\ Working(u)' => ~ ended'[u]
                       /\ pc'[u] = "sleep" => attempt'[u] < MaxRetries
  BY DEF Working, StatementFails, GoOn, QueryFails, NoTransaction, Goto
<1> QED
  BY <1>1, <1>2, <1>3, <1>4

(* So does a callback that throws.                                         *)
LEMMA ThrowSessions ==
  ASSUME SessionsInv, NEW t \in Calls, Throw(t)
  PROVE  SessionsInv'
<1> USE CallsAssumption, LimitsAssumption
        DEF SessionsInv, TypeOK, TransactionState, Errors, Running
<1>1. TypeOK'
  BY DEF Throw, Goto, dbVars
<1>2. OwnConnection'
  BY DEF OwnConnection, InSession, Working, Throw, Goto, dbVars
<1>3. PoolIsClean'
  BY DEF OwnConnection, InSession, PoolIsClean, Throw, Goto, dbVars
<1>4. \A u \in Calls : /\ Working(u)' => ~ ended'[u]
                       /\ pc'[u] = "sleep" => attempt'[u] < MaxRetries
  BY DEF Working, Throw, Goto, dbVars
<1> QED
  BY <1>1, <1>2, <1>3, <1>4

(* A COMMIT that answers ends the session and returns the connection.      *)
LEMMA CommitSessions ==
  ASSUME SessionsInv, NEW t \in Calls, Commit(t)
  PROVE  SessionsInv'
<1> USE CallsAssumption, LimitsAssumption
        DEF SessionsInv, TypeOK, TransactionState, Errors, Running
<1>1. TypeOK'
  BY DEF Commit, Release, EndSession, Persist, NoTransaction, Goto
<1>2. OwnConnection'
  BY DEF OwnConnection, InSession, Commit, Release, EndSession, Persist,
         NoTransaction, Goto
<1>3. PoolIsClean'
  BY DEF OwnConnection, InSession, PoolIsClean, Commit, Release, EndSession,
         Persist, NoTransaction, Goto
<1>4. \A u \in Calls : /\ Working(u)' => ~ ended'[u]
                       /\ pc'[u] = "sleep" => attempt'[u] < MaxRetries
  BY DEF Working, Commit, Release, EndSession, Persist, NoTransaction, Goto
<1> QED
  BY <1>1, <1>2, <1>3, <1>4

(* A COMMIT that fails ends the session and gives up the connection.       *)
LEMMA CommitFailsSessions ==
  ASSUME SessionsInv, NEW t \in Calls, CommitFails(t)
  PROVE  SessionsInv'
<1> USE CallsAssumption, LimitsAssumption
        DEF SessionsInv, TypeOK, TransactionState, Errors, Running
<1>1. TypeOK'
  BY DEF CommitFails, CommitReleases, Release, EndSession, Persist, QueryFails,
         NoTransaction, Goto
<1>2. OwnConnection'
  BY DEF OwnConnection, InSession, CommitFails, CommitReleases, Release,
         EndSession, Persist, QueryFails, NoTransaction, Goto
<1>3. PoolIsClean'
  BY DEF OwnConnection, InSession, PoolIsClean, CommitFails, CommitReleases,
         Release, EndSession, Persist, QueryFails, NoTransaction, Goto
<1>4. \A u \in Calls : /\ Working(u)' => ~ ended'[u]
                       /\ pc'[u] = "sleep" => attempt'[u] < MaxRetries
  BY DEF Working, CommitFails, CommitReleases, Release, EndSession, Persist,
         QueryFails, NoTransaction, Goto
<1> QED
  BY <1>1, <1>2, <1>3, <1>4

(* A rollback gives the connection up unless a COMMIT already has.         *)
LEMMA RollbackSessions ==
  ASSUME SessionsInv, NEW t \in Calls, Rollback(t)
  PROVE  SessionsInv'
<1> USE CallsAssumption, LimitsAssumption
        DEF SessionsInv, TypeOK, TransactionState, Errors, Running
<1>1. TypeOK'
  <2>1. /\ server' \in [Conns -> TransactionState]
        /\ broken' \subseteq Conns
        /\ holder' \in [Conns -> Calls \cup {Nobody}]
        /\ row' = row /\ faults' \in 0..MaxFaults
    <3>1. CASE ended[t]
      BY <3>1 DEF Rollback, RollbackSession, dbVars
    <3>2. ASSUME NEW e, NEW d \in BOOLEAN, Release(conn[t], e, d)
          PROVE  /\ server' \in [Conns -> TransactionState]
                 /\ broken' \subseteq Conns
                 /\ holder' \in [Conns -> Calls \cup {Nobody}]
      BY <3>2 DEF Release, NoTransaction
    <3>3. CASE ~ ended[t]
      <4>1. row' = row /\ (faults' = faults \/ (faults < MaxFaults /\ faults' = faults + 1))
        <5> HIDE DEF SessionsInv, TypeOK, TransactionState, Errors, Running
        <5> QED BY <3>3, Zenon DEF Rollback, RollbackSession, QueryFails
      <4>2. \/ Release(conn[t], "none", FALSE)
            \/ \E e \in Errors : Release(conn[t], e, TRUE)
        BY <3>3 DEF Rollback, RollbackSession
      <4>3. faults' \in 0..MaxFaults
        BY <4>1
      <4> QED
        <5> HIDE DEF SessionsInv, TypeOK, TransactionState, Errors, Running
        <5> QED BY <3>2, <4>1, <4>2, <4>3, Zenon
    <3> QED
      BY <3>1, <3>3
  <2> QED
    BY <2>1 DEF Rollback, EndSession, Goto
<1>2. OwnConnection'
  BY DEF OwnConnection, InSession, Rollback, RollbackSession, Release,
         EndSession, QueryFails, NoTransaction, RunsAgain, Goto, dbVars
<1>3. PoolIsClean'
  BY DEF OwnConnection, InSession, PoolIsClean, Rollback, RollbackSession,
         Release, EndSession, QueryFails, NoTransaction, RunsAgain, Goto, dbVars
<1>4. \A u \in Calls : /\ Working(u)' => ~ ended'[u]
                       /\ pc'[u] = "sleep" => attempt'[u] < MaxRetries
  BY DEF Working, Rollback, RollbackSession, Release, EndSession, QueryFails,
         NoTransaction, RunsAgain, Goto, dbVars
<1> QED
  BY <1>1, <1>2, <1>3, <1>4

(* Another run starts with no connection.                                  *)
LEMMA RetrySessions ==
  ASSUME SessionsInv, NEW t \in Calls, Retry(t)
  PROVE  SessionsInv'
<1> USE CallsAssumption, LimitsAssumption
        DEF SessionsInv, TypeOK, TransactionState, Errors, Running
<1>1. TypeOK'
  BY DEF Retry, Goto, dbVars
<1>2. OwnConnection'
  BY DEF OwnConnection, InSession, Retry, Goto, dbVars
<1>3. PoolIsClean'
  BY DEF OwnConnection, InSession, PoolIsClean, Retry, Goto, dbVars
<1>4. \A u \in Calls : /\ Working(u)' => ~ ended'[u]
                       /\ pc'[u] = "sleep" => attempt'[u] < MaxRetries
  BY DEF Working, Retry, Goto, dbVars
<1> QED
  BY <1>1, <1>2, <1>3, <1>4

(* A single statement borrows a connection with nothing open on it.        *)
LEMMA SingleSessions ==
  ASSUME SessionsInv, NEW t \in Calls, Single(t)
  PROVE  SessionsInv'
<1> USE CallsAssumption, LimitsAssumption
        DEF SessionsInv, TypeOK, TransactionState, Errors, Running
<1>1. TypeOK'
  BY DEF PoolIsClean, Single, Write, Goto, callVars
<1>2. OwnConnection'
  BY DEF OwnConnection, InSession, Single, Write, Goto, callVars
<1>3. PoolIsClean'
  BY DEF OwnConnection, InSession, PoolIsClean, Single, Write, Goto, callVars
<1>4. \A u \in Calls : /\ Working(u)' => ~ ended'[u]
                       /\ pc'[u] = "sleep" => attempt'[u] < MaxRetries
  BY DEF Working, Single, Write, Goto, callVars
<1> QED
  BY <1>1, <1>2, <1>3, <1>4

(* One that fails destroys it.                                             *)
LEMMA SingleFailsSessions ==
  ASSUME SessionsInv, NEW t \in Calls, SingleFails(t)
  PROVE  SessionsInv'
<1> USE CallsAssumption, LimitsAssumption
        DEF SessionsInv, TypeOK, TransactionState, Errors, Running
<1>1. TypeOK'
  BY DEF SingleFails, QueryFails, NoTransaction, Goto
<1>2. OwnConnection'
  BY DEF OwnConnection, InSession, SingleFails, QueryFails, NoTransaction, Goto
<1>3. PoolIsClean'
  BY DEF OwnConnection, InSession, PoolIsClean, SingleFails, QueryFails,
         NoTransaction, Goto
<1>4. \A u \in Calls : /\ Working(u)' => ~ ended'[u]
                       /\ pc'[u] = "sleep" => attempt'[u] < MaxRetries
  BY DEF Working, SingleFails, QueryFails, NoTransaction, Goto
<1> QED
  BY <1>1, <1>2, <1>3, <1>4

(* Every step keeps the sessions and the pool in order.                    *)
LEMMA SessionsStep ==
  ASSUME SessionsInv, [Next]_vars
  PROVE  SessionsInv'
<1>1. CASE UNCHANGED vars
  BY <1>1 DEF SessionsInv, TypeOK, OwnConnection, InSession, PoolIsClean, Working,
              vars, dbVars, callVars
<1>2. CASE \E t \in Calls : Step(t)
  BY <1>2, ConnectSessions, ConnectFailsSessions, BeginSessions,
     BeginFailsSessions, ReadSessions, IncrementSessions,
     StatementFailsSessions, ThrowSessions, CommitSessions,
     CommitFailsSessions, RollbackSessions, RetrySessions,
     SingleSessions, SingleFailsSessions
  DEF Step
<1> QED
  BY <1>1, <1>2 DEF Next

-----------------------------------------------------------------------------
(* What a step of another call leaves of the work of u: it may commit, and *)
(* then u can no longer.                                                   *)
LEMMA OthersKeepWork ==
  ASSUME SessionsInv, WorkInv, NEW u \in Calls,
         pc'[u] = pc[u], conn'[u] = conn[u], read'[u] = read[u], error'[u] = error[u],
         u \in unknown' <=> u \in unknown,
         pc[u] = "begin" \/ Working(u) => server'[conn[u]] = server[conn[u]],
         row' = row \/ row'.version = row.version + 1
  PROVE  Progress(u, server[conn[u]])' /\ Answers(u)'
<1>1. row.version \in Nat /\ server[conn[u]].version \in Nat
  BY DEF SessionsInv, TypeOK, TransactionState
<1>2. Answers(u)'
  BY DEF WorkInv, Answers
<1>3. CASE ~ Working(u)
  BY <1>2, <1>3 DEF WorkInv, Progress, Working
<1>4. CASE Working(u)
  <2>1. server'[conn'[u]] = server[conn[u]]
    BY <1>4
  <2>2. server[conn[u]].version <= row.version /\ server[conn[u]].state = "open"
    BY <1>4 DEF WorkInv, Progress
  <2>3. row' = row \/ server[conn[u]].version # row'.version
    BY <1>1, <2>2
  <2>4. server[conn[u]].version <= row'.version
    BY <1>1, <2>2
  <2> QED
    BY <1>2, <1>4, <2>1, <2>2, <2>3, <2>4 DEF WorkInv, Progress, Working, Current
<1> QED
  BY <1>3, <1>4

(* Two calls in their sessions have a connection each.                     *)
LEMMA OwnConnections ==
  ASSUME SessionsInv, NEW t \in Calls, NEW u \in Calls, u # t,
         pc[u] = "begin" \/ Working(u)
  PROVE  /\ InSession(t) => conn[u] # conn[t]
         /\ holder[conn[u]] # Nobody
BY CallsAssumption DEF SessionsInv, OwnConnection, InSession, Running, Working

(* A connection from the pool has nothing open on it.                      *)
LEMMA ConnectWork ==
  ASSUME Careless = {}, SessionsInv, WorkInv, NEW t \in Calls, Connect(t)
  PROVE  WorkInv'
<1> USE CallsAssumption, LimitsAssumption DEF SessionsInv, TypeOK, TransactionState, Errors, Running
<1>1. Progress(t, server[conn[t]])' /\ Answers(t)'
  BY DEF WorkInv, Progress, Answers, Working, Current, PoolIsClean, Connect,
         Goto, dbVars
<1>2. ASSUME NEW u \in Calls, u # t
      PROVE  Progress(u, server[conn[u]])' /\ Answers(u)'
  <2>1. /\ pc'[u] = pc[u] /\ conn'[u] = conn[u]
        /\ read'[u] = read[u] /\ error'[u] = error[u]
        /\ u \in unknown' <=> u \in unknown
        /\ row' = row \/ row'.version = row.version + 1
    BY <1>2 DEF Connect, Goto, dbVars
  <2>2. pc[u] = "begin" \/ Working(u) => server'[conn[u]] = server[conn[u]]
    BY <1>2, OwnConnections DEF InSession, Connect, Goto, dbVars
  <2> QED
    BY <2>1, <2>2, OthersKeepWork
<1> QED
  BY <1>1, <1>2 DEF WorkInv

(* A call without a connection rejects with an error.                      *)
LEMMA ConnectFailsWork ==
  ASSUME Careless = {}, SessionsInv, WorkInv, NEW t \in Calls, ConnectFails(t)
  PROVE  WorkInv'
<1> USE CallsAssumption, LimitsAssumption DEF SessionsInv, TypeOK, TransactionState, Errors, Running
<1>1. Progress(t, server[conn[t]])' /\ Answers(t)'
  BY DEF WorkInv, Progress, Answers, Working, Current, PoolIsClean,
         ConnectFails, Goto, dbVars
<1>2. ASSUME NEW u \in Calls, u # t
      PROVE  Progress(u, server[conn[u]])' /\ Answers(u)'
  <2>1. /\ pc'[u] = pc[u] /\ conn'[u] = conn[u]
        /\ read'[u] = read[u] /\ error'[u] = error[u]
        /\ u \in unknown' <=> u \in unknown
        /\ row' = row \/ row'.version = row.version + 1
    BY <1>2 DEF ConnectFails, Goto, dbVars
  <2>2. pc[u] = "begin" \/ Working(u) => server'[conn[u]] = server[conn[u]]
    BY <1>2, OwnConnections DEF InSession, ConnectFails, Goto, dbVars
  <2> QED
    BY <2>1, <2>2, OthersKeepWork
<1> QED
  BY <1>1, <1>2 DEF WorkInv

(* The snapshot of BEGIN is the committed counter.                         *)
LEMMA BeginWork ==
  ASSUME Careless = {}, SessionsInv, WorkInv, NEW t \in Calls, Begin(t)
  PROVE  WorkInv'
<1> USE CallsAssumption, LimitsAssumption DEF SessionsInv, TypeOK, TransactionState, Errors, Running
<1>1. Progress(t, server[conn[t]])' /\ Answers(t)'
  BY DEF WorkInv, Progress, Answers, Working, Current, PoolIsClean, Begin,
         Snapshot, Goto
<1>2. ASSUME NEW u \in Calls, u # t
      PROVE  Progress(u, server[conn[u]])' /\ Answers(u)'
  <2>1. /\ pc'[u] = pc[u] /\ conn'[u] = conn[u]
        /\ read'[u] = read[u] /\ error'[u] = error[u]
        /\ u \in unknown' <=> u \in unknown
        /\ row' = row \/ row'.version = row.version + 1
    BY <1>2 DEF Begin, Snapshot, Goto
  <2>2. pc[u] = "begin" \/ Working(u) => server'[conn[u]] = server[conn[u]]
    BY <1>2, OwnConnections DEF InSession, Begin, Snapshot, Goto
  <2> QED
    BY <2>1, <2>2, OthersKeepWork
<1> QED
  BY <1>1, <1>2 DEF WorkInv

(* A BEGIN that fails rejects with its error.                              *)
LEMMA BeginFailsWork ==
  ASSUME Careless = {}, SessionsInv, WorkInv, NEW t \in Calls, BeginFails(t)
  PROVE  WorkInv'
<1> USE CallsAssumption, LimitsAssumption DEF SessionsInv, TypeOK, TransactionState, Errors, Running
<1>1. Progress(t, server[conn[t]])' /\ Answers(t)'
  BY DEF WorkInv, Progress, Answers, Working, Current, PoolIsClean, BeginFails,
         QueryFails, Release, NoTransaction, Goto
<1>2. ASSUME NEW u \in Calls, u # t
      PROVE  Progress(u, server[conn[u]])' /\ Answers(u)'
  <2>1. /\ pc'[u] = pc[u] /\ conn'[u] = conn[u]
        /\ read'[u] = read[u] /\ error'[u] = error[u]
        /\ u \in unknown' <=> u \in unknown
        /\ row' = row \/ row'.version = row.version + 1
    BY <1>2 DEF BeginFails, QueryFails, Release, NoTransaction, Goto
  <2>2. pc[u] = "begin" \/ Working(u) => server'[conn[u]] = server[conn[u]]
    BY <1>2, OwnConnections
    DEF InSession, BeginFails, QueryFails, Release, NoTransaction, Goto
  <2> QED
    BY <2>1, <2>2, OthersKeepWork
<1> QED
  BY <1>1, <1>2 DEF WorkInv

(* A read sees the snapshot, or the own write.                             *)
LEMMA ReadWork ==
  ASSUME Careless = {}, SessionsInv, WorkInv, NEW t \in Calls, Read(t)
  PROVE  WorkInv'
<1> USE CallsAssumption, LimitsAssumption DEF SessionsInv, TypeOK, TransactionState, Errors, Running
<1>1. Progress(t, server[conn[t]])' /\ Answers(t)'
  BY DEF WorkInv, Progress, Answers, Working, Current, PoolIsClean, Read, GoOn,
         Goto, dbVars
<1>2. ASSUME NEW u \in Calls, u # t
      PROVE  Progress(u, server[conn[u]])' /\ Answers(u)'
  <2>1. /\ pc'[u] = pc[u] /\ conn'[u] = conn[u]
        /\ read'[u] = read[u] /\ error'[u] = error[u]
        /\ u \in unknown' <=> u \in unknown
        /\ row' = row \/ row'.version = row.version + 1
    BY <1>2 DEF Read, GoOn, Goto, dbVars
  <2>2. pc[u] = "begin" \/ Working(u) => server'[conn[u]] = server[conn[u]]
    BY <1>2, OwnConnections DEF InSession, Read, GoOn, Goto, dbVars
  <2> QED
    BY <2>1, <2>2, OthersKeepWork
<1> QED
  BY <1>1, <1>2 DEF WorkInv

(* A write is one more than the snapshot.                                  *)
LEMMA IncrementWork ==
  ASSUME Careless = {}, SessionsInv, WorkInv, NEW t \in Calls, Increment(t)
  PROVE  WorkInv'
<1> USE CallsAssumption, LimitsAssumption DEF SessionsInv, TypeOK, TransactionState, Errors, Running
<1>1. Progress(t, server[conn[t]])' /\ Answers(t)'
  <2> DEFINE s == server[conn[t]]
             n == IF Kind[t] = "callback" THEN read[t] + 1 ELSE s.counter + 1
  <2>1. /\ conn[t] \in Conns /\ s.counter \in Nat /\ read[t] \in Nat
        /\ Kind[t] \in {"callback", "batch", "single"}
    OBVIOUS
  <2>2. /\ server' = [server EXCEPT ![conn[t]] = [s EXCEPT !.counter = n, !.wrote = TRUE]]
        /\ conn' = conn /\ row' = row
    BY DEF Increment, Write, callVars
  <2>3. server'[conn[t]] = [s EXCEPT !.counter = n, !.wrote = TRUE]
    BY <2>1, <2>2
  <2>4. /\ s \in TransactionState
        /\ Working(t) /\ s.state = "open"
    BY <2>1 DEF Increment, Working
  <2>5. /\ server'[conn[t]].state = s.state /\ server'[conn[t]].version = s.version
        /\ server'[conn[t]].counter = n /\ server'[conn[t]].wrote
    BY <2>3, <2>4
  <2>6. Current(s) => n = row.counter + 1
    BY DEF WorkInv, Progress, Increment
  <2>7. Answers(t)'
    BY <2>4 DEF WorkInv, Answers, Working, Increment, GoOn, Goto, callVars
  <2>8. \/ pc[t] = "first" /\ Kind[t] = "batch" /\ pc'[t] = "second"
        \/ pc[t] = "second" /\ Kind[t] = "callback" /\ pc'[t] = "commit"
    BY DEF Increment, GoOn, Goto
  <2> HIDE DEF n
  <2> QED
    BY <2>2, <2>4, <2>5, <2>6, <2>7, <2>8 DEF WorkInv, Progress, Working, Current
<1>2. ASSUME NEW u \in Calls, u # t
      PROVE  Progress(u, server[conn[u]])' /\ Answers(u)'
  <2>1. /\ pc'[u] = pc[u] /\ conn'[u] = conn[u]
        /\ read'[u] = read[u] /\ error'[u] = error[u]
        /\ u \in unknown' <=> u \in unknown
        /\ row' = row \/ row'.version = row.version + 1
    BY <1>2 DEF Increment, GoOn, Write, Goto, callVars
  <2>2. pc[u] = "begin" \/ Working(u) => server'[conn[u]] = server[conn[u]]
    BY <1>2, OwnConnections DEF InSession, Increment, GoOn, Write, Goto, callVars
  <2> QED
    BY <2>1, <2>2, OthersKeepWork
<1> QED
  BY <1>1, <1>2 DEF WorkInv

(* A statement that fails rolls back.                                      *)
LEMMA StatementFailsWork ==
  ASSUME Careless = {}, SessionsInv, WorkInv, NEW t \in Calls, StatementFails(t)
  PROVE  WorkInv'
<1> USE CallsAssumption, LimitsAssumption DEF SessionsInv, TypeOK, TransactionState, Errors, Running
<1>1. Progress(t, server[conn[t]])' /\ Answers(t)'
  BY DEF WorkInv, Progress, Answers, Working, Current, PoolIsClean,
         StatementFails, GoOn, QueryFails, NoTransaction, Goto
<1>2. ASSUME NEW u \in Calls, u # t
      PROVE  Progress(u, server[conn[u]])' /\ Answers(u)'
  <2>1. /\ pc'[u] = pc[u] /\ conn'[u] = conn[u]
        /\ read'[u] = read[u] /\ error'[u] = error[u]
        /\ u \in unknown' <=> u \in unknown
        /\ row' = row \/ row'.version = row.version + 1
    BY <1>2 DEF StatementFails, GoOn, QueryFails, NoTransaction, Goto
  <2>2. pc[u] = "begin" \/ Working(u) => server'[conn[u]] = server[conn[u]]
    BY <1>2, OwnConnections
    DEF InSession, StatementFails, GoOn, QueryFails, NoTransaction, Goto
  <2> QED
    BY <2>1, <2>2, OthersKeepWork
<1> QED
  BY <1>1, <1>2 DEF WorkInv

(* A callback that throws rolls back.                                      *)
LEMMA ThrowWork ==
  ASSUME Careless = {}, SessionsInv, WorkInv, NEW t \in Calls, Throw(t)
  PROVE  WorkInv'
<1> USE CallsAssumption, LimitsAssumption DEF SessionsInv, TypeOK, TransactionState, Errors, Running
<1>1. Progress(t, server[conn[t]])' /\ Answers(t)'
  BY DEF WorkInv, Progress, Answers, Working, Current, PoolIsClean, Throw, Goto,
         dbVars
<1>2. ASSUME NEW u \in Calls, u # t
      PROVE  Progress(u, server[conn[u]])' /\ Answers(u)'
  <2>1. /\ pc'[u] = pc[u] /\ conn'[u] = conn[u]
        /\ read'[u] = read[u] /\ error'[u] = error[u]
        /\ u \in unknown' <=> u \in unknown
        /\ row' = row \/ row'.version = row.version + 1
    BY <1>2 DEF Throw, Goto, dbVars
  <2>2. pc[u] = "begin" \/ Working(u) => server'[conn[u]] = server[conn[u]]
    BY <1>2, OwnConnections DEF InSession, Throw, Goto, dbVars
  <2> QED
    BY <2>1, <2>2, OthersKeepWork
<1> QED
  BY <1>1, <1>2 DEF WorkInv

(* After a COMMIT, whoever began before it is no longer current.           *)
LEMMA CommitWork ==
  ASSUME Careless = {}, SessionsInv, WorkInv, NEW t \in Calls, Commit(t)
  PROVE  WorkInv'
<1> USE CallsAssumption, LimitsAssumption DEF SessionsInv, TypeOK, TransactionState, Errors, Running
<1>1. Progress(t, server[conn[t]])' /\ Answers(t)'
  BY DEF WorkInv, Progress, Answers, Working, Current, PoolIsClean, Commit,
         Release, EndSession, Persist, NoTransaction, Goto
<1>2. ASSUME NEW u \in Calls, u # t
      PROVE  Progress(u, server[conn[u]])' /\ Answers(u)'
  <2>1. /\ pc'[u] = pc[u] /\ conn'[u] = conn[u]
        /\ read'[u] = read[u] /\ error'[u] = error[u]
        /\ u \in unknown' <=> u \in unknown
        /\ row' = row \/ row'.version = row.version + 1
    BY <1>2 DEF Commit, Release, EndSession, Persist, NoTransaction, Goto
  <2>2. pc[u] = "begin" \/ Working(u) => server'[conn[u]] = server[conn[u]]
    BY <1>2, OwnConnections
    DEF InSession, Commit, Release, EndSession, Persist, NoTransaction, Goto
  <2> QED
    BY <2>1, <2>2, OthersKeepWork
<1> QED
  BY <1>1, <1>2 DEF WorkInv

(* A call whose answer was lost carries the error of a broken connection.  *)
LEMMA CommitFailsWork ==
  ASSUME Careless = {}, SessionsInv, WorkInv, NEW t \in Calls, CommitFails(t)
  PROVE  WorkInv'
<1> USE CallsAssumption, LimitsAssumption DEF SessionsInv, TypeOK, TransactionState, Errors, Running
<1>1. Progress(t, server[conn[t]])' /\ Answers(t)'
  BY DEF WorkInv, Progress, Answers, Working, Current, PoolIsClean, CommitFails,
         CommitReleases, Release, EndSession, Persist, QueryFails,
         NoTransaction, Goto
<1>2. ASSUME NEW u \in Calls, u # t
      PROVE  Progress(u, server[conn[u]])' /\ Answers(u)'
  <2>1. /\ pc'[u] = pc[u] /\ conn'[u] = conn[u]
        /\ read'[u] = read[u] /\ error'[u] = error[u]
        /\ u \in unknown' <=> u \in unknown
        /\ row' = row \/ row'.version = row.version + 1
    BY <1>2
    DEF CommitFails, CommitReleases, Release, EndSession, Persist, QueryFails,
        NoTransaction, Goto
  <2>2. pc[u] = "begin" \/ Working(u) => server'[conn[u]] = server[conn[u]]
    BY <1>2, OwnConnections
    DEF InSession, CommitFails, CommitReleases, Release, EndSession, Persist,
        QueryFails, NoTransaction, Goto
  <2> QED
    BY <2>1, <2>2, OthersKeepWork
<1> QED
  BY <1>1, <1>2 DEF WorkInv

(* A call that rolled back is run again, or rejects with its error.        *)
LEMMA RollbackWork ==
  ASSUME Careless = {}, SessionsInv, WorkInv, NEW t \in Calls, Rollback(t)
  PROVE  WorkInv'
<1> USE CallsAssumption, LimitsAssumption DEF SessionsInv, TypeOK, TransactionState, Errors, Running
<1>1. Progress(t, server[conn[t]])' /\ Answers(t)'
  BY DEF WorkInv, Progress, Answers, Working, Current, PoolIsClean, Rollback,
         RollbackSession, Release, EndSession, QueryFails, NoTransaction,
         RunsAgain, Goto, dbVars
<1>2. ASSUME NEW u \in Calls, u # t
      PROVE  Progress(u, server[conn[u]])' /\ Answers(u)'
  <2>1. /\ pc'[u] = pc[u] /\ conn'[u] = conn[u]
        /\ read'[u] = read[u] /\ error'[u] = error[u]
        /\ u \in unknown' <=> u \in unknown
        /\ row' = row \/ row'.version = row.version + 1
    BY <1>2
    DEF Rollback, RollbackSession, Release, EndSession, QueryFails,
        NoTransaction, RunsAgain, Goto, dbVars
  <2>2. pc[u] = "begin" \/ Working(u) => server'[conn[u]] = server[conn[u]]
    BY <1>2, OwnConnections
    DEF InSession, Rollback, RollbackSession, Release, EndSession, QueryFails,
        NoTransaction, RunsAgain, Goto, dbVars
  <2> QED
    BY <2>1, <2>2, OthersKeepWork
<1> QED
  BY <1>1, <1>2 DEF WorkInv

(* Another run has read nothing.                                           *)
LEMMA RetryWork ==
  ASSUME Careless = {}, SessionsInv, WorkInv, NEW t \in Calls, Retry(t)
  PROVE  WorkInv'
<1> USE CallsAssumption, LimitsAssumption DEF SessionsInv, TypeOK, TransactionState, Errors, Running
<1>1. Progress(t, server[conn[t]])' /\ Answers(t)'
  BY DEF WorkInv, Progress, Answers, Working, Current, PoolIsClean, Retry, Goto,
         dbVars
<1>2. ASSUME NEW u \in Calls, u # t
      PROVE  Progress(u, server[conn[u]])' /\ Answers(u)'
  <2>1. /\ pc'[u] = pc[u] /\ conn'[u] = conn[u]
        /\ read'[u] = read[u] /\ error'[u] = error[u]
        /\ u \in unknown' <=> u \in unknown
        /\ row' = row \/ row'.version = row.version + 1
    BY <1>2 DEF Retry, Goto, dbVars
  <2>2. pc[u] = "begin" \/ Working(u) => server'[conn[u]] = server[conn[u]]
    BY <1>2, OwnConnections DEF InSession, Retry, Goto, dbVars
  <2> QED
    BY <2>1, <2>2, OthersKeepWork
<1> QED
  BY <1>1, <1>2 DEF WorkInv

(* After a single statement, whoever began before is no longer current.    *)
LEMMA SingleWork ==
  ASSUME Careless = {}, SessionsInv, WorkInv, NEW t \in Calls, Single(t)
  PROVE  WorkInv'
<1> USE CallsAssumption, LimitsAssumption DEF SessionsInv, TypeOK, TransactionState, Errors, Running
<1>1. Progress(t, server[conn[t]])' /\ Answers(t)'
  <2>1. pc[t] = "connect" /\ pc'[t] = "resolved" /\ unknown' = unknown
    BY DEF Single, Goto
  <2> QED
    BY <2>1 DEF WorkInv, Progress, Answers, Working
<1>2. ASSUME NEW u \in Calls, u # t
      PROVE  Progress(u, server[conn[u]])' /\ Answers(u)'
  <2>1. /\ pc'[u] = pc[u] /\ conn'[u] = conn[u]
        /\ read'[u] = read[u] /\ error'[u] = error[u]
        /\ u \in unknown' <=> u \in unknown
        /\ row' = row \/ row'.version = row.version + 1
    BY <1>2 DEF Single, Write, Goto, callVars
  <2>2. pc[u] = "begin" \/ Working(u) => server'[conn[u]] = server[conn[u]]
    BY <1>2, OwnConnections DEF InSession, Single, Write, Goto, callVars
  <2> QED
    BY <2>1, <2>2, OthersKeepWork
<1> QED
  BY <1>1, <1>2 DEF WorkInv

(* A single statement that may have been made rejects as broken.           *)
LEMMA SingleFailsWork ==
  ASSUME Careless = {}, SessionsInv, WorkInv, NEW t \in Calls, SingleFails(t)
  PROVE  WorkInv'
<1> USE CallsAssumption, LimitsAssumption DEF SessionsInv, TypeOK, TransactionState, Errors, Running
<1>1. Progress(t, server[conn[t]])' /\ Answers(t)'
  BY DEF WorkInv, Progress, Answers, Working, Current, PoolIsClean, SingleFails,
         QueryFails, NoTransaction, Goto
<1>2. ASSUME NEW u \in Calls, u # t
      PROVE  Progress(u, server[conn[u]])' /\ Answers(u)'
  <2>1. /\ pc'[u] = pc[u] /\ conn'[u] = conn[u]
        /\ read'[u] = read[u] /\ error'[u] = error[u]
        /\ u \in unknown' <=> u \in unknown
        /\ row' = row \/ row'.version = row.version + 1
    BY <1>2 DEF SingleFails, QueryFails, NoTransaction, Goto
  <2>2. pc[u] = "begin" \/ Working(u) => server'[conn[u]] = server[conn[u]]
    BY <1>2, OwnConnections
    DEF InSession, SingleFails, QueryFails, NoTransaction, Goto
  <2> QED
    BY <2>1, <2>2, OthersKeepWork
<1> QED
  BY <1>1, <1>2 DEF WorkInv

(* Every step keeps what transactions read and wrote in line with the row. *)
LEMMA WorkStep ==
  ASSUME Careless = {}, SessionsInv, WorkInv, [Next]_vars
  PROVE  WorkInv'
<1>1. CASE UNCHANGED vars
  BY <1>1 DEF WorkInv, Progress, Answers, Working, Current, vars, dbVars, callVars
<1>2. CASE \E t \in Calls : Step(t)
  BY <1>2, ConnectWork, ConnectFailsWork, BeginWork,
     BeginFailsWork, ReadWork, IncrementWork,
     StatementFailsWork, ThrowWork, CommitWork,
     CommitFailsWork, RollbackWork, RetryWork,
     SingleWork, SingleFailsWork
  DEF Step
<1> QED
  BY <1>1, <1>2 DEF Next

-----------------------------------------------------------------------------
(* A step of a call that goes to label l, as its caller sees it.           *)
LEMMA OutcomeStep ==
  ASSUME SessionsInv, NEW t \in Calls, NEW l, Goto(t, l),
         \A u \in Calls \ {t} : error'[u] = error[u]
  PROVE  /\ l = "resolved" => Outcome' = [Outcome EXCEPT ![t] = "resolved"]
         /\ l = "rejected" => Outcome' = [Outcome EXCEPT ![t] = error'[t]]
         /\ l \notin {"resolved", "rejected"} => Outcome' = [Outcome EXCEPT ![t] = "pending"]
         /\ pc[t] \notin {"resolved", "rejected"} => Outcome[t] = "pending"
<1>1. pc' = [pc EXCEPT ![t] = l] /\ DOMAIN pc = Calls
  BY DEF SessionsInv, TypeOK, Goto
<1>2. \A u \in Calls \ {t} : Outcome'[u] = Outcome[u]
  BY <1>1 DEF Outcome
<1>3. /\ l = "resolved" => Outcome'[t] = "resolved"
      /\ l = "rejected" => Outcome'[t] = error'[t]
      /\ l \notin {"resolved", "rejected"} => Outcome'[t] = "pending"
  BY <1>1 DEF Outcome
<1>4. /\ DOMAIN Outcome = Calls /\ DOMAIN Outcome' = Calls
      /\ Outcome = [u \in Calls |-> Outcome[u]]
      /\ Outcome' = [u \in Calls |-> Outcome'[u]]
  BY DEF Outcome
<1>5. pc[t] \notin {"resolved", "rejected"} => Outcome[t] = "pending"
  BY DEF Outcome
<1> QED
  BY <1>2, <1>3, <1>4, <1>5

PromiseStep == Promise!Next \/ UNCHANGED <<row.counter, unknown, Outcome>>

(* A step within a call is a stutter of the promise.                       *)
LEMMA PendingStep ==
  ASSUME SessionsInv, NEW t \in Calls, NEW l,
         l \notin {"resolved", "rejected"}, Goto(t, l),
         pc[t] \notin {"resolved", "rejected"},
         \A u \in Calls \ {t} : error'[u] = error[u],
         row' = row, unknown' = unknown
  PROVE  PromiseStep
<1>1. Outcome' = [Outcome EXCEPT ![t] = "pending"]
  BY OutcomeStep
<1>2. Outcome[t] = "pending" /\ Outcome = [u \in Calls |-> Outcome[u]]
  BY DEF Outcome
<1> QED
  BY <1>1, <1>2 DEF PromiseStep

(* A call that rejects, its COMMIT not made.                               *)
LEMMA RejectStep ==
  ASSUME SessionsInv, NEW t \in Calls, Goto(t, "rejected"),
         pc[t] \notin {"resolved", "rejected"},
         \A u \in Calls \ {t} : error'[u] = error[u],
         error'[t] \in Errors \cup {"thrown"},
         t \in unknown => error'[t] = "broken",
         row' = row, unknown' = unknown
  PROVE  PromiseStep
<1>1. Outcome' = [Outcome EXCEPT ![t] = error'[t]] /\ Outcome[t] = "pending"
  BY OutcomeStep
<1>2. Promise!Reject(t, error'[t])
  BY <1>1 DEF Promise!Reject
<1> QED
  BY <1>2 DEF PromiseStep, Promise!Next, Errors

(* Taking a connection is not seen by the caller.                          *)
LEMMA ConnectPromise ==
  ASSUME SessionsInv, NEW t \in Calls, Connect(t)
  PROVE  PromiseStep
<1>1. PICK l : l \notin {"resolved", "rejected"} /\ Goto(t, l)
  BY DEF Connect
<1>2. /\ pc[t] \notin {"resolved", "rejected"}
      /\ row' = row /\ unknown' = unknown
      /\ \A u \in Calls \ {t} : error'[u] = error[u]
  BY DEF SessionsInv, TypeOK, Connect, dbVars
<1> QED
  BY <1>1, <1>2, PendingStep

(* Nor is BEGIN.                                                           *)
LEMMA BeginPromise ==
  ASSUME SessionsInv, NEW t \in Calls, Begin(t)
  PROVE  PromiseStep
<1>1. PICK l : l \notin {"resolved", "rejected"} /\ Goto(t, l)
  BY DEF Begin
<1>2. /\ pc[t] \notin {"resolved", "rejected"}
      /\ row' = row /\ unknown' = unknown
      /\ \A u \in Calls \ {t} : error'[u] = error[u]
  BY DEF SessionsInv, TypeOK, Begin, Snapshot
<1> QED
  BY <1>1, <1>2, PendingStep

(* Nor is a read.                                                          *)
LEMMA ReadPromise ==
  ASSUME SessionsInv, NEW t \in Calls, Read(t)
  PROVE  PromiseStep
<1>1. PICK l : l \notin {"resolved", "rejected"} /\ Goto(t, l)
  BY DEF Read, GoOn
<1>2. /\ pc[t] \notin {"resolved", "rejected"}
      /\ row' = row /\ unknown' = unknown
      /\ \A u \in Calls \ {t} : error'[u] = error[u]
  BY DEF SessionsInv, TypeOK, Read, GoOn, dbVars
<1> QED
  BY <1>1, <1>2, PendingStep

(* Nor is a write before its COMMIT.                                       *)
LEMMA IncrementPromise ==
  ASSUME SessionsInv, NEW t \in Calls, Increment(t)
  PROVE  PromiseStep
<1>1. PICK l : l \notin {"resolved", "rejected"} /\ Goto(t, l)
  BY DEF Increment, GoOn
<1>2. /\ pc[t] \notin {"resolved", "rejected"}
      /\ row' = row /\ unknown' = unknown
      /\ \A u \in Calls \ {t} : error'[u] = error[u]
  BY DEF SessionsInv, TypeOK, Increment, GoOn, Write, callVars
<1> QED
  BY <1>1, <1>2, PendingStep

(* Nor is a statement that failed, before the rollback.                    *)
LEMMA StatementFailsPromise ==
  ASSUME SessionsInv, NEW t \in Calls, StatementFails(t)
  PROVE  PromiseStep
<1>1. PICK l : l \notin {"resolved", "rejected"} /\ Goto(t, l)
  BY DEF StatementFails, GoOn
<1>2. /\ pc[t] \notin {"resolved", "rejected"}
      /\ row' = row /\ unknown' = unknown
      /\ \A u \in Calls \ {t} : error'[u] = error[u]
  BY DEF SessionsInv, TypeOK, StatementFails, GoOn, QueryFails, NoTransaction
<1> QED
  BY <1>1, <1>2, PendingStep

(* Nor is what the callback threw, before the rollback.                    *)
LEMMA ThrowPromise ==
  ASSUME SessionsInv, NEW t \in Calls, Throw(t)
  PROVE  PromiseStep
<1>1. PICK l : l \notin {"resolved", "rejected"} /\ Goto(t, l)
  BY DEF Throw
<1>2. /\ pc[t] \notin {"resolved", "rejected"}
      /\ row' = row /\ unknown' = unknown
      /\ \A u \in Calls \ {t} : error'[u] = error[u]
  BY DEF SessionsInv, TypeOK, Throw, dbVars
<1> QED
  BY <1>1, <1>2, PendingStep

(* Nor is another run.                                                     *)
LEMMA RetryPromise ==
  ASSUME SessionsInv, NEW t \in Calls, Retry(t)
  PROVE  PromiseStep
<1>1. PICK l : l \notin {"resolved", "rejected"} /\ Goto(t, l)
  BY DEF Retry
<1>2. /\ pc[t] \notin {"resolved", "rejected"}
      /\ row' = row /\ unknown' = unknown
      /\ \A u \in Calls \ {t} : error'[u] = error[u]
  BY DEF SessionsInv, TypeOK, Retry, dbVars
<1> QED
  BY <1>1, <1>2, PendingStep

(* A call without a connection rejects.                                    *)
LEMMA ConnectFailsPromise ==
  ASSUME SessionsInv, WorkInv, NEW t \in Calls, ConnectFails(t)
  PROVE  PromiseStep
BY RejectStep DEF SessionsInv, TypeOK, WorkInv, Answers, ConnectFails, dbVars

(* A call whose BEGIN failed rejects.                                      *)
LEMMA BeginFailsPromise ==
  ASSUME SessionsInv, WorkInv, NEW t \in Calls, BeginFails(t)
  PROVE  PromiseStep
BY RejectStep DEF SessionsInv, TypeOK, WorkInv, Answers, BeginFails

(* A call that rolled back rejects, or waits to run again.                 *)
LEMMA RollbackPromise ==
  ASSUME SessionsInv, WorkInv, NEW t \in Calls, Rollback(t)
  PROVE  PromiseStep
<1>1. /\ pc[t] = "rollback" /\ row' = row /\ unknown' = unknown /\ error' = error
      /\ Goto(t, "sleep") \/ Goto(t, "rejected")
  BY DEF Rollback, RollbackSession, dbVars
<1>2. /\ error[t] \in Errors \cup {"thrown"}
      /\ t \in unknown => error[t] = "broken"
  BY <1>1 DEF SessionsInv, TypeOK, WorkInv, Answers
<1> QED
  BY <1>1, <1>2, PendingStep, RejectStep

(* A COMMIT that answers made the transaction, and its counter is one more *)
(* than the one it replaces: no other call committed since it began.       *)
LEMMA CommitPromise ==
  ASSUME SessionsInv, WorkInv, NEW t \in Calls, Commit(t)
  PROVE  PromiseStep
<1> DEFINE s == server[conn[t]]
<1>1. /\ pc[t] = "commit" /\ unknown' = unknown /\ error' = error
      /\ Goto(t, "resolved")
  BY DEF Commit
<1>2. s.state = "open" /\ s.wrote /\ (Current(s) => s.counter = row.counter + 1)
  BY <1>1 DEF WorkInv, Progress, Working
<1>3. row'.counter = row.counter + 1
  BY <1>2 DEF Commit, Conflict, Persist, Current
<1>4. Outcome' = [Outcome EXCEPT ![t] = "resolved"] /\ Outcome[t] = "pending"
  BY <1>1, OutcomeStep
<1>5. t \notin unknown
  BY <1>1 DEF WorkInv, Answers
<1> QED
  BY <1>1, <1>3, <1>4, <1>5 DEF PromiseStep, Promise!Next, Promise!Resolve

(* A COMMIT that failed was not made, or its answer was lost.              *)
LEMMA CommitFailsPromise ==
  ASSUME SessionsInv, WorkInv, NEW t \in Calls, CommitFails(t)
  PROVE  PromiseStep
<1> DEFINE s == server[conn[t]]
<1>1. /\ pc[t] = "commit" /\ Goto(t, "rollback")
      /\ \A u \in Calls \ {t} : error'[u] = error[u]
  BY DEF SessionsInv, TypeOK, CommitFails
<1>2. CASE row' = row /\ unknown' = unknown
  BY <1>1, <1>2, PendingStep
<1>3. CASE /\ s.wrote /\ ~ Conflict(conn[t])
           /\ Persist(conn[t]) /\ unknown' = unknown \cup {t}
  <2>1. s.counter = row.counter + 1 /\ t \notin unknown
    BY <1>1, <1>3 DEF WorkInv, Progress, Answers, Current, Conflict
  <2>2. row'.counter = row.counter + 1
    BY <1>3, <2>1 DEF Persist
  <2>3. Outcome' = [Outcome EXCEPT ![t] = "pending"] /\ Outcome[t] = "pending"
    BY <1>1, OutcomeStep
  <2>4. Outcome' = Outcome
    BY <2>3 DEF Outcome
  <2> QED
    BY <1>3, <2>1, <2>2, <2>3, <2>4
    DEF PromiseStep, Promise!Next, Promise!LoseAnswer
<1> QED
  BY <1>2, <1>3 DEF CommitFails

(* A single statement adds one to the committed counter.                   *)
LEMMA SinglePromise ==
  ASSUME SessionsInv, WorkInv, NEW t \in Calls, Single(t)
  PROVE  PromiseStep
<1>1. /\ pc[t] = "connect" /\ Goto(t, "resolved")
      /\ unknown' = unknown /\ error' = error
  BY DEF Single, callVars
<1>2. row'.counter = row.counter + 1
  BY DEF Single, SessionsInv, PoolIsClean
<1>3. Outcome' = [Outcome EXCEPT ![t] = "resolved"] /\ Outcome[t] = "pending"
  BY <1>1, OutcomeStep
<1>4. t \notin unknown
  BY <1>1 DEF WorkInv, Answers
<1> QED
  BY <1>1, <1>2, <1>3, <1>4 DEF PromiseStep, Promise!Next, Promise!Resolve

(* A single statement that failed was not made, or its answer was lost.    *)
LEMMA SingleFailsPromise ==
  ASSUME SessionsInv, WorkInv, NEW t \in Calls, SingleFails(t)
  PROVE  PromiseStep
<1>1. /\ pc[t] = "connect" /\ Goto(t, "rejected") /\ error'[t] \in Errors
      /\ \A u \in Calls \ {t} : error'[u] = error[u]
  BY DEF SessionsInv, TypeOK, SingleFails
<1>2. t \notin unknown
  BY <1>1 DEF WorkInv, Answers
<1>3. CASE row' = row /\ unknown' = unknown
  BY <1>1, <1>2, <1>3, RejectStep
<1>4. CASE /\ row'.counter = row.counter + 1 /\ unknown' = unknown \cup {t}
           /\ error'[t] = "broken"
  <2>1. Outcome' = [Outcome EXCEPT ![t] = "broken"] /\ Outcome[t] = "pending"
    BY <1>1, <1>4, OutcomeStep
  <2> QED
    BY <1>2, <1>4, <2>1 DEF PromiseStep, Promise!Next, Promise!LoseAnswer
<1>5. \/ row' = row /\ unknown' = unknown
      \/ /\ row'.counter = row.counter + 1 /\ unknown' = unknown \cup {t}
         /\ error'[t] = "broken"
  BY DEF SessionsInv, TypeOK, SingleFails
<1> QED
  BY <1>3, <1>4, <1>5

-----------------------------------------------------------------------------
(* The variables keep their types, the bounds on retries and errors too.   *)
THEOREM TypeCorrect == Spec => []TypeOK
<1>1. SessionsInv => TypeOK
  BY DEF SessionsInv
<1> QED
  BY <1>1, SessionsInit, SessionsStep, PTL DEF Spec

(* PGTransactionSession: while its session lasts, a call has its connection *)
(* to itself, and returns it once, whatever fails.                         *)
THEOREM ConnectionOwned == Spec => []OwnConnection
<1>1. SessionsInv => OwnConnection
  BY DEF SessionsInv
<1> QED
  BY <1>1, SessionsInit, SessionsStep, PTL DEF Spec

(* No connection goes back to the pool with a transaction open on it.      *)
THEOREM PoolStaysClean == Spec => []PoolIsClean
<1>1. SessionsInv => PoolIsClean
  BY DEF SessionsInv
<1> QED
  BY <1>1, SessionsInit, SessionsStep, PTL DEF Spec

(* Every call is made whole and at most once, and none is lost, if no      *)
(* callback goes on after a statement that failed.                         *)
THEOREM PromiseKept ==
  ASSUME Careless = {}
  PROVE  Spec => KeepsPromise
<1>1. Init => SessionsInv /\ WorkInv
  BY SessionsInit, CallsAssumption
  DEF Init, WorkInv, Progress, Answers, Working, NoTransaction
<1>2. Init => Promise!Init
  BY DEF Init, Promise!Init, Outcome
<1>3. SessionsInv /\ WorkInv /\ [Next]_vars => (SessionsInv /\ WorkInv)'
  BY SessionsStep, WorkStep
<1>4. SessionsInv /\ WorkInv /\ [Next]_vars
        => [Promise!Next]_<<row.counter, unknown, Outcome>>
  <2> SUFFICES ASSUME SessionsInv, WorkInv, [Next]_vars
               PROVE  PromiseStep
    BY DEF PromiseStep
  <2>1. CASE UNCHANGED vars
    BY <2>1 DEF PromiseStep, Outcome, vars, dbVars, callVars
  <2>2. CASE \E t \in Calls : Step(t)
    BY <2>2, ConnectPromise, ConnectFailsPromise, BeginPromise,
       BeginFailsPromise, ReadPromise, IncrementPromise,
       StatementFailsPromise, ThrowPromise, CommitPromise,
       CommitFailsPromise, RollbackPromise, RetryPromise,
       SinglePromise, SingleFailsPromise
    DEF Step
  <2> QED
    BY <2>1, <2>2 DEF Next
<1> QED
  BY <1>1, <1>2, <1>3, <1>4, PTL DEF Spec, KeepsPromise, Promise!Spec
=============================================================================
