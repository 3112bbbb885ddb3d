---------------------------- MODULE TransactionTask ----------------------------
(***************************************************************************)
(* How a SQL operation reaches the database: TransactionTask (and its      *)
(* WithResult variant) on the asynchronous connections,                    *)
(* DirectCommitTransaction on the synchronous ones, and single statements, *)
(* all through MySQLConnection, statement by statement, against a MySQL    *)
(* server that may report errors and whose connection may be lost.  The    *)
(* order in which operations arrive is the subject of DatabaseWorkerPool.  *)
(***************************************************************************)
EXTENDS Integers, Sequences, FiniteSets

CONSTANTS
    Tasks,              \* transactions given to CommitTransaction or AsyncCommitTransaction
    Directs,            \* transactions given to DirectCommitTransaction
    Singles,            \* statements given to Execute or DirectExecute, without a transaction
    Length,             \* m_queries.size() of each of them
    Async, Sync,        \* the connections of the two pools
    Nobody,             \* no operation, or no owner of _deadlockLock
    MaxTries,           \* bound: the 60 s of DEADLOCK_MAX_RETRY_TIME_MS end by then
    DirectRetries,      \* loopBreaker, 5
    ReconnectAttempts,  \* attempts of _HandleMySQLErrno, 5
    MaxLosses,          \* bound: how often a connection is lost in all
    MaxIssued,          \* bound: how many of the operations are given to connections
    Faults              \* what may go wrong

Transactions == Tasks \cup Directs
Operations == Transactions \cup Singles
Connections == Async \cup Sync

ASSUME TransactionAssumption ==
    /\ Length \in [Operations -> Nat]
    /\ \A s \in Singles : Length[s] = 1
    /\ Tasks \cap Directs = {} /\ Singles \cap Transactions = {}
    /\ Async \cap Sync = {}
    /\ Nobody \notin Operations \cup Connections
    /\ MaxTries \in Nat \ {0} /\ DirectRetries \in Nat \ {0}
    /\ ReconnectAttempts \in Nat \ {0} /\ MaxLosses \in Nat /\ MaxIssued \in Nat
    /\ Faults \subseteq {"deadlock", "error", "commit", "loss", "refused", "unhandled"}

VARIABLES
    pc,         \* where the thread that owns the connection is
    op,         \* the operation it executes
    next,       \* ExecuteTransaction's iterator
    err,        \* what the last attempt returned
    tries,      \* the retries made because of a deadlock
    link,       \* m_Mysql: connected, being reconnected, or null for good
    attempts,   \* _HandleMySQLErrno's attempts that are left
    losses,     \* the connections lost so far
    lock,       \* the owner of TransactionTask::_deadlockLock
    aborted,    \* ABORT() ended the process
    outcome,    \* what Execute() made of the operation (the promise of WithResult)
    spoiled,    \* history: the operations that met a lost connection or a failed COMMIT
    inTx,       \* MySQL: the session has a transaction open
    buffer,     \* MySQL: the statements of that transaction, with their operation
    stored      \* MySQL: the statements of each operation that are committed, in order

threadVars == <<pc, op, next, err, tries>>
linkVars == <<link, attempts, losses>>
answers == <<outcome, spoiled>>
serverVars == <<inTx, buffer, stored>>
vars == <<pc, op, next, err, tries, link, attempts, losses, lock, aborted, outcome, spoiled,
          inTx, buffer, stored>>

All(o) == [i \in 1..Length[o] |-> i]

TypeOK ==
    /\ pc \in [Connections ->
          {"idle", "begin", "statement", "rollback", "commit", "returned", "lock"}]
    /\ op \in [Connections -> Operations \cup {Nobody}]
    /\ next \in [Connections -> Nat]
    /\ err \in [Connections -> {"none", "empty", "deadlock", "error"}]
    /\ tries \in [Connections -> Nat]
    /\ link \in [Connections -> {"up", "lost", "null"}]
    /\ attempts \in [Connections -> 1..ReconnectAttempts]
    /\ losses \in 0..MaxLosses
    /\ lock \in Async \cup {Nobody}
    /\ aborted \in BOOLEAN
    /\ outcome \in [Operations -> {"none", "ok", "failed"}]
    /\ spoiled \in SUBSET Operations
    /\ inTx \in [Connections -> BOOLEAN]
    /\ buffer \in [Connections -> Seq(Nat)]
    /\ stored \in [Operations -> Seq(Nat)]

Init ==
    /\ pc = [c \in Connections |-> "idle"]
    /\ op = [c \in Connections |-> Nobody]
    /\ next = [c \in Connections |-> 0]
    /\ err = [c \in Connections |-> "none"]
    /\ tries = [c \in Connections |-> 0]
    /\ link = [c \in Connections |-> "up"]
    /\ attempts = [c \in Connections |-> ReconnectAttempts]
    /\ losses = 0
    /\ lock = Nobody
    /\ aborted = FALSE
    /\ outcome = [o \in Operations |-> "none"]
    /\ spoiled = {}
    /\ inTx = [c \in Connections |-> FALSE]
    /\ buffer = [c \in Connections |-> <<>>]
    /\ stored = [o \in Operations |-> <<>>]

--------------------------------------------------------------------------------
(* The MySQL server.                                                        *)

ServerCommits(c) ==
    /\ stored' = [stored EXCEPT ![op[c]] = @ \o buffer[c]]
    /\ inTx' = [inTx EXCEPT ![c] = FALSE]
    /\ buffer' = [buffer EXCEPT ![c] = <<>>]

ServerRollsBack(c) ==
    /\ inTx' = [inTx EXCEPT ![c] = FALSE]
    /\ buffer' = [buffer EXCEPT ![c] = <<>>]
    /\ UNCHANGED stored

\* START TRANSACTION commits whatever the session still has open.
ServerBegins(c) ==
    /\ stored' = [stored EXCEPT ![op[c]] = @ \o buffer[c]]
    /\ inTx' = [inTx EXCEPT ![c] = TRUE]
    /\ buffer' = [buffer EXCEPT ![c] = <<>>]

\* With autocommit on, a statement outside of a transaction is committed at once.
ServerExecutes(c) ==
    /\ IF inTx[c]
       THEN buffer' = [buffer EXCEPT ![c] = Append(@, next[c])] /\ UNCHANGED stored
       ELSE stored' = [stored EXCEPT ![op[c]] = Append(@, next[c])] /\ UNCHANGED buffer
    /\ UNCHANGED inTx

--------------------------------------------------------------------------------
(* MySQLConnection                                                          *)

Goto(c, label) == pc' = [pc EXCEPT ![c] = label]

\* ExecuteTransaction starts on o (a single statement is executed on its own).
Attempt(c, o) ==
    /\ Goto(c, IF o \in Singles THEN "statement"
               ELSE IF Length[o] = 0 THEN "returned" ELSE "begin")
    /\ next' = [next EXCEPT ![c] = 1]
    /\ err' = [err EXCEPT ![c] = IF Length[o] = 0 THEN "empty" ELSE "none"]

\* Execute("START TRANSACTION"); its result is ignored.
BeginTransaction(c) ==
    /\ pc[c] = "begin"
    /\ \/ link[c] = "up" /\ ServerBegins(c)
       \/ link[c] = "null" /\ UNCHANGED serverVars
    /\ Goto(c, "statement")
    /\ UNCHANGED <<op, next, err, tries, linkVars, lock, aborted, answers>>

\* Execute(stmt) succeeds.
StatementSucceeds(c) ==
    /\ pc[c] = "statement" /\ link[c] = "up"
    /\ ServerExecutes(c)
    /\ next' = [next EXCEPT ![c] = @ + 1]
    /\ Goto(c, IF next[c] < Length[op[c]] THEN "statement"
               ELSE IF op[c] \in Singles THEN "returned" ELSE "commit")
    /\ UNCHANGED <<op, err, tries, linkVars, lock, aborted, answers>>

\* Mutant: a failed transaction is not rolled back.
WithoutRollback(c) == Goto(c, "returned")

\* A transaction is rolled back, a single statement has no more to do.
AfterFailure(c) == Goto(c, IF op[c] \in Singles THEN "returned" ELSE "rollback")

\* Execute(stmt) fails with ER_LOCK_DEADLOCK: MySQL has rolled the transaction back.
StatementDeadlocks(c) ==
    /\ pc[c] = "statement" /\ link[c] = "up"
    /\ "deadlock" \in Faults
    /\ ServerRollsBack(c)
    /\ err' = [err EXCEPT ![c] = "deadlock"]
    /\ AfterFailure(c)
    /\ UNCHANGED <<op, next, tries, linkVars, lock, aborted, answers>>

\* Mutant: GetLastError() is asked after the ROLLBACK has succeeded.
ErrorForgotten(c) ==
    /\ pc[c] = "statement" /\ link[c] = "up"
    /\ "error" \in Faults
    /\ err' = [err EXCEPT ![c] = "none"]
    /\ AfterFailure(c)
    /\ UNCHANGED <<op, next, tries, linkVars, lock, aborted, answers, serverVars>>

\* Execute(stmt) fails with another error of the statement; the transaction is still open.
StatementFails(c) ==
    /\ pc[c] = "statement" /\ link[c] = "up"
    /\ "error" \in Faults
    /\ err' = [err EXCEPT ![c] = "error"]
    /\ AfterFailure(c)
    /\ UNCHANGED <<op, next, tries, linkVars, lock, aborted, answers, serverVars>>

\* Execute(stmt) fails for want of a MYSQL handle, and GetLastError() asks a null
\* handle for its error: 0.
StatementWithoutHandle(c) ==
    /\ pc[c] = "statement" /\ link[c] = "null"
    /\ err' = [err EXCEPT ![c] = IF op[c] \in Singles THEN "error" ELSE "none"]
    /\ spoiled' = spoiled \cup {op[c]}
    /\ AfterFailure(c)
    /\ UNCHANGED <<op, next, tries, linkVars, lock, aborted, outcome, serverVars>>

\* Execute("ROLLBACK"); its result is ignored.
RollbackTransaction(c) ==
    /\ pc[c] = "rollback"
    /\ \/ link[c] = "up" /\ ServerRollsBack(c)
       \/ link[c] = "null" /\ UNCHANGED serverVars
    /\ Goto(c, "returned")
    /\ UNCHANGED <<op, next, err, tries, linkVars, lock, aborted, answers>>

\* Execute("COMMIT"); its result is ignored, and the attempt returns 0.
CommitTransaction(c) ==
    /\ pc[c] = "commit"
    /\ \/ link[c] = "up" /\ ServerCommits(c) /\ UNCHANGED spoiled
       \/ /\ link[c] = "up" /\ "commit" \in Faults
          /\ ServerRollsBack(c)
          /\ spoiled' = spoiled \cup {op[c]}
       \/ link[c] = "null" /\ UNCHANGED <<spoiled, serverVars>>
    /\ Goto(c, "returned")
    /\ UNCHANGED <<op, next, err, tries, linkVars, lock, aborted, outcome>>

\* mysql_query reports CR_SERVER_GONE_ERROR or CR_SERVER_LOST, before the server has
\* executed the statement or after.  The server ends the session, and with it the
\* transaction; _HandleMySQLErrno sets out to reconnect.
LoseConnection(c) ==
    /\ "loss" \in Faults /\ losses < MaxLosses
    /\ losses' = losses + 1
    /\ link[c] = "up"
    /\ pc[c] \in {"begin", "statement", "rollback", "commit"}
    /\ \/ ServerRollsBack(c)
       \/ pc[c] = "commit" /\ ServerCommits(c)
       \/ pc[c] = "statement" /\ ~inTx[c] /\ ServerExecutes(c)
    /\ link' = [link EXCEPT ![c] = "lost"]
    /\ spoiled' = spoiled \cup {op[c]}
    /\ UNCHANGED <<threadVars, attempts, lock, aborted, outcome>>

\* Open() and PrepareStatements() succeed: "return true", and the caller executes the
\* same statement again, in the new session.
Reconnect(c) ==
    /\ link[c] = "lost"
    /\ link' = [link EXCEPT ![c] = "up"]
    /\ attempts' = [attempts EXCEPT ![c] = ReconnectAttempts]
    /\ UNCHANGED <<threadVars, losses, lock, aborted, answers, serverVars>>

\* Open() fails with one of the errors handled: three seconds later it is tried again,
\* until the attempts are used up.
ReconnectRefused(c) ==
    /\ link[c] = "lost"
    /\ "refused" \in Faults
    /\ IF attempts[c] > 1
       THEN attempts' = [attempts EXCEPT ![c] = @ - 1] /\ UNCHANGED aborted
       ELSE aborted' = TRUE /\ UNCHANGED attempts
    /\ UNCHANGED <<threadVars, link, losses, lock, answers, serverVars>>

\* Open() succeeds, PrepareStatements() does not.
PrepareFails(c) ==
    /\ link[c] = "lost"
    /\ "refused" \in Faults
    /\ aborted' = TRUE
    /\ UNCHANGED <<threadVars, linkVars, lock, answers, serverVars>>

\* Open() fails with an error the recursive call does not know (CR_CONNECTION_ERROR of
\* a local socket, for one): "return false", with m_Mysql null.
ReconnectGivesUp(c) ==
    /\ link[c] = "lost"
    /\ "unhandled" \in Faults
    /\ link' = [link EXCEPT ![c] = "null"]
    /\ attempts' = [attempts EXCEPT ![c] = ReconnectAttempts]
    /\ UNCHANGED <<threadVars, losses, lock, aborted, answers, serverVars>>

--------------------------------------------------------------------------------
(* TransactionTask::Execute, TransactionWithResultTask::Execute,            *)
(* DirectCommitTransaction, BasicStatementTask::Execute                     *)

Issued == {o \in Operations : outcome[o] # "none" \/ \E c \in Connections : op[c] = o}

\* A worker starts on a popped operation; a caller has locked a synchronous connection.
Start(c, o) ==
    /\ pc[c] = "idle"
    /\ o \notin Issued /\ Cardinality(Issued) < MaxIssued
    /\ o \in Singles \cup IF c \in Sync THEN Directs ELSE Tasks
    /\ op' = [op EXCEPT ![c] = o]
    /\ Attempt(c, o)
    /\ UNCHANGED <<tries, linkVars, lock, aborted, answers, serverVars>>

\* What follows an attempt that has returned err[c].
MayRetry(c) ==
    /\ IF tries[c] = 0 THEN err[c] = "deadlock" ELSE err[c] # "none"
    /\ tries[c] < IF op[c] \in Directs THEN DirectRetries ELSE MaxTries
    /\ op[c] \notin Singles

\* Mutant: whatever deadlocks queues for the lock.
EveryoneWantsLock(c) ==
    /\ pc[c] = "returned"
    /\ tries[c] = 0 /\ MayRetry(c)
    /\ Goto(c, "lock")
    /\ UNCHANGED <<op, next, err, tries, linkVars, lock, aborted, answers, serverVars>>

\* The deadlocked task is to take _deadlockLock before it tries again.
WantLock(c) ==
    /\ pc[c] = "returned" /\ op[c] \in Tasks
    /\ tries[c] = 0 /\ MayRetry(c)
    /\ Goto(c, "lock")
    /\ UNCHANGED <<op, next, err, tries, linkVars, lock, aborted, answers, serverVars>>

\* std::lock_guard, and the first turn of the loop.
Lock(c) ==
    /\ pc[c] = "lock"
    /\ lock = Nobody
    /\ lock' = c
    /\ tries' = [tries EXCEPT ![c] = 1]
    /\ Attempt(c, op[c])
    /\ UNCHANGED <<op, linkVars, aborted, answers, serverVars>>

\* The next turn of the loop, whatever the error was.
Retry(c) ==
    /\ pc[c] = "returned"
    /\ op[c] \in Directs \/ tries[c] > 0
    /\ MayRetry(c)
    /\ tries' = [tries EXCEPT ![c] = @ + 1]
    /\ Attempt(c, op[c])
    /\ UNCHANGED <<op, linkVars, lock, aborted, answers, serverVars>>

\* Mutant: the lock is not released.
FinishLocked(c) ==
    /\ pc[c] = "returned"
    /\ MayRetry(c) => (op[c] \in Tasks /\ tries[c] > 0)
    /\ outcome' = [outcome EXCEPT ![op[c]] = IF err[c] = "none" THEN "ok" ELSE "failed"]
    /\ op' = [op EXCEPT ![c] = Nobody]
    /\ next' = [next EXCEPT ![c] = 0]
    /\ err' = [err EXCEPT ![c] = "none"]
    /\ tries' = [tries EXCEPT ![c] = 0]
    /\ Goto(c, "idle")
    /\ UNCHANGED <<lock, linkVars, aborted, spoiled, serverVars>>

\* Success, an error that is not retried, or the end of the loop: for a task the time
\* may be up after any turn, for DirectCommitTransaction after loopBreaker turns.
Finish(c) ==
    /\ pc[c] = "returned"
    /\ MayRetry(c) => (op[c] \in Tasks /\ tries[c] > 0)
    /\ outcome' = [outcome EXCEPT ![op[c]] = IF err[c] = "none" THEN "ok" ELSE "failed"]
    /\ lock' = IF lock = c THEN Nobody ELSE lock
    /\ op' = [op EXCEPT ![c] = Nobody]
    /\ next' = [next EXCEPT ![c] = 0]
    /\ err' = [err EXCEPT ![c] = "none"]
    /\ tries' = [tries EXCEPT ![c] = 0]
    /\ Goto(c, "idle")
    /\ UNCHANGED <<linkVars, aborted, spoiled, serverVars>>

--------------------------------------------------------------------------------
Running(c) ==
    \/ \E o \in Operations : Start(c, o)
    \/ BeginTransaction(c) \/ StatementSucceeds(c) \/ StatementDeadlocks(c)
    \/ StatementFails(c) \/ StatementWithoutHandle(c) \/ RollbackTransaction(c)
    \/ CommitTransaction(c) \/ Reconnect(c) \/ ReconnectRefused(c) \/ PrepareFails(c)
    \/ ReconnectGivesUp(c) \/ WantLock(c) \/ Lock(c) \/ Retry(c) \/ Finish(c)

Next ==
    /\ ~aborted
    /\ \E c \in Connections : Running(c) \/ LoseConnection(c)

\* Threads run; nothing makes the server fail or a connection break.
Spec == Init /\ [][Next]_vars /\ \A c \in Connections : WF_vars(~aborted /\ Running(c))
--------------------------------------------------------------------------------
(* Properties                                                               *)

\* A transaction is "automatically rollback if not commited": of one that has been answered,
\* the whole is in the database or nothing.
AllOrNothing ==
    \A t \in Transactions : outcome[t] # "none" => stored[t] \in {<<>>, All(t)}

\* No attempt leaves a transaction open behind it: the next operation on the connection
\* neither commits nor joins it.
IdleSessionsAreClean == \A c \in Connections : pc[c] = "idle" => ~inTx[c]

\* Whatever is started is answered, or the process has ended: no deadlock, in the
\* database or between the retrying threads, keeps an operation from its outcome.
EveryOperationAnswered ==
    \A o \in Operations : (\E c \in Connections : op[c] = o) ~> outcome[o] # "none" \/ aborted

\* What a lost connection or a failed COMMIT does to an operation it does to that operation
\* only: all the others are atomic and their outcomes are known.
Atomic == INSTANCE AtomicOperations

ImplementsAtomic == Atomic!Spec
================================================================================
