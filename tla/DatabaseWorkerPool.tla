--------------------------- MODULE DatabaseWorkerPool ---------------------------
(***************************************************************************)
(* One asynchronous connection pool of the server: DatabaseWorkerPool<T>,  *)
(* the MySQLConnection objects it owns, the DatabaseWorker thread each of  *)
(* them runs, the ProducerConsumerQueue all the workers share, and the     *)
(* DatabaseLoader that opens the pool (a second time when it had to create *)
(* the database first).  What an operation does to the database is the     *)
(* subject of TransactionTask; here it is executed in one step.            *)
(***************************************************************************)
EXTENDS Integers, Sequences, FiniteSets, Functions

CONSTANTS
    Ops,            \* the SQLOperations the server enqueues, each once
    NoOp,           \* the null operation
    AsyncThreads,   \* _async_threads, 1..32 by DatabaseLoader
    AutoSetup       \* updates enabled and _autoSetup: a missing database is created

ASSUME PoolAssumption ==
    /\ AsyncThreads \in 1..32
    /\ AutoSetup \in BOOLEAN
    /\ NoOp \notin Ops

Workers == 1..AsyncThreads

VARIABLES
    queue, shutdown, waiting,   \* the shared ProducerConsumerQueue
    phase,      \* where the main thread is in the life of the pool
    attempt,    \* how many times DatabaseLoader has called pool.Open()
    error,      \* what the last pool.Open() returned
    conns,      \* _connections[IDX_ASYNC]
    fresh,      \* OpenConnections' local `connection`, 0 when there is none
    doomed,     \* the connections whose destructors are still to run, in order
    step,       \* where ~DatabaseWorker is for the first of them
    token,      \* the workers whose _cancelationToken is set
    thread,     \* where WorkerThread is
    job,        \* WorkerThread's local `operation`
    issued,     \* history: the operations enqueued, in order
    executed,   \* history: the operations executed, in order of completion
    dropped     \* history: the operations deleted or abandoned without execution

queueVars == <<queue, shutdown, waiting>>
mainVars == <<phase, attempt, error, conns, fresh, doomed, step>>
workerVars == <<thread, job>>
history == <<issued, executed, dropped>>
vars == <<queue, shutdown, waiting, phase, attempt, error, conns, fresh, doomed,
          step, token, thread, job, issued, executed, dropped>>

Queue == INSTANCE ProducerConsumerQueue WITH Values <- Ops, Consumers <- Workers

TypeOK ==
    /\ Queue!QueueTypeOK
    /\ phase \in {"new", "opening", "synch", "unwinding", "failed", "open", "closing", "closed"}
    /\ attempt \in 0..2
    /\ error \in {"none", "bad_db", "other"}
    /\ conns \in Seq(Workers)
    /\ fresh \in Workers \cup {0}
    /\ doomed \in Seq(Workers)
    /\ step \in {"token", "cancel", "join"}
    /\ token \in SUBSET Workers
    /\ thread \in [Workers -> {"none", "pop", "popped", "execute", "exited"}]
    /\ job \in [Workers -> Ops \cup {NoOp}]
    /\ issued \in Seq(Ops)
    /\ executed \in Seq(Ops)
    /\ dropped \in SUBSET Ops

Init ==
    /\ Queue!QueueInit
    /\ phase = "new" /\ attempt = 0 /\ error = "none"
    /\ conns = <<>> /\ fresh = 0
    /\ doomed = <<>> /\ step = "token"
    /\ token = {}
    /\ thread = [w \in Workers |-> "none"]
    /\ job = [w \in Workers |-> NoOp]
    /\ issued = <<>> /\ executed = <<>> /\ dropped = {}

--------------------------------------------------------------------------------
(* Opening: DatabaseLoader's open predicate and DatabaseWorkerPool::Open.   *)

\* Mutant: create the database and retry as often as it is missing, wanted or not.
RecoverableForever == phase = "failed" /\ error = "bad_db"

\* Open() failed with ER_BAD_DB_ERROR and the loader may create the database.
Recoverable == phase = "failed" /\ error = "bad_db" /\ AutoSetup /\ attempt = 1

\* The first pool.Open(), and the one after DBUpdater::Create made the database.
Open ==
    /\ phase = "new" \/ Recoverable
    /\ phase' = "opening"
    /\ attempt' = attempt + 1
    /\ error' = "none"
    /\ UNCHANGED <<queueVars, conns, fresh, doomed, step, token, workerVars, history>>

\* make_unique<T>(queue, info): the constructor starts the worker thread, before
\* the connection is open.
ConstructConnection ==
    /\ phase = "opening" /\ fresh = 0 /\ Len(conns) < AsyncThreads
    /\ LET w == Len(conns) + 1 IN
        /\ fresh' = w
        /\ token' = token \ {w}
        /\ thread' = [thread EXCEPT ![w] = "pop"]
        /\ job' = [job EXCEPT ![w] = NoOp]
    /\ UNCHANGED <<queueVars, phase, attempt, error, conns, doomed, step, history>>

\* connection->Open() succeeds and the connection joins the pool.
ConnectSucceeds ==
    /\ fresh # 0
    /\ conns' = Append(conns, fresh)
    /\ fresh' = 0
    /\ phase' = IF Len(conns) + 1 = AsyncThreads THEN "synch" ELSE "opening"
    /\ UNCHANGED <<queueVars, attempt, error, doomed, step, token, workerVars, history>>

\* connection->Open() fails: the pool is cleared, then the local connection dies.
\* Only the first connection of a pool can find the database missing.
ConnectFails ==
    /\ fresh # 0
    /\ error' \in IF conns = <<>> THEN {"bad_db", "other"} ELSE {"other"}
    /\ doomed' = Append(conns, fresh)
    /\ conns' = <<>> /\ fresh' = 0
    /\ phase' = "unwinding"
    /\ UNCHANGED <<queueVars, attempt, step, token, workerVars, history>>

\* The server is too old: only the local connection dies, the pool is not cleared.
ServerTooOld ==
    /\ fresh # 0
    /\ doomed' = <<fresh>> /\ fresh' = 0
    /\ phase' = "unwinding" /\ error' = "other"
    /\ UNCHANGED <<queueVars, attempt, conns, step, token, workerVars, history>>

\* OpenConnections(IDX_SYNCH), after which the pool is in use or given up.
OpenSynchConnections ==
    /\ phase = "synch"
    /\ \/ phase' = "open" /\ UNCHANGED error
       \/ phase' = "failed" /\ error' = "other"
    /\ UNCHANGED <<queueVars, attempt, conns, fresh, doomed, step, token,
                   workerVars, history>>

--------------------------------------------------------------------------------
(* Closing: ~MySQLConnection resets m_worker, whose destructor sets the     *)
(* token, cancels the shared queue and joins the thread.                    *)

\* Close() on an open pool: _connections[IDX_ASYNC].clear().
Close ==
    /\ phase = "open"
    /\ phase' = "closing"
    /\ doomed' = conns /\ conns' = <<>>
    /\ UNCHANGED <<queueVars, attempt, error, fresh, step, token, workerVars, history>>

\* The loader gives up (when Recoverable, because DBUpdater::Create failed) and
\* the process ends: ~DatabaseWorkerPool cancels the
\* queue, then its members are destroyed.
GiveUp ==
    /\ phase = "failed"
    /\ Queue!Cancel
    /\ dropped' = dropped \cup Range(queue)
    /\ phase' = "closing"
    /\ doomed' = conns /\ conns' = <<>>
    /\ UNCHANGED <<attempt, error, fresh, step, token, workerVars, issued, executed>>

SetToken ==
    /\ doomed # <<>> /\ step = "token"
    /\ token' = token \cup {Head(doomed)}
    /\ step' = "cancel"
    /\ UNCHANGED <<queueVars, phase, attempt, error, conns, fresh, doomed, workerVars, history>>

CancelQueue ==
    /\ doomed # <<>> /\ step = "cancel"
    /\ Queue!Cancel
    /\ dropped' = dropped \cup Range(queue)
    /\ step' = "join"
    /\ UNCHANGED <<phase, attempt, error, conns, fresh, doomed, token, workerVars,
                   issued, executed>>

\* Mutant: the thread is detached.
Detach ==
    /\ doomed # <<>> /\ step = "join"
    /\ doomed' = Tail(doomed)
    /\ step' = "token"
    /\ UNCHANGED <<queueVars, phase, attempt, error, conns, fresh, token, workerVars, history>>

Join ==
    /\ doomed # <<>> /\ step = "join"
    /\ thread[Head(doomed)] = "exited"
    /\ thread' = [thread EXCEPT ![Head(doomed)] = "none"]
    /\ doomed' = Tail(doomed)
    /\ step' = "token"
    /\ UNCHANGED <<queueVars, phase, attempt, error, conns, fresh, token, job, history>>

\* The last destructor has returned.
Unwound ==
    /\ doomed = <<>>
    /\ \/ phase = "unwinding" /\ phase' = "failed"
       \/ phase = "closing" /\ phase' = "closed"
    /\ UNCHANGED <<queueVars, attempt, error, conns, fresh, doomed, step, token,
                   workerVars, history>>

--------------------------------------------------------------------------------
(* The rest of the server: Execute, AsyncQuery, DelayQueryHolder,           *)
(* CommitTransaction, KeepAlive's pings all end in Enqueue.                 *)

Enqueue(op) ==
    /\ phase = "open"
    /\ op \notin Range(issued)
    /\ Queue!Push(op)
    /\ issued' = Append(issued, op)
    /\ UNCHANGED <<mainVars, token, workerVars, executed, dropped>>

--------------------------------------------------------------------------------
(* DatabaseWorker::WorkerThread                                             *)

Block(w) ==
    /\ thread[w] = "pop"
    /\ Queue!WaitAndPopBlocks(w)
    /\ UNCHANGED <<mainVars, token, workerVars, history>>

Wake(w) ==
    /\ Queue!SpuriousWakeup(w)
    /\ UNCHANGED <<mainVars, token, workerVars, history>>

Take(w) ==
    /\ thread[w] = "pop"
    /\ Queue!WaitAndPopTakes(w)
    /\ job' = [job EXCEPT ![w] = Head(queue)]
    /\ thread' = [thread EXCEPT ![w] = "popped"]
    /\ UNCHANGED <<mainVars, token, history>>

TakeNothing(w) ==
    /\ thread[w] = "pop"
    /\ Queue!WaitAndPopCancelled(w)
    /\ thread' = [thread EXCEPT ![w] = "popped"]
    /\ UNCHANGED <<mainVars, token, job, history>>

\* if (_cancelationToken || !operation) return;  an operation in hand is abandoned.
Exit(w) ==
    /\ thread[w] = "popped"
    /\ w \in token \/ job[w] = NoOp
    /\ thread' = [thread EXCEPT ![w] = "exited"]
    /\ job' = [job EXCEPT ![w] = NoOp]
    /\ dropped' = dropped \cup ({job[w]} \ {NoOp})
    /\ UNCHANGED <<queueVars, mainVars, token, issued, executed>>

Begin(w) ==
    /\ thread[w] = "popped"
    /\ w \notin token /\ job[w] # NoOp
    /\ thread' = [thread EXCEPT ![w] = "execute"]
    /\ UNCHANGED <<queueVars, mainVars, token, job, history>>

\* operation->call(); delete operation;
Execute(w) ==
    /\ thread[w] = "execute"
    /\ executed' = Append(executed, job[w])
    /\ job' = [job EXCEPT ![w] = NoOp]
    /\ thread' = [thread EXCEPT ![w] = "pop"]
    /\ UNCHANGED <<queueVars, mainVars, token, issued, dropped>>

--------------------------------------------------------------------------------
Opening == Open \/ ConstructConnection \/ ConnectSucceeds \/ ConnectFails
           \/ ServerTooOld \/ OpenSynchConnections

Closing == GiveUp \/ SetToken \/ CancelQueue \/ Join \/ Unwound

WorkerStep(w) == Block(w) \/ Take(w) \/ TakeNothing(w) \/ Exit(w) \/ Begin(w) \/ Execute(w)

Next ==
    \/ Opening
    \/ Close
    \/ Closing
    \/ \E op \in Ops : Enqueue(op)
    \/ \E w \in Workers : WorkerStep(w) \/ Wake(w)

\* Threads are scheduled and destructors, once entered, go on.  Nobody has to
\* open the pool, enqueue, or shut the server down.
Fairness ==
    /\ WF_vars(Closing)
    /\ \A w \in 1..AsyncThreads : WF_vars(WorkerStep(w))

Spec == Init /\ [][Next]_vars /\ Fairness
--------------------------------------------------------------------------------
(* Properties                                                               *)

InHand == {job[w] : w \in Workers} \ {NoOp}

\* No operation is lost from view or handled twice: what was enqueued is in
\* exactly one of the queue, a worker's hands, the executed and the deleted
\* operations, and no two workers hold the same one (each operation is deleted
\* exactly once, by the worker that popped it or by Cancel).
OpAccounting ==
    /\ Range(issued) = Range(queue) \cup InHand \cup Range(executed) \cup dropped
    /\ Range(queue) \cap (InHand \cup Range(executed) \cup dropped) = {}
    /\ InHand \cap (Range(executed) \cup dropped) = {}
    /\ Range(executed) \cap dropped = {}
    /\ IsInjective(queue) /\ IsInjective(executed)
    /\ \A v, w \in Workers : v # w /\ job[v] = job[w] => job[v] = NoOp

\* Operations leave the queue in the order in which the server enqueued them.
QueueInIssueOrder ==
    queue = SubSeq(issued, Len(issued) - Len(queue) + 1, Len(issued))

\* notify_one per Push is enough: while a worker sleeps, as many workers as there
\* are queued operations are on their way to the queue; and nobody sleeps on a
\* queue that has been shut down.
NoIdleWorker ==
    /\ shutdown => waiting = {}
    /\ waiting # {} =>
         Cardinality({w \in Workers : thread[w] = "pop"} \ waiting) >= Len(queue)

\* A worker thread runs only while the connection it works for is owned by the
\* pool or is being destroyed: ~DatabaseWorker joins it before the connection's
\* statements and MYSQL handle go away.
NoWorkerOutlivesItsConnection ==
    \A w \in Workers :
        thread[w] # "none" => w \in Range(conns) \cup {fresh} \cup Range(doomed)

\* Destroying connections terminates, whatever the workers were doing and although
\* Cancel is called while some of them are asleep: neither Open's failure path nor
\* Close can hang in join().
TeardownTerminates == doomed # <<>> ~> doomed = <<>>

\* An operation handed to an open pool is executed, unless the pool is closed first.
EnqueuedIsExecuted ==
    \A op \in Ops : op \in Range(issued) ~> op \in Range(executed) \/ phase # "open"

\* The pool implements its promise.
Promise == INSTANCE AsyncExecutor WITH
    accepting <- phase \notin {"closing", "closed"},
    pending <- Range(queue) \cup InHand,
    performed <- Range(executed),
    discarded <- dropped

KeepsPromise == Promise!Spec
================================================================================
