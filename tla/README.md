# Formal models of UniverseEmu

UniverseEmu is a World of Warcraft 3.3.5 server: an authentication server, a world
server, and the libraries they share (`src/src/common`, `src/src/server`). The modules in
this directory model the parts of it in which threads, transactions and shared state make
the program hard to test. TLC checks them on small instances; TLAPS proves what matters
most for every value of the constants.

Paths below are relative to `src/src/`.

## 1. The system

The world server runs one world thread (`World::Update`, every tick), the threads of the
map updater, the network threads, and, for each of three databases (login, character,
world), the worker threads of an asynchronous connection pool.

| Component | State it keeps | Operations | Interacts with |
|---|---|---|---|
| `ProducerConsumerQueue` (`common/Threading`) | `_queue`, `_shutdown`, a mutex and a condition variable | Push, WaitAndPop, Cancel | shared by all workers of a pool; owned by the map updater |
| `DatabaseWorkerPool`, `DatabaseWorker`, `DatabaseLoader` (`server/database`) | two vectors of connections, the shared queue, one thread and one cancelation token per asynchronous connection | Open, Close, Enqueue and what ends in it, WorkerThread | the loader opens it; the whole server enqueues |
| `MySQLConnection`, `TransactionTask`, `DirectCommitTransaction` | the MYSQL handle, the reconnection attempts, the static `_deadlockLock` | Execute, ExecuteTransaction, `_HandleMySQLErrno` | a MySQL server that fails, deadlocks and goes away |
| `MapManager`, `MapInstanced`, `MapUpdater` (`server/game/Maps`) | the base maps, each one's instances, the request queue, `pending_requests` | Update, schedule_update, wait, update_finished, deactivate | the world thread forks and joins; an updated MapInstanced schedules more |
| `MPSCQueue` (`common/Threading`), in two variants | `_head`, `_tail`, links in the nodes or in the objects | Enqueue by anybody, Dequeue by one thread | packets of a WorldSocket, far spell callbacks of a map |
| `World` sessions (`server/game/World`) | sessions, those to be added, the waiting queue, recent disconnections, the player limit | AddSession_, RemoveSession, AddQueuedPlayer, RemoveQueuedPlayer, UpdateSessions | network threads add, the world thread admits and removes |
| `WorldSession` | the packet queue, the player, time-outs | Update on the world thread and on map threads, LogoutPlayer, KickPlayer | map updater, sockets, asynchronous queries |
| `Socket`, `WorldSocket`, `NetworkThread` (`server/shared/Networking`, `server/game/Server`) | write queue, closing flags, read state, the pointer to the session | AsyncRead, QueuePacket, Update, CloseSocket, DelayedCloseSocket, the login's callbacks | MPSC queue, session, asynchronous queries |
| `QueryCallback`, `QueryHolder`, `AsyncCallbackProcessor` | chains of callbacks, futures | ProcessReadyCallbacks, InvokeIfReady | pool workers fulfil, the world thread polls |
| `BattlegroundQueue`, `BattlegroundMgr`, `Battleground` (`server/game/Battlegrounds`) | queued groups, invitations and their events, the scheduled updates, the battlegrounds with their counts and free slots; each player's queue slots | Join, port, BattlegroundQueueUpdate, RemovePlayerAtLeave, the update of a battleground | players' handlers, logout, login, maps, instance ids |
| Instance ids and saves | bit set of ids, saves with their binds, the reset queue | Generate, Register, FreeInstanceId | created on the world thread, freed by updater threads |
| Trade, dungeon finder, auctions and mail, groups and loot | offers, proposals, votes, time-outs | two or more players act on one record | the world thread and map threads |

What is hard about them: notifications that must reach the right sleeper; a queue that one
worker's destructor cancels for all; statements repeated after a reconnection; requests to
maps that other threads destroy; a lock-free list that is cut in two while a producer is
half way; raw pointers to sessions in a waiting queue and in sockets of another thread;
buffers written in part and closed with a delay; invitations and proposals whose time-outs
race the answers; packets that are processed by two threads in turn and may be put back;
a save and a load that nobody waits for; counts of players kept in step from a dozen
handlers. `PROJECT.json` lists
these as hazards, each at its line, with the properties that would catch it going wrong.
What each component must guarantee is stated with its module below, and with the plan for
those that have none yet.

## 2. Modules

| Module | Models | Abstract specification |
|---|---|---|
| `ProducerConsumerQueue` | the blocking queue, one action per method | |
| `DatabaseWorkerPool` | a pool from its construction to its destruction, with the queue | `AsyncExecutor` |
| `TransactionTask` | an operation against MySQL, statement by statement | `AtomicOperations` |
| `MapUpdater` | the world tick, with the queue | `ForkJoin` |
| `MPSCQueueIntrusive`, `MPSCQueueNonIntrusive` | the lock-free queues, one action per atomic operation | |
| `MPSCQueue` | the template that chooses between them | `MPSCFifo` |
| `SessionAdmission` | who is let into the world, who waits | |
| `WorldSocket` | one connection, from its acceptance to its removal | |
| `WorldSession` | the packets of an account, its logins and logouts, with the character database's queue | |
| `BattlegroundQueue` | the way into battlegrounds and out of them, with the instance ids | |
| `DatabaseWorkerPool_proofs`, `TransactionTask_proofs`, `MapUpdater_proofs`, `MPSCQueue_proofs`, `SessionAdmission_proofs`, `WorldSocket_proofs`, `WorldSession_proofs`, `BattlegroundQueue_proofs` | theorems about the module of that name | |
| `MC*` | constants for TLC | |

A definition named *Mutant* in its comment is a plausible bug of the operation next to it;
nothing refers to it. Each property of a run is violated when one of them is put in the
place of the operation it is a mutant of.

### ProducerConsumerQueue

Every method holds `_queueLock` except while it is blocked in the wait, so it is one
action; `WaitAndPop` is cut at the wait into blocking, taking a value and returning
without one. `waiting` is the set of the sleepers: `notify_one` removes some member,
`Cancel` all of them, and a spurious wake-up may remove any one at any time. The values
are pointers and `Cancel` deletes what is queued. The two users bring their own threads.

### DatabaseWorkerPool

`phase` follows the main thread: `new`, `opening` (`OpenConnections(IDX_ASYNC)`),
`synch`, `open`, `unwinding` (the destructors on a failure path), `failed`, `closing`,
`closed`. A connection and its worker are numbered by the connection's place in the
vector. `ConstructConnection` starts the thread, as the constructor of `MySQLConnection`
does, before the connection is open; `ConnectFails` moves the whole vector and the local
variable to `doomed`, in the order in which they are destroyed; `~DatabaseWorker` is
`SetToken`, `CancelQueue`, `Join`. A thread is at `pop`, `popped` (between `WaitAndPop`
and the test of the token), `execute` (inside `operation->call()`) or `exited`. What the
operation does is left to `TransactionTask`. The histories `issued`, `executed` and
`dropped` only record.

Correctness: every operation is accounted for and handled by one worker (`OpAccounting`);
the queue is in the order of enqueueing (`QueueInIssueOrder`); one notification per Push
is enough (`NoIdleWorker`); a thread never outlives its connection
(`NoWorkerOutlivesItsConnection`); no destructor hangs (`TeardownTerminates`); and the
pool implements `AsyncExecutor` (`KeepsPromise`): an operation given to an open pool is
performed once, and only a closing pool discards. In the refinement `pending` is what is
queued or in hand, and the pool accepts until it is closed.

### TransactionTask

Each connection is driven by one thread: a worker for `Async`, a caller that has locked
the connection for `Sync`. `pc` is the place inside `ExecuteTransaction` (`begin`,
`statement`, `rollback`, `commit`), after it (`returned`), or before `_deadlockLock`.
MySQL is external: a session with or without a transaction (`inTx`, `buffer`) and the
committed statements of each operation (`stored`); autocommit is on outside of a
transaction. `Faults` says what may go wrong: a deadlock, an error of the statement, a
COMMIT without effect, a connection lost before or after the server has executed the
statement, a refused reconnection, and an error of the reconnection that
`_HandleMySQLErrno` does not know. The results of START TRANSACTION, ROLLBACK and COMMIT
are ignored, as they are in the code. `spoiled` is a history: the operations that met a
lost connection or a COMMIT without effect.

Correctness: no transaction is left open behind an operation (`IdleSessionsAreClean`);
everything started is answered or the process has ended (`EveryOperationAnswered`: the
retry lock is given back on every path); and operations are atomic with an outcome that
says what happened (`ImplementsAtomic`). The refinement hides the spoiled operations from
`AtomicOperations`: what a lost connection or a failed COMMIT does, it does to the
operation that meets it and to no other one, on the same connection or on another.

### MapUpdater

`phase` follows the world thread through a tick: `sessions`, `schedule` (the loop over
`i_maps`), `wait`, `delayed` (delayed teleports and updates), and at the end through
`UnloadAll` and `deactivate`. An updater thread takes a request, updates the map, and, for
a `MapInstanced`, goes through its instances one by one: each is scheduled, destroyed, or
passed over. `++pending_requests` and the `Push` are one action, as both happen under
`_lock`. The hash tables are sets: the order of the maps is any.

Correctness: a request's map exists (`NoDanglingRequest`); each map is updated once, by
one thread (`OneUpdatePerTick`); ticks and the shutdown end (`Terminates`); the tick is a
fork and a join (`ImplementsBarrier`), where the maps running are those to be scheduled,
queued or being updated: the world thread goes on only when there are none.

### MPSCQueue, MPSCQueueIntrusive, MPSCQueueNonIntrusive

One action per atomic operation of `Enqueue` (clear the link, exchange the head, link the
predecessor) and of `Dequeue` (the loads of the tail's link and of the head, and in the
intrusive queue the `Enqueue` of the dummy). Addresses are re-used as soon as an object
has been handed out, or a node freed, as an allocator may do. `queued` records the order
of the exchanges, and `result` is what the last successful `Dequeue` has handed out: the
tail itself, or the data of the node behind it. `MPSCQueue` is the alias template: `intrusive` says which of the two
instances is used, the variables of the other one stay null.

Correctness: nobody writes to what has been handed out or freed (`NoWriteAfterRelease`),
and both are FIFO queues out of which everything comes (`ImplementsFifo`).

The modules interleave the operations as if they were sequentially consistent. The code
uses acquire and release: the only data passed through relaxed stores is the cleared link,
published by the exchange that follows it; a node's data are written before its link is
released; and every link is read with acquire after the
release store that wrote it; the exchanges of one location are totally ordered in any
case. That argument is on paper only.

### SessionAdmission

`addSessQueue`, `m_sessions`, `m_QueuedPlayer`, `m_playerLimit` and `m_disconnects` are the
members of `World`; `session` holds the `WorldSession` objects, which are re-used after
their deletion. A session's `socket` is open, closed by the client, or kicked; its `stage`
is the character screen, a character being loaded, or the world; `inQueue` is `m_inQueue`,
`initializing` the query whose callback resets it, `told` the position the client was last
told. `phase` and `todo` follow the two loops of `UpdateSessions` and are `idle` between
two ticks, where commands (kicks, a new player limit) take effect. What one call does to
the sessions and the waiting queue is a chain of operators on a record `w`, in the order of
the code: removing the dead session of a reconnecting account, the queue's reaction,
counting, adding. `UpdateSession` is `WorldSession::Update` with what `UpdateSessions` does
when it returns false. `raised` is a history: the limit went up while the present queue
waited.

Correctness: whoever waits is a live session of `m_sessions`, listed once, and was last
told its present position (`WaitersAreSessions`); nobody waits while there is room (`NoIdleSlot`) and nobody is let in
above the limit (`AdmissionWithinLimit`), except those with the permission to skip the
queue and the accounts within their tolerance; the queue is served in order
(`NoOvertaking`). `NoIdleSlot` excepts a queue during which the limit was raised: nothing
in the code lets anybody in before somebody leaves.

### WorldSocket

The network thread's `net` is the handler it runs: `update` (with `writing` inside
`HandleQueue`'s loop and `callbacks` in `ProcessReadyCallbacks`), `parsing` what was read,
`locked` (holding `_worldSessionLock`), `logging` (holding it by `try_lock`, about to log who
sent a second `CMSG_AUTH_SESSION`), or `closing` (between the two halves of
`CloseSocket`: the exchange of `_closed`, and `OnClose`, which needs the lock). The world
thread is in a kick or a deletion, which close the socket too, or elsewhere. `place` is the
list of the `NetworkThread` that holds the socket, `query` what the login waits for (ban of
the address, account, permissions), `reading` an outstanding `async_read_some`. Packets
are numbered in the order in which they are sent; `bufferQueue` is the `MPSCQueue` of the
socket, taken here at its promise, `writeQueue` the buffers packed from it, each a sequence
of packets, a `Large` one alone. A write takes any part of the front buffer, blocks, or
fails. `wire` is what the operating system has taken.

`SendPacket`'s test of `IsOpen` and its `Enqueue` are one action. The branch of
`AddNewSockets` for a socket that is not open is not reached: before a socket is listed
nothing closes it. `DelayedCloseSocket` is called by the login's callbacks only. `_authed` is
set with the session. The branch for a second `CMSG_AUTH_SESSION` uses the pointer without
the test that all others make; if it is null there (`LogNobody`) the server is gone, and both
threads with it.

Correctness: a session used by the network thread is alive, and where the pointer was tested,
or is used by a callback without the lock, it is not null; after a second `CMSG_AUTH_SESSION`
it is null only once the socket has been closed (`SessionIsThere`, see the findings); the client
receives the packets in order and whole (`StreamIsWhole`); reads do not share the buffer
(`ReadsDoNotOverlap`); a closed socket leaves its thread and its session the world
(`ClosedIsCleanedUp`), unless the server is.

### WorldSession

One account. `session` is the object in `m_sessions`: its player (none, in the world, or
on the way between two maps), the query holder it waits for, `m_playerRecentlyLogout`, the
logout timer, its socket. A tick is `at`: the update of the sessions by the world thread
(`world`), the update by the thread of the player's map (`map`), then what the map does to
the character (`play`). Either update is a loop of `ProcessPacket`, whose filter decides at
the packet in front whether the queue goes on, and an end that puts back the packets that
came too early. Seven kinds of packets stand for the six ways in which status and
processing place of an opcode combine, and for `CMSG_CHAR_ENUM`, which the loop looks for.
`jobs` is the queue of the character database with its `Workers` first operations in hand;
a character is the number of changes made to him, `stored` what the database has of him.
The client and the network thread send in any order a real client has, lose the connection
and come back; the second connection's session replaces the first or is turned away while
that one is loading.

Correctness: packets not yet dealt with are in the order of their arrival, although some
were put back (`ArrivalOrder`); a session has one character at most, only a player waits
to be logged out (`LogoutPlayer` uses `_player` before it tests it, `WorldSession.cpp:524`
and 527; what could take the player away in its loop at 517 is argued in section 6), and a packet sent for one character never reaches the next one (`OneCharacter`);
who logs in again finds the character as it was last saved (`LoadsWhatWasSaved`); no packet
waits for ever, and a session without a socket goes (`NothingIsStuck`).

### BattlegroundQueue

`phase` and `due` follow the world thread: sessions, where players act; the maps (their
instances destroyed by the updater threads, whose ids are freed); the update of each
battleground; the events and the scheduled updates of the queues. `groups` are
`m_QueuedGroups`, premade and normal lists by faction, without brackets; `events` the
`BGQueueRemoveEvent`s, each with what is left of its time, which tells one invitation from
the next like `RemoveInviteTime` does. `slot` is the player's view of each queue
(`invitedToInstance`), `bgId` the battleground he is in or going to, `place` where he is.
A battleground keeps the counts `m_InvitedAlliance` and `m_InvitedHorde`, its players and
its offline queue. The update of a queue is an operator on a record of all that it
changes: running battlegrounds are filled in the order of the list of free slots, then a
premade match or the move of a group to the normal list, then a normal match. A party that
joins has the members that are online, as `Group::CanJoinBattlegroundQueue` sees them.

Two updater threads that free ids at the same time may each lose the other's bit of
`_freeInstanceIds`, and leave either minimum in `_nextInstanceId`: `FreeInstanceId` chooses.
The premade group's wait, the five minutes offline, the start and end of a match and the
two minutes after it are nondeterministic; the time of an invitation is not.

Correctness: the counts are the players invited, coming and inside, and never above the
maximum (`CountsExact`); a group's invitation is known to its members, to an existing
battleground of that queue, and to an event that is still to come (`InvitationsHold`);
an id is not given while its battleground or its map is there (`IdsAreUnique`); a removal
event removes only the invitation it was made for (`TimelyRemoval`); and a battleground
that has ended is deleted (`EndedIsDeleted`), which needs every count to be taken back.

## 3. Runs

| Run | Instance | Shows |
|---|---|---|
| `pool_lifecycle` | 3 workers, 3 operations, any connection may fail, no retry | the safety properties of the pool; no join hangs; the pool implements `AsyncExecutor` |
| `pool_auto_setup` (violation) | 1 worker, 2 operations, one retry | a pool opened after its database was created never executes anything |
| `tx_atomic` | any 2 of 3 transactions (one empty), a direct one and a statement, on 2 asynchronous connections and a synchronous one; every fault, one lost connection | operations that hold their connection implement `AtomicOperations`, sessions are clean, all are answered |
| `tx_lost_connection` (violation) | 1 transaction of two statements, 1 connection that may be lost once | the second statement is committed without the first, and success is reported |
| `map_tick` | 3 threads, 3 base maps, 2 instances | all properties of the tick and of the shutdown |
| `mpsc_queue` | either variant, 2 producers, 5 objects over 3 addresses, 4 nodes | all properties of both queues |
| `session_admission` | a game master and two players, 3 session objects, a limit of 1 or 2 | all properties of the admission |
| `session_tolerance` (violation) | the same, with the time running from 0 to 1 and a tolerance of 1 | the tolerance for a disconnected account never ends |
| `socket_session` | one connection, 6 packets, one of them large, 2 to a buffer | all properties of the connection |
| `socket_rejection` (violation) | one connection, 2 packets | the answer to a rejected client is never written |
| `session_packets` | one account, 7 packets and connections, one worker, one change of the character, a quota of one packet | all properties of the session |
| `battleground_queue` | 2 players of each faction, 2 queues, 2 ids, 1 to 2 players a side, 2 updater threads | all properties of battlegrounds and ids |

Bounds. Three workers make a queue whose notifications can go to the wrong one, and a pool
that fails at its second of three connections, with three operations to be in hand, queued
and still to come. The loader's second attempt is left to `pool_auto_setup` and to the
theorems, which hold with it. Two retries (`MaxTries`) reach the second turn of the retry loop,
where the lock is already held; transactions of two statements have a middle to fail in;
one lost connection is met at any statement, before or after it is executed, and its
reconnection may be refused twice, fail or succeed. `MaxIssued` takes two of the
operations at a time, every pair of them. Two instances on one base map and three threads let a nested request be
finished before its parent and after it. Three addresses for five objects are re-used,
one producer apart. Three accounts are one that skips the queue, one that plays and one that
waits (or two that wait at a limit of one and a game master in the world); session objects
are re-used, so logins and reconnections are not bounded. With six packets, two to a
buffer and one too large for it, a buffer is written in part while the next one is packed,
and a packet waits behind a large one. Seven packets and connections of one account are a
login with its enumeration, a logout, a second login in the same session or the next and a
packet between; a quota of one makes the loop end between any two. Two requests to join of
whole parties and one of a single player, or two players each in both queues, make a match
that one accepts and another declines, a second invitation to a running battleground, two
invitations at a time and two battlegrounds destroyed by two threads in one update.

The bounds of `TransactionTask` are `MaxTries` (the minute of
`DEADLOCK_MAX_RETRY_TIME_MS`; the time may also be up after any earlier turn),
`MaxLosses`, `DirectRetries` and `ReconnectAttempts` (5 in the code, smaller in the runs);
`MaxIssued`; those of the queues `MaxEnqueues`; that of `SessionAdmission` `MaxTime`, 0 in
`session_admission`, whose properties except an account within its tolerance; that of
`WorldSocket` `MaxPackets`; those of `WorldSession` `MaxSent`, `MaxProgress` and the small
`MaxPerUpdate` and `ExpireUpdates`; those of `BattlegroundQueue` `Scenarios` (the requests
to join of one behaviour), `Leavers`, `MaxId` (a battleground that would need another id
is not created) and `AcceptTime`. `session_admission` uses the symmetry of the session
objects and of the two players; it checks no liveness.

`CHECK_DEADLOCK FALSE` is given where the system may stop: a closed pool, all operations
answered or the process aborted, a deactivated updater, a node queue with nothing to do
(the consumer of the intrusive queue always has a step), a socket removed from its thread
whose session is deleted. Elsewhere (`session_packets`, `battleground_queue`, the two
admission runs) deadlock is checked: the world always goes on.

Fairness. Every thread is scheduled (`WF` per worker), destructors and loops of the main
thread go on, map updates and database calls return, a started Enqueue is finished and the
consumer polls, as the owners of the queues do in every update. Nothing makes the server
fail, a connection break, or a player act; nobody has to start another tick, or to shut
down. Of a socket, the handlers of the network thread end, what was read comes to an end
(strong fairness of `EndOfData`, as a packet may be followed by another one, but a read is
finite), its timer fires, and the world thread adds, updates and goes on. No query has to
be answered and no client has to act. In `WorldSession` the ticks and the first operation
of the database go on, so that a load is answered; nothing else has to happen. In
`BattlegroundQueue` the updates of the world go on (`Begin`, `Proceed`), the battlegrounds'
own interval and the two minutes after the end of one pass (strong fairness, as other
updates come between), and a player who is teleported arrives or is logged out; nobody has
to accept, to enter or to leave. Weak fairness of a worker is enough although a mutex is contended: a method holds it
for one step, and the retry lock is needed by one task at a time until its tries are used up.

## 4. Proofs

`DatabaseWorkerPool_proofs`, from `PoolAssumption` alone (1 to 32 workers, any set of
operations that does not contain the null one):

* `TypeCorrect`: `Spec => []TypeOK`. Inductive with `JobInHand` (a worker holds an
  operation exactly between taking it and the end of the loop's body) and
  `NewIsUnopened` (a new pool has not been opened, so that the loader opens at most
  twice).
* `WorkersAreOwned`: `Spec => []NoWorkerOutlivesItsConnection`. Needs `Lifecycle`: the
  local connection exists only while opening, destructors run only while unwinding or
  closing, the vector is numbered from 1. Without it, `ConnectFails` could overwrite a list
  of connections still to be joined.
* `OperationsAccounted`: `Spec => []OpAccounting`. Uses both of the above: the number
  of a new worker is free, so its thread does not run, so it holds nothing to be lost when
  its local variable is initialised.
* `FirstInFirstOut`: `Spec => []QueueInIssueOrder`, from `QueueIsSuffix`, the same fact
  element by element.
* `OneWorkerKeepsOrder`: `Spec => []SingleWorkerOrder`: with one worker operations
  complete in the order of their enqueueing. `Progress` says where the worker stands
  between what is executed and what is queued; it holds of a queue that is not cancelled
  and a worker that has not left, and `JoinAfterCancel` is what keeps a later worker from
  starting behind a gap.
* `NobodySleepsOnWork`: `Spec => []NoIdleWorker`. Inductive as `SleepInv`: while anybody
  sleeps, as many workers look at the queue as it has operations. `notify_one` wakes one
  for each `Push`; a worker that takes an operation stops looking, and the queue is shorter.
* `PromiseIsKept`: every step is a step of `AsyncExecutor` or leaves its variables alone.
  `AcceptInv` says that only an open pool has been given anything, and that a worker is told
  to leave only when its connection is to be destroyed; so an operation is discarded only by
  a pool that closes.

`TransactionTask_proofs`, from `TransactionAssumption`: any operations, connections, tries,
reconnections and lost connections. `TxInv` says, place by place, what a thread's session
has open (`Session`) and what of its operation is stored (`Effect`): the buffer of a
transaction is exactly what the attempt has executed so far, and nothing is stored before
the operation returns without an error. A lost connection spoils its operation in the same
step, so that nothing is claimed of the rest. From it `TransactionTypes`,
`SessionsAreLeftClean` (`[]IdleSessionsAreClean`) and `OperationsAreAtomic`
(`ImplementsAtomic`, which has no fairness, in full).

`MapUpdater_proofs`, from `UpdaterAssumption`: any maps, instances and threads. `TickInv`
says where every map of a tick is: still to be scheduled, queued, in a thread's hands,
updated, or, for an instance, among the children its parent's thread has not looked at; in
one place only, while `pending_requests` counts the queue and the hands (`CountInv`).
Nested requests are in order because an instance has its turn after its `MapInstanced`
(`ChildrenInv`). From it `UpdaterTypes`, `RequestsDoNotDangle`, `EveryMapOnce` and, step by
step, `TickIsABarrier`.

`MPSCQueue_proofs`, from `QueueAssumption`: any producers, addresses and enqueues.
`ListInvariant` exhibits the list that the queue is, a sequence of nodes from `_tail` to
`_head` each of which is linked to the next, or will be by the one producer that exchanged
the head for it. The list is quantified (`\E c`), not a variable of the model; each atomic
operation appends to it, takes its first element or leaves it alone. The intrusive queue
also says where the dummy is in it. From it `QueueTypes`, `NobodyWritesAfterRelease`
and `QueueIsFifo`: what is handed out, `_tail` or the data of the node behind it, is the
oldest of those enqueued, because it is the first of the list (`ItemDelivery`).

`SessionAdmission_proofs`, from `AdmissionAssumption`: any accounts, finitely many session
objects, any limits and tolerance, and any time. `LeavesQueue` says once what
`RemoveQueuedPlayer` makes of the queue and of the sessions in it: who stays keeps his order
and is told his place, at most the head of the others is let in, and when. `LeavesTwice`
puts two removals together, which is what a dead session gets; `NobodyElse` is why the
second lets nobody else in after the first has passed the slot on (`SlotIsPassedOn`).
`AdmissionInv` adds to the types that the sessions handed over are new and nobody's
(`AddInv`), that `m_sessions` has each under its own account (`ListInv`), and that the
code's count keeps to the limit (`CountInv`); without `AddInv` a newcomer could already
wait. `Rest` is what holds in the middle of a step, when the account's old session is gone
and the new one is not there. From it `AdmissionTypes`, `WaitersAreListed`, `NoSlotIsIdle`
(the code's count is the number of those that do not wait, `ActiveCount`) and the two
action properties `LimitIsKept` and `QueueIsFair`: only `UpdateSession` and `AddSession_`
let anybody in, and a newcomer that may not pass finds the queue empty because of `CountInv`.

`WorldSocket_proofs`, from `SocketAssumption`. `SocketInv` leaves the buffers and queues
out and says who closed the socket, whether that has reached the pointer to the session, and
what the query under way implies of the session and of the reads. From it
`SessionOutlivesItsUse` (no session is used that has been deleted; the pointer that is not
tested is null only after the socket has been closed) and `OneReadAtATime`. `QueueInvariant` is about the rest, on top of
`SocketInv`: `WritingInv` (who writes has something to write, and is the only one),
`LoginSends` (a client without a session has been sent two packets at most, so that the
bound on packets is not met before there is one) and `StreamInv`: the wire, the buffers of
`_writeQueue` and `_bufferQueue`, one after the other, are what was sent. The loop of
`WorldSocket::Update` that packs packets into buffers is a fold; that it drops and reorders
nothing (`BuffersHold`) is shown by induction over the packets, and what a partial write
leaves by the lemmas on `FlattenSeq`. From it `TypeCorrect` and `ClientGetsTheStream`
(`[]StreamIsWhole`), for any packets, any of which may be larger than any send buffer.

`WorldSession_proofs`, from `SessionAssumption`: any packets, connections, jobs and quota.
`SessionInv` is the conversation between a client and its session, in four turns
(`Choosing`, `Selecting`, `LoggingIn`, `Playing`), each saying which packets may be in the
queue, in which order, and for which login; it is stated of the record that the calls of one
`Update` hand on, so that each call keeps it. From it `SessionTypes`, `PacketsInOrder`
(`requeue \o recvQueue` is in the order of sending) and `OneCharacterAtATime`. `SavedIsFound`
(`[]LoadsWhatWasSaved`) assumes `Workers = 1`, the default of
`CharacterDatabase.WorkerThreads` (`worldserver.conf.dist:138-148`), and adds `SaveOf`: the
load that is awaited comes after every save in the queue. With two workers it is false (see
the findings).

`BattlegroundQueue_proofs`, from `BattlegroundAssumption`: any finite sets of players and
queues (two queues at most, as in the code), any parties that wish to join, any sizes of a
side, any time to accept, any number of updater threads and ids. `InvariantHolds` proves the
inductive `BattlegroundInv`, whose parts are

* `QueuesInv`: a player is in one group of a queue at most, groups are of one faction, and
  each member of an invited group has his event, with the time that the group has left
  (`Timed`); a queue is scheduled once;
* `PlayersInv`: what groups, battlegrounds, slots, places and `bgInstanceID`s say of each
  other agrees (`Agree`). Who is in a group is online and has its invitation in his slot
  (`Known`); a battleground counts each faction's invited, coming and present players, at
  most `MaxPlayers` (`CountsOk`); who is coming or inside has its slot and is in no group of
  its queue, so that he is counted once, and who is in the list of players is inside or
  offline (`PlacesOk`);
* `SlotsInv`: the lists of free slots name battlegrounds of their queue, once; who waits to
  be removed is an offline player of his battleground, once;
* `IdsInv`: no id that may come next is that of a battleground, or of a map to be destroyed;
* `WorldInv`: the rest of the types.

`Agree` speaks of the invitation of each player and not of lists of groups; one lemma for
each thing that can happen to one player (he is invited, accepts, enters, declines, runs out
of time, leaves, logs out) says that it is kept, and the lemmas about `Without`, `Moved`,
`Invite` and `AddGroup` say what those do to everybody's invitation. What a pool takes never
exceeds what was free (`PoolsFit`), whence the maximum. The update of a queue, the removal
of everybody, the events of an update and the logout's queues are folds over sequences and
sets, and each is given by one lemma of the form: what holds of the state before the first
step and survives a step, holds after the last. `ExecuteRemove` takes everybody whose event
has come out of his group, so that `Timed` is kept when the clock moves. From the invariant
`TypeCorrect`, `CountsStayExact`, `InvitationsAreKept`, `IdsStayUnique`, which holds although
two updater threads may lose each other's bits, and `RemovalIsTimely`, a property of steps.

Both modules need induction over data: that something holds of a fold over any number of
elements. The theorems of the library for that take an operator, which these provers do not
instantiate; `NatSetInduction` says it of a set of numbers instead, and follows from
`WFMin`, the least element of a well-founded order. A fold's good values are then a set or a
function of the number of elements, as in `\A n \in Nat : n \in S`.

The inductive invariants also pass as invariants of TLC on the run of their module, except
`ListInvariant`, which quantifies over all sequences of nodes.

Only model-checked: liveness (`TeardownTerminates`, `EveryOperationAnswered`, `Terminates`,
`ClosedIsCleanedUp`, `NothingIsStuck`, `EndedIsDeleted`) and the fairness that
`KeepsPromise`, `ImplementsFifo` and `ImplementsBarrier` ask for beyond the steps, which are
beyond this prover. And the properties that are violated, of course. Every invariant and
every action property of a passing run is a theorem.

## 5. Findings

* `pool_auto_setup`. `DatabaseLoader` opens a pool a second time when it had to create
  the database (`DatabaseLoader.cpp:62-63`). The failed first attempt has destroyed a
  connection, whose `~DatabaseWorker` cancelled the queue of the pool (`DatabaseWorker.cpp:34`),
  and nothing resets `_shutdown`. The workers of the second attempt leave at once:
  asynchronous operations of that process are queued and never executed.
* `tx_lost_connection`. When the connection is lost inside a transaction, the server
  rolls it back; `_HandleMySQLErrno` reconnects with autocommit, and `Execute` runs the
  statement again and goes on with the rest, each of which is committed on its own, while
  what came before is lost and success is reported (`MySQLConnection.cpp:251`).
* `session_tolerance`. `HasRecentlyDisconnected` computes the time of the disconnection
  minus the present time (`World.cpp:395`), which is never positive and so always below
  the tolerance: an account that has disconnected once passes the queue whenever it comes
  back, and `m_disconnects` never shrinks. `worldserver.conf.dist:404` says "Tolerance (in
  seconds)".
* `socket_rejection`. `DelayedCloseSocket` is to close "after write buffer becomes empty"
  (`Socket.h:129`) but looks at `_writeQueue` only (`Socket.h:135`). The answer that
  `SendAuthResponseError` has just sent is still in `_bufferQueue`; the socket is closed at
  once and the next `Update` writes nothing. With both queues looked at, the property holds.

One more defect is in the model but is the subject of no run. The network thread takes
`_worldSessionLock` "just to safely log offending user" (`WorldSocket.cpp:335`) who sends a
second `CMSG_AUTH_SESSION`, and calls `_worldSession->GetPlayerInfo()` (337) without a test.
The lock keeps the session from being deleted meanwhile, but a kick or a replacement just
before it has cleared the pointer in `OnClose`, while what was read is still being parsed: the
null pointer is dereferenced (`LogNobody`). TLC reaches it from a login in a few steps
(`world # "gone"` is not an invariant); `SessionIsThere` says that it takes a socket closed
meanwhile.

More facts came out of the modelling and have no property. A client that leaves while its
permissions are loaded leaves behind a `WorldSession` that nobody adds, deletes or marks
offline (`WorldSocket.cpp:621`): the callback that would hand it over no longer runs.
A player who reconnects while his old session is active may lose the slot to the head of
the queue, as the old session is removed before the new one is counted (`World.cpp:345`).
A raised limit lets nobody in before the next departure, and then one player. Closing a pool discards what
is queued (only a closing pool does, by `KeepsPromise`), although the saves of
`KickAll` at shutdown (`worldserver/Main.cpp:376`) are asynchronous. And a reconnection
that fails with an error outside of the switch leaves the connection in service without a
handle (`ReconnectGivesUp`) instead of stopping the server (`MySQLConnection.cpp:575-576`).

Of the packets: the comment at `WorldSession.cpp:300` says packets are not processed once
the socket is closed, but the loop (310) tests only that there is one; a closed socket is
dropped at the end of the update. The comment at 325 says packets are put back at the bottom
of the queue; `readd` puts them in front (`LockedQueue.h:59`), which is what keeps their
order. With more than one worker of the character database (`worldserver.conf.dist:140`,
default 1) a load may overtake the save before it: `LoadsWhatWasSaved` holds of the default
only, where `SavedIsFound` proves it; `OneWorkerKeepsOrder` is why one worker is enough.

Of the battlegrounds: a logout removes a player from his queues without scheduling their
update (`WorldSession.cpp:576`), although `BattlegroundQueue.cpp:929` says an update
follows every removal; the next event of the queue makes up for it. The id of a
battleground nobody entered is never free again, as only the destruction of its map frees it
(`MapInstanced.cpp:303`). The test for offline members in
`Group::CanJoinBattlegroundQueue` (`Group.cpp:2341`) never fires, as the list it walks has
none. `BattlegroundQueue.cpp:802` speaks of 80 seconds to accept; `INVITE_ACCEPT_WAIT_TIME`
is 60 (`Battleground.h:154`). `BattlegroundMgr::Update` counts the scheduled updates with a
`uint8` (`BattlegroundMgr.cpp:130`) and would never end with 256 of them.
`ScheduleQueueUpdate` "must be atomic, @todo add mutex" (`BattlegroundMgr.cpp:886`): with
more than one updater thread it need not be.

## 6. Not modelled, and the plan

Left out of the modules above: locking of synchronous connections and `KeepAlive`; results
and parameters of queries; `MapUpdate.Threads = 0` (the world thread then updates the maps
itself); base maps created by updater threads, where `CreateBaseMap` looks before it locks
and not again after; what a map does in `Update`; the destructors of the MPSC queues.

Not worth a model: input and output (configuration, logging, metrics, the database
updater), geometry, cryptography, and the game's content (entities, spells, auras, AI,
scripts, bots), where there is much data and little control. They are most of the source:
the modules cover a small share of its lines, and what decides who runs when.

Of `World`, the sessions' time-outs, the shutdown and the configuration beyond the player
limit are left out. `session_admission` has limits of one and two, without 0 (no limit),
where nobody waits. Of the sockets, `AsyncAcceptor`, the choice of a thread, the
authentication server's `AuthSession` and builds with IOCP are left out. Of `WorldSession`,
AntiDOS, warden, time synchronisation, the waiting queue (which is `SessionAdmission`) and
the handlers that do not change the life of a session. `HandleMoveWorldportAck` has a branch
for an invalid destination (`MovementHandler.cpp:63`), which calls `LogoutPlayer(false)`; from
the loop of `LogoutPlayer` itself (`WorldSession.cpp:517`) it would leave `_player` null for
line 524. It is left out because it cannot be taken: `m_teleport_dest` and the far teleport's
flag are set by `Player::TeleportTo` only, after the same test of the same destination
(`Player.cpp:1758`), whose outcome depends on the coordinates and on tables that are loaded at
the start. A player whose way home fails too, after the new map has refused him
(`TeleportTo`'s result is ignored at `MovementHandler.cpp:92` and 110), is left out as well: he would be
on no map and on the way to none. Of battlegrounds, rated arenas,
random battlegrounds, bots, the balancing InvitationTypes (1 and 2), the deserter's mark,
failed teleports, the brackets (a queue is one bracket of one type), and players who leave
from inside a map's update; the way home from a battleground takes no time.

Of the chains of asynchronous queries only the two logins are modelled, with the sessions
they belong to; of the instance ids those of battlegrounds.

To be considered next, in this order: `DungeonFinder` (proposals whose time-outs race the
answers), `InstanceSaves` (binds, resets, the queue of expiries), the arenas of
`BattlegroundQueue`. `Trade` was considered and left: both sides act in the world thread,
one after the other.

## 7. Running

`tlc -config pool_lifecycle.cfg MCDatabaseWorkerPool` and likewise for the other runs
(`PROJECT.json` names each run's module); `tlapm DatabaseWorkerPool_proofs.tla` and likewise
for the other modules of theorems, each of which takes from some seconds to four minutes, but
for `BattlegroundQueue_proofs`, which takes about a quarter of an hour.
