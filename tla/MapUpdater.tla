------------------------------- MODULE MapUpdater -------------------------------
(***************************************************************************)
(* One world tick: MapManager hands every base map to the MapUpdater,      *)
(* whose threads update them in parallel; a MapInstanced schedules its     *)
(* instances from the thread that updates it; the world thread waits for   *)
(* all of them, runs the delayed updates alone, and goes on with the       *)
(* sessions.  At the end it unloads the maps and deactivates the updater.  *)
(***************************************************************************)
EXTENDS Integers, Sequences, FiniteSets, Functions

CONSTANTS
    BaseMaps,   \* the map ids
    Instances,  \* the instances and battlegrounds
    Parent,     \* the MapInstanced of each
    Threads,    \* the updater's threads (MapUpdate.Threads, at least one)
    NoMap       \* a null request

Maps == BaseMaps \cup Instances

ASSUME UpdaterAssumption ==
    /\ BaseMaps \cap Instances = {}
    /\ Parent \in [Instances -> BaseMaps]
    /\ Threads # {} /\ IsFiniteSet(Threads)
    /\ NoMap \notin Maps

VARIABLES
    queue, shutdown, waiting,   \* _queue
    pending,    \* pending_requests
    token,      \* _cancelationToken
    phase,      \* where the world thread is
    asleep,     \* the world thread is blocked in wait()
    todo,       \* the base maps that MapManager::Update has not scheduled yet
    i_maps,     \* the base maps that exist
    instanced,  \* the m_InstancedMaps of all of them
    thread,     \* where each WorkerThread is
    request,    \* its local `request`
    children,   \* the instances the MapInstanced it updates has not looked at yet
    updated     \* history: the maps updated in this tick

queueVars == <<queue, shutdown, waiting>>
worldVars == <<phase, asleep, todo>>
mapVars == <<i_maps, instanced>>
workerVars == <<thread, request, children>>
vars == <<queue, shutdown, waiting, pending, token, phase, asleep, todo, i_maps,
          instanced, thread, request, children, updated>>

Queue == INSTANCE ProducerConsumerQueue WITH Values <- Maps, Consumers <- Threads

TypeOK ==
    /\ Queue!QueueTypeOK
    /\ pending \in Nat
    /\ token \in BOOLEAN
    /\ phase \in {"sessions", "schedule", "wait", "delayed", "unloaded", "cancel",
                  "deactivate", "join", "done"}
    /\ asleep \in BOOLEAN
    /\ todo \in SUBSET BaseMaps
    /\ i_maps \in SUBSET BaseMaps
    /\ instanced \in SUBSET Instances
    /\ thread \in [Threads -> {"pop", "popped", "update", "children", "exited"}]
    /\ request \in [Threads -> Maps \cup {NoMap}]
    /\ children \in [Threads -> SUBSET Instances]
    /\ updated \in SUBSET Maps

Init ==
    /\ Queue!QueueInit
    /\ pending = 0
    /\ token = FALSE
    /\ phase = "sessions" /\ asleep = FALSE /\ todo = {}
    /\ i_maps = {} /\ instanced = {}
    /\ thread = [w \in Threads |-> "pop"]
    /\ request = [w \in Threads |-> NoMap]
    /\ children = [w \in Threads |-> {}]
    /\ updated = {}

--------------------------------------------------------------------------------
(* The updater's entry points.                                              *)

\* Mutant: the request is not counted.
ScheduleUncounted(m) ==
    /\ Queue!Push(m)
    /\ UNCHANGED pending

\* ++pending_requests and Push, under _lock.
ScheduleUpdate(m) ==
    /\ pending' = pending + 1
    /\ Queue!Push(m)

\* Mutant: the world thread is not notified.
FinishedSilently ==
    /\ pending' = pending - 1
    /\ UNCHANGED asleep

\* --pending_requests and notify_all, under _lock.
UpdateFinished ==
    /\ pending' = pending - 1
    /\ asleep' = FALSE

\* wait() finds requests pending and blocks until it is notified.
WaitBlocks ==
    /\ ~asleep /\ pending > 0
    /\ asleep' = TRUE

\* Mutant: off by one.
WaitReturnsEarly ==
    /\ ~asleep /\ pending <= 1
    /\ UNCHANGED asleep

\* wait() returns.
WaitReturns ==
    /\ ~asleep /\ pending = 0
    /\ UNCHANGED asleep

--------------------------------------------------------------------------------
(* The world thread: sessions, MapManager::Update, MapManager::UnloadAll.   *)

\* A player is taken to a map nobody has been on.
CreateBaseMap(m) ==
    /\ phase = "sessions"
    /\ m \notin i_maps
    /\ i_maps' = i_maps \cup {m}
    /\ UNCHANGED <<queueVars, pending, token, worldVars, instanced, workerVars, updated>>

\* A player enters an instance, or a battleground starts.
CreateInstance(i) ==
    /\ phase = "sessions"
    /\ Parent[i] \in i_maps /\ i \notin instanced
    /\ instanced' = instanced \cup {i}
    /\ UNCHANGED <<queueVars, pending, token, worldVars, i_maps, workerVars, updated>>

\* The interval has passed: MapManager::Update starts to go through i_maps.
StartUpdate ==
    /\ phase = "sessions"
    /\ phase' = "schedule"
    /\ todo' = i_maps
    /\ updated' = {}
    /\ UNCHANGED <<queueVars, pending, token, asleep, mapVars, workerVars>>

\* The next map of the hash table.
ScheduleBaseMap(m) ==
    /\ phase = "schedule" /\ m \in todo
    /\ ScheduleUpdate(m)
    /\ todo' = todo \ {m}
    /\ UNCHANGED <<token, phase, asleep, mapVars, workerVars, updated>>

AllScheduled ==
    /\ phase = "schedule" /\ todo = {}
    /\ phase' = "wait"
    /\ UNCHANGED <<queueVars, pending, token, asleep, todo, mapVars, workerVars, updated>>

Wait ==
    /\ phase \in {"wait", "deactivate"}
    /\ \/ WaitBlocks /\ UNCHANGED phase
       \/ WaitReturns /\ phase' = IF phase = "wait" THEN "delayed" ELSE "cancel"
    /\ UNCHANGED <<queueVars, pending, token, todo, mapVars, workerVars, updated>>

\* HandleDelayedTeleports and the DelayedUpdate of every map, on the world thread.
DelayedUpdates ==
    /\ phase = "delayed"
    /\ phase' = "sessions"
    /\ UNCHANGED <<queueVars, pending, token, asleep, todo, mapVars, workerVars, updated>>

\* The world loop has ended: UnloadAll destroys the maps...
UnloadAll ==
    /\ phase = "sessions"
    /\ phase' = "unloaded"
    /\ i_maps' = {} /\ instanced' = {}
    /\ UNCHANGED <<queueVars, pending, token, asleep, todo, workerVars, updated>>

\* ... and deactivates the updater: the token first, then wait(), Cancel(), join().
SetToken ==
    /\ phase = "unloaded"
    /\ token' = TRUE
    /\ phase' = "deactivate"
    /\ UNCHANGED <<queueVars, pending, asleep, todo, mapVars, workerVars, updated>>

CancelQueue ==
    /\ phase = "cancel"
    /\ Queue!Cancel
    /\ phase' = "join"
    /\ UNCHANGED <<pending, token, asleep, todo, mapVars, workerVars, updated>>

JoinAll ==
    /\ phase = "join"
    /\ \A w \in Threads : thread[w] = "exited"
    /\ phase' = "done"
    /\ UNCHANGED <<queueVars, pending, token, asleep, todo, mapVars, workerVars, updated>>

--------------------------------------------------------------------------------
(* MapUpdater::WorkerThread                                                 *)

Block(w) ==
    /\ thread[w] = "pop"
    /\ Queue!WaitAndPopBlocks(w)
    /\ UNCHANGED <<pending, token, worldVars, mapVars, workerVars, updated>>

Wake(w) ==
    /\ Queue!SpuriousWakeup(w)
    /\ UNCHANGED <<pending, token, worldVars, mapVars, workerVars, updated>>

Take(w) ==
    /\ thread[w] = "pop"
    /\ Queue!WaitAndPopTakes(w)
    /\ request' = [request EXCEPT ![w] = Head(queue)]
    /\ thread' = [thread EXCEPT ![w] = "popped"]
    /\ UNCHANGED <<pending, token, worldVars, mapVars, children, updated>>

TakeNothing(w) ==
    /\ thread[w] = "pop"
    /\ Queue!WaitAndPopCancelled(w)
    /\ thread' = [thread EXCEPT ![w] = "popped"]
    /\ UNCHANGED <<pending, token, worldVars, mapVars, request, children, updated>>

\* if (_cancelationToken) return;
Exit(w) ==
    /\ thread[w] = "popped" /\ token
    /\ thread' = [thread EXCEPT ![w] = "exited"]
    /\ UNCHANGED <<queueVars, pending, token, worldVars, mapVars, request, children, updated>>

\* request->call(): m_map.Update begins.
Call(w) ==
    /\ thread[w] = "popped" /\ ~token
    /\ thread' = [thread EXCEPT ![w] = "update"]
    /\ UNCHANGED <<queueVars, pending, token, worldVars, mapVars, request, children, updated>>

InstancesOf(m) == {i \in instanced : Parent[i] = m}

\* Map::Update; a MapInstanced then goes through its instances.
Update(w) ==
    /\ thread[w] = "update"
    /\ updated' = updated \cup {request[w]}
    /\ children' = [children EXCEPT ![w] = InstancesOf(request[w])]
    /\ thread' = [thread EXCEPT ![w] = "children"]
    /\ UNCHANGED <<queueVars, pending, token, worldVars, mapVars, request>>

\* CanUnload and no player left: the instance is destroyed.
DestroyInstance(w, i) ==
    /\ thread[w] = "children" /\ i \in children[w]
    /\ instanced' = instanced \ {i}
    /\ children' = [children EXCEPT ![w] = @ \ {i}]
    /\ UNCHANGED <<queueVars, pending, token, worldVars, i_maps, thread, request, updated>>

\* CanUnload, but a player being teleported is still counted: it is passed over.
KeepInstance(w, i) ==
    /\ thread[w] = "children" /\ i \in children[w]
    /\ children' = [children EXCEPT ![w] = @ \ {i}]
    /\ UNCHANGED <<queueVars, pending, token, worldVars, mapVars, thread, request, updated>>

\* Mutant: the iterator is not advanced.
ScheduleWithoutAdvancing(w, i) ==
    /\ thread[w] = "children" /\ i \in children[w]
    /\ i \notin Range(queue)
    /\ ScheduleUpdate(i)
    /\ UNCHANGED <<token, worldVars, mapVars, workerVars, updated>>

\* CanUnload is false: the instance is updated by whichever thread takes it.
ScheduleInstance(w, i) ==
    /\ thread[w] = "children" /\ i \in children[w]
    /\ ScheduleUpdate(i)
    /\ children' = [children EXCEPT ![w] = @ \ {i}]
    /\ UNCHANGED <<token, worldVars, mapVars, thread, request, updated>>

\* Update returns; update_finished(); delete request.
Finish(w) ==
    /\ thread[w] = "children" /\ children[w] = {}
    /\ UpdateFinished
    /\ request' = [request EXCEPT ![w] = NoMap]
    /\ thread' = [thread EXCEPT ![w] = "pop"]
    /\ UNCHANGED <<queueVars, token, phase, todo, mapVars, children, updated>>

--------------------------------------------------------------------------------
Tick ==
    \/ \E m \in BaseMaps : ScheduleBaseMap(m)
    \/ AllScheduled \/ Wait \/ DelayedUpdates

Shutdown == SetToken \/ CancelQueue \/ JoinAll

WorkerStep(w) ==
    \/ Block(w) \/ Take(w) \/ TakeNothing(w) \/ Exit(w) \/ Call(w) \/ Update(w) \/ Finish(w)
    \/ \E i \in Instances :
          DestroyInstance(w, i) \/ KeepInstance(w, i) \/ ScheduleInstance(w, i)

Next ==
    \/ \E m \in BaseMaps : CreateBaseMap(m)
    \/ \E i \in Instances : CreateInstance(i)
    \/ StartUpdate
    \/ Tick
    \/ UnloadAll
    \/ Shutdown
    \/ \E w \in Threads : WorkerStep(w) \/ Wake(w)

\* Threads are scheduled, and map updates return.  Nothing obliges the world thread to
\* begin another tick or to shut down.
Fairness ==
    /\ WF_vars(Tick)
    /\ WF_vars(Shutdown)
    /\ \A w \in Threads : WF_vars(WorkerStep(w))

Spec == Init /\ [][Next]_vars /\ Fairness

--------------------------------------------------------------------------------
(* Properties                                                               *)

Busy == {w \in Threads : request[w] # NoMap}

\* A request refers to a map that exists for as long as it is queued or executed, though
\* instances are destroyed by the updater's own threads; and as deactivate sets the token
\* before it cancels the queue, no thread goes on to call the null request that a
\* cancelled WaitAndPop leaves behind.
NoDanglingRequest ==
    /\ Range(queue) \cup {request[w] : w \in Busy} \subseteq i_maps \cup instanced
    /\ \A w \in Threads : thread[w] = "update" => w \in Busy

\* No map is updated by two threads, or twice in a tick, and the delayed updates come
\* after every base map has been updated.
OneUpdatePerTick ==
    /\ phase = "delayed" => i_maps \subseteq updated
    /\ IsInjective(queue)
    /\ \A v, w \in Busy : v # w => request[v] # request[w]
    /\ Range(queue) \cap {request[w] : w \in Busy} = {}
    /\ \A m \in updated :
          m \notin todo \cup Range(queue)
          /\ \A w \in Busy : request[w] = m => thread[w] = "children"

\* A tick ends, whatever the threads do, and so does the shutdown.
Terminates ==
    /\ phase = "schedule" ~> phase = "sessions"
    /\ phase = "unloaded" ~> phase = "done"

\* A tick is a fork and a join.
Barrier == INSTANCE ForkJoin WITH
    parallel <- phase \in {"schedule", "wait"},
    running <- todo \cup Range(queue) \cup {request[w] : w \in Busy}

ImplementsBarrier == Barrier!Spec
================================================================================
