--------------------------- MODULE MapUpdater_proofs ---------------------------
(***************************************************************************)
(* Proofs about the world tick, for any maps, any instances and any number *)
(* of updater threads: what is updated exists, is updated once, and the    *)
(* world thread goes on when nothing is being updated any more.            *)
(*                                                                         *)
(* The argument needs what each map of the tick is waiting for: to be      *)
(* scheduled, to be taken, to be done, or, for an instance, to be looked   *)
(* at by the thread that updates its MapInstanced.                         *)
(***************************************************************************)
EXTENDS MapUpdater, FiniteSetTheorems, TLAPS


--------------------------------------------------------------------------------
(* Sequences as the sets of their elements. *)

\* The empty sequence has no elements.
LEMMA RangeEmpty == Range(<<>>) = {}
BY DEF Range

\* Append adds one element.
LEMMA RangeAppend ==
    ASSUME NEW S, NEW s \in Seq(S), NEW x \in S
    PROVE  Range(Append(s, x)) = Range(s) \cup {x}
<1> DEFINE t == Append(s, x)
<1>1. /\ t \in Seq(S) /\ Len(t) = Len(s) + 1 /\ t[Len(s) + 1] = x
      /\ \A i \in 1..Len(s) : t[i] = s[i]
      /\ DOMAIN t = 1..Len(s) + 1 /\ DOMAIN s = 1..Len(s) /\ Len(s) \in Nat
  OBVIOUS
<1> HIDE DEF t
<1>2. ASSUME NEW i \in DOMAIN t PROVE t[i] \in Range(s) \cup {x}
  BY <1>1 DEF Range
<1>3. ASSUME NEW i \in DOMAIN s PROVE \E j \in DOMAIN t : t[j] = s[i]
  BY <1>1
<1>4. \E j \in DOMAIN t : t[j] = x
  BY <1>1
<1>5. Range(t) = Range(s) \cup {x}
  BY <1>2, <1>3, <1>4 DEF Range
<1> QED
  BY <1>5 DEF t

\* A sequence that is not empty consists of its head and its tail.
LEMMA RangeHeadTail ==
    ASSUME NEW S, NEW s \in Seq(S), s # <<>>
    PROVE  /\ Head(s) \in S /\ Tail(s) \in Seq(S)
           /\ Range(s) = {Head(s)} \cup Range(Tail(s))
<1> DEFINE t == Tail(s)
<1>1. /\ t \in Seq(S) /\ Len(t) = Len(s) - 1 /\ Head(s) = s[1]
      /\ \A i \in 1..Len(s) - 1 : t[i] = s[i + 1]
      /\ DOMAIN t = 1..Len(s) - 1 /\ DOMAIN s = 1..Len(s) /\ Len(s) \in Nat /\ Len(s) >= 1
  OBVIOUS
<1>2. s[1] \in S
  BY <1>1
<1> HIDE DEF t
<1>3. ASSUME NEW i \in DOMAIN s PROVE s[i] \in {s[1]} \cup Range(t)
  <2>1. CASE i = 1
    BY <2>1
  <2>2. CASE i # 1
    <3>1. i - 1 \in DOMAIN t /\ t[i - 1] = s[i]
      BY <1>1, <2>2
    <3> QED
      BY <3>1 DEF Range
  <2> QED
    BY <2>1, <2>2
<1>4. ASSUME NEW i \in DOMAIN t PROVE \E j \in DOMAIN s : s[j] = t[i]
  BY <1>1
<1>5. 1 \in DOMAIN s
  BY <1>1
<1>6. Range(s) = {s[1]} \cup Range(t)
  BY <1>3, <1>4, <1>5 DEF Range
<1> QED
  BY <1>1, <1>2, <1>6 DEF t

\* Appending a new element keeps the elements distinct.
LEMMA InjectiveAppend ==
    ASSUME NEW S, NEW s \in Seq(S), NEW x \in S, IsInjective(s), x \notin Range(s)
    PROVE  IsInjective(Append(s, x))
BY DEF Range, IsInjective

\* So does taking the head away, and it does not occur in the tail.
LEMMA InjectiveTail ==
    ASSUME NEW S, NEW s \in Seq(S), s # <<>>, IsInjective(s)
    PROVE  IsInjective(Tail(s)) /\ Head(s) \notin Range(Tail(s))
BY DEF Range, IsInjective

\* The empty sequence repeats nothing.
LEMMA InjectiveEmpty == IsInjective(<<>>)
BY DEF IsInjective

--------------------------------------------------------------------------------
(* The invariant. *)

Requests == {request[w] : w \in Busy}

\* pending_requests counts what is queued and what is being updated.
CountInv == pending = Len(queue) + Cardinality(Busy)

\* What the world thread's place says of the others.
PhaseInv ==
    /\ token <=> phase \in {"deactivate", "cancel", "join", "done"}
    /\ shutdown => token
    /\ phase # "schedule" => todo = {}
    /\ phase \notin {"schedule", "wait"} => queue = <<>> /\ Busy = {}

\* What a thread's place says of its request.
ThreadInv ==
    \A w \in Threads :
        /\ thread[w] \in {"update", "children"} => w \in Busy
        /\ thread[w] \in {"pop", "exited"} => w \notin Busy
        /\ thread[w] = "popped" => w \in Busy \/ shutdown
        /\ thread[w] = "children" => request[w] \in updated
        /\ children[w] # {} => thread[w] = "children"

\* A map waits in one place only and is not updated again; every base map is somewhere.
WorkInv ==
    /\ IsInjective(queue)
    /\ \A v, w \in Busy : v # w => request[v] # request[w]
    /\ Range(queue) \cap Requests = {}
    /\ todo \cap (Range(queue) \cup Requests) = {}
    /\ updated \cap (todo \cup Range(queue)) = {}
    /\ \A w \in Busy : request[w] \in updated => thread[w] = "children"
    /\ phase \in {"schedule", "wait", "delayed"} =>
           i_maps \subseteq todo \cup Range(queue) \cup Requests \cup updated

\* What waits exists.
ExistInv ==
    /\ Range(queue) \cup Requests \subseteq i_maps \cup instanced
    /\ todo \subseteq i_maps

\* The instances a thread has not looked at yet are its own map's and nobody else's
\* business; an instance has its turn when its MapInstanced has had its own.
ChildrenInv ==
    /\ \A w \in Threads : \A i \in children[w] :
           /\ i \in instanced /\ Parent[i] = request[w]
           /\ i \notin Range(queue) \cup Requests \cup updated
    /\ \A i \in Instances :
           i \in Range(queue) \cup Requests \cup updated => Parent[i] \in updated

TickInv ==
    TypeOK /\ CountInv /\ PhaseInv /\ ThreadInv /\ WorkInv /\ ExistInv /\ ChildrenInv

--------------------------------------------------------------------------------
(* The threads that have a request                                          *)

\* They can be counted.
LEMMA BusyFinite == IsFiniteSet(Busy) /\ Cardinality(Busy) \in Nat
<1>1. Busy \subseteq Threads
  BY DEF Busy
<1> QED
  BY <1>1, UpdaterAssumption, FS_Subset, FS_CardinalityType

\* An idle thread takes a request.
LEMMA OneTakes ==
    ASSUME TypeOK, NEW w \in Threads, w \notin Busy, NEW m \in Maps,
           request' = [request EXCEPT ![w] = m]
    PROVE  /\ Busy' = Busy \cup {w} /\ Requests' = Requests \cup {m}
           /\ Cardinality(Busy') = Cardinality(Busy) + 1
<1>1. request'[w] = m /\ \A v \in Threads : v # w => request'[v] = request[v]
  BY DEF TypeOK
<1>2. Busy' = Busy \cup {w}
  BY <1>1, UpdaterAssumption DEF Busy
<1>3. Requests' = Requests \cup {m}
  BY <1>1, <1>2 DEF Requests, Busy
<1>4. Cardinality(Busy \cup {w}) = Cardinality(Busy) + 1
  BY BusyFinite, FS_AddElement
<1> QED
  BY <1>2, <1>3, <1>4

\* A thread is done with a request that is nobody else's.
LEMMA OneFinishes ==
    ASSUME TypeOK, NEW w \in Threads, w \in Busy,
           \A v \in Busy : v # w => request[v] # request[w],
           request' = [request EXCEPT ![w] = NoMap]
    PROVE  /\ Busy' = Busy \ {w} /\ Requests' = Requests \ {request[w]}
           /\ Cardinality(Busy') = Cardinality(Busy) - 1
<1>1. request'[w] = NoMap /\ \A v \in Threads : v # w => request'[v] = request[v]
  BY DEF TypeOK
<1>2. Busy' = Busy \ {w}
  BY <1>1 DEF Busy
<1>3. Requests' = Requests \ {request[w]}
  BY <1>1, <1>2 DEF Requests, Busy
<1>4. Cardinality(Busy \ {w}) = Cardinality(Busy) - 1
  BY BusyFinite, FS_RemoveElement
<1> QED
  BY <1>2, <1>3, <1>4

--------------------------------------------------------------------------------
(* The invariant                                                            *)

\* A new updater has nothing to do.
LEMMA TickInit == Init => TickInv
<1> SUFFICES ASSUME Init PROVE TickInv
  OBVIOUS
<1>1. Busy = {} /\ Requests = {} /\ queue = <<>> /\ Range(queue) = {} /\ Len(queue) = 0
  BY RangeEmpty DEF Init, Busy, Requests, Queue!QueueInit
<1>2. TypeOK
  <2>1. Queue!QueueTypeOK
    <3>1. queue = <<>> /\ shutdown = FALSE /\ waiting = {}
      BY DEF Init, Queue!QueueInit
    <3>2. <<>> \in Seq(Maps)
      OBVIOUS
    <3> QED
      BY <3>1, <3>2 DEF Queue!QueueTypeOK
  <2>2. /\ thread \in [Threads -> {"pop", "popped", "update", "children", "exited"}]
        /\ request \in [Threads -> Maps \cup {NoMap}]
        /\ children \in [Threads -> SUBSET Instances]
    BY DEF Init
  <2> QED
    BY <2>1, <2>2 DEF Init, TypeOK
<1>3. CountInv
  <2>1. Cardinality(Busy) = 0
    BY <1>1, FS_EmptySet
  <2> QED
    BY <1>1, <2>1 DEF Init, CountInv
<1>4. PhaseInv /\ ThreadInv
  BY <1>1 DEF Init, PhaseInv, ThreadInv, Queue!QueueInit
<1>5. WorkInv /\ ExistInv /\ ChildrenInv
  BY <1>1, InjectiveEmpty DEF Init, WorkInv, ExistInv, ChildrenInv
<1> QED
  BY <1>2, <1>3, <1>4, <1>5 DEF TickInv

\* The types are kept, when the count of requests does not go below zero.
LEMMA TypeStep == TypeOK /\ ThreadInv /\ [Next]_vars /\ pending' \in Nat => TypeOK'
<1> SUFFICES ASSUME TypeOK, ThreadInv, [Next]_vars, pending' \in Nat PROVE TypeOK'
  OBVIOUS
<1> USE UpdaterAssumption DEF TypeOK, Queue!QueueTypeOK, queueVars, worldVars, mapVars, workerVars
<1>1. ASSUME NEW m \in Maps, Queue!Push(m)
      PROVE  queue' \in Seq(Maps) /\ shutdown' \in BOOLEAN /\ waiting' \in SUBSET Threads
  BY <1>1 DEF Queue!Push, Queue!NotifyOne
<1>2. ASSUME NEW m \in BaseMaps, CreateBaseMap(m) \/ ScheduleBaseMap(m) PROVE TypeOK'
  <2>1. CASE CreateBaseMap(m)
    BY <2>1 DEF CreateBaseMap
  <2>2. CASE ScheduleBaseMap(m)
    BY <1>1, <2>2 DEF ScheduleBaseMap, ScheduleUpdate, Maps
  <2> QED
    BY <1>2, <2>1, <2>2
<1>3. ASSUME NEW i \in Instances, CreateInstance(i) PROVE TypeOK'
  BY <1>3 DEF CreateInstance
<1>4. CASE StartUpdate \/ AllScheduled \/ DelayedUpdates \/ UnloadAll \/ SetToken \/ JoinAll
  BY <1>4 DEF StartUpdate, AllScheduled, DelayedUpdates, UnloadAll, SetToken, JoinAll
<1>5. CASE Wait
  BY <1>5 DEF Wait, WaitBlocks, WaitReturns
<1>6. CASE CancelQueue
  BY <1>6 DEF CancelQueue, Queue!Cancel
<1>7. ASSUME NEW w \in Threads, Block(w) \/ Wake(w) PROVE TypeOK'
  BY <1>7 DEF Block, Wake, Queue!WaitAndPopBlocks, Queue!SpuriousWakeup
<1>8. ASSUME NEW w \in Threads, Take(w) PROVE TypeOK'
  <2>1. Head(queue) \in Maps /\ Tail(queue) \in Seq(Maps)
    BY <1>8, RangeHeadTail DEF Take, Queue!WaitAndPopTakes
  <2> QED
    BY <1>8, <2>1 DEF Take, Queue!WaitAndPopTakes
<1>9. ASSUME NEW w \in Threads, TakeNothing(w) \/ Exit(w) \/ Call(w) PROVE TypeOK'
  BY <1>9 DEF TakeNothing, Exit, Call, Queue!WaitAndPopCancelled
<1>10. ASSUME NEW w \in Threads, Finish(w) PROVE TypeOK'
  BY <1>10 DEF Finish, UpdateFinished
<1>11. ASSUME NEW w \in Threads, Update(w) PROVE TypeOK'
  <2>1. request[w] \in Maps
    BY <1>11 DEF Update, ThreadInv, Busy
  <2> QED
    BY <1>11, <2>1 DEF Update, InstancesOf
<1>12. ASSUME NEW w \in Threads, NEW i \in Instances, DestroyInstance(w, i) \/ KeepInstance(w, i)
       PROVE  TypeOK'
  BY <1>12 DEF DestroyInstance, KeepInstance
<1>13. ASSUME NEW w \in Threads, NEW i \in Instances, ScheduleInstance(w, i) PROVE TypeOK'
  BY <1>1, <1>13 DEF ScheduleInstance, ScheduleUpdate, Maps
<1>14. CASE UNCHANGED vars
  BY <1>14 DEF vars
<1> QED
  BY <1>2, <1>3, <1>4, <1>5, <1>6, <1>7, <1>8, <1>9, <1>10, <1>11, <1>12, <1>13, <1>14
     DEF Next, Tick, Shutdown, WorkerStep

\* A map is put in the queue that is neither in it nor taken.
LEMMA OnePushed ==
    ASSUME TypeOK, NEW m \in Maps, Queue!Push(m), UNCHANGED request
    PROVE  /\ Range(queue') = Range(queue) \cup {m} /\ Len(queue') = Len(queue) + 1
           /\ m \notin Range(queue) /\ IsInjective(queue) => IsInjective(queue')
           /\ shutdown' = shutdown /\ Busy' = Busy /\ Requests' = Requests
<1>1. queue \in Seq(Maps) /\ queue' = Append(queue, m)
  BY DEF TypeOK, Queue!QueueTypeOK, Queue!Push
<1>2. Range(queue') = Range(queue) \cup {m} /\ Len(queue') = Len(queue) + 1
  BY <1>1, RangeAppend
<1>3. m \notin Range(queue) /\ IsInjective(queue) => IsInjective(queue')
  BY <1>1, InjectiveAppend
<1> QED
  BY <1>2, <1>3 DEF Queue!Push, Busy, Requests

\* Steps that put nothing anywhere.
LEMMA QuietStep ==
    ASSUME TickInv, NEW w \in Threads,
           \/ AllScheduled \/ Wait \/ DelayedUpdates \/ SetToken \/ JoinAll
           \/ Block(w) \/ Wake(w) \/ TakeNothing(w) \/ Exit(w) \/ Call(w) \/ UNCHANGED vars
    PROVE  TickInv'
<1> USE DEF queueVars, worldVars, mapVars, workerVars
<1>i. TypeOK /\ CountInv /\ PhaseInv /\ ThreadInv /\ WorkInv /\ ExistInv /\ ChildrenInv
  BY DEF TickInv
<1>1. /\ UNCHANGED <<queue, request, children, todo, i_maps, instanced, updated, pending>>
      /\ shutdown' = shutdown
  BY DEF AllScheduled, Wait, WaitBlocks, WaitReturns, DelayedUpdates, SetToken, JoinAll, Block,
         Wake, TakeNothing, Exit, Call, Queue!WaitAndPopBlocks, Queue!SpuriousWakeup,
         Queue!WaitAndPopCancelled, vars
<1>2. Busy' = Busy /\ Requests' = Requests
  BY <1>1 DEF Busy, Requests
<1>3. phase = "wait" /\ pending = 0 => queue = <<>> /\ Busy = {}
  <2>1. Len(queue) \in Nat /\ (Len(queue) = 0 => queue = <<>>)
    BY <1>i DEF TypeOK, Queue!QueueTypeOK
  <2>2. Cardinality(Busy) = 0 => Busy = {}
    BY BusyFinite, FS_EmptySet
  <2> QED
    BY <1>i, <2>1, <2>2, BusyFinite DEF CountInv
<1>4. CountInv' /\ ExistInv' /\ ChildrenInv'
  BY <1>i, <1>1, <1>2 DEF CountInv, ExistInv, ChildrenInv
<1>5. PhaseInv'
  <2>1. /\ token' <=> phase' \in {"deactivate", "cancel", "join", "done"}
        /\ token => token'
    BY <1>i DEF PhaseInv, AllScheduled, Wait, DelayedUpdates, SetToken, JoinAll, Block, Wake,
                TakeNothing, Exit, Call, vars
  <2>2. phase' # "schedule" => todo' = {}
    BY <1>i, <1>1 DEF PhaseInv, AllScheduled, Wait, DelayedUpdates, SetToken, JoinAll, Block,
                Wake, TakeNothing, Exit, Call, vars
  <2>3. phase' \notin {"schedule", "wait"} => queue = <<>> /\ Busy = {}
    BY <1>i, <1>3 DEF PhaseInv, AllScheduled, Wait, WaitBlocks, WaitReturns, DelayedUpdates,
                SetToken, JoinAll, Block, Wake, TakeNothing, Exit, Call, vars
  <2> QED
    BY <1>i, <1>1, <1>2, <2>1, <2>2, <2>3 DEF PhaseInv
<1>6. ThreadInv'
  <2>1. CASE UNCHANGED thread
    BY <1>i, <1>1, <1>2, <2>1 DEF ThreadInv
  <2>2. CASE TakeNothing(w)
    BY <1>i, <1>1, <1>2, <2>2 DEF ThreadInv, TakeNothing, Queue!WaitAndPopCancelled, TypeOK
  <2>3. CASE Exit(w)
    BY <1>i, <1>1, <1>2, <2>3 DEF ThreadInv, Exit, TypeOK, PhaseInv
  <2>4. CASE Call(w)
    BY <1>i, <1>1, <1>2, <2>4 DEF ThreadInv, Call, TypeOK, PhaseInv
  <2> QED
    BY <2>1, <2>2, <2>3, <2>4
       DEF AllScheduled, Wait, DelayedUpdates, SetToken, JoinAll, Block, Wake, vars
<1>7. WorkInv'
  <2>1. \A v \in Busy : request[v] \in updated => thread'[v] = "children"
    BY <1>i, <1>1, <1>2 DEF WorkInv, AllScheduled, Wait, DelayedUpdates, SetToken, JoinAll,
             Block, Wake, TakeNothing, Exit, Call, vars, Busy, TypeOK
  <2>2. phase' \in {"schedule", "wait", "delayed"} => phase \in {"schedule", "wait", "delayed"}
    BY DEF AllScheduled, Wait, DelayedUpdates, SetToken, JoinAll, Block, Wake, TakeNothing,
             Exit, Call, vars
  <2> QED
    BY <1>i, <1>1, <1>2, <2>1, <2>2 DEF WorkInv
<1>8. pending' \in Nat
  BY <1>i, <1>1 DEF TypeOK
<1>9. TypeOK'
  BY <1>i, <1>8, TypeStep DEF Next, Tick, Shutdown, WorkerStep
<1> QED
  BY <1>4, <1>5, <1>6, <1>7, <1>9 DEF TickInv

\* What is not being scheduled or updated leaves nothing anywhere.
LEMMA NothingRuns ==
    ASSUME TickInv, phase \notin {"schedule", "wait"}
    PROVE  /\ todo = {} /\ queue = <<>> /\ Range(queue) = {} /\ Busy = {} /\ Requests = {}
           /\ \A w \in Threads : children[w] = {}
<1>1. todo = {} /\ queue = <<>> /\ Busy = {}
  BY DEF TickInv, PhaseInv
<1> QED
  BY <1>1, RangeEmpty DEF TickInv, ThreadInv, Requests

\* The world thread's steps.
LEMMA WorldStep ==
    ASSUME TickInv,
           \/ \E m \in BaseMaps : CreateBaseMap(m) \/ ScheduleBaseMap(m)
           \/ \E i \in Instances : CreateInstance(i)
           \/ StartUpdate \/ UnloadAll \/ CancelQueue
    PROVE  TickInv'
<1> USE DEF queueVars, worldVars, mapVars, workerVars
<1>i. TypeOK /\ CountInv /\ PhaseInv /\ ThreadInv /\ WorkInv /\ ExistInv /\ ChildrenInv
  BY DEF TickInv
<1>p. pending \in Nat
  BY <1>i DEF TypeOK
<1>1. ASSUME NEW m \in BaseMaps, CreateBaseMap(m) PROVE TickInv'
  <2>1. /\ phase = "sessions" /\ i_maps' = i_maps \cup {m}
        /\ UNCHANGED <<queueVars, pending, token, worldVars, instanced, workerVars, updated>>
    BY <1>1 DEF CreateBaseMap
  <2>2. Busy' = Busy /\ Requests' = Requests
    BY <2>1 DEF Busy, Requests
  <2>3. TypeOK'
    BY <1>i, <1>1, <1>p, <2>1, TypeStep DEF Next
  <2>4. CountInv' /\ PhaseInv' /\ ThreadInv'
    BY <1>i, <2>1, <2>2 DEF CountInv, PhaseInv, ThreadInv
  <2>5. WorkInv' /\ ExistInv' /\ ChildrenInv'
    BY <1>i, <2>1, <2>2 DEF WorkInv, ExistInv, ChildrenInv
  <2> QED
    BY <2>3, <2>4, <2>5 DEF TickInv
<1>2. ASSUME NEW i \in Instances, CreateInstance(i) PROVE TickInv'
  <2>1. /\ instanced' = instanced \cup {i}
        /\ UNCHANGED <<queueVars, pending, token, worldVars, i_maps, workerVars, updated>>
    BY <1>2 DEF CreateInstance
  <2>2. Busy' = Busy /\ Requests' = Requests
    BY <2>1 DEF Busy, Requests
  <2>3. TypeOK'
    BY <1>i, <1>2, <1>p, <2>1, TypeStep DEF Next
  <2>4. CountInv' /\ PhaseInv' /\ ThreadInv'
    BY <1>i, <2>1, <2>2 DEF CountInv, PhaseInv, ThreadInv
  <2>5. WorkInv' /\ ExistInv' /\ ChildrenInv'
    BY <1>i, <2>1, <2>2 DEF WorkInv, ExistInv, ChildrenInv
  <2> QED
    BY <2>3, <2>4, <2>5 DEF TickInv
<1>3. CASE StartUpdate \/ UnloadAll \/ CancelQueue
  <2>1. /\ phase \in {"sessions", "cancel"} /\ pending' = pending
        /\ UNCHANGED <<thread, request, children>>
        /\ queue' \in {queue, <<>>}
    BY <1>3 DEF StartUpdate, UnloadAll, CancelQueue, Queue!Cancel
  <2>2. /\ todo = {} /\ queue = <<>> /\ Range(queue) = {} /\ Busy = {} /\ Requests = {}
        /\ \A w \in Threads : children[w] = {}
    BY <2>1, NothingRuns
  <2>3. queue' = <<>> /\ Range(queue') = {} /\ Busy' = {} /\ Requests' = {}
    BY <2>1, <2>2, RangeEmpty DEF Busy, Requests
  <2>4. TypeOK'
    BY <1>i, <1>3, <1>p, <2>1, TypeStep DEF Next, Shutdown
  <2>5. CountInv'
    BY <1>i, <2>1, <2>2, <2>3 DEF CountInv
  <2>6. PhaseInv'
    BY <1>i, <1>3, <2>2, <2>3 DEF PhaseInv, StartUpdate, UnloadAll, CancelQueue, Queue!Cancel
  <2>7. ThreadInv'
    <3>1. shutdown => shutdown'
      BY <1>3 DEF StartUpdate, UnloadAll, CancelQueue, Queue!Cancel
    <3>2. ASSUME NEW w \in Threads
          PROVE  thread[w] \notin {"update", "children"} /\ (thread[w] = "popped" => shutdown')
      BY <1>i, <2>2, <3>1 DEF ThreadInv
    <3> QED
      BY <2>1, <2>2, <2>3, <3>2 DEF ThreadInv
  <2>8. WorkInv' /\ ExistInv' /\ ChildrenInv'
    <3>1. CASE StartUpdate
      BY <1>i, <2>1, <2>2, <2>3, <3>1, InjectiveEmpty
         DEF StartUpdate, WorkInv, ExistInv, ChildrenInv
    <3>2. CASE UnloadAll \/ CancelQueue
      BY <1>i, <2>1, <2>2, <2>3, <3>2, InjectiveEmpty
         DEF UnloadAll, CancelQueue, Queue!Cancel, WorkInv, ExistInv, ChildrenInv
    <3> QED
      BY <1>3, <3>1, <3>2
  <2> QED
    BY <2>4, <2>5, <2>6, <2>7, <2>8 DEF TickInv
<1>4. ASSUME NEW m \in BaseMaps, ScheduleBaseMap(m) PROVE TickInv'
  <2>1. /\ phase = "schedule" /\ m \in todo /\ todo' = todo \ {m} /\ m \in Maps
        /\ Queue!Push(m) /\ pending' = pending + 1
        /\ UNCHANGED <<token, phase, asleep, mapVars, workerVars, updated>>
    BY <1>4 DEF ScheduleBaseMap, ScheduleUpdate, Maps
  <2>2. m \notin Range(queue) \cup Requests \cup updated
    BY <1>i, <2>1 DEF WorkInv
  <2>3. /\ Range(queue') = Range(queue) \cup {m} /\ Len(queue') = Len(queue) + 1
        /\ IsInjective(queue')
        /\ shutdown' = shutdown /\ Busy' = Busy /\ Requests' = Requests
    BY <1>i, <2>1, <2>2, OnePushed DEF WorkInv
  <2>4. TypeOK'
    BY <1>i, <1>4, <1>p, <2>1, TypeStep DEF Next, Tick
  <2>5. CountInv'
    <3>1. Len(queue) \in Nat
      BY <1>i DEF TypeOK, Queue!QueueTypeOK
    <3> QED
      BY <1>i, <1>p, <2>1, <2>3, <3>1, BusyFinite DEF CountInv
  <2>6. PhaseInv' /\ ThreadInv'
    BY <1>i, <2>1, <2>3 DEF PhaseInv, ThreadInv
  <2>7. WorkInv'
    <3>1. IsInjective(queue') /\ Range(queue') \cap Requests' = {}
      BY <1>i, <2>2, <2>3 DEF WorkInv
    <3>2. \A v, w \in Busy' : v # w => request'[v] # request'[w]
      BY <1>i, <2>1, <2>3 DEF WorkInv
    <3>3. todo' \cap (Range(queue') \cup Requests') = {}
      BY <1>i, <2>1, <2>3 DEF WorkInv
    <3>4. updated' \cap (todo' \cup Range(queue')) = {}
      BY <1>i, <2>1, <2>2, <2>3 DEF WorkInv
    <3>5. \A w \in Busy' : request'[w] \in updated' => thread'[w] = "children"
      BY <1>i, <2>1, <2>3 DEF WorkInv
    <3>6. i_maps' \subseteq todo' \cup Range(queue') \cup Requests' \cup updated'
      BY <1>i, <2>1, <2>3 DEF WorkInv
    <3> QED
      BY <3>1, <3>2, <3>3, <3>4, <3>5, <3>6 DEF WorkInv
  <2>8. ExistInv'
    BY <1>i, <2>1, <2>3 DEF ExistInv
  <2>9. ChildrenInv'
    <3>1. \A i \in Instances : i # m
      BY UpdaterAssumption
    <3>2. \A w \in Threads : children[w] \subseteq Instances
      BY <1>i DEF TypeOK
    <3> QED
      BY <1>i, <2>1, <2>3, <3>1, <3>2 DEF ChildrenInv
  <2> QED
    BY <2>4, <2>5, <2>6, <2>7, <2>8, <2>9 DEF TickInv
<1> QED
  BY <1>1, <1>2, <1>3, <1>4

\* A thread takes the first request of the queue, or is done with its own.
LEMMA RequestStep ==
    ASSUME TickInv, NEW w \in Threads, Take(w) \/ Finish(w)
    PROVE  TickInv'
<1> USE DEF queueVars, worldVars, mapVars, workerVars
<1>i. TypeOK /\ CountInv /\ PhaseInv /\ ThreadInv /\ WorkInv /\ ExistInv /\ ChildrenInv
  BY DEF TickInv
<1>q. queue \in Seq(Maps) /\ Len(queue) \in Nat /\ pending \in Nat
  BY <1>i DEF TypeOK, Queue!QueueTypeOK
<1>1. CASE Take(w)
  <2> DEFINE m == Head(queue)
  <2>1. /\ thread[w] = "pop" /\ queue # <<>> /\ queue' = Tail(queue)
        /\ request' = [request EXCEPT ![w] = m] /\ thread' = [thread EXCEPT ![w] = "popped"]
        /\ UNCHANGED <<shutdown, pending, token, worldVars, mapVars, children, updated>>
    BY <1>1 DEF Take, Queue!WaitAndPopTakes
  <2>2. m \in Maps /\ Tail(queue) \in Seq(Maps) /\ Range(queue) = {m} \cup Range(queue')
    BY <1>q, <2>1, RangeHeadTail
  <2>3. IsInjective(queue') /\ m \notin Range(queue')
    BY <1>i, <1>q, <2>1, InjectiveTail DEF WorkInv
  <2>4. Len(queue') = Len(queue) - 1 /\ Len(queue') \in Nat
    BY <1>q, <2>1
  <2> HIDE DEF m
  <2>5. w \notin Busy
    BY <1>i, <2>1 DEF ThreadInv
  <2>6. /\ Busy' = Busy \cup {w} /\ Requests' = Requests \cup {m}
        /\ Cardinality(Busy') = Cardinality(Busy) + 1
    BY <1>i, <2>1, <2>2, <2>5, OneTakes
  <2>7. request'[w] = m /\ \A v \in Threads : v # w => request'[v] = request[v] /\ thread'[v] = thread[v]
    BY <1>i, <2>1 DEF TypeOK
  <2>8. thread'[w] = "popped"
    BY <1>i, <2>1 DEF TypeOK
  <2>9. m \notin Requests /\ m \notin updated /\ m \notin todo
    BY <1>i, <2>2 DEF WorkInv
  <2>10. TypeOK'
    BY <1>i, <1>1, <1>q, <2>1, TypeStep DEF Next, WorkerStep
  <2>11. CountInv'
    BY <1>i, <1>q, <2>1, <2>4, <2>6, BusyFinite DEF CountInv
  <2>12. PhaseInv'
    BY <1>i, <2>1 DEF PhaseInv
  <2>13. ThreadInv'
    BY <1>i, <2>1, <2>6, <2>7, <2>8 DEF ThreadInv
  <2>14. WorkInv'
    <3>1. IsInjective(queue') /\ Range(queue') \cap Requests' = {}
      BY <1>i, <2>2, <2>3, <2>6 DEF WorkInv
    <3>2. \A v, u \in Busy' : v # u => request'[v] # request'[u]
      <4>1. \A v \in Busy : v # w /\ request'[v] = request[v] /\ request[v] # m
        BY <2>5, <2>7, <2>9 DEF Requests, Busy
      <4> QED
        BY <1>i, <2>6, <2>7, <4>1 DEF WorkInv
    <3>3. todo' \cap (Range(queue') \cup Requests') = {}
      BY <1>i, <2>1, <2>2, <2>6, <2>9 DEF WorkInv
    <3>4. updated' \cap (todo' \cup Range(queue')) = {}
      BY <1>i, <2>1, <2>2 DEF WorkInv
    <3>5. \A v \in Busy' : request'[v] \in updated' => thread'[v] = "children"
      <4>1. \A v \in Busy : v # w /\ request'[v] = request[v] /\ thread'[v] = thread[v]
        BY <2>5, <2>7 DEF Busy
      <4> QED
        BY <1>i, <2>1, <2>6, <2>7, <2>9, <4>1 DEF WorkInv
    <3>6. phase' \in {"schedule", "wait", "delayed"} =>
              i_maps' \subseteq todo' \cup Range(queue') \cup Requests' \cup updated'
      BY <1>i, <2>1, <2>2, <2>6 DEF WorkInv
    <3> QED
      BY <3>1, <3>2, <3>3, <3>4, <3>5, <3>6 DEF WorkInv
  <2>15. ExistInv'
    BY <1>i, <2>1, <2>2, <2>6 DEF ExistInv
  <2>16. ChildrenInv'
    <3>1. Range(queue') \cup Requests' = Range(queue) \cup Requests
      BY <2>2, <2>6
    <3>2. children[w] = {}
      BY <1>i, <2>1 DEF ThreadInv
    <3> QED
      BY <1>i, <2>1, <2>7, <3>1, <3>2 DEF ChildrenInv
  <2> QED
    BY <2>10, <2>11, <2>12, <2>13, <2>14, <2>15, <2>16 DEF TickInv
<1>2. CASE Finish(w)
  <2> DEFINE m == request[w]
  <2>1. /\ thread[w] = "children" /\ children[w] = {} /\ pending' = pending - 1
        /\ request' = [request EXCEPT ![w] = NoMap] /\ thread' = [thread EXCEPT ![w] = "pop"]
        /\ UNCHANGED <<queueVars, token, phase, todo, mapVars, children, updated>>
    BY <1>2 DEF Finish, UpdateFinished
  <2>2. w \in Busy /\ m \in updated /\ m \in Requests
    BY <1>i, <2>1 DEF ThreadInv, Requests
  <2>3. /\ Busy' = Busy \ {w} /\ Requests' = Requests \ {m}
        /\ Cardinality(Busy') = Cardinality(Busy) - 1
    BY <1>i, <2>1, <2>2, OneFinishes DEF WorkInv
  <2>4. Cardinality(Busy) > 0
    BY <2>2, BusyFinite, FS_EmptySet
  <2>5. pending' \in Nat
    BY <1>i, <1>q, <2>1, <2>4, BusyFinite DEF CountInv
  <2>6. TypeOK'
    BY <1>i, <1>2, <2>5, TypeStep DEF Next, WorkerStep
  <2> HIDE DEF m
  <2>7. \A v \in Threads : v # w => request'[v] = request[v] /\ thread'[v] = thread[v]
    BY <1>i, <2>1 DEF TypeOK
  <2>8. thread'[w] = "pop"
    BY <1>i, <2>1 DEF TypeOK
  <2>9. CountInv'
    BY <1>i, <1>q, <2>1, <2>3, BusyFinite DEF CountInv
  <2>10. PhaseInv'
    BY <1>i, <2>1, <2>3 DEF PhaseInv
  <2>11. ThreadInv'
    BY <1>i, <2>1, <2>3, <2>7, <2>8 DEF ThreadInv
  <2>12. WorkInv'
    <3>1. \A v \in Busy' : v \in Busy /\ request'[v] = request[v] /\ thread'[v] = thread[v]
      BY <2>3, <2>7 DEF Busy
    <3> QED
      BY <1>i, <2>1, <2>2, <2>3, <3>1 DEF WorkInv
  <2>13. ExistInv'
    BY <1>i, <2>1, <2>3 DEF ExistInv
  <2>14. ChildrenInv'
    BY <1>i, <2>1, <2>2, <2>3, <2>7 DEF ChildrenInv
  <2> QED
    BY <2>6, <2>9, <2>10, <2>11, <2>12, <2>13, <2>14 DEF TickInv
<1> QED
  BY <1>1, <1>2

\* A thread updates its map, whose instances nobody has touched before.
LEMMA UpdateStep ==
    ASSUME TickInv, NEW w \in Threads, Update(w)
    PROVE  TickInv'
<1> USE DEF queueVars, worldVars, mapVars, workerVars
<1>i. TypeOK /\ CountInv /\ PhaseInv /\ ThreadInv /\ WorkInv /\ ExistInv /\ ChildrenInv
  BY DEF TickInv
<1> DEFINE m == request[w]
<1>1. /\ thread[w] = "update" /\ updated' = updated \cup {m}
      /\ children' = [children EXCEPT ![w] = InstancesOf(m)]
      /\ thread' = [thread EXCEPT ![w] = "children"]
      /\ UNCHANGED <<queueVars, pending, token, worldVars, mapVars, request>>
  BY DEF Update
<1>2. w \in Busy /\ m \in Requests /\ m \in Maps
  BY <1>i, <1>1 DEF ThreadInv, Requests, TypeOK, Busy
<1>3. Busy' = Busy /\ Requests' = Requests
  BY <1>1 DEF Busy, Requests
<1>4. m \notin updated /\ m \notin Range(queue) /\ m \notin todo
  BY <1>i, <1>1, <1>2 DEF WorkInv
<1>5. /\ thread'[w] = "children" /\ children'[w] = InstancesOf(m)
      /\ \A v \in Threads : v # w => thread'[v] = thread[v] /\ children'[v] = children[v]
  BY <1>i, <1>1 DEF TypeOK
<1>6. TypeOK'
  BY <1>i, <1>1, TypeStep DEF Next, WorkerStep, TypeOK
<1>7. \A v \in Busy : v # w => request[v] # m
  BY <1>i, <1>2 DEF WorkInv
<1>8. children[w] = {}
  BY <1>i, <1>1 DEF ThreadInv
<1> HIDE DEF m
<1>9. CountInv' /\ PhaseInv' /\ ExistInv'
  BY <1>i, <1>1, <1>3 DEF CountInv, PhaseInv, ExistInv
<1>10. ThreadInv'
  <2>1. request[w] \in updated'
    BY <1>1 DEF m
  <2> QED
    BY <1>i, <1>1, <1>2, <1>3, <1>5, <2>1 DEF ThreadInv
<1>11. WorkInv'
  <2>1. \A v \in Busy' : request'[v] \in updated' => thread'[v] = "children"
    BY <1>i, <1>1, <1>3, <1>5, <1>7 DEF WorkInv, Busy
  <2>2. updated' \cap (todo' \cup Range(queue')) = {}
    BY <1>i, <1>1, <1>4 DEF WorkInv
  <2> QED
    BY <1>i, <1>1, <1>3, <2>1, <2>2 DEF WorkInv
<1>12. ChildrenInv'
  <2>1. ASSUME NEW v \in Threads, NEW i \in children'[v]
        PROVE  /\ i \in instanced /\ Parent[i] = request[v]
               /\ i \notin Range(queue) \cup Requests \cup updated \cup {m}
    <3>1. CASE v = w
      <4>1. i \in instanced /\ Parent[i] = m /\ i \in Instances
        BY <1>i, <1>5, <2>1, <3>1 DEF InstancesOf, TypeOK
      <4>2. i \notin Range(queue) \cup Requests \cup updated
        BY <1>i, <1>4, <4>1 DEF ChildrenInv
      <4> QED
        BY <1>2, <3>1, <4>1, <4>2 DEF m
    <3>2. CASE v # w
      <4>1. i \in children[v]
        BY <1>5, <2>1, <3>2
      <4> QED
        BY <1>i, <1>2, <4>1 DEF ChildrenInv
    <3> QED
      BY <3>1, <3>2
  <2>2. ASSUME NEW i \in Instances, i = m PROVE Parent[i] \in updated
    BY <1>i, <1>2, <2>2 DEF ChildrenInv
  <2> QED
    BY <1>i, <1>1, <1>3, <2>1, <2>2 DEF ChildrenInv
<1> QED
  BY <1>6, <1>9, <1>10, <1>11, <1>12 DEF TickInv

\* A thread looks at an instance of its map.
LEMMA InstanceStep ==
    ASSUME TickInv, NEW w \in Threads, NEW i \in Instances,
           DestroyInstance(w, i) \/ KeepInstance(w, i) \/ ScheduleInstance(w, i)
    PROVE  TickInv'
<1> USE DEF queueVars, worldVars, mapVars, workerVars
<1>i. TypeOK /\ CountInv /\ PhaseInv /\ ThreadInv /\ WorkInv /\ ExistInv /\ ChildrenInv
  BY DEF TickInv
<1>p. pending \in Nat
  BY <1>i DEF TypeOK
<1>1. /\ thread[w] = "children" /\ i \in children[w]
      /\ children' = [children EXCEPT ![w] = children[w] \ {i}]
      /\ UNCHANGED <<token, worldVars, i_maps, thread, request, updated>>
  BY DEF DestroyInstance, KeepInstance, ScheduleInstance
<1>2. /\ i \in instanced /\ Parent[i] = request[w] /\ i \notin Range(queue) \cup Requests \cup updated
      /\ Parent[i] \in updated /\ w \in Busy
  BY <1>i, <1>1 DEF ChildrenInv, ThreadInv
<1>3. Busy' = Busy /\ Requests' = Requests
  BY <1>1 DEF Busy, Requests
<1>4. /\ \A v \in Threads : children'[v] \subseteq children[v]
      /\ \A v \in Threads : i \notin children'[v]
  <2>1. children'[w] = children[w] \ {i} /\ \A v \in Threads : v # w => children'[v] = children[v]
    BY <1>i, <1>1 DEF TypeOK
  <2>2. ASSUME NEW v \in Threads, v # w PROVE i \notin children[v]
    <3> SUFFICES ASSUME i \in children[v] PROVE FALSE
      OBVIOUS
    <3>1. Parent[i] = request[v] /\ v \in Busy
      BY <1>i DEF ChildrenInv, ThreadInv
    <3> QED
      BY <1>i, <1>2, <2>2, <3>1 DEF WorkInv
  <2> QED
    BY <2>1, <2>2
<1>5. i \notin i_maps /\ i \notin todo /\ i \in Maps
  BY <1>i, UpdaterAssumption DEF TypeOK, Maps
<1>6. CASE DestroyInstance(w, i) \/ KeepInstance(w, i)
  <2>1. /\ UNCHANGED <<queueVars, pending>>
        /\ instanced' \in {instanced, instanced \ {i}}
    BY <1>6 DEF DestroyInstance, KeepInstance
  <2>2. TypeOK'
    BY <1>i, <1>p, <1>6, <2>1, TypeStep DEF Next, WorkerStep
  <2>3. CountInv' /\ PhaseInv' /\ ThreadInv' /\ WorkInv'
    BY <1>i, <1>1, <1>3, <1>4, <2>1 DEF CountInv, PhaseInv, ThreadInv, WorkInv
  <2>4. ExistInv'
    BY <1>i, <1>1, <1>2, <1>3, <2>1 DEF ExistInv
  <2>5. ChildrenInv'
    <3>1. ASSUME NEW v \in Threads, NEW j \in children'[v]
          PROVE  j \in instanced' /\ Parent[j] = request[v] /\ j \notin Range(queue) \cup Requests \cup updated
      <4>1. j \in children[v] /\ j # i
        BY <1>4, <3>1
      <4> QED
        BY <1>i, <2>1, <4>1 DEF ChildrenInv
    <3> QED
      BY <1>i, <1>1, <1>3, <2>1, <3>1 DEF ChildrenInv
  <2> QED
    BY <2>2, <2>3, <2>4, <2>5 DEF TickInv
<1>7. CASE ScheduleInstance(w, i)
  <2>1. Queue!Push(i) /\ pending' = pending + 1 /\ UNCHANGED instanced
    BY <1>7 DEF ScheduleInstance, ScheduleUpdate
  <2>2. /\ Range(queue') = Range(queue) \cup {i} /\ Len(queue') = Len(queue) + 1
        /\ IsInjective(queue') /\ shutdown' = shutdown
    BY <1>i, <1>1, <1>2, <1>5, <2>1, OnePushed DEF WorkInv
  <2>3. TypeOK'
    BY <1>i, <1>p, <1>7, <2>1, TypeStep DEF Next, WorkerStep
  <2>4. CountInv'
    <3>1. Len(queue) \in Nat
      BY <1>i DEF TypeOK, Queue!QueueTypeOK
    <3> QED
      BY <1>i, <1>p, <1>3, <2>1, <2>2, <3>1, BusyFinite DEF CountInv
  <2>5. PhaseInv'
    BY <1>i, <1>1, <1>2, <1>3, <2>2 DEF PhaseInv
  <2>6. ThreadInv'
    BY <1>i, <1>1, <1>3, <1>4, <2>2 DEF ThreadInv
  <2>7. WorkInv'
    BY <1>i, <1>1, <1>2, <1>3, <1>5, <2>2 DEF WorkInv
  <2>8. ExistInv'
    BY <1>i, <1>1, <1>2, <1>3, <2>1, <2>2 DEF ExistInv
  <2>9. ChildrenInv'
    <3>1. ASSUME NEW v \in Threads, NEW j \in children'[v]
          PROVE  j \in instanced' /\ Parent[j] = request[v] /\ j \notin Range(queue') \cup Requests \cup updated
      <4>1. j \in children[v] /\ j # i
        BY <1>4, <3>1
      <4> QED
        BY <1>i, <2>1, <2>2, <4>1 DEF ChildrenInv
    <3> QED
      BY <1>i, <1>1, <1>2, <1>3, <2>2, <3>1 DEF ChildrenInv
  <2> QED
    BY <2>3, <2>4, <2>5, <2>6, <2>7, <2>8, <2>9 DEF TickInv
<1> QED
  BY <1>6, <1>7

\* Every step keeps the invariant.
LEMMA TickStep == TickInv /\ [Next]_vars => TickInv'
<1> SUFFICES ASSUME TickInv, [Next]_vars PROVE TickInv'
  OBVIOUS
<1>1. Threads # {}
  BY UpdaterAssumption
<1>2. CASE AllScheduled \/ Wait \/ DelayedUpdates \/ SetToken \/ JoinAll \/ UNCHANGED vars
  BY <1>1, <1>2, QuietStep
<1>3. ASSUME NEW w \in Threads, WorkerStep(w) \/ Wake(w) PROVE TickInv'
  BY <1>3, QuietStep, RequestStep, UpdateStep, InstanceStep DEF WorkerStep
<1> QED
  BY <1>2, <1>3, WorldStep DEF Next, Tick, Shutdown

--------------------------------------------------------------------------------
(* What follows                                                             *)

\* Whatever the world thread and the updater's threads do, and in whatever order.
THEOREM TickInvariant == Spec => []TickInv
<1>1. Init => TickInv
  BY TickInit
<1>2. TickInv /\ [Next]_vars => TickInv'
  BY TickStep
<1> QED
  BY <1>1, <1>2, PTL DEF Spec

\* The queue, the counter of requests and the threads' variables keep their types; in
\* particular pending_requests, which is unsigned in the code, does not go below zero.
THEOREM UpdaterTypes == Spec => []TypeOK
<1>1. TickInv => TypeOK
  BY DEF TickInv
<1> QED
  BY <1>1, TickInvariant, PTL

\* A request refers to a map that exists, from ScheduleUpdate to the end of Map::Update,
\* although the threads destroy instances meanwhile; and no thread calls a null request.
THEOREM RequestsDoNotDangle == Spec => []NoDanglingRequest
<1>1. TickInv => NoDanglingRequest
  BY DEF TickInv, ExistInv, ThreadInv, Requests, NoDanglingRequest
<1> QED
  BY <1>1, TickInvariant, PTL

\* No map is updated by two threads at once or twice in a tick, and none is left out when
\* the delayed updates begin.
THEOREM EveryMapOnce == Spec => []OneUpdatePerTick
<1>1. TickInv => OneUpdatePerTick
  <2> SUFFICES ASSUME TickInv PROVE OneUpdatePerTick
    OBVIOUS
  <2>1. phase = "delayed" => i_maps \subseteq updated
    <3> SUFFICES ASSUME phase = "delayed" PROVE i_maps \subseteq updated
      OBVIOUS
    <3>1. todo = {} /\ Range(queue) = {} /\ Requests = {}
      BY NothingRuns
    <3> QED
      BY <3>1 DEF TickInv, WorkInv
  <2> QED
    BY <2>1 DEF TickInv, WorkInv, Requests, OneUpdatePerTick
<1> QED
  BY <1>1, TickInvariant, PTL

--------------------------------------------------------------------------------
(* The barrier                                                              *)

Running == todo \cup Range(queue) \cup Requests

\* A step that moves no map in or out, and the world thread not past the barrier.
LEMMA BarrierStutters ==
    ASSUME Running' = Running, phase \in {"schedule", "wait"} <=> phase' \in {"schedule", "wait"}
    PROVE  UNCHANGED Barrier!vars
BY DEF Barrier!vars, Running, Requests

\* Starting a tick forks, scheduling an instance spawns, the end of an update is one, and
\* the return of wait() joins: it returns when the maps scheduled meanwhile, by the threads
\* it waits for, are done as well.
LEMMA BarrierStep == TickInv /\ [Next]_vars => [Barrier!Next]_(Barrier!vars)
<1> SUFFICES ASSUME TickInv, [Next]_vars PROVE Barrier!Next \/ UNCHANGED Barrier!vars
  OBVIOUS
<1> USE DEF queueVars, worldVars, mapVars, workerVars
<1>i. TypeOK /\ CountInv /\ PhaseInv /\ ThreadInv /\ WorkInv /\ ExistInv /\ ChildrenInv
  BY DEF TickInv
<1>q. queue \in Seq(Maps) /\ Len(queue) \in Nat
  BY <1>i DEF TypeOK, Queue!QueueTypeOK
<1>r. Running = todo \cup Range(queue) \cup {request[w] : w \in Busy}
  BY DEF Running, Requests
<1>1. CASE Wait \/ AllScheduled \/ DelayedUpdates \/ SetToken \/ JoinAll \/ UnloadAll \/ UNCHANGED vars
  <2>1. UNCHANGED <<todo, queue, request>>
    BY <1>1 DEF Wait, AllScheduled, DelayedUpdates, SetToken, JoinAll, UnloadAll, vars
  <2>2. Running' = Running
    BY <2>1 DEF Running, Requests, Busy
  <2>3. CASE phase \in {"schedule", "wait"} <=> phase' \in {"schedule", "wait"}
    BY <2>2, <2>3, BarrierStutters
  <2>4. CASE ~(phase \in {"schedule", "wait"} <=> phase' \in {"schedule", "wait"})
    <3>1. phase = "wait" /\ phase' = "delayed" /\ pending = 0
      BY <1>1, <2>4 DEF Wait, WaitBlocks, WaitReturns, AllScheduled, DelayedUpdates, SetToken,
                        JoinAll, UnloadAll, vars
    <3>2. queue = <<>> /\ Busy = {} /\ todo = {}
      <4>1. Cardinality(Busy) = 0 => Busy = {}
        BY BusyFinite, FS_EmptySet
      <4> QED
        BY <1>i, <1>q, <3>1, <4>1, BusyFinite DEF CountInv, PhaseInv
    <3>3. Running = {}
      BY <3>2, RangeEmpty DEF Running, Requests
    <3>4. Barrier!Join
      BY <1>r, <2>2, <3>1, <3>3 DEF Barrier!Join, Running, Requests
    <3> QED
      BY <3>4 DEF Barrier!Next
  <2> QED
    BY <2>3, <2>4
<1>2. CASE StartUpdate
  <2>1. /\ phase = "sessions" /\ phase' = "schedule" /\ todo' = i_maps
        /\ UNCHANGED <<queue, request>>
    BY <1>2 DEF StartUpdate
  <2>2. Running' \in SUBSET Maps
    <3>1. Range(queue') = {} /\ Requests' = {}
      BY <2>1, NothingRuns DEF Requests, Busy
    <3> QED
      BY <1>i, <2>1, <3>1 DEF Running, TypeOK, Maps
  <2>3. Barrier!Fork
    BY <2>1, <2>2 DEF Barrier!Fork, Running, Requests
  <2> QED
    BY <2>3 DEF Barrier!Next
<1>3. ASSUME NEW m \in BaseMaps, CreateBaseMap(m) PROVE UNCHANGED Barrier!vars
  BY <1>3, BarrierStutters DEF CreateBaseMap, Running, Requests, Busy
<1>4. ASSUME NEW i \in Instances, CreateInstance(i) PROVE UNCHANGED Barrier!vars
  BY <1>4, BarrierStutters DEF CreateInstance, Running, Requests, Busy
<1>5. ASSUME NEW m \in BaseMaps, ScheduleBaseMap(m) PROVE UNCHANGED Barrier!vars
  <2>1. /\ m \in todo /\ todo' = todo \ {m} /\ m \in Maps /\ Queue!Push(m)
        /\ UNCHANGED <<phase, request>>
    BY <1>5 DEF ScheduleBaseMap, ScheduleUpdate, Maps
  <2>2. Range(queue') = Range(queue) \cup {m} /\ Requests' = Requests
    BY <1>i, <2>1, OnePushed
  <2> QED
    BY <2>1, <2>2, BarrierStutters DEF Running
<1>6. CASE CancelQueue
  <2>1. phase = "cancel" /\ phase' = "join" /\ queue' = <<>> /\ UNCHANGED <<todo, request>>
    BY <1>6 DEF CancelQueue, Queue!Cancel
  <2>2. queue' = queue
    BY <2>1, NothingRuns
  <2> QED
    BY <2>1, <2>2, BarrierStutters DEF Running, Requests, Busy
<1>7. ASSUME NEW w \in Threads,
             \/ Block(w) \/ Wake(w) \/ TakeNothing(w) \/ Exit(w) \/ Call(w) \/ Update(w)
             \/ \E i \in Instances : DestroyInstance(w, i) \/ KeepInstance(w, i)
      PROVE  UNCHANGED Barrier!vars
  <2>1. UNCHANGED <<todo, queue, request, phase>>
    BY <1>7 DEF Block, Wake, TakeNothing, Exit, Call, Update, DestroyInstance, KeepInstance,
                Queue!WaitAndPopBlocks, Queue!SpuriousWakeup, Queue!WaitAndPopCancelled
  <2> QED
    BY <2>1, BarrierStutters DEF Running, Requests, Busy
<1>8. ASSUME NEW w \in Threads, Take(w) PROVE UNCHANGED Barrier!vars
  <2> DEFINE m == Head(queue)
  <2>1. /\ thread[w] = "pop" /\ queue # <<>> /\ queue' = Tail(queue)
        /\ request' = [request EXCEPT ![w] = m] /\ UNCHANGED <<phase, todo>>
    BY <1>8 DEF Take, Queue!WaitAndPopTakes
  <2>2. m \in Maps /\ Range(queue) = {m} \cup Range(queue')
    BY <1>q, <2>1, RangeHeadTail
  <2> HIDE DEF m
  <2>3. Requests' = Requests \cup {m}
    BY <1>i, <2>1, <2>2, OneTakes DEF ThreadInv
  <2> QED
    BY <2>1, <2>2, <2>3, BarrierStutters DEF Running
<1>9. ASSUME NEW w \in Threads, Finish(w) PROVE Barrier!Next
  <2>1. /\ thread[w] = "children" /\ request' = [request EXCEPT ![w] = NoMap]
        /\ UNCHANGED <<queue, phase, todo>>
    BY <1>9 DEF Finish
  <2>2. w \in Busy /\ request[w] \in Requests /\ request[w] \in Maps
    BY <1>i, <2>1 DEF ThreadInv, Requests, Busy, TypeOK
  <2>3. Requests' = Requests \ {request[w]}
    BY <1>i, <2>1, <2>2, OneFinishes DEF WorkInv
  <2> PICK m \in Maps : m = request[w]
    BY <2>2
  <2>4. m \in Running /\ Running' = Running \ {m}
    BY <1>i, <2>1, <2>2, <2>3 DEF Running, WorkInv
  <2>5. phase' = phase
    BY <2>1
  <2>6. Barrier!Done(m)
    BY <2>4, <2>5 DEF Barrier!Done, Running, Requests
  <2> QED
    BY <2>6 DEF Barrier!Next
<1>10. ASSUME NEW w \in Threads, NEW i \in Instances, ScheduleInstance(w, i) PROVE Barrier!Next
  <2>1. /\ thread[w] = "children" /\ i \in children[w] /\ Queue!Push(i)
        /\ UNCHANGED <<todo, request, phase>> /\ i \in Maps
    BY <1>10 DEF ScheduleInstance, ScheduleUpdate, Maps
  <2>2. i \notin Range(queue) \cup Requests /\ w \in Busy /\ request[w] \in Requests
    BY <1>i, <2>1 DEF ChildrenInv, ThreadInv, Requests
  <2>3. i \notin todo
    BY <1>i, UpdaterAssumption DEF TypeOK
  <2>4. phase \in {"schedule", "wait"}
    BY <1>i, <2>2 DEF PhaseInv
  <2>5. Range(queue') = Range(queue) \cup {i} /\ Requests' = Requests
    BY <1>i, <2>1, OnePushed
  <2>6. Running # {} /\ i \notin Running /\ Running' = Running \cup {i}
    BY <2>1, <2>2, <2>3, <2>5 DEF Running
  <2>7. Barrier!Spawn(i)
    BY <2>1, <2>4, <2>6 DEF Barrier!Spawn, Running, Requests
  <2> QED
    BY <2>1, <2>7 DEF Barrier!Next
<1> QED
  BY <1>1, <1>2, <1>3, <1>4, <1>5, <1>6, <1>7, <1>8, <1>9, <1>10
     DEF Next, Tick, Shutdown, WorkerStep

\* A tick is a fork and a join for any number of maps and threads: the world thread goes on
\* to the delayed updates when no update is running, and no map is updated after that until
\* the next tick.
THEOREM TickIsABarrier == Spec => Barrier!Init /\ [][Barrier!Next]_(Barrier!vars)
<1>1. Init => Barrier!Init
  BY RangeEmpty DEF Init, Queue!QueueInit, Barrier!Init, Busy
<1>2. TickInv /\ [Next]_vars => [Barrier!Next]_(Barrier!vars)
  BY BarrierStep
<1> QED
  BY <1>1, <1>2, TickInvariant, PTL DEF Spec
================================================================================
