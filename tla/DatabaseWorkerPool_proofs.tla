----------------------- MODULE DatabaseWorkerPool_proofs -----------------------
(***************************************************************************)
(* What DatabaseWorkerPool guarantees for every number of workers and      *)
(* every set of operations.  The argument goes in three layers, each an    *)
(* inductive invariant that uses the one before: the types and the place   *)
(* of a worker determine whether it holds an operation; every running      *)
(* worker belongs to a connection that is not yet destroyed; every         *)
(* operation is in exactly one place.                                      *)
(***************************************************************************)
EXTENDS DatabaseWorkerPool, SequenceTheorems, FiniteSetTheorems, TLAPS

--------------------------------------------------------------------------------
(* Sequences as the sets of their elements. *)

\* The elements of a sequence over S are in S.
LEMMA RangeType ==
    ASSUME NEW S, NEW s \in Seq(S)
    PROVE  Range(s) \subseteq S
BY DEF Range

\* The empty sequence has no elements.
LEMMA RangeEmpty == Range(<<>>) = {}
BY DEF Range

\* A sequence of one element.
LEMMA RangeSingleton ==
    ASSUME NEW x
    PROVE  Range(<<x>>) = {x}
BY DEF Range

\* Append adds one element.
LEMMA RangeAppend ==
    ASSUME NEW S, NEW s \in Seq(S), NEW x \in S
    PROVE  Range(Append(s, x)) = Range(s) \cup {x}
<1> DEFINE t == Append(s, x)
<1>1. /\ t \in Seq(S) /\ Len(t) = Len(s) + 1 /\ t[Len(s) + 1] = x
      /\ \A i \in 1..Len(s) : t[i] = s[i]
      /\ DOMAIN t = 1..Len(s) + 1 /\ DOMAIN s = 1..Len(s) /\ Len(s) \in Nat
  OBVIOUS
<1> HIDE DEF t
<1>2. ASSUME NEW i \in DOMAIN t PROVE t[i] \in Range(s) \cup {x}
  BY <1>1 DEF Range
<1>3. ASSUME NEW i \in DOMAIN s PROVE \E j \in DOMAIN t : t[j] = s[i]
  BY <1>1
<1>4. \E j \in DOMAIN t : t[j] = x
  BY <1>1
<1>5. Range(t) = Range(s) \cup {x}
  BY <1>2, <1>3, <1>4 DEF Range
<1> QED
  BY <1>5 DEF t

\* A sequence that is not empty consists of its head and its tail.
LEMMA RangeHeadTail ==
    ASSUME NEW S, NEW s \in Seq(S), s # <<>>
    PROVE  /\ Head(s) \in S /\ Tail(s) \in Seq(S)
           /\ Range(s) = {Head(s)} \cup Range(Tail(s))
<1> DEFINE t == Tail(s)
<1>1. /\ t \in Seq(S) /\ Len(t) = Len(s) - 1 /\ Head(s) = s[1]
      /\ \A i \in 1..Len(s) - 1 : t[i] = s[i + 1]
      /\ DOMAIN t = 1..Len(s) - 1 /\ DOMAIN s = 1..Len(s) /\ Len(s) \in Nat /\ Len(s) >= 1
  OBVIOUS
<1>2. s[1] \in S
  BY <1>1
<1> HIDE DEF t
<1>3. ASSUME NEW i \in DOMAIN s PROVE s[i] \in {s[1]} \cup Range(t)
  <2>1. CASE i = 1
    BY <2>1
  <2>2. CASE i # 1
    <3>1. i - 1 \in DOMAIN t /\ t[i - 1] = s[i]
      BY <1>1, <2>2
    <3> QED
      BY <3>1 DEF Range
  <2> QED
    BY <2>1, <2>2
<1>4. ASSUME NEW i \in DOMAIN t PROVE \E j \in DOMAIN s : s[j] = t[i]
  BY <1>1
<1>5. 1 \in DOMAIN s
  BY <1>1
<1>6. Range(s) = {s[1]} \cup Range(t)
  BY <1>3, <1>4, <1>5 DEF Range
<1> QED
  BY <1>1, <1>2, <1>6 DEF t

\* Appending a new element keeps the elements distinct.
LEMMA InjectiveAppend ==
    ASSUME NEW S, NEW s \in Seq(S), NEW x \in S, IsInjective(s), x \notin Range(s)
    PROVE  IsInjective(Append(s, x))
BY DEF Range, IsInjective

\* So does taking the head away, and it does not occur in the tail.
LEMMA InjectiveTail ==
    ASSUME NEW S, NEW s \in Seq(S), s # <<>>, IsInjective(s)
    PROVE  IsInjective(Tail(s)) /\ Head(s) \notin Range(Tail(s))
BY DEF Range, IsInjective

\* The empty sequence repeats nothing.
LEMMA InjectiveEmpty == IsInjective(<<>>)
BY DEF IsInjective

--------------------------------------------------------------------------------
(* Types.                                                                   *)

\* WorkerThread's local `operation` is set when call() begins and null outside of the
\* loop's body.
JobInHand ==
    \A w \in Workers :
        /\ thread[w] = "execute" => job[w] # NoOp
        /\ thread[w] \in {"none", "pop", "exited"} => job[w] = NoOp

\* The loader has not called Open() on a new pool.
NewIsUnopened == phase = "new" => attempt = 0

\* The first layer.
TypeInv == TypeOK /\ JobInHand /\ NewIsUnopened

\* A pool is constructed with everything empty.
LEMMA TypeInit == Init => TypeInv
<1> SUFFICES ASSUME Init PROVE TypeInv
  OBVIOUS
<1>1. shutdown \in BOOLEAN
  BY DEF Init, Queue!QueueInit
<1>2. Queue!QueueTypeOK
  BY <1>1 DEF Init, Queue!QueueInit, Queue!QueueTypeOK
<1> QED
  BY <1>2, PoolAssumption DEF Init, TypeInv, TypeOK, JobInHand, NewIsUnopened, Workers

\* The methods of the queue keep its types when they are given an operation.
LEMMA QueueTypes ==
    ASSUME Queue!QueueTypeOK
    PROVE  /\ \A op \in Ops : Queue!Push(op) => Queue!QueueTypeOK'
           /\ \A w \in Workers : Queue!WaitAndPopBlocks(w) => Queue!QueueTypeOK'
           /\ \A w \in Workers : Queue!WaitAndPopTakes(w) => Queue!QueueTypeOK' /\ Head(queue) \in Ops
           /\ \A w \in Workers : Queue!WaitAndPopCancelled(w) => Queue!QueueTypeOK'
           /\ \A w \in Workers : Queue!SpuriousWakeup(w) => Queue!QueueTypeOK'
           /\ Queue!Cancel => Queue!QueueTypeOK'
           /\ UNCHANGED queueVars => Queue!QueueTypeOK'
<1> USE DEF Queue!QueueTypeOK
<1>1. ASSUME NEW op \in Ops, Queue!Push(op) PROVE Queue!QueueTypeOK'
  BY <1>1 DEF Queue!Push, Queue!NotifyOne
<1>2. ASSUME NEW w \in Workers, Queue!WaitAndPopBlocks(w) PROVE Queue!QueueTypeOK'
  BY <1>2 DEF Queue!WaitAndPopBlocks
<1>3. ASSUME NEW w \in Workers, Queue!WaitAndPopTakes(w)
      PROVE  Queue!QueueTypeOK' /\ Head(queue) \in Ops
  BY <1>3, RangeHeadTail DEF Queue!WaitAndPopTakes
<1>4. ASSUME NEW w \in Workers, Queue!WaitAndPopCancelled(w) PROVE Queue!QueueTypeOK'
  BY <1>4 DEF Queue!WaitAndPopCancelled
<1>5. ASSUME NEW w \in Workers, Queue!SpuriousWakeup(w) PROVE Queue!QueueTypeOK'
  BY <1>5 DEF Queue!SpuriousWakeup
<1>6. Queue!Cancel => Queue!QueueTypeOK'
  BY DEF Queue!Cancel
<1>7. UNCHANGED queueVars => Queue!QueueTypeOK'
  BY DEF queueVars
<1> QED
  BY <1>1, <1>2, <1>3, <1>4, <1>5, <1>6, <1>7

\* Every action keeps the types and leaves an operation in a worker's hands just while it
\* is between WaitAndPop and the end of the loop's body.
LEMMA TypeStep == TypeInv /\ [Next]_vars => TypeInv'
<1> SUFFICES ASSUME TypeInv, [Next]_vars PROVE TypeInv'
  OBVIOUS
<1> USE PoolAssumption DEF TypeInv, TypeOK, JobInHand, NewIsUnopened, mainVars, workerVars, history
<1>q. Queue!QueueTypeOK
  OBVIOUS
<1>w. Workers \subseteq Nat
  BY DEF Workers
<1>1. CASE Open
  <2>1. attempt' \in 0..2
    BY <1>1 DEF Open, Recoverable
  <2> QED
    BY <1>1, <1>q, <2>1, QueueTypes DEF Open
<1>2. CASE ConstructConnection
  <2>1. Len(conns) + 1 \in Workers
    BY <1>2 DEF ConstructConnection, Workers
  <2> QED
    BY <1>2, <1>q, <2>1, QueueTypes DEF ConstructConnection
<1>3. CASE ConnectSucceeds
  <2>1. fresh \in Workers
    BY <1>3 DEF ConnectSucceeds
  <2> QED
    BY <1>3, <1>q, <2>1, QueueTypes DEF ConnectSucceeds
<1>4. CASE ConnectFails
  <2>1. fresh \in Workers
    BY <1>4 DEF ConnectFails
  <2> QED
    BY <1>4, <1>q, <2>1, QueueTypes DEF ConnectFails
<1>5. CASE ServerTooOld
  <2>1. fresh \in Workers
    BY <1>5 DEF ServerTooOld
  <2> QED
    BY <1>5, <1>q, <2>1, QueueTypes DEF ServerTooOld
<1>6. CASE OpenSynchConnections
  BY <1>6, <1>q, QueueTypes DEF OpenSynchConnections
<1>7. CASE Close
  BY <1>7, <1>q, QueueTypes DEF Close
<1>8. CASE GiveUp
  <2>1. dropped' \subseteq Ops
    BY <1>8, RangeType DEF GiveUp, Queue!QueueTypeOK
  <2> QED
    BY <1>8, <1>q, <2>1, QueueTypes DEF GiveUp
<1>9. CASE SetToken
  <2>1. Head(doomed) \in Workers
    BY <1>9, RangeHeadTail DEF SetToken
  <2> QED
    BY <1>9, <1>q, <2>1, QueueTypes DEF SetToken
<1>10. CASE CancelQueue
  <2>1. dropped' \subseteq Ops
    BY <1>10, RangeType DEF CancelQueue, Queue!QueueTypeOK
  <2> QED
    BY <1>10, <1>q, <2>1, QueueTypes DEF CancelQueue
<1>11. CASE Join
  <2>1. Head(doomed) \in Workers /\ Tail(doomed) \in Seq(Workers)
    BY <1>11, RangeHeadTail DEF Join
  <2> QED
    BY <1>11, <1>q, <2>1, QueueTypes DEF Join
<1>12. CASE Unwound
  BY <1>12, <1>q, QueueTypes DEF Unwound
<1>13. ASSUME NEW op \in Ops, Enqueue(op) PROVE TypeInv'
  <2>1. issued' \in Seq(Ops)
    BY <1>13 DEF Enqueue
  <2> QED
    BY <1>13, <1>q, <2>1, QueueTypes DEF Enqueue
<1>14. ASSUME NEW w \in Workers, Block(w) PROVE TypeInv'
  BY <1>14, <1>q, QueueTypes DEF Block
<1>15. ASSUME NEW w \in Workers, Wake(w) PROVE TypeInv'
  BY <1>15, <1>q, QueueTypes DEF Wake
<1>16. ASSUME NEW w \in Workers, Take(w) PROVE TypeInv'
  BY <1>16, <1>q, QueueTypes DEF Take
<1>17. ASSUME NEW w \in Workers, TakeNothing(w) PROVE TypeInv'
  BY <1>17, <1>q, QueueTypes DEF TakeNothing
<1>18. ASSUME NEW w \in Workers, Exit(w) PROVE TypeInv'
  <2>1. dropped' \subseteq Ops
    BY <1>18 DEF Exit
  <2> QED
    BY <1>18, <1>q, <2>1, QueueTypes DEF Exit
<1>19. ASSUME NEW w \in Workers, Begin(w) PROVE TypeInv'
  BY <1>19, <1>q, QueueTypes DEF Begin
<1>20. ASSUME NEW w \in Workers, Execute(w) PROVE TypeInv'
  <2>1. executed' \in Seq(Ops)
    BY <1>20 DEF Execute
  <2> QED
    BY <1>20, <1>q, <2>1, QueueTypes DEF Execute
<1>21. CASE UNCHANGED vars
  BY <1>21, <1>q, QueueTypes DEF vars, queueVars
<1> QED
  BY <1>1, <1>2, <1>3, <1>4, <1>5, <1>6, <1>7, <1>8, <1>9, <1>10, <1>11, <1>12, <1>13,
     <1>14, <1>15, <1>16, <1>17, <1>18, <1>19, <1>20, <1>21
     DEF Next, Opening, Closing, WorkerStep

\* Every variable keeps its type: attempts of the loader are at most two, and a worker
\* that is in operation->call() has an operation.
THEOREM TypeCorrect == Spec => []TypeOK
<1>1. TypeInv => TypeOK
  BY DEF TypeInv
<1> QED
  BY <1>1, TypeInit, TypeStep, PTL DEF Spec

--------------------------------------------------------------------------------
(* Connections and their workers.                                           *)

\* OpenConnections' local exists only while the pool opens, destructors run only while
\* it unwinds or closes, and the connections of the pool are numbered from 1.
Lifecycle ==
    /\ fresh # 0 => phase = "opening" /\ fresh = Len(conns) + 1
    /\ doomed # <<>> => phase \in {"unwinding", "closing"}
    /\ \A i \in DOMAIN conns : conns[i] = i

\* OpenConnections and the destructors keep to their places in the life of a pool.
LEMMA LifecycleStep == TypeInv /\ Lifecycle /\ [Next]_vars => Lifecycle'
<1> SUFFICES ASSUME TypeInv, Lifecycle, [Next]_vars PROVE Lifecycle'
  OBVIOUS
<1> USE PoolAssumption DEF TypeInv, TypeOK, Lifecycle, mainVars
<1>1. CASE Open
  BY <1>1 DEF Open, Recoverable
<1>2. CASE ConstructConnection
  BY <1>2 DEF ConstructConnection
<1>3. CASE ConnectSucceeds
  <2>1. fresh = Len(conns) + 1 /\ fresh \in Workers
    BY <1>3 DEF ConnectSucceeds
  <2>2. \A i \in DOMAIN conns' : conns'[i] = i
    BY <1>3, <2>1 DEF ConnectSucceeds
  <2> QED
    BY <1>3, <2>2 DEF ConnectSucceeds
<1>4. CASE ConnectFails
  BY <1>4 DEF ConnectFails
<1>5. CASE ServerTooOld
  BY <1>5 DEF ServerTooOld
<1>6. CASE OpenSynchConnections
  BY <1>6 DEF OpenSynchConnections
<1>7. CASE Close
  BY <1>7 DEF Close
<1>8. CASE GiveUp
  BY <1>8 DEF GiveUp
<1>9. CASE SetToken
  BY <1>9 DEF SetToken
<1>10. CASE CancelQueue
  BY <1>10 DEF CancelQueue
<1>11. CASE Join
  BY <1>11 DEF Join
<1>12. CASE Unwound
  BY <1>12 DEF Unwound
<1>13. ASSUME NEW op \in Ops, Enqueue(op) PROVE Lifecycle'
  BY <1>13 DEF Enqueue
<1>14. ASSUME NEW w \in Workers, WorkerStep(w) \/ Wake(w) PROVE Lifecycle'
  BY <1>14 DEF WorkerStep, Block, Wake, Take, TakeNothing, Exit, Begin, Execute
<1>15. CASE UNCHANGED vars
  BY <1>15 DEF vars
<1> QED
  BY <1>1, <1>2, <1>3, <1>4, <1>5, <1>6, <1>7, <1>8, <1>9, <1>10, <1>11, <1>12, <1>13,
     <1>14, <1>15 DEF Next, Opening, Closing

\* The second layer.
Ownership == Lifecycle /\ NoWorkerOutlivesItsConnection

\* A new pool has neither connections nor workers.
LEMMA OwnershipInit == Init => Ownership
BY DEF Init, Ownership, Lifecycle, NoWorkerOutlivesItsConnection

\* A worker starts with the connection that owns it, which leaves the pool only for the
\* list of those to be destroyed, and that one only when the worker has been joined.
LEMMA OwnershipStep == TypeInv /\ Ownership /\ [Next]_vars => Ownership'
<1> SUFFICES ASSUME TypeInv, Ownership, [Next]_vars PROVE NoWorkerOutlivesItsConnection'
  BY LifecycleStep DEF Ownership
<1> USE PoolAssumption DEF TypeInv, TypeOK, Ownership, NoWorkerOutlivesItsConnection,
        mainVars, workerVars
<1>1. CASE Open
  BY <1>1 DEF Open
<1>2. CASE ConstructConnection
  <2>1. /\ fresh = 0 /\ 0 \notin Workers
        /\ fresh' = Len(conns) + 1
        /\ thread' = [thread EXCEPT ![fresh'] = "pop"]
        /\ UNCHANGED <<conns, doomed>>
    BY <1>2 DEF ConstructConnection, Workers
  <2> QED
    BY <2>1
<1>3. CASE ConnectSucceeds
  <2>1. fresh \in Workers
    BY <1>3 DEF ConnectSucceeds
  <2>2. Range(conns') = Range(conns) \cup {fresh}
    BY <1>3, <2>1, RangeAppend DEF ConnectSucceeds
  <2> QED
    BY <1>3, <2>2 DEF ConnectSucceeds
<1>4. CASE ConnectFails
  <2>1. fresh \in Workers /\ doomed = <<>>
    BY <1>4 DEF ConnectFails, Lifecycle
  <2>2. Range(doomed') = Range(conns) \cup {fresh} /\ Range(doomed) = {}
    BY <1>4, <2>1, RangeAppend, RangeEmpty DEF ConnectFails
  <2> QED
    BY <1>4, <2>2 DEF ConnectFails
<1>5. CASE ServerTooOld
  <2>1. fresh \in Workers /\ doomed = <<>>
    BY <1>5 DEF ServerTooOld, Lifecycle
  <2>2. Range(doomed') = {fresh} /\ Range(doomed) = {}
    BY <1>5, <2>1, RangeSingleton, RangeEmpty DEF ServerTooOld
  <2> QED
    BY <1>5, <2>2 DEF ServerTooOld
<1>6. CASE OpenSynchConnections
  BY <1>6 DEF OpenSynchConnections
<1>7. CASE Close
  <2>1. Range(doomed) = {}
    BY <1>7, RangeEmpty DEF Close, Lifecycle
  <2> QED
    BY <1>7, <2>1 DEF Close
<1>8. CASE GiveUp
  <2>1. Range(doomed) = {}
    BY <1>8, RangeEmpty DEF GiveUp, Lifecycle
  <2> QED
    BY <1>8, <2>1 DEF GiveUp
<1>9. CASE SetToken
  BY <1>9 DEF SetToken
<1>10. CASE CancelQueue
  BY <1>10 DEF CancelQueue
<1>11. CASE Join
  <2>1. Range(doomed) = {Head(doomed)} \cup Range(doomed')
    BY <1>11, RangeHeadTail DEF Join
  <2>2. thread' = [thread EXCEPT ![Head(doomed)] = "none"]
    BY <1>11 DEF Join
  <2>3. UNCHANGED <<conns, fresh>>
    BY <1>11 DEF Join
  <2> QED
    BY <2>1, <2>2, <2>3
<1>12. CASE Unwound
  BY <1>12 DEF Unwound
<1>13. ASSUME NEW op \in Ops, Enqueue(op) PROVE NoWorkerOutlivesItsConnection'
  BY <1>13 DEF Enqueue
<1>14. ASSUME NEW w \in Workers, WorkerStep(w) \/ Wake(w)
       PROVE  NoWorkerOutlivesItsConnection'
  <2>1. UNCHANGED <<conns, fresh, doomed>>
    BY <1>14 DEF WorkerStep, Block, Wake, Take, TakeNothing, Exit, Begin, Execute
  <2>2. CASE UNCHANGED thread
    BY <2>1, <2>2
  <2>3. CASE thread[w] # "none" /\ \E place : thread' = [thread EXCEPT ![w] = place]
    BY <2>1, <2>3
  <2> QED
    BY <1>14, <2>2, <2>3
       DEF WorkerStep, Block, Wake, Take, TakeNothing, Exit, Begin, Execute
<1>15. CASE UNCHANGED vars
  BY <1>15 DEF vars
<1> QED
  BY <1>1, <1>2, <1>3, <1>4, <1>5, <1>6, <1>7, <1>8, <1>9, <1>10, <1>11, <1>12, <1>13,
     <1>14, <1>15 DEF Next, Opening, Closing

\* No DatabaseWorker thread runs on a connection whose destruction is over: the failure
\* paths of OpenConnections and Close join every thread that a constructor has started.
THEOREM WorkersAreOwned == Spec => []NoWorkerOutlivesItsConnection
<1>1. Ownership => NoWorkerOutlivesItsConnection
  BY DEF Ownership
<1> QED
  BY <1>1, TypeInit, TypeStep, OwnershipInit, OwnershipStep, PTL DEF Spec

--------------------------------------------------------------------------------
(* Operations.                                                              *)

\* A worker that had nothing gets an operation.
LEMMA HandTakes ==
    ASSUME TypeInv, NEW w \in Workers, NEW op \in Ops, job[w] = NoOp,
           job' = [job EXCEPT ![w] = op], NoOp \notin Ops
    PROVE  InHand' = InHand \cup {op}
BY DEF InHand, TypeInv, TypeOK

\* A worker lets go of an operation that no other one holds.
LEMMA HandGives ==
    ASSUME TypeInv, NEW w \in Workers, job' = [job EXCEPT ![w] = NoOp],
           \A v, u \in Workers : v # u /\ job[v] = job[u] => job[v] = NoOp
    PROVE  /\ InHand' = InHand \ {job[w]}
           /\ \A v, u \in Workers : v # u /\ job'[v] = job'[u] => job'[v] = NoOp
<1> USE DEF InHand, TypeInv, TypeOK
<1>1. \A v \in Workers : job'[v] = IF v = w THEN NoOp ELSE job[v]
  OBVIOUS
<1>2. \A v, u \in Workers : v # u /\ job'[v] = job'[u] => job'[v] = NoOp
  BY <1>1
<1>3. InHand' = InHand \ {job[w]}
  BY <1>1
<1> QED
  BY <1>2, <1>3

\* The accounts do not change when the queue, the jobs and the histories do not.
LEMMA NothingMoves ==
    ASSUME OpAccounting, UNCHANGED <<queue, job, issued, executed, dropped>>
    PROVE  OpAccounting'
BY DEF OpAccounting, InHand

\* Cancel moves what is queued to what is dropped.
LEMMA CancelMoves ==
    ASSUME TypeInv, OpAccounting, Queue!Cancel, dropped' = dropped \cup Range(queue),
           UNCHANGED <<job, issued, executed>>
    PROVE  OpAccounting'
<1>1. queue' = <<>> /\ InHand' = InHand
  BY DEF Queue!Cancel, InHand
<1>2. Range(queue') = {} /\ IsInjective(queue')
  BY <1>1, RangeEmpty, InjectiveEmpty
<1> QED
  BY <1>1, <1>2 DEF OpAccounting

\* A new pool has been given no operation.
LEMMA AccountingInit == Init => OpAccounting
<1> SUFFICES ASSUME Init PROVE OpAccounting
  OBVIOUS
<1>1. queue = <<>> /\ issued = <<>> /\ executed = <<>> /\ dropped = {} /\ InHand = {}
  BY DEF Init, Queue!QueueInit, InHand
<1> QED
  BY <1>1, RangeEmpty, InjectiveEmpty DEF OpAccounting, Init

\* Every action moves an operation from one place to the next, or none.
LEMMA AccountingStep ==
    TypeInv /\ Ownership /\ OpAccounting /\ [Next]_vars => OpAccounting'
<1> SUFFICES ASSUME TypeInv, Ownership, OpAccounting, [Next]_vars PROVE OpAccounting'
  OBVIOUS
<1> USE PoolAssumption DEF queueVars, mainVars, workerVars, history
<1>t. /\ queue \in Seq(Ops) /\ issued \in Seq(Ops) /\ executed \in Seq(Ops)
      /\ job \in [Workers -> Ops \cup {NoOp}]
  BY DEF TypeInv, TypeOK, Queue!QueueTypeOK
<1>1. CASE Open
  BY <1>1, NothingMoves DEF Open
<1>2. CASE ConstructConnection
  \* the new worker's number is free, so it held nothing
  <2> DEFINE w == Len(conns) + 1
  <2>1. w \in Workers /\ fresh = 0 /\ phase = "opening"
    BY <1>2 DEF ConstructConnection, Workers, TypeInv, TypeOK
  <2>2. doomed = <<>>
    BY <2>1 DEF Ownership, Lifecycle
  <2>3. w \notin Range(conns) \cup {fresh} \cup Range(doomed)
    BY <2>1, <2>2, RangeEmpty DEF Ownership, Lifecycle, Range, TypeInv, TypeOK
  <2>4. thread[w] = "none"
    BY <2>1, <2>3 DEF Ownership, NoWorkerOutlivesItsConnection
  <2>5. job[w] = NoOp
    BY <2>1, <2>4 DEF TypeInv, JobInHand
  <2>6. UNCHANGED job
    BY <1>2, <1>t, <2>1, <2>5 DEF ConstructConnection
  <2> QED
    BY <1>2, <2>6, NothingMoves DEF ConstructConnection
<1>3. CASE ConnectSucceeds
  BY <1>3, NothingMoves DEF ConnectSucceeds
<1>4. CASE ConnectFails
  BY <1>4, NothingMoves DEF ConnectFails
<1>5. CASE ServerTooOld
  BY <1>5, NothingMoves DEF ServerTooOld
<1>6. CASE OpenSynchConnections
  BY <1>6, NothingMoves DEF OpenSynchConnections
<1>7. CASE Close
  BY <1>7, NothingMoves DEF Close
<1>8. CASE GiveUp
  BY <1>8, CancelMoves DEF GiveUp
<1>9. CASE SetToken
  BY <1>9, NothingMoves DEF SetToken
<1>10. CASE CancelQueue
  BY <1>10, CancelMoves DEF CancelQueue
<1>11. CASE Join
  BY <1>11, NothingMoves DEF Join
<1>12. CASE Unwound
  BY <1>12, NothingMoves DEF Unwound
<1>13. ASSUME NEW op \in Ops, Enqueue(op) PROVE OpAccounting'
  <2>1. /\ op \notin Range(issued)
        /\ queue' = Append(queue, op) /\ issued' = Append(issued, op)
        /\ UNCHANGED <<executed, dropped, job>> /\ InHand' = InHand
    BY <1>13 DEF Enqueue, Queue!Push, InHand
  <2>2. op \notin Range(queue) \cup InHand \cup Range(executed) \cup dropped
    BY <2>1 DEF OpAccounting
  <2>3. /\ Range(queue') = Range(queue) \cup {op}
        /\ Range(issued') = Range(issued) \cup {op}
        /\ IsInjective(queue')
    BY <1>t, <2>1, <2>2, RangeAppend, InjectiveAppend DEF OpAccounting
  <2> QED
    BY <2>1, <2>2, <2>3 DEF OpAccounting
<1>14. ASSUME NEW w \in Workers, Block(w) PROVE OpAccounting'
  BY <1>14, NothingMoves DEF Block, Queue!WaitAndPopBlocks
<1>15. ASSUME NEW w \in Workers, Wake(w) PROVE OpAccounting'
  BY <1>15, NothingMoves DEF Wake, Queue!SpuriousWakeup
<1>16. ASSUME NEW w \in Workers, Take(w) PROVE OpAccounting'
  <2> DEFINE op == Head(queue)
  <2>1. /\ queue # <<>> /\ queue' = Tail(queue)
        /\ job' = [job EXCEPT ![w] = op]
        /\ UNCHANGED <<issued, executed, dropped>>
    BY <1>16 DEF Take, Queue!WaitAndPopTakes
  <2>2. job[w] = NoOp
    BY <1>16 DEF Take, TypeInv, JobInHand
  <2>3. /\ op \in Ops /\ op \notin Range(queue')
        /\ Range(queue) = {op} \cup Range(queue')
        /\ IsInjective(queue')
    BY <1>t, <2>1, RangeHeadTail, InjectiveTail DEF OpAccounting
  <2>4. op \notin InHand
    BY <2>3 DEF OpAccounting
  <2> HIDE DEF op
  <2>5. InHand' = InHand \cup {op}
    BY <2>1, <2>2, <2>3, HandTakes
  <2>6. \A v, u \in Workers : v # u /\ job'[v] = job'[u] => job'[v] = NoOp
    BY <1>t, <2>1, <2>4 DEF OpAccounting, InHand
  <2> QED
    BY <2>1, <2>3, <2>4, <2>5, <2>6 DEF OpAccounting
<1>17. ASSUME NEW w \in Workers, TakeNothing(w) PROVE OpAccounting'
  BY <1>17, NothingMoves DEF TakeNothing, Queue!WaitAndPopCancelled
<1>18. ASSUME NEW w \in Workers, Exit(w) PROVE OpAccounting'
  <2>1. /\ job' = [job EXCEPT ![w] = NoOp]
        /\ dropped' = dropped \cup ({job[w]} \ {NoOp})
        /\ UNCHANGED <<queue, issued, executed>>
    BY <1>18 DEF Exit
  <2>2. /\ InHand' = InHand \ {job[w]}
        /\ \A v, u \in Workers : v # u /\ job'[v] = job'[u] => job'[v] = NoOp
    BY <2>1, HandGives DEF OpAccounting
  <2>3. CASE job[w] = NoOp
    <3>1. dropped' = dropped /\ InHand' = InHand
      BY <2>1, <2>2, <2>3 DEF InHand
    <3> QED
      BY <2>1, <2>2, <3>1 DEF OpAccounting
  <2>4. CASE job[w] # NoOp
    <3>1. dropped' = dropped \cup {job[w]} /\ job[w] \in InHand
      BY <2>1, <2>4 DEF InHand
    <3> QED
      BY <2>1, <2>2, <3>1 DEF OpAccounting
  <2> QED
    BY <2>3, <2>4
<1>19. ASSUME NEW w \in Workers, Begin(w) PROVE OpAccounting'
  BY <1>19, NothingMoves DEF Begin
<1>20. ASSUME NEW w \in Workers, Execute(w) PROVE OpAccounting'
  <2> DEFINE op == job[w]
  <2>1. /\ job' = [job EXCEPT ![w] = NoOp]
        /\ executed' = Append(executed, op)
        /\ UNCHANGED <<queue, issued, dropped>>
    BY <1>20 DEF Execute
  <2>2. op # NoOp /\ op \in Ops /\ op \in InHand
    BY <1>20, <1>t DEF Execute, TypeInv, JobInHand, InHand
  <2>3. /\ InHand' = InHand \ {op}
        /\ \A v, u \in Workers : v # u /\ job'[v] = job'[u] => job'[v] = NoOp
    BY <2>1, HandGives DEF OpAccounting
  <2> HIDE DEF op
  <2>4. Range(executed') = Range(executed) \cup {op} /\ IsInjective(executed')
    BY <1>t, <2>1, <2>2, RangeAppend, InjectiveAppend DEF OpAccounting
  <2> QED
    BY <2>1, <2>2, <2>3, <2>4 DEF OpAccounting
<1>21. CASE UNCHANGED vars
  BY <1>21, NothingMoves DEF vars
<1> QED
  BY <1>1, <1>2, <1>3, <1>4, <1>5, <1>6, <1>7, <1>8, <1>9, <1>10, <1>11, <1>12, <1>13,
     <1>14, <1>15, <1>16, <1>17, <1>18, <1>19, <1>20, <1>21
     DEF Next, Opening, Closing, WorkerStep

\* No operation is lost from view, executed or deleted twice, or held by two workers,
\* whatever the number of workers and wherever Cancel and the destructors cut in.
THEOREM OperationsAccounted == Spec => []OpAccounting
  BY TypeInit, TypeStep, OwnershipInit, OwnershipStep, AccountingInit, AccountingStep, PTL
     DEF Spec

--------------------------------------------------------------------------------
(* Order.                                                                   *)

\* The queue is the end of what has been enqueued, element by element.
QueueIsSuffix ==
    /\ Len(queue) <= Len(issued)
    /\ \A i \in 1..Len(queue) : queue[i] = issued[Len(issued) - Len(queue) + i]

\* The queue grows and shrinks with what is enqueued and taken, and Cancel empties it.
LEMMA SuffixStep == TypeInv /\ QueueIsSuffix /\ [Next]_vars => QueueIsSuffix'
<1> SUFFICES ASSUME TypeInv, QueueIsSuffix, [Next]_vars PROVE QueueIsSuffix'
  OBVIOUS
<1> USE DEF QueueIsSuffix, queueVars, history
<1>t. queue \in Seq(Ops) /\ issued \in Seq(Ops)
  BY DEF TypeInv, TypeOK, Queue!QueueTypeOK
<1>1. CASE Opening \/ Close \/ SetToken \/ Join \/ Unwound
  BY <1>1 DEF Opening, Open, ConstructConnection, ConnectSucceeds, ConnectFails,
     ServerTooOld, OpenSynchConnections, Close, SetToken, Join, Unwound
<1>2. CASE GiveUp \/ CancelQueue
  BY <1>2, <1>t DEF GiveUp, CancelQueue, Queue!Cancel
<1>3. ASSUME NEW op \in Ops, Enqueue(op) PROVE QueueIsSuffix'
  <2>1. queue' = Append(queue, op) /\ issued' = Append(issued, op)
    BY <1>3 DEF Enqueue, Queue!Push
  <2>2. /\ Len(queue') = Len(queue) + 1 /\ Len(issued') = Len(issued) + 1
        /\ Len(queue) \in Nat /\ Len(issued) \in Nat
        /\ \A i \in 1..Len(queue) : queue'[i] = queue[i]
        /\ \A i \in 1..Len(issued) : issued'[i] = issued[i]
        /\ queue'[Len(queue')] = op /\ issued'[Len(issued')] = op
    BY <1>t, <2>1
  <2>3. ASSUME NEW i \in 1..Len(queue')
        PROVE  queue'[i] = issued'[Len(issued') - Len(queue') + i]
    <3>1. CASE i = Len(queue')
      BY <2>2, <3>1
    <3>2. CASE i \in 1..Len(queue)
      BY <2>2, <3>2
    <3> QED
      BY <2>2, <3>1, <3>2
  <2> QED
    BY <2>2, <2>3
<1>4. ASSUME NEW w \in Workers, Take(w) PROVE QueueIsSuffix'
  <2>1. queue # <<>> /\ queue' = Tail(queue) /\ UNCHANGED issued
    BY <1>4 DEF Take, Queue!WaitAndPopTakes
  <2>2. /\ Len(queue') = Len(queue) - 1 /\ Len(queue) \in Nat \ {0}
        /\ \A i \in 1..Len(queue') : queue'[i] = queue[i + 1]
    BY <1>t, <2>1
  <2> QED
    BY <1>t, <2>1, <2>2
<1>5. ASSUME NEW w \in Workers,
             Block(w) \/ TakeNothing(w) \/ Exit(w) \/ Begin(w) \/ Execute(w) \/ Wake(w)
      PROVE  QueueIsSuffix'
  BY <1>5 DEF Block, TakeNothing, Exit, Begin, Execute, Wake, Queue!WaitAndPopBlocks,
     Queue!WaitAndPopCancelled, Queue!SpuriousWakeup
<1>6. CASE UNCHANGED vars
  BY <1>6 DEF vars
<1> QED
  BY <1>1, <1>2, <1>3, <1>4, <1>5, <1>6 DEF Next, Closing, WorkerStep

\* Operations leave the queue in the order in which the server enqueued them, however many
\* workers take them.
THEOREM FirstInFirstOut == Spec => []QueueInIssueOrder
<1>1. Init => QueueIsSuffix
  BY DEF Init, Queue!QueueInit, QueueIsSuffix
<1>2. TypeInv /\ QueueIsSuffix => QueueInIssueOrder
  <2> SUFFICES ASSUME TypeInv, QueueIsSuffix PROVE QueueInIssueOrder
    OBVIOUS
  <2> DEFINE m == Len(issued) - Len(queue) + 1
             s == SubSeq(issued, m, Len(issued))
  <2>1. queue \in Seq(Ops) /\ issued \in Seq(Ops) /\ Len(queue) <= Len(issued)
    BY DEF TypeInv, TypeOK, Queue!QueueTypeOK, QueueIsSuffix
  <2>2. m \in 1..Len(issued) + 1 /\ Len(issued) \in Nat
    BY <2>1
  <2>3. /\ s \in Seq(Ops)
        /\ Len(s) = IF m <= Len(issued) THEN Len(issued) - m + 1 ELSE 0
        /\ \A i \in 1..Len(issued) - m + 1 : s[i] = issued[m + i - 1]
    BY <2>1, <2>2, SubSeqProperties
  <2>4. Len(s) = Len(queue)
    BY <2>1, <2>2, <2>3
  <2>5. \A i \in 1..Len(queue) : queue[i] = s[i]
    BY <2>1, <2>3 DEF QueueIsSuffix
  <2> QED
    BY <2>1, <2>3, <2>4, <2>5, SeqEqual DEF QueueInIssueOrder
<1> QED
  BY <1>1, <1>2, TypeInit, TypeStep, SuffixStep, PTL DEF Spec

--------------------------------------------------------------------------------
(* One worker.                                                              *)

\* With one worker (the default of the configuration file) operations complete in the
\* order in which they were enqueued: a save is never overtaken by a later one.
SingleWorkerOrder ==
    AsyncThreads = 1 => executed = SubSeq(issued, 1, Len(executed))

\* What the worker holds: one operation or none.
Held == IF job[1] = NoOp THEN 0 ELSE 1

\* What has been executed is the beginning of what was enqueued, and the worker holds the
\* next operation.  Until the queue is cancelled nothing is skipped between what the
\* worker holds and the queue, unless the worker has left already.
Progress ==
    /\ Len(executed) + Held <= Len(issued)
    /\ \A i \in 1..Len(executed) : executed[i] = issued[i]
    /\ job[1] # NoOp => job[1] = issued[Len(executed) + 1]
    /\ ~shutdown /\ thread[1] # "exited" =>
          Len(executed) + Held + Len(queue) = Len(issued)

\* A worker is joined when the queue has been cancelled.
JoinAfterCancel == step = "join" => shutdown

\* The invariant behind SingleWorkerOrder.
SingleInv == AsyncThreads = 1 /\ JoinAfterCancel /\ Progress /\ QueueIsSuffix

\* The first operation in the queue is the one that follows what the worker has had.
LEMMA SingleStep ==
    TypeInv /\ Ownership /\ OpAccounting /\ SingleInv /\ [Next]_vars => SingleInv'
<1> SUFFICES ASSUME TypeInv, Ownership, OpAccounting, SingleInv, [Next]_vars
             PROVE  JoinAfterCancel' /\ Progress'
  BY SuffixStep DEF SingleInv
<1> USE PoolAssumption DEF SingleInv, JoinAfterCancel, Progress, Held, queueVars, mainVars,
        workerVars, history
<1>t. /\ queue \in Seq(Ops) /\ issued \in Seq(Ops) /\ executed \in Seq(Ops)
      /\ job \in [Workers -> Ops \cup {NoOp}]
      /\ thread \in [Workers -> {"none", "pop", "popped", "execute", "exited"}]
      /\ conns \in Seq(Workers) /\ doomed \in Seq(Workers)
  BY DEF TypeInv, TypeOK, Queue!QueueTypeOK
<1>w. Workers = {1}
  BY DEF Workers
<1>1. CASE Open \/ ConnectSucceeds \/ ConnectFails \/ ServerTooOld \/ OpenSynchConnections
           \/ Close \/ SetToken \/ Unwound
  BY <1>1 DEF Open, ConnectSucceeds, ConnectFails, ServerTooOld, OpenSynchConnections,
     Close, SetToken, Unwound
<1>2. CASE ConstructConnection
  <2>1. Len(conns) + 1 = 1
    BY <1>2, <1>t DEF ConstructConnection
  <2>2. fresh = 0 /\ conns = <<>> /\ doomed = <<>>
    BY <1>2, <1>t, <2>1 DEF ConstructConnection, Ownership, Lifecycle
  <2>3. thread[1] = "none"
    BY <1>w, <2>2, RangeEmpty DEF Ownership, NoWorkerOutlivesItsConnection
  <2>4. job[1] = NoOp
    BY <1>w, <2>3 DEF TypeInv, JobInHand
  <2>5. job' = job /\ thread'[1] = "pop" /\ UNCHANGED <<queueVars, step, history>>
    BY <1>2, <1>t, <1>w, <2>1, <2>4 DEF ConstructConnection
  <2> QED
    BY <2>3, <2>5
<1>3. CASE GiveUp \/ CancelQueue
  BY <1>3 DEF GiveUp, CancelQueue, Queue!Cancel
<1>4. CASE Join
  <2>1. shutdown /\ UNCHANGED <<queueVars, job, history>> /\ step' = "token"
    BY <1>4 DEF Join
  <2> QED
    BY <2>1
<1>5. ASSUME NEW op \in Ops, Enqueue(op) PROVE JoinAfterCancel' /\ Progress'
  <2>1. /\ queue' = Append(queue, op) /\ issued' = Append(issued, op)
        /\ UNCHANGED <<shutdown, step, executed, job, thread>>
    BY <1>5 DEF Enqueue, Queue!Push
  <2>2. /\ Len(queue') = Len(queue) + 1 /\ Len(issued') = Len(issued) + 1
        /\ Len(queue) \in Nat /\ Len(issued) \in Nat /\ Len(executed) \in Nat
        /\ \A i \in 1..Len(issued) : issued'[i] = issued[i]
    BY <1>t, <2>1
  <2>3. Held \in {0, 1} /\ (job[1] # NoOp => Held = 1) /\ Held' = Held
    BY <2>1
  <2>4. \A i \in 1..Len(executed') : executed'[i] = issued'[i]
    BY <2>1, <2>2, <2>3
  <2>5. job'[1] # NoOp => job'[1] = issued'[Len(executed') + 1]
    BY <2>1, <2>2, <2>3
  <2>6. /\ Len(executed') + Held' <= Len(issued')
        /\ ~shutdown' /\ thread'[1] # "exited" =>
              Len(executed') + Held' + Len(queue') = Len(issued')
    <3>1. /\ Len(executed) + Held <= Len(issued)
          /\ ~shutdown /\ thread[1] # "exited" =>
                Len(executed) + Held + Len(queue) = Len(issued)
      OBVIOUS
    <3> HIDE DEF Held, Progress, SingleInv, JoinAfterCancel
    <3>2. Len(executed') = Len(executed) /\ thread' = thread /\ shutdown' = shutdown
      BY <2>1
    <3> QED
      BY <3>1, <3>2, <2>2, <2>3
  <2>7. JoinAfterCancel'
    BY <2>1
  <2> QED
    BY <2>4, <2>5, <2>6, <2>7
<1>6. ASSUME NEW w \in Workers, Block(w) \/ TakeNothing(w) \/ Begin(w) \/ Wake(w)
      PROVE  JoinAfterCancel' /\ Progress'
  <2>1. UNCHANGED <<queue, shutdown, step, issued, executed, job>>
    BY <1>6 DEF Block, TakeNothing, Begin, Wake, Queue!WaitAndPopBlocks,
       Queue!WaitAndPopCancelled, Queue!SpuriousWakeup
  <2>2. thread[1] = "exited" => thread'[1] = "exited"
    BY <1>6, <1>w, <1>t DEF Block, TakeNothing, Begin, Wake
  <2> QED
    BY <2>1, <2>2
<1>7. ASSUME NEW w \in Workers, Take(w) PROVE JoinAfterCancel' /\ Progress'
  <2>1. /\ w = 1 /\ job[1] = NoOp /\ thread[1] = "pop" /\ thread'[1] = "popped"
        /\ queue # <<>> /\ ~shutdown /\ queue' = Tail(queue)
        /\ UNCHANGED <<shutdown, step, issued, executed>>
    BY <1>7, <1>t, <1>w DEF Take, Queue!WaitAndPopTakes, TypeInv, JobInHand
  <2>2. job'[1] = queue[1] /\ queue[1] \in Ops /\ job'[1] # NoOp
    BY <1>7, <1>t, <2>1 DEF Take
  <2>3. /\ Len(queue) \in Nat \ {0} /\ Len(queue') = Len(queue) - 1
        /\ Len(executed) \in Nat /\ Len(issued) \in Nat
    BY <1>t, <2>1
  <2>4. Len(executed) + Len(queue) = Len(issued)
    BY <2>1
  <2>5. queue[1] = issued[Len(executed) + 1]
    BY <2>3, <2>4 DEF QueueIsSuffix
  <2> QED
    BY <2>1, <2>2, <2>3, <2>4, <2>5
<1>8. ASSUME NEW w \in Workers, Exit(w) PROVE JoinAfterCancel' /\ Progress'
  <2>1. /\ job'[1] = NoOp /\ thread'[1] = "exited"
        /\ UNCHANGED <<queue, shutdown, step, issued, executed>>
    BY <1>8, <1>t, <1>w DEF Exit
  <2>2. Len(executed) \in Nat /\ Len(issued) \in Nat
    BY <1>t
  <2> QED
    BY <2>1, <2>2
<1>9. ASSUME NEW w \in Workers, Execute(w) PROVE JoinAfterCancel' /\ Progress'
  <2>1. /\ job[1] # NoOp /\ job[1] \in Ops /\ job'[1] = NoOp
        /\ thread[1] = "execute" /\ thread'[1] = "pop"
        /\ executed' = Append(executed, job[1])
        /\ UNCHANGED <<queue, shutdown, step, issued>>
    BY <1>9, <1>t, <1>w DEF Execute, TypeInv, JobInHand
  <2>2. /\ Len(executed') = Len(executed) + 1
        /\ Len(executed) \in Nat /\ Len(issued) \in Nat /\ Len(queue) \in Nat
        /\ \A i \in 1..Len(executed) : executed'[i] = executed[i]
        /\ executed'[Len(executed')] = job[1]
    BY <1>t, <2>1
  <2>3. ASSUME NEW i \in 1..Len(executed') PROVE executed'[i] = issued'[i]
    <3>1. CASE i = Len(executed')
      BY <2>1, <2>2, <3>1
    <3>2. CASE i \in 1..Len(executed)
      BY <2>1, <2>2, <3>2
    <3> QED
      BY <2>2, <3>1, <3>2
  <2> QED
    BY <2>1, <2>2, <2>3
<1>10. CASE UNCHANGED vars
  BY <1>10 DEF vars
<1> QED
  BY <1>1, <1>2, <1>3, <1>4, <1>5, <1>6, <1>7, <1>8, <1>9, <1>10
     DEF Next, Opening, Closing, WorkerStep

\* With one worker operations complete in the order of their enqueueing, however the pool
\* is opened, and wherever it is closed they stop without a gap.
THEOREM OneWorkerKeepsOrder == Spec => []SingleWorkerOrder
<1>1. Init /\ AsyncThreads = 1 => SingleInv
  BY DEF Init, Queue!QueueInit, SingleInv, JoinAfterCancel, Progress, Held, QueueIsSuffix,
     Workers
<1>2. TypeInv /\ SingleInv => SingleWorkerOrder
  <2> SUFFICES ASSUME TypeInv, SingleInv PROVE executed = SubSeq(issued, 1, Len(executed))
    BY DEF SingleWorkerOrder
  <2> DEFINE s == SubSeq(issued, 1, Len(executed))
  <2>1. /\ executed \in Seq(Ops) /\ issued \in Seq(Ops)
        /\ Len(executed) \in Nat /\ Len(executed) <= Len(issued)
    BY DEF TypeInv, TypeOK, SingleInv, Progress, Held
  <2>2. \A i \in 1..Len(executed) : issued[i] \in Ops
    BY <2>1
  <2>3. /\ s \in Seq(Ops) /\ Len(s) = Len(executed)
        /\ \A i \in 1..Len(executed) : s[i] = issued[i]
    BY <2>1, <2>2, SubSeqProperties
  <2>4. \A i \in 1..Len(executed) : executed[i] = s[i]
    BY <2>3 DEF SingleInv, Progress
  <2> QED
    BY <2>1, <2>3, <2>4, SeqEqual
<1>3. CASE AsyncThreads = 1
  BY <1>1, <1>2, <1>3, TypeInit, TypeStep, OwnershipInit, OwnershipStep, AccountingInit,
     AccountingStep, SingleStep, PTL DEF Spec
<1>4. CASE AsyncThreads # 1
  <2>1. SingleWorkerOrder
    BY <1>4 DEF SingleWorkerOrder
  <2> QED
    BY <2>1, PTL
<1> QED
  BY <1>3, <1>4

--------------------------------------------------------------------------------
(* Sleepers.                                                                *)

\* The workers that look at the queue, or are about to.
Looking == {w \in Workers : thread[w] = "pop"} \ waiting

\* Only a worker inside of WaitAndPop waits; nobody waits once the queue is shut down;
\* and while somebody waits, enough workers look at the queue for what is in it.
SleepInv ==
    /\ \A w \in waiting : thread[w] = "pop"
    /\ shutdown => waiting = {}
    /\ waiting # {} => Cardinality(Looking) >= Len(queue)

\* Some of the workers are finitely many.
LEMMA WorkersFinite ==
    ASSUME NEW S \in SUBSET Workers
    PROVE  IsFiniteSet(S) /\ Cardinality(S) \in Nat
<1>1. IsFiniteSet(Workers)
  <2>1. 1 \in Int /\ AsyncThreads \in Int
    BY PoolAssumption
  <2> QED
    BY <2>1, FS_Interval DEF Workers
<1>2. IsFiniteSet(S)
  BY <1>1, FS_Subset
<1> QED
  BY <1>2, FS_CardinalityType

\* One more worker looks at the queue.
LEMMA OneLooks ==
    ASSUME NEW w \in Workers, w \notin Looking, Looking' = Looking \cup {w}
    PROVE  Cardinality(Looking') = Cardinality(Looking) + 1
<1>1. Looking \in SUBSET Workers
  BY DEF Looking
<1> QED
  BY <1>1, WorkersFinite, FS_AddElement

\* One worker less looks at the queue.
LEMMA OneLeaves ==
    ASSUME NEW w \in Looking, Looking' = Looking \ {w}
    PROVE  Cardinality(Looking') = Cardinality(Looking) - 1
<1>1. Looking \in SUBSET Workers
  BY DEF Looking
<1> QED
  BY <1>1, WorkersFinite, FS_RemoveElement

\* A pool that has no workers yet.
LEMMA SleepInit == Init => SleepInv
BY DEF Init, Queue!QueueInit, SleepInv

\* Push wakes a sleeper for what it adds, and a worker takes away one operation when it
\* stops looking.
LEMMA SleepStep == TypeInv /\ Ownership /\ SleepInv /\ [Next]_vars => SleepInv'
<1> SUFFICES ASSUME TypeInv, Ownership, SleepInv, [Next]_vars PROVE SleepInv'
  OBVIOUS
<1> USE PoolAssumption DEF queueVars, mainVars, workerVars, history
<1>t. /\ queue \in Seq(Ops) /\ waiting \in SUBSET Workers
      /\ thread \in [Workers -> {"none", "pop", "popped", "execute", "exited"}]
      /\ conns \in Seq(Workers) /\ doomed \in Seq(Workers) /\ fresh \in Workers \cup {0}
  BY DEF TypeInv, TypeOK, Queue!QueueTypeOK
<1>n. Cardinality(Looking) \in Nat /\ Len(queue) \in Nat
  BY <1>t, WorkersFinite DEF Looking
<1>s. ASSUME UNCHANGED <<queue, shutdown, waiting, thread>> PROVE SleepInv'
  BY <1>s DEF SleepInv, Looking
<1>1. CASE Open \/ ConnectSucceeds \/ ConnectFails \/ ServerTooOld \/ OpenSynchConnections
           \/ Close \/ SetToken \/ Unwound
  BY <1>1, <1>s DEF Open, ConnectSucceeds, ConnectFails, ServerTooOld, OpenSynchConnections,
     Close, SetToken, Unwound
<1>2. CASE ConstructConnection
  <2> DEFINE w == Len(conns) + 1
  <2>1. w \in Workers /\ fresh = 0 /\ phase = "opening"
    BY <1>2, <1>t DEF ConstructConnection, Workers
  <2>2. doomed = <<>>
    BY <2>1 DEF Ownership, Lifecycle
  <2>3. w \notin Range(conns) \cup {fresh} \cup Range(doomed)
    BY <1>t, <2>1, <2>2, RangeEmpty DEF Ownership, Lifecycle, Range
  <2>4. thread[w] = "none"
    BY <2>1, <2>3 DEF Ownership, NoWorkerOutlivesItsConnection
  <2>5. thread' = [thread EXCEPT ![w] = "pop"] /\ UNCHANGED <<queue, shutdown, waiting>>
    BY <1>2 DEF ConstructConnection
  <2>6. w \notin waiting /\ w \notin Looking
    BY <2>4 DEF SleepInv, Looking
  <2> HIDE DEF w
  <2>7. Looking' = Looking \cup {w}
    BY <1>t, <2>1, <2>5, <2>6 DEF Looking
  <2>8. Cardinality(Looking') = Cardinality(Looking) + 1
    BY <2>1, <2>6, <2>7, OneLooks
  <2>9. \A v \in waiting' : thread'[v] = "pop"
    BY <1>t, <2>5 DEF SleepInv
  <2> QED
    BY <1>n, <2>5, <2>8, <2>9 DEF SleepInv
<1>3. CASE GiveUp \/ CancelQueue
  BY <1>3 DEF GiveUp, CancelQueue, Queue!Cancel, SleepInv
<1>4. CASE Join
  <2>1. /\ thread[Head(doomed)] = "exited" /\ Head(doomed) \in Workers
        /\ thread' = [thread EXCEPT ![Head(doomed)] = "none"]
        /\ UNCHANGED <<queue, shutdown, waiting>>
    BY <1>4, <1>t, RangeHeadTail DEF Join
  <2>2. Looking' = Looking
    BY <1>t, <2>1 DEF Looking
  <2> QED
    BY <1>t, <2>1, <2>2 DEF SleepInv
<1>5. ASSUME NEW op \in Ops, Enqueue(op) PROVE SleepInv'
  <2>1. /\ Len(queue') = Len(queue) + 1 /\ UNCHANGED <<shutdown, thread>>
        /\ \/ waiting = {} /\ waiting' = {}
           \/ \E c \in waiting : waiting' = waiting \ {c}
    BY <1>5, <1>t DEF Enqueue, Queue!Push, Queue!NotifyOne
  <2>2. CASE waiting' = {}
    BY <2>1, <2>2 DEF SleepInv
  <2>3. ASSUME NEW c \in waiting, waiting' = waiting \ {c} PROVE SleepInv'
    <3>1. c \in Workers /\ c \notin Looking /\ Looking' = Looking \cup {c}
      BY <1>t, <2>1, <2>3 DEF Looking, SleepInv
    <3>2. Cardinality(Looking') = Cardinality(Looking) + 1
      BY <3>1, OneLooks
    <3>3. shutdown => waiting' = {}
      BY <2>3 DEF SleepInv
    <3> QED
      BY <1>n, <2>1, <2>3, <3>2, <3>3 DEF SleepInv
  <2> QED
    BY <2>1, <2>2, <2>3
<1>6. ASSUME NEW w \in Workers, Block(w) PROVE SleepInv'
  <2>1. /\ queue = <<>> /\ queue' = queue /\ ~shutdown' /\ thread[w] = "pop"
        /\ waiting' = waiting \cup {w} /\ UNCHANGED thread
    BY <1>6 DEF Block, Queue!WaitAndPopBlocks
  <2>2. Cardinality(Looking') \in Nat
    <3>1. Looking' \in SUBSET Workers
      BY DEF Looking, Workers
    <3> QED
      BY <3>1, WorkersFinite
  <2>3. Len(queue') = 0
    BY <2>1
  <2> QED
    BY <2>1, <2>2, <2>3 DEF SleepInv
<1>7. ASSUME NEW w \in Workers, Wake(w) PROVE SleepInv'
  <2>1. /\ w \in waiting /\ waiting' = waiting \ {w}
        /\ UNCHANGED <<queue, shutdown, thread>>
    BY <1>7 DEF Wake, Queue!SpuriousWakeup
  <2>2. w \notin Looking /\ Looking' = Looking \cup {w}
    BY <1>t, <2>1 DEF Looking, SleepInv
  <2>3. Cardinality(Looking') = Cardinality(Looking) + 1
    BY <2>2, OneLooks
  <2> QED
    BY <1>n, <2>1, <2>3 DEF SleepInv
<1>8. ASSUME NEW w \in Workers, Take(w) PROVE SleepInv'
  <2>1. /\ w \notin waiting /\ thread[w] = "pop" /\ Len(queue') = Len(queue) - 1
        /\ thread' = [thread EXCEPT ![w] = "popped"]
        /\ UNCHANGED <<shutdown, waiting>>
    BY <1>8, <1>t DEF Take, Queue!WaitAndPopTakes
  <2>2. w \in Looking /\ Looking' = Looking \ {w}
    BY <1>t, <2>1 DEF Looking
  <2>3. Cardinality(Looking') = Cardinality(Looking) - 1
    BY <2>2, OneLeaves
  <2>4. Len(queue') \in Int
    BY <1>n, <2>1
  <2> QED
    BY <1>n, <1>t, <2>1, <2>3, <2>4 DEF SleepInv
<1>9. ASSUME NEW w \in Workers, TakeNothing(w) PROVE SleepInv'
  <2>1. shutdown /\ shutdown' = shutdown /\ waiting' = waiting
    BY <1>9 DEF TakeNothing, Queue!WaitAndPopCancelled
  <2> QED
    BY <2>1 DEF SleepInv
<1>10. ASSUME NEW w \in Workers, Exit(w) \/ Begin(w) PROVE SleepInv'
  <2>1. /\ thread[w] = "popped" /\ UNCHANGED <<queue, shutdown, waiting>>
        /\ \E place \in {"exited", "execute"} : thread' = [thread EXCEPT ![w] = place]
    BY <1>10 DEF Exit, Begin
  <2>2. Looking' = Looking
    BY <1>t, <2>1 DEF Looking
  <2> QED
    BY <1>t, <2>1, <2>2 DEF SleepInv
<1>11. ASSUME NEW w \in Workers, Execute(w) PROVE SleepInv'
  <2>1. /\ thread[w] = "execute" /\ thread' = [thread EXCEPT ![w] = "pop"]
        /\ UNCHANGED <<queue, shutdown, waiting>>
    BY <1>11 DEF Execute
  <2>2. w \notin waiting /\ w \notin Looking /\ Looking' = Looking \cup {w}
    BY <1>t, <2>1 DEF Looking, SleepInv
  <2>3. Cardinality(Looking') = Cardinality(Looking) + 1
    BY <2>2, OneLooks
  <2> QED
    BY <1>n, <1>t, <2>1, <2>3 DEF SleepInv
<1>12. CASE UNCHANGED vars
  BY <1>12, <1>s DEF vars
<1> QED
  BY <1>1, <1>2, <1>3, <1>4, <1>5, <1>6, <1>7, <1>8, <1>9, <1>10, <1>11, <1>12
     DEF Next, Opening, Closing, WorkerStep

\* One notification per Push is enough for any number of workers: no worker sleeps while
\* there is an operation that no other worker is about to fetch, and none sleeps on a queue
\* that Cancel has shut down.
THEOREM NobodySleepsOnWork == Spec => []NoIdleWorker
<1>1. SleepInv => NoIdleWorker
  BY DEF SleepInv, NoIdleWorker, Looking
<1> QED
  BY <1>1, TypeInit, TypeStep, OwnershipInit, OwnershipStep, SleepInit, SleepStep, PTL
     DEF Spec

--------------------------------------------------------------------------------
(* The promise.                                                             *)

\* Only an open pool is given operations, and the worker of a connection that is in the
\* pool has not been told to leave.
AcceptInv ==
    /\ issued # <<>> => phase \in {"open", "closing", "closed"}
    /\ token \cap (Range(conns) \cup {fresh}) = {}
    /\ Range(doomed) \cap Range(conns) = {}

\* A new pool has been given nothing.
LEMMA AcceptInit == Init => AcceptInv
BY RangeEmpty DEF Init, AcceptInv

\* Connections are numbered, so that the number of a new one is not in use, and its worker
\* is told to leave only when it is to be destroyed.
LEMMA AcceptStep ==
    TypeInv /\ Ownership /\ OpAccounting /\ AcceptInv /\ [Next]_vars => AcceptInv'
<1> SUFFICES ASSUME TypeInv, Ownership, OpAccounting, AcceptInv, [Next]_vars
             PROVE  AcceptInv'
  OBVIOUS
<1> USE PoolAssumption DEF AcceptInv, queueVars, mainVars, workerVars, history
<1>t. /\ conns \in Seq(Workers) /\ doomed \in Seq(Workers) /\ fresh \in Workers \cup {0}
      /\ token \in SUBSET Workers /\ Workers \subseteq Nat \ {0} /\ issued \in Seq(Ops)
  BY DEF TypeInv, TypeOK, Workers
<1>l. /\ fresh # 0 => phase = "opening" /\ fresh = Len(conns) + 1 /\ doomed = <<>>
      /\ doomed # <<>> => phase \in {"unwinding", "closing"} /\ fresh = 0
      /\ \A i \in DOMAIN conns : conns[i] = i
  BY DEF Ownership, Lifecycle
<1>f. Len(conns) + 1 \notin Range(conns)
  BY <1>t, <1>l DEF Range
<1>e. Range(<<>>) = {}
  BY RangeEmpty
<1>1. CASE Open
  <2>1. /\ phase \in {"new", "failed"}
        /\ UNCHANGED <<issued, token, conns, fresh, doomed>>
    BY <1>1 DEF Open, Recoverable
  <2> QED
    BY <2>1
<1>2. CASE ConstructConnection
  <2>1. /\ fresh' = Len(conns) + 1 /\ token' = token \ {fresh'}
        /\ UNCHANGED <<issued, phase, conns, doomed>>
    BY <1>2 DEF ConstructConnection
  <2> QED
    BY <2>1
<1>3. CASE ConnectSucceeds
  <2>1. /\ fresh \in Workers /\ fresh # 0 /\ fresh' = 0 /\ conns' = Append(conns, fresh)
        /\ phase' \in {"synch", "opening"} /\ UNCHANGED <<issued, token, doomed>>
    BY <1>3, <1>t DEF ConnectSucceeds
  <2>2. Range(conns') = Range(conns) \cup {fresh}
    BY <1>t, <2>1, RangeAppend
  <2>3. 0 \notin token /\ doomed = <<>> /\ issued = <<>>
    BY <1>t, <1>l, <2>1
  <2> QED
    BY <1>e, <2>1, <2>2, <2>3
<1>4. CASE ConnectFails
  <2>1. /\ fresh # 0 /\ fresh' = 0 /\ conns' = <<>> /\ UNCHANGED <<issued, token>>
    BY <1>4 DEF ConnectFails
  <2>2. 0 \notin token /\ issued = <<>>
    BY <1>t, <1>l, <2>1
  <2> QED
    BY <1>e, <2>1, <2>2
<1>5. CASE ServerTooOld
  <2>1. /\ fresh # 0 /\ fresh' = 0 /\ doomed' = <<fresh>>
        /\ UNCHANGED <<issued, token, conns>>
    BY <1>5 DEF ServerTooOld
  <2>2. 0 \notin token /\ issued = <<>> /\ fresh \notin Range(conns)
    BY <1>t, <1>l, <1>f, <2>1
  <2>3. Range(doomed') = {fresh}
    BY <2>1, RangeSingleton
  <2> QED
    BY <2>1, <2>2, <2>3
<1>6. CASE OpenSynchConnections
  <2>1. issued = <<>> /\ UNCHANGED <<issued, token, conns, fresh, doomed>>
    BY <1>6 DEF OpenSynchConnections
  <2> QED
    BY <2>1
<1>7. CASE Close \/ GiveUp
  <2>1. /\ phase' = "closing" /\ conns' = <<>> /\ phase \in {"open", "failed"}
        /\ UNCHANGED <<issued, fresh, token>>
    BY <1>7 DEF Close, GiveUp
  <2> QED
    BY <1>e, <2>1
<1>8. CASE SetToken
  <2>1. /\ doomed # <<>> /\ token' = token \cup {Head(doomed)}
        /\ UNCHANGED <<issued, phase, conns, fresh, doomed>>
    BY <1>8 DEF SetToken
  <2>2. Head(doomed) \in Range(doomed) /\ Head(doomed) \in Workers
    BY <1>t, <2>1, RangeHeadTail
  <2>3. Head(doomed) # fresh
    BY <1>t, <1>l, <2>1, <2>2
  <2> QED
    BY <2>1, <2>2, <2>3
<1>9. CASE CancelQueue
  BY <1>9 DEF CancelQueue
<1>10. CASE Join
  <2>1. doomed # <<>> /\ doomed' = Tail(doomed) /\ UNCHANGED <<issued, phase, conns, fresh, token>>
    BY <1>10 DEF Join
  <2>2. Range(doomed') \subseteq Range(doomed)
    BY <1>t, <2>1, RangeHeadTail
  <2> QED
    BY <2>1, <2>2
<1>11. CASE Unwound
  <2>1. UNCHANGED <<issued, conns, fresh, doomed, token>>
    BY <1>11 DEF Unwound
  <2>2. phase = "unwinding" => issued = <<>>
    OBVIOUS
  <2> QED
    BY <1>11, <2>1, <2>2 DEF Unwound
<1>12. ASSUME NEW op \in Ops, Enqueue(op) PROVE AcceptInv'
  BY <1>12 DEF Enqueue
<1>13. ASSUME NEW w \in Workers, WorkerStep(w) \/ Wake(w) PROVE AcceptInv'
  BY <1>13 DEF WorkerStep, Block, Wake, Take, TakeNothing, Exit, Begin, Execute
<1>14. CASE UNCHANGED vars
  BY <1>14 DEF vars
<1> QED
  BY <1>1, <1>2, <1>3, <1>4, <1>5, <1>6, <1>7, <1>8, <1>9, <1>10, <1>11, <1>12, <1>13,
     <1>14 DEF Next, Opening, Closing, WorkerStep

\* What is handed over and not settled.
Pending == Range(queue) \cup InHand

\* Nothing is pending before a pool has been opened for use.
LEMMA NothingPending ==
    ASSUME TypeInv, OpAccounting, AcceptInv, phase \notin {"open", "closing", "closed"}
    PROVE  Pending = {}
<1>1. Range(issued) = {}
  BY RangeEmpty DEF AcceptInv
<1> QED
  BY <1>1 DEF OpAccounting, Pending

\* A step that neither settles nor adds an operation, nor begins to close the pool.
LEMMA Stutters ==
    ASSUME Pending' = Pending, UNCHANGED <<executed, dropped>>,
           phase \in {"closing", "closed"} <=> phase' \in {"closing", "closed"}
    PROVE  UNCHANGED Promise!vars
BY DEF Promise!vars, Pending

\* Every step of the pool is one that AsyncExecutor allows, or none.
LEMMA PromiseStep ==
    TypeInv /\ Ownership /\ OpAccounting /\ AcceptInv /\ [Next]_vars
        => [Promise!Next]_(Promise!vars)
<1> SUFFICES ASSUME TypeInv, Ownership, OpAccounting, AcceptInv, [Next]_vars
             PROVE  Promise!Next \/ UNCHANGED Promise!vars
  OBVIOUS
<1> USE PoolAssumption DEF queueVars, mainVars, workerVars, history
<1>t. /\ queue \in Seq(Ops) /\ issued \in Seq(Ops) /\ executed \in Seq(Ops)
      /\ job \in [Workers -> Ops \cup {NoOp}]
  BY DEF TypeInv, TypeOK, Queue!QueueTypeOK
<1>p. Pending \subseteq Ops
  BY <1>t, RangeType DEF Pending, InHand
<1>s. ASSUME UNCHANGED <<queue, job, executed, dropped>>,
             phase \in {"closing", "closed"} <=> phase' \in {"closing", "closed"}
      PROVE  UNCHANGED Promise!vars
  BY <1>s, Stutters DEF Pending, InHand
<1>1. CASE Open \/ ConnectSucceeds \/ ConnectFails \/ ServerTooOld \/ OpenSynchConnections
           \/ SetToken \/ Join \/ Unwound
  <2>1. UNCHANGED <<queue, job, executed, dropped>>
    BY <1>1 DEF Open, ConnectSucceeds, ConnectFails, ServerTooOld, OpenSynchConnections,
       SetToken, Join, Unwound
  <2>2. phase \in {"closing", "closed"} <=> phase' \in {"closing", "closed"}
    BY <1>1 DEF Open, Recoverable, ConnectSucceeds, ConnectFails, ServerTooOld,
       OpenSynchConnections, SetToken, Join, Unwound, Ownership, Lifecycle
  <2> QED
    BY <1>s, <2>1, <2>2
<1>2. CASE ConstructConnection
  <2> DEFINE w == Len(conns) + 1
  <2>1. w \in Workers /\ fresh = 0 /\ phase = "opening"
    BY <1>2 DEF ConstructConnection, Workers, TypeInv, TypeOK
  <2>2. doomed = <<>>
    BY <2>1 DEF Ownership, Lifecycle
  <2>3. w \notin Range(conns) \cup {fresh} \cup Range(doomed)
    BY <2>1, <2>2, RangeEmpty DEF Ownership, Lifecycle, Range, TypeInv, TypeOK
  <2>4. thread[w] = "none"
    BY <2>1, <2>3 DEF Ownership, NoWorkerOutlivesItsConnection
  <2>5. job[w] = NoOp
    BY <2>1, <2>4 DEF TypeInv, JobInHand
  <2>6. UNCHANGED <<queue, job, executed, dropped, phase>>
    BY <1>2, <1>t, <2>1, <2>5 DEF ConstructConnection
  <2> QED
    BY <1>s, <2>6
<1>3. CASE Close
  <2>1. /\ phase = "open" /\ phase' = "closing"
        /\ UNCHANGED <<queue, job, executed, dropped>>
    BY <1>3 DEF Close
  <2>2. Promise!Stop
    BY <2>1 DEF Promise!Stop, InHand
  <2> QED
    BY <2>2 DEF Promise!Next
<1>4. CASE GiveUp
  <2>1. /\ phase = "failed" /\ phase' = "closing" /\ queue' = <<>>
        /\ dropped' = dropped \cup Range(queue) /\ UNCHANGED <<job, executed>>
    BY <1>4 DEF GiveUp, Queue!Cancel
  <2>2. Range(queue) = {} /\ Range(queue') = {}
    BY <2>1, NothingPending, RangeEmpty DEF Pending
  <2>3. Promise!Stop
    BY <2>1, <2>2 DEF Promise!Stop, InHand
  <2> QED
    BY <2>3 DEF Promise!Next
<1>5. CASE CancelQueue
  <2>1. /\ phase \in {"unwinding", "closing"} /\ queue' = <<>>
        /\ dropped' = dropped \cup Range(queue) /\ UNCHANGED <<job, executed, phase>>
    BY <1>5 DEF CancelQueue, Queue!Cancel, Ownership, Lifecycle
  <2>2. InHand' = InHand /\ Range(queue') = {} /\ Range(queue) \cap InHand = {}
    BY <2>1, RangeEmpty DEF InHand, OpAccounting
  <2>3. CASE Range(queue) = {}
    <3>1. Pending' = Pending /\ dropped' = dropped
      BY <2>1, <2>2, <2>3 DEF Pending
    <3> QED
      BY <2>1, <3>1, Stutters
  <2>4. CASE Range(queue) # {}
    <3>1. phase = "closing"
      BY <2>1, <2>4, NothingPending DEF Pending
    <3>2. Pending' = Pending \ Range(queue)
      BY <2>2 DEF Pending
    <3>3. Promise!Discard(Range(queue))
      BY <2>1, <2>4, <3>1, <3>2 DEF Promise!Discard, Pending
    <3>4. Range(queue) \in SUBSET Pending
      BY DEF Pending
    <3> QED
      BY <3>3, <3>4 DEF Promise!Next, Pending
  <2> QED
    BY <2>3, <2>4
<1>6. ASSUME NEW op \in Ops, Enqueue(op) PROVE Promise!Next
  <2>1. /\ phase = "open" /\ op \notin Range(issued) /\ queue' = Append(queue, op)
        /\ UNCHANGED <<phase, executed, dropped, job>> /\ InHand' = InHand
    BY <1>6 DEF Enqueue, Queue!Push, InHand
  <2>2. Range(queue') = Range(queue) \cup {op}
    BY <1>t, <2>1, RangeAppend
  <2>3. op \notin Pending \cup Range(executed) \cup dropped
    BY <2>1 DEF OpAccounting, Pending
  <2>4. Promise!Submit(op)
    BY <2>1, <2>2, <2>3 DEF Promise!Submit, Pending
  <2> QED
    BY <2>4 DEF Promise!Next
<1>7. ASSUME NEW w \in Workers, Block(w) \/ TakeNothing(w) \/ Begin(w) \/ Wake(w)
      PROVE  UNCHANGED Promise!vars
  BY <1>7, <1>s DEF Block, TakeNothing, Begin, Wake, Queue!WaitAndPopBlocks,
     Queue!WaitAndPopCancelled, Queue!SpuriousWakeup
<1>8. ASSUME NEW w \in Workers, Take(w) PROVE UNCHANGED Promise!vars
  <2> DEFINE op == Head(queue)
  <2>1. /\ queue # <<>> /\ queue' = Tail(queue)
        /\ job' = [job EXCEPT ![w] = op]
        /\ UNCHANGED <<phase, executed, dropped>>
    BY <1>8 DEF Take, Queue!WaitAndPopTakes
  <2>2. job[w] = NoOp
    BY <1>8 DEF Take, TypeInv, JobInHand
  <2>3. op \in Ops /\ Range(queue) = {op} \cup Range(queue')
    BY <1>t, <2>1, RangeHeadTail
  <2> HIDE DEF op
  <2>4. InHand' = InHand \cup {op}
    BY <2>1, <2>2, <2>3, HandTakes
  <2>5. Pending' = Pending
    BY <2>3, <2>4 DEF Pending
  <2> QED
    BY <2>1, <2>5, Stutters
<1>9. ASSUME NEW w \in Workers, Exit(w) PROVE Promise!Next \/ UNCHANGED Promise!vars
  <2>1. /\ thread[w] = "popped" /\ (w \in token \/ job[w] = NoOp)
        /\ job' = [job EXCEPT ![w] = NoOp]
        /\ dropped' = dropped \cup ({job[w]} \ {NoOp})
        /\ UNCHANGED <<queue, phase, executed>>
    BY <1>9 DEF Exit
  <2>2. CASE job[w] = NoOp
    <3>1. UNCHANGED <<queue, job, executed, dropped, phase>>
      BY <1>t, <2>1, <2>2
    <3> QED
      BY <1>s, <3>1
  <2>3. CASE job[w] # NoOp
    <3> DEFINE op == job[w]
    <3>1. op \in InHand /\ dropped' = dropped \cup {op} /\ InHand' = InHand \ {op}
      <4>1. InHand' = InHand \ {op}
        BY <2>1, HandGives DEF OpAccounting
      <4> QED
        BY <2>1, <2>3, <4>1 DEF InHand
    <3>2. op \in Pending /\ Pending' = Pending \ {op}
      BY <2>1, <3>1 DEF Pending, OpAccounting
    <3>3. phase \in {"closing", "closed"}
      <4>1. phase \in {"open", "closing", "closed"}
        BY <3>2, NothingPending
      <4>2. phase = "open" => doomed = <<>> /\ fresh = 0
        BY DEF Ownership, Lifecycle
      <4>3. phase = "open" => w \in Range(conns) \cup {fresh}
        <5>1. w \in Range(conns) \cup {fresh} \cup Range(doomed)
          <6>1. thread[w] # "none"
            BY <2>1
          <6> QED
            BY <6>1 DEF Ownership, NoWorkerOutlivesItsConnection
        <5>2. phase = "open" => Range(doomed) = {}
          BY <4>2, RangeEmpty
        <5> QED
          BY <5>1, <5>2
      <4> QED
        BY <2>1, <2>3, <4>1, <4>3 DEF AcceptInv
    <3> HIDE DEF op
    <3>4. Promise!Discard({op})
      BY <2>1, <3>1, <3>2, <3>3 DEF Promise!Discard, Pending
    <3>5. {op} \in SUBSET Pending
      BY <3>2
    <3> QED
      BY <3>4, <3>5 DEF Promise!Next, Pending
  <2> QED
    BY <2>2, <2>3
<1>10. ASSUME NEW w \in Workers, Execute(w) PROVE Promise!Next
  <2> DEFINE op == job[w]
  <2>1. /\ job' = [job EXCEPT ![w] = NoOp] /\ executed' = Append(executed, op)
        /\ UNCHANGED <<queue, phase, dropped>>
    BY <1>10 DEF Execute
  <2>2. op # NoOp /\ op \in Ops /\ op \in InHand
    BY <1>10, <1>t DEF Execute, TypeInv, JobInHand, InHand
  <2>3. InHand' = InHand \ {op}
    BY <2>1, HandGives DEF OpAccounting
  <2> HIDE DEF op
  <2>4. Range(executed') = Range(executed) \cup {op}
    BY <1>t, <2>1, <2>2, RangeAppend
  <2>5. op \in Pending /\ Pending' = Pending \ {op}
    BY <2>1, <2>2, <2>3 DEF Pending, OpAccounting
  <2>6. Promise!Perform(op)
    BY <2>1, <2>4, <2>5 DEF Promise!Perform, Pending
  <2> QED
    BY <2>2, <2>6 DEF Promise!Next
<1>11. CASE UNCHANGED vars
  BY <1>11, <1>s DEF vars
<1> QED
  BY <1>1, <1>2, <1>3, <1>4, <1>5, <1>6, <1>7, <1>8, <1>9, <1>10, <1>11
     DEF Next, Opening, Closing, WorkerStep

\* The safety part of KeepsPromise: an operation handed to an open pool is performed once,
\* and only a pool that has begun to close discards any, whatever its number of workers,
\* and although the queue is cancelled, and workers leave, in the middle of it.
THEOREM PromiseIsKept == Spec => Promise!Init /\ [][Promise!Next]_(Promise!vars)
<1>1. Init => Promise!Init
  <2> SUFFICES ASSUME Init PROVE Promise!Init
    OBVIOUS
  <2>1. Range(queue) = {} /\ Range(executed) = {} /\ InHand = {}
    BY RangeEmpty DEF Init, Queue!QueueInit, InHand
  <2> QED
    BY <2>1 DEF Init, Promise!Init
<1> QED
  BY <1>1, TypeInit, TypeStep, OwnershipInit, OwnershipStep, AccountingInit, AccountingStep,
     AcceptInit, AcceptStep, PromiseStep, PTL DEF Spec
================================================================================
