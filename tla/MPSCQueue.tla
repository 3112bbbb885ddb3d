-------------------------------- MODULE MPSCQueue --------------------------------
(***************************************************************************)
(* The template MPSCQueue<T, IntrusiveLink> of                             *)
(* src/common/Threading/MPSCQueue.h: the queue that links the objects when *)
(* the type names a member to link them by, else the one that allocates    *)
(* nodes.  Its users see one interface, and rely on the same promise.      *)
(***************************************************************************)
EXTENDS Naturals, Sequences

CONSTANTS
    Items, Producers, Null, MaxEnqueues,    \* of both
    Dummy,                                  \* of the intrusive queue
    Nodes, FirstNode                        \* of the queue with nodes

VARIABLES
    intrusive,                      \* IntrusiveLink != nullptr
    head, tail, pc, prev,           \* of both
    result, queued, count,
    link, item, cpc, cprev,         \* of the intrusive queue
    next, data, live, node          \* of the queue with nodes

linkVars == <<link, item, cpc, cprev>>
nodeVars == <<next, data, live, node>>
vars == <<intrusive, head, tail, pc, prev, result, queued, count, linkVars, nodeVars>>

Linked == INSTANCE MPSCQueueIntrusive
Noded == INSTANCE MPSCQueueNonIntrusive

ASSUME QueueAssumption == Linked!Addresses /\ Noded!Addresses

TypeOK == IF intrusive THEN Linked!TypeOK ELSE Noded!TypeOK

Init ==
    \/ /\ intrusive = TRUE /\ Linked!Init
       /\ next = Null /\ data = Null /\ live = Null /\ node = Null
    \/ /\ intrusive = FALSE /\ Noded!Init
       /\ link = Null /\ item = Null /\ cpc = Null /\ cprev = Null

Chosen(linkedStep, nodedStep) ==
    /\ \/ intrusive /\ linkedStep /\ UNCHANGED nodeVars
       \/ ~intrusive /\ nodedStep /\ UNCHANGED linkVars
    /\ UNCHANGED intrusive

Dequeue == Chosen(Linked!Dequeue, Noded!Dequeue)

Enqueue(p) == Chosen(Linked!Enqueue(p), Noded!Enqueue(p))

Next == Chosen(Linked!Next, Noded!Next)

\* A started Enqueue is finished, and the consumer polls for ever.
Spec ==
    Init /\ [][Next]_vars /\ WF_vars(Dequeue) /\ \A p \in Producers : WF_vars(Enqueue(p))

--------------------------------------------------------------------------------
(* Properties                                                               *)

\* Nobody is about to write to memory the consumer has given away: an object that was
\* handed out and deleted, or a node that was freed.
NoWriteAfterRelease == IF intrusive THEN Linked!NoWriteAfterDelivery ELSE Noded!NoUseAfterFree

\* Either is a queue: what went in first comes out first, and everything comes out.
Fifo == INSTANCE MPSCFifo

ImplementsFifo == Fifo!Spec
================================================================================
