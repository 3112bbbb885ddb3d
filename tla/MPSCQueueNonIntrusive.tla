-------------------------- MODULE MPSCQueueNonIntrusive --------------------------
(***************************************************************************)
(* The lock-free queue of src/common/Threading/MPSCQueue.h that allocates  *)
(* its nodes, one atomic operation per action.  The consumer frees the     *)
(* node it leaves, which the allocator may hand to a producer at once.     *)
(***************************************************************************)
EXTENDS Naturals, Sequences, Functions

CONSTANTS
    Items,          \* what is queued, each while it is not in the queue
    Nodes,          \* the addresses of nodes
    Producers,
    Null,
    FirstNode,      \* the node the constructor allocates
    MaxEnqueues     \* bound: the values ever queued

Addresses ==
    /\ Null \notin Nodes \cup Items
    /\ FirstNode \in Nodes
    /\ MaxEnqueues \in Nat

VARIABLES
    next, data, \* Node::Next and Node::Data
    live,       \* the nodes that are allocated
    head, tail, \* _head, _tail
    pc, node, prev,     \* each producer's place in Enqueue, its node and its prevHead
    result,     \* what the last successful Dequeue handed out
    queued,     \* history: what is in the queue, in the order of the exchanges
    count       \* history: the number of values queued so far

vars == <<next, data, live, head, tail, pc, node, prev, result, queued, count>>

TypeOK ==
    /\ next \in [Nodes -> Nodes \cup {Null}]
    /\ data \in [Nodes -> Items \cup {Null}]
    /\ live \in SUBSET Nodes
    /\ head \in Nodes /\ tail \in Nodes
    /\ pc \in [Producers -> {"idle", "exchange", "link"}]
    /\ node \in [Producers -> Nodes \cup {Null}]
    /\ prev \in [Producers -> Nodes \cup {Null}]
    /\ result \in Items \cup {Null}
    /\ queued \in Seq(Items)
    /\ count \in 0..MaxEnqueues

Init ==
    /\ next = [n \in Nodes |-> Null]
    /\ data = [n \in Nodes |-> Null]
    /\ live = {FirstNode} /\ head = FirstNode /\ tail = FirstNode
    /\ pc = [p \in Producers |-> "idle"]
    /\ node = [p \in Producers |-> Null]
    /\ prev = [p \in Producers |-> Null]
    /\ result = Null /\ queued = <<>> /\ count = 0

\* new Node(input)
NewNode(p, n, i) ==
    /\ pc[p] = "idle" /\ count < MaxEnqueues
    /\ n \notin live
    /\ i \notin {data[m] : m \in live \ {tail}}
    /\ live' = live \cup {n}
    /\ next' = [next EXCEPT ![n] = Null]
    /\ data' = [data EXCEPT ![n] = i]
    /\ node' = [node EXCEPT ![p] = n]
    /\ pc' = [pc EXCEPT ![p] = "exchange"]
    /\ count' = count + 1
    /\ UNCHANGED <<head, tail, prev, result, queued>>

ExchangeHead(p) ==
    /\ pc[p] = "exchange"
    /\ prev' = [prev EXCEPT ![p] = head]
    /\ head' = node[p]
    /\ queued' = Append(queued, data[node[p]])
    /\ pc' = [pc EXCEPT ![p] = "link"]
    /\ UNCHANGED <<next, data, live, tail, node, result, count>>

LinkPrevious(p) ==
    /\ pc[p] = "link"
    /\ next' = [next EXCEPT ![prev[p]] = node[p]]
    /\ pc' = [pc EXCEPT ![p] = "idle"]
    /\ node' = [node EXCEPT ![p] = Null]
    /\ prev' = [prev EXCEPT ![p] = Null]
    /\ UNCHANGED <<data, live, head, tail, result, queued, count>>

\* Mutant: the end of the list is not tested for.
DequeueUnchecked ==
    /\ queued # <<>>
    /\ result' = IF next[tail] = Null THEN Null ELSE data[next[tail]]
    /\ tail' = next[tail]
    /\ live' = live \ {tail}
    /\ queued' = Tail(queued)
    /\ UNCHANGED <<next, data, head, pc, node, prev, count>>

\* Mutant: the value of the node that is freed is handed out.
DequeueOldTail ==
    /\ next[tail] # Null
    /\ result' = data[tail]
    /\ tail' = next[tail]
    /\ live' = live \ {tail}
    /\ queued' = Tail(queued)
    /\ UNCHANGED <<next, data, head, pc, node, prev, count>>

\* The load of tail->Next finds a node: its value is handed out and the old tail freed.
\* (When it finds none, Dequeue returns false and nothing changes.)
Dequeue ==
    /\ next[tail] # Null
    /\ result' = data[next[tail]]
    /\ tail' = next[tail]
    /\ live' = live \ {tail}
    /\ queued' = Tail(queued)
    /\ UNCHANGED <<next, data, head, pc, node, prev, count>>

Enqueue(p) == ExchangeHead(p) \/ LinkPrevious(p)

Next ==
    \/ \E p \in Producers, n \in Nodes, i \in Items : NewNode(p, n, i)
    \/ \E p \in Producers : Enqueue(p)
    \/ Dequeue

--------------------------------------------------------------------------------
(* Properties                                                               *)

\* Nobody is about to write to a node that has been freed, and the queue's own pointers
\* are to live nodes.
NoUseAfterFree ==
    {head, tail} \cup ((Range(prev) \cup Range(node)) \ {Null}) \subseteq live
================================================================================
