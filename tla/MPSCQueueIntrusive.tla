--------------------------- MODULE MPSCQueueIntrusive ---------------------------
(***************************************************************************)
(* The lock-free queue of src/common/Threading/MPSCQueue.h whose nodes are *)
(* the queued objects, one atomic operation per action.  Producers and     *)
(* consumer interleave at those operations; _tail is the consumer's own.   *)
(* An object that comes out is deleted at once and its memory may be the   *)
(* next object's.                                                          *)
(***************************************************************************)
EXTENDS Naturals, Sequences, Functions

CONSTANTS
    Items,          \* the addresses of the queued objects
    Producers,
    Dummy, Null,
    MaxEnqueues     \* bound: the objects ever queued

Addresses ==
    /\ Dummy \notin Items /\ Null \notin Items \cup {Dummy}
    /\ MaxEnqueues \in Nat

VARIABLES
    link,       \* the IntrusiveLink of every node
    head, tail, \* _head, _tail
    pc, item, prev,     \* each producer's place in Enqueue, its input and its prevHead
    cpc, cprev,         \* the consumer's place in Dequeue; prevHead of its Enqueue(_dummyPtr)
    result,     \* what the last successful Dequeue handed out
    queued,     \* history: what is in the queue, in the order of the exchanges
    count       \* history: the number of objects queued so far

producerVars == <<pc, item, prev>>
consumerVars == <<tail, cpc, cprev, result>>
vars == <<link, head, tail, pc, item, prev, cpc, cprev, result, queued, count>>

Linkable == Items \cup {Dummy}

TypeOK ==
    /\ link \in [Linkable -> Linkable \cup {Null}]
    /\ head \in Linkable /\ tail \in Linkable
    /\ pc \in [Producers -> {"idle", "exchange", "link"}]
    /\ item \in [Producers -> Items \cup {Null}]
    /\ prev \in [Producers -> Linkable \cup {Null}]
    /\ cpc \in {"idle", "second", "head", "clear", "exchange", "link", "again"}
    /\ cprev \in Linkable \cup {Null}
    /\ result \in Items \cup {Null}
    /\ queued \in Seq(Items)
    /\ count \in 0..MaxEnqueues

Init ==
    /\ link = [n \in Linkable |-> Null]
    /\ head = Dummy /\ tail = Dummy
    /\ pc = [p \in Producers |-> "idle"]
    /\ item = [p \in Producers |-> Null]
    /\ prev = [p \in Producers |-> Null]
    /\ cpc = "idle" /\ cprev = Null /\ result = Null
    /\ queued = <<>> /\ count = 0

--------------------------------------------------------------------------------
(* Enqueue, by a producer.                                                  *)

\* A new object is allocated and its link cleared.
ClearLink(p, i) ==
    /\ pc[p] = "idle" /\ count < MaxEnqueues
    /\ i \notin Range(queued) \cup Range(item)
    /\ link' = [link EXCEPT ![i] = Null]
    /\ item' = [item EXCEPT ![p] = i]
    /\ pc' = [pc EXCEPT ![p] = "exchange"]
    /\ count' = count + 1
    /\ UNCHANGED <<head, prev, consumerVars, queued>>

ExchangeHead(p) ==
    /\ pc[p] = "exchange"
    /\ prev' = [prev EXCEPT ![p] = head]
    /\ head' = item[p]
    /\ queued' = Append(queued, item[p])
    /\ pc' = [pc EXCEPT ![p] = "link"]
    /\ UNCHANGED <<link, item, consumerVars, count>>

LinkPrevious(p) ==
    /\ pc[p] = "link"
    /\ link' = [link EXCEPT ![prev[p]] = item[p]]
    /\ pc' = [pc EXCEPT ![p] = "idle"]
    /\ item' = [item EXCEPT ![p] = Null]
    /\ prev' = [prev EXCEPT ![p] = Null]
    /\ UNCHANGED <<head, consumerVars, queued, count>>

--------------------------------------------------------------------------------
(* Dequeue, by the consumer.                                                *)

\* return true: the object at _tail is handed out.
Deliver(next) ==
    /\ tail' = next
    /\ result' = tail
    /\ queued' = Tail(queued)
    /\ cpc' = "idle"

\* return false, or go on.
ConsumerAt(label) == cpc' = label /\ UNCHANGED <<tail, result, queued>>

\* tail has no successor: when it is also the head, it is the last object, and the dummy
\* goes behind it; otherwise a producer has not linked its object yet.
AtHead == IF head = tail THEN "clear" ELSE "idle"

\* The first load of tail's link.
LoadNext ==
    /\ cpc = "idle"
    /\ LET next == link[tail] IN
        \/ tail # Dummy /\ next # Null /\ Deliver(next)
        \/ tail # Dummy /\ next = Null /\ ConsumerAt("head")
        \/ tail = Dummy /\ next = Null /\ ConsumerAt("idle")
        \/ /\ tail = Dummy /\ next # Null
           /\ tail' = next
           /\ cpc' = "second"
           /\ UNCHANGED <<result, queued>>
    /\ UNCHANGED <<link, head, producerVars, cprev, count>>

\* Mutant: the object behind the dummy is handed out although it may be the last.
DeliverSecond ==
    /\ cpc = "second"
    /\ Deliver(IF link[tail] # Null THEN link[tail] ELSE Dummy)
    /\ UNCHANGED <<link, head, producerVars, cprev, count>>

\* The load that follows when the dummy has been passed.
LoadSecond ==
    /\ cpc = "second"
    /\ LET next == link[tail] IN
        IF next # Null THEN Deliver(next) ELSE ConsumerAt("head")
    /\ UNCHANGED <<link, head, producerVars, cprev, count>>

LoadHead ==
    /\ cpc = "head"
    /\ ConsumerAt(AtHead)
    /\ UNCHANGED <<link, head, producerVars, cprev, count>>

\* Enqueue(_dummyPtr)
ClearDummyLink ==
    /\ cpc = "clear"
    /\ link' = [link EXCEPT ![Dummy] = Null]
    /\ ConsumerAt("exchange")
    /\ UNCHANGED <<head, producerVars, cprev, count>>

ExchangeDummy ==
    /\ cpc = "exchange"
    /\ cprev' = head
    /\ head' = Dummy
    /\ ConsumerAt("link")
    /\ UNCHANGED <<link, producerVars, count>>

LinkDummy ==
    /\ cpc = "link"
    /\ link' = [link EXCEPT ![cprev] = Dummy]
    /\ cprev' = Null
    /\ ConsumerAt("again")
    /\ UNCHANGED <<head, producerVars, count>>

\* The last load: a producer may have come between, and not be done.
LoadAgain ==
    /\ cpc = "again"
    /\ LET next == link[tail] IN
        IF next # Null THEN Deliver(next) ELSE ConsumerAt("idle")
    /\ UNCHANGED <<link, head, producerVars, cprev, count>>

--------------------------------------------------------------------------------
Enqueue(p) == ExchangeHead(p) \/ LinkPrevious(p)

Dequeue ==
    LoadNext \/ LoadSecond \/ LoadHead \/ ClearDummyLink \/ ExchangeDummy \/ LinkDummy \/ LoadAgain

Next ==
    \/ \E p \in Producers, i \in Items : ClearLink(p, i)
    \/ \E p \in Producers : Enqueue(p)
    \/ Dequeue

--------------------------------------------------------------------------------
(* Properties                                                               *)

\* Nobody is about to write to an object that has been handed out (and deleted): the
\* predecessor a producer or the consumer still has to link is in the queue.
NoWriteAfterDelivery ==
    \A n \in Range(prev) \cup {cprev} : n # Null => n \in Range(queued) \cup {Dummy}
================================================================================
