------------------------- MODULE ProducerConsumerQueue -------------------------
(***************************************************************************)
(* The blocking queue of src/common/Threading/ProducerConsumerQueue.h.     *)
(* Every method holds _queueLock from its first to its last line, except   *)
(* while it is blocked in _condition.wait, so each of them is one action   *)
(* here; WaitAndPop is cut in two at the wait.  The callers (the database  *)
(* worker pool and the map updater) supply the threads and say what they   *)
(* do with a value.                                                        *)
(***************************************************************************)
EXTENDS Naturals, Sequences

CONSTANTS
    Values,      \* what is queued
    Consumers    \* the threads that call WaitAndPop

VARIABLES
    queue,       \* _queue
    shutdown,    \* _shutdown
    waiting      \* the consumers blocked in _condition.wait

QueueTypeOK ==
    /\ queue \in Seq(Values)
    /\ shutdown \in BOOLEAN
    /\ waiting \in SUBSET Consumers

QueueInit ==
    /\ queue = <<>>
    /\ shutdown = FALSE
    /\ waiting = {}

\* Mutant: notify only when the queue was empty.
NotifyOneIfEmpty ==
    IF queue = <<>> /\ waiting # {}
    THEN \E c \in waiting : waiting' = waiting \ {c}
    ELSE UNCHANGED waiting

\* _condition.notify_one(): some waiting thread wakes; the call is lost when none waits.
NotifyOne ==
    \/ waiting = {} /\ UNCHANGED waiting
    \/ \E c \in waiting : waiting' = waiting \ {c}

\* Mutant: last in, first out.
PushFront(v) ==
    /\ queue' = <<v>> \o queue
    /\ NotifyOne
    /\ UNCHANGED shutdown

\* Push appends whether or not the queue has been shut down.
Push(v) ==
    /\ queue' = Append(queue, v)
    /\ NotifyOne
    /\ UNCHANGED shutdown

\* WaitAndPop finds nothing and blocks.
WaitAndPopBlocks(c) ==
    /\ c \notin waiting
    /\ queue = <<>> /\ ~shutdown
    /\ waiting' = waiting \cup {c}
    /\ UNCHANGED <<queue, shutdown>>

\* Mutant: front() without pop().
WaitAndPeek(c) ==
    /\ c \notin waiting
    /\ queue # <<>> /\ ~shutdown
    /\ UNCHANGED <<queue, shutdown, waiting>>

\* WaitAndPop returns the oldest value, Head(queue).
WaitAndPopTakes(c) ==
    /\ c \notin waiting
    /\ queue # <<>> /\ ~shutdown
    /\ queue' = Tail(queue)
    /\ UNCHANGED <<shutdown, waiting>>

\* WaitAndPop returns without having assigned its argument.
WaitAndPopCancelled(c) ==
    /\ c \notin waiting
    /\ shutdown
    /\ UNCHANGED <<queue, shutdown, waiting>>

\* _condition.wait may return although nobody notified; the loop tests again.
SpuriousWakeup(c) ==
    /\ c \in waiting
    /\ waiting' = waiting \ {c}
    /\ UNCHANGED <<queue, shutdown>>

\* Mutant: the sleepers are not notified.
CancelSilently ==
    /\ queue' = <<>>
    /\ shutdown' = TRUE
    /\ UNCHANGED waiting

\* Mutant: what is queued stays queued.
CancelLeaks ==
    /\ shutdown' = TRUE
    /\ waiting' = {}
    /\ UNCHANGED queue

\* Cancel deletes what is queued, then wakes everybody for good.
Cancel ==
    /\ queue' = <<>>
    /\ shutdown' = TRUE
    /\ waiting' = {}
================================================================================
