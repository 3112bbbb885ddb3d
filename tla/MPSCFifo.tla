-------------------------------- MODULE MPSCFifo --------------------------------
(***************************************************************************)
(* What the users of MPSCQueue (a socket's outgoing packets, a map's far   *)
(* spell callbacks) rely on: a Dequeue that succeeds hands out the value   *)
(* that has been inside for longest, and none stays inside for good.       *)
(***************************************************************************)
EXTENDS Naturals, Sequences, Functions

CONSTANTS Items, Null

VARIABLES
    queued,     \* what is inside, in the order in which it went in
    result      \* what was handed out last

Init == queued = <<>> /\ result = Null

Put(i) ==
    /\ i \notin Range(queued)
    /\ queued' = Append(queued, i)
    /\ UNCHANGED result

Get ==
    /\ queued # <<>>
    /\ result' = Head(queued)
    /\ queued' = Tail(queued)

Next == Get \/ \E i \in Items : Put(i)

Spec == Init /\ [][Next]_<<queued, result>> /\ WF_<<queued, result>>(Get)
================================================================================
