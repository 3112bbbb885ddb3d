-------------------------------- MODULE ForkJoin --------------------------------
(***************************************************************************)
(* What a world tick relies on: the maps are updated in parallel, each may *)
(* have further maps updated, and the world goes on when all are done.     *)
(***************************************************************************)
CONSTANT Maps

VARIABLES
    parallel,   \* map updates are in progress
    running     \* the maps whose update is not over

vars == <<parallel, running>>

Init == parallel = FALSE /\ running = {}

Fork ==
    /\ ~parallel
    /\ parallel' = TRUE
    /\ running' \in SUBSET Maps

\* The update of m has another map updated that is not running.
Spawn(m) ==
    /\ parallel
    /\ running # {} /\ m \notin running
    /\ running' = running \cup {m}
    /\ UNCHANGED parallel

Done(m) ==
    /\ m \in running
    /\ running' = running \ {m}
    /\ UNCHANGED parallel

Join ==
    /\ parallel /\ running = {}
    /\ parallel' = FALSE
    /\ UNCHANGED running

Next == Fork \/ Join \/ \E m \in Maps : Spawn(m) \/ Done(m)

\* Updates come to an end and the world goes on.
Fairness == WF_vars(Join) /\ \A m \in Maps : WF_vars(Done(m))

Spec == Init /\ [][Next]_vars /\ Fairness
================================================================================
