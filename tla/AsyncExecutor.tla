------------------------------ MODULE AsyncExecutor ------------------------------
(***************************************************************************)
(* What DatabaseWorkerPool promises the server: an operation handed over   *)
(* while the pool accepts work is performed once, in the background; only  *)
(* a pool that is being closed may discard what it still holds.            *)
(***************************************************************************)
CONSTANT Ops

VARIABLES
    accepting,   \* the pool has not been told to close
    pending,     \* handed over and not settled
    performed,
    discarded

vars == <<accepting, pending, performed, discarded>>

Init ==
    /\ accepting = TRUE
    /\ pending = {} /\ performed = {} /\ discarded = {}

Submit(op) ==
    /\ accepting
    /\ op \notin pending \cup performed \cup discarded
    /\ pending' = pending \cup {op}
    /\ UNCHANGED <<accepting, performed, discarded>>

Perform(op) ==
    /\ op \in pending
    /\ pending' = pending \ {op}
    /\ performed' = performed \cup {op}
    /\ UNCHANGED <<accepting, discarded>>

Stop ==
    /\ accepting
    /\ accepting' = FALSE
    /\ UNCHANGED <<pending, performed, discarded>>

Discard(lost) ==
    /\ ~accepting
    /\ lost # {}
    /\ pending' = pending \ lost
    /\ discarded' = discarded \cup lost
    /\ UNCHANGED <<accepting, performed>>

Next ==
    \/ Stop
    \/ \E op \in Ops : Submit(op) \/ Perform(op)
    \/ \E lost \in SUBSET pending : Discard(lost)

Settle(op) == Perform(op) \/ \E lost \in SUBSET pending : op \in lost /\ Discard(lost)

\* Whatever is handed over is settled one way or the other.
Fairness == \A op \in Ops : WF_vars(Settle(op))

Spec == Init /\ [][Next]_vars /\ Fairness
================================================================================
