---------------------------- MODULE AtomicOperations ----------------------------
(***************************************************************************)
(* What the users of the database layer rely on: an operation takes effect *)
(* at one instant or never, and its outcome says which.  An operation that *)
(* meets a fault no outcome reports is spoiled, and nothing is promised of *)
(* it but that it touches no other.                                        *)
(***************************************************************************)
EXTENDS Integers, Sequences

CONSTANTS Operations, Length

VARIABLES
    stored,     \* the statements of each operation that are in the database
    outcome,
    spoiled,
    aborted     \* the process has ended

vars == <<stored, outcome, spoiled, aborted>>

Init ==
    /\ stored = [o \in Operations |-> <<>>]
    /\ outcome = [o \in Operations |-> "none"]
    /\ spoiled = {}
    /\ aborted = FALSE

\* The whole operation becomes visible.
TakeEffect(o) ==
    /\ outcome[o] = "none" /\ stored[o] = <<>>
    /\ stored' = [stored EXCEPT ![o] = [i \in 1..Length[o] |-> i]]
    /\ UNCHANGED <<outcome, spoiled, aborted>>

Succeed(o) ==
    /\ outcome[o] = "none"
    /\ stored[o] = [i \in 1..Length[o] |-> i]
    /\ outcome' = [outcome EXCEPT ![o] = "ok"]
    /\ UNCHANGED <<stored, spoiled, aborted>>

Fail(o) ==
    /\ outcome[o] = "none" /\ stored[o] = <<>>
    /\ outcome' = [outcome EXCEPT ![o] = "failed"]
    /\ UNCHANGED <<stored, spoiled, aborted>>

\* A step of o that leaves every other operation alone.
Affects(o) ==
    /\ outcome[o] = "none"
    /\ outcome' = [outcome EXCEPT ![o] = outcome'[o]]
    /\ stored' = [stored EXCEPT ![o] = stored'[o]]
    /\ UNCHANGED aborted

Spoil(o) ==
    /\ Affects(o)
    /\ spoiled' = spoiled \cup {o}

SpoiledStep(o) ==
    /\ o \in spoiled
    /\ Affects(o)
    /\ UNCHANGED spoiled

Abort ==
    /\ aborted' = TRUE
    /\ UNCHANGED <<stored, outcome, spoiled>>

Step(o) == TakeEffect(o) \/ Succeed(o) \/ Fail(o) \/ Spoil(o) \/ SpoiledStep(o)

Next == ~aborted /\ ((\E o \in Operations : Step(o)) \/ Abort)

Spec == Init /\ [][Next]_vars
================================================================================
