------------------------------- MODULE MCMPSCQueue -------------------------------
(* Two producers for TLC, with fewer addresses than objects queued.         *)
EXTENDS MPSCQueue

CONSTANTS p1, p2, x1, x2, x3, n0, n1, n2, n3

TwoProducers == {p1, p2}
ThreeItems == {x1, x2, x3}
FourNodes == {n0, n1, n2, n3}
================================================================================
