------------------------------ MODULE MCMapUpdater ------------------------------
(* A continent, a dungeon with two instances and a map without players for  *)
(* TLC, updated by three threads.                                           *)
EXTENDS MapUpdater

CONSTANTS azeroth, dungeon, arathi, i1, i2, w1, w2, w3, null

ThreeMaps == {azeroth, dungeon, arathi}
TwoInstances == {i1, i2}
Parents == [i \in Instances |-> dungeon]
ThreeThreads == {w1, w2, w3}
================================================================================
