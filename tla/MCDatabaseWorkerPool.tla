-------------------------- MODULE MCDatabaseWorkerPool --------------------------
(* Small pools for TLC: the operations are model values.                    *)
EXTENDS DatabaseWorkerPool

CONSTANTS save1, save2, save3, null

TwoOps == {save1, save2}
ThreeOps == {save1, save2, save3}
================================================================================
