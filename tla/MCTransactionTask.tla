--------------------------- MODULE MCTransactionTask ---------------------------
(* The operations, two asynchronous connections and a synchronous one for TLC.              *)
EXTENDS TransactionTask, TLC

CONSTANTS save, trade, nothing, auction, ping, a1, a2, s1, null

\* A character save, a trade of two statements and an empty transaction are handed to
\* the workers, an auction is committed directly, a ping is a statement on its own.
SomeTasks == {save, trade}
AllTasks == {save, trade, nothing}
OneTask == {save}
OneDirect == {auction}
OneSingle == {ping}
TwoAsync == {a1, a2}
OneAsync == {a1}
OneSync == {s1}
None == {}
Lengths ==
    [o \in Operations |->
        IF o = nothing THEN 0 ELSE IF o = ping THEN 1 ELSE 2]

================================================================================
