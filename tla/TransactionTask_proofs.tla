------------------------- MODULE TransactionTask_proofs -------------------------
(***************************************************************************)
(* Proofs about the execution of SQL operations, for any operations, any   *)
(* connections and any number of retries, reconnections and lost           *)
(* connections: no attempt leaves a transaction open, and whatever is not  *)
(* spoiled by a lost connection or a failed COMMIT is atomic and correctly *)
(* answered.                                                               *)
(*                                                                         *)
(* The invariant says, for each place of a thread, what the server's       *)
(* session has open and what of the operation is stored.                   *)
(***************************************************************************)
EXTENDS TransactionTask, TLAPS

Executing == {"begin", "statement", "rollback", "commit"}

\* The thread's own view of its operation.
Place(c) ==
    /\ pc[c] = "idle" <=> op[c] = Nobody
    /\ op[c] \in Tasks => c \in Async
    /\ pc[c] = "begin" => op[c] \in Transactions /\ Length[op[c]] > 0 /\ next[c] = 1
    /\ pc[c] = "statement" => next[c] \in 1..Length[op[c]]
    /\ pc[c] = "rollback" => op[c] \in Transactions
    /\ pc[c] = "commit" => op[c] \in Transactions /\ next[c] = Length[op[c]] + 1
    /\ pc[c] = "lock" => op[c] \in Tasks
    /\ pc[c] \in {"begin", "statement", "commit"} => err[c] = "none"
    /\ link[c] = "lost" => pc[c] \in Executing /\ op[c] \in spoiled

\* The server's session: what the attempt has executed so far, and nothing between attempts.
Session(c) ==
    /\ ~inTx[c] => buffer[c] = <<>>
    /\ inTx[c] =>
           /\ pc[c] \in {"statement", "rollback", "commit"} /\ link[c] = "up"
           /\ op[c] \in Transactions /\ next[c] >= 1
           /\ buffer[c] = [i \in 1..next[c] - 1 |-> i]

\* What is stored of an operation that is not spoiled: nothing, until it returns without an
\* error.  Its statements are executed in a transaction, unless there is no connection.
Effect(c) ==
    op[c] # Nobody =>
        /\ outcome[op[c]] = "none"
        /\ op[c] \notin spoiled =>
               /\ pc[c] \in Executing \cup {"lock"} => stored[op[c]] = <<>>
               /\ pc[c] = "statement" /\ op[c] \in Transactions => inTx[c] \/ link[c] = "null"
               /\ pc[c] = "commit" => inTx[c]
               /\ pc[c] = "rollback" => err[c] # "none"
               /\ pc[c] = "returned" =>
                      stored[op[c]] = IF err[c] = "none" THEN All(op[c]) ELSE <<>>

\* An operation is executed by one thread, and by none before it is given to it.
Given ==
    /\ \A c, d \in Connections : op[c] = op[d] /\ op[c] # Nobody => c = d
    /\ \A o \in Operations : o \notin Issued => stored[o] = <<>> /\ o \notin spoiled

ConnInv(c) == Place(c) /\ Session(c) /\ Effect(c)

TxInv == TypeOK /\ Given /\ \A c \in Connections : ConnInv(c)
--------------------------------------------------------------------------------
(* Sequences of statements.                                                 *)

\* A statement more in the buffer of a transaction.
LEMMA OneMoreStatement ==
    ASSUME NEW n \in Nat, n >= 1
    PROVE  Append([i \in 1..n - 1 |-> i], n) = [i \in 1..n |-> i]
<1> DEFINE s == [i \in 1..n - 1 |-> i]
           t == [i \in 1..n |-> i]
<1>1. s \in Seq(Nat) /\ Len(s) = n - 1
    OBVIOUS
<1>2. t \in Seq(Nat) /\ Len(t) = n
    OBVIOUS
<1>3. Append(s, n) \in Seq(Nat) /\ Len(Append(s, n)) = n
    BY <1>1
<1>4. ASSUME NEW i \in 1..n  PROVE  Append(s, n)[i] = t[i]
    BY <1>1, <1>4
<1> HIDE DEF s, t
<1>5. Append(s, n) = t
    BY <1>2, <1>3, <1>4
<1> QED BY <1>5 DEF s, t

\* What is added to nothing, and nothing added.
LEMMA NothingAdded ==
    ASSUME NEW s \in Seq(Nat)
    PROVE  <<>> \o s = s /\ s \o <<>> = s
OBVIOUS

\* All(o) is a sequence of statements; it is empty if o has none.
LEMMA AllOfIt ==
    ASSUME NEW o \in Operations
    PROVE  /\ Length[o] \in Nat
           /\ All(o) = [i \in 1..Length[o] |-> i]
           /\ All(o) \in Seq(Nat)
           /\ Length[o] = 0 => All(o) = <<>>
           /\ o \in Singles => Length[o] = 1 /\ All(o) = <<1>>
BY TransactionAssumption DEF All, Operations

--------------------------------------------------------------------------------
(* A thread's step, as the others see it.                                   *)

\* The connection c executes a step of o: the other threads and sessions, and what is
\* recorded of the other operations, stay as they are.
StepsOn(c, o) ==
    /\ op[c] = o \/ (op[c] = Nobody /\ o \notin Issued)
    /\ op'[c] = o \/ (op'[c] = Nobody /\ outcome'[o] # "none")
    /\ outcome[o] # "none" => outcome'[o] # "none"
    /\ \A d \in Connections \ {c} :
           /\ pc'[d] = pc[d] /\ op'[d] = op[d] /\ next'[d] = next[d] /\ err'[d] = err[d]
           /\ link'[d] = link[d] /\ inTx'[d] = inTx[d] /\ buffer'[d] = buffer[d]
    /\ \A p \in Operations \ {o} :
           /\ outcome'[p] = outcome[p] /\ stored'[p] = stored[p]
           /\ p \in spoiled' <=> p \in spoiled

\* Such a step keeps the invariant of the others, and an operation is still executed by
\* one thread only.
LEMMA OthersUndisturbed ==
    ASSUME TxInv, TypeOK', NEW c \in Connections, NEW o \in Operations, StepsOn(c, o)
    PROVE  Given' /\ \A d \in Connections \ {c} : ConnInv(d)'
<1>0. Nobody \notin Operations
    BY TransactionAssumption
<1>1. ASSUME NEW d \in Connections \ {c}  PROVE  op[d] # o
    <2>1. CASE op[c] = o
        BY <2>1, <1>0 DEF TxInv, Given
    <2>2. CASE op[c] = Nobody /\ o \notin Issued
        BY <2>2 DEF Issued
    <2> QED BY <2>1, <2>2 DEF StepsOn
<1>2. ASSUME NEW d \in Connections, NEW e \in Connections,
             op'[d] = op'[e], op'[d] # Nobody
      PROVE  d = e
    <2>1. CASE d # c /\ e # c
        BY <2>1, <1>2 DEF TxInv, Given, StepsOn
    <2>2. CASE d = c /\ e # c
        BY <2>2, <1>1, <1>2 DEF StepsOn
    <2>3. CASE d # c /\ e = c
        BY <2>3, <1>1, <1>2 DEF StepsOn
    <2> QED BY <2>1, <2>2, <2>3
<1>3. ASSUME NEW p \in Operations, p \notin Issued'
      PROVE  stored'[p] = <<>> /\ p \notin spoiled'
    <2>1. outcome'[p] = "none" /\ \A d \in Connections : op'[d] # p
        BY <1>3 DEF Issued
    <2>2. p # o
        BY <2>1 DEF StepsOn
    <2>3. p \notin Issued
        BY <2>1, <2>2, <1>0 DEF Issued, StepsOn
    <2> QED BY <2>2, <2>3 DEF TxInv, Given, StepsOn
<1>4. Given'
    BY <1>2, <1>3 DEF Given
<1>5. ASSUME NEW d \in Connections \ {c}  PROVE  ConnInv(d)'
    <2>1. ConnInv(d)
        BY DEF TxInv
    <2>2. /\ pc'[d] = pc[d] /\ op'[d] = op[d] /\ next'[d] = next[d] /\ err'[d] = err[d]
          /\ link'[d] = link[d] /\ inTx'[d] = inTx[d] /\ buffer'[d] = buffer[d]
        BY DEF StepsOn
    <2>3. op[d] \in Operations =>
              /\ outcome'[op[d]] = outcome[op[d]] /\ stored'[op[d]] = stored[op[d]]
              /\ op[d] \in spoiled' <=> op[d] \in spoiled
        BY <1>1 DEF StepsOn
    <2>4. op[d] \in Operations \cup {Nobody}
        BY DEF TxInv, TypeOK
    <2>5. Place(d)'
        BY <2>1, <2>2, <2>3, <2>4, <1>0 DEF ConnInv, Place, Executing
    <2>6. Session(d)'
        BY <2>1, <2>2 DEF ConnInv, Session
    <2>7. Effect(d)'
        BY <2>1, <2>2, <2>3, <2>4 DEF ConnInv, Effect, Executing, All
    <2> QED BY <2>5, <2>6, <2>7 DEF ConnInv
<1> QED BY <1>4, <1>5

\* What has to be shown of a step.
LEMMA StepKeepsInvariant ==
    ASSUME TxInv, NEW c \in Connections, NEW o \in Operations, StepsOn(c, o),
           TypeOK', ConnInv(c)'
    PROVE  TxInv'
<1>1. Given' /\ \A d \in Connections \ {c} : ConnInv(d)'
    BY OthersUndisturbed
<1>2. \A d \in Connections : ConnInv(d)'
    BY <1>1
<1> QED BY <1>1, <1>2 DEF TxInv
--------------------------------------------------------------------------------
(* The steps.                                                               *)

\* A thread that is not idle executes an operation that has no outcome yet.
LEMMA Occupied ==
    ASSUME TxInv, NEW c \in Connections, pc[c] # "idle"
    PROVE  /\ op[c] \in Operations /\ outcome[op[c]] = "none" /\ op[c] # Nobody
           /\ Length[op[c]] \in Nat /\ next[c] \in Nat
<1>1. TypeOK /\ Place(c) /\ Effect(c)
    BY DEF TxInv, ConnInv
<1>2. op[c] \in Operations
    BY <1>1 DEF TypeOK, Place
<1> QED BY <1>1, <1>2, TransactionAssumption DEF Effect, TypeOK

\* START TRANSACTION finds no transaction that it would commit.
LEMMA NothingLeftOpen ==
    ASSUME TxInv, NEW c \in Connections, BeginTransaction(c)
    PROVE  stored' = stored /\ buffer' = buffer
<1>1. TypeOK /\ Session(c)
    BY DEF TxInv, ConnInv
<1>2. pc[c] = "begin" /\ buffer[c] = <<>>
    BY <1>1 DEF BeginTransaction, Session
<1>3. PICK o \in Operations : o = op[c]
    BY <1>2, Occupied
<1>4. stored[o] \in Seq(Nat) /\ stored[o] \o buffer[c] = stored[o]
    BY <1>1, <1>2, NothingAdded DEF TypeOK
<1>5. CASE link[c] = "up" /\ ServerBegins(c)
    BY <1>1, <1>2, <1>3, <1>4, <1>5 DEF ServerBegins, TypeOK
<1>6. CASE link[c] = "null" /\ UNCHANGED serverVars
    BY <1>6 DEF serverVars
<1> QED BY <1>5, <1>6 DEF BeginTransaction

\* BeginTransaction.
LEMMA BeginKeeps ==
    ASSUME TxInv, NEW c \in Connections, BeginTransaction(c)
    PROVE  TxInv'
<1>1. pc[c] = "begin"
    BY DEF BeginTransaction
<1>2. TypeOK /\ Place(c) /\ Session(c) /\ Effect(c)
    BY DEF TxInv, ConnInv
<1>3. PICK o \in Operations : o = op[c]
    BY <1>1, Occupied
<1>4. /\ outcome[o] = "none" /\ o # Nobody /\ o \in Transactions /\ ~inTx[c]
      /\ Length[o] \in Nat \ {0} /\ next[c] = 1 /\ buffer[c] = <<>>
    BY <1>1, <1>2, <1>3, Occupied DEF Place, Session
<1>5. /\ pc' = [pc EXCEPT ![c] = "statement"] /\ stored' = stored /\ buffer' = buffer
      /\ UNCHANGED <<op, next, err, tries, linkVars, lock, aborted, answers>>
    BY NothingLeftOpen DEF BeginTransaction, Goto
<1>6. \/ link[c] = "up" /\ inTx' = [inTx EXCEPT ![c] = TRUE]
      \/ link[c] = "null" /\ inTx' = inTx
    BY DEF BeginTransaction, ServerBegins, serverVars
<1>7. TypeOK'
    BY <1>2, <1>5, <1>6 DEF TypeOK, linkVars, answers
<1>8. StepsOn(c, o)
    BY <1>2, <1>3, <1>5, <1>6 DEF StepsOn, TypeOK, linkVars, answers
<1>9. ConnInv(c)'
    <2>1. /\ pc'[c] = "statement" /\ op'[c] = o /\ next'[c] = 1 /\ err'[c] = "none"
          /\ link'[c] = link[c] /\ link[c] # "lost" /\ buffer'[c] = <<>>
          /\ inTx'[c] => link[c] = "up"
          /\ inTx'[c] \/ link[c] = "null"
          /\ stored'[o] = stored[o] /\ outcome'[o] = "none" /\ spoiled' = spoiled
        BY <1>1, <1>2, <1>3, <1>4, <1>5, <1>6 DEF Place, TypeOK, linkVars, answers
    <2>2. Place(c)'
        BY <1>2, <1>3, <1>4, <2>1 DEF Place
    <2>3. Session(c)'
        <3>1. <<>> = [i \in 1..1 - 1 |-> i]
            OBVIOUS
        <3> QED BY <1>4, <2>1, <3>1 DEF Session
    <2>4. Effect(c)'
        BY <1>1, <1>2, <1>3, <2>1 DEF Effect, Executing
    <2> QED BY <2>2, <2>3, <2>4 DEF ConnInv
<1> QED BY <1>7, <1>8, <1>9, StepKeepsInvariant

\* A statement outside of a transaction is the whole of its operation, unless the operation
\* is spoiled.
LEMMA StatementAutocommits ==
    ASSUME TxInv, NEW c \in Connections, StatementSucceeds(c), ~inTx[c],
           NEW o \in Operations, o = op[c]
    PROVE  /\ stored' = [stored EXCEPT ![o] = stored'[o]]
           /\ o \notin spoiled =>
                  o \in Singles /\ stored[o] = <<>> /\ stored'[o] = All(o)
<1>1. TypeOK /\ Place(c) /\ Effect(c)
    BY DEF TxInv, ConnInv
<1>2. pc[c] = "statement" /\ link[c] = "up" /\ o # Nobody
    BY Occupied DEF StatementSucceeds
<1>3. stored[o] \in Seq(Nat) /\ next[c] \in Nat
    BY <1>1 DEF TypeOK
<1>4. Append(stored[o], next[c]) \in Seq(Nat)
    BY <1>3
<1>5. PICK s \in Seq(Nat) : s = Append(stored[o], next[c])
    BY <1>4
<1>6. stored' = [stored EXCEPT ![o] = s] /\ stored'[o] = s
    BY <1>1, <1>5 DEF StatementSucceeds, ServerExecutes, TypeOK
<1>7. ASSUME o \notin spoiled
      PROVE  o \in Singles /\ stored[o] = <<>> /\ stored'[o] = All(o)
    <2>1. o \in Singles /\ stored[o] = <<>>
        BY <1>1, <1>2, <1>7 DEF Effect, Executing, Operations
    <2>2. Length[o] = 1 /\ All(o) = <<1>> /\ next[c] \in 1..Length[o]
        BY <1>1, <1>2, <2>1, AllOfIt DEF Place
    <2> QED BY <1>5, <1>6, <2>1, <2>2
<1> QED BY <1>6, <1>7

\* Execute(stmt) succeeds.
LEMMA StatementSucceedsKeeps ==
    ASSUME TxInv, NEW c \in Connections, StatementSucceeds(c)
    PROVE  TxInv'
<1>1. pc[c] = "statement" /\ link[c] = "up"
    BY DEF StatementSucceeds
<1>2. TypeOK /\ Place(c) /\ Session(c) /\ Effect(c)
    BY DEF TxInv, ConnInv
<1>3. PICK o \in Operations : o = op[c]
    BY <1>1, Occupied
<1>4. PICK n \in Nat : n = next[c]
    BY <1>1, Occupied
<1>5. /\ outcome[o] = "none" /\ o # Nobody /\ Length[o] \in Nat
      /\ n \in 1..Length[o] /\ err[c] = "none"
      /\ o \in Singles => Length[o] = 1 /\ o \notin Transactions
    BY <1>1, <1>2, <1>3, <1>4, Occupied, AllOfIt, TransactionAssumption DEF Place
<1>6. /\ UNCHANGED <<op, err, tries, linkVars, lock, aborted, answers, inTx>>
      /\ next' = [next EXCEPT ![c] = n + 1]
      /\ pc' = [pc EXCEPT ![c] = IF n < Length[o] THEN "statement"
                                 ELSE IF o \in Singles THEN "returned" ELSE "commit"]
    BY <1>3, <1>4 DEF StatementSucceeds, ServerExecutes, Goto
<1>7. CASE inTx[c]
    <2>1. o \in Transactions /\ o \notin Singles /\ buffer[c] = [i \in 1..n - 1 |-> i]
        BY <1>2, <1>3, <1>4, <1>5, <1>7 DEF Session
    <2>2. stored' = stored /\ buffer' = [buffer EXCEPT ![c] = Append(@, n)]
        BY <1>4, <1>7 DEF StatementSucceeds, ServerExecutes
    <2>3. buffer'[c] = [i \in 1..n |-> i]
        <3>1. Append(buffer[c], n) = [i \in 1..n |-> i]
            BY <1>5, <2>1, OneMoreStatement
        <3> QED BY <1>2, <2>2, <3>1 DEF TypeOK
    <2>4. TypeOK'
        BY <1>2, <1>6, <2>2 DEF TypeOK, linkVars, answers
    <2>5. StepsOn(c, o)
        BY <1>2, <1>3, <1>6, <2>2 DEF StepsOn, TypeOK, linkVars, answers
    <2>6. /\ op'[c] = o /\ next'[c] = n + 1 /\ err'[c] = "none" /\ link'[c] = "up"
          /\ pc'[c] = IF n < Length[o] THEN "statement" ELSE "commit"
          /\ inTx'[c] /\ stored'[o] = stored[o] /\ outcome'[o] = "none"
          /\ spoiled' = spoiled
        BY <1>1, <1>2, <1>3, <1>5, <1>6, <1>7, <2>1, <2>2 DEF TypeOK, linkVars, answers
    <2>7. Place(c)'
        BY <1>2, <1>3, <1>5, <2>1, <2>6 DEF Place
    <2>8. Session(c)'
        <3>1. n + 1 - 1 = n /\ n + 1 >= 1
            OBVIOUS
        <3>2. [i \in 1..n + 1 - 1 |-> i] = [i \in 1..n |-> i]
            BY <3>1
        <3> QED BY <2>1, <2>3, <2>6, <3>1, <3>2 DEF Session
    <2>9. Effect(c)'
        BY <1>1, <1>2, <1>3, <2>6 DEF Effect, Executing
    <2> QED BY <2>4, <2>5, <2>7, <2>8, <2>9, StepKeepsInvariant DEF ConnInv
<1>8. CASE ~inTx[c]
    <2>1. buffer' = buffer /\ stored' = [stored EXCEPT ![o] = Append(@, n)]
        BY <1>3, <1>4, <1>8 DEF StatementSucceeds, ServerExecutes
    <2>2. buffer'[c] = <<>>
        BY <1>2, <1>8, <2>1 DEF TypeOK, Session
    <2>3. TypeOK'
        BY <1>2, <1>6, <2>1 DEF TypeOK, linkVars, answers
    <2>4. StepsOn(c, o)
        BY <1>2, <1>3, <1>6, <2>1 DEF StepsOn, TypeOK, linkVars, answers
    <2>5. /\ op'[c] = o /\ next'[c] = n + 1 /\ err'[c] = "none" /\ link'[c] = "up"
          /\ pc'[c] = IF n < Length[o] THEN "statement"
                      ELSE IF o \in Singles THEN "returned" ELSE "commit"
          /\ ~inTx'[c] /\ outcome'[o] = "none" /\ spoiled' = spoiled
        BY <1>1, <1>2, <1>3, <1>5, <1>6, <1>8 DEF TypeOK, linkVars, answers
    <2>6. Place(c)'
        BY <1>2, <1>3, <1>5, <2>5 DEF Place, Operations
    <2>7. Session(c)'
        BY <2>2, <2>5 DEF Session
    <2>8. o \notin spoiled =>
              o \in Singles /\ pc'[c] = "returned" /\ stored'[o] = All(o)
        BY <1>3, <1>5, <1>8, <2>5, StatementAutocommits, AllOfIt
    <2>9. Effect(c)'
        <3>1. All(o)' = All(o)
            BY DEF All
        <3> QED BY <1>5, <2>5, <2>8, <3>1 DEF Effect, Executing
    <2> QED BY <2>3, <2>4, <2>6, <2>7, <2>9, StepKeepsInvariant DEF ConnInv
<1> QED BY <1>7, <1>8

\* ER_LOCK_DEADLOCK: the server has no transaction left, and the attempt has failed.
LEMMA StatementDeadlocksKeeps ==
    ASSUME TxInv, NEW c \in Connections, StatementDeadlocks(c)
    PROVE  TxInv'
<1>1. pc[c] = "statement" /\ link[c] = "up"
    BY DEF StatementDeadlocks
<1>2. TypeOK /\ Place(c) /\ Session(c) /\ Effect(c)
    BY DEF TxInv, ConnInv
<1>3. PICK o \in Operations : o = op[c]
    BY <1>1, Occupied
<1>4. /\ UNCHANGED <<op, next, tries, linkVars, lock, aborted, answers, stored>>
      /\ err' = [err EXCEPT ![c] = "deadlock"]
      /\ pc' = [pc EXCEPT ![c] = IF o \in Singles THEN "returned" ELSE "rollback"]
      /\ inTx' = [inTx EXCEPT ![c] = FALSE]
      /\ buffer' = [buffer EXCEPT ![c] = <<>>]
    BY <1>3 DEF StatementDeadlocks, ServerRollsBack, AfterFailure, Goto
<1>5. TypeOK'
    BY <1>2, <1>4 DEF TypeOK, linkVars, answers
<1>6. StepsOn(c, o)
    BY <1>2, <1>3, <1>4 DEF StepsOn, TypeOK, linkVars, answers
<1>7. /\ op'[c] = o /\ o # Nobody /\ err'[c] = "deadlock" /\ link'[c] = "up"
      /\ pc'[c] = IF o \in Singles THEN "returned" ELSE "rollback"
      /\ ~inTx'[c] /\ buffer'[c] = <<>>
      /\ stored'[o] = stored[o] /\ outcome'[o] = "none" /\ spoiled' = spoiled
    BY <1>1, <1>2, <1>3, <1>4, Occupied DEF TypeOK, linkVars, answers
<1>8. Place(c)'
    BY <1>2, <1>3, <1>7 DEF Place, Operations
<1>9. Session(c)'
    BY <1>7 DEF Session
<1>10. Effect(c)'
    BY <1>1, <1>2, <1>3, <1>7 DEF Effect, Executing
<1> QED BY <1>5, <1>6, <1>8, <1>9, <1>10, StepKeepsInvariant DEF ConnInv

\* Another error: the transaction stays open until it is rolled back.
LEMMA StatementFailsKeeps ==
    ASSUME TxInv, NEW c \in Connections, StatementFails(c)
    PROVE  TxInv'
<1>1. pc[c] = "statement" /\ link[c] = "up"
    BY DEF StatementFails
<1>2. TypeOK /\ Place(c) /\ Session(c) /\ Effect(c)
    BY DEF TxInv, ConnInv
<1>3. PICK o \in Operations : o = op[c]
    BY <1>1, Occupied
<1>4. /\ UNCHANGED <<op, next, tries, linkVars, lock, aborted, answers, serverVars>>
      /\ err' = [err EXCEPT ![c] = "error"]
      /\ pc' = [pc EXCEPT ![c] = IF o \in Singles THEN "returned" ELSE "rollback"]
    BY <1>3 DEF StatementFails, AfterFailure, Goto
<1>5. TypeOK'
    BY <1>2, <1>4 DEF TypeOK, linkVars, answers, serverVars
<1>6. StepsOn(c, o)
    BY <1>2, <1>3, <1>4 DEF StepsOn, TypeOK, linkVars, answers, serverVars
<1>7. /\ op'[c] = o /\ o # Nobody /\ err'[c] = "error" /\ link'[c] = "up"
      /\ pc'[c] = IF o \in Singles THEN "returned" ELSE "rollback"
      /\ next'[c] = next[c] /\ inTx'[c] = inTx[c] /\ buffer'[c] = buffer[c]
      /\ stored'[o] = stored[o] /\ outcome'[o] = "none" /\ spoiled' = spoiled
    BY <1>1, <1>2, <1>3, <1>4, Occupied DEF TypeOK, linkVars, answers, serverVars
<1>8. Place(c)'
    BY <1>2, <1>3, <1>7 DEF Place, Operations
<1>9. Session(c)'
    <2>1. o \in Transactions => o \notin Singles
        BY TransactionAssumption
    <2> QED BY <1>2, <1>3, <1>7, <2>1 DEF Session
<1>10. Effect(c)'
    BY <1>1, <1>2, <1>3, <1>7 DEF Effect, Executing
<1> QED BY <1>5, <1>6, <1>8, <1>9, <1>10, StepKeepsInvariant DEF ConnInv

\* Without a handle the operation is spoiled; there is no session to leave open.
LEMMA StatementWithoutHandleKeeps ==
    ASSUME TxInv, NEW c \in Connections, StatementWithoutHandle(c)
    PROVE  TxInv'
<1>1. pc[c] = "statement" /\ link[c] = "null"
    BY DEF StatementWithoutHandle
<1>2. TypeOK /\ Place(c) /\ Session(c) /\ Effect(c)
    BY DEF TxInv, ConnInv
<1>3. PICK o \in Operations : o = op[c]
    BY <1>1, Occupied
<1>4. /\ UNCHANGED <<op, next, tries, linkVars, lock, aborted, outcome, serverVars>>
      /\ err' = [err EXCEPT ![c] = IF o \in Singles THEN "error" ELSE "none"]
      /\ pc' = [pc EXCEPT ![c] = IF o \in Singles THEN "returned" ELSE "rollback"]
      /\ spoiled' = spoiled \cup {o}
    BY <1>3 DEF StatementWithoutHandle, AfterFailure, Goto
<1>5. TypeOK'
    BY <1>2, <1>4 DEF TypeOK, linkVars, serverVars
<1>6. StepsOn(c, o)
    BY <1>2, <1>3, <1>4 DEF StepsOn, TypeOK, linkVars, serverVars
<1>7. /\ op'[c] = o /\ o # Nobody /\ link'[c] = "null"
      /\ pc'[c] = IF o \in Singles THEN "returned" ELSE "rollback"
      /\ ~inTx'[c] /\ buffer'[c] = <<>> /\ outcome'[o] = "none"
    <2>1. ~inTx[c] /\ buffer[c] = <<>>
        BY <1>1, <1>2 DEF Session
    <2> QED BY <1>1, <1>2, <1>3, <1>4, <2>1, Occupied DEF TypeOK, linkVars, serverVars
<1>8. Place(c)'
    BY <1>2, <1>3, <1>7 DEF Place, Operations
<1>9. Session(c)'
    BY <1>7 DEF Session
<1>10. Effect(c)'
    BY <1>4, <1>7 DEF Effect
<1> QED BY <1>5, <1>6, <1>8, <1>9, <1>10, StepKeepsInvariant DEF ConnInv

\* RollbackTransaction ends the session's transaction, if there is a session.
LEMMA RollbackKeeps ==
    ASSUME TxInv, NEW c \in Connections, RollbackTransaction(c)
    PROVE  TxInv'
<1>1. pc[c] = "rollback"
    BY DEF RollbackTransaction
<1>2. TypeOK /\ Place(c) /\ Session(c) /\ Effect(c)
    BY DEF TxInv, ConnInv
<1>3. PICK o \in Operations : o = op[c]
    BY <1>1, Occupied
<1>4. /\ UNCHANGED <<op, next, err, tries, linkVars, lock, aborted, answers, stored>>
      /\ pc' = [pc EXCEPT ![c] = "returned"]
      /\ link[c] # "lost"
    BY DEF RollbackTransaction, ServerRollsBack, serverVars, Goto
<1>5. /\ inTx' = [inTx EXCEPT ![c] = FALSE]
      /\ buffer' = [buffer EXCEPT ![c] = <<>>]
    <2>1. CASE link[c] = "up" /\ ServerRollsBack(c)
        BY <2>1 DEF ServerRollsBack
    <2>2. CASE link[c] = "null" /\ UNCHANGED serverVars
        <3>1. inTx[c] = FALSE /\ buffer[c] = <<>>
            BY <1>2, <2>2 DEF Session, TypeOK
        <3> QED BY <1>2, <2>2, <3>1 DEF TypeOK, serverVars
    <2> QED BY <2>1, <2>2 DEF RollbackTransaction
<1>6. TypeOK'
    BY <1>2, <1>4, <1>5 DEF TypeOK, linkVars, answers
<1>7. StepsOn(c, o)
    BY <1>2, <1>3, <1>4, <1>5 DEF StepsOn, TypeOK, linkVars, answers
<1>8. /\ op'[c] = o /\ o # Nobody /\ pc'[c] = "returned" /\ link'[c] # "lost"
      /\ err'[c] = err[c] /\ ~inTx'[c] /\ buffer'[c] = <<>>
      /\ stored'[o] = stored[o] /\ outcome'[o] = "none" /\ spoiled' = spoiled
    BY <1>1, <1>2, <1>3, <1>4, <1>5, Occupied DEF TypeOK, linkVars, answers
<1>9. ConnInv(c)'
    <2>1. Place(c)'
        BY <1>2, <1>3, <1>8 DEF Place
    <2>2. Session(c)'
        BY <1>8 DEF Session
    <2>3. Effect(c)'
        BY <1>1, <1>2, <1>3, <1>8 DEF Effect, Executing
    <2> QED BY <2>1, <2>2, <2>3 DEF ConnInv
<1> QED BY <1>6, <1>7, <1>9, StepKeepsInvariant

\* COMMIT puts the whole of an operation into the database that is not spoiled.
LEMMA CommitStores ==
    ASSUME TxInv, NEW c \in Connections, CommitTransaction(c),
           NEW o \in Operations, o = op[c]
    PROVE  /\ inTx' = [inTx EXCEPT ![c] = FALSE] /\ buffer' = [buffer EXCEPT ![c] = <<>>]
           /\ stored' = [stored EXCEPT ![o] = stored'[o]] /\ stored'[o] \in Seq(Nat)
           /\ spoiled' = spoiled \/ (spoiled' = spoiled \cup {o})
           /\ o \notin spoiled' => stored[o] = <<>> /\ stored'[o] = All(o)
<1>1. TypeOK /\ Place(c) /\ Session(c) /\ Effect(c)
    BY DEF TxInv, ConnInv
<1>2. /\ pc[c] = "commit" /\ o # Nobody /\ Length[o] \in Nat
      /\ stored[o] \in Seq(Nat) /\ buffer[c] \in Seq(Nat)
    BY <1>1, Occupied DEF CommitTransaction, TypeOK
<1>3. CASE link[c] = "up" /\ ServerCommits(c) /\ UNCHANGED spoiled
    <2>1. stored[o] \o buffer[c] \in Seq(Nat)
        BY <1>2
    <2>2. PICK s \in Seq(Nat) : s = stored[o] \o buffer[c]
        BY <2>1
    <2>3. stored' = [stored EXCEPT ![o] = s] /\ stored'[o] = s
        BY <1>1, <1>3, <2>2 DEF ServerCommits, TypeOK
    <2>4. ASSUME o \notin spoiled'
          PROVE  stored[o] = <<>> /\ stored'[o] = All(o)
        <3>1. inTx[c] /\ stored[o] = <<>> /\ next[c] = Length[o] + 1
            BY <1>1, <1>2, <1>3, <2>4 DEF Effect, Place, Executing
        <3>2. buffer[c] = [i \in 1..next[c] - 1 |-> i] /\ next[c] - 1 = Length[o]
            BY <1>1, <1>2, <3>1 DEF Session
        <3>3. buffer[c] = All(o)
            BY <3>2 DEF All
        <3> QED BY <1>2, <2>2, <2>3, <3>1, <3>3, NothingAdded
    <2> QED BY <1>3, <2>3, <2>4 DEF ServerCommits
<1>4. CASE ServerRollsBack(c) /\ spoiled' = spoiled \cup {o}
    BY <1>1, <1>2, <1>4 DEF ServerRollsBack, TypeOK
<1>5. CASE link[c] = "null" /\ UNCHANGED <<spoiled, serverVars>>
    <2>1. inTx[c] = FALSE /\ buffer[c] = <<>>
        BY <1>1, <1>5 DEF Session, TypeOK
    <2>2. o \in spoiled
        BY <1>1, <1>2, <2>1 DEF Effect
    <2> QED BY <1>1, <1>2, <1>5, <2>1, <2>2 DEF TypeOK, serverVars
<1> QED BY <1>3, <1>4, <1>5 DEF CommitTransaction

\* CommitTransaction.
LEMMA CommitKeeps ==
    ASSUME TxInv, NEW c \in Connections, CommitTransaction(c)
    PROVE  TxInv'
<1>1. pc[c] = "commit"
    BY DEF CommitTransaction
<1>2. TypeOK /\ Place(c) /\ Session(c) /\ Effect(c)
    BY DEF TxInv, ConnInv
<1>3. PICK o \in Operations : o = op[c]
    BY <1>1, Occupied
<1>4. /\ outcome[o] = "none" /\ o # Nobody /\ err[c] = "none"
      /\ Length[o] \in Nat /\ next[c] = Length[o] + 1
    BY <1>1, <1>2, <1>3, Occupied DEF Place
<1>5. /\ UNCHANGED <<op, next, err, tries, linkVars, lock, aborted, outcome>>
      /\ pc' = [pc EXCEPT ![c] = "returned"] /\ link[c] # "lost"
    BY DEF CommitTransaction, Goto
<1>6. /\ inTx' = [inTx EXCEPT ![c] = FALSE] /\ buffer' = [buffer EXCEPT ![c] = <<>>]
      /\ stored' = [stored EXCEPT ![o] = stored'[o]] /\ stored'[o] \in Seq(Nat)
      /\ spoiled' \in {spoiled, spoiled \cup {o}}
      /\ o \notin spoiled' => stored'[o] = All(o)
    BY <1>3, CommitStores
<1>7. TypeOK'
    <2>1. stored' \in [Operations -> Seq(Nat)]
        BY <1>2, <1>6 DEF TypeOK
    <2>2. spoiled' \in SUBSET Operations
        BY <1>2, <1>6 DEF TypeOK
    <2> QED BY <1>2, <1>5, <1>6, <2>1, <2>2 DEF TypeOK, linkVars
<1>8. StepsOn(c, o)
    <2>1. \A p \in Operations \ {o} : stored'[p] = stored[p]
        BY <1>2, <1>6 DEF TypeOK
    <2>2. \A p \in Operations \ {o} : p \in spoiled' <=> p \in spoiled
        BY <1>6
    <2> QED BY <1>2, <1>3, <1>5, <1>6, <2>1, <2>2 DEF StepsOn, TypeOK, linkVars
<1>9. /\ op'[c] = o /\ pc'[c] = "returned" /\ link'[c] # "lost" /\ err'[c] = "none"
      /\ ~inTx'[c] /\ buffer'[c] = <<>> /\ outcome'[o] = "none"
    BY <1>2, <1>3, <1>4, <1>5, <1>6 DEF TypeOK, linkVars
<1>10. ConnInv(c)'
    <2>1. Place(c)'
        BY <1>2, <1>3, <1>4, <1>9 DEF Place
    <2>2. Session(c)'
        BY <1>9 DEF Session
    <2>3. Effect(c)'
        <3>1. All(o)' = All(o)
            BY DEF All
        <3> QED BY <1>6, <1>9, <3>1 DEF Effect, Executing
    <2> QED BY <2>1, <2>2, <2>3 DEF ConnInv
<1> QED BY <1>7, <1>8, <1>10, StepKeepsInvariant

\* Whatever the server has done when its answer is lost, it is done to that operation, and
\* the session is over.
LEMMA LossStores ==
    ASSUME TxInv, NEW c \in Connections, LoseConnection(c),
           NEW o \in Operations, o = op[c]
    PROVE  /\ inTx' = [inTx EXCEPT ![c] = FALSE] /\ buffer' = [buffer EXCEPT ![c] = <<>>]
           /\ stored' = [stored EXCEPT ![o] = stored'[o]] /\ stored'[o] \in Seq(Nat)
<1>1. TypeOK /\ Session(c)
    BY DEF TxInv, ConnInv
<1>2. stored[o] \in Seq(Nat) /\ buffer[c] \in Seq(Nat) /\ next[c] \in Nat
    BY <1>1 DEF TypeOK
<1>3. CASE ServerRollsBack(c)
    BY <1>1, <1>2, <1>3 DEF ServerRollsBack, TypeOK
<1>4. CASE ServerCommits(c)
    <2>1. stored[o] \o buffer[c] \in Seq(Nat)
        BY <1>2
    <2>2. PICK s \in Seq(Nat) : s = stored[o] \o buffer[c]
        BY <2>1
    <2>3. stored' = [stored EXCEPT ![o] = s] /\ stored'[o] = s
        BY <1>1, <1>4, <2>2 DEF ServerCommits, TypeOK
    <2> QED BY <1>4, <2>3 DEF ServerCommits
<1>5. CASE ~inTx[c] /\ ServerExecutes(c)
    <2>1. Append(stored[o], next[c]) \in Seq(Nat)
        BY <1>2
    <2>2. PICK s \in Seq(Nat) : s = Append(stored[o], next[c])
        BY <2>1
    <2>3. stored' = [stored EXCEPT ![o] = s] /\ stored'[o] = s
        BY <1>1, <1>5, <2>2 DEF ServerExecutes, TypeOK
    <2>4. inTx[c] = FALSE /\ buffer[c] = <<>>
        BY <1>1, <1>5 DEF Session, TypeOK
    <2>5. inTx' = [inTx EXCEPT ![c] = FALSE] /\ buffer' = [buffer EXCEPT ![c] = <<>>]
        BY <1>1, <1>5, <2>4 DEF ServerExecutes, TypeOK
    <2> QED BY <2>3, <2>5
<1> QED BY <1>3, <1>4, <1>5 DEF LoseConnection

\* The answer to a statement is lost.
LEMMA LoseConnectionKeeps ==
    ASSUME TxInv, NEW c \in Connections, LoseConnection(c)
    PROVE  TxInv'
<1>1. pc[c] \in Executing /\ link[c] = "up"
    BY DEF LoseConnection, Executing
<1>2. TypeOK /\ Place(c) /\ Session(c) /\ Effect(c)
    BY DEF TxInv, ConnInv
<1>3. PICK o \in Operations : o = op[c]
    BY <1>1, Occupied DEF Executing
<1>4. /\ outcome[o] = "none" /\ o # Nobody
      /\ stored[o] \in Seq(Nat) /\ buffer[c] \in Seq(Nat) /\ next[c] \in Nat
    BY <1>1, <1>2, <1>3, Occupied DEF TypeOK, Executing
<1>5. /\ UNCHANGED <<threadVars, attempts, lock, aborted, outcome>>
      /\ losses' \in 0..MaxLosses
      /\ link' = [link EXCEPT ![c] = "lost"] /\ spoiled' = spoiled \cup {o}
    BY <1>2, <1>3, TransactionAssumption DEF LoseConnection, TypeOK
<1>6. /\ inTx' = [inTx EXCEPT ![c] = FALSE] /\ buffer' = [buffer EXCEPT ![c] = <<>>]
      /\ stored' = [stored EXCEPT ![o] = stored'[o]] /\ stored'[o] \in Seq(Nat)
    BY <1>3, LossStores
<1>7. TypeOK'
    <2>1. stored' \in [Operations -> Seq(Nat)]
        BY <1>2, <1>6 DEF TypeOK
    <2> QED BY <1>2, <1>5, <1>6, <2>1 DEF TypeOK, threadVars
<1>8. StepsOn(c, o)
    <2>1. \A p \in Operations \ {o} : stored'[p] = stored[p]
        BY <1>2, <1>6 DEF TypeOK
    <2> QED BY <1>2, <1>3, <1>5, <1>6, <2>1 DEF StepsOn, TypeOK, threadVars
<1>9. /\ op'[c] = o /\ pc'[c] = pc[c] /\ next'[c] = next[c] /\ err'[c] = err[c]
      /\ link'[c] = "lost" /\ o \in spoiled' /\ outcome'[o] = "none"
      /\ ~inTx'[c] /\ buffer'[c] = <<>>
    BY <1>2, <1>3, <1>4, <1>5, <1>6 DEF TypeOK, threadVars
<1>10. ConnInv(c)'
    <2>1. Place(c)'
        BY <1>1, <1>2, <1>3, <1>9 DEF Place
    <2>2. Session(c)'
        BY <1>9 DEF Session
    <2>3. Effect(c)'
        BY <1>9 DEF Effect
    <2> QED BY <2>1, <2>2, <2>3 DEF ConnInv
<1> QED BY <1>7, <1>8, <1>10, StepKeepsInvariant

\* Whatever becomes of the attempts to reconnect.
LEMMA ReconnectionKeeps ==
    ASSUME TxInv, NEW c \in Connections,
           Reconnect(c) \/ ReconnectRefused(c) \/ PrepareFails(c) \/ ReconnectGivesUp(c)
    PROVE  TxInv'
<1>1. link[c] = "lost"
    BY DEF Reconnect, ReconnectRefused, PrepareFails, ReconnectGivesUp
<1>2. TypeOK /\ Place(c) /\ Session(c) /\ Effect(c)
    BY DEF TxInv, ConnInv
<1>3. pc[c] \in Executing
    BY <1>1, <1>2 DEF Place
<1>4. PICK o \in Operations : o = op[c]
    BY <1>3, Occupied DEF Executing
<1>5. /\ outcome[o] = "none" /\ o # Nobody /\ o \in spoiled
      /\ ~inTx[c] /\ buffer[c] = <<>>
    BY <1>1, <1>2, <1>3, <1>4, Occupied DEF Place, Session, Executing
<1>6. UNCHANGED <<threadVars, losses, lock, answers, serverVars>>
    BY DEF Reconnect, ReconnectRefused, PrepareFails, ReconnectGivesUp, linkVars
<1>7. /\ link' \in {link, [link EXCEPT ![c] = "up"], [link EXCEPT ![c] = "null"]}
      /\ attempts' \in [Connections -> 1..ReconnectAttempts]
      /\ aborted' \in BOOLEAN
    <2>1. CASE ReconnectRefused(c)
        <3>1. attempts[c] \in 1..ReconnectAttempts
            BY <1>2 DEF TypeOK
        <3>2. attempts[c] > 1 => attempts[c] - 1 \in 1..ReconnectAttempts
            BY <3>1, TransactionAssumption
        <3> QED BY <1>2, <2>1, <3>2 DEF ReconnectRefused, TypeOK
    <2>2. ReconnectAttempts \in 1..ReconnectAttempts
        BY TransactionAssumption
    <2>3. CASE Reconnect(c)
        BY <1>2, <2>2, <2>3 DEF Reconnect, TypeOK
    <2>4. CASE PrepareFails(c)
        BY <1>2, <2>4 DEF PrepareFails, linkVars, TypeOK
    <2>5. CASE ReconnectGivesUp(c)
        BY <1>2, <2>2, <2>5 DEF ReconnectGivesUp, TypeOK
    <2> QED BY <2>1, <2>3, <2>4, <2>5
<1>8. TypeOK'
    BY <1>2, <1>6, <1>7 DEF TypeOK, threadVars, answers, serverVars
<1>9. StepsOn(c, o)
    BY <1>2, <1>4, <1>6, <1>7 DEF StepsOn, TypeOK, threadVars, answers, serverVars
<1>10. /\ op'[c] = o /\ pc'[c] = pc[c] /\ next'[c] = next[c] /\ err'[c] = err[c]
       /\ o \in spoiled' /\ outcome'[o] = "none" /\ ~inTx'[c] /\ buffer'[c] = <<>>
    BY <1>4, <1>5, <1>6 DEF threadVars, answers, serverVars
<1>11. ConnInv(c)'
    <2>1. Place(c)'
        BY <1>2, <1>3, <1>4, <1>10 DEF Place
    <2>2. Session(c)'
        BY <1>10 DEF Session
    <2>3. Effect(c)'
        BY <1>10 DEF Effect
    <2> QED BY <2>1, <2>2, <2>3 DEF ConnInv
<1> QED BY <1>8, <1>9, <1>11, StepKeepsInvariant

\* A thread that starts on an operation, or starts on it again, with nothing stored and
\* no transaction open.
LEMMA AttemptKeeps ==
    ASSUME TxInv, NEW c \in Connections, NEW o \in Operations,
           Attempt(c, o), op' = [op EXCEPT ![c] = o],
           op[c] = o \/ (op[c] = Nobody /\ o \notin Issued),
           pc[c] \in {"idle", "returned", "lock"},
           o \in Tasks => c \in Async,
           outcome[o] = "none", o \notin spoiled => stored[o] = <<>>,
           tries' \in [Connections -> Nat], lock' \in Async \cup {Nobody},
           UNCHANGED <<linkVars, aborted, answers, serverVars>>
    PROVE  TxInv'
<1>1. TypeOK /\ Place(c) /\ Session(c) /\ Effect(c)
    BY DEF TxInv, ConnInv
<1>2. /\ Length[o] \in Nat /\ o # Nobody
      /\ o \in Singles => Length[o] = 1
      /\ o \in Transactions <=> o \notin Singles
    BY TransactionAssumption, AllOfIt DEF Operations
<1>3. link[c] # "lost" /\ ~inTx[c] /\ buffer[c] = <<>>
    BY <1>1 DEF Place, Session, Executing
<1>4. /\ pc' = [pc EXCEPT ![c] = IF o \in Singles THEN "statement"
                                 ELSE IF Length[o] = 0 THEN "returned" ELSE "begin"]
      /\ next' = [next EXCEPT ![c] = 1]
      /\ err' = [err EXCEPT ![c] = IF Length[o] = 0 THEN "empty" ELSE "none"]
    BY DEF Attempt, Goto
<1>5. TypeOK'
    BY <1>1, <1>4 DEF TypeOK, linkVars, answers, serverVars
<1>6. StepsOn(c, o)
    BY <1>1, <1>4 DEF StepsOn, TypeOK, linkVars, answers, serverVars
<1>7. /\ pc'[c] = IF o \in Singles THEN "statement"
                  ELSE IF Length[o] = 0 THEN "returned" ELSE "begin"
      /\ err'[c] = IF Length[o] = 0 THEN "empty" ELSE "none"
      /\ op'[c] = o /\ next'[c] = 1 /\ link'[c] # "lost"
      /\ ~inTx'[c] /\ buffer'[c] = <<>>
      /\ stored'[o] = stored[o] /\ outcome'[o] = "none" /\ spoiled' = spoiled
    BY <1>1, <1>3, <1>4 DEF TypeOK, linkVars, answers, serverVars
<1>8. Place(c)'
    BY <1>2, <1>7 DEF Place
<1>9. Session(c)'
    BY <1>7 DEF Session
<1>10. Effect(c)'
    BY <1>2, <1>7 DEF Effect, Executing
<1> QED BY <1>5, <1>6, <1>8, <1>9, <1>10, StepKeepsInvariant DEF ConnInv

\* A new operation has nothing in the database.
LEMMA StartKeeps ==
    ASSUME TxInv, NEW c \in Connections, NEW o \in Operations, Start(c, o)
    PROVE  TxInv'
<1>1. TypeOK /\ Place(c) /\ Given
    BY DEF TxInv, ConnInv
<1>2. pc[c] = "idle" /\ op[c] = Nobody /\ o \notin Issued
    BY <1>1 DEF Start, Place
<1>3. outcome[o] = "none" /\ stored[o] = <<>>
    BY <1>1, <1>2 DEF Issued, Given
<1>4. o \in Tasks => c \in Async
    <2>1. SUFFICES ASSUME o \in Tasks  PROVE  c \notin Sync
        BY DEF Connections
    <2>2. o \notin Singles /\ o \notin Directs
        BY <2>1, TransactionAssumption DEF Transactions
    <2> QED BY <2>2 DEF Start
<1>5. /\ Attempt(c, o) /\ op' = [op EXCEPT ![c] = o]
      /\ UNCHANGED <<tries, linkVars, lock, aborted, answers, serverVars>>
    BY DEF Start
<1>6. tries' \in [Connections -> Nat] /\ lock' \in Async \cup {Nobody}
    BY <1>1, <1>5 DEF TypeOK
<1> QED BY <1>2, <1>3, <1>4, <1>5, <1>6, AttemptKeeps

\* An attempt that may be followed by another has left nothing in the database.
LEMMA NothingIsRetriedTwice ==
    ASSUME TxInv, NEW c \in Connections, pc[c] = "returned", MayRetry(c)
    PROVE  op[c] \in Transactions /\ (op[c] \notin spoiled => stored[op[c]] = <<>>)
<1>1. op[c] \in Operations /\ op[c] # Nobody
    BY Occupied
<1>2. err[c] # "none" /\ op[c] \notin Singles
    BY DEF MayRetry
<1>3. Effect(c)
    BY DEF TxInv, ConnInv
<1> QED BY <1>1, <1>2, <1>3 DEF Effect, Operations

\* A deadlocked task waits for _deadlockLock with nothing stored.
LEMMA WantLockKeeps ==
    ASSUME TxInv, NEW c \in Connections, WantLock(c)
    PROVE  TxInv'
<1>1. pc[c] = "returned" /\ op[c] \in Tasks /\ MayRetry(c)
    BY DEF WantLock
<1>2. TypeOK /\ Place(c) /\ Session(c) /\ Effect(c)
    BY DEF TxInv, ConnInv
<1>3. PICK o \in Operations : o = op[c]
    BY <1>1, Occupied
<1>4. /\ UNCHANGED <<op, next, err, tries, linkVars, lock, aborted, answers, serverVars>>
      /\ pc' = [pc EXCEPT ![c] = "lock"]
    BY DEF WantLock, Goto
<1>5. TypeOK'
    BY <1>2, <1>4 DEF TypeOK, linkVars, answers, serverVars
<1>6. StepsOn(c, o)
    BY <1>2, <1>3, <1>4 DEF StepsOn, TypeOK, linkVars, answers, serverVars
<1>7. /\ op'[c] = o /\ o # Nobody /\ o \in Tasks /\ pc'[c] = "lock"
      /\ link'[c] = link[c] /\ inTx'[c] = inTx[c] /\ buffer'[c] = buffer[c]
      /\ stored'[o] = stored[o] /\ outcome'[o] = "none" /\ spoiled' = spoiled
    BY <1>1, <1>2, <1>3, <1>4, Occupied DEF TypeOK, linkVars, answers, serverVars
<1>8. Place(c)'
    BY <1>1, <1>2, <1>3, <1>7 DEF Place, Executing
<1>9. Session(c)'
    BY <1>1, <1>2, <1>7 DEF Session
<1>10. Effect(c)'
    BY <1>1, <1>3, <1>7, NothingIsRetriedTwice DEF Effect
<1> QED BY <1>5, <1>6, <1>8, <1>9, <1>10, StepKeepsInvariant DEF ConnInv

\* The two ways to an attempt more: with the lock just taken, and in the turns of the loop.
LEMMA NextAttemptKeeps ==
    ASSUME TxInv, NEW c \in Connections, Lock(c) \/ Retry(c)
    PROVE  TxInv'
<1>1. pc[c] \in {"lock", "returned"}
    BY DEF Lock, Retry
<1>2. TypeOK /\ Place(c) /\ Effect(c)
    BY DEF TxInv, ConnInv
<1>3. PICK o \in Operations : o = op[c]
    BY <1>1, Occupied
<1>4. /\ o # Nobody /\ outcome[o] = "none"
      /\ o \in Tasks => c \in Async
      /\ op' = [op EXCEPT ![c] = o]
      /\ Attempt(c, o) /\ UNCHANGED <<linkVars, aborted, answers, serverVars>>
    BY <1>1, <1>2, <1>3, Occupied DEF Lock, Retry, Place, TypeOK
<1>5. o \notin spoiled => stored[o] = <<>>
    <2>1. CASE Lock(c)
        BY <1>2, <1>3, <1>4, <2>1 DEF Lock, Effect
    <2>2. CASE Retry(c)
        BY <1>3, <2>2, NothingIsRetriedTwice DEF Retry
    <2> QED BY <2>1, <2>2
<1>6. tries' \in [Connections -> Nat] /\ lock' \in Async \cup {Nobody}
    <2>1. CASE Lock(c)
        <3>1. c \in Async
            BY <1>2, <2>1 DEF Lock, Place
        <3> QED BY <1>2, <2>1, <3>1 DEF Lock, TypeOK
    <2>2. CASE Retry(c)
        BY <1>2, <2>2 DEF Retry, TypeOK
    <2> QED BY <2>1, <2>2
<1> QED BY <1>1, <1>3, <1>4, <1>5, <1>6, AttemptKeeps

\* The outcome is recorded and the connection is free.
LEMMA FinishKeeps ==
    ASSUME TxInv, NEW c \in Connections, Finish(c)
    PROVE  TxInv'
<1>1. pc[c] = "returned"
    BY DEF Finish
<1>2. TypeOK /\ Place(c) /\ Session(c)
    BY DEF TxInv, ConnInv
<1>3. PICK o \in Operations : o = op[c]
    BY <1>1, Occupied
<1>4. Nobody \notin Operations /\ link[c] # "lost" /\ ~inTx[c] /\ buffer[c] = <<>>
    BY <1>1, <1>2, TransactionAssumption DEF Place, Session, Executing
<1>5. /\ outcome' = [outcome EXCEPT ![o] = IF err[c] = "none" THEN "ok" ELSE "failed"]
      /\ lock' \in {lock, Nobody}
      /\ op' = [op EXCEPT ![c] = Nobody]
      /\ next' = [next EXCEPT ![c] = 0]
      /\ err' = [err EXCEPT ![c] = "none"]
      /\ tries' = [tries EXCEPT ![c] = 0]
      /\ pc' = [pc EXCEPT ![c] = "idle"]
      /\ UNCHANGED <<linkVars, aborted, spoiled, serverVars>>
    BY <1>3 DEF Finish, Goto
<1>6. TypeOK'
    BY <1>2, <1>5 DEF TypeOK, linkVars, serverVars
<1>7. StepsOn(c, o)
    BY <1>2, <1>3, <1>5 DEF StepsOn, TypeOK, linkVars, serverVars
<1>8. /\ op'[c] = Nobody /\ pc'[c] = "idle" /\ link'[c] # "lost"
      /\ ~inTx'[c] /\ buffer'[c] = <<>>
    BY <1>2, <1>4, <1>5 DEF TypeOK, linkVars, serverVars
<1>9. Place(c)'
    BY <1>4, <1>8, TransactionAssumption DEF Place, Operations, Transactions
<1>10. Session(c)' /\ Effect(c)'
    BY <1>8 DEF Session, Effect
<1> QED BY <1>6, <1>7, <1>9, <1>10, StepKeepsInvariant DEF ConnInv

--------------------------------------------------------------------------------
(* The invariant, and what it says of a session between two operations.     *)

\* Every step keeps the invariant.
LEMMA StepKeepsTxInv ==
    ASSUME TxInv, [Next]_vars
    PROVE  TxInv'
<1>1. CASE UNCHANGED vars
    BY <1>1 DEF vars, TxInv, TypeOK, Given, Issued, ConnInv, Place, Session, Effect, All
<1>2. ASSUME NEW c \in Connections, Running(c) \/ LoseConnection(c)
      PROVE  TxInv'
    <2>1. ASSUME NEW o \in Operations, Start(c, o)  PROVE  TxInv'
        BY <2>1, StartKeeps
    <2> QED BY <1>2, <2>1, BeginKeeps, StatementSucceedsKeeps, StatementDeadlocksKeeps,
               StatementFailsKeeps, StatementWithoutHandleKeeps, RollbackKeeps, CommitKeeps,
               LoseConnectionKeeps, ReconnectionKeeps, WantLockKeeps, NextAttemptKeeps,
               FinishKeeps DEF Running
<1> QED BY <1>1, <1>2 DEF Next

\* Nothing is in execution, and nothing in the database, when the process starts.
LEMMA InitialTx == Init => TxInv
<1>1. SUFFICES ASSUME Init  PROVE  TxInv
    OBVIOUS
<1>2. Nobody \notin Operations /\ ReconnectAttempts \in 1..ReconnectAttempts
      /\ 0 \in 0..MaxLosses
    BY TransactionAssumption
<1>3. <<>> \in Seq(Nat)
    OBVIOUS
<1>4. TypeOK
    BY <1>1, <1>2, <1>3 DEF Init, TypeOK
<1>5. Given
    BY <1>1 DEF Init, Given
<1>6. ASSUME NEW c \in Connections  PROVE  ConnInv(c)
    <2>1. /\ pc[c] = "idle" /\ op[c] = Nobody /\ link[c] = "up" /\ ~inTx[c]
          /\ buffer[c] = <<>>
        BY <1>1 DEF Init
    <2> QED BY <1>2, <2>1, TransactionAssumption
            DEF ConnInv, Place, Session, Effect, Operations, Transactions
<1> QED BY <1>4, <1>5, <1>6 DEF TxInv

\* At every moment the session of a connection holds exactly what the current attempt has
\* executed, and what is stored of an operation is none of it or, once it returns without an
\* error, all of it, unless it has met a fault that no outcome reports.
THEOREM TransactionInvariant == Spec => []TxInv
<1>1. Init => TxInv
    BY InitialTx
<1>2. TxInv /\ [Next]_vars => TxInv'
    BY StepKeepsTxInv
<1> QED BY <1>1, <1>2, PTL DEF Spec

\* The counters, the labels, the buffers and the tables keep their types.
THEOREM TransactionTypes == Spec => []TypeOK
<1>1. TxInv => TypeOK
    BY DEF TxInv
<1> QED BY <1>1, TransactionInvariant, PTL

\* TransactionTask::Execute and DirectCommitTransaction leave no transaction open on their
\* connection, whatever the statements, the retries and the reconnections made of it.
THEOREM SessionsAreLeftClean == Spec => []IdleSessionsAreClean
<1>1. TxInv => IdleSessionsAreClean
    BY DEF TxInv, ConnInv, Session, IdleSessionsAreClean
<1> QED BY <1>1, TransactionInvariant, PTL

--------------------------------------------------------------------------------
(* Every operation is atomic: the steps as those of AtomicOperations.       *)

\* A step on o that changes what is stored or answered of o alone, while it has no outcome,
\* is allowed if o is spoiled or becomes so.
LEMMA SpoiledMayDoAnything ==
    ASSUME NEW o \in Operations, ~aborted, UNCHANGED aborted, outcome[o] = "none",
           outcome' = [outcome EXCEPT ![o] = outcome'[o]],
           stored' = [stored EXCEPT ![o] = stored'[o]],
           \/ o \in spoiled /\ UNCHANGED spoiled
           \/ spoiled' = spoiled \cup {o}
    PROVE  Atomic!Next
<1>1. Atomic!Affects(o)
    BY DEF Atomic!Affects
<1>2. Atomic!Spoil(o) \/ Atomic!SpoiledStep(o)
    BY <1>1 DEF Atomic!Spoil, Atomic!SpoiledStep
<1> QED BY <1>2 DEF Atomic!Next, Atomic!Step

\* The instant at which an operation takes effect.
LEMMA TakesEffect ==
    ASSUME NEW o \in Operations, ~aborted, outcome[o] = "none", stored[o] = <<>>,
           stored' = [stored EXCEPT ![o] = stored'[o]], stored'[o] = All(o),
           UNCHANGED <<outcome, spoiled, aborted>>
    PROVE  Atomic!Next
<1>1. Atomic!TakeEffect(o)
    BY DEF Atomic!TakeEffect, All
<1> QED BY <1>1 DEF Atomic!Next, Atomic!Step

\* Execute(stmt) succeeds: the instant of a single statement, nothing that can be seen of a
\* transaction.
LEMMA StatementIsAtomic ==
    ASSUME TxInv, ~aborted, NEW c \in Connections, StatementSucceeds(c)
    PROVE  [Atomic!Next]_(Atomic!vars)
<1>1. pc[c] = "statement" /\ UNCHANGED <<outcome, spoiled, aborted>>
    BY DEF StatementSucceeds, answers
<1>2. CASE inTx[c]
    BY <1>1, <1>2 DEF StatementSucceeds, ServerExecutes, Atomic!vars
<1>3. CASE ~inTx[c]
    <2>1. PICK o \in Operations : o = op[c]
        BY <1>1, Occupied
    <2>2. outcome[o] = "none" /\ outcome' = [outcome EXCEPT ![o] = outcome'[o]]
        BY <1>1, <2>1, Occupied DEF TxInv, TypeOK
    <2>3. /\ stored' = [stored EXCEPT ![o] = stored'[o]]
          /\ o \notin spoiled => stored[o] = <<>> /\ stored'[o] = All(o)
        BY <1>3, <2>1, StatementAutocommits
    <2>4. CASE o \in spoiled
        BY <1>1, <2>2, <2>3, <2>4, SpoiledMayDoAnything
    <2>5. CASE o \notin spoiled
        BY <1>1, <2>2, <2>3, <2>5, TakesEffect
    <2> QED BY <2>4, <2>5
<1> QED BY <1>2, <1>3

\* COMMIT is the instant of a transaction.
LEMMA CommitIsAtomic ==
    ASSUME TxInv, ~aborted, NEW c \in Connections, CommitTransaction(c)
    PROVE  [Atomic!Next]_(Atomic!vars)
<1>1. pc[c] = "commit" /\ UNCHANGED <<outcome, aborted>>
    BY DEF CommitTransaction
<1>2. PICK o \in Operations : o = op[c]
    BY <1>1, Occupied
<1>3. outcome[o] = "none" /\ outcome' = [outcome EXCEPT ![o] = outcome'[o]]
    BY <1>1, <1>2, Occupied DEF TxInv, TypeOK
<1>4. /\ stored' = [stored EXCEPT ![o] = stored'[o]]
      /\ spoiled' = spoiled \/ (spoiled' = spoiled \cup {o})
      /\ o \notin spoiled' => stored[o] = <<>> /\ stored'[o] = All(o)
    BY <1>2, CommitStores
<1>5. CASE o \in spoiled'
    <2>1. (o \in spoiled /\ UNCHANGED spoiled) \/ (spoiled' = spoiled \cup {o})
        BY <1>4, <1>5
    <2> QED BY <1>1, <1>3, <1>4, <2>1, SpoiledMayDoAnything
<1>6. CASE o \notin spoiled'
    <2>1. UNCHANGED spoiled
        BY <1>4, <1>6
    <2> QED BY <1>1, <1>3, <1>4, <1>6, <2>1, TakesEffect
<1> QED BY <1>5, <1>6

\* The answer tells what has become of the operation.
LEMMA FinishIsAtomic ==
    ASSUME TxInv, ~aborted, NEW c \in Connections, Finish(c)
    PROVE  [Atomic!Next]_(Atomic!vars)
<1>1. pc[c] = "returned" /\ UNCHANGED <<stored, spoiled, aborted>>
    BY DEF Finish, serverVars
<1>2. PICK o \in Operations : o = op[c]
    BY <1>1, Occupied
<1>3. TypeOK /\ Effect(c) /\ outcome[o] = "none" /\ o # Nobody
    BY <1>1, <1>2, Occupied DEF TxInv, ConnInv
<1>4. outcome' = [outcome EXCEPT ![o] = IF err[c] = "none" THEN "ok" ELSE "failed"]
    BY <1>2 DEF Finish
<1>5. CASE o \in spoiled
    <2>1. /\ outcome' = [outcome EXCEPT ![o] = outcome'[o]]
          /\ stored' = [stored EXCEPT ![o] = stored'[o]]
        BY <1>1, <1>3, <1>4 DEF TypeOK
    <2> QED BY <1>1, <1>3, <1>5, <2>1, SpoiledMayDoAnything
<1>6. CASE o \notin spoiled
    <2>1. stored[o] = IF err[c] = "none" THEN All(o) ELSE <<>>
        BY <1>1, <1>2, <1>3, <1>6 DEF Effect
    <2>2. CASE err[c] = "none"
        <3>1. Atomic!Succeed(o)
            BY <1>1, <1>3, <1>4, <2>1, <2>2 DEF Atomic!Succeed, All
        <3> QED BY <3>1 DEF Atomic!Next, Atomic!Step
    <2>3. CASE err[c] # "none"
        <3>1. Atomic!Fail(o)
            BY <1>1, <1>3, <1>4, <2>1, <2>3 DEF Atomic!Fail
        <3> QED BY <3>1 DEF Atomic!Next, Atomic!Step
    <2> QED BY <2>2, <2>3
<1> QED BY <1>5, <1>6

\* A lost connection, or a null handle, spoils the operation it interrupts.
LEMMA FaultSpoils ==
    ASSUME TxInv, ~aborted, NEW c \in Connections,
           LoseConnection(c) \/ StatementWithoutHandle(c)
    PROVE  [Atomic!Next]_(Atomic!vars)
<1>1. pc[c] \in Executing /\ UNCHANGED <<outcome, aborted>>
    BY DEF LoseConnection, StatementWithoutHandle, Executing
<1>2. PICK o \in Operations : o = op[c]
    BY <1>1, Occupied DEF Executing
<1>3. outcome[o] = "none" /\ outcome' = [outcome EXCEPT ![o] = outcome'[o]]
    BY <1>1, <1>2, Occupied DEF TxInv, TypeOK, Executing
<1>4. stored' = [stored EXCEPT ![o] = stored'[o]]
    <2>1. CASE LoseConnection(c)
        BY <1>2, <2>1, LossStores
    <2>2. CASE StatementWithoutHandle(c)
        BY <2>2 DEF StatementWithoutHandle, serverVars, TxInv, TypeOK
    <2> QED BY <2>1, <2>2
<1>5. spoiled' = spoiled \cup {o}
    BY <1>2 DEF LoseConnection, StatementWithoutHandle
<1> QED BY <1>1, <1>3, <1>4, <1>5, SpoiledMayDoAnything

\* Every step of the code is one of AtomicOperations, or none that can be seen there.
LEMMA StepIsAtomic ==
    ASSUME TxInv, [Next]_vars
    PROVE  [Atomic!Next]_(Atomic!vars)
<1>1. CASE UNCHANGED vars
    BY <1>1 DEF vars, Atomic!vars
<1>2. ASSUME ~aborted, NEW c \in Connections, Running(c) \/ LoseConnection(c)
      PROVE  [Atomic!Next]_(Atomic!vars)
    <2>1. ASSUME UNCHANGED <<answers, stored, aborted>>
          PROVE  [Atomic!Next]_(Atomic!vars)
        BY <2>1 DEF answers, Atomic!vars
    <2>2. ASSUME NEW o \in Operations, Start(c, o)
          PROVE  UNCHANGED <<answers, stored, aborted>>
        BY <2>2 DEF Start, serverVars
    <2>3. CASE BeginTransaction(c)
        BY <2>1, <2>3, NothingLeftOpen DEF BeginTransaction
    <2>4. CASE \/ StatementDeadlocks(c) \/ StatementFails(c) \/ RollbackTransaction(c)
               \/ Reconnect(c) \/ ReconnectGivesUp(c)
               \/ WantLock(c) \/ Lock(c) \/ Retry(c)
        BY <2>1, <2>4 DEF StatementDeadlocks, StatementFails, RollbackTransaction, Reconnect,
            ReconnectGivesUp, WantLock, Lock, Retry, ServerRollsBack, serverVars
    <2>5. CASE ReconnectRefused(c) \/ PrepareFails(c)
        <3>1. UNCHANGED <<answers, serverVars>> /\ (UNCHANGED aborted \/ aborted' = TRUE)
            BY <2>5 DEF ReconnectRefused, PrepareFails
        <3>2. CASE UNCHANGED aborted
            BY <2>1, <3>1, <3>2 DEF serverVars
        <3>3. CASE aborted' = TRUE
            BY <1>2, <3>1, <3>3 DEF answers, serverVars, Atomic!Next, Atomic!Abort
        <3> QED BY <3>1, <3>2, <3>3
    <2> QED BY <1>2, <2>1, <2>2, <2>3, <2>4, <2>5, StatementIsAtomic, CommitIsAtomic,
               FinishIsAtomic, FaultSpoils DEF Running
<1> QED BY <1>1, <1>2 DEF Next

\* Whatever deadlocks, errors, retries and lost connections there are, an operation that no
\* fault has spoiled takes effect at one instant, as a whole or not at all, its outcome says
\* which, and no operation touches what another has stored.
THEOREM OperationsAreAtomic == Spec => ImplementsAtomic
<1>1. Init => Atomic!Init
    BY DEF Init, Atomic!Init
<1>2. TxInv /\ [Next]_vars => [Atomic!Next]_(Atomic!vars)
    BY StepIsAtomic
<1> QED BY <1>1, <1>2, TransactionInvariant, PTL DEF Spec, ImplementsAtomic, Atomic!Spec
================================================================================
