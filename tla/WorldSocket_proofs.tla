------------------------- MODULE WorldSocket_proofs -------------------------
(***************************************************************************)
(* Proofs about the network thread and the world thread on one connection, *)
(* for any packets and any size of the send buffer: a session that a       *)
(* handler uses is alive, no two reads overlap, and the client gets what   *)
(* was sent, in order and without a gap.                                   *)
(*                                                                         *)
(* What is in the queues does not matter to the first two; what does is    *)
(* who closed the socket and whether that has reached the pointer, and     *)
(* what the query under way says of the session and of the reads.  The     *)
(* third is about nothing but the queues: the packets are followed through *)
(* the loop that fills the buffers, by induction over the packets, and     *)
(* through every partial write.                                            *)
(***************************************************************************)
EXTENDS WorldSocket, SequenceTheorems, WellFoundedInduction, TLAPS

\* The types of what decides who does what.
ControlTypes ==
    /\ closed \in BOOLEAN /\ closing \in BOOLEAN
    /\ reading \in BOOLEAN /\ ready \in BOOLEAN /\ worldSession \in BOOLEAN
    /\ query \in {"none", "ip", "account", "permissions"}
    /\ session \in {"none", "created", "handed", "listed", "deleted"}
    /\ net \in {"idle", "update", "writing", "callbacks", "parsing", "locked", "logging",
               "closing", "gone"}
    /\ back \in {"idle", "callbacks"}
    /\ world \in {"idle", "kicking", "deleting", "gone"}

\* One thread at most is in OnClose, after the exchange of _closed.
CloserInv ==
    /\ net = "closing" => closed /\ world = "idle"
    /\ world = "gone" => net = "gone"
    /\ world \in {"kicking", "deleting"} => closed /\ session \in {"handed", "listed"}
    /\ net = "closing" /\ back = "callbacks" => closing

\* The pointer outlives the session only on the way to OnClose.
PointerInv ==
    /\ net = "locked" => worldSession
    /\ net \in {"logging", "gone"} => session # "none"
    /\ worldSession => session # "none"
    /\ session # "none" /\ ~closed => worldSession
    /\ worldSession /\ closed => net = "closing" \/ world # "idle"
    /\ worldSession /\ session = "deleted" => net = "closing"

\* How far the login is, and whether its callback may still run.
QueryInv ==
    /\ query \in {"ip", "account"} => session = "none"
    /\ query = "permissions" => session = "created"
    /\ query = "permissions" /\ ~closed => worldSession
    /\ query # "none" /\ net \in {"writing", "callbacks"} => ~closed

\* A client that was turned away does not log in any more.
ClosingInv ==
    closing => /\ query = "none" /\ session = "none"
               /\ ~reading /\ net \notin {"parsing", "locked", "logging"}

SocketInv ==
    ControlTypes /\ CloserInv /\ PointerInv /\ QueryInv /\ ClosingInv /\ ReadsDoNotOverlap

-----------------------------------------------------------------------------
\* What one write_some may change: HandleQueue goes on, or ends the writing, or closes a
\* socket that was waiting for its last buffer.
LEMMA HandleQueueChanges ==
    ASSUME NEW next, NEW end, HandleQueue(next, end)
    PROVE  /\ UNCHANGED <<closing, reading, query, ready, worldSession, session, world>>
           /\ \/ net' \in {next, end} /\ UNCHANGED <<closed, back>>
              \/ closing /\ NetworkCloses(end)
BY DEF HandleQueue, PopBuffer, queryVars, sessionVars, sendVars

\* The inductive step: whichever thread takes it, the invariant survives.
LEMMA SocketStep == ASSUME SocketInv, [Next]_vars PROVE SocketInv'
<1> USE DEF SocketInv, ControlTypes, CloserInv, PointerInv, QueryInv, ClosingInv,
            ReadsDoNotOverlap, socketVars, writeVars, sendVars, queryVars, sessionVars
(* The network thread: the update *)
<1>1. CASE AddNewSockets
  BY <1>1 DEF AddNewSockets
<1>2. CASE StartUpdate
  BY <1>2 DEF StartUpdate
<1>3. CASE RemoveSocket
  BY <1>3 DEF RemoveSocket
<1>4. CASE BaseUpdate
  BY <1>4 DEF BaseUpdate
(* Only a socket that is closing is closed by a write, and then no query is under way. *)
<1>5. CASE WriteQueued
  <2>1. net = "writing"
    BY <1>5 DEF WriteQueued
  <2>2. HandleQueue("writing", "callbacks")
    BY <1>5 DEF WriteQueued
  <2>3. UNCHANGED <<closing, reading, query, ready, worldSession, session, world>>
    BY <2>2, HandleQueueChanges
  <2>4. CASE net' \in {"writing", "callbacks"} /\ UNCHANGED <<closed, back>>
    BY <2>1, <2>3, <2>4
  <2>5. CASE closing /\ NetworkCloses("callbacks")
    BY <2>1, <2>3, <2>5 DEF NetworkCloses
  <2> QED
    BY <2>2, <2>4, <2>5, HandleQueueChanges
<1>6. CASE WriteHandler
  <2>1. net = "idle"
    BY <1>6 DEF WriteHandler
  <2>2. HandleQueue("idle", "idle")
    BY <1>6 DEF WriteHandler
  <2>3. UNCHANGED <<closing, reading, query, ready, worldSession, session, world>>
    BY <2>2, HandleQueueChanges
  <2>4. CASE net' \in {"idle", "idle"} /\ UNCHANGED <<closed, back>>
    BY <2>1, <2>3, <2>4
  <2>5. CASE closing /\ NetworkCloses("idle")
    BY <2>1, <2>3, <2>5 DEF NetworkCloses
  <2> QED
    BY <2>2, <2>4, <2>5, HandleQueueChanges
(* The callbacks: the socket is open, as nobody else closes it before there is a session. *)
<1>7. CASE NoneReady
  BY <1>7 DEF NoneReady
<1>8. CASE Reject
  BY <1>8 DEF Reject, RunsCallback, CallbackDone, DelayedCloseSocket, NetworkCloses
<1>9. CASE CheckIpCallback
  BY <1>9 DEF CheckIpCallback, RunsCallback, CallbackDone, IsOpen
<1>10. CASE HandleAuthSessionCallback
  BY <1>10 DEF HandleAuthSessionCallback, RunsCallback, IsOpen
<1>11. CASE LoadSessionPermissionsCallback
  BY <1>11 DEF LoadSessionPermissionsCallback, RunsCallback, CallbackDone
(* The network thread: reading *)
<1>12. CASE ReadFails
  BY <1>12 DEF ReadFails, NetworkCloses
<1>13. CASE ReadHandler
  BY <1>13 DEF ReadHandler, IsOpen
<1>14. CASE EndOfData
  BY <1>14 DEF EndOfData, AsyncRead, IsOpen
<1>15. CASE HandleAuthSession
  BY <1>15 DEF HandleAuthSession, AuthSession
<1>16. CASE BadPacket
  BY <1>16 DEF BadPacket, NetworkCloses
<1>17. CASE LockSession
  BY <1>17 DEF LockSession
<1>18. CASE ReadDataHandler
  BY <1>18 DEF ReadDataHandler
<1>19. CASE ReadDataHandlerError
  BY <1>19 DEF ReadDataHandlerError, NetworkCloses
<1>20. CASE NetworkOnClose
  BY <1>20 DEF NetworkOnClose, OnClose
(* The database and the world thread: what it deletes, it or the closing network thread
   takes off the socket. *)
<1>21. CASE QueryCompletes
  BY <1>21 DEF QueryCompletes
<1>22. CASE AddSession
  BY <1>22 DEF AddSession
<1>23. CASE SessionSendPacket
  BY <1>23 DEF SessionSendPacket
<1>24. CASE KickPlayer
  BY <1>24 DEF KickPlayer, WorldCloses
<1>25. CASE DeleteSession
  BY <1>25 DEF DeleteSession, WorldCloses
<1>26. CASE WorldOnClose
  BY <1>26 DEF WorldOnClose, OnClose
<1>27. CASE UpdateSession
  BY <1>27 DEF UpdateSession, IsOpen
<1>28. CASE DuplicateAuthSession
  <2>1. /\ net = "parsing" /\ session # "none"
        /\ UNCHANGED <<closing, reading, query, ready, worldSession, session, world>>
    BY <1>28 DEF DuplicateAuthSession
  <2>2. CASE net' = "logging" /\ UNCHANGED <<closed, back>>
    BY <2>1, <2>2
  <2>3. CASE world # "idle" /\ NetworkCloses("idle")
    BY <2>1, <2>3 DEF NetworkCloses
  <2> QED
    BY <1>28, <2>2, <2>3 DEF DuplicateAuthSession
<1>29. CASE LogOffender
  BY <1>29 DEF LogOffender, NetworkCloses
<1>30. CASE LogNobody
  BY <1>30 DEF LogNobody
<1>31. CASE UNCHANGED vars
  BY <1>31 DEF vars
<1> QED
  BY <1>1, <1>2, <1>3, <1>4, <1>5, <1>6, <1>7, <1>8, <1>9, <1>10, <1>11, <1>12, <1>13,
     <1>14, <1>15, <1>16, <1>17, <1>18, <1>19, <1>20, <1>21, <1>22, <1>23, <1>24, <1>25,
     <1>26, <1>27, <1>28, <1>29, <1>30, <1>31
  DEF Next, InHandler

\* What the handlers rely on follows from where the pointer and the query are.
LEMMA SessionIsAlive == ASSUME SocketInv PROVE SessionIsThere
BY DEF SocketInv, ControlTypes, CloserInv, PointerInv, QueryInv, SessionIsThere, RunsCallback

-----------------------------------------------------------------------------
(* The control of a connection, at every point of the login and whoever closes it: the
   inductive invariant. *)
THEOREM SocketInvariant == Spec => []SocketInv
<1>1. Init => SocketInv
  BY DEF Init, SocketInv, ControlTypes, CloserInv, PointerInv, QueryInv, ClosingInv,
         ReadsDoNotOverlap
<1>2. SocketInv /\ [Next]_vars => SocketInv'
  BY SocketStep
<1> QED
  BY <1>1, <1>2, PTL DEF Spec

(* The network thread uses no session that has been deleted: under _worldSessionLock,
   because the pointer is taken off before the session is deleted, and in the permissions'
   callback, which has no lock, because nobody but this thread closes the socket before the
   session is handed to the world.  For the second CMSG_AUTH_SESSION it says no more: the
   pointer that is not tested there may be null, once the socket has been closed
   (WorldSocket.cpp 330-398, 625-631, WorldSession.cpp 485-500). *)
THEOREM SessionOutlivesItsUse == Spec => []SessionIsThere
BY SocketInvariant, SessionIsAlive, PTL

(* No two reads into the same buffer: the client that waits for an answer of the database is
   not read from, and only one callback reads on (WorldSocket.cpp 79, 203, 350, 622). *)
THEOREM OneReadAtATime == Spec => []ReadsDoNotOverlap
<1>1. SocketInv => ReadsDoNotOverlap
  BY DEF SocketInv
<1> QED
  BY <1>1, SocketInvariant, PTL

-----------------------------------------------------------------------------
(* Buffers and what is in them. *)
\* Induction over the natural numbers, for a set of them: the least number outside of
\* it would have a predecessor inside.
LEMMA NatSetInduction ==
    ASSUME NEW S, 0 \in S, \A n \in Nat : n \in S => n + 1 \in S
    PROVE  \A n \in Nat : n \in S
<1> DEFINE T == {n \in Nat : n \notin S}
           R == {ss \in Nat \X Nat : ss[1] < ss[2]}
<1>1. IsWellFoundedOn(R, Nat)
  BY NatLessThanWellFounded DEF OpToRel
<1>2. T \subseteq Nat
  OBVIOUS
<1>3. SUFFICES ASSUME T # {} PROVE FALSE
  OBVIOUS
<1> HIDE DEF T, R
<1>4. PICK x \in T : \A y \in T : <<y, x>> \notin R
  BY <1>1, <1>2, <1>3, WFMin
<1>5. \A y \in T : ~ (y < x)
  BY <1>2, <1>4 DEF R
<1>6. x - 1 \in Nat
  BY <1>2 DEF T
<1> QED
  BY <1>5, <1>6 DEF T

\* What FlattenSeq's recursive function computes for the first buffers.
Extended(s, f, i) == IF i = 1 THEN s[i] ELSE f[i - 1] \o s[i]
Flat(s, f) == f = [i \in 1..Len(s) |-> Extended(s, f, i)]

\* The functions of two sequences agree where the sequences do.
LEMMA FlatUnique ==
    ASSUME NEW s, NEW t, NEW f, NEW g, Len(s) \in Nat, Len(t) \in Nat,
           Len(s) <= Len(t), \A i \in 1..Len(s) : t[i] = s[i],
           Flat(s, f), Flat(t, g)
    PROVE  \A i \in 1..Len(s) : g[i] = f[i]
<1> DEFINE S == {n \in Nat : n \in 1..Len(s) => g[n] = f[n]}
<1>0. /\ \A i \in 1..Len(s) : f[i] = Extended(s, f, i)
      /\ \A i \in 1..Len(t) : g[i] = Extended(t, g, i)
  BY DEF Flat
<1>1. 0 \in S
  OBVIOUS
<1>2. ASSUME NEW n \in Nat, n \in S PROVE n + 1 \in S
  <2>1. SUFFICES ASSUME n + 1 \in 1..Len(s) PROVE g[n + 1] = f[n + 1]
    OBVIOUS
  <2>2. f[n + 1] = Extended(s, f, n + 1) /\ g[n + 1] = Extended(t, g, n + 1)
    BY <1>0, <2>1
  <2>3. (n + 1) - 1 = n
    OBVIOUS
  <2>4. t[n + 1] = s[n + 1] /\ (n # 0 => g[n] = f[n])
    BY <1>2, <2>1
  <2>5. CASE n = 0
    BY <2>2, <2>4, <2>5 DEF Extended
  <2>6. CASE n # 0
    <3>1. n + 1 # 1
      BY <2>6
    <3> QED
      BY <2>2, <2>3, <2>4, <2>6, <3>1, Zenon DEF Extended
  <2> QED
    BY <2>5, <2>6
<1> HIDE DEF S
<1>3. \A n \in Nat : n \in S
  BY <1>1, <1>2, NatSetInduction
<1> QED
  BY <1>3 DEF S

\* Every sequence of buffers has one.
LEMMA FlatExists ==
    ASSUME NEW s, Len(s) \in Nat
    PROVE  \E f : Flat(s, f)
<1> DEFINE Upto(n, f) == f = [i \in 1..n |-> Extended(s, f, i)]
           S == {n \in Nat : \E f : Upto(n, f)}
<1>1. 0 \in S
  <2>1. Upto(0, [i \in 1..0 |-> s])
    BY DEF Extended
  <2> QED
    BY <2>1
<1>2. ASSUME NEW n \in Nat, n \in S PROVE n + 1 \in S
  <2>1. PICK f : Upto(n, f)
    BY <1>2
  <2> DEFINE g == [i \in 1..n + 1 |-> IF i <= n THEN f[i] ELSE Extended(s, f, i)]
  <2>2. ASSUME NEW i \in 1..n + 1 PROVE g[i] = Extended(s, g, i)
    <3>1. g[i] = Extended(s, f, i)
      BY <2>1
    <3>2. i # 1 => g[i - 1] = f[i - 1]
      OBVIOUS
    <3> HIDE DEF g
    <3> QED
      BY <3>1, <3>2, Zenon DEF Extended
  <2>3. g = [i \in 1..n + 1 |-> g[i]]
    OBVIOUS
  <2> HIDE DEF g
  <2>4. Upto(n + 1, g)
    BY <2>2, <2>3, Zenon
  <2> QED
    BY <2>4
<1> HIDE DEF S
<1>3. \A n \in Nat : n \in S
  BY <1>1, <1>2, NatSetInduction
<1> QED
  BY <1>3 DEF S, Flat

\* FlattenSeq is its last value.
LEMMA FlattenIsFlat ==
    ASSUME NEW s, Len(s) \in Nat, Len(s) # 0
    PROVE  \E f : Flat(s, f) /\ FlattenSeq(s) = f[Len(s)]
<1> DEFINE f == CHOOSE f : f = [i \in 1..Len(s) |-> IF i = 1 THEN s[i] ELSE f[i - 1] \o s[i]]
<1>1. Flat(s, f)
  BY FlatExists, Zenon DEF Flat, Extended
<1>2. FlattenSeq(s) = f[Len(s)]
  BY DEF FlattenSeq
<1> QED
  BY <1>1, <1>2

\* Nothing to flatten.
LEMMA FlattenEmpty == FlattenSeq(<<>>) = <<>>
BY DEF FlattenSeq

\* One more buffer, whatever the buffers are.
LEMMA FlattenStep ==
    ASSUME NEW s, NEW t, Len(s) \in Nat, Len(s) # 0, Len(t) = Len(s) + 1,
           \A i \in 1..Len(s) : t[i] = s[i]
    PROVE  FlattenSeq(t) = FlattenSeq(s) \o t[Len(t)]
<1>1. Len(t) \in Nat /\ Len(t) # 0 /\ Len(s) <= Len(t) /\ Len(s) \in 1..Len(s)
  OBVIOUS
<1>2. PICK f : Flat(s, f) /\ FlattenSeq(s) = f[Len(s)]
  BY FlattenIsFlat
<1>3. PICK g : Flat(t, g) /\ FlattenSeq(t) = g[Len(t)]
  BY <1>1, FlattenIsFlat
<1>4. \A i \in 1..Len(s) : g[i] = f[i]
  BY <1>1, <1>2, <1>3, FlatUnique
<1>5. FlattenSeq(t) = Extended(t, g, Len(t))
  <2>1. \A i \in 1..Len(t) : g[i] = Extended(t, g, i)
    BY <1>3 DEF Flat
  <2> QED
    BY <1>1, <1>3, <2>1
<1>6. Len(t) # 1 /\ Len(t) - 1 = Len(s)
  OBVIOUS
<1>7. FlattenSeq(t) = g[Len(s)] \o t[Len(t)]
  BY <1>5, <1>6, Zenon DEF Extended
<1> QED
  BY <1>1, <1>2, <1>4, <1>7

\* A single buffer.
LEMMA FlattenSingle ==
    ASSUME NEW t, Len(t) = 1
    PROVE  FlattenSeq(t) = t[1]
<1>0. Len(t) \in Nat /\ Len(t) # 0
  OBVIOUS
<1>1. PICK g : Flat(t, g) /\ FlattenSeq(t) = g[1]
  BY <1>0, FlattenIsFlat
<1>2. g[1] = Extended(t, g, 1)
  BY <1>1 DEF Flat
<1> QED
  BY <1>1, <1>2 DEF Extended

\* One more buffer at the end of a queue of them.
LEMMA FlattenAppend ==
    ASSUME NEW S, NEW s \in Seq(Seq(S)), NEW b \in Seq(S)
    PROVE  FlattenSeq(Append(s, b)) = FlattenSeq(s) \o b
<1> DEFINE t == Append(s, b)
<1>1. /\ Len(t) = Len(s) + 1 /\ t[Len(t)] = b
      /\ \A i \in 1..Len(s) : t[i] = s[i]
      /\ Len(s) \in Nat
  BY AppendProperties
<1> HIDE DEF t
<1>2. CASE Len(s) = 0
  <2>1. FlattenSeq(t) = b
    BY <1>1, <1>2, FlattenSingle
  <2>2. s = <<>>
    BY <1>2
  <2>3. FlattenSeq(s) \o b = b
    BY <2>2, FlattenEmpty, ConcatEmptySeq
  <2> QED
    BY <2>1, <2>3 DEF t
<1>3. CASE Len(s) # 0
  <2>1. FlattenSeq(t) = FlattenSeq(s) \o t[Len(t)]
    BY <1>1, <1>3, FlattenStep, Zenon
  <2> QED
    BY <1>1, <2>1, Zenon DEF t
<1> QED
  BY <1>2, <1>3

\* The packets of some buffers, and the packets of some buffers and some more.
LEMMA FlattenConcat ==
    ASSUME NEW S, NEW s \in Seq(Seq(S)), NEW t \in Seq(Seq(S))
    PROVE  /\ FlattenSeq(t) \in Seq(S)
           /\ FlattenSeq(s \o t) = FlattenSeq(s) \o FlattenSeq(t)
<1>0. \A x, y, z \in Seq(S) : (x \o y) \o z = x \o (y \o z)
  BY ConcatAssociative
<1> DEFINE Of(n) == {u \in Seq(Seq(S)) : Len(u) = n}
           Whole(u) == FlattenSeq(u) \in Seq(S)
           Apart(u) == FlattenSeq(s \o u) = FlattenSeq(s) \o FlattenSeq(u)
           W == {n \in Nat : \A u \in Of(n) : Whole(u)}
           A == {n \in Nat : \A u \in Of(n) : Apart(u)}
(* An empty sequence of buffers. *)
<1>1. \A u \in Of(0) : u = <<>>
  OBVIOUS
<1>2. 0 \in W
  BY <1>1, FlattenEmpty, EmptySeq
(* The last buffer is taken off. *)
<1>3. ASSUME NEW n \in Nat, NEW u \in Of(n + 1)
      PROVE  \E v \in Of(n), b \in Seq(S) : u = Append(v, b)
  <2>1. u # <<>>
    OBVIOUS
  <2>2. PICK v \in Seq(Seq(S)), b \in Seq(S) : u = Append(v, b)
    BY <2>1, SequenceEmptyOrAppend
  <2>3. Len(u) = Len(v) + 1 /\ Len(v) \in Nat
    BY <2>2, AppendProperties
  <2>4. v \in Of(n)
    BY <2>3
  <2> HIDE DEF Of
  <2> QED
    BY <2>2, <2>4
<1>4. ASSUME NEW n \in Nat, n \in W PROVE n + 1 \in W
  <2>1. SUFFICES ASSUME NEW u \in Of(n + 1) PROVE Whole(u)
    OBVIOUS
  <2>2. PICK v \in Of(n), b \in Seq(S) : u = Append(v, b)
    BY <1>3
  <2>3. FlattenSeq(u) = FlattenSeq(v) \o b
    BY <2>2, FlattenAppend
  <2> QED
    BY <1>4, <2>2, <2>3, ConcatProperties
<1> HIDE DEF W
<1>5. \A n \in Nat : n \in W
  BY <1>2, <1>4, NatSetInduction
<1>6. ASSUME NEW u \in Seq(Seq(S)) PROVE Whole(u)
  <2>1. Len(u) \in Nat
    OBVIOUS
  <2> QED
    BY <1>5, <2>1 DEF W
<1>7. 0 \in A
  <2>1. SUFFICES ASSUME NEW u \in Of(0) PROVE Apart(u)
    OBVIOUS
  <2>2. u = <<>>
    BY <1>1
  <2>3. s \o u = s /\ FlattenSeq(s) \o <<>> = FlattenSeq(s)
    BY <1>6, <2>2, ConcatEmptySeq
  <2> QED
    BY <2>2, <2>3, FlattenEmpty
<1>8. ASSUME NEW n \in Nat, n \in A PROVE n + 1 \in A
  <2>1. SUFFICES ASSUME NEW u \in Of(n + 1) PROVE Apart(u)
    OBVIOUS
  <2>2. PICK v \in Of(n), b \in Seq(S) : u = Append(v, b)
    BY <1>3
  <2>3. v \in Seq(Seq(S)) /\ <<b>> \in Seq(Seq(S))
    OBVIOUS
  <2>4. u = v \o <<b>> /\ s \o v \in Seq(Seq(S))
    BY <2>2, <2>3, AppendIsConcat, ConcatProperties
  <2>5. s \o u = (s \o v) \o <<b>>
    BY <2>3, <2>4, ConcatAssociative
  <2>6. s \o u = Append(s \o v, b)
    BY <2>4, <2>5, AppendIsConcat
  <2>7. FlattenSeq(s \o u) = FlattenSeq(s \o v) \o b
    BY <2>4, <2>6, FlattenAppend
  <2>8. FlattenSeq(u) = FlattenSeq(v) \o b
    BY <2>2, <2>3, FlattenAppend
  <2>9. FlattenSeq(s \o v) = FlattenSeq(s) \o FlattenSeq(v)
    BY <1>8, <2>2
  <2>10. FlattenSeq(s) \in Seq(S) /\ FlattenSeq(v) \in Seq(S)
    BY <1>6, <2>3
  <2>12. b \in Seq(S)
    OBVIOUS
  <2>13. (FlattenSeq(s) \o FlattenSeq(v)) \o b = FlattenSeq(s) \o (FlattenSeq(v) \o b)
    BY <1>0, <2>10, <2>12, Zenon
  <2> QED
    BY <2>7, <2>8, <2>9, <2>13
<1> HIDE DEF A
<1>9. \A n \in Nat : n \in A
  BY <1>7, <1>8, NatSetInduction
<1>10. Apart(t)
  <2>1. Len(t) \in Nat
    OBVIOUS
  <2> QED
    BY <1>9, <2>1 DEF A
<1> QED
  BY <1>6, <1>10

\* The first buffer and the others.
LEMMA FlattenHeadTail ==
    ASSUME NEW S, NEW s \in Seq(Seq(S)), s # <<>>
    PROVE  /\ Head(s) \in Seq(S) /\ Tail(s) \in Seq(Seq(S))
           /\ FlattenSeq(s) = Head(s) \o FlattenSeq(Tail(s))
<1>1. Head(s) \in Seq(S) /\ Tail(s) \in Seq(Seq(S)) /\ <<Head(s)>> \in Seq(Seq(S))
  BY HeadTailProperties
<1>2. s = <<Head(s)>> \o Tail(s)
  OBVIOUS
<1>3. FlattenSeq(<<Head(s)>>) = Head(s)
  <2>1. <<Head(s)>> = Append(<<>>, Head(s)) /\ <<>> \in Seq(Seq(S))
    BY <1>1
  <2>2. FlattenSeq(Append(<<>>, Head(s))) = FlattenSeq(<<>>) \o Head(s)
    BY <1>1, <2>1, FlattenAppend
  <2>3. <<>> \o Head(s) = Head(s)
    BY <1>1, ConcatEmptySeq
  <2> QED
    BY <2>1, <2>2, <2>3, FlattenEmpty
<1> QED
  BY <1>1, <1>2, <1>3, FlattenConcat

\* The greatest index.
LEMMA MaxIsTop ==
    ASSUME NEW s, NEW n \in s, s \subseteq Int, \A i \in s : i <= n
    PROVE  Max(s) = n
<1>1. \E x \in s : \A y \in s : x >= y
  OBVIOUS
<1>2. Max(s) \in s /\ \A y \in s : Max(s) >= y
  BY <1>1, Zenon DEF Max
<1>3. Max(s) \in Int /\ n \in Int
  BY <1>2
<1>4. Max(s) >= n /\ Max(s) <= n
  BY <1>2
<1> HIDE DEF Max
<1> QED
  BY <1>3, <1>4

\* Every set of indices that is not empty has one.
LEMMA MaxIsIn ==
    ASSUME NEW n \in Nat, NEW s, s \subseteq 1..n, s # {}
    PROVE  Max(s) \in s /\ \A i \in s : i <= Max(s)
<1> DEFINE S == {m \in Nat : \A t \in SUBSET (1..m) :
                    t # {} => \E k \in t : \A i \in t : i <= k}
<1>1. 0 \in S
  <2>1. 1..0 = {}
    OBVIOUS
  <2> QED
    BY <2>1
<1>2. ASSUME NEW m \in Nat, m \in S PROVE m + 1 \in S
  <2>1. SUFFICES ASSUME NEW t \in SUBSET (1..m + 1), t # {}
                 PROVE  \E k \in t : \A i \in t : i <= k
    OBVIOUS
  <2>2. CASE m + 1 \in t
    BY <2>2
  <2>3. CASE m + 1 \notin t
    <3>1. t \in SUBSET (1..m)
      BY <2>3
    <3> QED
      BY <1>2, <2>1, <3>1
  <2> QED
    BY <2>2, <2>3
<1> HIDE DEF S
<1>3. n \in S
  BY <1>1, <1>2, NatSetInduction
<1>4. PICK k \in s : \A i \in s : i <= k
  BY <1>3 DEF S
<1>5. s \subseteq Int
  OBVIOUS
<1>6. Max(s) = k
  BY <1>4, <1>5, MaxIsTop
<1> QED
  BY <1>4, <1>6

\* What FoldLeft's recursive function computes for the first packets.
Packed(p, base, D, iter) ==
    iter = [s \in SUBSET D |->
               IF s = {} THEN base ELSE Pack(iter[s \ {Max(s)}], p[Max(s)])]

\* It exists.
LEMMA PackedExists ==
    ASSUME NEW p, NEW base, NEW n \in Nat
    PROVE  \E iter : Packed(p, base, 1..n, iter)
<1> DEFINE Op(w, i) == Pack(w, p[i])
           Value(iter, s) == IF s = {} THEN base ELSE Op(iter[s \ {Max(s)}], Max(s))
           Upto(m, iter) == iter = [s \in SUBSET (1..m) |-> Value(iter, s)]
           S == {m \in Nat : \E iter : Upto(m, iter)}
<1> HIDE DEF Op
<1>1. 0 \in S
  <2>1. Upto(0, [s \in SUBSET (1..0) |-> base])
    OBVIOUS
  <2> HIDE DEF Upto
  <2> QED
    BY <2>1
<1>2. ASSUME NEW m \in Nat, m \in S PROVE m + 1 \in S
  <2>1. PICK f : Upto(m, f)
    BY <1>2
  <2>2. \A s \in SUBSET (1..m) : f[s] = Value(f, s)
    BY <2>1
  <2> DEFINE g == [s \in SUBSET (1..m + 1) |->
                      IF m + 1 \in s THEN Op(f[s \ {m + 1}], m + 1) ELSE f[s]]
  <2>3. ASSUME NEW s \in SUBSET (1..m + 1) PROVE g[s] = Value(g, s)
    <3>1. CASE m + 1 \in s
      <4>1. Max(s) = m + 1
        <5>1. s \subseteq Int /\ \A i \in s : i <= m + 1
          OBVIOUS
        <5> QED
          BY <3>1, <5>1, MaxIsTop
      <4>2. s \ {m + 1} \in SUBSET (1..m + 1) /\ m + 1 \notin s \ {m + 1}
        OBVIOUS
      <4>3. g[s \ {m + 1}] = f[s \ {m + 1}]
        BY <4>2
      <4>4. g[s] = Op(f[s \ {m + 1}], m + 1)
        BY <3>1
      <4>5. s # {}
        BY <3>1
      <4> HIDE DEF g
      <4> QED
        BY <4>1, <4>3, <4>4, <4>5
    <3>2. CASE m + 1 \notin s
      <4>1. s \in SUBSET (1..m) /\ g[s] = f[s]
        BY <3>2
      <4>2. \A r \in SUBSET s : r \in SUBSET (1..m + 1) /\ m + 1 \notin r
        BY <3>2
      <4>3. \A r \in SUBSET s : g[r] = f[r]
        BY <4>2
      <4>4. g[s \ {Max(s)}] = f[s \ {Max(s)}]
        BY <4>3
      <4>5. f[s] = Value(f, s)
        BY <2>2, <4>1
      <4> HIDE DEF g
      <4> QED
        BY <4>1, <4>4, <4>5
    <3> QED
      BY <3>1, <3>2
  <2>4. g = [s \in SUBSET (1..m + 1) |-> g[s]]
    OBVIOUS
  <2> HIDE DEF g, Value
  <2>5. Upto(m + 1, g)
    BY <2>3, <2>4, Zenon
  <2> HIDE DEF Upto
  <2> QED
    BY <2>5
<1> HIDE DEF S
<1>3. n \in S
  BY <1>1, <1>2, NatSetInduction
<1>4. PICK iter : Upto(n, iter)
  BY <1>3 DEF S
<1> QED
  BY <1>4, Zenon DEF Packed, Op

\* FoldLeft is its value for all of the packets.
LEMMA FoldIsPacked ==
    ASSUME NEW p, NEW base, NEW n \in Nat, DOMAIN p = 1..n
    PROVE  \E iter : Packed(p, base, 1..n, iter) /\ FoldLeft(Pack, base, p) = iter[1..n]
<1> DEFINE D == DOMAIN p
           f == CHOOSE iter : iter = [s \in SUBSET D |->
                    IF s = {} THEN base ELSE Pack(iter[s \ {Max(s)}], p[Max(s)])]
<1>1. FoldLeft(Pack, base, p) = f[D]
  BY DEF FoldLeft, MapThenFoldSet, Max
<1>2. \E iter : Packed(p, base, D, iter)
  BY PackedExists
<1> HIDE DEF D
<1>3. Packed(p, base, D, f)
  BY <1>2, Zenon DEF Packed
<1> QED
  BY <1>1, <1>3 DEF D

\* The packets that a state of the loop holds.
Held(w) == FlattenSeq(w.queue) \o w.buffer
Filling(P) == [queue : Seq(Seq(P)), buffer : Seq(P)]

\* The buffer is flushed.
LEMMA FlushHolds ==
    ASSUME NEW P, NEW w \in Filling(P)
    PROVE  LET v == [queue |-> Append(w.queue, w.buffer), buffer |-> <<>>]
           IN v \in Filling(P) /\ Held(v) = Held(w)
<1> DEFINE v == [queue |-> Append(w.queue, w.buffer), buffer |-> <<>>]
<1>1. w.queue \in Seq(Seq(P)) /\ w.buffer \in Seq(P)
  BY DEF Filling
<1>2. Append(w.queue, w.buffer) \in Seq(Seq(P)) /\ <<>> \in Seq(P)
  BY <1>1, AppendProperties
<1>3. FlattenSeq(Append(w.queue, w.buffer)) = FlattenSeq(w.queue) \o w.buffer
  BY <1>1, FlattenAppend
<1>4. FlattenSeq(Append(w.queue, w.buffer)) \in Seq(P)
  BY <1>2, FlattenConcat
<1>5. FlattenSeq(Append(w.queue, w.buffer)) \o <<>> = FlattenSeq(Append(w.queue, w.buffer))
  BY <1>4, ConcatEmptySeq
<1>6. v \in Filling(P)
  BY <1>2 DEF Filling
<1>7. Held(v) = Held(w)
  BY <1>3, <1>5 DEF Held
<1> QED
  BY <1>6, <1>7

\* A packet of its own, after a flush.
LEMMA LargeHolds ==
    ASSUME NEW P, NEW w \in Filling(P), w.buffer = <<>>, NEW x \in P
    PROVE  LET v == [w EXCEPT !.queue = Append(@, <<x>>)]
           IN v \in Filling(P) /\ Held(v) = Append(Held(w), x)
<1> DEFINE v == [w EXCEPT !.queue = Append(@, <<x>>)]
<1>1. w.queue \in Seq(Seq(P)) /\ <<x>> \in Seq(P) /\ <<>> \in Seq(P)
  BY DEF Filling
<1>2. v.queue = Append(w.queue, <<x>>) /\ v.buffer = <<>>
  BY DEF Filling
<1>3. v.queue \in Seq(Seq(P))
  BY <1>1, <1>2, AppendProperties
<1>4. v \in Filling(P)
  BY <1>1, <1>2, <1>3 DEF Filling
<1>5. FlattenSeq(v.queue) = FlattenSeq(w.queue) \o <<x>>
  BY <1>1, <1>2, FlattenAppend
<1>6. FlattenSeq(w.queue) \in Seq(P) /\ FlattenSeq(v.queue) \in Seq(P)
  BY <1>1, <1>3, FlattenConcat
<1>7. FlattenSeq(w.queue) \o <<x>> = Append(FlattenSeq(w.queue), x)
  BY <1>6, AppendIsConcat
<1>8. FlattenSeq(v.queue) \o <<>> = FlattenSeq(v.queue)
  BY <1>6, ConcatEmptySeq
<1>9. FlattenSeq(w.queue) \o <<>> = FlattenSeq(w.queue)
  BY <1>6, ConcatEmptySeq
<1>10. Held(v) = FlattenSeq(v.queue) /\ Held(w) = FlattenSeq(w.queue)
  BY <1>2, <1>8, <1>9 DEF Held
<1> QED
  BY <1>4, <1>5, <1>7, <1>10

\* A packet in the buffer.
LEMMA SmallHolds ==
    ASSUME NEW P, NEW w \in Filling(P), NEW x \in P
    PROVE  LET v == [w EXCEPT !.buffer = Append(@, x)]
           IN v \in Filling(P) /\ Held(v) = Append(Held(w), x)
<1> DEFINE v == [w EXCEPT !.buffer = Append(@, x)]
<1>1. w.queue \in Seq(Seq(P)) /\ w.buffer \in Seq(P)
  BY DEF Filling
<1>2. v.queue = w.queue /\ v.buffer = Append(w.buffer, x)
  BY DEF Filling
<1>3. v \in Filling(P)
  <2>1. Append(w.buffer, x) \in Seq(P)
    BY <1>1, AppendProperties
  <2> QED
    BY <1>1, <2>1 DEF Filling
<1>4. FlattenSeq(w.queue) \in Seq(P)
  BY <1>1, FlattenConcat
<1>5. \A a, b \in Seq(P) : a \o Append(b, x) = Append(a \o b, x)
  OBVIOUS
<1> HIDE DEF v
<1>6. Held(v) = Append(Held(w), x)
  BY <1>1, <1>2, <1>4, <1>5 DEF Held
<1> QED
  BY <1>3, <1>6 DEF v

\* One turn of the loop of WorldSocket::Update.
LEMMA PackHolds ==
    ASSUME NEW P, NEW w \in Filling(P), NEW x \in P
    PROVE  Pack(w, x) \in Filling(P) /\ Held(Pack(w, x)) = Append(Held(w), x)
<1> DEFINE full == x \in Large \/ Len(w.buffer) = Capacity
           flushed == [queue |-> Append(w.queue, w.buffer), buffer |-> <<>>]
           start == IF full THEN flushed ELSE w
<1>1. flushed \in Filling(P) /\ Held(flushed) = Held(w)
  BY FlushHolds
<1>2. start \in Filling(P) /\ Held(start) = Held(w)
  BY <1>1
<1>3. x \in Large => start.buffer = <<>>
  OBVIOUS
<1>4. Pack(w, x) = IF x \in Large THEN [start EXCEPT !.queue = Append(@, <<x>>)]
                   ELSE [start EXCEPT !.buffer = Append(@, x)]
  BY DEF Pack
<1> HIDE DEF start
<1>5. CASE x \in Large
  <2> DEFINE v == [start EXCEPT !.queue = Append(@, <<x>>)]
  <2>1. v \in Filling(P) /\ Held(v) = Append(Held(start), x)
    BY <1>2, <1>3, <1>5, LargeHolds
  <2>2. Pack(w, x) = v
    BY <1>4, <1>5
  <2> HIDE DEF v
  <2> QED
    BY <1>2, <2>1, <2>2
<1>6. CASE x \notin Large
  <2> DEFINE v == [start EXCEPT !.buffer = Append(@, x)]
  <2>1. v \in Filling(P) /\ Held(v) = Append(Held(start), x)
    BY <1>2, SmallHolds
  <2>2. Pack(w, x) = v
    BY <1>4, <1>6
  <2> HIDE DEF v
  <2> QED
    BY <1>2, <2>1, <2>2
<1> QED
  BY <1>5, <1>6

\* The loop puts every packet into a buffer, in order.
LEMMA BuffersHold ==
    ASSUME NEW P, NEW p \in Seq(P)
    PROVE  Buffers(p) \in Seq(Seq(P)) /\ FlattenSeq(Buffers(p)) = p
<1> DEFINE n == Len(p)
           base == [queue |-> <<>>, buffer |-> <<>>]
           filled == FoldLeft(Pack, base, p)
<1>1. n \in Nat /\ DOMAIN p = 1..n /\ \A i \in 1..n : p[i] \in P
  OBVIOUS
<1> HIDE DEF n, base
<1>2. PICK iter : Packed(p, base, 1..n, iter) /\ filled = iter[1..n]
  BY <1>1, FoldIsPacked
<1> HIDE DEF filled
<1>3. iter[{}] = base
  BY <1>2 DEF Packed
<1>4. ASSUME NEW k \in Nat, k + 1 <= n
      PROVE  iter[1..k + 1] = Pack(iter[1..k], p[k + 1])
  <2>1. Max(1..k + 1) = k + 1
    <3>1. k + 1 \in 1..k + 1 /\ 1..k + 1 \subseteq Int /\ \A i \in 1..k + 1 : i <= k + 1
      OBVIOUS
    <3> QED
      BY <3>1, MaxIsTop
  <2>2. 1..k + 1 \in SUBSET (1..n) /\ 1..k + 1 # {} /\ (1..k + 1) \ {k + 1} = 1..k
    BY <1>1, <1>4
  <2>3. iter[1..k + 1] = Pack(iter[(1..k + 1) \ {Max(1..k + 1)}], p[Max(1..k + 1)])
    BY <1>2, <2>2, Zenon DEF Packed
  <2> QED
    BY <2>1, <2>2, <2>3
<1> DEFINE S == {k \in Nat : k <= n => /\ iter[1..k] \in Filling(P)
                                       /\ Held(iter[1..k]) = SubSeq(p, 1, k)}
<1>5. 0 \in S
  <2>1. 1..0 = {} /\ SubSeq(p, 1, 0) = <<>>
    OBVIOUS
  <2>2. base \in Filling(P) /\ base.queue = <<>> /\ base.buffer = <<>>
    BY DEF base, Filling
  <2>3. Held(base) = <<>>
    BY <2>2, FlattenEmpty DEF Held
  <2> QED
    BY <1>3, <2>1, <2>2, <2>3
<1>6. ASSUME NEW k \in Nat, k \in S PROVE k + 1 \in S
  <2>1. SUFFICES ASSUME k + 1 <= n
                 PROVE  /\ iter[1..k + 1] \in Filling(P)
                        /\ Held(iter[1..k + 1]) = SubSeq(p, 1, k + 1)
    OBVIOUS
  <2>2. iter[1..k] \in Filling(P) /\ Held(iter[1..k]) = SubSeq(p, 1, k)
    BY <1>1, <1>6, <2>1
  <2>3. iter[1..k + 1] = Pack(iter[1..k], p[k + 1]) /\ p[k + 1] \in P
    BY <1>1, <1>4, <2>1
  <2>4. Append(SubSeq(p, 1, k), p[k + 1]) = SubSeq(p, 1, k + 1)
    BY <1>1, <2>1
  <2> QED
    BY <2>2, <2>3, <2>4, PackHolds
<1> HIDE DEF S
<1>7. n \in S
  BY <1>1, <1>5, <1>6, NatSetInduction
<1>8. filled \in Filling(P) /\ Held(filled) = p
  <2>1. SubSeq(p, 1, n) = p
    BY DEF n
  <2> QED
    BY <1>1, <1>2, <1>7, <2>1 DEF S
<1>9. Buffers(p) = filled.queue \o (IF filled.buffer = <<>> THEN <<>> ELSE <<filled.buffer>>)
  BY DEF Buffers, filled, base
<1>10. filled.queue \in Seq(Seq(P)) /\ filled.buffer \in Seq(P)
  BY <1>8 DEF Filling
<1>11. FlattenSeq(filled.queue) \o filled.buffer = p
  BY <1>8 DEF Held
<1>12. CASE filled.buffer = <<>>
  <2>1. Buffers(p) = filled.queue
    BY <1>9, <1>10, <1>12, ConcatEmptySeq
  <2>2. FlattenSeq(filled.queue) \in Seq(P)
    BY <1>10, FlattenConcat
  <2>3. FlattenSeq(filled.queue) \o <<>> = FlattenSeq(filled.queue)
    BY <2>2, ConcatEmptySeq
  <2> QED
    BY <1>10, <1>11, <1>12, <2>1, <2>3
<1>13. CASE filled.buffer # <<>>
  <2>1. Buffers(p) = Append(filled.queue, filled.buffer)
    BY <1>9, <1>10, <1>13, AppendIsConcat
  <2>2. Append(filled.queue, filled.buffer) \in Seq(Seq(P))
    BY <1>10, AppendProperties
  <2>3. FlattenSeq(Append(filled.queue, filled.buffer)) = FlattenSeq(filled.queue) \o filled.buffer
    BY <1>10, FlattenAppend
  <2> QED
    BY <1>11, <2>1, <2>2, <2>3
<1> QED
  BY <1>12, <1>13

\* What is before something is a prefix.
LEMMA PrefixOfConcat ==
    ASSUME NEW S, NEW s \in Seq(S), NEW t \in Seq(S)
    PROVE  IsPrefix(s, s \o t)
BY DEF IsPrefix

\* A prefix stays one when the whole grows.
LEMMA PrefixOfAppend ==
    ASSUME NEW S, NEW s \in Seq(S), NEW t \in Seq(S), NEW x \in S, IsPrefix(s, t)
    PROVE  IsPrefix(s, Append(t, x))
<1>1. /\ Append(t, x) \in Seq(S) /\ Len(Append(t, x)) = Len(t) + 1
      /\ \A i \in 1..Len(t) : Append(t, x)[i] = t[i]
  BY AppendProperties
<1>2. Len(s) <= Len(t) /\ SubSeq(s, 1, Len(s)) = SubSeq(t, 1, Len(s))
  BY DEF IsPrefix
<1>3. SubSeq(Append(t, x), 1, Len(s)) = SubSeq(t, 1, Len(s))
  BY <1>1, <1>2
<1>4. Len(s) <= Len(Append(t, x))
  BY <1>1, <1>2
<1> QED
  BY <1>2, <1>3, <1>4 DEF IsPrefix

\* Concatenation as an operator of its own: all that is used of it is that it is associative.
Cat(s, t) == s \o t
Added(s, x) == Append(s, x)
One(x) == <<x>>

\* The type of a concatenation.
LEMMA CatType ==
    ASSUME NEW S, NEW s \in Seq(S), NEW t \in Seq(S)
    PROVE  Cat(s, t) \in Seq(S)
BY ConcatProperties DEF Cat

\* It does not matter which two of three are concatenated first.
LEMMA CatAssociative ==
    ASSUME NEW S, NEW s \in Seq(S), NEW t \in Seq(S), NEW u \in Seq(S)
    PROVE  Cat(Cat(s, t), u) = Cat(s, Cat(t, u))
BY ConcatAssociative DEF Cat

\* Append concatenates a sequence of one element.
LEMMA CatOne ==
    ASSUME NEW S, NEW s \in Seq(S), NEW x \in S
    PROVE  Added(s, x) = Cat(s, One(x)) /\ One(x) \in Seq(S)
<1>1. Added(s, x) = Cat(s, One(x))
  BY AppendIsConcat DEF Cat, One, Added
<1>2. One(x) \in Seq(S)
  BY DEF One
<1> QED
  BY <1>1, <1>2

\* Adding to the last of three sequences.
LEMMA CatLast ==
    ASSUME NEW S, NEW w \in Seq(S), NEW f \in Seq(S), NEW b \in Seq(S), NEW o \in Seq(S)
    PROVE  Cat(w, Cat(f, Cat(b, o))) = Cat(Cat(w, Cat(f, b)), o) /\ Cat(w, Cat(f, b)) \in Seq(S)
BY CatType, CatAssociative

\* The same for one element.
LEMMA AddedToLast ==
    ASSUME NEW S, NEW w \in Seq(S), NEW f \in Seq(S), NEW b \in Seq(S), NEW x \in S
    PROVE  Cat(w, Cat(f, Added(b, x))) = Added(Cat(w, Cat(f, b)), x)
<1>1. PICK o \in Seq(S) : o = One(x)
  BY CatOne
<1>2. PICK v \in Seq(S) : v = Cat(w, Cat(f, b)) /\ Cat(w, Cat(f, Cat(b, o))) = Cat(v, o)
  BY CatLast
<1>3. Added(b, x) = Cat(b, o) /\ Added(v, x) = Cat(v, o)
  BY <1>1, CatOne
<1> QED
  BY <1>1, <1>2, <1>3, Zenon

\* The first of three sequences is moved into the one before.
LEMMA MoveFirst ==
    ASSUME NEW S, NEW w \in Seq(S), NEW f \in Seq(S), NEW g \in Seq(S), NEW t \in Seq(S),
           NEW b \in Seq(S)
    PROVE  Cat(w, Cat(Cat(Cat(f, g), t), b)) = Cat(Cat(w, f), Cat(Cat(g, t), b))
BY CatType, CatAssociative

\* Flattening, in the same words.
LEMMA FlattenCat ==
    ASSUME NEW S, NEW s \in Seq(Seq(S)), NEW t \in Seq(Seq(S))
    PROVE  /\ FlattenSeq(s) \in Seq(S)
           /\ FlattenSeq(Cat(s, t)) = Cat(FlattenSeq(s), FlattenSeq(t))
BY FlattenConcat DEF Cat

\* What is written, in the buffers and in the queue, and nothing but what was sent.
Whole(w, q, b, all, br) ==
    IsPrefix(w, all) /\ (~br => Cat(w, Cat(FlattenSeq(q), b)) = all)

\* A packet is added to _bufferQueue.
LEMMA SendKeeps ==
    ASSUME NEW P, NEW w \in Seq(P), NEW q \in Seq(Seq(P)), NEW b \in Seq(P), NEW a \in Seq(P),
           NEW br, NEW m \in P, Whole(w, q, b, a, br)
    PROVE  Whole(w, q, Added(b, m), Added(a, m), br)
<1>1. PICK f \in Seq(P) : f = FlattenSeq(q)
  BY FlattenConcat
<1>2. IsPrefix(w, Added(a, m))
  BY PrefixOfAppend DEF Added, Whole
<1>3. Cat(w, Cat(f, Added(b, m))) = Added(Cat(w, Cat(f, b)), m)
  BY AddedToLast
<1>4. ASSUME ~br PROVE Cat(w, Cat(f, b)) = a
  BY <1>1, <1>4, Zenon DEF Whole
<1> QED
  BY <1>1, <1>2, <1>3, <1>4, Zenon DEF Whole

\* The first packets are taken from _bufferQueue and put into buffers.
LEMMA UpdateKeeps ==
    ASSUME NEW P, NEW w, NEW q \in Seq(Seq(P)), NEW p \in Seq(P), NEW r \in Seq(P), NEW a,
           NEW br, Whole(w, q, Cat(p, r), a, br)
    PROVE  Whole(w, Cat(q, Buffers(p)), r, a, br)
<1>1. PICK f \in Seq(P) : f = FlattenSeq(q)
  BY FlattenConcat
<1>2. PICK v \in Seq(Seq(P)) : v = Buffers(p) /\ FlattenSeq(v) = p
  BY BuffersHold
<1>3. FlattenSeq(Cat(q, v)) = Cat(f, p)
  BY <1>1, <1>2, FlattenCat
<1>4. Cat(Cat(f, p), r) = Cat(f, Cat(p, r))
  BY CatAssociative
<1> QED
  BY <1>1, <1>2, <1>3, <1>4, Zenon DEF Whole

\* The first part of the first buffer is written.
LEMMA WriteKeeps ==
    ASSUME NEW P, NEW w \in Seq(P), NEW f \in Seq(P), NEW g \in Seq(P), NEW t \in Seq(P),
           NEW b \in Seq(P), NEW q, NEW v, NEW a,
           FlattenSeq(q) = Cat(Cat(f, g), t), FlattenSeq(v) = Cat(g, t),
           NEW br, ~br, Whole(w, q, b, a, br)
    PROVE  Whole(Cat(w, f), v, b, a, br)
<1>1. Cat(w, Cat(Cat(Cat(f, g), t), b)) = a
  BY Zenon DEF Whole
<1>2. Cat(w, Cat(Cat(Cat(f, g), t), b)) = Cat(Cat(w, f), Cat(Cat(g, t), b))
  BY MoveFirst
<1>3. PICK x \in Seq(P) : x = Cat(w, f)
  BY CatType
<1>4. PICK y \in Seq(P) : y = Cat(Cat(g, t), b)
  BY CatType
<1>5. IsPrefix(x, Cat(x, y))
  BY PrefixOfConcat DEF Cat
<1>6. Cat(x, y) = a
  BY <1>1, <1>2, <1>3, <1>4, Zenon
<1> QED
  BY <1>3, <1>4, <1>5, <1>6, Zenon DEF Whole

-----------------------------------------------------------------------------
\* The types of the queues, and of what was sent.
Packets == 1..MaxPackets
Sent(n) == [i \in 1..n |-> i]

QueueTypes ==
    /\ writeQueue \in Seq(Seq(Packets)) /\ bufferQueue \in Seq(Packets) /\ wire \in Seq(Packets)
SendTypes ==
    /\ place \in {"new", "listed", "removed"}
    /\ isWritingAsync \in BOOLEAN /\ broken \in BOOLEAN
    /\ sent \in 0..MaxPackets /\ answer \in 0..MaxPackets

\* A connection that is written to has something to write, and only one end writes it.
WritingInv ==
    /\ isWritingAsync => writeQueue # <<>>
    /\ net = "writing" => writeQueue # <<>> /\ ~isWritingAsync

\* A client without a session is sent two packets at most.
LoginSends ==
    session = "none" => /\ query = "ip" => sent = 0
                        /\ ~closing => sent <= 1
                        /\ sent <= 2

\* The stream: StreamIsWhole in the words of the lemmas.
StreamInv == Whole(wire, writeQueue, bufferQueue, Sent(sent), broken)

QueueInv == QueueTypes /\ SendTypes /\ WritingInv /\ LoginSends /\ StreamInv

\* What was sent grows by the number of the packet.
LEMMA SentGrows ==
    ASSUME NEW n \in 0..MaxPackets
    PROVE  /\ Sent(n) \in Seq(Packets)
           /\ n < MaxPackets => n + 1 \in Packets /\ Sent(n + 1) = Added(Sent(n), n + 1)
<1>1. MaxPackets \in Nat
  BY SocketAssumption
<1>2. Sent(n) \in Seq(Packets)
  BY <1>1 DEF Sent, Packets
<1>3. ASSUME n < MaxPackets PROVE n + 1 \in Packets /\ Sent(n + 1) = Added(Sent(n), n + 1)
  BY <1>1, <1>2, <1>3 DEF Sent, Packets, Added
<1> QED
  BY <1>2, <1>3

\* SendPacket, with a packet to spare.
LEMMA SendStep ==
    ASSUME QueueTypes, SendTypes, StreamInv, sent < MaxPackets, SendPacket,
           UNCHANGED <<wire, writeQueue, broken>>
    PROVE  /\ QueueTypes' /\ StreamInv' /\ sent' \in 0..MaxPackets
           /\ sent' \in {sent, sent + 1}
<1>1. CASE ~IsOpen
  BY <1>1 DEF SendPacket, QueueTypes, SendTypes, StreamInv
<1>2. CASE IsOpen
  <2>1. sent' = sent + 1 /\ bufferQueue' = Added(bufferQueue, sent + 1)
    BY <1>2 DEF SendPacket, Added
  <2>2. PICK a \in Seq(Packets) : a = Sent(sent)
    BY SentGrows DEF SendTypes
  <2>3. PICK m \in Packets : m = sent + 1 /\ Sent(m) = Added(a, m)
    BY <2>2, SentGrows DEF SendTypes
  <2>4. Whole(wire, writeQueue, Added(bufferQueue, m), Added(a, m), broken)
    BY <2>2, SendKeeps DEF QueueTypes, StreamInv
  <2>5. Added(bufferQueue, m) \in Seq(Packets)
    BY AppendProperties DEF QueueTypes, Added
  <2>6. StreamInv'
    BY <2>1, <2>3, <2>4 DEF StreamInv
  <2>7. QueueTypes'
    BY <2>1, <2>3, <2>5 DEF QueueTypes
  <2>8. sent' \in 0..MaxPackets
    BY <2>1, SocketAssumption DEF SendTypes
  <2> QED
    BY <2>1, <2>6, <2>7, <2>8
<1> QED
  BY <1>1, <1>2

\* The first part of a sequence and the rest.
LEMMA SplitAt ==
    ASSUME NEW S, NEW s \in Seq(S), NEW n \in 0..Len(s)
    PROVE  /\ SubSeq(s, 1, n) \in Seq(S) /\ SubSeq(s, n + 1, Len(s)) \in Seq(S)
           /\ Cat(SubSeq(s, 1, n), SubSeq(s, n + 1, Len(s))) = s
<1>1. Len(s) \in Nat /\ \A i \in 1..Len(s) : s[i] \in S
  OBVIOUS
<1>2. SubSeq(s, 1, n) \in Seq(S)
  BY <1>1, SubSeqProperties
<1>3. SubSeq(s, n + 1, Len(s)) \in Seq(S)
  BY <1>1, SubSeqProperties
<1>4. 1 \in 1..Len(s) + 1 /\ n \in 1 - 1..Len(s) /\ Len(s) \in n..Len(s)
  BY <1>1
<1>5. SubSeq(s, 1, n) \o SubSeq(s, n + 1, Len(s)) = SubSeq(s, 1, Len(s))
  BY <1>4, ConcatAdjacentSubSeq
<1>6. SubSeq(s, 1, Len(s)) = s
  BY SubSeqFull
<1> QED
  BY <1>2, <1>3, <1>5, <1>6 DEF Cat

\* Another first element.
LEMMA ReplaceHead ==
    ASSUME NEW S, NEW s \in Seq(S), s # <<>>, NEW x \in S
    PROVE  LET v == [s EXCEPT ![1] = x]
           IN v \in Seq(S) /\ v # <<>> /\ Head(v) = x /\ Tail(v) = Tail(s)
<1> DEFINE v == [s EXCEPT ![1] = x]
<1>1. Len(s) \in Nat /\ 1 \in 1..Len(s)
  OBVIOUS
<1>2. v \in Seq(S) /\ Len(v) = Len(s) /\ \A j \in 1..Len(s) : v[j] = IF j = 1 THEN x ELSE s[j]
  BY <1>1, ExceptSeq
<1> HIDE DEF v
<1>3. v # <<>> /\ Head(v) = x
  BY <1>1, <1>2
<1>4. /\ Tail(v) \in Seq(S) /\ Len(Tail(v)) = Len(v) - 1
      /\ \A i \in 1..Len(Tail(v)) : Tail(v)[i] = v[i + 1]
  BY <1>2, <1>3, HeadTailProperties
<1>5. /\ Tail(s) \in Seq(S) /\ Len(Tail(s)) = Len(s) - 1
      /\ \A i \in 1..Len(Tail(s)) : Tail(s)[i] = s[i + 1]
  BY HeadTailProperties
<1>6. Len(Tail(v)) = Len(Tail(s)) /\ \A i \in 1..Len(Tail(v)) : Tail(v)[i] = Tail(s)[i]
  BY <1>1, <1>2, <1>4, <1>5
<1>7. Tail(v) = Tail(s)
  BY <1>4, <1>5, <1>6, SeqEqual
<1> QED
  BY <1>2, <1>3, <1>7 DEF v

\* The loop of WorldSocket::Update.
LEMMA UpdateStep ==
    ASSUME QueueTypes, StreamInv, StartUpdate
    PROVE  /\ QueueTypes' /\ StreamInv'
           /\ writeQueue # <<>> => writeQueue' # <<>>
<1>1. PICK n \in 0..Len(bufferQueue) :
          /\ writeQueue' = writeQueue \o Buffers(SubSeq(bufferQueue, 1, n))
          /\ bufferQueue' = SubSeq(bufferQueue, n + 1, Len(bufferQueue))
  BY DEF StartUpdate
<1>2. PICK p : p = SubSeq(bufferQueue, 1, n)
  OBVIOUS
<1>3. PICK r : r = SubSeq(bufferQueue, n + 1, Len(bufferQueue))
  OBVIOUS
<1>4. p \in Seq(Packets) /\ r \in Seq(Packets) /\ Cat(p, r) = bufferQueue
  BY <1>2, <1>3, SplitAt DEF QueueTypes
<1>5. Buffers(p) \in Seq(Seq(Packets))
  BY <1>4, BuffersHold
<1>6. writeQueue' = Cat(writeQueue, Buffers(p)) /\ bufferQueue' = r
  BY <1>1, <1>2, <1>3 DEF Cat
<1>7. Whole(wire, Cat(writeQueue, Buffers(p)), r, Sent(sent), broken)
  <2>1. Whole(wire, writeQueue, Cat(p, r), Sent(sent), broken)
    BY <1>4 DEF StreamInv
  <2> QED
    BY <1>4, <2>1, UpdateKeeps DEF QueueTypes
<1>8. UNCHANGED <<wire, sent, broken>>
  BY DEF StartUpdate
<1>9. Cat(writeQueue, Buffers(p)) \in Seq(Seq(Packets))
  BY <1>5, CatType DEF QueueTypes
<1>10. writeQueue # <<>> => Cat(writeQueue, Buffers(p)) # <<>>
  BY <1>5, ConcatEqualIffEmpty DEF QueueTypes, Cat
<1> QED
  BY <1>4, <1>6, <1>7, <1>8, <1>9, <1>10 DEF QueueTypes, StreamInv

\* The front of the write queue.
LEMMA FrontBuffer ==
    ASSUME QueueTypes, writeQueue # <<>>
    PROVE  \E b \in Seq(Packets), t \in Seq(Seq(Packets)), f \in Seq(Packets) :
              /\ b = Head(writeQueue) /\ t = Tail(writeQueue) /\ f = FlattenSeq(t)
              /\ FlattenSeq(writeQueue) = Cat(b, f)
<1>1. PICK b \in Seq(Packets) : b = Head(writeQueue)
  BY FlattenHeadTail DEF QueueTypes
<1>2. PICK t \in Seq(Seq(Packets)) : t = Tail(writeQueue)
  BY FlattenHeadTail DEF QueueTypes
<1>3. PICK f \in Seq(Packets) : f = FlattenSeq(t)
  BY FlattenConcat
<1>4. FlattenSeq(writeQueue) = Cat(b, f)
  BY <1>1, <1>2, <1>3, FlattenHeadTail DEF QueueTypes, Cat
<1> QED
  BY <1>1, <1>2, <1>3, <1>4

\* One write_some, whatever the operating system takes.
LEMMA WriteStep ==
    ASSUME QueueTypes, SendTypes, StreamInv, writeQueue # <<>>,
           NEW next \in {"writing", "idle"}, NEW end \in {"callbacks", "idle"},
           HandleQueue(next, end)
    PROVE  /\ QueueTypes' /\ StreamInv'
           /\ isWritingAsync' \in BOOLEAN /\ broken' \in BOOLEAN
           /\ isWritingAsync' => writeQueue' # <<>>
           /\ net' = "writing" => writeQueue' # <<>> /\ ~isWritingAsync'
<1>1. PICK b \in Seq(Packets), t \in Seq(Seq(Packets)), f \in Seq(Packets) :
          /\ b = Head(writeQueue) /\ t = Tail(writeQueue) /\ f = FlattenSeq(t)
          /\ FlattenSeq(writeQueue) = Cat(b, f)
  BY FrontBuffer
<1>2. UNCHANGED <<bufferQueue, sent>>
  BY DEF HandleQueue, sendVars
<1>3. ASSUME NEW n, n = next \/ n = end, PopBuffer(n, end), n = "writing" => t # <<>>
      PROVE  /\ writeQueue' = t /\ isWritingAsync' = FALSE
             /\ net' = "writing" => t # <<>>
  BY <1>1, <1>3 DEF PopBuffer, NetworkCloses
<1>4. t # <<>> <=> Len(writeQueue) > 1
  <2>1. Len(t) = Len(writeQueue) - 1 /\ Len(t) \in Nat
    BY <1>1, HeadTailProperties DEF QueueTypes
  <2>2. t # <<>> <=> Len(t) # 0
    BY EmptySeq
  <2> QED
    BY <2>1, <2>2
(* Everything was written. *)
<1>5. CASE /\ ~broken /\ wire' = wire \o b /\ UNCHANGED broken
           /\ PopBuffer(IF Len(writeQueue) > 1 THEN next ELSE end, end)
  <2>1. writeQueue' = t /\ isWritingAsync' = FALSE /\ (net' = "writing" => t # <<>>)
    <3>1. PICK n : n = IF Len(writeQueue) > 1 THEN next ELSE end
      OBVIOUS
    <3>2. (n = next \/ n = end) /\ PopBuffer(n, end) /\ (n = "writing" => t # <<>>)
      BY <1>4, <1>5, <3>1
    <3> QED
      BY <1>3, <3>2
  <2>2. wire' = Cat(wire, b) /\ broken' = broken /\ ~broken
    BY <1>5 DEF Cat
  <2>3. PICK e \in Seq(Packets) : Cat(b, e) = b /\ Cat(e, f) = f
    BY ConcatEmptySeq, EmptySeq DEF Cat
  <2>4. Whole(Cat(wire, b), t, bufferQueue, Sent(sent), broken)
    BY <1>1, <2>2, <2>3, WriteKeeps DEF QueueTypes, StreamInv
  <2>5. Cat(wire, b) \in Seq(Packets)
    BY CatType DEF QueueTypes
  <2> QED
    BY <1>2, <2>1, <2>2, <2>4, <2>5 DEF QueueTypes, StreamInv, SendTypes
(* A part was written: the rest stays at the front. *)
<1>6. ASSUME ~broken, UNCHANGED broken, isWritingAsync' = TRUE, net' = end,
             NEW n \in 0..(Len(b) - 1), wire' = wire \o SubSeq(b, 1, n), ReadCompleted(n)
      PROVE  /\ QueueTypes' /\ StreamInv' /\ writeQueue' # <<>>
  <2>1. PICK g \in Seq(Packets), h \in Seq(Packets) :
            g = SubSeq(b, 1, n) /\ h = SubSeq(b, n + 1, Len(b)) /\ Cat(g, h) = b
    <3>1. n \in 0..Len(b)
      BY <1>6
    <3>2. /\ SubSeq(b, 1, n) \in Seq(Packets) /\ SubSeq(b, n + 1, Len(b)) \in Seq(Packets)
          /\ Cat(SubSeq(b, 1, n), SubSeq(b, n + 1, Len(b))) = b
      BY <3>1, SplitAt
    <3> QED
      BY <3>2, Zenon
  <2>2. writeQueue' = [writeQueue EXCEPT ![1] = h]
    BY <1>1, <1>6, <2>1 DEF ReadCompleted
  <2>3. PICK v \in Seq(Seq(Packets)) :
            v = writeQueue' /\ v # <<>> /\ Head(v) = h /\ Tail(v) = t
    <3>1. h \in Seq(Packets) /\ writeQueue \in Seq(Seq(Packets))
      BY DEF QueueTypes
    <3> QED
      BY <1>1, <2>2, <3>1, ReplaceHead
  <2>4. FlattenSeq(v) = Cat(h, f)
    BY <1>1, <2>3, FlattenHeadTail DEF Cat
  <2>5. wire' = Cat(wire, g) /\ broken' = broken
    BY <1>6, <2>1 DEF Cat
  <2>6. Whole(Cat(wire, g), v, bufferQueue, Sent(sent), broken)
    BY <1>1, <1>6, <2>1, <2>4, WriteKeeps DEF QueueTypes, StreamInv
  <2>7. Cat(wire, g) \in Seq(Packets)
    BY CatType DEF QueueTypes
  <2> QED
    BY <1>2, <2>3, <2>5, <2>6, <2>7 DEF QueueTypes, StreamInv
(* An error breaks the connection; an empty buffer is dropped. *)
<1>7. CASE /\ PopBuffer(end, end) /\ UNCHANGED wire
           /\ broken' = (broken \/ b # <<>>)
  <2>1. writeQueue' = t /\ isWritingAsync' = FALSE /\ net' # "writing"
    BY <1>7 , <1>1 DEF PopBuffer, NetworkCloses
  <2>2. CASE b = <<>>
    <3>1. Cat(b, f) = f
      BY <2>2, ConcatEmptySeq DEF Cat
    <3>2. broken' = broken
      BY <1>7, <2>2 DEF SendTypes
    <3> QED
      BY <1>1, <1>2, <1>7, <2>1, <3>1, <3>2 DEF QueueTypes, StreamInv, SendTypes, Whole
  <2>3. CASE b # <<>>
    <3>1. broken' = TRUE
      BY <1>7, <2>3
    <3> QED
      BY <1>1, <1>2, <1>7, <2>1, <3>1 DEF QueueTypes, StreamInv, Whole
  <2> QED
    BY <2>2, <2>3
<1>8. \/ /\ ~broken /\ wire' = wire \o b /\ UNCHANGED broken
         /\ PopBuffer(IF Len(writeQueue) > 1 THEN next ELSE end, end)
      \/ /\ ~broken /\ UNCHANGED broken /\ isWritingAsync' = TRUE /\ net' = end
         /\ \E n \in 0..(Len(b) - 1) : wire' = wire \o SubSeq(b, 1, n) /\ ReadCompleted(n)
      \/ /\ PopBuffer(end, end) /\ UNCHANGED wire
         /\ broken' = (broken \/ b # <<>>)
  BY <1>1, Zenon DEF HandleQueue
<1> QED
  BY <1>5, <1>6, <1>7, <1>8 DEF SendTypes

\* What neither writes nor sends leaves the stream as it is.
LEMMA StreamUntouched ==
    ASSUME QueueTypes, StreamInv, UNCHANGED <<wire, writeQueue, bufferQueue, sent>>,
           broken' = broken \/ broken' = TRUE
    PROVE  QueueTypes' /\ StreamInv'
BY DEF QueueTypes, StreamInv, Whole

\* The inductive step.
LEMMA QueueStep ==
    ASSUME SocketInv, QueueInv, [Next]_vars
    PROVE  QueueInv'
<1>1. QueueTypes /\ SendTypes /\ WritingInv /\ LoginSends /\ StreamInv
  BY DEF QueueInv
<1>2. MaxPackets \in Nat /\ MaxPackets >= 2 /\ sent \in 0..MaxPackets
  BY <1>1, SocketAssumption DEF SendTypes
<1>3. SUFFICES QueueTypes' /\ StreamInv' /\ SendTypes' /\ WritingInv' /\ LoginSends'
  BY DEF QueueInv
<1> USE DEF socketVars, writeVars, sendVars, queryVars, sessionVars
(* The steps that write, send or take from the queue. *)
<1>4. CASE StartUpdate
  BY <1>1, <1>4, UpdateStep DEF StartUpdate, SendTypes, WritingInv, LoginSends
<1>5. ASSUME NEW next \in {"writing", "idle"}, NEW end \in {"callbacks", "idle"},
             writeQueue # <<>>, HandleQueue(next, end)
      PROVE  QueueTypes' /\ StreamInv' /\ SendTypes' /\ WritingInv' /\ LoginSends'
  <2>1. UNCHANGED <<place, closing, sent, answer, query, session>>
    BY <1>5 DEF HandleQueue
  <2> QED
    BY <1>1, <1>5, <2>1, WriteStep DEF SendTypes, WritingInv, LoginSends
<1>6. CASE WriteQueued
  BY <1>1, <1>5, <1>6 DEF WriteQueued, WritingInv
<1>7. CASE WriteHandler
  BY <1>1, <1>5, <1>7 DEF WriteHandler, WritingInv
<1>8. ASSUME sent < MaxPackets, SendPacket, UNCHANGED <<writeVars, broken>>
      PROVE  QueueTypes' /\ StreamInv' /\ sent' \in 0..MaxPackets /\ sent' \in {sent, sent + 1}
  BY <1>1, <1>8, SendStep
<1>9. CASE Reject
  <2>1. session = "none" /\ ~closing /\ sent < MaxPackets /\ net = "callbacks"
    BY <1>1, <1>2, <1>9
    DEF Reject, RunsCallback, SocketInv, QueryInv, ClosingInv, LoginSends
  <2>2. QueueTypes' /\ StreamInv' /\ sent' \in 0..MaxPackets /\ sent' \in {sent, sent + 1}
    BY <1>8, <1>9, <2>1 DEF Reject
  <2>3. net' \in {"idle", "closing"} /\ closing' = TRUE /\ session' = session
    BY <1>9 DEF Reject, DelayedCloseSocket, NetworkCloses
  <2>4. sent <= 1 /\ sent' <= 2 /\ query' = "none"
    BY <1>1, <1>2, <1>9, <2>1, <2>2 DEF LoginSends, Reject, CallbackDone
  <2> QED
    BY <1>1, <1>9, <2>2, <2>3, <2>4 DEF Reject, SendTypes, WritingInv, LoginSends
<1>10. CASE CheckIpCallback
  <2>1. session = "none" /\ ~closing /\ sent = 0
    BY <1>1, <1>10
    DEF CheckIpCallback, RunsCallback, SocketInv, QueryInv, ClosingInv, LoginSends
  <2>2. QueueTypes' /\ StreamInv' /\ sent' \in 0..MaxPackets /\ sent' \in {sent, sent + 1}
    BY <1>2, <1>8, <1>10, <2>1 DEF CheckIpCallback
  <2>3. query' = "none" /\ net' = "idle"
    BY <1>10 DEF CheckIpCallback, CallbackDone
  <2> QED
    BY <1>1, <1>10, <2>1, <2>2, <2>3 DEF CheckIpCallback, SendTypes, WritingInv, LoginSends
<1>11. CASE ReadDataHandler
  <2>1. session # "none"
    BY <1>11 DEF ReadDataHandler, SocketInv, PointerInv
  <2>2. QueueTypes' /\ StreamInv' /\ sent' \in 0..MaxPackets
    BY <1>1, <1>8, <1>11, StreamUntouched DEF ReadDataHandler, SendTypes
  <2> QED
    BY <1>1, <1>11, <2>1, <2>2 DEF ReadDataHandler, SendTypes, WritingInv, LoginSends
<1>12. CASE SessionSendPacket
  <2>1. session # "none"
    BY <1>12 DEF SessionSendPacket
  <2>2. QueueTypes' /\ StreamInv' /\ sent' \in 0..MaxPackets
    BY <1>8, <1>12 DEF SessionSendPacket
  <2> QED
    BY <1>1, <1>12, <2>1, <2>2 DEF SessionSendPacket, SendTypes, WritingInv, LoginSends
(* All the others. *)
<1>13. ASSUME UNCHANGED <<wire, writeQueue, bufferQueue, sent, answer, isWritingAsync>>,
              broken' = broken \/ broken' = TRUE
       PROVE  QueueTypes' /\ StreamInv' /\ sent' \in 0..MaxPackets /\ answer' \in 0..MaxPackets
              /\ isWritingAsync' \in BOOLEAN /\ broken' \in BOOLEAN
  <2>1. broken' \in BOOLEAN /\ isWritingAsync' \in BOOLEAN
    BY <1>1, <1>13 DEF SendTypes
  <2> QED
    BY <1>1, <1>13, <2>1, StreamUntouched DEF SendTypes
<1> USE DEF SendTypes, WritingInv, LoginSends
<1>14. CASE AddNewSockets
  BY <1>1, <1>13, <1>14 DEF AddNewSockets
<1>15. CASE RemoveSocket
  BY <1>1, <1>13, <1>15 DEF RemoveSocket
<1>16. CASE BaseUpdate
  BY <1>1, <1>13, <1>16 DEF BaseUpdate
<1>17. CASE NoneReady
  BY <1>1, <1>13, <1>17 DEF NoneReady
<1>18. CASE HandleAuthSessionCallback
  BY <1>1, <1>13, <1>18 DEF HandleAuthSessionCallback
<1>19. CASE LoadSessionPermissionsCallback
  BY <1>1, <1>13, <1>19
  DEF LoadSessionPermissionsCallback, RunsCallback, CallbackDone, SocketInv, QueryInv
<1>20. CASE ReadFails
  BY <1>1, <1>13, <1>20 DEF ReadFails, NetworkCloses
<1>21. CASE ReadHandler
  BY <1>1, <1>13, <1>21 DEF ReadHandler
<1>22. CASE EndOfData
  BY <1>1, <1>13, <1>22 DEF EndOfData
<1>23. CASE HandleAuthSession
  BY <1>1, <1>13, <1>23 DEF HandleAuthSession, AuthSession
<1>24. CASE BadPacket
  BY <1>1, <1>13, <1>24 DEF BadPacket, NetworkCloses
<1>25. CASE LockSession
  BY <1>1, <1>13, <1>25 DEF LockSession
<1>26. CASE ReadDataHandlerError
  BY <1>1, <1>13, <1>26 DEF ReadDataHandlerError, NetworkCloses
<1>27. CASE NetworkOnClose
  BY <1>1, <1>13, <1>27 DEF NetworkOnClose, SocketInv, ControlTypes
<1>28. CASE QueryCompletes
  BY <1>1, <1>13, <1>28 DEF QueryCompletes
<1>29. CASE AddSession
  BY <1>1, <1>13, <1>29 DEF AddSession
<1>30. CASE KickPlayer
  BY <1>1, <1>13, <1>30 DEF KickPlayer, WorldCloses
<1>31. CASE DeleteSession
  BY <1>1, <1>13, <1>31 DEF DeleteSession, WorldCloses
<1>32. CASE WorldOnClose
  BY <1>1, <1>13, <1>32 DEF WorldOnClose
<1>33. CASE UpdateSession
  BY <1>1, <1>13, <1>33 DEF UpdateSession
<1>34. CASE DuplicateAuthSession
  BY <1>1, <1>13, <1>34 DEF DuplicateAuthSession, NetworkCloses
<1>35. CASE LogOffender
  BY <1>1, <1>13, <1>35 DEF LogOffender, NetworkCloses
<1>36. CASE LogNobody
  BY <1>1, <1>13, <1>36 DEF LogNobody
<1>37. CASE UNCHANGED vars
  BY <1>1, <1>13, <1>37 DEF vars
<1> QED
  BY <1>4, <1>6, <1>7, <1>9, <1>10, <1>11, <1>12, <1>14, <1>15, <1>16, <1>17, <1>18, <1>19,
     <1>20, <1>21, <1>22, <1>23, <1>24, <1>25, <1>26, <1>27, <1>28, <1>29, <1>30, <1>31,
     <1>32, <1>33, <1>34, <1>35, <1>36, <1>37
  DEF Next, InHandler

-----------------------------------------------------------------------------
(* The queues of a connection: every packet sent is written, in a buffer or in the queue,
   and only those that follow each other from the first one are written. *)
THEOREM QueueInvariant == Spec => []QueueInv
<1>1. Init => QueueInv
  <2>1. ASSUME Init PROVE QueueInv
    <3>1. /\ wire = <<>> /\ writeQueue = <<>> /\ bufferQueue = <<>> /\ sent = 0 /\ ~broken
          /\ answer = 0 /\ place = "new" /\ isWritingAsync = FALSE /\ net = "idle"
          /\ broken = FALSE
      BY <2>1 DEF Init
    <3>2. QueueTypes
      BY <3>1 DEF QueueTypes
    <3>3. SendTypes
      <4>1. 0 \in 0..MaxPackets
        BY SocketAssumption
      <4>2. isWritingAsync \in BOOLEAN /\ broken \in BOOLEAN
        BY <3>1
      <4> QED
        BY <3>1, <4>1, <4>2 DEF SendTypes
    <3>4. WritingInv /\ LoginSends
      BY <3>1 DEF WritingInv, LoginSends
    <3>5. Sent(0) = <<>>
      BY DEF Sent
    <3>6. IsPrefix(<<>>, <<>>) /\ Cat(<<>>, Cat(<<>>, <<>>)) = <<>>
      BY DEF IsPrefix, Cat
    <3>7. StreamInv
      BY <3>1, <3>5, <3>6, FlattenEmpty DEF StreamInv, Whole
    <3> QED
      BY <3>2, <3>3, <3>4, <3>7 DEF QueueInv
  <2> QED
    BY <2>1
<1>2. SocketInv /\ QueueInv /\ [Next]_vars => QueueInv'
  BY QueueStep
<1> QED
  BY <1>1, <1>2, SocketInvariant, PTL DEF Spec

(* Every variable of the connection has its type. *)
THEOREM TypeCorrect == Spec => []TypeOK
<1>1. SocketInv /\ QueueInv => TypeOK
  BY DEF SocketInv, ControlTypes, QueueInv, QueueTypes, SendTypes, Packets, TypeOK
<1> QED
  BY <1>1, SocketInvariant, QueueInvariant, PTL

(* The client gets what was sent, in order: through the queue that other threads fill, the
   buffers of WorldSocket::Update, large packets and small ones, and writes of any part of a
   buffer, nothing is lost, doubled or overtaken, and there is no gap before the connection
   breaks (WorldSocket.cpp 83-128, Socket.h 205-262). *)
THEOREM ClientGetsTheStream == Spec => []StreamIsWhole
<1>1. QueueInv => StreamIsWhole
  <2>1. ASSUME QueueInv PROVE StreamIsWhole
    <3>1. IsPrefix(wire, Sent(sent))
      BY <2>1 DEF QueueInv, StreamInv, Whole
    <3>2. ~broken => wire \o (FlattenSeq(writeQueue) \o bufferQueue) = Sent(sent)
      BY <2>1, Zenon DEF QueueInv, StreamInv, Whole, Cat
    <3> QED
      BY <3>1, <3>2, Zenon DEF StreamIsWhole, Sent
  <2> QED
    BY <2>1
<1> QED
  BY <1>1, QueueInvariant, PTL
================================================================================
