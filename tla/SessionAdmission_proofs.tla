-------------------------- MODULE SessionAdmission_proofs --------------------------
(***************************************************************************)
(* Proofs about the admission of sessions, for any accounts, sessions and  *)
(* limits: the waiting queue is in step with the sessions, a free slot is  *)
(* given to whoever waits, nobody is let in beyond the limit and nobody    *)
(* overtakes.                                                              *)
(*                                                                         *)
(* Everything goes back to what one removal from the queue does, which     *)
(* UpdateSessions asks for twice for a dead session; it is stated once, in *)
(* LeavesQueue and its two follow-ups.                                     *)
(***************************************************************************)
EXTENDS SessionAdmission, FiniteSetTheorems, TLAPS

SessionType ==
    [account : Accounts \cup {NoAccount}, socket : {"open", "closed", "kicked"},
     stage : Stages, inQueue : BOOLEAN, initializing : BOOLEAN,
     told : 0..Cardinality(Sessions)]

\* The values that the calls of one step hand on.
Worlds == [queue : Seq(Sessions), session : [Sessions -> SessionType], size : Nat]

\* Who waits knows it and is not on his way into the world.
Waits(w, s) ==
    /\ w.session[s].inQueue /\ ~w.session[s].initializing
    /\ w.session[s].stage = "characters"
    /\ w.session[s].told = GetQueuePos(w.queue, s)

InStep(w) == IsInjective(w.queue) /\ \A s \in ToSet(w.queue) : Waits(w, s)

\* The sessions handed over are new, and nobody's yet.
AddInv ==
    /\ IsInjective(addSessQueue)
    /\ \A s \in ToSet(addSessQueue) :
           /\ session[s].account \in Accounts /\ session[s].stage = "characters"
           /\ ~session[s].inQueue /\ ~session[s].initializing
           /\ \A a \in Accounts : m_sessions[a] # s

\* m_sessions has a session under its own account; an account to be updated has one.
ListInv ==
    /\ \A a \in Listed : session[m_sessions[a]].account = a
    /\ todo \subseteq Listed

QueueInv ==
    /\ InStep(World)
    /\ \A s \in Waiting :
           session[s].account \in Listed /\ m_sessions[session[s].account] = s
    /\ \A a \in Active :
           session[m_sessions[a]].socket = "open" /\ session[m_sessions[a]].inQueue =>
               session[m_sessions[a]].initializing

\* As the code counts: the sessions without those that wait.
CountInv ==
    m_QueuedPlayer # <<>> /\ ~raised =>
        m_playerLimit > 0 /\ Cardinality(Listed) - Len(m_QueuedPlayer) >= m_playerLimit

AdmissionInv == TypeOK /\ AddInv /\ ListInv /\ QueueInv /\ CountInv

-----------------------------------------------------------------------------
(* The places in a queue without repetitions. *)

\* GetQueuePos is the place of a member, and 0 for everybody else.
LEMMA PositionOf ==
    ASSUME NEW S, NEW q \in Seq(S), IsInjective(q)
    PROVE  /\ \A s : Contains(q, s) <=> s \in ToSet(q)
           /\ \A s : s \notin ToSet(q) => GetQueuePos(q, s) = 0
           /\ \A i \in 1..Len(q) : q[i] \in ToSet(q) /\ GetQueuePos(q, q[i]) = i
           /\ \A s \in ToSet(q) : GetQueuePos(q, s) \in 1..Len(q) /\ q[GetQueuePos(q, s)] = s
<1>1. DOMAIN q = 1..Len(q) /\ Len(q) \in Nat
  OBVIOUS
<1>2. \A s : Contains(q, s) <=> s \in ToSet(q)
  BY <1>1 DEF Contains, ToSet
<1>3. \A s : s \notin ToSet(q) => GetQueuePos(q, s) = 0
  BY <1>2 DEF GetQueuePos
<1>4. \A i \in 1..Len(q) : q[i] \in ToSet(q) /\ GetQueuePos(q, q[i]) = i
  BY <1>1, <1>2 DEF GetQueuePos, ToSet, IsInjective
<1>5. \A s \in ToSet(q) : GetQueuePos(q, s) \in 1..Len(q) /\ q[GetQueuePos(q, s)] = s
  BY <1>1, <1>4 DEF ToSet
<1> QED
  BY <1>2, <1>3, <1>4, <1>5

\* A queue with nobody in it is empty.
LEMMA SomebodyIsIn ==
    ASSUME NEW S, NEW q \in Seq(S)
    PROVE  q = <<>> <=> ToSet(q) = {}
<1>1. CASE q = <<>>
  BY <1>1 DEF ToSet
<1>2. CASE q # <<>>
  <2>1. DOMAIN q = 1..Len(q) /\ Len(q) \in Nat /\ Len(q) > 0
    BY <1>2
  <2>2. q[1] \in ToSet(q)
    BY <2>1 DEF ToSet
  <2> QED
    BY <1>2, <2>2
<1> QED
  BY <1>1, <1>2

\* r is q without its element at p.
Shortened(q, p, r) ==
    /\ Len(r) = Len(q) - 1
    /\ \A i \in 1..Len(r) : r[i] = IF i < p THEN q[i] ELSE q[i + 1]

\* RemoveAt takes out one element.
LEMMA RemoveAtShortens ==
    ASSUME NEW S, NEW q \in Seq(S), NEW p \in 1..Len(q)
    PROVE  RemoveAt(q, p) \in Seq(S) /\ Shortened(q, p, RemoveAt(q, p))
<1> DEFINE a == SubSeq(q, 1, p - 1)
           b == SubSeq(q, p + 1, Len(q))
<1>1. a \in Seq(S) /\ Len(a) = p - 1 /\ \A i \in 1..(p - 1) : a[i] = q[i]
  OBVIOUS
<1>2. b \in Seq(S) /\ Len(b) = Len(q) - p /\ \A i \in 1..(Len(q) - p) : b[i] = q[p + i]
  OBVIOUS
<1> HIDE DEF a, b
<1>3. a \o b \in Seq(S) /\ Len(a \o b) = Len(q) - 1
  <2>1. a \in Seq(S) /\ b \in Seq(S)
    BY <1>1, <1>2
  <2>2. a \o b \in Seq(S) /\ Len(a \o b) = Len(a) + Len(b)
    BY <2>1
  <2>3. p \in Int /\ Len(q) \in Nat
    OBVIOUS
  <2> QED
    BY <1>1, <1>2, <2>2, <2>3
<1>4. \A i \in 1..(Len(q) - 1) : (a \o b)[i] = IF i < p THEN q[i] ELSE q[i + 1]
  BY <1>1, <1>2
<1> QED
  BY <1>3, <1>4 DEF RemoveAt, Shortened, a, b

\* So does Tail, at the head.
LEMMA TailShortens ==
    ASSUME NEW S, NEW q \in Seq(S), q # <<>>
    PROVE  Tail(q) \in Seq(S) /\ Shortened(q, 1, Tail(q)) /\ Head(q) = q[1] /\ Len(q) >= 1
BY DEF Shortened

\* The rest keeps its order: those behind move up by one.
LEMMA PositionsShortened ==
    ASSUME NEW S, NEW q \in Seq(S), IsInjective(q), NEW p \in 1..Len(q),
           NEW r \in Seq(S), Shortened(q, p, r)
    PROVE  /\ IsInjective(r) /\ ToSet(r) = ToSet(q) \ {q[p]}
           /\ \A s \in ToSet(r) :
                  GetQueuePos(r, s) = IF GetQueuePos(q, s) < p THEN GetQueuePos(q, s)
                                      ELSE GetQueuePos(q, s) - 1
<1>1. /\ DOMAIN q = 1..Len(q) /\ Len(q) \in Nat
      /\ DOMAIN r = 1..Len(r) /\ Len(r) \in Nat
  OBVIOUS
<1> DEFINE At(i) == IF i < p THEN i ELSE i + 1
<1>2. \A i \in 1..Len(r) : At(i) \in 1..Len(q) /\ At(i) # p /\ r[i] = q[At(i)]
  BY <1>1 DEF Shortened
<1>3. \A i, j \in 1..Len(q) : q[i] = q[j] => i = j
  BY <1>1 DEF IsInjective
<1>4. IsInjective(r)
  <2> SUFFICES ASSUME NEW i \in 1..Len(r), NEW j \in 1..Len(r), r[i] = r[j]
               PROVE  i = j
    BY <1>1 DEF IsInjective
  <2>1. At(i) = At(j)
    BY <1>2, <1>3
  <2> QED
    BY <2>1
<1>5. ASSUME NEW s \in ToSet(r)
      PROVE  s \in ToSet(q) \ {q[p]}
  <2>1. PICK i \in 1..Len(r) : r[i] = s
    BY <1>1 DEF ToSet
  <2>2. At(i) \in 1..Len(q) /\ q[At(i)] = s /\ At(i) # p
    BY <1>2, <2>1
  <2>3. s \in ToSet(q)
    BY <1>1, <2>2 DEF ToSet
  <2> QED
    BY <1>3, <2>2, <2>3
<1>6. ASSUME NEW s \in ToSet(q), s # q[p]
      PROVE  /\ s \in ToSet(r)
             /\ GetQueuePos(r, s) = IF GetQueuePos(q, s) < p THEN GetQueuePos(q, s)
                                    ELSE GetQueuePos(q, s) - 1
  <2>1. PICK i \in 1..Len(q) : q[i] = s
    BY <1>1 DEF ToSet
  <2>2. GetQueuePos(q, s) = i
    BY <2>1, PositionOf
  <2> DEFINE j == IF i < p THEN i ELSE i - 1
  <2>3. i # p /\ j \in 1..Len(r) /\ r[j] = s
    BY <1>1, <1>6, <2>1 DEF Shortened
  <2>4. r[j] \in ToSet(r) /\ GetQueuePos(r, r[j]) = j
    BY <1>4, <2>3, PositionOf
  <2> QED
    BY <2>2, <2>3, <2>4
<1> QED
  BY <1>4, <1>5, <1>6

\* Who joins joins behind everybody.
LEMMA PositionsAppended ==
    ASSUME NEW S, NEW q \in Seq(S), IsInjective(q), NEW x \in S, x \notin ToSet(q)
    PROVE  /\ Append(q, x) \in Seq(S) /\ IsInjective(Append(q, x))
           /\ ToSet(Append(q, x)) = ToSet(q) \cup {x}
           /\ GetQueuePos(Append(q, x), x) = Len(q) + 1
           /\ \A s \in ToSet(q) : GetQueuePos(Append(q, x), s) = GetQueuePos(q, s)
<1> DEFINE r == Append(q, x)
<1>1. /\ DOMAIN q = 1..Len(q) /\ Len(q) \in Nat
      /\ r \in Seq(S) /\ Len(r) = Len(q) + 1 /\ DOMAIN r = 1..Len(r)
      /\ r[Len(q) + 1] = x /\ \A i \in 1..Len(q) : r[i] = q[i]
  OBVIOUS
<1> HIDE DEF r
<1>2. IsInjective(r)
  BY <1>1 DEF IsInjective, ToSet
<1>3. ToSet(r) = ToSet(q) \cup {x}
  BY <1>1 DEF ToSet
<1>4. GetQueuePos(r, x) = Len(q) + 1
  <2>1. Len(q) + 1 \in 1..Len(r)
    BY <1>1
  <2> QED
    BY <1>1, <1>2, <2>1, PositionOf
<1>5. ASSUME NEW s \in ToSet(q)
      PROVE  GetQueuePos(r, s) = GetQueuePos(q, s)
  <2>1. PICK i \in 1..Len(q) : q[i] = s
    BY <1>1 DEF ToSet
  <2>2. GetQueuePos(q, s) = i
    BY <2>1, PositionOf
  <2>3. i \in 1..Len(r) /\ r[i] = s
    BY <1>1, <2>1
  <2>4. GetQueuePos(r, r[i]) = i
    BY <1>1, <1>2, <2>3, PositionOf
  <2> QED
    BY <2>2, <2>3, <2>4
<1> QED
  BY <1>1, <1>2, <1>3, <1>4, <1>5 DEF r

\* As many wait as there are places.
LEMMA QueueLength ==
    ASSUME NEW S, NEW q \in Seq(S), IsInjective(q), IsFiniteSet(S)
    PROVE  /\ Len(q) <= Cardinality(S)
           /\ IsFiniteSet(ToSet(q)) /\ Cardinality(ToSet(q)) = Len(q)
<1>1. DOMAIN q = 1..Len(q) /\ Len(q) \in Nat /\ q \in [1..Len(q) -> S]
  OBVIOUS
<1>2. q \in Bijection(1..Len(q), ToSet(q))
  BY <1>1 DEF Bijection, Injection, Surjection, ToSet, IsInjective
<1>3. IsFiniteSet(1..Len(q)) /\ Cardinality(1..Len(q)) = Len(q)
  BY <1>1, FS_Interval
<1>4. IsFiniteSet(ToSet(q)) /\ Cardinality(ToSet(q)) = Len(q)
  BY <1>2, <1>3, FS_Bijection DEF ExistsBijection
<1>5. ToSet(q) \in SUBSET S
  BY <1>1 DEF ToSet
<1> QED
  BY <1>4, <1>5, FS_Subset

-----------------------------------------------------------------------------
(* What one step of the chain makes of a value. *)

\* Everything but the queue's own fields of a session.
Same(r, u) == r.account = u.account /\ r.socket = u.socket /\ r.stage = u.stage

\* A place in the queue is a place that `told` can hold.
LEMMA PlaceType ==
    ASSUME NEW w \in Worlds, IsInjective(w.queue)
    PROVE  /\ Len(w.queue) \in 0..Cardinality(Sessions)
           /\ \A s : GetQueuePos(w.queue, s) \in 0..Cardinality(Sessions)
<1>1. w.queue \in Seq(Sessions)
  BY DEF Worlds
<1>2. IsFiniteSet(Sessions)
  BY AdmissionAssumption
<1>3. Len(w.queue) <= Cardinality(Sessions) /\ Len(w.queue) \in Nat /\ Cardinality(Sessions) \in Nat
  BY <1>1, <1>2, QueueLength, FS_CardinalityType
<1> QED
  BY <1>1, <1>3, PositionOf

\* TellPositions changes `told` only.
LEMMA TellsPositions ==
    ASSUME NEW w \in Worlds, IsInjective(w.queue), NEW from \in Nat \ {0}
    PROVE  /\ TellPositions(w, from) \in Worlds
           /\ TellPositions(w, from).queue = w.queue /\ TellPositions(w, from).size = w.size
           /\ \A s \in Sessions :
                  /\ Same(TellPositions(w, from).session[s], w.session[s])
                  /\ TellPositions(w, from).session[s].inQueue = w.session[s].inQueue
                  /\ TellPositions(w, from).session[s].initializing = w.session[s].initializing
                  /\ TellPositions(w, from).session[s].told =
                         IF GetQueuePos(w.queue, s) >= from THEN GetQueuePos(w.queue, s)
                         ELSE w.session[s].told
                  /\ s \notin ToSet(w.queue) =>
                         TellPositions(w, from).session[s] = w.session[s]
<1> DEFINE v == TellPositions(w, from)
           told(s) == [w.session[s] EXCEPT !.told = GetQueuePos(w.queue, s)]
<1>1. w.queue \in Seq(Sessions) /\ w.session \in [Sessions -> SessionType] /\ w.size \in Nat
  BY DEF Worlds
<1>2. \A s : GetQueuePos(w.queue, s) \in 0..Cardinality(Sessions)
  BY PlaceType
<1>3. \A s : s \notin ToSet(w.queue) => GetQueuePos(w.queue, s) = 0
  BY <1>1, PositionOf
<1>4. /\ v.queue = w.queue /\ v.size = w.size
      /\ \A s \in Sessions : v.session[s] = IF GetQueuePos(w.queue, s) >= from THEN told(s)
                                            ELSE w.session[s]
  BY DEF TellPositions, Worlds
<1>5. \A s \in Sessions :
          /\ told(s) \in SessionType /\ Same(told(s), w.session[s])
          /\ told(s).inQueue = w.session[s].inQueue
          /\ told(s).initializing = w.session[s].initializing
          /\ told(s).told = GetQueuePos(w.queue, s)
  BY <1>1, <1>2 DEF SessionType, Same
<1>6. v \in Worlds
  <2>1. v = [w EXCEPT !.session = [s \in Sessions |->
                IF GetQueuePos(w.queue, s) >= from THEN told(s) ELSE w.session[s]]]
    BY DEF TellPositions, Worlds
  <2> QED
    BY <1>1, <1>5, <2>1 DEF Worlds
<1> HIDE DEF v, told
<1>7. ASSUME NEW s \in Sessions
      PROVE  /\ Same(v.session[s], w.session[s])
             /\ v.session[s].inQueue = w.session[s].inQueue
             /\ v.session[s].initializing = w.session[s].initializing
             /\ v.session[s].told = IF GetQueuePos(w.queue, s) >= from
                                    THEN GetQueuePos(w.queue, s) ELSE w.session[s].told
             /\ s \notin ToSet(w.queue) => v.session[s] = w.session[s]
  <2>1. CASE GetQueuePos(w.queue, s) >= from
    <3>1. v.session[s] = told(s)
      BY <1>4, <2>1
    <3>2. s \in ToSet(w.queue)
      BY <1>3, <2>1
    <3> QED
      BY <1>5, <2>1, <3>1, <3>2
  <2>2. CASE ~(GetQueuePos(w.queue, s) >= from)
    BY <1>4, <2>2 DEF Same
  <2> QED
    BY <2>1, <2>2
<1> QED
  BY <1>4, <1>6, <1>7 DEF v

\* The head goes, and its session is on the way in.
LEMMA HeadGoesIn ==
    ASSUME NEW w \in Worlds, w.queue # <<>>
    PROVE  /\ LetHeadIn(w) \in Worlds
           /\ LetHeadIn(w).queue = Tail(w.queue) /\ LetHeadIn(w).size = w.size
           /\ Head(w.queue) \in Sessions
           /\ LetHeadIn(w).session =
                  [w.session EXCEPT ![Head(w.queue)].initializing = TRUE]
<1>1. w.queue \in Seq(Sessions) /\ w.session \in [Sessions -> SessionType] /\ w.size \in Nat
  BY DEF Worlds
<1>2. Head(w.queue) \in Sessions /\ Tail(w.queue) \in Seq(Sessions)
  BY <1>1
<1> DEFINE new == [w.session EXCEPT ![Head(w.queue)].initializing = TRUE]
<1>3. new \in [Sessions -> SessionType]
  BY <1>1, <1>2 DEF SessionType
<1>4. LetHeadIn(w) = [w EXCEPT !.session = new, !.queue = Tail(w.queue)]
  BY DEF LetHeadIn, InitializeSession, Worlds
<1> QED
  BY <1>1, <1>2, <1>3, <1>4 DEF Worlds

\* What `left` is in RemoveQueuedPlayer: the session that leaves is taken out.
Left(w, s) ==
    IF s \in ToSet(w.queue)
    THEN [w EXCEPT !.queue = RemoveAt(@, GetQueuePos(w.queue, s)), !.session[s].inQueue = FALSE]
    ELSE w

\* The sessions that count when RemoveQueuedPlayer compares them with the limit.
Remaining(w, s) ==
    IF s \in ToSet(w.queue) \/ GetActiveSessionCount(w) = 0
    THEN GetActiveSessionCount(w) ELSE GetActiveSessionCount(w) - 1

LetsIn(w, s) ==
    (m_playerLimit = 0 \/ Remaining(w, s) < m_playerLimit) /\ Left(w, s).queue # <<>>

\* RemoveQueuedPlayer in these terms.
LEMMA RemovalCases ==
    ASSUME NEW w \in Worlds, IsInjective(w.queue), NEW s
    PROVE  RemoveQueuedPlayer(w, s) =
               IF LetsIn(w, s) THEN TellPositions(LetHeadIn(Left(w, s)), 1)
               ELSE IF s \in ToSet(w.queue)
                    THEN TellPositions(Left(w, s), GetQueuePos(w.queue, s))
                    ELSE Left(w, s)
<1>1. w.queue \in Seq(Sessions)
  BY DEF Worlds
<1>2. GetQueuePos(w.queue, s) > 0 <=> s \in ToSet(w.queue)
  BY <1>1, PositionOf
<1>3. CASE s \in ToSet(w.queue)
  BY <1>2, <1>3 DEF RemoveQueuedPlayer, Left, Remaining, LetsIn
<1>4. CASE s \notin ToSet(w.queue)
  BY <1>2, <1>4 DEF RemoveQueuedPlayer, Left, Remaining, LetsIn
<1> QED
  BY <1>3, <1>4

\* Left shortens the queue by the session, if it is there, and keeps the rest in order.
LEMMA LeftFacts ==
    ASSUME NEW w \in Worlds, IsInjective(w.queue), NEW s \in Sessions
    PROVE  /\ Left(w, s) \in Worlds /\ Left(w, s).size = w.size
           /\ IsInjective(Left(w, s).queue)
           /\ ToSet(Left(w, s).queue) = ToSet(w.queue) \ {s}
           /\ Len(Left(w, s).queue) = IF s \in ToSet(w.queue) THEN Len(w.queue) - 1
                                      ELSE Len(w.queue)
           /\ \A t \in ToSet(Left(w, s).queue) :
                  GetQueuePos(Left(w, s).queue, t) =
                      IF s \in ToSet(w.queue) /\ GetQueuePos(w.queue, t) >= GetQueuePos(w.queue, s)
                      THEN GetQueuePos(w.queue, t) - 1 ELSE GetQueuePos(w.queue, t)
           /\ Left(w, s).session = IF s \in ToSet(w.queue)
                                   THEN [w.session EXCEPT ![s].inQueue = FALSE] ELSE w.session
<1>1. w.queue \in Seq(Sessions) /\ w.session \in [Sessions -> SessionType] /\ w.size \in Nat
  BY DEF Worlds
<1>2. CASE s \notin ToSet(w.queue)
  BY <1>1, <1>2 DEF Left
<1>3. CASE s \in ToSet(w.queue)
  <2> DEFINE p == GetQueuePos(w.queue, s)
             r == RemoveAt(w.queue, p)
             new == [w.session EXCEPT ![s].inQueue = FALSE]
  <2>1. p \in 1..Len(w.queue) /\ w.queue[p] = s
    BY <1>1, <1>3, PositionOf
  <2>2. r \in Seq(Sessions) /\ Shortened(w.queue, p, r)
    BY <1>1, <2>1, RemoveAtShortens
  <2>3. /\ IsInjective(r) /\ ToSet(r) = ToSet(w.queue) \ {s}
        /\ \A t \in ToSet(r) : GetQueuePos(r, t) = IF GetQueuePos(w.queue, t) < p
                               THEN GetQueuePos(w.queue, t) ELSE GetQueuePos(w.queue, t) - 1
    BY <1>1, <2>1, <2>2, PositionsShortened
  <2>4. new \in [Sessions -> SessionType]
    BY <1>1 DEF SessionType
  <2>5. Left(w, s) = [w EXCEPT !.queue = r, !.session = new]
    BY <1>3 DEF Left, Worlds
  <2>6. /\ Left(w, s) \in Worlds /\ Left(w, s).size = w.size
        /\ Left(w, s).queue = r /\ Left(w, s).session = new
    BY <1>1, <2>2, <2>4, <2>5 DEF Worlds
  <2>7. Len(r) = Len(w.queue) - 1
    BY <2>2 DEF Shortened
  <2>8. \A t \in ToSet(r) : GetQueuePos(w.queue, t) \in Nat /\ p \in Nat
    BY <1>1, <2>1, <2>3, PositionOf
  <2> QED
    BY <1>3, <2>3, <2>6, <2>7, <2>8
<1> QED
  BY <1>2, <1>3

\* What may become of the queue when s leaves it, once or more often: v comes from w.
Leaves(v, w, s) ==
    /\ v \in Worlds /\ v.size = w.size /\ InStep(v)
    /\ ToSet(v.queue) \subseteq ToSet(w.queue) \ {s}
    /\ \A t \in Sessions :
           /\ Same(v.session[t], w.session[t])
           /\ t # s => v.session[t].inQueue = w.session[t].inQueue
           /\ v.session[t].initializing <=>
                  w.session[t].initializing \/ t \in ToSet(w.queue) \ (ToSet(v.queue) \cup {s})
           /\ t \notin ToSet(w.queue) => v.session[t] = w.session[t]

\* Those that stay keep their order, and who was let in had nobody of them ahead.
InOrder(v, w, s) ==
    \A t \in ToSet(w.queue) \ {s}, u \in ToSet(v.queue) :
        /\ t \in ToSet(v.queue) /\ GetQueuePos(w.queue, t) < GetQueuePos(w.queue, u) =>
               GetQueuePos(v.queue, t) < GetQueuePos(v.queue, u)
        /\ t \notin ToSet(v.queue) => GetQueuePos(w.queue, t) < GetQueuePos(w.queue, u)

\* No admission: those behind are told that they moved up.
LEMMA LeavesOnly ==
    ASSUME NEW w \in Worlds, InStep(w), NEW s \in Sessions, ~LetsIn(w, s)
    PROVE  LET v == RemoveQueuedPlayer(w, s) IN
           /\ Leaves(v, w, s) /\ InOrder(v, w, s)
           /\ Len(v.queue) = IF s \in ToSet(w.queue) THEN Len(w.queue) - 1 ELSE Len(w.queue)
<1> DEFINE L == Left(w, s)
           p == GetQueuePos(w.queue, s)
<1>0. IsInjective(w.queue) /\ \A t \in ToSet(w.queue) : Waits(w, t)
  BY DEF InStep
<1>1. w.queue \in Seq(Sessions) /\ w.session \in [Sessions -> SessionType]
  BY DEF Worlds
<1>2. CASE s \notin ToSet(w.queue)
  <2>1. RemoveQueuedPlayer(w, s) = w
    BY <1>0, <1>2, RemovalCases DEF Left
  <2>2. Leaves(w, w, s)
    BY <1>2 DEF Leaves, Same
  <2>3. InOrder(w, w, s)
    BY DEF InOrder
  <2> QED
    BY <1>2, <2>1, <2>2, <2>3
<1>3. CASE s \in ToSet(w.queue)
  <2>1. p \in 1..Len(w.queue) /\ \A t \in ToSet(w.queue) : GetQueuePos(w.queue, t) \in 1..Len(w.queue)
    BY <1>0, <1>1, <1>3, PositionOf
  <2>2. /\ L \in Worlds /\ L.size = w.size /\ IsInjective(L.queue)
        /\ ToSet(L.queue) = ToSet(w.queue) \ {s} /\ Len(L.queue) = Len(w.queue) - 1
        /\ \A t \in ToSet(L.queue) :
               GetQueuePos(L.queue, t) = IF GetQueuePos(w.queue, t) >= p
                                         THEN GetQueuePos(w.queue, t) - 1
                                         ELSE GetQueuePos(w.queue, t)
        /\ L.session = [w.session EXCEPT ![s].inQueue = FALSE]
    BY <1>0, <1>3, LeftFacts
  <2> DEFINE v == TellPositions(L, p)
  <2>3. RemoveQueuedPlayer(w, s) = v
    BY <1>0, <1>3, RemovalCases
  <2>4. p \in Nat \ {0}
    BY <2>1
  <2>5. /\ v \in Worlds /\ v.queue = L.queue /\ v.size = L.size
        /\ \A t \in Sessions :
               /\ Same(v.session[t], L.session[t])
               /\ v.session[t].inQueue = L.session[t].inQueue
               /\ v.session[t].initializing = L.session[t].initializing
               /\ v.session[t].told = IF GetQueuePos(L.queue, t) >= p
                                      THEN GetQueuePos(L.queue, t) ELSE L.session[t].told
               /\ t \notin ToSet(L.queue) => v.session[t] = L.session[t]
    BY <2>2, <2>4, TellsPositions
  <2> HIDE DEF v, L, p
  <2>6. /\ Same(L.session[s], w.session[s])
        /\ L.session[s].initializing = w.session[s].initializing
        /\ \A t \in Sessions \ {s} : L.session[t] = w.session[t]
    BY <1>1, <2>2 DEF SessionType, Same
  <2>7. ASSUME NEW t \in ToSet(v.queue)
        PROVE  Waits(v, t)
    <3>1. t \in ToSet(w.queue) /\ t # s /\ t \in Sessions
      BY <1>1, <2>2, <2>5, <2>7 DEF ToSet
    <3>2. Waits(w, t) /\ L.session[t] = w.session[t]
      BY <1>0, <2>6, <3>1
    <3>3. v.session[t].inQueue /\ ~v.session[t].initializing
      BY <2>5, <3>1, <3>2 DEF Waits
    <3>4. v.session[t].stage = "characters"
      BY <2>5, <3>1, <3>2 DEF Waits, Same
    <3>5. v.session[t].told = GetQueuePos(v.queue, t)
      <4>1. w.session[t].told = GetQueuePos(w.queue, t)
        BY <3>2 DEF Waits
      <4>2. GetQueuePos(w.queue, t) \in Nat /\ p \in Nat
        BY <2>1, <2>4, <3>1
      <4>3. GetQueuePos(L.queue, t) = IF GetQueuePos(w.queue, t) >= p
                THEN GetQueuePos(w.queue, t) - 1 ELSE GetQueuePos(w.queue, t)
        BY <2>2, <2>5, <2>7
      <4>4. v.session[t].told = IF GetQueuePos(L.queue, t) >= p
                THEN GetQueuePos(L.queue, t) ELSE w.session[t].told
        BY <2>5, <3>1, <3>2
      <4>5. GetQueuePos(w.queue, t) # p
        BY <1>0, <1>1, <1>3, <3>1, PositionOf DEF p
      <4> QED
        BY <2>5, <4>1, <4>2, <4>3, <4>4, <4>5
    <3> QED
      BY <3>3, <3>4, <3>5 DEF Waits
  <2>8. InStep(v)
    BY <2>2, <2>5, <2>7 DEF InStep
  <2>9. ASSUME NEW t \in Sessions
        PROVE  /\ Same(v.session[t], w.session[t])
               /\ t # s => v.session[t].inQueue = w.session[t].inQueue
               /\ v.session[t].initializing = w.session[t].initializing
               /\ t \notin ToSet(w.queue) => v.session[t] = w.session[t]
    <3>1. CASE t = s
      BY <1>3, <2>5, <2>6, <3>1 DEF Same
    <3>2. CASE t # s
      <4>1. L.session[t] = w.session[t]
        BY <2>6, <3>2
      <4>2. t \notin ToSet(w.queue) => v.session[t] = w.session[t]
        BY <2>2, <2>5, <4>1
      <4> QED
        BY <2>5, <4>1, <4>2
    <3> QED
      BY <3>1, <3>2
  <2>10. Leaves(v, w, s)
    BY <2>2, <2>5, <2>8, <2>9 DEF Leaves
  <2>11. InOrder(v, w, s)
    <3> SUFFICES ASSUME NEW t \in ToSet(w.queue) \ {s}, NEW u \in ToSet(v.queue),
                        GetQueuePos(w.queue, t) < GetQueuePos(w.queue, u)
                 PROVE  GetQueuePos(v.queue, t) < GetQueuePos(v.queue, u)
      BY <2>2, <2>5 DEF InOrder
    <3>1. GetQueuePos(w.queue, t) \in Nat /\ GetQueuePos(w.queue, u) \in Nat /\ p \in Nat
      BY <2>1, <2>2, <2>4, <2>5
    <3>2. GetQueuePos(w.queue, t) # p /\ GetQueuePos(w.queue, u) # p
      BY <1>0, <1>1, <1>3, <2>2, <2>5, PositionOf DEF p
    <3>3. t \in ToSet(L.queue) /\ u \in ToSet(L.queue) /\ v.queue = L.queue
      BY <2>2, <2>5
    <3>4. /\ GetQueuePos(L.queue, t) = IF GetQueuePos(w.queue, t) >= p
                 THEN GetQueuePos(w.queue, t) - 1 ELSE GetQueuePos(w.queue, t)
          /\ GetQueuePos(L.queue, u) = IF GetQueuePos(w.queue, u) >= p
                 THEN GetQueuePos(w.queue, u) - 1 ELSE GetQueuePos(w.queue, u)
      BY <2>2, <3>3
    <3> QED
      BY <3>1, <3>2, <3>3, <3>4
  <2> QED
    BY <1>3, <2>2, <2>3, <2>5, <2>10, <2>11
<1> QED
  BY <1>2, <1>3

\* An admission: the head of the others is let in, and everybody is told his place.
LEMMA LeavesAndLetsIn ==
    ASSUME NEW w \in Worlds, InStep(w), NEW s \in Sessions, LetsIn(w, s)
    PROVE  LET v == RemoveQueuedPlayer(w, s) IN
           /\ Leaves(v, w, s) /\ InOrder(v, w, s)
           /\ Len(v.queue) = IF s \in ToSet(w.queue) THEN Len(w.queue) - 2 ELSE Len(w.queue) - 1
<1> DEFINE L == Left(w, s)
           h == Head(L.queue)
           M == LetHeadIn(L)
           v == TellPositions(M, 1)
<1>0. IsInjective(w.queue) /\ \A t \in ToSet(w.queue) : Waits(w, t)
  BY DEF InStep
<1>1. w.queue \in Seq(Sessions) /\ w.session \in [Sessions -> SessionType] /\ L.queue # <<>>
  BY DEF Worlds, LetsIn
<1>2. RemoveQueuedPlayer(w, s) = v
  BY <1>0, RemovalCases
<1>3. /\ L \in Worlds /\ L.size = w.size /\ IsInjective(L.queue)
      /\ ToSet(L.queue) = ToSet(w.queue) \ {s}
      /\ Len(L.queue) = IF s \in ToSet(w.queue) THEN Len(w.queue) - 1 ELSE Len(w.queue)
      /\ \A t \in ToSet(L.queue) :
             GetQueuePos(L.queue, t) =
                 IF s \in ToSet(w.queue) /\ GetQueuePos(w.queue, t) >= GetQueuePos(w.queue, s)
                 THEN GetQueuePos(w.queue, t) - 1 ELSE GetQueuePos(w.queue, t)
      /\ L.session = IF s \in ToSet(w.queue)
                     THEN [w.session EXCEPT ![s].inQueue = FALSE] ELSE w.session
  BY <1>0, LeftFacts
<1>4. /\ M \in Worlds /\ M.queue = Tail(L.queue) /\ M.size = L.size /\ h \in Sessions
      /\ M.session = [L.session EXCEPT ![h].initializing = TRUE]
  BY <1>1, <1>3, HeadGoesIn
<1> HIDE DEF L
<1>5. L.queue \in Seq(Sessions) /\ L.session \in [Sessions -> SessionType]
  BY <1>3 DEF Worlds
<1>6. M.queue \in Seq(Sessions) /\ Shortened(L.queue, 1, M.queue) /\ h = L.queue[1]
      /\ 1 \in 1..Len(L.queue)
  BY <1>1, <1>4, <1>5, TailShortens
<1>7. /\ IsInjective(M.queue) /\ ToSet(M.queue) = ToSet(L.queue) \ {h}
      /\ \A t \in ToSet(M.queue) :
             GetQueuePos(M.queue, t) = IF GetQueuePos(L.queue, t) < 1
                                       THEN GetQueuePos(L.queue, t)
                                       ELSE GetQueuePos(L.queue, t) - 1
  BY <1>3, <1>5, <1>6, PositionsShortened
<1> HIDE DEF M, h
<1>8. /\ v \in Worlds /\ v.queue = M.queue /\ v.size = M.size
      /\ \A t \in Sessions :
             /\ Same(v.session[t], M.session[t])
             /\ v.session[t].inQueue = M.session[t].inQueue
             /\ v.session[t].initializing = M.session[t].initializing
             /\ v.session[t].told = IF GetQueuePos(M.queue, t) >= 1
                                    THEN GetQueuePos(M.queue, t) ELSE M.session[t].told
             /\ t \notin ToSet(M.queue) => v.session[t] = M.session[t]
  <2>1. M \in Worlds /\ IsInjective(M.queue) /\ 1 \in Nat \ {0}
    BY <1>4, <1>7
  <2> QED
    BY <2>1, TellsPositions
<1> HIDE DEF v
<1>9. h \in ToSet(L.queue) /\ h # s /\ h \in ToSet(w.queue) /\ h \notin ToSet(v.queue)
  BY <1>3, <1>5, <1>6, <1>7, <1>8, PositionOf
<1>10. /\ \A t \in Sessions \ {s} : L.session[t] = w.session[t]
       /\ s \notin ToSet(w.queue) => L.session[s] = w.session[s]
       /\ Same(L.session[s], w.session[s])
       /\ L.session[s].initializing = w.session[s].initializing
  BY <1>1, <1>3 DEF SessionType, Same
<1>11. /\ \A t \in Sessions \ {h} : M.session[t] = L.session[t]
       /\ Same(M.session[h], L.session[h])
       /\ M.session[h].inQueue = L.session[h].inQueue
       /\ M.session[h].initializing
  BY <1>4, <1>5 DEF SessionType, Same
<1>12. ToSet(v.queue) = ToSet(w.queue) \ {s, h}
  BY <1>3, <1>7, <1>8
<1>13. ASSUME NEW t \in ToSet(v.queue)
       PROVE  Waits(v, t)
  <2>1. t \in ToSet(w.queue) /\ t # s /\ t # h /\ t \in Sessions
    BY <1>1, <1>12, <1>13 DEF ToSet
  <2>2. Waits(w, t) /\ M.session[t] = w.session[t]
    BY <1>0, <1>10, <1>11, <2>1
  <2>3. v.session[t].inQueue /\ ~v.session[t].initializing
    BY <1>8, <2>1, <2>2 DEF Waits
  <2>4. v.session[t].stage = "characters"
    BY <1>8, <2>1, <2>2 DEF Waits, Same
  <2>5. GetQueuePos(v.queue, t) \in 1..Len(v.queue) /\ v.queue \in Seq(Sessions)
    BY <1>6, <1>7, <1>8, <1>13, PositionOf
  <2>6. v.session[t].told = GetQueuePos(v.queue, t)
    BY <1>8, <2>1, <2>5
  <2> QED
    BY <2>3, <2>4, <2>6 DEF Waits
<1>14. InStep(v)
  BY <1>7, <1>8, <1>13 DEF InStep
<1>15. ASSUME NEW t \in Sessions
       PROVE  /\ Same(v.session[t], w.session[t])
              /\ t # s => v.session[t].inQueue = w.session[t].inQueue
              /\ v.session[t].initializing <=> w.session[t].initializing \/ t = h
              /\ t \notin ToSet(w.queue) => v.session[t] = w.session[t]
  <2>1. CASE t = h
    BY <1>8, <1>9, <1>10, <1>11, <2>1 DEF Same
  <2>2. CASE t = s
    <3>1. M.session[t] = L.session[t] /\ t # h
      BY <1>9, <1>11, <2>2
    <3>2. s \notin ToSet(w.queue) => v.session[s] = w.session[s]
      BY <1>8, <1>10, <1>12, <2>2, <3>1
    <3> QED
      BY <1>8, <1>10, <2>2, <3>1, <3>2 DEF Same
  <2>3. CASE t # h /\ t # s
    <3>1. M.session[t] = w.session[t]
      BY <1>10, <1>11, <2>3
    <3>2. t \notin ToSet(w.queue) => v.session[t] = w.session[t]
      BY <1>8, <1>12, <3>1
    <3> QED
      BY <1>8, <2>3, <3>1, <3>2
  <2> QED
    BY <2>1, <2>2, <2>3
<1>16. \A t \in Sessions : t \in ToSet(w.queue) \ (ToSet(v.queue) \cup {s}) <=> t = h
  BY <1>9, <1>12
<1>17. Leaves(v, w, s)
  <2>1. ToSet(v.queue) \subseteq ToSet(w.queue) \ {s}
    BY <1>12
  <2>2. v.size = w.size
    BY <1>3, <1>4, <1>8
  <2> QED
    BY <1>8, <1>14, <1>15, <1>16, <2>1, <2>2 DEF Leaves
<1>18. InOrder(v, w, s)
  <2>1. SUFFICES ASSUME NEW t \in ToSet(w.queue) \ {s}, NEW u \in ToSet(v.queue)
                 PROVE  /\ t # h /\ GetQueuePos(w.queue, t) < GetQueuePos(w.queue, u) =>
                               GetQueuePos(v.queue, t) < GetQueuePos(v.queue, u)
                        /\ t = h => GetQueuePos(w.queue, t) < GetQueuePos(w.queue, u)
    BY <1>12 DEF InOrder
  <2> DEFINE p == GetQueuePos(w.queue, s)
  <2>2. /\ GetQueuePos(w.queue, t) \in 1..Len(w.queue)
        /\ GetQueuePos(w.queue, u) \in 1..Len(w.queue) /\ p \in Nat
        /\ s \in ToSet(w.queue) => GetQueuePos(w.queue, t) # p /\ GetQueuePos(w.queue, u) # p
    BY <1>0, <1>1, <1>12, PositionOf
  <2>3. t \in ToSet(L.queue) /\ u \in ToSet(L.queue) /\ u \in ToSet(M.queue)
    BY <1>3, <1>8, <1>12
  <2>4. /\ GetQueuePos(L.queue, t) \in 1..Len(L.queue)
        /\ GetQueuePos(L.queue, u) \in 1..Len(L.queue)
        /\ GetQueuePos(L.queue, h) = 1
        /\ u # h => GetQueuePos(L.queue, u) # 1
    BY <1>3, <1>5, <1>6, <2>3, PositionOf
  <2>5. /\ GetQueuePos(L.queue, t) = IF s \in ToSet(w.queue) /\ GetQueuePos(w.queue, t) >= p
               THEN GetQueuePos(w.queue, t) - 1 ELSE GetQueuePos(w.queue, t)
        /\ GetQueuePos(L.queue, u) = IF s \in ToSet(w.queue) /\ GetQueuePos(w.queue, u) >= p
               THEN GetQueuePos(w.queue, u) - 1 ELSE GetQueuePos(w.queue, u)
    BY <1>3, <2>3
  <2> HIDE DEF p
  <2>6. GetQueuePos(w.queue, t) < GetQueuePos(w.queue, u) <=>
            GetQueuePos(L.queue, t) < GetQueuePos(L.queue, u)
    BY <2>2, <2>5
  <2>7. CASE t = h
    <3>1. u # h
      BY <1>12
    <3>2. GetQueuePos(L.queue, t) = 1
      BY <2>4, <2>7
    <3>3. GetQueuePos(L.queue, u) \in Nat /\ GetQueuePos(L.queue, u) # 1
          /\ GetQueuePos(L.queue, u) >= 1
      BY <2>4, <3>1
    <3>4. GetQueuePos(L.queue, t) < GetQueuePos(L.queue, u)
      BY <3>2, <3>3
    <3> QED
      BY <2>6, <2>7, <3>4
  <2>8. CASE t # h
    <3>1. t \in ToSet(M.queue)
      BY <1>7, <2>3, <2>8
    <3>2. /\ GetQueuePos(v.queue, t) = GetQueuePos(L.queue, t) - 1
          /\ GetQueuePos(v.queue, u) = GetQueuePos(L.queue, u) - 1
      BY <1>7, <1>8, <2>3, <2>4, <3>1
    <3> QED
      BY <2>4, <2>6, <2>8, <3>2
  <2> QED
    BY <2>7, <2>8
<1>19. Len(v.queue) = Len(L.queue) - 1
  BY <1>6, <1>8 DEF Shortened
<1> QED
  BY <1>2, <1>3, <1>17, <1>18, <1>19, <1>1

\* The others in the queue of w.
Others(w, s) == IF s \in ToSet(w.queue) THEN Len(w.queue) - 1 ELSE Len(w.queue)

\* One removal: what it does to the queue, and when it lets somebody in.
LEMMA LeavesQueue ==
    ASSUME NEW w \in Worlds, InStep(w), NEW s \in Sessions
    PROVE  LET v == RemoveQueuedPlayer(w, s) IN
           /\ Leaves(v, w, s) /\ InOrder(v, w, s)
           /\ Others(w, s) \in Nat
           /\ Len(v.queue) =
                  IF (m_playerLimit = 0 \/ Remaining(w, s) < m_playerLimit) /\ Others(w, s) > 0
                  THEN Others(w, s) - 1 ELSE Others(w, s)
<1> DEFINE v == RemoveQueuedPlayer(w, s)
<1>1. IsInjective(w.queue) /\ w.queue \in Seq(Sessions) /\ Len(w.queue) \in Nat
  BY DEF InStep, Worlds
<1>2. Left(w, s) \in Worlds /\ Len(Left(w, s).queue) = Others(w, s)
  BY <1>1, LeftFacts DEF Others
<1>3. Others(w, s) \in Nat /\ (Left(w, s).queue # <<>> <=> Others(w, s) > 0)
  BY <1>2 DEF Worlds
<1>4. CASE LetsIn(w, s)
  <2>1. /\ Leaves(v, w, s) /\ InOrder(v, w, s)
        /\ Len(v.queue) = IF s \in ToSet(w.queue) THEN Len(w.queue) - 2 ELSE Len(w.queue) - 1
    BY <1>4, LeavesAndLetsIn
  <2>2. Len(v.queue) = Others(w, s) - 1
    BY <1>1, <2>1 DEF Others
  <2> QED
    BY <1>3, <1>4, <2>1, <2>2 DEF LetsIn
<1>5. CASE ~LetsIn(w, s)
  <2>1. /\ Leaves(v, w, s) /\ InOrder(v, w, s)
        /\ Len(v.queue) = IF s \in ToSet(w.queue) THEN Len(w.queue) - 1 ELSE Len(w.queue)
    BY <1>5, LeavesOnly
  <2> QED
    BY <1>3, <1>5, <2>1 DEF LetsIn, Others
<1> QED
  BY <1>4, <1>5

\* A second removal of the same session adds nothing but another admission.
LEMMA LeavesTwice ==
    ASSUME NEW w \in Worlds, InStep(w), NEW s, NEW v, NEW x,
           Leaves(v, w, s), InOrder(v, w, s), Leaves(x, v, s), InOrder(x, v, s)
    PROVE  Leaves(x, w, s) /\ InOrder(x, w, s)
<1>1. w.queue \in Seq(Sessions) /\ IsInjective(w.queue)
  BY DEF Worlds, InStep
<1>2. /\ ToSet(v.queue) \subseteq ToSet(w.queue) \ {s}
      /\ ToSet(x.queue) \subseteq ToSet(v.queue)
      /\ x.size = w.size /\ x \in Worlds /\ InStep(x)
  BY DEF Leaves
<1>3. ASSUME NEW t \in Sessions
      PROVE  /\ Same(x.session[t], w.session[t])
             /\ t # s => x.session[t].inQueue = w.session[t].inQueue
             /\ t \notin ToSet(w.queue) => x.session[t] = w.session[t]
  BY <1>2 DEF Leaves, Same
<1>4. ASSUME NEW t \in Sessions
      PROVE  x.session[t].initializing <=>
                 w.session[t].initializing \/ t \in ToSet(w.queue) \ (ToSet(x.queue) \cup {s})
  <2>1. x.session[t].initializing <=>
            v.session[t].initializing \/ t \in ToSet(v.queue) \ (ToSet(x.queue) \cup {s})
    BY DEF Leaves
  <2>2. v.session[t].initializing <=>
            w.session[t].initializing \/ t \in ToSet(w.queue) \ (ToSet(v.queue) \cup {s})
    BY DEF Leaves
  <2> QED
    BY <1>2, <2>1, <2>2
<1>5. InOrder(x, w, s)
  <2> SUFFICES ASSUME NEW t \in ToSet(w.queue) \ {s}, NEW u \in ToSet(x.queue)
               PROVE  /\ t \in ToSet(x.queue) /\ GetQueuePos(w.queue, t) < GetQueuePos(w.queue, u)
                             => GetQueuePos(x.queue, t) < GetQueuePos(x.queue, u)
                      /\ t \notin ToSet(x.queue) =>
                             GetQueuePos(w.queue, t) < GetQueuePos(w.queue, u)
    BY DEF InOrder
  <2>1. u \in ToSet(v.queue) /\ u \in ToSet(w.queue) \ {s}
    BY <1>2
  <2>2. CASE t \notin ToSet(v.queue)
    BY <1>2, <2>1, <2>2 DEF InOrder
  <2>3. CASE t \in ToSet(v.queue)
    <3>1. t \in ToSet(v.queue) \ {s} /\ u \in ToSet(v.queue) \ {s}
      BY <2>1, <2>3
    <3>2. /\ GetQueuePos(w.queue, t) < GetQueuePos(w.queue, u) =>
                 GetQueuePos(v.queue, t) < GetQueuePos(v.queue, u)
          /\ GetQueuePos(w.queue, u) < GetQueuePos(w.queue, t) =>
                 GetQueuePos(v.queue, u) < GetQueuePos(v.queue, t)
      BY <2>1, <3>1 DEF InOrder
    <3>3. /\ t \in ToSet(x.queue) /\ GetQueuePos(v.queue, t) < GetQueuePos(v.queue, u) =>
                 GetQueuePos(x.queue, t) < GetQueuePos(x.queue, u)
          /\ t \notin ToSet(x.queue) => GetQueuePos(v.queue, t) < GetQueuePos(v.queue, u)
      BY <3>1 DEF InOrder
    <3>4. v.queue \in Seq(Sessions) /\ IsInjective(v.queue)
      BY DEF Leaves, Worlds, InStep
    <3>5. /\ GetQueuePos(w.queue, t) \in Nat /\ GetQueuePos(w.queue, u) \in Nat
          /\ GetQueuePos(v.queue, t) \in Nat /\ GetQueuePos(v.queue, u) \in Nat
      BY <1>1, <2>1, <3>1, <3>4, PositionOf
    <3>6. t # u => GetQueuePos(w.queue, t) # GetQueuePos(w.queue, u)
      BY <1>1, <2>1, PositionOf
    <3> QED
      BY <3>2, <3>3, <3>5, <3>6
  <2> QED
    BY <2>2, <2>3
<1> QED
  BY <1>2, <1>3, <1>4, <1>5 DEF Leaves

-----------------------------------------------------------------------------
(* The steps that touch one session or none. *)

\* The fields that the queue depends on.
SameWait(r, u) ==
    r.inQueue = u.inQueue /\ r.initializing = u.initializing /\ r.stage = u.stage
    /\ r.told = u.told

\* The queue stays in step when nothing that it depends on changes.
LEMMA StaysInStep ==
    ASSUME NEW w, NEW x, InStep(w), x.queue = w.queue,
           \A t \in ToSet(w.queue) : SameWait(x.session[t], w.session[t])
    PROVE  InStep(x)
BY DEF InStep, Waits, SameWait

\* No account has another's session, so there are as many accounts as sessions at most.
LEMMA ListedIsFinite ==
    ASSUME TypeOK, ListInv
    PROVE  IsFiniteSet(Listed) /\ Cardinality(Listed) \in Nat
<1> DEFINE f == [a \in Listed |-> m_sessions[a]]
<1>1. \A a \in Listed : m_sessions[a] \in Sessions /\ session[m_sessions[a]].account = a
  BY DEF TypeOK, ListInv, Listed
<1>2. f \in Injection(Listed, Sessions)
  BY <1>1 DEF Injection, IsInjective
<1> QED
  BY <1>2, FS_Injection, FS_CardinalityType, AdmissionAssumption

\* The present queue, sessions and number of sessions are such a value.
LEMMA WorldType ==
    ASSUME TypeOK, ListInv
    PROVE  /\ World \in Worlds /\ World.queue = m_QueuedPlayer /\ World.session = session
           /\ World.size = Cardinality(Listed)
BY ListedIsFinite DEF TypeOK, World, Worlds, SessionType

\* A WorldSession that has been deleted is nowhere any more.
LEMMA DeletedIsFree ==
    ASSUME TypeOK, AddInv, ListInv, QueueInv, NEW s \in Sessions, session[s] = Deleted
    PROVE  s \notin ToSet(addSessQueue) /\ s \notin Waiting /\ \A a \in Accounts : m_sessions[a] # s
<1>1. session[s].account = NoAccount /\ NoAccount \notin Accounts /\ NoSession # s
  BY AdmissionAssumption DEF Deleted
<1>2. s \notin ToSet(addSessQueue)
  BY <1>1 DEF AddInv
<1>3. \A a \in Accounts : m_sessions[a] # s
  BY <1>1 DEF ListInv, Listed
<1>4. s \notin Waiting
  BY <1>1 DEF QueueInv, Listed
<1> QED
  BY <1>2, <1>3, <1>4

\* Members of the two queues are sessions; a waiting one is listed, under its account.
LEMMA Members ==
    ASSUME TypeOK, AddInv, ListInv, QueueInv
    PROVE  /\ ToSet(addSessQueue) \subseteq Sessions /\ Waiting \subseteq Sessions
           /\ \A s \in Waiting : s \notin ToSet(addSessQueue)
           /\ \A a \in Listed : m_sessions[a] \in Sessions /\ m_sessions[a] \notin ToSet(addSessQueue)
           /\ \A a, b \in Listed : m_sessions[a] = m_sessions[b] => a = b
<1>1. ToSet(addSessQueue) \subseteq Sessions /\ Waiting \subseteq Sessions
  BY DEF TypeOK, ToSet, Waiting
<1>2. \A a \in Listed : m_sessions[a] \in Sessions /\ m_sessions[a] \notin ToSet(addSessQueue)
  BY DEF TypeOK, Listed, AddInv
<1>3. \A s \in Waiting : s \notin ToSet(addSessQueue)
  BY <1>2 DEF QueueInv
<1>4. \A a, b \in Listed : m_sessions[a] = m_sessions[b] => a = b
  BY DEF ListInv
<1> QED
  BY <1>1, <1>2, <1>3, <1>4

\* The parts of the invariant that a step keeps when it leaves the lists alone and changes
\* no session in what they depend on, but those that become disconnected.
LEMMA SocketsOnly ==
    ASSUME AdmissionInv, TypeOK',
           UNCHANGED <<addSessQueue, m_sessions, m_QueuedPlayer, m_playerLimit, raised>>,
           todo' \subseteq Listed,
           \A s \in Sessions :
               /\ session'[s].account = session[s].account
               /\ SameWait(session'[s], session[s])
               /\ session'[s].socket = session[s].socket \/ session'[s].socket # "open"
    PROVE  AdmissionInv'
<1> USE DEF AdmissionInv
<1>1. /\ ToSet(addSessQueue) \subseteq Sessions /\ Waiting \subseteq Sessions
      /\ \A a \in Listed : m_sessions[a] \in Sessions
  BY Members
<1>2. Listed' = Listed /\ Waiting' = Waiting /\ Active' = Active
  BY DEF Listed, Waiting, Active
<1>3. AddInv'
  BY <1>1 DEF AddInv, SameWait
<1>4. ListInv'
  BY <1>1, <1>2 DEF ListInv
<1>5. InStep(World')
  <2>1. World.queue = m_QueuedPlayer /\ World.session = session
        /\ World'.queue = m_QueuedPlayer /\ World'.session = session'
    BY DEF World
  <2>2. \A t \in ToSet(World.queue) : SameWait(World'.session[t], World.session[t])
    BY <1>1, <2>1 DEF Waiting
  <2>3. InStep(World)
    BY DEF QueueInv
  <2> QED
    BY <2>1, <2>2, <2>3, StaysInStep
<1>6. \A s \in Waiting' :
          session'[s].account \in Listed' /\ m_sessions'[session'[s].account] = s
  BY <1>1, <1>2 DEF QueueInv
<1>7. \A a \in Active' :
          session'[m_sessions'[a]].socket = "open" /\ session'[m_sessions'[a]].inQueue =>
              session'[m_sessions'[a]].initializing
  BY <1>1, <1>2 DEF QueueInv, Active, SameWait
<1>8. QueueInv'
  BY <1>5, <1>6, <1>7 DEF QueueInv
<1>9. CountInv'
  BY <1>2 DEF CountInv
<1> QED
  BY <1>3, <1>4, <1>8, <1>9

\* The constructor's state has the type of a session.
LEMMA NewTypes ==
    /\ Deleted \in SessionType /\ Deleted.account = NoAccount /\ Deleted.stage = "characters"
    /\ ~Deleted.inQueue /\ ~Deleted.initializing
    /\ \A a \in Accounts :
           /\ Created(a) \in SessionType /\ Created(a).account = a
           /\ Created(a).stage = "characters" /\ ~Created(a).inQueue
           /\ ~Created(a).initializing
<1>1. 0 \in 0..Cardinality(Sessions)
  BY FS_CardinalityType, AdmissionAssumption
<1> QED
  BY <1>1 DEF Deleted, Created, SessionType, Stages

\* Steps that change no session and no list but those to be updated.
LEMMA WorldGoesOn ==
    ASSUME AdmissionInv, StartUpdate \/ AllAdded \/ AllUpdated
    PROVE  AdmissionInv'
<1>1. UNCHANGED <<addSessQueue, m_sessions, m_QueuedPlayer, m_playerLimit, m_disconnects,
                  session, raised>>
  BY DEF StartUpdate, AllAdded, AllUpdated
<1>2. todo' \subseteq Listed /\ todo' \subseteq Accounts
  BY DEF StartUpdate, AllAdded, AllUpdated, AdmissionInv, ListInv, Listed
<1>3. now' \in 0..MaxTime /\ phase' \in {"idle", "add", "update"}
  BY DEF StartUpdate, AllAdded, AllUpdated, AdmissionInv, TypeOK
<1>4. TypeOK'
  BY <1>1, <1>2, <1>3 DEF AdmissionInv, TypeOK
<1> QED
  BY <1>1, <1>2, <1>4, SocketsOnly DEF SameWait

\* A connection drops, or a session is kicked.
LEMMA SocketGoes ==
    ASSUME AdmissionInv, (\E s \in Sessions : CloseSocket(s)) \/ (\E a \in Accounts : KickPlayer(a))
    PROVE  AdmissionInv'
<1>1. PICK s \in Sessions, c \in {"closed", "kicked"} :
          session' = [session EXCEPT ![s].socket = c]
  <2>1. CASE \E s \in Sessions : CloseSocket(s)
    BY <2>1 DEF CloseSocket
  <2>2. CASE \E a \in Accounts : KickPlayer(a)
    <3>1. PICK a \in Listed : KickPlayer(a)
      BY <2>2 DEF KickPlayer
    <3>2. m_sessions[a] \in Sessions
      BY <3>1, Members DEF AdmissionInv
    <3> QED
      BY <3>1, <3>2 DEF KickPlayer
  <2> QED
    BY <2>1, <2>2
<1>2. UNCHANGED <<addSessQueue, m_sessions, m_QueuedPlayer, m_playerLimit, m_disconnects,
                  now, phase, todo, raised>>
  BY DEF CloseSocket, KickPlayer
<1>3. session \in [Sessions -> SessionType]
  BY DEF AdmissionInv, TypeOK, SessionType
<1>4. /\ session' \in [Sessions -> SessionType]
      /\ \A t \in Sessions :
             /\ session'[t].account = session[t].account
             /\ SameWait(session'[t], session[t])
             /\ session'[t].socket = session[t].socket \/ session'[t].socket # "open"
  BY <1>1, <1>3 DEF SessionType, SameWait
<1>5. TypeOK'
  BY <1>2, <1>4 DEF AdmissionInv, TypeOK, SessionType
<1>6. todo' \subseteq Listed
  BY <1>2 DEF AdmissionInv, ListInv
<1> QED
  BY <1>2, <1>4, <1>5, <1>6, SocketsOnly

\* The limit changes.
LEMMA LimitChanges ==
    ASSUME AdmissionInv, NEW limit \in Limits, SetPlayerAmountLimit(limit)
    PROVE  AdmissionInv'
<1> USE DEF AdmissionInv
<1>1. /\ UNCHANGED <<addSessQueue, m_sessions, m_QueuedPlayer, m_disconnects, session, now,
                     phase, todo>>
      /\ m_playerLimit' = limit
      /\ raised' = (m_QueuedPlayer # <<>> /\ (raised \/ limit = 0 \/ limit > m_playerLimit))
  BY DEF SetPlayerAmountLimit
<1>2. TypeOK'
  BY <1>1 DEF TypeOK
<1>3. Listed' = Listed /\ Waiting' = Waiting /\ Active' = Active /\ World'.queue = World.queue
      /\ World'.session = World.session
  BY <1>1 DEF Listed, Waiting, Active, World
<1>4. AddInv' /\ ListInv'
  BY <1>1, <1>3 DEF AddInv, ListInv
<1>5. InStep(World')
  BY <1>3 DEF QueueInv, InStep, Waits
<1>6. QueueInv'
  BY <1>1, <1>3, <1>5 DEF QueueInv
<1>7. CountInv'
  <2>1. /\ m_playerLimit \in Nat /\ limit \in Nat /\ Len(m_QueuedPlayer) \in Nat
        /\ Cardinality(Listed) \in Nat
    BY ListedIsFinite, AdmissionAssumption DEF TypeOK
  <2>2. SUFFICES ASSUME m_QueuedPlayer # <<>>, ~raised'
                 PROVE  limit > 0 /\ Cardinality(Listed) - Len(m_QueuedPlayer) >= limit
    BY <1>1, <1>3 DEF CountInv
  <2>3. ~raised /\ limit # 0 /\ ~(limit > m_playerLimit)
    BY <1>1, <2>2
  <2>4. Cardinality(Listed) - Len(m_QueuedPlayer) >= m_playerLimit
    BY <2>2, <2>3 DEF CountInv
  <2> QED
    BY <2>1, <2>3, <2>4
<1> QED
  BY <1>2, <1>4, <1>6, <1>7

\* Everybody is kicked, and nobody waits any more.
LEMMA EverybodyGoes ==
    ASSUME AdmissionInv, KickAll
    PROVE  AdmissionInv'
<1> USE DEF AdmissionInv
<1>1. /\ UNCHANGED <<addSessQueue, m_sessions, m_playerLimit, m_disconnects, now, phase, todo>>
      /\ m_QueuedPlayer' = <<>> /\ raised' = FALSE
      /\ session' = [s \in Sessions |-> IF s \in {m_sessions[a] : a \in Accounts}
                                        THEN [session[s] EXCEPT !.socket = "kicked"]
                                        ELSE session[s]]
  BY DEF KickAll, BecomesWorld, World
<1>2. session \in [Sessions -> SessionType]
  BY DEF TypeOK, SessionType
<1> DEFINE Kicked(t) == [session[t] EXCEPT !.socket = "kicked"]
<1>3. \A t \in Sessions :
           /\ Kicked(t) \in SessionType /\ Kicked(t).account = session[t].account
           /\ SameWait(Kicked(t), session[t]) /\ Kicked(t).socket = "kicked"
  BY <1>2 DEF SessionType, SameWait
<1>4. \A t \in Sessions : session'[t] = IF t \in {m_sessions[a] : a \in Accounts}
                                      THEN Kicked(t) ELSE session[t]
  BY <1>1
<1> HIDE DEF Kicked
<1>5. session' \in [Sessions -> SessionType]
  BY <1>1, <1>2, <1>3 DEF Kicked
<1>6. \A t \in Sessions : session'[t].account = session[t].account
                         /\ SameWait(session'[t], session[t])
  BY <1>3, <1>4 DEF SameWait
<1>7. /\ session' \in [Sessions -> SessionType]
      /\ \A t \in Sessions : session'[t].account = session[t].account
                             /\ SameWait(session'[t], session[t])
      /\ \A a \in Accounts : m_sessions[a] \in Sessions =>
             session'[m_sessions[a]].socket = "kicked"
  <2>1. ASSUME NEW a \in Accounts, m_sessions[a] \in Sessions
        PROVE  session'[m_sessions[a]].socket = "kicked"
    <3>1. session'[m_sessions[a]] = Kicked(m_sessions[a])
      BY <1>4, <2>1
    <3> QED
      BY <1>3, <2>1, <3>1
  <2> QED
    BY <1>5, <1>6, <2>1
<1>8. TypeOK'
  <2>1. raised' \in BOOLEAN
    BY <1>1
  <2>2. m_QueuedPlayer' \in Seq(Sessions)
    BY <1>1
  <2> QED
    BY <1>1, <1>7, <2>1, <2>2 DEF TypeOK, SessionType
<1>9. /\ Listed' = Listed /\ Waiting' = {}
      /\ ToSet(addSessQueue) \subseteq Sessions
      /\ \A a \in Listed : m_sessions[a] \in Sessions
  BY <1>1, Members DEF Listed, Waiting, ToSet
<1>10. AddInv'
  BY <1>1, <1>7, <1>9 DEF AddInv, SameWait
<1>11. ListInv'
  BY <1>1, <1>7, <1>9 DEF ListInv
<1>12. InStep(World')
  <2>1. World'.queue = <<>>
    BY <1>1 DEF World
  <2>2. ToSet(<<>>) = {} /\ IsInjective(<<>>)
    BY DEF ToSet, IsInjective
  <2> QED
    BY <2>1, <2>2 DEF InStep
<1>13. \A a \in Active' : session'[m_sessions'[a]].socket # "open"
  BY <1>1, <1>7, <1>9 DEF Active, Listed
<1>14. QueueInv'
  BY <1>9, <1>12, <1>13 DEF QueueInv
<1>15. CountInv'
  BY <1>1 DEF CountInv
<1> QED
  BY <1>8, <1>10, <1>11, <1>14, <1>15

\* A network thread hands a new session over.
LEMMA SessionArrives ==
    ASSUME AdmissionInv, NEW a \in Accounts, NEW s \in Sessions, AddSession(a, s)
    PROVE  AdmissionInv'
<1> USE DEF AdmissionInv
<1>1. /\ session[s] = Deleted /\ session' = [session EXCEPT ![s] = Created(a)]
      /\ addSessQueue' = Append(addSessQueue, s)
      /\ UNCHANGED <<m_sessions, m_QueuedPlayer, m_playerLimit, m_disconnects, now, phase,
                     todo, raised>>
  BY DEF AddSession
<1>2. s \notin ToSet(addSessQueue) /\ s \notin Waiting /\ \A b \in Accounts : m_sessions[b] # s
  BY <1>1, DeletedIsFree
<1>3. session \in [Sessions -> SessionType] /\ addSessQueue \in Seq(Sessions)
  BY DEF TypeOK, SessionType
<1>4. /\ session' \in [Sessions -> SessionType] /\ session'[s] = Created(a)
      /\ \A t \in Sessions \ {s} : session'[t] = session[t]
  BY <1>1, <1>3, NewTypes
<1>5. /\ addSessQueue' \in Seq(Sessions) /\ IsInjective(addSessQueue')
      /\ ToSet(addSessQueue') = ToSet(addSessQueue) \cup {s}
  BY <1>1, <1>2, <1>3, PositionsAppended DEF AddInv
<1>6. TypeOK'
  BY <1>1, <1>4, <1>5 DEF TypeOK, SessionType
<1>7. /\ Listed' = Listed /\ Waiting' = Waiting /\ Active' = Active
      /\ ToSet(addSessQueue) \subseteq Sessions /\ Waiting \subseteq Sessions
      /\ \A b \in Listed : m_sessions[b] \in Sessions \ {s}
  BY <1>1, <1>2, Members DEF Listed, Waiting, Active
<1>8. AddInv'
  <2>1. ASSUME NEW t \in ToSet(addSessQueue')
        PROVE  /\ session'[t].account \in Accounts /\ session'[t].stage = "characters"
               /\ ~session'[t].inQueue /\ ~session'[t].initializing
               /\ \A b \in Accounts : m_sessions'[b] # t
    <3>1. CASE t = s
      BY <1>1, <1>2, <1>4, <3>1, NewTypes
    <3>2. CASE t # s
      BY <1>1, <1>4, <1>5, <1>7, <3>2 DEF AddInv
    <3> QED
      BY <3>1, <3>2
  <2> QED
    BY <1>5, <2>1 DEF AddInv
<1>9. ListInv'
  BY <1>1, <1>4, <1>7 DEF ListInv
<1>10. InStep(World')
  <2>1. /\ World.queue = m_QueuedPlayer /\ World.session = session
        /\ World'.queue = m_QueuedPlayer /\ World'.session = session'
    BY <1>1 DEF World
  <2>2. \A t \in ToSet(World.queue) : SameWait(World'.session[t], World.session[t])
    BY <1>2, <1>4, <1>7, <2>1 DEF Waiting, SameWait
  <2> QED
    BY <2>1, <2>2, StaysInStep DEF QueueInv
<1>11. QueueInv'
  <2>1. \A t \in Waiting' : session'[t] = session[t]
    BY <1>2, <1>4, <1>7
  <2>2. \A b \in Active' : session'[m_sessions'[b]] = session[m_sessions[b]]
    BY <1>1, <1>4, <1>7 DEF Active
  <2> QED
    BY <1>1, <1>7, <1>10, <2>1, <2>2 DEF QueueInv
<1>12. CountInv'
  BY <1>1, <1>7 DEF CountInv
<1> QED
  BY <1>6, <1>8, <1>9, <1>11, <1>12

\* The first of the sessions handed over is taken up.
LEMMA HeadOfAdded ==
    ASSUME AdmissionInv, addSessQueue # <<>>
    PROVE  LET s == Head(addSessQueue) IN
           /\ s \in Sessions /\ s \in ToSet(addSessQueue) /\ s \notin Waiting
           /\ session[s].account \in Accounts
           /\ \A b \in Accounts : m_sessions[b] # s
           /\ Tail(addSessQueue) \in Seq(Sessions) /\ IsInjective(Tail(addSessQueue))
           /\ ToSet(Tail(addSessQueue)) = ToSet(addSessQueue) \ {s}
<1> USE DEF AdmissionInv
<1> DEFINE s == Head(addSessQueue)
<1>1. addSessQueue \in Seq(Sessions) /\ IsInjective(addSessQueue)
  BY DEF TypeOK, AddInv
<1>2. /\ Tail(addSessQueue) \in Seq(Sessions)
      /\ Shortened(addSessQueue, 1, Tail(addSessQueue))
      /\ s = addSessQueue[1] /\ 1 \in 1..Len(addSessQueue)
  BY <1>1, TailShortens
<1>3. /\ IsInjective(Tail(addSessQueue))
      /\ ToSet(Tail(addSessQueue)) = ToSet(addSessQueue) \ {s}
  <2> DEFINE r == Tail(addSessQueue)
  <2>1. r \in Seq(Sessions) /\ Shortened(addSessQueue, 1, r)
    BY <1>2
  <2> HIDE DEF r
  <2>2. IsInjective(r) /\ ToSet(r) = ToSet(addSessQueue) \ {addSessQueue[1]}
    BY <1>1, <1>2, <2>1, PositionsShortened
  <2> QED
    BY <1>2, <2>2 DEF r
<1>4. s \in ToSet(addSessQueue)
  BY <1>1, <1>2, PositionOf
<1>5. s \in Sessions /\ s \notin Waiting
  BY <1>4, Members
<1>6. session[s].account \in Accounts /\ \A b \in Accounts : m_sessions[b] # s
  BY <1>4 DEF AddInv
<1> QED
  BY <1>2, <1>3, <1>4, <1>5, <1>6

\* A newcomer is turned away and deleted.
LEMMA SessionIsRejected ==
    ASSUME AdmissionInv, RejectSession
    PROVE  AdmissionInv'
<1> USE DEF AdmissionInv
<1> DEFINE s == Head(addSessQueue)
<1>1. /\ addSessQueue # <<>> /\ addSessQueue' = Tail(addSessQueue)
      /\ session' = [session EXCEPT ![s] = Deleted]
      /\ UNCHANGED <<m_sessions, m_QueuedPlayer, m_playerLimit, m_disconnects, now, phase,
                     todo, raised>>
  BY DEF RejectSession
<1>2. /\ s \in Sessions /\ s \notin Waiting /\ \A b \in Accounts : m_sessions[b] # s
      /\ addSessQueue' \in Seq(Sessions) /\ IsInjective(addSessQueue')
      /\ ToSet(addSessQueue') = ToSet(addSessQueue) \ {s}
  BY <1>1, HeadOfAdded
<1> HIDE DEF s
<1>3. session \in [Sessions -> SessionType]
  BY DEF TypeOK, SessionType
<1>4. /\ session' \in [Sessions -> SessionType]
      /\ \A t \in Sessions \ {s} : session'[t] = session[t]
  BY <1>1, <1>3, NewTypes
<1>5. TypeOK'
  BY <1>1, <1>2, <1>4 DEF TypeOK, SessionType
<1>6. /\ Listed' = Listed /\ Waiting' = Waiting /\ Active' = Active
      /\ ToSet(addSessQueue) \subseteq Sessions /\ Waiting \subseteq Sessions \ {s}
      /\ \A b \in Listed : m_sessions[b] \in Sessions \ {s}
  BY <1>1, <1>2, Members DEF Listed, Waiting, Active
<1>7. AddInv'
  BY <1>1, <1>2, <1>4, <1>6 DEF AddInv
<1>8. ListInv'
  BY <1>1, <1>4, <1>6 DEF ListInv
<1>9. InStep(World')
  <2>1. /\ World.queue = m_QueuedPlayer /\ World.session = session
        /\ World'.queue = m_QueuedPlayer /\ World'.session = session'
    BY <1>1 DEF World
  <2>2. \A t \in ToSet(World.queue) : SameWait(World'.session[t], World.session[t])
    BY <1>4, <1>6, <2>1 DEF Waiting, SameWait
  <2> QED
    BY <2>1, <2>2, StaysInStep DEF QueueInv
<1>10. QueueInv'
  <2>1. \A t \in Waiting' : session'[t] = session[t]
    BY <1>4, <1>6
  <2>2. \A b \in Active' : session'[m_sessions'[b]] = session[m_sessions[b]]
    BY <1>1, <1>4, <1>6 DEF Active
  <2> QED
    BY <1>1, <1>6, <1>9, <2>1, <2>2 DEF QueueInv
<1>11. CountInv'
  BY <1>1, <1>6 DEF CountInv
<1> QED
  BY <1>5, <1>7, <1>8, <1>10, <1>11

-----------------------------------------------------------------------------
(* Sessions come and go. *)

\* What is left of a value when a has no session in it: the queue and the other accounts
\* are in order.
Rest(w, a) ==
    /\ w \in Worlds /\ InStep(w)
    /\ ToSet(w.queue) \subseteq {m_sessions[b] : b \in Listed \ {a}}
    /\ \A t \in ToSet(addSessQueue) : w.session[t] = session[t]
    /\ \A b \in Listed \ {a} :
           /\ w.session[m_sessions[b]].account = b
           /\ m_sessions[b] \notin ToSet(w.queue) /\ w.session[m_sessions[b]].socket = "open"
              /\ w.session[m_sessions[b]].inQueue => w.session[m_sessions[b]].initializing

\* It is so when a has none.
LEMMA RestOfWorld ==
    ASSUME AdmissionInv, NEW a \in Accounts \ Listed
    PROVE  Rest(World, a)
<1> USE DEF AdmissionInv
<1>1. World \in Worlds /\ World.queue = m_QueuedPlayer /\ World.session = session
  BY WorldType
<1>2. ToSet(World.queue) \subseteq {m_sessions[b] : b \in Listed \ {a}}
  BY <1>1 DEF QueueInv, Waiting
<1>3. ASSUME NEW b \in Listed \ {a}
      PROVE  /\ session[m_sessions[b]].account = b
             /\ m_sessions[b] \notin ToSet(m_QueuedPlayer)
                /\ session[m_sessions[b]].socket = "open"
                /\ session[m_sessions[b]].inQueue => session[m_sessions[b]].initializing
  BY DEF QueueInv, ListInv, Active, Waiting
<1>4. InStep(World)
  BY DEF QueueInv
<1> QED
  BY <1>1, <1>2, <1>3, <1>4 DEF Rest

\* It is so when a's session has left the queue and is deleted.
LEMMA RestOfDeparture ==
    ASSUME AdmissionInv, NEW a \in Listed, NEW w \in Worlds, InStep(w),
           w.queue = m_QueuedPlayer,
           \A t \in Sessions \ {m_sessions[a]} : w.session[t] = session[t],
           NEW v, Leaves(v, w, m_sessions[a])
    PROVE  LET d == Delete(v, m_sessions[a]) IN
           /\ Rest(d, a) /\ d.queue = v.queue /\ d.size = w.size
           /\ \A t \in Sessions \ {m_sessions[a]} : d.session[t] = v.session[t]
           /\ d.session[m_sessions[a]] = Deleted
<1> USE DEF AdmissionInv
<1> DEFINE s == m_sessions[a]
           d == Delete(v, s)
<1>1. /\ s \in Sessions /\ Waiting \subseteq Sessions
      /\ \A t \in Waiting : t \notin ToSet(addSessQueue)
      /\ \A b \in Listed : m_sessions[b] \in Sessions /\ m_sessions[b] \notin ToSet(addSessQueue)
      /\ \A b \in Listed : b # a => m_sessions[b] # s
      /\ ToSet(addSessQueue) \subseteq Sessions
  BY Members
<1> HIDE DEF s
<1>2. /\ v \in Worlds /\ v.size = w.size /\ InStep(v) /\ ToSet(v.queue) \subseteq Waiting \ {s}
      /\ \A t \in Sessions : Same(v.session[t], w.session[t])
      /\ \A t \in Sessions : t # s => v.session[t].inQueue = w.session[t].inQueue
      /\ \A t \in Sessions : v.session[t].initializing <=>
             w.session[t].initializing \/ t \in Waiting \ (ToSet(v.queue) \cup {s})
      /\ \A t \in Sessions : t \notin Waiting => v.session[t] = w.session[t]
  BY DEF Leaves, Waiting, s
<1>3. v.session \in [Sessions -> SessionType]
  BY <1>2 DEF Worlds
<1> DEFINE new == [v.session EXCEPT ![s] = Deleted]
<1>4. new \in [Sessions -> SessionType]
  BY <1>3, NewTypes
<1>5. d = [v EXCEPT !.session = new]
  BY <1>2 DEF Delete, Worlds
<1>6. d \in Worlds /\ d.queue = v.queue /\ d.size = w.size /\ d.session = new
  BY <1>2, <1>4, <1>5 DEF Worlds
<1>7. d.session[s] = Deleted /\ \A t \in Sessions \ {s} : d.session[t] = v.session[t]
  BY <1>1, <1>3, <1>6
<1> HIDE DEF d, new
<1>8. InStep(d)
  <2>1. \A t \in ToSet(v.queue) : d.session[t] = v.session[t]
    BY <1>1, <1>2, <1>7
  <2> QED
    BY <1>2, <1>6, <2>1, StaysInStep DEF SameWait
<1>9. ToSet(d.queue) \subseteq {m_sessions[b] : b \in Listed \ {a}}
  <2>1. \A t \in Waiting : \E b \in Listed : m_sessions[b] = t
    BY DEF QueueInv
  <2> QED
    BY <1>2, <1>6, <2>1 DEF s
<1>10. \A t \in ToSet(addSessQueue) : d.session[t] = session[t]
  <2> SUFFICES ASSUME NEW t \in ToSet(addSessQueue) PROVE d.session[t] = session[t]
    OBVIOUS
  <2>1. t \in Sessions /\ t # s /\ t \notin Waiting
    BY <1>1 DEF s
  <2> QED
    BY <1>2, <1>7, <2>1 DEF s
<1>11. ASSUME NEW b \in Listed \ {a}
       PROVE  /\ d.session[m_sessions[b]].account = b
              /\ m_sessions[b] \notin ToSet(d.queue) /\ d.session[m_sessions[b]].socket = "open"
                 /\ d.session[m_sessions[b]].inQueue => d.session[m_sessions[b]].initializing
  <2>1. PICK t \in Sessions : t = m_sessions[b]
    BY <1>1
  <2>2. t # s /\ w.session[t] = session[t] /\ d.session[t] = v.session[t]
    BY <1>1, <1>7, <2>1 DEF s
  <2>3. d.session[t].account = b
    <3>1. session[t].account = b
      BY <2>1 DEF ListInv
    <3> QED
      BY <1>2, <2>2, <3>1 DEF Same
  <2>4. ASSUME t \notin ToSet(d.queue), d.session[t].socket = "open", d.session[t].inQueue
        PROVE  d.session[t].initializing
    <3>1. CASE t \in Waiting
      BY <1>2, <1>6, <2>2, <2>4, <3>1
    <3>2. CASE t \notin Waiting
      <4>1. v.session[t] = session[t]
        BY <1>2, <2>2, <3>2
      <4>2. b \in Active
        BY <2>1, <3>2 DEF Active
      <4>3. session[t].initializing
        BY <2>1, <2>2, <2>4, <4>1, <4>2 DEF QueueInv
      <4> QED
        BY <2>2, <4>1, <4>3
    <3> QED
      BY <3>1, <3>2
  <2> QED
    BY <2>1, <2>3, <2>4
<1>12. Rest(d, a)
  BY <1>6, <1>8, <1>9, <1>10, <1>11 DEF Rest
<1> QED
  BY <1>6, <1>7, <1>12 DEF d, s

\* A session's update: who waits goes on waiting, and only the callback ends a wait.
LEMMA UpdatedFacts ==
    ASSUME NEW u \in SessionType, NEW r \in Updated(u)
    PROVE  /\ r \in SessionType /\ r.account = u.account /\ r.socket = u.socket
           /\ \/ r.inQueue = u.inQueue /\ r.initializing = u.initializing /\ r.told = u.told
              \/ ~r.inQueue /\ ~r.initializing /\ u.initializing
           /\ (u.inQueue /\ ~u.initializing /\ u.stage = "characters") => SameWait(r, u)
<1> DEFINE stages == CASE u.stage = "world" -> {"world", "characters"}
                       [] u.stage = "characters" /\ u.inQueue -> {"characters"}
                       [] OTHER -> Stages
           On(st) == [u EXCEPT !.stage = st]
           In(st) == [On(st) EXCEPT !.initializing = FALSE, !.inQueue = FALSE, !.told = 0]
<1>1. stages \subseteq Stages
  BY DEF Stages
<1>2. u.stage = "characters" /\ u.inQueue => stages = {"characters"}
  OBVIOUS
<1>3. \E st \in stages : r = On(st) \/ (u.initializing /\ r = In(st))
  <2> DEFINE goesOn == {On(st) : st \in stages}
             letIn == {[x EXCEPT !.initializing = FALSE, !.inQueue = FALSE, !.told = 0] :
                           x \in goesOn}
  <2>1. Updated(u) = goesOn \cup (IF u.initializing THEN letIn ELSE {})
    BY DEF Updated
  <2>2. ASSUME NEW x \in letIn
        PROVE  \E st \in stages : x = In(st)
    <3>1. PICK y \in goesOn :
              x = [y EXCEPT !.initializing = FALSE, !.inQueue = FALSE, !.told = 0]
      BY <2>2
    <3>2. PICK st \in stages : y = On(st)
      OBVIOUS
    <3>3. x = In(st)
      BY <3>1, <3>2
    <3> QED
      BY <3>3
  <2>3. \A x \in goesOn : \E st \in stages : x = On(st)
    OBVIOUS
  <2> HIDE DEF goesOn, letIn, stages, On, In
  <2> QED
    BY <2>1, <2>2, <2>3
<1>4. PICK st \in stages : r = On(st) \/ (u.initializing /\ r = In(st))
  BY <1>3
<1> HIDE DEF stages
<1>5. 0 \in 0..Cardinality(Sessions) /\ st \in Stages
  BY <1>1, FS_CardinalityType, AdmissionAssumption
<1>6. /\ On(st) \in SessionType /\ On(st).account = u.account /\ On(st).socket = u.socket
      /\ On(st).stage = st /\ On(st).inQueue = u.inQueue
      /\ On(st).initializing = u.initializing /\ On(st).told = u.told
  BY <1>5 DEF SessionType
<1>7. /\ In(st) \in SessionType /\ In(st).account = u.account /\ In(st).socket = u.socket
      /\ ~In(st).inQueue /\ ~In(st).initializing
  BY <1>5 DEF SessionType
<1> HIDE DEF On, In
<1>8. CASE r = On(st)
  <2>1. (u.inQueue /\ ~u.initializing /\ u.stage = "characters") => st = u.stage
    BY <1>2
  <2> QED
    BY <1>6, <1>8, <2>1 DEF SameWait
<1>9. CASE u.initializing /\ r = In(st)
  BY <1>7, <1>9
<1> QED
  BY <1>4, <1>8, <1>9

\* The value that UpdateSession starts from.
LEMMA UpdatedWorld ==
    ASSUME AdmissionInv, NEW a \in Listed, NEW r \in Updated(session[m_sessions[a]])
    PROVE  LET w == [World EXCEPT !.session[m_sessions[a]] = r] IN
           /\ w \in Worlds /\ InStep(w) /\ w.queue = m_QueuedPlayer
           /\ w.size = Cardinality(Listed)
           /\ w.session[m_sessions[a]] = r
           /\ \A t \in Sessions \ {m_sessions[a]} : w.session[t] = session[t]
           /\ m_sessions[a] \in Sessions /\ r \in SessionType
<1> USE DEF AdmissionInv
<1>1. PICK s \in Sessions : s = m_sessions[a]
  BY Members
<1> DEFINE w == [World EXCEPT !.session[s] = r]
           new == [session EXCEPT ![s] = r]
<1>2. session \in [Sessions -> SessionType] /\ session[s] \in SessionType
  BY DEF TypeOK, SessionType
<1>3. /\ r \in SessionType
      /\ session[s].inQueue /\ ~session[s].initializing /\ session[s].stage = "characters" =>
             SameWait(r, session[s])
  BY <1>1, <1>2, UpdatedFacts
<1>4. /\ World \in Worlds /\ World.queue = m_QueuedPlayer /\ World.session = session
      /\ World.size = Cardinality(Listed)
  BY WorldType
<1>5. new \in [Sessions -> SessionType] /\ new[s] = r
      /\ \A t \in Sessions \ {s} : new[t] = session[t]
  BY <1>2, <1>3
<1>6. w = [World EXCEPT !.session = new]
  BY <1>4 DEF Worlds
<1>7. w \in Worlds /\ w.queue = World.queue /\ w.size = World.size /\ w.session = new
  BY <1>4, <1>5, <1>6 DEF Worlds
<1> HIDE DEF w, new
<1>8. InStep(w)
  <2>1. InStep(World) /\ Waiting \subseteq Sessions
    BY Members DEF QueueInv
  <2>2. ASSUME NEW t \in ToSet(World.queue)
        PROVE  SameWait(w.session[t], World.session[t])
    <3>1. t \in Sessions /\ Waits(World, t)
      BY <1>4, <2>1 DEF InStep, Waiting
    <3>2. CASE t = s
      BY <1>3, <1>4, <1>5, <1>7, <3>1, <3>2 DEF Waits
    <3>3. CASE t # s
      BY <1>4, <1>5, <1>7, <3>1, <3>3 DEF SameWait
    <3> QED
      BY <3>2, <3>3
  <2> QED
    BY <1>7, <2>1, <2>2, StaysInStep
<1> QED
  BY <1>1, <1>3, <1>4, <1>5, <1>7, <1>8 DEF w

\* The dead session is deleted: what remains is in order.
LEMMA RestIsKept ==
    ASSUME AdmissionInv, NEW a \in Listed, NEW d, Rest(d, a),
           m_QueuedPlayer' = d.queue, session' = d.session,
           addSessQueue' = addSessQueue, m_sessions' = [m_sessions EXCEPT ![a] = NoSession],
           todo' = todo \ {a}
    PROVE  AddInv' /\ ListInv' /\ QueueInv' /\ Listed' = Listed \ {a}
<1> USE DEF AdmissionInv
<1>1. /\ ToSet(addSessQueue) \subseteq Sessions /\ a \in Accounts
      /\ \A b \in Listed : m_sessions[b] \in Sessions
      /\ \A t \in ToSet(addSessQueue) : t # NoSession
  BY Members, AdmissionAssumption DEF Listed
<1>2. m_sessions \in [Accounts -> Sessions \cup {NoSession}]
  BY DEF TypeOK
<1>3. /\ m_sessions'[a] = NoSession
      /\ \A b \in Accounts \ {a} : m_sessions'[b] = m_sessions[b]
  BY <1>1, <1>2
<1>4. Listed' = Listed \ {a}
  BY <1>1, <1>3 DEF Listed
<1>5. AddInv'
  <2>1. \A t \in ToSet(addSessQueue) : session'[t] = session[t]
    BY DEF Rest
  <2>2. \A t \in ToSet(addSessQueue) : \A b \in Accounts : m_sessions'[b] # t
    BY <1>1, <1>3 DEF AddInv
  <2> QED
    BY <2>1, <2>2 DEF AddInv
<1>6. ListInv'
  <2>1. \A b \in Listed' : session'[m_sessions'[b]].account = b
    BY <1>3, <1>4 DEF Rest, Listed
  <2> QED
    BY <1>4, <2>1 DEF ListInv
<1>7. InStep(World')
  <2>1. World'.queue = d.queue /\ World'.session = d.session /\ InStep(d)
    BY DEF World, Rest
  <2> QED
    BY <2>1, StaysInStep DEF SameWait
<1>8. \A s \in Waiting' : session'[s].account \in Listed' /\ m_sessions'[session'[s].account] = s
  <2> SUFFICES ASSUME NEW s \in Waiting'
               PROVE  session'[s].account \in Listed' /\ m_sessions'[session'[s].account] = s
    OBVIOUS
  <2>1. PICK b \in Listed \ {a} : m_sessions[b] = s
    BY DEF Waiting, Rest
  <2>2. session'[s].account = b /\ m_sessions'[b] = s
    BY <1>3, <2>1 DEF Rest, Listed
  <2> QED
    BY <1>4, <2>1, <2>2
<1>9. ASSUME NEW b \in Active'
      PROVE  session'[m_sessions'[b]].socket = "open" /\ session'[m_sessions'[b]].inQueue =>
                 session'[m_sessions'[b]].initializing
  <2>1. b \in Listed \ {a} /\ m_sessions'[b] = m_sessions[b] /\ m_sessions[b] \notin ToSet(d.queue)
    BY <1>3, <1>4, <1>9 DEF Active, Waiting, Listed
  <2> QED
    BY <2>1 DEF Rest
<1>10. QueueInv'
  BY <1>7, <1>8, <1>9 DEF QueueInv
<1> QED
  BY <1>4, <1>5, <1>6, <1>10

\* A slot that becomes free while every slot was taken is taken again.
LEMMA SlotIsPassedOn ==
    ASSUME NEW w \in Worlds, InStep(w), NEW s \in Sessions,
           m_playerLimit \in Nat \ {0}, w.queue # <<>>,
           w.size - Len(w.queue) >= m_playerLimit
    PROVE  /\ w.size - 1 - Len(RemoveQueuedPlayer(w, s).queue) >= m_playerLimit
           /\ s \in ToSet(w.queue) =>
                  Len(RemoveQueuedPlayer(w, s).queue) = Len(w.queue) - 1
<1> DEFINE v == RemoveQueuedPlayer(w, s)
<1>1. /\ Len(v.queue) =
             IF (m_playerLimit = 0 \/ Remaining(w, s) < m_playerLimit) /\ Others(w, s) > 0
             THEN Others(w, s) - 1 ELSE Others(w, s)
  BY LeavesQueue
<1> HIDE DEF v
<1>2. w.queue \in Seq(Sessions) /\ w.size \in Nat
  BY DEF Worlds
<1>3. Len(w.queue) \in Nat /\ Len(w.queue) > 0 /\ GetActiveSessionCount(w) = w.size - Len(w.queue)
  BY <1>2 DEF GetActiveSessionCount
<1>4. GetActiveSessionCount(w) > 0 /\ m_playerLimit # 0
  BY <1>2, <1>3
<1>5. CASE s \in ToSet(w.queue)
  <2>1. Remaining(w, s) = w.size - Len(w.queue) /\ Others(w, s) = Len(w.queue) - 1
    BY <1>3, <1>5 DEF Remaining, Others
  <2>2. Len(v.queue) = Len(w.queue) - 1
    BY <1>1, <1>2, <1>3, <1>4, <2>1
  <2> QED
    BY <1>2, <1>3, <2>2 DEF v
<1>6. CASE s \notin ToSet(w.queue)
  <2>1. Remaining(w, s) = w.size - Len(w.queue) - 1 /\ Others(w, s) = Len(w.queue)
    BY <1>3, <1>4, <1>6 DEF Remaining, Others
  <2> QED
    BY <1>1, <1>2, <1>3, <1>4, <1>6, <2>1 DEF v
<1> QED
  BY <1>5, <1>6

\* A second removal then lets nobody in.
LEMMA NobodyElse ==
    ASSUME NEW v \in Worlds, InStep(v), NEW s \in Sessions, s \notin ToSet(v.queue),
           m_playerLimit \in Nat \ {0}, v.size - 1 - Len(v.queue) >= m_playerLimit
    PROVE  Len(RemoveQueuedPlayer(v, s).queue) = Len(v.queue)
<1>1. Len(RemoveQueuedPlayer(v, s).queue) =
          IF (m_playerLimit = 0 \/ Remaining(v, s) < m_playerLimit) /\ Others(v, s) > 0
          THEN Others(v, s) - 1 ELSE Others(v, s)
  BY LeavesQueue
<1>2. Len(v.queue) \in Nat /\ v.size \in Nat
  BY DEF Worlds
<1>3. Remaining(v, s) = v.size - Len(v.queue) - 1 /\ Others(v, s) = Len(v.queue)
  BY <1>2 DEF Remaining, Others, GetActiveSessionCount
<1> QED
  BY <1>1, <1>2, <1>3

\* The two outcomes of a session's update: it stays, or it leaves the queue, twice, and is
\* deleted.
LEMMA UpdateCases ==
    ASSUME AdmissionInv, NEW a \in Accounts, UpdateSession(a)
    PROVE  /\ a \in Listed /\ todo' = todo \ {a}
           /\ UNCHANGED <<addSessQueue, m_playerLimit, now, phase>>
           /\ \E r \in Updated(session[m_sessions[a]]) :
                  LET s == m_sessions[a]
                      w == [World EXCEPT !.session[s] = r]
                      once == RemoveQueuedPlayer(w, s)
                      d == Delete(RemoveQueuedPlayer(once, s), s)
                  IN  \/ /\ MayStay(r) /\ BecomesWorld(w)
                         /\ UNCHANGED <<m_sessions, m_disconnects>>
                      \/ /\ BecomesWorld(d)
                         /\ m_sessions' = [m_sessions EXCEPT ![a] = NoSession]
                         /\ m_disconnects' \in {m_disconnects, [m_disconnects EXCEPT ![a] = now]}
<1>1. a \in Listed
  BY DEF UpdateSession, AdmissionInv, ListInv
<1> QED
  BY <1>1 DEF UpdateSession

\* The update of a session.
LEMMA SessionIsUpdated ==
    ASSUME AdmissionInv, NEW a \in Accounts, UpdateSession(a)
    PROVE  AdmissionInv'
<1> USE DEF AdmissionInv
<1>1. /\ a \in Listed /\ todo' = todo \ {a}
      /\ UNCHANGED <<addSessQueue, m_playerLimit, now, phase>>
  BY UpdateCases
<1>2. PICK s \in Sessions : s = m_sessions[a]
  BY <1>1, Members
<1>3. PICK r \in Updated(session[s]) :
          LET w == [World EXCEPT !.session[s] = r]
              once == RemoveQueuedPlayer(w, s)
              d == Delete(RemoveQueuedPlayer(once, s), s)
          IN  \/ /\ MayStay(r) /\ BecomesWorld(w)
                 /\ UNCHANGED <<m_sessions, m_disconnects>>
              \/ /\ BecomesWorld(d)
                 /\ m_sessions' = [m_sessions EXCEPT ![a] = NoSession]
                 /\ m_disconnects' \in {m_disconnects, [m_disconnects EXCEPT ![a] = now]}
  BY <1>2, UpdateCases
<1> DEFINE w == [World EXCEPT !.session[s] = r]
           once == RemoveQueuedPlayer(w, s)
           twice == RemoveQueuedPlayer(once, s)
           d == Delete(twice, s)
<1>4. /\ w \in Worlds /\ InStep(w) /\ w.queue = m_QueuedPlayer /\ w.size = Cardinality(Listed)
      /\ w.session[s] = r /\ \A t \in Sessions \ {s} : w.session[t] = session[t]
      /\ r \in SessionType
  BY <1>1, <1>2, UpdatedWorld
<1>5. session \in [Sessions -> SessionType]
  BY DEF TypeOK, SessionType
<1>6. CASE BecomesWorld(w) /\ UNCHANGED <<m_sessions, m_disconnects>>
  <2> HIDE DEF w
  <2>1. /\ m_QueuedPlayer' = m_QueuedPlayer /\ session' = w.session
        /\ raised' = (raised /\ m_QueuedPlayer # <<>>)
        /\ UNCHANGED <<m_sessions, m_disconnects>>
    BY <1>4, <1>6 DEF BecomesWorld
  <2>2. raised' \in BOOLEAN
    BY <2>1
  <2>3. session' \in [Sessions -> SessionType]
    BY <1>4, <2>1 DEF Worlds
  <2>4. TypeOK'
    BY <1>1, <2>1, <2>2, <2>3 DEF TypeOK, SessionType
  <2>5. Listed' = Listed /\ Waiting' = Waiting /\ Active' = Active /\ Waiting \subseteq Sessions
        /\ ToSet(addSessQueue) \subseteq Sessions \ {s}
        /\ \A b \in Listed : m_sessions[b] \in Sessions /\ (b # a => m_sessions[b] # s)
    BY <1>1, <1>2, <2>1, Members DEF Listed, Waiting, Active
  <2>6. r.account = session[s].account /\ r.socket = session[s].socket
        /\ \/ r.inQueue = session[s].inQueue /\ r.initializing = session[s].initializing
           \/ ~r.inQueue
    BY <1>5, UpdatedFacts
  <2>7. \A t \in Sessions : session'[t].account = session[t].account
    BY <1>4, <2>1, <2>6
  <2>8. AddInv'
    BY <1>1, <1>4, <2>1, <2>5 DEF AddInv
  <2>9. ListInv'
    BY <1>1, <2>1, <2>5, <2>7 DEF ListInv
  <2>10. InStep(World')
    <3>1. World'.queue = w.queue /\ World'.session = w.session
      BY <1>4, <2>1 DEF World
    <3> QED
      BY <1>4, <3>1, StaysInStep DEF SameWait
  <2>11. \A t \in Waiting' :
             session'[t].account \in Listed' /\ m_sessions'[session'[t].account] = t
    BY <2>1, <2>5, <2>7 DEF QueueInv
  <2>12. ASSUME NEW b \in Active'
         PROVE  session'[m_sessions'[b]].socket = "open" /\ session'[m_sessions'[b]].inQueue =>
                    session'[m_sessions'[b]].initializing
    <3>1. b \in Active /\ b \in Listed /\ m_sessions'[b] = m_sessions[b]
      BY <2>1, <2>5, <2>12 DEF Active
    <3>2. CASE b = a
      BY <1>2, <1>4, <2>1, <2>6, <3>1, <3>2 DEF QueueInv
    <3>3. CASE b # a
      BY <1>4, <2>1, <2>5, <3>1, <3>3 DEF QueueInv
    <3> QED
      BY <3>2, <3>3
  <2>13. QueueInv'
    BY <2>10, <2>11, <2>12 DEF QueueInv
  <2>14. CountInv'
    BY <1>1, <2>1, <2>5 DEF CountInv
  <2> QED
    BY <2>4, <2>8, <2>9, <2>13, <2>14
<1>7. CASE /\ BecomesWorld(d)
           /\ m_sessions' = [m_sessions EXCEPT ![a] = NoSession]
           /\ m_disconnects' \in {m_disconnects, [m_disconnects EXCEPT ![a] = now]}
  <2> HIDE DEF w
  <2>1. Leaves(once, w, s) /\ InOrder(once, w, s)
    BY <1>4, LeavesQueue
  <2>2. once \in Worlds /\ InStep(once) /\ once.size = w.size /\ s \notin ToSet(once.queue)
        /\ ToSet(once.queue) \subseteq ToSet(w.queue)
    BY <2>1 DEF Leaves
  <2> HIDE DEF once
  <2>3. Leaves(twice, once, s) /\ InOrder(twice, once, s)
    BY <2>2, LeavesQueue
  <2>4. Leaves(twice, w, s)
    BY <1>4, <2>1, <2>3, LeavesTwice
  <2>5. /\ Rest(d, a) /\ d.queue = twice.queue /\ d.size = w.size
        /\ twice \in Worlds
    <3>1. twice \in Worlds
      BY <2>4 DEF Leaves
    <3> HIDE DEF twice
    <3> QED
      BY <1>1, <1>2, <1>4, <2>4, <3>1, RestOfDeparture
  <2> HIDE DEF d, twice
  <2>6. m_QueuedPlayer' = d.queue /\ session' = d.session /\ raised' = (raised /\ d.queue # <<>>)
    BY <1>7 DEF BecomesWorld
  <2>7. AddInv' /\ ListInv' /\ QueueInv' /\ Listed' = Listed \ {a}
    BY <1>1, <1>7, <2>5, <2>6, RestIsKept
  <2>8. TypeOK'
    <3>1. d.queue \in Seq(Sessions) /\ d.session \in [Sessions -> SessionType]
      BY <2>5 DEF Rest, Worlds
    <3>2. m_disconnects' \in [Accounts -> 0..MaxTime \cup {Never}]
      BY <1>7 DEF TypeOK
    <3>3. m_sessions' \in [Accounts -> Sessions \cup {NoSession}]
      BY <1>7 DEF TypeOK
    <3>4. raised' \in BOOLEAN
      BY <2>6
    <3> QED
      BY <1>1, <2>6, <3>1, <3>2, <3>3, <3>4 DEF TypeOK, SessionType
  <2>9. CountInv'
    <3> SUFFICES ASSUME m_QueuedPlayer' # <<>>, ~raised'
                 PROVE  /\ m_playerLimit > 0
                        /\ Cardinality(Listed') - Len(m_QueuedPlayer') >= m_playerLimit
      BY <1>1 DEF CountInv
    <3>1. ~raised /\ d.queue # <<>>
      BY <2>6
    <3>2. m_QueuedPlayer # <<>>
      <4>1. d.queue \in Seq(Sessions) /\ ToSet(d.queue) \subseteq ToSet(m_QueuedPlayer)
        BY <1>4, <2>4, <2>5 DEF Rest, Worlds, Leaves
      <4>2. ToSet(d.queue) # {}
        BY <3>1, <4>1, SomebodyIsIn
      <4>3. m_QueuedPlayer \in Seq(Sessions) /\ ToSet(m_QueuedPlayer) # {}
        BY <4>1, <4>2 DEF TypeOK
      <4> QED
        BY <4>3, SomebodyIsIn
    <3>3. m_playerLimit > 0 /\ Cardinality(Listed) - Len(m_QueuedPlayer) >= m_playerLimit
      BY <3>1, <3>2 DEF CountInv
    <3>4. m_playerLimit \in Nat \ {0}
      BY <3>3, AdmissionAssumption DEF TypeOK
    <3>5. w.size - 1 - Len(once.queue) >= m_playerLimit
      BY <1>4, <3>2, <3>3, <3>4, SlotIsPassedOn DEF once
    <3>6. Len(twice.queue) = Len(once.queue)
      BY <2>2, <3>4, <3>5, NobodyElse DEF twice
    <3>7. Cardinality(Listed') = Cardinality(Listed) - 1
      BY <1>1, <2>7, ListedIsFinite, FS_RemoveElement
    <3>8. Len(once.queue) \in Nat /\ Cardinality(Listed) \in Nat
      BY <2>2, ListedIsFinite DEF Worlds
    <3> QED
      BY <1>4, <2>5, <2>6, <3>3, <3>4, <3>5, <3>6, <3>7, <3>8
  <2> QED
    BY <2>7, <2>8, <2>9
<1> QED
  BY <1>3, <1>6, <1>7

\* A newcomer that has to wait joins the queue at its end and is told his place.
LEMMA JoinsTheQueue ==
    ASSUME NEW w \in Worlds, InStep(w), NEW s \in Sessions \ ToSet(w.queue),
           ~w.session[s].initializing, w.session[s].stage = "characters"
    PROVE  LET x == AddQueuedPlayer(w, s) IN
           /\ x \in Worlds /\ InStep(x) /\ x.queue = Append(w.queue, s)
           /\ ToSet(x.queue) = ToSet(w.queue) \cup {s} /\ Len(x.queue) = Len(w.queue) + 1
           /\ x.queue # <<>>
           /\ \A t \in Sessions \ {s} : x.session[t] = w.session[t]
           /\ x.session[s].account = w.session[s].account /\ ~x.session[s].initializing
<1> DEFINE q == Append(w.queue, s)
           place == Len(w.queue) + 1
           new == [w.session EXCEPT ![s].inQueue = TRUE, ![s].told = place]
<1>1. w.queue \in Seq(Sessions) /\ w.session \in [Sessions -> SessionType] /\ w.size \in Nat
  BY DEF Worlds
<1>2. IsInjective(w.queue)
  BY DEF InStep
<1>3. /\ q \in Seq(Sessions) /\ IsInjective(q) /\ ToSet(q) = ToSet(w.queue) \cup {s}
      /\ GetQueuePos(q, s) = place
      /\ \A t \in ToSet(w.queue) : GetQueuePos(q, t) = GetQueuePos(w.queue, t)
  BY <1>1, <1>2, PositionsAppended
<1>4. Len(q) = place /\ Len(w.queue) \in Nat /\ place \in Nat /\ q # <<>>
  <2>1. Len(q) = place /\ Len(w.queue) \in Nat /\ place \in Nat
    BY <1>1
  <2>2. Len(<<>>) = 0
    OBVIOUS
  <2> QED
    BY <2>1, <2>2
<1>5. place \in 0..Cardinality(Sessions)
  <2>1. Len(q) <= Cardinality(Sessions) /\ Cardinality(Sessions) \in Nat
    BY <1>3, QueueLength, AdmissionAssumption, FS_CardinalityType
  <2> QED
    BY <1>4, <2>1
<1> HIDE DEF q, place
<1>6. /\ new \in [Sessions -> SessionType]
      /\ \A t \in Sessions \ {s} : new[t] = w.session[t]
      /\ new[s].inQueue /\ new[s].told = place /\ new[s].account = w.session[s].account
      /\ new[s].initializing = w.session[s].initializing /\ new[s].stage = w.session[s].stage
  BY <1>1, <1>5 DEF SessionType
<1> HIDE DEF new
<1>7. PICK x : x = AddQueuedPlayer(w, s)
  OBVIOUS
<1>8. x = [w EXCEPT !.queue = q, !.session = new]
  <2> DEFINE waits == [w.session EXCEPT ![s].inQueue = TRUE]
             joined == [w EXCEPT !.queue = q]
             knows == [joined EXCEPT !.session[s].inQueue = TRUE]
  <2>1. x = [knows EXCEPT !.session[s].told = place]
    BY <1>7 DEF AddQueuedPlayer, q, place
  <2>2. joined.session = w.session
    BY DEF Worlds
  <2>3. knows = [w EXCEPT !.queue = q, !.session = waits]
    BY <2>2 DEF Worlds
  <2>4. waits \in [Sessions -> SessionType]
    BY <1>1 DEF SessionType
  <2>5. new = [waits EXCEPT ![s].told = place]
    BY <1>1 DEF new
  <2> HIDE DEF waits
  <2>6. knows.session = waits
    BY <2>3 DEF Worlds
  <2>7. x = [knows EXCEPT !.session = new]
    BY <2>1, <2>5, <2>6
  <2> QED
    BY <2>3, <2>7 DEF Worlds
<1>9. x \in Worlds /\ x.queue = q /\ x.session = new
  BY <1>1, <1>3, <1>6, <1>8 DEF Worlds
<1>10. ASSUME NEW t \in ToSet(x.queue)
       PROVE  Waits(x, t)
  <2>1. CASE t = s
    BY <1>3, <1>6, <1>9, <2>1 DEF Waits
  <2>2. CASE t # s
    <3>1. t \in ToSet(w.queue) /\ t \in Sessions
      BY <1>1, <1>3, <1>9, <1>10, <2>2 DEF ToSet
    <3> QED
      BY <1>3, <1>6, <1>9, <2>2, <3>1 DEF Waits, InStep
  <2> QED
    BY <2>1, <2>2
<1>11. InStep(x)
  BY <1>3, <1>9, <1>10 DEF InStep
<1>12. Len(x.queue) = Len(w.queue) + 1 /\ x.queue # <<>>
  BY <1>4, <1>9 DEF place
<1> QED
  BY <1>3, <1>6, <1>7, <1>9, <1>11, <1>12 DEF q

\* One that need not wait is on the way in.
LEMMA GoesIn ==
    ASSUME NEW w \in Worlds, InStep(w), NEW s \in Sessions \ ToSet(w.queue)
    PROVE  LET x == InitializeSession(w, s) IN
           /\ x \in Worlds /\ InStep(x) /\ x.queue = w.queue
           /\ \A t \in Sessions \ {s} : x.session[t] = w.session[t]
           /\ x.session[s].account = w.session[s].account /\ x.session[s].initializing
<1> DEFINE new == [w.session EXCEPT ![s].initializing = TRUE]
<1>1. w.queue \in Seq(Sessions) /\ w.session \in [Sessions -> SessionType] /\ w.size \in Nat
  BY DEF Worlds
<1>2. /\ new \in [Sessions -> SessionType]
      /\ \A t \in Sessions \ {s} : new[t] = w.session[t]
      /\ new[s].initializing /\ new[s].account = w.session[s].account
  BY <1>1 DEF SessionType
<1> HIDE DEF new
<1>3. PICK x : x = InitializeSession(w, s)
  OBVIOUS
<1>4. x = [w EXCEPT !.session = new]
  BY <1>3 DEF InitializeSession, Worlds, new
<1>5. x \in Worlds /\ x.queue = w.queue /\ x.session = new
  BY <1>1, <1>2, <1>4 DEF Worlds
<1>6. \A t \in ToSet(w.queue) : t \in Sessions \ {s}
  BY <1>1 DEF ToSet
<1>7. InStep(x)
  <2>1. \A t \in ToSet(w.queue) : SameWait(x.session[t], w.session[t])
    BY <1>2, <1>5, <1>6 DEF SameWait
  <2> QED
    BY <1>5, <2>1, StaysInStep
<1> QED
  BY <1>2, <1>3, <1>5, <1>7

\* What AddSession_ starts from: the account's older session is out of the queue and deleted.
Freed(a) ==
    LET old == m_sessions[a]
        freed == IF old # NoSession THEN Delete(RemoveQueuedPlayer(World, old), old) ELSE World
    IN  [freed EXCEPT !.size = Cardinality(Listed \cup {a})]

\* The other accounts are in order, and nobody new waits.
LEMMA FreedIsInOrder ==
    ASSUME AdmissionInv, NEW a \in Accounts
    PROVE  /\ Rest(Freed(a), a) /\ ToSet(Freed(a).queue) \subseteq Waiting
           /\ Freed(a).queue = IF a \in Listed
                               THEN RemoveQueuedPlayer(World, m_sessions[a]).queue
                               ELSE m_QueuedPlayer
           /\ Cardinality(Listed \cup {a}) \in Nat
<1> USE DEF AdmissionInv
<1>1. /\ World \in Worlds /\ World.queue = m_QueuedPlayer /\ World.session = session
      /\ World.size = Cardinality(Listed) /\ InStep(World)
  BY WorldType DEF QueueInv
<1>2. a \in Listed <=> m_sessions[a] # NoSession
  BY DEF Listed
<1> DEFINE n == Cardinality(Listed \cup {a})
<1>3. n \in Nat
  BY ListedIsFinite, FS_AddElement, FS_CardinalityType
<1> HIDE DEF n
<1>4. PICK f : /\ Rest(f, a) /\ ToSet(f.queue) \subseteq Waiting
               /\ f.queue = IF a \in Listed THEN RemoveQueuedPlayer(World, m_sessions[a]).queue
                            ELSE m_QueuedPlayer
               /\ Freed(a) = [f EXCEPT !.size = n]
  <2>1. CASE a \notin Listed
    <3>1. Freed(a) = [World EXCEPT !.size = n]
      BY <1>2, <2>1 DEF Freed, n
    <3>2. Rest(World, a)
      BY <2>1, RestOfWorld
    <3>3. ToSet(World.queue) \subseteq Waiting
      BY <1>1 DEF Waiting
    <3> QED
      BY <1>1, <2>1, <3>1, <3>2, <3>3
  <2>2. CASE a \in Listed
    <3>1. m_sessions[a] \in Sessions
      BY <2>2, Members
    <3>2. PICK v : v = RemoveQueuedPlayer(World, m_sessions[a])
      OBVIOUS
    <3>3. Leaves(v, World, m_sessions[a])
      BY <1>1, <3>1, <3>2, LeavesQueue
    <3>4. PICK d : d = Delete(v, m_sessions[a])
      OBVIOUS
    <3>5. Rest(d, a) /\ d.queue = v.queue
      BY <1>1, <2>2, <3>3, <3>4, RestOfDeparture
    <3>6. ToSet(d.queue) \subseteq Waiting
      BY <1>1, <3>3, <3>5 DEF Leaves, Waiting
    <3>7. Freed(a) = [d EXCEPT !.size = n]
      BY <1>2, <2>2, <3>2, <3>4 DEF Freed, n
    <3> QED
      BY <2>2, <3>2, <3>5, <3>6, <3>7
  <2> QED
    BY <2>1, <2>2
<1>5. f \in Worlds
  BY <1>4 DEF Rest
<1>6. PICK g : g = Freed(a)
  OBVIOUS
<1>7. g \in Worlds /\ g.queue = f.queue /\ g.session = f.session
  BY <1>3, <1>4, <1>5, <1>6 DEF Worlds
<1>8. InStep(g)
  BY <1>4, <1>7, StaysInStep DEF Rest, SameWait
<1>9. Rest(g, a)
  BY <1>4, <1>7, <1>8 DEF Rest
<1> QED
  BY <1>3, <1>4, <1>6, <1>7, <1>9 DEF n

\* While somebody waits every slot is taken, also by then.
LEMMA FreedCounts ==
    ASSUME AdmissionInv, NEW a \in Accounts, ~raised,
           Freed(a).queue # <<>> \/ (a \in Listed /\ m_sessions[a] \in Waiting)
    PROVE  /\ m_playerLimit \in Nat \ {0}
           /\ Cardinality(Listed \cup {a}) - 1 - Len(Freed(a).queue) >= m_playerLimit
<1> USE DEF AdmissionInv
<1>1. /\ World \in Worlds /\ World.queue = m_QueuedPlayer /\ World.session = session
      /\ World.size = Cardinality(Listed) /\ InStep(World)
  BY WorldType DEF QueueInv
<1>2. /\ ToSet(Freed(a).queue) \subseteq Waiting
      /\ Freed(a).queue = IF a \in Listed
                          THEN RemoveQueuedPlayer(World, m_sessions[a]).queue
                          ELSE m_QueuedPlayer
      /\ Freed(a).queue \in Seq(Sessions)
  BY FreedIsInOrder DEF Rest, Worlds
<1>3. m_QueuedPlayer \in Seq(Sessions)
  BY DEF TypeOK
<1>4. Waiting # {}
  BY <1>2, SomebodyIsIn
<1>5. m_QueuedPlayer # <<>>
  BY <1>3, <1>4, SomebodyIsIn DEF Waiting
<1>6. m_playerLimit > 0 /\ Cardinality(Listed) - Len(m_QueuedPlayer) >= m_playerLimit
  BY <1>5 DEF CountInv
<1>7. m_playerLimit \in Nat \ {0}
  BY <1>6, AdmissionAssumption DEF TypeOK
<1>8. Len(m_QueuedPlayer) \in Nat /\ Cardinality(Listed) \in Nat /\ IsFiniteSet(Listed)
  BY <1>3, ListedIsFinite
<1>9. CASE a \in Listed
  <2>1. Listed \cup {a} = Listed /\ m_sessions[a] \in Sessions
    BY <1>9, Members
  <2>2. World.size - 1 - Len(RemoveQueuedPlayer(World, m_sessions[a]).queue) >= m_playerLimit
    BY <1>1, <1>5, <1>6, <1>7, <2>1, SlotIsPassedOn
  <2> QED
    BY <1>1, <1>2, <1>7, <1>9, <2>1, <2>2
<1>10. CASE a \notin Listed
  <2>1. Cardinality(Listed \cup {a}) = Cardinality(Listed) + 1
    BY <1>8, <1>10, FS_AddElement
  <2> QED
    BY <1>2, <1>6, <1>7, <1>8, <1>10, <2>1
<1> QED
  BY <1>9, <1>10

\* Whether the newcomer finds the realm full, as AddSession_ counts.
Full(a) ==
    LET n == Cardinality(Listed \cup {a})
        count == IF m_sessions[a] # NoSession /\ Contains(m_QueuedPlayer, m_sessions[a])
                 THEN n ELSE n - 1
    IN  m_playerLimit > 0 /\ count >= m_playerLimit /\ a \notin Privileged

\* The two outcomes of adding a session: it waits, or it is on the way in.
LEMMA AddCases ==
    ASSUME AdmissionInv, AddSession_
    PROVE  LET s == Head(addSessQueue)
               a == session[s].account
           IN  /\ addSessQueue # <<>> /\ addSessQueue' = Tail(addSessQueue)
               /\ UNCHANGED <<m_playerLimit, now, phase, todo>>
               /\ m_sessions' = [m_sessions EXCEPT ![a] = s]
               /\ m_disconnects' = IF Full(a) THEN Forgotten ELSE m_disconnects
               /\ IF Full(a) /\ ~HasRecentlyDisconnected(a)
                  THEN BecomesWorld(AddQueuedPlayer(Freed(a), s))
                  ELSE BecomesWorld(InitializeSession(Freed(a), s))
<1> DEFINE s == Head(addSessQueue)
           a == session[s].account
<1>1. /\ addSessQueue # <<>> /\ addSessQueue' = Tail(addSessQueue)
      /\ UNCHANGED <<m_playerLimit, now, phase, todo>>
      /\ m_sessions' = [m_sessions EXCEPT ![a] = s]
      /\ m_disconnects' = IF Full(a) THEN Forgotten ELSE m_disconnects
      /\ BecomesWorld(IF Full(a) /\ ~HasRecentlyDisconnected(a)
                      THEN AddQueuedPlayer(Freed(a), s) ELSE InitializeSession(Freed(a), s))
  <2>1. Freed(a).size = Cardinality(Listed \cup {a})
    <3>1. PICK f : f = IF m_sessions[a] # NoSession
                       THEN Delete(RemoveQueuedPlayer(World, m_sessions[a]), m_sessions[a])
                       ELSE World
      OBVIOUS
    <3>2. Freed(a) = [f EXCEPT !.size = Cardinality(Listed \cup {a})] /\ Freed(a) \in Worlds
      BY <3>1, FreedIsInOrder, HeadOfAdded DEF Freed, Rest, AddSession_
    <3> QED
      BY <3>2 DEF Worlds
  <2> QED
    BY <2>1 DEF AddSession_, Full, Freed
<1> QED
  BY <1>1

\* The step ends with x: s waits behind everybody, or is on the way in.
Arrives(x, s, a) ==
    /\ x \in Worlds /\ InStep(x) /\ BecomesWorld(x)
    /\ \A t \in Sessions \ {s} : x.session[t] = Freed(a).session[t]
    /\ x.session[s].account = a
    /\ \/ /\ Full(a) /\ x.queue = Append(Freed(a).queue, s) /\ x.queue # <<>>
          /\ Len(x.queue) = Len(Freed(a).queue) + 1
          /\ ToSet(x.queue) = ToSet(Freed(a).queue) \cup {s}
          /\ ~x.session[s].initializing
       \/ /\ ~Full(a) \/ HasRecentlyDisconnected(a)
          /\ x.queue = Freed(a).queue /\ x.session[s].initializing

\* The newcomer, and what becomes of it.
LEMMA AddedFacts ==
    ASSUME AdmissionInv, AddSession_
    PROVE  LET s == Head(addSessQueue)
               a == session[s].account
           IN  /\ s \in Sessions \ Waiting /\ s \notin ToSet(Freed(a).queue)
               /\ a \in Accounts /\ Freed(a).session[s] = session[s]
               /\ ~session[s].initializing
               /\ \E x : Arrives(x, s, a)
<1> USE DEF AdmissionInv
<1>1. PICK s : s = Head(addSessQueue)
  OBVIOUS
<1>2. PICK a : a = session[s].account
  OBVIOUS
<1>3. /\ addSessQueue # <<>> /\ addSessQueue' = Tail(addSessQueue)
      /\ UNCHANGED <<m_playerLimit, now, phase, todo>>
      /\ m_sessions' = [m_sessions EXCEPT ![a] = s]
      /\ m_disconnects' = IF Full(a) THEN Forgotten ELSE m_disconnects
      /\ IF Full(a) /\ ~HasRecentlyDisconnected(a)
         THEN BecomesWorld(AddQueuedPlayer(Freed(a), s))
         ELSE BecomesWorld(InitializeSession(Freed(a), s))
  BY <1>1, <1>2, AddCases
<1>4. /\ s \in Sessions /\ s \in ToSet(addSessQueue) /\ s \notin Waiting
      /\ a \in Accounts
      /\ \A b \in Accounts : m_sessions[b] # s
      /\ Tail(addSessQueue) \in Seq(Sessions) /\ IsInjective(Tail(addSessQueue))
      /\ ToSet(Tail(addSessQueue)) = ToSet(addSessQueue) \ {s}
  BY <1>1, <1>2, <1>3, HeadOfAdded
<1>5. PICK f : f = Freed(a)
  OBVIOUS
<1>6. /\ Rest(f, a) /\ f \in Worlds /\ InStep(f)
      /\ ToSet(f.queue) \subseteq Waiting /\ s \in Sessions \ ToSet(f.queue)
      /\ f.session[s] = session[s]
  BY <1>4, <1>5, FreedIsInOrder DEF Rest
<1>7. \E x : Arrives(x, s, a)
  <2>1. CASE Full(a) /\ ~HasRecentlyDisconnected(a)
    <3>1. ~f.session[s].initializing /\ f.session[s].stage = "characters"
      BY <1>4, <1>6 DEF AddInv
    <3>2. PICK x : x = AddQueuedPlayer(f, s)
      OBVIOUS
    <3>3. /\ x \in Worlds /\ InStep(x)
          /\ ToSet(x.queue) = ToSet(f.queue) \cup {s} /\ Len(x.queue) = Len(f.queue) + 1
          /\ x.queue # <<>>
          /\ \A t \in Sessions \ {s} : x.session[t] = f.session[t]
          /\ x.session[s].account = f.session[s].account
          /\ x.queue = Append(f.queue, s) /\ ~x.session[s].initializing
      BY <1>6, <3>1, <3>2, JoinsTheQueue
    <3>4. BecomesWorld(x)
      BY <1>3, <1>5, <2>1, <3>2
    <3>5. Arrives(x, s, a)
      BY <1>2, <1>5, <1>6, <2>1, <3>3, <3>4 DEF Arrives
    <3> QED
      BY <3>5
  <2>2. CASE ~(Full(a) /\ ~HasRecentlyDisconnected(a))
    <3>1. PICK x : x = InitializeSession(f, s)
      OBVIOUS
    <3>2. /\ x \in Worlds /\ InStep(x) /\ x.queue = f.queue
          /\ \A t \in Sessions \ {s} : x.session[t] = f.session[t]
          /\ x.session[s].account = f.session[s].account /\ x.session[s].initializing
      BY <1>6, <3>1, GoesIn
    <3>3. BecomesWorld(x)
      BY <1>3, <1>5, <2>2, <3>1
    <3>4. Arrives(x, s, a)
      BY <1>2, <1>5, <1>6, <2>2, <3>2, <3>3 DEF Arrives
    <3> QED
      BY <3>4
  <2> QED
    BY <2>1, <2>2
<1>8. ~session[s].initializing
  BY <1>4 DEF AddInv
<1> QED
  BY <1>1, <1>2, <1>4, <1>5, <1>6, <1>7, <1>8

\* A session is added to m_sessions.
LEMMA SessionIsAdded ==
    ASSUME AdmissionInv, AddSession_
    PROVE  AdmissionInv'
<1> USE DEF AdmissionInv
<1>1. PICK s : s = Head(addSessQueue)
  OBVIOUS
<1>2. PICK a : a = session[s].account
  OBVIOUS
<1>3. /\ addSessQueue # <<>> /\ addSessQueue' = Tail(addSessQueue)
      /\ UNCHANGED <<m_playerLimit, now, phase, todo>>
      /\ m_sessions' = [m_sessions EXCEPT ![a] = s]
      /\ m_disconnects' = IF Full(a) THEN Forgotten ELSE m_disconnects
  BY <1>1, <1>2, AddCases
<1>4. /\ s \in Sessions /\ s \in ToSet(addSessQueue) /\ s \notin Waiting
      /\ a \in Accounts
      /\ \A b \in Accounts : m_sessions[b] # s
      /\ Tail(addSessQueue) \in Seq(Sessions) /\ IsInjective(Tail(addSessQueue))
      /\ ToSet(Tail(addSessQueue)) = ToSet(addSessQueue) \ {s}
  BY <1>1, <1>2, <1>3, HeadOfAdded
<1>5. PICK f : f = Freed(a)
  OBVIOUS
<1>6. /\ Rest(f, a) /\ f \in Worlds /\ InStep(f)
      /\ ToSet(f.queue) \subseteq Waiting /\ s \in Sessions \ ToSet(f.queue)
      /\ f.session[s] = session[s]
  BY <1>4, <1>5, FreedIsInOrder DEF Rest
<1>7. PICK x : /\ x \in Worlds /\ InStep(x) /\ BecomesWorld(x)
               /\ \A t \in Sessions \ {s} : x.session[t] = f.session[t]
               /\ x.session[s].account = a
               /\ \/ /\ Full(a) /\ x.queue # <<>> /\ Len(x.queue) = Len(f.queue) + 1
                     /\ ToSet(x.queue) = ToSet(f.queue) \cup {s}
                  \/ x.queue = f.queue /\ x.session[s].initializing
  <2>1. PICK x : Arrives(x, s, a)
    BY <1>1, <1>2, AddedFacts
  <2> QED
    BY <1>5, <2>1 DEF Arrives
<1>8. m_QueuedPlayer' = x.queue /\ session' = x.session /\ raised' = (raised /\ x.queue # <<>>)
  BY <1>7 DEF BecomesWorld
<1>9. /\ m_sessions'[a] = s /\ m_sessions' \in [Accounts -> Sessions \cup {NoSession}]
      /\ \A b \in Accounts \ {a} : m_sessions'[b] = m_sessions[b]
  BY <1>3, <1>4 DEF TypeOK
<1>10. Listed' = Listed \cup {a}
  <2>1. s # NoSession
    BY <1>4, AdmissionAssumption
  <2> QED
    BY <1>4, <1>9, <2>1 DEF Listed
<1>11. \A b \in Listed : m_sessions[b] \in Sessions \ {s} /\ b \in Accounts
  BY <1>4, Members DEF Listed
<1>12. AddInv'
  <2>1. ToSet(addSessQueue) \subseteq Sessions
    BY Members
  <2>2. ASSUME NEW t \in ToSet(addSessQueue')
        PROVE  /\ session'[t] = session[t] /\ t \in ToSet(addSessQueue)
               /\ \A b \in Accounts : m_sessions'[b] # t
    <3>1. t \in ToSet(addSessQueue) \ {s}
      BY <1>3, <1>4
    <3>2. session'[t] = session[t]
      BY <1>6, <1>7, <1>8, <2>1, <3>1 DEF Rest
    <3> QED
      BY <1>9, <3>1, <3>2 DEF AddInv
  <2> QED
    BY <1>3, <1>4, <2>2 DEF AddInv
<1>13. \A b \in Listed \ {a} :
           /\ session'[m_sessions'[b]] = f.session[m_sessions[b]]
           /\ m_sessions'[b] = m_sessions[b]
  BY <1>7, <1>8, <1>9, <1>11
<1>14. ListInv'
  <2>1. ASSUME NEW b \in Listed'
        PROVE  session'[m_sessions'[b]].account = b
    <3>1. CASE b = a
      BY <1>7, <1>8, <1>9, <3>1
    <3>2. CASE b # a
      BY <1>6, <1>10, <1>13, <3>2 DEF Rest
    <3> QED
      BY <3>1, <3>2
  <2> QED
    BY <1>3, <1>10, <2>1 DEF ListInv
<1>15. InStep(World')
  <2>1. World'.queue = x.queue /\ World'.session = x.session
    BY <1>8 DEF World
  <2> QED
    BY <1>7, <2>1, StaysInStep DEF SameWait
<1>16. ASSUME NEW t \in Waiting'
       PROVE  session'[t].account \in Listed' /\ m_sessions'[session'[t].account] = t
  <2>1. t \in ToSet(f.queue) \cup {s}
    BY <1>7, <1>8 DEF Waiting
  <2>2. CASE t = s
    BY <1>7, <1>8, <1>9, <1>10, <2>2
  <2>3. CASE t # s
    <3>1. PICK b \in Listed \ {a} : m_sessions[b] = t
      BY <1>6, <2>1, <2>3 DEF Rest
    <3>2. session'[t].account = b /\ m_sessions'[b] = t
      BY <1>6, <1>13, <3>1 DEF Rest
    <3> QED
      BY <1>10, <3>1, <3>2
  <2> QED
    BY <2>2, <2>3
<1>17. ASSUME NEW b \in Active'
       PROVE  session'[m_sessions'[b]].socket = "open" /\ session'[m_sessions'[b]].inQueue =>
                  session'[m_sessions'[b]].initializing
  <2>1. b \in Listed' /\ m_sessions'[b] \notin ToSet(x.queue)
    BY <1>8 DEF Active, Waiting
  <2>2. CASE b = a
    BY <1>7, <1>8, <1>9, <2>1, <2>2
  <2>3. CASE b # a
    <3>1. b \in Listed \ {a} /\ m_sessions[b] \notin ToSet(f.queue)
      BY <1>7, <1>10, <1>13, <2>1, <2>3
    <3> QED
      BY <1>6, <1>13, <3>1 DEF Rest
  <2> QED
    BY <2>2, <2>3
<1>18. QueueInv'
  BY <1>15, <1>16, <1>17 DEF QueueInv
<1>19. TypeOK'
  <2>1. x.queue \in Seq(Sessions) /\ x.session \in [Sessions -> SessionType]
    BY <1>7 DEF Worlds
  <2>2. raised' \in BOOLEAN
    BY <1>8
  <2>3. m_disconnects' \in [Accounts -> 0..MaxTime \cup {Never}]
    BY <1>3 DEF TypeOK, Forgotten
  <2> QED
    BY <1>3, <1>4, <1>8, <1>9, <2>1, <2>2, <2>3 DEF TypeOK, SessionType
<1>20. CountInv'
  <2> SUFFICES ASSUME x.queue # <<>>, ~raised
               PROVE  /\ m_playerLimit > 0
                      /\ Cardinality(Listed \cup {a}) - Len(x.queue) >= m_playerLimit
    BY <1>3, <1>8, <1>10 DEF CountInv
  <2>1. /\ f.queue \in Seq(Sessions) /\ Len(f.queue) \in Nat
        /\ Cardinality(Listed \cup {a}) \in Nat /\ m_playerLimit \in Nat
    <3>1. Cardinality(Listed \cup {a}) \in Nat
      BY <1>4, FreedIsInOrder
    <3>2. m_playerLimit \in Nat
      BY AdmissionAssumption DEF TypeOK
    <3>3. f.queue \in Seq(Sessions)
      BY <1>6 DEF Worlds
    <3> QED
      BY <3>1, <3>2, <3>3
  <2>2. CASE f.queue # <<>> \/ (a \in Listed /\ m_sessions[a] \in Waiting)
    <3>1. /\ m_playerLimit \in Nat \ {0}
          /\ Cardinality(Listed \cup {a}) - 1 - Len(f.queue) >= m_playerLimit
      BY <1>4, <1>5, <2>2, FreedCounts
    <3>2. Len(x.queue) = Len(f.queue) + 1 \/ Len(x.queue) = Len(f.queue)
      BY <1>7
    <3> QED
      BY <2>1, <3>1, <3>2
  <2>3. CASE f.queue = <<>> /\ ~(a \in Listed /\ m_sessions[a] \in Waiting)
    <3>1. Full(a) /\ Len(x.queue) = Len(f.queue) + 1 /\ Len(f.queue) = 0
      BY <1>7, <2>3
    <3>2. ~(m_sessions[a] # NoSession /\ Contains(m_QueuedPlayer, m_sessions[a]))
      <4>1. m_QueuedPlayer \in Seq(Sessions)
        BY DEF TypeOK
      <4>2. Contains(m_QueuedPlayer, m_sessions[a]) <=> m_sessions[a] \in Waiting
        BY <4>1 DEF Contains, Waiting, ToSet
      <4> QED
        BY <1>4, <2>3, <4>2 DEF Listed
    <3>3. m_playerLimit > 0 /\ Cardinality(Listed \cup {a}) - 1 >= m_playerLimit
      BY <3>1, <3>2 DEF Full
    <3> QED
      BY <2>1, <3>1, <3>3
  <2> QED
    BY <2>2, <2>3
<1> QED
  BY <1>12, <1>14, <1>18, <1>19, <1>20

-----------------------------------------------------------------------------
(* The invariant, and what follows from it. *)

\* The world starts without sessions.
LEMMA AdmissionInit ==
    ASSUME Init
    PROVE  AdmissionInv
<1> USE DEF Init
<1>1. Listed = {}
  BY DEF Listed
<1>2. ToSet(<<>>) = {} /\ IsInjective(<<>>)
  BY DEF ToSet, IsInjective
<1>3. TypeOK
  <2>1. session \in [Sessions -> SessionType]
    BY NewTypes
  <2>2. 0 \in 0..MaxTime
    BY AdmissionAssumption
  <2>3. <<>> \in Seq(Sessions)
    OBVIOUS
  <2>4. m_disconnects \in [Accounts -> 0..MaxTime \cup {Never}]
    OBVIOUS
  <2>5. m_sessions \in [Accounts -> Sessions \cup {NoSession}]
    OBVIOUS
  <2> QED
    BY <2>1, <2>2, <2>3, <2>4, <2>5 DEF TypeOK, SessionType
<1>4. AddInv
  BY <1>2 DEF AddInv
<1>5. ListInv
  BY <1>1 DEF ListInv
<1>6. QueueInv
  BY <1>1, <1>2 DEF QueueInv, InStep, World, Waiting, Active
<1>7. CountInv
  BY DEF CountInv
<1> QED
  BY <1>3, <1>4, <1>5, <1>6, <1>7 DEF AdmissionInv

\* Every step keeps the invariant.
LEMMA AdmissionStep ==
    ASSUME AdmissionInv, [Next]_vars
    PROVE  AdmissionInv'
<1>1. CASE \E a \in Accounts, s \in Sessions : AddSession(a, s)
  BY <1>1, SessionArrives
<1>2. CASE \E s \in Sessions : CloseSocket(s)
  BY <1>2, SocketGoes
<1>3. CASE StartUpdate \/ AllAdded \/ AllUpdated
  BY <1>3, WorldGoesOn
<1>4. CASE RejectSession
  BY <1>4, SessionIsRejected
<1>5. CASE AddSession_
  BY <1>5, SessionIsAdded
<1>6. CASE \E a \in Accounts : UpdateSession(a)
  BY <1>6, SessionIsUpdated
<1>7. CASE \E a \in Accounts : KickPlayer(a)
  BY <1>7, SocketGoes
<1>8. CASE KickAll
  BY <1>8, EverybodyGoes
<1>9. CASE \E limit \in Limits : SetPlayerAmountLimit(limit)
  BY <1>9, LimitChanges
<1>10. CASE UNCHANGED vars
  <2> USE <1>10 DEF vars
  <2>1. Listed' = Listed /\ Waiting' = Waiting /\ World' = World
    BY DEF Listed, Waiting, World
  <2>2. Active' = Active
    BY <2>1 DEF Active
  <2>3. TypeOK' /\ AddInv' /\ ListInv'
    BY <2>1 DEF AdmissionInv, TypeOK, AddInv, ListInv
  <2>4. InStep(World')
    BY <2>1 DEF AdmissionInv, QueueInv
  <2>5. QueueInv' /\ CountInv'
    BY <2>1, <2>2, <2>4 DEF AdmissionInv, QueueInv, CountInv
  <2> QED
    BY <2>3, <2>5 DEF AdmissionInv
<1> QED
  BY <1>1, <1>2, <1>3, <1>4, <1>5, <1>6, <1>7, <1>8, <1>9, <1>10 DEF Next

\* The invariant holds in every state.
THEOREM AdmissionInvariant == Spec => []AdmissionInv
<1>1. Init => AdmissionInv
  BY AdmissionInit
<1>2. AdmissionInv /\ [Next]_vars => AdmissionInv'
  BY AdmissionStep
<1> QED
  BY <1>1, <1>2, PTL DEF Spec

\* The lists, the waiting queue and the sessions keep their types.
THEOREM AdmissionTypes == Spec => []TypeOK
<1>1. AdmissionInv => TypeOK
  BY DEF AdmissionInv
<1> QED
  BY <1>1, AdmissionInvariant, PTL

\* The waiting queue points at live, listed sessions that know that they wait and where,
\* and a connected session that believes it waits does, or is on the way in.
THEOREM WaitersAreListed == Spec => []WaitersAreSessions
<1>1. AdmissionInv => WaitersAreSessions
  BY WorldType DEF AdmissionInv, QueueInv, WaitersAreSessions, InStep, Waits, Waiting
<1> QED
  BY <1>1, AdmissionInvariant, PTL

\* The code's count of the active sessions is the number of those that do not wait.
LEMMA ActiveCount ==
    ASSUME AdmissionInv
    PROVE  /\ IsFiniteSet(Active) /\ Cardinality(Active) \in Nat
           /\ Cardinality(Active) = Cardinality(Listed) - Len(m_QueuedPlayer)
<1> USE DEF AdmissionInv
<1> DEFINE f == [s \in Waiting |-> session[s].account]
           W == {session[s].account : s \in Waiting}
<1>1. IsFiniteSet(Listed) /\ Cardinality(Listed) \in Nat
  BY ListedIsFinite
<1>2. IsInjective(m_QueuedPlayer) /\ m_QueuedPlayer \in Seq(Sessions)
  BY WorldType DEF QueueInv, InStep, TypeOK
<1>3. IsFiniteSet(Waiting) /\ Cardinality(Waiting) = Len(m_QueuedPlayer)
  BY <1>2, QueueLength, AdmissionAssumption DEF Waiting
<1>4. \A s \in Waiting : session[s].account \in Listed /\ m_sessions[session[s].account] = s
  BY DEF QueueInv
<1>5. f \in Bijection(Waiting, W)
  <2>1. f \in [Waiting -> W]
    OBVIOUS
  <2>2. \A s, t \in Waiting : f[s] = f[t] => s = t
    <3>1. \A s \in Waiting : f[s] = session[s].account
      OBVIOUS
    <3> HIDE DEF f
    <3> QED
      BY <1>4, <3>1
  <2>3. \A b \in W : \E s \in Waiting : f[s] = b
    OBVIOUS
  <2> HIDE DEF f, W
  <2> QED
    BY <2>1, <2>2, <2>3 DEF Bijection, Injection, Surjection, IsInjective
<1> HIDE DEF f
<1>6. IsFiniteSet(W) /\ Cardinality(W) = Len(m_QueuedPlayer)
  BY <1>3, <1>5, FS_Bijection DEF ExistsBijection
<1>7. Active = Listed \ W
  <2>1. \A a \in Listed : m_sessions[a] \in Waiting <=> a \in W
    BY <1>4 DEF ListInv
  <2> QED
    BY <2>1 DEF Active
<1>8. Listed \cap W = W
  BY <1>4
<1> HIDE DEF W
<1>9. IsFiniteSet(Active) /\ Cardinality(Active) = Cardinality(Listed) - Cardinality(Listed \cap W)
  BY <1>1, <1>7, FS_Difference
<1> QED
  BY <1>6, <1>8, <1>9, FS_CardinalityType

\* While somebody waits no slot is idle, unless the limit was raised meanwhile.
THEOREM NoSlotIsIdle == Spec => []NoIdleSlot
<1>1. AdmissionInv => NoIdleSlot
  BY ActiveCount DEF AdmissionInv, CountInv, NoIdleSlot
<1> QED
  BY <1>1, AdmissionInvariant, PTL

-----------------------------------------------------------------------------
(* Who is let in: only a departure and a newcomer's arrival let anybody in. *)

\* Whoever a removal lets in was waiting, and with him in the limit is kept.
LEMMA LetInWithinLimit ==
    ASSUME NEW w \in Worlds, InStep(w), NEW s \in Sessions, m_playerLimit \in Nat \ {0},
           NEW v, v = RemoveQueuedPlayer(w, s),
           ToSet(w.queue) \ {s} # ToSet(v.queue), s \in ToSet(w.queue) \/ w.size > Len(w.queue)
    PROVE  w.size - 1 - Len(v.queue) <= m_playerLimit
<1>1. LetsIn(w, s)
  <2> SUFFICES ASSUME ~LetsIn(w, s)
               PROVE  ToSet(v.queue) = ToSet(w.queue) \ {s}
    OBVIOUS
  <2>1. IsInjective(w.queue)
    BY DEF InStep
  <2>2. /\ Left(w, s) \in Worlds /\ IsInjective(Left(w, s).queue)
        /\ ToSet(Left(w, s).queue) = ToSet(w.queue) \ {s}
    BY <2>1, LeftFacts
  <2>3. v = IF s \in ToSet(w.queue) THEN TellPositions(Left(w, s), GetQueuePos(w.queue, s))
            ELSE Left(w, s)
    BY <2>1, RemovalCases
  <2>4. w.queue \in Seq(Sessions)
    BY DEF Worlds
  <2>5. CASE s \in ToSet(w.queue)
    <3>1. GetQueuePos(w.queue, s) \in Nat \ {0}
      BY <2>1, <2>4, <2>5, PositionOf
    <3> QED
      BY <2>2, <2>3, <2>5, <3>1, TellsPositions
  <2>6. CASE s \notin ToSet(w.queue)
    BY <2>2, <2>3, <2>6
  <2> QED
    BY <2>5, <2>6
<1>2. Len(v.queue) = IF s \in ToSet(w.queue) THEN Len(w.queue) - 2 ELSE Len(w.queue) - 1
  BY <1>1, LeavesAndLetsIn
<1>3. Remaining(w, s) < m_playerLimit
  BY <1>1 DEF LetsIn
<1>4. Len(w.queue) \in Nat /\ w.size \in Nat
  BY DEF Worlds
<1>5. CASE s \in ToSet(w.queue)
  BY <1>2, <1>3, <1>4, <1>5 DEF Remaining, GetActiveSessionCount
<1>6. CASE s \notin ToSet(w.queue)
  BY <1>2, <1>3, <1>4, <1>6 DEF Remaining, GetActiveSessionCount
<1> QED
  BY <1>5, <1>6

\* What the queue does for those that were in it, over one step that replaces or removes s:
\* who stays keeps his place in the order, and who is let in leaves nobody behind that
\* was ahead.
KeepsOrder(v) ==
    \A t \in Waiting, u \in ToSet(v.queue) :
        /\ t \in ToSet(v.queue) /\ GetQueuePos(m_QueuedPlayer, t) < GetQueuePos(m_QueuedPlayer, u)
               => GetQueuePos(v.queue, t) < GetQueuePos(v.queue, u)
        /\ t \notin ToSet(v.queue) /\ v.session[t].initializing =>
               GetQueuePos(m_QueuedPlayer, t) < GetQueuePos(m_QueuedPlayer, u)

\* The older session of a newcomer's account leaves.
LEMMA FreedLetsIn ==
    ASSUME AdmissionInv, NEW a \in Accounts
    PROVE  /\ KeepsOrder(Freed(a))
           /\ \A t \in Sessions :
                  ~session[t].initializing /\ Freed(a).session[t].initializing =>
                      /\ t \in Waiting
                      /\ m_playerLimit > 0 =>
                             Cardinality(Listed \cup {a}) - 1 - Len(Freed(a).queue)
                                 <= m_playerLimit
<1> USE DEF AdmissionInv
<1>1. /\ World \in Worlds /\ World.queue = m_QueuedPlayer /\ World.session = session
      /\ World.size = Cardinality(Listed) /\ InStep(World)
  BY WorldType DEF QueueInv
<1>2. a \in Listed <=> m_sessions[a] # NoSession
  BY DEF Listed
<1>3. Waiting \subseteq Sessions /\ \A t \in Waiting : ~session[t].initializing
  BY <1>1, Members DEF InStep, Waits, Waiting
<1> DEFINE n == Cardinality(Listed \cup {a})
<1>4. n \in Nat
  BY FreedIsInOrder
<1>5. CASE a \notin Listed
  <2>1. Freed(a) = [World EXCEPT !.size = n]
    BY <1>2, <1>5 DEF Freed
  <2>2. Freed(a).queue = m_QueuedPlayer /\ Freed(a).session = session
    BY <1>1, <2>1 DEF Worlds
  <2> QED
    BY <2>2 DEF KeepsOrder, Waiting
<1>6. CASE a \in Listed
  <2>1. PICK s \in Sessions : s = m_sessions[a]
    BY <1>6, Members
  <2>2. PICK v : v = RemoveQueuedPlayer(World, s)
    OBVIOUS
  <2>3. Leaves(v, World, s) /\ InOrder(v, World, s)
    BY <1>1, <2>2, LeavesQueue
  <2>4. PICK d : d = Delete(v, s)
    OBVIOUS
  <2>5. /\ Rest(d, a) /\ d.queue = v.queue
        /\ \A t \in Sessions \ {s} : d.session[t] = v.session[t]
        /\ d.session[s] = Deleted
    BY <1>1, <1>6, <2>1, <2>3, <2>4, RestOfDeparture
  <2>6. PICK f : f = Freed(a)
    OBVIOUS
  <2>7. f = [d EXCEPT !.size = n]
    BY <1>2, <1>6, <2>1, <2>2, <2>4, <2>6 DEF Freed
  <2>8. d \in Worlds
    BY <2>5 DEF Rest
  <2>9. f.queue = v.queue /\ f.session = d.session
    BY <2>5, <2>7, <2>8 DEF Worlds
  <2>10. ~f.session[s].initializing /\ s \notin ToSet(v.queue)
    BY <2>3, <2>5, <2>9, NewTypes DEF Leaves
  <2>11. KeepsOrder(f)
    <3> SUFFICES ASSUME NEW t \in Waiting, NEW u \in ToSet(v.queue)
                 PROVE  /\ t \in ToSet(v.queue)
                           /\ GetQueuePos(m_QueuedPlayer, t) < GetQueuePos(m_QueuedPlayer, u)
                               => GetQueuePos(v.queue, t) < GetQueuePos(v.queue, u)
                        /\ t \notin ToSet(v.queue) /\ f.session[t].initializing =>
                               GetQueuePos(m_QueuedPlayer, t) < GetQueuePos(m_QueuedPlayer, u)
      BY <2>9 DEF KeepsOrder
    <3>1. CASE t = s
      BY <2>10, <3>1
    <3>2. CASE t # s
      BY <1>1, <2>3, <3>2 DEF InOrder, Waiting
    <3> QED
      BY <3>1, <3>2
  <2>12. ASSUME NEW t \in Sessions, ~session[t].initializing, f.session[t].initializing
         PROVE  t \in Waiting /\ t # s /\ t \notin ToSet(v.queue)
    <3>1. t # s
      BY <2>10, <2>12
    <3>2. v.session[t].initializing
      BY <2>5, <2>9, <2>12, <3>1
    <3> QED
      BY <1>1, <2>3, <2>12, <3>1, <3>2 DEF Leaves, Waiting
  <2>13. ASSUME NEW t \in Sessions, ~session[t].initializing, f.session[t].initializing,
                m_playerLimit > 0
         PROVE  n - 1 - Len(f.queue) <= m_playerLimit
    <3>1. t \in ToSet(World.queue) \ {s} /\ t \notin ToSet(v.queue)
      BY <1>1, <2>12, <2>13 DEF Waiting
    <3>2. Listed \cup {a} = Listed
      BY <1>6
    <3>3. m_playerLimit \in Nat \ {0}
      BY <2>13, AdmissionAssumption DEF TypeOK
    <3>4. s \in ToSet(World.queue) \/ World.size > Len(World.queue)
      <4>1. CASE s \in Waiting
        BY <1>1, <4>1 DEF Waiting
      <4>2. CASE s \notin Waiting
        <5>1. Active # {} /\ IsFiniteSet(Active)
          BY <1>6, <2>1, <4>2, ActiveCount DEF Active
        <5>2. Cardinality(Active) # 0 /\ Cardinality(Active) \in Nat
          BY <5>1, FS_EmptySet, FS_CardinalityType
        <5>3. Cardinality(Active) = Cardinality(Listed) - Len(m_QueuedPlayer)
          BY ActiveCount
        <5>4. Len(m_QueuedPlayer) \in Nat /\ Cardinality(Listed) \in Nat
          BY ListedIsFinite DEF TypeOK
        <5> QED
          BY <1>1, <5>2, <5>3, <5>4
      <4> QED
        BY <4>1, <4>2
    <3>5. World.size - 1 - Len(v.queue) <= m_playerLimit
      BY <1>1, <2>2, <3>1, <3>3, <3>4, LetInWithinLimit
    <3> QED
      BY <1>1, <2>9, <3>2, <3>5
  <2> QED
    BY <2>6, <2>11, <2>12, <2>13
<1> QED
  BY <1>5, <1>6

\* The sessions that do not wait, as the code counts them.
ActiveIsCounted ==
    /\ IsFiniteSet(Active) /\ Cardinality(Active) \in Nat
    /\ Cardinality(Active) = Cardinality(Listed) - Len(m_QueuedPlayer)

\* The count is right in every state.
LEMMA CountIsRight == Spec => []ActiveIsCounted
<1>1. AdmissionInv => ActiveIsCounted
  BY ActiveCount DEF ActiveIsCounted
<1> QED
  BY <1>1, AdmissionInvariant, PTL

\* What a step that may let somebody in does: nobody overtakes, and the limit is kept.
LetsInFairly ==
    /\ Waiting' \subseteq Waiting
    /\ KeepsOrder(World')
    /\ \A t \in Sessions :
           LetIn(t) => /\ t \in Waiting \ Waiting'
                       /\ m_playerLimit > 0 => Cardinality(Active') <= m_playerLimit

\* The update of a session, when it is the last, lets in the heads of the queue.
LEMMA UpdateLetsIn ==
    ASSUME AdmissionInv, NEW a \in Accounts, UpdateSession(a), ActiveIsCounted'
    PROVE  LetsInFairly
<1> USE DEF AdmissionInv
<1>1. /\ a \in Listed /\ todo' = todo \ {a}
      /\ UNCHANGED <<addSessQueue, m_playerLimit, now, phase>>
  BY UpdateCases
<1>2. PICK s \in Sessions : s = m_sessions[a]
  BY <1>1, Members
<1>3. PICK r \in Updated(session[s]) :
          LET w == [World EXCEPT !.session[s] = r]
              once == RemoveQueuedPlayer(w, s)
              d == Delete(RemoveQueuedPlayer(once, s), s)
          IN  \/ /\ MayStay(r) /\ BecomesWorld(w)
                 /\ UNCHANGED <<m_sessions, m_disconnects>>
              \/ /\ BecomesWorld(d)
                 /\ m_sessions' = [m_sessions EXCEPT ![a] = NoSession]
                 /\ m_disconnects' \in {m_disconnects, [m_disconnects EXCEPT ![a] = now]}
  BY <1>2, UpdateCases
<1> DEFINE w == [World EXCEPT !.session[s] = r]
           once == RemoveQueuedPlayer(w, s)
           twice == RemoveQueuedPlayer(once, s)
           d == Delete(twice, s)
<1>4. /\ w \in Worlds /\ InStep(w) /\ w.queue = m_QueuedPlayer /\ w.size = Cardinality(Listed)
      /\ w.session[s] = r /\ \A t \in Sessions \ {s} : w.session[t] = session[t]
      /\ r \in SessionType
  BY <1>1, <1>2, UpdatedWorld
<1> HIDE DEF w
<1>5. CASE BecomesWorld(w)
  <2>1. m_QueuedPlayer' = m_QueuedPlayer /\ session' = w.session
    BY <1>4, <1>5 DEF BecomesWorld
  <2>2. World'.queue = m_QueuedPlayer /\ World'.session = w.session
    BY <2>1 DEF World
  <2>3. session \in [Sessions -> SessionType]
    BY DEF TypeOK, SessionType
  <2>4. r.initializing => session[s].initializing
    BY <2>3, UpdatedFacts
  <2>5. \A t \in Sessions : ~LetIn(t)
    BY <1>4, <2>1, <2>4 DEF LetIn
  <2>6. KeepsOrder(World')
    BY <2>2 DEF KeepsOrder, Waiting
  <2> QED
    BY <2>1, <2>5, <2>6 DEF LetsInFairly, Waiting
<1>6. CASE BecomesWorld(d) /\ m_sessions' = [m_sessions EXCEPT ![a] = NoSession]
  <2>1. Leaves(once, w, s) /\ InOrder(once, w, s)
    BY <1>4, LeavesQueue
  <2>2. once \in Worlds /\ InStep(once) /\ once.size = w.size /\ s \notin ToSet(once.queue)
        /\ ToSet(once.queue) \subseteq ToSet(w.queue)
    BY <2>1 DEF Leaves
  <2>3. once.queue \in Seq(Sessions) /\ IsInjective(once.queue)
        /\ w.queue \in Seq(Sessions) /\ IsInjective(w.queue)
    BY <1>4, <2>2 DEF Worlds, InStep
  <2> HIDE DEF once
  <2>4. Leaves(twice, once, s) /\ InOrder(twice, once, s)
    BY <2>2, LeavesQueue
  <2>5. Leaves(twice, w, s) /\ InOrder(twice, w, s)
    BY <1>4, <2>1, <2>4, LeavesTwice
  <2>6. twice \in Worlds /\ InStep(twice) /\ s \notin ToSet(twice.queue)
        /\ ToSet(twice.queue) \subseteq Waiting
    BY <1>4, <2>5 DEF Leaves, Waiting
  <2>7. /\ Rest(d, a) /\ d.queue = twice.queue /\ d.session[s] = Deleted
        /\ \A t \in Sessions \ {s} : d.session[t] = twice.session[t]
    <3> HIDE DEF twice
    <3> QED
      BY <1>1, <1>2, <1>4, <2>5, <2>6, RestOfDeparture
  <2> HIDE DEF d, twice
  <2>8. m_QueuedPlayer' = d.queue /\ session' = d.session
    BY <1>6 DEF BecomesWorld
  <2>9. World'.queue = twice.queue /\ World'.session = d.session /\ Waiting' = ToSet(twice.queue)
    BY <2>7, <2>8 DEF World, Waiting
  <2>10. KeepsOrder(World')
    <3> SUFFICES ASSUME NEW t \in Waiting, NEW u \in ToSet(twice.queue)
                 PROVE  /\ t \in ToSet(twice.queue)
                           /\ GetQueuePos(m_QueuedPlayer, t) < GetQueuePos(m_QueuedPlayer, u)
                               => GetQueuePos(twice.queue, t) < GetQueuePos(twice.queue, u)
                        /\ t \notin ToSet(twice.queue) /\ d.session[t].initializing =>
                               GetQueuePos(m_QueuedPlayer, t) < GetQueuePos(m_QueuedPlayer, u)
      BY <2>9 DEF KeepsOrder
    <3>1. CASE t = s
      BY <2>6, <2>7, <3>1, NewTypes
    <3>2. CASE t # s
      BY <1>4, <2>5, <3>2 DEF InOrder, Waiting
    <3> QED
      BY <3>1, <3>2
  <2>11. ASSUME NEW t \in Sessions, LetIn(t)
         PROVE  t \in Waiting /\ t # s /\ t \notin ToSet(twice.queue)
    <3>1. ~session[t].initializing /\ d.session[t].initializing
      BY <2>8, <2>11 DEF LetIn
    <3>2. t # s
      BY <2>7, <3>1, NewTypes
    <3>3. twice.session[t].initializing /\ ~w.session[t].initializing
      BY <1>4, <2>7, <3>1, <3>2
    <3> QED
      BY <1>4, <2>5, <3>2, <3>3 DEF Leaves, Waiting
  <2>12. ASSUME NEW t \in Sessions, LetIn(t), m_playerLimit > 0
         PROVE  Cardinality(Active') <= m_playerLimit
    <3>1. t \in ToSet(w.queue) /\ t # s /\ t \notin ToSet(twice.queue)
      BY <1>4, <2>11, <2>12 DEF Waiting
    <3>2. m_playerLimit \in Nat \ {0}
      BY <2>12, AdmissionAssumption DEF TypeOK
    <3>3. /\ Len(w.queue) \in Nat /\ Len(once.queue) \in Nat /\ Len(twice.queue) \in Nat
          /\ w.size \in Nat
      BY <1>4, <2>2, <2>6 DEF Worlds
    <3>4. s \in ToSet(w.queue) \/ w.size > Len(w.queue)
      <4>1. CASE s \in Waiting
        BY <1>4, <4>1 DEF Waiting
      <4>2. CASE s \notin Waiting
        <5>1. Active # {} /\ IsFiniteSet(Active)
          BY <1>1, <1>2, <4>2, ActiveCount DEF Active
        <5>2. Cardinality(Active) # 0 /\ Cardinality(Active) \in Nat
          BY <5>1, FS_EmptySet, FS_CardinalityType
        <5>3. Cardinality(Active) = w.size - Len(w.queue)
          BY <1>4, ActiveCount
        <5> QED
          BY <3>3, <5>2, <5>3
      <4> QED
        BY <4>1, <4>2
    <3>5. once.size > Len(once.queue)
      <4>1. Len(once.queue) <= Others(w, s) /\ Others(w, s) \in Nat
        BY <1>4, <3>3, LeavesQueue DEF once
      <4>2. w.size >= Len(w.queue)
        BY <1>4, <3>3, ActiveCount
      <4> QED
        BY <2>2, <3>3, <3>4, <4>1, <4>2 DEF Others
    <3>6. w.size - 1 - Len(twice.queue) <= m_playerLimit
      <4>1. CASE ToSet(once.queue) \ {s} # ToSet(twice.queue)
        BY <2>2, <3>2, <3>5, <4>1, LetInWithinLimit DEF twice
      <4>2. CASE ToSet(once.queue) \ {s} = ToSet(twice.queue)
        <5>1. ToSet(once.queue) = ToSet(twice.queue)
          BY <2>2, <4>2
        <5>2. Len(once.queue) = Len(twice.queue)
          <6>1. twice.queue \in Seq(Sessions) /\ IsInjective(twice.queue)
            BY <2>6 DEF Worlds, InStep
          <6>2. Cardinality(ToSet(once.queue)) = Len(once.queue)
            BY <2>3, QueueLength, AdmissionAssumption
          <6>3. Cardinality(ToSet(twice.queue)) = Len(twice.queue)
            BY <6>1, QueueLength, AdmissionAssumption
          <6> QED
            BY <5>1, <6>2, <6>3
        <5>3. ToSet(w.queue) \ {s} # ToSet(once.queue)
          BY <3>1, <5>1
        <5>4. w.size - 1 - Len(once.queue) <= m_playerLimit
          BY <1>4, <3>2, <3>4, <5>3, LetInWithinLimit DEF once
        <5> QED
          BY <5>2, <5>4
      <4> QED
        BY <4>1, <4>2
    <3>7. Cardinality(Listed') = w.size - 1
      <4>1. Listed' = Listed \ {a}
        BY <1>1, <1>6, <2>7, <2>8, RestIsKept
      <4> QED
        BY <1>1, <1>4, <4>1, ListedIsFinite, FS_RemoveElement
    <3> QED
      BY <2>7, <2>8, <3>6, <3>7 DEF ActiveIsCounted
  <2> QED
    BY <2>6, <2>9, <2>10, <2>11, <2>12 DEF LetsInFairly
<1> QED
  BY <1>3, <1>5, <1>6 DEF w, once, twice, d

\* The body of AdmissionWithinLimit.
WithinLimit ==
    \A s \in Sessions :
        LetIn(s) /\ session[s].account \notin Exempt /\ m_playerLimit > 0 =>
            Cardinality(Active' \ Exempt') <= m_playerLimit

\* The body of NoOvertaking.
NobodyOvertakes ==
    \A s \in Sessions :
        LET position == GetQueuePos(m_QueuedPlayer, s)
            passes == s \notin Waiting /\ (raised \/ session[s].account \in Exempt)
            ahead == {t \in Waiting \cap Waiting' :
                        s \notin Waiting \/ GetQueuePos(m_QueuedPlayer, t) < position}
        IN  /\ LetIn(s) /\ ~passes => ahead = {}
            /\ s \in Waiting' => \A t \in ahead :
                   GetQueuePos(m_QueuedPlayer, t)' < GetQueuePos(m_QueuedPlayer, s)'

\* Such a step keeps within the limit and nobody overtakes in it.
LEMMA FairSteps ==
    ASSUME AdmissionInv, LetsInFairly, ActiveIsCounted'
    PROVE  WithinLimit /\ NobodyOvertakes
<1>1. m_QueuedPlayer \in Seq(Sessions) /\ IsInjective(m_QueuedPlayer) /\ m_playerLimit \in Nat
  BY WorldType, AdmissionAssumption DEF AdmissionInv, TypeOK, QueueInv, InStep
<1>2. \A t \in Waiting : GetQueuePos(m_QueuedPlayer, t) \in Nat
  BY <1>1, PositionOf DEF Waiting
<1>3. WithinLimit
  <2> SUFFICES ASSUME NEW s \in Sessions, LetIn(s), m_playerLimit > 0
               PROVE  Cardinality(Active' \ Exempt') <= m_playerLimit
    BY DEF WithinLimit
  <2>1. Cardinality(Active') <= m_playerLimit
    BY DEF LetsInFairly
  <2>2. IsFiniteSet(Active') /\ Cardinality(Active') \in Nat
    BY DEF ActiveIsCounted
  <2>3. (Active' \ Exempt') \in SUBSET Active'
    OBVIOUS
  <2>4. IsFiniteSet(Active' \ Exempt') /\ Cardinality(Active' \ Exempt') <= Cardinality(Active')
    BY <2>2, <2>3, FS_Subset
  <2>5. Cardinality(Active' \ Exempt') \in Nat
    BY <2>4, FS_CardinalityType
  <2> QED
    BY <1>1, <2>1, <2>2, <2>4, <2>5
<1>4. World'.queue = m_QueuedPlayer' /\ World'.session = session' /\ Waiting' = ToSet(m_QueuedPlayer')
  BY DEF World, Waiting
<1>5. ASSUME NEW s \in Sessions, LetIn(s), NEW t \in Waiting \cap Waiting'
      PROVE  s \in Waiting /\ ~(GetQueuePos(m_QueuedPlayer, t) < GetQueuePos(m_QueuedPlayer, s))
  <2>1. s \in Waiting \ Waiting' /\ session'[s].initializing
    BY <1>5 DEF LetsInFairly, LetIn
  <2>2. GetQueuePos(m_QueuedPlayer, s) < GetQueuePos(m_QueuedPlayer, t)
    BY <1>4, <2>1 DEF LetsInFairly, KeepsOrder
  <2> QED
    BY <1>2, <2>1, <2>2
<1>6. ASSUME NEW s \in Waiting', NEW t \in Waiting \cap Waiting',
             GetQueuePos(m_QueuedPlayer, t) < GetQueuePos(m_QueuedPlayer, s)
      PROVE  GetQueuePos(m_QueuedPlayer', t) < GetQueuePos(m_QueuedPlayer', s)
  BY <1>4, <1>6 DEF LetsInFairly, KeepsOrder
<1>7. Waiting' \subseteq Waiting
  BY DEF LetsInFairly
<1>8. NobodyOvertakes
  BY <1>5, <1>6, <1>7 DEF NobodyOvertakes
<1> QED
  BY <1>3, <1>8

\* A newcomer's arrival lets in the newcomer, and the head of the queue when the account's
\* older session leaves.
LEMMA AddLetsIn ==
    ASSUME AdmissionInv, AddSession_, ActiveIsCounted'
    PROVE  WithinLimit /\ NobodyOvertakes
<1> USE DEF AdmissionInv
<1>1. PICK s : s = Head(addSessQueue)
  OBVIOUS
<1>2. PICK a : a = session[s].account
  OBVIOUS
<1>3. /\ s \in Sessions \ Waiting /\ s \notin ToSet(Freed(a).queue)
      /\ a \in Accounts /\ Freed(a).session[s] = session[s]
      /\ ~session[s].initializing /\ \E x : Arrives(x, s, a)
  BY <1>1, <1>2, AddedFacts
<1>4. PICK f : f = Freed(a)
  OBVIOUS
<1>5. /\ f \in Worlds /\ InStep(f) /\ ToSet(f.queue) \subseteq Waiting
      /\ Cardinality(Listed \cup {a}) \in Nat
  BY <1>3, <1>4, FreedIsInOrder DEF Rest
<1>6. /\ KeepsOrder(f)
      /\ \A t \in Sessions :
             ~session[t].initializing /\ f.session[t].initializing =>
                 /\ t \in Waiting
                 /\ m_playerLimit > 0 =>
                        Cardinality(Listed \cup {a}) - 1 - Len(f.queue) <= m_playerLimit
  BY <1>3, <1>4, FreedLetsIn
<1>7. PICK x : Arrives(x, s, a)
  BY <1>3
<1>8. /\ x \in Worlds /\ InStep(x) /\ \A t \in Sessions \ {s} : x.session[t] = f.session[t]
      /\ \/ /\ x.queue = Append(f.queue, s) /\ Len(x.queue) = Len(f.queue) + 1
            /\ ToSet(x.queue) = ToSet(f.queue) \cup {s} /\ ~x.session[s].initializing
         \/ /\ ~Full(a) \/ HasRecentlyDisconnected(a)
            /\ x.queue = f.queue /\ x.session[s].initializing
      /\ m_QueuedPlayer' = x.queue /\ session' = x.session
  BY <1>4, <1>7 DEF Arrives, BecomesWorld
<1>9. /\ m_sessions' = [m_sessions EXCEPT ![a] = s] /\ m_playerLimit' = m_playerLimit
      /\ m_disconnects' = IF Full(a) THEN Forgotten ELSE m_disconnects
  BY <1>1, <1>2, AddCases
<1>10. m_sessions'[a] = s /\ Listed' = Listed \cup {a}
  <2>1. s # NoSession
    BY <1>3, AdmissionAssumption
  <2> QED
    BY <1>3, <1>9, <2>1 DEF Listed, TypeOK
<1>11. /\ f.queue \in Seq(Sessions) /\ IsInjective(f.queue) /\ Len(f.queue) \in Nat
       /\ m_playerLimit \in Nat /\ Waiting' = ToSet(x.queue)
       /\ m_QueuedPlayer \in Seq(Sessions) /\ IsInjective(m_QueuedPlayer)
       /\ Waiting = ToSet(m_QueuedPlayer)
  <2>1. f.queue \in Seq(Sessions) /\ IsInjective(f.queue)
    BY <1>5 DEF Worlds, InStep
  <2>2. m_playerLimit \in Nat
    BY AdmissionAssumption DEF TypeOK
  <2>3. m_QueuedPlayer \in Seq(Sessions) /\ IsInjective(m_QueuedPlayer)
    BY WorldType DEF TypeOK, QueueInv, InStep
  <2>4. Waiting' = ToSet(x.queue) /\ Waiting = ToSet(m_QueuedPlayer)
    BY <1>8 DEF Waiting
  <2> QED
    BY <2>1, <2>2, <2>3, <2>4
\* A newcomer that is not counted, full realm or not, may pass the queue by.
<1>12. a \notin Exempt => ~HasRecentlyDisconnected(a) /\ a \notin Privileged
  BY <1>3 DEF Exempt, HasRecentlyDisconnected, Recent
<1>13. a \notin Exempt' => ~(HasRecentlyDisconnected(a) /\ Full(a)) /\ a \notin Privileged
  <2> SUFFICES ASSUME HasRecentlyDisconnected(a), Full(a)
               PROVE  m_disconnects'[a] # Never
    BY <1>3 DEF Exempt
  <2> QED
    BY <1>3, <1>9 DEF Forgotten, HasRecentlyDisconnected, Recent
<1>14. ~Full(a) /\ a \notin Privileged /\ m_playerLimit > 0 =>
           Cardinality(Listed \cup {a}) <= m_playerLimit
  BY <1>5, <1>11 DEF Full
<1>15. ASSUME NEW t \in Sessions \ {s}, LetIn(t)
       PROVE  /\ t \in Waiting /\ f.session[t].initializing /\ t \notin ToSet(x.queue)
              /\ m_playerLimit > 0 =>
                     Cardinality(Listed \cup {a}) - 1 - Len(f.queue) <= m_playerLimit
  <2>1. ~session[t].initializing /\ x.session[t].initializing
    BY <1>8, <1>15 DEF LetIn
  <2>2. f.session[t].initializing
    BY <1>8, <1>15, <2>1
  <2>3. t \notin ToSet(x.queue)
    BY <1>8, <2>1 DEF InStep, Waits
  <2> QED
    BY <1>6, <1>15, <2>1, <2>2, <2>3
<1>16. LetIn(s) => (~Full(a) \/ HasRecentlyDisconnected(a)) /\ x.queue = f.queue
  BY <1>3, <1>8 DEF LetIn
<1>17. /\ IsFiniteSet(Active') /\ Cardinality(Active') \in Nat
       /\ Cardinality(Active') = Cardinality(Listed \cup {a}) - Len(x.queue)
  BY <1>8, <1>10 DEF ActiveIsCounted
<1>18. WithinLimit
  <2> SUFFICES ASSUME NEW t \in Sessions, LetIn(t), session[t].account \notin Exempt,
                      m_playerLimit > 0
               PROVE  Cardinality(Active' \ Exempt') <= m_playerLimit
    BY DEF WithinLimit
  <2>1. Len(x.queue) = Len(f.queue) + 1 \/ x.queue = f.queue
    BY <1>8
  <2>2. /\ IsFiniteSet(Active' \ Exempt')
        /\ Cardinality(Active' \ Exempt') <= Cardinality(Active')
        /\ Cardinality(Active' \ Exempt') \in Nat
    <3>1. (Active' \ Exempt') \in SUBSET Active'
      OBVIOUS
    <3> QED
      BY <1>17, <3>1, FS_Subset, FS_CardinalityType
  <2>3. CASE ~Full(a) /\ a \notin Privileged
    BY <1>5, <1>11, <1>14, <1>17, <2>1, <2>2, <2>3
  <2>4. CASE x.queue = f.queue /\ ~(~Full(a) /\ a \notin Privileged)
    <3>1. ~Full(a) \/ HasRecentlyDisconnected(a)
      <4>1. CASE t = s
        BY <1>16, <2>4, <4>1
      <4>2. CASE t # s
        <5>1. x.queue # Append(f.queue, s)
          BY <1>3, <1>4, <1>11, <2>4, PositionsAppended
        <5> QED
          BY <1>8, <5>1
      <4> QED
        BY <4>1, <4>2
    <3>2. a \in Exempt'
      BY <1>13, <2>4, <3>1
    <3>3. t # s
      BY <1>2, <1>12, <2>4, <3>1
    <3>4. Cardinality(Listed \cup {a}) - 1 - Len(f.queue) <= m_playerLimit
      BY <1>15, <3>3
    <3>5. a \in Active'
      BY <1>3, <1>4, <1>10, <1>11, <2>4 DEF Active
    <3>6. Cardinality(Active' \ {a}) = Cardinality(Active') - 1 /\ IsFiniteSet(Active' \ {a})
      BY <1>17, <3>5, FS_RemoveElement
    <3>7. (Active' \ Exempt') \in SUBSET (Active' \ {a})
      BY <3>2
    <3>8. Cardinality(Active' \ Exempt') <= Cardinality(Active' \ {a})
      BY <3>6, <3>7, FS_Subset
    <3> QED
      BY <1>5, <1>11, <1>17, <2>2, <2>4, <3>4, <3>6, <3>8
  <2>5. CASE Len(x.queue) = Len(f.queue) + 1
    <3>1. t # s
      BY <1>11, <1>16, <2>5
    <3>2. Cardinality(Listed \cup {a}) - 1 - Len(f.queue) <= m_playerLimit
      BY <1>15, <3>1
    <3> QED
      BY <1>5, <1>11, <1>17, <2>2, <2>5, <3>2
  <2> QED
    BY <2>1, <2>3, <2>4, <2>5
<1>19. \A t \in ToSet(f.queue) :
           /\ GetQueuePos(x.queue, t) = GetQueuePos(f.queue, t)
           /\ s \in ToSet(x.queue) => GetQueuePos(x.queue, t) < GetQueuePos(x.queue, s)
  <2>1. CASE x.queue = f.queue
    BY <1>3, <1>4, <2>1
  <2>2. CASE x.queue = Append(f.queue, s)
    <3>1. /\ GetQueuePos(x.queue, s) = Len(f.queue) + 1
          /\ \A t \in ToSet(f.queue) : GetQueuePos(x.queue, t) = GetQueuePos(f.queue, t)
      BY <1>3, <1>4, <1>11, <2>2, PositionsAppended
    <3>2. \A t \in ToSet(f.queue) : GetQueuePos(f.queue, t) \in 1..Len(f.queue)
      BY <1>11, PositionOf
    <3> QED
      BY <1>11, <3>1, <3>2
  <2> QED
    BY <1>8, <2>1, <2>2
<1>20. Waiting \cap Waiting' \subseteq ToSet(f.queue) /\ ToSet(x.queue) \subseteq ToSet(f.queue) \cup {s}
  BY <1>3, <1>8, <1>11
<1>21. ASSUME LetIn(s), ~(raised \/ a \in Exempt)
       PROVE  Waiting \cap Waiting' = {}
  <2> SUFFICES ASSUME ToSet(f.queue) # {}
               PROVE  FALSE
    BY <1>20
  <2>1. f.queue # <<>>
    BY <1>11, SomebodyIsIn
  <2>2. /\ m_playerLimit \in Nat \ {0}
        /\ Cardinality(Listed \cup {a}) - 1 - Len(f.queue) >= m_playerLimit
    BY <1>3, <1>4, <1>21, <2>1, FreedCounts
  <2>3. ~Full(a) /\ a \notin Privileged
    BY <1>12, <1>16, <1>21
  <2>4. Cardinality(Listed \cup {a}) <= m_playerLimit
    BY <1>14, <2>2, <2>3
  <2> QED
    BY <1>5, <1>11, <2>2, <2>4
<1>22. ASSUME NEW t \in Sessions \ {s}, LetIn(t), NEW u \in Waiting \cap Waiting'
       PROVE  t \in Waiting /\ ~(GetQueuePos(m_QueuedPlayer, u) < GetQueuePos(m_QueuedPlayer, t))
  <2>1. t \in Waiting /\ f.session[t].initializing /\ t \notin ToSet(f.queue)
    BY <1>8, <1>15, <1>22
  <2>2. GetQueuePos(m_QueuedPlayer, t) < GetQueuePos(m_QueuedPlayer, u)
    BY <1>6, <1>20, <1>22, <2>1 DEF KeepsOrder
  <2>3. GetQueuePos(m_QueuedPlayer, t) \in Nat /\ GetQueuePos(m_QueuedPlayer, u) \in Nat
    BY <1>11, <2>1, PositionOf
  <2> QED
    BY <2>1, <2>2, <2>3
<1>23. ASSUME NEW t \in Waiting' \ {s}, NEW u \in Waiting \cap Waiting',
              GetQueuePos(m_QueuedPlayer, u) < GetQueuePos(m_QueuedPlayer, t)
       PROVE  GetQueuePos(x.queue, u) < GetQueuePos(x.queue, t)
  <2>1. t \in ToSet(f.queue) /\ u \in ToSet(f.queue) /\ u \in Waiting
    BY <1>11, <1>20
  <2>2. GetQueuePos(f.queue, u) < GetQueuePos(f.queue, t)
    BY <1>6, <1>23, <2>1 DEF KeepsOrder
  <2> QED
    BY <1>19, <2>1, <2>2
<1>24. NobodyOvertakes
  <2> SUFFICES ASSUME NEW t \in Sessions
               PROVE  LET passes == t \notin Waiting /\ (raised \/ session[t].account \in Exempt)
                          ahead == {u \in Waiting \cap Waiting' :
                                      t \notin Waiting \/ GetQueuePos(m_QueuedPlayer, u)
                                                          < GetQueuePos(m_QueuedPlayer, t)}
                      IN  /\ LetIn(t) /\ ~passes => ahead = {}
                          /\ t \in Waiting' => \A u \in ahead :
                                 GetQueuePos(x.queue, u) < GetQueuePos(x.queue, t)
    BY <1>8 DEF NobodyOvertakes
  <2>1. CASE t = s
    <3>1. s \in Waiting' => \A u \in Waiting \cap Waiting' :
              GetQueuePos(x.queue, u) < GetQueuePos(x.queue, s)
      BY <1>11, <1>19, <1>20
    <3> QED
      BY <1>2, <1>3, <1>21, <2>1, <3>1
  <2>2. CASE t # s
    <3>1. t \in Waiting' => t \in Waiting
      BY <1>5, <1>11, <1>20, <2>2
    <3> QED
      BY <1>22, <1>23, <2>2, <3>1
  <2> QED
    BY <2>1, <2>2
<1> QED
  BY <1>18, <1>24

\* No other step lets anybody in, and the queue keeps its order or is emptied.
LEMMA OthersLetNobodyIn ==
    ASSUME AdmissionInv, [Next]_vars, ~AddSession_, ~(\E a \in Accounts : UpdateSession(a))
    PROVE  /\ \A s \in Sessions : ~LetIn(s)
           /\ m_QueuedPlayer' = m_QueuedPlayer \/ m_QueuedPlayer' = <<>>
<1>1. session \in [Sessions -> SessionType] /\ m_sessions \in [Accounts -> Sessions \cup {NoSession}]
  BY DEF AdmissionInv, TypeOK, SessionType
<1>2. ASSUME NEW a \in Accounts, NEW s \in Sessions, AddSession(a, s)
      PROVE  m_QueuedPlayer' = m_QueuedPlayer /\ \A t \in Sessions : ~LetIn(t)
  BY <1>1, <1>2, NewTypes DEF AddSession, LetIn
<1>3. ASSUME NEW s \in Sessions, CloseSocket(s)
      PROVE  m_QueuedPlayer' = m_QueuedPlayer /\ \A t \in Sessions : ~LetIn(t)
  BY <1>1, <1>3 DEF CloseSocket, LetIn, SessionType
<1>4. ASSUME RejectSession
      PROVE  m_QueuedPlayer' = m_QueuedPlayer /\ \A t \in Sessions : ~LetIn(t)
  BY <1>1, <1>4, NewTypes DEF RejectSession, LetIn
<1>5. ASSUME NEW a \in Accounts, KickPlayer(a)
      PROVE  m_QueuedPlayer' = m_QueuedPlayer /\ \A t \in Sessions : ~LetIn(t)
  <2>1. m_sessions[a] \in Sessions
    BY <1>5, Members DEF KickPlayer, AdmissionInv
  <2> QED
    BY <1>1, <1>5, <2>1 DEF KickPlayer, LetIn, SessionType
<1>6. ASSUME KickAll
      PROVE  m_QueuedPlayer' = <<>> /\ \A t \in Sessions : ~LetIn(t)
  <2> DEFINE listed == {m_sessions[a] : a \in Accounts}
  <2>1. /\ m_QueuedPlayer' = <<>>
        /\ session' = [s \in Sessions |-> IF s \in listed
                       THEN [session[s] EXCEPT !.socket = "kicked"] ELSE session[s]]
    BY <1>6 DEF KickAll, BecomesWorld, World
  <2> HIDE DEF listed
  <2>2. \A t \in Sessions : session'[t].initializing = session[t].initializing
    BY <1>1, <2>1 DEF SessionType
  <2> QED
    BY <2>1, <2>2 DEF LetIn
<1>7. ASSUME \/ StartUpdate \/ AllAdded \/ AllUpdated \/ UNCHANGED vars
             \/ \E limit \in Limits : SetPlayerAmountLimit(limit)
      PROVE  m_QueuedPlayer' = m_QueuedPlayer /\ \A t \in Sessions : ~LetIn(t)
  <2>1. session' = session /\ m_QueuedPlayer' = m_QueuedPlayer
    BY <1>7 DEF StartUpdate, AllAdded, AllUpdated, SetPlayerAmountLimit, vars
  <2> QED
    BY <2>1 DEF LetIn
<1> QED
  BY <1>2, <1>3, <1>4, <1>5, <1>6, <1>7 DEF Next

\* Every step keeps within the limit and in nobody overtakes.
LEMMA EveryStepIsFair ==
    ASSUME AdmissionInv, [Next]_vars, ActiveIsCounted'
    PROVE  WithinLimit /\ NobodyOvertakes
<1>1. CASE AddSession_
  BY <1>1, AddLetsIn
<1>2. CASE \E a \in Accounts : UpdateSession(a)
  BY <1>2, UpdateLetsIn, FairSteps
<1>3. CASE ~AddSession_ /\ ~(\E a \in Accounts : UpdateSession(a))
  <2>1. /\ \A s \in Sessions : ~LetIn(s)
        /\ m_QueuedPlayer' = m_QueuedPlayer \/ m_QueuedPlayer' = <<>>
    BY <1>3, OthersLetNobodyIn
  <2>2. WithinLimit
    BY <2>1 DEF WithinLimit
  <2>3. NobodyOvertakes
    <3>1. CASE Waiting' = {}
      BY <2>1, <3>1 DEF NobodyOvertakes
    <3>2. CASE m_QueuedPlayer' = m_QueuedPlayer
      BY <2>1, <3>2 DEF NobodyOvertakes, Waiting
    <3>3. m_QueuedPlayer' = <<>> => Waiting' = {}
      BY DEF Waiting, ToSet
    <3> QED
      BY <2>1, <3>1, <3>2, <3>3
  <2> QED
    BY <2>2, <2>3
<1> QED
  BY <1>1, <1>2, <1>3

\* Nobody who is not exempt is let in beyond the limit, whoever is removed, how often.
THEOREM LimitIsKept == Spec => AdmissionWithinLimit
<1>1. AdmissionInv /\ ActiveIsCounted' /\ [Next]_vars => [WithinLimit]_vars
  BY EveryStepIsFair
<1>2. Spec => [][Next]_vars
  BY DEF Spec
<1> QED
  BY <1>1, <1>2, AdmissionInvariant, CountIsRight, PTL DEF AdmissionWithinLimit, WithinLimit

\* Nobody gets ahead of a player that waits.
THEOREM QueueIsFair == Spec => NoOvertaking
<1>1. AdmissionInv /\ ActiveIsCounted' /\ [Next]_vars => [NobodyOvertakes]_vars
  BY EveryStepIsFair
<1>2. Spec => [][Next]_vars
  BY DEF Spec
<1> QED
  BY <1>1, <1>2, AdmissionInvariant, CountIsRight, PTL DEF NoOvertaking, NobodyOvertakes

====================================================================================
