---------------------------- MODULE SessionAdmission ----------------------------
(***************************************************************************)
(* How the world lets sessions in: WorldSockets append new WorldSessions   *)
(* to addSessQueue; World::UpdateSessions adds them, replacing an older    *)
(* session of the account, lets them in or puts them into the waiting      *)
(* queue of a full realm, updates every session and removes the dead ones; *)
(* each removal may let the head of the waiting queue in.                  *)
(***************************************************************************)
EXTENDS Integers, Sequences, FiniteSets, SequencesExt

CONSTANTS
    Accounts,       \* account ids
    Privileged,     \* those with RBAC_PERM_SKIP_QUEUE
    Sessions,       \* WorldSession objects
    NoAccount, NoSession,
    Limits,         \* the values PlayerLimit takes, 0 for no limit
    Tolerance,      \* DisconnectToleranceInterval, 0 for none
    MaxTime         \* bound on the game time

ASSUME AdmissionAssumption ==
    /\ Privileged \subseteq Accounts /\ NoAccount \notin Accounts
    /\ IsFiniteSet(Sessions) /\ NoSession \notin Sessions
    /\ Limits \subseteq Nat /\ Tolerance \in Nat /\ MaxTime \in Nat

VARIABLES
    addSessQueue,   \* sessions the network threads have handed over
    m_sessions,     \* account -> session
    m_QueuedPlayer, \* the waiting queue
    m_playerLimit,
    m_disconnects,  \* account -> time of its last disconnect
    session,        \* the WorldSession objects
    now,            \* GameTime
    phase,          \* where World::UpdateSessions is
    todo,           \* accounts its second loop has not reached
    raised          \* history: the limit was raised while the present queue waited

vars == <<addSessQueue, m_sessions, m_QueuedPlayer, m_playerLimit, m_disconnects,
          session, now, phase, todo, raised>>

Never == -1
Stages == {"characters", "loading", "world"}

\* A deleted WorldSession, and the state the constructor gives one.
Deleted == [account |-> NoAccount, socket |-> "closed", stage |-> "characters",
            inQueue |-> FALSE, initializing |-> FALSE, told |-> 0]
Created(a) == [Deleted EXCEPT !.account = a, !.socket = "open"]

TypeOK ==
    /\ addSessQueue \in Seq(Sessions)
    /\ m_sessions \in [Accounts -> Sessions \cup {NoSession}]
    /\ m_QueuedPlayer \in Seq(Sessions)
    /\ m_playerLimit \in Limits
    /\ m_disconnects \in [Accounts -> 0..MaxTime \cup {Never}]
    /\ session \in [Sessions ->
           [account : Accounts \cup {NoAccount}, socket : {"open", "closed", "kicked"},
            stage : Stages, inQueue : BOOLEAN, initializing : BOOLEAN,
            told : 0..Cardinality(Sessions)]]
    /\ now \in 0..MaxTime
    /\ phase \in {"idle", "add", "update"}
    /\ todo \subseteq Accounts
    /\ raised \in BOOLEAN

Listed == {a \in Accounts : m_sessions[a] # NoSession}

Init ==
    /\ addSessQueue = <<>>
    /\ m_sessions = [a \in Accounts |-> NoSession]
    /\ m_QueuedPlayer = <<>>
    /\ m_playerLimit \in Limits
    /\ m_disconnects = [a \in Accounts |-> Never]
    /\ session = [s \in Sessions |-> Deleted]
    /\ now = 0
    /\ phase = "idle"
    /\ todo = {}
    /\ raised = FALSE

-----------------------------------------------------------------------------
(* What the world does to sessions and waiting queue within one call is a  *)
(* chain of values w == [queue, session, size], size being that of         *)
(* m_sessions.                                                             *)

\* Mutant: one session too few.
GetActiveButOne(w) == w.size - Len(w.queue) - 1

GetActiveSessionCount(w) == w.size - Len(w.queue)

\* 0 for a session that does not wait.
GetQueuePos(queue, s) ==
    IF Contains(queue, s) THEN CHOOSE i \in DOMAIN queue : queue[i] = s ELSE 0

\* The query whose callback lets the session in.
InitializeSession(w, s) == [w EXCEPT !.session[s].initializing = TRUE]

\* Mutant: the newcomer goes to the front.
AddQueuedFirst(w, s) ==
    [w EXCEPT !.queue = <<s>> \o @, !.session[s].inQueue = TRUE, !.session[s].told = 1]

AddQueuedPlayer(w, s) ==
    [w EXCEPT !.queue = Append(@, s),
              !.session[s].inQueue = TRUE,
              !.session[s].told = Len(w.queue) + 1]

\* The head of the queue is let in without waiting for its m_inQueue.
LetHeadIn(w) == [InitializeSession(w, Head(w.queue)) EXCEPT !.queue = Tail(@)]

\* SMSG_AUTH_RESPONSE with its new position to everybody from `from` on.
TellPositions(w, from) ==
    [w EXCEPT !.session = [s \in Sessions |->
        IF GetQueuePos(w.queue, s) >= from
        THEN [@[s] EXCEPT !.told = GetQueuePos(w.queue, s)] ELSE @[s]]]

\* Mutant: nothing leaves the queue.
RemoveNobody(w, s) == w

\* Mutant: the session that leaves still counts.
RemoveUncounted(w, s) ==
    LET position == GetQueuePos(w.queue, s)
        left == IF position > 0 THEN [w EXCEPT !.queue = RemoveAt(@, position),
                                               !.session[s].inQueue = FALSE] ELSE w
    IN  IF (m_playerLimit = 0 \/ GetActiveSessionCount(w) < m_playerLimit) /\ left.queue # <<>>
        THEN TellPositions(LetHeadIn(left), 1)
        ELSE IF position > 0 THEN TellPositions(left, position) ELSE left

\* Mutant: the iterator is not reset once the head has left.
RemoveWithoutReset(w, s) ==
    LET position == GetQueuePos(w.queue, s)
        found == position > 0
        left == IF found THEN [w EXCEPT !.queue = RemoveAt(@, position),
                                        !.session[s].inQueue = FALSE] ELSE w
        active == GetActiveSessionCount(w)
        sessions == IF found \/ active = 0 THEN active ELSE active - 1
        admits == (m_playerLimit = 0 \/ sessions < m_playerLimit) /\ left.queue # <<>>
        rest == IF admits THEN LetHeadIn(left) ELSE left
    IN  IF found THEN TellPositions(rest, position) ELSE rest

RemoveQueuedPlayer(w, s) ==
    LET position == GetQueuePos(w.queue, s)
        found == position > 0
        left == IF found THEN [w EXCEPT !.queue = RemoveAt(@, position),
                                        !.session[s].inQueue = FALSE] ELSE w
        active == GetActiveSessionCount(w)
        sessions == IF found \/ active = 0 THEN active ELSE active - 1
    IN  IF (m_playerLimit = 0 \/ sessions < m_playerLimit) /\ left.queue # <<>>
        THEN TellPositions(LetHeadIn(left), 1)
        ELSE IF found THEN TellPositions(left, position) ELSE left

Delete(w, s) == [w EXCEPT !.session[s] = Deleted]

\* difftime takes the later time first; the code passes it the earlier one.
Recent(a) == m_disconnects[a] # Never /\ m_disconnects[a] - now < Tolerance
HasRecentlyDisconnected(a) == Tolerance > 0 /\ Recent(a)
Forgotten ==
    [a \in Accounts |-> IF Tolerance > 0 /\ ~Recent(a) THEN Never ELSE m_disconnects[a]]

World == [queue |-> m_QueuedPlayer, session |-> session, size |-> Cardinality(Listed)]

BecomesWorld(w) ==
    /\ m_QueuedPlayer' = w.queue
    /\ session' = w.session
    /\ raised' = (raised /\ w.queue # <<>>)

-----------------------------------------------------------------------------
(* The network threads *)

\* WorldSocket creates a session once the permissions are loaded.
AddSession(a, s) ==
    /\ session[s] = Deleted
    /\ session' = [session EXCEPT ![s] = Created(a)]
    /\ addSessQueue' = Append(addSessQueue, s)
    /\ UNCHANGED <<m_sessions, m_QueuedPlayer, m_playerLimit, m_disconnects, now, phase,
                   todo, raised>>

\* The connection drops, or is idle for too long.
CloseSocket(s) ==
    /\ session[s].socket = "open"
    /\ session' = [session EXCEPT ![s].socket = "closed"]
    /\ UNCHANGED <<addSessQueue, m_sessions, m_QueuedPlayer, m_playerLimit, m_disconnects,
                   now, phase, todo, raised>>

(* The world thread *)

StartUpdate ==
    /\ phase = "idle"
    /\ now' \in {now, now + 1} \cap 0..MaxTime
    /\ phase' = "add"
    /\ UNCHANGED <<addSessQueue, m_sessions, m_QueuedPlayer, m_playerLimit, m_disconnects,
                   session, todo, raised>>

\* RemoveSession fails: the account's session is on its loading screen.
RejectSession ==
    /\ phase = "add" /\ addSessQueue # <<>>
    /\ LET s == Head(addSessQueue)
           old == m_sessions[session[s].account]
       IN  /\ old # NoSession /\ session[old].stage = "loading"
           /\ session' = [session EXCEPT ![s] = Deleted]
    /\ addSessQueue' = Tail(addSessQueue)
    /\ UNCHANGED <<m_sessions, m_QueuedPlayer, m_playerLimit, m_disconnects, now, phase,
                   todo, raised>>

AddSession_ ==
    /\ phase = "add" /\ addSessQueue # <<>>
    /\ LET s == Head(addSessQueue)
           a == session[s].account
           old == m_sessions[a]
           replaces == old # NoSession
           wasQueued == replaces /\ Contains(m_QueuedPlayer, old)
           freed == IF replaces THEN Delete(RemoveQueuedPlayer(World, old), old) ELSE World
           w == [freed EXCEPT !.size = Cardinality(Listed \cup {a})]
           count == IF wasQueued THEN w.size ELSE w.size - 1
           full == m_playerLimit > 0 /\ count >= m_playerLimit /\ a \notin Privileged
       IN  /\ replaces => session[old].stage # "loading"
           /\ m_sessions' = [m_sessions EXCEPT ![a] = s]
           /\ m_disconnects' = IF full THEN Forgotten ELSE m_disconnects
           /\ BecomesWorld(IF full /\ ~HasRecentlyDisconnected(a)
                           THEN AddQueuedPlayer(w, s) ELSE InitializeSession(w, s))
    /\ addSessQueue' = Tail(addSessQueue)
    /\ UNCHANGED <<m_playerLimit, now, phase, todo>>

AllAdded ==
    /\ phase = "add" /\ addSessQueue = <<>>
    /\ phase' = "update"
    /\ todo' = Listed
    /\ UNCHANGED <<addSessQueue, m_sessions, m_QueuedPlayer, m_playerLimit, m_disconnects,
                   session, now, raised>>

\* What packets, query callbacks and a logout make of a session in one Update: a
\* waiting one must not send the packets that lead to the world.
Updated(r) ==
    LET stages == CASE r.stage = "world" -> {"world", "characters"}
                    [] r.stage = "characters" /\ r.inQueue -> {"characters"}
                    [] OTHER -> Stages
        goesOn == {[r EXCEPT !.stage = st] : st \in stages}
        \* InitializeSessionCallback
        letIn == {[x EXCEPT !.initializing = FALSE, !.inQueue = FALSE, !.told = 0] : x \in goesOn}
    IN  goesOn \cup (IF r.initializing THEN letIn ELSE {})

\* A player in the world outlives the connection for a minute, unless kicked.
MayStay(r) == r.socket = "open" \/ (r.socket = "closed" /\ r.stage = "world")
MayGo(r) == r.socket # "open"

UpdateSession(a) ==
    /\ phase = "update" /\ a \in todo
    /\ todo' = todo \ {a}
    /\ LET s == m_sessions[a] IN
       \E r \in Updated(session[s]) :
           LET w == [World EXCEPT !.session[s] = r]
               once == RemoveQueuedPlayer(w, s)
           IN  \/ /\ MayStay(r)
                  /\ BecomesWorld(w)
                  /\ UNCHANGED <<m_sessions, m_disconnects>>
               \/ /\ MayGo(r)
                  /\ m_disconnects' = IF Contains(w.queue, s) \/ Tolerance = 0
                                      THEN m_disconnects ELSE [m_disconnects EXCEPT ![a] = now]
                  /\ m_sessions' = [m_sessions EXCEPT ![a] = NoSession]
                  /\ BecomesWorld(Delete(RemoveQueuedPlayer(once, s), s))
    /\ UNCHANGED <<addSessQueue, m_playerLimit, now, phase>>

AllUpdated ==
    /\ phase = "update" /\ todo = {}
    /\ phase' = "idle"
    /\ UNCHANGED <<addSessQueue, m_sessions, m_QueuedPlayer, m_playerLimit, m_disconnects,
                   session, now, todo, raised>>

\* Commands run between the updates of two sessions or outside of them.
Commands == phase \in {"idle", "update"}

KickPlayer(a) ==
    /\ Commands /\ a \in Listed
    /\ session' = [session EXCEPT ![m_sessions[a]].socket = "kicked"]
    /\ UNCHANGED <<addSessQueue, m_sessions, m_QueuedPlayer, m_playerLimit, m_disconnects,
                   now, phase, todo, raised>>

KickAll ==
    /\ Commands
    /\ BecomesWorld([World EXCEPT !.queue = <<>>,
           !.session = [s \in Sessions |-> IF s \in {m_sessions[a] : a \in Accounts}
                                           THEN [@[s] EXCEPT !.socket = "kicked"] ELSE @[s]]])
    /\ UNCHANGED <<addSessQueue, m_sessions, m_playerLimit, m_disconnects, now, phase, todo>>

SetPlayerAmountLimit(limit) ==
    /\ Commands
    /\ m_playerLimit' = limit
    /\ raised' = (m_QueuedPlayer # <<>> /\ (raised \/ limit = 0 \/ limit > m_playerLimit))
    /\ UNCHANGED <<addSessQueue, m_sessions, m_QueuedPlayer, m_disconnects, session, now,
                   phase, todo>>

Next ==
    \/ \E a \in Accounts, s \in Sessions : AddSession(a, s)
    \/ \E s \in Sessions : CloseSocket(s)
    \/ StartUpdate
    \/ RejectSession
    \/ AddSession_
    \/ AllAdded
    \/ \E a \in Accounts : UpdateSession(a)
    \/ AllUpdated
    \/ \E a \in Accounts : KickPlayer(a)
    \/ KickAll
    \/ \E limit \in Limits : SetPlayerAmountLimit(limit)

Spec == Init /\ [][Next]_vars

-----------------------------------------------------------------------------
Waiting == ToSet(m_QueuedPlayer)
Active == {a \in Listed : m_sessions[a] \notin Waiting}

\* Accounts that may pass the queue by.
Exempt == Privileged \cup {a \in Accounts : m_disconnects[a] # Never}

\* The world lets s in in this step.
LetIn(s) == ~session[s].initializing /\ session'[s].initializing

(* The waiting queue holds sessions that exist and are listed for their    *)
(* account, each once, and they know that they wait, and at which place,   *)
(* whatever left the queue before, behind or from under them: they cannot  *)
(* be on their way into the world.  Conversely a connected session that    *)
(* believes it waits does wait, or the query that ends its wait is under   *)
(* way.                                                                    *)
(* m_QueuedPlayer keeps raw pointers, and the same object is reached       *)
(* through m_sessions, deleted when replaced or dead, and let in by        *)
(* somebody else's departure (World.cpp 320-353, 428-476, 3123-3137).      *)
WaitersAreSessions ==
    /\ IsInjective(m_QueuedPlayer)
    /\ \A s \in Waiting :
          /\ session[s].account \in Listed /\ m_sessions[session[s].account] = s
          /\ session[s].inQueue /\ ~session[s].initializing
          /\ session[s].stage = "characters"
          /\ session[s].told = GetQueuePos(m_QueuedPlayer, s)
    /\ \A a \in Active : LET r == session[m_sessions[a]] IN
          r.socket = "open" /\ r.inQueue => r.initializing

(* While somebody waits every slot is taken: whichever way a slot becomes  *)
(* free, a waiting player gets it.  The exception is a limit raised while  *)
(* players wait, which lets nobody in until the next departure             *)
(* (World.cpp 428-476, World.h 615).                                       *)
NoIdleSlot ==
    m_QueuedPlayer # <<>> /\ ~raised =>
        m_playerLimit > 0 /\ Cardinality(Active) >= m_playerLimit

(* PlayerLimit is the "maximum number of players in the world", privileged *)
(* accounts excluded (worldserver.conf.dist 280-283): no step lets a player*)
(* in beyond it.  UpdateSessions calls RemoveQueuedPlayer twice for a dead *)
(* session and AddSession_ lets one in before it counts.                   *)
AdmissionWithinLimit ==
    [][\A s \in Sessions :
         LetIn(s) /\ session[s].account \notin Exempt /\ m_playerLimit > 0 =>
             Cardinality(Active' \ Exempt') <= m_playerLimit]_vars

(* Nobody gets ahead of a player that waits: who joins the queue joins at  *)
(* its end, those in it keep their order, and who is let in leaves nobody  *)
(* behind that was ahead.  Only a newcomer that may pass the queue by, or  *)
(* finds a limit raised in the meantime, is let in past it                 *)
(* (World.cpp 351-370, 419-426, 433-474).                                  *)
NoOvertaking ==
    [][\A s \in Sessions :
         LET position == GetQueuePos(m_QueuedPlayer, s)
             passes == s \notin Waiting /\ (raised \/ session[s].account \in Exempt)
             ahead == {t \in Waiting \cap Waiting' :
                         s \notin Waiting \/ GetQueuePos(m_QueuedPlayer, t) < position}
         IN  /\ LetIn(s) /\ ~passes => ahead = {}
             /\ s \in Waiting' => \A t \in ahead :
                    GetQueuePos(m_QueuedPlayer, t)' < GetQueuePos(m_QueuedPlayer, s)']_vars

(* "Tolerance (in seconds) for disconnected players before reentering the  *)
(* queue" (worldserver.conf.dist 404): a newcomer that finds the realm     *)
(* full and is let in has been away for less than the tolerance.           *)
ToleranceExpires ==
    [][\A s \in Sessions :
         LET a == session[s].account IN
         LetIn(s) /\ s \notin Waiting /\ a \notin Privileged
         /\ m_playerLimit > 0 /\ Cardinality(Listed' \ {a}) >= m_playerLimit =>
             m_disconnects[a] # Never /\ now - m_disconnects[a] < Tolerance]_vars
================================================================================
