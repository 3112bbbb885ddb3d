------------------------------ MODULE WorldSession ------------------------------
(***************************************************************************)
(* The packets of one account and the character they are for:             *)
(* WorldSession::Update, called by the world thread and by the thread of   *)
(* the player's map in turn, the queue the network thread fills, the       *)
(* login across an asynchronous query, the logout, and the session that    *)
(* replaces another one.  The character database is its queue of jobs,     *)
(* performed by Workers threads (see DatabaseWorkerPool).                  *)
(***************************************************************************)
EXTENDS Naturals, Sequences

CONSTANTS
    Workers,        \* CharacterDatabase.WorkerThreads
    MaxPerUpdate,   \* MAX_PROCESSED_PACKETS_IN_SAME_WORLDSESSION_UPDATE
    ExpireUpdates,  \* the updates within expireTime after the loss of the socket
    MaxSent,        \* bound: the packets ever sent and connections ever made
    MaxProgress     \* bound: the changes of the character

ASSUME SessionAssumption ==
    /\ Workers \in Nat \ {0} /\ MaxPerUpdate \in Nat /\ ExpireUpdates \in Nat
    /\ MaxSent \in Nat /\ MaxProgress \in Nat

VARIABLES
    session,        \* the account's WorldSession in m_sessions
    recvQueue,      \* its _recvQueue
    requeue,        \* requeuePackets of the Update that is running
    processed,      \* processedPackets of that Update
    at,             \* what the threads of the tick are doing
    jobs, stored,   \* the queue of the character database, and the character in it
    added,          \* addSessQueue holds a new session of the account
    client,         \* the client: the screen it shows and what it has been told
    sent,           \* the packets and connections so far, and the logins among them
    saved,          \* history: the character as it was last saved
    delivered       \* history: the last packet handled for a character, and its login

server == <<session, recvQueue, requeue, processed, at, jobs, stored, added>>
vars == <<server, client, sent, saved, delivered>>

\* The kinds of packets: CMSG_CHAR_ENUM, CMSG_PLAYER_LOGIN, CMSG_LOGOUT_REQUEST,
\* CMSG_LOGOUT_CANCEL, MSG_MOVE_WORLDPORT_ACK, a movement and a query.
Kinds == {"enum", "login", "logout", "cancel", "ack", "move", "query"}

\* opcodeTable: Status and ProcessingPlace
Status(p) ==
    CASE p.kind \in {"enum", "login"} -> "authed"
      [] p.kind \in {"logout", "move", "query"} -> "loggedin"
      [] p.kind = "cancel" -> "recently"
      [] p.kind = "ack" -> "transfer"

Place(p) ==
    CASE p.kind = "query" -> "inplace"
      [] p.kind = "move" -> "threadsafe"
      [] OTHER -> "threadunsafe"

Packets == [n : 1..MaxSent, kind : Kinds, login : 0..MaxSent]
NoPacket == [n |-> 0, kind |-> "enum", login |-> 0]
Characters == 0..MaxProgress

Sessions ==
    [alive : BOOLEAN,
     player : {"none", "world", "transfer"},    \* _player: null, IsInWorld or teleported far
     login : 0..MaxSent,                     \* the login the player came with
     progress : Characters,                     \* what has become of the character
     loading : BOOLEAN,                         \* m_playerLoading
     holder : 0..MaxSent,                    \* the login whose query holder is awaited
     result : {"none", "failed", "loaded"}, found : Characters,
     recently : BOOLEAN,                        \* m_playerRecentlyLogout
     leaving : BOOLEAN,                         \* _logoutTime > 0
     socket : {"open", "closed", "null"},       \* m_Socket
     forceExit : BOOLEAN,
     expire : 0..ExpireUpdates]

\* WorldSession(...)
NewSession ==
    [alive |-> TRUE, player |-> "none", login |-> 0, progress |-> 0, loading |-> FALSE,
     holder |-> 0, result |-> "none", found |-> 0, recently |-> FALSE, leaving |-> FALSE,
     socket |-> "open", forceExit |-> FALSE, expire |-> ExpireUpdates]

NoSession == [NewSession EXCEPT !.alive = FALSE, !.socket = "null"]

Jobs == [kind : {"save", "load"}, of : 0..MaxSent + MaxProgress]

TypeOK ==
    /\ session \in Sessions
    /\ recvQueue \in Seq(Packets) /\ requeue \in Seq(Packets)
    /\ processed \in 0..MaxPerUpdate + 1
    /\ at \in {"idle", "world", "maps", "map", "play"}
    /\ jobs \in Seq(Jobs) /\ stored \in Characters
    /\ added \in BOOLEAN
    /\ client \in [screen : {"off", "connecting", "characters", "selecting", "game"},
                   told : BOOLEAN, moved : BOOLEAN]
    /\ sent \in [count : 0..MaxSent, login : 0..MaxSent]
    /\ saved \in Characters
    /\ delivered \in [packet : Packets \cup {NoPacket}, login : 0..MaxSent]

Init ==
    /\ session = NoSession
    /\ recvQueue = <<>> /\ requeue = <<>> /\ processed = 0
    /\ at = "idle"
    /\ jobs = <<>> /\ stored = 0 /\ added = FALSE
    /\ client = [screen |-> "off", told |-> FALSE, moved |-> FALSE]
    /\ sent = [count |-> 0, login |-> 0]
    /\ saved = 0
    /\ delivered = [packet |-> NoPacket, login |-> 0]

--------------------------------------------------------------------------------
(* What a call does, as operators on a record w of the session, the jobs,   *)
(* the character last saved, and what the client is sent.                   *)

World == [s |-> session, jobs |-> jobs, saved |-> saved, client |-> client]

Becomes(w) ==
    /\ session' = w.s /\ jobs' = w.jobs /\ saved' = w.saved /\ client' = w.client

KickPlayer(w) ==
    IF w.s.socket = "null" THEN w
    ELSE [w EXCEPT !.s.socket = "closed", !.s.forceExit = TRUE]

\* Mutant: m_playerRecentlyLogout is not set.
LogoutForgotten(w) ==
    [w EXCEPT !.s = [@ EXCEPT !.player = "none", !.leaving = FALSE],
              !.jobs = Append(@, [kind |-> "save", of |-> w.s.progress]),
              !.saved = w.s.progress,
              !.client.told = @ \/ w.s.socket = "open"]

\* LogoutPlayer(true): a far teleport is ended first (by HandleMoveWorldportAck, which leaves
\* the player there); the save is given to the workers, the client is sent
\* SMSG_LOGOUT_COMPLETE.
LogoutPlayer(w) ==
    [w EXCEPT !.s = [@ EXCEPT !.player = "none", !.recently = TRUE, !.leaving = FALSE],
              !.jobs = Append(@, [kind |-> "save", of |-> w.s.progress]),
              !.saved = w.s.progress,
              !.client.told = @ \/ w.s.socket = "open"]

\* ~WorldSession: a player who is still there is logged out.
Delete(w) == [(IF w.s.player # "none" THEN LogoutPlayer(w) ELSE w) EXCEPT !.s = NoSession]

\* The query holder's callback, HandlePlayerLogin: LoadFromDB fails, or the player is in the
\* world, or the map refuses him and he is on the way to another one.
HandlePlayerLogin(w, place) ==
    IF w.s.result = "failed"
    THEN KickPlayer([w EXCEPT !.s.loading = FALSE, !.s.holder = 0, !.s.result = "none"])
    ELSE [w EXCEPT !.s = [@ EXCEPT !.player = place, !.login = w.s.holder, !.loading = FALSE,
                                   !.holder = 0, !.progress = w.s.found, !.result = "none"],
                   !.client.moved = @ \/ place = "transfer"]

ProcessQueryCallbacks(w, place) ==
    IF w.s.result = "none" THEN w ELSE HandlePlayerLogin(w, place)

--------------------------------------------------------------------------------
(* The handlers, with the choices their data make.                          *)

\* HandlePlayerLoginOpcode; the second outcome is a character of another account.
HandlePlayerLoginOpcode(w, p) ==
    IF w.s.loading \/ w.s.player # "none" THEN {KickPlayer(w)}
    ELSE {[w EXCEPT !.s.loading = TRUE, !.s.holder = p.login,
                    !.jobs = Append(@, [kind |-> "load", of |-> p.login])],
          KickPlayer([w EXCEPT !.s.loading = TRUE])}

\* HandleLogoutRequestOpcode: refused, at once, or in 20 seconds.
HandleLogoutRequestOpcode(w) ==
    {[w EXCEPT !.s.leaving = FALSE], LogoutPlayer(w), [w EXCEPT !.s.leaving = TRUE]}

HandleLogoutCancelOpcode(w) ==
    {IF w.s.player = "none" THEN w ELSE [w EXCEPT !.s.leaving = FALSE]}

\* HandleMoveWorldportAck: on the new map, or sent home when that is closed to him.  That
\* the destination is invalid (MovementHandler.cpp 63, LogoutPlayer(false)) cannot happen:
\* the test is the one that TeleportTo has made (Player.cpp 1758) before it stored the
\* destination, which nothing else does, and it depends on data loaded at the start.
HandleMoveWorldportAck(w) ==
    {[w EXCEPT !.s.player = "world"], [w EXCEPT !.client.moved = TRUE]}

Call(w, p) ==
    CASE p.kind = "login" -> HandlePlayerLoginOpcode(w, p)
      [] p.kind = "logout" -> HandleLogoutRequestOpcode(w)
      [] p.kind = "cancel" -> HandleLogoutCancelOpcode(w)
      [] p.kind = "ack" -> HandleMoveWorldportAck(w)
      [] p.kind \in {"enum", "move", "query"} -> {w}

\* Whether the handler is called; if not, the packet is dropped, or put back.
Expected(s, p) ==
    CASE Status(p) = "loggedin" -> s.player = "world"
      [] Status(p) = "recently" -> s.player # "none" \/ s.recently
      [] Status(p) = "transfer" -> s.player = "transfer"
      [] Status(p) = "authed" -> TRUE

TooEarly(s, p) == Status(p) = "loggedin" /\ s.player = "none" /\ ~s.recently

--------------------------------------------------------------------------------
(* WorldSession::Update                                                     *)

\* Mutant: the world thread leaves what is thread-safe to the map, wherever the player is.
UnsafeOnly(p) == Place(p) # "threadsafe"

\* WorldSessionFilter::Process and MapSessionFilter::Process
WorldSessionFilter(p) == Place(p) # "threadsafe" \/ session.player # "world"

MapSessionFilter(p) ==
    Place(p) = "inplace" \/ (Place(p) = "threadsafe" /\ session.player = "world")

Updating == at \in {"world", "map"}

Process(p) == IF at = "world" THEN WorldSessionFilter(p) ELSE MapSessionFilter(p)

\* Mutant: the number of packets is not limited.
HasNextUnlimited ==
    session.socket # "null" /\ recvQueue # <<>> /\ Process(Head(recvQueue))

HasNext ==
    /\ processed <= MaxPerUpdate
    /\ session.socket # "null" /\ recvQueue # <<>> /\ Process(Head(recvQueue))

\* One turn of the loop.
ProcessPacket ==
    /\ Updating /\ HasNext
    /\ recvQueue' = Tail(recvQueue)
    /\ processed' = processed + 1
    /\ LET p == Head(recvQueue)
           w == IF p.kind = "enum" THEN [World EXCEPT !.s.recently = FALSE] ELSE World
       IN
        \/ /\ Expected(w.s, p)
           /\ \E result \in Call(w, p) : Becomes(result)
           /\ delivered' = IF Status(p) = "loggedin"
                           THEN [packet |-> p, login |-> session.login] ELSE delivered
           /\ UNCHANGED requeue
        \/ /\ ~Expected(w.s, p)
           /\ requeue' = IF TooEarly(w.s, p) THEN Append(requeue, p) ELSE requeue
           /\ UNCHANGED <<session, jobs, saved, client, delivered>>
    /\ UNCHANGED <<at, stored, added, sent>>

\* Mutant: the packets go to the end of the queue.
ReaddLast == recvQueue' = recvQueue \o requeue

\* _recvQueue.readd
Readd == recvQueue' = requeue \o recvQueue

\* The end of the Update of the world thread: what was too early is put back, a loaded player
\* arrives, who has waited long enough is logged out (expired), and a session whose socket
\* is closed is deleted, at once or, with a player, after expireTime.
FinishWorldUpdate ==
    /\ at = "world" /\ ~HasNext
    /\ \E expired \in BOOLEAN, place \in {"world", "transfer"} :
        LET called == ProcessQueryCallbacks(World, place)
            w == IF expired /\ called.s.leaving /\ ~called.s.loading
                 THEN LogoutPlayer(called) ELSE called
            lost == w.s.socket = "closed"
            gone == lost /\ (w.s.expire = 0 \/ w.s.forceExit \/ w.s.player = "none")
        IN IF gone
           THEN Becomes(Delete([w EXCEPT !.s.socket = "null"])) /\ recvQueue' = <<>>
           ELSE /\ Becomes([w EXCEPT !.s.expire = IF lost THEN @ - 1 ELSE @])
                /\ Readd
    /\ requeue' = <<>> /\ processed' = 0
    /\ at' = "maps"
    /\ UNCHANGED <<stored, added, sent, delivered>>

\* The end of the Update of the map's thread, where no login is awaited.
FinishMapUpdate ==
    /\ at = "map" /\ ~HasNext
    /\ Readd
    /\ requeue' = <<>> /\ processed' = 0
    /\ at' = "play"
    /\ UNCHANGED <<session, jobs, stored, added, client, sent, saved, delivered>>

--------------------------------------------------------------------------------
(* The tick                                                                 *)

\* AddSession_: a session that is loading a player keeps its place and the new one is
\* deleted; else the new one takes it.
AddSession_ ==
    IF added = FALSE THEN World
    ELSE IF session.alive /\ session.loading
    THEN [World EXCEPT !.client.screen = "off"]
    ELSE [Delete(IF session.alive THEN KickPlayer(World) ELSE World)
            EXCEPT !.s = NewSession, !.client = [screen |-> "characters", told |-> FALSE,
                                                 moved |-> FALSE]]

\* World::UpdateSessions up to the loop of Update.
UpdateSessions ==
    /\ at = "idle"
    /\ Becomes(AddSession_)
    /\ recvQueue' = IF added /\ ~session.loading THEN <<>> ELSE recvQueue
    /\ added' = FALSE
    /\ at' = IF session'.alive THEN "world" ELSE "maps"
    /\ UNCHANGED <<requeue, processed, stored, sent, delivered>>

\* Map::Update of the player's map, or no map has the player in the world.
UpdateMap ==
    /\ at = "maps"
    /\ at' = IF session.player = "world" THEN "map" ELSE "play"
    /\ UNCHANGED <<session, recvQueue, requeue, processed, jobs, stored, added, client, sent,
                   saved, delivered>>

\* The rest of the map's update: something happens to the character, he is saved
\* (Player::Update), teleported far, or nothing of it.
Play ==
    /\ at = "play"
    /\ at' = "idle"
    /\ \/ UNCHANGED <<session, jobs, saved, client>>
       \/ /\ session.player = "world" /\ session.progress < MaxProgress
          /\ session' = [session EXCEPT !.progress = @ + 1]
          /\ UNCHANGED <<jobs, saved, client>>
       \/ /\ session.player = "world" /\ saved < session.progress
          /\ jobs' = Append(jobs, [kind |-> "save", of |-> session.progress])
          /\ saved' = session.progress
          /\ UNCHANGED <<session, client>>
       \/ /\ session.player = "world"
          /\ session' = [session EXCEPT !.player = "transfer"]
          /\ client' = [client EXCEPT !.moved = TRUE]
          /\ UNCHANGED <<jobs, saved>>
    /\ UNCHANGED <<recvQueue, requeue, processed, stored, added, sent, delivered>>

--------------------------------------------------------------------------------
(* The workers of the character database                                    *)

Without(i) == SubSeq(jobs, 1, i - 1) \o SubSeq(jobs, i + 1, Len(jobs))

\* A result nobody waits for is dropped with its future.
Answer(login) ==
    \E result \in {"failed", "loaded"} :
        session' = IF session.holder # login THEN session
                   ELSE [session EXCEPT !.result = result, !.found = stored]

\* Mutant: any job may be done next.
PerformAny(i) ==
    /\ i <= Len(jobs)
    /\ jobs' = Without(i)
    /\ \/ jobs[i].kind = "save" /\ stored' = jobs[i].of /\ UNCHANGED session
       \/ jobs[i].kind = "load" /\ Answer(jobs[i].of) /\ UNCHANGED stored
    /\ UNCHANGED <<recvQueue, requeue, processed, at, added, client, sent, saved, delivered>>

\* A job that a worker has in hand is done.
Perform(i) ==
    /\ i <= Len(jobs) /\ i <= Workers
    /\ jobs' = Without(i)
    /\ \/ jobs[i].kind = "save" /\ stored' = jobs[i].of /\ UNCHANGED session
       \/ jobs[i].kind = "load" /\ Answer(jobs[i].of) /\ UNCHANGED stored
    /\ UNCHANGED <<recvQueue, requeue, processed, at, added, client, sent, saved, delivered>>

--------------------------------------------------------------------------------
(* The client and the network thread                                        *)

Online == session.alive /\ session.socket = "open"

Connect ==
    /\ client.screen = "off" /\ ~added
    /\ sent.count < MaxSent
    /\ sent' = [sent EXCEPT !.count = @ + 1]
    /\ client' = [client EXCEPT !.screen = "connecting"]
    /\ added' = TRUE
    /\ UNCHANGED <<session, recvQueue, requeue, processed, at, jobs, stored, saved, delivered>>

\* WorldSession::QueuePacket
Send(kind) ==
    /\ Online /\ sent.count < MaxSent
    /\ sent' = [sent EXCEPT !.count = @ + 1, !.login = IF kind = "login" THEN @ + 1 ELSE @]
    /\ recvQueue' = Append(recvQueue, [n |-> sent'.count, kind |-> kind, login |-> sent'.login])
    /\ UNCHANGED <<session, requeue, processed, at, jobs, stored, added, saved, delivered>>

\* Back on the character screen, the client asks for the characters before it logs one in;
\* it goes on sending what a player sends until it is told that the logout is complete, and
\* answers it with some more.
ClientSends ==
    \/ client.screen = "characters" /\ Send("enum") /\ client' = [client EXCEPT !.screen = "selecting"]
    \/ client.screen = "characters" /\ Send("cancel") /\ UNCHANGED client
    \/ client.screen = "selecting" /\ Send("login") /\ client' = [client EXCEPT !.screen = "game"]
    \/ /\ client.screen = "game"
       /\ \E kind \in {"logout", "cancel", "move", "query"} : Send(kind)
       /\ UNCHANGED client
    \/ client.moved /\ Send("ack") /\ client' = [client EXCEPT !.moved = FALSE]

\* SMSG_LOGOUT_COMPLETE arrives.
LogoutComplete ==
    /\ client.screen = "game" /\ client.told
    /\ client' = [client EXCEPT !.screen = "characters", !.told = FALSE, !.moved = FALSE]
    /\ UNCHANGED <<server, sent, saved, delivered>>

\* The client is gone; the network thread may notice or not.
Vanish ==
    /\ client.screen \in {"characters", "selecting", "game"}
    /\ client' = [client EXCEPT !.screen = "off", !.told = FALSE, !.moved = FALSE]
    /\ UNCHANGED <<server, sent, saved, delivered>>

\* The network thread, or an idle connection's time-out, closes the socket.
CloseSocket ==
    /\ Online /\ client.screen \in {"off", "connecting"}
    /\ session' = [session EXCEPT !.socket = "closed"]
    /\ UNCHANGED <<recvQueue, requeue, processed, at, jobs, stored, added, client, sent, saved,
                   delivered>>

--------------------------------------------------------------------------------
Update == ProcessPacket \/ FinishWorldUpdate \/ FinishMapUpdate

Tick == UpdateSessions \/ UpdateMap \/ Play

Next ==
    \/ Tick \/ Update
    \/ \E i \in 1..Len(jobs) : Perform(i)
    \/ Connect \/ ClientSends \/ LogoutComplete \/ Vanish \/ CloseSocket

\* The world thread, the map's thread and the first worker go on; no client has to act, and
\* nothing has to happen to a character.
Spec == Init /\ [][Next]_vars /\ WF_vars(Tick \/ Update) /\ WF_vars(Perform(1))

--------------------------------------------------------------------------------
(* Properties                                                               *)

\* What is put back goes where it came from: the packets not yet dealt with are in the order
\* in which they arrived, so that only packets for the character that is not there yet are
\* ever overtaken.
ArrivalOrder ==
    LET left == requeue \o recvQueue IN
    \A i, j \in DOMAIN left : i < j => left[i].n < left[j].n

\* A session has a player, or loads one, or neither; only a player waits to be logged out, so
\* that LogoutPlayer, which uses _player before it tests it (WorldSession.cpp 524), is called
\* with one, and keeps it through the teleports it ends (see HandleMoveWorldportAck); and a
\* packet sent for one character is not handled for the next one, however late it comes.
OneCharacter ==
    /\ delivered.login = delivered.packet.login
    /\ session.player # "none" => ~session.loading
    /\ session.leaving => session.player # "none"
    /\ session.holder # 0 => session.loading

\* Whoever comes back, in this session or the next, finds the character as it was saved,
\* although neither the save nor the load is waited for.
LoadsWhatWasSaved == session.player # "none" => session.progress >= saved

\* What has been sent is dealt with in the end, by the world or by the map or with the
\* session, however often it was put back; and a session that has lost its socket goes.
Unhandled == requeue \o recvQueue # <<>>

NothingIsStuck ==
    /\ Unhandled ~> ~Unhandled
    /\ session.socket = "closed" ~> session.socket # "closed"
================================================================================
