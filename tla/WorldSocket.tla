------------------------------- MODULE WorldSocket -------------------------------
(***************************************************************************)
(* One client connection: the network thread that reads, answers and       *)
(* writes for it, and the world thread, which owns the WorldSession that   *)
(* the socket points to and closes the socket whenever it wants to.        *)
(* The write queue is that of builds without IOCP.                         *)
(***************************************************************************)
EXTENDS Integers, Sequences, SequencesExt

CONSTANTS
    MaxPackets,     \* bound on the packets sent to the client
    Large,          \* those that do not fit into a send buffer
    Capacity        \* packets that fit into a send buffer

ASSUME SocketAssumption ==
    /\ MaxPackets \in Nat /\ MaxPackets >= 2
    /\ Large \subseteq 1..MaxPackets
    /\ Capacity \in Nat \ {0}

VARIABLES
    place,          \* the NetworkThread's list of sockets that holds it
    closed, closing,
    writeQueue,     \* buffers, each a sequence of packets
    isWritingAsync,
    reading,        \* an async_read_some is outstanding
    bufferQueue,    \* packets other threads have sent (an MPSCQueue)
    query,          \* what _queryProcessor waits for
    ready,          \* its result is there
    worldSession,   \* _worldSession is not null
    session,        \* where that WorldSession is
    net, back,      \* the network thread, and where CloseSocket returns to
    world,          \* the world thread
    sent, answer,   \* history: packets sent, the one that rejects the client
    wire,           \* history: packets the operating system has taken
    broken          \* nothing can be written any more

socketVars == <<closed, closing>>
writeVars == <<writeQueue, isWritingAsync, wire>>
sendVars == <<bufferQueue, sent, answer>>
queryVars == <<query, ready>>
sessionVars == <<worldSession, session>>
vars == <<place, socketVars, writeVars, reading, sendVars, queryVars, sessionVars,
          net, back, world, broken>>

TypeOK ==
    /\ place \in {"new", "listed", "removed"}
    /\ closed \in BOOLEAN /\ closing \in BOOLEAN
    /\ writeQueue \in Seq(Seq(1..MaxPackets))
    /\ isWritingAsync \in BOOLEAN /\ reading \in BOOLEAN
    /\ bufferQueue \in Seq(1..MaxPackets)
    /\ query \in {"none", "ip", "account", "permissions"} /\ ready \in BOOLEAN
    /\ worldSession \in BOOLEAN
    /\ session \in {"none", "created", "handed", "listed", "deleted"}
    /\ net \in {"idle", "update", "writing", "callbacks", "parsing", "locked", "logging",
               "closing", "gone"}
    /\ back \in {"idle", "callbacks"}
    /\ world \in {"idle", "kicking", "deleting", "gone"}
    /\ sent \in 0..MaxPackets /\ answer \in 0..MaxPackets
    /\ wire \in Seq(1..MaxPackets)
    /\ broken \in BOOLEAN

\* Start has made the first query and AddSocket has queued the socket.
Init ==
    /\ place = "new"
    /\ closed = FALSE /\ closing = FALSE
    /\ writeQueue = <<>> /\ isWritingAsync = FALSE /\ wire = <<>>
    /\ reading = FALSE
    /\ bufferQueue = <<>> /\ sent = 0 /\ answer = 0
    /\ query = "ip" /\ ready = FALSE
    /\ worldSession = FALSE /\ session = "none"
    /\ net = "idle" /\ back = "idle" /\ world = "idle"
    /\ broken = FALSE

\* Mutant: _closed is forgotten.
IsNotClosing == ~closing

IsOpen == ~closed /\ ~closing

SendPacket ==
    IF IsOpen
    THEN sent' = sent + 1 /\ bufferQueue' = Append(bufferQueue, sent + 1)
    ELSE UNCHANGED <<sent, bufferQueue>>

\* CloseSocket up to the exchange of _closed; OnClose does the rest.
NetworkCloses(returnTo) ==
    /\ closed' = TRUE
    /\ net' = IF closed THEN returnTo ELSE "closing"
    /\ back' = IF closed THEN back ELSE returnTo

\* Mutant: the pointer is cleared without _worldSessionLock.
OnCloseUnlocked == worldSession' = FALSE

OnClose ==
    /\ net \notin {"locked", "logging"}      \* the network thread holds _worldSessionLock
    /\ worldSession' = FALSE

NetworkOnClose ==
    /\ net = "closing"
    /\ OnClose
    /\ broken' = TRUE       \* shutdown
    /\ net' = back /\ back' = "idle"
    /\ UNCHANGED <<place, socketVars, writeVars, reading, sendVars, queryVars, session, world>>

-----------------------------------------------------------------------------
(* The network thread: NetworkThread::Update and WorldSocket::Update *)

AddNewSockets ==
    /\ net = "idle" /\ place = "new"
    /\ place' = IF IsOpen THEN "listed" ELSE "removed"
    /\ UNCHANGED <<socketVars, writeVars, reading, sendVars, queryVars, sessionVars, net, back,
                   world, broken>>

\* A packet goes into the current buffer, or into the next one, or into its own.
Pack(filled, packet) ==
    LET full == packet \in Large \/ Len(filled.buffer) = Capacity
        flushed == IF full THEN [queue |-> Append(filled.queue, filled.buffer), buffer |-> <<>>]
                   ELSE filled
    IN  IF packet \in Large THEN [flushed EXCEPT !.queue = Append(@, <<packet>>)]
        ELSE [flushed EXCEPT !.buffer = Append(@, packet)]

Buffers(packets) ==
    LET filled == FoldLeft(Pack, [queue |-> <<>>, buffer |-> <<>>], packets)
    IN  filled.queue \o (IF filled.buffer = <<>> THEN <<>> ELSE <<filled.buffer>>)

\* Dequeue may find nothing while another thread is adding.
StartUpdate ==
    /\ net = "idle" /\ place = "listed"
    /\ \E n \in 0..Len(bufferQueue) :
          /\ writeQueue' = writeQueue \o Buffers(SubSeq(bufferQueue, 1, n))
          /\ bufferQueue' = SubSeq(bufferQueue, n + 1, Len(bufferQueue))
    /\ net' = "update"
    /\ UNCHANGED <<place, socketVars, isWritingAsync, wire, reading, sent, answer, queryVars,
                   sessionVars, back, world, broken>>

RemoveSocket ==
    /\ net = "update" /\ closed
    /\ place' = "removed"
    /\ net' = "idle"
    /\ UNCHANGED <<socketVars, writeVars, reading, sendVars, queryVars, sessionVars, back, world,
                   broken>>

BaseUpdate ==
    /\ net = "update" /\ ~closed
    /\ net' = IF isWritingAsync \/ writeQueue = <<>> THEN "callbacks" ELSE "writing"
    /\ UNCHANGED <<place, socketVars, writeVars, reading, sendVars, queryVars, sessionVars, back,
                   world, broken>>

\* The front buffer is gone, written or not: a closing socket may be done.
PopBuffer(next, end) ==
    /\ writeQueue' = Tail(writeQueue)
    /\ isWritingAsync' = FALSE
    /\ IF closing /\ Tail(writeQueue) = <<>>
       THEN NetworkCloses(end)
       ELSE net' = next /\ UNCHANGED <<closed, back>>

\* Mutant: what was written is not taken off the buffer.
KeepWritten(n) == writeQueue' = writeQueue

ReadCompleted(n) ==
    writeQueue' = [writeQueue EXCEPT ![1] = SubSeq(@, n + 1, Len(@))]

\* One write_some; next and end are where the thread goes on if HandleQueue
\* returns true and if it returns false.
HandleQueue(next, end) ==
    LET buffer == Head(writeQueue) IN
    /\ \/ /\ ~broken /\ buffer # <<>>
          /\ wire' = wire \o buffer
          /\ PopBuffer(IF Len(writeQueue) > 1 THEN next ELSE end, end)
          /\ UNCHANGED broken
       \/ \* a part, or nothing for now
          /\ ~broken
          /\ \E n \in 0..(Len(buffer) - 1) :
                /\ wire' = wire \o SubSeq(buffer, 1, n)
                /\ ReadCompleted(n)
          /\ isWritingAsync' = TRUE
          /\ net' = end
          /\ UNCHANGED <<closed, back, broken>>
       \/ \* an error, or an empty buffer
          /\ PopBuffer(end, end)
          /\ broken' = (broken \/ buffer # <<>>)
          /\ UNCHANGED wire
    /\ UNCHANGED <<place, closing, reading, sendVars, queryVars, sessionVars, world>>

WriteQueued == net = "writing" /\ HandleQueue("writing", "callbacks")

WriteHandler == net = "idle" /\ isWritingAsync /\ HandleQueue("idle", "idle")

\* ProcessReadyCallbacks
RunsCallback(which) == net = "callbacks" /\ ready /\ query = which

\* Mutant: a callback that was invoked stays.
CallbackStays == UNCHANGED queryVars

CallbackDone == query' = "none" /\ ready' = FALSE

NoneReady ==
    /\ net = "callbacks" /\ ~ready
    /\ net' = "idle"
    /\ UNCHANGED <<place, socketVars, writeVars, reading, sendVars, queryVars, sessionVars, back,
                   world, broken>>

DelayedCloseSocket ==
    /\ closing' = TRUE
    /\ IF writeQueue = <<>> THEN NetworkCloses("idle")
       ELSE net' = "idle" /\ UNCHANGED <<closed, back>>

\* CheckIpCallback and HandleAuthSessionCallback turn the client away.
Reject ==
    /\ RunsCallback("ip") \/ RunsCallback("account")
    /\ SendPacket
    /\ answer' = sent'
    /\ CallbackDone
    /\ DelayedCloseSocket
    /\ UNCHANGED <<place, writeVars, reading, sessionVars, world, broken>>

CheckIpCallback ==
    /\ RunsCallback("ip")
    /\ reading' = IsOpen
    /\ SendPacket                  \* SMSG_AUTH_CHALLENGE
    /\ CallbackDone
    /\ net' = "idle"
    /\ UNCHANGED <<place, socketVars, writeVars, answer, sessionVars, back, world, broken>>

HandleAuthSessionCallback ==
    /\ RunsCallback("account")
    /\ session' = "created" /\ worldSession' = TRUE
    /\ query' = "permissions" /\ ready' = FALSE
    /\ reading' = IsOpen
    /\ net' = "idle"
    /\ UNCHANGED <<place, socketVars, writeVars, sendVars, back, world, broken>>

LoadSessionPermissionsCallback ==
    /\ RunsCallback("permissions")
    /\ session' = "handed"
    /\ CallbackDone
    /\ net' = "idle"
    /\ UNCHANGED <<place, socketVars, writeVars, reading, sendVars, worldSession, back, world,
                   broken>>

-----------------------------------------------------------------------------
(* The network thread: reading *)

AsyncRead == reading' = IsOpen

ReadFails ==
    /\ net = "idle" /\ reading
    /\ reading' = FALSE
    /\ NetworkCloses("idle")
    /\ UNCHANGED <<place, closing, writeVars, sendVars, queryVars, sessionVars, world, broken>>

ReadHandler ==
    /\ net = "idle" /\ reading
    /\ reading' = FALSE
    /\ net' = IF IsOpen THEN "parsing" ELSE "idle"
    /\ UNCHANGED <<place, socketVars, writeVars, sendVars, queryVars, sessionVars, back, world,
                   broken>>

EndOfData ==
    /\ net = "parsing"
    /\ AsyncRead
    /\ net' = "idle"
    /\ UNCHANGED <<place, socketVars, writeVars, sendVars, queryVars, sessionVars, back, world,
                   broken>>

\* Mutant: the rest of the data is read while the account is looked up.
AuthSessionGoesOn ==
    /\ query' = "account" /\ ready' = FALSE
    /\ UNCHANGED <<closed, net, back>>

\* WaitingForQuery: the callback reads on.
AuthSession ==
    /\ query' = "account" /\ ready' = FALSE
    /\ net' = "idle"
    /\ UNCHANGED <<closed, back>>

HandleAuthSession ==
    /\ net = "parsing" /\ session = "none"
    /\ AuthSession
    /\ UNCHANGED <<place, closing, writeVars, reading, sendVars, sessionVars, world, broken>>

\* A second CMSG_AUTH_SESSION, _authed being set with the session.  try_lock fails
\* while the world thread is in OnClose.
DuplicateAuthSession ==
    /\ net = "parsing" /\ session # "none"
    /\ \/ net' = "logging" /\ UNCHANGED <<closed, back>>
       \/ world # "idle" /\ NetworkCloses("idle")
    /\ UNCHANGED <<place, closing, writeVars, reading, sendVars, queryVars, sessionVars, world,
                   broken>>

LogOffender ==
    /\ net = "logging" /\ worldSession
    /\ NetworkCloses("idle")
    /\ UNCHANGED <<place, closing, writeVars, reading, sendVars, queryVars, sessionVars, world,
                   broken>>

\* The offender's name is asked of a null pointer, and the server is gone.
LogNobody ==
    /\ net = "logging" /\ ~worldSession
    /\ net' = "gone" /\ world' = "gone"
    /\ UNCHANGED <<place, socketVars, writeVars, reading, sendVars, queryVars, sessionVars, back,
                   broken>>

\* A header or a packet that does not parse, a packet without a session.
BadPacket ==
    /\ net = "parsing"
    /\ NetworkCloses("idle")
    /\ UNCHANGED <<place, closing, writeVars, reading, sendVars, queryVars, sessionVars, world,
                   broken>>

\* Every other packet needs the session: the pointer is not null, and the lock is
\* kept while it is used.
LockSession ==
    /\ net = "parsing" /\ worldSession
    /\ net' = "locked"
    /\ UNCHANGED <<place, socketVars, writeVars, reading, sendVars, queryVars, sessionVars, back,
                   world, broken>>

\* It is queued with the session, or answered if it is a CMSG_PING.
ReadDataHandler ==
    /\ net = "locked"
    /\ net' = "parsing"
    /\ \/ UNCHANGED <<sent, bufferQueue>>
       \/ sent < MaxPackets /\ SendPacket
    /\ UNCHANGED <<place, socketVars, writeVars, reading, answer, queryVars, sessionVars, back,
                   world, broken>>

\* No handler for the opcode, too many pings.
ReadDataHandlerError ==
    /\ net = "locked"
    /\ NetworkCloses("idle")
    /\ UNCHANGED <<place, closing, writeVars, reading, sendVars, queryVars, sessionVars, world,
                   broken>>

-----------------------------------------------------------------------------
(* The world thread, and the database *)

QueryCompletes ==
    /\ query # "none" /\ ~ready /\ world # "gone"
    /\ ready' = TRUE
    /\ UNCHANGED <<place, socketVars, writeVars, reading, sendVars, query, sessionVars, net, back,
                   world, broken>>

AddSession ==
    /\ world = "idle" /\ session = "handed"
    /\ session' = "listed"
    /\ UNCHANGED <<place, socketVars, writeVars, reading, sendVars, queryVars, worldSession, net,
                   back, world, broken>>

\* Also what the map threads send, while the world thread waits for them.
SessionSendPacket ==
    /\ world = "idle" /\ session = "listed"
    /\ sent < MaxPackets
    /\ SendPacket
    /\ UNCHANGED <<place, socketVars, writeVars, reading, answer, queryVars, sessionVars, net, back,
                   world, broken>>

\* CloseSocket by the world thread, which then goes on with what.
WorldCloses(what) ==
    /\ world = "idle"
    /\ closed' = TRUE
    /\ world' = IF closed THEN "idle" ELSE what
    /\ session' = IF closed /\ what = "deleting" THEN "deleted" ELSE session
    /\ UNCHANGED <<place, closing, writeVars, reading, sendVars, queryVars, worldSession, net, back,
                   broken>>

\* Kicked, or idle for too long.
KickPlayer == session = "listed" /\ WorldCloses("kicking")

\* Turned away or replaced in AddSession_: kicked and deleted at once.
DeleteSession == session \in {"handed", "listed"} /\ WorldCloses("deleting")

WorldOnClose ==
    /\ world \in {"kicking", "deleting"}
    /\ OnClose
    /\ broken' = TRUE       \* shutdown
    /\ session' = IF world = "deleting" THEN "deleted" ELSE session
    /\ world' = "idle"
    /\ UNCHANGED <<place, socketVars, writeVars, reading, sendVars, queryVars, net, back>>

\* Update drops m_Socket and UpdateSessions deletes the session.
UpdateSession ==
    /\ world = "idle" /\ session = "listed" /\ ~IsOpen
    /\ session' = "deleted"
    /\ UNCHANGED <<place, socketVars, writeVars, reading, sendVars, queryVars, worldSession, net,
                   back, world, broken>>

-----------------------------------------------------------------------------
\* What the network thread does once it runs a handler.
InHandler ==
    \/ RemoveSocket \/ BaseUpdate \/ WriteQueued
    \/ NoneReady \/ Reject \/ CheckIpCallback
    \/ HandleAuthSessionCallback \/ LoadSessionPermissionsCallback
    \/ EndOfData \/ HandleAuthSession \/ BadPacket \/ LockSession
    \/ ReadDataHandler \/ ReadDataHandlerError
    \/ DuplicateAuthSession \/ LogOffender \/ LogNobody
    \/ NetworkOnClose

Next ==
    \/ AddNewSockets \/ StartUpdate \/ WriteHandler \/ ReadFails \/ ReadHandler
    \/ InHandler
    \/ QueryCompletes
    \/ AddSession \/ SessionSendPacket \/ KickPlayer \/ DeleteSession \/ WorldOnClose
    \/ UpdateSession

\* Handlers go on and come to the end of what was read, the update timer fires,
\* the world thread goes on and updates its sessions.
Fairness ==
    /\ WF_vars(InHandler) /\ SF_vars(EndOfData)
    /\ WF_vars(AddNewSockets) /\ WF_vars(StartUpdate)
    /\ WF_vars(WorldOnClose) /\ WF_vars(AddSession) /\ WF_vars(UpdateSession)

Spec == Init /\ [][Next]_vars /\ Fairness

-----------------------------------------------------------------------------
(* The network thread uses no session that has been deleted.  Under        *)
(* _worldSessionLock it uses the pointer that it has tested for null,      *)
(* while the world thread may kick, replace or delete at any moment; in    *)
(* the permissions' callback it uses it without a lock and without a test, *)
(* although the client may have gone since the query.  After a second      *)
(* CMSG_AUTH_SESSION it has the lock but makes no test: there the pointer  *)
(* is null only if the socket has been closed meanwhile, and then the      *)
(* server crashes (LogNobody; WorldSocket.cpp 330-398, 625-631,            *)
(* WorldSession.cpp 485-500).                                              *)
SessionIsThere ==
    /\ net = "locked" => worldSession
    /\ net \in {"locked", "logging"} /\ worldSession => session \notin {"none", "deleted"}
    /\ net \in {"logging", "gone"} => worldSession \/ closed
    /\ RunsCallback("permissions") => worldSession /\ session = "created"

(* The client gets what was sent, in order: nothing is lost, doubled or    *)
(* overtaken between the threads that send, the buffers and the partial    *)
(* writes, and there is no gap before the connection breaks.  Headers are  *)
(* encrypted with a stream cipher, in the order of the buffers             *)
(* (WorldSocket.cpp 83-128, Socket.h 205-262).                             *)
StreamIsWhole ==
    LET all == [i \in 1..sent |-> i]
        pending == FlattenSeq(writeQueue) \o bufferQueue
    IN  IsPrefix(wire, all) /\ (~broken => wire \o pending = all)

(* No two reads into the same buffer: whenever a callback is going to read *)
(* on, neither a read nor a parser is under way (WorldSocket.cpp 79, 203,  *)
(* 350, 622).                                                              *)
ReadsDoNotOverlap ==
    /\ query \in {"ip", "account"} => ~reading /\ net \notin {"parsing", "locked", "logging"}
    /\ net \in {"parsing", "locked", "logging"} => ~reading

(* A closed socket leaves its network thread, and its session leaves the   *)
(* world, whoever closed it and at whatever point of the login, unless the *)
(* server crashes (NetworkThread.h 135-160, WorldSession.cpp 485-505).     *)
ClosedIsCleanedUp ==
    closed ~> world = "gone" \/ (place = "removed" /\ session \notin {"handed", "listed"})

(* DelayedCloseSocket "Marks the socket for closing after write buffer     *)
(* becomes empty" (Socket.h 129): a client that is turned away gets the    *)
(* answer unless its connection breaks.                                    *)
RejectionIsSent ==
    answer # 0 /\ closed /\ ~broken => Contains(wire, answer)
================================================================================
