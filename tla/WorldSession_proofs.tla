-------------------------- MODULE WorldSession_proofs --------------------------
(***************************************************************************)
(* Proofs about the packets of one account, for any number of packets,     *)
(* connections, jobs and updates: they are dealt with in the order in      *)
(* which they arrive, none is handled for another character than the one   *)
(* it was sent for, and with one database worker a character is found as   *)
(* it was last saved.                                                      *)
(*                                                                         *)
(* The invariant says how far the conversation of a session and its client *)
(* has come, which decides what the queue may hold: a client that has left *)
(* the world asks for its characters before it logs one in, and does not   *)
(* log another one in before it is told that the last one is logged out.   *)
(* It is stated of the record that the calls take and return, and of the   *)
(* two queues, so that the calls of one Update can be taken one by one.    *)
(***************************************************************************)
EXTENDS WorldSession, TLAPS

Clients ==
    [screen : {"off", "connecting", "characters", "selecting", "game"},
     told : BOOLEAN, moved : BOOLEAN]

\* What the calls take and return.
Worlds == [s : Sessions, jobs : Seq(Jobs), saved : Characters, client : Clients]

InWorld == {"logout", "move", "query"}      \* what is sent for a character

\* What has been sent is numbered, and still in order.
Ordered(s, m) ==
    /\ \A i, j \in 1..Len(s) : i < j => s[i].n < s[j].n
    /\ \A i \in 1..Len(s) : s[i].n <= m

OrderInv == Ordered(requeue \o recvQueue, sent.count) /\ sent.login <= sent.count

\* A packet is put back only while its player is not there, and by the world thread; the map
\* has the player for the whole of its update.
RequeueInv ==
    /\ requeue # <<>> => session.player = "none" /\ at = "world"
    /\ at = "map" => session.player = "world"

\* The states of a session that exclude each other.
LoginOf(w) ==
    /\ w.s.player # "none" => ~w.s.loading
    /\ w.s.leaving => w.s.player # "none"
    /\ w.s.holder # 0 => w.s.loading /\ w.s.holder <= sent.login
    /\ w.s.result # "none" => w.s.holder # 0
    /\ ~w.s.alive => w.s = NoSession

\* A load is for a login of the past.
JobsOf(w) ==
    \A i \in 1..Len(w.jobs) :
        IF w.jobs[i].kind = "save" THEN w.jobs[i].of \in Characters
        ELSE w.jobs[i].of \in 1..sent.login

\* The packets of a kind that are waiting in q, and those for a character.
Of(q, kind) == {i \in 1..Len(q) : q[i].kind = kind}
ForPlayer(q) == {i \in 1..Len(q) : q[i].kind \in InWorld}

NobodyThere(w, r) ==
    w.s.player = "none" /\ ~w.s.loading /\ w.s.holder = 0 /\ r = <<>>

\* No character is in the world or on his way there: what was sent for the last one is dropped.
Choosing(w, q, r) ==
    /\ NobodyThere(w, r)
    /\ Of(q, "enum") = {} /\ Of(q, "login") = {}
    /\ ForPlayer(q) # {} => w.s.recently
    /\ w.client.screen # "selecting"
    /\ w.client.screen = "game" => w.client.told /\ w.s.recently

\* The client has asked for its characters, and has logged none in.
Selecting(w, q, r) ==
    /\ NobodyThere(w, r)
    /\ Of(q, "login") = {}
    /\ \A i, k \in Of(q, "enum") : i = k
    /\ \A i \in ForPlayer(q) : w.s.recently /\ \E k \in Of(q, "enum") : i < k
    /\ w.client.screen \notin {"characters", "game"}

\* It has logged one in, and the server does not know yet.
LoggingIn(w, q, r) ==
    /\ NobodyThere(w, r) /\ sent.login > 0
    /\ \A i \in 1..Len(w.jobs) : w.jobs[i].kind = "load" => w.jobs[i].of < sent.login
    /\ \E j \in Of(q, "login") :
          /\ q[j].login = sent.login
          /\ \A i \in Of(q, "login") : i = j
          /\ \A i, k \in Of(q, "enum") : i = k /\ k < j
          /\ \A i \in ForPlayer(q) :
                IF i < j THEN w.s.recently /\ \E k \in Of(q, "enum") : i < k
                ELSE q[i].login = sent.login
    /\ w.client.screen \notin {"characters", "selecting"}
    /\ w.client.screen = "game" => ~w.client.told

\* The server knows: whatever waits is for that character, and so is the player.
Playing(w, q, r) ==
    /\ Of(q, "enum") = {} /\ Of(q, "login") = {}
    /\ \A i \in ForPlayer(q) : q[i].login = sent.login
    /\ \A i \in 1..Len(r) : r[i].kind \in InWorld /\ r[i].login = sent.login
    /\ w.s.player # "none" => w.s.login = sent.login
    /\ w.s.holder # 0 => w.s.holder = sent.login
    /\ w.client.screen \notin {"characters", "selecting"}
    /\ w.client.screen = "game" => ~w.client.told

Turn(w, q, r) ==
    Choosing(w, q, r) \/ Selecting(w, q, r) \/ LoggingIn(w, q, r) \/ Playing(w, q, r)

ConversationOf(w, q, r) ==
    /\ w.client.screen \in {"characters", "selecting"} => ~w.client.told
    /\ w.s.alive => Turn(w, q, r)

CallInv(w, q, r) == LoginOf(w) /\ JobsOf(w) /\ ConversationOf(w, q, r)

SessionInv ==
    /\ TypeOK /\ OrderInv /\ RequeueInv
    /\ CallInv(World, recvQueue, requeue)
    /\ delivered.login = delivered.packet.login

\* With one worker, what is stored, once the jobs are done, is what was saved last, and a load
\* that is awaited comes after every save.
Saves(w) == {i \in 1..Len(w.jobs) : w.jobs[i].kind = "save"}

SaveOf(w) ==
    /\ Saves(w) = {} => stored = w.saved
    /\ \A i \in Saves(w) : (\A j \in Saves(w) : j <= i) => w.jobs[i].of = w.saved
    /\ \A i \in 1..Len(w.jobs), j \in Saves(w) :
          w.jobs[i].kind = "load" /\ w.jobs[i].of = w.s.holder => j < i
    /\ w.s.result = "loaded" => w.s.found = w.saved
    /\ w.s.player # "none" => w.s.progress >= w.saved

SaveInv == SessionInv /\ SaveOf(World)

--------------------------------------------------------------------------------
(* The calls.                                                               *)

\* What most calls leave alone.
SameLogin(v, w) ==
    /\ v.s.alive = w.s.alive /\ v.s.login = w.s.login /\ v.s.loading = w.s.loading
    /\ v.s.holder = w.s.holder /\ v.s.result = w.s.result /\ v.s.found = w.s.found
    /\ v.s.progress = w.s.progress

\* And what some leave alone, too.
SamePlayer(v, w) ==
    /\ SameLogin(v, w)
    /\ v.s.player = "none" <=> w.s.player = "none"
    /\ v.s.leaving => w.s.leaving \/ w.s.player # "none"
    /\ v.s.recently = w.s.recently
    /\ ~w.s.alive => v.s = w.s
    /\ v.jobs = w.jobs /\ v.saved = w.saved
    /\ v.client.screen = w.client.screen /\ v.client.told = w.client.told

\* A session in its place.
LEMMA WithSession ==
    ASSUME NEW w \in Worlds, NEW s \in Sessions
    PROVE  [w EXCEPT !.s = s] \in Worlds
BY DEF Worlds

\* KickPlayer closes the socket, and leaves all the rest.
LEMMA Kicked ==
    ASSUME NEW w \in Worlds, w.s.alive \/ w.s.socket = "null"
    PROVE  KickPlayer(w) \in Worlds /\ SamePlayer(KickPlayer(w), w)
<1>1. CASE w.s.socket = "null"
    BY <1>1 DEF KickPlayer, SamePlayer, SameLogin
<1>2. CASE w.s.socket # "null"
    <2> DEFINE s == [w.s EXCEPT !.socket = "closed", !.forceExit = TRUE]
    <2>1. w.s \in Sessions
        BY DEF Worlds
    <2>2. s \in Sessions
        BY <2>1 DEF Sessions
    <2>3. KickPlayer(w) = [w EXCEPT !.s = s]
        BY <1>2 DEF KickPlayer, Worlds
    <2>4. KickPlayer(w).s = s
        BY <2>3 DEF Worlds
    <2>5. /\ KickPlayer(w).jobs = w.jobs /\ KickPlayer(w).saved = w.saved
          /\ KickPlayer(w).client = w.client
        BY <2>3 DEF Worlds
    <2>6. /\ s.alive = w.s.alive /\ s.login = w.s.login /\ s.loading = w.s.loading
          /\ s.holder = w.s.holder /\ s.result = w.s.result /\ s.found = w.s.found
          /\ s.progress = w.s.progress /\ s.player = w.s.player
          /\ s.leaving = w.s.leaving /\ s.recently = w.s.recently
        BY <2>1 DEF Sessions
    <2> HIDE DEF s
    <2> QED BY <1>2, <2>2, <2>3, <2>4, <2>5, <2>6, WithSession DEF SamePlayer, SameLogin
<1> QED BY <1>1, <1>2

\* LogoutPlayer saves the character as it is, and tells the client if it can.
LEMMA LoggedOut ==
    ASSUME NEW w \in Worlds
    PROVE  LET v == LogoutPlayer(w) IN
           /\ v \in Worlds /\ SameLogin(v, w)
           /\ v.s.player = "none" /\ v.s.recently /\ ~v.s.leaving
           /\ v.s.socket = w.s.socket /\ v.s.expire = w.s.expire
           /\ v.jobs = Append(w.jobs, [kind |-> "save", of |-> w.s.progress])
           /\ v.saved = w.s.progress
           /\ v.client.screen = w.client.screen
           /\ v.client.told = (w.client.told \/ w.s.socket = "open")
<1> DEFINE v == LogoutPlayer(w)
           s == [w.s EXCEPT !.player = "none", !.recently = TRUE, !.leaving = FALSE]
           c == [w.client EXCEPT !.told = @ \/ w.s.socket = "open"]
<1>1. /\ w.s \in Sessions /\ w.client \in Clients /\ w.jobs \in Seq(Jobs)
      /\ w.saved \in Characters /\ w.s.progress \in Characters
    BY DEF Worlds, Sessions
<1>2. s \in Sessions
    BY <1>1 DEF Sessions
<1>3. c \in Clients
    BY <1>1 DEF Clients
<1>4. v.s = s
    BY DEF LogoutPlayer, Worlds
<1>5. v.client = c
    BY DEF LogoutPlayer, Worlds
<1>6. v.jobs = Append(w.jobs, [kind |-> "save", of |-> w.s.progress])
    BY DEF LogoutPlayer, Worlds
<1>7. v.saved = w.s.progress
    BY DEF LogoutPlayer, Worlds
<1>8. [kind |-> "save", of |-> w.s.progress] \in Jobs
    BY <1>1, SessionAssumption DEF Jobs, Characters
<1>9. v.jobs \in Seq(Jobs)
    BY <1>1, <1>6, <1>8
<1>10. v \in [s : Sessions, jobs : Seq(Jobs), saved : Characters, client : Clients]
    <2>1. v = [w EXCEPT !.s = v.s, !.jobs = v.jobs, !.saved = v.saved, !.client = v.client]
        BY DEF LogoutPlayer, Worlds
    <2> HIDE DEF v
    <2> QED BY <1>1, <1>2, <1>3, <1>4, <1>5, <1>7, <1>9, <2>1 DEF Worlds
<1>11. /\ s.alive = w.s.alive /\ s.login = w.s.login /\ s.loading = w.s.loading
       /\ s.holder = w.s.holder /\ s.result = w.s.result /\ s.found = w.s.found
       /\ s.progress = w.s.progress /\ s.player = "none" /\ s.recently /\ ~s.leaving
       /\ s.socket = w.s.socket /\ s.expire = w.s.expire
    BY <1>1 DEF Sessions
<1>12. c.screen = w.client.screen /\ c.told = (w.client.told \/ w.s.socket = "open")
    BY <1>1 DEF Clients
<1> HIDE DEF s, c
<1> QED BY <1>4, <1>5, <1>6, <1>7, <1>10, <1>11, <1>12 DEF SameLogin, Worlds

\* The query holder's callback finds the character.
LEMMA Arrived ==
    ASSUME NEW w \in Worlds, NEW place \in {"world", "transfer"}, w.s.result = "loaded"
    PROVE  LET v == HandlePlayerLogin(w, place) IN
           /\ v \in Worlds
           /\ v.s.player = place /\ v.s.login = w.s.holder /\ ~v.s.loading
           /\ v.s.holder = 0 /\ v.s.progress = w.s.found /\ v.s.result = "none"
           /\ v.s.alive = w.s.alive /\ v.s.leaving = w.s.leaving /\ v.s.socket = w.s.socket
           /\ v.s.recently = w.s.recently /\ v.s.expire = w.s.expire
           /\ v.jobs = w.jobs /\ v.saved = w.saved
           /\ v.client.screen = w.client.screen /\ v.client.told = w.client.told
<1> DEFINE v == HandlePlayerLogin(w, place)
           s == [w.s EXCEPT !.player = place, !.login = w.s.holder, !.loading = FALSE,
                            !.holder = 0, !.progress = w.s.found, !.result = "none"]
           c == [w.client EXCEPT !.moved = @ \/ place = "transfer"]
<1>1. w.s \in Sessions /\ w.client \in Clients
    BY DEF Worlds
<1>2. s \in Sessions
    <2>1. 0 \in 0..MaxSent
        BY SessionAssumption
    <2>2. w.s.holder \in 0..MaxSent /\ w.s.found \in Characters
        BY <1>1 DEF Sessions
    <2> QED BY <1>1, <2>1, <2>2 DEF Sessions
<1>3. c \in Clients
    BY <1>1 DEF Clients
<1>4. v.s = s
    BY DEF HandlePlayerLogin, Worlds
<1>5. v.client = c
    BY DEF HandlePlayerLogin, Worlds
<1>6. v.jobs = w.jobs /\ v.saved = w.saved
    BY DEF HandlePlayerLogin, Worlds
<1>7. v \in Worlds
    <2>1. v = [w EXCEPT !.s = v.s, !.client = v.client]
        BY DEF HandlePlayerLogin, Worlds
    <2> HIDE DEF v
    <2> QED BY <1>2, <1>3, <1>4, <1>5, <2>1 DEF Worlds
<1>8. /\ s.player = place /\ s.login = w.s.holder /\ ~s.loading
      /\ s.holder = 0 /\ s.progress = w.s.found /\ s.result = "none"
      /\ s.alive = w.s.alive /\ s.leaving = w.s.leaving /\ s.socket = w.s.socket
      /\ s.recently = w.s.recently /\ s.expire = w.s.expire
    BY <1>1 DEF Sessions
<1>9. c.screen = w.client.screen /\ c.told = w.client.told
    BY <1>1 DEF Clients
<1> HIDE DEF s, c
<1> QED BY <1>4, <1>5, <1>6, <1>7, <1>8, <1>9

\* It does not: the client is kicked.
LEMMA NotFound ==
    ASSUME NEW w \in Worlds, NEW place \in {"world", "transfer"}, w.s.result = "failed",
           w.s.alive
    PROVE  LET v == HandlePlayerLogin(w, place) IN
           /\ v \in Worlds
           /\ v.s.player = "none" <=> w.s.player = "none"
           /\ ~v.s.loading /\ v.s.holder = 0 /\ v.s.result = "none"
           /\ v.s.alive = w.s.alive /\ v.s.login = w.s.login
           /\ v.s.progress = w.s.progress /\ v.s.recently = w.s.recently
           /\ v.s.leaving => w.s.leaving \/ w.s.player # "none"
           /\ v.jobs = w.jobs /\ v.saved = w.saved
           /\ v.client.screen = w.client.screen /\ v.client.told = w.client.told
<1> DEFINE s == [w.s EXCEPT !.loading = FALSE, !.holder = 0, !.result = "none"]
           u == [w EXCEPT !.s = s]
<1>1. w.s \in Sessions
    BY DEF Worlds
<1>2. s \in Sessions
    <2>1. 0 \in 0..MaxSent
        BY SessionAssumption
    <2> QED BY <1>1, <2>1 DEF Sessions
<1>3. u \in Worlds /\ u.s = s
    <2> HIDE DEF s
    <2> QED BY <1>2, WithSession DEF Worlds
<1>4. u.jobs = w.jobs /\ u.saved = w.saved /\ u.client = w.client
    BY DEF Worlds
<1>5. [w EXCEPT !.s.loading = FALSE, !.s.holder = 0, !.s.result = "none"] = u
    BY DEF Worlds
<1>6. HandlePlayerLogin(w, place) = KickPlayer(u)
    <2> HIDE DEF u
    <2> QED BY <1>5 DEF HandlePlayerLogin
<1>7. /\ s.player = w.s.player /\ ~s.loading /\ s.holder = 0 /\ s.result = "none"
      /\ s.alive = w.s.alive /\ s.login = w.s.login /\ s.progress = w.s.progress
      /\ s.recently = w.s.recently /\ s.leaving = w.s.leaving /\ s.socket = w.s.socket
    BY <1>1 DEF Sessions
<1> HIDE DEF s, u
<1>8. KickPlayer(u) \in Worlds /\ SamePlayer(KickPlayer(u), u)
    BY <1>3, <1>7, Kicked
<1> QED BY <1>3, <1>4, <1>6, <1>7, <1>8 DEF SamePlayer, SameLogin

--------------------------------------------------------------------------------
(* What the calls keep.                                                     *)

\* Constants in a session.
LEMMA Dead == NoSession \in Sessions /\ NoSession.player = "none" /\ ~NoSession.loading
              /\ NoSession.holder = 0 /\ NoSession.result = "none" /\ ~NoSession.leaving
              /\ ~NoSession.alive /\ NoSession.socket = "null" /\ NoSession.login = 0
<1>1. 0 \in 0..MaxSent /\ 0 \in Characters /\ ExpireUpdates \in 0..ExpireUpdates
    BY SessionAssumption DEF Characters
<1> QED BY <1>1 DEF NoSession, NewSession, Sessions

\* Nothing the invariant speaks of changes.
LEMMA SamePlayerKeeps ==
    ASSUME NEW v, NEW w, NEW q, NEW r, SamePlayer(v, w), CallInv(w, q, r)
    PROVE  CallInv(v, q, r) /\ (SaveOf(w) => SaveOf(v))
<1>1. LoginOf(v)
    BY DEF CallInv, LoginOf, SamePlayer, SameLogin
<1>2. JobsOf(v)
    BY DEF CallInv, JobsOf, SamePlayer
<1>3. ConversationOf(v, q, r)
    BY DEF CallInv, ConversationOf, Turn, Choosing, Selecting, LoggingIn, Playing, NobodyThere,
           SamePlayer, SameLogin
<1>4. SaveOf(w) => SaveOf(v)
    BY DEF SaveOf, Saves, SamePlayer, SameLogin
<1> QED BY <1>1, <1>2, <1>3, <1>4 DEF CallInv

\* The character is given to be saved.
LEMMA SaveGiven ==
    ASSUME NEW w \in Worlds, NEW v, JobsOf(w), v.s.holder = 0, v.s.result = "none",
           v.jobs = Append(w.jobs, [kind |-> "save", of |-> w.s.progress]),
           v.saved = w.s.progress, v.s.player # "none" => v.s.progress = w.s.progress
    PROVE  JobsOf(v) /\ (SaveOf(w) => SaveOf(v))
<1>1. /\ w.jobs \in Seq(Jobs) /\ w.s.progress \in Characters
      /\ [kind |-> "save", of |-> w.s.progress] \in Jobs
    <2>1. w.jobs \in Seq(Jobs) /\ w.s.progress \in Characters
        BY DEF Worlds, Sessions
    <2> QED BY <2>1, SessionAssumption DEF Jobs, Characters
<1>2. /\ Len(v.jobs) = Len(w.jobs) + 1 /\ Len(w.jobs) \in Nat
      /\ \A i \in 1..Len(w.jobs) : v.jobs[i] = w.jobs[i]
      /\ v.jobs[Len(w.jobs) + 1] = [kind |-> "save", of |-> w.s.progress]
    BY <1>1
<1>3. JobsOf(v)
    BY <1>1, <1>2 DEF JobsOf
<1>4. Len(w.jobs) + 1 \in Saves(v)
    BY <1>2 DEF Saves
<1>5. ASSUME NEW i \in Saves(v), \A j \in Saves(v) : j <= i
      PROVE  v.jobs[i].of = v.saved
    <2>1. i = Len(w.jobs) + 1
        BY <1>2, <1>4, <1>5 DEF Saves
    <2> QED BY <1>2, <2>1
<1>6. ASSUME NEW i \in 1..Len(v.jobs), v.jobs[i].kind = "load", v.jobs[i].of = v.s.holder
      PROVE  FALSE
    <2>1. v.jobs[i].of # 0
        BY <1>3, <1>6 DEF JobsOf
    <2> QED BY <1>6, <2>1
<1>7. w.s.progress >= w.s.progress
    BY <1>1 DEF Characters
<1> QED BY <1>3, <1>4, <1>5, <1>6, <1>7 DEF SaveOf

\* A player is logged out, by whatever way.
LEMMA LogoutKeeps ==
    ASSUME NEW w \in Worlds, NEW q, CallInv(w, q, <<>>), w.s.player # "none"
    PROVE  CallInv(LogoutPlayer(w), q, <<>>) /\ (SaveOf(w) => SaveOf(LogoutPlayer(w)))
<1> PICK v \in Worlds : v = LogoutPlayer(w)
    BY LoggedOut
<1>1. /\ SameLogin(v, w) /\ v.s.player = "none" /\ v.s.recently /\ ~v.s.leaving
      /\ v.jobs = Append(w.jobs, [kind |-> "save", of |-> w.s.progress])
      /\ v.saved = w.s.progress
      /\ v.client.screen = w.client.screen
      /\ v.client.told = (w.client.told \/ w.s.socket = "open")
    BY LoggedOut
<1>2. /\ w.s.alive /\ ~w.s.loading /\ w.s.holder = 0 /\ w.s.result = "none"
    BY Dead DEF CallInv, LoginOf, Worlds, Sessions
<1>3. LoginOf(v)
    BY <1>1, <1>2 DEF CallInv, LoginOf, SameLogin
<1>4. ConversationOf(v, q, <<>>)
    <2>1. Playing(w, q, <<>>)
        BY <1>2 DEF CallInv, ConversationOf, Turn, Choosing, Selecting, LoggingIn, NobodyThere
    <2>2. CASE w.client.screen = "game" /\ w.s.socket = "open"
        <3>1. Choosing(v, q, <<>>)
            BY <1>1, <1>2, <2>1, <2>2 DEF Choosing, NobodyThere, Playing, SameLogin
        <3> QED BY <1>1, <2>2, <3>1 DEF ConversationOf, Turn
    <2>3. CASE ~(w.client.screen = "game" /\ w.s.socket = "open")
        <3>1. Playing(v, q, <<>>)
            BY <1>1, <1>2, <2>1, <2>3 DEF Playing, SameLogin
        <3>2. v.client.screen \notin {"characters", "selecting"}
            BY <3>1 DEF Playing
        <3> QED BY <3>1, <3>2 DEF ConversationOf, Turn
    <2> QED BY <2>2, <2>3
<1>5. JobsOf(v) /\ (SaveOf(w) => SaveOf(v))
    BY <1>1, <1>2, SaveGiven DEF SameLogin, CallInv
<1> QED BY <1>3, <1>4, <1>5 DEF CallInv

\* The callback of a login.
LEMMA CallbackKeeps ==
    ASSUME NEW w \in Worlds, NEW place \in {"world", "transfer"}, NEW q, NEW r,
           CallInv(w, q, r)
    PROVE  LET v == ProcessQueryCallbacks(w, place) IN
           /\ v \in Worlds /\ CallInv(v, q, r) /\ (SaveOf(w) => SaveOf(v))
           /\ v.s.alive = w.s.alive
<1>1. CASE w.s.result = "none"
    BY <1>1 DEF ProcessQueryCallbacks
<1>2. CASE w.s.result # "none"
    <2> PICK v : v = HandlePlayerLogin(w, place)
        OBVIOUS
    <2>1. ProcessQueryCallbacks(w, place) = v
        BY <1>2 DEF ProcessQueryCallbacks
    <2>2. /\ w.s.holder # 0 /\ w.s.loading /\ w.s.player = "none" /\ ~w.s.leaving
          /\ w.s.alive
        BY <1>2, Dead DEF CallInv, LoginOf, Worlds, Sessions
    <2>3. Playing(w, q, r)
        BY <2>2 DEF CallInv, ConversationOf, Turn, Choosing, Selecting, LoggingIn, NobodyThere
    <2>4. CASE w.s.result = "loaded"
        <3>1. /\ v \in Worlds
              /\ v.s.player = place /\ v.s.login = w.s.holder /\ ~v.s.loading
              /\ v.s.holder = 0 /\ v.s.progress = w.s.found /\ v.s.result = "none"
              /\ v.s.alive = w.s.alive /\ v.s.leaving = w.s.leaving
              /\ v.jobs = w.jobs /\ v.saved = w.saved
              /\ v.client.screen = w.client.screen /\ v.client.told = w.client.told
            BY <2>4, Arrived
        <3>2. LoginOf(v) /\ JobsOf(v)
            BY <2>2, <3>1 DEF CallInv, LoginOf, JobsOf
        <3>3. Playing(v, q, r)
            BY <2>2, <2>3, <3>1 DEF Playing
        <3>4. ConversationOf(v, q, r)
            BY <3>1, <3>3 DEF CallInv, ConversationOf, Turn
        <3>5. SaveOf(w) => SaveOf(v)
            <4>1. \A i \in 1..Len(v.jobs) : v.jobs[i].kind = "load" => v.jobs[i].of # v.s.holder
                BY <3>1, <3>2 DEF JobsOf
            <4>2. w.s.found >= w.s.found
                BY DEF Worlds, Sessions, Characters
            <4> QED BY <2>4, <3>1, <4>1, <4>2 DEF SaveOf, Saves
        <3> QED BY <2>1, <3>1, <3>2, <3>4, <3>5 DEF CallInv
    <2>5. CASE w.s.result = "failed"
        <3>0. LET u == HandlePlayerLogin(w, place) IN
              /\ u \in Worlds
              /\ u.s.player = "none" <=> w.s.player = "none"
              /\ ~u.s.loading /\ u.s.holder = 0 /\ u.s.result = "none"
              /\ u.s.alive = w.s.alive /\ u.s.login = w.s.login
              /\ u.s.leaving => w.s.leaving \/ w.s.player # "none"
              /\ u.jobs = w.jobs /\ u.saved = w.saved
              /\ u.client.screen = w.client.screen /\ u.client.told = w.client.told
            <4>1. w.s.alive
                BY <2>2
            <4> QED BY <4>1, <2>5, NotFound
        <3>1. /\ v \in Worlds
              /\ v.s.player = "none" /\ ~v.s.loading /\ v.s.holder = 0 /\ v.s.result = "none"
              /\ v.s.alive = w.s.alive /\ v.s.login = w.s.login /\ ~v.s.leaving
              /\ v.jobs = w.jobs /\ v.saved = w.saved
              /\ v.client.screen = w.client.screen /\ v.client.told = w.client.told
            BY <2>2, <3>0
        <3>2. LoginOf(v) /\ JobsOf(v)
            BY <2>2, <3>1 DEF CallInv, LoginOf, JobsOf
        <3>3. Playing(v, q, r)
            BY <2>3, <3>1 DEF Playing
        <3>4. ConversationOf(v, q, r)
            BY <3>1, <3>3 DEF CallInv, ConversationOf, Turn
        <3>5. SaveOf(w) => SaveOf(v)
            <4>1. \A i \in 1..Len(v.jobs) : v.jobs[i].kind = "load" => v.jobs[i].of # v.s.holder
                BY <3>1, <3>2 DEF JobsOf
            <4> QED BY <3>1, <4>1 DEF SaveOf, Saves
        <3> QED BY <2>1, <3>1, <3>2, <3>4, <3>5 DEF CallInv
    <2> QED BY <1>2, <2>4, <2>5 DEF Worlds, Sessions
<1> QED BY <1>1, <1>2

--------------------------------------------------------------------------------
(* The queues.                                                              *)

\* The kinds that are for a player in the world.
LEMMA ForWhom ==
    ASSUME NEW p \in Packets
    PROVE  /\ Status(p) = "loggedin" <=> p.kind \in InWorld
           /\ Status(p) = "transfer" <=> p.kind = "ack"
           /\ Status(p) = "recently" <=> p.kind = "cancel"
           /\ Status(p) = "authed" <=> p.kind \in {"enum", "login"}
           /\ p.n \in 1..MaxSent /\ p.login \in 0..MaxSent
BY DEF Packets, Kinds, Status, InWorld

\* What is left is one place further on.
LEMMA TailOf ==
    ASSUME NEW q \in Seq(Packets), q # <<>>
    PROVE  /\ Tail(q) \in Seq(Packets) /\ Head(q) = q[1] /\ Head(q) \in Packets
           /\ Len(q) \in Nat /\ Len(q) >= 1 /\ Len(Tail(q)) = Len(q) - 1
           /\ \A i \in 1..Len(Tail(q)) : i + 1 \in 1..Len(q) /\ Tail(q)[i] = q[i + 1]
           /\ \A i \in 2..Len(q) : i - 1 \in 1..Len(Tail(q)) /\ Tail(q)[i - 1] = q[i]
OBVIOUS

\* And so for the packets of a kind.
LEMMA TailKinds ==
    ASSUME NEW q \in Seq(Packets), q # <<>>
    PROVE  /\ \A kind : \A i \in Of(Tail(q), kind) : i \in Nat /\ i >= 1 /\ i + 1 \in Of(q, kind)
           /\ \A kind : \A i \in Of(q, kind) : i # 1 => i - 1 \in Of(Tail(q), kind)
           /\ \A i \in ForPlayer(Tail(q)) : i \in Nat /\ i >= 1 /\ i + 1 \in ForPlayer(q)
           /\ \A kind : 1 \in Of(q, kind) <=> Head(q).kind = kind
           /\ 1 \in ForPlayer(q) <=> Head(q).kind \in InWorld
           /\ \A kind : \A i \in Of(q, kind) : i \in Nat /\ i >= 1
           /\ \A i \in ForPlayer(q) : i \in Nat /\ i >= 1
BY TailOf DEF Of, ForPlayer

\* A packet that neither asks for characters nor logs one in is taken off the queue.
LEMMA TakenOff ==
    ASSUME NEW w, NEW q \in Seq(Packets), NEW r, q # <<>>, CallInv(w, q, r),
           Head(q).kind \notin {"enum", "login"}
    PROVE  CallInv(w, Tail(q), r)
<1>1. ASSUME NEW kind \in {"enum", "login"}, NEW i \in Of(q, kind)
      PROVE  i \in Nat /\ i > 1 /\ i - 1 \in Of(Tail(q), kind)
    <2>1. i \in Nat /\ i >= 1 /\ i # 1
        BY TailKinds
    <2> QED BY <2>1, TailKinds
<1>2. ASSUME Choosing(w, q, r)  PROVE  Choosing(w, Tail(q), r)
    BY <1>2, TailKinds DEF Choosing
<1>3. ASSUME Selecting(w, q, r)  PROVE  Selecting(w, Tail(q), r)
    <2>1. Of(Tail(q), "login") = {}
        BY <1>3, TailKinds DEF Selecting
    <2>2. ASSUME NEW i \in Of(Tail(q), "enum"), NEW k \in Of(Tail(q), "enum")  PROVE  i = k
        <3>1. i + 1 = k + 1 /\ i \in Nat /\ k \in Nat
            BY <1>3, TailKinds DEF Selecting
        <3> QED BY <3>1
    <2>3. ASSUME NEW i \in ForPlayer(Tail(q))
          PROVE  w.s.recently /\ \E k \in Of(Tail(q), "enum") : i < k
        <3>1. i \in Nat /\ i + 1 \in ForPlayer(q)
            BY TailKinds
        <3>2. w.s.recently /\ \E k \in Of(q, "enum") : i + 1 < k
            BY <1>3, <3>1 DEF Selecting
        <3>3. PICK k \in Of(q, "enum") : i + 1 < k
            BY <3>2
        <3>4. k - 1 \in Of(Tail(q), "enum") /\ i < k - 1
            BY <1>1, <3>1, <3>3
        <3> QED BY <3>2, <3>4
    <2> QED BY <1>3, <2>1, <2>2, <2>3 DEF Selecting
<1>4. ASSUME LoggingIn(w, q, r)  PROVE  LoggingIn(w, Tail(q), r)
    <2>1. PICK j \in Of(q, "login") :
              /\ q[j].login = sent.login
              /\ \A i \in Of(q, "login") : i = j
              /\ \A i, k \in Of(q, "enum") : i = k /\ k < j
              /\ \A i \in ForPlayer(q) :
                    IF i < j THEN w.s.recently /\ \E k \in Of(q, "enum") : i < k
                    ELSE q[i].login = sent.login
        BY <1>4 DEF LoggingIn
    <2>2. j \in Nat /\ j > 1 /\ j - 1 \in Of(Tail(q), "login")
        BY <1>1
    <2>3. Tail(q)[j - 1].login = sent.login
        <3>1. j \in 2..Len(q)
            BY <2>2, TailOf DEF Of
        <3> QED BY <2>1, <3>1, TailOf
    <2>4. ASSUME NEW i \in Of(Tail(q), "login")  PROVE  i = j - 1
        <3>1. i + 1 = j /\ i \in Nat
            BY <2>1, TailKinds
        <3> QED BY <2>2, <3>1
    <2>5. ASSUME NEW i \in Of(Tail(q), "enum"), NEW k \in Of(Tail(q), "enum")
          PROVE  i = k /\ k < j - 1
        <3>1. i + 1 = k + 1 /\ k + 1 < j /\ i \in Nat /\ k \in Nat
            BY <2>1, TailKinds
        <3> QED BY <2>2, <3>1
    <2>6. ASSUME NEW i \in ForPlayer(Tail(q))
          PROVE  IF i < j - 1 THEN w.s.recently /\ \E k \in Of(Tail(q), "enum") : i < k
                 ELSE Tail(q)[i].login = sent.login
        <3>1. i \in Nat /\ i + 1 \in ForPlayer(q)
            BY TailKinds
        <3>2. CASE i < j - 1
            <4>1. i + 1 < j
                BY <2>2, <3>1, <3>2
            <4>2. w.s.recently /\ \E k \in Of(q, "enum") : i + 1 < k
                BY <2>1, <3>1, <4>1
            <4>3. PICK k \in Of(q, "enum") : i + 1 < k
                BY <4>2
            <4>4. k - 1 \in Of(Tail(q), "enum") /\ i < k - 1
                BY <1>1, <3>1, <4>3
            <4> QED BY <3>2, <4>2, <4>4
        <3>3. CASE ~(i < j - 1)
            <4>1. ~(i + 1 < j)
                BY <2>2, <3>1, <3>3
            <4>2. q[i + 1].login = sent.login
                BY <2>1, <3>1, <4>1
            <4>3. Tail(q)[i] = q[i + 1]
                BY TailOf DEF ForPlayer
            <4> QED BY <3>3, <4>2, <4>3
        <3> QED BY <3>2, <3>3
    <2> QED BY <1>4, <2>2, <2>3, <2>4, <2>5, <2>6 DEF LoggingIn
<1>5. ASSUME Playing(w, q, r)  PROVE  Playing(w, Tail(q), r)
    <2>1. Of(Tail(q), "enum") = {} /\ Of(Tail(q), "login") = {}
        BY <1>5, TailKinds DEF Playing
    <2>2. ASSUME NEW i \in ForPlayer(Tail(q))  PROVE  Tail(q)[i].login = sent.login
        <3>1. i + 1 \in ForPlayer(q) /\ Tail(q)[i] = q[i + 1]
            BY TailKinds, TailOf DEF ForPlayer
        <3> QED BY <1>5, <3>1 DEF Playing
    <2> QED BY <1>5, <2>1, <2>2 DEF Playing
<1> QED BY <1>2, <1>3, <1>4, <1>5 DEF CallInv, ConversationOf, Turn

\* A packet that comes too early for the player that is on his way is put back.
LEMMA PutBack ==
    ASSUME NEW w, NEW q \in Seq(Packets), NEW r \in Seq(Packets), q # <<>>, CallInv(w, q, r),
           w.s.alive, TooEarly(w.s, Head(q))
    PROVE  CallInv(w, Tail(q), Append(r, Head(q)))
<1>1. Head(q) \in Packets /\ Head(q).kind \in InWorld /\ Head(q) = q[1]
    BY TailOf, ForWhom DEF TooEarly
<1>2. 1 \in ForPlayer(q) /\ ~w.s.recently
    BY <1>1, TailKinds DEF TooEarly
<1>3. Head(q).kind \notin {"enum", "login"}
    BY <1>1 DEF InWorld
<1>4. ~Choosing(w, q, r) /\ ~Selecting(w, q, r)
    BY <1>2 DEF Choosing, Selecting
<1>5. ~LoggingIn(w, q, r)
    <2>1. SUFFICES ASSUME LoggingIn(w, q, r)  PROVE  FALSE
        OBVIOUS
    <2>2. PICK j \in Of(q, "login") : \A i \in ForPlayer(q) : i < j => w.s.recently
        BY <2>1 DEF LoggingIn
    <2>3. j \in Nat /\ j >= 1 /\ j # 1
        BY <1>3, TailKinds
    <2> QED BY <1>2, <2>2, <2>3
<1>6. Playing(w, q, r)
    BY <1>4, <1>5 DEF CallInv, ConversationOf, Turn
<1>7. Playing(w, Tail(q), r)
    <2>1. Of(Tail(q), "enum") = {} /\ Of(Tail(q), "login") = {}
        BY <1>6, TailKinds DEF Playing
    <2>2. ASSUME NEW i \in ForPlayer(Tail(q))  PROVE  Tail(q)[i].login = sent.login
        <3>1. i + 1 \in ForPlayer(q) /\ Tail(q)[i] = q[i + 1]
            BY TailKinds, TailOf DEF ForPlayer
        <3> QED BY <1>6, <3>1 DEF Playing
    <2> QED BY <1>6, <2>1, <2>2 DEF Playing
<1>8. Head(q).login = sent.login
    BY <1>1, <1>2, <1>6 DEF Playing
<1>9. ASSUME NEW i \in 1..Len(Append(r, Head(q)))
      PROVE  Append(r, Head(q))[i].kind \in InWorld
             /\ Append(r, Head(q))[i].login = sent.login
    <2>1. CASE i \in 1..Len(r)
        <3>1. Append(r, Head(q))[i] = r[i]
            BY <1>1, <2>1
        <3> QED BY <1>6, <2>1, <3>1 DEF Playing
    <2>2. CASE i = Len(r) + 1
        <3>1. Append(r, Head(q))[i] = Head(q)
            BY <1>1, <2>2
        <3> QED BY <1>1, <1>8, <3>1
    <2> QED BY <1>1, <2>1, <2>2
<1>10. Playing(w, Tail(q), Append(r, Head(q)))
    BY <1>7, <1>9 DEF Playing
<1> QED BY <1>10 DEF CallInv, ConversationOf, Turn

\* What was put back goes where it came from.
LEMMA PutInFront ==
    ASSUME NEW w, NEW q \in Seq(Packets), NEW r \in Seq(Packets), CallInv(w, q, r)
    PROVE  CallInv(w, r \o q, <<>>)
<1>1. CASE r = <<>>
    <2>1. r \o q = q
        BY <1>1
    <2> QED BY <1>1, <2>1
<1>2. CASE r # <<>>
    <2>1. SUFFICES ASSUME Playing(w, q, r)  PROVE  Playing(w, r \o q, <<>>)
        BY <1>2 DEF CallInv, ConversationOf, Turn, Choosing, Selecting, LoggingIn, NobodyThere
    <2>2. ASSUME NEW i \in 1..Len(r \o q)
          PROVE  /\ (r \o q)[i].kind \notin {"enum", "login"}
                 /\ (r \o q)[i].kind \in InWorld => (r \o q)[i].login = sent.login
        <3>1. CASE i \in 1..Len(r)
            <4>1. (r \o q)[i] = r[i]
                BY <3>1
            <4> QED BY <2>1, <3>1, <4>1 DEF Playing, InWorld
        <3>2. CASE i \notin 1..Len(r)
            <4>1. (r \o q)[i] = q[i - Len(r)] /\ i - Len(r) \in 1..Len(q)
                BY <3>2
            <4>2. q[i - Len(r)].kind \notin {"enum", "login"}
                BY <2>1, <4>1 DEF Playing, Of
            <4>3. q[i - Len(r)].kind \in InWorld => q[i - Len(r)].login = sent.login
                BY <2>1, <4>1 DEF Playing, ForPlayer
            <4> QED BY <4>1, <4>2, <4>3
        <3> QED BY <3>1, <3>2
    <2> QED BY <2>1, <2>2 DEF Playing, Of, ForPlayer
<1> QED BY <1>1, <1>2

--------------------------------------------------------------------------------
(* The handlers.                                                            *)

\* A field of the session that the invariant does not tell apart.
LEMMA FieldSet ==
    ASSUME NEW w \in Worlds, w.s.alive, NEW s \in Sessions,
           \/ /\ w.s.player # "none"
              /\ \/ \E l \in BOOLEAN : s = [w.s EXCEPT !.leaving = l]
                 \/ \E place \in {"world", "transfer"} : s = [w.s EXCEPT !.player = place]
           \/ \E e \in 0..ExpireUpdates : s = [w.s EXCEPT !.expire = e]
           \/ \E state \in {"closed", "null"} : s = [w.s EXCEPT !.socket = state]
    PROVE  [w EXCEPT !.s = s] \in Worlds /\ SamePlayer([w EXCEPT !.s = s], w)
<1>1. w.s \in Sessions
    BY DEF Worlds
<1>2. /\ s.alive = w.s.alive /\ s.login = w.s.login /\ s.loading = w.s.loading
      /\ s.holder = w.s.holder /\ s.result = w.s.result /\ s.found = w.s.found
      /\ s.progress = w.s.progress /\ s.recently = w.s.recently
      /\ s.player = "none" <=> w.s.player = "none"
      /\ s.leaving => w.s.leaving \/ w.s.player # "none"
    <2>1. CASE w.s.player # "none" /\ \E l \in BOOLEAN : s = [w.s EXCEPT !.leaving = l]
        BY <1>1, <2>1 DEF Sessions
    <2>2. CASE /\ w.s.player # "none"
               /\ \E place \in {"world", "transfer"} : s = [w.s EXCEPT !.player = place]
        BY <1>1, <2>2 DEF Sessions
    <2>3. CASE \E e \in 0..ExpireUpdates : s = [w.s EXCEPT !.expire = e]
        BY <1>1, <2>3 DEF Sessions
    <2>4. CASE \E state \in {"closed", "null"} : s = [w.s EXCEPT !.socket = state]
        BY <1>1, <2>4 DEF Sessions
    <2> QED BY <2>1, <2>2, <2>3, <2>4
<1> DEFINE v == [w EXCEPT !.s = s]
<1>3. v \in Worlds
    BY WithSession
<1>4. v.s = s /\ v.jobs = w.jobs /\ v.saved = w.saved /\ v.client = w.client
    BY DEF Worlds
<1> HIDE DEF v
<1>5. SamePlayer(v, w)
    BY <1>2, <1>4 DEF SamePlayer, SameLogin
<1> QED BY <1>3, <1>5 DEF v

\* A handler other than that of a login or of CMSG_CHAR_ENUM.
LEMMA HandlerKeeps ==
    ASSUME NEW w \in Worlds, NEW q, NEW r, NEW p \in Packets, CallInv(w, q, r), w.s.alive,
           r # <<>> => w.s.player = "none",
           p.kind \notin {"enum", "login"}, Expected(w.s, p), NEW v \in Call(w, p)
    PROVE  /\ v \in Worlds /\ CallInv(v, q, r) /\ (SaveOf(w) => SaveOf(v))
           /\ r # <<>> => v.s.player = "none"
<1>1. w.s \in Sessions /\ w.client \in Clients
    BY DEF Worlds
<1>2. ASSUME v \in Worlds, SamePlayer(v, w)
      PROVE  /\ v \in Worlds /\ CallInv(v, q, r) /\ (SaveOf(w) => SaveOf(v))
             /\ r # <<>> => v.s.player = "none"
    <2>1. CallInv(v, q, r) /\ (SaveOf(w) => SaveOf(v))
        BY <1>2, SamePlayerKeeps
    <2> QED BY <1>2, <2>1 DEF SamePlayer
<1>3. ASSUME v = w  PROVE  v \in Worlds /\ SamePlayer(v, w)
    BY <1>3 DEF SamePlayer, SameLogin
<1>4. ASSUME NEW l \in BOOLEAN, w.s.player # "none", v = [w EXCEPT !.s.leaving = l]
      PROVE  v \in Worlds /\ SamePlayer(v, w)
    <2>1. PICK s \in Sessions : s = [w.s EXCEPT !.leaving = l]
        <3>1. [w.s EXCEPT !.leaving = l] \in Sessions
            BY <1>1 DEF Sessions
        <3> QED BY <3>1
    <2>2. v = [w EXCEPT !.s = s]
        BY <1>4, <2>1 DEF Worlds
    <2>3. \E b \in BOOLEAN : s = [w.s EXCEPT !.leaving = b]
        BY <2>1
    <2> QED BY <1>4, <2>2, <2>3, FieldSet
<1>5. CASE p.kind = "logout"
    <2>1. w.s.player = "world"
        BY <1>5, ForWhom DEF Expected, InWorld
    <2>2. r = <<>>
        BY <2>1
    <2>3. v \in {[w EXCEPT !.s.leaving = FALSE], LogoutPlayer(w), [w EXCEPT !.s.leaving = TRUE]}
        BY <1>5 DEF Call, HandleLogoutRequestOpcode
    <2>4. CASE v = LogoutPlayer(w)
        <3>1. v \in Worlds
            BY <2>4, LoggedOut
        <3> QED BY <2>1, <2>2, <2>4, <3>1, LogoutKeeps
    <2>5. CASE v # LogoutPlayer(w)
        BY <1>2, <1>4, <2>1, <2>3, <2>5
    <2> QED BY <2>4, <2>5
<1>6. CASE p.kind = "cancel"
    <2>1. v = IF w.s.player = "none" THEN w ELSE [w EXCEPT !.s.leaving = FALSE]
        BY <1>6 DEF Call, HandleLogoutCancelOpcode
    <2> QED BY <1>2, <1>3, <1>4, <2>1
<1>7. CASE p.kind = "ack"
    <2>1. w.s.player = "transfer"
        BY <1>7, ForWhom DEF Expected
    <2>2. v = [w EXCEPT !.s.player = "world"] \/ v = [w EXCEPT !.client.moved = TRUE]
        BY <1>7 DEF Call, HandleMoveWorldportAck
    <2>3. CASE v = [w EXCEPT !.s.player = "world"]
        <3>1. PICK s \in Sessions : s = [w.s EXCEPT !.player = "world"]
            <4>1. [w.s EXCEPT !.player = "world"] \in Sessions
                BY <1>1 DEF Sessions
            <4> QED BY <4>1
        <3>2. v = [w EXCEPT !.s = s]
            BY <2>3, <3>1 DEF Worlds
        <3>3. v \in Worlds /\ SamePlayer(v, w)
            BY <2>1, <3>1, <3>2, FieldSet
        <3> QED BY <1>2, <3>3
    <2>4. CASE v = [w EXCEPT !.client.moved = TRUE]
        <3>1. v.client = [w.client EXCEPT !.moved = TRUE]
            BY <2>4 DEF Worlds
        <3>2. v.client \in Clients /\ v.client.screen = w.client.screen
              /\ v.client.told = w.client.told
            BY <1>1, <3>1 DEF Clients
        <3>3. v.s = w.s /\ v.jobs = w.jobs /\ v.saved = w.saved
            BY <2>4 DEF Worlds
        <3>4. v = [w EXCEPT !.client = v.client]
            BY <2>4 DEF Worlds
        <3>5. v \in Worlds
            BY <3>2, <3>4 DEF Worlds
        <3>6. SamePlayer(v, w)
            BY <3>2, <3>3 DEF SamePlayer, SameLogin
        <3> QED BY <1>2, <3>5, <3>6
    <2> QED BY <2>2, <2>3, <2>4
<1>8. CASE p.kind \in {"move", "query"}
    <2>1. v = w
        BY <1>8 DEF Call
    <2> QED BY <1>2, <1>3, <2>1
<1> QED BY <1>5, <1>6, <1>7, <1>8 DEF Packets, Kinds

\* CMSG_CHAR_ENUM: nothing for a player is left from the last one.
LEMMA EnumKeeps ==
    ASSUME NEW w \in Worlds, NEW q \in Seq(Packets), NEW r, q # <<>>, CallInv(w, q, r),
           w.s.alive, Head(q).kind = "enum", NEW v, v = [w EXCEPT !.s.recently = FALSE]
    PROVE  /\ v \in Worlds /\ CallInv(v, Tail(q), r) /\ (SaveOf(w) => SaveOf(v))
           /\ v.s.player = w.s.player
<1>1. w.s \in Sessions
    BY DEF Worlds
<1>2. PICK s \in Sessions : s = [w.s EXCEPT !.recently = FALSE]
    <2>1. [w.s EXCEPT !.recently = FALSE] \in Sessions
        BY <1>1 DEF Sessions
    <2> QED BY <2>1
<1>3. v = [w EXCEPT !.s = s]
    BY <1>2 DEF Worlds
<1>4. v \in Worlds
    BY <1>3, WithSession
<1>5. v.s = s /\ v.jobs = w.jobs /\ v.saved = w.saved /\ v.client = w.client
    BY <1>3 DEF Worlds
<1>6. SameLogin(v, w) /\ v.s.player = w.s.player /\ v.s.leaving = w.s.leaving
    <2>1. /\ s.alive = w.s.alive /\ s.login = w.s.login /\ s.loading = w.s.loading
          /\ s.holder = w.s.holder /\ s.result = w.s.result /\ s.found = w.s.found
          /\ s.progress = w.s.progress /\ s.player = w.s.player /\ s.leaving = w.s.leaving
        BY <1>1, <1>2 DEF Sessions
    <2> QED BY <1>5, <2>1 DEF SameLogin
<1>7. LoginOf(v) /\ JobsOf(v) /\ (SaveOf(w) => SaveOf(v))
    <2>1. LoginOf(v)
        <3>1. v.s.alive
            BY <1>6 DEF SameLogin
        <3> QED BY <1>6, <3>1 DEF CallInv, LoginOf, SameLogin
    <2>2. JobsOf(v)
        BY <1>5 DEF CallInv, JobsOf
    <2>3. SaveOf(w) => SaveOf(v)
        BY <1>5, <1>6 DEF SaveOf, Saves, SameLogin
    <2> QED BY <2>1, <2>2, <2>3
<1>8. 1 \in Of(q, "enum")
    BY TailKinds
<1>9. CASE Selecting(w, q, r)
    <2>1. Of(Tail(q), "login") = {}
        BY <1>9, TailKinds DEF Selecting
    <2>2. Of(Tail(q), "enum") = {}
        <3>1. SUFFICES ASSUME NEW i \in Of(Tail(q), "enum")  PROVE  FALSE
            OBVIOUS
        <3>2. i \in Nat /\ i >= 1 /\ i + 1 = 1
            BY <1>8, <1>9, TailKinds DEF Selecting
        <3> QED BY <3>2
    <2>3. ForPlayer(Tail(q)) = {}
        <3>1. SUFFICES ASSUME NEW i \in ForPlayer(Tail(q))  PROVE  FALSE
            OBVIOUS
        <3>2. i \in Nat /\ i >= 1 /\ i + 1 \in ForPlayer(q)
            BY TailKinds
        <3>3. PICK k \in Of(q, "enum") : i + 1 < k
            BY <1>9, <3>2 DEF Selecting
        <3>4. k = 1
            BY <1>8, <1>9 DEF Selecting
        <3> QED BY <3>2, <3>3, <3>4
    <2>4. Selecting(v, Tail(q), r)
        BY <1>5, <1>6, <1>9, <2>1, <2>2, <2>3 DEF Selecting, NobodyThere, SameLogin
    <2> QED BY <1>4, <1>5, <1>6, <1>7, <2>4 DEF CallInv, ConversationOf, Turn
<1>10. CASE LoggingIn(w, q, r)
    <2>1. PICK j \in Of(q, "login") :
              /\ q[j].login = sent.login
              /\ \A i \in Of(q, "login") : i = j
              /\ \A i, k \in Of(q, "enum") : i = k /\ k < j
              /\ \A i \in ForPlayer(q) :
                    IF i < j THEN w.s.recently /\ \E k \in Of(q, "enum") : i < k
                    ELSE q[i].login = sent.login
        BY <1>10 DEF LoggingIn
    <2>2. j \in Nat /\ j > 1 /\ j - 1 \in Of(Tail(q), "login")
        <3>1. j \in Nat /\ 1 < j
            BY <1>8, <2>1, TailKinds
        <3> QED BY <3>1, TailKinds
    <2>3. Tail(q)[j - 1].login = sent.login
        <3>1. j \in 2..Len(q)
            BY <2>2, TailOf DEF Of
        <3> QED BY <2>1, <3>1, TailOf
    <2>4. ASSUME NEW i \in Of(Tail(q), "login")  PROVE  i = j - 1
        <3>1. i + 1 = j /\ i \in Nat
            BY <2>1, TailKinds
        <3> QED BY <2>2, <3>1
    <2>5. Of(Tail(q), "enum") = {}
        <3>1. SUFFICES ASSUME NEW i \in Of(Tail(q), "enum")  PROVE  FALSE
            OBVIOUS
        <3>2. i \in Nat /\ i >= 1 /\ i + 1 = 1
            BY <1>8, <2>1, TailKinds
        <3> QED BY <3>2
    <2>6. ASSUME NEW i \in ForPlayer(Tail(q))
          PROVE  ~(i < j - 1) /\ Tail(q)[i].login = sent.login
        <3>1. i \in Nat /\ i >= 1 /\ i + 1 \in ForPlayer(q)
            BY TailKinds
        <3>2. ~(i + 1 < j)
            <4>1. SUFFICES ASSUME i + 1 < j  PROVE  FALSE
                OBVIOUS
            <4>2. PICK k \in Of(q, "enum") : i + 1 < k
                BY <2>1, <3>1, <4>1
            <4>3. k = 1
                BY <1>8, <2>1
            <4> QED BY <3>1, <4>2, <4>3
        <3>3. q[i + 1].login = sent.login
            BY <2>1, <3>1, <3>2
        <3>4. Tail(q)[i] = q[i + 1]
            BY TailOf DEF ForPlayer
        <3>5. ~(i < j - 1)
            BY <2>2, <3>1, <3>2
        <3> QED BY <3>3, <3>4, <3>5
    <2>7. LoggingIn(v, Tail(q), r)
        <3>1. NobodyThere(v, r) /\ sent.login > 0
            BY <1>6, <1>10 DEF LoggingIn, NobodyThere, SameLogin
        <3>2. \A i \in 1..Len(v.jobs) : v.jobs[i].kind = "load" => v.jobs[i].of < sent.login
            BY <1>5, <1>10 DEF LoggingIn
        <3>3. \A i, k \in Of(Tail(q), "enum") : i = k /\ k < j - 1
            BY <2>5
        <3>4. \A i \in ForPlayer(Tail(q)) :
                  IF i < j - 1 THEN v.s.recently /\ \E k \in Of(Tail(q), "enum") : i < k
                  ELSE Tail(q)[i].login = sent.login
            BY <2>6
        <3>5. /\ v.client.screen \notin {"characters", "selecting"}
              /\ v.client.screen = "game" => ~v.client.told
            BY <1>5, <1>10 DEF LoggingIn
        <3> QED BY <2>2, <2>3, <2>4, <3>1, <3>2, <3>3, <3>4, <3>5 DEF LoggingIn
    <2> QED BY <1>4, <1>5, <1>6, <1>7, <2>7 DEF CallInv, ConversationOf, Turn
<1> QED BY <1>8, <1>9, <1>10 DEF CallInv, ConversationOf, Turn, Choosing, Playing

\* The login is read: a job loads the character, or, for a character of another account, the
\* client is kicked.
LEMMA LoginRead ==
    ASSUME NEW w \in Worlds, NEW q \in Seq(Packets), NEW r, q # <<>>, CallInv(w, q, r),
           w.s.alive, Head(q).kind = "login", NEW v \in HandlePlayerLoginOpcode(w, Head(q))
    PROVE  /\ v \in Worlds /\ CallInv(v, Tail(q), r) /\ (SaveOf(w) => SaveOf(v))
           /\ r = <<>>
<1>1. 1 \in Of(q, "login") /\ Head(q) = q[1] /\ Head(q) \in Packets
    BY TailKinds, TailOf
<1>2. LoggingIn(w, q, r)
    BY <1>1 DEF CallInv, ConversationOf, Turn, Choosing, Selecting, Playing
<1>3. /\ w.s.player = "none" /\ ~w.s.loading /\ w.s.holder = 0 /\ r = <<>>
      /\ w.s.result = "none" /\ ~w.s.leaving
    BY <1>2 DEF LoggingIn, NobodyThere, CallInv, LoginOf
<1>4. /\ q[1].login = sent.login /\ Of(q, "enum") = {}
      /\ \A i \in Of(q, "login") : i = 1
      /\ \A i \in ForPlayer(q) : q[i].login = sent.login
    <2>1. PICK j \in Of(q, "login") :
              /\ q[j].login = sent.login
              /\ \A i \in Of(q, "login") : i = j
              /\ \A i, k \in Of(q, "enum") : i = k /\ k < j
              /\ \A i \in ForPlayer(q) :
                    IF i < j THEN w.s.recently /\ \E k \in Of(q, "enum") : i < k
                    ELSE q[i].login = sent.login
        BY <1>2 DEF LoggingIn
    <2>2. j = 1
        BY <1>1, <2>1
    <2>3. ASSUME NEW i \in Of(q, "enum")  PROVE  FALSE
        <3>1. i < 1 /\ i \in Nat /\ i >= 1
            BY <2>1, <2>2, TailKinds
        <3> QED BY <3>1
    <2>4. ASSUME NEW i \in ForPlayer(q)  PROVE  q[i].login = sent.login
        <3>1. ~(i < 1)
            BY TailKinds
        <3> QED BY <2>1, <2>2, <3>1
    <2> QED BY <2>1, <2>2, <2>3, <2>4
<1>5. /\ Of(Tail(q), "enum") = {} /\ Of(Tail(q), "login") = {}
      /\ \A i \in ForPlayer(Tail(q)) : Tail(q)[i].login = sent.login
    <2>1. Of(Tail(q), "enum") = {}
        BY <1>4, TailKinds
    <2>2. ASSUME NEW i \in Of(Tail(q), "login")  PROVE  FALSE
        <3>1. i \in Nat /\ i >= 1 /\ i + 1 = 1
            BY <1>4, TailKinds
        <3> QED BY <3>1
    <2>3. ASSUME NEW i \in ForPlayer(Tail(q))  PROVE  Tail(q)[i].login = sent.login
        <3>1. i + 1 \in ForPlayer(q) /\ Tail(q)[i] = q[i + 1]
            BY TailKinds, TailOf DEF ForPlayer
        <3> QED BY <1>4, <3>1
    <2> QED BY <2>1, <2>2, <2>3
<1>6. Head(q).login = sent.login /\ sent.login \in 1..MaxSent
    <2>1. Head(q).login \in 0..MaxSent
        BY <1>1, ForWhom
    <2> QED BY <1>1, <1>2, <1>4, <2>1, SessionAssumption DEF LoggingIn
<1>7. w.s \in Sessions /\ w.jobs \in Seq(Jobs)
    BY DEF Worlds
<1>8. /\ w.client.screen \notin {"characters", "selecting"}
      /\ w.client.screen = "game" => ~w.client.told
    BY <1>2 DEF LoggingIn
<1>9. w.s.player = "none" /\ w.s.holder = 0 /\ 1..Len(r) = {}
    BY <1>3
<1>10. CASE v = [w EXCEPT !.s.loading = TRUE, !.s.holder = Head(q).login,
                         !.jobs = Append(@, [kind |-> "load", of |-> Head(q).login])]
    <2> PICK job : job = [kind |-> "load", of |-> sent.login]
        OBVIOUS
    <2>1. job \in Jobs
        BY <1>6, SessionAssumption DEF Jobs
    <2>2. PICK s \in Sessions : s = [w.s EXCEPT !.loading = TRUE, !.holder = sent.login]
        <3>1. sent.login \in 0..MaxSent
            BY <1>6
        <3>2. [w.s EXCEPT !.loading = TRUE, !.holder = sent.login] \in Sessions
            BY <1>7, <3>1 DEF Sessions
        <3> QED BY <3>2
    <2>3. v = [w EXCEPT !.s = s, !.jobs = Append(w.jobs, job)]
        BY <1>6, <1>10, <2>2 DEF Worlds
    <2>4. PICK js \in Seq(Jobs) : js = Append(w.jobs, job)
        <3>1. Append(w.jobs, job) \in Seq(Jobs)
            BY <1>7, <2>1
        <3> QED BY <3>1
    <2>5. v \in Worlds
        BY <2>3, <2>4 DEF Worlds
    <2>6. v.s = s /\ v.jobs = js /\ v.saved = w.saved /\ v.client = w.client
        BY <2>3, <2>4 DEF Worlds
    <2>7. /\ s.alive = w.s.alive /\ s.player = w.s.player /\ s.loading
          /\ s.holder = sent.login /\ s.result = w.s.result /\ s.leaving = w.s.leaving
        BY <1>7, <2>2 DEF Sessions
    <2>8. /\ Len(js) = Len(w.jobs) + 1 /\ Len(w.jobs) \in Nat
          /\ \A i \in 1..Len(w.jobs) : js[i] = w.jobs[i]
          /\ js[Len(w.jobs) + 1] = job /\ job.kind = "load" /\ job.of = sent.login
        BY <1>7, <2>1, <2>4
    <2>9. LoginOf(v)
        BY <1>3, <1>6, <2>6, <2>7 DEF LoginOf
    <2>10. JobsOf(v)
        BY <1>6, <2>6, <2>8 DEF CallInv, JobsOf
    <2>11. Playing(v, Tail(q), r)
        BY <1>5, <1>8, <1>9, <2>6, <2>7 DEF Playing
    <2>12. ConversationOf(v, Tail(q), r)
        BY <1>8, <2>6, <2>11 DEF ConversationOf, Turn
    <2>13. SaveOf(w) => SaveOf(v)
        <3>1. Saves(v) = Saves(w)
            BY <2>6, <2>8 DEF Saves
        <3>2. \A i \in Saves(w) : v.jobs[i] = w.jobs[i] /\ i < Len(w.jobs) + 1
            BY <2>6, <2>8 DEF Saves
        <3>3. ASSUME NEW i \in 1..Len(v.jobs), v.jobs[i].kind = "load",
                     v.jobs[i].of = v.s.holder
              PROVE  i = Len(w.jobs) + 1
            <4>1. SUFFICES ASSUME i \in 1..Len(w.jobs)  PROVE  FALSE
                BY <2>6, <2>8
            <4>2. w.jobs[i].kind = "load" /\ w.jobs[i].of = sent.login
                BY <2>6, <2>7, <2>8, <3>3, <4>1
            <4>3. w.jobs[i].of < sent.login
                BY <1>2, <4>1, <4>2 DEF LoggingIn
            <4> QED BY <1>6, <4>2, <4>3
        <3> QED BY <1>3, <2>6, <2>7, <3>1, <3>2, <3>3 DEF SaveOf
    <2> QED BY <1>3, <2>5, <2>9, <2>10, <2>12, <2>13 DEF CallInv
<1>11. CASE v = KickPlayer([w EXCEPT !.s.loading = TRUE])
    <2>1. PICK s \in Sessions : s = [w.s EXCEPT !.loading = TRUE]
        <3>1. [w.s EXCEPT !.loading = TRUE] \in Sessions
            BY <1>7 DEF Sessions
        <3> QED BY <3>1
    <2>2. PICK u : u = [w EXCEPT !.s = s]
        OBVIOUS
    <2>3. u \in Worlds /\ v = KickPlayer(u)
        <3>1. [w EXCEPT !.s.loading = TRUE] = u
            BY <2>1, <2>2 DEF Worlds
        <3> QED BY <1>11, <2>2, <3>1, WithSession
    <2>4. u.s = s /\ u.jobs = w.jobs /\ u.saved = w.saved /\ u.client = w.client
        BY <2>2 DEF Worlds
    <2>5. /\ s.alive = w.s.alive /\ s.player = w.s.player /\ s.loading
          /\ s.holder = w.s.holder /\ s.result = w.s.result /\ s.leaving = w.s.leaving
          /\ s.found = w.s.found /\ s.progress = w.s.progress
        BY <1>7, <2>1 DEF Sessions
    <2>6. LoginOf(u)
        <3>1. u.s.alive
            BY <2>4, <2>5
        <3> QED BY <1>3, <1>6, <2>4, <2>5, <3>1 DEF LoginOf
    <2>7. JobsOf(u)
        BY <2>4 DEF CallInv, JobsOf
    <2>8. Playing(u, Tail(q), r)
        BY <1>5, <1>8, <1>9, <2>4, <2>5 DEF Playing
    <2>9. CallInv(u, Tail(q), r)
        BY <1>8, <2>4, <2>6, <2>7, <2>8 DEF CallInv, ConversationOf, Turn
    <2>10. SaveOf(w) => SaveOf(u)
        BY <2>4, <2>5 DEF SaveOf, Saves
    <2>11. v \in Worlds /\ SamePlayer(v, u)
        <3>1. u.s.alive
            BY <2>4, <2>5
        <3> QED BY <2>3, <3>1, Kicked
    <2>12. CallInv(v, Tail(q), r) /\ (SaveOf(u) => SaveOf(v))
        BY <2>9, <2>11, SamePlayerKeeps
    <2> QED BY <1>3, <2>10, <2>11, <2>12
<1> QED BY <1>3, <1>10, <1>11 DEF HandlePlayerLoginOpcode

--------------------------------------------------------------------------------
(* Sessions that end, sessions that begin, and screens that go off.         *)

\* ~WorldSession: whatever was in the queue went with it.
LEMMA DeleteKeeps ==
    ASSUME NEW w \in Worlds, NEW q, CallInv(w, q, <<>>), NEW p, NEW r
    PROVE  /\ Delete(w) \in Worlds /\ Delete(w).s = NoSession
           /\ CallInv(Delete(w), p, r) /\ (SaveOf(w) => SaveOf(Delete(w)))
<1>1. PICK u \in Worlds : /\ u = (IF w.s.player # "none" THEN LogoutPlayer(w) ELSE w)
                          /\ CallInv(u, q, <<>>) /\ (SaveOf(w) => SaveOf(u))
    <2>1. CASE w.s.player # "none"
        BY <2>1, LoggedOut, LogoutKeeps
    <2>2. CASE w.s.player = "none"
        BY <2>2
    <2> QED BY <2>1, <2>2
<1>2. Delete(w) = [u EXCEPT !.s = NoSession]
    BY <1>1 DEF Delete
<1>3. Delete(w) \in Worlds
    BY <1>2, Dead, WithSession
<1>4. PICK v \in Worlds : v = Delete(w)
    BY <1>3
<1>5. v.s = NoSession /\ v.jobs = u.jobs /\ v.saved = u.saved /\ v.client = u.client
    BY <1>2, <1>4 DEF Worlds
<1>6. LoginOf(v)
    BY <1>5, Dead DEF LoginOf
<1>7. JobsOf(v)
    BY <1>1, <1>5 DEF CallInv, JobsOf
<1>8. ConversationOf(v, p, r)
    BY <1>1, <1>5, Dead DEF CallInv, ConversationOf
<1>9. SaveOf(u) => SaveOf(v)
    <2>1. \A i \in 1..Len(v.jobs) : v.jobs[i].kind = "load" => v.jobs[i].of # 0
        BY <1>7 DEF JobsOf
    <2> QED BY <1>5, <2>1, Dead DEF SaveOf, Saves
<1> QED BY <1>1, <1>3, <1>4, <1>5, <1>6, <1>7, <1>8, <1>9 DEF CallInv

\* A session that has just been made: the client shows the characters.
LEMMA NewSessionKeeps ==
    ASSUME NEW w \in Worlds, NEW q, CallInv(w, q, <<>>), w.s = NoSession,
           NEW v, v = [w EXCEPT !.s = NewSession,
                                !.client = [screen |-> "characters", told |-> FALSE,
                                            moved |-> FALSE]]
    PROVE  v \in Worlds /\ CallInv(v, <<>>, <<>>) /\ (SaveOf(w) => SaveOf(v))
<1>1. /\ NewSession \in Sessions /\ NewSession.player = "none" /\ ~NewSession.loading
      /\ NewSession.holder = 0 /\ NewSession.result = "none" /\ ~NewSession.leaving
      /\ NewSession.alive
    <2>1. 0 \in 0..MaxSent /\ 0 \in Characters /\ ExpireUpdates \in 0..ExpireUpdates
        BY SessionAssumption DEF Characters
    <2> QED BY <2>1 DEF NewSession, Sessions
<1>2. v.s = NewSession /\ v.jobs = w.jobs /\ v.saved = w.saved
      /\ v.client = [screen |-> "characters", told |-> FALSE, moved |-> FALSE]
    BY DEF Worlds
<1>3. v \in Worlds
    <2>1. v.client \in Clients
        BY <1>2 DEF Clients
    <2>2. v = [w EXCEPT !.s = v.s, !.client = v.client]
        BY <1>2
    <2> QED BY <1>1, <1>2, <2>1, <2>2 DEF Worlds
<1>4. LoginOf(v)
    BY <1>1, <1>2, Dead DEF CallInv, LoginOf
<1>5. JobsOf(v)
    BY <1>2 DEF CallInv, JobsOf
<1>6. ConversationOf(v, <<>>, <<>>)
    <2>1. v.client.screen = "characters" /\ ~v.client.told
        BY <1>2
    <2>2. Of(<<>>, "enum") = {} /\ Of(<<>>, "login") = {} /\ ForPlayer(<<>>) = {}
        BY DEF Of, ForPlayer
    <2>3. Choosing(v, <<>>, <<>>)
        BY <1>1, <1>2, <2>1, <2>2 DEF Choosing, NobodyThere
    <2> QED BY <2>1, <2>3 DEF ConversationOf, Turn
<1>7. SaveOf(w) => SaveOf(v)
    <2>1. \A i \in 1..Len(v.jobs) : v.jobs[i].kind = "load" => v.jobs[i].of # 0
        BY <1>5 DEF JobsOf
    <2> QED BY <1>1, <1>2, <2>1 DEF SaveOf, Saves
<1> QED BY <1>3, <1>4, <1>5, <1>6, <1>7 DEF CallInv

\* A client that shows no session's screen may be one that any session has lost.
LEMMA ScreenOff ==
    ASSUME NEW w, NEW v, NEW q, NEW r, CallInv(w, q, r),
           v.s = w.s, v.jobs = w.jobs, v.saved = w.saved,
           v.client.screen \in {"off", "connecting"}
    PROVE  CallInv(v, q, r) /\ (SaveOf(w) => SaveOf(v))
<1>1. LoginOf(v) /\ JobsOf(v) /\ (SaveOf(w) => SaveOf(v))
    BY DEF CallInv, LoginOf, JobsOf, SaveOf, Saves
<1>2. NobodyThere(w, r) => NobodyThere(v, r)
    BY DEF NobodyThere
<1>3. Choosing(w, q, r) => Choosing(v, q, r)
    BY <1>2 DEF Choosing
<1>4. Selecting(w, q, r) => Selecting(v, q, r)
    BY <1>2 DEF Selecting
<1>5. LoggingIn(w, q, r) => LoggingIn(v, q, r)
    BY <1>2 DEF LoggingIn
<1>6. Playing(w, q, r) => Playing(v, q, r)
    BY DEF Playing
<1> QED BY <1>1, <1>3, <1>4, <1>5, <1>6 DEF CallInv, ConversationOf, Turn

--------------------------------------------------------------------------------
(* The order of what was sent.                                              *)

\* The first packet of the queue is dealt with, or put back.
LEMMA HeadTaken ==
    ASSUME NEW q \in Seq(Packets), NEW r \in Seq(Packets), q # <<>>, NEW m,
           Ordered(r \o q, m)
    PROVE  /\ Ordered(r \o Tail(q), m)
           /\ Append(r, Head(q)) \in Seq(Packets)
           /\ Ordered(Append(r, Head(q)) \o Tail(q), m)
<1> PICK t \in Seq(Packets) : t = Tail(q)
    BY TailOf
<1>1. /\ Head(q) = q[1] /\ Head(q) \in Packets /\ Len(q) \in Nat /\ Len(r) \in Nat
      /\ Len(t) = Len(q) - 1 /\ \A i \in 1..Len(t) : t[i] = q[i + 1]
    BY TailOf
<1>2. /\ Len(r \o q) = Len(r) + Len(q) /\ Len(r \o t) = Len(r) + Len(t)
      /\ \A i \in 1..Len(r) : (r \o q)[i] = r[i] /\ (r \o t)[i] = r[i]
      /\ \A i \in 1..Len(q) : (r \o q)[Len(r) + i] = q[i]
      /\ \A i \in 1..Len(t) : (r \o t)[Len(r) + i] = t[i]
    <2>1. ASSUME NEW x \in Seq(Packets)
          PROVE  /\ Len(r \o x) = Len(r) + Len(x)
                 /\ \A i \in 1..Len(r) : (r \o x)[i] = r[i]
                 /\ \A i \in 1..Len(x) : (r \o x)[Len(r) + i] = x[i]
        OBVIOUS
    <2> QED BY <2>1
<1>3. Ordered(r \o t, m)
    <2> DEFINE further(i) == IF i <= Len(r) THEN i ELSE i + 1
    <2>1. ASSUME NEW i \in 1..Len(r \o t)
          PROVE  /\ further(i) \in 1..Len(r \o q)
                 /\ (r \o t)[i] = (r \o q)[further(i)]
        <3>1. CASE i <= Len(r)
            BY <1>1, <1>2, <3>1
        <3>2. CASE ~(i <= Len(r))
            <4>1. i - Len(r) \in 1..Len(t) /\ i - Len(r) + 1 \in 1..Len(q)
                BY <1>1, <1>2, <3>2
            <4>2. (r \o t)[Len(r) + (i - Len(r))] = q[i - Len(r) + 1]
                BY <1>1, <1>2, <4>1
            <4>3. (r \o q)[Len(r) + (i - Len(r) + 1)] = q[i - Len(r) + 1]
                BY <1>2, <4>1
            <4>4. Len(r) + (i - Len(r)) = i /\ Len(r) + (i - Len(r) + 1) = i + 1
                BY <1>1
            <4> QED BY <1>1, <1>2, <3>2, <4>1, <4>2, <4>3, <4>4
        <3> QED BY <3>1, <3>2
    <2>2. ASSUME NEW i \in 1..Len(r \o t), NEW j \in 1..Len(r \o t), i < j
          PROVE  further(i) < further(j)
        BY <1>1, <2>2
    <2> HIDE DEF further
    <2> QED BY <2>1, <2>2 DEF Ordered
<1>4. Append(r, Head(q)) \in Seq(Packets)
    BY <1>1
<1>5. Ordered(Append(r, Head(q)) \o t, m)
    <2> PICK a \in Seq(Packets) : a = Append(r, Head(q))
        BY <1>4
    <2>1. /\ Len(a) = Len(r) + 1 /\ a[Len(r) + 1] = q[1]
          /\ \A i \in 1..Len(r) : a[i] = r[i]
        BY <1>1
    <2>2. /\ Len(a \o t) = Len(a) + Len(t)
          /\ \A i \in 1..Len(a) : (a \o t)[i] = a[i]
          /\ \A i \in 1..Len(t) : (a \o t)[Len(a) + i] = t[i]
        OBVIOUS
    <2>3. Len(a \o t) = Len(r \o q)
        BY <1>1, <1>2, <2>1, <2>2
    <2>4. ASSUME NEW i \in 1..Len(r \o q)  PROVE  (a \o t)[i] = (r \o q)[i]
        <3>1. CASE i <= Len(r)
            BY <1>1, <1>2, <2>1, <2>2, <3>1
        <3>2. CASE i = Len(r) + 1
            <4>1. 1 \in 1..Len(q)
                BY <1>1, <1>2, <3>2
            <4>2. (r \o q)[Len(r) + 1] = q[1]
                BY <1>2, <4>1
            <4> QED BY <1>1, <2>1, <2>2, <3>2, <4>2
        <3>3. CASE i > Len(r) + 1
            <4>1. i - (Len(r) + 1) \in 1..Len(t) /\ i - Len(r) \in 1..Len(q)
                BY <1>1, <1>2, <3>3
            <4>2. (a \o t)[Len(a) + (i - (Len(r) + 1))] = q[i - (Len(r) + 1) + 1]
                BY <1>1, <2>2, <4>1
            <4>3. (r \o q)[Len(r) + (i - Len(r))] = q[i - Len(r)]
                BY <1>2, <4>1
            <4>4. /\ Len(a) + (i - (Len(r) + 1)) = i /\ Len(r) + (i - Len(r)) = i
                  /\ i - (Len(r) + 1) + 1 = i - Len(r)
                BY <1>1, <2>1
            <4> QED BY <4>2, <4>3, <4>4
        <3> QED BY <1>1, <1>2, <3>1, <3>2, <3>3
    <2> QED BY <2>3, <2>4 DEF Ordered
<1> QED BY <1>3, <1>4, <1>5

\* The last of the numbers up to k + 1.
LEMMA OneMore ==
    ASSUME NEW k \in Nat, NEW i \in 1..k + 1
    PROVE  i \in 1..k \/ i = k + 1
OBVIOUS

\* What is sent next comes last.
LEMMA SentLast ==
    ASSUME NEW q \in Seq(Packets), NEW r \in Seq(Packets), NEW m \in Nat, NEW p \in Packets,
           p.n = m + 1, Ordered(r \o q, m)
    PROVE  Append(q, p) \in Seq(Packets) /\ Ordered(r \o Append(q, p), m + 1)
<1>0. /\ m + 1 <= m + 1
      /\ \A k \in 1..MaxSent : k <= m => k < m + 1 /\ k <= m + 1
    BY SessionAssumption
<1> PICK a \in Seq(Packets) : a = Append(q, p)
    <2>1. Append(q, p) \in Seq(Packets)
        OBVIOUS
    <2> QED BY <2>1
<1> PICK s \in Seq(Packets) : s = r \o q
    <2>1. r \o q \in Seq(Packets)
        OBVIOUS
    <2> QED BY <2>1
<1> PICK u \in Seq(Packets) : u = r \o a
    <2>1. r \o a \in Seq(Packets)
        OBVIOUS
    <2> QED BY <2>1
<1>1. /\ Len(a) = Len(q) + 1 /\ a[Len(q) + 1] = p /\ Len(q) \in Nat /\ Len(r) \in Nat
      /\ \A i \in 1..Len(q) : a[i] = q[i]
    OBVIOUS
<1>2. /\ Len(s) = Len(r) + Len(q)
      /\ \A i \in 1..Len(r) : s[i] = r[i]
      /\ \A i \in 1..Len(q) : s[Len(r) + i] = q[i]
    OBVIOUS
<1>3. /\ Len(u) = Len(r) + Len(a)
      /\ \A i \in 1..Len(r) : u[i] = r[i]
      /\ \A i \in 1..Len(a) : u[Len(r) + i] = a[i]
    OBVIOUS
<1>4. /\ Len(u) = Len(s) + 1 /\ Len(s) \in Nat
      /\ \A i \in 1..Len(u) : i \in 1..Len(s) \/ i = Len(s) + 1
    <2>1. Len(u) = Len(s) + 1 /\ Len(s) \in Nat
        BY <1>1, <1>2, <1>3
    <2> QED BY <2>1, OneMore
<1>5. ASSUME NEW i \in 1..Len(s)  PROVE  u[i] = s[i]
    <2>1. CASE i <= Len(r)
        BY <1>1, <1>2, <1>3, <2>1
    <2>2. CASE ~(i <= Len(r))
        <3>1. i - Len(r) \in 1..Len(q) /\ i - Len(r) \in 1..Len(a)
            BY <1>1, <1>2, <2>2
        <3>2. u[Len(r) + (i - Len(r))] = q[i - Len(r)]
            BY <1>1, <1>3, <3>1
        <3>3. s[Len(r) + (i - Len(r))] = q[i - Len(r)]
            BY <1>2, <3>1
        <3>4. Len(r) + (i - Len(r)) = i
            BY <1>1
        <3> QED BY <3>2, <3>3, <3>4
    <2> QED BY <2>1, <2>2
<1>6. u[Len(s) + 1] = p
    <2>1. Len(q) + 1 \in 1..Len(a) /\ Len(r) + (Len(q) + 1) = Len(s) + 1
        BY <1>1, <1>2
    <2> QED BY <1>1, <1>3, <2>1
<1>7. ASSUME NEW i \in 1..Len(s)  PROVE  s[i].n < m + 1 /\ s[i].n <= m + 1
    <2>1. s[i] \in Packets
        OBVIOUS
    <2>2. s[i].n \in 1..MaxSent
        BY <2>1, ForWhom
    <2>3. s[i].n <= m
        BY DEF Ordered
    <2> QED BY <1>0, <2>2, <2>3
<1>8. ASSUME NEW i \in 1..Len(u), NEW j \in 1..Len(u), i < j
      PROVE  u[i].n < u[j].n
    <2>1. i \in 1..Len(s) /\ u[i] = s[i]
        BY <1>4, <1>5, <1>8
    <2>2. CASE j \in 1..Len(s)
        <3>1. u[j] = s[j]
            BY <1>5, <2>2
        <3>2. s[i].n < s[j].n
            BY <1>8, <2>1, <2>2 DEF Ordered
        <3> QED BY <2>1, <3>1, <3>2
    <2>3. CASE j = Len(s) + 1
        <3>1. u[j].n = m + 1
            BY <1>6, <2>3
        <3> QED BY <1>7, <2>1, <3>1
    <2> QED BY <1>4, <2>2, <2>3
<1>9. ASSUME NEW i \in 1..Len(u)  PROVE  u[i].n <= m + 1
    <2>1. CASE i \in 1..Len(s)
        BY <1>5, <1>7, <2>1
    <2>2. CASE i = Len(s) + 1
        <3>1. u[i].n = m + 1
            BY <1>6, <2>2
        <3> QED BY <1>0, <3>1
    <2> QED BY <1>4, <2>1, <2>2
<1> QED BY <1>8, <1>9 DEF Ordered

--------------------------------------------------------------------------------
(* The steps.                                                               *)

\* The state as a record.
LEMMA Typed ==
    ASSUME TypeOK
    PROVE  /\ World \in Worlds /\ World.s = session /\ World.jobs = jobs
           /\ World.saved = saved /\ World.client = client
BY DEF TypeOK, World, Worlds, Clients

\* What a call returns is the next state.
LEMMA Carried ==
    ASSUME NEW v \in Worlds, NEW q, NEW r, CallInv(v, q, r), Becomes(v),
           recvQueue' = q, requeue' = r, sent'.login = sent.login
    PROVE  /\ session' \in Sessions /\ jobs' \in Seq(Jobs) /\ saved' \in Characters
           /\ client' \in Clients
           /\ CallInv(World, recvQueue, requeue)'
           /\ stored' = stored /\ SaveOf(v) => SaveOf(World)'
<1>1. /\ session' = v.s /\ jobs' = v.jobs /\ saved' = v.saved /\ client' = v.client
    BY DEF Becomes
<1>2. /\ v.s \in Sessions /\ v.jobs \in Seq(Jobs) /\ v.saved \in Characters
      /\ v.client \in Clients
    BY DEF Worlds
<1>3. /\ World'.s = v.s /\ World'.jobs = v.jobs /\ World'.saved = v.saved
      /\ World'.client = v.client
    BY <1>1 DEF World
<1>4. LoginOf(World)'
    BY <1>3 DEF CallInv, LoginOf
<1>5. JobsOf(World)'
    BY <1>3 DEF CallInv, JobsOf
<1>6. ConversationOf(World, recvQueue, requeue)'
    <2>1. ASSUME v.s.alive  PROVE  Turn(World, recvQueue, requeue)'
        <3>1. CASE Choosing(v, q, r)
            <4>1. Choosing(World, recvQueue, requeue)'
                BY <1>3, <3>1 DEF Choosing, NobodyThere, Of, ForPlayer
            <4> QED BY <4>1 DEF Turn
        <3>2. CASE Selecting(v, q, r)
            <4>1. Selecting(World, recvQueue, requeue)'
                BY <1>3, <3>2 DEF Selecting, NobodyThere, Of, ForPlayer
            <4> QED BY <4>1 DEF Turn
        <3>3. CASE LoggingIn(v, q, r)
            <4>1. LoggingIn(World, recvQueue, requeue)'
                BY <1>3, <3>3 DEF LoggingIn, NobodyThere, Of, ForPlayer
            <4> QED BY <4>1 DEF Turn
        <3>4. CASE Playing(v, q, r)
            <4>1. Playing(World, recvQueue, requeue)'
                BY <1>3, <3>4 DEF Playing, Of, ForPlayer
            <4> QED BY <4>1 DEF Turn
        <3> QED BY <2>1, <3>1, <3>2, <3>3, <3>4 DEF CallInv, ConversationOf, Turn
    <2> QED BY <1>3, <2>1 DEF CallInv, ConversationOf
<1>7. stored' = stored /\ SaveOf(v) => SaveOf(World)'
    BY <1>3 DEF SaveOf, Saves
<1> QED BY <1>1, <1>2, <1>4, <1>5, <1>6, <1>7 DEF CallInv

\* The end of the Update of the map's thread.
LEMMA FinishMapUpdateKeeps ==
    ASSUME SessionInv, FinishMapUpdate
    PROVE  SessionInv' /\ (SaveOf(World) => SaveOf(World)')
<1> USE DEF FinishMapUpdate, Readd
<1>1. TypeOK /\ World \in Worlds /\ CallInv(World, recvQueue, requeue)
    BY Typed DEF SessionInv
<1>2. recvQueue \in Seq(Packets) /\ requeue \in Seq(Packets)
    BY <1>1 DEF TypeOK
<1>3. CallInv(World, requeue \o recvQueue, <<>>)
    BY <1>1, <1>2, PutInFront
<1>4. Becomes(World)
    BY <1>1, Typed DEF Becomes
<1>5. CallInv(World, recvQueue, requeue)' /\ (SaveOf(World) => SaveOf(World)')
    BY <1>1, <1>3, <1>4, Carried
<1>6. TypeOK'
    BY <1>1, SessionAssumption DEF TypeOK
<1>7. OrderInv'
    <2>1. requeue' \o recvQueue' = requeue \o recvQueue
        BY <1>2
    <2> QED BY <2>1 DEF SessionInv, OrderInv
<1>8. RequeueInv'
    BY DEF RequeueInv
<1> QED BY <1>5, <1>6, <1>7, <1>8 DEF SessionInv

\* One packet is handled, dropped or put back.
LEMMA ProcessPacketKeeps ==
    ASSUME SessionInv, ProcessPacket
    PROVE  SessionInv' /\ (SaveOf(World) => SaveOf(World)')
<1>1. /\ TypeOK /\ World \in Worlds /\ CallInv(World, recvQueue, requeue)
      /\ OrderInv /\ RequeueInv
      /\ World.s = session /\ World.jobs = jobs
      /\ World.saved = saved /\ World.client = client
    BY Typed DEF SessionInv
<1>2. /\ recvQueue \in Seq(Packets) /\ requeue \in Seq(Packets) /\ recvQueue # <<>>
      /\ processed \in 0..MaxPerUpdate + 1 /\ processed <= MaxPerUpdate
      /\ at \in {"world", "map"} /\ Process(Head(recvQueue)) /\ session.socket # "null"
    BY <1>1 DEF TypeOK, ProcessPacket, HasNext, Updating
<1>3. World.s.alive
    <2>1. ~World.s.alive => session = NoSession
        BY <1>1 DEF CallInv, LoginOf
    <2> QED BY <1>1, <1>2, <2>1, Dead
<1>4. PICK p \in Packets : p = Head(recvQueue)
    BY <1>2, TailOf
<1>5. PICK w \in Worlds :
          w = IF p.kind = "enum" THEN [World EXCEPT !.s.recently = FALSE] ELSE World
    <2>1. p.kind = "enum" => [World EXCEPT !.s.recently = FALSE] \in Worlds
        BY <1>1, <1>2, <1>3, <1>4, EnumKeeps
    <2> QED BY <1>1, <2>1
<1>6. /\ recvQueue' = Tail(recvQueue) /\ processed' = processed + 1
      /\ UNCHANGED <<at, stored, added, sent>>
      /\ \/ /\ Expected(w.s, p)
            /\ \E result \in Call(w, p) : Becomes(result)
            /\ delivered' = IF Status(p) = "loggedin"
                            THEN [packet |-> p, login |-> session.login] ELSE delivered
            /\ UNCHANGED requeue
         \/ /\ ~Expected(w.s, p)
            /\ requeue' = IF TooEarly(w.s, p) THEN Append(requeue, p) ELSE requeue
            /\ UNCHANGED <<session, jobs, saved, client, delivered>>
    BY <1>4, <1>5 DEF ProcessPacket
<1>7. Tail(recvQueue) \in Seq(Packets) /\ processed + 1 \in 0..MaxPerUpdate + 1
    BY <1>2, TailOf, SessionAssumption
<1>8. sent \in [count : 0..MaxSent, login : 0..MaxSent] /\ sent'.login = sent.login
    BY <1>1, <1>6 DEF TypeOK
<1>9. /\ Ordered(requeue \o Tail(recvQueue), sent.count)
      /\ Ordered(Append(requeue, p) \o Tail(recvQueue), sent.count)
      /\ Append(requeue, p) \in Seq(Packets)
    BY <1>1, <1>2, <1>4, HeadTaken DEF OrderInv
<1>10. at = "map" => p.kind \in {"move", "query"}
    BY <1>2, <1>4 DEF Process, MapSessionFilter, Place, Packets, Kinds
<1>11. CASE Expected(w.s, p) /\ UNCHANGED requeue
    <2>0. /\ delivered' = IF Status(p) = "loggedin"
                          THEN [packet |-> p, login |-> session.login] ELSE delivered
          /\ \E result \in Call(w, p) : Becomes(result)
        BY <1>6, <1>11
    <2>1. PICK v \in Call(w, p) : Becomes(v)
        BY <2>0
    <2>2. /\ v \in Worlds /\ CallInv(v, Tail(recvQueue), requeue)
          /\ SaveOf(World) => SaveOf(v)
          /\ requeue # <<>> => v.s.player = "none"
        <3>1. CASE p.kind = "enum"
            <4>1. v = w
                BY <2>1, <3>1 DEF Call
            <4>2. w = [World EXCEPT !.s.recently = FALSE]
                BY <1>5, <3>1
            <4>3. /\ w \in Worlds /\ CallInv(w, Tail(recvQueue), requeue)
                  /\ (SaveOf(World) => SaveOf(w))
                  /\ w.s.player = World.s.player
                <5>1. /\ World \in Worlds /\ recvQueue \in Seq(Packets) /\ recvQueue # <<>>
                      /\ CallInv(World, recvQueue, requeue)
                      /\ Head(recvQueue).kind = "enum"
                    BY <1>1, <1>2, <1>4, <3>1
                <5> QED BY <1>3, <4>2, <5>1, EnumKeeps
            <4>4. requeue # <<>> => World.s.player = "none"
                BY <1>1 DEF RequeueInv
            <4> QED BY <4>1, <4>3, <4>4
        <3>2. CASE p.kind = "login"
            <4>1. w = World
                BY <1>5, <3>2
            <4>2. v \in HandlePlayerLoginOpcode(World, Head(recvQueue))
                BY <1>4, <2>1, <3>2, <4>1 DEF Call
            <4> QED BY <1>1, <1>2, <1>3, <1>4, <3>2, <4>2, LoginRead
        <3>3. CASE p.kind \notin {"enum", "login"}
            <4>1. w = World
                BY <1>5, <3>3
            <4>2. CallInv(World, Tail(recvQueue), requeue)
                BY <1>1, <1>2, <1>4, <3>3, TakenOff
            <4>3. Expected(World.s, p) /\ v \in Call(World, p)
                BY <1>11, <2>1, <4>1
            <4>4. requeue # <<>> => World.s.player = "none"
                BY <1>1 DEF RequeueInv
            <4> QED BY <1>1, <1>3, <3>3, <4>2, <4>3, <4>4, HandlerKeeps
        <3> QED BY <3>1, <3>2, <3>3
    <2>3. /\ session' \in Sessions /\ jobs' \in Seq(Jobs) /\ saved' \in Characters
          /\ client' \in Clients /\ CallInv(World, recvQueue, requeue)'
          /\ SaveOf(World) => SaveOf(World)'
        BY <1>6, <1>8, <1>11, <2>1, <2>2, Carried
    <2>4. session' = v.s
        BY <2>1 DEF Becomes
    <2>5. at = "map" => v.s.player = "world"
        <3>1. SUFFICES ASSUME at = "map"  PROVE  v.s.player = "world"
            OBVIOUS
        <3>2. p.kind \in {"move", "query"}
            BY <1>10, <3>1
        <3>3. v = World
            BY <1>5, <2>1, <3>2 DEF Call
        <3> QED BY <1>1, <3>1, <3>3 DEF RequeueInv
    <2>6. RequeueInv'
        BY <1>1, <1>6, <1>11, <2>2, <2>4, <2>5 DEF RequeueInv
    <2>7. Status(p) = "loggedin" => session.login = p.login
        <3>1. SUFFICES ASSUME Status(p) = "loggedin"  PROVE  session.login = p.login
            OBVIOUS
        <3>2. p.kind \in InWorld /\ p.kind # "enum"
            BY <3>1, ForWhom DEF InWorld
        <3>3. w = World /\ session.player = "world"
            BY <1>1, <1>5, <1>11, <3>1, <3>2 DEF Expected
        <3>4. Playing(World, recvQueue, requeue)
            BY <1>1, <1>3, <3>3 DEF CallInv, ConversationOf, Turn, Choosing, Selecting,
                                    LoggingIn, NobodyThere
        <3>5. 1 \in ForPlayer(recvQueue) /\ p = recvQueue[1]
            BY <1>2, <1>4, <3>2, TailKinds, TailOf
        <3> QED BY <1>1, <3>3, <3>4, <3>5 DEF Playing
    <2>8. delivered' \in [packet : Packets \cup {NoPacket}, login : 0..MaxSent]
        <3>1. session.login \in 0..MaxSent
            BY <1>1 DEF TypeOK, Sessions
        <3>2. delivered \in [packet : Packets \cup {NoPacket}, login : 0..MaxSent]
            BY <1>1 DEF TypeOK
        <3> QED BY <2>0, <3>1, <3>2
    <2>9. delivered'.login = delivered'.packet.login
        BY <2>0, <2>7 DEF SessionInv
    <2>10. TypeOK'
        BY <1>1, <1>6, <1>7, <1>11, <2>3, <2>8 DEF TypeOK, Clients
    <2>11. OrderInv'
        BY <1>1, <1>6, <1>9, <1>11 DEF OrderInv
    <2> QED BY <2>3, <2>6, <2>9, <2>10, <2>11 DEF SessionInv
<1>12. CASE ~Expected(w.s, p) /\ UNCHANGED <<session, jobs, saved, client, delivered>>
    <2>0. requeue' = IF TooEarly(w.s, p) THEN Append(requeue, p) ELSE requeue
        BY <1>6, <1>12
    <2>1. p.kind \notin {"enum", "login"}
        <3>1. Status(p) # "authed"
            BY <1>12 DEF Expected
        <3> QED BY <3>1, ForWhom
    <2>2. w = World
        BY <1>5, <2>1
    <2>3. CallInv(World, Tail(recvQueue), requeue')
        <3>1. CASE TooEarly(w.s, p)
            <4>1. TooEarly(World.s, Head(recvQueue))
                BY <1>4, <2>2, <3>1
            <4>2. CallInv(World, Tail(recvQueue), Append(requeue, Head(recvQueue)))
                BY <1>1, <1>2, <1>3, <4>1, PutBack
            <4> QED BY <1>4, <2>0, <3>1, <4>2
        <3>2. CASE ~TooEarly(w.s, p)
            <4>1. CallInv(World, Tail(recvQueue), requeue)
                BY <1>1, <1>2, <1>4, <2>1, TakenOff
            <4> QED BY <2>0, <3>2, <4>1
        <3> QED BY <3>1, <3>2
    <2>4. Becomes(World)
        BY <1>1, <1>12 DEF Becomes
    <2>5. /\ session' \in Sessions /\ jobs' \in Seq(Jobs) /\ saved' \in Characters
          /\ client' \in Clients /\ CallInv(World, recvQueue, requeue)'
          /\ SaveOf(World) => SaveOf(World)'
        BY <1>1, <1>6, <1>8, <2>3, <2>4, Carried
    <2>6. RequeueInv'
        <3>1. CASE TooEarly(w.s, p)
            <4>1. session.player = "none"
                BY <1>1, <2>2, <3>1 DEF TooEarly
            <4>2. at = "world"
                BY <1>1, <1>2, <4>1 DEF RequeueInv
            <4> QED BY <1>6, <1>12, <4>1, <4>2 DEF RequeueInv
        <3>2. CASE ~TooEarly(w.s, p)
            BY <1>1, <1>6, <1>12, <2>0, <3>2 DEF RequeueInv
        <3> QED BY <3>1, <3>2
    <2>7. TypeOK'
        <3>1. requeue' \in Seq(Packets)
            BY <1>2, <1>9, <2>0
        <3> QED BY <1>1, <1>6, <1>7, <1>12, <3>1 DEF TypeOK
    <2>8. OrderInv'
        BY <1>1, <1>6, <1>9, <2>0 DEF OrderInv
    <2> QED BY <1>12, <2>5, <2>6, <2>7, <2>8 DEF SessionInv
<1> QED BY <1>6, <1>11, <1>12

\* The end of the Update of the world thread.
LEMMA FinishWorldUpdateKeeps ==
    ASSUME SessionInv, FinishWorldUpdate
    PROVE  SessionInv' /\ (SaveOf(World) => SaveOf(World)')
<1>1. /\ TypeOK /\ World \in Worlds /\ CallInv(World, recvQueue, requeue) /\ OrderInv
    BY Typed DEF SessionInv
<1>2. recvQueue \in Seq(Packets) /\ requeue \in Seq(Packets)
    BY <1>1 DEF TypeOK
<1>3. PICK expired \in BOOLEAN, place \in {"world", "transfer"} :
        LET called == ProcessQueryCallbacks(World, place)
            w == IF expired /\ called.s.leaving /\ ~called.s.loading
                 THEN LogoutPlayer(called) ELSE called
            lost == w.s.socket = "closed"
            gone == lost /\ (w.s.expire = 0 \/ w.s.forceExit \/ w.s.player = "none")
        IN IF gone
           THEN Becomes(Delete([w EXCEPT !.s.socket = "null"])) /\ recvQueue' = <<>>
           ELSE /\ Becomes([w EXCEPT !.s.expire = IF lost THEN @ - 1 ELSE @])
                /\ Readd
    BY DEF FinishWorldUpdate
<1> PICK q \in Seq(Packets) : q = requeue \o recvQueue
    <2>1. requeue \o recvQueue \in Seq(Packets)
        BY <1>2
    <2> QED BY <2>1
<1>4. CallInv(World, q, <<>>)
    BY <1>1, <1>2, PutInFront
<1>5. PICK called \in Worlds :
          /\ called = ProcessQueryCallbacks(World, place)
          /\ CallInv(called, q, <<>>) /\ (SaveOf(World) => SaveOf(called))
    BY <1>1, <1>4, CallbackKeeps
<1>6. PICK w \in Worlds :
          /\ w = IF expired /\ called.s.leaving /\ ~called.s.loading
                 THEN LogoutPlayer(called) ELSE called
          /\ CallInv(w, q, <<>>) /\ (SaveOf(World) => SaveOf(w))
    <2>1. called.s.leaving => called.s.player # "none"
        BY <1>5 DEF CallInv, LoginOf
    <2>2. LogoutPlayer(called) \in Worlds
        BY LoggedOut
    <2>3. CASE expired /\ called.s.leaving /\ ~called.s.loading
        BY <1>5, <2>1, <2>2, <2>3, LogoutKeeps
    <2>4. CASE ~(expired /\ called.s.leaving /\ ~called.s.loading)
        BY <1>5, <2>4
    <2> QED BY <2>3, <2>4
<1> PICK lost : lost = (w.s.socket = "closed")
    OBVIOUS
<1>7. w.s \in Sessions /\ (lost => w.s.alive)
    <2>1. w.s \in Sessions
        BY DEF Worlds
    <2>2. ~w.s.alive => w.s = NoSession
        BY <1>6 DEF CallInv, LoginOf
    <2> QED BY <2>1, <2>2, Dead
<1>8. PICK v \in Worlds :
          /\ Becomes(v) /\ CallInv(v, recvQueue', <<>>) /\ (SaveOf(World) => SaveOf(v))
          /\ recvQueue' = <<>> \/ recvQueue' = q
    <2>1. CASE lost /\ (w.s.expire = 0 \/ w.s.forceExit \/ w.s.player = "none")
        <3>1. Becomes(Delete([w EXCEPT !.s.socket = "null"])) /\ recvQueue' = <<>>
            BY <1>3, <1>5, <1>6, <2>1
        <3>2. PICK s \in Sessions : s = [w.s EXCEPT !.socket = "null"]
            <4>1. [w.s EXCEPT !.socket = "null"] \in Sessions
                BY <1>7 DEF Sessions
            <4> QED BY <4>1
        <3>3. [w EXCEPT !.s.socket = "null"] = [w EXCEPT !.s = s]
            BY <3>2 DEF Worlds
        <3>4. PICK u \in Worlds : /\ u = [w EXCEPT !.s.socket = "null"]
                                  /\ SamePlayer(u, w)
            <4>1. \E state \in {"closed", "null"} : s = [w.s EXCEPT !.socket = state]
                BY <3>2
            <4>2. [w EXCEPT !.s = s] \in Worlds /\ SamePlayer([w EXCEPT !.s = s], w)
                BY <1>7, <2>1, <4>1, FieldSet
            <4> QED BY <3>3, <4>2
        <3>5. CallInv(u, q, <<>>) /\ (SaveOf(w) => SaveOf(u))
            BY <1>6, <3>4, SamePlayerKeeps
        <3>6. /\ Delete(u) \in Worlds
              /\ CallInv(Delete(u), <<>>, <<>>) /\ (SaveOf(u) => SaveOf(Delete(u)))
            BY <3>5, DeleteKeeps
        <3> QED BY <1>6, <3>1, <3>4, <3>5, <3>6
    <2>2. CASE ~(lost /\ (w.s.expire = 0 \/ w.s.forceExit \/ w.s.player = "none"))
        <3>1. Becomes([w EXCEPT !.s.expire = IF lost THEN @ - 1 ELSE @]) /\ recvQueue' = q
            BY <1>3, <1>5, <1>6, <2>2 DEF Readd
        <3>2. CASE lost
            <4>1. w.s.expire - 1 \in 0..ExpireUpdates
                <5>1. w.s.expire \in 0..ExpireUpdates /\ w.s.expire # 0
                    BY <1>7, <2>2, <3>2 DEF Sessions
                <5> QED BY <5>1, SessionAssumption
            <4>2. PICK e \in 0..ExpireUpdates : e = w.s.expire - 1
                BY <4>1
            <4>3. PICK s \in Sessions : s = [w.s EXCEPT !.expire = e]
                <5>1. [w.s EXCEPT !.expire = e] \in Sessions
                    BY <1>7 DEF Sessions
                <5> QED BY <5>1
            <4>4. [w EXCEPT !.s.expire = IF lost THEN @ - 1 ELSE @] = [w EXCEPT !.s = s]
                BY <3>2, <4>2, <4>3 DEF Worlds
            <4>5. PICK u \in Worlds :
                      /\ u = [w EXCEPT !.s.expire = IF lost THEN @ - 1 ELSE @]
                      /\ SamePlayer(u, w)
                <5>1. \E k \in 0..ExpireUpdates : s = [w.s EXCEPT !.expire = k]
                    BY <4>3
                <5>2. [w EXCEPT !.s = s] \in Worlds /\ SamePlayer([w EXCEPT !.s = s], w)
                    BY <1>7, <3>2, <5>1, FieldSet
                <5> QED BY <4>4, <5>2
            <4>6. CallInv(u, q, <<>>) /\ (SaveOf(w) => SaveOf(u))
                BY <1>6, <4>5, SamePlayerKeeps
            <4> QED BY <1>6, <3>1, <4>5, <4>6
        <3>3. CASE ~lost
            <4>1. [w EXCEPT !.s.expire = IF lost THEN @ - 1 ELSE @] = w
                BY <1>7, <3>3 DEF Worlds, Sessions
            <4> QED BY <1>6, <3>1, <4>1
        <3> QED BY <3>2, <3>3
    <2> QED BY <2>1, <2>2
<1>9. /\ requeue' = <<>> /\ processed' = 0 /\ at' = "maps"
      /\ UNCHANGED <<stored, added, sent, delivered>>
    BY DEF FinishWorldUpdate
<1>10. /\ session' \in Sessions /\ jobs' \in Seq(Jobs) /\ saved' \in Characters
       /\ client' \in Clients /\ CallInv(World, recvQueue, requeue)'
       /\ SaveOf(World) => SaveOf(World)'
    BY <1>8, <1>9, Carried
<1>11. TypeOK'
    <2>1. recvQueue' \in Seq(Packets) /\ requeue' \in Seq(Packets)
        <3>1. <<>> \in Seq(Packets)
            OBVIOUS
        <3> QED BY <1>8, <1>9, <3>1
    <2>2. processed' \in 0..MaxPerUpdate + 1
        BY <1>9, SessionAssumption
    <2> QED BY <1>1, <1>9, <1>10, <2>1, <2>2 DEF TypeOK, Clients
<1>12. OrderInv'
    <2>1. CASE recvQueue' = q
        <3>1. requeue' \o recvQueue' = q
            BY <1>9, <2>1
        <3> QED BY <1>1, <1>9, <3>1 DEF OrderInv
    <2>2. CASE recvQueue' = <<>>
        <3>1. requeue' \o recvQueue' = <<>>
            BY <1>9, <2>2
        <3> QED BY <1>1, <1>9, <3>1 DEF OrderInv, Ordered
    <2> QED BY <1>8, <2>1, <2>2
<1>13. RequeueInv'
    BY <1>9 DEF RequeueInv
<1>14. delivered'.login = delivered'.packet.login
    BY <1>9 DEF SessionInv
<1> QED BY <1>10, <1>11, <1>12, <1>13, <1>14 DEF SessionInv

\* A new session takes the place of the account's, or is refused.
LEMMA UpdateSessionsKeeps ==
    ASSUME SessionInv, UpdateSessions
    PROVE  SessionInv' /\ (SaveOf(World) => SaveOf(World)')
<1>1. /\ TypeOK /\ World \in Worlds /\ CallInv(World, recvQueue, requeue)
      /\ OrderInv /\ RequeueInv
      /\ World.s = session /\ World.jobs = jobs
      /\ World.saved = saved /\ World.client = client
    BY Typed DEF SessionInv
<1>2. /\ Becomes(AddSession_)
      /\ recvQueue' = IF added /\ ~session.loading THEN <<>> ELSE recvQueue
      /\ added' = FALSE /\ at' = IF session'.alive THEN "world" ELSE "maps"
      /\ UNCHANGED <<requeue, processed, stored, sent, delivered>>
    BY DEF UpdateSessions
<1>3. /\ recvQueue \in Seq(Packets) /\ requeue = <<>> /\ at = "idle"
      /\ session \in Sessions /\ client \in Clients
    BY <1>1 DEF TypeOK, RequeueInv, UpdateSessions, Clients
<1>4. CallInv(World, recvQueue, <<>>)
    BY <1>1, <1>3
<1>5. session.loading => session.alive
    <2>1. ~session.alive => session = NoSession
        BY <1>1 DEF CallInv, LoginOf
    <2> QED BY <2>1, Dead
<1>6. PICK v \in Worlds :
          /\ Becomes(v) /\ CallInv(v, recvQueue', <<>>) /\ (SaveOf(World) => SaveOf(v))
          /\ recvQueue' = <<>> \/ recvQueue' = recvQueue
    <2>1. CASE added = FALSE
        <3>1. AddSession_ = World /\ recvQueue' = recvQueue
            BY <1>2, <2>1 DEF AddSession_
        <3> QED BY <1>1, <1>2, <1>4, <3>1
    <2>2. CASE added # FALSE /\ session.loading
        <3>1. AddSession_ = [World EXCEPT !.client.screen = "off"] /\ recvQueue' = recvQueue
            BY <1>2, <1>5, <2>2 DEF AddSession_
        <3>2. PICK u : u = [World EXCEPT !.client.screen = "off"]
            OBVIOUS
        <3>3. u.client = [client EXCEPT !.screen = "off"]
            BY <1>1, <3>2 DEF Worlds
        <3>4. u.client \in Clients /\ u.client.screen = "off"
            BY <1>3, <3>3 DEF Clients
        <3>5. u.s = World.s /\ u.jobs = World.jobs /\ u.saved = World.saved
            BY <1>1, <3>2 DEF Worlds
        <3>6. u = [World EXCEPT !.client = u.client]
            BY <1>1, <3>2 DEF Worlds
        <3>7. u \in Worlds
            BY <1>1, <3>4, <3>6 DEF Worlds
        <3>8. CallInv(u, recvQueue, <<>>) /\ (SaveOf(World) => SaveOf(u))
            BY <1>4, <3>4, <3>5, ScreenOff
        <3> QED BY <1>2, <3>1, <3>2, <3>7, <3>8
    <2>3. CASE added # FALSE /\ ~session.loading
        <3>1. /\ recvQueue' = <<>>
              /\ AddSession_ =
                  [Delete(IF session.alive THEN KickPlayer(World) ELSE World)
                      EXCEPT !.s = NewSession, !.client = [screen |-> "characters",
                                                           told |-> FALSE, moved |-> FALSE]]
            <4>1. added = TRUE
                BY <1>1, <2>3 DEF TypeOK
            <4> QED BY <1>2, <2>3, <4>1 DEF AddSession_
        <3>2. PICK x \in Worlds : /\ x = IF session.alive THEN KickPlayer(World) ELSE World
                                  /\ CallInv(x, recvQueue, <<>>)
                                  /\ SaveOf(World) => SaveOf(x)
            <4>1. CASE session.alive
                <5>1. World.s.alive
                    BY <1>1, <4>1
                <5>2. KickPlayer(World) \in Worlds /\ SamePlayer(KickPlayer(World), World)
                    BY <1>1, <5>1, Kicked
                <5>3. /\ CallInv(KickPlayer(World), recvQueue, <<>>)
                      /\ SaveOf(World) => SaveOf(KickPlayer(World))
                    BY <1>4, <5>2, SamePlayerKeeps
                <5> QED BY <4>1, <5>2, <5>3
            <4>2. CASE ~session.alive
                BY <1>1, <1>4, <4>2
            <4> QED BY <4>1, <4>2
        <3>3. PICK d \in Worlds : /\ d = Delete(x) /\ d.s = NoSession
                                  /\ CallInv(d, <<>>, <<>>) /\ (SaveOf(x) => SaveOf(d))
            BY <3>2, DeleteKeeps
        <3>4. PICK u : u = [d EXCEPT !.s = NewSession,
                                     !.client = [screen |-> "characters", told |-> FALSE,
                                                 moved |-> FALSE]]
            OBVIOUS
        <3>5. u \in Worlds /\ CallInv(u, <<>>, <<>>) /\ (SaveOf(d) => SaveOf(u))
            BY <3>3, <3>4, NewSessionKeeps
        <3>6. AddSession_ = u
            BY <3>1, <3>2, <3>3, <3>4
        <3> QED BY <1>2, <3>1, <3>2, <3>3, <3>5, <3>6
    <2> QED BY <2>1, <2>2, <2>3
<1>7. /\ session' \in Sessions /\ jobs' \in Seq(Jobs) /\ saved' \in Characters
      /\ client' \in Clients /\ CallInv(World, recvQueue, requeue)'
      /\ SaveOf(World) => SaveOf(World)'
    BY <1>2, <1>3, <1>6, Carried
<1>8. TypeOK'
    <2>1. recvQueue' \in Seq(Packets)
        <3>1. <<>> \in Seq(Packets)
            OBVIOUS
        <3> QED BY <1>3, <1>6, <3>1
    <2>2. at' \in {"idle", "world", "maps", "map", "play"}
        BY <1>2
    <2> QED BY <1>1, <1>2, <1>7, <2>1, <2>2 DEF TypeOK, Clients
<1>9. OrderInv'
    <2>1. requeue' = <<>> /\ requeue' \o recvQueue' = recvQueue'
        <3>1. \A q \in Seq(Packets) : <<>> \o q = q
            OBVIOUS
        <3> QED BY <1>2, <1>3, <1>8, <3>1 DEF TypeOK
    <2>2. requeue \o recvQueue = recvQueue
        BY <1>3
    <2>3. Ordered(recvQueue', sent.count)
        BY <1>1, <1>6, <2>2 DEF OrderInv, Ordered
    <2> QED BY <1>1, <1>2, <2>1, <2>3 DEF OrderInv
<1>10. RequeueInv'
    BY <1>2, <1>3 DEF RequeueInv
<1>11. delivered'.login = delivered'.packet.login
    BY <1>2 DEF SessionInv
<1> QED BY <1>7, <1>8, <1>9, <1>10, <1>11 DEF SessionInv

\* The map of the player, if he is in one, comes next.
LEMMA UpdateMapKeeps ==
    ASSUME SessionInv, UpdateMap
    PROVE  SessionInv' /\ (SaveOf(World) => SaveOf(World)')
<1> USE DEF UpdateMap
<1>1. TypeOK /\ World \in Worlds /\ CallInv(World, recvQueue, requeue)
    BY Typed DEF SessionInv
<1>2. Becomes(World)
    BY <1>1, Typed DEF Becomes
<1>3. CallInv(World, recvQueue, requeue)' /\ (SaveOf(World) => SaveOf(World)')
    BY <1>1, <1>2, Carried
<1>4. TypeOK' /\ OrderInv' /\ RequeueInv' /\ delivered'.login = delivered'.packet.login
    <2>1. at' \in {"idle", "world", "maps", "map", "play"}
        OBVIOUS
    <2>2. TypeOK'
        BY <1>1, <2>1 DEF TypeOK
    <2>3. OrderInv' /\ delivered'.login = delivered'.packet.login
        BY DEF SessionInv, OrderInv
    <2>4. RequeueInv'
        BY DEF SessionInv, RequeueInv
    <2> QED BY <2>2, <2>3, <2>4
<1> QED BY <1>3, <1>4 DEF SessionInv

\* The character changes, is saved, or is teleported far.
LEMMA PlayKeeps ==
    ASSUME SessionInv, Play
    PROVE  SessionInv' /\ (SaveOf(World) => SaveOf(World)')
<1>1. /\ TypeOK /\ World \in Worlds /\ CallInv(World, recvQueue, requeue)
      /\ OrderInv /\ RequeueInv
      /\ World.s = session /\ World.jobs = jobs
      /\ World.saved = saved /\ World.client = client
    BY Typed DEF SessionInv
<1>2. /\ at' = "idle" /\ at = "play" /\ requeue = <<>>
      /\ UNCHANGED <<recvQueue, requeue, processed, stored, added, sent, delivered>>
    BY <1>1 DEF Play, RequeueInv
<1>3. session \in Sessions /\ client \in Clients /\ jobs \in Seq(Jobs)
    BY <1>1 DEF TypeOK, Clients
<1>4. session.player # "none" =>
          /\ session.alive /\ session.holder = 0 /\ session.result = "none" /\ ~session.loading
          /\ Playing(World, recvQueue, requeue)
    <2>1. ~session.alive => session = NoSession
        BY <1>1 DEF CallInv, LoginOf
    <2>2. session.player # "none" => ~session.loading
        BY <1>1 DEF CallInv, LoginOf
    <2>3. session.player # "none" => session.holder = 0 /\ session.result = "none"
        BY <1>1, <2>2 DEF CallInv, LoginOf
    <2>4. session.player # "none" => session.alive
        BY <2>1, Dead
    <2>5. ~NobodyThere(World, requeue) \/ session.player = "none"
        BY <1>1 DEF NobodyThere
    <2> QED BY <1>1, <2>2, <2>3, <2>4, <2>5 DEF CallInv, ConversationOf, Turn, Choosing,
                                             Selecting, LoggingIn
<1>5. PICK v \in Worlds :
          /\ Becomes(v) /\ CallInv(v, recvQueue, requeue) /\ (SaveOf(World) => SaveOf(v))
    <2>1. CASE UNCHANGED <<session, jobs, saved, client>>
        <3>1. Becomes(World)
            BY <1>1, <2>1 DEF Becomes
        <3> QED BY <1>1, <3>1
    <2>2. CASE /\ session.player = "world" /\ session.progress < MaxProgress
               /\ session' = [session EXCEPT !.progress = @ + 1]
               /\ UNCHANGED <<jobs, saved, client>>
        <3>1. session.progress \in Characters /\ session.progress + 1 \in Characters
            <4>1. session.progress \in Characters
                BY <1>3 DEF Sessions
            <4> QED BY <2>2, <4>1, SessionAssumption DEF Characters
        <3>2. PICK n \in Characters : n = session.progress + 1
            BY <3>1
        <3>3. PICK s \in Sessions : s = [session EXCEPT !.progress = n]
            <4>1. [session EXCEPT !.progress = n] \in Sessions
                BY <1>3 DEF Sessions
            <4> QED BY <4>1
        <3>4. PICK u \in Worlds : u = [World EXCEPT !.s = s]
            BY <1>1, WithSession
        <3>5. u.s = s /\ u.jobs = jobs /\ u.saved = saved /\ u.client = client
            BY <1>1, <3>4 DEF Worlds
        <3>6. Becomes(u)
            BY <2>2, <3>2, <3>3, <3>5 DEF Becomes
        <3>7. /\ s.alive = session.alive /\ s.player = session.player /\ s.login = session.login
              /\ s.loading = session.loading /\ s.holder = session.holder
              /\ s.result = session.result /\ s.leaving = session.leaving /\ s.progress = n
            BY <1>3, <3>3 DEF Sessions
        <3>8. LoginOf(u)
            BY <1>1, <1>4, <2>2, <3>5, <3>7 DEF CallInv, LoginOf
        <3>9. JobsOf(u)
            BY <1>1, <3>5 DEF CallInv, JobsOf
        <3>10. Playing(u, recvQueue, requeue)
            BY <1>1, <1>4, <2>2, <3>5, <3>7 DEF Playing
        <3>11. ConversationOf(u, recvQueue, requeue)
            BY <1>1, <3>5, <3>10 DEF CallInv, ConversationOf, Turn
        <3>12. SaveOf(World) => SaveOf(u)
            <4>1. saved \in Characters
                BY <1>1 DEF TypeOK
            <4>2. session.progress >= saved => n >= saved
                BY <3>1, <3>2, <4>1, SessionAssumption DEF Characters
            <4>3. s.holder = 0 /\ s.result = "none"
                BY <1>4, <2>2, <3>7
            <4>4. \A i \in 1..Len(u.jobs) : u.jobs[i].kind = "load" => u.jobs[i].of # 0
                BY <3>9 DEF JobsOf
            <4>5. SaveOf(World) => session.progress >= saved
                BY <1>1, <2>2 DEF SaveOf
            <4> QED BY <1>1, <3>5, <3>7, <4>2, <4>3, <4>4, <4>5 DEF SaveOf, Saves
        <3> QED BY <3>6, <3>8, <3>9, <3>11, <3>12 DEF CallInv
    <2>3. CASE /\ session.player = "world" /\ saved < session.progress
               /\ jobs' = Append(jobs, [kind |-> "save", of |-> session.progress])
               /\ saved' = session.progress
               /\ UNCHANGED <<session, client>>
        <3>1. session.progress \in Characters
            BY <1>3 DEF Sessions
        <3>2. PICK js \in Seq(Jobs) :
                  js = Append(jobs, [kind |-> "save", of |-> session.progress])
            <4>1. [kind |-> "save", of |-> session.progress] \in Jobs
                BY <3>1, SessionAssumption DEF Jobs, Characters
            <4>2. Append(jobs, [kind |-> "save", of |-> session.progress]) \in Seq(Jobs)
                BY <1>3, <4>1
            <4> QED BY <4>2
        <3>3. PICK u : u = [World EXCEPT !.jobs = js, !.saved = session.progress]
            OBVIOUS
        <3>4. u \in Worlds
            BY <1>1, <3>1, <3>3 DEF Worlds
        <3>5. u.s = session /\ u.jobs = js /\ u.saved = session.progress /\ u.client = client
            BY <1>1, <3>3 DEF Worlds
        <3>6. Becomes(u)
            BY <2>3, <3>2, <3>5 DEF Becomes
        <3>7. LoginOf(u)
            BY <1>1, <3>5 DEF CallInv, LoginOf
        <3>8. JobsOf(u) /\ (SaveOf(World) => SaveOf(u))
            <4>1. JobsOf(World) /\ u.s.holder = 0 /\ u.s.result = "none"
                BY <1>1, <1>4, <2>3, <3>5 DEF CallInv
            <4>2. /\ u.jobs = Append(World.jobs, [kind |-> "save", of |-> World.s.progress])
                  /\ u.saved = World.s.progress /\ u.s.progress = World.s.progress
                BY <1>1, <3>2, <3>5
            <4> QED BY <1>1, <4>1, <4>2, SaveGiven
        <3>9. Playing(u, recvQueue, requeue)
            BY <1>1, <1>4, <2>3, <3>5 DEF Playing
        <3>10. ConversationOf(u, recvQueue, requeue)
            BY <1>1, <3>5, <3>9 DEF CallInv, ConversationOf, Turn
        <3> QED BY <3>4, <3>6, <3>7, <3>8, <3>10 DEF CallInv
    <2>4. CASE /\ session.player = "world"
               /\ session' = [session EXCEPT !.player = "transfer"]
               /\ client' = [client EXCEPT !.moved = TRUE]
               /\ UNCHANGED <<jobs, saved>>
        <3>1. PICK s \in Sessions : s = [session EXCEPT !.player = "transfer"]
            <4>1. [session EXCEPT !.player = "transfer"] \in Sessions
                BY <1>3 DEF Sessions
            <4> QED BY <4>1
        <3>2. PICK w \in Worlds : w = [World EXCEPT !.s = s] /\ SamePlayer(w, World)
            <4>1. World.s.alive /\ World.s.player # "none"
                BY <1>1, <1>4, <2>4
            <4>2. \E place \in {"world", "transfer"} : s = [World.s EXCEPT !.player = place]
                BY <1>1, <3>1
            <4>3. [World EXCEPT !.s = s] \in Worlds /\ SamePlayer([World EXCEPT !.s = s], World)
                BY <1>1, <4>1, <4>2, FieldSet
            <4> QED BY <4>3
        <3>3. PICK c \in Clients : c = [client EXCEPT !.moved = TRUE]
            <4>1. [client EXCEPT !.moved = TRUE] \in Clients
                BY <1>3 DEF Clients
            <4> QED BY <4>1
        <3>4. c.screen = client.screen /\ c.told = client.told
            BY <1>3, <3>3 DEF Clients
        <3>5. w.s = s /\ w.jobs = jobs /\ w.saved = saved /\ w.client = client
            BY <1>1, <3>2 DEF Worlds
        <3>6. PICK u : u = [w EXCEPT !.client = c]
            OBVIOUS
        <3>7. u \in Worlds /\ u.s = s /\ u.jobs = jobs /\ u.saved = saved /\ u.client = c
            BY <3>5, <3>6 DEF Worlds
        <3>8. Becomes(u)
            BY <2>4, <3>1, <3>3, <3>7 DEF Becomes
        <3>9. SamePlayer(u, World)
            BY <1>1, <3>2, <3>4, <3>5, <3>7 DEF SamePlayer, SameLogin
        <3> QED BY <1>1, <3>7, <3>8, <3>9, SamePlayerKeeps
    <2> QED BY <2>1, <2>2, <2>3, <2>4 DEF Play
<1>6. /\ session' \in Sessions /\ jobs' \in Seq(Jobs) /\ saved' \in Characters
      /\ client' \in Clients /\ CallInv(World, recvQueue, requeue)'
      /\ SaveOf(World) => SaveOf(World)'
    BY <1>2, <1>5, Carried
<1>7. TypeOK'
    BY <1>1, <1>2, <1>6 DEF TypeOK, Clients
<1>8. OrderInv' /\ RequeueInv' /\ delivered'.login = delivered'.packet.login
    BY <1>1, <1>2 DEF OrderInv, RequeueInv, SessionInv
<1> QED BY <1>6, <1>7, <1>8 DEF SessionInv

\* A client connects.
LEMMA ConnectKeeps ==
    ASSUME SessionInv, Connect
    PROVE  SessionInv' /\ (SaveOf(World) => SaveOf(World)')
<1>1. /\ TypeOK /\ World \in Worlds /\ CallInv(World, recvQueue, requeue) /\ OrderInv
      /\ World.s = session /\ World.jobs = jobs
      /\ World.saved = saved /\ World.client = client
    BY Typed DEF SessionInv
<1>2. /\ sent.count < MaxSent /\ sent' = [sent EXCEPT !.count = @ + 1]
      /\ client' = [client EXCEPT !.screen = "connecting"] /\ added' = TRUE
      /\ UNCHANGED <<session, recvQueue, requeue, processed, at, jobs, stored, saved, delivered>>
    BY DEF Connect
<1>3. /\ client \in Clients /\ sent \in [count : 0..MaxSent, login : 0..MaxSent]
      /\ recvQueue \in Seq(Packets) /\ requeue \in Seq(Packets)
    BY <1>1 DEF TypeOK, Clients
<1>4. /\ sent' \in [count : 0..MaxSent, login : 0..MaxSent]
      /\ sent'.count = sent.count + 1 /\ sent'.login = sent.login
      /\ sent.count \in Nat /\ sent.login \in Nat
    <2>1. sent.count \in 0..MaxSent /\ sent.login \in 0..MaxSent
        BY <1>3
    <2>2. sent.count + 1 \in 0..MaxSent
        BY <1>2, <2>1, SessionAssumption
    <2> QED BY <1>2, <1>3, <2>1, <2>2, SessionAssumption
<1>5. PICK c \in Clients : c = client' /\ c.screen = "connecting"
    BY <1>2, <1>3 DEF Clients
<1>6. PICK v : v = [World EXCEPT !.client = c]
    OBVIOUS
<1>7. /\ v \in Worlds /\ v.s = session /\ v.jobs = jobs /\ v.saved = saved /\ v.client = c
    BY <1>1, <1>6 DEF Worlds
<1>8. CallInv(v, recvQueue, requeue) /\ (SaveOf(World) => SaveOf(v))
    BY <1>1, <1>5, <1>7, ScreenOff
<1>9. Becomes(v)
    BY <1>2, <1>5, <1>7 DEF Becomes
<1>10. /\ session' \in Sessions /\ jobs' \in Seq(Jobs) /\ saved' \in Characters
       /\ client' \in Clients /\ CallInv(World, recvQueue, requeue)'
       /\ SaveOf(World) => SaveOf(World)'
    BY <1>2, <1>4, <1>7, <1>8, <1>9, Carried
<1>11. TypeOK'
    BY <1>1, <1>2, <1>4, <1>10 DEF TypeOK, Clients
<1>12. OrderInv'
    <2>1. PICK q \in Seq(Packets) : q = requeue \o recvQueue
        <3>1. requeue \o recvQueue \in Seq(Packets)
            BY <1>3
        <3> QED BY <3>1
    <2>2. \A i \in 1..Len(q) : q[i].n \in 1..MaxSent
        <3>1. \A i \in 1..Len(q) : q[i] \in Packets
            OBVIOUS
        <3> QED BY <3>1, ForWhom
    <2>3. \A i \in 1..Len(q) : q[i].n <= sent.count + 1
        <3>1. \A i \in 1..Len(q) : q[i].n <= sent.count
            BY <1>1, <2>1 DEF OrderInv, Ordered
        <3>2. \A k \in 1..MaxSent : k <= sent.count => k <= sent.count + 1
            BY <1>4, SessionAssumption
        <3> QED BY <2>2, <3>1, <3>2
    <2>4. Ordered(q, sent'.count)
        BY <1>1, <1>4, <2>1, <2>3 DEF OrderInv, Ordered
    <2>5. sent'.login <= sent'.count
        BY <1>1, <1>4 DEF OrderInv
    <2> QED BY <1>2, <2>1, <2>4, <2>5 DEF OrderInv
<1>13. RequeueInv' /\ delivered'.login = delivered'.packet.login
    BY <1>2 DEF RequeueInv, SessionInv
<1> QED BY <1>10, <1>11, <1>12, <1>13 DEF SessionInv

\* What the client hears, and its going, leave the server's side alone.
LEMMA ClientKeeps ==
    ASSUME SessionInv, LogoutComplete \/ Vanish
    PROVE  SessionInv' /\ (SaveOf(World) => SaveOf(World)')
<1>1. /\ TypeOK /\ World \in Worlds /\ CallInv(World, recvQueue, requeue)
      /\ World.s = session /\ World.jobs = jobs
      /\ World.saved = saved /\ World.client = client /\ client \in Clients
    BY Typed DEF SessionInv, TypeOK, Clients
<1>2. /\ UNCHANGED <<session, recvQueue, requeue, processed, at, jobs, stored, added>>
      /\ UNCHANGED <<sent, saved, delivered>>
    BY DEF LogoutComplete, Vanish, server
<1>3. PICK v \in Worlds :
          /\ Becomes(v) /\ CallInv(v, recvQueue, requeue) /\ (SaveOf(World) => SaveOf(v))
    <2>1. PICK c \in Clients : c = client'
        <3>1. client' \in Clients
            BY <1>1 DEF LogoutComplete, Vanish, Clients
        <3> QED BY <3>1
    <2>2. PICK u : u = [World EXCEPT !.client = c]
        OBVIOUS
    <2>3. /\ u \in Worlds /\ u.s = session /\ u.jobs = jobs /\ u.saved = saved /\ u.client = c
        BY <1>1, <2>2 DEF Worlds
    <2>4. Becomes(u)
        BY <1>2, <2>1, <2>3 DEF Becomes
    <2>5. CASE Vanish
        <3>1. c.screen = "off"
            BY <1>1, <2>1, <2>5 DEF Vanish, Clients
        <3>2. CallInv(u, recvQueue, requeue) /\ (SaveOf(World) => SaveOf(u))
            BY <1>1, <2>3, <3>1, ScreenOff
        <3> QED BY <2>3, <2>4, <3>2
    <2>6. CASE LogoutComplete
        <3>1. c.screen = "characters" /\ ~c.told /\ client.screen = "game" /\ client.told
            BY <1>1, <2>1, <2>6 DEF LogoutComplete, Clients
        <3>2. LoginOf(u) /\ JobsOf(u) /\ (SaveOf(World) => SaveOf(u))
            BY <1>1, <2>3 DEF CallInv, LoginOf, JobsOf, SaveOf, Saves
        <3>3. ASSUME session.alive  PROVE  Choosing(u, recvQueue, requeue)
            <4>1. Choosing(World, recvQueue, requeue)
                BY <1>1, <3>1, <3>3 DEF CallInv, ConversationOf, Turn, Selecting, LoggingIn,
                                        Playing
            <4> QED BY <1>1, <2>3, <3>1, <4>1 DEF Choosing, NobodyThere
        <3>4. ConversationOf(u, recvQueue, requeue)
            BY <2>3, <3>1, <3>3 DEF ConversationOf, Turn
        <3> QED BY <2>3, <2>4, <3>2, <3>4 DEF CallInv
    <2> QED BY <2>5, <2>6
<1>4. /\ session' \in Sessions /\ jobs' \in Seq(Jobs) /\ saved' \in Characters
      /\ client' \in Clients /\ CallInv(World, recvQueue, requeue)'
      /\ SaveOf(World) => SaveOf(World)'
    BY <1>2, <1>3, Carried
<1>5. TypeOK'
    BY <1>1, <1>2, <1>4 DEF TypeOK, Clients
<1>6. OrderInv' /\ RequeueInv' /\ delivered'.login = delivered'.packet.login
    BY <1>2 DEF OrderInv, RequeueInv, SessionInv
<1> QED BY <1>4, <1>5, <1>6 DEF SessionInv

\* The connection is lost.
LEMMA CloseSocketKeeps ==
    ASSUME SessionInv, CloseSocket
    PROVE  SessionInv' /\ (SaveOf(World) => SaveOf(World)')
<1>1. /\ TypeOK /\ World \in Worlds /\ CallInv(World, recvQueue, requeue)
      /\ World.s = session /\ World.jobs = jobs
      /\ World.saved = saved /\ World.client = client /\ session \in Sessions
    BY Typed DEF SessionInv, TypeOK
<1>2. /\ session' = [session EXCEPT !.socket = "closed"] /\ session.alive
      /\ UNCHANGED <<recvQueue, requeue, processed, at, jobs, stored, added, client, sent,
                     saved, delivered>>
    BY DEF CloseSocket, Online
<1>3. PICK s \in Sessions : s = [session EXCEPT !.socket = "closed"]
    <2>1. [session EXCEPT !.socket = "closed"] \in Sessions
        BY <1>1 DEF Sessions
    <2> QED BY <2>1
<1>4. PICK v \in Worlds : v = [World EXCEPT !.s = s] /\ SamePlayer(v, World)
    <2>1. World.s.alive
        BY <1>1, <1>2
    <2>2. \E state \in {"closed", "null"} : s = [World.s EXCEPT !.socket = state]
        BY <1>1, <1>3
    <2>3. [World EXCEPT !.s = s] \in Worlds /\ SamePlayer([World EXCEPT !.s = s], World)
        BY <1>1, <2>1, <2>2, FieldSet
    <2> QED BY <2>3
<1>5. v.s = s /\ v.jobs = jobs /\ v.saved = saved /\ v.client = client
    BY <1>1, <1>4 DEF Worlds
<1>6. Becomes(v)
    BY <1>2, <1>3, <1>5 DEF Becomes
<1>7. CallInv(v, recvQueue, requeue) /\ (SaveOf(World) => SaveOf(v))
    BY <1>1, <1>4, SamePlayerKeeps
<1>8. /\ session' \in Sessions /\ jobs' \in Seq(Jobs) /\ saved' \in Characters
      /\ client' \in Clients /\ CallInv(World, recvQueue, requeue)'
      /\ SaveOf(World) => SaveOf(World)'
    BY <1>2, <1>6, <1>7, Carried
<1>9. TypeOK'
    BY <1>1, <1>2, <1>8 DEF TypeOK, Clients
<1>10. session'.player = session.player
    BY <1>1, <1>2 DEF Sessions
<1>11. OrderInv' /\ RequeueInv' /\ delivered'.login = delivered'.packet.login
    BY <1>2, <1>10 DEF OrderInv, RequeueInv, SessionInv
<1> QED BY <1>8, <1>9, <1>11 DEF SessionInv

--------------------------------------------------------------------------------
(* What the client sends.                                                   *)

\* A packet comes to the end of the queue.
LEMMA AppendKinds ==
    ASSUME NEW q \in Seq(Packets), NEW p \in Packets
    PROVE  /\ Append(q, p) \in Seq(Packets) /\ Len(q) \in Nat
           /\ \A i \in 1..Len(q) : Append(q, p)[i] = q[i]
           /\ Append(q, p)[Len(q) + 1] = p
           /\ \A kind : \A i \in Of(Append(q, p), kind) :
                  i \in Of(q, kind) \/ (i = Len(q) + 1 /\ p.kind = kind)
           /\ \A i \in ForPlayer(Append(q, p)) :
                  i \in ForPlayer(q) \/ (i = Len(q) + 1 /\ p.kind \in InWorld)
           /\ \A kind : \A i \in Of(q, kind) : i \in Of(Append(q, p), kind)
           /\ \A kind : p.kind = kind => Len(q) + 1 \in Of(Append(q, p), kind)
           /\ \A kind : \A i \in Of(q, kind) : i \in 1..Len(q) /\ i < Len(q) + 1
           /\ \A i \in ForPlayer(q) : i \in 1..Len(q) /\ i < Len(q) + 1
<1> PICK a \in Seq(Packets) : a = Append(q, p)
    <2>1. Append(q, p) \in Seq(Packets)
        OBVIOUS
    <2> QED BY <2>1
<1>1. /\ Len(a) = Len(q) + 1 /\ a[Len(q) + 1] = p /\ Len(q) \in Nat
      /\ \A i \in 1..Len(q) : a[i] = q[i] /\ i \in 1..Len(a) /\ i < Len(q) + 1
      /\ Len(q) + 1 \in 1..Len(a)
    OBVIOUS
<1>2. \A i \in 1..Len(a) : i \in 1..Len(q) \/ i = Len(q) + 1
    BY <1>1, OneMore
<1>3. ASSUME NEW kind, NEW i \in Of(a, kind)
      PROVE  i \in Of(q, kind) \/ (i = Len(q) + 1 /\ p.kind = kind)
    BY <1>1, <1>2 DEF Of
<1>4. ASSUME NEW i \in ForPlayer(a)
      PROVE  i \in ForPlayer(q) \/ (i = Len(q) + 1 /\ p.kind \in InWorld)
    BY <1>1, <1>2 DEF ForPlayer
<1>5. \A kind : \A i \in Of(q, kind) : i \in Of(a, kind)
    BY <1>1 DEF Of
<1>6. \A kind : p.kind = kind => Len(q) + 1 \in Of(a, kind)
    BY <1>1 DEF Of
<1>7. /\ \A kind : \A i \in Of(q, kind) : i \in 1..Len(q) /\ i < Len(q) + 1
      /\ \A i \in ForPlayer(q) : i \in 1..Len(q) /\ i < Len(q) + 1
    BY <1>1 DEF Of, ForPlayer
<1> QED BY <1>1, <1>3, <1>4, <1>5, <1>6, <1>7

\* Any packet but a login.
LEMMA SentKeeps ==
    ASSUME NEW w, NEW v, NEW q \in Seq(Packets), NEW r, NEW p \in Packets, CallInv(w, q, r),
           w.s.alive, v.s = w.s, v.jobs = w.jobs, v.saved = w.saved,
           v.client.told = w.client.told, p.login = sent.login,
           \/ /\ p.kind = "enum"
              /\ w.client.screen = "characters" /\ v.client.screen = "selecting"
           \/ p.kind \in {"cancel", "ack"} /\ v.client.screen = w.client.screen
           \/ /\ p.kind \in InWorld
              /\ w.client.screen = "game" /\ v.client.screen = "game"
    PROVE  CallInv(v, Append(q, p), r) /\ (SaveOf(w) => SaveOf(v))
<1> PICK a \in Seq(Packets) : a = Append(q, p)
    BY AppendKinds
<1>1. /\ Len(q) \in Nat
      /\ \A i \in 1..Len(q) : a[i] = q[i]
      /\ a[Len(q) + 1] = p
      /\ \A kind : \A i \in Of(a, kind) :
             i \in Of(q, kind) \/ (i = Len(q) + 1 /\ p.kind = kind)
      /\ \A i \in ForPlayer(a) :
             i \in ForPlayer(q) \/ (i = Len(q) + 1 /\ p.kind \in InWorld)
      /\ \A kind : \A i \in Of(q, kind) : i \in Of(a, kind)
      /\ \A kind : p.kind = kind => Len(q) + 1 \in Of(a, kind)
      /\ \A kind : \A i \in Of(q, kind) : i \in 1..Len(q) /\ i < Len(q) + 1
      /\ \A i \in ForPlayer(q) : i \in 1..Len(q) /\ i < Len(q) + 1
    BY AppendKinds
<1>2. LoginOf(v) /\ JobsOf(v) /\ (SaveOf(w) => SaveOf(v))
    BY DEF CallInv, LoginOf, JobsOf, SaveOf, Saves
<1>3. v.client.screen \in {"characters", "selecting"} => ~v.client.told
    BY DEF CallInv, ConversationOf, InWorld
<1>4. NobodyThere(w, r) => NobodyThere(v, r)
    BY DEF NobodyThere
<1>5. CASE p.kind = "enum"
    <2>1. w.client.screen = "characters" /\ v.client.screen = "selecting"
        BY <1>5 DEF InWorld
    <2>2. Choosing(w, q, r)
        BY <2>1 DEF CallInv, ConversationOf, Turn, Selecting, LoggingIn, Playing
    <2>3. Of(a, "login") = {}
        BY <1>1, <1>5, <2>2 DEF Choosing
    <2>4. \A i \in Of(a, "enum") : i = Len(q) + 1
        BY <1>1, <2>2 DEF Choosing
    <2>5. \A i \in ForPlayer(a) : v.s.recently /\ \E k \in Of(a, "enum") : i < k
        BY <1>1, <1>5, <2>2 DEF Choosing, InWorld
    <2>6. Selecting(v, a, r)
        BY <1>4, <2>1, <2>2, <2>3, <2>4, <2>5 DEF Choosing, Selecting
    <2> QED BY <1>2, <1>3, <2>6 DEF CallInv, ConversationOf, Turn
<1>6. CASE p.kind \in {"cancel", "ack"} \/ p.kind \in InWorld
    <2>1. v.client.screen = w.client.screen /\ p.kind \notin {"enum", "login"}
        BY <1>6 DEF InWorld
    <2>2. p.kind \in InWorld => w.client.screen = "game"
        BY <1>6 DEF InWorld
    <2>3. Of(a, "enum") = Of(q, "enum") /\ Of(a, "login") = Of(q, "login")
        <3>1. \A i : i \in Of(a, "enum") <=> i \in Of(q, "enum")
            BY <1>1, <2>1
        <3>2. \A i : i \in Of(a, "login") <=> i \in Of(q, "login")
            BY <1>1, <2>1
        <3> QED BY <3>1, <3>2
    <2>4. CASE Choosing(w, q, r)
        <3>1. ForPlayer(a) # {} => v.s.recently
            BY <1>1, <2>2, <2>4 DEF Choosing
        <3>2. Choosing(v, a, r)
            BY <1>4, <2>1, <2>3, <2>4, <3>1 DEF Choosing
        <3> QED BY <1>2, <1>3, <3>2 DEF CallInv, ConversationOf, Turn
    <2>5. CASE Selecting(w, q, r)
        <3>1. \A i \in ForPlayer(a) : i \in ForPlayer(q)
            BY <1>1, <2>2, <2>5 DEF Selecting
        <3>2. Selecting(v, a, r)
            BY <1>4, <2>1, <2>3, <2>5, <3>1 DEF Selecting
        <3> QED BY <1>2, <1>3, <3>2 DEF CallInv, ConversationOf, Turn
    <2>6. CASE LoggingIn(w, q, r)
        <3>1. PICK j \in Of(q, "login") :
                  /\ q[j].login = sent.login
                  /\ \A i \in Of(q, "login") : i = j
                  /\ \A i, k \in Of(q, "enum") : i = k /\ k < j
                  /\ \A i \in ForPlayer(q) :
                        IF i < j THEN w.s.recently /\ \E k \in Of(q, "enum") : i < k
                        ELSE q[i].login = sent.login
            BY <2>6 DEF LoggingIn
        <3>2. a[j] = q[j] /\ j \in Nat /\ j < Len(q) + 1
            BY <1>1
        <3>3. ASSUME NEW i \in ForPlayer(a)
              PROVE  IF i < j THEN v.s.recently /\ \E k \in Of(q, "enum") : i < k
                     ELSE a[i].login = sent.login
            <4>1. CASE i \in ForPlayer(q)
                <5>1. a[i] = q[i]
                    BY <1>1, <4>1
                <5> QED BY <3>1, <4>1, <5>1
            <4>2. CASE i = Len(q) + 1
                <5>1. ~(i < j) /\ a[i].login = sent.login
                    BY <1>1, <3>2, <4>2
                <5> QED BY <5>1
            <4> QED BY <1>1, <4>1, <4>2
        <3>4. /\ j \in Of(a, "login") /\ a[j].login = sent.login
              /\ \A i \in Of(a, "login") : i = j
            BY <2>3, <3>1, <3>2
        <3>5. \A i, k \in Of(a, "enum") : i = k /\ k < j
            BY <2>3, <3>1
        <3>6. \A i \in ForPlayer(a) :
                  IF i < j THEN v.s.recently /\ \E k \in Of(a, "enum") : i < k
                  ELSE a[i].login = sent.login
            BY <2>3, <3>3
        <3>7. NobodyThere(v, r) /\ sent.login > 0
            BY <1>4, <2>6 DEF LoggingIn
        <3>8. \A i \in 1..Len(v.jobs) : v.jobs[i].kind = "load" => v.jobs[i].of < sent.login
            BY <2>6 DEF LoggingIn
        <3>9. /\ v.client.screen \notin {"characters", "selecting"}
              /\ v.client.screen = "game" => ~v.client.told
            BY <2>1, <2>6 DEF LoggingIn
        <3>10. LoggingIn(v, a, r)
            BY <3>4, <3>5, <3>6, <3>7, <3>8, <3>9 DEF LoggingIn
        <3> QED BY <1>2, <1>3, <3>10 DEF CallInv, ConversationOf, Turn
    <2>7. CASE Playing(w, q, r)
        <3>1. ASSUME NEW i \in ForPlayer(a)  PROVE  a[i].login = sent.login
            <4>1. CASE i \in ForPlayer(q)
                <5>1. a[i] = q[i]
                    BY <1>1, <4>1
                <5> QED BY <2>7, <4>1, <5>1 DEF Playing
            <4>2. CASE i = Len(q) + 1
                BY <1>1, <4>2
            <4> QED BY <1>1, <4>1, <4>2
        <3>2. Playing(v, a, r)
            BY <2>1, <2>3, <2>7, <3>1 DEF Playing
        <3> QED BY <1>2, <1>3, <3>2 DEF CallInv, ConversationOf, Turn
    <2> QED BY <2>4, <2>5, <2>6, <2>7 DEF CallInv, ConversationOf, Turn
<1> QED BY <1>5, <1>6

\* The client logs a character in.
LEMMA LoginSent ==
    ASSUME SessionInv, client.screen = "selecting", Send("login"),
           client' = [client EXCEPT !.screen = "game"],
           NEW p \in Packets, recvQueue' = Append(recvQueue, p), p.kind = "login",
           p.login = sent'.login, sent'.login = sent.login + 1, sent.login \in Nat
    PROVE  /\ client' \in Clients /\ CallInv(World, recvQueue, requeue)'
           /\ SaveOf(World) => SaveOf(World)'
<1>1. /\ TypeOK /\ World \in Worlds /\ CallInv(World, recvQueue, requeue)
      /\ World.s = session /\ World.jobs = jobs
      /\ World.saved = saved /\ World.client = client
      /\ client \in Clients /\ recvQueue \in Seq(Packets) /\ jobs \in Seq(Jobs)
    BY Typed DEF SessionInv, TypeOK, Clients
<1>2. session.alive /\ UNCHANGED <<session, requeue, jobs, stored, saved>>
    BY DEF Send, Online
<1>3. /\ client' \in Clients /\ client'.screen = "game"
      /\ client'.told = client.told
    BY <1>1 DEF Clients
<1>4. /\ World'.s = session /\ World'.jobs = jobs /\ World'.saved = saved
      /\ World'.client = client'
    BY <1>2 DEF World
<1>5. Selecting(World, recvQueue, requeue) /\ ~client.told
    BY <1>1, <1>2 DEF CallInv, ConversationOf, Turn, Choosing, LoggingIn, Playing
<1>6. LoginOf(World)'
    <2>1. session.holder = 0
        BY <1>1, <1>5 DEF Selecting, NobodyThere
    <2> QED BY <1>1, <1>4, <2>1 DEF CallInv, LoginOf
<1>7. \A i \in 1..Len(jobs) : jobs[i].kind # "save" =>
          jobs[i].of \in 1..sent.login /\ jobs[i].of < sent.login + 1
    <2>1. \A k \in 1..sent.login : k < sent.login + 1
        OBVIOUS
    <2> QED BY <1>1, <2>1 DEF CallInv, JobsOf
<1>8. JobsOf(World)'
    <2>1. \A k \in 1..sent.login : k \in 1..(sent.login + 1)
        OBVIOUS
    <2>2. \A i \in 1..Len(jobs) : jobs[i].kind # "save" => jobs[i].of \in 1..sent'.login
        BY <1>7, <2>1
    <2> QED BY <1>1, <1>4, <2>2 DEF CallInv, JobsOf
<1>9. LoggingIn(World, recvQueue, requeue)'
    <2> PICK q \in Seq(Packets) : q = recvQueue
        BY <1>1
    <2> PICK a : a = recvQueue'
        OBVIOUS
    <2>1. /\ Len(q) \in Nat /\ a[Len(q) + 1] = p
          /\ \A i \in Of(a, "login") : i \in Of(q, "login") \/ i = Len(q) + 1
          /\ \A i \in Of(a, "enum") : i \in Of(q, "enum")
          /\ \A i \in ForPlayer(a) : i \in ForPlayer(q)
          /\ \A i \in Of(q, "enum") : i \in Of(a, "enum") /\ i < Len(q) + 1
          /\ \A i \in ForPlayer(q) : i < Len(q) + 1
          /\ Len(q) + 1 \in Of(a, "login")
        <3>1. a = Append(q, p) /\ p.kind \notin InWorld /\ p.kind # "enum"
            BY DEF InWorld
        <3> QED BY <3>1, AppendKinds
    <2>2. /\ session.player = "none" /\ ~session.loading /\ session.holder = 0
          /\ requeue' = <<>> /\ sent'.login > 0
        BY <1>1, <1>2, <1>5 DEF Selecting, NobodyThere
    <2> PICK v : v = World'
        OBVIOUS
    <2> PICK r : r = requeue'
        OBVIOUS
    <2>3. NobodyThere(v, r)
        BY <1>4, <2>2 DEF NobodyThere
    <2>4. \A i \in 1..Len(v.jobs) : v.jobs[i].kind = "load" => v.jobs[i].of < sent'.login
        BY <1>4, <1>7
    <2>5. /\ Len(q) + 1 \in Of(a, "login") /\ a[Len(q) + 1].login = sent'.login
          /\ \A i \in Of(a, "login") : i = Len(q) + 1
        BY <1>5, <2>1 DEF Selecting
    <2>6. \A i, k \in Of(a, "enum") : i = k /\ k < Len(q) + 1
        BY <1>5, <2>1 DEF Selecting
    <2>7. \A i \in ForPlayer(a) :
              IF i < Len(q) + 1 THEN v.s.recently /\ \E k \in Of(a, "enum") : i < k
              ELSE a[i].login = sent'.login
        <3>1. \A i \in ForPlayer(a) :
                  i < Len(q) + 1 /\ session.recently /\ \E k \in Of(a, "enum") : i < k
            BY <1>1, <1>5, <2>1 DEF Selecting
        <3>2. v.s.recently <=> session.recently
            BY <1>4
        <3> QED BY <3>1, <3>2
    <2>8. /\ v.client.screen \notin {"characters", "selecting"}
          /\ v.client.screen = "game" => ~v.client.told
        BY <1>3, <1>4, <1>5
    <2>9. Of(a, "login") = Of(recvQueue, "login")' /\ Of(a, "enum") = Of(recvQueue, "enum")'
          /\ ForPlayer(a) = ForPlayer(recvQueue)'
        OBVIOUS
    <2>10. NobodyThere(World, requeue)' /\ sent'.login > 0
        BY <2>2, <2>3
    <2>11. (\A i \in 1..Len(World.jobs) :
                World.jobs[i].kind = "load" => World.jobs[i].of < sent.login)'
        BY <2>4
    <2>12. (\E j \in Of(recvQueue, "login") :
               /\ recvQueue[j].login = sent.login
               /\ \A i \in Of(recvQueue, "login") : i = j
               /\ \A i, k \in Of(recvQueue, "enum") : i = k /\ k < j
               /\ \A i \in ForPlayer(recvQueue) :
                     IF i < j THEN World.s.recently /\ \E k \in Of(recvQueue, "enum") : i < k
                     ELSE recvQueue[i].login = sent.login)'
        <3>1. ASSUME NEW i \in ForPlayer(recvQueue)'
              PROVE  IF i < Len(q) + 1
                     THEN World'.s.recently /\ \E k \in Of(recvQueue, "enum")' : i < k
                     ELSE recvQueue'[i].login = sent'.login
            BY <2>7, <2>9
        <3>2. /\ Len(q) + 1 \in Of(recvQueue, "login")'
              /\ recvQueue'[Len(q) + 1].login = sent'.login
            BY <2>5, <2>9
        <3>3. \A i \in Of(recvQueue, "login")' : i = Len(q) + 1
            BY <2>5, <2>9
        <3>4. \A i, k \in Of(recvQueue, "enum")' : i = k /\ k < Len(q) + 1
            BY <2>6, <2>9
        <3> QED BY <3>1, <3>2, <3>3, <3>4
    <2>13. (/\ World.client.screen \notin {"characters", "selecting"}
            /\ World.client.screen = "game" => ~World.client.told)'
        BY <2>8
    <2> QED BY <2>10, <2>11, <2>12, <2>13 DEF LoggingIn
<1>10. ConversationOf(World, recvQueue, requeue)'
    BY <1>3, <1>4, <1>9 DEF ConversationOf, Turn
<1>11. SaveOf(World) => SaveOf(World)'
    BY <1>1, <1>2, <1>4 DEF SaveOf, Saves
<1> QED BY <1>3, <1>6, <1>8, <1>10, <1>11 DEF CallInv

\* The client sends a packet.
LEMMA ClientSendsKeeps ==
    ASSUME SessionInv, ClientSends
    PROVE  SessionInv' /\ (SaveOf(World) => SaveOf(World)')
<1>1. /\ TypeOK /\ World \in Worlds /\ CallInv(World, recvQueue, requeue) /\ OrderInv
      /\ World.s = session /\ World.jobs = jobs
      /\ World.saved = saved /\ World.client = client
      /\ client \in Clients /\ recvQueue \in Seq(Packets) /\ requeue \in Seq(Packets)
      /\ session \in Sessions /\ jobs \in Seq(Jobs) /\ saved \in Characters
    BY Typed DEF SessionInv, TypeOK, Clients
<1>2. PICK kind \in Kinds :
          /\ Send(kind)
          /\ \/ /\ kind = "enum" /\ client.screen = "characters"
                /\ client' = [client EXCEPT !.screen = "selecting"]
             \/ /\ kind = "login" /\ client.screen = "selecting"
                /\ client' = [client EXCEPT !.screen = "game"]
             \/ kind = "cancel" /\ UNCHANGED client
             \/ kind \in InWorld /\ client.screen = "game" /\ UNCHANGED client
             \/ kind = "ack" /\ client' = [client EXCEPT !.moved = FALSE]
    BY DEF ClientSends, Kinds, InWorld
<1>3. /\ session.alive /\ sent.count < MaxSent
      /\ sent' = [sent EXCEPT !.count = @ + 1, !.login = IF kind = "login" THEN @ + 1 ELSE @]
      /\ recvQueue' = Append(recvQueue, [n |-> sent'.count, kind |-> kind,
                                         login |-> sent'.login])
      /\ UNCHANGED <<session, requeue, processed, at, jobs, stored, added, saved, delivered>>
    BY <1>2 DEF Send, Online
<1>4. /\ sent.count \in Nat /\ sent.login \in Nat
      /\ sent'.count = sent.count + 1
      /\ sent'.login = IF kind = "login" THEN sent.login + 1 ELSE sent.login
      /\ sent'.count \in 1..MaxSent /\ sent'.login \in 0..MaxSent
      /\ sent'.login <= sent'.count
      /\ sent' \in [count : 0..MaxSent, login : 0..MaxSent]
    <2>1. sent \in [count : 0..MaxSent, login : 0..MaxSent]
        BY <1>1 DEF TypeOK
    <2>2. sent.count \in 0..MaxSent /\ sent.login \in 0..MaxSent /\ sent.login <= sent.count
        BY <1>1, <2>1 DEF OrderInv
    <2>3. /\ sent'.count = sent.count + 1
          /\ sent'.login = IF kind = "login" THEN sent.login + 1 ELSE sent.login
        BY <1>3, <2>1
    <2>4. sent'.count \in 1..MaxSent /\ sent'.count \in 0..MaxSent
        BY <1>3, <2>2, <2>3, SessionAssumption
    <2>5. sent'.login \in 0..MaxSent /\ sent'.login <= sent'.count
        BY <1>3, <2>2, <2>3, SessionAssumption
    <2>6. sent' = [count |-> sent'.count, login |-> sent'.login]
        BY <1>3, <2>1
    <2>7. sent' \in [count : 0..MaxSent, login : 0..MaxSent]
        BY <2>4, <2>5, <2>6
    <2> QED BY <2>2, <2>3, <2>4, <2>5, <2>7, SessionAssumption
<1>5. PICK p \in Packets : p = [n |-> sent'.count, kind |-> kind, login |-> sent'.login]
    <2>1. [n |-> sent'.count, kind |-> kind, login |-> sent'.login] \in Packets
        BY <1>4 DEF Packets
    <2> QED BY <2>1
<1>6. /\ recvQueue' = Append(recvQueue, p)
      /\ p.n = sent.count + 1 /\ p.kind = kind /\ p.login = sent'.login
    BY <1>3, <1>4, <1>5
<1>7. /\ client' \in Clients /\ CallInv(World, recvQueue, requeue)'
      /\ SaveOf(World) => SaveOf(World)'
    <2>1. CASE kind = "login"
        <3>1. client.screen = "selecting" /\ client' = [client EXCEPT !.screen = "game"]
            BY <1>2, <2>1 DEF InWorld
        <3>2. Send("login")
            BY <1>2, <2>1
        <3>3. sent'.login = sent.login + 1 /\ sent.login \in Nat /\ p.kind = "login"
            BY <1>4, <1>6, <2>1
        <3> QED BY <1>6, <3>1, <3>2, <3>3, LoginSent
    <2>2. CASE kind # "login"
        <3>1. client' \in Clients /\ client'.told = client.told
            BY <1>1, <1>2, <2>2 DEF Clients
        <3>2. \/ kind = "enum" /\ client.screen = "characters" /\ client'.screen = "selecting"
              \/ kind \in {"cancel", "ack"} /\ client'.screen = client.screen
              \/ kind \in InWorld /\ client.screen = "game" /\ client'.screen = "game"
            BY <1>1, <1>2, <2>2 DEF Clients
        <3>3. PICK c \in Clients : c = client'
            BY <3>1
        <3>4. PICK v : v = [World EXCEPT !.client = c]
            OBVIOUS
        <3>5. /\ v \in Worlds /\ v.s = session /\ v.jobs = jobs /\ v.saved = saved
              /\ v.client = c
            BY <1>1, <3>4 DEF Worlds
        <3>6. sent'.login = sent.login /\ p.login = sent.login
            BY <1>4, <1>6, <2>2
        <3>7. /\ CallInv(v, Append(recvQueue, p), requeue)
              /\ SaveOf(World) => SaveOf(v)
            BY <1>1, <1>3, <1>6, <3>1, <3>2, <3>3, <3>5, <3>6, SentKeeps
        <3>8. Becomes(v)
            BY <1>3, <3>3, <3>5 DEF Becomes
        <3> QED BY <1>3, <1>6, <3>1, <3>5, <3>6, <3>7, <3>8, Carried
    <2> QED BY <2>1, <2>2
<1>8. /\ Append(recvQueue, p) \in Seq(Packets)
      /\ Ordered(requeue \o Append(recvQueue, p), sent.count + 1)
    BY <1>1, <1>4, <1>6, SentLast DEF OrderInv
<1>9. OrderInv'
    BY <1>3, <1>4, <1>6, <1>8 DEF OrderInv
<1>10. TypeOK'
    BY <1>1, <1>3, <1>4, <1>6, <1>7, <1>8 DEF TypeOK, Clients
<1>11. RequeueInv' /\ delivered'.login = delivered'.packet.login
    BY <1>3 DEF RequeueInv, SessionInv
<1> QED BY <1>7, <1>9, <1>10, <1>11 DEF SessionInv

--------------------------------------------------------------------------------
(* What a worker does.                                                      *)

\* Two queues, one after the other.
LEMMA Joined ==
    ASSUME NEW b \in Seq(Jobs), NEW e \in Seq(Jobs)
    PROVE  /\ b \o e \in Seq(Jobs) /\ Len(b \o e) = Len(b) + Len(e)
           /\ \A k \in 1..Len(b) : (b \o e)[k] = b[k]
           /\ \A k \in 1..Len(e) : (b \o e)[Len(b) + k] = e[k]
OBVIOUS

\* A job that is done is one less in the queue.
LEMMA WithoutOne ==
    ASSUME jobs \in Seq(Jobs), NEW i \in 1..Len(jobs)
    PROVE  /\ Without(i) \in Seq(Jobs) /\ Len(jobs) \in Nat /\ Len(Without(i)) = Len(jobs) - 1
           /\ \A k \in 1..Len(Without(i)) :
                  Without(i)[k] = jobs[IF k < i THEN k ELSE k + 1]
<1>1. i \in Nat /\ Len(jobs) \in Nat /\ i >= 1 /\ i <= Len(jobs)
    OBVIOUS
<1>2. PICK b \in Seq(Jobs) : /\ b = SubSeq(jobs, 1, i - 1)
                             /\ Len(b) = i - 1 /\ \A k \in 1..(i - 1) : b[k] = jobs[k]
    <2>1. SubSeq(jobs, 1, i - 1) \in Seq(Jobs)
        OBVIOUS
    <2>2. /\ Len(SubSeq(jobs, 1, i - 1)) = i - 1
          /\ \A k \in 1..(i - 1) : SubSeq(jobs, 1, i - 1)[k] = jobs[k]
        OBVIOUS
    <2> QED BY <2>1, <2>2
<1>3. PICK e \in Seq(Jobs) : /\ e = SubSeq(jobs, i + 1, Len(jobs))
                             /\ Len(e) = Len(jobs) - i
                             /\ \A k \in 1..(Len(jobs) - i) : e[k] = jobs[i + k]
    <2>1. SubSeq(jobs, i + 1, Len(jobs)) \in Seq(Jobs)
        OBVIOUS
    <2>2. /\ Len(SubSeq(jobs, i + 1, Len(jobs))) = Len(jobs) - i
          /\ \A k \in 1..(Len(jobs) - i) : SubSeq(jobs, i + 1, Len(jobs))[k] = jobs[i + k]
        OBVIOUS
    <2> QED BY <2>1, <2>2
<1>4. PICK t \in Seq(Jobs) : /\ t = b \o e /\ Len(t) = Len(b) + Len(e)
                             /\ \A k \in 1..Len(b) : t[k] = b[k]
                             /\ \A k \in 1..Len(e) : t[Len(b) + k] = e[k]
    BY Joined
<1>5. Len(t) = Len(jobs) - 1
    <2>1. Len(t) = (i - 1) + (Len(jobs) - i)
        BY <1>2, <1>3, <1>4
    <2> QED BY <1>1, <2>1
<1>6. ASSUME NEW k \in 1..Len(t)  PROVE  t[k] = jobs[IF k < i THEN k ELSE k + 1]
    <2>1. CASE k < i
        <3>1. k \in 1..(i - 1)
            BY <1>1, <1>5, <2>1
        <3> QED BY <1>2, <1>4, <2>1, <3>1
    <2>2. CASE ~(k < i)
        <3>1. k - (i - 1) \in 1..(Len(jobs) - i)
            BY <1>1, <1>5, <2>2
        <3>2. t[Len(b) + (k - (i - 1))] = e[k - (i - 1)]
            BY <1>3, <1>4, <3>1
        <3>3. e[k - (i - 1)] = jobs[i + (k - (i - 1))]
            BY <1>3, <3>1
        <3>4. Len(b) + (k - (i - 1)) = k /\ i + (k - (i - 1)) = k + 1
            BY <1>1, <1>2
        <3> QED BY <2>2, <3>2, <3>3, <3>4
    <2> QED BY <2>1, <2>2
<1>7. Without(i) = t
    BY <1>2, <1>3, <1>4 DEF Without
<1> QED BY <1>1, <1>5, <1>6, <1>7

\* A job is done: a save is stored, a load is answered, if it is awaited.
LEMMA PerformKeeps ==
    ASSUME SessionInv, NEW i \in 1..Len(jobs), Perform(i)
    PROVE  SessionInv' /\ (Workers = 1 /\ SaveOf(World) => SaveOf(World)')
<1>1. /\ TypeOK /\ World \in Worlds /\ CallInv(World, recvQueue, requeue)
      /\ World.s = session /\ World.jobs = jobs
      /\ World.saved = saved /\ World.client = client
      /\ jobs \in Seq(Jobs) /\ session \in Sessions /\ stored \in Characters
    BY Typed DEF SessionInv, TypeOK
<1>2. /\ jobs' = Without(i) /\ i <= Workers
      /\ UNCHANGED <<recvQueue, requeue, processed, at, added, client, sent, saved, delivered>>
      /\ \/ jobs[i].kind = "save" /\ stored' = jobs[i].of /\ UNCHANGED session
         \/ jobs[i].kind = "load" /\ Answer(jobs[i].of) /\ UNCHANGED stored
    BY DEF Perform
<1>3. PICK js \in Seq(Jobs) :
          /\ js = jobs' /\ Len(jobs) \in Nat /\ Len(js) = Len(jobs) - 1
          /\ \A k \in 1..Len(js) : js[k] = jobs[IF k < i THEN k ELSE k + 1]
    BY <1>1, <1>2, WithoutOne
<1>4. /\ i \in Nat /\ i >= 1 /\ i <= Len(jobs)
      /\ \A k \in 1..Len(js) : (IF k < i THEN k ELSE k + 1) \in 1..Len(jobs)
    BY <1>3
<1>5. IF jobs[i].kind = "save" THEN jobs[i].of \in Characters ELSE jobs[i].of \in 1..sent.login
    BY <1>1 DEF CallInv, JobsOf
<1>6. PICK s \in Sessions :
          /\ s = session'
          /\ \/ s = session
             \/ /\ session.holder # 0 /\ jobs[i].kind = "load" /\ jobs[i].of = session.holder
                /\ stored' = stored
                /\ \E result \in {"failed", "loaded"} :
                      s = [session EXCEPT !.result = result, !.found = stored]
    <2>1. CASE session' = session
        BY <1>1, <2>1
    <2>2. CASE session' # session
        <3>1. /\ jobs[i].kind = "load" /\ Answer(jobs[i].of) /\ stored' = stored
            BY <1>2, <2>2
        <3>2. session.holder = jobs[i].of
            BY <2>2, <3>1 DEF Answer
        <3>3. session.holder # 0
            BY <1>5, <3>1, <3>2
        <3>4. PICK result \in {"failed", "loaded"} :
                  session' = [session EXCEPT !.result = result, !.found = stored]
            BY <3>1, <3>2 DEF Answer
        <3>5. session' \in Sessions
            BY <1>1, <3>4 DEF Sessions
        <3> QED BY <3>1, <3>2, <3>3, <3>4, <3>5
    <2> QED BY <2>1, <2>2
<1>7. /\ s.alive = session.alive /\ s.player = session.player /\ s.login = session.login
      /\ s.progress = session.progress /\ s.loading = session.loading
      /\ s.holder = session.holder /\ s.recently = session.recently
      /\ s.leaving = session.leaving
    BY <1>1, <1>6 DEF Sessions
<1>8. PICK v : v = [World EXCEPT !.s = s, !.jobs = js]
    OBVIOUS
<1>9. v \in Worlds /\ v.s = s /\ v.jobs = js /\ v.saved = saved /\ v.client = client
    BY <1>1, <1>8 DEF Worlds
<1>10. LoginOf(v)
    <2>1. s.result # "none" => s.holder # 0
        BY <1>1, <1>6, <1>7 DEF CallInv, LoginOf
    <2>2. ~s.alive => s = NoSession
        <3>1. SUFFICES ASSUME ~session.alive  PROVE  s = NoSession
            BY <1>7
        <3>2. session = NoSession
            BY <1>1, <3>1 DEF CallInv, LoginOf
        <3> QED BY <1>6, <3>2, Dead
    <2> QED BY <1>1, <1>7, <1>9, <2>1, <2>2 DEF CallInv, LoginOf
<1>11. JobsOf(v)
    BY <1>1, <1>3, <1>4, <1>9 DEF CallInv, JobsOf
<1>12. ConversationOf(v, recvQueue, requeue)
    <2>1. \A k \in 1..Len(js) : js[k].kind = "load" =>
              \E l \in 1..Len(jobs) : jobs[l] = js[k]
        BY <1>3, <1>4
    <2>2. NobodyThere(World, requeue) => NobodyThere(v, requeue)
        BY <1>1, <1>7, <1>9 DEF NobodyThere
    <2>3. Choosing(World, recvQueue, requeue) => Choosing(v, recvQueue, requeue)
        BY <1>1, <1>7, <1>9, <2>2 DEF Choosing
    <2>4. Selecting(World, recvQueue, requeue) => Selecting(v, recvQueue, requeue)
        BY <1>1, <1>7, <1>9, <2>2 DEF Selecting
    <2>5. LoggingIn(World, recvQueue, requeue) => LoggingIn(v, recvQueue, requeue)
        BY <1>1, <1>7, <1>9, <2>1, <2>2 DEF LoggingIn
    <2>6. Playing(World, recvQueue, requeue) => Playing(v, recvQueue, requeue)
        BY <1>1, <1>7, <1>9 DEF Playing
    <2> QED BY <1>1, <1>7, <1>9, <2>3, <2>4, <2>5, <2>6 DEF CallInv, ConversationOf, Turn
<1>13. Becomes(v)
    BY <1>2, <1>3, <1>6, <1>9 DEF Becomes
<1>14. /\ session' \in Sessions /\ jobs' \in Seq(Jobs) /\ saved' \in Characters
       /\ client' \in Clients /\ CallInv(World, recvQueue, requeue)'
    BY <1>2, <1>9, <1>10, <1>11, <1>12, <1>13, Carried DEF CallInv
<1>15. TypeOK'
    <2>1. stored' \in Characters
        BY <1>1, <1>2, <1>5
    <2> QED BY <1>1, <1>2, <1>14, <2>1 DEF TypeOK, Clients
<1>16. OrderInv' /\ RequeueInv' /\ delivered'.login = delivered'.packet.login
    BY <1>2, <1>6, <1>7 DEF OrderInv, RequeueInv, SessionInv
<1>17. ASSUME Workers = 1, SaveOf(World)  PROVE  SaveOf(World)'
    <2>1. i = 1
        BY <1>2, <1>4, <1>17
    <2>2. \A k \in 1..Len(js) : k + 1 \in 1..Len(jobs) /\ js[k] = jobs[k + 1] /\ k \in Nat
        BY <1>3, <1>4, <2>1
    <2>3. \A k \in 1..Len(jobs) : k # 1 => k - 1 \in 1..Len(js) /\ js[k - 1] = jobs[k]
        <3>1. ASSUME NEW k \in 1..Len(jobs), k # 1
              PROVE  k - 1 \in 1..Len(js) /\ js[k - 1] = jobs[k]
            <4>1. k - 1 \in 1..Len(js) /\ ~(k - 1 < 1) /\ (k - 1) + 1 = k
                BY <1>3, <3>1
            <4> QED BY <1>3, <2>1, <4>1
        <3> QED BY <3>1
    <2>4. Saves(World) = {k \in 1..Len(jobs) : jobs[k].kind = "save"}
        BY <1>1 DEF Saves
    <2>5. Saves(v) = {k \in 1..Len(js) : js[k].kind = "save"}
        BY <1>9 DEF Saves
    <2>6. \A k \in Saves(v) : k \in Nat /\ k + 1 \in Saves(World)
        BY <2>2, <2>4, <2>5
    <2>7. \A k \in Saves(World) : k \in Nat /\ k >= 1 /\ (k # 1 => k - 1 \in Saves(v))
        BY <2>3, <2>4, <2>5
    <2>8. Saves(v) = {} => stored' = saved
        <3>1. SUFFICES ASSUME Saves(v) = {}  PROVE  stored' = saved
            OBVIOUS
        <3>2. \A k \in Saves(World) : k = 1
            BY <2>7, <3>1
        <3>3. CASE jobs[1].kind = "save"
            <4>1. 1 \in Saves(World) /\ stored' = jobs[1].of
                BY <1>2, <1>4, <2>1, <2>4, <3>3
            <4>2. \A k \in Saves(World) : k <= 1
                BY <3>2
            <4> QED BY <1>1, <1>17, <4>1, <4>2 DEF SaveOf
        <3>4. CASE jobs[1].kind # "save"
            <4>1. Saves(World) = {} /\ stored' = stored
                BY <1>2, <2>1, <2>4, <3>2, <3>4
            <4> QED BY <1>1, <1>17, <4>1 DEF SaveOf
        <3> QED BY <3>3, <3>4
    <2>9. ASSUME NEW k \in Saves(v), \A l \in Saves(v) : l <= k  PROVE  js[k].of = saved
        <3>1. k \in Nat /\ k >= 1 /\ k + 1 \in Saves(World) /\ js[k] = jobs[k + 1]
            BY <2>2, <2>5, <2>6
        <3>2. \A l \in Saves(World) : l <= k + 1
            <4>1. ASSUME NEW l \in Saves(World), l # 1  PROVE  l <= k + 1
                <5>1. l - 1 <= k /\ l \in Nat
                    BY <2>7, <2>9, <4>1
                <5> QED BY <3>1, <5>1
            <4>2. 1 <= k + 1
                BY <3>1
            <4> QED BY <4>1, <4>2
        <3> QED BY <1>1, <1>17, <3>1, <3>2 DEF SaveOf
    <2>10. ASSUME NEW k \in 1..Len(js), NEW l \in Saves(v), js[k].kind = "load",
                  js[k].of = s.holder
           PROVE  l < k
        <3>1. /\ k + 1 \in 1..Len(jobs) /\ jobs[k + 1] = js[k] /\ l + 1 \in Saves(World)
              /\ k \in Nat /\ l \in Nat
            BY <2>2, <2>6
        <3>2. l + 1 < k + 1
            BY <1>1, <1>7, <1>17, <2>10, <3>1 DEF SaveOf
        <3> QED BY <3>1, <3>2
    <2>11. s.result = "loaded" => s.found = saved
        <3>1. CASE s = session
            BY <1>1, <1>17, <3>1 DEF SaveOf
        <3>2. CASE s # session
            <4>1. /\ jobs[1].kind = "load" /\ jobs[1].of = session.holder
                  /\ \E result \in {"failed", "loaded"} :
                        s = [session EXCEPT !.result = result, !.found = stored]
                BY <1>6, <2>1, <3>2
            <4>2. s.found = stored
                BY <1>1, <4>1 DEF Sessions
            <4>3. ASSUME NEW l \in Saves(World)  PROVE  FALSE
                <5>1. 1 \in 1..Len(jobs)
                    BY <2>1
                <5>2. l < 1
                    BY <1>1, <1>17, <4>1, <4>3, <5>1 DEF SaveOf
                <5> QED BY <2>7, <5>2
            <4>4. stored = saved
                BY <1>1, <1>17, <4>3 DEF SaveOf
            <4> QED BY <4>2, <4>4
        <3> QED BY <3>1, <3>2
    <2>12. s.player # "none" => s.progress >= saved
        BY <1>1, <1>7, <1>17 DEF SaveOf
    <2>13. /\ World'.s = s /\ World'.jobs = js /\ World'.saved = saved
        BY <1>2, <1>3, <1>6 DEF World
    <2>14. Saves(World)' = Saves(v)
        BY <2>5, <2>13 DEF Saves
    <2> QED BY <2>8, <2>9, <2>10, <2>11, <2>12, <2>13, <2>14 DEF SaveOf
<1> QED BY <1>14, <1>15, <1>16, <1>17 DEF SessionInv

--------------------------------------------------------------------------------
(* The theorems.                                                            *)

\* Nobody has connected yet.
LEMMA SessionInit == Init => SessionInv /\ SaveOf(World)
<1> SUFFICES ASSUME Init  PROVE  SessionInv /\ SaveOf(World)
    OBVIOUS
<1> USE DEF Init
<1>1. TypeOK
    <2>1. 0 \in Characters /\ 0 \in 0..MaxSent /\ 0 \in 0..MaxPerUpdate + 1
        BY SessionAssumption DEF Characters
    <2>2. session \in Sessions
        BY Dead
    <2>3. recvQueue \in Seq(Packets) /\ requeue \in Seq(Packets) /\ jobs \in Seq(Jobs)
        OBVIOUS
    <2>4. sent \in [count : 0..MaxSent, login : 0..MaxSent]
        BY <2>1
    <2>5. delivered \in [packet : Packets \cup {NoPacket}, login : 0..MaxSent]
        BY <2>1
    <2>6. client \in [screen : {"off", "connecting", "characters", "selecting", "game"},
                      told : BOOLEAN, moved : BOOLEAN]
        OBVIOUS
    <2> QED BY <2>1, <2>2, <2>3, <2>4, <2>5, <2>6 DEF TypeOK
<1>2. OrderInv
    <2>1. requeue \o recvQueue = <<>>
        OBVIOUS
    <2> QED BY <2>1 DEF OrderInv, Ordered
<1>3. RequeueInv
    BY DEF RequeueInv
<1>4. /\ World.s = NoSession /\ World.jobs = <<>> /\ World.saved = 0
      /\ World.client.screen = "off"
    BY DEF World
<1>5. LoginOf(World)
    BY <1>4, Dead DEF LoginOf
<1>6. JobsOf(World)
    BY <1>4 DEF JobsOf
<1>7. ConversationOf(World, recvQueue, requeue)
    BY <1>4, Dead DEF ConversationOf
<1>8. SaveOf(World)
    BY <1>4, Dead DEF SaveOf, Saves
<1>9. delivered.login = delivered.packet.login
    BY DEF NoPacket
<1> QED BY <1>1, <1>2, <1>3, <1>5, <1>6, <1>7, <1>8, <1>9 DEF SessionInv, CallInv

\* Every step keeps the invariant; what is known of saves needs one worker.
LEMMA SessionStep ==
    ASSUME SessionInv, [Next]_vars
    PROVE  SessionInv' /\ (Workers = 1 /\ SaveOf(World) => SaveOf(World)')
<1>1. CASE UNCHANGED vars
    <2> USE <1>1 DEF vars, server
    <2>1. TypeOK /\ World \in Worlds /\ CallInv(World, recvQueue, requeue)
        BY Typed DEF SessionInv
    <2>2. Becomes(World)
        BY <2>1, Typed DEF Becomes
    <2>3. CallInv(World, recvQueue, requeue)' /\ (SaveOf(World) => SaveOf(World)')
        BY <2>1, <2>2, Carried
    <2>4. TypeOK'
        BY <2>1 DEF TypeOK
    <2>5. OrderInv' /\ RequeueInv' /\ delivered'.login = delivered'.packet.login
        BY DEF SessionInv, OrderInv, RequeueInv
    <2> QED BY <2>3, <2>4, <2>5 DEF SessionInv
<1>2. CASE Tick
    BY <1>2, UpdateSessionsKeeps, UpdateMapKeeps, PlayKeeps DEF Tick
<1>3. CASE Update
    BY <1>3, ProcessPacketKeeps, FinishWorldUpdateKeeps, FinishMapUpdateKeeps DEF Update
<1>4. CASE \E i \in 1..Len(jobs) : Perform(i)
    BY <1>4, PerformKeeps
<1>5. CASE Connect
    BY <1>5, ConnectKeeps
<1>6. CASE ClientSends
    BY <1>6, ClientSendsKeeps
<1>7. CASE LogoutComplete \/ Vanish
    BY <1>7, ClientKeeps
<1>8. CASE CloseSocket
    BY <1>8, CloseSocketKeeps
<1> QED BY <1>1, <1>2, <1>3, <1>4, <1>5, <1>6, <1>7, <1>8 DEF Next

\* The conversation of a session and its client, for any numbers of packets, connections,
\* jobs and workers.
THEOREM SessionInvariant == Spec => []SessionInv
<1>1. Init => SessionInv
    BY SessionInit
<1>2. SessionInv /\ [Next]_vars => SessionInv'
    BY SessionStep
<1> QED BY <1>1, <1>2, PTL DEF Spec

\* The variables have their types: the count of processed packets stays below its limit
\* although it is compared before it is incremented, and expireTime never falls below zero.
THEOREM SessionTypes == Spec => []TypeOK
<1>1. SessionInv => TypeOK
    BY DEF SessionInv
<1> QED BY <1>1, SessionInvariant, PTL

\* Packets are dealt with in the order in which they came, however often some are put back.
THEOREM PacketsInOrder == Spec => []ArrivalOrder
<1>1. SessionInv => ArrivalOrder
    <2> SUFFICES ASSUME SessionInv  PROVE  ArrivalOrder
        OBVIOUS
    <2>1. PICK q \in Seq(Packets) : q = requeue \o recvQueue
        <3>1. requeue \in Seq(Packets) /\ recvQueue \in Seq(Packets)
            BY DEF SessionInv, TypeOK
        <3>2. requeue \o recvQueue \in Seq(Packets)
            BY <3>1
        <3> QED BY <3>2
    <2>2. DOMAIN q = 1..Len(q)
        OBVIOUS
    <2> QED BY <2>1, <2>2 DEF ArrivalOrder, SessionInv, OrderInv, Ordered
<1> QED BY <1>1, SessionInvariant, PTL

\* A session has one character at most, which LogoutPlayer finds, and handles no packet that
\* was sent for another one.  A far teleport that LogoutPlayer ends does not take the character
\* away: that its destination is invalid is excluded by TeleportTo's own test of it
\* (Player.cpp 1758, MovementHandler.cpp 63), which the model takes as given.
THEOREM OneCharacterAtATime == Spec => []OneCharacter
<1>1. SessionInv => OneCharacter
    <2> SUFFICES ASSUME SessionInv  PROVE  OneCharacter
        OBVIOUS
    <2>1. LoginOf(World) /\ World.s = session /\ delivered.login = delivered.packet.login
        BY Typed DEF SessionInv, CallInv
    <2> QED BY <2>1 DEF OneCharacter, LoginOf
<1> QED BY <1>1, SessionInvariant, PTL

\* With one worker, the default of CharacterDatabase.WorkerThreads, the character is found as
\* it was saved last, by the session that replaces a lost one, too.
THEOREM SavedIsFound ==
    ASSUME Workers = 1
    PROVE  Spec => []LoadsWhatWasSaved
<1>1. Init => SaveInv
    BY SessionInit DEF SaveInv
<1>2. SaveInv /\ [Next]_vars => SaveInv'
    BY SessionStep DEF SaveInv
<1>3. SaveInv => LoadsWhatWasSaved
    <2> SUFFICES ASSUME SaveInv  PROVE  LoadsWhatWasSaved
        OBVIOUS
    <2>1. SaveOf(World) /\ World.s = session /\ World.saved = saved
        BY Typed DEF SaveInv, SessionInv
    <2> QED BY <2>1 DEF SaveOf, LoadsWhatWasSaved
<1> QED BY <1>1, <1>2, <1>3, PTL DEF Spec
================================================================================
