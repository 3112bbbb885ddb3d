--------------------------- MODULE BattlegroundQueue ---------------------------
(***************************************************************************)
(* How players get into battlegrounds: they join a queue, alone or as a    *)
(* party; the queue's update invites groups to a running battleground or   *)
(* creates one; an invited player enters, declines, or is removed when the *)
(* invitation runs out; players leave, log out and log in again; a         *)
(* battleground nobody is in or invited to is deleted, and its instance id *)
(* is used again once its map has been destroyed.  Rated arenas, bots and  *)
(* the balancing InvitationTypes (the default is 0) are left out.          *)
(***************************************************************************)
EXTENDS Integers, Sequences, FiniteSets, SequencesExt

CONSTANTS
    Players,
    Team,           \* the faction of each
    Queues,         \* queue types, one battleground type and map each
    Scenarios,      \* bound: the requests to join of a behaviour: sets of [members, queue, n]
    Leavers,        \* the players that may log out
    MinPlayers, MaxPlayers,     \* PerTeam, of the battleground's template
    AcceptTime,     \* INVITE_ACCEPT_WAIT_TIME, in world updates
    Updaters,       \* MapUpdate.Threads
    MaxId           \* bound on the instance ids

Teams == {"alliance", "horde"}

ASSUME BattlegroundAssumption ==
    /\ IsFiniteSet(Players) /\ Team \in [Players -> Teams]
    /\ IsFiniteSet(Queues)
    /\ Cardinality(Queues) <= 2     \* PLAYER_MAX_BATTLEGROUND_QUEUES
    /\ \A party \in UNION Scenarios :
           /\ party.members \in (SUBSET Players) \ {{}} /\ party.queue \in Queues
           /\ \A p, r \in party.members : Team[p] = Team[r]
    /\ Leavers \subseteq Players
    /\ MaxPlayers \in Nat /\ MinPlayers \in 1..MaxPlayers
    /\ AcceptTime \in Nat \ {0} /\ Updaters \in Nat \ {0} /\ MaxId \in Nat

VARIABLES
    groups,     \* m_QueuedGroups of each queue: premade and normal, by faction
    events,     \* the BGQueueRemoveEvents
    scheduled,  \* m_QueueUpdateScheduler
    bgs,        \* m_Battlegrounds, by instance id
    freeSlots,  \* BGFreeSlotQueue of each type
    ids,        \* MapManager's _nextInstanceId, the set _freeInstanceIds and its size
    maps,       \* the battlegrounds with a BattlegroundMap
    unloading,  \* the maps whose battleground is gone, with their type
    slot,       \* m_bgBattlegroundQueueID of each player: invitedToInstance
    bgId,       \* their m_bgData.bgInstanceID
    place,      \* where they are
    phase,      \* where World::Update is
    due,        \* the battlegrounds BattlegroundMgr::Update has still to visit
    requests    \* those still to come

mapVars == <<ids, maps, unloading>>
worldVars == <<phase, due, requests>>
vars == <<groups, events, scheduled, bgs, freeSlots, ids, maps, unloading, slot, bgId,
          place, phase, due, requests>>

NotQueued == -1
Lists == {"premade", "normal"} \X Teams
Ids == 1..MaxId

\* Every variable has its type; a battleground's counts do not go below zero, and only
\* existing battlegrounds wait for players.
TypeOK ==
    /\ \A q \in Queues, l \in Lists : \A i \in DOMAIN groups[q][l] :
           groups[q][l][i] \in [players : (SUBSET Players) \ {{}}, invited : Ids \cup {0},
                                left : 0..AcceptTime]
    /\ events \subseteq [player : Players, queue : Queues, bg : Ids, left : 0..AcceptTime]
    /\ scheduled \in Seq(Queues) /\ IsInjective(scheduled)
    /\ DOMAIN bgs \subseteq Ids
    /\ \A b \in DOMAIN bgs :
           bgs[b] \in [queue : Queues, status : {"join", "progress", "leave"},
                       invited : [Teams -> Nat], players : SUBSET Players,
                       offline : Seq(Players)]
    /\ \A q \in Queues : freeSlots[q] \in Seq(DOMAIN bgs) /\ IsInjective(freeSlots[q])
    /\ ids.next \in 1..ids.size /\ ids.free \subseteq 1..ids.size
    /\ maps \subseteq DOMAIN bgs /\ due \subseteq DOMAIN bgs
    /\ unloading \subseteq Ids \X Queues
    /\ slot \in [Players -> [Queues -> Ids \cup {0, NotQueued}]]
    /\ bgId \in [Players -> Ids \cup {0}]
    /\ place \in [Players -> {"world", "transit", "bg", "offline"}]
    /\ phase \in {"sessions", "battlegrounds"}
    /\ requests \subseteq UNION Scenarios

Init ==
    /\ groups = [q \in Queues |-> [l \in Lists |-> <<>>]]
    /\ events = {} /\ scheduled = <<>>
    /\ bgs = [b \in {} |-> 0]
    /\ freeSlots = [q \in Queues |-> <<>>]
    /\ ids = [next |-> 1, free |-> {1}, size |-> 2]
    /\ maps = {} /\ unloading = {}
    /\ slot = [p \in Players |-> [q \in Queues |-> NotQueued]]
    /\ bgId = [p \in Players |-> 0]
    /\ place = [p \in Players |-> "world"]
    /\ phase = "sessions" /\ due = {} /\ requests \in Scenarios

-----------------------------------------------------------------------------
(* Leaving a queue and leaving a battleground.                              *)

\* The elements of s that are in S, in their order.
Keeping(s, S) ==
    LET kept[i \in 0..Len(s)] ==
            IF i = 0 THEN <<>>
            ELSE IF s[i] \in S THEN Append(kept[i - 1], s[i]) ELSE kept[i - 1]
    IN kept[Len(s)]

\* The groups of a queue, and those that p is in (none or one).
GroupsOf(lists) == UNION {Range(lists[l]) : l \in Lists}
GroupOf(lists, p) == {g \in GroupsOf(lists) : p \in g.players}

\* RemovePlayer: p leaves its group, an empty group leaves the queue ...
Without(lists, p) ==
    [l \in Lists |->
        LET left == [i \in DOMAIN lists[l] |-> [lists[l][i] EXCEPT !.players = @ \ {p}]]
        IN Keeping(left, {g \in Range(left) : g.players # {}})]

\* Mutant: the battleground goes on counting him.
StillInvited(battlegrounds, lists, p) == battlegrounds

\* ... and, unless he enters, the battleground he was invited to counts one less.
Uninvited(battlegrounds, lists, p) ==
    LET invitations == {g.invited : g \in GroupOf(lists, p)}
    IN [b \in DOMAIN battlegrounds |->
           IF b \in invitations THEN [battlegrounds[b] EXCEPT !.invited[Team[p]] = @ - 1]
                                ELSE battlegrounds[b]]

\* f with v for x.
Put(f, x, v) == [y \in DOMAIN f \cup {x} |-> IF y = x THEN v ELSE f[y]]

\* ScheduleQueueUpdate.
Schedule(s, q) == IF Contains(s, q) THEN s ELSE Append(s, q)

\* A value w == [bgs, freeSlots, scheduled, slot, bgId] is what leaving a battleground
\* changes.  A player who is not found in the world keeps his own fields.
RemovePlayerAtLeave(w, p, b) ==
    LET q == w.bgs[b].queue
        participant == p \in w.bgs[b].players
        running == participant /\ w.bgs[b].status # "leave"
        found == place[p] \in {"world", "bg"}
    IN [bgs |-> IF participant
                THEN Put(w.bgs, b, [w.bgs[b] EXCEPT !.players = @ \ {p},
                                                    !.invited[Team[p]] = @ - 1])
                ELSE w.bgs,
        freeSlots |-> IF running /\ ~Contains(w.freeSlots[q], b)
                      THEN Put(w.freeSlots, q, <<b>> \o w.freeSlots[q]) ELSE w.freeSlots,
        scheduled |-> IF running THEN Schedule(w.scheduled, q) ELSE w.scheduled,
        slot |-> IF participant /\ found THEN Put(w.slot, p, [w.slot[p] EXCEPT ![q] = NotQueued]) ELSE w.slot,
        bgId |-> IF found THEN Put(w.bgId, p, 0) ELSE w.bgId]

Now == [bgs |-> bgs, freeSlots |-> freeSlots, scheduled |-> scheduled, slot |-> slot,
        bgId |-> bgId]

Becomes(w) ==
    /\ bgs' = w.bgs /\ freeSlots' = w.freeSlots /\ scheduled' = w.scheduled
    /\ slot' = w.slot /\ bgId' = w.bgId

-----------------------------------------------------------------------------
(* What players do, while the world updates the sessions.                   *)

\* CanJoinBattlegroundQueue sees the members that are online.
Present(party) == {p \in party.members : place[p] # "offline"}
CanJoin(party) == \A p \in Present(party) : slot[p][party.queue] = NotQueued

\* HandleBattlemasterJoinOpcode from a player outside of battlegrounds.  The update is
\* scheduled even when the party is refused; a single player is refused at once.
Join(party) ==
    LET q == party.queue
        single == Cardinality(party.members) = 1
        kind == IF ~single /\ Cardinality(party.members) >= MinPlayers THEN "premade"
                                                                      ELSE "normal"
    IN
    /\ phase = "sessions" /\ party \in requests /\ requests' = requests \ {party}
    /\ \E leader \in party.members :
          /\ place[leader] = "world" /\ bgId[leader] = 0
          /\ IF CanJoin(party)
             THEN /\ groups' = [groups EXCEPT ![q][<<kind, Team[leader]>>] =
                         Append(@, [players |-> Present(party), invited |-> 0, left |-> 0])]
                  /\ slot' = [p \in Players |->
                         IF p \in Present(party) THEN [slot[p] EXCEPT ![q] = 0] ELSE slot[p]]
             ELSE ~single /\ UNCHANGED <<groups, slot>>
    /\ scheduled' = Schedule(scheduled, q)
    /\ UNCHANGED <<events, bgs, freeSlots, mapVars, bgId, place, phase, due>>

\* Mutant: the place kept is given up.
EnterUncounted(p, q) ==
    /\ phase = "sessions" /\ place[p] = "world"
    /\ \E g \in GroupOf(groups[q], p) :
          /\ g.invited \in DOMAIN bgs /\ slot[p][q] \notin {NotQueued, 0}
          /\ bgs' = Uninvited(bgs, groups[q], p)
          /\ bgId' = [bgId EXCEPT ![p] = g.invited]
    /\ groups' = [groups EXCEPT ![q] = Without(@, p)]
    /\ place' = [place EXCEPT ![p] = "transit"]
    /\ UNCHANGED <<events, scheduled, freeSlots, mapVars, slot, worldVars>>

\* HandleBattleFieldPortOpcode with action 1, from an invited player: he leaves the queue
\* with his place in the battleground kept, leaves the one he is in, and is teleported.
Enter(p, q) ==
    /\ phase = "sessions" /\ place[p] \in {"world", "bg"}
    /\ \E g \in GroupOf(groups[q], p) :
          /\ g.invited \in DOMAIN bgs /\ slot[p][q] \notin {NotQueued, 0}
          /\ LET w == IF bgId[p] \in DOMAIN bgs
                      THEN RemovePlayerAtLeave(Now, p, bgId[p]) ELSE Now
             IN Becomes([w EXCEPT !.bgId = Put(@, p, g.invited)])
    /\ groups' = [groups EXCEPT ![q] = Without(@, p)]
    /\ place' = [place EXCEPT ![p] = "transit"]
    /\ UNCHANGED <<events, mapVars, worldVars>>

\* ... and with action 0: he leaves the queue, invited or not.
LeaveQueue(p, q) ==
    /\ phase = "sessions" /\ place[p] \in {"world", "bg"}
    /\ GroupOf(groups[q], p) # {}
    /\ slot' = [slot EXCEPT ![p][q] = NotQueued]
    /\ bgs' = Uninvited(bgs, groups[q], p)
    /\ groups' = [groups EXCEPT ![q] = Without(@, p)]
    /\ scheduled' = Schedule(scheduled, q)
    /\ UNCHANGED <<events, freeSlots, mapVars, bgId, place, worldVars>>

\* HandleMoveWorldportAck: the map is found or made, and an invited player added.
Added(battlegrounds, p) ==
    IF \E q \in Queues : slot[p][q] = bgId[p]
    THEN [battlegrounds EXCEPT ![bgId[p]].players = @ \cup {p}] ELSE battlegrounds

Arrive(p) ==
    /\ phase = "sessions" /\ place[p] = "transit" /\ bgId[p] \in DOMAIN bgs
    /\ maps' = maps \cup {bgId[p]}
    /\ bgs' = Added(bgs, p)
    /\ place' = [place EXCEPT ![p] = "bg"]
    /\ UNCHANGED <<groups, events, scheduled, freeSlots, ids, unloading, slot, bgId,
                   worldVars>>

\* Player::LeaveBattleground.
LeaveBattleground(p) ==
    /\ phase = "sessions" /\ place[p] = "bg" /\ bgId[p] \in DOMAIN bgs
    /\ Becomes(RemovePlayerAtLeave(Now, p, bgId[p]))
    /\ place' = [place EXCEPT ![p] = "world"]
    /\ UNCHANGED <<groups, events, mapVars, worldVars>>

\* Mutant: a player who logs out stays in his groups.
LogoutQueued(p) ==
    /\ phase = "sessions" /\ p \in Leavers /\ place[p] = "world"
    /\ slot' = [slot EXCEPT ![p] = [q \in Queues |-> NotQueued]]
    /\ place' = [place EXCEPT ![p] = "offline"]
    /\ UNCHANGED <<groups, events, scheduled, bgs, freeSlots, mapVars, bgId, worldVars>>

\* LogoutPlayer: every queue that counts him in takes its invitation back.
UninvitedByAll(battlegrounds, p) ==
    FoldSet(LAMBDA q, w : Uninvited(w, groups[q], p), battlegrounds, Queues)

\* LogoutPlayer: a teleport that is under way is finished, the battleground is told, and
\* p leaves every queue (their updates are not scheduled).
Logout(p) ==
    LET b == bgId[p]
        arrives == place[p] = "transit" /\ b \in DOMAIN bgs
        there == IF arrives THEN Added(bgs, p) ELSE bgs
        told == IF b \in DOMAIN there /\ p \in there[b].players
                THEN [there EXCEPT ![b].offline = Append(@, p)] ELSE there
    IN
    /\ phase = "sessions" /\ p \in Leavers /\ place[p] # "offline"
    /\ bgs' = UninvitedByAll(told, p)
    /\ groups' = [q \in Queues |-> Without(groups[q], p)]
    /\ slot' = [slot EXCEPT ![p] = [q \in Queues |-> NotQueued]]
    /\ maps' = IF arrives THEN maps \cup {b} ELSE maps
    /\ place' = [place EXCEPT ![p] = "offline"]
    /\ UNCHANGED <<events, scheduled, freeSlots, ids, unloading, bgId, worldVars>>

\* LoadFromDB: back in the battleground he was saved in, if it knows him and runs.
Login(p) ==
    LET b == bgId[p]
        known == b \in DOMAIN bgs /\ p \in bgs[b].players
        running == known /\ bgs[b].status # "leave"
    IN
    /\ phase = "sessions" /\ place[p] = "offline"
    /\ \/ /\ running
          /\ bgs' = [bgs EXCEPT ![b].offline = Keeping(@, Players \ {p})]
          /\ slot' = [slot EXCEPT ![p][bgs[b].queue] = b]
          /\ place' = [place EXCEPT ![p] = "bg"]
          /\ UNCHANGED <<freeSlots, scheduled, bgId>>
       \/ /\ known /\ ~running
          /\ Becomes([RemovePlayerAtLeave(Now, p, b) EXCEPT !.bgId = Put(@, p, 0)])
          /\ place' = [place EXCEPT ![p] = "world"]
       \/ /\ ~known
          /\ bgId' = [bgId EXCEPT ![p] = 0]
          /\ place' = [place EXCEPT ![p] = "world"]
          /\ UNCHANGED <<bgs, freeSlots, scheduled, slot>>
    /\ UNCHANGED <<groups, events, mapVars, worldVars>>

-----------------------------------------------------------------------------
(* The maps, and BattlegroundMgr::Update: the battlegrounds.                *)

\* The updater threads destroy the maps that are unloaded and free their ids.  The maps
\* of one type are one thread's; two threads overwrite each other's _nextInstanceId and
\* bits of _freeInstanceIds, so that only those of the last one may be there.
FreeInstanceId(freed) ==
    LET types == {u[2] : u \in unloading}
        kept == IF Updaters > 1 /\ Cardinality(types) > 1 THEN (SUBSET freed) \ {{}} ELSE {freed}
    IN \E seen, set \in kept :
          ids' = [ids EXCEPT !.next = Min({@} \cup seen), !.free = @ \cup set]

\* MapManager::Update and then Update of the battlegrounds, each if its interval has passed.
UpdateMaps ==
    /\ phase = "sessions" /\ phase' = "battlegrounds"
    /\ \/ /\ unloading # {} /\ FreeInstanceId({u[1] : u \in unloading})
          /\ unloading' = {}
       \/ UNCHANGED <<ids, unloading>>
    /\ due' \in {{}, DOMAIN bgs}
    /\ UNCHANGED <<groups, events, scheduled, bgs, freeSlots, maps, slot, bgId, place, requests>>

\* The order between battlegrounds does not matter: the first by id.
Visited(b) ==
    /\ phase = "battlegrounds" /\ due # {} /\ b = Min(due)
    /\ due' = due \ {b} /\ UNCHANGED <<phase, requests>>

\* Nobody is in it or invited to it.
DeleteBattleground(b) ==
    /\ Visited(b)
    /\ bgs[b].players = {} /\ \A t \in Teams : bgs[b].invited[t] = 0
    /\ bgs' = [x \in DOMAIN bgs \ {b} |-> bgs[x]]
    /\ freeSlots' = [freeSlots EXCEPT ![bgs[b].queue] = Keeping(@, Ids \ {b})]
    /\ maps' = maps \ {b}
    /\ unloading' = IF b \in maps THEN unloading \cup {<<b, bgs[b].queue>>} ELSE unloading
    /\ UNCHANGED <<groups, events, scheduled, ids, slot, bgId, place>>

\* Nothing happens: it waits for those it invited, or its timers run.
Wait(b) ==
    /\ Visited(b)
    /\ bgs[b].players # {} \/ \E t \in Teams : bgs[b].invited[t] # 0
    /\ UNCHANGED <<groups, events, scheduled, bgs, freeSlots, mapVars, slot, bgId, place>>

\* _ProcessJoin, when the delay is over.
StartMatch(b) ==
    /\ Visited(b)
    /\ bgs[b].status = "join" /\ bgs[b].players # {}
    /\ bgs' = [bgs EXCEPT ![b].status = "progress"]
    /\ UNCHANGED <<groups, events, scheduled, freeSlots, mapVars, slot, bgId, place>>

\* EndBattleground.
EndMatch(b) ==
    /\ Visited(b)
    /\ bgs[b].status = "progress" /\ bgs[b].players # {}
    /\ bgs' = [bgs EXCEPT ![b].status = "leave"]
    /\ freeSlots' = [freeSlots EXCEPT ![bgs[b].queue] = Keeping(@, Ids \ {b})]
    /\ UNCHANGED <<groups, events, scheduled, mapVars, slot, bgId, place>>

\* _ProcessOfflineQueue: the first who has been offline for five minutes.
RemoveOffline(b) ==
    /\ Visited(b)
    /\ bgs[b].status = "progress" /\ bgs[b].offline # <<>>
    /\ LET p == Head(bgs[b].offline)
           w == RemovePlayerAtLeave(Now, p, b)
           without == [w.bgs[b] EXCEPT !.offline = Tail(@)]
       IN /\ p \in bgs[b].players
          /\ Becomes([w EXCEPT !.bgs = Put(@, b, without)])
    /\ UNCHANGED <<groups, events, mapVars, place>>

\* _ProcessLeave, two minutes after the end: everybody leaves.
AllLeave(b) == FoldSet(LAMBDA p, w : RemovePlayerAtLeave(w, p, b), Now, bgs[b].players)

KickAll(b) ==
    /\ Visited(b)
    /\ bgs[b].status = "leave" /\ bgs[b].players # {}
    /\ Becomes(AllLeave(b))
    /\ place' = [p \in Players |->
           IF p \in bgs[b].players /\ place[p] = "bg" THEN "world" ELSE place[p]]
    /\ UNCHANGED <<groups, events, mapVars>>

-----------------------------------------------------------------------------
(* BattlegroundMgr::Update: the events of the queues and the scheduled updates, which   *)
(* change a value w == [groups, events, scheduled, bgs, freeSlots, slot, ids].          *)

\* Mutant: an invitation is told from another by its battleground alone.
IsPlayerInvitedAtAll(lists, e) == \E g \in GroupOf(lists, e.player) : g.invited = e.bg

IsPlayerInvited(lists, e) ==
    \E g \in GroupOf(lists, e.player) : g.invited = e.bg /\ g.left = e.left

\* BGQueueRemoveEvent::Execute.
ExecuteRemove(e, w) ==
    LET p == e.player
        q == e.queue
        removed == [w EXCEPT !.slot = Put(@, p, [@[p] EXCEPT ![q] = NotQueued]),
                             !.bgs = Uninvited(@, w.groups[q], p),
                             !.groups = Put(@, q, Without(@[q], p))]
    IN IF place[p] = "offline" \/ w.slot[p][q] = NotQueued \/ ~IsPlayerInvited(w.groups[q], e)
       THEN w
       ELSE IF e.bg \in DOMAIN w.bgs /\ w.bgs[e.bg].status # "leave"
            THEN [removed EXCEPT !.scheduled = Schedule(@, q)]
            ELSE removed

\* UpdateEvents: the time of every invitation goes on; those that run out have their
\* events executed.
UpdateEvents(w) ==
    LET Later(r) == [r EXCEPT !.left = IF @ > 0 THEN @ - 1 ELSE 0]
        lists == [q \in Queues |-> [l \in Lists |->
                     [i \in DOMAIN w.groups[q][l] |-> Later(w.groups[q][l][i])]]]
        later == [w EXCEPT !.events = {Later(e) : e \in @}, !.groups = lists]
        over == {e \in later.events : e.left = 0}
    IN FoldSet(ExecuteRemove, [later EXCEPT !.events = @ \ over], over)

\* A SelectionPool: the groups chosen, their players, and AddGroup's last answer.
EmptyPool == [chosen |-> {}, count |-> 0, more |-> TRUE]

AddGroup(pool, g, desired) ==
    LET size == Cardinality(g.players)
    IN IF g.invited = 0 /\ pool.count + size <= desired
       THEN [chosen |-> pool.chosen \cup {g}, count |-> pool.count + size, more |-> TRUE]
       ELSE [pool EXCEPT !.more = pool.count < desired]

\* The groups of a list are added until the pool wants no more.
Fill(pool, list, desired) ==
    FoldLeft(LAMBDA r, g : IF r.more THEN AddGroup(r, g, desired) ELSE r, pool, list)

NotInvited(list) == Keeping(list, {g \in Range(list) : g.invited = 0})

\* InviteGroupToBG for the groups of both pools.
Invite(w, q, b, pools) ==
    LET chosen == pools["alliance"].chosen \cup pools["horde"].chosen
        who == UNION {g.players : g \in chosen}
        Mark(g) == IF g \in chosen THEN [g EXCEPT !.invited = b, !.left = AcceptTime] ELSE g
        counts == [t \in Teams |-> w.bgs[b].invited[t] + pools[t].count]
        marked == [l \in Lists |-> [i \in DOMAIN w.groups[q][l] |-> Mark(w.groups[q][l][i])]]
        slots == [p \in Players |->
                     IF p \in who THEN [w.slot[p] EXCEPT ![q] = b] ELSE w.slot[p]]
    IN [w EXCEPT !.groups = Put(@, q, marked), !.slot = slots,
                 !.bgs = Put(@, b, [@[b] EXCEPT !.invited = counts]),
                 !.events = @ \cup [player : who, queue : {q}, bg : {b}, left : {AcceptTime}]]

Lesser(m, n) == IF m <= n THEN m ELSE n

\* GetFreeSlotsForTeam, InvitationType 0.
FreeSlots(bg, t) ==
    LET other == CHOOSE o \in Teams : o # t
        In(u) == Cardinality({p \in bg.players : Team[p] = u})
        Gap(theirs, ours, less) ==
            IF theirs = ours THEN 1 ELSE IF theirs > ours THEN theirs - ours ELSE less
        room == IF bg.invited[t] < MaxPlayers THEN MaxPlayers - bg.invited[t] ELSE 0
        toFill == IF bg.invited[t] <= MinPlayers THEN MinPlayers - bg.invited[t] + 1 ELSE 0
    IN IF bg.status = "join" THEN room
       ELSE Lesser(room, Lesser(Gap(bg.invited[other], bg.invited[t], 0),
                               Gap(In(other), In(t), toFill)))

\* The running battlegrounds with free slots: FillPlayersToBG, invite, and leave the list
\* of free slots when the players that entered fill the battleground.
FillBattleground(w, q, b) ==
    LET pools == [t \in Teams |->
            Fill(EmptyPool, w.groups[q][<<"normal", t>>], FreeSlots(w.bgs[b], t))]
        invited == Invite(w, q, b, pools)
    IN IF w.bgs[b].status = "leave" THEN w
       ELSE IF Cardinality(w.bgs[b].players) < 2 * MaxPlayers THEN invited
       ELSE [invited EXCEPT !.freeSlots = Put(@, q, Keeping(@[q], Ids \ {b}))]

FillRunning(w0, q) == FoldLeft(LAMBDA w, b : FillBattleground(w, q, b), w0, w0.freeSlots[q])

\* Mutant: the id stays marked as free.
GenerateInstanceIdUnmarked(i) ==
    LET above == {n \in i.free : n > i.next}
    IN IF above # {} THEN [i EXCEPT !.next = Min(above)]
       ELSE [next |-> i.size, free |-> i.free \cup {i.size}, size |-> i.size + 1]

\* GenerateInstanceId.
GenerateInstanceId(i) ==
    LET used == i.free \ {i.next}
        above == {n \in used : n > i.next}
    IN IF above # {} THEN [i EXCEPT !.next = Min(above), !.free = used]
       ELSE [next |-> i.size, free |-> used \cup {i.size}, size |-> i.size + 1]

\* CreateNewBattleground, the invitations, StartBattleground.
Create(w, q, pools) ==
    LET b == w.ids.next
        bg == [queue |-> q, status |-> "join", invited |-> [t \in Teams |-> 0],
               players |-> {}, offline |-> <<>>]
        made == [w EXCEPT !.ids = GenerateInstanceId(@), !.bgs = Put(@, b, bg),
                          !.freeSlots = Put(@, q, <<b>> \o @[q])]
    IN Invite(made, q, b, pools)

\* CheckPremadeMatch: the pools of a match between the first premades of the factions,
\* filled from the normal lists ...
PremadePools(lists) ==
    LET First(t) == Head(NotInvited(lists[<<"premade", t>>]))
        own == [t \in Teams |-> AddGroup(EmptyPool, First(t), MaxPlayers)]
        size == Lesser(own["alliance"].count, own["horde"].count)
    IN [t \in Teams |->
           Fill([own[t] EXCEPT !.more = TRUE], NotInvited(lists[<<"normal", t>>]), size)]

PremadeMatch(lists) == \A t \in Teams : NotInvited(lists[<<"premade", t>>]) # <<>>

\* ... or the first premade moves to the normal list, if it has waited for long enough
\* (it may have: late) or has become too small.
Moved(lists, late) ==
    LET first(t) == lists[<<"premade", t>>][1]
        moves == {t \in Teams :
            /\ lists[<<"premade", t>>] # <<>> /\ first(t).invited = 0
            /\ t \in late \/ Cardinality(first(t).players) < MinPlayers}
    IN [l \in Lists |->
           IF l[2] \notin moves THEN lists[l]
           ELSE IF l[1] = "premade" THEN Tail(lists[l])
           ELSE <<first(l[2])>> \o lists[l]]

\* CheckNormalMatch: pools of at least MinPlayers each.
NormalPool(list) ==
    FoldLeft(LAMBDA r, g : IF r.count >= MinPlayers THEN r ELSE AddGroup(r, g, MaxPlayers),
             EmptyPool, list)

NormalPools(lists) == [t \in Teams |-> NormalPool(NotInvited(lists[<<"normal", t>>]))]

NormalMatch(lists) == \A t \in Teams : NormalPools(lists)[t].count >= MinPlayers

\* BattlegroundQueueUpdate, when the premades in late have waited for long enough.
\* A battleground cannot be created when ids.next > MaxId (bound).
UpdateQueue(w0, q, late) ==
    LET w1 == FillRunning(w0, q)
        premade == PremadeMatch(w1.groups[q])
        w2 == IF ~premade THEN [w1 EXCEPT !.groups = Put(@, q, Moved(@[q], late))]
              ELSE IF w1.ids.next <= MaxId THEN Create(w1, q, PremadePools(w1.groups[q]))
              ELSE w1
    IN IF GroupsOf(w0.groups[q]) = {} THEN w0
       ELSE IF NormalMatch(w2.groups[q]) /\ w2.ids.next <= MaxId
            THEN Create(w2, q, NormalPools(w2.groups[q]))
            ELSE w2

\* BattlegroundMgr::Update, the swapped list of scheduled updates, in order.
UpdateScheduled(w, late) ==
    FoldLeft(LAMBDA r, q : UpdateQueue(r, q, late), w, w.scheduled)

UpdateQueues ==
    /\ phase = "battlegrounds" /\ due = {}
    /\ phase' = "sessions"
    /\ \E late \in SUBSET {t \in Teams : \E q \in Queues : groups[q][<<"premade", t>>] # <<>>} :
          LET w == UpdateEvents([groups |-> groups, events |-> events, bgs |-> bgs,
                                 scheduled |-> scheduled, freeSlots |-> freeSlots,
                                 slot |-> slot, ids |-> ids])
              done == UpdateScheduled(w, late)
          IN /\ groups' = done.groups /\ events' = done.events /\ bgs' = done.bgs
             /\ freeSlots' = done.freeSlots /\ slot' = done.slot /\ ids' = done.ids
    /\ scheduled' = <<>>
    /\ UNCHANGED <<maps, unloading, bgId, place, due, requests>>

-----------------------------------------------------------------------------
PlayerStep(p) ==
    \/ \E q \in Queues : Enter(p, q) \/ LeaveQueue(p, q)
    \/ Arrive(p) \/ LeaveBattleground(p) \/ Logout(p) \/ Login(p)

\* Update of a battleground that may also find nothing to do, and the rest of an update.
UpdateBattleground(b) ==
    DeleteBattleground(b) \/ StartMatch(b) \/ EndMatch(b) \/ RemoveOffline(b) \/ KickAll(b)

WorldStep ==
    \/ UpdateMaps
    \/ \E b \in Ids : UpdateBattleground(b) \/ Wait(b)
    \/ UpdateQueues

Next == (\E party \in UNION Scenarios : Join(party)) \/ (\E p \in Players : PlayerStep(p)) \/ WorldStep

\* A client that is being teleported answers or is disconnected.
Settle(p) == place[p] = "transit" /\ (Arrive(p) \/ Logout(p))

\* The steps of an update of the world, by what they do to the variables that hold its
\* place; the first one with the interval of the battlegrounds over.
Begin == phase = "sessions" /\ phase' = "battlegrounds" /\ due' = DOMAIN bgs
Proceed ==
    /\ phase = "battlegrounds"
    /\ phase' = IF due = {} THEN "sessions" ELSE phase
    /\ due' = IF due = {} THEN due ELSE due \ {Min(due)}

\* The world goes on updating; the interval of the battlegrounds and the two minutes after
\* the end of one pass; nobody stays between two maps.
Fairness ==
    /\ SF_phase(Begin) /\ WF_<<phase, due>>(Proceed)
    /\ SF_due(\E b \in Ids : DeleteBattleground(b) \/ KickAll(b))
    /\ SF_place(\E p \in Players : Settle(p))

Spec == Init /\ [][Next]_vars /\ Fairness

-----------------------------------------------------------------------------
(* Properties.                                                              *)

\* What a battleground counts for a faction is the players invited, those on their way
\* and those in it, and at most MaxPlayers: the calls of IncreaseInvitedCount
\* and DecreaseInvitedCount, reached by way of invitations, entries, refusals, departures,
\* time-outs and logouts, neither miss nor repeat one.
CountsExact ==
    \A b \in DOMAIN bgs : \A t \in Teams :
        LET Count(P) == Cardinality({p \in P : Team[p] = t})
            invited == {p \in Players : \E g \in GroupOf(groups[bgs[b].queue], p) : g.invited = b}
            coming == {p \in Players : place[p] = "transit" /\ bgId[p] = b}
        IN /\ bgs[b].invited[t] = Count(invited) + Count(coming) + Count(bgs[b].players)
           /\ bgs[b].invited[t] <= MaxPlayers

\* An invited group has only online players who know their invitation, its battleground
\* exists, and for each of them the event that ends it is still to come.
InvitationsHold ==
    \A q \in Queues : \A g \in GroupsOf(groups[q]) : \A p \in g.players :
        /\ place[p] # "offline" /\ slot[p][q] = g.invited
        /\ g.invited # 0 =>
               /\ g.invited \in DOMAIN bgs /\ bgs[g.invited].queue = q
               /\ [player |-> p, queue |-> q, bg |-> g.invited, left |-> g.left] \in events
               /\ g.left > 0

\* The id that comes next, and those marked free, belong to no battleground and to no map
\* that is still to be destroyed, whatever two updater threads do to each other.
IdsAreUnique ==
    LET used == DOMAIN bgs \cup {u[1] : u \in unloading}
    IN /\ ids.next \notin used /\ ids.free \cap used = {}
       /\ DOMAIN bgs \cap {u[1] : u \in unloading} = {}

\* The events remove only players whose own invitation has run out, not one who left the
\* queue, joined it again and was invited to the same battleground a second time.
TimelyRemoval ==
    [][phase = "battlegrounds" /\ phase' = "sessions" =>
          \A q \in Queues : \A g \in GroupsOf(groups[q]) :
              (\E p \in g.players : slot'[p][q] = NotQueued) => g.invited # 0 /\ g.left = 1]_vars

\* A battleground that has ended is deleted in the end, whoever was invited to it, was on
\* the way to it or had logged out.
EndedIsDeleted ==
    \A b \in Ids :
        (b \in DOMAIN bgs /\ bgs[b].status = "leave") ~> b \notin DOMAIN bgs

=============================================================================
