------------------------- MODULE MCBattlegroundQueue -------------------------
(* Two players of each faction, two queues of one battleground type each.   *)
EXTENDS BattlegroundQueue

CONSTANTS a1, a2, h1, h2, q1, q2

MCPlayers == {a1, a2, h1, h2}
MCTeam == [p \in MCPlayers |-> IF p \in {a1, a2} THEN "alliance" ELSE "horde"]

Alone(p, q) == [members |-> {p}, queue |-> q, n |-> 1]
Pair(p, r, q) == [members |-> {p, r}, queue |-> q, n |-> 1]

(* Two parties in one queue and one of them again, alone; two players in    *)
(* both queues.                                                             *)
MCScenarios == {
    {Pair(a1, a2, q1), Pair(h1, h2, q1), Alone(a1, q1)},
    {Alone(a1, q1), Alone(h1, q1), Alone(a1, q2), Alone(h1, q2)}}
=============================================================================
