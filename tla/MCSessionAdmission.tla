-------------------------- MODULE MCSessionAdmission --------------------------
(* A game master and two players for TLC, on a realm with one or two slots. *)
EXTENDS SessionAdmission, TLC

CONSTANTS gm, alice, bob, s1, s2, s3, noAccount, noSession

ThreeAccounts == {gm, alice, bob}
TwoAccounts == {alice, bob}
GameMasters == {gm}
Nobody == {}
ThreeSessions == {s1, s2, s3}
OneOrTwo == {1, 2}
OneSlot == {1}

\* Objects and ordinary players are interchangeable.
Interchangeable == Permutations(ThreeSessions) \cup Permutations(TwoAccounts)
================================================================================
