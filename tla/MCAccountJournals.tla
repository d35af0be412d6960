------------------------- MODULE MCAccountJournals -------------------------
(* Instances of AccountJournals for TLC. *)
EXTENDS AccountJournals, TLC

CONSTANTS a1, a2, b1, b2, m1, m2, starter, medal, prize, MaxChanges

\* One unit of XP unlocks the medal; the first mission leads to the second one.
MCGain == [b \in Batches |-> 1]
MCUnlockAt == (starter :> 0) @@ (medal :> 1)
MCNextMission == (m1 :> m2) @@ (m2 :> NoMission)
MCRewardItem == (m1 :> {prize}) @@ (m2 :> {})
MCRewardXp == (m1 :> 1) @@ (m2 :> 0)

\* Bound: accepted batches, purchases, redemptions and changed missions.
Count(a) ==
    Cardinality(LatestProgress[a].accepted) + Cardinality(LatestInventory[a].purchases)
    + Cardinality(LatestInventory[a].redeemed)
    + Cardinality({m \in Missions : LatestStates[a][m] # "absent"})
Bounded == Count(a1) + Count(a2) <= MaxChanges
Symmetry == Permutations(Accounts)
=============================================================================
