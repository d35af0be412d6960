-------------------------- MODULE AccountDocuments --------------------------
(***************************************************************************)
(* The documents an account's progression and purchases are kept in, and   *)
(* what one request makes of them: Services/Achievements, Services/Quests  *)
(* and Services/Marketplace, without the files (AccountJournals) and       *)
(* without the protocol that publishes them.                               *)
(*                                                                         *)
(* A batch carries one event for each of its owners: an amount of XP, and  *)
(* possibly what completes the owner's active mission.  The missions are   *)
(* those of one category.  player_xp_pending, when it is there, equals     *)
(* player_xp (validatePendingXp), so a flag stands for it.                 *)
(***************************************************************************)
EXTENDS Integers, Sequences, FiniteSets

CONSTANTS
    Accounts,
    Batches,        \* request ids of event batches
    Missions, NoMission,
    Items, RankItems,
    Transactions, Codes,
    Gain,           \* the XP of a batch, to each owner
    UnlockAt,       \* the XP at which a rank item is owned
    NextMission, RewardItem, RewardXp,
    Keep,           \* receipts kept in events.json: 256 in the code
    MaxXp,          \* bound: UINT64_MAX in the code
    LocalXp,        \* the XP clients restore, and the ranks they choose start at
    StartCoins

ASSUME DocumentAssumption ==
    /\ IsFiniteSet(Accounts)
    /\ NoMission \notin Missions
    /\ RankItems \subseteq Items
    /\ Gain \in [Batches -> Nat]
    /\ UnlockAt \in [RankItems -> Nat]
    /\ NextMission \in [Missions -> Missions \cup {NoMission}]
    /\ \A m \in Missions : NextMission[m] # m
    /\ RewardItem \in [Missions -> SUBSET Items]
    /\ RewardXp \in [Missions -> Nat]
    /\ Keep \in Nat \ {0} /\ MaxXp \in Nat /\ StartCoins \in Nat
    /\ LocalXp \subseteq 0 .. MaxXp

Statuses == {"absent", "inactive", "active", "complete"}

-----------------------------------------------------------------------------
(* events.json, states.json and inventory.json.  The archived receipts are *)
(* the set of the batches they are for.                                    *)

Journals == [known : BOOLEAN, xp : 0 .. MaxXp, pending : BOOLEAN, requests : Seq(Batches)]
MissionStates == [Missions -> Statuses]
Inventories == [items : SUBSET Items, coins : Nat, gifts : Nat,
                purchases : SUBSET (Transactions \X Accounts), redeemed : SUBSET Codes]

\* What is read where there is no file yet.
NewJournal == [known |-> FALSE, xp |-> 0, pending |-> FALSE, requests |-> <<>>]
NewMissions == [m \in Missions |-> "absent"]
NewInventory == [items |-> {}, coins |-> StartCoins, gifts |-> 0, purchases |-> {}, redeemed |-> {}]

-----------------------------------------------------------------------------
(* Missions *)

Active(states) == {m \in Missions : states[m] = "active"}
Completed(states) == {m \in Missions : states[m] = "complete"}

\* A broken variant: the mission selected before stays active.
SelectedToo(states, m) == [states EXCEPT ![m] = "active"]

\* StartQuest selects one mission and deactivates the other of its category; a complete
\* mission stays complete.
Selected(states, m) ==
    [n \in Missions |-> IF states[m] = "complete" THEN states[n]
                        ELSE IF n = m THEN "active"
                        ELSE IF states[n] = "active" THEN "inactive" ELSE states[n]]

Deselected(states, m) ==
    [states EXCEPT ![m] = IF states[m] = "active" THEN "inactive" ELSE states[m]]

\* advanceReplayQuests: the active mission is complete, its successor becomes active
\* unless it has been completed before.
Successor(states, n) ==
    /\ states[n] \in {"absent", "inactive"}
    /\ \E m \in Active(states) : NextMission[m] = n
Advanced(states) ==
    [n \in Missions |-> IF states[n] = "active" THEN "complete"
                        ELSE IF Successor(states, n) THEN "active" ELSE states[n]]

-----------------------------------------------------------------------------
(* Progression *)

\* playerRankItems
Unlocked(xp) == {i \in RankItems : UnlockAt[i] <= xp}
Rewards(missions) == UNION {RewardItem[m] : m \in missions}

\* questProgress.xp: at most one mission is active.
BonusXp(missions) == IF missions = {} THEN 0 ELSE RewardXp[CHOOSE m \in missions : TRUE]

\* An inventory that owns the items as well.
Awarded(inventory, items) == [inventory EXCEPT !.items = @ \cup items]

\* The XP restoreAchievementProgression settles on: an award that is pending is kept
\* when the local snapshot misses it.
RestoredXp(pending, xp, local) == IF pending /\ local < xp THEN xp ELSE local

-----------------------------------------------------------------------------
(* Purchases: one coin for each recipient *)

Bought(inventory, t) == \E c \in Accounts : <<t, c>> \in inventory.purchases

\* The buyer's side of a purchase, and one recipient's.
Debited(inventory, t, to) ==
    [inventory EXCEPT !.coins = @ - Cardinality(to), !.purchases = @ \cup ({t} \X to)]
Gifted(inventory) == [inventory EXCEPT !.gifts = @ + 1]

Redeemed(inventory, k) == [inventory EXCEPT !.coins = @ + 1, !.redeemed = @ \cup {k}]
=============================================================================
