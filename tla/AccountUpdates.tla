--------------------------- MODULE AccountUpdates ---------------------------
(***************************************************************************)
(* What the progression and the marketplace promise an account: a batch of *)
(* events is counted once for each of its owners and is never forgotten, a *)
(* gift leaves the buyer and reaches every recipient in one step, a code   *)
(* is redeemed once, and what a change earns comes with it.  There are no  *)
(* files here, and nothing fails.                                          *)
(***************************************************************************)
EXTENDS AccountDocuments

VARIABLES
    progress,   \* the XP of an account and the batches accepted for it
    states,     \* its missions
    inventory

vars == <<progress, states, inventory>>

Init ==
    /\ progress = [a \in Accounts |-> [known |-> FALSE, xp |-> 0, pending |-> FALSE, accepted |-> {}]]
    /\ states = [a \in Accounts |-> NewMissions]
    /\ inventory = [a \in Accounts |-> NewInventory]

\* The owners of a batch it is new to, and those whose active mission it completes.
Record(b, owners, finishers) ==
    LET new == {a \in owners : b \notin progress[a].accepted}
        done == [a \in Accounts |-> IF a \in finishers THEN Active(states[a]) ELSE {}]
        xp == [a \in Accounts |-> progress[a].xp + Gain[b] + BonusXp(done[a])]
    IN /\ finishers \subseteq {a \in new : Active(states[a]) # {}}
       /\ progress' = [a \in Accounts |->
              IF a \in new
              THEN [known |-> TRUE, xp |-> xp[a],
                    pending |-> progress[a].pending \/ xp[a] # progress[a].xp,
                    accepted |-> progress[a].accepted \cup {b}]
              ELSE progress[a]]
       /\ states' = [a \in Accounts |->
              IF a \in finishers THEN Advanced(states[a]) ELSE states[a]]
       /\ inventory' = [a \in Accounts |->
              IF a \in new
              THEN Awarded(inventory[a], Unlocked(xp[a]) \cup Rewards(done[a]))
              ELSE inventory[a]]

Restore(a, local, choose) ==
    LET xp == IF choose THEN local
              ELSE RestoredXp(progress[a].pending, progress[a].xp, local)
    IN /\ progress' = [progress EXCEPT ![a] =
              [known |-> TRUE, xp |-> xp,
               pending |-> @.pending /\ ~choose /\ local < @.xp, accepted |-> @.accepted]]
       /\ inventory' = [inventory EXCEPT ![a] = Awarded(@, Unlocked(xp))]
       /\ UNCHANGED states

Login(a) ==
    /\ inventory' = [inventory EXCEPT ![a] = Awarded(@, Unlocked(0))]
    /\ UNCHANGED <<progress, states>>

Select(a, m) ==
    /\ states' = [states EXCEPT ![a] = Selected(@, m)]
    /\ UNCHANGED <<progress, inventory>>

Deselect(a, m) ==
    /\ states[a][m] # "absent"
    /\ states' = [states EXCEPT ![a] = Deselected(@, m)]
    /\ UNCHANGED <<progress, inventory>>

Purchase(buyer, t, to) ==
    /\ ~Bought(inventory[buyer], t)
    /\ inventory[buyer].coins >= Cardinality(to)
    /\ inventory' = [a \in Accounts |->
           LET paid == IF a = buyer THEN Debited(inventory[a], t, to) ELSE inventory[a]
           IN IF a \in to THEN Gifted(paid) ELSE paid]
    /\ UNCHANGED <<progress, states>>

Redeem(a, k) ==
    /\ k \notin inventory[a].redeemed
    /\ inventory' = [inventory EXCEPT ![a] = Redeemed(@, k)]
    /\ UNCHANGED <<progress, states>>

Next ==
    \/ \E b \in Batches, owners \in SUBSET Accounts :
           \E finishers \in SUBSET owners : Record(b, owners, finishers)
    \/ \E a \in Accounts, local \in LocalXp, choose \in BOOLEAN : Restore(a, local, choose)
    \/ \E a \in Accounts : Login(a)
    \/ \E a \in Accounts, m \in Missions : Select(a, m) \/ Deselect(a, m)
    \/ \E buyer \in Accounts, t \in Transactions, to \in SUBSET Accounts :
           to # {} /\ Purchase(buyer, t, to)
    \/ \E a \in Accounts, k \in Codes : Redeem(a, k)

Spec == Init /\ [][Next]_vars
=============================================================================
