-------------------------- MODULE AccountJournals --------------------------
(***************************************************************************)
(* The two redo journals of the service store: the progression intent of   *)
(* Achievements/achievement_store.cpp (event-transaction.json) and the     *)
(* purchase journal of Marketplace/marketplace_services.cpp                *)
(* (pending-purchase.json), which both replace accounts' inventories.      *)
(*                                                                         *)
(* Every request holds services::storeMutex, so that requests do not       *)
(* interleave; but each is a sequence of file publications, and any of     *)
(* them may throw or be the last one before the process ends.  Nothing but *)
(* the files survives either, and nothing but the files is read again: the *)
(* variables are the files and a step is one publication.  Whatever        *)
(* request comes next goes on from the state that is left.  A request      *)
(* first finishes what is pending (the steps of the two recoveries), then  *)
(* publishes its own change (a guard says what has been finished by then), *)
(* then its journal is recovered like any other.                           *)
(*                                                                         *)
(* A journal holds digests of the images it replaces; digests are equal    *)
(* when the documents are.                                                 *)
(***************************************************************************)
EXTENDS AccountDocuments

VARIABLES
    file,       \* events.json, receipts/, states.json, inventory.json of each account
    intent,     \* event-transaction.json: the writes, by file; empty when it is deleted
    journal     \* pending-purchase.json: the owners' inventories; empty when applied

vars == <<file, intent, journal>>

Kinds == {"events", "receipts", "states", "inventory"}
Files == Kinds \X Accounts
Events(a) == <<"events", a>>
Receipts(a) == <<"receipts", a>>
States(a) == <<"states", a>>
Inventory(a) == <<"inventory", a>>

Idle == [f \in {} |-> f]

\* The images a journal records that replaces files by what after has for them.
Window(after) == [f \in DOMAIN after |-> [before |-> file[f], after |-> after[f]]]

\* The validation of the whole window before its first write.
Resumes(window) ==
    \A f \in DOMAIN window : file[f] \in {window[f].before, window[f].after}

IntentRecovered == intent = Idle
PurchaseRecovered == journal = Idle

-----------------------------------------------------------------------------
(* achievement_store::recover *)

RecoverWrite(f) ==
    /\ f \in DOMAIN intent /\ file[f] # intent[f].after
    /\ Resumes(intent)
    /\ file' = [file EXCEPT ![f] = intent[f].after]
    /\ UNCHANGED <<intent, journal>>

RetireIntent ==
    /\ intent # Idle
    /\ \A f \in DOMAIN intent : file[f] = intent[f].after
    /\ intent' = Idle
    /\ UNCHANGED <<file, journal>>

-----------------------------------------------------------------------------
(* recoverPurchase, which every caller runs after the recovery above *)

RecoverOwner(f) ==
    /\ IntentRecovered
    /\ f \in DOMAIN journal /\ file[f] # journal[f].after
    /\ Resumes(journal)
    /\ file' = [file EXCEPT ![f] = journal[f].after]
    /\ UNCHANGED <<intent, journal>>

RetirePurchase ==
    /\ IntentRecovered
    /\ journal # Idle
    /\ \A f \in DOMAIN journal : file[f] = journal[f].after
    /\ journal' = Idle
    /\ UNCHANGED <<file, intent>>

-----------------------------------------------------------------------------
(* recordEvents and recordAttributedEvents *)

Ids(requests) == {requests[i] : i \in DOMAIN requests}
Accepted(a) == Ids(file[Events(a)].requests) \cup file[Receipts(a)]
NewOwners(b, owners) == {a \in owners : b \notin Accepted(a)}

Finished(a, finishers) == IF a \in finishers THEN Active(file[States(a)]) ELSE {}
NewXp(a, b, finishers) == file[Events(a)].xp + Gain[b] + BonusXp(Finished(a, finishers))

\* The journal keeps the last receipts, and the one it drops is archived.
Kept(requests) == IF Len(requests) > Keep THEN Tail(requests) ELSE requests
Dropped(requests) == IF Len(requests) > Keep THEN {Head(requests)} ELSE {}

RecordedJournal(old, b, xp) ==
    [known |-> TRUE, xp |-> xp, pending |-> old.pending \/ xp # old.xp,
     requests |-> Kept(Append(old.requests, b))]

\* Every file of every owner after the batch.
Recorded(f, b, finishers) ==
    LET a == f[2] IN
    IF f[1] = "events" THEN RecordedJournal(file[f], b, NewXp(a, b, finishers))
    ELSE IF f[1] = "receipts" THEN file[f] \cup Dropped(Append(file[Events(a)].requests, b))
    ELSE IF f[1] = "states" THEN Advanced(file[f])
    ELSE Awarded(file[f], Unlocked(NewXp(a, b, finishers)) \cup Rewards(Finished(a, finishers)))

\* What the batch leaves as it is is not replaced.
Replaced(f, b, finishers) ==
    /\ f[1] = "states" => f[2] \in finishers
    /\ f[1] # "events" => Recorded(f, b, finishers) # file[f]

\* Broken variants: the archive, or the inventory, is left out of the window.
StagedUnarchived(b, owners, finishers) ==
    {f \in (Kinds \ {"receipts"}) \X NewOwners(b, owners) : Replaced(f, b, finishers)}
StagedWithoutAwards(b, owners, finishers) ==
    {f \in (Kinds \ {"inventory"}) \X NewOwners(b, owners) : Replaced(f, b, finishers)}

\* The files staged for one intent.
Staged(b, owners, finishers) ==
    {f \in Kinds \X NewOwners(b, owners) : Replaced(f, b, finishers)}

\* One report for its sender, or for every player it is attributed to.  The owners that
\* have accepted it already are left alone; an owner whose total would overflow refuses
\* it for all.  prepareRankInventory recovers the purchases.
RecordEvents(b, owners, finishers) ==
    /\ IntentRecovered /\ PurchaseRecovered
    /\ finishers \subseteq {a \in NewOwners(b, owners) : Active(file[States(a)]) # {}}
    /\ NewOwners(b, owners) # {}
    /\ \A a \in NewOwners(b, owners) : NewXp(a, b, finishers) <= MaxXp
    /\ intent' = Window([f \in Staged(b, owners, finishers) |-> Recorded(f, b, finishers)])
    /\ UNCHANGED <<file, journal>>

-----------------------------------------------------------------------------
(* restoreAchievementProgression, at the end of a client's login *)

RestoredJournal(old, local, choose) ==
    LET xp == IF choose THEN local ELSE RestoredXp(old.pending, old.xp, local)
    IN [old EXCEPT !.known = TRUE, !.xp = xp, !.pending = @ /\ ~choose /\ local < old.xp]

\* A chosen starting rank and a restored snapshot replace the total and award its items.
Restore(a, local, choose) ==
    LET restored == RestoredJournal(file[Events(a)], local, choose)
        awarded == Awarded(file[Inventory(a)], Unlocked(restored.xp))
        files == {Events(a)} \cup {f \in {Inventory(a)} : awarded # file[f]}
    IN /\ IntentRecovered /\ PurchaseRecovered
       /\ intent' = Window([f \in files |-> IF f = Events(a) THEN restored ELSE awarded])
       /\ UNCHANGED <<file, journal>>

\* Neither: the items of the first rank.
Login(a) ==
    /\ IntentRecovered /\ PurchaseRecovered
    /\ Awarded(file[Inventory(a)], Unlocked(0)) # file[Inventory(a)]
    /\ intent' = Window([f \in {Inventory(a)} |-> Awarded(file[f], Unlocked(0))])
    /\ UNCHANGED <<file, journal>>

(* activation: a mission is selected or deselected *)

Select(a, m) ==
    /\ IntentRecovered
    /\ intent' = Window([f \in {States(a)} |-> Selected(file[f], m)])
    /\ UNCHANGED <<file, journal>>

Deselect(a, m) ==
    /\ IntentRecovered
    /\ file[States(a)][m] # "absent"
    /\ intent' = Window([f \in {States(a)} |-> Deselected(file[f], m)])
    /\ UNCHANGED <<file, journal>>

-----------------------------------------------------------------------------
(* The marketplace: both recoveries have run *)

Paid(f, buyer, t, to) ==
    LET paid == IF f = Inventory(buyer) THEN Debited(file[f], t, to) ELSE file[f]
    IN IF f[2] \in to THEN Gifted(paid) ELSE paid

\* A broken variant: the progression's intent is not finished first.
CanBuyUnrecovered(buyer, t, to) ==
    /\ PurchaseRecovered
    /\ ~Bought(file[Inventory(buyer)], t)
    /\ file[Inventory(buyer)].coins >= Cardinality(to)

CanBuy(buyer, t, to) ==
    /\ IntentRecovered /\ PurchaseRecovered
    /\ ~Bought(file[Inventory(buyer)], t)
    /\ file[Inventory(buyer)].coins >= Cardinality(to)

\* For the buyer alone: one file.
PurchaseOwn(buyer, t) ==
    /\ CanBuy(buyer, t, {buyer})
    /\ file' = [file EXCEPT ![Inventory(buyer)] = Paid(Inventory(buyer), buyer, t, {buyer})]
    /\ UNCHANGED <<intent, journal>>

\* A broken variant: the accounts are written without a journal.
PurchaseGiftUnjournaled(buyer, t, to) ==
    /\ CanBuy(buyer, t, to)
    /\ \E owners \in SUBSET (to \cup {buyer}) :
           file' = [f \in Files |-> IF f \in {"inventory"} \X owners THEN Paid(f, buyer, t, to)
                                    ELSE file[f]]
    /\ UNCHANGED <<intent, journal>>

\* Gifts: the publication of the journal is the decision.
PurchaseGift(buyer, t, to) ==
    /\ CanBuy(buyer, t, to)
    /\ journal' = Window([f \in {"inventory"} \X (to \cup {buyer}) |-> Paid(f, buyer, t, to)])
    /\ UNCHANGED <<file, intent>>

Redeem(a, k) ==
    /\ IntentRecovered /\ PurchaseRecovered
    /\ k \notin file[Inventory(a)].redeemed
    /\ file' = [file EXCEPT ![Inventory(a)] = Redeemed(@, k)]
    /\ UNCHANGED <<intent, journal>>

-----------------------------------------------------------------------------
Init ==
    /\ file = [f \in Files |-> IF f[1] = "events" THEN NewJournal
                               ELSE IF f[1] = "receipts" THEN {}
                               ELSE IF f[1] = "states" THEN NewMissions ELSE NewInventory]
    /\ intent = Idle
    /\ journal = Idle

Recovery ==
    \/ \E f \in Files : RecoverWrite(f) \/ RecoverOwner(f)
    \/ RetireIntent
    \/ RetirePurchase

Progression ==
    \/ \E b \in Batches, owners \in SUBSET Accounts :
           \E finishers \in SUBSET owners : RecordEvents(b, owners, finishers)
    \/ \E a \in Accounts, local \in LocalXp, choose \in BOOLEAN : Restore(a, local, choose)
    \/ \E a \in Accounts : Login(a)
    \/ \E a \in Accounts, m \in Missions : Select(a, m) \/ Deselect(a, m)

Marketplace ==
    \/ \E buyer \in Accounts, t \in Transactions :
           \/ PurchaseOwn(buyer, t)
           \/ \E to \in SUBSET Accounts : to \ {buyer} # {} /\ PurchaseGift(buyer, t, to)
    \/ \E a \in Accounts, k \in Codes : Redeem(a, k)

Next == Recovery \/ Progression \/ Marketplace

Spec == Init /\ [][Next]_vars

-----------------------------------------------------------------------------
(* Properties *)

\* The document a request reads once it has finished what is pending.
Latest(f) ==
    IF f \in DOMAIN intent THEN intent[f].after
    ELSE IF f \in DOMAIN journal THEN journal[f].after ELSE file[f]

\* The same, by account.
ProgressOf(log, receipts) ==
    [known |-> log.known, xp |-> log.xp, pending |-> log.pending,
     accepted |-> Ids(log.requests) \cup receipts]
LatestProgress == [a \in Accounts |-> ProgressOf(Latest(Events(a)), Latest(Receipts(a)))]
LatestStates == [a \in Accounts |-> Latest(States(a))]
LatestInventory == [a \in Accounts |-> Latest(Inventory(a))]

Contents(f) ==
    IF f[1] = "events" THEN {j \in Journals : Len(j.requests) <= Keep}
    ELSE IF f[1] = "receipts" THEN SUBSET Batches
    ELSE IF f[1] = "states" THEN MissionStates ELSE Inventories

WindowTyped(window) ==
    /\ DOMAIN window \subseteq Files
    /\ \A f \in DOMAIN window : DOMAIN window[f] = {"before", "after"}
    /\ \A f \in DOMAIN window : window[f].before \in Contents(f) /\ window[f].after \in Contents(f)

\* Every file is a document of its kind, and so is every image in a journal.
TypeOK ==
    /\ DOMAIN file = Files
    /\ \A f \in Files : file[f] \in Contents(f)
    /\ WindowTyped(intent) /\ WindowTyped(journal)

\* A journal that was left behind can always be finished: no file it names holds
\* anything but the image from before or from after, so that no recovery refuses its
\* own window, which would refuse every later request (achievement_store.cpp:170,
\* marketplace_services.cpp:226).
Resumable == Resumes(intent) /\ Resumes(journal)

\* An XP total never becomes readable without the items of its ranks, nor a completed
\* mission without its reward, whatever fails between their files
\* (achievement_services.cpp:1970: "native item ownership [is] one recovery window").
AwardsFollow ==
    \A a \in Accounts :
        /\ LatestProgress[a].known =>
               Unlocked(LatestProgress[a].xp) \subseteq LatestInventory[a].items
        /\ Rewards(Completed(LatestStates[a])) \subseteq LatestInventory[a].items

\* No category has two missions active: advanceReplayQuests refuses every later batch of
\* an account that has (quest_services.cpp:385).
OneActive ==
    \A a \in Accounts : \A m, n \in Active(LatestStates[a]) : m = n

\* The gifts and purchases an account has been the recipient of.
Orders(a) ==
    {order \in Accounts \X Transactions : <<order[2], a>> \in LatestInventory[order[1]].purchases}

\* The accounts of the players balance: what a buyer paid is what the recipients have
\* received, and a code is worth its coin once (marketplace_services.cpp:1329: "A gift's
\* complete before/after images and exact response are journaled together").
Ledger ==
    \A a \in Accounts :
        LET owned == LatestInventory[a]
        IN /\ owned.gifts = Cardinality(Orders(a))
           /\ owned.coins + Cardinality(owned.purchases) = StartCoins + Cardinality(owned.redeemed)

\* The files and the two journals implement the updates of AccountUpdates, each in the
\* step that publishes its journal or its one file: the recoveries change nothing that
\* is read.  It is also how a batch is never forgotten when its receipt is archived.
Updates == INSTANCE AccountUpdates WITH
    progress <- LatestProgress, states <- LatestStates, inventory <- LatestInventory
AtomicUpdates == Updates!Spec
=============================================================================
