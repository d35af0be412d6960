----------------------- MODULE AccountJournalsProofs -----------------------
(***************************************************************************)
(* Proofs about AccountJournals, for every set of accounts, batches,       *)
(* missions, items, transactions and codes, and wherever the publications  *)
(* of a request stop.                                                      *)
(***************************************************************************)
EXTENDS AccountJournals, FiniteSetTheorems, TLAPS

\* The two journals never name the same file: the requests that change an inventory
\* finish both first.
Apart ==
    /\ DOMAIN journal \subseteq {"inventory"} \X Accounts
    /\ DOMAIN intent \cap DOMAIN journal = {}

IInv == TypeOK /\ Resumable /\ Apart

-----------------------------------------------------------------------------
(* Windows *)

LEMMA IdleDomain == DOMAIN Idle = {}
  BY DEF Idle

\* A journal written for some files can be resumed at once.
LEMMA NewWindow ==
    ASSUME TypeOK, NEW after, DOMAIN after \subseteq Files,
           \A f \in DOMAIN after : after[f] \in Contents(f)
    PROVE  /\ DOMAIN Window(after) = DOMAIN after
           /\ \A f \in DOMAIN after : /\ Window(after)[f].before = file[f]
                                      /\ Window(after)[f].after = after[f]
           /\ WindowTyped(Window(after))
           /\ Resumes(Window(after))
  <1>1. DOMAIN Window(after) = DOMAIN after
    BY DEF Window
  <1>2. \A f \in DOMAIN after : /\ DOMAIN Window(after)[f] = {"before", "after"}
                                /\ Window(after)[f].before = file[f]
                                /\ Window(after)[f].after = after[f]
    BY DEF Window
  <1>3. \A f \in DOMAIN after : file[f] \in Contents(f)
    BY DEF TypeOK
  <1>4. WindowTyped(Window(after))
    BY <1>1, <1>2, <1>3 DEF WindowTyped
  <1>5. Resumes(Window(after))
    BY <1>1, <1>2 DEF Resumes
  <1> QED
    BY <1>1, <1>2, <1>4, <1>5

\* What the publication of the intent does to what is read.
LEMMA PublishedIntent ==
    ASSUME IInv, NEW after, DOMAIN after \subseteq Files,
           \A f \in DOMAIN after : after[f] \in Contents(f),
           IntentRecovered, DOMAIN after \cap DOMAIN journal = {},
           intent' = Window(after), UNCHANGED <<file, journal>>
    PROVE  /\ IInv'
           /\ \A f \in Files :
                Latest(f)' = IF f \in DOMAIN after THEN after[f] ELSE Latest(f)
  <1> DEFINE window == Window(after)
  <1>1. /\ DOMAIN window = DOMAIN after
        /\ \A f \in DOMAIN after : window[f].after = after[f]
        /\ WindowTyped(window) /\ Resumes(window)
    BY NewWindow DEF IInv
  <1>2. intent' = window
    OBVIOUS
  <1> HIDE DEF window
  <1>3. TypeOK'
    BY <1>1, <1>2 DEF IInv, TypeOK, WindowTyped
  <1>4. Resumable'
    BY <1>1, <1>2 DEF IInv, Resumable, Resumes
  <1>5. Apart'
    BY <1>1, <1>2 DEF IInv, Apart
  <1>6. DOMAIN intent = {}
    BY IdleDomain DEF IntentRecovered
  <1>7. ASSUME NEW f \in Files
        PROVE  Latest(f)' = IF f \in DOMAIN after THEN after[f] ELSE Latest(f)
    BY <1>1, <1>2, <1>6 DEF Latest
  <1> QED
    BY <1>3, <1>4, <1>5, <1>7 DEF IInv

\* And the publication of a purchase's journal.
LEMMA PublishedJournal ==
    ASSUME IInv, NEW after, DOMAIN after \subseteq {"inventory"} \X Accounts,
           \A f \in DOMAIN after : after[f] \in Contents(f),
           IntentRecovered, PurchaseRecovered,
           journal' = Window(after), UNCHANGED <<file, intent>>
    PROVE  /\ IInv'
           /\ \A f \in Files :
                Latest(f)' = IF f \in DOMAIN after THEN after[f] ELSE Latest(f)
  <1> DEFINE window == Window(after)
  <1>0. DOMAIN after \subseteq Files
    BY DEF Files, Kinds
  <1>1. /\ DOMAIN window = DOMAIN after
        /\ \A f \in DOMAIN after : window[f].after = after[f]
        /\ WindowTyped(window) /\ Resumes(window)
    BY <1>0, NewWindow DEF IInv
  <1>2. journal' = window
    OBVIOUS
  <1> HIDE DEF window
  <1>6. DOMAIN intent = {} /\ DOMAIN journal = {}
    BY IdleDomain DEF IntentRecovered, PurchaseRecovered
  <1>3. TypeOK'
    BY <1>1, <1>2 DEF IInv, TypeOK, WindowTyped
  <1>4. Resumable'
    BY <1>1, <1>2 DEF IInv, Resumable, Resumes
  <1>5. Apart'
    BY <1>1, <1>2, <1>6 DEF IInv, Apart
  <1>7. ASSUME NEW f \in Files
        PROVE  Latest(f)' = IF f \in DOMAIN after THEN after[f] ELSE Latest(f)
    BY <1>1, <1>2, <1>6 DEF Latest
  <1> QED
    BY <1>3, <1>4, <1>5, <1>7 DEF IInv

\* And that of one inventory, with nothing pending.
LEMMA PublishedFile ==
    ASSUME IInv, NEW f \in Files, NEW document \in Contents(f),
           IntentRecovered, PurchaseRecovered,
           file' = [file EXCEPT ![f] = document], UNCHANGED <<intent, journal>>
    PROVE  /\ IInv'
           /\ \A g \in Files : Latest(g)' = IF g = f THEN document ELSE Latest(g)
  <1>1. DOMAIN intent = {} /\ DOMAIN journal = {}
    BY IdleDomain DEF IntentRecovered, PurchaseRecovered
  <1>2. DOMAIN file = Files
    BY DEF IInv, TypeOK
  <1>3. /\ DOMAIN file' = Files
        /\ \A g \in Files : file'[g] = IF g = f THEN document ELSE file[g]
    BY <1>2
  <1>4. TypeOK'
    BY <1>3 DEF IInv, TypeOK, WindowTyped
  <1>5. Resumable'
    BY <1>1 DEF Resumable, Resumes
  <1>6. Apart'
    BY DEF IInv, Apart
  <1>7. \A g \in Files : Latest(g)' = IF g = f THEN document ELSE Latest(g)
    BY <1>1, <1>3 DEF Latest
  <1> QED
    BY <1>4, <1>5, <1>6, <1>7 DEF IInv

-----------------------------------------------------------------------------
(* The recoveries: what is read stays as it is *)

LEMMA RecoveredWrite ==
    ASSUME IInv, NEW f \in Files, RecoverWrite(f) \/ RecoverOwner(f)
    PROVE  IInv' /\ \A g \in Files : Latest(g)' = Latest(g)
  <1>1. PICK window \in {intent, journal} :
          /\ f \in DOMAIN window
          /\ file' = [file EXCEPT ![f] = window[f].after]
    BY DEF RecoverWrite, RecoverOwner
  <1>2. UNCHANGED <<intent, journal>>
    BY DEF RecoverWrite, RecoverOwner
  <1>3. DOMAIN file = Files
    BY DEF IInv, TypeOK
  <1>4. /\ DOMAIN file' = Files
        /\ \A g \in Files : file'[g] = IF g = f THEN window[f].after ELSE file[g]
    BY <1>1, <1>3
  <1>5. window[f].after \in Contents(f)
    BY <1>1 DEF IInv, TypeOK, WindowTyped
  <1>6. TypeOK'
    BY <1>2, <1>4, <1>5 DEF IInv, TypeOK, WindowTyped
  <1>7. DOMAIN intent \cap DOMAIN journal = {}
    BY DEF IInv, Apart
  <1>8. Resumes(intent) /\ Resumes(journal)
    BY DEF IInv, Resumable
  <1>9. \A g \in DOMAIN intent \cup DOMAIN journal : g \in Files
    BY DEF IInv, TypeOK, WindowTyped
  <1>10. Resumes(intent)'
    BY <1>1, <1>2, <1>4, <1>7, <1>8, <1>9 DEF Resumes
  <1>11. Resumes(journal)'
    BY <1>1, <1>2, <1>4, <1>7, <1>8, <1>9 DEF Resumes
  <1>12. Apart'
    BY <1>2 DEF IInv, Apart
  <1>13. ASSUME NEW g \in Files PROVE Latest(g)' = Latest(g)
    BY <1>1, <1>2, <1>4, <1>7 DEF Latest
  <1> QED
    BY <1>6, <1>10, <1>11, <1>12, <1>13 DEF IInv, Resumable

LEMMA Retired ==
    ASSUME IInv, RetireIntent \/ RetirePurchase
    PROVE  IInv' /\ \A g \in Files : Latest(g)' = Latest(g)
  <1>1. DOMAIN Idle = {}
    BY IdleDomain
  <1>2. WindowTyped(Idle) /\ Resumes(Idle)'
    BY <1>1 DEF WindowTyped, Resumes
  <1>3. CASE RetireIntent
    <2>1. intent' = Idle /\ UNCHANGED <<file, journal>>
      BY <1>3 DEF RetireIntent
    <2>2. TypeOK'
      BY <1>1, <2>1 DEF IInv, TypeOK, WindowTyped
    <2>3. Resumable'
      BY <1>1, <2>1 DEF IInv, Resumable, Resumes
    <2>4. Apart'
      BY <1>1, <2>1 DEF IInv, Apart
    <2>5. DOMAIN intent \cap DOMAIN journal = {}
      BY DEF IInv, Apart
    <2>6. \A f \in DOMAIN intent : file[f] = intent[f].after
      BY <1>3 DEF RetireIntent
    <2>7. ASSUME NEW g \in Files PROVE Latest(g)' = Latest(g)
      BY <1>1, <2>1, <2>5, <2>6 DEF Latest
    <2> QED
      BY <2>2, <2>3, <2>4, <2>7 DEF IInv
  <1>4. CASE RetirePurchase
    <2>1. journal' = Idle /\ UNCHANGED <<file, intent>>
      BY <1>4 DEF RetirePurchase
    <2>2. TypeOK'
      BY <1>1, <2>1 DEF IInv, TypeOK, WindowTyped
    <2>3. Resumable'
      BY <1>1, <2>1 DEF IInv, Resumable, Resumes
    <2>4. Apart'
      BY <1>1, <2>1 DEF IInv, Apart
    <2>5. \A f \in DOMAIN journal : file[f] = journal[f].after
      BY <1>4 DEF RetirePurchase
    <2>6. ASSUME NEW g \in Files PROVE Latest(g)' = Latest(g)
      BY <1>1, <2>1, <2>5 DEF Latest
    <2> QED
      BY <2>2, <2>3, <2>4, <2>6 DEF IInv
  <1> QED
    BY <1>3, <1>4

-----------------------------------------------------------------------------
(* What a request makes of a document is a document again *)

LEMMA FileKinds ==
    /\ \A a \in Accounts : /\ Events(a) \in Files /\ Receipts(a) \in Files
                            /\ States(a) \in Files /\ Inventory(a) \in Files
    /\ \A a : /\ Contents(Events(a)) = {j \in Journals : Len(j.requests) <= Keep}
              /\ Contents(Receipts(a)) = SUBSET Batches
              /\ Contents(States(a)) = MissionStates
              /\ Contents(Inventory(a)) = Inventories
    /\ \A f \in Files : /\ f[2] \in Accounts
                        /\ f[1] = "events" => f = Events(f[2])
                        /\ f[1] = "receipts" => f = Receipts(f[2])
                        /\ f[1] = "states" => f = States(f[2])
                        /\ f[1] = "inventory" => f = Inventory(f[2])
                         /\ f[1] \in Kinds
  BY DEF Files, Kinds, Events, Receipts, States, Inventory, Contents

LEMMA MissionsTyped ==
    ASSUME NEW missions \in MissionStates, NEW m \in Missions
    PROVE  /\ NewMissions \in MissionStates
           /\ Selected(missions, m) \in MissionStates
           /\ Deselected(missions, m) \in MissionStates
           /\ Advanced(missions) \in MissionStates
  BY DEF MissionStates, Statuses, NewMissions, Selected, Deselected, Advanced

LEMMA AdvancedTyped ==
    ASSUME NEW missions \in MissionStates
    PROVE  Advanced(missions) \in MissionStates
  BY DEF MissionStates, Statuses, Advanced

LEMMA EarnedTyped ==
    /\ \A xp : Unlocked(xp) \in SUBSET Items
    /\ \A missions \in SUBSET Missions : Rewards(missions) \in SUBSET Items
    /\ \A missions \in SUBSET Missions : BonusXp(missions) \in Nat
  <1>1. \A xp : Unlocked(xp) \in SUBSET Items
    BY DocumentAssumption DEF Unlocked
  <1>2. \A missions \in SUBSET Missions : Rewards(missions) \in SUBSET Items
    BY DocumentAssumption DEF Rewards
  <1>3. ASSUME NEW missions \in SUBSET Missions PROVE BonusXp(missions) \in Nat
    <2>1. CASE missions = {}
      BY <2>1 DEF BonusXp
    <2>2. CASE missions # {}
      <3>1. (CHOOSE m \in missions : TRUE) \in Missions
        BY <2>2
      <3> QED
        BY <2>2, <3>1, DocumentAssumption DEF BonusXp
    <2> QED
      BY <2>1, <2>2
  <1> QED
    BY <1>1, <1>2, <1>3

LEMMA AwardedTyped ==
    ASSUME NEW owned \in Inventories, NEW items \in SUBSET Items
    PROVE  Awarded(owned, items) \in Inventories
  BY DEF Inventories, Awarded

\* Nothing pending is hidden from a request that has finished the intent.
LEMMA LatestIsFile ==
    ASSUME IInv, IntentRecovered
    PROVE  /\ \A f : f \notin {"inventory"} \X Accounts => Latest(f) = file[f]
           /\ PurchaseRecovered => \A f : Latest(f) = file[f]
  <1>1. DOMAIN intent = {}
    BY IdleDomain DEF IntentRecovered
  <1>2. DOMAIN journal \subseteq {"inventory"} \X Accounts
    BY DEF IInv, Apart
  <1>3. PurchaseRecovered => DOMAIN journal = {}
    BY IdleDomain DEF PurchaseRecovered
  <1> QED
    BY <1>1, <1>2, <1>3 DEF Latest

LEMMA FileTyped ==
    ASSUME IInv, NEW a \in Accounts
    PROVE  /\ file[Events(a)] \in Journals /\ Len(file[Events(a)].requests) <= Keep
           /\ file[Receipts(a)] \in SUBSET Batches
           /\ file[States(a)] \in MissionStates
           /\ file[Inventory(a)] \in Inventories
  <1>1. /\ Events(a) \in Files /\ Receipts(a) \in Files
        /\ States(a) \in Files /\ Inventory(a) \in Files
    BY FileKinds
  <1>2. \A f \in Files : file[f] \in Contents(f)
    BY DEF IInv, TypeOK
  <1>3. /\ Contents(Events(a)) = {j \in Journals : Len(j.requests) <= Keep}
        /\ Contents(Receipts(a)) = SUBSET Batches
        /\ Contents(States(a)) = MissionStates
        /\ Contents(Inventory(a)) = Inventories
    BY FileKinds
  <1> QED
    BY <1>1, <1>2, <1>3

LEMMA NewXpTyped ==
    ASSUME IInv, NEW a \in Accounts, NEW b \in Batches, NEW finishers
    PROVE  /\ NewXp(a, b, finishers) \in Nat
           /\ Finished(a, finishers) \in SUBSET Missions
  <1>1. Finished(a, finishers) \in SUBSET Missions
    BY DEF Finished, Active
  <1>2. BonusXp(Finished(a, finishers)) \in Nat
    BY <1>1, EarnedTyped
  <1>3. file[Events(a)].xp \in Nat
    BY FileTyped, DocumentAssumption DEF Journals
  <1>4. Gain[b] \in Nat
    BY DocumentAssumption
  <1>5. NewXp(a, b, finishers) \in Nat
    BY <1>2, <1>3, <1>4 DEF NewXp
  <1> QED
    BY <1>1, <1>5

\* The receipts that are kept and the one that is dropped.
LEMMA KeptTyped ==
    ASSUME NEW requests \in Seq(Batches), Len(requests) <= Keep, NEW b \in Batches
    PROVE  /\ Kept(Append(requests, b)) \in Seq(Batches)
           /\ Len(Kept(Append(requests, b))) <= Keep
           /\ Dropped(Append(requests, b)) \in SUBSET Batches
           /\ Ids(Kept(Append(requests, b))) \cup Dropped(Append(requests, b))
                = Ids(requests) \cup {b}
  <1> DEFINE all == Append(requests, b)
  <1>1. /\ all \in Seq(Batches) /\ Len(all) = Len(requests) + 1
        /\ \A i \in 1 .. Len(requests) : all[i] = requests[i]
        /\ all[Len(requests) + 1] = b
    OBVIOUS
  <1>2. Keep \in Nat \ {0} /\ Len(requests) \in Nat
    BY DocumentAssumption
  <1>3. Ids(all) = Ids(requests) \cup {b}
    <2>1. DOMAIN all = 1 .. Len(requests) + 1 /\ DOMAIN requests = 1 .. Len(requests)
      BY <1>1
    <2>2. Ids(all) \subseteq Ids(requests) \cup {b}
      BY <1>1, <1>2, <2>1 DEF Ids
    <2>3. Ids(requests) \cup {b} \subseteq Ids(all)
      BY <1>1, <1>2, <2>1 DEF Ids
    <2> QED
      BY <2>2, <2>3
  <1> HIDE DEF all
  <1>4. CASE Len(all) > Keep
    <2>1. all # <<>>
      BY <1>1, <1>2
    <2>2. /\ Tail(all) \in Seq(Batches) /\ Len(Tail(all)) = Len(all) - 1
          /\ \A i \in 1 .. Len(all) - 1 : Tail(all)[i] = all[i + 1]
          /\ Head(all) = all[1]
      BY <1>1, <2>1
    <2>3. DOMAIN all = 1 .. Len(all) /\ DOMAIN Tail(all) = 1 .. Len(all) - 1
      BY <1>1, <2>2
    <2>4. Ids(Tail(all)) \cup {Head(all)} \subseteq Ids(all)
      BY <1>1, <1>2, <2>2, <2>3 DEF Ids
    <2>5. ASSUME NEW i \in DOMAIN all PROVE all[i] \in Ids(Tail(all)) \cup {Head(all)}
      <3>1. CASE i = 1
        BY <3>1, <2>2
      <3>2. CASE i # 1
        <4>1. i - 1 \in 1 .. Len(all) - 1 /\ (i - 1) + 1 = i
          BY <3>2, <2>3, <1>1, <1>2
        <4>2. all[i] = Tail(all)[i - 1]
          BY <4>1, <2>2
        <4> QED
          BY <4>1, <4>2, <2>3 DEF Ids
      <3> QED
        BY <3>1, <3>2
    <2>6. Ids(all) \subseteq Ids(Tail(all)) \cup {Head(all)}
      BY <2>5 DEF Ids
    <2>7. Head(all) \in Batches
      BY <1>1, <1>2, <2>2
    <2>8. Kept(all) = Tail(all) /\ Dropped(all) = {Head(all)}
      BY <1>4 DEF Kept, Dropped
    <2> QED
      BY <1>1, <1>2, <1>3, <2>2, <2>4, <2>6, <2>7, <2>8 DEF all
  <1>5. CASE ~(Len(all) > Keep)
    <2>1. Kept(all) = all /\ Dropped(all) = {}
      BY <1>5 DEF Kept, Dropped
    <2> QED
      BY <1>1, <1>2, <1>3, <1>5, <2>1 DEF all
  <1> QED
    BY <1>4, <1>5

LEMMA RecordedTyped ==
    ASSUME IInv, NEW a \in Accounts, NEW b \in Batches, NEW finishers,
           NewXp(a, b, finishers) <= MaxXp
    PROVE  /\ Recorded(Events(a), b, finishers) \in Contents(Events(a))
           /\ Recorded(Receipts(a), b, finishers) \in Contents(Receipts(a))
           /\ Recorded(States(a), b, finishers) \in Contents(States(a))
           /\ Recorded(Inventory(a), b, finishers) \in Contents(Inventory(a))
  <1> DEFINE old == file[Events(a)]
             requests == Append(old.requests, b)
             xp == NewXp(a, b, finishers)
  <1>1. old \in Journals /\ Len(old.requests) <= Keep
    BY FileTyped
  <1>2. old.requests \in Seq(Batches) /\ old.pending \in BOOLEAN
    BY <1>1 DEF Journals
  <1>3. /\ Kept(requests) \in Seq(Batches) /\ Len(Kept(requests)) <= Keep
        /\ Dropped(requests) \in SUBSET Batches
    BY <1>1, <1>2, KeptTyped
  <1>4. xp \in 0 .. MaxXp
    BY NewXpTyped, DocumentAssumption
  <1> HIDE DEF xp, requests
  <1>5. Recorded(Events(a), b, finishers) \in Contents(Events(a))
    <2>1. Recorded(Events(a), b, finishers) = RecordedJournal(old, b, xp)
      BY DEF Recorded, Events, xp
    <2>2. RecordedJournal(old, b, xp) \in Journals
      BY <1>2, <1>3, <1>4 DEF RecordedJournal, Journals, requests
    <2>3. RecordedJournal(old, b, xp).requests = Kept(requests)
      BY DEF RecordedJournal, requests
    <2> QED
      BY <1>3, <2>1, <2>2, <2>3, FileKinds
  <1>6. Recorded(Receipts(a), b, finishers) \in Contents(Receipts(a))
    <2>1. Recorded(Receipts(a), b, finishers) = file[Receipts(a)] \cup Dropped(requests)
      BY DEF Recorded, Receipts, requests
    <2> QED
      BY <1>3, <2>1, FileTyped, FileKinds
  <1>7. Recorded(States(a), b, finishers) \in Contents(States(a))
    <2>1. Recorded(States(a), b, finishers) = Advanced(file[States(a)])
      BY DEF Recorded, States
    <2> QED
      BY <2>1, FileTyped, AdvancedTyped, FileKinds
  <1>8. Recorded(Inventory(a), b, finishers) \in Contents(Inventory(a))
    <2>1. Recorded(Inventory(a), b, finishers) =
            Awarded(file[Inventory(a)], Unlocked(xp) \cup Rewards(Finished(a, finishers)))
      BY DEF Recorded, Inventory, xp
    <2>2. Unlocked(xp) \cup Rewards(Finished(a, finishers)) \in SUBSET Items
      BY EarnedTyped, NewXpTyped
    <2> QED
      BY <2>1, <2>2, FileTyped, AwardedTyped, FileKinds
  <1> QED
    BY <1>5, <1>6, <1>7, <1>8

LEMMA RestoredTyped ==
    ASSUME IInv, NEW a \in Accounts, NEW local \in LocalXp, NEW choose \in BOOLEAN
    PROVE  /\ RestoredJournal(file[Events(a)], local, choose) \in Contents(Events(a))
           /\ \A xp : Awarded(file[Inventory(a)], Unlocked(xp)) \in Contents(Inventory(a))
  <1> DEFINE old == file[Events(a)]
  <1>1. old \in Journals /\ Len(old.requests) <= Keep
    BY FileTyped
  <1>2. local \in 0 .. MaxXp /\ old.xp \in 0 .. MaxXp
    BY <1>1, DocumentAssumption DEF Journals
  <1>3. RestoredJournal(old, local, choose) \in Journals
    BY <1>1, <1>2 DEF Journals, RestoredJournal, RestoredXp
  <1>4. RestoredJournal(old, local, choose).requests = old.requests
    BY <1>1 DEF Journals, RestoredJournal
  <1>5. ASSUME NEW xp PROVE Awarded(file[Inventory(a)], Unlocked(xp)) \in Contents(Inventory(a))
    BY EarnedTyped, FileTyped, AwardedTyped, FileKinds
  <1> QED
    BY <1>1, <1>3, <1>4, <1>5, FileKinds

\* What a buyer who can pay and the recipients are left with.
LEMMA PaidTyped ==
    ASSUME IInv, NEW buyer \in Accounts, NEW t \in Transactions, NEW to \in SUBSET Accounts,
           CanBuy(buyer, t, to), NEW a \in Accounts
    PROVE  Paid(Inventory(a), buyer, t, to) \in Contents(Inventory(a))
  <1>1. Cardinality(to) \in Nat
    BY DocumentAssumption, FS_Subset, FS_CardinalityType
  <1>2. file[Inventory(buyer)].coins >= Cardinality(to)
    BY DEF CanBuy
  <1>3. \A c \in Accounts : file[Inventory(c)] \in Inventories
    BY FileTyped
  <1>4. Debited(file[Inventory(buyer)], t, to) \in Inventories
    <2> DEFINE owned == file[Inventory(buyer)]
               coins == owned.coins - Cardinality(to)
    <2>1. coins \in Nat
      BY <1>1, <1>2, <1>3 DEF Inventories
    <2>2. {t} \X to \in SUBSET (Transactions \X Accounts)
      OBVIOUS
    <2> HIDE DEF coins
    <2>3. Debited(owned, t, to) = [owned EXCEPT !.coins = coins, !.purchases = @ \cup ({t} \X to)]
      BY DEF Debited, coins
    <2> QED
      BY <1>3, <2>1, <2>2, <2>3 DEF Inventories
  <1>5. \A owned \in Inventories : Gifted(owned) \in Inventories
    BY DEF Gifted, Inventories
  <1>6. Inventory(a) = Inventory(buyer) <=> a = buyer
    BY DEF Inventory
  <1>7. Inventory(a)[2] = a
    BY DEF Inventory
  <1>8. Paid(Inventory(a), buyer, t, to) \in Inventories
    BY <1>3, <1>4, <1>5, <1>7 DEF Paid
  <1> QED
    BY <1>8, FileKinds

-----------------------------------------------------------------------------
(* Every request publishes what the abstract update makes of the accounts *)

\* What is read of an account.
LEMMA LatestByAccount ==
    ASSUME NEW a \in Accounts
    PROVE  /\ LatestProgress[a] = ProgressOf(Latest(Events(a)), Latest(Receipts(a)))
           /\ LatestStates[a] = Latest(States(a))
           /\ LatestInventory[a] = Latest(Inventory(a))
  BY DEF LatestProgress, LatestStates, LatestInventory

LEMMA LatestUnchanged ==
    ASSUME \A f \in Files : Latest(f)' = Latest(f)
    PROVE  UNCHANGED <<LatestProgress, LatestStates, LatestInventory>>
  <1>1. \A a \in Accounts : /\ Events(a) \in Files /\ Receipts(a) \in Files
                            /\ States(a) \in Files /\ Inventory(a) \in Files
    BY FileKinds
  <1>2. LatestStates' = LatestStates
    BY <1>1 DEF LatestStates, States
  <1>3. LatestInventory' = LatestInventory
    BY <1>1 DEF LatestInventory, Inventory
  <1>4. LatestProgress' = LatestProgress
    BY <1>1 DEF LatestProgress, Events, Receipts, ProgressOf, Ids
  <1> QED
    BY <1>2, <1>3, <1>4

\* The abstract specification has the same documents.
LEMMA SameDocuments ==
    /\ \A missions, m : /\ Updates!Selected(missions, m) = Selected(missions, m)
                        /\ Updates!Deselected(missions, m) = Deselected(missions, m)
    /\ \A missions : /\ Updates!Advanced(missions) = Advanced(missions)
                     /\ Updates!Active(missions) = Active(missions)
                     /\ Updates!Rewards(missions) = Rewards(missions)
                     /\ Updates!BonusXp(missions) = BonusXp(missions)
    /\ \A xp : Updates!Unlocked(xp) = Unlocked(xp)
    /\ \A pending, xp, local : Updates!RestoredXp(pending, xp, local) = RestoredXp(pending, xp, local)
    /\ \A owned, items : Updates!Awarded(owned, items) = Awarded(owned, items)
    /\ \A owned, t : Updates!Bought(owned, t) = Bought(owned, t)
    /\ \A owned, t, to : Updates!Debited(owned, t, to) = Debited(owned, t, to)
    /\ \A owned : Updates!Gifted(owned) = Gifted(owned)
    /\ \A owned, k : Updates!Redeemed(owned, k) = Redeemed(owned, k)
    /\ \A S : Updates!Cardinality(S) = Cardinality(S)
  <1>1. \A missions : /\ Updates!Active(missions) = Active(missions)
                     /\ Updates!Advanced(missions) = Advanced(missions)
    BY DEF Active, Updates!Active, Advanced, Updates!Advanced, Successor, Updates!Successor
  <1>2. \A missions, m : /\ Updates!Selected(missions, m) = Selected(missions, m)
                        /\ Updates!Deselected(missions, m) = Deselected(missions, m)
    BY DEF Selected, Updates!Selected, Deselected, Updates!Deselected
  <1>3. \A missions : /\ Updates!Rewards(missions) = Rewards(missions)
                     /\ Updates!BonusXp(missions) = BonusXp(missions)
    BY DEF Rewards, Updates!Rewards, BonusXp, Updates!BonusXp
  <1>4. \A xp : Updates!Unlocked(xp) = Unlocked(xp)
    BY DEF Unlocked, Updates!Unlocked
  <1>5. \A pending, xp, local : Updates!RestoredXp(pending, xp, local) = RestoredXp(pending, xp, local)
    BY DEF RestoredXp, Updates!RestoredXp
  <1>6. \A owned, items : Updates!Awarded(owned, items) = Awarded(owned, items)
    BY DEF Awarded, Updates!Awarded
  <1>7. \A owned, t : Updates!Bought(owned, t) = Bought(owned, t)
    BY DEF Bought, Updates!Bought
  <1>11. \A S : Updates!Cardinality(S) = Cardinality(S)
    BY DEF Cardinality, Updates!Cardinality
  <1>8. ASSUME NEW owned, NEW t, NEW to
        PROVE  Updates!Debited(owned, t, to) = Debited(owned, t, to)
    <2>1. Updates!Cardinality(to) = Cardinality(to)
      BY <1>11
    <2> QED
      BY <2>1, Zenon DEF Debited, Updates!Debited
  <1>9. \A owned : Updates!Gifted(owned) = Gifted(owned)
    BY DEF Gifted, Updates!Gifted
  <1>10. \A owned, k : Updates!Redeemed(owned, k) = Redeemed(owned, k)
    BY DEF Redeemed, Updates!Redeemed
  <1> QED
    BY <1>1, <1>2, <1>3, <1>4, <1>5, <1>6, <1>7, <1>8, <1>9, <1>10, <1>11

LEMMA RecoveryStep ==
    ASSUME IInv, Recovery
    PROVE  IInv' /\ UNCHANGED Updates!vars
  <1>1. IInv' /\ \A g \in Files : Latest(g)' = Latest(g)
    BY RecoveredWrite, Retired DEF Recovery
  <1>2. UNCHANGED <<LatestProgress, LatestStates, LatestInventory>>
    BY <1>1, LatestUnchanged
  <1> QED
    BY <1>1, <1>2 DEF Updates!vars

LEMMA PublishedMissions ==
    ASSUME IInv, NEW a \in Accounts, NEW missions \in MissionStates, IntentRecovered,
           intent' = Window([f \in {States(a)} |-> missions]), UNCHANGED <<file, journal>>
    PROVE  /\ IInv'
           /\ LatestStates' = [LatestStates EXCEPT ![a] = missions]
           /\ UNCHANGED <<LatestProgress, LatestInventory>>
  <1> DEFINE after == [f \in {States(a)} |-> missions]
  <1>1. /\ DOMAIN after = {States(a)} /\ after[States(a)] = missions
        /\ DOMAIN after \subseteq Files
        /\ \A f \in DOMAIN after : after[f] \in Contents(f)
    BY FileKinds
  <1>2. DOMAIN after \cap DOMAIN journal = {}
    BY <1>1 DEF IInv, Apart, States
  <1>3. intent' = Window(after)
    OBVIOUS
  <1> HIDE DEF after
  <1>4. IInv' /\ \A f \in Files : Latest(f)' = IF f = States(a) THEN missions ELSE Latest(f)
    BY <1>1, <1>2, <1>3, PublishedIntent
  <1>5. \A c \in Accounts : /\ Events(c) \in Files /\ Receipts(c) \in Files
                            /\ States(c) \in Files /\ Inventory(c) \in Files
    BY FileKinds
  <1>6. LatestStates' = [LatestStates EXCEPT ![a] = missions]
    BY <1>4, <1>5 DEF LatestStates, States
  <1>7. LatestInventory' = LatestInventory
    BY <1>4, <1>5 DEF LatestInventory, Inventory, States
  <1>8. LatestProgress' = LatestProgress
    BY <1>4, <1>5 DEF LatestProgress, Events, Receipts, States, ProgressOf, Ids
  <1> QED
    BY <1>4, <1>6, <1>7, <1>8

LEMMA SelectStep ==
    ASSUME IInv, NEW a \in Accounts, NEW m \in Missions, Select(a, m)
    PROVE  IInv' /\ Updates!Select(a, m)
  <1> DEFINE missions == Selected(file[States(a)], m)
  <1>1. missions \in MissionStates
    BY FileTyped, MissionsTyped
  <1>2. missions = Selected(LatestStates[a], m)
    BY LatestIsFile, LatestByAccount DEF Select, States
  <1> HIDE DEF missions
  <1>3. [f \in {States(a)} |-> Selected(file[f], m)] = [f \in {States(a)} |-> missions]
    BY DEF missions
  <1>4. /\ IInv'
        /\ LatestStates' = [LatestStates EXCEPT ![a] = missions]
        /\ UNCHANGED <<LatestProgress, LatestInventory>>
    BY <1>1, <1>3, PublishedMissions DEF Select
  <1> QED
    BY <1>2, <1>4, SameDocuments DEF Updates!Select

LEMMA DeselectStep ==
    ASSUME IInv, NEW a \in Accounts, NEW m \in Missions, Deselect(a, m)
    PROVE  IInv' /\ Updates!Deselect(a, m)
  <1> DEFINE missions == Deselected(file[States(a)], m)
  <1>1. missions \in MissionStates
    BY FileTyped, MissionsTyped
  <1>2. file[States(a)] = LatestStates[a]
    BY LatestIsFile, LatestByAccount DEF Deselect, States
  <1>3. LatestStates[a][m] # "absent" /\ missions = Deselected(LatestStates[a], m)
    BY <1>2 DEF Deselect
  <1> HIDE DEF missions
  <1>4. [f \in {States(a)} |-> Deselected(file[f], m)] = [f \in {States(a)} |-> missions]
    BY DEF missions
  <1>5. /\ IInv'
        /\ LatestStates' = [LatestStates EXCEPT ![a] = missions]
        /\ UNCHANGED <<LatestProgress, LatestInventory>>
    BY <1>1, <1>4, PublishedMissions DEF Deselect
  <1> QED
    BY <1>3, <1>5, SameDocuments DEF Updates!Deselect

\* The intent of a login replaces events.json, inventory.json or both.
LEMMA PublishedProgression ==
    ASSUME IInv, NEW a \in Accounts, IntentRecovered, PurchaseRecovered,
           NEW after, DOMAIN after \subseteq {Events(a), Inventory(a)},
           \A f \in DOMAIN after : after[f] \in Contents(f),
           intent' = Window(after), UNCHANGED <<file, journal>>,
           NEW log, log = IF Events(a) \in DOMAIN after THEN after[Events(a)] ELSE file[Events(a)],
           NEW owned, owned = IF Inventory(a) \in DOMAIN after THEN after[Inventory(a)]
                              ELSE file[Inventory(a)]
    PROVE  /\ IInv'
           /\ LatestStates' = LatestStates
           /\ LatestInventory' = [LatestInventory EXCEPT ![a] = owned]
           /\ LatestProgress' = [LatestProgress EXCEPT ![a] = ProgressOf(log, file[Receipts(a)])]
  <1>1. DOMAIN after \subseteq Files
    BY FileKinds
  <1>2. DOMAIN after \cap DOMAIN journal = {}
    BY IdleDomain DEF PurchaseRecovered
  <1>3. IInv' /\ \A f \in Files : Latest(f)' = IF f \in DOMAIN after THEN after[f] ELSE Latest(f)
    BY <1>1, <1>2, PublishedIntent
  <1>4. \A f : Latest(f) = file[f]
    BY LatestIsFile
  <1>5. \A c \in Accounts : /\ Events(c) \in Files /\ Receipts(c) \in Files
                            /\ States(c) \in Files /\ Inventory(c) \in Files
    BY FileKinds
  <1>6. ASSUME NEW c \in Accounts
        PROVE  /\ Latest(Events(c))' = IF c = a THEN log ELSE Latest(Events(c))
               /\ Latest(Receipts(c))' = Latest(Receipts(c))
               /\ Latest(States(c))' = Latest(States(c))
               /\ Latest(Inventory(c))' = IF c = a THEN owned ELSE Latest(Inventory(c))
    <2>1. Latest(Events(c))' = IF c = a THEN log ELSE Latest(Events(c))
      BY <1>3, <1>4, <1>5 DEF Events, Inventory
    <2>2. Latest(Receipts(c))' = Latest(Receipts(c))
      BY <1>3, <1>5 DEF Events, Inventory, Receipts
    <2>3. Latest(States(c))' = Latest(States(c))
      BY <1>3, <1>5 DEF Events, Inventory, States
    <2>4. Latest(Inventory(c))' = IF c = a THEN owned ELSE Latest(Inventory(c))
      BY <1>3, <1>4, <1>5 DEF Events, Inventory
    <2> QED
      BY <2>1, <2>2, <2>3, <2>4
  <1>7. LatestStates' = LatestStates
    BY <1>6 DEF LatestStates, States
  <1>8. LatestInventory' = [LatestInventory EXCEPT ![a] = owned]
    BY <1>6 DEF LatestInventory, Inventory
  <1>9. LatestProgress' = [LatestProgress EXCEPT ![a] = ProgressOf(log, file[Receipts(a)])]
    <2>1. LatestProgress' =
            [c \in Accounts |-> ProgressOf(Latest(Events(c))', Latest(Receipts(c))')]
      BY DEF LatestProgress, ProgressOf, Ids
    <2>2. \A c \in Accounts :
            ProgressOf(Latest(Events(c))', Latest(Receipts(c))') =
              IF c = a THEN ProgressOf(log, file[Receipts(a)]) ELSE LatestProgress[c]
      BY <1>4, <1>6 DEF LatestProgress
    <2> QED
      BY <2>1, <2>2 DEF LatestProgress
  <1> QED
    BY <1>3, <1>7, <1>8, <1>9

LEMMA LoginStep ==
    ASSUME IInv, NEW a \in Accounts, Login(a)
    PROVE  IInv' /\ Updates!Login(a)
  <1> DEFINE owned == Awarded(file[Inventory(a)], Unlocked(0))
             after == [f \in {Inventory(a)} |-> owned]
  <1>1. owned \in Contents(Inventory(a))
    BY EarnedTyped, FileTyped, AwardedTyped, FileKinds
  <1>2. IntentRecovered /\ PurchaseRecovered /\ UNCHANGED <<file, journal>>
    BY DEF Login
  <1>3. \A f : Latest(f) = file[f]
    BY <1>2, LatestIsFile
  <1>4. owned = Updates!Awarded(LatestInventory[a], Updates!Unlocked(0))
    BY <1>3, LatestByAccount, SameDocuments
  <1>5. intent' = Window(after)
    <2>1. [f \in {Inventory(a)} |-> Awarded(file[f], Unlocked(0))] = after
      OBVIOUS
    <2> QED
      BY <2>1 DEF Login
  <1>6. /\ DOMAIN after \subseteq {Events(a), Inventory(a)}
        /\ \A f \in DOMAIN after : after[f] \in Contents(f)
        /\ Events(a) \notin DOMAIN after
        /\ Inventory(a) \in DOMAIN after /\ after[Inventory(a)] = owned
    BY <1>1 DEF Events, Inventory
  <1> HIDE DEF owned, after
  <1>7. /\ IInv'
        /\ LatestStates' = LatestStates
        /\ LatestInventory' = [LatestInventory EXCEPT ![a] = owned]
        /\ LatestProgress' =
             [LatestProgress EXCEPT ![a] = ProgressOf(file[Events(a)], file[Receipts(a)])]
    BY <1>2, <1>5, <1>6, PublishedProgression
  <1>8. LatestProgress[a] = ProgressOf(file[Events(a)], file[Receipts(a)])
    BY <1>3, LatestByAccount
  <1>9. LatestProgress' = LatestProgress
    BY <1>7, <1>8 DEF LatestProgress
  <1> QED
    BY <1>4, <1>7, <1>9 DEF Updates!Login

LEMMA RestoreStep ==
    ASSUME IInv, NEW a \in Accounts, NEW local \in LocalXp, NEW choose \in BOOLEAN,
           Restore(a, local, choose)
    PROVE  IInv' /\ Updates!Restore(a, local, choose)
  <1> DEFINE log == RestoredJournal(file[Events(a)], local, choose)
             owned == Awarded(file[Inventory(a)], Unlocked(log.xp))
             files == {Events(a)} \cup {f \in {Inventory(a)} : owned # file[f]}
             after == [f \in files |-> IF f = Events(a) THEN log ELSE owned]
  <1>1. log \in Contents(Events(a)) /\ owned \in Contents(Inventory(a))
    BY RestoredTyped
  <1>2. /\ IntentRecovered /\ PurchaseRecovered /\ UNCHANGED <<file, journal>>
        /\ intent' = Window(after)
    BY DEF Restore
  <1>3. \A f : Latest(f) = file[f]
    BY <1>2, LatestIsFile
  <1>4. /\ DOMAIN after \subseteq {Events(a), Inventory(a)}
        /\ Events(a) \in DOMAIN after /\ after[Events(a)] = log
        /\ Inventory(a) \in DOMAIN after => after[Inventory(a)] = owned
        /\ Inventory(a) \notin DOMAIN after => file[Inventory(a)] = owned
    BY DEF Events, Inventory
  <1>5. \A f \in DOMAIN after : after[f] \in Contents(f)
    BY <1>1, <1>4
  <1> HIDE DEF owned, log, after
  <1>6. /\ IInv'
        /\ LatestStates' = LatestStates
        /\ LatestInventory' = [LatestInventory EXCEPT ![a] = owned]
        /\ LatestProgress' = [LatestProgress EXCEPT ![a] = ProgressOf(log, file[Receipts(a)])]
    <2>1. log = IF Events(a) \in DOMAIN after THEN after[Events(a)] ELSE file[Events(a)]
      BY <1>4
    <2>2. owned = IF Inventory(a) \in DOMAIN after THEN after[Inventory(a)] ELSE file[Inventory(a)]
      BY <1>4
    <2> QED
      BY <1>2, <1>4, <1>5, <2>1, <2>2, PublishedProgression
  <1> DEFINE old == file[Events(a)]
             xp == IF choose THEN local ELSE RestoredXp(old.pending, old.xp, local)
  <1>7. LatestProgress[a] = ProgressOf(old, file[Receipts(a)])
    BY <1>3, LatestByAccount
  <1>8. LatestProgress[a].xp = old.xp /\ LatestProgress[a].pending = old.pending
    BY <1>7 DEF ProgressOf
  <1>9. old \in Journals
    BY FileTyped
  <1>10. log = [old EXCEPT !.known = TRUE, !.xp = xp, !.pending = @ /\ ~choose /\ local < old.xp]
    BY DEF RestoredJournal, log
  <1> HIDE DEF xp
  <1>11. /\ log.known = TRUE /\ log.xp = xp /\ log.requests = old.requests
         /\ log.pending = (old.pending /\ ~choose /\ local < old.xp)
    BY <1>9, <1>10 DEF Journals
  <1>12. ProgressOf(log, file[Receipts(a)]) =
           [known |-> TRUE, xp |-> xp,
            pending |-> LatestProgress[a].pending /\ ~choose /\ local < LatestProgress[a].xp,
            accepted |-> LatestProgress[a].accepted]
    <2> DEFINE pending == LatestProgress[a].pending /\ ~choose /\ local < LatestProgress[a].xp
               known == TRUE
    <2>1. log.pending = pending /\ log.known = known
      BY <1>8, <1>11, Zenon
    <2>2. Ids(log.requests) \cup file[Receipts(a)] = LatestProgress[a].accepted
      BY <1>7, <1>11 DEF ProgressOf
    <2> HIDE DEF pending, known
    <2>3. ProgressOf(log, file[Receipts(a)]) =
            [known |-> known, xp |-> xp, pending |-> pending,
             accepted |-> LatestProgress[a].accepted]
      BY <1>11, <2>1, <2>2 DEF ProgressOf
    <2> QED
      BY <2>3 DEF pending, known
  <1>13. xp = IF choose THEN local
              ELSE Updates!RestoredXp(LatestProgress[a].pending, LatestProgress[a].xp, local)
    BY <1>8, SameDocuments DEF xp
  <1>14. owned = Updates!Awarded(LatestInventory[a], Updates!Unlocked(xp))
    BY <1>3, <1>11, LatestByAccount, SameDocuments DEF owned
  <1> QED
    BY <1>6, <1>12, <1>13, <1>14 DEF Updates!Restore

\* What a purchase leaves an account, as the abstract specification has it.
LEMMA PaidLatest ==
    ASSUME IInv, IntentRecovered, PurchaseRecovered,
           NEW buyer, NEW t, NEW to, NEW a \in Accounts
    PROVE  Paid(Inventory(a), buyer, t, to) =
             LET paid == IF a = buyer THEN Updates!Debited(LatestInventory[a], t, to)
                         ELSE LatestInventory[a]
             IN IF a \in to THEN Updates!Gifted(paid) ELSE paid
  <1>1. file[Inventory(a)] = LatestInventory[a]
    BY LatestIsFile, LatestByAccount
  <1>2. (Inventory(a) = Inventory(buyer) <=> a = buyer) /\ Inventory(a)[2] = a
    BY DEF Inventory
  <1>3. Paid(Inventory(a), buyer, t, to) =
          LET paid == IF a = buyer THEN Debited(file[Inventory(a)], t, to)
                      ELSE file[Inventory(a)]
          IN IF a \in to THEN Gifted(paid) ELSE paid
    BY <1>2 DEF Paid
  <1> QED
    BY <1>1, <1>3, SameDocuments

\* What is read when only inventories have changed.
LEMMA InventoriesPublished ==
    ASSUME NEW changed \in SUBSET Accounts, NEW document,
           \A f \in Files : Latest(f)' = IF f \in {"inventory"} \X changed THEN document[f[2]]
                                         ELSE Latest(f)
    PROVE  /\ UNCHANGED <<LatestProgress, LatestStates>>
           /\ LatestInventory' = [a \in Accounts |-> IF a \in changed THEN document[a]
                                                     ELSE LatestInventory[a]]
  <1>1. ASSUME NEW c \in Accounts
        PROVE  /\ Latest(Events(c))' = Latest(Events(c))
               /\ Latest(Receipts(c))' = Latest(Receipts(c))
               /\ Latest(States(c))' = Latest(States(c))
               /\ Latest(Inventory(c))' = IF c \in changed THEN document[c] ELSE Latest(Inventory(c))
    BY FileKinds DEF Events, Receipts, States, Inventory
  <1>2. LatestProgress' = LatestProgress
    BY <1>1 DEF LatestProgress, ProgressOf, Ids, Events, Receipts
  <1>3. LatestStates' = LatestStates
    BY <1>1 DEF LatestStates, States
  <1>4. LatestInventory' = [a \in Accounts |-> IF a \in changed THEN document[a]
                                              ELSE LatestInventory[a]]
    BY <1>1 DEF LatestInventory, Inventory
  <1> QED
    BY <1>2, <1>3, <1>4

LEMMA PurchaseGuards ==
    ASSUME IInv, NEW buyer \in Accounts, NEW t, NEW to, CanBuy(buyer, t, to)
    PROVE  /\ IntentRecovered /\ PurchaseRecovered
           /\ ~Updates!Bought(LatestInventory[buyer], t)
           /\ LatestInventory[buyer].coins >= Updates!Cardinality(to)
  BY LatestIsFile, LatestByAccount, SameDocuments DEF CanBuy

LEMMA PurchaseOwnStep ==
    ASSUME IInv, NEW buyer \in Accounts, NEW t \in Transactions, PurchaseOwn(buyer, t)
    PROVE  IInv' /\ Updates!Purchase(buyer, t, {buyer})
  <1> DEFINE document == [a \in Accounts |-> Paid(Inventory(a), buyer, t, {buyer})]
  <1>1. CanBuy(buyer, t, {buyer})
    BY DEF PurchaseOwn
  <1>2. document[buyer] \in Contents(Inventory(buyer))
    BY <1>1, PaidTyped
  <1>3. /\ file' = [file EXCEPT ![Inventory(buyer)] = document[buyer]]
        /\ UNCHANGED <<intent, journal>>
    BY DEF PurchaseOwn
  <1>4. \A a \in Accounts : document[a] = Paid(Inventory(a), buyer, t, {buyer})
    OBVIOUS
  <1> HIDE DEF document
  <1>5. Inventory(buyer) \in Files
    BY FileKinds
  <1>6. /\ IInv'
        /\ \A g \in Files :
             Latest(g)' = IF g = Inventory(buyer) THEN document[buyer] ELSE Latest(g)
    BY <1>1, <1>2, <1>3, <1>5, PurchaseGuards, PublishedFile
  <1>7. \A g \in Files : Latest(g)' = IF g \in {"inventory"} \X {buyer} THEN document[g[2]]
                                      ELSE Latest(g)
    BY <1>6 DEF Inventory
  <1>8. /\ UNCHANGED <<LatestProgress, LatestStates>>
        /\ LatestInventory' = [a \in Accounts |-> IF a \in {buyer} THEN document[a]
                                                  ELSE LatestInventory[a]]
    <2> DEFINE changed == {buyer}
    <2>1. changed \in SUBSET Accounts
      OBVIOUS
    <2>2. \A g \in Files : Latest(g)' = IF g \in {"inventory"} \X changed THEN document[g[2]]
                                        ELSE Latest(g)
      BY <1>7
    <2> HIDE DEF changed
    <2>3. /\ UNCHANGED <<LatestProgress, LatestStates>>
          /\ LatestInventory' = [c \in Accounts |-> IF c \in changed THEN document[c]
                                                    ELSE LatestInventory[c]]
      BY <2>1, <2>2, InventoriesPublished
    <2> QED
      BY <2>3 DEF changed
  <1>9. \A a \in Accounts :
          (IF a \in {buyer} THEN document[a] ELSE LatestInventory[a]) =
             LET paid == IF a = buyer THEN Updates!Debited(LatestInventory[a], t, {buyer})
                         ELSE LatestInventory[a]
             IN IF a \in {buyer} THEN Updates!Gifted(paid) ELSE paid
    BY <1>1, <1>4, PurchaseGuards, PaidLatest
  <1>10. LatestInventory' = [a \in Accounts |->
             LET paid == IF a = buyer THEN Updates!Debited(LatestInventory[a], t, {buyer})
                         ELSE LatestInventory[a]
             IN IF a \in {buyer} THEN Updates!Gifted(paid) ELSE paid]
    BY <1>8, <1>9
  <1> QED
    BY <1>1, <1>6, <1>8, <1>10, PurchaseGuards DEF Updates!Purchase

LEMMA PurchaseGiftStep ==
    ASSUME IInv, NEW buyer \in Accounts, NEW t \in Transactions, NEW to \in SUBSET Accounts,
           PurchaseGift(buyer, t, to)
    PROVE  IInv' /\ Updates!Purchase(buyer, t, to)
  <1> DEFINE document == [a \in Accounts |-> Paid(Inventory(a), buyer, t, to)]
             owners == to \cup {buyer}
             after == [f \in {"inventory"} \X owners |-> Paid(f, buyer, t, to)]
  <1>0. owners \in SUBSET Accounts /\ (\A a : a \in owners <=> a \in to \/ a = buyer)
    OBVIOUS
  <1>1. CanBuy(buyer, t, to)
    BY DEF PurchaseGift
  <1>2. \A a \in Accounts : /\ document[a] = Paid(Inventory(a), buyer, t, to)
                            /\ document[a] \in Contents(Inventory(a))
    BY <1>1, PaidTyped
  <1>3. journal' = Window(after) /\ UNCHANGED <<file, intent>>
    BY DEF PurchaseGift
  <1>4. /\ DOMAIN after = {"inventory"} \X owners
        /\ \A f \in DOMAIN after : /\ f[2] \in owners /\ f = Inventory(f[2])
                                   /\ after[f] = Paid(f, buyer, t, to)
    BY DEF Inventory
  <1> HIDE DEF document, after, owners
  <1>5. \A f \in DOMAIN after : after[f] = document[f[2]] /\ after[f] \in Contents(f)
    <2>1. ASSUME NEW f \in DOMAIN after
          PROVE  after[f] = document[f[2]] /\ after[f] \in Contents(f)
      <3>1. f[2] \in Accounts /\ f = Inventory(f[2]) /\ after[f] = Paid(f, buyer, t, to)
        BY <1>0, <1>4
      <3> QED
        BY <1>2, <3>1
    <2> QED
      BY <2>1
  <1>6. /\ IInv'
        /\ \A f \in Files : Latest(f)' = IF f \in DOMAIN after THEN after[f] ELSE Latest(f)
    BY <1>1, <1>3, <1>4, <1>5, <1>0, PurchaseGuards, PublishedJournal
  <1>7. \A f \in Files : Latest(f)' = IF f \in {"inventory"} \X owners THEN document[f[2]]
                                      ELSE Latest(f)
    BY <1>4, <1>5, <1>6
  <1>8. /\ UNCHANGED <<LatestProgress, LatestStates>>
        /\ LatestInventory' = [a \in Accounts |-> IF a \in owners THEN document[a]
                                                  ELSE LatestInventory[a]]
    BY <1>7, <1>0, InventoriesPublished
  <1>9. \A a \in Accounts :
          (IF a \in owners THEN document[a] ELSE LatestInventory[a]) =
             LET paid == IF a = buyer THEN Updates!Debited(LatestInventory[a], t, to)
                         ELSE LatestInventory[a]
             IN IF a \in to THEN Updates!Gifted(paid) ELSE paid
    BY <1>1, <1>2, <1>0, PurchaseGuards, PaidLatest
  <1>10. LatestInventory' = [a \in Accounts |->
             LET paid == IF a = buyer THEN Updates!Debited(LatestInventory[a], t, to)
                         ELSE LatestInventory[a]
             IN IF a \in to THEN Updates!Gifted(paid) ELSE paid]
    BY <1>8, <1>9
  <1> QED
    BY <1>1, <1>6, <1>8, <1>10, PurchaseGuards DEF Updates!Purchase

LEMMA RedeemStep ==
    ASSUME IInv, NEW a \in Accounts, NEW k \in Codes, Redeem(a, k)
    PROVE  IInv' /\ Updates!Redeem(a, k)
  <1> DEFINE owned == Redeemed(file[Inventory(a)], k)
  <1>1. file[Inventory(a)] \in Inventories
    BY FileTyped
  <1>2. owned \in Contents(Inventory(a))
    <2> DEFINE old == file[Inventory(a)]
               coins == old.coins + 1
    <2>1. coins \in Nat
      BY <1>1 DEF Inventories
    <2> HIDE DEF coins
    <2>2. owned = [old EXCEPT !.coins = coins, !.redeemed = @ \cup {k}]
      BY DEF Redeemed, coins
    <2>3. owned \in Inventories
      BY <1>1, <2>1, <2>2 DEF Inventories
    <2> QED
      BY <2>3, FileKinds
  <1>3. IntentRecovered /\ PurchaseRecovered /\ UNCHANGED <<intent, journal>>
    BY DEF Redeem
  <1>4. file[Inventory(a)] = LatestInventory[a]
    BY <1>3, LatestIsFile, LatestByAccount
  <1>5. k \notin LatestInventory[a].redeemed /\ owned = Updates!Redeemed(LatestInventory[a], k)
    BY <1>4, SameDocuments DEF Redeem
  <1>6. file' = [file EXCEPT ![Inventory(a)] = owned]
    BY DEF Redeem
  <1> HIDE DEF owned
  <1>7. Inventory(a) \in Files
    BY FileKinds
  <1>8. /\ IInv'
        /\ \A g \in Files : Latest(g)' = IF g = Inventory(a) THEN owned ELSE Latest(g)
    BY <1>2, <1>3, <1>6, <1>7, PublishedFile
  <1>9. \A g \in Files : Latest(g)' = IF g \in {"inventory"} \X {a}
                                      THEN [c \in {a} |-> owned][g[2]] ELSE Latest(g)
    BY <1>8 DEF Inventory
  <1>10. /\ UNCHANGED <<LatestProgress, LatestStates>>
         /\ LatestInventory' = [c \in Accounts |-> IF c \in {a} THEN [d \in {a} |-> owned][c]
                                                   ELSE LatestInventory[c]]
    <2> DEFINE changed == {a}
               document == [c \in {a} |-> owned]
    <2>1. changed \in SUBSET Accounts
      OBVIOUS
    <2>2. \A g \in Files : Latest(g)' = IF g \in {"inventory"} \X changed THEN document[g[2]]
                                        ELSE Latest(g)
      BY <1>9
    <2> HIDE DEF changed, document
    <2>3. /\ UNCHANGED <<LatestProgress, LatestStates>>
          /\ LatestInventory' = [c \in Accounts |-> IF c \in changed THEN document[c]
                                                    ELSE LatestInventory[c]]
      BY <2>1, <2>2, InventoriesPublished
    <2> QED
      BY <2>3 DEF changed, document
  <1>11. LatestInventory' = [LatestInventory EXCEPT ![a] = owned]
    BY <1>10 DEF LatestInventory
  <1> QED
    BY <1>5, <1>8, <1>10, <1>11 DEF Updates!Redeem

\* What is read of every account once a batch is staged.
LEMMA BatchPublished ==
    ASSUME IInv, NEW b \in Batches, NEW owners \in SUBSET Accounts, NEW finishers \in SUBSET owners,
           RecordEvents(b, owners, finishers)
    PROVE  /\ IInv'
           /\ finishers \subseteq NewOwners(b, owners)
           /\ \A a \in Accounts :
                /\ Latest(Events(a))' = IF a \in NewOwners(b, owners)
                                       THEN Recorded(Events(a), b, finishers) ELSE Latest(Events(a))
                /\ Latest(Receipts(a))' = IF a \in NewOwners(b, owners)
                                         THEN Recorded(Receipts(a), b, finishers)
                                         ELSE Latest(Receipts(a))
                /\ Latest(States(a))' = IF a \in finishers
                                       THEN Recorded(States(a), b, finishers) ELSE Latest(States(a))
                /\ Latest(Inventory(a))' = IF a \in NewOwners(b, owners)
                                          THEN Recorded(Inventory(a), b, finishers)
                                          ELSE Latest(Inventory(a))
  <1> DEFINE new == NewOwners(b, owners)
             staged == Staged(b, owners, finishers)
             document(f) == Recorded(f, b, finishers)
             after == [f \in staged |-> document(f)]
  <1>1. new \subseteq Accounts /\ finishers \subseteq new
    BY DEF NewOwners, RecordEvents
  <1>2. /\ IntentRecovered /\ PurchaseRecovered /\ UNCHANGED <<file, journal>>
        /\ intent' = Window(after)
    BY DEF RecordEvents
  <1>3. \A f : f \in staged <=> f \in Kinds \X new /\ Replaced(f, b, finishers)
    BY DEF Staged
  <1>4. \A a \in new : NewXp(a, b, finishers) <= MaxXp
    BY DEF RecordEvents
  <1>5. DOMAIN after = staged /\ \A f \in staged : after[f] = document(f)
    OBVIOUS
  <1>6. \A f : Latest(f) = file[f]
    BY <1>2, LatestIsFile
  <1> HIDE DEF after, staged, new
  <1>7. staged \subseteq Files
    BY <1>1, <1>3 DEF Files
  <1>8. ASSUME NEW f \in staged PROVE document(f) \in Contents(f)
    <2>1. f \in Files /\ f[2] \in new /\ f[2] \in Accounts
      BY <1>1, <1>3, <1>7
    <2>2. /\ document(Events(f[2])) \in Contents(Events(f[2]))
          /\ document(Receipts(f[2])) \in Contents(Receipts(f[2]))
          /\ document(States(f[2])) \in Contents(States(f[2]))
          /\ document(Inventory(f[2])) \in Contents(Inventory(f[2]))
      BY <1>4, <2>1, RecordedTyped
    <2>3. f \in {Events(f[2]), Receipts(f[2]), States(f[2]), Inventory(f[2])}
      <3>1. f[1] = "events" \/ f[1] = "receipts" \/ f[1] = "states" \/ f[1] = "inventory"
        BY <2>1 DEF Files, Kinds
      <3>2. /\ f[1] = "events" => f = Events(f[2])
            /\ f[1] = "receipts" => f = Receipts(f[2])
            /\ f[1] = "states" => f = States(f[2])
            /\ f[1] = "inventory" => f = Inventory(f[2])
        BY <2>1 DEF Files, Events, Receipts, States, Inventory
      <3> QED
        BY <3>1, <3>2
    <2> QED
      BY <2>2, <2>3
  <1>9. DOMAIN after \cap DOMAIN journal = {}
    BY <1>2, IdleDomain DEF PurchaseRecovered
  <1>10. IInv' /\ \A f \in Files : Latest(f)' = IF f \in staged THEN document(f) ELSE Latest(f)
    <2>1. \A f \in DOMAIN after : after[f] \in Contents(f)
      BY <1>5, <1>8
    <2>2. DOMAIN after \subseteq Files
      BY <1>5, <1>7
    <2>3. IInv' /\ \A f \in Files : Latest(f)' = IF f \in DOMAIN after THEN after[f] ELSE Latest(f)
      BY <1>2, <1>9, <2>1, <2>2, PublishedIntent
    <2> QED
      BY <1>5, <2>3
  <1>11. ASSUME NEW a \in Accounts
         PROVE  /\ Latest(Events(a))' = IF a \in new THEN document(Events(a)) ELSE Latest(Events(a))
                /\ Latest(Receipts(a))' = IF a \in new THEN document(Receipts(a))
                                         ELSE Latest(Receipts(a))
                /\ Latest(States(a))' = IF a \in finishers THEN document(States(a))
                                       ELSE Latest(States(a))
                /\ Latest(Inventory(a))' = IF a \in new THEN document(Inventory(a))
                                          ELSE Latest(Inventory(a))
    <2>1. /\ Events(a) \in Files /\ Receipts(a) \in Files
          /\ States(a) \in Files /\ Inventory(a) \in Files
      BY FileKinds
    <2>2. /\ Events(a) \in staged <=> a \in new
          /\ Receipts(a) \in staged <=> a \in new /\ document(Receipts(a)) # file[Receipts(a)]
          /\ States(a) \in staged <=> a \in finishers /\ document(States(a)) # file[States(a)]
          /\ Inventory(a) \in staged <=> a \in new /\ document(Inventory(a)) # file[Inventory(a)]
      <3>1. /\ Replaced(Events(a), b, finishers)
            /\ Replaced(Receipts(a), b, finishers) <=> document(Receipts(a)) # file[Receipts(a)]
            /\ Replaced(States(a), b, finishers) <=>
                 a \in finishers /\ document(States(a)) # file[States(a)]
            /\ Replaced(Inventory(a), b, finishers) <=> document(Inventory(a)) # file[Inventory(a)]
        <4> HIDE DEF document
        <4>1. Replaced(Events(a), b, finishers)
          BY DEF Replaced, Events
        <4>2. Replaced(Receipts(a), b, finishers) <=> document(Receipts(a)) # file[Receipts(a)]
          BY DEF Replaced, Receipts, document
        <4>3. Replaced(States(a), b, finishers) <=>
                a \in finishers /\ document(States(a)) # file[States(a)]
          BY DEF Replaced, States, document
        <4>4. Replaced(Inventory(a), b, finishers) <=> document(Inventory(a)) # file[Inventory(a)]
          BY DEF Replaced, Inventory, document
        <4> QED
          BY <4>1, <4>2, <4>3, <4>4
      <3>2. \A k \in Kinds : <<k, a>> \in Kinds \X new <=> a \in new
        OBVIOUS
      <3> HIDE DEF document
      <3> QED
        BY <1>1, <1>3, <3>1, <3>2 DEF Kinds, Events, Receipts, States, Inventory
    <2> HIDE DEF document
    <2>3. Latest(Events(a))' = IF a \in new THEN document(Events(a)) ELSE Latest(Events(a))
      BY <1>10, <2>1, <2>2
    <2>4. Latest(Receipts(a))' = IF a \in new THEN document(Receipts(a)) ELSE Latest(Receipts(a))
      BY <1>6, <1>10, <2>1, <2>2
    <2>5. Latest(States(a))' = IF a \in finishers THEN document(States(a)) ELSE Latest(States(a))
      BY <1>6, <1>10, <2>1, <2>2
    <2>6. Latest(Inventory(a))' = IF a \in new THEN document(Inventory(a)) ELSE Latest(Inventory(a))
      BY <1>6, <1>10, <2>1, <2>2
    <2> QED
      BY <2>3, <2>4, <2>5, <2>6
  <1> QED
    BY <1>1, <1>10, <1>11 DEF new

LEMMA RecordStep ==
    ASSUME IInv, NEW b \in Batches, NEW owners \in SUBSET Accounts, NEW finishers \in SUBSET owners,
           RecordEvents(b, owners, finishers)
    PROVE  IInv' /\ Updates!Record(b, owners, finishers)
  <1> DEFINE new == NewOwners(b, owners)
             done(a) == Finished(a, finishers)
             xp(a) == NewXp(a, b, finishers)
  <1>1. /\ IInv' /\ finishers \subseteq new
        /\ \A a \in Accounts :
             /\ Latest(Events(a))' = IF a \in new THEN Recorded(Events(a), b, finishers)
                                    ELSE Latest(Events(a))
             /\ Latest(Receipts(a))' = IF a \in new THEN Recorded(Receipts(a), b, finishers)
                                      ELSE Latest(Receipts(a))
             /\ Latest(States(a))' = IF a \in finishers THEN Recorded(States(a), b, finishers)
                                    ELSE Latest(States(a))
             /\ Latest(Inventory(a))' = IF a \in new THEN Recorded(Inventory(a), b, finishers)
                                       ELSE Latest(Inventory(a))
    BY BatchPublished
  <1>2. IntentRecovered /\ PurchaseRecovered
    BY DEF RecordEvents
  <1>3. ASSUME NEW a \in Accounts
        PROVE  /\ LatestProgress[a] = ProgressOf(file[Events(a)], file[Receipts(a)])
               /\ LatestStates[a] = file[States(a)]
               /\ LatestInventory[a] = file[Inventory(a)]
    BY <1>2, LatestIsFile, LatestByAccount
  <1>4. ASSUME NEW a \in Accounts
        PROVE  /\ LatestProgress[a].accepted = Accepted(a)
               /\ LatestProgress[a].xp = file[Events(a)].xp
               /\ LatestProgress[a].pending = file[Events(a)].pending
    <2>1. LatestProgress[a] = ProgressOf(file[Events(a)], file[Receipts(a)])
      BY <1>3
    <2>2. /\ LatestProgress[a].xp = file[Events(a)].xp
          /\ LatestProgress[a].pending = file[Events(a)].pending
      BY <2>1 DEF ProgressOf
    <2>3. LatestProgress[a].accepted = Accepted(a)
      BY <2>1 DEF ProgressOf, Accepted
    <2> QED
      BY <2>2, <2>3
  <1>5. new = {a \in owners : b \notin LatestProgress[a].accepted}
    BY <1>4 DEF NewOwners
  <1>6. ASSUME NEW a \in Accounts
        PROVE  done(a) = IF a \in finishers THEN Updates!Active(LatestStates[a]) ELSE {}
    BY <1>3, SameDocuments DEF Finished
  <1>7. ASSUME NEW a \in Accounts
        PROVE  xp(a) = LatestProgress[a].xp + Gain[b] + Updates!BonusXp(done(a))
    BY <1>4, SameDocuments DEF NewXp
  <1> HIDE DEF new, xp, done
  <1>8. finishers \subseteq {a \in new : Updates!Active(LatestStates[a]) # {}}
    <2>1. finishers \subseteq {a \in NewOwners(b, owners) : Active(file[States(a)]) # {}}
      BY DEF RecordEvents
    <2> QED
      BY <1>3, <2>1, SameDocuments DEF new
  <1>9. LatestStates' =
          [a \in Accounts |-> IF a \in finishers THEN Updates!Advanced(LatestStates[a])
                             ELSE LatestStates[a]]
    <2>1. \A a \in Accounts : Recorded(States(a), b, finishers) = Updates!Advanced(LatestStates[a])
      BY <1>3, SameDocuments DEF Recorded, States
    <2>2. LatestStates' = [a \in Accounts |-> Latest(States(a))']
      BY DEF LatestStates, States
    <2>3. \A a \in Accounts : LatestStates[a] = Latest(States(a))
      BY LatestByAccount
    <2> QED
      BY <1>1, <2>1, <2>2, <2>3
  <1>10. LatestInventory' =
           [a \in Accounts |->
             IF a \in new
             THEN Updates!Awarded(LatestInventory[a],
                                  Updates!Unlocked(xp(a)) \cup Updates!Rewards(done(a)))
             ELSE LatestInventory[a]]
    <2>1. \A a \in Accounts :
            Recorded(Inventory(a), b, finishers) =
              Updates!Awarded(LatestInventory[a],
                              Updates!Unlocked(xp(a)) \cup Updates!Rewards(done(a)))
      BY <1>3, SameDocuments DEF Recorded, Inventory, xp, done
    <2>2. LatestInventory' = [a \in Accounts |-> Latest(Inventory(a))']
      BY DEF LatestInventory, Inventory
    <2>3. \A a \in Accounts : LatestInventory[a] = Latest(Inventory(a))
      BY LatestByAccount
    <2> QED
      BY <1>1, <2>1, <2>2, <2>3
  <1>11. LatestProgress' =
           [a \in Accounts |->
             IF a \in new
             THEN [known |-> TRUE, xp |-> xp(a),
                   pending |-> LatestProgress[a].pending \/ xp(a) # LatestProgress[a].xp,
                   accepted |-> LatestProgress[a].accepted \cup {b}]
             ELSE LatestProgress[a]]
    <2>1. ASSUME NEW a \in Accounts
          PROVE  ProgressOf(Recorded(Events(a), b, finishers), Recorded(Receipts(a), b, finishers)) =
                   [known |-> TRUE, xp |-> xp(a),
                    pending |-> LatestProgress[a].pending \/ xp(a) # LatestProgress[a].xp,
                    accepted |-> LatestProgress[a].accepted \cup {b}]
      <3> DEFINE old == file[Events(a)]
                 requests == Append(old.requests, b)
      <3>1. Recorded(Events(a), b, finishers) =
              [known |-> TRUE, xp |-> xp(a), pending |-> old.pending \/ xp(a) # old.xp,
               requests |-> Kept(requests)]
        BY DEF Recorded, RecordedJournal, Events, xp
      <3>2. Recorded(Receipts(a), b, finishers) = file[Receipts(a)] \cup Dropped(requests)
        BY DEF Recorded, Receipts
      <3>3. Ids(Kept(requests)) \cup Dropped(requests) = Ids(old.requests) \cup {b}
        BY FileTyped, KeptTyped DEF Journals
      <3> HIDE DEF requests
      <3>4. Ids(Kept(requests)) \cup (file[Receipts(a)] \cup Dropped(requests)) =
              LatestProgress[a].accepted \cup {b}
        BY <1>4, <3>3 DEF Accepted
      <3>5. ProgressOf(Recorded(Events(a), b, finishers), Recorded(Receipts(a), b, finishers)) =
              [known |-> TRUE, xp |-> xp(a), pending |-> old.pending \/ xp(a) # old.xp,
               accepted |-> Ids(Kept(requests)) \cup (file[Receipts(a)] \cup Dropped(requests))]
        BY <3>1, <3>2 DEF ProgressOf
      <3> QED
        BY <1>4, <3>4, <3>5
    <2>2. LatestProgress' = [a \in Accounts |-> ProgressOf(Latest(Events(a))', Latest(Receipts(a))')]
      BY DEF LatestProgress, ProgressOf, Ids, Events, Receipts
    <2>3. \A a \in Accounts : LatestProgress[a] = ProgressOf(Latest(Events(a)), Latest(Receipts(a)))
      BY LatestByAccount
    <2>4. \A a \in Accounts :
            ProgressOf(Latest(Events(a))', Latest(Receipts(a))') =
              IF a \in new
              THEN [known |-> TRUE, xp |-> xp(a),
                    pending |-> LatestProgress[a].pending \/ xp(a) # LatestProgress[a].xp,
                    accepted |-> LatestProgress[a].accepted \cup {b}]
              ELSE LatestProgress[a]
      BY <1>1, <2>1, <2>3
    <2> QED
      BY <2>2, <2>4
  <1> QED
    BY <1>1, <1>5, <1>6, <1>7, <1>8, <1>9, <1>10, <1>11 DEF Updates!Record

-----------------------------------------------------------------------------
(* The invariant and the refinement *)

LEMMA InitDocuments ==
    ASSUME NEW a \in Accounts
    PROVE  /\ NewJournal \in Contents(Events(a)) /\ {} \in Contents(Receipts(a))
           /\ NewMissions \in Contents(States(a)) /\ NewInventory \in Contents(Inventory(a))
  <1>1. NewJournal \in Journals /\ Len(NewJournal.requests) <= Keep
    BY DocumentAssumption DEF NewJournal, Journals
  <1>2. NewMissions \in MissionStates
    BY DEF NewMissions, MissionStates, Statuses
  <1>3. NewInventory \in Inventories
    BY DocumentAssumption DEF NewInventory, Inventories
  <1> QED
    BY <1>1, <1>2, <1>3, FileKinds

LEMMA InitStep ==
    ASSUME Init
    PROVE  IInv /\ Updates!Init
  <1>1. DOMAIN file = Files /\ intent = Idle /\ journal = Idle
    BY DEF Init
  <1>2. ASSUME NEW a \in Accounts
        PROVE  /\ file[Events(a)] = NewJournal /\ file[Receipts(a)] = {}
               /\ file[States(a)] = NewMissions /\ file[Inventory(a)] = NewInventory
    <2>1. /\ Events(a) \in Files /\ Receipts(a) \in Files
          /\ States(a) \in Files /\ Inventory(a) \in Files
      BY FileKinds
    <2> QED
      BY <2>1 DEF Init, Events, Receipts, States, Inventory
  <1>3. ASSUME NEW f \in Files PROVE file[f] \in Contents(f)
    <2>1. PICK a \in Accounts : f \in {Events(a), Receipts(a), States(a), Inventory(a)}
      BY DEF Files, Kinds, Events, Receipts, States, Inventory
    <2> QED
      BY <2>1, <1>2, InitDocuments
  <1>4. IInv
    BY <1>1, <1>3, IdleDomain DEF IInv, TypeOK, WindowTyped, Resumable, Resumes, Apart
  <1>5. \A f : Latest(f) = file[f]
    BY <1>1, <1>4, LatestIsFile DEF IntentRecovered, PurchaseRecovered
  <1>6. LatestStates = [a \in Accounts |-> Updates!NewMissions]
    BY <1>2, <1>5 DEF LatestStates, NewMissions, Updates!NewMissions
  <1>7. LatestInventory = [a \in Accounts |-> Updates!NewInventory]
    BY <1>2, <1>5 DEF LatestInventory, NewInventory, Updates!NewInventory
  <1>8. LatestProgress =
          [a \in Accounts |-> [known |-> FALSE, xp |-> 0, pending |-> FALSE, accepted |-> {}]]
    <2>1. ProgressOf(NewJournal, {}) =
            [known |-> FALSE, xp |-> 0, pending |-> FALSE, accepted |-> {}]
      <3>1. Ids(<<>>) = {}
        BY DEF Ids
      <3> QED
        BY <3>1 DEF ProgressOf, NewJournal
    <2>2. \A a \in Accounts : ProgressOf(Latest(Events(a)), Latest(Receipts(a))) = ProgressOf(NewJournal, {})
      BY <1>2, <1>5
    <2> QED
      BY <2>1, <2>2 DEF LatestProgress
  <1> QED
    BY <1>4, <1>6, <1>7, <1>8 DEF Updates!Init

LEMMA NextStep ==
    ASSUME IInv, Next
    PROVE  IInv' /\ [Updates!Next]_Updates!vars
  <1>1. CASE Recovery
    BY <1>1, RecoveryStep
  <1>2. CASE Progression
    <2>1. ASSUME NEW b \in Batches, NEW owners \in SUBSET Accounts, NEW finishers \in SUBSET owners,
                 RecordEvents(b, owners, finishers)
          PROVE  IInv' /\ Updates!Next
      BY <2>1, RecordStep DEF Updates!Next
    <2>2. ASSUME NEW a \in Accounts, NEW local \in LocalXp, NEW choose \in BOOLEAN,
                 Restore(a, local, choose)
          PROVE  IInv' /\ Updates!Next
      BY <2>2, RestoreStep DEF Updates!Next
    <2>3. ASSUME NEW a \in Accounts, Login(a) PROVE IInv' /\ Updates!Next
      BY <2>3, LoginStep DEF Updates!Next
    <2>4. ASSUME NEW a \in Accounts, NEW m \in Missions, Select(a, m) \/ Deselect(a, m)
          PROVE  IInv' /\ Updates!Next
      BY <2>4, SelectStep, DeselectStep DEF Updates!Next
    <2> QED
      BY <1>2, <2>1, <2>2, <2>3, <2>4 DEF Progression
  <1>3. CASE Marketplace
    <2>1. ASSUME NEW buyer \in Accounts, NEW t \in Transactions, PurchaseOwn(buyer, t)
          PROVE  IInv' /\ Updates!Next
      <3>1. IInv' /\ Updates!Purchase(buyer, t, {buyer})
        BY <2>1, PurchaseOwnStep
      <3>2. {buyer} \in SUBSET Accounts /\ {buyer} # {}
        OBVIOUS
      <3> QED
        BY <3>1, <3>2 DEF Updates!Next
    <2>2. ASSUME NEW buyer \in Accounts, NEW t \in Transactions, NEW to \in SUBSET Accounts,
                 to \ {buyer} # {}, PurchaseGift(buyer, t, to)
          PROVE  IInv' /\ Updates!Next
      <3>1. IInv' /\ Updates!Purchase(buyer, t, to)
        BY <2>2, PurchaseGiftStep
      <3>2. to # {}
        BY <2>2
      <3> QED
        BY <3>1, <3>2 DEF Updates!Next
    <2>3. ASSUME NEW a \in Accounts, NEW k \in Codes, Redeem(a, k) PROVE IInv' /\ Updates!Next
      BY <2>3, RedeemStep DEF Updates!Next
    <2> QED
      BY <1>3, <2>1, <2>2, <2>3 DEF Marketplace
  <1> QED
    BY <1>1, <1>2, <1>3 DEF Next

LEMMA StutterStep ==
    ASSUME IInv, UNCHANGED vars
    PROVE  IInv' /\ UNCHANGED Updates!vars
  <1>1. IInv'
    BY DEF vars, IInv, TypeOK, WindowTyped, Resumable, Resumes, Apart
  <1>2. \A f \in Files : Latest(f)' = Latest(f)
    BY DEF vars, Latest
  <1>3. UNCHANGED <<LatestProgress, LatestStates, LatestInventory>>
    BY <1>2, LatestUnchanged
  <1> QED
    BY <1>1, <1>3 DEF Updates!vars

\* The inductive invariant: whatever publication a request stops at, what is left can be
\* resumed.
THEOREM Inductive == Spec => []IInv
  <1>1. Init => IInv
    BY InitStep
  <1>2. IInv /\ [Next]_vars => IInv'
    BY NextStep, StutterStep
  <1> QED
    BY <1>1, <1>2, PTL DEF Spec

\* Every file and every image in a journal is a document of its kind.
THEOREM TypeSafe == Spec => []TypeOK
  <1>1. IInv => TypeOK
    BY DEF IInv
  <1> QED
    BY <1>1, Inductive, PTL

\* The files a journal names hold its images from before or from after at every step of
\* every request (achievement_store.cpp:168, marketplace_services.cpp:226), so that no
\* recovery refuses its own window.
THEOREM NeverRefused == Spec => []Resumable
  <1>1. IInv => Resumable
    BY DEF IInv
  <1> QED
    BY <1>1, Inductive, PTL

\* Each request changes what is read once, by the publication of its journal or its one
\* file; the recoveries change nothing that is read.
THEOREM Implements == Spec => AtomicUpdates
  <1>1. Init => Updates!Init
    BY InitStep
  <1>2. IInv /\ [Next]_vars => [Updates!Next]_Updates!vars
    BY NextStep, StutterStep
  <1> QED
    BY <1>1, <1>2, Inductive, PTL DEF Spec, AtomicUpdates, Updates!Spec

-----------------------------------------------------------------------------
(* What follows from the abstract updates *)

LEMMA LatestTyped ==
    ASSUME IInv, NEW a \in Accounts
    PROVE  LatestStates[a] \in MissionStates /\ LatestInventory[a] \in Inventories
  <1>1. ASSUME NEW f \in Files PROVE Latest(f) \in Contents(f)
    BY DEF IInv, TypeOK, WindowTyped, Latest
  <1>2. States(a) \in Files /\ Inventory(a) \in Files
    BY FileKinds
  <1> QED
    BY <1>1, <1>2, FileKinds, LatestByAccount

\* What the updates add to the items, and to the completed missions.
LEMMA ItemsKept ==
    ASSUME NEW owned \in Inventories
    PROVE  /\ \A items : Awarded(owned, items).items = owned.items \cup items
           /\ \A t, to : Debited(owned, t, to).items = owned.items
           /\ \A t, to : Gifted(Debited(owned, t, to)).items = owned.items
           /\ Gifted(owned).items = owned.items
           /\ \A k : Redeemed(owned, k).items = owned.items
  BY DEF Inventories, Awarded, Debited, Gifted, Redeemed

LEMMA CompletedKept ==
    ASSUME NEW missions \in MissionStates
    PROVE  /\ Completed(Advanced(missions)) = Completed(missions) \cup Active(missions)
           /\ \A m \in Missions : Completed(Selected(missions, m)) \subseteq Completed(missions)
           /\ \A m \in Missions : Completed(Deselected(missions, m)) \subseteq Completed(missions)
  <1>1. Completed(Advanced(missions)) = Completed(missions) \cup Active(missions)
    BY DEF MissionStates, Completed, Advanced, Active, Successor
  <1>2. ASSUME NEW m \in Missions
        PROVE  /\ Completed(Selected(missions, m)) \subseteq Completed(missions)
               /\ Completed(Deselected(missions, m)) \subseteq Completed(missions)
    BY DEF MissionStates, Completed, Selected, Deselected
  <1> QED
    BY <1>1, <1>2

LEMMA RewardsOf ==
    /\ \A S, T : Rewards(S \cup T) = Rewards(S) \cup Rewards(T)
    /\ \A S, T : S \subseteq T => Rewards(S) \subseteq Rewards(T)
  BY DEF Rewards

\* An account's awards after one update.
AwardedTo(a) ==
    /\ LatestProgress[a].known => Unlocked(LatestProgress[a].xp) \subseteq LatestInventory[a].items
    /\ Rewards(Completed(LatestStates[a])) \subseteq LatestInventory[a].items

LEMMA AwardsStep ==
    ASSUME IInv, AwardsFollow, [Updates!Next]_Updates!vars
    PROVE  AwardsFollow'
  <1> SUFFICES ASSUME NEW a \in Accounts PROVE AwardedTo(a)'
    BY DEF AwardsFollow, AwardedTo, Unlocked, Rewards, Completed
  <1>0. AwardedTo(a)
    BY DEF AwardsFollow, AwardedTo
  <1>1. LatestStates[a] \in MissionStates /\ LatestInventory[a] \in Inventories
    BY LatestTyped
  <1>2. ASSUME NEW b \in Batches, NEW owners \in SUBSET Accounts, NEW finishers \in SUBSET owners,
               Updates!Record(b, owners, finishers)
        PROVE  AwardedTo(a)'
    <2> DEFINE done == IF a \in finishers THEN Active(LatestStates[a]) ELSE {}
               xp == LatestProgress[a].xp + Gain[b] + BonusXp(done)
               new == b \notin LatestProgress[a].accepted /\ a \in owners
    <2>1. a \in finishers => new
      BY <1>2 DEF Updates!Record
    <2>2. /\ new => LatestProgress'[a].xp = xp
          /\ ~new => LatestProgress'[a] = LatestProgress[a]
      BY <1>2, SameDocuments DEF Updates!Record
    <2>3. LatestStates'[a] = IF a \in finishers THEN Advanced(LatestStates[a]) ELSE LatestStates[a]
      BY <1>2, SameDocuments DEF Updates!Record
    <2>4. LatestInventory'[a] = IF new THEN Awarded(LatestInventory[a], Unlocked(xp) \cup Rewards(done))
                               ELSE LatestInventory[a]
      BY <1>2, SameDocuments DEF Updates!Record
    <2> HIDE DEF new, xp
    <2>5. CASE new
      <3>1. LatestInventory'[a].items = LatestInventory[a].items \cup (Unlocked(xp) \cup Rewards(done))
        BY <1>1, <2>4, <2>5, ItemsKept
      <3>2. Completed(LatestStates'[a]) = Completed(LatestStates[a]) \cup done
        BY <1>1, <2>3, CompletedKept
      <3>3. Rewards(Completed(LatestStates'[a])) = Rewards(Completed(LatestStates[a])) \cup Rewards(done)
        BY <3>2, RewardsOf
      <3> QED
        BY <1>0, <2>2, <2>5, <3>1, <3>3 DEF AwardedTo, Unlocked, Rewards, Completed
    <2>6. CASE ~new
      BY <1>0, <2>1, <2>2, <2>3, <2>4, <2>6 DEF AwardedTo, Unlocked, Rewards, Completed
    <2> QED
      BY <2>5, <2>6
  <1>3. ASSUME NEW c \in Accounts, NEW local \in LocalXp, NEW choose \in BOOLEAN,
               Updates!Restore(c, local, choose)
        PROVE  AwardedTo(a)'
    <2>1. PICK xp : /\ LatestProgress' = [LatestProgress EXCEPT ![c] =
                          [known |-> TRUE, xp |-> xp,
                           pending |-> @.pending /\ ~choose /\ local < @.xp, accepted |-> @.accepted]]
                    /\ LatestInventory' = [LatestInventory EXCEPT ![c] = Awarded(@, Unlocked(xp))]
                    /\ LatestStates' = LatestStates
      BY <1>3, SameDocuments DEF Updates!Restore
    <2>2. CASE c = a
      <3>1. LatestProgress'[a].xp = xp
        BY <2>1, <2>2 DEF LatestProgress
      <3>2. LatestInventory'[a].items = LatestInventory[a].items \cup Unlocked(xp)
        BY <1>1, <2>1, <2>2, ItemsKept DEF LatestInventory
      <3> QED
        BY <1>0, <2>1, <3>1, <3>2 DEF AwardedTo, Unlocked, Rewards, Completed
    <2>3. CASE c # a
      <3>1. LatestProgress'[a] = LatestProgress[a] /\ LatestInventory'[a] = LatestInventory[a]
        BY <2>1, <2>3 DEF LatestProgress, LatestInventory
      <3> QED
        BY <1>0, <2>1, <3>1 DEF AwardedTo, Unlocked, Rewards, Completed
    <2> QED
      BY <2>2, <2>3
  <1>4. ASSUME LatestInventory[a].items \subseteq LatestInventory'[a].items,
               UNCHANGED LatestProgress,
               Completed(LatestStates'[a]) \subseteq Completed(LatestStates[a])
        PROVE  AwardedTo(a)'
    <2>1. Rewards(Completed(LatestStates'[a])) \subseteq Rewards(Completed(LatestStates[a]))
      BY <1>4, RewardsOf
    <2> QED
      BY <1>0, <1>4, <2>1 DEF AwardedTo, Unlocked, Rewards, Completed
  <1>5. ASSUME NEW c \in Accounts, Updates!Login(c) PROVE AwardedTo(a)'
    <2>1. LatestInventory' = [LatestInventory EXCEPT ![c] = Awarded(@, Unlocked(0))]
      BY <1>5, SameDocuments DEF Updates!Login
    <2>2. LatestInventory[a].items \subseteq LatestInventory'[a].items
      <3>1. LatestInventory'[a] = IF c = a THEN Awarded(LatestInventory[a], Unlocked(0)) ELSE LatestInventory[a]
        BY <2>1 DEF LatestInventory
      <3> QED
        BY <1>1, <3>1, ItemsKept
    <2> QED
      BY <1>4, <1>5, <2>2 DEF Updates!Login
  <1>6. ASSUME NEW c \in Accounts, NEW m \in Missions, Updates!Select(c, m) \/ Updates!Deselect(c, m)
        PROVE  AwardedTo(a)'
    <2>1. \/ LatestStates' = [LatestStates EXCEPT ![c] = Selected(@, m)]
          \/ LatestStates' = [LatestStates EXCEPT ![c] = Deselected(@, m)]
      BY <1>6, SameDocuments DEF Updates!Select, Updates!Deselect
    <2>2. Completed(LatestStates'[a]) \subseteq Completed(LatestStates[a])
      BY <1>1, <2>1, CompletedKept DEF LatestStates
    <2> QED
      BY <1>4, <1>6, <2>2 DEF Updates!Select, Updates!Deselect
  <1>7. ASSUME NEW buyer \in Accounts, NEW t \in Transactions, NEW to \in SUBSET Accounts,
               Updates!Purchase(buyer, t, to)
        PROVE  AwardedTo(a)'
    <2>1. LatestInventory'[a] =
            LET paid == IF a = buyer THEN Debited(LatestInventory[a], t, to) ELSE LatestInventory[a]
            IN IF a \in to THEN Gifted(paid) ELSE paid
      BY <1>7, SameDocuments DEF Updates!Purchase
    <2>2. LatestInventory'[a].items = LatestInventory[a].items
      BY <1>1, <2>1, ItemsKept
    <2> QED
      BY <1>4, <1>7, <2>2 DEF Updates!Purchase
  <1>8. ASSUME NEW c \in Accounts, NEW k \in Codes, Updates!Redeem(c, k) PROVE AwardedTo(a)'
    <2>1. LatestInventory' = [LatestInventory EXCEPT ![c] = Redeemed(@, k)]
      BY <1>8, SameDocuments DEF Updates!Redeem
    <2>2. LatestInventory[a].items \subseteq LatestInventory'[a].items
      <3>1. LatestInventory'[a] = IF c = a THEN Redeemed(LatestInventory[a], k) ELSE LatestInventory[a]
        BY <2>1 DEF LatestInventory
      <3> QED
        BY <1>1, <3>1, ItemsKept
    <2> QED
      BY <1>4, <1>8, <2>2 DEF Updates!Redeem
  <1>9. CASE UNCHANGED Updates!vars
    BY <1>4, <1>9 DEF Updates!vars
  <1>10. CASE Updates!Next
    BY <1>10, <1>2, <1>3, <1>5, <1>6, <1>7, <1>8 DEF Updates!Next
  <1> QED
    BY <1>9, <1>10

\* The same, of the missions of an account.
OneActiveOf(missions) == \A m, n \in Active(missions) : m = n

LEMMA OneActiveKept ==
    ASSUME NEW missions \in MissionStates, OneActiveOf(missions)
    PROVE  /\ OneActiveOf(Advanced(missions))
           /\ \A m \in Missions : OneActiveOf(Selected(missions, m))
           /\ \A m \in Missions : OneActiveOf(Deselected(missions, m))
  <1>1. OneActiveOf(Advanced(missions))
    <2>1. ASSUME NEW n \in Active(Advanced(missions))
          PROVE  \E m \in Active(missions) : NextMission[m] = n
      BY DEF MissionStates, Active, Advanced, Successor
    <2> QED
      BY <2>1 DEF OneActiveOf
  <1>2. ASSUME NEW m \in Missions
        PROVE  OneActiveOf(Selected(missions, m)) /\ OneActiveOf(Deselected(missions, m))
    BY DEF OneActiveOf, MissionStates, Active, Selected, Deselected
  <1> QED
    BY <1>1, <1>2

LEMMA OneActiveStep ==
    ASSUME IInv, OneActive, [Updates!Next]_Updates!vars
    PROVE  OneActive'
  <1> SUFFICES ASSUME NEW a \in Accounts PROVE OneActiveOf(LatestStates'[a])
    BY DEF OneActive, OneActiveOf, Active
  <1>1. LatestStates[a] \in MissionStates /\ OneActiveOf(LatestStates[a])
    BY LatestTyped DEF OneActive, OneActiveOf
  <1>2. \/ LatestStates'[a] = LatestStates[a]
        \/ LatestStates'[a] = Advanced(LatestStates[a])
        \/ \E m \in Missions : LatestStates'[a] \in {Selected(LatestStates[a], m),
                                                     Deselected(LatestStates[a], m)}
    <2>1. ASSUME NEW b \in Batches, NEW owners \in SUBSET Accounts, NEW finishers \in SUBSET owners,
                 Updates!Record(b, owners, finishers)
          PROVE  LatestStates'[a] \in {LatestStates[a], Advanced(LatestStates[a])}
      BY <2>1, SameDocuments DEF Updates!Record
    <2>2. ASSUME NEW c \in Accounts, NEW m \in Missions, Updates!Select(c, m) \/ Updates!Deselect(c, m)
          PROVE  LatestStates'[a] \in {LatestStates[a], Selected(LatestStates[a], m),
                                     Deselected(LatestStates[a], m)}
      <3>1. \/ LatestStates' = [LatestStates EXCEPT ![c] = Selected(@, m)]
            \/ LatestStates' = [LatestStates EXCEPT ![c] = Deselected(@, m)]
        BY <2>2, SameDocuments DEF Updates!Select, Updates!Deselect
      <3> QED
        BY <3>1 DEF LatestStates
    <2>3. ASSUME NEW c \in Accounts, NEW local \in LocalXp, NEW choose \in BOOLEAN,
                 Updates!Restore(c, local, choose)
          PROVE  LatestStates' = LatestStates
      BY <2>3 DEF Updates!Restore
    <2>4. ASSUME \/ \E c \in Accounts : Updates!Login(c) \/ \E k \in Codes : Updates!Redeem(c, k)
                 \/ \E buyer \in Accounts, t \in Transactions, to \in SUBSET Accounts :
                      Updates!Purchase(buyer, t, to)
                 \/ UNCHANGED Updates!vars
          PROVE  LatestStates' = LatestStates
      BY <2>4 DEF Updates!Login, Updates!Redeem, Updates!Purchase, Updates!vars
    <2> QED
      BY <2>1, <2>2, <2>3, <2>4 DEF Updates!Next
  <1> QED
    BY <1>1, <1>2, OneActiveKept

\* Sets that are counted are finite, however many transactions and codes there are.
Counted ==
    \A a \in Accounts :
        /\ IsFiniteSet(Orders(a))
        /\ IsFiniteSet(LatestInventory[a].purchases)
        /\ IsFiniteSet(LatestInventory[a].redeemed)

LedgerInv == Ledger /\ Counted

\* What the updates do to the counted fields.
LEMMA LedgerFields ==
    ASSUME NEW owned \in Inventories
    PROVE  /\ \A items : /\ Awarded(owned, items).gifts = owned.gifts
                         /\ Awarded(owned, items).coins = owned.coins
                         /\ Awarded(owned, items).purchases = owned.purchases
                         /\ Awarded(owned, items).redeemed = owned.redeemed
           /\ \A t, to : /\ Debited(owned, t, to).gifts = owned.gifts
                         /\ Debited(owned, t, to).coins = owned.coins - Cardinality(to)
                         /\ Debited(owned, t, to).purchases = owned.purchases \cup ({t} \X to)
                         /\ Debited(owned, t, to).redeemed = owned.redeemed
           /\ \A k : /\ Redeemed(owned, k).gifts = owned.gifts
                     /\ Redeemed(owned, k).coins = owned.coins + 1
                     /\ Redeemed(owned, k).purchases = owned.purchases
                     /\ Redeemed(owned, k).redeemed = owned.redeemed \cup {k}
  BY DEF Inventories, Awarded, Debited, Redeemed

LEMMA GiftedFields ==
    ASSUME NEW owned \in Inventories, NEW t, NEW to
    PROVE  /\ Gifted(owned).gifts = owned.gifts + 1
           /\ Gifted(owned).coins = owned.coins
           /\ Gifted(owned).purchases = owned.purchases
           /\ Gifted(owned).redeemed = owned.redeemed
           /\ Gifted(Debited(owned, t, to)).gifts = owned.gifts + 1
           /\ Gifted(Debited(owned, t, to)).coins = owned.coins - Cardinality(to)
           /\ Gifted(Debited(owned, t, to)).purchases = owned.purchases \cup ({t} \X to)
           /\ Gifted(Debited(owned, t, to)).redeemed = owned.redeemed
  BY DEF Inventories, Debited, Gifted

\* An update that leaves every account's counted fields leaves the ledger.
LEMMA LedgerUntouched ==
    ASSUME LedgerInv,
           \A a \in Accounts :
             /\ LatestInventory'[a].gifts = LatestInventory[a].gifts
             /\ LatestInventory'[a].coins = LatestInventory[a].coins
             /\ LatestInventory'[a].purchases = LatestInventory[a].purchases
             /\ LatestInventory'[a].redeemed = LatestInventory[a].redeemed
    PROVE  LedgerInv'
  <1>1. \A a : Orders(a)' = Orders(a)
    BY DEF Orders
  <1> QED
    BY <1>1 DEF LedgerInv, Ledger, Counted

LEMMA RedeemLedger ==
    ASSUME IInv, LedgerInv, NEW c \in Accounts, NEW k \in Codes, Updates!Redeem(c, k)
    PROVE  LedgerInv'
  <1>1. k \notin LatestInventory[c].redeemed
    BY DEF Updates!Redeem
  <1>2. \A a \in Accounts :
          LatestInventory'[a] = IF a = c THEN Redeemed(LatestInventory[a], k) ELSE LatestInventory[a]
    BY SameDocuments DEF Updates!Redeem, LatestInventory
  <1>3. \A a \in Accounts : LatestInventory[a] \in Inventories
    BY LatestTyped
  <1>4. \A a \in Accounts : /\ LatestInventory'[a].gifts = LatestInventory[a].gifts
                            /\ LatestInventory'[a].purchases = LatestInventory[a].purchases
    BY <1>2, <1>3, LedgerFields
  <1>5. \A a : Orders(a)' = Orders(a)
    BY <1>4 DEF Orders
  <1>6. ASSUME NEW a \in Accounts
        PROVE  /\ IsFiniteSet(LatestInventory'[a].redeemed)
               /\ LatestInventory'[a].coins + Cardinality(LatestInventory'[a].purchases) =
                    StartCoins + Cardinality(LatestInventory'[a].redeemed)
    <2> DEFINE owned == LatestInventory[a]
    <2>1. /\ owned.coins + Cardinality(owned.purchases) = StartCoins + Cardinality(owned.redeemed)
          /\ IsFiniteSet(owned.redeemed) /\ IsFiniteSet(owned.purchases)
      BY DEF LedgerInv, Ledger, Counted
    <2>2. owned.coins \in Nat /\ StartCoins \in Nat
      BY <1>3, DocumentAssumption DEF Inventories
    <2>3. Cardinality(owned.redeemed) \in Nat /\ Cardinality(owned.purchases) \in Nat
      BY <2>1, FS_CardinalityType
    <2>4. CASE a = c
      <3>1. /\ LatestInventory'[a].coins = owned.coins + 1
            /\ LatestInventory'[a].redeemed = owned.redeemed \cup {k}
        BY <1>2, <1>3, <2>4, LedgerFields
      <3>2. /\ IsFiniteSet(owned.redeemed \cup {k})
            /\ Cardinality(owned.redeemed \cup {k}) = Cardinality(owned.redeemed) + 1
        BY <1>1, <2>1, <2>4, FS_AddElement
      <3> QED
        BY <1>4, <2>1, <2>2, <2>3, <3>1, <3>2
    <2>5. CASE a # c
      BY <1>2, <2>1, <2>5
    <2> QED
      BY <2>4, <2>5
  <1> QED
    BY <1>4, <1>5, <1>6 DEF LedgerInv, Ledger, Counted

LEMMA PurchaseLedger ==
    ASSUME IInv, LedgerInv, NEW buyer \in Accounts, NEW t \in Transactions, NEW to \in SUBSET Accounts,
           Updates!Purchase(buyer, t, to)
    PROVE  LedgerInv'
  <1>1. ~Bought(LatestInventory[buyer], t)
    BY SameDocuments DEF Updates!Purchase
  <1>2. \A a \in Accounts :
          LatestInventory'[a] =
            LET paid == IF a = buyer THEN Debited(LatestInventory[a], t, to) ELSE LatestInventory[a]
            IN IF a \in to THEN Gifted(paid) ELSE paid
    BY SameDocuments DEF Updates!Purchase
  <1>3. \A a \in Accounts : LatestInventory[a] \in Inventories
    BY LatestTyped
  <1>4. ASSUME NEW a \in Accounts
        PROVE  /\ LatestInventory'[a].gifts = LatestInventory[a].gifts + (IF a \in to THEN 1 ELSE 0)
               /\ LatestInventory'[a].redeemed = LatestInventory[a].redeemed
               /\ a = buyer => /\ LatestInventory'[a].coins = LatestInventory[a].coins - Cardinality(to)
                              /\ LatestInventory'[a].purchases =
                                   LatestInventory[a].purchases \cup ({t} \X to)
               /\ a # buyer => /\ LatestInventory'[a].coins = LatestInventory[a].coins
                              /\ LatestInventory'[a].purchases = LatestInventory[a].purchases
    <2>1. LatestInventory[a] \in Inventories /\ LatestInventory[a].gifts \in Nat
      BY <1>3 DEF Inventories
    <2>2. CASE a = buyer /\ a \in to
      BY <1>2, <2>1, <2>2, GiftedFields
    <2>3. CASE a = buyer /\ a \notin to
      BY <1>2, <2>1, <2>3, LedgerFields
    <2>4. CASE a # buyer /\ a \in to
      BY <1>2, <2>1, <2>4, GiftedFields
    <2>5. CASE a # buyer /\ a \notin to
      BY <1>2, <2>1, <2>5
    <2> QED
      BY <2>2, <2>3, <2>4, <2>5
  <1>5. IsFiniteSet(to) /\ Cardinality(to) \in Nat
    BY DocumentAssumption, FS_Subset, FS_CardinalityType
  <1>6. /\ IsFiniteSet({t} \X to) /\ Cardinality({t} \X to) = Cardinality(to)
    <2>1. IsFiniteSet({t}) /\ Cardinality({t}) = 1
      BY FS_Singleton
    <2> QED
      BY <1>5, <2>1, FS_Product
  <1>7. ASSUME NEW a \in Accounts
        PROVE  /\ IsFiniteSet(Orders(a)')
               /\ LatestInventory'[a].gifts = Cardinality(Orders(a)')
    <2>1. /\ LatestInventory[a].gifts = Cardinality(Orders(a)) /\ IsFiniteSet(Orders(a))
      BY DEF LedgerInv, Ledger, Counted
    <2>2. CASE a \in to
      <3>1. Orders(a)' = Orders(a) \cup {<<buyer, t>>}
        BY <1>4, <2>2 DEF Orders
      <3>2. <<buyer, t>> \notin Orders(a)
        BY <1>1 DEF Orders, Bought
      <3>3. LatestInventory'[a].gifts = LatestInventory[a].gifts + 1
        BY <1>4, <2>2
      <3>4. /\ IsFiniteSet(Orders(a) \cup {<<buyer, t>>})
            /\ Cardinality(Orders(a) \cup {<<buyer, t>>}) = Cardinality(Orders(a)) + 1
        BY <2>1, <3>2, FS_AddElement
      <3> QED
        BY <2>1, <3>1, <3>3, <3>4
    <2>3. CASE a \notin to
      <3>1. Orders(a)' = Orders(a)
        BY <1>4, <2>3 DEF Orders
      <3>2. LatestInventory[a].gifts \in Nat
        BY <1>3 DEF Inventories
      <3> QED
        BY <1>4, <2>1, <2>3, <3>1, <3>2
    <2> QED
      BY <2>2, <2>3
  <1>8. ASSUME NEW a \in Accounts
        PROVE  /\ IsFiniteSet(LatestInventory'[a].purchases)
               /\ LatestInventory'[a].coins + Cardinality(LatestInventory'[a].purchases) =
                    StartCoins + Cardinality(LatestInventory'[a].redeemed)
    <2> DEFINE owned == LatestInventory[a]
    <2>1. /\ owned.coins + Cardinality(owned.purchases) = StartCoins + Cardinality(owned.redeemed)
          /\ IsFiniteSet(owned.redeemed) /\ IsFiniteSet(owned.purchases)
      BY DEF LedgerInv, Ledger, Counted
    <2>2. owned.coins \in Nat
      BY <1>3 DEF Inventories
    <2>3. Cardinality(owned.redeemed) \in Nat /\ Cardinality(owned.purchases) \in Nat
      BY <2>1, FS_CardinalityType
    <2>4. CASE a = buyer
      <3>1. owned.purchases \cap ({t} \X to) = {}
        BY <1>1, <2>4 DEF Bought
      <3>2. /\ IsFiniteSet(owned.purchases \cup ({t} \X to))
            /\ Cardinality(owned.purchases \cup ({t} \X to)) =
                 Cardinality(owned.purchases) + Cardinality(to)
        <4>1. Cardinality(owned.purchases \cap ({t} \X to)) = 0
          BY <3>1, FS_EmptySet
        <4>2. /\ IsFiniteSet(owned.purchases \cup ({t} \X to))
              /\ Cardinality(owned.purchases \cup ({t} \X to)) =
                   Cardinality(owned.purchases) + Cardinality({t} \X to)
                     - Cardinality(owned.purchases \cap ({t} \X to))
          BY <1>6, <2>1, FS_Union
        <4> QED
          BY <1>5, <1>6, <2>3, <4>1, <4>2
      <3>3. /\ LatestInventory'[a].coins = owned.coins - Cardinality(to)
            /\ LatestInventory'[a].purchases = owned.purchases \cup ({t} \X to)
            /\ LatestInventory'[a].redeemed = owned.redeemed
        BY <1>4, <2>4
      <3> QED
        BY <1>5, <2>1, <2>2, <2>3, <3>2, <3>3
    <2>5. CASE a # buyer
      BY <1>4, <2>1, <2>5
    <2> QED
      BY <2>4, <2>5
  <1>9. \A a \in Accounts : IsFiniteSet(LatestInventory'[a].redeemed)
    BY <1>4 DEF LedgerInv, Counted
  <1> QED
    BY <1>7, <1>8, <1>9 DEF LedgerInv, Ledger, Counted

LEMMA LedgerStep ==
    ASSUME IInv, LedgerInv, [Updates!Next]_Updates!vars
    PROVE  LedgerInv'
  <1>1. \A a \in Accounts : LatestInventory[a] \in Inventories
    BY LatestTyped
  <1>2. ASSUME \A a \in Accounts : \/ LatestInventory'[a] = LatestInventory[a]
                                  \/ \E items : LatestInventory'[a] = Awarded(LatestInventory[a], items)
        PROVE  LedgerInv'
    <2>1. \A a \in Accounts :
             /\ LatestInventory'[a].gifts = LatestInventory[a].gifts
             /\ LatestInventory'[a].coins = LatestInventory[a].coins
             /\ LatestInventory'[a].purchases = LatestInventory[a].purchases
             /\ LatestInventory'[a].redeemed = LatestInventory[a].redeemed
      BY <1>1, <1>2, LedgerFields
    <2> QED
      BY <2>1, LedgerUntouched
  <1>3. ASSUME NEW b \in Batches, NEW owners \in SUBSET Accounts, NEW finishers \in SUBSET owners,
               Updates!Record(b, owners, finishers)
        PROVE  LedgerInv'
    <2>1. \A a \in Accounts : \/ LatestInventory'[a] = LatestInventory[a]
                             \/ \E items : LatestInventory'[a] = Awarded(LatestInventory[a], items)
      BY <1>3, SameDocuments DEF Updates!Record
    <2> QED
      BY <1>2, <2>1
  <1>4. ASSUME NEW c \in Accounts, NEW local \in LocalXp, NEW choose \in BOOLEAN,
               Updates!Restore(c, local, choose)
        PROVE  LedgerInv'
    <2>1. PICK items : LatestInventory' = [LatestInventory EXCEPT ![c] = Awarded(@, items)]
      BY <1>4, SameDocuments DEF Updates!Restore
    <2>2. \A a \in Accounts : \/ LatestInventory'[a] = LatestInventory[a]
                             \/ \E i : LatestInventory'[a] = Awarded(LatestInventory[a], i)
      BY <2>1 DEF LatestInventory
    <2> QED
      BY <1>2, <2>2
  <1>5. ASSUME \/ \E c \in Accounts, m \in Missions : Updates!Select(c, m) \/ Updates!Deselect(c, m)
               \/ UNCHANGED Updates!vars
        PROVE  LedgerInv'
    <2>1. LatestInventory' = LatestInventory
      BY <1>5 DEF Updates!Select, Updates!Deselect, Updates!vars
    <2> QED
      BY <1>2, <2>1
  <1>6. CASE Updates!Next
    <2>1. ASSUME NEW c \in Accounts, Updates!Login(c) PROVE LedgerInv'
      <3>1. LatestInventory' = [LatestInventory EXCEPT ![c] = Awarded(@, Unlocked(0))]
        BY <2>1, SameDocuments DEF Updates!Login
      <3>2. \A a \in Accounts : \/ LatestInventory'[a] = LatestInventory[a]
                               \/ \E i : LatestInventory'[a] = Awarded(LatestInventory[a], i)
        BY <3>1 DEF LatestInventory
      <3> QED
        BY <1>2, <3>2
    <2> QED
      BY <1>3, <1>4, <1>5, <1>6, <2>1, RedeemLedger, PurchaseLedger DEF Updates!Next
  <1> QED
    BY <1>5, <1>6

LEMMA InitProperties ==
    ASSUME IInv, Updates!Init
    PROVE  /\ OneActive /\ LedgerInv
           /\ \A a \in Accounts : AwardedTo(a)
  <1>1. ASSUME NEW a \in Accounts
        PROVE  /\ LatestProgress[a].known = FALSE
               /\ LatestStates[a] = NewMissions
               /\ LatestInventory[a] = NewInventory
    BY DEF Updates!Init, NewMissions, Updates!NewMissions, NewInventory, Updates!NewInventory
  <1>2. OneActive
    BY <1>1 DEF OneActive, Active, NewMissions
  <1>3. Completed(NewMissions) = {} /\ Rewards({}) = {}
    BY DEF Completed, NewMissions, Rewards
  <1>4. \A a \in Accounts : AwardedTo(a)
    BY <1>1, <1>3 DEF AwardedTo
  <1>5. /\ NewInventory.gifts = 0 /\ NewInventory.coins = StartCoins
        /\ NewInventory.purchases = {} /\ NewInventory.redeemed = {}
    BY DEF NewInventory
  <1>6. \A a \in Accounts : Orders(a) = {}
    BY <1>1, <1>5 DEF Orders
  <1>7. Counted
    BY <1>1, <1>5, <1>6, FS_EmptySet DEF Counted
  <1>8. Ledger
    BY <1>1, <1>5, <1>6, FS_EmptySet, DocumentAssumption DEF Ledger
  <1> QED
    BY <1>2, <1>4, <1>7, <1>8 DEF LedgerInv

\* No total is readable without the items of its ranks, no completed mission without its
\* reward, at any publication of any request.
THEOREM AwardsAlways == Spec => []AwardsFollow
  <1>1. Init => IInv /\ AwardsFollow
    BY InitStep, InitProperties DEF AwardsFollow, AwardedTo
  <1>2. IInv /\ AwardsFollow /\ [Next]_vars => AwardsFollow'
    BY NextStep, StutterStep, AwardsStep
  <1> QED
    BY <1>1, <1>2, Inductive, PTL DEF Spec

\* advanceReplayQuests never meets two active missions of a category.
THEOREM OneActiveAlways == Spec => []OneActive
  <1>1. Init => IInv /\ OneActive
    BY InitStep, InitProperties
  <1>2. IInv /\ OneActive /\ [Next]_vars => OneActive'
    BY NextStep, StutterStep, OneActiveStep
  <1> QED
    BY <1>1, <1>2, Inductive, PTL DEF Spec

\* The accounts of the players balance, for every number of gifts and redemptions.
THEOREM LedgerAlways == Spec => []Ledger
  <1>1. Init => IInv /\ LedgerInv
    BY InitStep, InitProperties
  <1>2. IInv /\ LedgerInv /\ [Next]_vars => LedgerInv'
    BY NextStep, StutterStep, LedgerStep
  <1>3. LedgerInv => Ledger
    BY DEF LedgerInv
  <1> QED
    BY <1>1, <1>2, <1>3, Inductive, PTL DEF Spec
=============================================================================
