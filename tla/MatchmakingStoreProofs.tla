---------------------- MODULE MatchmakingStoreProofs ----------------------
(***************************************************************************)
(* Proofs about MatchmakingStore, for all documents, transactions, write   *)
(* sets and bounds.  The first part holds whatever handlers run; the       *)
(* second assumes WholeReaders, the condition under which no handler reads *)
(* the files while a prepared journal is waiting.                          *)
(***************************************************************************)
EXTENDS MatchmakingStore, TLAPS

\* commit is running: its transaction is built and not yet answered.
InCommit == pc = "preparing" \/ (pc = "recovering" /\ resume # "entry")

\* commit has not published its journal yet.
BeforePrepare == pc = "preparing" \/ (pc = "recovering" /\ resume = "precommit")

\* The transaction of a running commit is one that was issued.
CommitInv == InCommit => txn \in issued

\* What recoverPending has passed is on disk; commit never finds a journal to overwrite.
RedoInv ==
    /\ pc = "recovering" => \A d \in Pending \ todo : disk[d] = journal.writes[d]
    /\ pc = "preparing" => ~Prepared

\* Acknowledged transactions are in the files, in the journal that will replace them
\* and in the copies a handler may write back.
AckInv ==
    \A t \in acked : \A d \in WriteSet[t] :
        /\ t \in disk[d]
        /\ d \in Pending => t \in journal.writes[d]
        /\ pc = "holding" \/ InCommit => t \in memory[d]

\* While commit rolls its own transaction forward, each of its documents is either
\* still to be published from the journal or published.
FinishInv ==
    pc = "recovering" /\ resume = "finish" =>
        \A d \in WriteSet[txn] :
            /\ d \in todo => txn \in journal.writes[d]
            /\ d \notin todo => txn \in disk[d]

\* The copies a handler is about to commit carry the transaction.
CopyInv == BeforePrepare => \A d \in WriteSet[txn] : txn \in memory[d]

IInv == TypeOK /\ CommitInv /\ RedoInv /\ AckInv /\ FinishInv /\ CopyInv

-----------------------------------------------------------------------------
(* The store under any handlers *)

\* The service starts with empty files and no journal.
LEMMA InitIInv == Init => IInv
  <1> SUFFICES ASSUME Init PROVE IInv
    OBVIOUS
  <1>1. journal \in Journals
    <2>1. NoWrites \in [{} -> Contents]
      BY DEF NoWrites
    <2>2. NoWrites \in Entries
      BY <2>1 DEF Entries
    <2> QED
      BY <2>2 DEF Init, Journals
  <1>2. Blank \in Documents
    BY DEF Blank, Documents, Contents
  <1> QED
    BY <1>1, <1>2, StoreAssumption
    DEF Init, IInv, TypeOK, CommitInv, InCommit, RedoInv, AckInv, FinishInv, CopyInv,
        BeforePrepare, Pending, Prepared

\* A prepared journal names only documents, each with a content.
LEMMA JournalTyped ==
  ASSUME journal \in Journals
  PROVE  /\ DOMAIN journal.writes \subseteq Docs
         /\ \A d \in DOMAIN journal.writes : journal.writes[d] \in Contents
         /\ Pending \subseteq Docs
  <1>1. journal.writes \in Entries
    BY DEF Journals
  <1>2. PICK D \in SUBSET Docs : journal.writes \in [D -> Contents]
    BY <1>1 DEF Entries
  <1> QED
    BY <1>2 DEF Pending

\* Every step keeps the types.
LEMMA NextTypeOK == ASSUME IInv, [Next]_vars PROVE TypeOK'
  <1> USE StoreAssumption DEF HandlerKinds
  <1>0. /\ Pending \subseteq Docs /\ Blank \in Documents
        /\ \A d \in DOMAIN journal.writes : journal.writes[d] \in Contents
    BY JournalTyped DEF IInv, TypeOK, Blank, Documents, Contents
  <1>1. CASE Boot
    BY <1>1 DEF Boot, IInv, TypeOK, Pending, Prepared, files, bounds
  <1>2. ASSUME NEW kind \in HandlerKinds, Enter(kind) PROVE TypeOK'
    BY <1>2 DEF Enter, IInv, TypeOK, Pending, Prepared, files, bounds
  <1>3. ASSUME NEW kind \in HandlerKinds, EnterDirect(kind) PROVE TypeOK'
    BY <1>3 DEF EnterDirect, IInv, TypeOK, Pending, Prepared, files, bounds
  <1>4. ASSUME NEW d \in Docs, ApplyEntry(d) PROVE TypeOK'
    <2>1. d \in DOMAIN journal.writes
      BY <1>4 DEF ApplyEntry, IInv, TypeOK, Pending
    <2>2. disk' \in Documents
      BY <1>0, <1>4, <2>1 DEF ApplyEntry, IInv, TypeOK, Documents
    <2> QED
      BY <1>4, <2>2 DEF ApplyEntry, IInv, TypeOK, Pending, Prepared, bounds
  <1>5. CASE MarkApplied
    <2>1. NoWrites \in Entries
      <3>1. NoWrites \in [{} -> Contents]
        BY DEF NoWrites
      <3> QED
        BY <3>1 DEF Entries
    <2>2. journal' \in Journals
      BY <1>5, <2>1 DEF MarkApplied, IInv, TypeOK, Journals
    <2> QED
      BY <1>5, <2>2 DEF MarkApplied, IInv, TypeOK, Pending, Prepared, bounds
  <1>6. CASE RecoverReturn
    <2>1. InCommit \/ resume = "entry"
      BY <1>6 DEF RecoverReturn, InCommit
    <2> QED
      BY <1>6, <2>1 DEF RecoverReturn, IInv, TypeOK, CommitInv, Pending, Prepared, files, bounds
  <1>7. ASSUME NEW t \in Txns, Commit(t) PROVE TypeOK'
    <2>1. memory' \in Documents
      BY <1>7 DEF Commit, IInv, TypeOK, Documents, Contents
    <2> QED
      BY <1>7, <2>1 DEF Commit, IInv, TypeOK, Pending, Prepared, files, bounds
  <1>8. CASE Prepare
    <2>1. txn \in Txns
      BY <1>8 DEF Prepare, IInv, CommitInv, InCommit, TypeOK
    <2>2. WriteSet[txn] \in SUBSET Docs
      BY <2>1
    <2>3. journal'.writes \in [WriteSet[txn] -> Contents]
      BY <1>8, <2>2 DEF Prepare, IInv, TypeOK, Documents
    <2>4. journal'.writes \in Entries
      BY <2>2, <2>3 DEF Entries
    <2>5. journal' \in Journals
      BY <1>8, <2>4 DEF Prepare, IInv, TypeOK, Journals
    <2>6. todo' \subseteq Pending'
      BY <1>8, <2>3 DEF Prepare, Pending, Prepared
    <2> QED
      BY <1>8, <2>5, <2>6 DEF Prepare, IInv, TypeOK, bounds
  <1>9. CASE Release
    BY <1>0, <1>9 DEF Release, IInv, TypeOK, Pending, Prepared, files, bounds
  <1>10. CASE Fail
    BY <1>0, <1>10 DEF Fail, IInv, TypeOK, Pending, Prepared, files
  <1>11. CASE FailInMaintenance
    <2>1. memory' \in Documents
      BY <1>11 DEF FailInMaintenance, IInv, TypeOK, Documents
    <2> QED
      BY <1>11, <2>1 DEF FailInMaintenance, IInv, TypeOK, Pending, Prepared, files
  <1>12. CASE Crash
    BY <1>0, <1>12 DEF Crash, IInv, TypeOK, Pending, Prepared, files
  <1>13. CASE UNCHANGED vars
    BY <1>13 DEF vars, IInv, TypeOK, Pending, Prepared
  <1> QED
    BY <1>1, <1>2, <1>3, <1>4, <1>5, <1>6, <1>7, <1>8, <1>9, <1>10, <1>11, <1>12, <1>13
    DEF Next, Recover

\* Every step keeps the transaction of a running commit issued.
LEMMA NextCommitInv == ASSUME IInv, [Next]_vars PROVE CommitInv'
  <1> USE DEF CommitInv, InCommit
  <1>1. CASE Boot
    BY <1>1 DEF Boot
  <1>2. ASSUME NEW kind \in HandlerKinds, Enter(kind) \/ EnterDirect(kind) PROVE CommitInv'
    BY <1>2 DEF Enter, EnterDirect
  <1>3. CASE Recover
    BY <1>3 DEF Recover, ApplyEntry, MarkApplied, RecoverReturn, IInv
  <1>4. ASSUME NEW t \in Txns, Commit(t) PROVE CommitInv'
    BY <1>4 DEF Commit
  <1>5. CASE Prepare
    BY <1>5 DEF Prepare, IInv
  <1>6. CASE Release \/ Fail \/ FailInMaintenance \/ Crash
    BY <1>6 DEF Release, Fail, FailInMaintenance, Crash
  <1>7. CASE UNCHANGED vars
    BY <1>7 DEF vars, IInv
  <1> QED
    BY <1>1, <1>2, <1>3, <1>4, <1>5, <1>6, <1>7 DEF Next

\* Every step keeps what recoverPending has passed on disk.
LEMMA NextRedoInv == ASSUME IInv, [Next]_vars PROVE RedoInv'
  <1> USE DEF RedoInv, Pending, Prepared
  <1>1. CASE Boot
    BY <1>1 DEF Boot, files
  <1>2. ASSUME NEW kind \in HandlerKinds, Enter(kind) \/ EnterDirect(kind) PROVE RedoInv'
    BY <1>2 DEF Enter, EnterDirect, files
  <1>3. ASSUME NEW d \in Docs, ApplyEntry(d) PROVE RedoInv'
    BY <1>3, JournalTyped DEF ApplyEntry, IInv, TypeOK, Documents
  <1>4. CASE MarkApplied
    BY <1>4 DEF MarkApplied, IInv, TypeOK, Journals
  <1>5. CASE RecoverReturn
    BY <1>5 DEF RecoverReturn, files
  <1>6. ASSUME NEW t \in Txns, Commit(t) PROVE RedoInv'
    BY <1>6 DEF Commit, files
  <1>7. CASE Prepare
    BY <1>7 DEF Prepare
  <1>8. CASE Release \/ Fail \/ FailInMaintenance \/ Crash
    BY <1>8 DEF Release, Fail, FailInMaintenance, Crash, files
  <1>9. CASE UNCHANGED vars
    BY <1>9 DEF vars, IInv
  <1> QED
    BY <1>1, <1>2, <1>3, <1>4, <1>5, <1>6, <1>7, <1>8, <1>9 DEF Next, Recover

\* Every step keeps the transaction being finished in the journal or on disk.
LEMMA NextFinishInv == ASSUME IInv, [Next]_vars PROVE FinishInv'
  <1> USE StoreAssumption DEF FinishInv
  <1>1. CASE Boot
    BY <1>1 DEF Boot
  <1>2. ASSUME NEW kind \in HandlerKinds, Enter(kind) \/ EnterDirect(kind) PROVE FinishInv'
    BY <1>2 DEF Enter, EnterDirect
  <1>3. ASSUME NEW d \in Docs, ApplyEntry(d) PROVE FinishInv'
    BY <1>3, JournalTyped DEF ApplyEntry, IInv, TypeOK, Documents
  <1>4. CASE MarkApplied
    BY <1>4 DEF MarkApplied, IInv
  <1>5. CASE RecoverReturn
    BY <1>5 DEF RecoverReturn
  <1>6. ASSUME NEW t \in Txns, Commit(t) PROVE FinishInv'
    BY <1>6 DEF Commit
  <1>7. CASE Prepare
    <2>1. txn \in issued
      BY <1>7 DEF Prepare, IInv, CommitInv, InCommit
    <2>2. \A d \in WriteSet[txn] : txn \in memory[d]
      BY <1>7 DEF Prepare, IInv, CopyInv, BeforePrepare
    <2> QED
      BY <1>7, <2>1, <2>2 DEF Prepare
  <1>8. CASE Release \/ Fail \/ FailInMaintenance \/ Crash
    BY <1>8 DEF Release, Fail, FailInMaintenance, Crash
  <1>9. CASE UNCHANGED vars
    BY <1>9 DEF vars, IInv
  <1> QED
    BY <1>1, <1>2, <1>3, <1>4, <1>5, <1>6, <1>7, <1>8, <1>9 DEF Next, Recover

\* Until commit publishes its journal the handler's copies carry the transaction.
LEMMA NextCopyInv == ASSUME IInv, [Next]_vars PROVE CopyInv'
  <1> USE StoreAssumption DEF CopyInv, BeforePrepare
  <1>1. CASE Boot
    BY <1>1 DEF Boot
  <1>2. ASSUME NEW kind \in HandlerKinds, Enter(kind) \/ EnterDirect(kind) PROVE CopyInv'
    BY <1>2 DEF Enter, EnterDirect
  <1>3. CASE Recover
    BY <1>3 DEF Recover, ApplyEntry, MarkApplied, RecoverReturn, IInv
  <1>4. ASSUME NEW t \in Txns, Commit(t) PROVE CopyInv'
    BY <1>4 DEF Commit, IInv, TypeOK, Documents
  <1>5. CASE Prepare
    BY <1>5 DEF Prepare
  <1>6. CASE Release \/ Fail \/ FailInMaintenance \/ Crash
    BY <1>6 DEF Release, Fail, FailInMaintenance, Crash
  <1>7. CASE UNCHANGED vars
    BY <1>7 DEF vars, IInv
  <1> QED
    BY <1>1, <1>2, <1>3, <1>4, <1>5, <1>6, <1>7 DEF Next

\* Every step keeps the acknowledged transactions everywhere they must be.
LEMMA NextAckInv == ASSUME IInv, [Next]_vars PROVE AckInv'
  <1> USE StoreAssumption DEF AckInv, Pending, Prepared, InCommit
  <1>0. \A t \in acked : t \in Txns
    BY DEF IInv, TypeOK
  <1>1. CASE Boot
    BY <1>1 DEF Boot, files, IInv
  <1>2. ASSUME NEW kind \in HandlerKinds, Enter(kind) PROVE AckInv'
    BY <1>2 DEF Enter, files, IInv
  <1>3. ASSUME NEW kind \in HandlerKinds, EnterDirect(kind) PROVE AckInv'
    BY <1>3 DEF EnterDirect, files, IInv
  <1>4. ASSUME NEW d \in Docs, ApplyEntry(d) PROVE AckInv'
    BY <1>4, JournalTyped DEF ApplyEntry, IInv, TypeOK, Documents
  <1>5. CASE MarkApplied
    BY <1>5 DEF MarkApplied, IInv, TypeOK, Journals
  <1>6. CASE RecoverReturn
    <2>1. CASE resume = "finish"
      <3>1. \A d \in WriteSet[txn] : txn \in disk[d]
        BY <1>6, <2>1 DEF RecoverReturn, IInv, FinishInv
      <3>2. acked' = acked \cup {txn}
        BY <1>6, <2>1 DEF RecoverReturn
      <3>3. caller = "boot" \/ memory' = disk
        BY <1>6, <2>1 DEF RecoverReturn
      <3>4. caller = "boot" => pc' = "idle"
        BY <1>6, <2>1 DEF RecoverReturn
      <3>5. ~Prepared' /\ disk' = disk
        BY <1>6 DEF RecoverReturn, files
      <3>6. \A t \in acked' : \A d \in WriteSet[t] : t \in disk[d]
        BY <3>1, <3>2 DEF IInv
      <3>7. pc' # "recovering" /\ pc' # "preparing"
        BY <1>6, <2>1 DEF RecoverReturn
      <3> QED
        BY <3>3, <3>4, <3>5, <3>6, <3>7
    <2>2. CASE resume # "finish"
      <3>1. acked' = acked
        BY <1>6, <2>2 DEF RecoverReturn
      <3>2. resume = "precommit" => memory' = memory
        BY <1>6 DEF RecoverReturn
      <3>3. resume # "precommit" /\ caller # "boot" => memory' = disk
        BY <1>6 DEF RecoverReturn
      <3>4. resume # "precommit" /\ caller = "boot" => pc' = "idle"
        BY <1>6 DEF RecoverReturn
      <3>5. pc = "recovering" /\ pc' # "recovering" /\ disk' = disk /\ journal' = journal
        BY <1>6 DEF RecoverReturn, files
      <3>6. resume # "precommit" => pc' # "preparing"
        BY <1>6 DEF RecoverReturn
      <3> QED
        BY <3>1, <3>2, <3>3, <3>4, <3>5, <3>6 DEF IInv
    <2> QED
      BY <2>1, <2>2
  <1>7. ASSUME NEW t \in Txns, Commit(t) PROVE AckInv'
    BY <1>0, <1>7 DEF Commit, files, IInv, TypeOK
  <1>8. CASE Prepare
    <2>1. txn \in Txns
      BY <1>8 DEF Prepare, IInv, CommitInv, TypeOK
    <2> QED
      BY <1>8, <2>1 DEF Prepare, IInv
  <1>9. CASE Release \/ Fail \/ Crash
    BY <1>9 DEF Release, Fail, Crash, files, IInv
  <1>10. CASE FailInMaintenance
    BY <1>0, <1>10 DEF FailInMaintenance, files, IInv
  <1>11. CASE UNCHANGED vars
    BY <1>11 DEF vars, IInv
  <1> QED
    BY <1>1, <1>2, <1>3, <1>4, <1>5, <1>6, <1>7, <1>8, <1>9, <1>10, <1>11 DEF Next, Recover

\* Every reachable state of the store, under any handlers, satisfies the invariant.
LEMMA Invariance == Spec => []IInv
  <1>1. IInv /\ [Next]_vars => IInv'
    BY NextTypeOK, NextCommitInv, NextRedoInv, NextAckInv, NextFinishInv, NextCopyInv DEF IInv
  <1> QED
    BY InitIInv, <1>1, PTL DEF Spec

\* The variables keep their types.
THEOREM TypeCorrect == Spec => []TypeOK
  <1>1. IInv => TypeOK
    BY DEF IInv
  <1> QED
    BY Invariance, <1>1, PTL

\* A transaction whose commit returned is in all of its files from then on, whatever
\* crashes, exceptions, stale panel commits and recoveries follow.
THEOREM AckedStay == Spec => []AckedOnDisk
  <1>1. IInv => AckedOnDisk
    BY DEF IInv, AckInv, AckedOnDisk
  <1> QED
    BY Invariance, <1>1, PTL

\* The redo journal is only ever retired, and only after all of it is published.
THEOREM RedoLogSafe == Spec => RedoLogKept
  <1> DEFINE Retired ==
        Prepared /\ journal' # journal =>
          /\ journal'.phase = "applied" /\ journal'.revision = journal.revision
          /\ \A d \in DOMAIN journal.writes : disk[d] = journal.writes[d]
  <1>1. IInv /\ [Next]_vars => [Retired]_vars
    <2> SUFFICES ASSUME IInv, Next, Prepared, journal' # journal
                 PROVE  Retired
      OBVIOUS
    <2>1. MarkApplied \/ Prepare
      BY DEF Next, Boot, Enter, EnterDirect, Recover, ApplyEntry, RecoverReturn, Commit,
             Release, Fail, FailInMaintenance, Crash, files
    <2>2. ~Prepare
      BY DEF Prepare, IInv, RedoInv
    <2>3. MarkApplied
      BY <2>1, <2>2
    <2> QED
      BY <2>3 DEF MarkApplied, IInv, TypeOK, Journals, RedoInv, Pending
  <1> QED
    BY Invariance, <1>1, PTL DEF Spec, RedoLogKept

-----------------------------------------------------------------------------
(* The store under handlers that read only recovered files *)

\* Either every handler recovers before it reads and stops at an exception, or the
\* service sees no exceptions, only crashes, after which initialize recovers.
WholeReaders == Handlers \subseteq {"task"} \/ MaxFailures = 0

\* The transactions a document may carry are those issued, and a transaction that is
\* still being built is in no file.
FreshInv ==
    /\ \A d \in Docs : disk[d] \subseteq issued
    /\ \A d \in Pending : journal.writes[d] \subseteq issued
    /\ BeforePrepare => \A d \in Docs : txn \notin disk[d]

\* Whoever holds copies of the documents holds the current ones, and a commit that is
\* being built writes them back with its own change added.
CurrentInv ==
    /\ caller \in Handlers \cup {"boot"}
    /\ pc = "idle" /\ MaxFailures = 0 => ~Prepared
    /\ pc = "holding" => ~Prepared /\ memory = disk
    /\ BeforePrepare => /\ ~Prepared
                        /\ \A d \in Docs : memory[d] =
                             IF d \in WriteSet[txn] THEN disk[d] \cup {txn} ELSE disk[d]

WInv == IInv /\ FreshInv /\ CurrentInv /\ AllOrNothing

\* The first state.
LEMMA InitWInv == Init => WInv
  <1> SUFFICES ASSUME Init PROVE FreshInv /\ CurrentInv /\ AllOrNothing
    BY InitIInv DEF WInv
  <1> QED
    BY StoreAssumption
    DEF Init, FreshInv, CurrentInv, AllOrNothing, Pending, Prepared, BeforePrepare, Blank, Logical

\* Only the publication of a prepared journal changes what the documents are; recovery
\* and its marker publish what the journal already said.
LEMMA LogicalStep ==
  ASSUME IInv, [Next]_vars, ~Prepare
  PROVE  Logical' = Logical
  <1> USE DEF Logical, Pending, Prepared
  <1>1. ASSUME NEW d \in Docs, ApplyEntry(d) PROVE Logical' = Logical
    BY <1>1 DEF ApplyEntry, IInv, TypeOK, Documents
  <1>2. CASE MarkApplied
    <2>1. \A d \in DOMAIN journal.writes : disk[d] = journal.writes[d]
      BY <1>2 DEF MarkApplied, IInv, RedoInv
    <2>2. ~Prepared'
      BY <1>2 DEF MarkApplied, IInv, TypeOK, Journals
    <2> QED
      BY <1>2, <2>1, <2>2 DEF MarkApplied
  <1>3. ASSUME UNCHANGED files PROVE Logical' = Logical
    BY <1>3 DEF files
  <1> QED
    BY <1>1, <1>2, <1>3
    DEF Next, Boot, Enter, EnterDirect, Recover, RecoverReturn, Commit, Release, Fail,
        FailInMaintenance, Crash, vars, files

\* The publication of a prepared journal adds the transaction to all of its documents.
LEMMA LogicalPrepare ==
  ASSUME WInv, Prepare
  PROVE  /\ txn \in Txns /\ txn \in issued
         /\ Logical = disk
         /\ \A d \in Docs : txn \notin Logical[d]
         /\ Logical' = [d \in Docs |->
                IF d \in WriteSet[txn] THEN Logical[d] \cup {txn} ELSE Logical[d]]
  <1>1. txn \in Txns /\ txn \in issued
    BY DEF Prepare, WInv, IInv, CommitInv, InCommit, TypeOK
  <1>2. BeforePrepare
    BY DEF Prepare, BeforePrepare
  <1>3. Logical = disk
    BY <1>2 DEF WInv, CurrentInv, IInv, TypeOK, Documents, Logical, Pending
  <1>4. \A d \in Docs : txn \notin disk[d]
    BY <1>2 DEF WInv, FreshInv
  <1>5. Pending' = WriteSet[txn] /\ disk' = disk
    BY DEF Prepare, Pending, Prepared
  <1>6. \A d \in WriteSet[txn] : journal'.writes[d] = memory[d]
    BY DEF Prepare
  <1>7. \A d \in WriteSet[txn] : memory[d] = disk[d] \cup {txn}
    BY <1>1, <1>2, StoreAssumption DEF WInv, CurrentInv
  <1>8. Logical' = [d \in Docs |-> IF d \in WriteSet[txn] THEN disk[d] \cup {txn} ELSE disk[d]]
    BY <1>5, <1>6, <1>7 DEF Logical
  <1> QED
    BY <1>1, <1>3, <1>4, <1>8

\* Every step keeps transactions whole.
LEMMA NextAllOrNothing == ASSUME WInv, [Next]_vars PROVE AllOrNothing'
  <1>1. CASE Prepare
    <2> SUFFICES ASSUME NEW t \in Txns, NEW d \in WriteSet[t], NEW e \in WriteSet[t]
                 PROVE  t \in Logical'[d] <=> t \in Logical'[e]
      BY DEF AllOrNothing
    <2>1. d \in Docs /\ e \in Docs
      BY StoreAssumption
    <2>2. t \in Logical[d] <=> t \in Logical[e]
      BY DEF WInv, AllOrNothing
    <2> QED
      BY <1>1, <2>1, <2>2, LogicalPrepare
  <1>2. CASE ~Prepare
    BY <1>2, LogicalStep DEF WInv, AllOrNothing
  <1> QED
    BY <1>1, <1>2

\* Every step keeps a transaction under construction out of the files.
LEMMA NextFreshInv == ASSUME WInv, [Next]_vars PROVE FreshInv'
  <1> USE StoreAssumption DEF FreshInv, BeforePrepare, Pending, Prepared, WInv
  <1>1. CASE Boot
    BY <1>1 DEF Boot, files
  <1>2. ASSUME NEW kind \in HandlerKinds, Enter(kind) \/ EnterDirect(kind) PROVE FreshInv'
    BY <1>2 DEF Enter, EnterDirect, files
  <1>3. ASSUME NEW d \in Docs, ApplyEntry(d) PROVE FreshInv'
    <2>1. d \in Pending /\ Prepared
      BY <1>3 DEF ApplyEntry, IInv, TypeOK
    <2>2. ~BeforePrepare'
      BY <1>3, <2>1 DEF ApplyEntry, CurrentInv
    <2> QED
      BY <1>3, <2>1, <2>2 DEF ApplyEntry, IInv, TypeOK, Documents
  <1>4. CASE MarkApplied
    BY <1>4 DEF MarkApplied, IInv, TypeOK, Journals
  <1>5. CASE RecoverReturn
    BY <1>5 DEF RecoverReturn, files
  <1>6. ASSUME NEW t \in Txns, Commit(t) PROVE FreshInv'
    BY <1>6 DEF Commit, files
  <1>7. CASE Prepare
    <2>1. \A d \in WriteSet[txn] : memory[d] \subseteq issued
      <3>1. txn \in Txns /\ txn \in issued
        BY <1>7, LogicalPrepare
      <3>2. \A d \in Docs : memory[d] = IF d \in WriteSet[txn] THEN disk[d] \cup {txn} ELSE disk[d]
        BY <1>7 DEF Prepare, CurrentInv
      <3> QED
        BY <3>1, <3>2
    <2> QED
      BY <1>7, <2>1 DEF Prepare
  <1>8. CASE Release \/ Fail \/ FailInMaintenance \/ Crash
    BY <1>8 DEF Release, Fail, FailInMaintenance, Crash, files
  <1>9. CASE UNCHANGED vars
    BY <1>9 DEF vars
  <1> QED
    BY <1>1, <1>2, <1>3, <1>4, <1>5, <1>6, <1>7, <1>8, <1>9 DEF Next, Recover

\* With whole readers every step keeps the copies current.
LEMMA NextCurrentInv == ASSUME WInv, [Next]_vars, WholeReaders PROVE CurrentInv'
  <1> USE StoreAssumption DEF CurrentInv, BeforePrepare, Pending, Prepared, WInv
  <1>1. CASE Boot
    BY <1>1 DEF Boot, files
  <1>2. ASSUME NEW kind \in HandlerKinds, Enter(kind) PROVE CurrentInv'
    BY <1>2 DEF Enter, files
  <1>3. ASSUME NEW kind \in HandlerKinds, EnterDirect(kind) PROVE CurrentInv'
    <2>1. MaxFailures = 0
      BY <1>3 DEF EnterDirect, WholeReaders, Recovering
    <2> QED
      BY <1>3, <2>1 DEF EnterDirect, files
  <1>4. ASSUME NEW d \in Docs, ApplyEntry(d) PROVE CurrentInv'
    <2>1. Prepared
      BY <1>4 DEF ApplyEntry, IInv, TypeOK
    <2> QED
      BY <1>4, <2>1 DEF ApplyEntry
  <1>5. CASE MarkApplied
    BY <1>5 DEF MarkApplied
  <1>6. CASE RecoverReturn
    BY <1>6 DEF RecoverReturn, files
  <1>7. ASSUME NEW t \in Txns, Commit(t) PROVE CurrentInv'
    BY <1>7 DEF Commit, files
  <1>8. CASE Prepare
    BY <1>8 DEF Prepare
  <1>9. CASE Release
    BY <1>9 DEF Release, files
  <1>10. CASE Fail
    <2>1. MaxFailures # 0
      BY <1>10 DEF Fail, IInv, TypeOK
    <2> QED
      BY <1>10, <2>1 DEF Fail, files
  <1>11. CASE FailInMaintenance
    <2>1. MaxFailures # 0
      BY <1>11 DEF FailInMaintenance, IInv, TypeOK
    <2> QED
      BY <1>11, <2>1 DEF FailInMaintenance, WholeReaders
  <1>12. CASE Crash
    BY <1>12 DEF Crash, files
  <1>13. CASE UNCHANGED vars
    BY <1>13 DEF vars
  <1> QED
    BY <1>1, <1>2, <1>3, <1>4, <1>5, <1>6, <1>7, <1>8, <1>9, <1>10, <1>11, <1>12, <1>13
    DEF Next, Recover

\* Every reachable state of a store with whole readers satisfies the invariant.
LEMMA WholeInvariance == ASSUME WholeReaders PROVE Spec => []WInv
  <1>1. WInv /\ [Next]_vars => WInv'
    <2> SUFFICES ASSUME WInv, [Next]_vars PROVE WInv'
      OBVIOUS
    <2>1. IInv'
      BY NextTypeOK, NextCommitInv, NextRedoInv, NextAckInv, NextFinishInv, NextCopyInv
      DEF IInv, WInv
    <2> QED
      BY <2>1, NextFreshInv, NextCurrentInv, NextAllOrNothing DEF WInv
  <1> QED
    BY InitWInv, <1>1, PTL DEF Spec

\* Transactions are all or nothing to every caller that recovers first.
THEOREM TransactionsAtomic == ASSUME WholeReaders PROVE Spec => []AllOrNothing
  <1>1. WInv => AllOrNothing
    BY DEF WInv
  <1> QED
    BY WholeInvariance, <1>1, PTL

\* No handler under the store mutex observes a partially applied transaction.
THEOREM SnapshotsWhole == ASSUME WholeReaders PROVE Spec => []SnapshotWhole
  <1>1. WInv => SnapshotWhole
    BY DEF WInv, IInv, TypeOK, Documents, CurrentInv, SnapshotWhole, Logical, Pending
  <1> QED
    BY WholeInvariance, <1>1, PTL

\* What is committed stays committed.
THEOREM NothingLost == ASSUME WholeReaders PROVE Spec => CommittedNeverLost
  <1>1. WInv /\ [Next]_vars => [\A d \in Docs : Logical[d] \subseteq Logical'[d]]_vars
    <2> SUFFICES ASSUME WInv, [Next]_vars, NEW d \in Docs
                 PROVE  Logical[d] \subseteq Logical'[d]
      OBVIOUS
    <2>1. CASE Prepare
      BY <2>1, LogicalPrepare
    <2>2. CASE ~Prepare
      BY <2>2, LogicalStep DEF WInv
    <2> QED
      BY <2>1, <2>2
  <1> QED
    BY WholeInvariance, <1>1, PTL DEF Spec, CommittedNeverLost

\* What a commit leaves behind when it throws before its journal is published never enters a
\* document later: a transaction comes in by its own commit or not at all.
THEOREM OwnCommits == ASSUME WholeReaders PROVE Spec => OwnCommitOnly
  <1> DEFINE Own == \A t \in Txns, d \in Docs :
                       t \notin Logical[d] /\ t \in Logical'[d] => t = txn /\ pc = "preparing"
  <1>1. WInv /\ [Next]_vars => [Own]_vars
    <2> SUFFICES ASSUME WInv, [Next]_vars, NEW t \in Txns, NEW d \in Docs,
                        t \notin Logical[d], t \in Logical'[d]
                 PROVE  t = txn /\ pc = "preparing"
      OBVIOUS
    <2>1. Prepare
      BY LogicalStep DEF WInv
    <2>2. t = txn
      BY <2>1, LogicalPrepare
    <2> QED
      BY <2>1, <2>2 DEF Prepare
  <1> QED
    BY WholeInvariance, <1>1, PTL DEF Spec, OwnCommitOnly

-----------------------------------------------------------------------------
(* The store implements AtomicStore *)

\* Files, journal and recovery are invisible to handlers: with whole readers the store
\* behaves as a set of documents that changes by whole transactions and is read whole.
THEOREM ImplementsAtomicStore == ASSUME WholeReaders PROVE Spec => AtomicSpec
  <1> USE DEF Atomic!vars, Atomic!Unread, Blank
  <1>1. Init => Atomic!Init
    BY DEF Init, Atomic!Init, Logical, Pending, Prepared
  <1>2. WInv /\ WInv' /\ [Next]_vars => [Atomic!Next]_Atomic!vars
    <2> SUFFICES ASSUME WInv, WInv', [Next]_vars
                 PROVE  Atomic!Next \/ UNCHANGED Atomic!vars
      OBVIOUS
    <2>1. CASE Prepare
      <3>1. txn \in Txns /\ Atomic!Commit(txn)
        <4>1. pc = "preparing" /\ pc' = "recovering"
          BY <2>1 DEF Prepare
        <4> QED
          BY <2>1, <4>1, LogicalPrepare DEF Atomic!Commit
      <3> QED
        BY <3>1 DEF Atomic!Next
    <2>2. CASE ~Prepare
      <3>1. Logical' = Logical
        BY <2>2, LogicalStep DEF WInv
      <3>2. CASE pc' = "holding"
        <4>1. memory' = Logical'
          BY <3>2 DEF WInv, IInv, TypeOK, Documents, CurrentInv, Logical, Pending
        <4> QED
          BY <3>1, <3>2, <4>1 DEF Atomic!Next, Atomic!Read
      <3>3. CASE pc' # "holding"
        BY <3>1, <3>3 DEF Atomic!Next, Atomic!Forget
      <3> QED
        BY <3>2, <3>3
    <2> QED
      BY <2>1, <2>2
  <1> QED
    BY <1>1, <1>2, WholeInvariance, PTL DEF Spec, AtomicSpec, Atomic!Spec
=============================================================================
