------------------------- MODULE MatchmakingStore -------------------------
(***************************************************************************)
(* The journalled document store of one title                              *)
(* (Services/Matchmaking/matchmaking_store.cpp) under the handlers that     *)
(* use it.  Every file is published by write-then-rename, so a file is     *)
(* always one whole version; a transaction is several files and is made    *)
(* atomic by transaction.json, a redo journal.                             *)
(*                                                                         *)
(* All handlers run under the service-store mutex: at most one is active,  *)
(* and pc = "idle" means that the mutex is free.  What survives a crash is *)
(* disk and journal.                                                       *)
(*                                                                         *)
(* A document is abstracted to the set of transactions whose effect it     *)
(* carries: a handler that rewrites document d in transaction t publishes  *)
(* the copy it holds with t added.                                         *)
(***************************************************************************)
EXTENDS Naturals, FiniteSets

CONSTANTS
    Docs,           \* documents: lobbies/*, searches/*, current-lobbies, enrollments, ...
    Txns,           \* transactions that handlers may try to commit, each once
    NoTxn,          \* no transaction in progress
    WriteSet,       \* the documents a transaction replaces
    Retained,       \* documents the maintenance loop keeps in memory between commits
    Handlers,       \* the kinds of handler that run, a subset of HandlerKinds
    MaxRevision,    \* UINT64_MAX in the code
    MaxFailures,    \* bound: I/O or validation exceptions
    MaxCrashes      \* bound: process crashes

\* task:     a service task or a publication poll; calls recover before it reads.
\* maintain: retireUnavailableManagedTournaments; recovers once, then commits one
\*           transaction per competition, catching the exceptions of each.
\* view:     publicActivity and matchmakingReportIdentity; read without recover.
\* start:    operatorStartMatch; reads without recover and commits.
HandlerKinds == {"task", "maintain", "view", "start"}
Recovering == {"task", "maintain"}
Writers == {"task", "maintain", "start"}

ASSUME StoreAssumption ==
    /\ NoTxn \notin Txns
    /\ WriteSet \in [Txns -> (SUBSET Docs) \ {{}}]
    /\ Retained \subseteq Docs
    /\ Handlers \subseteq HandlerKinds
    /\ MaxRevision \in Nat /\ MaxFailures \in Nat /\ MaxCrashes \in Nat

VARIABLES
    disk,       \* the published content of every document
    journal,    \* transaction.json
    pc,         \* where the code is
    caller,     \* the kind of handler that holds the mutex, or "boot"
    resume,     \* where recoverPending returns to
    todo,       \* journal entries the running recoverPending has not published yet
    memory,     \* the documents as the handler holds them
    txn,        \* the transaction being committed
    issued,     \* transactions some handler has built
    acked,      \* transactions whose commit returned
    failures,   \* exceptions so far
    crashes     \* crashes so far

vars == <<disk, journal, pc, caller, resume, todo, memory, txn, issued, acked,
          failures, crashes>>
files == <<disk, journal>>
bounds == <<failures, crashes>>

Contents == SUBSET Txns
Documents == [Docs -> Contents]
Blank == [d \in Docs |-> {}]

\* transaction.json holds the complete new version of every document in it.
Entries == UNION {[D -> Contents] : D \in SUBSET Docs}
Journals == [revision : Nat, phase : {"none", "prepared", "applied"}, writes : Entries]
NoWrites == [d \in {} |-> {}]

Prepared == journal.phase = "prepared"

\* What recoverPending has to publish when it reads the journal.
Pending == IF Prepared THEN DOMAIN journal.writes ELSE {}

\* The documents as every caller that recovers first will find them.
Logical == [d \in Docs |-> IF d \in Pending THEN journal.writes[d] ELSE disk[d]]

-----------------------------------------------------------------------------
(* Broken variants of the actions below: what a plausible bug would do. *)

\* A task forgets to call recover before it reads.
EnterUnrecovered(kind) ==
    /\ pc = "idle" /\ kind \in Handlers \cap Recovering
    /\ pc' = "holding" /\ caller' = kind
    /\ memory' = disk
    /\ UNCHANGED <<files, resume, todo, txn, issued, acked, bounds>>

\* The completion marker is written before every entry is published.
MarkAppliedEarly ==
    /\ pc = "recovering" /\ Prepared
    /\ journal' = [journal EXCEPT !.phase = "applied", !.writes = NoWrites]
    /\ UNCHANGED <<disk, pc, caller, resume, todo, memory, txn, issued, acked, bounds>>

\* recoverPending returns after the journal is read, publishing nothing.
RecoverReturnEarly ==
    /\ pc = "recovering"
    /\ pc' = CASE resume = "precommit" -> "preparing"
               [] caller = "boot" -> "idle"
               [] OTHER -> "holding"
    /\ memory' = IF resume = "precommit" \/ caller = "boot" THEN memory ELSE disk
    /\ txn' = IF resume = "finish" THEN NoTxn ELSE txn
    /\ acked' = IF resume = "finish" THEN acked \cup {txn} ELSE acked
    /\ todo' = {}
    /\ UNCHANGED <<files, caller, resume, issued, bounds>>

\* commit does not recover before it writes its own journal.
CommitUnrecovered(t) ==
    /\ pc = "holding" /\ caller \in Writers /\ t \notin issued
    /\ txn' = t /\ issued' = issued \cup {t}
    /\ memory' = [d \in Docs |->
                    IF d \in WriteSet[t] THEN memory[d] \cup {t} ELSE memory[d]]
    /\ pc' = "preparing" /\ resume' = "precommit"
    /\ UNCHANGED <<files, caller, todo, acked, bounds>>

-----------------------------------------------------------------------------
Init ==
    /\ disk = Blank
    /\ journal = [revision |-> 0, phase |-> "none", writes |-> NoWrites]
    /\ pc = "down" /\ caller = "boot" /\ resume = "entry"
    /\ todo = {} /\ memory = Blank /\ txn = NoTxn
    /\ issued = {} /\ acked = {}
    /\ failures = 0 /\ crashes = 0

\* initialize: the service recovers every title before it serves anything.
Boot ==
    /\ pc = "down"
    /\ pc' = "recovering" /\ caller' = "boot" /\ resume' = "entry"
    /\ todo' = Pending
    /\ UNCHANGED <<files, memory, txn, issued, acked, bounds>>

\* A handler takes the mutex and calls matchmaking_store::recover.
Enter(kind) ==
    /\ pc = "idle" /\ kind \in Handlers \cap Recovering
    /\ pc' = "recovering" /\ caller' = kind /\ resume' = "entry"
    /\ todo' = Pending
    /\ UNCHANGED <<files, memory, txn, issued, acked, bounds>>

\* A handler takes the mutex and reads the files as they are.
EnterDirect(kind) ==
    /\ pc = "idle" /\ kind \in Handlers \ Recovering
    /\ pc' = "holding" /\ caller' = kind
    /\ memory' = disk
    /\ UNCHANGED <<files, resume, todo, txn, issued, acked, bounds>>

\* One iteration of recoverPending's loop: publish the next snapshot.
ApplyEntry(d) ==
    /\ pc = "recovering" /\ d \in todo
    /\ disk' = [disk EXCEPT ![d] = journal.writes[d]]
    /\ todo' = todo \ {d}
    /\ UNCHANGED <<journal, pc, caller, resume, memory, txn, issued, acked, bounds>>

\* recoverPending replaces the journal by a completion marker.
MarkApplied ==
    /\ pc = "recovering" /\ todo = {} /\ Prepared
    /\ journal' = [journal EXCEPT !.phase = "applied", !.writes = NoWrites]
    /\ UNCHANGED <<disk, pc, caller, resume, todo, memory, txn, issued, acked, bounds>>

\* recoverPending returns to initialize, to a handler's entry, or into commit.
RecoverReturn ==
    /\ pc = "recovering" /\ todo = {} /\ ~Prepared
    /\ pc' = CASE resume = "precommit" -> "preparing"
               [] caller = "boot" -> "idle"
               [] OTHER -> "holding"
    /\ memory' = IF resume = "precommit" \/ caller = "boot" THEN memory ELSE disk
    /\ txn' = IF resume = "finish" THEN NoTxn ELSE txn
    /\ acked' = IF resume = "finish" THEN acked \cup {txn} ELSE acked
    /\ UNCHANGED <<files, caller, resume, todo, issued, bounds>>

\* A handler edits its copies and calls commit, which recovers first.
Commit(t) ==
    /\ pc = "holding" /\ caller \in Writers /\ t \notin issued
    /\ txn' = t /\ issued' = issued \cup {t}
    /\ memory' = [d \in Docs |->
                    IF d \in WriteSet[t] THEN memory[d] \cup {t} ELSE memory[d]]
    /\ pc' = "recovering" /\ resume' = "precommit"
    /\ todo' = Pending
    /\ UNCHANGED <<files, caller, acked, bounds>>

\* commit publishes the prepared journal: from here on the transaction rolls forward.
Prepare ==
    /\ pc = "preparing" /\ journal.revision < MaxRevision
    /\ journal' = [revision |-> journal.revision + 1, phase |-> "prepared",
                   writes |-> [d \in WriteSet[txn] |-> memory[d]]]
    /\ pc' = "recovering" /\ resume' = "finish"
    /\ todo' = WriteSet[txn]
    /\ UNCHANGED <<disk, caller, memory, txn, issued, acked, bounds>>

\* The handler returns and the mutex is released.
Release ==
    /\ pc = "holding"
    /\ pc' = "idle" /\ memory' = Blank
    /\ UNCHANGED <<files, caller, resume, todo, txn, issued, acked, bounds>>

\* A read, a write or a check throws inside recoverPending or commit.  Whatever
\* was published stays; the exception leaves the handler, or initialize.
Fail ==
    /\ pc \in {"recovering", "preparing"}
    /\ caller # "maintain" \/ resume = "entry"
    /\ failures < MaxFailures
    /\ failures' = failures + 1
    /\ pc' = IF caller = "boot" THEN "down" ELSE "idle"
    /\ todo' = {} /\ txn' = NoTxn /\ memory' = Blank
    /\ UNCHANGED <<files, caller, resume, issued, acked, crashes>>

\* The maintenance loop catches a competition's exception and goes on to the next
\* with the enrollment it has already edited; it reads the other files again.
FailInMaintenance ==
    /\ pc \in {"recovering", "preparing"} /\ caller = "maintain" /\ resume # "entry"
    /\ failures < MaxFailures
    /\ failures' = failures + 1
    /\ pc' = "holding"
    /\ todo' = {} /\ txn' = NoTxn
    /\ memory' = [d \in Docs |-> IF d \in Retained THEN memory[d] ELSE disk[d]]
    /\ UNCHANGED <<files, caller, resume, issued, acked, crashes>>

\* The process dies; files keep the versions last renamed into place.
Crash ==
    /\ pc # "down" /\ crashes < MaxCrashes
    /\ crashes' = crashes + 1
    /\ pc' = "down" /\ todo' = {} /\ txn' = NoTxn /\ memory' = Blank
    /\ UNCHANGED <<files, caller, resume, issued, acked, failures>>

Recover == (\E d \in Docs : ApplyEntry(d)) \/ MarkApplied \/ RecoverReturn

Next ==
    \/ Boot
    \/ \E kind \in HandlerKinds : Enter(kind) \/ EnterDirect(kind)
    \/ Recover
    \/ \E t \in Txns : Commit(t)
    \/ Prepare
    \/ Release
    \/ Fail
    \/ FailInMaintenance
    \/ Crash

\* A handler that holds the mutex runs to its end, and the publication polls keep
\* entering the store once a second.  Nothing obliges the process to be restarted.
Fairness == WF_vars(Recover) /\ WF_vars(Prepare) /\ WF_vars(Release) /\ WF_vars(Enter("task"))

Spec == Init /\ [][Next]_vars
FairSpec == Spec /\ Fairness

-----------------------------------------------------------------------------
(* Properties *)

\* Every variable keeps its type; the pending entries belong to the journal.
TypeOK ==
    /\ disk \in Documents /\ memory \in Documents
    /\ journal \in Journals
    /\ pc \in {"down", "idle", "recovering", "holding", "preparing"}
    /\ caller \in HandlerKinds \cup {"boot"}
    /\ resume \in {"entry", "precommit", "finish"}
    /\ todo \subseteq Pending
    /\ txn \in Txns \cup {NoTxn}
    /\ issued \subseteq Txns /\ acked \subseteq issued
    /\ failures \in 0 .. MaxFailures /\ crashes \in 0 .. MaxCrashes

\* A transaction is in all the documents it writes or in none of them, as seen by
\* any caller that recovers first: "incomplete commits roll forward"
\* (matchmaking_store.h), whatever crashed or failed in between.
AllOrNothing ==
    \A t \in Txns : \A d, e \in WriteSet[t] : t \in Logical[d] <=> t \in Logical[e]

\* A handler reads only what committed transactions left, never half of one: "No
\* reader under the store mutex can observe a partially applied transaction".
SnapshotWhole == pc = "holding" => memory = Logical

\* A transaction whose commit returned to its handler is in every file it wrote and
\* stays there: no later crash, failure, stale commit or recovery takes it back.
AckedOnDisk == \A t \in acked : \A d \in WriteSet[t] : t \in disk[d]

\* No step takes a committed change out of a document again.
CommittedNeverLost == [][\A d \in Docs : Logical[d] \subseteq Logical'[d]]_vars

\* A prepared journal is replaced only by the completion marker of the same revision,
\* and only once every entry is published; it is never overwritten by a later commit.
RedoLogKept ==
    [][Prepared /\ journal' # journal =>
         /\ journal'.phase = "applied" /\ journal'.revision = journal.revision
         /\ \A d \in DOMAIN journal.writes : disk[d] = journal.writes[d]]_vars

\* A transaction enters the documents in the step that publishes its own journal and in no
\* other: a commit that threw before that, or died, is not brought in by a later one.
OwnCommitOnly ==
    [][\A t \in Txns, d \in Docs :
         t \notin Logical[d] /\ t \in Logical'[d] => t = txn /\ pc = "preparing"]_vars

\* A prepared transaction is rolled forward by some later entry, unless the process dies.
RollsForward == Prepared ~> (~Prepared \/ pc = "down")

\* The store implements whole transactions: the prepared journal is the commit point.
Atomic == INSTANCE AtomicStore WITH
            store <- Logical, snapshot <- IF pc = "holding" THEN memory ELSE Blank
AtomicSpec == Atomic!Spec
=============================================================================
