---------------------------- MODULE AtomicStore ----------------------------
(***************************************************************************)
(* What the matchmaking document store promises its callers: a set of      *)
(* documents that changes only by whole transactions, and readers that see *)
(* the documents exactly as the committed transactions left them.  There   *)
(* are no files, no journal and no crashes here.                           *)
(*                                                                         *)
(* The content of a document is abstracted to the set of the transactions  *)
(* whose effect it carries, which is all that atomicity can tell apart.    *)
(***************************************************************************)
CONSTANTS
    Docs,       \* the documents of one title
    Txns,       \* the transactions handlers may commit
    WriteSet    \* the documents each transaction replaces

VARIABLES
    store,      \* the committed content of every document
    snapshot    \* what the handler holding the store mutex has read

vars == <<store, snapshot>>

Stores == [Docs -> SUBSET Txns]
Unread == [d \in Docs |-> {}]

Init == store = [d \in Docs |-> {}] /\ snapshot = Unread

\* A handler reads every document it needs as one snapshot.
Read == snapshot' = store /\ UNCHANGED store

\* A transaction takes effect on all of its documents at once.
Commit(t) ==
    /\ \A d \in Docs : t \notin store[d]
    /\ store' = [d \in Docs |-> IF d \in WriteSet[t] THEN store[d] \cup {t} ELSE store[d]]
    /\ UNCHANGED snapshot

\* The handler forgets what it read.
Forget == snapshot' = Unread /\ UNCHANGED store

Next == Read \/ Forget \/ \E t \in Txns : Commit(t)

Spec == Init /\ [][Next]_vars
=============================================================================
