-------------------------- MODULE AccountRegistry --------------------------
(***************************************************************************)
(* What the platform promises of its accounts: a name and a record of      *)
(* credentials per account that every request changes whole or not at all, *)
(* crashes and failed writes included.                                     *)
(***************************************************************************)
EXTENDS Naturals

CONSTANTS Users, Names, NoName, Emails, NoEmail

VARIABLE accounts   \* [Users -> [name, record : [email, version]]]

\* A machine becomes an account, an account is renamed ...
Register(u, n) ==
    /\ accounts[u].name = NoName
    /\ accounts' = [accounts EXCEPT ![u].name = n]

Rename(u, n) ==
    /\ accounts[u].name # NoName
    /\ accounts' = [accounts EXCEPT ![u].name = n]

\* ... or updated: name and record together, and a new address is a new version of the
\* credentials.
Change(u, n, e) ==
    /\ accounts[u].name # NoName
    /\ \E v \in {accounts[u].record.version, accounts[u].record.version + 1} :
         /\ v > 0
         /\ e # accounts[u].record.email => v > accounts[u].record.version
         /\ accounts' = [accounts EXCEPT ![u] =
                           [name |-> n, record |-> [email |-> e, version |-> v]]]

Init ==
    accounts \in [Users -> [name : Names \cup {NoName},
                            record : {[email |-> NoEmail, version |-> 0]}]]

Next == \E u \in Users, n \in Names :
    Register(u, n) \/ Rename(u, n) \/ \E e \in Emails \cup {NoEmail} : Change(u, n, e)

Spec == Init /\ [][Next]_accounts
=============================================================================
