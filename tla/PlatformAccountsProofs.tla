---------------------- MODULE PlatformAccountsProofs ----------------------
(***************************************************************************)
(* Proofs about PlatformAccounts, for every set of accounts, names,        *)
(* addresses and sessions and every number of failures and crashes.        *)
(***************************************************************************)
EXTENDS PlatformAccounts, TLAPS

\* Operations that recover their account's intent and then change it.
Serving == Authorized \cup {"login"}
InSession == Serving \cup {"authenticate"}

\* Who is being finished, and for whom.
Control ==
    /\ pc \in {"down", "free", "recover", "body", "issue", "grant"} => owner = NoUser
    /\ pc \in {"down", "free"} => op = NoOperation /\ resume = "recover"
    /\ pc = "revoke" \/ (pc = "saving" /\ owner # NoUser) =>
         intent[owner] # NoIntent /\ intent[owner].revoke
    /\ pc = "recover" => resume = "recover"
    /\ \A u \in queue : intent[u] # NoIntent /\ u # owner
    /\ pc \in {"issue", "grant", "body"} => op.kind \in InSession
    /\ pc \in {"issue", "grant"} => op.kind \in Serving
    /\ resume # "recover" =>
         op.kind \in Authorized /\ (owner = NoUser \/ owner = op.user)

\* The request's session and account are there.
Session ==
    /\ op.kind \in InSession =>
         op.session \in Sessions /\ op.user = Holder[op.session] /\ Known(op.user)
    /\ op.kind \in Authorized => Live(op.session)
    /\ \A s \in Sessions :
         issued[s] # NoSession \/ saved[s] # NoSession \/ previous[s] # NoSession =>
           Known(Holder[s])

\* A request reads its account only after its intent is finished.
Recovered ==
    /\ op.kind \in Serving /\ pc \in {"body", "issue", "grant"} => intent[op.user] = NoIntent
    /\ op.kind \in Serving /\ resume = "recover" =>
         intent[op.user] = NoIntent \/ op.user \in queue \/ op.user = owner

\* The files hold what an intent replaces or what it publishes, and its record once the
\* first publication is over.
Continues ==
    /\ \A u \in Users : intent[u] # NoIntent =>
         /\ name[u] \in {intent[u].before, intent[u].name}
         /\ record[u] \in {intent[u].old, intent[u].record}
         /\ ~intent[u].revoke => intent[u].old.version = intent[u].record.version
    /\ pc \in {"identity", "revoke", "retire"} \/ (pc = "saving" /\ owner # NoUser) =>
         record[owner] = intent[owner].record
    /\ pc \in {"revoke", "retire"} \/ (pc = "saving" /\ owner # NoUser) =>
         name[owner] = intent[owner].name

TypeInv == TypeOK /\ Control /\ Session /\ Recovered /\ Continues

LEMMA InitTypeInv == Init => TypeInv
  <1> SUFFICES ASSUME Init PROVE TypeInv
    OBVIOUS
  <1> USE AccountAssumption DEF Init, NoOperation
  <1>1. TypeOK
    BY DEF TypeOK, Users, Records, NoRecord, Operations, Kinds, NoSession, Published
  <1>2. Control
    BY DEF Control
  <1>3. Session
    BY DEF Session, InSession, Serving, Authorized
  <1>4. Recovered /\ Continues
    BY DEF Recovered, Continues, Serving, Authorized
  <1> QED
    BY <1>1, <1>2, <1>3, <1>4 DEF TypeInv

LEMMA NextTypeInv == TypeInv /\ [Next]_vars => TypeInv'
  <1> SUFFICES ASSUME TypeInv, [Next]_vars PROVE TypeInv'
    OBVIOUS
  <1> USE AccountAssumption, IntentAssumption
      DEF TypeInv, TypeOK, Control, Session, Recovered, Continues, InSession, Serving,
          Authorized, ReadOnly, Operations, NoOperation, Kinds, Published, Known, Live,
          files, sessions, control, bounds
  <1> NoSession \in Nat /\ NoSession # 0
    BY DEF NoSession
  <1>1. CASE Boot
    BY <1>1 DEF Boot, PendingUsers
  <1>2. CASE Arrive
    <2>1. ASSUME NEW kind \in Kinds, NEW u \in Users \cup {NoUser},
                 NEW s \in Sessions \cup {NoUser}, Enter(kind, u, s),
                 kind \in InSession => s \in Sessions /\ u = Holder[s] /\ Known(u),
                 kind \in Authorized => Live(s)
          PROVE  TypeInv'
      BY <2>1 DEF Enter, PendingUsers
    <2>2. CASE Enter("find", NoUser, NoUser)
      BY <2>1, <2>2
    <2>3. ASSUME NEW u \in Users, Known(u), Enter("lookup", u, NoUser) PROVE TypeInv'
      BY <2>1, <2>3
    <2>4. ASSUME NEW s \in Sessions, Known(Holder[s]), Enter("login", Holder[s], s)
          PROVE TypeInv'
      BY <2>1, <2>4
    <2>5. ASSUME NEW s \in Sessions, NEW kind \in Authorized \cup {"authenticate"},
                 Live(s), Enter(kind, Holder[s], s)
          PROVE TypeInv'
      BY <2>1, <2>5
    <2> QED
      BY <1>2, <2>2, <2>3, <2>4, <2>5 DEF Arrive
  <1>3. ASSUME NEW s \in Sessions, NEW n \in Names, Register(s, n) PROVE TypeInv'
    BY <1>3 DEF Register, Users, Intents
  <1>4. CASE RecoverNext
    BY <1>4 DEF RecoverNext
  <1>5. CASE RecoverDone
    BY <1>5 DEF RecoverDone, Return
  <1>6. CASE Validate
    BY <1>6 DEF Validate
  <1>7. CASE Refuse
    BY <1>7 DEF Refuse, Thrown
  <1>8. CASE PublishDocument
    BY <1>8 DEF PublishDocument, Intents, Records
  <1>9. CASE PublishIdentity
    BY <1>9 DEF PublishIdentity, Intents
  <1>10. CASE Revoke
    BY <1>10 DEF Revoke, Mutate
  <1>11. CASE Save
    BY <1>11 DEF Save, Return
  <1>12. CASE SaveFailed
    BY <1>12 DEF SaveFailed, Thrown
  <1>13. CASE Retire
    BY <1>13 DEF Retire, Return
  <1>14. ASSUME NEW n \in Names, Login(n) PROVE TypeInv'
    BY <1>14 DEF Login
  <1>15. CASE Issue
    BY <1>15 DEF Issue, Mutate
  <1>16. ASSUME NEW n \in Names, renameAccount(n) PROVE TypeInv'
    BY <1>16 DEF renameAccount, Return
  <1>17. ASSUME NEW n \in Names, NEW new \in Records, new.version > 0, NEW revoke \in BOOLEAN,
                NEW then \in {"grant", "free"}, Commit(n, new, revoke, then),
                pc = "body", op.kind \in Authorized,
                ~revoke => new.version = record[op.user].version
         PROVE  TypeInv'
    BY <1>17 DEF Commit, Intents, Records
  <1>18. ASSUME NEW n \in Names, NEW e \in Emails \cup {NoEmail}, NEW password \in BOOLEAN,
                Update(n, e, password)
         PROVE  TypeInv'
    <2> DEFINE old == record[op.user]
               changed == old.version = 0 \/ e # old.email \/ password
               new == [email |-> e, version |-> IF changed THEN old.version + 1 ELSE old.version]
    <2>1. op.user \in Users /\ op.kind \in Authorized /\ pc = "body"
      BY <1>18 DEF Update
    <2>2. old \in Records
      BY <2>1
    <2>3. new \in Records /\ new.version > 0 /\ (~changed => new.version = old.version)
      BY <1>18, <2>2 DEF Update, Records
    <2>4. Commit(n, new, changed, "grant")
      BY <1>18 DEF Update
    <2>5. changed \in BOOLEAN
      OBVIOUS
    <2> HIDE DEF new, changed
    <2> QED
      BY <1>17, <2>1, <2>3, <2>4, <2>5
  <1>19. CASE Link
    <2>1. op.user \in Users /\ op.kind \in Authorized /\ pc = "body" /\ name[op.user] \in Names
      BY <1>19 DEF Link
    <2>2. record[op.user] \in Records /\ record[op.user].version > 0
      BY <1>19, <2>1 DEF Link
    <2>3. Commit(name[op.user], record[op.user], FALSE, "free")
      BY <1>19 DEF Link
    <2> QED
      BY <1>17, <2>1, <2>2, <2>3
  <1>20. CASE Password
    BY <1>20 DEF Password
  <1>21. CASE Grant
    <2>1. op.user \in Users /\ op.session \in Sessions /\ op.kind \in InSession /\ pc = "grant"
      BY <1>21 DEF Grant
    <2>2. record[op.user].version \in 0 .. MaxVersion
      BY <2>1 DEF Records
    <2>3. record[op.user].version \in 0 .. NoSession /\ record[op.user].version # NoSession
      BY <2>2 DEF NoSession
    <2>4. CASE issued[op.session] = 0
      <3>1. Mutate([issued EXCEPT ![op.session] = record[op.user].version])
        BY <1>21, <2>4 DEF Grant
      <3> QED
        BY <2>1, <2>3, <3>1 DEF Mutate
    <2>5. CASE issued[op.session] # 0
      BY <1>21, <2>5 DEF Grant, Return
    <2> QED
      BY <2>4, <2>5
  <1>22. CASE Authenticate
    BY <1>22 DEF Authenticate, Mutate
  <1>23. CASE Reject
    BY <1>23 DEF Reject, Return
  <1>24. CASE Throw
    BY <1>24 DEF Throw, Thrown
  <1>25. ASSUME NEW s \in Sessions, Expire(s) PROVE TypeInv'
    BY <1>25 DEF Expire
  <1>26. CASE Crash
    BY <1>26 DEF Crash
  <1>27. CASE UNCHANGED vars
    BY <1>27 DEF vars
  <1> HIDE DEF TypeInv
  <1> QED
    BY <1>1, <1>2, <1>3, <1>4, <1>5, <1>6, <1>7, <1>8, <1>9, <1>10, <1>11, <1>12, <1>13, <1>14,
       <1>15, <1>16, <1>18, <1>19, <1>20, <1>21, <1>22, <1>23, <1>24, <1>25, <1>26, <1>27
    DEF Next, Finish, Body

-----------------------------------------------------------------------------
\* An intent that was validated still has its name free when it is published.
NamesInv ==
    /\ NamesDiffer
    /\ pc \in {"document", "identity"} => availableName(intent[owner].name, owner)

\* Taking an available name keeps the names apart.
LEMMA NameTaken ==
  ASSUME TypeOK, NamesDiffer, NEW u \in Users, NEW n \in Names, availableName(n, u),
         name' = [name EXCEPT ![u] = n]
  PROVE  NamesDiffer'
  BY DEF TypeOK, NamesDiffer, availableName, Rivals, Known, Users

LEMMA NextNamesInv == TypeInv /\ NamesInv /\ [Next]_vars => NamesInv'
  <1> SUFFICES ASSUME TypeInv, NamesInv, [Next]_vars PROVE NamesInv'
    OBVIOUS
  <1> USE DEF TypeInv, NamesInv, files
  <1>1. CASE UNCHANGED name /\ pc' \notin {"document", "identity"}
    BY <1>1 DEF NamesDiffer, Known
  <1>2. ASSUME NEW s \in Sessions, NEW n \in Names, Register(s, n) PROVE NamesInv'
    <2>1. Holder[s] \in Users
      BY AccountAssumption
    <2> QED
      BY <1>2, <2>1, NameTaken DEF Register
  <1>3. CASE Validate
    BY <1>3 DEF Validate, Publishable, availableName, NamesDiffer, Known, control
  <1>4. CASE PublishDocument
    BY <1>4 DEF PublishDocument, availableName, NamesDiffer, Known, control
  <1>5. CASE PublishIdentity
    <2>1. owner \in Users /\ intent[owner].name \in Names
      BY <1>5 DEF PublishIdentity, TypeOK, Published, Intents
    <2>2. NamesDiffer'
      BY <1>5, <2>1, NameTaken DEF PublishIdentity
    <2> QED
      BY <1>5, <2>2 DEF PublishIdentity
  <1>6. ASSUME NEW n \in Names, Login(n) \/ renameAccount(n) PROVE NamesInv'
    <2>1. op.user \in Users /\ name \in [Users -> Names \cup {NoName}]
      BY <1>6, AccountAssumption
      DEF Login, renameAccount, Session, InSession, Serving, Authorized, TypeOK
    <2>2. name' = [name EXCEPT ![op.user] = n] /\ pc' \in {"issue", "free"}
      BY <1>6 DEF Login, renameAccount, Return
    <2>3. CASE availableName(n, op.user)
      BY <2>1, <2>2, <2>3, NameTaken
    <2>4. CASE n = name[op.user]
      <3>1. name' = name
        BY <2>1, <2>2, <2>4
      <3> QED
        BY <1>1, <2>2, <3>1
    <2> QED
      BY <1>6, <2>3, <2>4 DEF Login, renameAccount
  <1>7. ASSUME NEW n, NEW new, NEW revoke, NEW then, Commit(n, new, revoke, then)
        PROVE  NamesInv'
    BY <1>1, <1>7 DEF Commit
  <1>8. CASE Arrive
    BY <1>1, <1>8 DEF Arrive, Enter
  <1>9. CASE Boot \/ RecoverNext \/ RecoverDone
    BY <1>1, <1>9 DEF Boot, RecoverNext, RecoverDone, Return
  <1>10. CASE Refuse \/ SaveFailed \/ Throw \/ Crash
    BY <1>1, <1>10 DEF Refuse, SaveFailed, Throw, Crash, Thrown
  <1>11. CASE Revoke \/ Save \/ Issue \/ Grant \/ Authenticate
    BY <1>1, <1>11 DEF Revoke, Save, Issue, Grant, Authenticate, Mutate, Return
  <1>12. CASE Retire
    BY <1>1, <1>12 DEF Retire, Return, TypeOK
  <1>13. ASSUME NEW s \in Sessions, Expire(s) PROVE NamesInv'
    BY <1>1, <1>13 DEF Expire
  <1>14. CASE \/ \E n \in Names, e \in Emails \cup {NoEmail}, password \in BOOLEAN :
                   Update(n, e, password)
              \/ Link
    BY <1>7, <1>14 DEF Update, Link
  <1>15. CASE Password \/ Reject
    BY <1>1, <1>15 DEF Password, Reject, Return
  <1>16. CASE UNCHANGED vars
    BY <1>16 DEF vars, NamesDiffer, Known, availableName
  <1> HIDE DEF TypeInv, NamesInv
  <1> QED
    BY <1>2, <1>3, <1>4, <1>5, <1>6, <1>8, <1>9, <1>10, <1>11, <1>12, <1>13, <1>14, <1>15, <1>16
    DEF Next, Finish, Body

-----------------------------------------------------------------------------
\* Nothing of an account's sessions is left to revoke once they are saved.
GrantInv ==
    /\ SessionsSaved
    /\ pc = "saving" => previous = saved
    /\ GrantsCurrent
    /\ (pc = "retire" /\ intent[owner].revoke) \/ (pc = "saving" /\ owner # NoUser) =>
         \A s \in Sessions : Holder[s] = owner => issued[s] \in {0, NoSession}

LEMMA NextGrantInv == TypeInv /\ GrantInv /\ [Next]_vars => GrantInv'
  <1> SUFFICES ASSUME TypeInv, GrantInv, [Next]_vars PROVE GrantInv'
    OBVIOUS
  <1> USE AccountAssumption
      DEF TypeInv, TypeOK, GrantInv, SessionsSaved, GrantsCurrent, Current, files, sessions,
          control, bounds
  <1>1. CASE Boot
    BY <1>1 DEF Boot
  <1>2. CASE Arrive
    BY <1>2 DEF Arrive, Enter
  <1>3. ASSUME NEW s \in Sessions, NEW n \in Names, Register(s, n) PROVE GrantInv'
    BY <1>3 DEF Register
  <1>4. CASE RecoverNext \/ Validate
    BY <1>4 DEF RecoverNext, Validate
  <1>5. CASE RecoverDone
    BY <1>5 DEF RecoverDone, Return
  <1>6. CASE Refuse \/ Throw
    BY <1>6 DEF Refuse, Throw, Thrown
  <1>7. CASE PublishDocument
    <2>1. owner \in Users /\ intent[owner] # NoIntent /\ record' = [record EXCEPT ![owner] = intent[owner].record]
      BY <1>7 DEF PublishDocument, Published
    <2>2. ~intent[owner].revoke => record'[owner].version = record[owner].version
      BY <2>1 DEF Continues
    <2> QED
      BY <1>7, <2>1, <2>2 DEF PublishDocument
  <1>8. CASE PublishIdentity
    BY <1>8 DEF PublishIdentity
  <1>9. CASE Revoke
    BY <1>9 DEF Revoke, Mutate, Live
  <1>10. CASE Save
    BY <1>10 DEF Save, Return
  <1>11. CASE SaveFailed
    BY <1>11 DEF SaveFailed, Thrown
  <1>12. CASE Retire
    BY <1>12 DEF Retire, Return
  <1>13. ASSUME NEW n \in Names, Login(n) PROVE GrantInv'
    BY <1>13 DEF Login
  <1>14. CASE Issue \/ Authenticate
    BY <1>14 DEF Issue, Authenticate, Mutate, Control
  <1>15. ASSUME NEW n \in Names, renameAccount(n) PROVE GrantInv'
    BY <1>15 DEF renameAccount, Return
  <1>16. ASSUME NEW n, NEW new, NEW revoke, NEW then, Commit(n, new, revoke, then), pc = "body"
         PROVE  GrantInv'
    BY <1>16 DEF Commit
  <1>17. CASE \/ \E n \in Names, e \in Emails \cup {NoEmail}, password \in BOOLEAN :
                   Update(n, e, password)
              \/ Link
    BY <1>16, <1>17 DEF Update, Link
  <1>18. CASE Grant
    BY <1>18 DEF Grant, Mutate, Return, Control, Session, InSession
  <1>19. CASE Password
    BY <1>19 DEF Password
  <1>20. CASE Reject
    BY <1>20 DEF Reject, Return
  <1>21. ASSUME NEW s \in Sessions, Expire(s) PROVE GrantInv'
    BY <1>21 DEF Expire
  <1>22. CASE Crash
    BY <1>22 DEF Crash
  <1>23. CASE UNCHANGED vars
    BY <1>23 DEF vars
  <1> HIDE DEF TypeInv, GrantInv
  <1> QED
    BY <1>1, <1>2, <1>3, <1>4, <1>5, <1>6, <1>7, <1>8, <1>9, <1>10, <1>11, <1>12, <1>13, <1>14,
       <1>15, <1>17, <1>18, <1>19, <1>20, <1>21, <1>22, <1>23
    DEF Next, Finish, Body

-----------------------------------------------------------------------------
IInv == TypeInv /\ NamesInv /\ GrantInv

LEMMA InitIInv == Init => IInv
  <1> SUFFICES ASSUME Init PROVE IInv
    OBVIOUS
  <1>1. NamesInv
    BY AccountAssumption DEF Init, NamesInv, NamesDiffer, Known, Users
  <1>2. GrantInv
    BY AccountAssumption DEF Init, GrantInv, SessionsSaved, GrantsCurrent, Current
  <1> QED
    BY <1>1, <1>2, InitTypeInv DEF IInv

THEOREM Invariance == Spec => []IInv
  <1>1. IInv /\ [Next]_vars => IInv'
    BY NextTypeInv, NextNamesInv, NextGrantInv DEF IInv
  <1> QED
    BY InitIInv, <1>1, PTL DEF Spec

\* Types: every intent being finished exists and carries a record.
THEOREM TypeCorrect == Spec => []TypeOK
  <1>1. IInv => TypeOK
    BY DEF IInv, TypeInv
  <1> QED
    BY Invariance, <1>1, PTL

\* Accounts of one kind never share a name.
THEOREM NamesApart == Spec => []NamesDiffer
  <1>1. IInv => NamesDiffer
    BY DEF IInv, NamesInv
  <1> QED
    BY Invariance, <1>1, PTL

\* The sessions in memory are the ones a restart would load.
THEOREM SessionsDurable == Spec => []SessionsSaved
  <1>1. IInv => SessionsSaved
    BY DEF IInv, GrantInv
  <1> QED
    BY Invariance, <1>1, PTL

\* A token of older credentials is on its way out, wherever a failure or crash falls.
THEOREM OldGrantsDoomed == Spec => []GrantsCurrent
  <1>1. IInv => GrantsCurrent
    BY DEF IInv, GrantInv
  <1> QED
    BY Invariance, <1>1, PTL

\* No request is authorized by a token of older credentials.
THEOREM StaleNeverAuthorizes == Spec => []NoStaleAuthorization
  <1>1. IInv => NoStaleAuthorization
    <2> SUFFICES ASSUME IInv, pc = "body", op.kind \in Authorized
                 PROVE  issued[op.session] \in {0, record[op.user].version}
      BY DEF NoStaleAuthorization
    <2>1. /\ op.session \in Sessions /\ op.user = Holder[op.session]
          /\ issued[op.session] # NoSession /\ intent[op.user] = NoIntent
      BY DEF IInv, TypeInv, Session, Recovered, InSession, Serving, Live
    <2> QED
      BY <2>1 DEF IInv, GrantInv, GrantsCurrent, Current
  <1> QED
    BY Invariance, <1>1, PTL

-----------------------------------------------------------------------------
\* An account without an intent is what its files hold.
LEMMA RenameRefines ==
  ASSUME TypeOK, NEW u \in Users, NEW n \in Names, intent[u] = NoIntent,
         name' = [name EXCEPT ![u] = n], UNCHANGED <<record, intent>>
  PROVE  Accounts' = [Accounts EXCEPT ![u].name = n] /\ Accounts[u].name = name[u]
  BY DEF TypeOK, Accounts

\* Writing the intent is the moment at which an account changes.
LEMMA CommitRefines ==
  ASSUME TypeOK, op.user \in Users, name[op.user] \in Names,
         NEW n \in Names, NEW new \in Records, new.version > 0,
         NEW revoke \in BOOLEAN, NEW then, Commit(n, new, revoke, then)
  PROVE  /\ Accounts' = [Accounts EXCEPT ![op.user] = [name |-> n, record |-> new]]
         /\ Accounts[op.user] = [name |-> name[op.user], record |-> record[op.user]]
  <1> DEFINE u == op.user
             i == [before |-> name[u], name |-> n, old |-> record[u], record |-> new,
                   revoke |-> revoke]
  <1>1. intent[u] = NoIntent /\ intent' = [intent EXCEPT ![u] = i] /\ UNCHANGED <<name, record>>
    BY DEF Commit
  <1>2. i \in Intents
    BY DEF Intents, Records, TypeOK
  <1>3. i # NoIntent /\ i.name = n /\ i.record = new
    BY <1>2, IntentAssumption
  <1> HIDE DEF i
  <1>4. \A v \in Users : intent'[v] = IF v = u THEN i ELSE intent[v]
    BY <1>1 DEF TypeOK
  <1>5. \A v \in Users : Accounts'[v] =
          IF v = u THEN [name |-> n, record |-> new] ELSE Accounts[v]
    BY <1>1, <1>3, <1>4 DEF Accounts
  <1>6. Accounts[u] = [name |-> name[u], record |-> record[u]]
    BY <1>1 DEF Accounts
  <1>7. Accounts = [v \in Users |-> Accounts[v]] /\ Accounts' = [v \in Users |-> Accounts'[v]]
    BY DEF Accounts
  <1>8. Accounts' = [Accounts EXCEPT ![u] = [name |-> n, record |-> new]]
    BY <1>5, <1>7
  <1> QED
    BY <1>6, <1>8

\* Every step changes one account, whole, or none.
LEMMA StepRefines == TypeInv /\ [Next]_vars => [Registry!Next]_Accounts
  <1> SUFFICES ASSUME TypeInv, [Next]_vars PROVE [Registry!Next]_Accounts
    OBVIOUS
  <1> USE DEF TypeInv, files
  <1>1. CASE UNCHANGED <<name, record, intent>>
    BY <1>1 DEF Accounts
  <1>2. ASSUME NEW s \in Sessions, NEW n \in Names, Register(s, n)
        PROVE  [Registry!Next]_Accounts
    <2>1. Holder[s] \in Users /\ name[Holder[s]] = NoName
      BY <1>2, AccountAssumption DEF Register, Known
    <2>2. intent[Holder[s]] = NoIntent
      BY <2>1, AccountAssumption DEF Continues, TypeOK, Intents
    <2> QED
      BY <1>2, <2>1, <2>2, RenameRefines DEF Register, Registry!Next, Registry!Register
  <1>3. ASSUME NEW n \in Names, Login(n) \/ renameAccount(n)
        PROVE  [Registry!Next]_Accounts
    <2>1. op.user \in Users /\ name[op.user] # NoName /\ intent[op.user] = NoIntent
      BY <1>3, AccountAssumption DEF Login, renameAccount, Session, Recovered, InSession,
         Serving, Authorized, Known
    <2> QED
      BY <1>3, <2>1, RenameRefines DEF Login, renameAccount, Registry!Next, Registry!Rename
  <1>4. CASE PublishDocument
    <2>1. owner \in Users /\ intent[owner] # NoIntent
          /\ record' = [record EXCEPT ![owner] = intent[owner].record]
      BY <1>4 DEF PublishDocument, Published, TypeOK
    <2> QED
      BY <1>4, <2>1 DEF PublishDocument, Accounts, TypeOK
  <1>5. CASE PublishIdentity
    <2>1. owner \in Users /\ intent[owner] # NoIntent
          /\ name' = [name EXCEPT ![owner] = intent[owner].name]
      BY <1>5 DEF PublishIdentity, Published, TypeOK
    <2> QED
      BY <1>5, <2>1 DEF PublishIdentity, Accounts, TypeOK
  <1>6. CASE Retire
    <2>1. owner \in Users /\ intent[owner] # NoIntent /\ record[owner] = intent[owner].record
          /\ name[owner] = intent[owner].name
      BY <1>6 DEF Retire, Published, TypeOK, Continues
    <2>2. intent' = [intent EXCEPT ![owner] = NoIntent] /\ UNCHANGED <<name, record>>
      BY <1>6 DEF Retire
    <2> QED
      BY <2>1, <2>2 DEF Accounts, TypeOK
  <1>7. ASSUME NEW n \in Names, NEW e \in Emails \cup {NoEmail}, NEW password \in BOOLEAN,
               Update(n, e, password)
        PROVE  [Registry!Next]_Accounts
    <2> DEFINE old == record[op.user]
               changed == old.version = 0 \/ e # old.email \/ password
               new == [email |-> e, version |-> IF changed THEN old.version + 1 ELSE old.version]
    <2>1. op.user \in Users /\ name[op.user] \in Names
      BY <1>7, AccountAssumption
      DEF Update, Session, InSession, Serving, Authorized, Known, TypeOK
    <2>2. old \in Records
      BY <2>1 DEF TypeOK
    <2>3. new \in Records /\ new.version > 0
      BY <1>7, <2>2, AccountAssumption DEF Update, Records
    <2>4. Commit(n, new, changed, "grant") /\ changed \in BOOLEAN
      BY <1>7 DEF Update
    <2>5. /\ new.version \in {old.version, old.version + 1}
          /\ e # old.email => new.version > old.version
      BY <2>2 DEF Records
    <2>6. new = [email |-> e, version |-> new.version]
      OBVIOUS
    <2> HIDE DEF new, changed
    <2>7. /\ Accounts' = [Accounts EXCEPT ![op.user] = [name |-> n, record |-> new]]
          /\ Accounts[op.user] = [name |-> name[op.user], record |-> old]
      BY <2>1, <2>3, <2>4, CommitRefines
    <2>8. Registry!Change(op.user, n, e)
      <3>1. Accounts[op.user].name # NoName /\ Accounts[op.user].record = old
        BY <2>1, <2>7, AccountAssumption
      <3>2. Accounts' = [Accounts EXCEPT ![op.user] =
                           [name |-> n, record |-> [email |-> e, version |-> new.version]]]
        BY <2>6, <2>7
      <3> QED
        BY <2>3, <2>5, <3>1, <3>2 DEF Registry!Change
    <2> QED
      BY <2>1, <2>8 DEF Registry!Next
  <1>8. CASE Link
    <2> DEFINE old == record[op.user]
    <2>1. op.user \in Users /\ name[op.user] \in Names
      BY <1>8, AccountAssumption
      DEF Link, Session, InSession, Serving, Authorized, Known, TypeOK
    <2>2. old \in Records /\ old.version > 0 /\ old = [email |-> old.email, version |-> old.version]
      BY <1>8, <2>1 DEF TypeOK, Records, Link
    <2>3. Commit(name[op.user], old, FALSE, "free")
      BY <1>8 DEF Link
    <2>4. /\ Accounts' = [Accounts EXCEPT ![op.user] = [name |-> name[op.user], record |-> old]]
          /\ Accounts[op.user] = [name |-> name[op.user], record |-> old]
      BY <2>1, <2>2, <2>3, CommitRefines
    <2>5. Accounts' = Accounts
      BY <2>1, <2>4 DEF Accounts
    <2> QED
      BY <2>5
  <1>9. CASE Boot \/ Arrive \/ RecoverNext \/ RecoverDone \/ Validate \/ Refuse
    BY <1>1, <1>9 DEF Boot, Arrive, Enter, RecoverNext, RecoverDone, Validate, Refuse
  <1>10. CASE Revoke \/ Save \/ SaveFailed \/ Issue \/ Grant \/ Authenticate
    BY <1>1, <1>10 DEF Revoke, Save, SaveFailed, Issue, Grant, Authenticate, Mutate
  <1>11. CASE Password \/ Reject \/ Throw \/ Crash \/ \E s \in Sessions : Expire(s)
    BY <1>1, <1>11 DEF Password, Reject, Throw, Crash, Expire
  <1>12. CASE UNCHANGED vars
    BY <1>1, <1>12 DEF vars
  <1> HIDE DEF TypeInv
  <1> QED
    BY <1>2, <1>3, <1>4, <1>5, <1>6, <1>7, <1>8, <1>9, <1>10, <1>11, <1>12 DEF Next, Finish, Body

\* The accounts implement the registry: every request is atomic, and a new address is a
\* new version of the credentials.
THEOREM AtomicRequests == Spec => Atomic
  <1>1. Init => Registry!Init
    BY AccountAssumption DEF Init, Registry!Init, Accounts, NoRecord, Users
  <1>2. IInv /\ [Next]_vars => [Registry!Next]_Accounts
    BY StepRefines DEF IInv
  <1> QED
    BY Invariance, <1>1, <1>2, PTL DEF Spec, Atomic, Registry!Spec
============================================================================
