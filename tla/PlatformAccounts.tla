-------------------------- MODULE PlatformAccounts --------------------------
(***************************************************************************)
(* The accounts, credentials and sessions of the platform: Core/platform   *)
(* .cpp and the redo intents of Core/platform_account_store.cpp.           *)
(*                                                                         *)
(* Every request runs under the platform mutex (pc = "free" when nobody    *)
(* holds it), but a request is many publications, and an exception or a    *)
(* crash can fall between any two of them.  What survives is name, record, *)
(* intent and saved.                                                       *)
(*                                                                         *)
(* A name stands for all spellings that fold to it.  The identity in       *)
(* memory is assigned as soon as its file is published and nothing between *)
(* the two can fail: name stands for both.  A record is an address and a   *)
(* version of the credentials, 0 when there is no record.  A session's     *)
(* grant (its three uno tokens) is the version it was granted at.          *)
(***************************************************************************)
EXTENDS Naturals

CONSTANTS
    Legacy, Machine,        \* accounts selected by hand, and owned by a machine key
    NoUser,
    Names, NoName,
    Emails, NoEmail,
    Sessions,               \* session slots
    Holder,                 \* the account a slot's sessions are issued to
    InitialName,            \* the provisioned names of the legacy accounts
    NoIntent,
    MaxVersion,             \* bound: changes of credentials per account
    MaxFailures, MaxCrashes \* bounds: failed writes, crashes

Users == Legacy \cup Machine
NoSession == MaxVersion + 1     \* an unused slot

ASSUME AccountAssumption ==
    /\ Legacy \cap Machine = {} /\ NoUser \notin Users
    /\ NoName \notin Names /\ NoEmail \notin Emails
    /\ Holder \in [Sessions -> Users]
    /\ InitialName \in [Legacy -> Names]
    /\ \A u, v \in Legacy : InitialName[u] = InitialName[v] => u = v
    /\ MaxVersion \in Nat /\ MaxFailures \in Nat /\ MaxCrashes \in Nat

Records == [email : Emails \cup {NoEmail}, version : 0 .. MaxVersion]
NoRecord == [email |-> NoEmail, version |-> 0]

\* A redo intent holds the whole new account and what it replaces.
Intents == [before : Names, name : Names,
            old : Records, record : [email : Emails \cup {NoEmail}, version : 1 .. MaxVersion],
            revoke : BOOLEAN]
ASSUME IntentAssumption == NoIntent \notin Intents

VARIABLES
    name,       \* platform-profile.bin, platform-profiles/*, platform-client-profiles/*
    record,     \* platform-accounts/<user>.json
    intent,     \* platform-accounts/intents/<user>.json
    issued,     \* issuedSessions
    saved,      \* platform-sessions.bin
    previous,   \* SessionChanges::previous
    pc,
    op,         \* the request that holds the mutex
    owner,      \* the account whose intent is being finished
    queue,      \* accounts recoverAccounts has yet to visit
    resume,     \* where the running finish returns to
    failures, crashes

vars == <<name, record, intent, issued, saved, previous, pc, op, owner, queue, resume,
          failures, crashes>>
files == <<name, record, intent, saved>>
sessions == <<issued, previous>>
control == <<op, owner, queue, resume>>
bounds == <<failures, crashes>>

Kinds == {"boot", "lookup", "find", "login", "rename", "update", "link", "password",
          "authenticate"}
\* Requests of a session, and those that are over once the intents are published.
Authorized == {"rename", "update", "link", "password"}
ReadOnly == {"boot", "lookup", "find"}
Operations == [kind : Kinds, user : Users \cup {NoUser}, session : Sessions \cup {NoUser}]
NoOperation == [kind |-> "boot", user |-> NoUser, session |-> NoUser]

Live(s) == issued[s] # NoSession
Known(u) == name[u] # NoName
PendingUsers == {u \in Users : intent[u] # NoIntent}

\* The request returns and releases the mutex.
Return ==
    /\ pc' = "free"
    /\ op' = NoOperation /\ owner' = NoUser /\ queue' = {} /\ resume' = "recover"

\* An exception ends the request; in initialize it ends the process.
Thrown ==
    /\ pc' = IF op.kind = "boot" THEN "down" ELSE "free"
    /\ op' = NoOperation /\ owner' = NoUser /\ queue' = {} /\ resume' = "recover"

-----------------------------------------------------------------------------
\* Whose names stand in the way of an account: a machine's only other machines'.
Rivals(u) == (IF u \in Machine THEN Machine ELSE Users) \ {u}
availableName(n, u) == \A v \in Rivals(u) : name[v] # n

emailAvailable(u, e) == \A v \in Users \ {u} : record[v].email # e

\* A broken variant: an intent is replayed without asking whose its name is by now.
PublishableUnnamed(u) ==
    /\ name[u] \in {intent[u].before, intent[u].name}
    /\ record[u] \in {intent[u].old, intent[u].record}

\* Store::finish and publishAccountProfile(validateOnly): the intent continues what the
\* files hold, and its name is free.
Publishable(u) ==
    /\ name[u] \in {intent[u].before, intent[u].name}
    /\ record[u] \in {intent[u].old, intent[u].record}
    /\ availableName(intent[u].name, u)

-----------------------------------------------------------------------------
(* Broken variants of the actions below *)

\* A request reads its record before it finishes the account's own intent.
EnterUnrecovered(kind, u, s) ==
    /\ pc = "free"
    /\ op' = [kind |-> kind, user |-> u, session |-> s]
    /\ queue' = {}
    /\ pc' = "recover" /\ resume' = "recover"
    /\ UNCHANGED <<files, sessions, owner, bounds>>

\* An intent that cannot be published is dropped.
RefuseDropping ==
    /\ pc = "validate" /\ ~Publishable(owner)
    /\ intent' = [intent EXCEPT ![owner] = NoIntent]
    /\ Thrown
    /\ UNCHANGED <<name, record, saved, sessions, bounds>>

\* An unsaved change of the sessions stays in memory.
SaveFailedDirty ==
    /\ pc = "saving" /\ failures < MaxFailures
    /\ failures' = failures + 1
    /\ Thrown
    /\ UNCHANGED <<files, sessions, crashes>>

-----------------------------------------------------------------------------
Init ==
    /\ name = [u \in Users |-> IF u \in Legacy THEN InitialName[u] ELSE NoName]
    /\ record = [u \in Users |-> NoRecord]
    /\ intent = [u \in Users |-> NoIntent]
    /\ issued = [s \in Sessions |-> NoSession] /\ saved = issued /\ previous = issued
    /\ pc = "down"
    /\ op = NoOperation /\ owner = NoUser /\ queue = {} /\ resume = "recover"
    /\ failures = 0 /\ crashes = 0

\* initialize: the sessions are loaded, then every intent is finished.
Boot ==
    /\ pc = "down"
    /\ issued' = saved /\ previous' = saved
    /\ queue' = PendingUsers
    /\ pc' = "recover"
    /\ UNCHANGED <<files, op, owner, resume, bounds>>

\* A request takes the mutex; recoverAccounts(owner) precedes everything it reads.
\* accountName and login need no session, and findAccounts visits every
\* account; task 84 visits none.
Enter(kind, u, s) ==
    /\ pc = "free"
    /\ op' = [kind |-> kind, user |-> u, session |-> s]
    /\ queue' = {v \in PendingUsers : kind = "find" \/ (v = u /\ kind # "authenticate")}
    /\ pc' = "recover" /\ resume' = "recover"
    /\ UNCHANGED <<files, sessions, owner, bounds>>

Arrive ==
    \/ Enter("find", NoUser, NoUser)
    \/ \E u \in Users : Known(u) /\ Enter("lookup", u, NoUser)
    \/ \E s \in Sessions :
         \/ Known(Holder[s]) /\ ~Live(s) /\ Enter("login", Holder[s], s)
         \/ \E kind \in Authorized \cup {"authenticate"} :
              Live(s) /\ Enter(kind, Holder[s], s)

\* clientLogin of a machine that is new: its account is written before its session.
Register(s, n) ==
    LET u == Holder[s]
    IN  /\ pc = "free" /\ u \in Machine /\ ~Known(u)
        /\ availableName(n, u)
        /\ name' = [name EXCEPT ![u] = n]
        /\ op' = [kind |-> "login", user |-> u, session |-> s]
        /\ pc' = "recover" /\ queue' = {} /\ resume' = "recover"
        /\ UNCHANGED <<record, intent, saved, sessions, owner, bounds>>

\* Store::recover turns to the next account, or is done.
RecoverNext ==
    /\ pc = "recover"
    /\ \E u \in queue : owner' = u /\ queue' = queue \ {u}
    /\ pc' = "validate"
    /\ UNCHANGED <<files, sessions, op, resume, bounds>>

RecoverDone ==
    /\ pc = "recover" /\ queue = {}
    /\ IF op.kind \in ReadOnly THEN Return ELSE pc' = "body" /\ UNCHANGED control
    /\ UNCHANGED <<files, sessions, bounds>>

\* Store::finish: everything is validated, then published in this order.
Validate ==
    /\ pc = "validate" /\ Publishable(owner)
    /\ pc' = "document"
    /\ UNCHANGED <<files, sessions, control, bounds>>

\* An intent that cannot be published stays, and the request that met it fails.
Refuse ==
    /\ pc = "validate" /\ ~Publishable(owner)
    /\ Thrown
    /\ UNCHANGED <<files, sessions, bounds>>

PublishDocument ==
    /\ pc = "document"
    /\ record' = [record EXCEPT ![owner] = intent[owner].record]
    /\ pc' = "identity"
    /\ UNCHANGED <<name, intent, saved, sessions, control, bounds>>

PublishIdentity ==
    /\ pc = "identity"
    /\ name' = [name EXCEPT ![owner] = intent[owner].name]
    /\ pc' = IF intent[owner].revoke THEN "revoke" ELSE "retire"
    /\ UNCHANGED <<record, intent, saved, sessions, control, bounds>>

\* SessionChanges: memory first, saved by commit.
Mutate(changed) ==
    /\ previous' = issued /\ issued' = changed
    /\ pc' = "saving"
    /\ UNCHANGED <<files, control, bounds>>

Revoke ==
    /\ pc = "revoke"
    /\ Mutate([s \in Sessions |-> IF Holder[s] = owner /\ Live(s) THEN 0 ELSE issued[s]])

\* commit, and its caller goes on: the finish that revoked, or the reply.
Save ==
    /\ pc = "saving"
    /\ saved' = issued /\ previous' = issued
    /\ IF owner = NoUser THEN Return ELSE pc' = "retire" /\ UNCHANGED control
    /\ UNCHANGED <<name, record, intent, issued, bounds>>

\* The destructor of an uncommitted change.
SaveFailed ==
    /\ pc = "saving" /\ failures < MaxFailures
    /\ failures' = failures + 1
    /\ issued' = previous
    /\ Thrown
    /\ UNCHANGED <<files, previous, crashes>>

Retire ==
    /\ pc = "retire"
    /\ intent' = [intent EXCEPT ![owner] = NoIntent]
    /\ IF resume = "free" THEN Return
       ELSE pc' = resume /\ owner' = NoUser /\ UNCHANGED <<op, queue, resume>>
    /\ UNCHANGED <<name, record, saved, sessions, bounds>>

-----------------------------------------------------------------------------
\* issueSession: a new name is published before the session is.
Login(n) ==
    /\ pc = "body" /\ op.kind = "login"
    /\ n = name[op.user] \/ availableName(n, op.user)
    /\ name' = [name EXCEPT ![op.user] = n]
    /\ pc' = "issue"
    /\ UNCHANGED <<record, intent, saved, sessions, control, bounds>>

Issue ==
    /\ pc = "issue"
    /\ Mutate([issued EXCEPT ![op.session] = 0])

renameAccount(n) ==
    /\ pc = "body" /\ op.kind = "rename"
    /\ availableName(n, op.user)
    /\ name' = [name EXCEPT ![op.user] = n]
    /\ Return
    /\ UNCHANGED <<record, intent, saved, sessions, bounds>>

\* Store::commit writes the intent and finishes it like any other.
Commit(n, new, revoke, then) ==
    /\ intent[op.user] = NoIntent
    /\ intent' = [intent EXCEPT ![op.user] =
                    [before |-> name[op.user], name |-> n,
                     old |-> record[op.user], record |-> new, revoke |-> revoke]]
    /\ pc' = "validate" /\ owner' = op.user /\ resume' = then
    /\ UNCHANGED <<name, record, saved, sessions, op, queue, bounds>>

\* updatesecuredfields: a name, an address and a password, each if the request has it.
\* A name or an address that is not in the request is not checked.
Update(n, e, password) ==
    LET old == record[op.user]
        changed == old.version = 0 \/ e # old.email \/ password
    IN  /\ pc = "body" /\ op.kind = "update"
        /\ n = name[op.user] \/ availableName(n, op.user)
        /\ e = old.email \/ (e \in Emails /\ emailAvailable(op.user, e))
        /\ changed => old.version < MaxVersion
        /\ Commit(n,
                  [email |-> e, version |-> IF changed THEN old.version + 1 ELSE old.version],
                  changed, "grant")

\* linkUser and updateUmbrellaAccount: the tokens are checked, the credentials stay, and
\* an account without a record has nothing to link.
Link ==
    /\ pc = "body" /\ op.kind = "link"
    /\ issued[op.session] # 0 /\ record[op.user].version > 0
    /\ Commit(name[op.user], record[op.user], FALSE, "free")

\* authenticateUser: the password of the record was presented.
Password ==
    /\ pc = "body" /\ op.kind = "password"
    /\ record[op.user].version > 0
    /\ pc' = "grant"
    /\ UNCHANGED <<files, sessions, control, bounds>>

\* grants: tokens that are there are kept.
Grant ==
    /\ pc = "grant"
    /\ IF issued[op.session] = 0
       THEN Mutate([issued EXCEPT ![op.session] = record[op.user].version])
       ELSE Return /\ UNCHANGED <<files, sessions, bounds>>

\* authenticate (task 84): a new ticket and key for the session, and no tokens.
Authenticate ==
    /\ pc = "body" /\ op.kind = "authenticate"
    /\ Mutate([issued EXCEPT ![op.session] = 0])

\* A request is refused for what it contains or the token it presents, or fails before
\* its first publication.
Reject ==
    /\ pc = "body"
    /\ Return
    /\ UNCHANGED <<files, sessions, bounds>>

\* A publication fails, or a random number cannot be drawn.
Throw ==
    /\ pc \in {"document", "identity", "revoke", "retire", "issue", "grant"}
    /\ failures < MaxFailures
    /\ failures' = failures + 1
    /\ Thrown
    /\ UNCHANGED <<files, sessions, crashes>>

\* A session's deadline passes: it is not live, not loaded again, and soon erased.
Expire(s) ==
    /\ pc = "free" /\ Live(s)
    /\ issued' = [issued EXCEPT ![s] = NoSession]
    /\ saved' = [saved EXCEPT ![s] = NoSession] /\ previous' = issued'
    /\ UNCHANGED <<name, record, intent, pc, control, bounds>>

Crash ==
    /\ pc # "down" /\ crashes < MaxCrashes
    /\ crashes' = crashes + 1
    /\ pc' = "down" /\ issued' = [s \in Sessions |-> NoSession] /\ previous' = issued'
    /\ op' = NoOperation /\ owner' = NoUser /\ queue' = {} /\ resume' = "recover"
    /\ UNCHANGED <<files, failures>>

Body == \/ \E n \in Names : Login(n) \/ renameAccount(n)
        \/ \E n \in Names, e \in Emails \cup {NoEmail}, password \in BOOLEAN :
             Update(n, e, password)
        \/ Link \/ Password \/ Authenticate \/ Reject

Finish == \/ Validate \/ Refuse \/ PublishDocument \/ PublishIdentity \/ Revoke
          \/ Save \/ SaveFailed \/ Retire

Next ==
    \/ Boot \/ Arrive \/ RecoverNext \/ RecoverDone \/ Finish \/ Body \/ Issue \/ Grant
    \/ \E s \in Sessions, n \in Names : Register(s, n)
    \/ \E s \in Sessions : Expire(s)
    \/ Throw \/ Crash

Spec == Init /\ [][Next]_vars

-----------------------------------------------------------------------------
Published == pc \in {"document", "identity", "revoke", "retire"}

\* Types; an intent always belongs to the account being finished, and holds a record with
\* a version.
TypeOK ==
    /\ name \in [Users -> Names \cup {NoName}]
    /\ record \in [Users -> Records]
    /\ intent \in [Users -> Intents \cup {NoIntent}]
    /\ issued \in [Sessions -> 0 .. NoSession] /\ saved \in [Sessions -> 0 .. NoSession]
    /\ previous \in [Sessions -> 0 .. NoSession]
    /\ pc \in {"down", "free", "recover", "validate", "document", "identity", "revoke",
               "saving", "retire", "body", "issue", "grant"}
    /\ op \in Operations /\ queue \subseteq Users
    /\ owner \in Users \cup {NoUser}
    /\ resume \in {"recover", "grant", "free"}
    /\ Published \/ pc = "validate" => owner \in Users /\ intent[owner] # NoIntent
    /\ failures \in 0 .. MaxFailures /\ crashes \in 0 .. MaxCrashes

\* Two machine accounts never share a name, and neither do two legacy accounts, whichever
\* order names are taken, updated and recovered in (availableName).
NamesDiffer ==
    \A u, v \in Users :
        u # v /\ Known(u) /\ name[u] = name[v] => (u \in Machine) # (v \in Machine)

\* A change of the sessions that was not saved is not kept: between requests the sessions
\* in memory are the ones a restart would load (SessionChanges).
SessionsSaved == pc \notin {"saving", "down"} => issued = saved

\* A token of older credentials is only ever found beside the intent that will revoke it,
\* in memory and in the file a restart loads.
Current(u, grant) ==
    \/ grant \in {0, NoSession, record[u].version}
    \/ intent[u] # NoIntent /\ intent[u].revoke /\ intent[u].record = record[u]
GrantsCurrent ==
    \A s \in Sessions : Current(Holder[s], saved[s]) /\ Current(Holder[s], issued[s])

\* "Recovery can revoke the old grant. Check it after publication, so a stale token cannot
\* authorize another update": when a request's token is compared, no old one is left.
NoStaleAuthorization ==
    pc = "body" /\ op.kind \in Authorized =>
        issued[op.session] \in {0, record[op.user].version}

\* An account as the next request that recovers it will find it.
Accounts == [u \in Users |->
    IF intent[u] = NoIntent THEN [name |-> name[u], record |-> record[u]]
    ELSE [name |-> intent[u].name, record |-> intent[u].record]]
Registry == INSTANCE AccountRegistry WITH accounts <- Accounts

\* Every request changes one account, whole or not at all, through failures and crashes.
Atomic == Registry!Spec
=============================================================================
