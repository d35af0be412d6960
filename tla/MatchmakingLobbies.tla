-------------------------- MODULE MatchmakingLobbies --------------------------
(***************************************************************************)
(* Searches, lobbies and the index of current assignments of one title, as *)
(* the tasks of service 145 in                                             *)
(* Services/Matchmaking/matchmaking_services.cpp change them.              *)
(*                                                                         *)
(* A task runs under the store mutex and publishes its documents in one    *)
(* transaction of MatchmakingStore, so it is one step.  Between two tasks  *)
(* a client composes a host document from the documents it read: that is   *)
(* its draft.  An account may have several sessions, as another login ends *)
(* none of them; their connections come and go at any time.                *)
(*                                                                         *)
(* Random identifiers are handed out in order here.  Which playlists, maps *)
(* and platforms match, whether the host keeps its lobby open, and the     *)
(* reserved slots of guests are left open: any lobby that passes the other *)
(* conditions may be found, or none.  The lobby expires before its         *)
(* searches do (searchState copies its time).                              *)
(***************************************************************************)
EXTENDS Naturals, FiniteSets

CONSTANTS
    Users, Nobody,  \* accounts
    Maximum,        \* maximum_members of a lobby
    MaxLobbies, MaxSearches,    \* bounds: documents that are ever created
    MaxEvents       \* bound: everything that happens but reading documents and reconnecting

ASSUME LobbyAssumption ==
    /\ IsFiniteSet(Users) /\ Nobody \notin Users
    /\ Maximum \in Nat /\ MaxLobbies \in Nat /\ MaxSearches \in Nat
    /\ MaxEvents \in Nat

Lobbies == 1 .. MaxLobbies
SearchIds == 1 .. MaxSearches
MaxLogins == MaxEvents + 1
Sessions == 1 .. MaxLogins
MaxTokens == MaxEvents + 1
MaxUpdates == MaxEvents

VARIABLES
    login,      \* how many sessions an account was issued
    online,     \* its sessions that have a lobby connection
    players,    \* players/<user>.json: the token and the session it was issued to
    searches,   \* searches/<id>.json
    lobbies,    \* lobbies/<id>.json
    current,    \* current-lobbies.json
    drafts,     \* the host document a player is at, and what it was composed from
    told,       \* history: who was sent to a lobby for the search that binds it, or hosted it
    events      \* how many there were

vars == <<login, online, players, searches, lobbies, current, drafts, told, events>>
account == <<login, online>>

Phases == {"absent", "forming", "ready", "expired", "disbanded"}
Handoffs == [target : Users \cup {Nobody}, session : 0 .. MaxLogins, by : 0 .. MaxLogins]
NoHandoff == [target |-> Nobody, session |-> 0, by |-> 0]
Bindings == [Users -> 0 .. MaxSearches]
Unbound == [u \in Users |-> 0]

\* members are those with an entry in player_id_to_mm_id; a lobby that is not host_ready forms.
LobbyDocs == [phase : Phases, owner : Users \cup {Nobody}, session : 0 .. MaxLogins,
              mm : Bindings, update : 0 .. MaxUpdates, pending : SUBSET Users,
              handoff : Handoffs]
NoLobby == [phase |-> "absent", owner |-> Nobody, session |-> 0, mm |-> Unbound, update |-> 0,
            pending |-> {}, handoff |-> NoHandoff]

\* The members of the query have a token; 0 for who is not in it.
SearchDocs == [user : Users \cup {Nobody}, lobby : 0 .. MaxLobbies,
               tokens : [Users -> 0 .. MaxTokens], sessions : [Users -> 0 .. MaxLogins],
               active : BOOLEAN]
NoSearch == [user |-> Nobody, lobby |-> 0, tokens |-> Unbound, sessions |-> Unbound,
             active |-> FALSE]

Drafts == [lobby : 0 .. MaxLobbies, update : 0 .. MaxUpdates, seen : Bindings]
NoDraft == [lobby |-> 0, update |-> 0, seen |-> Unbound]

TypeOK ==
    /\ login \in [Users -> Sessions]
    /\ online \in [Users -> SUBSET Sessions]
    /\ players \in [Users -> [token : 0 .. MaxTokens, session : 0 .. MaxLogins]]
    /\ searches \in [SearchIds -> SearchDocs]
    /\ lobbies \in [Lobbies -> LobbyDocs]
    /\ current \in [Users -> 0 .. MaxLobbies]
    /\ drafts \in [Users -> Drafts]
    /\ told \in [Lobbies -> SUBSET Users]
    /\ events \in 0 .. MaxEvents

\* Everyone is online with one session, and has a token.
Init ==
    /\ login = [u \in Users |-> 1] /\ online = [u \in Users |-> {1}]
    /\ players = [u \in Users |-> [token |-> 1, session |-> 1]]
    /\ searches = [s \in SearchIds |-> NoSearch]
    /\ lobbies = [l \in Lobbies |-> NoLobby]
    /\ current = [u \in Users |-> 0]
    /\ drafts = [u \in Users |-> NoDraft]
    /\ told = [l \in Lobbies |-> {}]
    /\ events = 0

Event == events < MaxEvents /\ events' = events + 1

members(lobby) == {u \in Users : lobby.mm[u] # 0}
sessionOnline(u, session) == session \in online[u]
hostSessionActive(lobby) == lobby.owner # Nobody /\ sessionOnline(lobby.owner, lobby.session)
Open(lobby) == lobby.phase \in {"forming", "ready"}

(***************************************************************************)
(* Accounts.                                                               *)
(***************************************************************************)
\* Another login; the sessions issued before it stay live.
Login(u) ==
    /\ Event
    /\ login' = [login EXCEPT ![u] = @ + 1]
    /\ online' = [online EXCEPT ![u] = @ \cup {login'[u]}]
    /\ UNCHANGED <<players, searches, lobbies, current, drafts, told>>

\* The last lobby connection of a session ends, and another one is made.
Disconnect(u) ==
    \E session \in online[u] :
      /\ Event
      /\ online' = [online EXCEPT ![u] = @ \ {session}]
      /\ UNCHANGED <<login, players, searches, lobbies, current, drafts, told>>

Reconnect(u) ==
    \E session \in (1 .. login[u]) \ online[u] :
      /\ online' = [online EXCEPT ![u] = @ \cup {session}]
      /\ UNCHANGED <<login, players, searches, lobbies, current, drafts, told, events>>

\* Task 3: a token of another session, or one that has expired, is replaced.
IssueToken(u) ==
    \E session \in online[u] :
      /\ Event
      /\ players' = [players EXCEPT ![u] = [token |-> @.token + 1, session |-> session]]
      /\ UNCHANGED <<account, searches, lobbies, current, drafts, told>>

(***************************************************************************)
(* Searches.                                                               *)
(***************************************************************************)
\* A party token grants membership while its issuing session is live; the searching user must
\* be using that session itself, so its search comes from players[u].session.
Admitted(u, party) ==
    /\ u \in party
    /\ \A v \in party : players[v].token # 0 /\ sessionOnline(v, players[v].session)

FreshSearch(s) ==
    searches[s].user = Nobody /\ \A k \in SearchIds : k < s => searches[k].user # Nobody
FreshLobby(l) ==
    lobbies[l].phase = "absent" /\ \A k \in Lobbies : k < l => lobbies[k].phase # "absent"

searchState(u, party, l) ==
    [user |-> u, lobby |-> l, active |-> TRUE,
     tokens |-> [v \in Users |-> IF v \in party THEN players[v].token ELSE 0],
     sessions |-> [v \in Users |-> IF v \in party THEN players[v].session ELSE 0]]

\* Every member of the lobby is assigned to it, not only the party that came.
prepareLobbyAssignments(l, all) == [u \in Users |-> IF u \in all THEN l ELSE current[u]]

\* Slots that are reserved beside the players are left out.
Fits(people) == Cardinality(people) <= Maximum

\* The guests of the searching host wait for its first host document.
createLobbyDocument(u, party, s) ==
    [phase |-> "forming", owner |-> u, session |-> players[u].session,
     mm |-> [v \in Users |-> IF v \in party THEN s ELSE 0], update |-> 1,
     pending |-> party \ {u}, handoff |-> NoHandoff]

CreateLobby(u, party) ==
    \E l \in Lobbies, s \in SearchIds :
      /\ Event
      /\ FreshLobby(l) /\ FreshSearch(s)
      /\ Admitted(u, party) /\ Fits(party)
      /\ lobbies' = [lobbies EXCEPT ![l] = createLobbyDocument(u, party, s)]
      /\ searches' = [searches EXCEPT ![s] = searchState(u, party, l)]
      /\ current' = prepareLobbyAssignments(l, party)
      /\ told' = [told EXCEPT ![l] = {u}]
      /\ UNCHANGED <<account, players, drafts>>

\* The conditions both kinds of join share: publicJoin, which finds lobbies whose host is still
\* assigned to them, and presenceJoin, through a member that is online or by the ID alone.
Joinable(lobby, party) ==
    /\ Open(lobby) /\ hostSessionActive(lobby)
    /\ Fits(members(lobby) \cup party)

\* update_id of the lobby and of its two documents.
NextRevision(lobby) == lobby.update + 1

\* assignMembers.  Before the host is ready a joining member is only noted.
AwaitingAll(lobby, party) ==
    IF lobby.phase = "ready" THEN lobby.pending ELSE lobby.pending \cup party
AwaitingNobody(lobby, party) == lobby.pending
Awaiting(lobby, party) ==
    IF lobby.phase = "ready" THEN lobby.pending ELSE lobby.pending \cup (party \ {lobby.owner})

Join(u, party) ==
    \E l \in Lobbies, s \in SearchIds :
      LET lobby == lobbies[l] IN
      /\ Event
      /\ FreshSearch(s)
      /\ Admitted(u, party)
      /\ Joinable(lobby, party)
      /\ lobbies' = [lobbies EXCEPT
            ![l].mm = [v \in Users |-> IF v \in party THEN s ELSE @[v]],
            ![l].update = NextRevision(lobby),
            ![l].pending = Awaiting(lobby, party)]
      /\ searches' = [searches EXCEPT ![s] = searchState(u, party, l)]
      /\ current' = prepareLobbyAssignments(l, members(lobby) \cup party)
      /\ told' = [told EXCEPT ![l] = IF lobby.phase = "ready" THEN @ \cup party
                                                             ELSE @ \ (party \ {lobby.owner})]
      /\ UNCHANGED <<account, players, drafts>>

\* Tasks 8 and 9.
CancelSearch(u) ==
    \E s \in SearchIds :
      /\ Event
      /\ online[u] # {} /\ searches[s].user = u /\ searches[s].active
      /\ searches' = [searches EXCEPT ![s].active = FALSE]
      /\ UNCHANGED <<account, players, lobbies, current, drafts, told>>

(***************************************************************************)
(* Lobbies.                                                                *)
(***************************************************************************)
\* Searches of a lobby that end, and assignments to it that go.
Closed(ids) == [s \in SearchIds |-> [searches[s] EXCEPT !.active = @ /\ s \notin ids]]
StillAssigned(l, gone) == current
Unassigned(l, gone) ==
    [u \in Users |-> IF u \in gone /\ current[u] = l THEN 0 ELSE current[u]]

\* Task 10.
DisbandLobby(u) ==
    \E l \in Lobbies :
      LET lobby == lobbies[l] IN
      /\ Event
      /\ online[u] # {} /\ lobby.owner = u
      /\ lobbies' = [lobbies EXCEPT ![l].phase = "disbanded"]
      /\ searches' = Closed({lobby.mm[v] : v \in members(lobby)})
      /\ current' = Unassigned(l, members(lobby))
      /\ UNCHANGED <<account, players, drafts, told>>

ExpireLobby ==
    \E l \in Lobbies :
      /\ Event
      /\ Open(lobbies[l])
      /\ lobbies' = [lobbies EXCEPT ![l].phase = "expired"]
      /\ UNCHANGED <<account, players, searches, current, drafts, told>>

\* Task 13, or the documents that were pushed: what the client composes its host document from.
ReadDocuments(u) ==
    \E l \in Lobbies :
      LET lobby == lobbies[l] IN
      /\ online[u] # {} /\ u \in members(lobby) /\ Open(lobby)
      /\ drafts' = [drafts EXCEPT ![u] = [lobby |-> l, update |-> lobby.update, seen |-> lobby.mm]]
      /\ UNCHANGED <<account, players, searches, lobbies, current, told, events>>

\* The live host authorized this member and this session of it.
Authorized(u, session, lobby) ==
    lobby.handoff = [target |-> u, session |-> session, by |-> lobby.session]

\* The session the member claims the lobby with searched its way into this lobby, and did not go elsewhere.
BoundOffline(u, lobby) == searches[lobby.mm[u]].active
Bound(u, lobby) ==
    LET search == searches[lobby.mm[u]] IN
    search.active /\ search.tokens[u] = players[u].token

MayMigrate(u, session, l) ==
    LET lobby == lobbies[l] IN
    /\ ~hostSessionActive(lobby) \/ Authorized(u, session, lobby)
    /\ current[u] = l
    /\ players[u].session = session
    /\ Bound(u, lobby)

\* The host names a successor that is online; both must stay.
Handoff(lobby, target) ==
    IF target = Nobody
    THEN lobby.handoff
    ELSE [target |-> target, session |-> players[target].session, by |-> lobby.session]
Successors(u, keep) ==
    {v \in keep \ {u} : players[v].token # 0 /\ sessionOnline(v, players[v].session)}

RemovedSearches(lobby, keep) == {lobby.mm[v] : v \in members(lobby) \ keep}

\* reconcileMembers: the searches of those the host left out end, unless somebody who stays
\* shares them.
reconcileMembers(lobby, keep) ==
    {lobby.mm[v] : v \in members(lobby) \ keep} \ {lobby.mm[v] : v \in keep}

ConflictIgnored(lobby, draft) == TRUE
Current(lobby, draft) == draft.update = lobby.update

\* Task 15, by the host or by the one that becomes it.
HostDocument(u, l, session, keep, target) ==
    LET lobby == lobbies[l]
        migration == lobby.owner # u
        joining == (lobby.pending \ {u}) \cap keep
    IN
    /\ Event
    /\ drafts[u].lobby = l /\ u \in members(lobby) /\ Open(lobby)
    /\ IF migration THEN MayMigrate(u, session, l) ELSE lobby.session = session
    /\ Current(lobby, drafts[u])
    /\ u \in keep /\ keep \subseteq members(lobby)
    /\ \A v \in keep : drafts[u].seen[v] # 0
    /\ migration /\ hostSessionActive(lobby) => lobby.owner \in keep
    /\ target # Nobody => ~migration /\ target \in Successors(u, keep)
    /\ lobbies' = [lobbies EXCEPT ![l] =
          [phase |-> "ready", owner |-> u, session |-> session,
           mm |-> [v \in Users |-> IF v \in keep THEN lobby.mm[v] ELSE 0],
           update |-> NextRevision(lobby), pending |-> {},
           handoff |-> IF migration THEN NoHandoff ELSE Handoff(lobby, target)]]
    /\ searches' = Closed(reconcileMembers(lobby, keep))
    /\ current' = Unassigned(l, members(lobby) \ keep)
    /\ drafts' = [drafts EXCEPT ![u] = NoDraft]
    /\ told' = [told EXCEPT ![l] = (@ \cap keep) \cup joining \cup {u}]
    /\ UNCHANGED <<account, players>>

UpdateHost(u) ==
    \E l \in Lobbies, session \in online[u], keep \in SUBSET Users,
       target \in Users \cup {Nobody} : HostDocument(u, l, session, keep, target)

\* now() + 60.
HandoffExpires ==
    \E l \in Lobbies :
      /\ Event
      /\ lobbies[l].handoff # NoHandoff
      /\ lobbies' = [lobbies EXCEPT ![l].handoff = NoHandoff]
      /\ UNCHANGED <<account, players, searches, current, drafts, told>>

Next ==
    \/ \E u \in Users :
         \/ Login(u) \/ Disconnect(u) \/ Reconnect(u) \/ IssueToken(u)
         \/ \E party \in SUBSET Users : CreateLobby(u, party) \/ Join(u, party)
         \/ CancelSearch(u) \/ DisbandLobby(u) \/ ReadDocuments(u) \/ UpdateHost(u)
    \/ ExpireLobby \/ HandoffExpires

Spec == Init /\ [][Next]_vars

(***************************************************************************)
(* Properties.                                                             *)
(***************************************************************************)
\* A document the journal accepts and loadLobby reads again: otherwise every task of this
\* lobby throws from then on, the one that disbands it too.
Readable ==
    \A l \in Lobbies : lobbies[l].phase # "absent" =>
        /\ lobbies[l].owner \in members(lobbies[l])
        /\ lobbies[l].pending \subseteq members(lobbies[l]) \ {lobbies[l].owner}

\* The index sends nobody to a lobby that is gone or that does not count it as a member,
\* though three tasks write it and each of them knows one lobby only.
IndexTruth ==
    \A u \in Users : current[u] # 0 =>
        /\ u \in members(lobbies[current[u]])
        /\ lobbies[current[u]].phase \notin {"absent", "disbanded"}

\* Whoever hosts a lobby came there by a search of the very session it hosts with: a later
\* login does not revive the membership of an earlier one.
HostFromOwnSearch ==
    \A l \in Lobbies : lobbies[l].phase # "absent" =>
        \E s \in SearchIds : /\ searches[s].lobby = l
                             /\ searches[s].sessions[lobbies[l].owner] = lobbies[l].session

\* Once the host is ready, every member has been sent there for the search that binds it.
JoinsAnnounced ==
    \A l \in Lobbies : lobbies[l].phase = "ready" => members(lobbies[l]) \subseteq told[l]

\* Disbanding ends a lobby for good: it never forms again, nobody is assigned to it, and the
\* searches that bind its members are over, whoever joined or cancelled before.
DisbandedEnds ==
    \A l \in Lobbies : lobbies[l].phase = "disbanded" =>
        \A v \in members(lobbies[l]) :
            current[v] # l /\ ~searches[lobbies[l].mm[v]].active
EndedStay ==
    [][/\ \A l \in Lobbies : lobbies[l].phase = "disbanded" => lobbies'[l].phase = "disbanded"
       /\ \A s \in SearchIds : searches[s].user # Nobody /\ ~searches[s].active
             => ~searches'[s].active]_vars

\* A host takes a member out of a lobby only if it had seen this very membership.
NoBlindRemoval ==
    [][\A l \in Lobbies, v \in Users :
         lobbies[l].mm[v] # 0 /\ lobbies'[l].mm[v] = 0 =>
           \E u \in Users : drafts[u].lobby = l /\ drafts[u].seen[v] = lobbies[l].mm[v]]_vars

\* A host document never ends the search of a member that stays: players that searched as a
\* party share one, and the host may keep some of them and not the others.
SharedSearchKept ==
    [][\A l \in Lobbies, v \in Users :
         /\ lobbies[l].mm[v] # 0 /\ lobbies'[l].mm[v] = lobbies[l].mm[v]
         /\ lobbies'[l].update # lobbies[l].update
         => searches'[lobbies[l].mm[v]].active = searches[lobbies[l].mm[v]].active]_vars
=============================================================================
