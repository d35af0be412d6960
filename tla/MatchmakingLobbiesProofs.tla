----------------------- MODULE MatchmakingLobbiesProofs -----------------------
(***************************************************************************)
(* What MatchmakingLobbies promises, for any number of players, lobbies    *)
(* and searches.  IInv adds to the properties what makes them inductive:   *)
(* a search in use is bound to one lobby and never reused, a token belongs *)
(* to the session it was issued to, and a draft at the present revision    *)
(* was composed from the present members.                                  *)
(***************************************************************************)
EXTENDS MatchmakingLobbies, TLAPS

Counted ==
    /\ \A u \in Users : /\ login[u] <= events + 1
                        /\ players[u].token <= events + 1 /\ players[u].token # 0
    /\ \A l \in Lobbies : lobbies[l].update <= events

Absent == \A l \in Lobbies : lobbies[l].phase = "absent" => lobbies[l] = NoLobby

Unused == \A s \in SearchIds : searches[s].user = Nobody => searches[s] = NoSearch

BoundHere ==
    \A l \in Lobbies, v \in Users :
        lobbies[l].mm[v] # 0 => searches[lobbies[l].mm[v]].lobby = l

Tokens ==
    \A s \in SearchIds, u \in Users :
        /\ searches[s].tokens[u] <= players[u].token
        /\ searches[s].tokens[u] = players[u].token =>
               searches[s].sessions[u] = players[u].session

DraftsSeen ==
    \A u \in Users : drafts[u].lobby # 0 =>
        /\ lobbies[drafts[u].lobby].phase # "absent"
        /\ drafts[u].update <= lobbies[drafts[u].lobby].update
        /\ drafts[u].update = lobbies[drafts[u].lobby].update =>
               drafts[u].seen = lobbies[drafts[u].lobby].mm

Noted ==
    \A l \in Lobbies : lobbies[l].phase = "forming" =>
        members(lobbies[l]) \subseteq told[l] \cup lobbies[l].pending

Served == Readable /\ IndexTruth /\ HostFromOwnSearch /\ JoinsAnnounced
Kept == Counted /\ Absent /\ Unused /\ BoundHere /\ Tokens /\ DraftsSeen /\ Noted
IInv == TypeOK /\ Served /\ Kept

LEMMA Start == Init => IInv
  <1> USE LobbyAssumption
  <1> SUFFICES ASSUME Init PROVE IInv
    OBVIOUS
  <1>1. TypeOK
    BY DEF Init, TypeOK, Lobbies, SearchIds, MaxLogins, MaxTokens, MaxUpdates, Sessions, Phases,
           Handoffs, NoHandoff, Bindings, Unbound, LobbyDocs, NoLobby, SearchDocs, NoSearch,
           Drafts, NoDraft
  <1>2. Served
    BY DEF Init, Served, Readable, IndexTruth, HostFromOwnSearch, JoinsAnnounced, NoLobby
  <1>3. Kept
    BY DEF Init, Kept, Counted, Absent, Unused, BoundHere, Tokens, DraftsSeen, Noted, NoLobby,
           NoSearch, Unbound, NoDraft
  <1> QED
    BY <1>1, <1>2, <1>3 DEF IInv

\* Sessions, connections and tokens touch no document.
LEMMA AccountsInv ==
    ASSUME IInv, NEW u \in Users,
           Login(u) \/ Disconnect(u) \/ Reconnect(u) \/ IssueToken(u)
    PROVE  IInv'
  <1> USE LobbyAssumption
  <1>1. /\ UNCHANGED <<searches, lobbies, current, drafts, told>>
        /\ events' \in 0 .. MaxEvents /\ events <= events'
        /\ login' \in [Users -> Sessions] /\ online' \in [Users -> SUBSET Sessions]
        /\ players' \in [Users -> [token : 0 .. MaxTokens, session : 0 .. MaxLogins]]
        /\ \A v \in Users : login'[v] <= events' + 1 /\ players'[v].token <= events' + 1
        /\ \A v \in Users : \/ players'[v] = players[v]
                            \/ players'[v].token = players[v].token + 1
    <2>1. CASE Login(u)
      BY <2>1 DEF IInv, Kept, Counted, TypeOK, Login, Event, Sessions, MaxLogins, MaxTokens
    <2>2. CASE Disconnect(u)
      BY <2>2 DEF IInv, Kept, Counted, TypeOK, Disconnect, Event, Sessions, MaxLogins, MaxTokens
    <2>3. CASE Reconnect(u)
      BY <2>3 DEF IInv, Kept, Counted, TypeOK, Reconnect, Event, Sessions, MaxLogins, MaxTokens
    <2>4. CASE IssueToken(u)
      BY <2>4 DEF IInv, Kept, Counted, TypeOK, IssueToken, Event, Sessions, MaxLogins, MaxTokens,
                  account
    <2> QED
      BY <2>1, <2>2, <2>3, <2>4
  <1>2. TypeOK'
    BY <1>1 DEF IInv, TypeOK
  <1>3. Served'
    BY <1>1 DEF IInv, Served, Readable, IndexTruth, HostFromOwnSearch, JoinsAnnounced, members
  <1>4. Counted'
    BY <1>1 DEF IInv, Kept, Counted, TypeOK, LobbyDocs, MaxUpdates, MaxTokens
  <1>5. Tokens'
    <2> SUFFICES ASSUME NEW s \in SearchIds, NEW v \in Users
                 PROVE  /\ searches[s].tokens[v] <= players'[v].token
                        /\ searches[s].tokens[v] = players'[v].token =>
                               searches[s].sessions[v] = players'[v].session
      BY <1>1 DEF Tokens
    <2>1. searches[s].tokens[v] \in Nat /\ players[v].token \in Nat
      BY DEF IInv, TypeOK, SearchDocs
    <2>2. /\ searches[s].tokens[v] <= players[v].token
          /\ searches[s].tokens[v] = players[v].token =>
                 searches[s].sessions[v] = players[v].session
      BY DEF IInv, Kept, Tokens
    <2> QED
      BY <1>1, <2>1, <2>2
  <1>6. (Absent /\ Unused /\ BoundHere /\ DraftsSeen /\ Noted)'
    BY <1>1 DEF IInv, Kept, Absent, Unused, BoundHere, DraftsSeen, Noted, members
  <1> QED
    BY <1>2, <1>3, <1>4, <1>5, <1>6 DEF IInv, Kept

\* What the documents have in common.
LEMMA Documents ==
    ASSUME IInv
    PROVE  /\ events \in 0 .. MaxEvents
           /\ \A l \in Lobbies :
                /\ lobbies[l] \in LobbyDocs /\ told[l] \in SUBSET Users
                /\ members(lobbies[l]) \subseteq Users
                /\ lobbies[l].phase = "absent" => members(lobbies[l]) = {}
           /\ \A s \in SearchIds : searches[s] \in SearchDocs
  BY DEF IInv, Kept, Absent, TypeOK, NoLobby, Unbound, members

\* A fresh search is bound to no lobby.
LEMMA FreshIsUnbound ==
    ASSUME IInv, NEW s \in SearchIds, FreshSearch(s)
    PROVE  /\ searches[s].lobby = 0
           /\ \A l \in Lobbies, v \in Users : lobbies[l].mm[v] # 0 => lobbies[l].mm[v] # s
  BY DEF IInv, Kept, Unused, FreshSearch, NoSearch, BoundHere, Lobbies

\* The document of a search that is admitted.
LEMMA SearchStateType ==
    ASSUME IInv, NEW u \in Users, NEW party \in SUBSET Users, NEW l \in Lobbies
    PROVE  /\ searchState(u, party, l) \in SearchDocs
           /\ \A v \in Users :
                /\ searchState(u, party, l).tokens[v] <= players[v].token
                /\ searchState(u, party, l).tokens[v] = players[v].token =>
                       searchState(u, party, l).sessions[v] = players[v].session
  <1>1. \A v \in Users : /\ players[v].token \in 0 .. MaxTokens /\ players[v].token # 0
                         /\ players[v].session \in 0 .. MaxLogins
    BY DEF IInv, TypeOK, Kept, Counted
  <1>2. searchState(u, party, l) \in SearchDocs
    BY <1>1, LobbyAssumption DEF searchState, SearchDocs, Lobbies, MaxTokens, MaxLogins
  <1>3. ASSUME NEW v \in Users
        PROVE  /\ searchState(u, party, l).tokens[v] <= players[v].token
               /\ searchState(u, party, l).tokens[v] = players[v].token =>
                      searchState(u, party, l).sessions[v] = players[v].session
    BY <1>1, LobbyAssumption DEF searchState, MaxTokens
  <1> QED
    BY <1>2, <1>3

\* A search that overwrites a fresh one leaves what holds of the others.
LEMMA SearchesKept ==
    ASSUME IInv, NEW u \in Users, NEW party \in SUBSET Users, NEW l \in Lobbies,
           NEW s \in SearchIds, FreshSearch(s),
           searches' = [searches EXCEPT ![s] = searchState(u, party, l)],
           UNCHANGED players
    PROVE  /\ searches' \in [SearchIds -> SearchDocs]
           /\ Unused' /\ Tokens'
           /\ \A k \in SearchIds : k # s => searches'[k] = searches[k]
           /\ searches'[s] = searchState(u, party, l)
  <1>1. /\ searches \in [SearchIds -> SearchDocs]
        /\ searches'[s] = searchState(u, party, l)
        /\ \A k \in SearchIds : k # s => searches'[k] = searches[k]
    BY DEF IInv, TypeOK
  <1>2. searches' \in [SearchIds -> SearchDocs]
    BY <1>1, SearchStateType
  <1>3. Unused'
    BY <1>1, LobbyAssumption DEF IInv, Kept, Unused, searchState
  <1>4. Tokens'
    BY <1>1, SearchStateType DEF IInv, Kept, Tokens
  <1> QED
    BY <1>1, <1>2, <1>3, <1>4

LEMMA CreateInv ==
    ASSUME IInv, NEW u \in Users, NEW party \in SUBSET Users, CreateLobby(u, party)
    PROVE  IInv'
  <1> USE LobbyAssumption
  <1>1. PICK l \in Lobbies, s \in SearchIds :
           /\ Event
           /\ FreshLobby(l) /\ FreshSearch(s)
           /\ Admitted(u, party) /\ Fits(party)
           /\ lobbies' = [lobbies EXCEPT ![l] = createLobbyDocument(u, party, s)]
           /\ searches' = [searches EXCEPT ![s] = searchState(u, party, l)]
           /\ current' = prepareLobbyAssignments(l, party)
           /\ told' = [told EXCEPT ![l] = {u}]
           /\ UNCHANGED <<account, players, drafts>>
    BY DEF CreateLobby
  <1>2. /\ lobbies'[l] = createLobbyDocument(u, party, s)
        /\ \A k \in Lobbies : k # l => lobbies'[k] = lobbies[k] /\ told'[k] = told[k]
        /\ told'[l] = {u} /\ u \in party
        /\ events' = events + 1 /\ events' \in 0 .. MaxEvents /\ events \in Nat
        /\ UNCHANGED <<login, online, players, drafts>>
    BY <1>1 DEF IInv, TypeOK, Event, account, Admitted
  <1>3. s # 0 /\ l # 0 /\ s \in 0 .. MaxSearches
    BY DEF SearchIds, Lobbies
  <1>4. /\ members(lobbies'[l]) = party /\ lobbies'[l].mm \in Bindings
        /\ \A v \in Users : lobbies'[l].mm[v] = IF v \in party THEN s ELSE 0
    BY <1>2, <1>3 DEF createLobbyDocument, members, Bindings
  <1>5. /\ searches' \in [SearchIds -> SearchDocs] /\ Unused' /\ Tokens'
        /\ \A k \in SearchIds : k # s => searches'[k] = searches[k]
        /\ searches'[s] = searchState(u, party, l)
    BY <1>1, SearchesKept
  <1>6. lobbies[l].phase = "absent" /\ \A w \in Users : current[w] # l
    BY <1>1, <1>3 DEF FreshLobby, IInv, Served, IndexTruth
  <1>7. TypeOK'
    <2>1. createLobbyDocument(u, party, s) \in LobbyDocs
      <3>1. /\ players[u].session \in 0 .. MaxLogins /\ 1 \in 0 .. MaxUpdates
            /\ party \ {u} \in SUBSET Users
        BY <1>2 DEF IInv, TypeOK, MaxUpdates
      <3>2. NoHandoff \in Handoffs
        BY DEF NoHandoff, Handoffs, MaxLogins
      <3>3. createLobbyDocument(u, party, s).mm \in Bindings
        BY <1>2, <1>4
      <3> QED
        BY <3>1, <3>2, <3>3 DEF createLobbyDocument, LobbyDocs, Phases
    <2>2. lobbies' \in [Lobbies -> LobbyDocs] /\ told' \in [Lobbies -> SUBSET Users]
      BY <1>1, <2>1 DEF IInv, TypeOK
    <2>3. current' \in [Users -> 0 .. MaxLobbies]
      BY <1>1 DEF IInv, TypeOK, prepareLobbyAssignments, Lobbies
    <2> QED
      BY <1>2, <1>5, <2>2, <2>3 DEF IInv, TypeOK
  <1>8. Readable'
    BY <1>2, <1>4 DEF IInv, Served, Readable, createLobbyDocument
  <1>9. IndexTruth'
    BY <1>1, <1>2, <1>4, <1>6 DEF IInv, Served, IndexTruth, createLobbyDocument,
                                 prepareLobbyAssignments
  <1>10. HostFromOwnSearch'
    <2>1. /\ searches'[s].lobby = l /\ searches'[s].sessions[u] = players[u].session
          /\ lobbies'[l].owner = u /\ lobbies'[l].session = players[u].session
      BY <1>2, <1>5 DEF searchState, createLobbyDocument
    <2>2. ASSUME NEW k \in Lobbies, k # l, lobbies'[k].phase # "absent"
          PROVE  \E n \in SearchIds :
                    /\ searches'[n].lobby = k
                    /\ searches'[n].sessions[lobbies'[k].owner] = lobbies'[k].session
      <3>1. PICK n \in SearchIds : /\ searches[n].lobby = k
                                   /\ searches[n].sessions[lobbies[k].owner] = lobbies[k].session
        BY <1>2, <2>2 DEF IInv, Served, HostFromOwnSearch
      <3>2. n # s
        BY <3>1, <1>1, FreshIsUnbound DEF Lobbies
      <3> QED
        BY <3>1, <3>2, <1>2, <1>5, <2>2
    <2> QED
      BY <2>1, <2>2 DEF HostFromOwnSearch
  <1>11. JoinsAnnounced' /\ Noted'
    BY <1>2, <1>4 DEF IInv, Served, JoinsAnnounced, Kept, Noted, createLobbyDocument
  <1>12. Counted'
    <2>1. lobbies'[l].update = 1
      BY <1>2 DEF createLobbyDocument
    <2> QED
      BY <1>2, <2>1 DEF IInv, Kept, Counted, TypeOK, LobbyDocs, Sessions, MaxUpdates
  <1>13. Absent'
    BY <1>2 DEF IInv, Kept, Absent, createLobbyDocument
  <1>14. BoundHere'
    <2>1. ASSUME NEW k \in Lobbies, NEW v \in Users, lobbies'[k].mm[v] # 0
          PROVE  searches'[lobbies'[k].mm[v]].lobby = k
      <3>1. CASE k = l
        BY <3>1, <2>1, <1>4, <1>5 DEF searchState
      <3>2. CASE k # l
        <4>1. lobbies[k].mm \in [Users -> 0 .. MaxSearches] /\ lobbies[k].mm[v] # 0
          BY <3>2, <2>1, <1>2 DEF IInv, TypeOK, LobbyDocs, Bindings
        <4>2. lobbies[k].mm[v] \in SearchIds /\ lobbies[k].mm[v] # s
          BY <4>1, <1>1, FreshIsUnbound DEF SearchIds
        <4> QED
          BY <4>2, <3>2, <2>1, <1>2, <1>5 DEF IInv, Kept, BoundHere
      <3> QED
        BY <3>1, <3>2
    <2> QED
      BY <2>1 DEF BoundHere
  <1>15. DraftsSeen'
    BY <1>2, <1>6 DEF IInv, Kept, DraftsSeen, TypeOK, Drafts, Lobbies
  <1> QED
    BY <1>5, <1>7, <1>8, <1>9, <1>10, <1>11, <1>12, <1>13, <1>14, <1>15 DEF IInv, Served, Kept

LEMMA JoinInv ==
    ASSUME IInv, NEW u \in Users, NEW party \in SUBSET Users, Join(u, party)
    PROVE  IInv'
  <1> USE LobbyAssumption
  <1>1. PICK l \in Lobbies, s \in SearchIds :
           /\ Event
           /\ FreshSearch(s)
           /\ Joinable(lobbies[l], party)
           /\ lobbies' = [lobbies EXCEPT
                 ![l].mm = [v \in Users |-> IF v \in party THEN s ELSE @[v]],
                 ![l].update = NextRevision(lobbies[l]),
                 ![l].pending = Awaiting(lobbies[l], party)]
           /\ searches' = [searches EXCEPT ![s] = searchState(u, party, l)]
           /\ current' = prepareLobbyAssignments(l, members(lobbies[l]) \cup party)
           /\ told' = [told EXCEPT ![l] = IF lobbies[l].phase = "ready" THEN @ \cup party
                                         ELSE @ \ (party \ {lobbies[l].owner})]
           /\ UNCHANGED <<account, players, drafts>>
    BY Zenon DEF Join
  <1>a. Event /\ FreshSearch(s) /\ Joinable(lobbies[l], party)
    BY <1>1
  <1>b. /\ searches' = [searches EXCEPT ![s] = searchState(u, party, l)]
        /\ current' = prepareLobbyAssignments(l, members(lobbies[l]) \cup party)
    BY <1>1
  <1>c. /\ told' = [told EXCEPT ![l] = IF lobbies[l].phase = "ready" THEN @ \cup party
                                      ELSE @ \ (party \ {lobbies[l].owner})]
        /\ UNCHANGED <<login, online, players, drafts>>
    BY <1>1 DEF account
  <1>d. \A k \in Lobbies : k # l => lobbies'[k] = lobbies[k]
    BY <1>1 DEF IInv, TypeOK
  <1>2. /\ \A k \in Lobbies : k # l => lobbies'[k] = lobbies[k] /\ told'[k] = told[k]
        /\ told'[l] = IF lobbies[l].phase = "ready" THEN told[l] \cup party
                      ELSE told[l] \ (party \ {lobbies[l].owner})
        /\ events' = events + 1 /\ events' \in 0 .. MaxEvents /\ events \in Nat
        /\ UNCHANGED <<login, online, players, drafts>>
    BY <1>a, <1>c, <1>d DEF IInv, TypeOK, Event
  <1>3. s # 0 /\ l # 0 /\ s \in 0 .. MaxSearches
    BY DEF SearchIds, Lobbies
  <1>4. /\ lobbies[l] \in LobbyDocs /\ Open(lobbies[l]) /\ lobbies[l].phase # "absent"
        /\ lobbies[l].update \in Nat /\ lobbies[l].update <= events
    BY <1>a DEF IInv, TypeOK, Joinable, Open, Kept, Counted, LobbyDocs
  <1>5. lobbies'[l] = [lobbies[l] EXCEPT
                         !.mm = [v \in Users |-> IF v \in party THEN s ELSE @[v]],
                         !.update = NextRevision(lobbies[l]),
                         !.pending = Awaiting(lobbies[l], party)]
    BY <1>1 DEF IInv, TypeOK
  <1>6. /\ lobbies'[l].phase = lobbies[l].phase /\ lobbies'[l].owner = lobbies[l].owner
        /\ lobbies'[l].session = lobbies[l].session
        /\ lobbies'[l].update = lobbies[l].update + 1
        /\ lobbies'[l].pending = Awaiting(lobbies[l], party)
        /\ lobbies'[l].mm \in Bindings
        /\ \A v \in Users : lobbies'[l].mm[v] = IF v \in party THEN s ELSE lobbies[l].mm[v]
    BY <1>3, <1>4, <1>5 DEF LobbyDocs, NextRevision, Bindings
  <1>7. members(lobbies'[l]) = members(lobbies[l]) \cup party
    BY <1>3, <1>6 DEF members
  <1>8. /\ searches' \in [SearchIds -> SearchDocs] /\ Unused' /\ Tokens'
        /\ \A k \in SearchIds : k # s => searches'[k] = searches[k]
        /\ searches'[s] = searchState(u, party, l)
    BY <1>a, <1>b, <1>2, SearchesKept
  <1>9. Awaiting(lobbies[l], party) \in SUBSET Users
    BY <1>4 DEF Awaiting, LobbyDocs
  <1>10. TypeOK'
    <2>1. lobbies'[l] \in LobbyDocs
      <3>1. lobbies[l].update + 1 \in 0 .. MaxUpdates
        BY <1>2, <1>4 DEF MaxUpdates
      <3> QED
        BY <3>1, <1>4, <1>5, <1>6, <1>9 DEF LobbyDocs
    <2>2. lobbies' \in [Lobbies -> LobbyDocs] /\ told' \in [Lobbies -> SUBSET Users]
      BY <1>1, <1>2, <2>1 DEF IInv, TypeOK
    <2>3. current' \in [Users -> 0 .. MaxLobbies]
      BY <1>b DEF IInv, TypeOK, prepareLobbyAssignments, Lobbies
    <2> QED
      BY <1>2, <1>8, <2>2, <2>3 DEF IInv, TypeOK
  <1>11. Readable'
    BY <1>2, <1>4, <1>6, <1>7 DEF IInv, Served, Readable, Awaiting
  <1>12. IndexTruth'
    <2>1. \A w \in Users : current'[w] = IF w \in members(lobbies[l]) \cup party
                                          THEN l ELSE current[w]
      BY <1>b DEF prepareLobbyAssignments
    <2>2. lobbies'[l].phase \notin {"absent", "disbanded"}
      BY <1>4, <1>6 DEF Open
    <2>3. ASSUME NEW w \in Users, current'[w] # 0
          PROVE  /\ w \in members(lobbies'[current'[w]])
                 /\ lobbies'[current'[w]].phase \notin {"absent", "disbanded"}
      <3>1. CASE w \in members(lobbies[l]) \cup party
        BY <3>1, <2>1, <2>2, <1>7
      <3>2. CASE w \notin members(lobbies[l]) \cup party
        <4>1. /\ current'[w] = current[w] /\ current[w] \in Lobbies
              /\ w \in members(lobbies[current[w]])
              /\ lobbies[current[w]].phase \notin {"absent", "disbanded"}
          BY <3>2, <2>1, <2>3 DEF IInv, Served, IndexTruth, TypeOK, Lobbies
        <4>2. current[w] # l
          BY <4>1, <3>2
        <4> QED
          BY <4>1, <4>2, <1>2
      <3> QED
        BY <3>1, <3>2
    <2> QED
      BY <2>3 DEF IndexTruth
  <1>13. HostFromOwnSearch'
    <2> SUFFICES ASSUME NEW k \in Lobbies, lobbies'[k].phase # "absent"
                 PROVE  \E n \in SearchIds :
                           /\ searches'[n].lobby = k
                           /\ searches'[n].sessions[lobbies'[k].owner] = lobbies'[k].session
      BY DEF HostFromOwnSearch
    <2>1. PICK n \in SearchIds : /\ searches[n].lobby = k
                                 /\ searches[n].sessions[lobbies[k].owner] = lobbies[k].session
      BY <1>2, <1>6 DEF IInv, Served, HostFromOwnSearch
    <2>2. n # s
      BY <2>1, <1>a, FreshIsUnbound DEF Lobbies
    <2> QED
      BY <2>1, <2>2, <1>2, <1>6, <1>8
  <1>14. JoinsAnnounced' /\ Noted'
    <2>1. CASE lobbies[l].phase = "ready"
      BY <2>1, <1>2, <1>6, <1>7 DEF IInv, Served, JoinsAnnounced, Kept, Noted
    <2>2. CASE lobbies[l].phase = "forming"
      <3>1. /\ members(lobbies[l]) \subseteq told[l] \cup lobbies[l].pending
            /\ lobbies[l].owner \in told[l]
        BY <2>2 DEF IInv, Kept, Noted, Served, Readable
      <3> QED
        BY <3>1, <2>2, <1>2, <1>6, <1>7 DEF IInv, Served, JoinsAnnounced, Kept, Noted, Awaiting
    <2> QED
      BY <2>1, <2>2, <1>4 DEF Open
  <1>15. Counted'
    <2>1. ASSUME NEW k \in Lobbies PROVE lobbies'[k].update <= events'
      <3>1. lobbies[k].update \in Nat /\ lobbies[k].update <= events
        BY DEF IInv, TypeOK, LobbyDocs, MaxUpdates, Kept, Counted
      <3> QED
        BY <3>1, <1>2, <1>4, <1>6
    <2>2. ASSUME NEW v \in Users
          PROVE  /\ login'[v] <= events' + 1
                 /\ players'[v].token <= events' + 1 /\ players'[v].token # 0
      <3>1. login[v] \in Nat /\ players[v].token \in Nat
        BY DEF IInv, TypeOK, Sessions, MaxTokens
      <3> QED
        BY <3>1, <1>2 DEF IInv, Kept, Counted
    <2> QED
      BY <2>1, <2>2 DEF Counted
  <1>16. Absent'
    BY <1>2, <1>4, <1>6 DEF IInv, Kept, Absent
  <1>17. BoundHere'
    <2>1. ASSUME NEW k \in Lobbies, NEW v \in Users, lobbies'[k].mm[v] # 0
          PROVE  searches'[lobbies'[k].mm[v]].lobby = k
      <3>1. CASE k = l /\ v \in party
        BY <3>1, <1>6, <1>8 DEF searchState
      <3>2. CASE ~(k = l /\ v \in party)
        <4>1. lobbies'[k].mm[v] = lobbies[k].mm[v]
          BY <3>2, <1>2, <1>6
        <4>2. lobbies[k].mm \in [Users -> 0 .. MaxSearches] /\ lobbies[k].mm[v] # 0
          BY <4>1, <2>1 DEF IInv, TypeOK, LobbyDocs, Bindings
        <4>3. lobbies[k].mm[v] \in SearchIds /\ lobbies[k].mm[v] # s
          BY <4>2, <1>a, FreshIsUnbound DEF SearchIds
        <4> QED
          BY <4>1, <4>3, <2>1, <1>8 DEF IInv, Kept, BoundHere
      <3> QED
        BY <3>1, <3>2
    <2> QED
      BY <2>1 DEF BoundHere
  <1>18. DraftsSeen'
    <2> SUFFICES ASSUME NEW w \in Users, drafts[w].lobby # 0
                 PROVE  /\ lobbies'[drafts[w].lobby].phase # "absent"
                        /\ drafts[w].update <= lobbies'[drafts[w].lobby].update
                        /\ drafts[w].update = lobbies'[drafts[w].lobby].update =>
                               drafts[w].seen = lobbies'[drafts[w].lobby].mm
      BY <1>2 DEF DraftsSeen
    <2>1. drafts[w].lobby \in Lobbies /\ drafts[w].update \in Nat
      BY DEF IInv, TypeOK, Drafts, Lobbies
    <2>2. /\ lobbies[drafts[w].lobby].phase # "absent"
          /\ drafts[w].update <= lobbies[drafts[w].lobby].update
          /\ drafts[w].update = lobbies[drafts[w].lobby].update =>
                 drafts[w].seen = lobbies[drafts[w].lobby].mm
      BY DEF IInv, Kept, DraftsSeen
    <2> QED
      BY <2>1, <2>2, <1>2, <1>4, <1>6
  <1> QED
    BY <1>8, <1>10, <1>11, <1>12, <1>13, <1>14, <1>15, <1>16, <1>17, <1>18 DEF IInv, Served, Kept

(***************************************************************************)
(* Steps that only end searches and only take members and assignments      *)
(* away.                                                                   *)
(***************************************************************************)
LEMMA SearchesEnd ==
    ASSUME IInv, UNCHANGED players,
           DOMAIN searches' = SearchIds, searches' = [s \in SearchIds |-> searches'[s]],
           \A s \in SearchIds :
              searches'[s] \in {searches[s], [searches[s] EXCEPT !.active = FALSE]}
    PROVE  /\ searches' \in [SearchIds -> SearchDocs]
           /\ Unused' /\ Tokens'
           /\ \A s \in SearchIds : /\ searches'[s].lobby = searches[s].lobby
                                   /\ searches'[s].sessions = searches[s].sessions
  <1>1. \A s \in SearchIds : searches[s] \in SearchDocs
    BY DEF IInv, TypeOK
  <1>2. \A s \in SearchIds :
           /\ searches'[s] \in SearchDocs
           /\ searches'[s].lobby = searches[s].lobby /\ searches'[s].user = searches[s].user
           /\ searches'[s].sessions = searches[s].sessions
           /\ searches'[s].tokens = searches[s].tokens
    <2> TAKE s \in SearchIds
    <2>1. CASE searches'[s] = searches[s]
      BY <2>1, <1>1
    <2>2. CASE searches'[s] = [searches[s] EXCEPT !.active = FALSE]
      BY <2>2, <1>1 DEF SearchDocs
    <2> QED
      BY <2>1, <2>2
  <1>3. Unused'
    <2> SUFFICES ASSUME NEW s \in SearchIds, searches'[s].user = Nobody
                 PROVE  searches'[s] = NoSearch
      BY DEF Unused
    <2>1. searches[s] = NoSearch
      BY <1>2 DEF IInv, Kept, Unused
    <2> QED
      BY <2>1 DEF NoSearch
  <1>4. Tokens'
    BY <1>2 DEF IInv, Kept, Tokens
  <1> QED
    BY <1>2, <1>3, <1>4

LEMMA ClosedSearches ==
    ASSUME IInv, NEW ids, searches' = Closed(ids)
    PROVE  /\ DOMAIN searches' = SearchIds /\ searches' = [s \in SearchIds |-> searches'[s]]
           /\ \A s \in SearchIds :
                 /\ searches'[s] \in {searches[s], [searches[s] EXCEPT !.active = FALSE]}
                 /\ s \notin ids => searches'[s] = searches[s]
  <1>1. \A s \in SearchIds : searches[s] \in SearchDocs
    BY DEF IInv, TypeOK
  <1>2. ASSUME NEW s \in SearchIds
        PROVE  /\ searches'[s] \in {searches[s], [searches[s] EXCEPT !.active = FALSE]}
               /\ s \notin ids => searches'[s] = searches[s]
    <2>1. searches'[s] = [searches[s] EXCEPT !.active = searches[s].active /\ s \notin ids]
      BY DEF Closed
    <2>2. searches[s].active \in BOOLEAN
      BY <1>1 DEF SearchDocs
    <2>3. [searches[s] EXCEPT !.active = searches[s].active] = searches[s]
      BY <1>1 DEF SearchDocs
    <2>4. CASE s \in ids
      <3>1. (searches[s].active /\ s \notin ids) = FALSE
        BY <2>4
      <3> QED
        BY <2>1, <3>1, <2>4
    <2>5. CASE s \notin ids
      <3>1. (searches[s].active /\ s \notin ids) = searches[s].active
        BY <2>5, <2>2
      <3> QED
        BY <2>1, <2>3, <3>1
    <2> QED
      BY <2>4, <2>5
  <1> QED
    BY <1>2 DEF Closed

\* Nobody new is told or bound; the phase of one lobby may end, or its handoff.
LEMMA LobbiesEnd ==
    ASSUME IInv, UNCHANGED <<login, online, players, drafts, told>>,
           events' \in 0 .. MaxEvents, events <= events',
           DOMAIN searches' = SearchIds, searches' = [s \in SearchIds |-> searches'[s]],
           \A s \in SearchIds :
              searches'[s] \in {searches[s], [searches[s] EXCEPT !.active = FALSE]},
           NEW l \in Lobbies, lobbies[l].phase # "absent",
           NEW phase \in {lobbies[l].phase, "expired", "disbanded"}, NEW handoff \in Handoffs,
           lobbies' = [lobbies EXCEPT ![l] = [@ EXCEPT !.phase = phase, !.handoff = handoff]],
           current' \in [Users -> 0 .. MaxLobbies],
           \A w \in Users : /\ current'[w] \in {current[w], 0}
                            /\ phase = "disbanded" => current'[w] # l
    PROVE  IInv'
  <1> USE LobbyAssumption
  <1>1. /\ searches' \in [SearchIds -> SearchDocs] /\ Unused' /\ Tokens'
        /\ \A s \in SearchIds : /\ searches'[s].lobby = searches[s].lobby
                                /\ searches'[s].sessions = searches[s].sessions
    BY SearchesEnd
  <1>2. /\ lobbies[l] \in LobbyDocs
        /\ lobbies'[l] = [lobbies[l] EXCEPT !.phase = phase, !.handoff = handoff]
        /\ \A k \in Lobbies : k # l => lobbies'[k] = lobbies[k]
    BY DEF IInv, TypeOK
  <1>3. /\ lobbies'[l] \in LobbyDocs /\ lobbies'[l].phase = phase
        /\ phase # "absent"
    <2>1. phase \in Phases /\ phase # "absent"
      BY <1>2 DEF LobbyDocs, Phases
    <2>2. \A doc \in LobbyDocs :
             /\ [doc EXCEPT !.phase = phase, !.handoff = handoff] \in LobbyDocs
             /\ [doc EXCEPT !.phase = phase, !.handoff = handoff].phase = phase
      BY <2>1 DEF LobbyDocs
    <2> QED
      BY ZenonT(60), <1>2, <2>1, <2>2
  <1>4. \A k \in Lobbies : /\ lobbies'[k].owner = lobbies[k].owner
                           /\ lobbies'[k].session = lobbies[k].session
                           /\ lobbies'[k].mm = lobbies[k].mm
                           /\ lobbies'[k].update = lobbies[k].update
                           /\ lobbies'[k].pending = lobbies[k].pending
                           /\ lobbies'[k].phase \in {"ready", "forming", "absent"} =>
                                  lobbies'[k].phase = lobbies[k].phase
                           /\ lobbies'[k].phase = "absent" <=> lobbies[k].phase = "absent"
    BY <1>2, <1>3 DEF LobbyDocs
  <1>5. \A k \in Lobbies : members(lobbies'[k]) = members(lobbies[k])
    BY <1>4 DEF members
  <1>6. TypeOK'
    BY <1>1, <1>3 DEF IInv, TypeOK
  <1>7. Readable'
    BY <1>4, <1>5 DEF IInv, Served, Readable
  <1>8. IndexTruth'
    <2> SUFFICES ASSUME NEW w \in Users, current'[w] # 0
                 PROVE  /\ w \in members(lobbies'[current'[w]])
                        /\ lobbies'[current'[w]].phase \notin {"absent", "disbanded"}
      BY DEF IndexTruth
    <2>1. /\ current'[w] = current[w] /\ current[w] \in Lobbies
          /\ w \in members(lobbies[current[w]])
          /\ lobbies[current[w]].phase \notin {"absent", "disbanded"}
      BY DEF IInv, TypeOK, Served, IndexTruth, Lobbies
    <2> QED
      BY <2>1, <1>2, <1>3, <1>4, <1>5
  <1>9. HostFromOwnSearch'
    BY <1>1, <1>4 DEF IInv, Served, HostFromOwnSearch
  <1>10. JoinsAnnounced' /\ Noted'
    BY <1>4, <1>5 DEF IInv, Served, JoinsAnnounced, Kept, Noted
  <1>11. Counted'
    <2>1. \A k \in Lobbies : lobbies[k].update \in Nat /\ lobbies[k].update <= events
      BY DEF IInv, TypeOK, LobbyDocs, MaxUpdates, Kept, Counted
    <2>2. \A v \in Users : /\ login[v] \in Nat /\ players[v].token \in Nat
                           /\ login[v] <= events + 1 /\ players[v].token <= events + 1
                           /\ players[v].token # 0
      BY DEF IInv, TypeOK, Sessions, MaxTokens, Kept, Counted
    <2> QED
      BY <2>1, <2>2, <1>4 DEF Counted, IInv, TypeOK
  <1>12. Absent'
    BY <1>2, <1>3 DEF IInv, Kept, Absent
  <1>13. BoundHere'
    <2> SUFFICES ASSUME NEW k \in Lobbies, NEW v \in Users, lobbies'[k].mm[v] # 0
                 PROVE  searches'[lobbies'[k].mm[v]].lobby = k
      BY DEF BoundHere
    <2>1. lobbies[k].mm \in [Users -> 0 .. MaxSearches]
      BY DEF IInv, TypeOK, LobbyDocs, Bindings
    <2>2. lobbies[k].mm[v] \in SearchIds
      BY <2>1, <1>4 DEF SearchIds
    <2> QED
      BY <2>2, <1>1, <1>4 DEF IInv, Kept, BoundHere
  <1>14. DraftsSeen'
    BY <1>4 DEF IInv, Kept, DraftsSeen, TypeOK, Drafts, Lobbies
  <1> QED
    BY <1>1, <1>6, <1>7, <1>8, <1>9, <1>10, <1>11, <1>12, <1>13, <1>14 DEF IInv, Served, Kept

LEMMA SameSearches ==
    ASSUME IInv, UNCHANGED searches
    PROVE  /\ DOMAIN searches' = SearchIds /\ searches' = [s \in SearchIds |-> searches'[s]]
           /\ \A s \in SearchIds :
                 searches'[s] \in {searches[s], [searches[s] EXCEPT !.active = FALSE]}
  BY DEF IInv, TypeOK

LEMMA DisbandInv ==
    ASSUME IInv, NEW u \in Users, DisbandLobby(u)
    PROVE  IInv'
  <1>1. PICK l \in Lobbies :
           /\ Event /\ lobbies[l].owner = u
           /\ lobbies' = [lobbies EXCEPT ![l].phase = "disbanded"]
           /\ searches' = Closed({lobbies[l].mm[v] : v \in members(lobbies[l])})
           /\ current' = Unassigned(l, members(lobbies[l]))
           /\ UNCHANGED <<account, players, drafts, told>>
    BY DEF DisbandLobby
  <1>2. /\ events' \in 0 .. MaxEvents /\ events <= events'
        /\ UNCHANGED <<login, online, players, drafts, told>>
    BY <1>1, LobbyAssumption DEF Event, IInv, TypeOK, account
  <1>3. lobbies[l] \in LobbyDocs /\ lobbies[l].phase # "absent"
    BY <1>1, LobbyAssumption DEF IInv, TypeOK, Kept, Absent, NoLobby
  <1>4. lobbies' = [lobbies EXCEPT ![l] = [@ EXCEPT !.phase = "disbanded",
                                                    !.handoff = lobbies[l].handoff]]
    <2>1. [lobbies[l] EXCEPT !.phase = "disbanded"] =
          [lobbies[l] EXCEPT !.phase = "disbanded", !.handoff = lobbies[l].handoff]
      BY <1>3 DEF LobbyDocs
    <2>2. lobbies' = [lobbies EXCEPT ![l] = [lobbies[l] EXCEPT !.phase = "disbanded"]]
      BY <1>1
    <2> QED
      BY <2>1, <2>2
  <1>5. /\ current' \in [Users -> 0 .. MaxLobbies]
        /\ \A w \in Users : current'[w] \in {current[w], 0} /\ current'[w] # l
    <2>1. \A w \in Users : current[w] = l => w \in members(lobbies[l])
      BY DEF IInv, Served, IndexTruth, Lobbies
    <2> QED
      BY <2>1, <1>1, LobbyAssumption DEF Unassigned, IInv, TypeOK, Lobbies
  <1>6. lobbies[l].handoff \in Handoffs
    BY <1>3 DEF LobbyDocs
  <1>7. /\ DOMAIN searches' = SearchIds /\ searches' = [s \in SearchIds |-> searches'[s]]
        /\ \A s \in SearchIds :
              searches'[s] \in {searches[s], [searches[s] EXCEPT !.active = FALSE]}
    BY <1>1, ClosedSearches
  <1> QED
    BY <1>2, <1>3, <1>4, <1>5, <1>6, <1>7, LobbiesEnd

LEMMA ExpireInv ==
    ASSUME IInv, ExpireLobby
    PROVE  IInv'
  <1>1. PICK l \in Lobbies :
           /\ Event /\ Open(lobbies[l])
           /\ lobbies' = [lobbies EXCEPT ![l].phase = "expired"]
           /\ UNCHANGED <<account, players, searches, current, drafts, told>>
    BY DEF ExpireLobby
  <1>2. /\ events' \in 0 .. MaxEvents /\ events <= events'
        /\ UNCHANGED <<login, online, players, drafts, told>>
    BY <1>1, LobbyAssumption DEF Event, IInv, TypeOK, account
  <1>3. lobbies[l] \in LobbyDocs /\ lobbies[l].phase # "absent" /\ lobbies[l].handoff \in Handoffs
    BY <1>1 DEF IInv, TypeOK, Open, LobbyDocs
  <1>4. lobbies' = [lobbies EXCEPT ![l] = [@ EXCEPT !.phase = "expired",
                                                    !.handoff = lobbies[l].handoff]]
    <2>1. [lobbies[l] EXCEPT !.phase = "expired"] =
          [lobbies[l] EXCEPT !.phase = "expired", !.handoff = lobbies[l].handoff]
      BY <1>3 DEF LobbyDocs
    <2>2. lobbies' = [lobbies EXCEPT ![l] = [lobbies[l] EXCEPT !.phase = "expired"]]
      BY <1>1
    <2> QED
      BY <2>1, <2>2
  <1>5. current' \in [Users -> 0 .. MaxLobbies] /\ \A w \in Users : current'[w] \in {current[w], 0}
    BY <1>1 DEF IInv, TypeOK
  <1> QED
    BY <1>1, <1>2, <1>3, <1>4, <1>5, SameSearches, LobbiesEnd

LEMMA HandoffInv ==
    ASSUME IInv, HandoffExpires
    PROVE  IInv'
  <1>1. PICK l \in Lobbies :
           /\ Event /\ lobbies[l].handoff # NoHandoff
           /\ lobbies' = [lobbies EXCEPT ![l].handoff = NoHandoff]
           /\ UNCHANGED <<account, players, searches, current, drafts, told>>
    BY DEF HandoffExpires
  <1>2. /\ events' \in 0 .. MaxEvents /\ events <= events'
        /\ UNCHANGED <<login, online, players, drafts, told>>
    BY <1>1, LobbyAssumption DEF Event, IInv, TypeOK, account
  <1>3. lobbies[l] \in LobbyDocs /\ lobbies[l].phase # "absent" /\ NoHandoff \in Handoffs
    <2>1. NoHandoff \in Handoffs
      BY LobbyAssumption DEF NoHandoff, Handoffs, MaxLogins
    <2> QED
      BY <1>1, <2>1 DEF IInv, TypeOK, Kept, Absent, NoLobby
  <1>4. lobbies' = [lobbies EXCEPT ![l] = [@ EXCEPT !.phase = lobbies[l].phase,
                                                    !.handoff = NoHandoff]]
    <2>1. [lobbies[l] EXCEPT !.handoff = NoHandoff] =
          [lobbies[l] EXCEPT !.phase = lobbies[l].phase, !.handoff = NoHandoff]
      BY <1>3 DEF LobbyDocs
    <2>2. lobbies' = [lobbies EXCEPT ![l] = [lobbies[l] EXCEPT !.handoff = NoHandoff]]
      BY <1>1
    <2> QED
      BY <2>1, <2>2
  <1>5. /\ current' \in [Users -> 0 .. MaxLobbies]
        /\ \A w \in Users : /\ current'[w] \in {current[w], 0}
                             /\ lobbies[l].phase = "disbanded" => current'[w] # l
    BY <1>1 DEF IInv, TypeOK, Served, IndexTruth, Lobbies
  <1> QED
    BY <1>1, <1>2, <1>3, <1>4, <1>5, SameSearches, LobbiesEnd

LEMMA CancelInv ==
    ASSUME IInv, NEW u \in Users, CancelSearch(u)
    PROVE  IInv'
  <1>1. PICK n \in SearchIds :
           /\ Event
           /\ searches' = [searches EXCEPT ![n].active = FALSE]
           /\ UNCHANGED <<account, players, lobbies, current, drafts, told>>
    BY DEF CancelSearch
  <1>2. /\ events' \in 0 .. MaxEvents /\ events <= events'
        /\ UNCHANGED <<login, online, players, lobbies, current, drafts, told>>
    BY <1>1, LobbyAssumption DEF Event, IInv, TypeOK, account
  <1>3. /\ DOMAIN searches' = SearchIds /\ searches' = [s \in SearchIds |-> searches'[s]]
        /\ \A s \in SearchIds :
              searches'[s] \in {searches[s], [searches[s] EXCEPT !.active = FALSE]}
    BY <1>1 DEF IInv, TypeOK
  <1>4. /\ searches' \in [SearchIds -> SearchDocs]
        /\ Unused' /\ Tokens'
        /\ \A s \in SearchIds : /\ searches'[s].lobby = searches[s].lobby
                                /\ searches'[s].sessions = searches[s].sessions
    BY <1>2, <1>3, SearchesEnd
  <1>5. TypeOK'
    BY <1>2, <1>4 DEF IInv, TypeOK
  <1>6. Served'
    BY <1>2, <1>4 DEF IInv, Served, Readable, IndexTruth, HostFromOwnSearch, JoinsAnnounced, members
  <1>7. Counted'
    <2>1. \A k \in Lobbies : lobbies[k].update \in Nat /\ lobbies[k].update <= events
      BY DEF IInv, TypeOK, LobbyDocs, MaxUpdates, Kept, Counted
    <2>2. \A v \in Users : /\ login[v] \in Nat /\ players[v].token \in Nat
                           /\ login[v] <= events + 1 /\ players[v].token <= events + 1
                           /\ players[v].token # 0
      BY DEF IInv, TypeOK, Sessions, MaxTokens, Kept, Counted
    <2> QED
      BY <2>1, <2>2, <1>2 DEF Counted, IInv, TypeOK
  <1>8. BoundHere'
    <2> SUFFICES ASSUME NEW k \in Lobbies, NEW v \in Users, lobbies[k].mm[v] # 0
                 PROVE  searches'[lobbies[k].mm[v]].lobby = k
      BY <1>2 DEF BoundHere
    <2>1. lobbies[k].mm \in [Users -> 0 .. MaxSearches]
      BY DEF IInv, TypeOK, LobbyDocs, Bindings
    <2>2. lobbies[k].mm[v] \in SearchIds
      BY <2>1 DEF SearchIds
    <2> QED
      BY <2>2, <1>4 DEF IInv, Kept, BoundHere
  <1>9. Absent' /\ DraftsSeen' /\ Noted'
    BY <1>2 DEF IInv, Kept, Absent, DraftsSeen, Noted, members
  <1> QED
    BY <1>4, <1>5, <1>6, <1>7, <1>8, <1>9 DEF IInv, Kept

LEMMA ReadInv ==
    ASSUME IInv, NEW u \in Users, ReadDocuments(u)
    PROVE  IInv'
  <1>1. PICK l \in Lobbies :
           /\ Open(lobbies[l])
           /\ drafts' = [drafts EXCEPT ![u] = [lobby |-> l, update |-> lobbies[l].update,
                                               seen |-> lobbies[l].mm]]
           /\ UNCHANGED <<login, online, players, searches, lobbies, current, told, events>>
    BY DEF ReadDocuments, account
  <1>2. /\ lobbies[l].update \in 0 .. MaxUpdates /\ lobbies[l].mm \in Bindings
        /\ lobbies[l].phase # "absent" /\ l \in 0 .. MaxLobbies
    BY <1>1, LobbyAssumption DEF IInv, TypeOK, LobbyDocs, Lobbies, Open
  <1>3. /\ drafts' \in [Users -> Drafts]
        /\ drafts'[u] = [lobby |-> l, update |-> lobbies[l].update, seen |-> lobbies[l].mm]
        /\ \A w \in Users : w # u => drafts'[w] = drafts[w]
    BY <1>1, <1>2 DEF IInv, TypeOK, Drafts
  <1>4. TypeOK'
    BY <1>1, <1>3 DEF IInv, TypeOK
  <1>5. Served' /\ (Counted /\ Absent /\ Unused /\ BoundHere /\ Tokens /\ Noted)'
    BY <1>1 DEF IInv, Served, Readable, IndexTruth, HostFromOwnSearch, JoinsAnnounced, members,
                Kept, Counted, Absent, Unused, BoundHere, Tokens, Noted
  <1>6. DraftsSeen'
    BY <1>1, <1>2, <1>3 DEF IInv, Kept, DraftsSeen, MaxUpdates
  <1> QED
    BY <1>4, <1>5, <1>6 DEF IInv, Kept

(***************************************************************************)
(* Host documents.                                                         *)
(***************************************************************************)
LEMMA HostInv ==
    ASSUME IInv, NEW u \in Users, NEW l \in Lobbies, NEW session \in online[u],
           NEW keep \in SUBSET Users, NEW target \in Users \cup {Nobody},
           HostDocument(u, l, session, keep, target)
    PROVE  IInv'
  <1> USE LobbyAssumption
  <1> DEFINE host == [phase |-> "ready", owner |-> u, session |-> session,
                      mm |-> [v \in Users |-> IF v \in keep THEN lobbies[l].mm[v] ELSE 0],
                      update |-> NextRevision(lobbies[l]), pending |-> {},
                      handoff |-> IF lobbies[l].owner # u THEN NoHandoff
                                  ELSE Handoff(lobbies[l], target)]
  <1>1. /\ Event /\ Open(lobbies[l]) /\ drafts[u].lobby = l
        /\ u \in keep /\ keep \subseteq members(lobbies[l])
        /\ UNCHANGED <<login, online, players>>
    BY DEF HostDocument, account
  <1>2. /\ lobbies[l].owner # u => MayMigrate(u, session, l)
        /\ lobbies[l].owner = u => lobbies[l].session = session
    BY DEF HostDocument
  <1>3. lobbies' = [lobbies EXCEPT ![l] = host]
    BY DEF HostDocument
  <1>4. /\ searches' = Closed(reconcileMembers(lobbies[l], keep))
        /\ current' = Unassigned(l, members(lobbies[l]) \ keep)
        /\ drafts' = [drafts EXCEPT ![u] = NoDraft]
        /\ told' = [told EXCEPT ![l] =
              (@ \cap keep) \cup ((lobbies[l].pending \ {u}) \cap keep) \cup {u}]
    BY DEF HostDocument
  <1>5. /\ lobbies[l] \in LobbyDocs /\ lobbies[l].phase \in {"forming", "ready"}
        /\ lobbies[l].update \in Nat /\ lobbies[l].update <= events /\ l # 0
    BY SMTT(30), <1>1 DEF IInv, TypeOK, Open, Kept, Counted, LobbyDocs, MaxUpdates, Lobbies
  <1>6. /\ events' = events + 1 /\ events' \in 0 .. MaxEvents /\ events \in Nat
        /\ session \in 0 .. MaxLogins /\ u # Nobody
    BY <1>1 DEF IInv, TypeOK, Event, Sessions, MaxLogins
  <1>7. /\ lobbies'[l] = host
        /\ \A k \in Lobbies : k # l => lobbies'[k] = lobbies[k] /\ told'[k] = told[k]
        /\ told'[l] = (told[l] \cap keep) \cup ((lobbies[l].pending \ {u}) \cap keep) \cup {u}
    BY <1>3, <1>4 DEF IInv, TypeOK
  <1>8. /\ host.phase = "ready" /\ host.owner = u /\ host.session = session
        /\ host.update = lobbies[l].update + 1 /\ host.pending = {}
        /\ host.mm \in Bindings
        /\ \A v \in Users : host.mm[v] = IF v \in keep THEN lobbies[l].mm[v] ELSE 0
        /\ \A v \in keep : lobbies[l].mm[v] # 0
    BY <1>1, <1>5 DEF NextRevision, LobbyDocs, Bindings, members
  <1> HIDE DEF host
  <1>9. members(lobbies'[l]) = keep
    BY <1>7, <1>8 DEF members
  <1>10. host \in LobbyDocs
    <2>1. (IF lobbies[l].owner # u THEN NoHandoff ELSE Handoff(lobbies[l], target)) \in Handoffs
      <3>1. NoHandoff \in Handoffs /\ lobbies[l].handoff \in Handoffs
        BY <1>5 DEF NoHandoff, Handoffs, MaxLogins, LobbyDocs
      <3>2. target # Nobody => players[target].session \in 0 .. MaxLogins
        BY DEF IInv, TypeOK
      <3>3. lobbies[l].session \in 0 .. MaxLogins
        BY <1>5 DEF LobbyDocs
      <3>4. Handoff(lobbies[l], target) \in Handoffs
        BY <3>1, <3>2, <3>3 DEF Handoff, Handoffs
      <3> QED
        BY <3>1, <3>4
    <2>2. NextRevision(lobbies[l]) \in 0 .. MaxUpdates
      BY <1>5, <1>6 DEF NextRevision, MaxUpdates
    <2>3. [v \in Users |-> IF v \in keep THEN lobbies[l].mm[v] ELSE 0] \in Bindings
      BY <1>5 DEF LobbyDocs, Bindings
    <2> QED
      BY <2>1, <2>2, <2>3, <1>6 DEF host, LobbyDocs, Phases
  <1>11. /\ searches' \in [SearchIds -> SearchDocs] /\ Unused' /\ Tokens'
         /\ \A s \in SearchIds : /\ searches'[s].lobby = searches[s].lobby
                                 /\ searches'[s].sessions = searches[s].sessions
    <2>1. /\ DOMAIN searches' = SearchIds /\ searches' = [s \in SearchIds |-> searches'[s]]
          /\ \A s \in SearchIds :
                searches'[s] \in {searches[s], [searches[s] EXCEPT !.active = FALSE]}
      BY <1>4, ClosedSearches
    <2> QED
      BY <1>1, <2>1, SearchesEnd
  <1>12. /\ current' \in [Users -> 0 .. MaxLobbies]
         /\ \A w \in Users : current'[w] \in {current[w], 0} /\ (current'[w] = l => w \in keep)
    <2>1. \A w \in Users : current[w] = l => w \in members(lobbies[l])
      BY DEF IInv, Served, IndexTruth, Lobbies
    <2> QED
      BY <2>1, <1>4, <1>5 DEF Unassigned, IInv, TypeOK, Lobbies
  <1>13. TypeOK'
    <2>1. lobbies' \in [Lobbies -> LobbyDocs]
      BY <1>3, <1>10 DEF IInv, TypeOK
    <2>2. drafts' \in [Users -> Drafts]
      BY <1>4 DEF IInv, TypeOK, Drafts, NoDraft, Unbound, Bindings, MaxUpdates
    <2>3. told' \in [Lobbies -> SUBSET Users]
      BY <1>4 DEF IInv, TypeOK
    <2> QED
      BY <2>1, <2>2, <2>3, <1>1, <1>6, <1>11, <1>12 DEF IInv, TypeOK
  <1>14. Readable'
    BY <1>1, <1>7, <1>8, <1>9 DEF IInv, Served, Readable
  <1>15. IndexTruth'
    <2> SUFFICES ASSUME NEW w \in Users, current'[w] # 0
                 PROVE  /\ w \in members(lobbies'[current'[w]])
                        /\ lobbies'[current'[w]].phase \notin {"absent", "disbanded"}
      BY DEF IndexTruth
    <2>1. /\ current'[w] = current[w] /\ current[w] \in Lobbies
          /\ w \in members(lobbies[current[w]])
          /\ lobbies[current[w]].phase \notin {"absent", "disbanded"}
      BY <1>12 DEF IInv, TypeOK, Served, IndexTruth, Lobbies
    <2>2. CASE current[w] = l
      BY <2>1, <2>2, <1>7, <1>8, <1>9, <1>12
    <2>3. CASE current[w] # l
      BY <2>1, <2>3, <1>7
    <2> QED
      BY <2>2, <2>3
  <1>16. HostFromOwnSearch'
    <2> SUFFICES ASSUME NEW k \in Lobbies, lobbies'[k].phase # "absent"
                 PROVE  \E n \in SearchIds :
                           /\ searches'[n].lobby = k
                           /\ searches'[n].sessions[lobbies'[k].owner] = lobbies'[k].session
      BY DEF HostFromOwnSearch
    <2>1. CASE k # l
      BY <2>1, <1>7, <1>11 DEF IInv, Served, HostFromOwnSearch
    <2>2. CASE k = l /\ lobbies[l].owner = u
      <3>1. PICK n \in SearchIds : /\ searches[n].lobby = l
                                   /\ searches[n].sessions[u] = lobbies[l].session
        BY <2>2, <1>5 DEF IInv, Served, HostFromOwnSearch
      <3> QED
        BY <3>1, <2>2, <1>2, <1>7, <1>8, <1>11
    <2>3. CASE k = l /\ lobbies[l].owner # u
      <3>1. /\ players[u].session = session
            /\ searches[lobbies[l].mm[u]].tokens[u] = players[u].token
        BY <2>3, <1>2 DEF MayMigrate, Bound
      <3>2. lobbies[l].mm[u] \in SearchIds
        BY <1>1, <1>5, <1>8 DEF LobbyDocs, Bindings, SearchIds
      <3>3. /\ searches[lobbies[l].mm[u]].lobby = l
            /\ searches[lobbies[l].mm[u]].sessions[u] = session
        BY <3>1, <3>2, <1>1, <1>8 DEF IInv, Kept, BoundHere, Tokens
      <3> QED
        BY <3>2, <3>3, <2>3, <1>7, <1>8, <1>11
    <2> QED
      BY <2>1, <2>2, <2>3
  <1>17. JoinsAnnounced' /\ Noted'
    <2>1. members(lobbies[l]) \subseteq told[l] \cup lobbies[l].pending
      BY <1>5 DEF IInv, Served, JoinsAnnounced, Kept, Noted
    <2> QED
      BY <2>1, <1>1, <1>7, <1>8, <1>9 DEF IInv, Served, JoinsAnnounced, Kept, Noted
  <1>18. Counted'
    <2>1. ASSUME NEW k \in Lobbies PROVE lobbies'[k].update <= events'
      <3>1. lobbies[k].update \in Nat /\ lobbies[k].update <= events
        BY DEF IInv, TypeOK, LobbyDocs, MaxUpdates, Kept, Counted
      <3> QED
        BY <3>1, <1>5, <1>6, <1>7, <1>8
    <2>2. ASSUME NEW v \in Users
          PROVE  /\ login'[v] <= events' + 1
                 /\ players'[v].token <= events' + 1 /\ players'[v].token # 0
      <3>1. login[v] \in Nat /\ players[v].token \in Nat
        BY DEF IInv, TypeOK, Sessions, MaxTokens
      <3> QED
        BY <3>1, <1>1, <1>6 DEF IInv, Kept, Counted
    <2> QED
      BY <2>1, <2>2 DEF Counted
  <1>19. Absent'
    BY <1>7, <1>8 DEF IInv, Kept, Absent
  <1>20. BoundHere'
    <2> SUFFICES ASSUME NEW k \in Lobbies, NEW v \in Users, lobbies'[k].mm[v] # 0
                 PROVE  searches'[lobbies'[k].mm[v]].lobby = k
      BY DEF BoundHere
    <2>1. lobbies'[k].mm[v] = lobbies[k].mm[v]
      BY <1>7, <1>8
    <2>2. lobbies[k].mm \in [Users -> 0 .. MaxSearches]
      BY DEF IInv, TypeOK, LobbyDocs, Bindings
    <2>3. lobbies[k].mm[v] \in SearchIds
      BY <2>1, <2>2 DEF SearchIds
    <2> QED
      BY <2>1, <2>3, <1>11 DEF IInv, Kept, BoundHere
  <1>21. DraftsSeen'
    <2> SUFFICES ASSUME NEW w \in Users, drafts'[w].lobby # 0
                 PROVE  /\ lobbies'[drafts'[w].lobby].phase # "absent"
                        /\ drafts'[w].update <= lobbies'[drafts'[w].lobby].update
                        /\ drafts'[w].update = lobbies'[drafts'[w].lobby].update =>
                               drafts'[w].seen = lobbies'[drafts'[w].lobby].mm
      BY DEF DraftsSeen
    <2>1. drafts'[w] = drafts[w]
      BY <1>4 DEF IInv, TypeOK, NoDraft
    <2>2. drafts[w].lobby \in Lobbies /\ drafts[w].update \in Nat
      BY SMTT(30), <2>1 DEF IInv, TypeOK, Drafts, Lobbies
    <2>3. /\ lobbies[drafts[w].lobby].phase # "absent"
          /\ drafts[w].update <= lobbies[drafts[w].lobby].update
          /\ drafts[w].update = lobbies[drafts[w].lobby].update =>
                 drafts[w].seen = lobbies[drafts[w].lobby].mm
      BY <2>1 DEF IInv, Kept, DraftsSeen
    <2> QED
      BY <2>1, <2>2, <2>3, <1>5, <1>7, <1>8
  <1> QED
    BY <1>11, <1>13, <1>14, <1>15, <1>16, <1>17, <1>18, <1>19, <1>20, <1>21
       DEF IInv, Served, Kept

LEMMA StepInv == IInv /\ [Next]_vars => IInv'
  <1> SUFFICES ASSUME IInv, [Next]_vars PROVE IInv'
    OBVIOUS
  <1>1. ASSUME NEW u \in Users, Login(u) \/ Disconnect(u) \/ Reconnect(u) \/ IssueToken(u)
        PROVE  IInv'
    BY <1>1, AccountsInv
  <1>2. ASSUME NEW u \in Users, NEW party \in SUBSET Users, CreateLobby(u, party)
        PROVE  IInv'
    BY <1>2, CreateInv
  <1>3. ASSUME NEW u \in Users, NEW party \in SUBSET Users, Join(u, party)
        PROVE  IInv'
    BY <1>3, JoinInv
  <1>4. ASSUME NEW u \in Users, CancelSearch(u) PROVE IInv'
    BY <1>4, CancelInv
  <1>5. ASSUME NEW u \in Users, DisbandLobby(u) PROVE IInv'
    BY <1>5, DisbandInv
  <1>6. ASSUME NEW u \in Users, ReadDocuments(u) PROVE IInv'
    BY <1>6, ReadInv
  <1>7. ASSUME NEW u \in Users, UpdateHost(u) PROVE IInv'
    BY <1>7, HostInv DEF UpdateHost
  <1>8. CASE ExpireLobby
    BY <1>8, ExpireInv
  <1>9. CASE HandoffExpires
    BY <1>9, HandoffInv
  <1>10. CASE UNCHANGED vars
    <2>1. TypeOK' /\ Served'
      BY <1>10 DEF vars, IInv, TypeOK, Served, Readable, IndexTruth, HostFromOwnSearch,
                   JoinsAnnounced, members
    <2>2. Kept'
      BY <1>10 DEF vars, IInv, Kept, Counted, Absent, Unused, BoundHere, Tokens, DraftsSeen, Noted,
                   members
    <2> QED
      BY <2>1, <2>2 DEF IInv
  <1> QED
    BY <1>1, <1>2, <1>3, <1>4, <1>5, <1>6, <1>7, <1>8, <1>9, <1>10 DEF Next

\* The inductive invariant.
THEOREM Inductive == Spec => []IInv
  BY Start, StepInv, PTL DEF Spec

(***************************************************************************)
(* The theorems.                                                           *)
(***************************************************************************)
\* All state stays in its type: the index, the searches and the documents of lobbies refer to
\* documents that can exist, and no revision is skipped.
THEOREM TypeCorrect == Spec => []TypeOK
  <1>1. IInv => TypeOK
    BY DEF IInv
  <1> QED
    BY <1>1, Inductive, PTL

\* Whatever joins, migrations and host documents do to a lobby, loadLobby and the journal
\* accept its document again.
THEOREM DocumentsReadable == Spec => []Readable
  <1>1. IInv => Readable
    BY DEF IInv, Served
  <1> QED
    BY <1>1, Inductive, PTL

\* The index of assignments names only lobbies that list the player and are not disbanded.
THEOREM IndexTruthful == Spec => []IndexTruth
  <1>1. IInv => IndexTruth
    BY DEF IInv, Served
  <1> QED
    BY <1>1, Inductive, PTL

\* A host came to its lobby by a search of the session it hosts with.
THEOREM HostsSearched == Spec => []HostFromOwnSearch
  <1>1. IInv => HostFromOwnSearch
    BY DEF IInv, Served
  <1> QED
    BY <1>1, Inductive, PTL

\* Every member of a lobby whose host is ready was sent there for the search that binds it.
THEOREM JoinsSent == Spec => []JoinsAnnounced
  <1>1. IInv => JoinsAnnounced
    BY DEF IInv, Served
  <1> QED
    BY <1>1, Inductive, PTL

\* The two actions that change who is a member, beside the host document.
LEMMA MembersCome ==
    ASSUME IInv, NEW u \in Users, NEW party \in SUBSET Users,
           CreateLobby(u, party) \/ Join(u, party), NEW k \in Lobbies, NEW v \in Users,
           lobbies[k].mm[v] # 0
    PROVE  /\ lobbies'[k].mm[v] # 0
           /\ lobbies'[k].update # lobbies[k].update /\ lobbies'[k].mm[v] = lobbies[k].mm[v] =>
                 searches'[lobbies[k].mm[v]] = searches[lobbies[k].mm[v]]
  <1>1. lobbies[k].mm[v] \in SearchIds /\ lobbies[k] \in LobbyDocs
    BY DEF IInv, TypeOK, LobbyDocs, Bindings, SearchIds
  <1>2. CASE CreateLobby(u, party)
    <2>1. PICK l \in Lobbies, s \in SearchIds :
             FreshLobby(l) /\ lobbies' = [lobbies EXCEPT ![l] = createLobbyDocument(u, party, s)]
      BY <1>2 DEF CreateLobby
    <2>2. k # l
      BY <2>1 DEF FreshLobby, IInv, Kept, Absent, NoLobby, Unbound
    <2> QED
      BY <2>1, <2>2 DEF IInv, TypeOK
  <1>3. CASE Join(u, party)
    <2>1. PICK l \in Lobbies, s \in SearchIds :
             /\ FreshSearch(s)
             /\ lobbies' = [lobbies EXCEPT
                   ![l].mm = [w \in Users |-> IF w \in party THEN s ELSE @[w]],
                   ![l].update = NextRevision(lobbies[l]),
                   ![l].pending = Awaiting(lobbies[l], party)]
             /\ searches' = [searches EXCEPT ![s] = searchState(u, party, l)]
      BY Zenon, <1>3 DEF Join
    <2>2. lobbies[k].mm[v] # s
      BY <2>1, FreshIsUnbound
    <2>3. searches'[lobbies[k].mm[v]] = searches[lobbies[k].mm[v]]
      BY <2>1, <2>2, <1>1 DEF IInv, TypeOK
    <2>4. CASE k # l
      BY <2>1, <2>3, <2>4 DEF IInv, TypeOK
    <2>5. CASE k = l
      <3>1. lobbies'[k] = [lobbies[k] EXCEPT
                             !.mm = [w \in Users |-> IF w \in party THEN s ELSE @[w]],
                             !.update = NextRevision(lobbies[l]),
                             !.pending = Awaiting(lobbies[l], party)]
        BY <2>1, <2>5 DEF IInv, TypeOK
      <3>2. lobbies'[k].mm[v] = IF v \in party THEN s ELSE lobbies[k].mm[v]
        BY <3>1, <1>1 DEF LobbyDocs
      <3> QED
        BY <2>3, <3>2 DEF SearchIds
    <2> QED
      BY <2>4, <2>5
  <1> QED
    BY <1>2, <1>3

LEMMA OthersKeepMembers ==
    ASSUME IInv, NEW u \in Users,
           \/ Login(u) \/ Disconnect(u) \/ Reconnect(u) \/ IssueToken(u)
           \/ CancelSearch(u) \/ DisbandLobby(u) \/ ReadDocuments(u)
           \/ ExpireLobby \/ HandoffExpires \/ UNCHANGED vars,
           NEW k \in Lobbies
    PROVE  lobbies'[k].mm = lobbies[k].mm /\ lobbies'[k].update = lobbies[k].update
  <1>1. lobbies \in [Lobbies -> LobbyDocs]
    BY DEF IInv, TypeOK
  <1>2. CASE DisbandLobby(u)
    BY <1>1, <1>2 DEF DisbandLobby, LobbyDocs
  <1>3. CASE ExpireLobby
    BY <1>1, <1>3 DEF ExpireLobby, LobbyDocs
  <1>4. CASE HandoffExpires
    BY <1>1, <1>4 DEF HandoffExpires, LobbyDocs
  <1>5. CASE lobbies' = lobbies
    BY <1>5
  <1> QED
    BY <1>2, <1>3, <1>4, <1>5 DEF Login, Disconnect, Reconnect, IssueToken, CancelSearch,
                                  ReadDocuments, vars

LEMMA HostKeeps ==
    ASSUME IInv, NEW u \in Users, NEW l \in Lobbies, NEW session \in online[u],
           NEW keep \in SUBSET Users, NEW target \in Users \cup {Nobody},
           HostDocument(u, l, session, keep, target),
           NEW k \in Lobbies, NEW v \in Users, lobbies[k].mm[v] # 0
    PROVE  /\ lobbies'[k].mm[v] = 0 =>
                 drafts[u].lobby = k /\ drafts[u].seen[v] = lobbies[k].mm[v]
           /\ lobbies'[k].update # lobbies[k].update /\ lobbies'[k].mm[v] = lobbies[k].mm[v] =>
                 searches'[lobbies[k].mm[v]] = searches[lobbies[k].mm[v]]
  <1>1. /\ lobbies' = [lobbies EXCEPT ![l] =
              [phase |-> "ready", owner |-> u, session |-> session,
               mm |-> [w \in Users |-> IF w \in keep THEN lobbies[l].mm[w] ELSE 0],
               update |-> NextRevision(lobbies[l]), pending |-> {},
               handoff |-> IF lobbies[l].owner # u THEN NoHandoff
                           ELSE Handoff(lobbies[l], target)]]
        /\ searches' = Closed(reconcileMembers(lobbies[l], keep))
        /\ drafts[u].lobby = l /\ drafts[u].update = lobbies[l].update
    BY DEF HostDocument, Current
  <1>2. CASE k # l
    BY <1>1, <1>2 DEF IInv, TypeOK
  <1>3. CASE k = l
    <2>1. lobbies'[l].mm = [w \in Users |-> IF w \in keep THEN lobbies[l].mm[w] ELSE 0]
      BY <1>1 DEF IInv, TypeOK
    <2>2. drafts[u].seen = lobbies[l].mm
      BY <1>1 DEF IInv, Kept, DraftsSeen, Lobbies
    <2>3. lobbies[k].mm[v] \in SearchIds
      BY DEF IInv, TypeOK, LobbyDocs, Bindings, SearchIds
    <2>4. ASSUME lobbies'[k].mm[v] = lobbies[k].mm[v]
          PROVE  searches'[lobbies[k].mm[v]] = searches[lobbies[k].mm[v]]
      <3>1. v \in keep
        BY <2>1, <2>4, <1>3
      <3>2. lobbies[k].mm[v] \notin reconcileMembers(lobbies[l], keep)
        BY <3>1, <1>3 DEF reconcileMembers
      <3> QED
        BY <3>2, <2>3, <1>1, ClosedSearches
    <2> QED
      BY <2>2, <2>4, <1>1, <1>3
  <1> QED
    BY <1>2, <1>3

\* A host document takes nobody out of a lobby whose membership it was not composed from.
THEOREM NoBlindRemovals == Spec => NoBlindRemoval
  <1> DEFINE Seen == \A l \in Lobbies, v \in Users :
                        lobbies[l].mm[v] # 0 /\ lobbies'[l].mm[v] = 0 =>
                          \E u \in Users : drafts[u].lobby = l /\ drafts[u].seen[v] = lobbies[l].mm[v]
  <1>1. IInv /\ [Next]_vars => [Seen]_vars
    <2> SUFFICES ASSUME IInv, Next, NEW l \in Lobbies, NEW v \in Users,
                        lobbies[l].mm[v] # 0, lobbies'[l].mm[v] = 0
                 PROVE  \E u \in Users : drafts[u].lobby = l /\ drafts[u].seen[v] = lobbies[l].mm[v]
      OBVIOUS
    <2>1. ~ \E u \in Users, party \in SUBSET Users : CreateLobby(u, party) \/ Join(u, party)
      BY MembersCome
    <2>2. ~ (ExpireLobby \/ HandoffExpires \/ \E u \in Users :
               \/ Login(u) \/ Disconnect(u) \/ Reconnect(u) \/ IssueToken(u)
               \/ CancelSearch(u) \/ DisbandLobby(u) \/ ReadDocuments(u))
      <3>1. Users # {}
        <4>1. lobbies[l] \in LobbyDocs
          BY DEF IInv, TypeOK
        <4> QED
          OBVIOUS
      <3> QED
        BY <3>1, OthersKeepMembers
    <2>3. PICK u \in Users : UpdateHost(u)
      BY <2>1, <2>2 DEF Next
    <2>4. PICK k \in Lobbies, session \in online[u], keep \in SUBSET Users,
               target \in Users \cup {Nobody} : HostDocument(u, k, session, keep, target)
      BY <2>3 DEF UpdateHost
    <2>5. drafts[u].lobby = l /\ drafts[u].seen[v] = lobbies[l].mm[v]
      BY ZenonT(60), <2>4, HostKeeps
    <2> QED
      BY <2>5
  <1> QED
    BY <1>1, Inductive, PTL DEF Spec, NoBlindRemoval

\* A host document never ends the search of a member that stays.
THEOREM SharedSearchesKept == Spec => SharedSearchKept
  <1> DEFINE Same == \A l \in Lobbies, v \in Users :
                        /\ lobbies[l].mm[v] # 0 /\ lobbies'[l].mm[v] = lobbies[l].mm[v]
                        /\ lobbies'[l].update # lobbies[l].update
                        => searches'[lobbies[l].mm[v]].active = searches[lobbies[l].mm[v]].active
  <1>1. IInv /\ [Next]_vars => [Same]_vars
    <2> SUFFICES ASSUME IInv, Next, NEW l \in Lobbies, NEW v \in Users,
                        lobbies[l].mm[v] # 0, lobbies'[l].mm[v] = lobbies[l].mm[v],
                        lobbies'[l].update # lobbies[l].update
                 PROVE  searches'[lobbies[l].mm[v]].active = searches[lobbies[l].mm[v]].active
      OBVIOUS
    <2>1. ~ (ExpireLobby \/ HandoffExpires \/ \E u \in Users :
               \/ Login(u) \/ Disconnect(u) \/ Reconnect(u) \/ IssueToken(u)
               \/ CancelSearch(u) \/ DisbandLobby(u) \/ ReadDocuments(u))
      BY OthersKeepMembers
    <2>2. CASE \E u \in Users, party \in SUBSET Users : CreateLobby(u, party) \/ Join(u, party)
      BY <2>2, MembersCome
    <2>3. CASE \E u \in Users : UpdateHost(u)
      <3>0. PICK u \in Users : UpdateHost(u)
        BY <2>3
      <3>1. PICK k \in Lobbies, session \in online[u], keep \in SUBSET Users,
                 target \in Users \cup {Nobody} : HostDocument(u, k, session, keep, target)
        BY <3>0 DEF UpdateHost
      <3>2. searches'[lobbies[l].mm[v]] = searches[lobbies[l].mm[v]]
        BY SMTT(60), <3>1, HostKeeps
      <3> QED
        BY <3>2
    <2> QED
      BY <2>1, <2>2, <2>3 DEF Next
  <1> QED
    BY <1>1, Inductive, PTL DEF Spec, SharedSearchKept

(***************************************************************************)
(* The end of a lobby.                                                     *)
(***************************************************************************)
\* A search that is over stays over: searches come up only under identifiers not in use.
LEMMA SearchesStayEnded ==
    ASSUME IInv, [Next]_vars, NEW s \in SearchIds, searches[s].user # Nobody,
           ~searches[s].active
    PROVE  ~searches'[s].active /\ searches'[s].user # Nobody
  <1> USE DEF IInv, TypeOK
  <1>0. searches[s] \in SearchDocs /\ DOMAIN searches = SearchIds
    OBVIOUS
  <1>1. ASSUME NEW k \in SearchIds, FreshSearch(k), NEW state,
               searches' = [searches EXCEPT ![k] = state]
        PROVE  ~searches'[s].active /\ searches'[s].user # Nobody
    BY <1>1 DEF FreshSearch
  <1>2. ASSUME NEW ids, searches' = Closed(ids)
        PROVE  ~searches'[s].active /\ searches'[s].user # Nobody
    BY <1>2, <1>0 DEF Closed, SearchDocs
  <1>3. ASSUME NEW k \in SearchIds, searches' = [searches EXCEPT ![k].active = FALSE]
        PROVE  ~searches'[s].active /\ searches'[s].user # Nobody
    BY <1>3, <1>0 DEF SearchDocs
  <1>4. ASSUME NEW u \in Users, NEW party \in SUBSET Users,
               CreateLobby(u, party) \/ Join(u, party)
        PROVE  ~searches'[s].active /\ searches'[s].user # Nobody
    BY <1>4, <1>1 DEF CreateLobby, Join
  <1>5. ASSUME NEW u \in Users, CancelSearch(u)
        PROVE  ~searches'[s].active /\ searches'[s].user # Nobody
    BY <1>5, <1>3 DEF CancelSearch
  <1>6. ASSUME NEW u \in Users, DisbandLobby(u) \/ UpdateHost(u)
        PROVE  ~searches'[s].active /\ searches'[s].user # Nobody
    <2>1. CASE DisbandLobby(u)
      BY <2>1, <1>2 DEF DisbandLobby
    <2>2. CASE UpdateHost(u)
      <3>1. PICK l \in Lobbies, session \in online[u], keep \in SUBSET Users,
                 target \in Users \cup {Nobody} : HostDocument(u, l, session, keep, target)
        BY <2>2 DEF UpdateHost
      <3>2. searches' = Closed(reconcileMembers(lobbies[l], keep))
        BY <3>1 DEF HostDocument
      <3> QED
        BY <3>2, <1>2
    <2> QED
      BY <1>6, <2>1, <2>2
  <1> QED
    BY <1>4, <1>5, <1>6 DEF Next, Login, Disconnect, Reconnect, IssueToken, ReadDocuments,
                            ExpireLobby, HandoffExpires, vars

\* A disbanded lobby keeps its document: every task that changes one needs it open.
LEMMA LobbiesStayDisbanded ==
    ASSUME IInv, [Next]_vars, ~ \E u \in Users : DisbandLobby(u),
           NEW l \in Lobbies, lobbies[l].phase = "disbanded"
    PROVE  lobbies'[l].phase = "disbanded" /\ lobbies'[l].mm = lobbies[l].mm
  <1> USE DEF IInv, TypeOK
  <1>0. lobbies[l] \in LobbyDocs /\ DOMAIN lobbies = Lobbies
    OBVIOUS
  <1>1. ASSUME NEW u \in Users, NEW party \in SUBSET Users, CreateLobby(u, party)
        PROVE  lobbies'[l] = lobbies[l]
    BY <1>1 DEF CreateLobby, FreshLobby
  <1>2. ASSUME NEW u \in Users, NEW party \in SUBSET Users, Join(u, party)
        PROVE  lobbies'[l] = lobbies[l]
    <2>1. PICK k \in Lobbies : Open(lobbies[k]) /\ \A j \in Lobbies \ {k} : lobbies'[j] = lobbies[j]
      BY <1>2 DEF Join, Joinable
    <2> QED
      BY <2>1 DEF Open
  <1>3. ASSUME NEW u \in Users, UpdateHost(u) PROVE lobbies'[l] = lobbies[l]
    <2>1. PICK k \in Lobbies : Open(lobbies[k]) /\ \A j \in Lobbies \ {k} : lobbies'[j] = lobbies[j]
      BY <1>3 DEF UpdateHost, HostDocument
    <2> QED
      BY <2>1 DEF Open
  <1>4. CASE ExpireLobby
    BY <1>4 DEF ExpireLobby, Open
  <1>5. CASE HandoffExpires
    BY <1>5, <1>0 DEF HandoffExpires, LobbyDocs
  <1> QED
    BY <1>1, <1>2, <1>3, <1>4, <1>5 DEF Next, Login, Disconnect, Reconnect, IssueToken,
                                       CancelSearch, ReadDocuments, vars

\* A lobby that was disbanded never forms again, and a search that has ended is not revived.
THEOREM EndedForGood == Spec => EndedStay
  <1> DEFINE Stay ==
        /\ \A l \in Lobbies : lobbies[l].phase = "disbanded" => lobbies'[l].phase = "disbanded"
        /\ \A s \in SearchIds : searches[s].user # Nobody /\ ~searches[s].active
              => ~searches'[s].active
  <1>1. IInv /\ [Next]_vars => [Stay]_vars
    <2> SUFFICES ASSUME IInv, [Next]_vars PROVE Stay
      OBVIOUS
    <2>1. ASSUME NEW u \in Users, DisbandLobby(u), NEW l \in Lobbies,
                 lobbies[l].phase = "disbanded"
          PROVE  lobbies'[l].phase = "disbanded"
      BY <2>1 DEF DisbandLobby, IInv, TypeOK, LobbyDocs
    <2> QED
      BY <2>1, LobbiesStayDisbanded, SearchesStayEnded
  <1> QED
    BY <1>1, Inductive, PTL DEF Spec, EndedStay

\* The searches that bind the members of a disbanded lobby are over.
SearchesOver ==
    \A l \in Lobbies : lobbies[l].phase = "disbanded" =>
        \A v \in members(lobbies[l]) : ~searches[lobbies[l].mm[v]].active

\* Only disbanding makes a lobby disbanded.
LEMMA DisbandedBefore ==
    ASSUME IInv, [Next]_vars, ~ \E u \in Users : DisbandLobby(u),
           NEW l \in Lobbies, lobbies'[l].phase = "disbanded"
    PROVE  lobbies[l].phase = "disbanded"
  <1> USE DEF IInv, TypeOK
  <1>0. lobbies[l] \in LobbyDocs /\ DOMAIN lobbies = Lobbies
    OBVIOUS
  <1>1. ASSUME NEW u \in Users, NEW party \in SUBSET Users, CreateLobby(u, party)
        PROVE  lobbies[l].phase = "disbanded"
    BY <1>1 DEF CreateLobby, createLobbyDocument
  <1>2. ASSUME NEW u \in Users, NEW party \in SUBSET Users, Join(u, party)
        PROVE  lobbies'[l].phase = lobbies[l].phase
    <2>1. PICK k \in Lobbies, s \in SearchIds :
             lobbies' = [lobbies EXCEPT
                 ![k].mm = [w \in Users |-> IF w \in party THEN s ELSE @[w]],
                 ![k].update = NextRevision(lobbies[k]),
                 ![k].pending = Awaiting(lobbies[k], party)]
      BY ZenonT(60), <1>2 DEF Join
    <2> QED
      BY <2>1, <1>0 DEF LobbyDocs
  <1>3. ASSUME NEW u \in Users, UpdateHost(u) PROVE lobbies[l].phase = "disbanded"
    <2>1. PICK k \in Lobbies, session \in online[u], keep \in SUBSET Users,
               target \in Users \cup {Nobody} : HostDocument(u, k, session, keep, target)
      BY <1>3 DEF UpdateHost
    <2>2. (k = l => lobbies'[l].phase = "ready") /\ (k # l => lobbies'[l] = lobbies[l])
      BY <2>1, <1>0 DEF HostDocument
    <2> QED
      BY <2>2
  <1>4. CASE ExpireLobby
    BY <1>4, <1>0 DEF ExpireLobby, LobbyDocs
  <1>5. CASE HandoffExpires
    BY <1>5, <1>0 DEF HandoffExpires, LobbyDocs
  <1> QED
    BY <1>1, <1>2, <1>3, <1>4, <1>5 DEF Next, Login, Disconnect, Reconnect, IssueToken,
                                       CancelSearch, ReadDocuments, vars

LEMMA SearchesOverInv ==
    ASSUME IInv, SearchesOver, [Next]_vars PROVE SearchesOver'
  <1> SUFFICES ASSUME NEW l \in Lobbies, lobbies'[l].phase = "disbanded",
                      NEW v \in Users, lobbies'[l].mm[v] # 0
               PROVE  ~searches'[lobbies'[l].mm[v]].active
    BY DEF SearchesOver, members
  <1>1. ASSUME lobbies[l].phase = "disbanded", lobbies'[l].mm = lobbies[l].mm
        PROVE  ~searches'[lobbies'[l].mm[v]].active
    <2> DEFINE s == lobbies[l].mm[v]
    <2>1. s \in SearchIds /\ lobbies[l].mm[v] # 0
      BY <1>1 DEF IInv, TypeOK, LobbyDocs, Bindings, SearchIds
    <2>2. ~searches[s].active
      BY <1>1, <2>1 DEF SearchesOver, members
    <2>3. searches[s].user # Nobody
      BY <2>1 DEF IInv, Kept, BoundHere, Unused, NoSearch, Lobbies
    <2> QED
      BY <1>1, <2>1, <2>2, <2>3, SearchesStayEnded
  <1>2. CASE ~ \E u \in Users : DisbandLobby(u)
    BY <1>1, <1>2, DisbandedBefore, LobbiesStayDisbanded
  <1>3. ASSUME NEW u \in Users, DisbandLobby(u)
        PROVE  ~searches'[lobbies'[l].mm[v]].active
    <2>1. PICK k \in Lobbies :
             /\ lobbies' = [lobbies EXCEPT ![k].phase = "disbanded"]
             /\ searches' = Closed({lobbies[k].mm[w] : w \in members(lobbies[k])})
      BY <1>3 DEF DisbandLobby
    <2>2. lobbies'[l].mm = lobbies[l].mm
      BY <1>3, OthersKeepMembers
    <2>3. CASE l # k
      BY <1>1, <2>1, <2>2, <2>3 DEF IInv, TypeOK
    <2>4. CASE l = k
      <3>1. lobbies[k].mm[v] \in SearchIds
        BY <2>2, <2>4 DEF IInv, TypeOK, LobbyDocs, Bindings, SearchIds
      <3>2. v \in members(lobbies[k])
        BY <2>2, <2>4 DEF members
      <3>3. searches[lobbies[k].mm[v]] \in SearchDocs
        BY <3>1 DEF IInv, TypeOK
      <3> QED
        BY <2>1, <2>2, <2>4, <3>1, <3>2, <3>3 DEF Closed, SearchDocs
    <2> QED
      BY <2>3, <2>4
  <1> QED
    BY <1>2, <1>3

\* Disbanding is the end of a lobby for all of its members: they are assigned to it no longer,
\* and the searches that bind them to it are over.
THEOREM DisbandedIsOver == Spec => []DisbandedEnds
  <1>1. Init => SearchesOver
    BY DEF Init, SearchesOver, NoLobby
  <1>2. IInv /\ SearchesOver => DisbandedEnds
    <2> SUFFICES ASSUME IInv, SearchesOver, NEW l \in Lobbies,
                        lobbies[l].phase = "disbanded", NEW v \in members(lobbies[l])
                 PROVE  current[v] # l /\ ~searches[lobbies[l].mm[v]].active
      BY DEF DisbandedEnds
    <2>1. current[v] # l
      BY DEF IInv, Served, IndexTruth, members, Lobbies
    <2> QED
      BY <2>1 DEF SearchesOver
  <1> QED
    BY Inductive, <1>1, <1>2, SearchesOverInv, PTL DEF Spec

=============================================================================
