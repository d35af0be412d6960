----------------------- MODULE ManagedTournamentsProofs -----------------------
(***************************************************************************)
(* What ManagedTournaments promises, for any players, any formation and    *)
(* any number of searches.  IInv adds to the properties what makes them    *)
(* inductive: the parties are disjoint and a member of one was not         *)
(* disbanded since, a formed tournament has been searched for, an active   *)
(* search is in somebody's index, an assignment is to a match of the       *)
(* bracket, and a match with a lobby has teams.  BracketInv adds where in  *)
(* the bracket a team is to play next.                                     *)
(***************************************************************************)
EXTENDS ManagedTournaments, TLAPS

Counted == \A u \in Players : token[u][2] <= events

Apart ==
    \A o, p \in Players : o # p => parties[o].members \cap parties[p].members = {}

Together == \A u \in Formed : Enrolled(u) => ~enrolled[u].disbanded

Begun == Formed # {} => Started

InAnIndex == \A id \in Ids : searches[id].active => \E v \in Players : index[v] = id

Assigned == \A v \in Players : current[v] \in Matches \cup {None, Elsewhere}

Seated == \A m \in Slots : lobbies[m] # None => TeamsIn(m) # {}

Promised == PlayersCommitted /\ TerminationRetires /\ DocumentsReadable
Kept == Counted /\ Apart /\ Together /\ Begun /\ InAnIndex /\ Assigned /\ Seated
IInv == TypeOK /\ Promised /\ Kept

LEMMA Bracket ==
    ASSUME definition \in Definitions
    PROVE  /\ Matches \subseteq Slots
           /\ Slots \subseteq Nat \X Nat
           /\ Teams \subseteq Nat
           /\ 0 \in Teams
           /\ \A m \in Slots : TeamsIn(m) \subseteq Nat
  <1>1. ASSUME NEW d \in Definitions PROVE MatchesOf[d] \subseteq Nat \X Nat
    <2>1. d.rounds \in Nat
      BY TournamentAssumption
    <2> QED
      BY <2>1 DEF MatchesOf
  <1>2. Matches \subseteq Slots
    BY DEF Matches, Slots
  <1>3. Slots \subseteq Nat \X Nat
    BY <1>1 DEF Slots
  <1>4. Teams \subseteq Nat /\ 0 \in Teams
    <2>1. definition.teams \in Nat \ {0}
      BY TournamentAssumption
    <2> QED
      BY <2>1 DEF Teams
  <1>5. \A m \in Slots : TeamsIn(m) \subseteq Nat
    <2> TAKE m \in Slots
    <2>1. m[1] \in Nat /\ m[2] \in Nat
      BY <1>3
    <2>2. {2 * m[2], 2 * m[2] + 1} \subseteq Nat
      BY <2>1
    <2>3. {w \in Teams : \E b \in Before(m) : <<b, w>> \in results} \subseteq Nat
      BY <1>4
    <2> QED
      BY <2>2, <2>3 DEF TeamsIn
  <1> QED
    BY <1>2, <1>3, <1>4, <1>5

LEMMA Start == Init => IInv
  <1> SUFFICES ASSUME Init PROVE IInv
    OBVIOUS
  <1> USE TournamentAssumption
  <1>1. First \in Sessions
    BY DEF First
  <1>2. Formed = {} /\ \A t : Members(t) = {}
    BY DEF Init, Formed, Members, NoParty
  <1>3. TypeOK
    <2>1. definition \in Definitions /\ 0 \in Teams
      BY Bracket DEF Init
    <2>2. parties \in [Players -> [team : Teams, members : SUBSET Players]]
      BY <2>1 DEF Init, NoParty
    <2>3. searches \in Seq(Searches) /\ Len(searches) <= MaxSearches[definition]
      BY <2>1 DEF Init
    <2>4. token \in [Players -> Tokens] /\ events \in 0 .. MaxEvents
      BY <1>1 DEF Init, Tokens
    <2> QED
      BY <1>1, <2>1, <2>2, <2>3, <2>4 DEF Init, TypeOK
  <1>4. Promised
    BY <1>2 DEF Init, Promised, PlayersCommitted, TerminationRetires, DocumentsReadable,
                Accepted, Enrolled
  <1>5. Kept
    BY <1>1, <1>2 DEF Init, Kept, Counted, Apart, Together, Begun, InAnIndex, Assigned, Seated,
                      NoParty, Ids, Enrolled
  <1> QED
    BY <1>3, <1>4, <1>5 DEF IInv

-----------------------------------------------------------------------------
(* The formation: what the teams, the players and the rounds are derived from *)

LEMMA SameFormation ==
    ASSUME UNCHANGED <<definition, parties>>
    PROVE  /\ Formed' = Formed /\ Matches' = Matches /\ Teams' = Teams /\ Final' = Final
           /\ \A t : Members(t)' = Members(t)
           /\ \A u : PartyOf(u)' = PartyOf(u) /\ TeamOf(u)' = TeamOf(u)
  BY DEF Formed, Matches, Teams, Final, Members, PartyOf, TeamOf

LEMMA SameTeams ==
    ASSUME UNCHANGED <<definition, results>>
    PROVE  /\ \A m : Decided(m)' = Decided(m)
           /\ \A m : TeamsIn(m)' = TeamsIn(m)
  BY DEF Decided, TeamsIn, Teams, Before

LEMMA SameBracket ==
    ASSUME UNCHANGED <<formation, results>>
    PROVE  \A u : Competing(u)' = Competing(u)
  <1>1. UNCHANGED <<definition, parties, status, results>>
    BY DEF formation
  <1>2. \A m : PlayersIn(m)' = PlayersIn(m)
    BY <1>1, SameFormation, SameTeams DEF PlayersIn
  <1>3. \A m : Decided(m)' = Decided(m)
    BY <1>1, SameTeams
  <1> QED
    BY <1>1, <1>2, <1>3, SameFormation DEF Competing

\* What is said of the players, of the documents and of what a termination retires.
OfPlayers ==
    /\ PlayersCommitted /\ Apart /\ Together /\ Begun
    /\ \A u \in Players : Accepted(u) => ~enrolled[u].disbanded

OfDocuments ==
    /\ \A e \in results : lobbies[e[1]] # None /\ e[2] \in TeamsIn(e[1])
    /\ \A e, f \in results : e[1] = f[1] => e = f
    /\ \A m \in Slots : lobbies[m] # None =>
           /\ m \in Matches /\ status = "PLAYING"
           /\ lobbies[m].teams = TeamsIn(m) /\ TeamsIn(m) # {}
    /\ status = "PLAYING" => \A t \in Teams : Cardinality(Members(t)) = definition.size

OfRetirement == TerminationRetires /\ InAnIndex /\ Assigned

LEMMA Parts == IInv <=> TypeOK /\ Counted /\ OfPlayers /\ OfDocuments /\ OfRetirement
  BY DEF IInv, Promised, Kept, OfPlayers, OfDocuments, OfRetirement, DocumentsReadable, Seated

LEMMA PartsNext ==
    ASSUME TypeOK', Counted', OfPlayers', OfDocuments', OfRetirement'
    PROVE  IInv'
  <1>1. Promised'
    BY DEF Promised, OfPlayers, OfDocuments, OfRetirement, DocumentsReadable
  <1>2. Kept'
    BY DEF Kept, OfPlayers, OfDocuments, OfRetirement, Seated
  <1> QED
    BY <1>1, <1>2 DEF IInv

\* Searches that end, and lobbies that die, leave the players what they were.
LEMMA PlayersKeep ==
    ASSUME OfPlayers, UNCHANGED <<formation, enrolled, results, history>>,
           terminated => terminated', Started => Started'
    PROVE  OfPlayers'
  <1>1. UNCHANGED <<definition, parties, status, enrolled, agreed, slipped>>
    BY DEF formation, history
  <1>2. /\ Formed' = Formed
        /\ \A u : PartyOf(u)' = PartyOf(u) /\ Competing(u)' = Competing(u)
    BY <1>1, SameFormation, SameBracket
  <1>3. \A u : Accepted(u)' = Accepted(u) /\ Enrolled(u)' = Enrolled(u)
    BY <1>1 DEF Accepted, Enrolled
  <1> QED
    BY <1>1, <1>2, <1>3 DEF OfPlayers, PlayersCommitted, Apart, Together, Begun

\* A lobby keeps its match and its teams, whoever hosts it and whether it lives.
LEMMA DocumentsKeep ==
    ASSUME OfDocuments, UNCHANGED <<formation, results>>,
           TypeOK,
           \A m \in Slots : /\ lobbies'[m] # None <=> lobbies[m] # None
                            /\ lobbies[m] # None => lobbies'[m].teams = lobbies[m].teams
    PROVE  OfDocuments'
  <1>1. UNCHANGED <<definition, parties, status, results>>
    BY DEF formation
  <1>2. /\ Matches' = Matches /\ Teams' = Teams
        /\ \A t : Members(t)' = Members(t)
        /\ \A m : TeamsIn(m)' = TeamsIn(m)
    BY <1>1, SameFormation, SameTeams
  <1>3. \A e \in results : e[1] \in Slots
    BY DEF TypeOK
  <1> QED
    BY <1>1, <1>2, <1>3 DEF OfDocuments

\* Ending searches only ends searches.
LEMMA EndedDocuments ==
    ASSUME TypeOK, NEW ids
    PROVE  /\ Ended(ids) \in Seq(Searches) /\ Len(Ended(ids)) = Len(searches)
           /\ DOMAIN Ended(ids) = Ids
           /\ \A id \in Ids : Ended(ids)[id].active => searches[id].active /\ id \notin ids
  <1>1. searches \in Seq(Searches)
    BY DEF TypeOK
  <1>2. /\ Ended(ids) \in Seq(Searches)
        /\ Len(Ended(ids)) = Len(searches) /\ DOMAIN Ended(ids) = DOMAIN searches
    <2>1. DOMAIN searches = 1 .. Len(searches) /\ Len(searches) \in Nat
      BY <1>1
    <2>2. \A id \in 1 .. Len(searches) :
              /\ searches[id] \in Searches
              /\ [searches[id] EXCEPT !.active = FALSE] \in Searches
      <3> SUFFICES ASSUME NEW id \in 1 .. Len(searches)
                   PROVE  /\ searches[id] \in Searches
                          /\ [searches[id] EXCEPT !.active = FALSE] \in Searches
        OBVIOUS
      <3>1. searches[id] \in Searches
        BY <1>1
      <3> QED
        BY <3>1 DEF Searches
    <2>3. Ended(ids) \in [1 .. Len(searches) -> Searches]
      BY <2>1, <2>2 DEF Ended
    <2> QED
      BY <2>1, <2>3
  <1>3. ASSUME NEW id \in Ids
        PROVE  Ended(ids)[id].active => searches[id].active /\ id \notin ids
    <2>1. searches[id] \in Searches
      BY <1>1 DEF Ids
    <2> QED
      BY <2>1 DEF Ended, Ids, Searches
  <1> QED
    BY <1>2, <1>3 DEF Ids

LEMMA EndedSearches ==
    ASSUME TypeOK, NEW ids, searches' = Ended(ids)
    PROVE  /\ searches' \in Seq(Searches) /\ Len(searches') = Len(searches) /\ Ids' = Ids
           /\ Started' = Started
           /\ \A id \in Ids : searches'[id].active => searches[id].active /\ id \notin ids
  <1>1. searches \in Seq(Searches)
    BY DEF TypeOK
  <1>2. searches' \in Seq(Searches) /\ Len(searches') = Len(searches) /\ Ids' = Ids
    BY EndedDocuments DEF Ids
  <1>3. (Started <=> Len(searches) # 0) /\ (Started' <=> Len(searches') # 0)
    BY <1>1, <1>2 DEF Started
  <1>4. Started' = Started
    BY <1>2, <1>3, Zenon DEF Started
  <1>5. \A id \in Ids : searches'[id].active => searches[id].active /\ id \notin ids
    BY EndedDocuments
  <1> QED
    BY <1>2, <1>4, <1>5

LEMMA FormedPlayers ==
    ASSUME TypeOK
    PROVE  /\ Formed \subseteq Players /\ \A u : PartyOf(u) \subseteq Players
           /\ \A t : Members(t) \subseteq Players
  <1>1. \A o \in Players : parties[o].members \subseteq Players
    BY DEF TypeOK
  <1> QED
    BY <1>1 DEF Formed, PartyOf, Members

\* Nothing that is retired comes back when searches only end and assignments only go.
LEMMA RetirementKeeps ==
    ASSUME OfRetirement, UNCHANGED <<definition, enrolled, terminated, index>>, Ids' = Ids,
           \A id \in Ids : searches'[id].active => searches[id].active,
           \A m \in Slots : lobbies'[m] # None /\ lobbies'[m].live =>
               lobbies[m] # None /\ lobbies[m].live,
           \A v \in Players : current'[v] \in {current[v], None, Elsewhere}
    PROVE  OfRetirement'
  <1>1. Matches' = Matches /\ \A v : Enrolled(v)' = Enrolled(v)
    BY DEF Matches, Enrolled
  <1>2. TerminationRetires'
    BY <1>1 DEF OfRetirement, TerminationRetires, Ids
  <1>3. InAnIndex'
    BY DEF OfRetirement, InAnIndex
  <1>4. Assigned'
    BY <1>1 DEF OfRetirement, Assigned
  <1> QED
    BY <1>2, <1>3, <1>4 DEF OfRetirement

-----------------------------------------------------------------------------
(* The rest of the world *)

LEMMA WorldInv ==
    ASSUME IInv, World
    PROVE  IInv'
  <1> USE TournamentAssumption
  <1>1. /\ UNCHANGED <<formation, enrolled, results, terminated, matchmaking, history>>
        /\ publication' \in {"open", "unreadable", "gone"}
        /\ online' \subseteq Players \X Sessions /\ token' \in [Players -> Tokens]
        /\ events' \in 0 .. MaxEvents
        /\ Counted'
    <2>1. /\ publication \in {"open", "unreadable", "gone"}
          /\ online \subseteq Players \X Sessions /\ token \in [Players -> Tokens]
          /\ events \in 0 .. MaxEvents /\ MaxEvents \in Nat
          /\ \A v \in Players : token[v][2] \in 0 .. MaxEvents /\ token[v][2] <= events
      BY DEF IInv, TypeOK, Tokens, Kept, Counted
    <2>2. CASE \E u \in Players, s \in Sessions : Connect(u, s)
      BY <2>1, <2>2 DEF Connect, others, Happens, Counted
    <2>3. CASE \E u \in Players, s \in Sessions : Disconnect(u, s)
      BY <2>1, <2>3 DEF Disconnect, others, Happens, Counted
    <2>4. ASSUME NEW u \in Players, NEW s \in Sessions, IssueToken(u, s)
          PROVE  /\ token' \in [Players -> Tokens] /\ events' \in 0 .. MaxEvents /\ Counted'
                 /\ UNCHANGED <<others, matchmaking, online, publication>>
      <3>1. events' = events + 1 /\ events' \in 0 .. MaxEvents
        BY <2>1, <2>4 DEF IssueToken, Happens
      <3>2. /\ token' = [token EXCEPT ![u] = <<s, token[u][2] + 1>>]
            /\ <<s, token[u][2] + 1>> \in Tokens
        BY <2>1, <2>4, <3>1 DEF IssueToken, Tokens
      <3>3. Counted'
        BY <2>1, <3>1, <3>2 DEF Counted
      <3> QED
        BY <2>1, <2>4, <3>1, <3>2, <3>3 DEF IssueToken, others
    <2>5. CASE \E state \in {"open", "unreadable", "gone"} : Publish(state)
      BY <2>1, <2>5 DEF Publish, Happens, sessions, Counted
    <2> QED
      BY <2>1, <2>2, <2>3, <2>4, <2>5 DEF World, others
  <1>2. UNCHANGED <<definition, parties, status, enrolled, results, terminated, searches, index,
                    lobbies, current, agreed, slipped>>
    BY <1>1 DEF formation, matchmaking, history
  <1>3. Ids' = Ids /\ Started' = Started /\ Teams' = Teams
    BY <1>2 DEF Ids, Started, Teams
  <1>4. TypeOK'
    BY <1>1, <1>2, <1>3 DEF IInv, TypeOK
  <1>5. OfPlayers'
    BY <1>1, <1>2, <1>3, Parts, PlayersKeep
  <1>6. OfDocuments'
    BY <1>1, <1>2, Parts, DocumentsKeep
  <1>7. OfRetirement'
    BY <1>2, <1>3, Parts, RetirementKeeps
  <1> QED
    BY <1>1, <1>4, <1>5, <1>6, <1>7, PartsNext

-----------------------------------------------------------------------------
(* The matchmaking tasks *)

LEMMA LobbyDocuments ==
    ASSUME TypeOK, NEW m \in Slots, lobbies[m] # None
    PROVE  /\ lobbies[m] \in Lobbies /\ lobbies[m].searches \subseteq Ids
           /\ [lobbies[m] EXCEPT !.live = FALSE] \in Lobbies
           /\ \A u \in Players, s \in Sessions :
                  [lobbies[m] EXCEPT !.owner = u, !.session = s] \in Lobbies
  <1>1. lobbies[m] \in Lobbies /\ lobbies[m].searches \subseteq Ids
    BY DEF TypeOK
  <1> QED
    BY <1>1 DEF Lobbies

LEMMA TaskInv ==
    ASSUME IInv, UNCHANGED <<others, index, sessions>>, events' \in 0 .. MaxEvents,
           events <= events',
           NEW ids, searches' = Ended(ids),
           lobbies' \in [Slots -> Lobbies \cup {None}],
           \A m \in Slots :
               /\ lobbies'[m] # None <=> lobbies[m] # None
               /\ lobbies[m] # None => /\ lobbies'[m].teams = lobbies[m].teams
                                       /\ lobbies'[m].searches = lobbies[m].searches
                                       /\ lobbies'[m].live => lobbies[m].live,
           current' \in [Players -> Slots \cup {None, Elsewhere}],
           \A v \in Players : current'[v] \in {current[v], None, Elsewhere}
    PROVE  IInv'
  <1>1. UNCHANGED <<definition, publication, parties, status, enrolled, results, terminated,
                    agreed, slipped, index, online, token>>
    BY DEF others, formation, history, sessions
  <1>2. TypeOK
    BY DEF IInv
  <1>3. /\ searches' \in Seq(Searches) /\ Len(searches') = Len(searches) /\ Ids' = Ids
        /\ Started' = Started
        /\ \A id \in Ids : searches'[id].active => searches[id].active
    BY <1>2, EndedSearches
  <1>4. TypeOK'
    <2>1. Teams' = Teams
      BY <1>1 DEF Teams
    <2> QED
      BY <1>1, <1>2, <1>3, <2>1 DEF TypeOK
  <1>5. Counted'
    <2>1. \A u \in Players : token[u][2] \in Nat /\ token[u][2] <= events
      BY TournamentAssumption DEF IInv, TypeOK, Tokens, Kept, Counted
    <2> QED
      BY <1>1, <1>2, <2>1, TournamentAssumption DEF Counted, TypeOK
  <1>6. OfPlayers'
    BY <1>1, <1>3, Parts, PlayersKeep DEF others
  <1>7. OfDocuments'
    BY <1>2, Parts, DocumentsKeep DEF others
  <1>8. OfRetirement'
    BY <1>1, <1>3, Parts, RetirementKeeps
  <1> QED
    BY <1>4, <1>5, <1>6, <1>7, <1>8, PartsNext

LEMMA MatchmakingInv ==
    ASSUME IInv, Matchmaking
    PROVE  IInv'
  <1> USE TournamentAssumption
  <1>1. /\ TypeOK
        /\ lobbies \in [Slots -> Lobbies \cup {None}]
        /\ current \in [Players -> Slots \cup {None, Elsewhere}]
        /\ token \in [Players -> Tokens]
        /\ events \in 0 .. MaxEvents /\ MaxEvents \in Nat
        /\ None \notin Lobbies
    BY NoneAssumption DEF IInv, TypeOK
  <1>2. searches = Ended({})
    <2>1. searches = [id \in DOMAIN searches |-> searches[id]]
      BY <1>1 DEF TypeOK
    <2> QED
      BY <2>1 DEF Ended
  <1>3. ASSUME NEW id \in Ids, CancelSearch(id) PROVE IInv'
    <2>1. UNCHANGED <<others, index, lobbies, current, sessions>> /\ searches' = Ended({id})
      BY <1>3 DEF CancelSearch
    <2>2. events' \in 0 .. MaxEvents /\ events <= events'
      BY <1>1, <1>3 DEF CancelSearch, Happens
    <2> QED
      BY <1>1, <2>1, <2>2, TaskInv
  <1>4. ASSUME NEW m \in Slots, Disband(m) PROVE IInv'
    <2>1. lobbies[m] # None
      BY <1>4 DEF Disband
    <2>2. /\ UNCHANGED <<others, index, sessions>>
          /\ searches' = Ended(lobbies[m].searches)
          /\ lobbies' = [lobbies EXCEPT ![m] = [lobbies[m] EXCEPT !.live = FALSE]]
          /\ events' \in 0 .. MaxEvents /\ events <= events'
      BY <1>1, <1>4 DEF Disband, Happens
    <2>3. lobbies[m] \in Lobbies /\ [lobbies[m] EXCEPT !.live = FALSE] \in Lobbies
      BY <1>1, <2>1, LobbyDocuments
    <2>4. /\ [lobbies[m] EXCEPT !.live = FALSE].teams = lobbies[m].teams
          /\ [lobbies[m] EXCEPT !.live = FALSE].searches = lobbies[m].searches
          /\ ~[lobbies[m] EXCEPT !.live = FALSE].live
      BY <2>3 DEF Lobbies
    <2>5. /\ lobbies' \in [Slots -> Lobbies \cup {None}]
          /\ \A n \in Slots : n # m => lobbies'[n] = lobbies[n]
          /\ lobbies'[m] # None
          /\ lobbies'[m].teams = lobbies[m].teams /\ ~lobbies'[m].live
          /\ lobbies'[m].searches = lobbies[m].searches
      BY <1>1, <2>2, <2>3, <2>4
    <2>6. /\ current' \in [Players -> Slots \cup {None, Elsewhere}]
          /\ \A v \in Players : current'[v] \in {current[v], None, Elsewhere}
      BY <1>1, <1>4 DEF Disband
    <2> QED
      BY <1>1, <2>1, <2>2, <2>5, <2>6, TaskInv
  <1>5. ASSUME NEW m \in Slots, NEW u \in Players, Migrate(m, u) PROVE IInv'
    <2>1. lobbies[m] # None
      BY <1>5 DEF Migrate
    <2>2. /\ UNCHANGED <<others, index, sessions, current, searches>>
          /\ lobbies' = [lobbies EXCEPT ![m] =
                 [lobbies[m] EXCEPT !.owner = u, !.session = token[u][1]]]
          /\ events' \in 0 .. MaxEvents /\ events <= events'
      BY <1>1, <1>5 DEF Migrate, Happens
    <2>3. token[u][1] \in Sessions
      BY <1>1 DEF Tokens
    <2> DEFINE doc == [lobbies[m] EXCEPT !.owner = u, !.session = token[u][1]]
    <2>4. lobbies[m] \in Lobbies /\ doc \in Lobbies
      BY <1>1, <2>1, <2>3, LobbyDocuments
    <2>5. doc.teams = lobbies[m].teams /\ doc.live = lobbies[m].live
          /\ doc.searches = lobbies[m].searches
      BY <2>4 DEF Lobbies
    <2>6. lobbies' = [lobbies EXCEPT ![m] = doc]
      BY <2>2
    <2> HIDE DEF doc
    <2>7. /\ lobbies' \in [Slots -> Lobbies \cup {None}]
          /\ \A n \in Slots : n # m => lobbies'[n] = lobbies[n]
          /\ lobbies'[m] # None
          /\ lobbies'[m].teams = lobbies[m].teams /\ lobbies'[m].live = lobbies[m].live
          /\ lobbies'[m].searches = lobbies[m].searches
      BY <1>1, <2>4, <2>5, <2>6
    <2> QED
      BY <1>1, <1>2, <2>1, <2>2, <2>7, TaskInv
  <1>6. ASSUME NEW u \in Players, GoElsewhere(u) \/ ComeBack(u) PROVE IInv'
    <2>1. /\ UNCHANGED <<others, searches, index, lobbies, sessions>>
          /\ events' \in 0 .. MaxEvents /\ events <= events'
      BY <1>1, <1>6 DEF GoElsewhere, ComeBack, Happens
    <2>2. /\ current' \in [Players -> Slots \cup {None, Elsewhere}]
          /\ \A v \in Players : current'[v] \in {current[v], None, Elsewhere}
      BY <1>1, <1>6 DEF GoElsewhere, ComeBack
    <2> QED
      BY <1>1, <1>2, <2>1, <2>2, TaskInv
  <1> QED
    BY <1>3, <1>4, <1>5, <1>6 DEF Matchmaking, Ids

-----------------------------------------------------------------------------
(* Registration and the formation of the teams *)

LEMMA RegisterInv ==
    ASSUME IInv, NEW u \in Players, Register(u)
    PROVE  IInv'
  <1>1. /\ TypeOK /\ ~terminated /\ ~Enrolled(u)
        /\ enrolled' = [enrolled EXCEPT ![u] = Entry]
        /\ UNCHANGED <<formation, publication, results, terminated, matchmaking, sessions,
                       history, events>>
    BY DEF IInv, Register, Published
  <1>2. UNCHANGED <<definition, publication, parties, status, results, terminated, searches,
                    index, lobbies, current, online, token, agreed, slipped, events>>
    BY <1>1 DEF formation, matchmaking, sessions, history
  <1>3. Ids' = Ids /\ Started' = Started /\ Teams' = Teams
    BY <1>2 DEF Ids, Started, Teams
  <1>4. Entry \in Entries /\ Entry.accepted = None /\ ~Entry.disbanded
    BY DEF Entry, Entries
  <1>5. enrolled' \in [Players -> Entries \cup {None}]
    BY <1>1, <1>4 DEF TypeOK
  <1>6. TypeOK'
    BY <1>1, <1>2, <1>3, <1>5 DEF TypeOK
  <1>7. Counted'
    BY <1>2 DEF IInv, Kept, Counted
  <1>8. /\ \A v \in Players : /\ Accepted(v)' = Accepted(v)
                              /\ v # u => enrolled'[v] = enrolled[v]
        /\ ~enrolled'[u].disbanded
    BY <1>1, <1>4 DEF Accepted, Enrolled, TypeOK
  <1>9. OfPlayers'
    <2>1. /\ Formed' = Formed
          /\ \A v : PartyOf(v)' = PartyOf(v) /\ Competing(v)' = Competing(v)
      BY <1>1, <1>2, SameFormation, SameBracket
    <2>2. OfPlayers
      BY Parts
    <2>3. PlayersCommitted'
      BY <1>1, <1>2, <1>8, <2>1, <2>2, FormedPlayers DEF OfPlayers, PlayersCommitted
    <2>4. Together' /\ \A v \in Players : Accepted(v)' => ~enrolled'[v].disbanded
      BY <1>1, <1>8, <2>1, <2>2, FormedPlayers DEF OfPlayers, Together, Enrolled
    <2> QED
      BY <1>2, <1>3, <2>1, <2>2, <2>3, <2>4 DEF OfPlayers, Apart, Begun
  <1>10. OfDocuments'
    BY <1>1, <1>2, Parts, DocumentsKeep
  <1>11. OfRetirement'
    <2>1. Matches' = Matches
      BY <1>2 DEF Matches
    <2> QED
      BY <1>1, <1>2, <1>3, <2>1, Parts DEF OfRetirement, TerminationRetires, InAnIndex, Assigned
  <1> QED
    BY <1>6, <1>7, <1>9, <1>10, <1>11, PartsNext

\* A search that starts replaces those its members were in.
LEMMA NewSearch ==
    ASSUME IInv, NEW u \in Players, NEW party \in SUBSET Players, Search(u, party)
    PROVE  /\ searches' \in Seq(Searches) /\ Len(searches') = Len(searches) + 1
           /\ Ids \subseteq Ids' /\ Started'
           /\ index' \in [Players -> Ids' \cup {None}]
           /\ InAnIndex'
  <1> DEFINE id == Len(searches) + 1
             obsolete == {index[v] : v \in party}
             new == [owner |-> u, members |-> party, lobby |-> None, tokens |-> token,
                     active |-> TRUE]
  <1>1. /\ searches' = Append(Ended(obsolete), new)
        /\ index' = [v \in Players |-> IF v \in party THEN id ELSE index[v]]
        /\ u \in party
    BY DEF Search
  <1>2. /\ searches \in Seq(Searches) /\ token \in [Players -> Tokens]
        /\ index \in [Players -> Ids \cup {None}]
        /\ \A i \in Ids : searches[i].active => \E v \in Players : index[v] = i
    BY DEF IInv, TypeOK, Kept, InAnIndex
  <1>3. new \in Searches
    BY <1>2 DEF Searches
  <1> HIDE DEF new, obsolete
  <1>4. /\ Ended(obsolete) \in Seq(Searches) /\ Len(Ended(obsolete)) = Len(searches)
        /\ \A i \in Ids : Ended(obsolete)[i].active => searches[i].active /\ i \notin obsolete
    BY EndedDocuments DEF IInv
  <1>5. /\ searches' \in Seq(Searches) /\ Len(searches') = Len(searches) + 1
        /\ \A i \in 1 .. Len(searches) : searches'[i] = Ended(obsolete)[i]
    BY <1>1, <1>3, <1>4
  <1>6. /\ Ids = 1 .. Len(searches) /\ Ids' = 1 .. Len(searches) + 1
        /\ Len(searches) \in Nat
    BY <1>2, <1>5 DEF Ids
  <1>7. Started'
    BY <1>2, <1>5 DEF Started
  <1>8. index' \in [Players -> Ids' \cup {None}]
    BY <1>1, <1>2, <1>6
  <1>9. ASSUME NEW i \in Ids', searches'[i].active PROVE \E v \in Players : index'[v] = i
    <2>1. CASE i = id
      BY <1>1, <2>1
    <2>2. CASE i # id
      <3>1. i \in Ids
        BY <1>6, <2>2
      <3>2. searches[i].active /\ i \notin obsolete
        BY <1>4, <1>5, <1>6, <1>9, <3>1
      <3>3. PICK v \in Players : index[v] = i
        BY <1>2, <3>1, <3>2
      <3>4. v \notin party
        BY <3>2, <3>3 DEF obsolete
      <3> QED
        BY <1>1, <3>3, <3>4
    <2> QED
      BY <2>1, <2>2
  <1> QED
    BY <1>5, <1>6, <1>7, <1>8, <1>9 DEF InAnIndex

\* A party keeps its place, or it is of players without one and gets a place of its own.
LEMMA PartyPlaced ==
    ASSUME TypeOK, NEW u \in Players, NEW party \in SUBSET Players, Search(u, party)
    PROVE  \/ parties' = parties /\ party \subseteq Formed
           \/ /\ status = "FORMING" /\ party \cap Formed = {} /\ parties[u].members = {}
              /\ \E t \in Teams :
                     parties' = [parties EXCEPT ![u] = [team |-> t, members |-> party]]
  <1>1. parties \in [Players -> [team : Teams, members : SUBSET Players]]
    BY DEF TypeOK
  <1>2. PICK place \in Reserved(u, party) : parties' = [parties EXCEPT ![u] = place]
    BY DEF Search
  <1>3. CASE parties[u].members = party
    <2>1. place = parties[u]
      BY <1>2, <1>3 DEF Reserved
    <2>2. parties' = parties
      BY <1>1, <1>2, <2>1
    <2> QED
      BY <1>3, <2>2 DEF Formed
  <1>4. CASE parties[u].members # party
    BY <1>2, <1>4 DEF Reserved
  <1> QED
    BY <1>3, <1>4

\* While the teams are being formed there is neither a lobby nor a result.
LEMMA FormingDocuments ==
    ASSUME TypeOK, OfDocuments, status = "FORMING"
    PROVE  results = {} /\ \A m \in Slots : lobbies[m] = None
  <1>1. \A e \in results : e[1] \in Slots
    BY DEF TypeOK
  <1> QED
    BY <1>1 DEF OfDocuments

LEMMA StillForming ==
    ASSUME TypeOK, OfDocuments, status = "FORMING", UNCHANGED <<status, results, lobbies>>
    PROVE  OfDocuments'
  BY FormingDocuments DEF OfDocuments

LEMMA SearchInv ==
    ASSUME IInv, NEW u \in Players, NEW party \in SUBSET Players, Search(u, party)
    PROVE  IInv'
  <1> USE TournamentAssumption
  <1>1. /\ UNCHANGED <<definition, publication, status, results, terminated, lobbies, current,
                       online, token, agreed, slipped, events>>
        /\ Len(searches) < MaxSearches[definition]
        /\ ~terminated /\ \A v \in party : Enrolled(v)
        /\ enrolled' = [v \in Players |->
               IF v \in party THEN [enrolled[v] EXCEPT !.disbanded = FALSE] ELSE enrolled[v]]
        /\ TypeOK
    BY DEF IInv, Search, Published, sessions, history
  <1>2. /\ searches' \in Seq(Searches) /\ Len(searches') = Len(searches) + 1
        /\ Ids \subseteq Ids' /\ Started'
        /\ index' \in [Players -> Ids' \cup {None}]
        /\ InAnIndex'
    BY NewSearch
  <1>3. OfPlayers /\ OfDocuments /\ OfRetirement
    BY Parts
  <1>4. ASSUME NEW v \in Players
        PROVE  /\ enrolled'[v] \in Entries \cup {None}
               /\ Enrolled(v)' <=> Enrolled(v)
               /\ v \in party => ~enrolled'[v].disbanded
               /\ v \notin party => enrolled'[v] = enrolled[v]
               /\ Accepted(v)' <=> Accepted(v)
    <2>1. CASE v \in party
      <3>1. enrolled[v] \in Entries /\ None \notin Entries
        BY <1>1, <2>1, NoneAssumption DEF TypeOK, Enrolled
      <3>2. enrolled'[v] = [enrolled[v] EXCEPT !.disbanded = FALSE]
        BY <1>1, <2>1
      <3>3. /\ enrolled'[v] \in Entries /\ ~enrolled'[v].disbanded
            /\ enrolled'[v].accepted = enrolled[v].accepted
        BY <3>1, <3>2 DEF Entries
      <3> QED
        BY <2>1, <3>1, <3>3 DEF Enrolled, Accepted
    <2>2. CASE v \notin party
      <3>1. enrolled'[v] = enrolled[v]
        BY <1>1, <2>2
      <3> QED
        BY <1>1, <2>2, <3>1 DEF TypeOK, Enrolled, Accepted
    <2> QED
      BY <2>1, <2>2
  <1>5. \/ parties' = parties /\ party \subseteq Formed
        \/ /\ status = "FORMING" /\ party \cap Formed = {} /\ parties[u].members = {}
           /\ \E t \in Teams :
                  parties' = [parties EXCEPT ![u] = [team |-> t, members |-> party]]
    BY <1>1, PartyPlaced
  <1>6. parties' \in [Players -> [team : Teams, members : SUBSET Players]]
    BY <1>1, <1>5 DEF TypeOK
  <1>7. TypeOK'
    <2>1. Teams' = Teams
      BY <1>1 DEF Teams
    <2>2. enrolled' \in [Players -> Entries \cup {None}]
      BY <1>1, <1>4
    <2>3. Len(searches') <= MaxSearches[definition]
      <3>1. Len(searches) \in Nat /\ MaxSearches[definition] \in Nat
        BY <1>1 DEF TypeOK
      <3> QED
        BY <1>1, <1>2, <3>1
    <2> QED
      BY <1>1, <1>2, <1>6, <2>1, <2>2, <2>3 DEF TypeOK
  <1>8. Counted'
    BY <1>1 DEF IInv, Kept, Counted
  <1>9. /\ Formed' = Formed \cup party
        /\ \A v \in Formed : PartyOf(v)' = PartyOf(v)
        /\ Apart'
    <2>1. CASE parties' = parties /\ party \subseteq Formed
      BY <1>3, <2>1 DEF Formed, PartyOf, OfPlayers, Apart
    <2>2. ASSUME NEW t \in Teams, party \cap Formed = {}, parties[u].members = {},
                 parties' = [parties EXCEPT ![u] = [team |-> t, members |-> party]]
          PROVE  /\ Formed' = Formed \cup party
                 /\ \A v \in Formed : PartyOf(v)' = PartyOf(v)
                 /\ Apart'
      <3>1. /\ parties'[u].members = party
            /\ \A o \in Players : o # u => parties'[o].members = parties[o].members
        BY <1>1, <2>2 DEF TypeOK
      <3>2. Formed' = Formed \cup party
        BY <2>2, <3>1 DEF Formed
      <3>3. ASSUME NEW v \in Formed PROVE PartyOf(v)' = PartyOf(v)
        <4>1. v \notin party
          BY <2>2
        <4>2. \A o \in Players : /\ v \in parties'[o].members <=> v \in parties[o].members
                                 /\ v \in parties[o].members =>
                                        parties'[o].members = parties[o].members
          BY <2>2, <3>1, <4>1
        <4> QED
          BY <4>2 DEF PartyOf
      <3>4. Apart'
        BY <1>3, <2>2, <3>1 DEF OfPlayers, Apart, Formed
      <3> QED
        BY <3>2, <3>3, <3>4
    <2> QED
      BY <1>5, <2>1, <2>2
  <1>10. OfPlayers'
    <2>1. \A v \in Players : Accepted(v)' => v \in Formed' /\ PartyOf(v)' = agreed'[v]
      BY <1>1, <1>3, <1>4, <1>9 DEF OfPlayers, PlayersCommitted
    <2>2. status' = "PLAYING" /\ ~terminated' =>
              \A v \in Formed' \ slipped' : Competing(v)' => Accepted(v)'
      <3> SUFFICES ASSUME status = "PLAYING"
                   PROVE  \A v \in Formed' \ slipped' : Competing(v)' => Accepted(v)'
        BY <1>1
      <3>1. UNCHANGED <<formation, results>>
        BY <1>1, <1>5 DEF formation
      <3>2. \A v : Competing(v)' = Competing(v)
        BY <3>1, SameBracket
      <3>3. Formed' = Formed /\ Formed \subseteq Players
        BY <1>1, <3>1, SameFormation, FormedPlayers DEF formation
      <3> QED
        BY <1>1, <1>3, <1>4, <3>2, <3>3 DEF OfPlayers, PlayersCommitted
    <2>3. Together'
      BY <1>1, <1>3, <1>4, <1>9, FormedPlayers DEF OfPlayers, Together
    <2>4. \A v \in Players : Accepted(v)' => ~enrolled'[v].disbanded
      BY <1>3, <1>4 DEF OfPlayers
    <2> QED
      BY <1>2, <1>9, <2>1, <2>2, <2>3, <2>4 DEF OfPlayers, PlayersCommitted, Begun
  <1>11. OfDocuments'
    <2>1. CASE parties' = parties
      BY <1>1, <1>3, <2>1, DocumentsKeep DEF formation
    <2>2. CASE status = "FORMING"
      BY <1>1, <1>3, <2>2, StillForming
    <2> QED
      BY <1>5, <2>1, <2>2
  <1>12. OfRetirement'
    <2>1. Matches' = Matches
      BY <1>1 DEF Matches
    <2> QED
      BY <1>1, <1>2, <1>3, <2>1 DEF OfRetirement, TerminationRetires, Assigned
  <1> QED
    BY <1>7, <1>8, <1>10, <1>11, <1>12, PartsNext

-----------------------------------------------------------------------------
(* Withdrawal and termination *)

LEMMA CountedKeeps ==
    ASSUME IInv, events' \in 0 .. MaxEvents, events <= events', UNCHANGED token
    PROVE  Counted'
  <1>1. \A u \in Players : token[u][2] \in Nat /\ token[u][2] <= events
    BY TournamentAssumption DEF IInv, TypeOK, Tokens, Kept, Counted
  <1>2. events \in Nat /\ events' \in Nat
    BY TournamentAssumption DEF IInv, TypeOK
  <1> QED
    BY <1>1, <1>2 DEF Counted

\* A registration that goes takes no acceptance of others along.
LEMMA Erased ==
    ASSUME TypeOK, NEW u \in Players, enrolled' = [enrolled EXCEPT ![u] = None]
    PROVE  /\ enrolled' \in [Players -> Entries \cup {None}]
           /\ ~Enrolled(u)' /\ ~Accepted(u)'
           /\ \A v \in Players \ {u} : enrolled'[v] = enrolled[v]
           /\ \A v \in Players \ {u} : /\ Enrolled(v)' <=> Enrolled(v)
                                       /\ Accepted(v)' <=> Accepted(v)
  BY DEF TypeOK, Enrolled, Accepted

LEMMA ReleaseInv ==
    ASSUME IInv, NEW u \in Players, ~terminated, Release(u),
           UNCHANGED <<publication, results, sessions, agreed>>,
           events' \in 0 .. MaxEvents, events <= events', slipped' \in SUBSET Players
    PROVE  IInv'
  <1> USE TournamentAssumption
  <1>1. /\ UNCHANGED <<definition, publication, status, results, terminated, searches, index,
                       lobbies, current, online, token, agreed>>
        /\ status = "FORMING"
        /\ parties' = [o \in Players |->
               IF u \in parties[o].members THEN NoParty ELSE parties[o]]
        /\ enrolled' = [v \in Players |->
               IF v = u THEN None
               ELSE IF v \in PartyOf(u) /\ Enrolled(v)
               THEN [accepted |-> None, ready |-> None, disbanded |-> TRUE] ELSE enrolled[v]]
        /\ TypeOK /\ OfPlayers /\ OfDocuments /\ OfRetirement
    BY Parts DEF Release, Released, sessions, matchmaking
  <1>2. ASSUME NEW v \in Players
        PROVE  /\ enrolled'[v] \in Entries \cup {None}
               /\ Enrolled(v)' => Enrolled(v)
               /\ v = u => ~Enrolled(v)'
               /\ Enrolled(v)' /\ v \notin PartyOf(u) => enrolled'[v] = enrolled[v]
               /\ Accepted(v)' => /\ Accepted(v) /\ v \notin PartyOf(u)
                                  /\ v # u /\ enrolled'[v] = enrolled[v]
    <2> DEFINE reset == [accepted |-> None, ready |-> None, disbanded |-> TRUE]
    <2>1. reset \in Entries /\ reset.accepted = None
      BY DEF Entries
    <2> HIDE DEF reset
    <2>2. enrolled'[v] = IF v = u THEN None
                         ELSE IF v \in PartyOf(u) /\ Enrolled(v) THEN reset ELSE enrolled[v]
      BY <1>1 DEF reset
    <2>3. enrolled[v] \in Entries \cup {None}
      BY <1>1 DEF TypeOK
    <2> QED
      BY <2>1, <2>2, <2>3 DEF Enrolled, Accepted
  <1>3. ASSUME NEW o \in Players
        PROVE  parties'[o].members =
                   IF u \in parties[o].members THEN {} ELSE parties[o].members
    BY <1>1 DEF NoParty
  <1>4. parties' \in [Players -> [team : Teams, members : SUBSET Players]]
    <2>1. NoParty \in [team : Teams, members : SUBSET Players]
      BY <1>1, Bracket DEF NoParty, TypeOK
    <2> QED
      BY <1>1, <2>1 DEF TypeOK
  <1>5. TypeOK'
    <2>1. Teams' = Teams /\ Ids' = Ids
      BY <1>1 DEF Teams, Ids
    <2>2. enrolled' \in [Players -> Entries \cup {None}]
      BY <1>1, <1>2
    <2> QED
      BY <1>1, <1>4, <2>1, <2>2 DEF TypeOK
  <1>6. OfPlayers'
    <2>1. Formed' \subseteq Formed
      BY <1>3 DEF Formed
    <2>2. ASSUME NEW v \in Formed, v \notin PartyOf(u)
          PROVE  v \in Formed' /\ PartyOf(v)' = PartyOf(v)
      <3>1. \A o \in Players : v \in parties[o].members =>
                parties'[o].members = parties[o].members
        BY <1>3, <2>2 DEF PartyOf
      <3>2. \A o \in Players : v \in parties'[o].members => v \in parties[o].members
        BY <1>3
      <3> QED
        BY <2>2, <3>1, <3>2 DEF Formed, PartyOf
    <2>3. ASSUME NEW v \in Formed' PROVE v \notin PartyOf(u)
      <3>1. PICK o \in Players : v \in parties[o].members /\ u \notin parties[o].members
        BY <1>3, <2>3 DEF Formed
      <3>2. \A p \in Players : v \in parties[p].members => p = o
        BY <1>1, <3>1 DEF OfPlayers, Apart
      <3> QED
        BY <3>1, <3>2 DEF PartyOf
    <2>4. PlayersCommitted'
      BY <1>1, <1>2, <2>2 DEF OfPlayers, PlayersCommitted
    <2>5. Together'
      <3>1. Formed' \subseteq Players
        BY <1>1, <2>1, FormedPlayers
      <3> QED
        BY <1>1, <1>2, <2>1, <2>3, <3>1 DEF OfPlayers, Together
    <2>6. Apart'
      BY <1>1, <1>3 DEF OfPlayers, Apart
    <2>7. Begun'
      BY <1>1, <2>1 DEF OfPlayers, Begun, Started
    <2>8. \A v \in Players : Accepted(v)' => ~enrolled'[v].disbanded
      BY <1>1, <1>2 DEF OfPlayers
    <2> QED
      BY <2>4, <2>5, <2>6, <2>7, <2>8 DEF OfPlayers
  <1>7. OfDocuments'
    BY <1>1, StillForming
  <1>8. OfRetirement'
    <2>1. Matches' = Matches
      BY <1>1 DEF Matches
    <2> QED
      BY <1>1, <2>1 DEF OfRetirement, TerminationRetires, InAnIndex, Assigned, Ids
  <1>9. Counted'
    BY <1>1, CountedKeeps
  <1> QED
    BY <1>5, <1>6, <1>7, <1>8, <1>9, PartsNext

\* Who leaves while the catalog can be read, and the tournament has begun, is out of a team.
LEMMA EraseInv ==
    ASSUME IInv, NEW u \in Players, ~PublishedTo(u), ~MustRetire, Erase(u),
           UNCHANGED <<publication, results, sessions, agreed>>,
           events' \in 0 .. MaxEvents, events <= events',
           slipped' = IF publication = "unreadable" THEN slipped \cup {u} ELSE slipped
    PROVE  IInv'
  <1> USE TournamentAssumption
  <1>1. /\ UNCHANGED <<definition, publication, parties, status, results, terminated, searches,
                       index, lobbies, current, online, token, agreed>>
        /\ enrolled' = [enrolled EXCEPT ![u] = None]
        /\ TypeOK /\ OfPlayers /\ OfDocuments /\ OfRetirement
    BY Parts DEF Erase, formation, sessions, matchmaking
  <1>2. /\ enrolled' \in [Players -> Entries \cup {None}]
        /\ ~Enrolled(u)' /\ ~Accepted(u)'
        /\ \A v \in Players \ {u} : enrolled'[v] = enrolled[v]
        /\ \A v \in Players \ {u} : /\ Enrolled(v)' <=> Enrolled(v)
                                    /\ Accepted(v)' <=> Accepted(v)
    BY <1>1, Erased
  <1>3. TypeOK'
    <2>1. Teams' = Teams /\ Ids' = Ids
      BY <1>1 DEF Teams, Ids
    <2> QED
      BY <1>1, <1>2, <2>1 DEF TypeOK
  <1>4. u \in slipped' \/ u \notin Formed \/ terminated
    BY <1>1 DEF PublishedTo, Published, MustRetire, OfPlayers, Begun, TypeOK
  <1>5. OfPlayers'
    <2>1. /\ Formed' = Formed /\ Formed \subseteq Players
          /\ \A v : PartyOf(v)' = PartyOf(v) /\ Competing(v)' = Competing(v)
      BY <1>1, SameFormation, SameBracket, FormedPlayers DEF formation
    <2>2. \A v \in Players : Accepted(v)' => v \in Formed' /\ PartyOf(v)' = agreed'[v]
      BY <1>1, <1>2, <2>1 DEF OfPlayers, PlayersCommitted
    <2>3. status' = "PLAYING" /\ ~terminated' =>
              \A v \in Formed' \ slipped' : Competing(v)' => Accepted(v)'
      BY <1>1, <1>2, <1>4, <2>1 DEF OfPlayers, PlayersCommitted
    <2>4. Together' /\ \A v \in Players : Accepted(v)' => ~enrolled'[v].disbanded
      BY <1>1, <1>2, <2>1 DEF OfPlayers, Together
    <2> QED
      BY <1>1, <2>1, <2>2, <2>3, <2>4 DEF OfPlayers, PlayersCommitted, Apart, Begun, Started
  <1>6. OfDocuments'
    BY <1>1, DocumentsKeep DEF formation
  <1>7. OfRetirement'
    <2>1. Matches' = Matches
      BY <1>1 DEF Matches
    <2> QED
      BY <1>1, <1>2, <2>1 DEF OfRetirement, TerminationRetires, InAnIndex, Assigned, Ids
  <1>8. Counted'
    BY <1>1, CountedKeeps
  <1> QED
    BY <1>3, <1>5, <1>6, <1>7, <1>8, PartsNext

\* What is retired is dead, and nothing else that matters has changed.
LEMMA Retired ==
    ASSUME IInv, NEW matches, NEW departing \in SUBSET Players, Retire(matches, departing),
           UNCHANGED <<formation, results>>
    PROVE  /\ searches' \in Seq(Searches) /\ Len(searches') = Len(searches) /\ Ids' = Ids
           /\ Started' = Started
           /\ index' \in [Players -> Ids \cup {None}]
           /\ lobbies' \in [Slots -> Lobbies \cup {None}]
           /\ \A m \in Slots : lobbies'[m] # None => lobbies'[m].searches \subseteq Ids
           /\ current' \in [Players -> Slots \cup {None, Elsewhere}]
           /\ OfDocuments' /\ InAnIndex' /\ Assigned'
           /\ \A m \in Slots : m \in matches /\ lobbies'[m] # None => ~lobbies'[m].live
           /\ \A id \in Ids : searches'[id].active =>
                                searches[id].active /\ \A v \in departing : index[v] # id
           /\ \A v \in Players : /\ v \in departing => index'[v] = None
                                 /\ current[v] \in matches => current'[v] = None
                                 /\ current'[v] \in {current[v], None}
  <1> DEFINE ended == Bound(matches, departing) \cup Indexed(departing)
  <1>1. /\ lobbies' = [m \in Slots |-> IF m \in matches /\ lobbies[m] # None
                            THEN [lobbies[m] EXCEPT !.live = FALSE] ELSE lobbies[m]]
        /\ searches' = Ended(ended)
        /\ index' = [v \in Players |-> IF index[v] \in ended THEN None ELSE index[v]]
        /\ current' = [v \in Players |-> IF current[v] \in matches THEN None ELSE current[v]]
        /\ UNCHANGED definition
        /\ TypeOK /\ OfDocuments /\ InAnIndex /\ Assigned
    BY Parts DEF Retire, OfRetirement, formation
  <1>2. Indexed(departing) = {index[v] : v \in departing} /\ Indexed(departing) \subseteq ended
    BY DEF Indexed
  <1> HIDE DEF ended
  <1>3. /\ searches' \in Seq(Searches) /\ Len(searches') = Len(searches) /\ Ids' = Ids
        /\ Started' = Started
        /\ \A id \in Ids : searches'[id].active => searches[id].active /\ id \notin ended
    BY <1>1, EndedSearches
  <1>4. index' \in [Players -> Ids \cup {None}]
    BY <1>1 DEF TypeOK
  <1>5. ASSUME NEW m \in Slots
        PROVE  /\ lobbies'[m] \in Lobbies \cup {None}
               /\ lobbies'[m] # None <=> lobbies[m] # None
               /\ lobbies[m] # None => /\ lobbies'[m].teams = lobbies[m].teams
                                       /\ lobbies'[m].searches = lobbies[m].searches
                                       /\ lobbies[m].searches \subseteq Ids
               /\ m \in matches /\ lobbies[m] # None => ~lobbies'[m].live
    <2>1. CASE m \in matches /\ lobbies[m] # None
      <3>1. lobbies'[m] = [lobbies[m] EXCEPT !.live = FALSE]
        BY <1>1, <2>1
      <3>2. /\ lobbies[m] \in Lobbies /\ lobbies'[m] \in Lobbies /\ None \notin Lobbies
            /\ lobbies[m].searches \subseteq Ids
        BY <1>1, <2>1, <3>1, LobbyDocuments, NoneAssumption
      <3>3. /\ lobbies'[m].teams = lobbies[m].teams /\ ~lobbies'[m].live
            /\ lobbies'[m].searches = lobbies[m].searches
        BY <3>1, <3>2 DEF Lobbies
      <3> QED
        BY <2>1, <3>2, <3>3
    <2>2. CASE ~(m \in matches /\ lobbies[m] # None)
      <3>1. lobbies'[m] = lobbies[m]
        BY <1>1, <2>2
      <3> QED
        BY <1>1, <2>2, <3>1 DEF TypeOK
    <2> QED
      BY <2>1, <2>2
  <1>6. lobbies' \in [Slots -> Lobbies \cup {None}]
    <2>1. DOMAIN lobbies' = Slots /\ lobbies' = [m \in Slots |-> lobbies'[m]]
      BY <1>1
    <2> QED
      BY <1>5, <2>1
  <1>7. current' \in [Players -> Slots \cup {None, Elsewhere}]
    BY <1>1 DEF TypeOK
  <1>8. OfDocuments'
    BY <1>1, <1>5, DocumentsKeep
  <1>9. InAnIndex'
    BY <1>1, <1>3 DEF InAnIndex
  <1>10. Assigned'
    <2>1. Matches' = Matches
      BY <1>1 DEF Matches
    <2> QED
      BY <1>1, <2>1 DEF Assigned
  <1>11. \A v \in Players : /\ v \in departing => index'[v] = None
                            /\ current[v] \in matches => current'[v] = None
                            /\ current'[v] \in {current[v], None}
    BY <1>1, <1>2
  <1>12. \A m \in Slots : lobbies'[m] # None => lobbies'[m].searches \subseteq Ids
    BY <1>5
  <1>13. \A m \in Slots : m \in matches /\ lobbies'[m] # None => ~lobbies'[m].live
    BY <1>5
  <1>14. \A id \in Ids : searches'[id].active =>
                                searches[id].active /\ \A v \in departing : index[v] # id
    BY <1>2, <1>3
  <1> QED
    BY <1>3, <1>4, <1>6, <1>7, <1>8, <1>9, <1>10, <1>11, <1>12, <1>13, <1>14

LEMMA TerminateInv ==
    ASSUME IInv, NEW leaving \in SUBSET Players, Terminate(leaving),
           UNCHANGED <<publication, results, sessions, agreed>>,
           events' \in 0 .. MaxEvents, events <= events', slipped' \in SUBSET Players
    PROVE  IInv'
  <1> USE TournamentAssumption
  <1>1. /\ Retire(Matches, Players) /\ UNCHANGED <<formation, results>>
        /\ UNCHANGED <<definition, publication, parties, status, results, online, token, agreed>>
        /\ terminated'
        /\ enrolled' = [v \in Players |->
               IF v \in leaving THEN None
               ELSE IF Enrolled(v) THEN [enrolled[v] EXCEPT !.ready = None] ELSE None]
        /\ TypeOK /\ OfPlayers /\ OfDocuments /\ OfRetirement
        /\ Matches \subseteq Slots
    BY Parts, Bracket DEF Terminate, formation, sessions, TypeOK
  <1>2. /\ searches' \in Seq(Searches) /\ Len(searches') = Len(searches) /\ Ids' = Ids
        /\ Started' = Started
        /\ index' \in [Players -> Ids \cup {None}]
        /\ lobbies' \in [Slots -> Lobbies \cup {None}]
        /\ \A m \in Slots : lobbies'[m] # None => lobbies'[m].searches \subseteq Ids
        /\ current' \in [Players -> Slots \cup {None, Elsewhere}]
        /\ OfDocuments' /\ InAnIndex' /\ Assigned'
    BY <1>1, Retired
  <1>3. /\ \A m \in Slots : m \in Matches /\ lobbies'[m] # None => ~lobbies'[m].live
        /\ \A id \in Ids : searches'[id].active =>
                                searches[id].active /\ \A v \in Players : index[v] # id
        /\ \A v \in Players : /\ index'[v] = None
                              /\ current[v] \in Matches => current'[v] = None
                              /\ current'[v] \in {current[v], None}
    BY <1>1, Retired
  <1>4. ASSUME NEW v \in Players
        PROVE  /\ enrolled'[v] \in Entries \cup {None}
               /\ enrolled'[v] # None => /\ enrolled[v] # None /\ enrolled'[v].ready = None
                                         /\ enrolled'[v].accepted = enrolled[v].accepted
                                         /\ enrolled'[v].disbanded = enrolled[v].disbanded
    <2>1. CASE v \notin leaving /\ Enrolled(v)
      <3>1. /\ enrolled[v] \in Entries
            /\ enrolled'[v] = [enrolled[v] EXCEPT !.ready = None]
        BY <1>1, <2>1 DEF TypeOK, Enrolled
      <3> QED
        BY <2>1, <3>1 DEF Entries, Enrolled
    <2>2. CASE ~(v \notin leaving /\ Enrolled(v))
      BY <1>1, <2>2
    <2> QED
      BY <2>1, <2>2
  <1>5. TypeOK'
    <2>1. Teams' = Teams
      BY <1>1 DEF Teams
    <2>2. enrolled' \in [Players -> Entries \cup {None}]
      BY <1>1, <1>4
    <2> QED
      BY <1>1, <1>2, <2>1, <2>2 DEF TypeOK
  <1>6. OfPlayers'
    <2>1. /\ Formed' = Formed /\ Formed \subseteq Players
          /\ \A v : PartyOf(v)' = PartyOf(v)
      BY <1>1, SameFormation, FormedPlayers
    <2>2. PlayersCommitted'
      BY <1>1, <1>4, <2>1 DEF OfPlayers, PlayersCommitted, Accepted, Enrolled
    <2>3. Together' /\ \A v \in Players : Accepted(v)' => ~enrolled'[v].disbanded
      BY <1>1, <1>4, <2>1 DEF OfPlayers, Together, Enrolled, Accepted
    <2> QED
      BY <1>1, <1>2, <2>1, <2>2, <2>3 DEF OfPlayers, Apart, Begun
  <1>7. OfRetirement'
    <2>1. ASSUME NEW m \in Slots, lobbies'[m] # None PROVE ~lobbies'[m].live
      <3>1. m \in Matches' /\ Matches' = Matches
        BY <1>1, <1>2, <2>1 DEF OfDocuments, Matches
      <3> QED
        BY <1>3, <2>1, <3>1
    <2>2. ASSUME NEW id \in Ids PROVE ~searches'[id].active
      BY <1>1, <1>3 DEF OfRetirement, InAnIndex
    <2>3. \A v \in Players : current'[v] \in {None, Elsewhere}
      BY <1>1, <1>3 DEF OfRetirement, Assigned
    <2>4. TerminationRetires'
      BY <1>2, <1>3, <1>4, <2>1, <2>2, <2>3 DEF TerminationRetires, Enrolled, Ids
    <2> QED
      BY <1>2, <2>4 DEF OfRetirement
  <1>8. Counted'
    BY <1>1, CountedKeeps
  <1> QED
    BY <1>2, <1>5, <1>6, <1>7, <1>8, PartsNext

LEMMA WithdrawInv ==
    ASSUME IInv, NEW u \in Players, ~terminated, Withdraw(u),
           UNCHANGED <<publication, results, sessions, agreed>>,
           events' \in 0 .. MaxEvents, events <= events',
           slipped \subseteq slipped', slipped' \in SUBSET Players
    PROVE  IInv'
  <1> USE TournamentAssumption
  <1>1. CASE Competing(u)
    BY <1>1, TerminateInv DEF Withdraw
  <1>2. CASE ~Competing(u)
    <2>1. \/ Retire(Played(TeamOf(u)), Members(TeamOf(u)))
          \/ Retire(Matches, Players)
      BY <1>2 DEF Withdraw
    <2>2. /\ UNCHANGED <<formation, results>>
          /\ UNCHANGED <<definition, publication, parties, status, results, terminated, online,
                         token, agreed>>
          /\ enrolled' = [enrolled EXCEPT ![u] = None]
          /\ TypeOK /\ OfPlayers /\ OfDocuments /\ OfRetirement
      BY <1>2, Parts DEF Withdraw, formation, sessions
    <2>3. /\ searches' \in Seq(Searches) /\ Len(searches') = Len(searches) /\ Ids' = Ids
          /\ Started' = Started
          /\ index' \in [Players -> Ids \cup {None}]
          /\ lobbies' \in [Slots -> Lobbies \cup {None}]
          /\ \A m \in Slots : lobbies'[m] # None => lobbies'[m].searches \subseteq Ids
          /\ current' \in [Players -> Slots \cup {None, Elsewhere}]
          /\ OfDocuments' /\ InAnIndex' /\ Assigned'
      <3>1. Members(TeamOf(u)) \in SUBSET Players
        BY <2>2, FormedPlayers
      <3>2. CASE Retire(Played(TeamOf(u)), Members(TeamOf(u)))
        BY <2>2, <3>1, <3>2, Retired
      <3>3. CASE Retire(Matches, Players)
        BY <2>2, <3>3, Retired
      <3> QED
        BY <2>1, <3>2, <3>3
    <2>4. /\ enrolled' \in [Players -> Entries \cup {None}]
          /\ ~Enrolled(u)' /\ ~Accepted(u)'
          /\ \A v \in Players \ {u} : enrolled'[v] = enrolled[v]
          /\ \A v \in Players \ {u} : /\ Enrolled(v)' <=> Enrolled(v)
                                      /\ Accepted(v)' <=> Accepted(v)
      BY <2>2, Erased
    <2>5. TypeOK'
      <3>1. Teams' = Teams
        BY <2>2 DEF Teams
      <3> QED
        BY <2>2, <2>3, <2>4, <3>1 DEF TypeOK
    <2>6. OfPlayers'
      <3>1. /\ Formed' = Formed /\ Formed \subseteq Players
            /\ \A v : PartyOf(v)' = PartyOf(v) /\ Competing(v)' = Competing(v)
        BY <2>2, SameFormation, SameBracket, FormedPlayers
      <3>2. PlayersCommitted'
        BY <1>2, <2>2, <2>4, <3>1 DEF OfPlayers, PlayersCommitted
      <3>3. Together' /\ \A v \in Players : Accepted(v)' => ~enrolled'[v].disbanded
        BY <2>2, <2>4, <3>1 DEF OfPlayers, Together
      <3> QED
        BY <2>2, <2>3, <3>1, <3>2, <3>3 DEF OfPlayers, Apart, Begun
    <2>7. OfRetirement'
      BY <2>2, <2>3 DEF OfRetirement, TerminationRetires
    <2>8. Counted'
      BY <2>2, CountedKeeps
    <2> QED
      BY <2>3, <2>5, <2>6, <2>7, <2>8, PartsNext
  <1> QED
    BY <1>1, <1>2

-----------------------------------------------------------------------------
(* Rounds *)

\* A round gets a lobby of the teams that meet in it, and its players' searches are in use.
LEMMA Scheduled ==
    ASSUME TypeOK, NEW m \in Matches, NEW entries, Schedule(m, entries)
    PROVE  /\ searches' \in Seq(Searches) /\ Len(searches') = Len(searches) /\ Ids' = Ids
           /\ Started' = Started
           /\ \A id \in Ids : searches'[id].active => searches[id].active
           /\ lobbies' \in [Slots -> Lobbies \cup {None}]
           /\ \A n \in Slots : lobbies'[n] # None => lobbies'[n].searches \subseteq Ids
           /\ \A n \in Slots : n # m => lobbies'[n] = lobbies[n]
           /\ lobbies'[m] # None /\ lobbies'[m].teams = TeamsIn(m)
           /\ current' \in [Players -> Slots \cup {None, Elsewhere}]
           /\ \A v \in Players : current'[v] \in {current[v], m}
           /\ UNCHANGED index
  <1> DEFINE players == PlayersIn(m)
             ids == {index[v] : v \in players}
  <1>1. /\ definition \in Definitions /\ searches \in Seq(Searches)
        /\ index \in [Players -> Ids \cup {None}] /\ token \in [Players -> Tokens]
        /\ lobbies \in [Slots -> Lobbies \cup {None}]
        /\ \A n \in Slots : lobbies[n] # None => lobbies[n].searches \subseteq Ids
        /\ current \in [Players -> Slots \cup {None, Elsewhere}]
    BY DEF TypeOK
  <1>2. m \in Slots /\ TeamsIn(m) \subseteq Nat
    BY <1>1, Bracket
  <1>3. players \subseteq Players
    BY FormedPlayers DEF PlayersIn
  <1>4. ids \subseteq Ids
    <2>1. \A v \in players : MayPlay(v, m, entries)
      BY DEF Schedule
    <2>2. \A v \in players : index[v] # None
      BY <2>1 DEF MayPlay, Searching, Live
    <2> QED
      BY <1>1, <1>3, <2>2
  <1>5. Ids = 1 .. Len(searches) /\ Len(searches) \in Nat /\ Ids \subseteq Nat
    BY <1>1 DEF Ids
  <1>6. \A id \in Ids : searches[id] \in Searches
    BY <1>1, <1>5
  <1>7. PICK id \in ids : lobbies' = [lobbies EXCEPT ![m] =
            [members |-> players, teams |-> TeamsIn(m), searches |-> ids, live |-> TRUE,
             owner |-> searches[id].owner, session |-> token[searches[id].owner][1]]]
    BY DEF Schedule
  <1>8. /\ searches' = [i \in DOMAIN searches |->
               IF i \in ids THEN [searches[i] EXCEPT !.lobby = m] ELSE searches[i]]
        /\ current' = [v \in Players |-> IF v \in players THEN m ELSE current[v]]
        /\ UNCHANGED index
    BY DEF Schedule
  <1> DEFINE doc == [members |-> players, teams |-> TeamsIn(m), searches |-> ids, live |-> TRUE,
                     owner |-> searches[id].owner, session |-> token[searches[id].owner][1]]
  <1> HIDE DEF players, ids
  <1>9. doc \in Lobbies
    <2>1. searches[id].owner \in Players
      BY <1>4, <1>6 DEF Searches
    <2>2. token[searches[id].owner][1] \in Sessions
      BY <1>1, <2>1 DEF Tokens
    <2>3. ids \subseteq Nat
      BY <1>4, <1>5
    <2> QED
      BY <1>2, <1>3, <2>1, <2>2, <2>3 DEF Lobbies
  <1>10. doc.teams = TeamsIn(m) /\ doc.searches = ids
    OBVIOUS
  <1>11. lobbies' = [lobbies EXCEPT ![m] = doc]
    BY <1>7
  <1> HIDE DEF doc
  <1>12. /\ lobbies' \in [Slots -> Lobbies \cup {None}]
         /\ \A n \in Slots : n # m => lobbies'[n] = lobbies[n]
         /\ lobbies'[m] = doc
    BY <1>1, <1>2, <1>9, <1>11
  <1>13. /\ lobbies'[m] # None /\ lobbies'[m].teams = TeamsIn(m)
         /\ \A n \in Slots : lobbies'[n] # None => lobbies'[n].searches \subseteq Ids
    BY <1>1, <1>4, <1>9, <1>10, <1>12, NoneAssumption
  <1>14. ASSUME NEW i \in Ids
         PROVE  /\ searches'[i] \in Searches
                /\ searches'[i].active = searches[i].active
    <2>1. searches[i] \in Searches
      BY <1>6
    <2>2. /\ [searches[i] EXCEPT !.lobby = m] \in Searches
          /\ [searches[i] EXCEPT !.lobby = m].active = searches[i].active
      BY <1>2, <2>1 DEF Searches
    <2>3. searches'[i] = IF i \in ids THEN [searches[i] EXCEPT !.lobby = m] ELSE searches[i]
      BY <1>8 DEF Ids
    <2> QED
      BY <2>1, <2>2, <2>3
  <1>15. searches' \in Seq(Searches) /\ Len(searches') = Len(searches) /\ Ids' = Ids
    <2>1. DOMAIN searches' = 1 .. Len(searches)
      BY <1>5, <1>8 DEF Ids
    <2>2. searches' \in [1 .. Len(searches) -> Searches]
      BY <1>5, <1>8, <1>14, <2>1 DEF Ids
    <2> QED
      BY <1>5, <2>1, <2>2 DEF Ids
  <1>16. Started' = Started
    <2>1. (Started <=> Len(searches) # 0) /\ (Started' <=> Len(searches') # 0)
      BY <1>1, <1>15 DEF Started
    <2> QED
      BY <1>15, <2>1, Zenon DEF Started
  <1>17. /\ current' \in [Players -> Slots \cup {None, Elsewhere}]
         /\ \A v \in Players : current'[v] \in {current[v], m}
    BY <1>1, <1>2, <1>8
  <1>18. \A i \in Ids : searches'[i].active => searches[i].active
    BY <1>14
  <1> QED
    BY <1>8, <1>12, <1>13, <1>15, <1>16, <1>17, <1>18

\* What follows from a request, whoever it is of: play begins only with everybody's acceptance.
LEMMA AdvanceInv ==
    ASSUME IInv, NEW u \in Players, NEW entries, enrolled' = entries,
           PublishedTo(u), Advance(u, entries),
           enrolled' \in [Players -> Entries \cup {None}],
           agreed' \in [Players -> SUBSET Players],
           \A v \in Players :
               /\ Accepted(v) => Accepted(v)'
               /\ Accepted(v)' => v \in Formed /\ PartyOf(v) = agreed'[v]
               /\ Enrolled(v)' => Enrolled(v) /\ enrolled'[v].disbanded = enrolled[v].disbanded
    PROVE  IInv'
  <1> USE TournamentAssumption
  <1>1. /\ UNCHANGED <<definition, publication, parties, results, terminated, online, token,
                       slipped, events>>
        /\ ~terminated /\ status' = Stage(entries)
        /\ TypeOK /\ OfPlayers /\ OfDocuments /\ OfRetirement
    BY Parts DEF Advance, PublishedTo, Published, sessions
  <1>2. /\ Formed' = Formed /\ Formed \subseteq Players
        /\ Matches' = Matches /\ Teams' = Teams /\ Matches \subseteq Slots
        /\ \A t : Members(t)' = Members(t)
        /\ \A v : PartyOf(v)' = PartyOf(v)
        /\ \A m : TeamsIn(m)' = TeamsIn(m)
    BY <1>1, SameFormation, SameTeams, FormedPlayers, Bracket DEF TypeOK
  <1>3. /\ searches' \in Seq(Searches) /\ Len(searches') = Len(searches) /\ Ids' = Ids
        /\ Started' = Started
        /\ \A id \in Ids : searches'[id].active => searches[id].active
        /\ lobbies' \in [Slots -> Lobbies \cup {None}]
        /\ \A n \in Slots : lobbies'[n] # None => lobbies'[n].searches \subseteq Ids
        /\ \A n \in Slots : lobbies'[n] = lobbies[n] \/
               /\ n \in Matches /\ lobbies[n] = None /\ lobbies'[n] # None
               /\ lobbies'[n].teams = TeamsIn(n) /\ TeamsIn(n) # {} /\ status' = "PLAYING"
        /\ current' \in [Players -> Slots \cup {None, Elsewhere}]
        /\ \A v \in Players : current'[v] = current[v] \/ current'[v] \in Matches
        /\ UNCHANGED index
    <2>1. CASE UNCHANGED matchmaking
      <3>1. UNCHANGED <<searches, index, lobbies, current>>
        BY <2>1 DEF matchmaking
      <3> QED
        BY <1>1, <3>1 DEF TypeOK, Ids, Started
    <2>2. ASSUME NEW m \in Matches, Awaits(u, m), lobbies[m] = None, Schedule(m, entries),
                 status' = "PLAYING"
          PROVE  /\ searches' \in Seq(Searches) /\ Len(searches') = Len(searches) /\ Ids' = Ids
                 /\ Started' = Started
                 /\ \A id \in Ids : searches'[id].active => searches[id].active
                 /\ lobbies' \in [Slots -> Lobbies \cup {None}]
                 /\ \A n \in Slots : lobbies'[n] # None => lobbies'[n].searches \subseteq Ids
                 /\ \A n \in Slots : lobbies'[n] = lobbies[n] \/
                        /\ n \in Matches /\ lobbies[n] = None /\ lobbies'[n] # None
                        /\ lobbies'[n].teams = TeamsIn(n) /\ TeamsIn(n) # {}
                        /\ status' = "PLAYING"
                 /\ current' \in [Players -> Slots \cup {None, Elsewhere}]
                 /\ \A v \in Players : current'[v] = current[v] \/ current'[v] \in Matches
                 /\ UNCHANGED index
      <3>1. TeamsIn(m) # {}
        BY <2>2 DEF Awaits, PlayersIn
      <3>2. /\ searches' \in Seq(Searches) /\ Len(searches') = Len(searches) /\ Ids' = Ids
            /\ Started' = Started
            /\ \A id \in Ids : searches'[id].active => searches[id].active
            /\ lobbies' \in [Slots -> Lobbies \cup {None}]
            /\ \A n \in Slots : lobbies'[n] # None => lobbies'[n].searches \subseteq Ids
            /\ \A n \in Slots : n # m => lobbies'[n] = lobbies[n]
            /\ lobbies'[m] # None /\ lobbies'[m].teams = TeamsIn(m)
            /\ current' \in [Players -> Slots \cup {None, Elsewhere}]
            /\ \A v \in Players : current'[v] \in {current[v], m}
            /\ UNCHANGED index
        BY <1>1, <2>2, Scheduled
      <3> QED
        BY <2>2, <3>1, <3>2
    <2> QED
      BY <2>1, <2>2 DEF Advance
  <1>4. /\ status' \in {"FORMING", "PLAYING"}
        /\ status = "PLAYING" => status' = "PLAYING"
        /\ status' = "PLAYING" /\ status # "PLAYING" =>
               /\ \A t \in Teams : Cardinality(Members(t)) = definition.size
               /\ \A v \in Formed : Accepted(v)'
    <2>1. Complete(entries) =>
              /\ \A t \in Teams : Cardinality(Members(t)) = definition.size
              /\ \A v \in Formed : Accepted(v)'
      BY DEF Complete, Accepted, Enrolled
    <2> QED
      BY <1>1, <2>1 DEF Stage, TypeOK
  <1>5. TypeOK'
    BY <1>1, <1>2, <1>3, <1>4 DEF TypeOK
  <1>6. OfPlayers'
    <2>1. status' = "PLAYING" => \A v \in Formed' \ slipped' : Competing(v)' => Accepted(v)'
      <3>1. CASE status = "PLAYING"
        <4>1. \A v : Competing(v)' = Competing(v)
          BY <1>1, <1>4, <3>1, SameBracket DEF formation
        <4> QED
          BY <1>1, <1>2, <3>1, <4>1 DEF OfPlayers, PlayersCommitted
      <3>2. CASE status # "PLAYING"
        BY <1>2, <1>4, <3>2
      <3> QED
        BY <3>1, <3>2
    <2>2. PlayersCommitted'
      BY <1>2, <2>1 DEF PlayersCommitted
    <2>3. Together' /\ \A v \in Players : Accepted(v)' => ~enrolled'[v].disbanded
      <3>1. Together'
        BY <1>1, <1>2 DEF OfPlayers, Together
      <3>2. ASSUME NEW v \in Players, Accepted(v)' PROVE ~enrolled'[v].disbanded
        BY <1>1, <3>2 DEF OfPlayers, Together, Accepted
      <3> QED
        BY <3>1, <3>2
    <2> QED
      BY <1>1, <1>2, <1>3, <2>2, <2>3 DEF OfPlayers, Apart, Begun
  <1>7. OfDocuments'
    <2>1. \A e \in results : e[1] \in Slots
      BY <1>1 DEF TypeOK
    <2>2. \A e \in results' : lobbies'[e[1]] # None /\ e[2] \in TeamsIn(e[1])'
      BY <1>1, <1>2, <1>3, <2>1 DEF OfDocuments
    <2>3. ASSUME NEW n \in Slots, lobbies'[n] # None
          PROVE  /\ n \in Matches' /\ status' = "PLAYING"
                 /\ lobbies'[n].teams = TeamsIn(n)' /\ TeamsIn(n)' # {}
      <3>1. CASE lobbies'[n] = lobbies[n]
        BY <1>1, <1>2, <1>4, <2>3, <3>1 DEF OfDocuments
      <3>2. CASE lobbies'[n] # lobbies[n]
        BY <1>2, <1>3, <3>2
      <3> QED
        BY <3>1, <3>2
    <2>4. status' = "PLAYING" => \A t \in Teams' : Cardinality(Members(t)') = definition'.size
      BY <1>1, <1>2, <1>4 DEF OfDocuments
    <2>5. \A e, f \in results' : e[1] = f[1] => e = f
      BY <1>1 DEF OfDocuments
    <2> QED
      BY <2>2, <2>3, <2>4, <2>5 DEF OfDocuments
  <1>8. OfRetirement'
    BY <1>1, <1>2, <1>3 DEF OfRetirement, TerminationRetires, InAnIndex, Assigned
  <1>9. Counted'
    BY <1>1 DEF IInv, Kept, Counted
  <1> QED
    BY <1>5, <1>6, <1>7, <1>8, <1>9, PartsNext

LEMMA AcceptInv ==
    ASSUME IInv, NEW u \in Players, NEW s \in Sessions, Accept(u, s)
    PROVE  IInv'
  <1>1. /\ Enrolled(u) /\ PublishedTo(u)
        /\ enrolled' = [enrolled EXCEPT ![u] = [enrolled[u] EXCEPT !.accepted = s]]
        /\ agreed' = [agreed EXCEPT ![u] = PartyOf(u)]
        /\ Advance(u, enrolled')
        /\ TypeOK /\ OfPlayers /\ s # None
    BY Parts, TournamentAssumption DEF Accept
  <1> DEFINE entry == [enrolled[u] EXCEPT !.accepted = s]
  <1>2. enrolled[u] \in Entries /\ None \notin Entries
    BY <1>1, NoneAssumption DEF TypeOK, Enrolled
  <1>3. /\ entry \in Entries /\ entry.accepted = s
        /\ entry.disbanded = enrolled[u].disbanded
    BY <1>2 DEF Entries
  <1> HIDE DEF entry
  <1>4. enrolled' = [enrolled EXCEPT ![u] = entry]
    BY <1>1 DEF entry
  <1>5. PartyOf(u) \in SUBSET Players /\ u \in Formed
    BY <1>1, FormedPlayers DEF PublishedTo
  <1>6. enrolled' \in [Players -> Entries \cup {None}] /\ agreed' \in [Players -> SUBSET Players]
    BY ZenonT(60), <1>1, <1>3, <1>4, <1>5 DEF TypeOK
  <1>7. ASSUME NEW v \in Players
        PROVE  /\ Accepted(v) => Accepted(v)'
               /\ Accepted(v)' => v \in Formed /\ PartyOf(v) = agreed'[v]
               /\ Enrolled(v)' => Enrolled(v) /\ enrolled'[v].disbanded = enrolled[v].disbanded
    <2>1. CASE v = u
      <3>1. enrolled'[v] = entry /\ agreed'[v] = PartyOf(v)
        BY <1>1, <1>4, <2>1 DEF TypeOK
      <3> QED
        BY <1>1, <1>2, <1>3, <1>5, <2>1, <3>1 DEF Accepted, Enrolled
    <2>2. CASE v # u
      <3>1. enrolled'[v] = enrolled[v] /\ agreed'[v] = agreed[v]
        BY <1>1, <1>4, <2>2 DEF TypeOK
      <3> QED
        BY <1>1, <3>1 DEF Accepted, Enrolled, OfPlayers, PlayersCommitted
    <2> QED
      BY <2>1, <2>2
  <1> QED
    BY <1>1, <1>6, <1>7, AdvanceInv

LEMMA ReadyInv ==
    ASSUME IInv, NEW u \in Players, NEW s \in Sessions, Ready(u, s)
    PROVE  IInv'
  <1>1. PICK m \in Matches :
            enrolled' = [enrolled EXCEPT ![u] = [enrolled[u] EXCEPT !.ready = m]]
    BY DEF Ready
  <1>2. /\ Accepted(u) /\ PublishedTo(u) /\ UNCHANGED agreed
        /\ Advance(u, enrolled')
        /\ TypeOK /\ OfPlayers
    BY Parts DEF Ready
  <1> DEFINE entry == [enrolled[u] EXCEPT !.ready = m]
  <1>3. enrolled[u] \in Entries /\ None \notin Entries /\ m \in Slots
    BY <1>2, NoneAssumption, Bracket DEF TypeOK, Enrolled, Accepted
  <1>4. /\ entry \in Entries /\ entry.accepted = enrolled[u].accepted
        /\ entry.disbanded = enrolled[u].disbanded
    BY <1>3 DEF Entries
  <1> HIDE DEF entry
  <1>5. enrolled' = [enrolled EXCEPT ![u] = entry]
    BY <1>1 DEF entry
  <1>6. enrolled' \in [Players -> Entries \cup {None}] /\ agreed' \in [Players -> SUBSET Players]
    BY <1>2, <1>4, <1>5 DEF TypeOK
  <1>7. ASSUME NEW v \in Players
        PROVE  /\ Accepted(v) => Accepted(v)'
               /\ Accepted(v)' => v \in Formed /\ PartyOf(v) = agreed'[v]
               /\ Enrolled(v)' => Enrolled(v) /\ enrolled'[v].disbanded = enrolled[v].disbanded
    <2>1. Accepted(v) => v \in Formed /\ PartyOf(v) = agreed'[v]
      BY <1>2 DEF OfPlayers, PlayersCommitted
    <2>2. enrolled'[v] = IF v = u THEN entry ELSE enrolled[v]
      BY <1>2, <1>5 DEF TypeOK
    <2> QED
      BY <1>2, <1>3, <1>4, <2>1, <2>2 DEF Accepted, Enrolled
  <1> QED
    BY <1>2, <1>6, <1>7, AdvanceInv

LEMMA PollInv ==
    ASSUME IInv, NEW u \in Players, Poll(u)
    PROVE  IInv'
  <1>1. /\ PublishedTo(u) /\ Advance(u, enrolled) /\ UNCHANGED <<enrolled, agreed>>
        /\ TypeOK /\ OfPlayers
    BY Parts DEF Poll
  <1>2. enrolled' \in [Players -> Entries \cup {None}] /\ agreed' \in [Players -> SUBSET Players]
    BY <1>1 DEF TypeOK
  <1>3. \A v \in Players :
            /\ Accepted(v) => Accepted(v)'
            /\ Accepted(v)' => v \in Formed /\ PartyOf(v) = agreed'[v]
            /\ Enrolled(v)' => Enrolled(v) /\ enrolled'[v].disbanded = enrolled[v].disbanded
    BY <1>1 DEF Accepted, Enrolled, OfPlayers, PlayersCommitted
  <1> QED
    BY <1>1, <1>2, <1>3, AdvanceInv

\* A result decides its match and changes no match that has its teams already.
LEMMA Submitted ==
    ASSUME NEW m, NEW w \in Teams, ~Decided(m), results' = results \cup {<<m, w>>},
           UNCHANGED definition
    PROVE  /\ \A n : Decided(n)' <=> Decided(n) \/ n = m
           /\ \A n : TeamsIn(n) # {} => TeamsIn(n)' = TeamsIn(n)
  <1>1. Teams' = Teams
    BY DEF Teams
  <1>2. \A n : Decided(n)' <=> Decided(n) \/ n = m
    BY <1>1 DEF Decided
  <1>3. ASSUME NEW n, TeamsIn(n) # {} PROVE TeamsIn(n)' = TeamsIn(n)
    <2>1. CASE n[1] = 0
      BY <2>1 DEF TeamsIn
    <2>2. CASE n[1] # 0
      <3>1. /\ \A b \in Before(n) : Decided(b) /\ Decided(b)'
            /\ m \notin Before(n)
        BY <1>2, <1>3, <2>2 DEF TeamsIn
      <3>2. \A b \in Before(n), x \in Teams : <<b, x>> \in results' <=> <<b, x>> \in results
        BY <3>1
      <3>3. Before(n)' = Before(n)
        BY DEF Before
      <3> QED
        BY <1>1, <2>2, <3>1, <3>2, <3>3 DEF TeamsIn
    <2> QED
      BY <2>1, <2>2
  <1> QED
    BY <1>2, <1>3

\* A result brings nobody back into the tournament.
LEMMA NoReturn ==
    ASSUME IInv, NEW u \in Players, NEW s \in Sessions, NEW m \in Slots,
           SubmitResult(u, s, m), NEW v, Competing(v)'
    PROVE  Competing(v)
  <1>0. PICK w \in Teams : w \in TeamsIn(m) /\ results' = results \cup {<<m, w>>}
    BY DEF SubmitResult
  <1>1. /\ UNCHANGED <<definition, parties, status>> /\ status = "PLAYING"
        /\ ~Decided(m) /\ results' = results \cup {<<m, w>>}
    BY <1>0 DEF SubmitResult, Undecided, formation
  <1>2. /\ Formed' = Formed /\ Matches' = Matches /\ Teams' = Teams /\ Final' = Final
        /\ \A t : Members(t)' = Members(t)
        /\ TeamOf(v)' = TeamOf(v)
    BY <1>1, SameFormation
  <1>3. /\ \A n : Decided(n)' <=> Decided(n) \/ n = m
        /\ \A n : TeamsIn(n) # {} => TeamsIn(n)' = TeamsIn(n)
    BY <1>1, Submitted
  <1>4. /\ v \in Formed /\ ~Decided(Final)'
        /\ \A n \in Matches : v \in PlayersIn(n)' /\ Decided(n)' => <<n, TeamOf(v)>> \in results'
    BY <1>2 DEF Competing
  <1>5. ASSUME NEW n \in Matches, v \in PlayersIn(n), Decided(n)
        PROVE  <<n, TeamOf(v)>> \in results
    <2>1. TeamsIn(n) # {} /\ n # m
      BY <1>1, <1>5 DEF PlayersIn
    <2>2. PlayersIn(n)' = PlayersIn(n)
      BY <1>2, <1>3, <2>1 DEF PlayersIn
    <2>3. <<n, TeamOf(v)>> \in results'
      BY <1>3, <1>4, <1>5, <2>2
    <2> QED
      BY <1>1, <2>1, <2>3
  <1>6. ~Decided(Final)
    BY <1>1, <1>2, <1>4 DEF Decided
  <1> QED
    BY <1>1, <1>4, <1>5, <1>6 DEF Competing

LEMMA SubmitInv ==
    ASSUME IInv, NEW u \in Players, NEW s \in Sessions, NEW m \in Slots,
           SubmitResult(u, s, m)
    PROVE  IInv'
  <1>0. PICK w \in Teams : w \in TeamsIn(m) /\ results' = results \cup {<<m, w>>}
    BY DEF SubmitResult
  <1>1. /\ UNCHANGED <<definition, publication, parties, status, enrolled, terminated, searches,
                       index, lobbies, current, online, token, agreed, slipped, events>>
        /\ status = "PLAYING" /\ ~terminated /\ m \in Matches /\ lobbies[m] # None
        /\ ~Decided(m) /\ w \in TeamsIn(m)
        /\ results' = results \cup {<<m, w>>}
        /\ TypeOK /\ OfPlayers /\ OfDocuments /\ OfRetirement
    BY <1>0, Parts DEF SubmitResult, PublishedTo, Published, Undecided, formation, matchmaking,
                 sessions, history
  <1>2. /\ Formed' = Formed /\ Formed \subseteq Players
        /\ Matches' = Matches /\ Teams' = Teams /\ Final' = Final
        /\ \A t : Members(t)' = Members(t)
        /\ \A v : PartyOf(v)' = PartyOf(v) /\ TeamOf(v)' = TeamOf(v)
    BY <1>1, SameFormation, FormedPlayers
  <1>3. /\ \A n : Decided(n)' <=> Decided(n) \/ n = m
        /\ \A n : TeamsIn(n) # {} => TeamsIn(n)' = TeamsIn(n)
    BY <1>1, Submitted
  <1>4. TypeOK'
    <2>1. results' \subseteq Slots \X Teams
      BY <1>1 DEF TypeOK
    <2>2. Ids' = Ids
      BY <1>1 DEF Ids
    <2> QED
      BY <1>1, <1>2, <2>1, <2>2 DEF TypeOK
  <1>5. ASSUME NEW v, Competing(v)' PROVE Competing(v)
    BY <1>5, NoReturn
  <1>6. OfPlayers'
    <2>1. /\ \A v : Accepted(v)' = Accepted(v) /\ Enrolled(v)' = Enrolled(v)
          /\ Started' = Started
      BY <1>1 DEF Accepted, Enrolled, Started
    <2> QED
      BY <1>1, <1>2, <1>5, <2>1 DEF OfPlayers, PlayersCommitted, Apart, Together, Begun
  <1>7. OfDocuments'
    <2>1. \A n \in Slots : lobbies[n] # None => TeamsIn(n)' = TeamsIn(n)
      BY <1>1, <1>3 DEF OfDocuments
    <2>2. \A e \in results : e[1] \in Slots
      BY <1>1 DEF TypeOK
    <2>3. \A e \in results' : lobbies'[e[1]] # None /\ e[2] \in TeamsIn(e[1])'
      BY <1>1, <2>1, <2>2 DEF OfDocuments
    <2>4. ASSUME NEW e \in results', NEW f \in results', e[1] = f[1] PROVE e = f
      <3>1. \A g \in results : g[1] # m
        <4>1. \A g \in results : g = <<g[1], g[2]>> /\ g[2] \in Teams
          BY <1>1 DEF TypeOK
        <4> QED
          BY <1>1, <4>1 DEF Decided
      <3> QED
        BY <1>1, <2>4, <3>1 DEF OfDocuments
    <2>5. \A n \in Slots : lobbies'[n] # None =>
              /\ n \in Matches' /\ status' = "PLAYING"
              /\ lobbies'[n].teams = TeamsIn(n)' /\ TeamsIn(n)' # {}
      BY <1>1, <1>2, <2>1 DEF OfDocuments
    <2>6. status' = "PLAYING" => \A t \in Teams' : Cardinality(Members(t)') = definition'.size
      BY <1>1, <1>2 DEF OfDocuments
    <2> QED
      BY <2>3, <2>4, <2>5, <2>6 DEF OfDocuments
  <1>8. OfRetirement'
    BY <1>1, <1>2 DEF OfRetirement, TerminationRetires, InAnIndex, Assigned, Ids, Enrolled
  <1>9. Counted'
    BY <1>1 DEF IInv, Kept, Counted
  <1> QED
    BY <1>4, <1>6, <1>7, <1>8, <1>9, PartsNext

-----------------------------------------------------------------------------
(* The theorems *)

LEMMA TournamentInv ==
    ASSUME IInv, Tournament
    PROVE  IInv'
  <1> USE TournamentAssumption
  <1>1. /\ TypeOK /\ events \in 0 .. MaxEvents /\ MaxEvents \in Nat
        /\ slipped \subseteq Players
    BY DEF IInv, TypeOK
  <1>2. ASSUME NEW u \in Players, Register(u) \/ Poll(u) PROVE IInv'
    BY <1>2, RegisterInv, PollInv
  <1>3. ASSUME NEW u \in Players, Decline(u) PROVE IInv'
    <2>1. /\ UNCHANGED <<publication, results, sessions, agreed, slipped>>
          /\ events' \in 0 .. MaxEvents /\ events <= events' /\ ~terminated
          /\ Withdraw(u) \/ Release(u)
      BY <1>1, <1>3 DEF Decline, Happens, PublishedTo, Published, history
    <2> QED
      BY <1>1, <2>1, WithdrawInv, ReleaseInv
  <1>4. ASSUME NEW u \in Players, Leave(u) PROVE IInv'
    <2>1. /\ UNCHANGED <<publication, results, sessions, agreed>>
          /\ events' \in 0 .. MaxEvents /\ events <= events'
          /\ slipped' = IF publication = "unreadable" THEN slipped \cup {u} ELSE slipped
          /\ slipped \subseteq slipped' /\ slipped' \in SUBSET Players
      BY <1>1, <1>4 DEF Leave, Happens
    <2>2. CASE PublishedTo(u)
      <3>1. ~terminated /\ (Withdraw(u) \/ Release(u))
        BY <1>4, <2>2 DEF Leave, PublishedTo, Published
      <3> QED
        BY <2>1, <3>1, WithdrawInv, ReleaseInv
    <2>3. CASE ~PublishedTo(u) /\ MustRetire
      <3>1. Terminate({u})
        BY <1>4, <2>3 DEF Leave
      <3> QED
        BY <2>1, <3>1, TerminateInv
    <2>4. CASE ~PublishedTo(u) /\ ~MustRetire
      <3>1. Erase(u)
        BY <1>4, <2>4 DEF Leave
      <3> QED
        BY <2>1, <2>4, <3>1, EraseInv
    <2> QED
      BY <2>2, <2>3, <2>4
  <1>5. ASSUME NEW u \in Players, NEW party \in SUBSET Players, Search(u, party) PROVE IInv'
    BY <1>5, SearchInv
  <1>6. ASSUME NEW u \in Players, NEW s \in Sessions, Accept(u, s) \/ Ready(u, s) PROVE IInv'
    BY <1>6, AcceptInv, ReadyInv
  <1>7. ASSUME NEW u \in Players, NEW s \in Sessions, NEW m \in Slots,
               SubmitResult(u, s, m)
        PROVE  IInv'
    BY <1>7, SubmitInv
  <1>8. CASE RetireUnavailable
    <2>1. /\ UNCHANGED <<publication, results, sessions, agreed, slipped, events>>
          /\ Terminate({})
      BY <1>8 DEF RetireUnavailable, history
    <2> QED
      BY <1>1, <2>1, TerminateInv
  <1> QED
    BY <1>2, <1>3, <1>4, <1>5, <1>6, <1>7, <1>8 DEF Tournament

LEMMA StutterInv ==
    ASSUME IInv, UNCHANGED vars
    PROVE  IInv'
  <1>1. /\ UNCHANGED <<formation, enrolled, results, terminated, history>>
        /\ UNCHANGED <<definition, publication, parties, status, enrolled, results, terminated,
                       searches, index, lobbies, current, online, token, agreed, slipped, events>>
    BY DEF vars, formation, matchmaking, sessions, history
  <1>2. Ids' = Ids /\ Started' = Started /\ Teams' = Teams
    BY <1>1 DEF Ids, Started, Teams
  <1>3. TypeOK' /\ Counted'
    BY <1>1, <1>2 DEF IInv, TypeOK, Kept, Counted
  <1>4. OfPlayers'
    BY <1>1, <1>2, Parts, PlayersKeep
  <1>5. OfDocuments'
    BY <1>1, Parts, DocumentsKeep
  <1>6. OfRetirement'
    BY <1>1, <1>2, Parts, RetirementKeeps
  <1> QED
    BY <1>3, <1>4, <1>5, <1>6, PartsNext

LEMMA Inductive == Spec => []IInv
  <1>1. IInv /\ [Next]_vars => IInv'
    BY TournamentInv, MatchmakingInv, WorldInv, StutterInv DEF Next
  <1> QED
    BY Start, <1>1, PTL DEF Spec

\* Every document, search, lobby, assignment and token of a reachable state has its form:
\* the searches in a player's index and in a lobby exist, and a team is of the bracket.
THEOREM TournamentTypeCorrect == Spec => []TypeOK
  BY Inductive, PTL DEF IInv

\* Play begins, and goes on, only with players that have agreed to the party they are in
\* (releaseFormingParty, formationAccepted and withdrawManagedParticipant), whatever
\* searches, departures and publications come between.
THEOREM TournamentPlayersCommitted == Spec => []PlayersCommitted
  BY Inductive, PTL DEF IInv, Promised

\* A terminated tournament leaves no lobby, no search, no assignment and nobody's readiness
\* (retireTournamentAssignments), and nothing brings one of them back.
THEOREM TournamentTerminationRetires == Spec => []TerminationRetires
  BY Inductive, PTL DEF IInv, Promised

\* No sequence of requests writes documents that the readers of results, of the formation and
\* of the enrolments refuse (stateWithResults, validateFormation, validateEnrollments).
THEOREM TournamentDocumentsReadable == Spec => []DocumentsReadable
  BY Inductive, PTL DEF IInv, Promised

-----------------------------------------------------------------------------
(* The bracket: where a team is to play *)

Places == Nat \X Nat

\* A team is to play its first match, and then whichever match a match it won leads to,
\* whether its adversary there is known or not.
Expected(t, m) ==
    IF m[1] = 0 THEN t \in {2 * m[2], 2 * m[2] + 1}
    ELSE \E b \in Before(m) : <<b, t>> \in results

OneNext ==
    \A t \in Nat, m, n \in Places :
        Expected(t, m) /\ Expected(t, n) /\ ~Decided(m) /\ ~Decided(n) => m = n

NoDefeat ==
    \A t \in Nat, m, n \in Places :
        Expected(t, m) /\ Expected(t, n) /\ ~Decided(m) /\ Decided(n) => <<n, t>> \in results

BracketInv == IInv /\ OneNext /\ NoDefeat

LEMMA TeamsExpected ==
    ASSUME NEW m, NEW t \in TeamsIn(m)
    PROVE  Expected(t, m)
  BY DEF TeamsIn, Expected

\* A match of a later round is decided only when the two it follows are.
LEMMA DecidedAfter ==
    ASSUME IInv, NEW n, Decided(n), n[1] # 0, NEW b \in Before(n)
    PROVE  Decided(b)
  <1>1. PICK w \in Teams : <<n, w>> \in results
    BY DEF Decided
  <1>2. w \in TeamsIn(n)
    <2>1. \A e \in results : e[2] \in TeamsIn(e[1])
      BY Parts DEF OfDocuments
    <2> QED
      BY <1>1, <2>1
  <1> QED
    BY <1>2 DEF TeamsIn

\* A match leads to one match.
LEMMA LeadsToOne ==
    ASSUME NEW m, NEW n \in Places, NEW p \in Places, m \in Before(n), m \in Before(p)
    PROVE  n = p
  <1>1. n[1] \in Nat /\ n[2] \in Nat /\ p[1] \in Nat /\ p[2] \in Nat
        /\ n = <<n[1], n[2]>> /\ p = <<p[1], p[2]>>
    BY DEF Places
  <1>2. n[1] - 1 = m[1] /\ (m[2] = 2 * n[2] \/ m[2] = 2 * n[2] + 1)
    BY DEF Before
  <1>3. p[1] - 1 = m[1] /\ (m[2] = 2 * p[2] \/ m[2] = 2 * p[2] + 1)
    BY DEF Before
  <1>4. n[1] = p[1] /\ n[2] = p[2]
    BY <1>1, <1>2, <1>3
  <1> QED
    BY <1>1, <1>4

\* The winner of a match is expected in one more.
LEMMA ExpectedNext ==
    ASSUME NEW m, NEW w, results' = results \cup {<<m, w>>}
    PROVE  \A t \in Nat, n \in Places :
               /\ Expected(t, n) => Expected(t, n)'
               /\ Expected(t, n)' => Expected(t, n) \/ (t = w /\ n[1] # 0 /\ m \in Before(n))
  BY DEF Expected, Before

LEMMA BracketSubmit ==
    ASSUME BracketInv, NEW u \in Players, NEW s \in Sessions, NEW m \in Slots,
           SubmitResult(u, s, m)
    PROVE  OneNext' /\ NoDefeat'
  <1>1. PICK w \in Teams : w \in TeamsIn(m) /\ results' = results \cup {<<m, w>>}
    BY DEF SubmitResult
  <1>2. /\ ~Decided(m) /\ definition' = definition /\ definition \in Definitions
        /\ IInv /\ OneNext /\ NoDefeat
    BY DEF SubmitResult, Undecided, formation, BracketInv, IInv, TypeOK
  <1>3. /\ w \in Nat /\ m \in Places
        /\ Expected(w, m)
    BY <1>1, <1>2, Bracket, TeamsExpected DEF Places
  <1>4. \A n : Decided(n)' <=> Decided(n) \/ n = m
    BY <1>1, <1>2, Submitted
  <1>5. \A t \in Nat, n \in Places :
            Expected(t, n)' => Expected(t, n) \/ (t = w /\ n[1] # 0 /\ m \in Before(n))
    BY <1>1, ExpectedNext
  \* Wherever the winner is to play next is one match, that has not been decided.
  <1>6. ASSUME NEW n \in Places, Expected(w, n)', n # m, ~Decided(n)
        PROVE  n[1] # 0 /\ m \in Before(n)
    BY <1>2, <1>3, <1>5, <1>6 DEF OneNext
  <1>7. OneNext'
    <2> SUFFICES ASSUME NEW t \in Nat, NEW n \in Places, NEW p \in Places,
                        Expected(t, n)', Expected(t, p)', ~Decided(n)', ~Decided(p)'
                 PROVE  n = p
      BY DEF OneNext
    <2>1. ~Decided(n) /\ ~Decided(p) /\ n # m /\ p # m
      BY <1>4
    <2>2. CASE t = w
      BY <1>6, <2>1, <2>2, LeadsToOne
    <2>3. CASE t # w
      BY <1>2, <1>5, <2>1, <2>3 DEF OneNext
    <2> QED
      BY <2>2, <2>3
  <1>8. NoDefeat'
    <2> SUFFICES ASSUME NEW t \in Nat, NEW p \in Places, NEW n \in Places,
                        Expected(t, p)', Expected(t, n)', ~Decided(p)', Decided(n)'
                 PROVE  <<n, t>> \in results'
      BY DEF NoDefeat
    <2>1. ~Decided(p) /\ p # m /\ (Decided(n) \/ n = m)
      BY <1>4
    <2>2. CASE t = w
      <3>1. CASE n = m
        BY <1>1, <2>2, <3>1
      <3>2. CASE n # m
        <4>1. ~(n[1] # 0 /\ m \in Before(n))
          BY <1>2, <2>1, <3>2, DecidedAfter
        <4>2. Expected(w, n)
          BY <1>5, <2>2, <4>1
        <4> QED
          BY <1>1, <1>2, <1>3, <2>1, <2>2, <3>2, <4>2 DEF NoDefeat
      <3> QED
        BY <3>1, <3>2
    <2>3. CASE t # w
      <3>1. Expected(t, p) /\ Expected(t, n)
        BY <1>5, <2>3
      <3>2. n # m
        BY <1>2, <1>3, <2>1, <3>1 DEF OneNext
      <3> QED
        BY <1>1, <1>2, <2>1, <3>1, <3>2 DEF NoDefeat
    <2> QED
      BY <2>2, <2>3
  <1> QED
    BY <1>7, <1>8

\* Nothing but a result of a host changes the results.
LEMMA OnlySubmitted ==
    ASSUME [Next]_vars
    PROVE  \/ UNCHANGED <<definition, results>>
           \/ \E u \in Players, s \in Sessions, m \in Slots : SubmitResult(u, s, m)
  <1>1. CASE UNCHANGED vars
    BY <1>1 DEF vars, formation
  <1>2. CASE Matchmaking \/ World
    BY <1>2 DEF Matchmaking, World, CancelSearch, Disband, Migrate, GoElsewhere, ComeBack,
                Connect, Disconnect, IssueToken, Publish, others, formation
  <1>3. CASE \E u \in Players : Register(u) \/ Poll(u)
    BY <1>3 DEF Register, Poll, Advance, formation
  <1>4. ASSUME NEW u \in Players, Decline(u) \/ Leave(u)
        PROVE  UNCHANGED <<definition, results>>
    BY <1>4 DEF Decline, Leave, Withdraw, Release, Terminate, Erase, formation
  <1>5. CASE \E u \in Players, party \in SUBSET Players : Search(u, party)
    BY <1>5 DEF Search
  <1>6. CASE \E u \in Players, s \in Sessions : Accept(u, s) \/ Ready(u, s)
    BY <1>6 DEF Accept, Ready, Advance
  <1>7. CASE RetireUnavailable
    BY <1>7 DEF RetireUnavailable, Terminate, formation
  <1> QED
    BY <1>1, <1>2, <1>3, <1>4, <1>5, <1>6, <1>7 DEF Next, Tournament

LEMMA BracketStep ==
    ASSUME BracketInv, [Next]_vars
    PROVE  BracketInv'
  <1>1. IInv'
    BY TournamentInv, MatchmakingInv, WorldInv, StutterInv DEF Next, BracketInv
  <1>2. CASE UNCHANGED <<definition, results>>
    <2>1. /\ \A m : Decided(m)' = Decided(m)
          /\ \A t, m : Expected(t, m)' = Expected(t, m)
      BY <1>2, SameTeams DEF Expected, Before
    <2>2. OneNext' /\ NoDefeat'
      BY <1>2, <2>1 DEF BracketInv, OneNext, NoDefeat
    <2> QED
      BY <1>1, <2>2 DEF BracketInv
  <1>3. CASE \E u \in Players, s \in Sessions, m \in Slots : SubmitResult(u, s, m)
    BY <1>1, <1>3, BracketSubmit DEF BracketInv
  <1> QED
    BY <1>2, <1>3, OnlySubmitted

LEMMA BracketStart == Init => BracketInv
  <1> SUFFICES ASSUME Init PROVE BracketInv
    OBVIOUS
  <1>1. results = {} /\ \A m : ~Decided(m)
    BY DEF Init, Decided
  <1>2. OneNext
    <2> SUFFICES ASSUME NEW t \in Nat, NEW m \in Places, NEW n \in Places,
                        Expected(t, m), Expected(t, n)
                 PROVE  m = n
      BY DEF OneNext
    <2>1. /\ m[1] \in Nat /\ m[2] \in Nat /\ n[1] \in Nat /\ n[2] \in Nat
          /\ m = <<m[1], m[2]>> /\ n = <<n[1], n[2]>>
      BY DEF Places
    <2>2. m[1] = 0 /\ n[1] = 0 /\ t \in {2 * m[2], 2 * m[2] + 1} /\ t \in {2 * n[2], 2 * n[2] + 1}
      BY <1>1 DEF Expected
    <2>3. m[2] = n[2]
      BY <2>1, <2>2
    <2> QED
      BY <2>1, <2>2, <2>3
  <1>3. NoDefeat
    BY <1>1 DEF NoDefeat
  <1> QED
    BY <1>2, <1>3, Start DEF BracketInv

\* A player is in one team.
LEMMA OneTeam ==
    ASSUME IInv, NEW u \in Players, NEW t, u \in Members(t)
    PROVE  TeamOf(u) = t /\ t \in Teams
  <1>1. PICK o \in Players : parties[o].team = t /\ u \in parties[o].members
    BY DEF Members
  <1>2. /\ \A p \in Players : parties[p] \in [team : Teams, members : SUBSET Players]
        /\ Apart
    BY DEF IInv, TypeOK, Kept
  <1>3. t \in Teams
    BY <1>1, <1>2
  <1>4. ASSUME NEW x \in Teams, u \in Members(x) PROVE x = t
    <2>1. PICK p \in Players : parties[p].team = x /\ u \in parties[p].members
      BY <1>4 DEF Members
    <2>2. p = o
      BY <1>1, <1>2, <2>1 DEF Apart
    <2> QED
      BY <1>1, <2>1, <2>2
  <1> QED
    BY <1>3, <1>4 DEF TeamOf

\* stateWithReadiness, the lobbies and the results go by the first match of a player that is
\* not decided.  There is no other, whatever order the matches are decided in, and everything
\* the player took part in it has won.
THEOREM TournamentOneMatch == Spec => []OneMatchToPlay
  <1>1. ASSUME BracketInv PROVE OneMatchToPlay
    <2> SUFFICES ASSUME NEW u \in Players, NEW m \in Matches, Awaits(u, m),
                        NEW n \in Matches, u \in PlayersIn(n)
                 PROVE  IF Decided(n) THEN <<n, TeamOf(u)>> \in results ELSE n = m
      BY DEF OneMatchToPlay, Awaits
    <2>1. IInv /\ OneNext /\ NoDefeat /\ definition \in Definitions
      BY <1>1 DEF BracketInv, IInv, TypeOK
    <2>2. m \in Slots /\ n \in Slots /\ m \in Places /\ n \in Places
      BY <2>1, Bracket DEF Places
    <2>3. PICK t \in TeamsIn(m) : u \in Members(t)
      BY DEF Awaits, PlayersIn
    <2>4. PICK x \in TeamsIn(n) : u \in Members(x)
      BY DEF PlayersIn
    <2>5. x = t /\ TeamOf(u) = t /\ t \in Nat
      BY <2>1, <2>2, <2>3, <2>4, OneTeam, Bracket
    <2>6. Expected(t, m) /\ Expected(t, n)
      BY <2>3, <2>4, <2>5, TeamsExpected
    <2>7. ~Decided(m)
      BY DEF Awaits
    <2>8. CASE Decided(n)
      BY <2>1, <2>2, <2>5, <2>6, <2>7, <2>8 DEF NoDefeat
    <2>9. CASE ~Decided(n)
      BY <2>1, <2>2, <2>5, <2>6, <2>7, <2>9 DEF OneNext
    <2> QED
      BY <2>8, <2>9
  <1>2. BracketInv /\ [Next]_vars => BracketInv'
    BY BracketStep
  <1>3. BracketInv => OneMatchToPlay
    BY <1>1
  <1> QED
    BY <1>2, <1>3, BracketStart, PTL DEF Spec

-----------------------------------------------------------------------------
(* The formation is final when play begins *)

LEMMA PlayKeepsFormation ==
    ASSUME TypeOK, [Next]_vars, status = "PLAYING"
    PROVE  UNCHANGED <<definition, parties, status>>
  <1>1. CASE UNCHANGED vars
    BY <1>1 DEF vars, formation
  <1>2. CASE Matchmaking \/ World
    BY <1>2 DEF Matchmaking, World, CancelSearch, Disband, Migrate, GoElsewhere, ComeBack,
                Connect, Disconnect, IssueToken, Publish, others, formation
  <1>3. CASE \E u \in Players : Register(u) \/ Poll(u)
    BY <1>3 DEF Register, Poll, Advance, Stage, formation
  <1>4. ASSUME NEW u \in Players, Decline(u) \/ Leave(u)
        PROVE  UNCHANGED <<definition, parties, status>>
    BY <1>4 DEF Decline, Leave, Withdraw, Release, Terminate, Erase, formation
  <1>5. ASSUME NEW u \in Players, NEW party \in SUBSET Players, Search(u, party)
        PROVE  UNCHANGED <<definition, parties, status>>
    <2>1. Reserved(u, party) \subseteq {parties[u]}
      BY DEF Reserved
    <2>2. parties' = [parties EXCEPT ![u] = parties[u]]
      BY <1>5, <2>1 DEF Search
    <2> QED
      BY <1>5, <2>2 DEF Search, TypeOK
  <1>6. CASE \E u \in Players, s \in Sessions : Accept(u, s) \/ Ready(u, s)
    BY <1>6 DEF Accept, Ready, Advance, Stage
  <1>7. CASE \E u \in Players, s \in Sessions, m \in Slots : SubmitResult(u, s, m)
    BY <1>7 DEF SubmitResult, formation
  <1>8. CASE RetireUnavailable
    BY <1>8 DEF RetireUnavailable, Terminate, formation
  <1> QED
    BY <1>1, <1>2, <1>3, <1>4, <1>5, <1>6, <1>7, <1>8 DEF Next, Tournament

\* When play has begun the teams are settled, a result stays, and a player that is out is out:
\* the withdrawal of one that lost never turns out to be the departure of one that competes.
THEOREM TournamentOutStaysOut == Spec => OutStaysOut
  <1>1. ASSUME IInv, [Next]_vars, status = "PLAYING"
        PROVE  /\ UNCHANGED <<definition, parties, status>>
               /\ results \subseteq results'
               /\ \A u \in Players : Competing(u)' => Competing(u)
    <2>1. UNCHANGED <<definition, parties, status>>
      BY <1>1, PlayKeepsFormation DEF IInv
    <2>2. CASE UNCHANGED <<definition, results>>
      BY <2>1, <2>2, SameBracket DEF formation
    <2>3. ASSUME NEW u \in Players, NEW s \in Sessions, NEW m \in Slots, SubmitResult(u, s, m)
          PROVE  results \subseteq results' /\ \A v \in Players : Competing(v)' => Competing(v)
      BY <1>1, <2>3, NoReturn DEF SubmitResult
    <2> QED
      BY <1>1, <2>1, <2>2, <2>3, OnlySubmitted
  <1>2. IInv /\ [Next]_vars =>
            [status = "PLAYING" =>
                 /\ UNCHANGED <<definition, parties, status>>
                 /\ results \subseteq results'
                 /\ \A u \in Players : Competing(u)' => Competing(u)]_vars
    BY <1>1
  <1> QED
    BY <1>2, Inductive, PTL DEF Spec, OutStaysOut
=============================================================================
