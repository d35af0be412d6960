------------------------- MODULE ManagedTournaments -------------------------
(***************************************************************************)
(* One managed tournament: the enrolments, the formation of its teams, the *)
(* rounds and their lobbies, the results and the termination, in           *)
(* Services/Tournaments/tournament_services.cpp, with what the tasks of    *)
(* Services/Matchmaking/matchmaking_services.cpp do to its searches and    *)
(* lobbies.                                                                *)
(*                                                                         *)
(* A request runs under the store's mutex and is one step; a lobby is      *)
(* known by the match it is for.  The catalog that publishes the           *)
(* tournament is a file of the operator's, which is sometimes unreadable   *)
(* and in the end gone or expired.  Whether a playlist is available and    *)
(* whose server a round is played on are left open.                        *)
(***************************************************************************)
EXTENDS Integers, Sequences, FiniteSets

CONSTANTS
    Players, Sessions,
    None, Elsewhere,
    Definitions,    \* the formations that may be published: team size, teams and rounds
    MaxSearches,    \* bound: searches that are ever started, for each formation
    MaxEvents       \* bound: whatever keeps the tournament from going on

ASSUME TournamentAssumption ==
    /\ IsFiniteSet(Players) /\ Sessions # {}
    /\ None \notin Players \cup Sessions \cup Nat /\ Elsewhere # None
    /\ \A x \in {None, Elsewhere} : x \notin Nat \X Nat
    /\ \A d \in Definitions :
           /\ d.size \in Nat \ {0} /\ d.rounds \in Nat \ {0}
           /\ d.teams \in Nat \ {0} /\ d.teams = 2 ^ d.rounds
    /\ MaxSearches \in [Definitions -> Nat] /\ MaxEvents \in Nat

VARIABLES
    definition,     \* the formation that was published
    publication,    \* what the catalog says: "open", "unreadable" or "gone"
    enrolled,       \* tournament-enrollments.json
    parties, status,\* tournaments/<id>.json: the parties of the teams; FORMING or PLAYING
    results,        \* results/<id>.json: a journal of matches and their winners
    terminated,     \* tournament-terminations/<id>.json exists
    searches,       \* the tournament's documents in searches/
    index,          \* tournament-searches.json: the search of each player
    lobbies,        \* the tournament's documents in lobbies/
    current,        \* current-lobbies.json
    online, token,  \* live sessions; each player's token: its session and its number
    agreed,         \* history: the party a player was in when it accepted
    slipped,        \* history: who left while the catalog was unreadable
    events

formation == <<definition, parties, status>>
matchmaking == <<searches, index, lobbies, current>>
sessions == <<online, token>>
history == <<agreed, slipped>>
vars == <<formation, publication, enrolled, results, terminated, matchmaking, sessions, history,
          events>>

Happens == events < MaxEvents /\ events' = events + 1

-----------------------------------------------------------------------------
(* The bracket *)

MatchesOf == [d \in Definitions |->
    UNION {{r} \X (0 .. d.teams \div 2 ^ (r + 1) - 1) : r \in 0 .. d.rounds - 1}]
Slots == UNION {MatchesOf[d] : d \in Definitions}
Matches == MatchesOf[definition]
Teams == 0 .. definition.teams - 1
Final == <<definition.rounds - 1, 0>>

NoParty == [team |-> 0, members |-> {}]
Members(t) == UNION {parties[o].members : o \in {o \in Players : parties[o].team = t}}
Formed == UNION {parties[o].members : o \in Players}
PartyOf(u) == UNION {parties[o].members : o \in {o \in Players : u \in parties[o].members}}
TeamOf(u) == CHOOSE t \in Teams : u \in Members(t)

Before(m) == {<<m[1] - 1, 2 * m[2]>>, <<m[1] - 1, 2 * m[2] + 1>>}

Decided(m) == \E w \in Teams : <<m, w>> \in results

\* stateWithResults: the winners of two matches meet in the next round.
TeamsIn(m) ==
    IF m[1] = 0 THEN {2 * m[2], 2 * m[2] + 1}
    ELSE IF \A b \in Before(m) : Decided(b)
    THEN {w \in Teams : \E b \in Before(m) : <<b, w>> \in results} ELSE {}
PlayersIn(m) == UNION {Members(t) : t \in TeamsIn(m)}

\* The match a player is to play: its first that is not decided.
Awaits(u, m) == m \in Matches /\ ~Decided(m) /\ u \in PlayersIn(m)

\* participantStillCompeting
Competing(u) ==
    /\ status = "PLAYING" /\ u \in Formed
    /\ \A m \in Matches : u \in PlayersIn(m) /\ Decided(m) => <<m, TeamOf(u)>> \in results
    /\ ~Decided(Final)

-----------------------------------------------------------------------------
(* What a request finds *)

Entry == [accepted |-> None, ready |-> None, disbanded |-> FALSE]
Enrolled(u) == enrolled[u] # None
Accepted(u) == Enrolled(u) /\ enrolled[u].accepted # None

Published == publication = "open" /\ ~terminated
PublishedTo(u) == Published /\ u \in Formed

Started == searches # <<>>

Live(id) == id # None /\ searches[id].active
InSession(u, s) == <<u, s>> \in online
Present(u) == \E s \in Sessions : InSession(u, s)

\* A player's token is good while the session it was issued to is live.
HasToken(u) == InSession(u, token[u][1])

\* formationSearch: the search binds every member to the token it was started with.
Searching(u) ==
    /\ Live(index[u])
    /\ \A v \in searches[index[u]].members :
           index[v] = index[u] /\ searches[index[u]].tokens[v] = token[v] /\ HasToken(v)

-----------------------------------------------------------------------------
(* Registration and the formation of the teams *)

Register(u) ==
    /\ Present(u) /\ Published /\ ~Enrolled(u)
    /\ status = "PLAYING" => u \in Formed
    /\ enrolled' = [enrolled EXCEPT ![u] = Entry]
    /\ UNCHANGED <<formation, publication, results, terminated, matchmaking, sessions, history, events>>

Room(t, party) == Cardinality(Members(t)) + Cardinality(party) <= definition.size

\* reserveParty: the party is what it was, or gets a place in the first team with room.
Reserved(u, party) ==
    IF parties[u].members = party THEN {parties[u]}
    ELSE IF parties[u].members # {} \/ party \cap Formed # {} \/ status # "FORMING" THEN {}
    ELSE {[team |-> t, members |-> party] : t \in {t \in Teams :
              Room(t, party) /\ \A earlier \in 0 .. t - 1 : ~Room(earlier, party)}}

\* The search the request would start exists already.
SameSearch(u, party) ==
    /\ parties[u].members = party
    /\ Searching(u)
    /\ searches[index[u]].owner = u /\ searches[index[u]].members = party

\* The searches, some of which end.
Ended(ids) == [id \in DOMAIN searches |->
    IF id \in ids THEN [searches[id] EXCEPT !.active = FALSE] ELSE searches[id]]

\* startTournamentSearch.  It ends the searches its members are in.
Search(u, party) ==
    /\ u \in party /\ Cardinality(party) <= definition.size
    /\ Len(searches) < MaxSearches[definition]
    /\ \A v \in party : HasToken(v)
    /\ Published /\ \A v \in party : Enrolled(v)
    /\ ~SameSearch(u, party) /\ ~Accepted(u)
    /\ \E place \in Reserved(u, party) : parties' = [parties EXCEPT ![u] = place]
    /\ LET id == Len(searches) + 1
           obsolete == {index[v] : v \in party}
       IN /\ searches' = Append(Ended(obsolete), [owner |-> u, members |-> party, lobby |-> None,
                 tokens |-> token, active |-> TRUE])
          /\ index' = [v \in Players |-> IF v \in party THEN id ELSE index[v]]
    /\ enrolled' = [v \in Players |->
           IF v \in party THEN [enrolled[v] EXCEPT !.disbanded = FALSE] ELSE enrolled[v]]
    /\ UNCHANGED <<definition, publication, status, results, terminated, lobbies, current,
                   sessions, history, events>>

\* Broken variants: only who leaves loses its acceptance, or everybody keeps it.
ReleasedAlone(u, v) == v = u
Released(u, v) == v \in PartyOf(u)

\* releaseFormingParty, with the erasure of the player that leaves.
Release(u) ==
    /\ status = "FORMING"
    /\ parties' = [o \in Players |-> IF u \in parties[o].members THEN NoParty ELSE parties[o]]
    /\ enrolled' = [v \in Players |->
           IF v = u THEN None
           ELSE IF Released(u, v) /\ Enrolled(v)
           THEN [accepted |-> None, ready |-> None, disbanded |-> TRUE] ELSE enrolled[v]]
    /\ UNCHANGED <<definition, status, terminated, matchmaking>>

-----------------------------------------------------------------------------
(* Rounds *)

\* formationAccepted, of the entries a request is about to save.
Complete(entries) ==
    /\ \A t \in Teams : Cardinality(Members(t)) = definition.size
    /\ \A u \in Formed :
           entries[u] # None /\ entries[u].accepted # None /\ InSession(u, entries[u].accepted)

Stage(entries) == IF Complete(entries) THEN "PLAYING" ELSE status

\* scheduleRound and prepareTournamentRoundLobby: what must hold of each player.
MayPlay(v, m, entries) ==
    /\ entries[v] # None /\ entries[v].ready = m
    /\ entries[v].accepted # None /\ InSession(v, entries[v].accepted)
    /\ Searching(v) /\ token[v][1] = entries[v].accepted
    /\ \A w \in searches[index[v]].members : entries[w] # None /\ w \in Members(TeamOf(v))
    /\ current[v] # Elsewhere

Schedule(m, entries) ==
    LET players == PlayersIn(m)
        ids == {index[v] : v \in players}
    IN /\ \A v \in players : MayPlay(v, m, entries)
       /\ \E id \in ids :
              lobbies' = [lobbies EXCEPT ![m] =
                  [members |-> players, teams |-> TeamsIn(m), searches |-> ids, live |-> TRUE,
                   owner |-> searches[id].owner,
                   session |-> token[searches[id].owner][1]]]
       /\ searches' = [id \in DOMAIN searches |->
              IF id \in ids THEN [searches[id] EXCEPT !.lobby = m] ELSE searches[id]]
       /\ current' = [v \in Players |-> IF v \in players THEN m ELSE current[v]]
       /\ UNCHANGED index

\* What follows from a request of a player: play begins, its match gets a lobby.
Advance(u, entries) ==
    /\ status' = Stage(entries)
    /\ \/ UNCHANGED matchmaking
       \/ /\ status' = "PLAYING"
          /\ \E m \in Matches : Awaits(u, m) /\ lobbies[m] = None /\ Schedule(m, entries)
    /\ UNCHANGED <<definition, publication, parties, results, terminated, sessions, slipped,
                   events>>

\* Tasks 23 and 28.
Accept(u, s) ==
    /\ InSession(u, s) /\ Enrolled(u) /\ PublishedTo(u)
    /\ enrolled[u].accepted # s
    /\ enrolled' = [enrolled EXCEPT ![u].accepted = s]
    /\ agreed' = [agreed EXCEPT ![u] = PartyOf(u)]
    /\ Advance(u, enrolled')

\* Task 19.
Ready(u, s) ==
    /\ InSession(u, s) /\ PublishedTo(u)
    /\ status = "PLAYING" /\ Accepted(u) /\ enrolled[u].accepted = s
    /\ \E m \in Matches : Awaits(u, m) /\ enrolled' = [enrolled EXCEPT ![u].ready = m]
    /\ UNCHANGED agreed
    /\ Advance(u, enrolled')

\* currentTournamentDelivery, which the publication thread calls for who is online.
Poll(u) ==
    /\ Present(u) /\ Enrolled(u) /\ PublishedTo(u)
    /\ Advance(u, enrolled)
    /\ UNCHANGED <<enrolled, agreed>>

\* A broken variant: a match that is decided is decided again.
UndecidedOrNot(m) == TRUE
Undecided(m) == ~Decided(m)

\* submitResult, of the host of the match's lobby.
SubmitResult(u, s, m) ==
    /\ InSession(u, s) /\ Accepted(u) /\ PublishedTo(u)
    /\ status = "PLAYING"
    /\ lobbies[m] # None /\ m \in Matches /\ Undecided(m)
    /\ lobbies[m].live /\ lobbies[m].owner = u /\ lobbies[m].session = s
    /\ u \in PlayersIn(m) /\ PlayersIn(m) \subseteq lobbies[m].members
    /\ \E w \in Teams : w \in TeamsIn(m) /\ results' = results \cup {<<m, w>>}
    /\ UNCHANGED <<formation, publication, enrolled, terminated, matchmaking, sessions, history,
                   events>>

-----------------------------------------------------------------------------
(* Withdrawal and termination *)

\* retireTournamentAssignments: the lobbies of some matches, and the searches of departing
\* players that are bound to them or in the index.
Bound(matches, departing) ==
    {id \in DOMAIN searches : \E m \in matches : lobbies[m] # None /\ id \in lobbies[m].searches
        /\ searches[id].members \cap lobbies[m].members \cap departing # {}}
\* A broken variant: of the players without a place in a team nothing is retired.
IndexedFormed(departing) == {index[v] : v \in departing \cap Formed}
Indexed(departing) == {index[v] : v \in departing}

Retire(matches, departing) ==
    LET ended == Bound(matches, departing) \cup Indexed(departing)
    IN /\ lobbies' = [m \in Slots |->
              IF m \in matches /\ lobbies[m] # None
              THEN [lobbies[m] EXCEPT !.live = FALSE] ELSE lobbies[m]]
       /\ searches' = Ended(ended)
       /\ index' = [v \in Players |-> IF index[v] \in ended THEN None ELSE index[v]]
       /\ current' = [v \in Players |-> IF current[v] \in matches THEN None ELSE current[v]]

\* The termination is published with what it retires; the registrations stay.
Terminate(leaving) ==
    /\ Retire(Matches, Players)
    /\ terminated' = TRUE
    /\ enrolled' = [v \in Players |->
           IF v \in leaving THEN None
           ELSE IF Enrolled(v) THEN [enrolled[v] EXCEPT !.ready = None] ELSE None]
    /\ UNCHANGED formation

\* retireUnavailableManagedTournament, by the maintenance or any request that finds it so.
MustRetire == publication = "gone" /\ ~terminated /\ Started
RetireUnavailable ==
    /\ MustRetire
    /\ Terminate({})
    /\ UNCHANGED <<publication, results, sessions, history, events>>

\* The matches a team has played.
Played(t) == {m \in Matches : Decided(m) /\ t \in TeamsIn(m)}

\* withdrawManagedParticipant: who still competes ends it for everybody.
Withdraw(u) ==
    /\ status = "PLAYING"
    /\ \/ /\ Competing(u)
          /\ Terminate({u})
       \/ /\ ~Competing(u)
          /\ IF ~Decided(Final) THEN Retire(Played(TeamOf(u)), Members(TeamOf(u)))
             ELSE Retire(Matches, Players)
          /\ enrolled' = [enrolled EXCEPT ![u] = None]
          /\ UNCHANGED <<formation, terminated>>

Erase(u) ==
    /\ enrolled' = [enrolled EXCEPT ![u] = None]
    /\ UNCHANGED <<formation, terminated, matchmaking>>

\* Task 23 without acceptance.
Decline(u) ==
    /\ Present(u) /\ Enrolled(u) /\ PublishedTo(u)
    /\ Happens
    /\ Withdraw(u) \/ Release(u)
    /\ UNCHANGED <<publication, results, sessions, history>>

\* Task 22, which succeeds whatever the catalog is like.
Leave(u) ==
    /\ Present(u) /\ Enrolled(u)
    /\ Happens
    /\ IF PublishedTo(u) THEN Withdraw(u) \/ Release(u)
       ELSE IF MustRetire THEN Terminate({u})
       ELSE Erase(u)
    /\ slipped' = IF publication = "unreadable" THEN slipped \cup {u} ELSE slipped
    /\ UNCHANGED <<publication, results, sessions, agreed>>

-----------------------------------------------------------------------------
(* The matchmaking tasks and the rest of the world *)

others == <<formation, publication, enrolled, results, terminated, history>>

\* Tasks 8 and 9.
CancelSearch(id) ==
    /\ searches[id].active /\ Present(searches[id].owner)
    /\ Happens
    /\ searches' = Ended({id})
    /\ UNCHANGED <<others, index, lobbies, current, sessions>>

\* Task 10: refused when a member's search has gone on to another lobby.
Disband(m) ==
    /\ lobbies[m] # None /\ Present(lobbies[m].owner)
    /\ \A id \in lobbies[m].searches : searches[id].lobby = m
    /\ Happens
    /\ lobbies' = [lobbies EXCEPT ![m].live = FALSE]
    /\ searches' = Ended(lobbies[m].searches)
    /\ current' = [v \in Players |->
           IF v \in lobbies[m].members /\ current[v] = m THEN None ELSE current[v]]
    /\ UNCHANGED <<others, index, sessions>>

\* Task 15 by a member whose host is away or has handed over.
Migrate(m, u) ==
    /\ lobbies[m] # None /\ lobbies[m].live /\ u \in lobbies[m].members \ {lobbies[m].owner}
    /\ current[u] = m /\ HasToken(u)
    /\ \E id \in lobbies[m].searches :
           /\ searches[id].active /\ searches[id].lobby = m
           /\ u \in searches[id].members /\ searches[id].tokens[u] = token[u]
    /\ Happens
    /\ lobbies' = [lobbies EXCEPT ![m] = [@ EXCEPT !.owner = u, !.session = token[u][1]]]
    /\ UNCHANGED <<others, searches, index, current, sessions>>

\* An ordinary search of the player finds a lobby, and this lobby ends.
GoElsewhere(u) ==
    /\ current[u] # Elsewhere /\ HasToken(u)
    /\ Happens
    /\ current' = [current EXCEPT ![u] = Elsewhere]
    /\ UNCHANGED <<others, searches, index, lobbies, sessions>>
ComeBack(u) ==
    /\ current[u] = Elsewhere
    /\ current' = [current EXCEPT ![u] = None]
    /\ UNCHANGED <<others, searches, index, lobbies, sessions, events>>

Connect(u, s) ==
    /\ ~InSession(u, s)
    /\ Happens
    /\ online' = online \cup {<<u, s>>}
    /\ UNCHANGED <<others, matchmaking, token>>
Disconnect(u, s) ==
    /\ InSession(u, s)
    /\ Happens
    /\ online' = online \ {<<u, s>>}
    /\ UNCHANGED <<others, matchmaking, token>>

\* Task 3: a token of another session is replaced.
IssueToken(u, s) ==
    /\ InSession(u, s) /\ token[u][1] # s
    /\ Happens
    /\ token' = [token EXCEPT ![u] = <<s, @[2] + 1>>]
    /\ UNCHANGED <<others, matchmaking, online>>

Publish(state) ==
    /\ publication # state
    /\ Happens
    /\ publication' = state
    /\ UNCHANGED <<formation, enrolled, results, terminated, matchmaking, sessions, history>>

-----------------------------------------------------------------------------
\* Everyone is online in one session, with a token, and the tournament has been published.
First == CHOOSE s \in Sessions : TRUE

Init ==
    /\ definition \in Definitions
    /\ publication = "open"
    /\ enrolled = [u \in Players |-> None]
    /\ parties = [u \in Players |-> NoParty] /\ status = "FORMING"
    /\ results = {} /\ terminated = FALSE
    /\ searches = <<>> /\ index = [u \in Players |-> None]
    /\ lobbies = [m \in Slots |-> None] /\ current = [u \in Players |-> None]
    /\ online = Players \X {First} /\ token = [u \in Players |-> <<First, 0>>]
    /\ agreed = [u \in Players |-> {}] /\ slipped = {} /\ events = 0

Tournament ==
    \/ \E u \in Players : Register(u) \/ Poll(u) \/ Decline(u) \/ Leave(u)
    \/ \E u \in Players, party \in SUBSET Players : Search(u, party)
    \/ \E u \in Players, s \in Sessions : Accept(u, s) \/ Ready(u, s)
    \/ \E u \in Players, s \in Sessions, m \in Slots : SubmitResult(u, s, m)
    \/ RetireUnavailable

Matchmaking ==
    \/ \E id \in DOMAIN searches : CancelSearch(id)
    \/ \E m \in Slots : Disband(m) \/ \E u \in Players : Migrate(m, u)
    \/ \E u \in Players : GoElsewhere(u) \/ ComeBack(u)

World ==
    \/ \E u \in Players, s \in Sessions : Connect(u, s) \/ Disconnect(u, s) \/ IssueToken(u, s)
    \/ \E state \in {"open", "unreadable", "gone"} : Publish(state)

Next == Tournament \/ Matchmaking \/ World

Spec == Init /\ [][Next]_vars

-----------------------------------------------------------------------------
(* Properties *)

Entries == [accepted : Sessions \cup {None}, ready : Slots \cup {None}, disbanded : BOOLEAN]
Ids == DOMAIN searches
Tokens == Sessions \X (0 .. MaxEvents)
Searches == [owner : Players, members : SUBSET Players, lobby : Slots \cup {None},
             tokens : [Players -> Tokens], active : BOOLEAN]
Lobbies == [members : SUBSET Players, teams : SUBSET Nat, searches : SUBSET Nat,
            live : BOOLEAN, owner : Players, session : Sessions]

ASSUME NoneAssumption == None \notin Entries /\ None \notin Lobbies

TypeOK ==
    /\ definition \in Definitions /\ publication \in {"open", "unreadable", "gone"}
    /\ enrolled \in [Players -> Entries \cup {None}]
    /\ parties \in [Players -> [team : Teams, members : SUBSET Players]]
    /\ status \in {"FORMING", "PLAYING"} /\ terminated \in BOOLEAN
    /\ results \subseteq Slots \X Teams
    /\ searches \in Seq(Searches) /\ Len(searches) <= MaxSearches[definition]
    /\ index \in [Players -> Ids \cup {None}]
    /\ lobbies \in [Slots -> Lobbies \cup {None}]
    /\ \A m \in Slots : lobbies[m] # None => lobbies[m].searches \subseteq Ids
    /\ current \in [Players -> Slots \cup {None, Elsewhere}]
    /\ online \subseteq Players \X Sessions /\ token \in [Players -> Tokens]
    /\ agreed \in [Players -> SUBSET Players] /\ slipped \subseteq Players
    /\ events \in 0 .. MaxEvents

\* Play begins, and goes on, only with players that have agreed to the party they are in:
\* a party that is broken up takes everybody's acceptance along (tournament_services.cpp:638:
\* "A broken formation party cannot retain acceptance for a changed assignment"), and nobody
\* leaves a match behind, except while the catalog cannot be read.
PlayersCommitted ==
    /\ \A u \in Players : Accepted(u) => u \in Formed /\ PartyOf(u) = agreed[u]
    /\ status = "PLAYING" /\ ~terminated =>
           \A u \in Formed \ slipped : Competing(u) => Accepted(u)

\* Once the tournament is terminated, nothing it brought about goes on: no lobby, no search,
\* no assignment and nobody's readiness, whatever players and the publication do afterwards
\* (tournament_services.cpp:1986: "never a half-committed cancellation whose active lobbies
\* could otherwise survive the leave").
TerminationRetires ==
    terminated =>
        /\ \A m \in Slots : lobbies[m] # None => ~lobbies[m].live
        /\ \A id \in DOMAIN searches : ~searches[id].active
        /\ \A u \in Players : index[u] = None /\ current[u] \in {None, Elsewhere}
        /\ \A u \in Players : Enrolled(u) => enrolled[u].ready = None

\* Every document a request reads can be read again: a match has one result, which
\* is derivable from the formation, a lobby's teams are the winners that meet in it, a team
\* that plays is full and nobody has accepted a formation that was disbanded.  results,
\* stateWithResults, validateFormation and validateEnrollments refuse anything else, and with
\* it every request for the tournament.
DocumentsReadable ==
    /\ \A e \in results : lobbies[e[1]] # None /\ e[2] \in TeamsIn(e[1])
    /\ \A e, f \in results : e[1] = f[1] => e = f
    /\ \A m \in Slots : lobbies[m] # None =>
           m \in Matches /\ status = "PLAYING" /\ lobbies[m].teams = TeamsIn(m)
    /\ status = "PLAYING" => \A t \in Teams : Cardinality(Members(t)) = definition.size
    /\ \A u \in Players : Accepted(u) => ~enrolled[u].disbanded

\* The first undecided match of a player is its only one, and it has won every other it had a
\* part in: the match the readiness, the lobbies and the results are for
\* (tournament_services.cpp takes the first that is undecided) is never ambiguous, and nobody
\* plays on after a defeat.
OneMatchToPlay ==
    \A u \in Players, m \in Matches : Awaits(u, m) =>
        /\ \A n \in Matches : Awaits(u, n) => n = m
        /\ \A n \in Matches : Decided(n) /\ u \in PlayersIn(n) => <<n, TeamOf(u)>> \in results

\* From when play begins, the teams are what they are, no result is revoked and who no longer
\* competes never competes again: the decision of withdrawManagedParticipant, whether a
\* departure ends the tournament for everybody, cannot be overturned by what follows it.
OutStaysOut ==
    [][status = "PLAYING" =>
           /\ UNCHANGED <<definition, parties, status>>
           /\ results \subseteq results'
           /\ \A u \in Players : Competing(u)' => Competing(u)]_vars
=============================================================================
