# TLA+ verification of the CodRevamped backend

The repository holds a private backend for several games, the hooks that make the
games talk to it, a launcher and asset tools. What has state, threads and failures
of its own is the IW8 backend **ReplayDW** (`src/src/backend/iw8/ReplayDW/src`): it
signs players in, keeps their accounts, finds them lobbies, relays their traffic and
pushes notifications to them. This project models that backend. Paths below are
relative to it. The directory also has a flat copy of most files beside `Core/` and
`Services/`; the copies under those two directories are the ones modelled.

## 1. Inventory

| component | state it keeps | operations | hard behaviour |
|---|---|---|---|
| Matchmaking document store (`Services/Matchmaking/matchmaking_store.cpp`) | the JSON documents of a title, `transaction.json` | recover, commit, initialize | a transaction is several renames; an exception or a crash between two of them; callers that forget to recover |
| Matchmaking tasks (`matchmaking_services.cpp`) | players' tokens, searches, lobbies, the index of current assignments | tasks 2-15 of service 145: search, create, join, cancel, disband, read and update the host document | clients act on documents they read earlier; hosts go away, log in again, migrate, hand over |
| Lobby server (`Core/lobby.cpp`) | endpoints of connections, online sessions, the delayed delivery queue | serve, push lease, route, deliver | one serving thread for each connection, one delivery worker, a publication thread; delayed pushes that are no longer true |
| Channels (`Services/Channels/`) | members of chat channels, their revisions | register, unregister, message, read | a message overtakes the join it depends on; connections of one user come and go |
| Platform (`Core/platform.cpp`, `platform_account_store.cpp`) | accounts, credential records, redo intents, sessions | login, register, update, link, look up, revoke | an update is up to five publications; names and addresses are unique over accounts |
| Relay provider (`Services/Relay/relay_provider.cpp`) | associations, anti-replay windows, counters | INIT, verify, data, ping, bind upgrade, disconnect, purge | UDP loses, repeats and reorders; sessions end under the worker's feet; a table of 256 |
| Managed tournaments (`Services/Tournaments/`) | enrolments, formations, results, terminations | register, search, accept, ready, report, leave, decline, retire | players leave half-formed teams and running rounds; results, rounds' lobbies and searches must stay derivable from each other; the catalog comes and goes |
| Presence and friends (`Services/Social/`) | subscriptions, published presence, revisions, friends | subscribe, set presence, disconnect | snapshots race pushes; a failure while a disconnection is told |
| Progression and purchases (`Services/Achievements`, `Marketplace`, `BattlePass`, `Quests`) | events, states, receipts, the inventory | report events, activate, purchase, redeem, restore | two redo journals over one inventory file; retries that must count once |
| Service dispatch (`Core/services.cpp`) | the store mutex | dispatch | turns exceptions into replies, lets deliveries go after the mutex |
| Hosted bridge (`Demonware/ReplayDwServiceBridge.cpp`) | hosted clients, pushes kept until their reply is sent | register, dispatch, publish | registers again between reply and post-reply |
| QoS, bandwidth | leases, ports | grant, test | pools at their limit |
| Mail, clans, stored objects, leaderboards, ... | one document each | one request, one document | nothing beyond the store mutex |

How they interact. `Core/lobby.cpp` owns the connections and calls
`services::dispatch` under the *store mutex*; the services read and write their
documents there, consult the *platform mutex* for sessions, and return deliveries,
which the serving thread routes after the store mutex is released, at once or
through the delivery queue. A delivery is validated again under the store mutex just
before it is written. The relay's worker asks the platform whether a session is
still alive. `server.cpp` runs a maintenance thread that retires tournaments and a
panel that starts matches, both through the store. The order of the locks is
`endpointMutex`, store mutex, platform mutex, with `onlineMutex` innermost.

What makes the parts correct: the documents of one transaction change together,
through exceptions and crashes; the index of assignments, the lobbies and the
searches tell one story; what clients are shown converges to what is true;
credentials that were changed authorize nothing; a datagram is acted on once.
The hazards this gives rise to are listed with their lines in `PROJECT.json`
("hazards"), each with the properties that would catch it, or with the reason
why no property does yet.

## 2. Modules

| module | models | instance and proofs |
|---|---|---|
| `AtomicStore` | what the store promises: transactions applied in one step | refined by `MatchmakingStore` |
| `MatchmakingStore` | journal, recovery, commit, the kinds of handlers | `MCMatchmakingStore`, `MatchmakingStoreProofs` |
| `MatchmakingLobbies` | the tasks on lobbies, searches and assignments | `MCMatchmakingLobbies`, `MatchmakingLobbiesProofs` |
| `ChannelPush` | channel membership and its delivery to clients | `MCChannelPush`, `ChannelPushProofs` |
| `AccountRegistry` | what the account store promises: one update, one step | refined by `PlatformAccounts` |
| `PlatformAccounts` | names, records, intents, sessions, grants | `MCPlatformAccounts`, `PlatformAccountsProofs` |
| `RelaySequence` | the anti-replay window's operators | used by `RelayWindow` |
| `RelayWindow` | one window over an unreliable network | `RelayProofs` |
| `RelayProvider` | the relay's associations and its worker | `MCRelayProvider`, `RelayProofs` |
| `AccountDocuments` | the documents of progression and purchases, and what a request makes of them | used by the next two |
| `AccountUpdates` | what progression and marketplace promise: one request, one step | refined by `AccountJournals` |
| `AccountJournals` | the progression intent and the purchase journal over one inventory | `MCAccountJournals`, `AccountJournalsProofs` |
| `ManagedTournaments` | one tournament, from enrolment to its last result or its termination | `MCManagedTournaments`, `ManagedTournamentsProofs` |
| `PresencePush` | published presence, subscriptions and the pushes that tell of it | `MCPresencePush`, `ServerProofs` |
| `ServerLocks` | the mutexes of the process and every path through them | `MCServerLocks`, `ServerProofs` |

The modules fit together by assumption and guarantee. `MatchmakingStore` shows that a
task that recovers first works on whole transactions; `MatchmakingLobbies` and
`ManagedTournaments` then take a task as one step. `RelayWindow` shows that a counter is acted on once;
`RelayProvider` then takes every datagram of an association as a new one. `ServerLocks`
shows that the handlers end; `ChannelPush` and `PresencePush` then take a handler as one
step and what its thread does with the result as several. The type invariant of each
module is a theorem and no property of a run.

### MatchmakingStore

State: `disk` (the published documents), `journal` (`transaction.json`), and where
the one holder of the store mutex is: `pc`, `caller`, `resume`, `todo`, `memory`,
`txn`. A document is the set of transactions it carries. `recoverPending` is
`ApplyEntry` (one rename each), `MarkApplied`, `RecoverReturn`; `commit` is
`Commit`, then recovery, then `Prepare`, then recovery. `Enter` is a handler that
recovers before it reads, `EnterDirect` one that does not: the panel's start
(`matchmakingStartWaitingMatch`) and its view,
and the index a report's identity is first looked up in. `FailInMaintenance` is the
catch block of the tournament loop, which goes on with the enrolment it has
edited. `Fail` and `Crash` fall between any two publications.

* `store_tasks` (13,773 states; two exceptions, two crashes, three transactions
  over three documents): tasks alone. Transactions are all or nothing
  (`AllOrNothing`), no handler sees half of one (`SnapshotWhole`), nothing committed
  is taken back, a prepared journal is rolled forward (`RollsForward`, under
  fairness), and the store implements `AtomicStore`.
* `store_all_handlers` (72,327 states): with every kind of handler, what still holds:
  an acknowledged transaction is in all its files, and a redo journal is retired
  only after everything in it is published.
* `store_panel_start`: a counterexample, see section 5.

`OwnCommitOnly` says that a commit that threw never takes effect later. It is proved for tasks,
and for all handlers where nothing throws. With maintenance TLC finds it false: the enrolment that
`retireUnavailableManagedTournaments` keeps after an exception carries the abandoned retirement
into the transaction of the next competition (`tournament_services.cpp:1456-1471`).

### MatchmakingLobbies

State: `players` (token and the session it was issued to), `searches`, `lobbies`,
`current` (`current-lobbies.json`), `online` (sessions with a connection), `drafts`
(the host document a client is composing and what it read for it), and as history
`told` (who was sent to a lobby). `Join` is `assignMembers`, `HostDocument` is task
15 by the host or by the member that becomes it, with `reconcileMembers`, migration
(`MayMigrate`) and handoff. An account may have several live sessions, since a login
ends none.

* `lobby_tasks` (694,635 states up to symmetry; two players, two lobbies, three
  searches, any five tasks, logins, lost connections or expiries): the documents stay
  readable, `current` tells the truth, a host searched its way in with the session it
  hosts with, everybody in a ready lobby was sent there, a host document removes
  nobody it did not see and ends no search of those who stay.

Proved besides: nobody is assigned to a disbanded lobby and the searches that bind its members
are over (`DisbandedEnds`), and neither comes back (`EndedStay`). This is said of the
searches that bind them: one that a member replaced by joining the same lobby again is not
closed by the code and stays active until it is cancelled.

Left open, so that more happens in the model than in the code: which lobby a search
finds, whether a host's lobby is open, when things expire. Not modelled: reserved
slots of guests, playlists and platforms, squads, the operator's start and its bots,
game reports, player info (task 2), hosted connections; tournaments have a module of
their own.

### ChannelPush

State: membership (`generation`, `revision`), the connections (`pc`, `endpoints`,
`writer`, `holder`, `joins`), the deliveries of a reply (`out`), those being written
(`delivering`), the queue (`pending`), and as history the client's `roster`. A write
is three steps: validate and take the endpoint's mutex, write, release; other
threads run in between. The queue is first in, first out, since every channel
delivery has the same delay of 250 ms.

* `lobby_channels` (553,529 states; a user with two connections and another with
  one, queue of two, revision limit 3, one fault, one message, four events): no
  message before its sender's join, no writer used after its connection ended, and
  once everything said to a member is delivered its clients know nobody who left and
  everybody who joined after it (`RosterAgrees`).

Proved besides: the delayed join and the message that brings it along never both write it
(`JoinWrittenOnce`).

`lost` names the members for whom the code gave up a notification: the queue was full, the
response was not written, the channel file could not be read for a departure, or for the
validation of a delivery, which `deliveryValid` takes for a refusal (`services.cpp:663`,
`DeliveryThrows`). `RosterAgrees` says nothing of them: nothing repeats what was given up. Not modelled: a second
channel (they share nothing but the document), the eviction of remembered joins at
8192, renames, hosted connections, the publication thread, clearing at a restart.

### PlatformAccounts

State: what survives (`name`, `record`, `intent`, `saved`) and what does not
(`issued`, `previous`, the request that holds the mutex). `Store::finish` is one
action for each publication: record, identity, revocation, retirement; a failed
write or a crash falls between any two.

* `account_requests` (2,009,358 states; two machines, a legacy account, three
  sessions, two versions, one failure, one crash): names differ, sessions in memory
  are the saved ones between requests, a token of older credentials
  authorizes nothing, and every request is
  atomic (`Atomic`, the refinement of `AccountRegistry`).
A name stands for all spellings that fold to it. Not modelled: machine challenges,
the renewal of a deadline, hosted account names, provisioning, the key pair.

### RelaySequence, RelayWindow, RelayProvider

`candidate` and `accept` are the code's bitmap arithmetic over a modulus and a window
that are parameters; `RelayWindow` feeds them a network that loses, repeats, delays
and reorders. `RelayProvider` is the worker: `Purge`, then a datagram
(`Handshake`, `Resend`, `Verify`, `Data`, `Ping`, `BindUpgrade`, `Disconnect`) or
`Idle`; `EndSession` and `Expire` are the environment's, `ProviderFailure` is the end
of the worker. Nothing starts the provider again: `start` is called once, at boot.

* `relay_window` (11,552 states; modulus 8, window 3, counters to 13, so the low bits
  wrap once and a half): no counter is acted on twice, and
  a fresh datagram in the window or ahead by less than half the range is admitted.
* `relay_routes` (62,752 states; three INITs of two players, two places in the table):
  the published count is exact, an INIT has one association at most, half-open
  handshakes end and no association outlives its session.

Proved besides, as what the two liveness properties rest on: an association only goes
forward (`NeverBack`), a session that ended gets none again (`NoneComesBack`), and the
table stays within its limit (`TableBounded`).

Associations that a peer disconnected can be kept for long by repeating the
disconnect: the code counts any authenticated datagram as a sign of life, so no
liveness is claimed for closed ones.

### AccountDocuments, AccountUpdates, AccountJournals

State: the four files of each account (`events.json`, the archive of receipts,
`states.json`, `inventory.json`) in `file`, the progression intent
(`event-transaction.json`) in `intent`, the purchase journal (`pending-purchase.json`) in
`journal`. Requests hold the store mutex and remember nothing, so a step is one publication
and whatever request comes next goes on from the files: an exception and a crash are the
same thing, and may fall between any two steps without an action of their own.
`RecoverWrite` and `RetireIntent` are `achievement_store::recover`, `RecoverOwner` and
`RetirePurchase` are `recoverPurchase`; `RecordEvents` is a batch of events for one owner
or for all it is attributed to, `Restore` and `Login` the progression a login settles on,
`Select` and `Deselect` missions, `PurchaseOwn`, `PurchaseGift` and `Redeem` the marketplace.

* `account_journals` (85,190 states up to symmetry; two accounts, batches and missions, a
  gift, a code, one receipt kept, at most three changes): a pending journal can always be
  finished (`Resumable`), an XP total or a completed mission is never readable without
  what it earns (`AwardsFollow`), one mission of a category is active (`OneActive`), coins
  and gifts balance between buyer and recipients (`Ledger`), and the files implement
  `AccountUpdates`, where a batch counts once for each owner though its receipt is archived
  (`AtomicUpdates`). The accounts are interchangeable and nothing here is liveness,
  so the symmetry is sound.

Left out: weapon XP, the digest that a retried batch must repeat, the repair of
entitlements when a batch is retried, Battle Pass tiers, inventory limits and consumed
items, a second category of missions, more than one event per owner in a batch. The
contexts "5800" and "iw8" are one, and a gift costs one coin for each recipient.

### PresencePush

State: the published document, `publishedOnline` and the revision of the presence, one
subscription, the connections with what their threads are at, whether their sessions are still
valid (`valid`: a session may expire, be revoked or be superseded by another login while its
connection stays, `Expire`; a request that had passed `refreshLease` by then is `late`), and for
a subscriber's connection the mutex (`holder`), whether it can be written to (`writer`) and, as history, what it was
sent (`heard` in pushes, `told` in pushes or snapshots; a snapshot may reach a client after a
newer push, so `told` is the newest). `SetPresence` and `Subscribe` are requests,
`Disconnected` is `socialDisconnected`, `Route`, `Validate` and `Write` are the delivery:
the push is validated under the store mutex inside the endpoint's. `lost` is the newest
revision whose pushes the code gave up: `presenceOf` threw, or the reply of the
publisher was not written.

* `presence_pushes` (329,825 states; two connections of the player, one of the subscriber, two
  documents, one exception, broken socket or session that ends): pushes come in the order of the
  revisions; one that is still valid holds what was published last, and says what `presenceOf`
  answers as long as the session of the connection that delivers it lasts (`PushesTrue`); and a
  subscriber that stays, with its session, hears of every update or of a
  newer one (`EveryUpdateArrives`, under fairness). `CHECK_DEADLOCK FALSE`: a connection
  connects once, so the model ends.

Left out: the second context of a title, hosted connections, friends and block lists (a
document each, nothing interleaves), two connections of the subscriber (the same
steps twice; too many states). What `EveryUpdateArrives` rests on is stated as an invariant
(`NothingForgotten`): some thread always carries the newest push to whoever has not got it.

### ManagedTournaments

State: the formation that was published and its `parties` (`tournaments/<id>.json`), `enrolled`, `results`,
`terminated`, the tournament's documents among the store's (`searches`, `index`, `lobbies`,
`current`), live sessions and tokens, and as history `agreed` (the party a player was in when it
accepted) and `slipped` (who left while the catalog was unreadable). A lobby is known by its match
`<<round, number>>`; the teams of a later match are the winners of two (`TeamsIn`, the code's
`stateWithResults`). `Search` is `startTournamentSearch` with `reserveParty`; `Accept`,
`Ready` and `Poll` end in `Advance`: play begins when everybody has accepted (`Complete`),
and the player's next match gets a lobby (`Schedule`) when everybody in it is ready and still
searching from the session that accepted. `Leave` and `Decline` break up a forming party
(`Release`), or withdraw: who still competes terminates the competition (`Terminate`), who
is out retires what its team is done with. `CancelSearch`, `Disband`, `Migrate` and
`GoElsewhere` are what matchmaking tasks do to the same documents.

* `tournament_rounds` (448,148 states up to symmetry; four players in four teams and two
  rounds or in two teams of two, two sessions, any two disturbances: leaving, declining,
  cancelled searches, disbanded or migrated lobbies, other lobbies, logins, lost connections, changes of the
  catalog): play goes on only with players that have agreed to the party they are in
  (`PlayersCommitted`), a termination leaves no search, lobby, assignment or readiness behind
  (`TerminationRetires`), and the documents stay such that the next request reads them
  (`DocumentsReadable`). Players are interchangeable and nothing is liveness, so the
  symmetry is sound.

Proved besides: the match a player is readied, sent and scored for is unambiguous, and nobody
plays on after a defeat (`OneMatchToPlay`); once play has begun the teams stay, no result is
revoked, and who is out stays out (`OutStaysOut`).

Left open: which playlist is available, which searcher hosts, whether a host handed over, what
lobbies a player joins elsewhere. Left out: tournaments without round rules (their bracket comes with the
catalog), the map policy, the pushes and their validation, expiry of searches and lobbies by the clock
(`CancelSearch` and `Disband` stand in for it), the removal of members by a host, scores
and repeated reports, several tournaments.

### ServerLocks

State: `stack`, the scopes each thread is in, and `waiting`, the threads at the
constructor of a `lock_guard`. `Begin` starts one of nine operations, `Reach` goes to the next scope or
passes some over, `Enter` takes its mutex, `Leave` ends the scope. What is nested in what is read
off the code (`InConnect` ... `InPublish`), through every call into another file. Mutexes that
are taken alone and in which nothing is called (logging, bandwidth, QoS, the hosted
bridge's own) are left out, since a leaf cannot be part of a circle.

* `server_locks` (60,322 states; two threads, one connection, which is the most
  contention): no threads wait in a circle; whoever writes to a client, or waits to, holds
  neither the store mutex nor the platform's nor the presence's; and what was begun ends
  (`OperationsEnd`, under fairness).

Proved besides: a wait is behind at most three others in a row before a thread that can go
on (`ShortWaits`), which bounds what `OperationsEnd` has to wait for.

## 3. Bounds and fairness

Three documents and three transactions give every way two write sets can meet (share
a document or not), with one more that overwrites both; two exceptions and two
crashes allow a failure during the recovery of a failure. Two lobbies and five events
are what the shortest interesting histories need (create, join, go elsewhere, come
back, update); the hijack of section 5 takes four. Two connections of one user and
one of another is the smallest setting with a reconnection and somebody to observe
it. The relay's table of two is full with one association for each player. Where the
bounds cut (events, revisions, versions), the proofs of section 4 do not:
their constants are arbitrary. Four players are the fewest with a second round, and with
two parties of two; a search for every team and, for pairs, one more lets a party that broke up form again; two
disturbances are an eliminated player and a competing one that leave, a publication that goes and comes back, or a
login and the token it is issued.

Deadlock is checked where the code goes on for ever; `CHECK_DEADLOCK FALSE` is set
where a model ends because its bound on events or counters is used up
(lobbies, tournaments, relay window, presence) or because the worker has failed for good (relay routes).

Fairness is assumed in four places. In the store, a holder of the mutex runs to its
end, and some task enters again: `lobby.cpp` polls publications through the
services every second and `server.cpp` runs maintenance. Restarting a crashed
process is not assumed. In the relay, the loop turns: `select` returns after 50 ms.
In `ServerLocks` and `PresencePush` a thread that can go on does, no mutex starves a waiter
(strong fairness of `Enter`), and a send ends: the socket has an `SO_SNDTIMEO` of three
seconds (`server.cpp:917-927`), so a client that does not read costs those and its connection. No thread
has to begin anything, and no client to ask. Accounts, journals, channels, lobbies and
tournaments make no liveness claim: their requests come from clients.

## 4. Proofs

Each `*Proofs` module proves an invariant `IInv` inductive, one lemma for each group of
actions, and derives the properties from it, for every value of the constants under
the named assumption of its module.

* `MatchmakingStoreProofs`: under any handlers, acknowledged transactions stay and the
  redo log is safe. `IInv` needs, besides the properties, what a committing
  handler's memory and the remaining `todo` hold (`AckInv`, `FinishInv`, `CopyInv`). Under
  `WholeReaders` (handlers recover, or nothing fails) transactions are atomic,
  snapshots whole, nothing is lost, no transaction enters but by its own commit
  (`OwnCommits`), and the store implements `AtomicStore`.
* `MatchmakingLobbiesProofs`: all safety properties of `lobby_tasks`. The
  strengthening `Kept` says that a search in use is bound to one lobby and never
  reused, that a token belongs to the session it was issued to (so the binding a
  migration checks is of the present session), and that a draft of the present
  revision was composed from the present members. `DisbandedIsOver` adds that the searches of
  a disbanded lobby's members are over (`SearchesOver`), which stays true since a search in
  use is never revived and a disbanded lobby never gets another member.
* `ChannelPushProofs`: types and all properties of `lobby_channels`. `IInv`
  follows an introduction from the reply through the queue to the endpoint
  (`Honest`, `Remembered`) and ties a write to the mutex that protects it (`Held`,
  `Alive`, `Busy`). `RosterAgrees` speaks of the moment when nothing is on its way any more; its
  invariant has to speak of every other moment (`AllTold`): whoever a client knows and should not,
  or should know and does not, is the actor of a valid delivery still in a reply, in the queue or
  in the hands of a thread. It holds because such a delivery is never refused, dropped or given up by a
  validation that throws without `lost`, and because an endpoint at which a thread has validated a delivery is
  locked, so that no later one is taken for written meanwhile (`Settles`, `Knows`). Stale
  deliveries are told apart since no membership is newer than the revision (`Stamped`).
  `JoinsWrittenOnce` rests on `Held` alone: between the look at what the endpoint was told and
  the write nobody else is at the endpoint.
* `PlatformAccountsProofs`: all properties of `account_requests`; that a token of older
  credentials is only found beside the intent that revokes it (`GrantsCurrent`); and that every step
  is a step of `AccountRegistry` or a stutter.
* `RelayProofs`: for the window and for the worker, no replay, the exact bitmap, the exact
  count of open associations, one association for each INIT; and that a counter near the highest
  one is rebuilt from its low bits in whatever epoch it lies, hence admitted if it was not handled
  (`AdmitsFresh`), when the window is at most half the wire's range (`WindowAssumption`). For
  the worker also `AssociationsGoForward`, `EndedStayWithout` and `TableStaysBounded`, action by
  action: a datagram changes one association and takes it forward, the purge only clears, and an
  INIT is given a route only if its session lives.
* `AccountJournalsProofs`: all properties of `account_journals`. Types and `Resumable` need
  `Apart`: the two journals never name the same file, since the requests that change an
  inventory finish both first. The refinement maps
  each file to its latest image (intent, else journal, else file); a publication of a
  journal is the abstract step and the recoveries stutter.
* `ServerProofs`, for `ServerLocks`: no circle and no send under a service mutex, for any number of
  threads and connections. The mutexes have ranks by kind, and `Ordered` says that a stack climbs
  them; of a group of waiting threads the one that holds the highest waits for a mutex
  nobody in the group holds. There are four ranks, so a chain of waits that climbs them is
  short (`WaitsBounded`). For `PresencePush`: types and both safety properties of
  `presence_pushes`, for any number of connections under `PresenceAssumption` (the publishers are
  finitely many and no subscribers). `Locked` says that who writes holds the endpoint and that the
  endpoint has heard nothing newer, which validation under the mutex gives and which gives the
  order. `Truthful` compares the newest push with what is published. Whether the player is connected
  enters by who carries a push: a publisher's connection that is registered, hence connects the
  player if its session is valid (`Trusted`), or one that is not and tells of an end, so that its
  push says offline (`Carried`). `Budget` bounds the revisions: each is paid for by a document or by the one end of
  a connection. `PresenceNotForgotten` needs besides only that a subscription that stands is of a
  registered connection (`Standing`), and has one lemma for each action, on how that action could
  forget a subscriber.
* `ManagedTournamentsProofs`: types and all properties of `tournament_rounds`, for a bracket of any
  size. `Kept` is needed because an operation finds what it has to change only through other
  documents: every active search is in somebody's index (`InAnIndex`) and every assignment is to a
  match of the bracket (`Assigned`), so a termination misses none; parties are disjoint
  (`Apart`), so releasing one resets nobody else; who is in a party was not disbanded since
  (`Together`); a formed tournament has been searched for (`Begun`), so a leave that finds the catalog
  gone terminates. A match with a lobby has its teams (`Seated`), hence a later result
  cannot change them (`Submitted`), which keeps what was derived from earlier results true.
  For `TournamentOneMatch` a team is `Expected` in its first match and in each that a match it won
  leads to, whether its adversary is known or not: at most one of these is undecided (`OneNext`),
  and while one is, the team has won the others (`NoDefeat`). `TournamentOutStaysOut` is
  the lemma `NoReturn`: a new result is of a match whose teams `Submitted` has settled, so it
  brings nobody back.
  `NoneAssumption` says that the value for "absent" is no document.

Only model-checked: liveness (`RollsForward`, `HandshakesEnd`, `SessionsTakeRoutesAlong`,
`OperationsEnd`, `EveryUpdateArrives`), which the prover does not reach, as it does not
reach ENABLED. What these rest on is proved where it is safety: that nothing undoes the progress
a fair step makes (`RedoInv` inside `RedoLogSafe`, `AssociationsGoForward`, `EndedStayWithout`),
that a wait is bounded (`WaitsBounded`), that no update loses its last carrier
(`PresenceNotForgotten`). That the final of a bracket is decided only when every match is would
need an induction over the rounds, and is not stated.

The properties named in a "Proved besides" of section 2 are in no run; each was first model-checked
on the instance of its module, by naming it in that module's .cfg: `OneMatchToPlay`,
`OutStaysOut`, `NothingForgotten`, `TableBounded`, `NeverBack`, `NoneComesBack`, `OwnCommitOnly`,
`JoinWrittenOnce`, `DisbandedEnds` and `EndedStay` hold in all of its states, `ShortWaits` too
(with three threads, in as many states as five minutes reach).

## 5. What the runs found

* `store_panel_start`: the panel's start of a match reads a lobby without recovering
  and hands its copy to `commit`, which rolls an interrupted join forward and then
  overwrites it. The player is in the index and in a search, but not in the lobby.
  (The panel's view reads without recovering too; it only shows half a transaction.)

It is a run that TLC must find violated; the passing runs and the theorems state
what holds nevertheless.

Other observations made on the way have no run, most of them since no comment or test
claims anything else. An intent of a legacy account whose name a machine has taken can never
be published (`platform.cpp:288`; `Refuse` in `PlatformAccounts`), so that each look-up of
the account fails from then on. A player that leaves a tournament while the catalog cannot be
read, for instance between the publication of a new map pool and of the catalog that names
it, only loses its enrolment (`tournament_services.cpp:2029`): the team goes on without it and no
round it is needed for starts (`slipped` in `ManagedTournaments`). Once the search of a player that accepted has ended
(cancelled, or its lobby disbanded) it cannot search again (`:1592`), so the rounds stop until
somebody leaves. The host of an earlier round cannot disband its lobby any more when a
winner's search has gone on (`matchmaking_services.cpp:1297` throws). A join
assigns every member the lobby still lists: one that had searched on to a newer lobby
is pulled back by a stranger's join (`Join` in `MatchmakingLobbies`; `IndexTruth` holds
through it). The end of a session
revises no presence (`social_services.cpp:895`): until its connection ends, `presenceOf` answers offline while
a push of the last revision may still be written and says online, and subscribers hear of it
only then (`Expire` in `PresencePush`). And `lobby.cpp:367` forbids holding `endpointMutex` while a frame is sent,
which the announcement of a new connection (`lobby.cpp:95`) does; `NoSendUnderService`
is stated for the other mutexes.

## 6. What is not modelled, and why

Sequential services that read and replace one document under the store mutex (mail,
clans, stored objects, counters, leaderboards, schedules, ...): nothing interleaves.
Formats, cryptography and the wire: the models take what they promise. The Demonware
and Battle.net front ends: connection state and fixed answers. The clients' hooks:
patches of executables that are not in the repository. Launcher, diagnostics, tools
and third-party code. `PROJECT.json` lists every component with its reason.

Three hazards have no property. The join callback of `matchmaking_services.cpp:2239` is
dropped when the host's connection is away at the moment it is delivered. `JoinsAnnounced`
is about what is sent at the commit; nothing in the code says who repeats it. The identity of a
game report is read from the index before the store recovers (`matchmaking_services.cpp:2162`):
`SnapshotWhole` is for handlers that recover first, and here what was read is compared with the
recovered lobby afterwards. The enrolment that maintenance keeps after a failed commit
(`tournament_services.cpp:1459`) is modelled (`FailInMaintenance`), but what it breaks
(`OwnCommitOnly`) is claimed nowhere, and the properties that hold do not show it.

## 7. What would come next

1. Tournaments: expiry by the clock; the pushes and their validation.
2. Proofs: an abstract bracket (teams, results, who plays next) that the tournament's documents
   implement; an abstract roster that the pushes of a channel implement.
3. The hosted bridge's pending replies, QoS leases and bandwidth ports: small modules.
