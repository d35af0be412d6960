---------------------------- MODULE PresencePush ----------------------------
(***************************************************************************)
(* The presence one player publishes and the pushes that tell another of   *)
(* it: Services/Social/social_services.cpp with the end and the delivery   *)
(* of Core/lobby.cpp.  Each connection has a thread, which sends its own   *)
(* replies and then writes the pushes that follow from them to the         *)
(* connections of the subscriber.  A connection connects once: whoever     *)
(* comes back has another one.  The session it was authorized with may     *)
(* expire, be revoked or be superseded by another login while it stays.    *)
(*                                                                         *)
(* A handler runs under the store's mutex and is one step, as is the       *)
(* selection of the connections under endpointMutex.  A thread that        *)
(* delivers takes the mutex of the connection, has the store validate the  *)
(* push and writes it before it lets go of the mutex.                      *)
(***************************************************************************)
EXTENDS Integers, FiniteSets

CONSTANTS
    Publishers,     \* the connections of the player whose presence is published
    Subscribers,    \* the connections of the player that subscribes to it
    Nobody,         \* no connection
    MaxUpdates,     \* bound: documents published
    MaxFailures     \* bound: exceptions, broken sockets and sessions that end

Connections == Publishers \cup Subscribers

ASSUME PresenceAssumption ==
    /\ IsFiniteSet(Publishers) /\ Publishers \cap Subscribers = {}
    /\ Nobody \notin Connections
    /\ MaxUpdates \in Nat /\ MaxFailures \in Nat

VARIABLES
    document,       \* the file: whether it says online, and how many were written before
    publishedOnline,\* the publication belongs to a session that is still there
    revision,       \* presenceRevisions; 0 is no entry
    subscribed,     \* the subscriber's entry in subscriptions names the player
    endpoints,      \* the connections that are registered
    valid,          \* platform::valid of their sessions
    stage,          \* what the thread of a connection is at
    reply,          \* the revision of the snapshot its reply holds; 0 is no snapshot
    push,           \* the push it delivers
    targets,        \* the connections it has still to write the push to
    writing,        \* the one it writes it to
    holder,         \* the thread in the endpoint mutex of a subscriber's connection
    writer,         \* the subscriber's connections that are written to
    heard,          \* the revision of the last push a connection was sent
    told,           \* the newest revision a connection was sent in a push or a snapshot
    follows,        \* the connections whose own subscription stands
    lost,           \* the newest revision whose pushes were given up
    failures

store == <<document, publishedOnline, revision, subscribed>>
work == <<reply, push, targets, writing>>
clients == <<writer, heard, told, follows>>
lease == <<endpoints, valid>>
presenceVars == <<store, lease, stage, work, holder, clients, lost, failures>>

-----------------------------------------------------------------------------
NoPush == [revision |-> 0, online |-> FALSE, document |-> 0]

\* lobby::online: a session that ended without its connection does not count.
Connected == endpoints \cap Publishers \cap valid # {}

\* presenceOf.
Presence(file, published) ==
    [online |-> file.online /\ published /\ Connected, document |-> file.id]

Push(next, file, published) ==
    [revision |-> next, online |-> Presence(file, published).online, document |-> file.id]

\* presenceNotifications: nothing when nobody is subscribed.
Notified(next, file, published) == IF subscribed THEN Push(next, file, published) ELSE NoPush

\* A broken variant: a presence keeps the revision of the first one.
RevisedOnce == 1
Revised == revision + 1

\* The end of a connection holds endpointMutex until the services know of it.
EndpointsFree == \A c \in Connections : stage[c] # "leaving"

GivenUp(r) == IF r = revision THEN r ELSE lost

Fails == failures < MaxFailures /\ failures' = failures + 1

Rest(c) == IF c \in endpoints THEN "idle" ELSE "gone"

-----------------------------------------------------------------------------
(* Connections and requests *)

Connect(c) ==
    /\ stage[c] = "away" /\ EndpointsFree
    /\ endpoints' = endpoints \cup {c}
    /\ valid' = valid \cup {c}
    /\ stage' = [stage EXCEPT ![c] = "idle"]
    /\ writer' = writer \cup ({c} \cap Subscribers)
    /\ UNCHANGED <<store, work, holder, heard, told, follows, lost, failures>>

\* The session ends, and is never valid again.  The thread may have passed refreshLease and
\* be waiting for the store's mutex.
Expire(c) ==
    /\ c \in endpoints \cap valid /\ Fails
    /\ valid' = valid \ {c}
    /\ \/ stage[c] = "idle" /\ stage' = [stage EXCEPT ![c] = "late"]
       \/ UNCHANGED stage
    /\ UNCHANGED <<store, endpoints, work, holder, clients, lost>>

\* A request is dispatched when the session was valid as it was taken.
Dispatched(c) == (stage[c] = "idle" /\ c \in valid) \/ stage[c] = "late"

\* set_user_presence.  What it tells the others is read back from the document it saved.
SetPresence(c, online) ==
    /\ Dispatched(c) /\ document.id < MaxUpdates
    /\ document' = [online |-> online, id |-> document.id + 1]
    /\ publishedOnline' = online
    /\ revision' = Revised
    /\ push' = [push EXCEPT ![c] = Notified(Revised, document', online)]
    /\ stage' = [stage EXCEPT ![c] = "reply"]
    /\ UNCHANGED <<subscribed, lease, reply, targets, writing, holder, clients,
                   lost, failures>>

\* presenceOf throws for its own document or name: the reply is an error without pushes.
SetPresenceThrows(c, online) ==
    /\ Dispatched(c) /\ document.id < MaxUpdates
    /\ Fails
    /\ document' = [online |-> online, id |-> document.id + 1]
    /\ publishedOnline' = online
    /\ revision' = Revised
    /\ lost' = Revised
    /\ stage' = [stage EXCEPT ![c] = "reply"]
    /\ UNCHANGED <<subscribed, lease, work, holder, clients>>

Subscribe(c) ==
    /\ Dispatched(c)
    /\ subscribed' = TRUE
    /\ follows' = follows \cup {c}
    /\ reply' = [reply EXCEPT ![c] = revision]
    /\ stage' = [stage EXCEPT ![c] = "reply"]
    /\ UNCHANGED <<document, publishedOnline, revision, lease, push, targets, writing,
                   holder, writer, heard, told, lost, failures>>

Unsubscribe(c) ==
    /\ Dispatched(c) /\ subscribed
    /\ subscribed' = FALSE
    /\ follows' = {}
    /\ stage' = [stage EXCEPT ![c] = "reply"]
    /\ UNCHANGED <<document, publishedOnline, revision, lease, work, holder,
                   writer, heard, told, lost, failures>>

Newest(a, b) == IF a > b THEN a ELSE b

Reply(c) ==
    /\ stage[c] = "reply"
    /\ told' = [told EXCEPT ![c] = Newest(@, reply[c])]
    /\ reply' = [reply EXCEPT ![c] = 0]
    /\ stage' = [stage EXCEPT ![c] = IF push[c] = NoPush THEN "idle" ELSE "route"]
    /\ UNCHANGED <<store, lease, push, targets, writing, holder, writer, heard, follows,
                   lost, failures>>

-----------------------------------------------------------------------------
(* The end of a connection *)

\* The thread leaves serve: its client is gone, or does not take the reply, whose pushes
\* are then given up.
LeaveServe(c) ==
    /\ stage[c] \in {"idle", "late", "reply"} /\ EndpointsFree
    /\ IF stage[c] = "reply" THEN Fails ELSE UNCHANGED failures
    /\ lost' = GivenUp(push[c].revision)
    /\ reply' = [reply EXCEPT ![c] = 0]
    /\ push' = [push EXCEPT ![c] = NoPush]
    /\ endpoints' = endpoints \ {c}
    /\ follows' = follows \ {c}
    /\ stage' = [stage EXCEPT ![c] = "leaving"]
    /\ UNCHANGED <<store, valid, targets, writing, holder, writer, heard, told>>

\* services::disconnected: socialDisconnected.
Disconnected(c) ==
    IF c \in Subscribers
    THEN /\ subscribed' = FALSE /\ follows' = {}
         /\ UNCHANGED <<publishedOnline, revision, push, lost, failures>>
    ELSE /\ publishedOnline' = FALSE
         /\ UNCHANGED <<subscribed, follows>>
         /\ \/ /\ ~publishedOnline
               /\ UNCHANGED <<revision, push, lost, failures>>
            \/ /\ publishedOnline
               /\ revision' = Revised
               /\ push' = [push EXCEPT ![c] = Notified(Revised, document, FALSE)]
               /\ UNCHANGED <<lost, failures>>
            \/ /\ publishedOnline /\ Fails      \* presenceOf throws
               /\ lost' = revision
               /\ UNCHANGED <<revision, push>>

Peers(c) == IF c \in Publishers THEN Publishers ELSE Subscribers

\* The services are told when the player has no other connection of a valid session.
Disconnect(c) ==
    /\ stage[c] = "leaving"
    /\ IF endpoints \cap Peers(c) \cap valid = {}
       THEN Disconnected(c)
       ELSE UNCHANGED <<publishedOnline, revision, subscribed, push, follows, lost, failures>>
    /\ stage' = [stage EXCEPT ![c] = "retire"]
    /\ UNCHANGED <<document, lease, reply, targets, writing, holder, writer, heard, told>>

\* The writer of the connection is taken away, and its notifications are routed.
Retire(c) ==
    /\ stage[c] = "retire" /\ holder[c] = Nobody
    /\ writer' = writer \ {c}
    /\ stage' = [stage EXCEPT ![c] = IF push[c] = NoPush THEN "gone" ELSE "route"]
    /\ UNCHANGED <<store, lease, work, holder, heard, told, follows, lost, failures>>

-----------------------------------------------------------------------------
(* Delivery *)

\* A broken variant: a subscriber that is already being written to is passed over.
RouteFree(c) ==
    /\ stage[c] = "route" /\ EndpointsFree
    /\ targets' = [targets EXCEPT ![c] =
           {s \in endpoints \cap Subscribers : holder[s] = Nobody}]
    /\ stage' = [stage EXCEPT ![c] = "deliver"]
    /\ UNCHANGED <<store, lease, reply, push, writing, holder, clients, lost, failures>>

\* targetsFor.
Route(c) ==
    /\ stage[c] = "route" /\ EndpointsFree
    /\ targets' = [targets EXCEPT ![c] = endpoints \cap Subscribers]
    /\ stage' = [stage EXCEPT ![c] = "deliver"]
    /\ UNCHANGED <<store, lease, reply, push, writing, holder, clients, lost, failures>>

\* Nobody is left, or a newer revision has been made since: the push is done with.
Delivered(c) ==
    /\ stage[c] = "deliver"
    /\ targets[c] = {} \/ push[c].revision # revision
    /\ \/ targets[c] = {}
       \/ \E s \in targets[c] : holder[s] = Nobody
    /\ push' = [push EXCEPT ![c] = NoPush]
    /\ targets' = [targets EXCEPT ![c] = {}]
    /\ stage' = [stage EXCEPT ![c] = Rest(c)]
    /\ UNCHANGED <<store, lease, reply, writing, holder, clients, lost, failures>>

\* A broken variant: the push is validated before the endpoint's mutex is taken.
ValidateUnlocked(c) ==
    /\ stage[c] = "deliver" /\ push[c].revision = revision
    /\ \E s \in targets[c] : writing' = [writing EXCEPT ![c] = s]
    /\ stage' = [stage EXCEPT ![c] = "write"]
    /\ UNCHANGED <<store, lease, reply, push, targets, holder, clients, lost, failures>>

\* The endpoint's mutex is taken, and the push found to be the newest.
Validate(c) ==
    /\ stage[c] = "deliver" /\ push[c].revision = revision
    /\ \E s \in targets[c] :
           /\ holder[s] = Nobody
           /\ holder' = [holder EXCEPT ![s] = c]
           /\ writing' = [writing EXCEPT ![c] = s]
    /\ stage' = [stage EXCEPT ![c] = "write"]
    /\ UNCHANGED <<store, lease, reply, push, targets, clients, lost, failures>>

\* A connection whose writer fails is never written to again; one whose session has ended is
\* passed over.
Write(c) ==
    /\ stage[c] = "write"
    /\ LET s == writing[c] IN
           /\ holder' = [holder EXCEPT ![s] = Nobody]
           /\ writing' = [writing EXCEPT ![c] = Nobody]
           /\ targets' = [targets EXCEPT ![c] = @ \ {s}]
           /\ \/ /\ s \in writer \cap valid
                 /\ heard' = [heard EXCEPT ![s] = push[c].revision]
                 /\ told' = [told EXCEPT ![s] = Newest(@, push[c].revision)]
                 /\ UNCHANGED <<writer, failures>>
              \/ /\ s \in writer \cap valid /\ Fails
                 /\ writer' = writer \ {s}
                 /\ UNCHANGED <<heard, told>>
              \/ /\ s \notin writer \cap valid
                 /\ UNCHANGED <<writer, heard, told, failures>>
    /\ stage' = [stage EXCEPT ![c] = "deliver"]
    /\ UNCHANGED <<store, lease, reply, push, follows, lost>>

-----------------------------------------------------------------------------
PresenceInit ==
    /\ document = [online |-> FALSE, id |-> 0]
    /\ publishedOnline = FALSE /\ revision = 0 /\ subscribed = FALSE
    /\ endpoints = {} /\ valid = {}
    /\ stage = [c \in Connections |-> "away"]
    /\ reply = [c \in Connections |-> 0]
    /\ push = [c \in Connections |-> NoPush]
    /\ targets = [c \in Connections |-> {}]
    /\ writing = [c \in Connections |-> Nobody]
    /\ holder = [c \in Connections |-> Nobody]
    /\ writer = {}
    /\ heard = [c \in Connections |-> 0]
    /\ told = [c \in Connections |-> 0]
    /\ follows = {} /\ lost = 0 /\ failures = 0

\* What a thread goes on with by itself.
Continue(c) ==
    \/ Reply(c) \/ Disconnect(c) \/ Retire(c)
    \/ Route(c) \/ Delivered(c) \/ Validate(c) \/ Write(c)

PresenceNext == \E c \in Connections :
    \/ Connect(c) \/ Expire(c) \/ LeaveServe(c) \/ Continue(c)
    \/ c \in Publishers /\ \E online \in BOOLEAN :
           SetPresence(c, online) \/ SetPresenceThrows(c, online)
    \/ c \in Subscribers /\ (Subscribe(c) \/ Unsubscribe(c))

PresenceSpec ==
    /\ PresenceInit /\ [][PresenceNext]_presenceVars
    /\ \A c \in Connections : WF_presenceVars(Continue(c))

-----------------------------------------------------------------------------
(* Properties *)

Revisions == 0 .. MaxUpdates + Cardinality(Publishers)
Pushes == [revision : Revisions, online : BOOLEAN, document : 0 .. MaxUpdates]

PresenceTypeOK ==
    /\ document \in [online : BOOLEAN, id : 0 .. MaxUpdates]
    /\ publishedOnline \in BOOLEAN /\ subscribed \in BOOLEAN /\ revision \in Revisions
    /\ endpoints \subseteq Connections /\ valid \subseteq Connections
    /\ stage \in [Connections -> {"away", "idle", "late", "reply", "leaving", "retire", "route",
                                  "deliver", "write", "gone"}]
    /\ push \in [Connections -> Pushes]
    /\ targets \in [Connections -> SUBSET Subscribers]
    /\ writing \in [Connections -> Subscribers \cup {Nobody}]
    /\ holder \in [Connections -> Connections \cup {Nobody}]
    /\ reply \in [Connections -> Revisions]
    /\ heard \in [Connections -> Revisions] /\ told \in [Connections -> Revisions]
    /\ writer \subseteq Subscribers /\ follows \subseteq Subscribers
    /\ lost \in Revisions /\ failures \in 0 .. MaxFailures

\* No push of an older presence follows a newer one (lobby.cpp:194: "Validate after taking
\* the serialized writer lock. A newer presence cannot overtake a previously validated push
\* waiting for this lock").
PushesInOrder == [][\A s \in Subscribers : heard'[s] >= heard[s]]_presenceVars

\* A push that validation would let through holds the presence published last and tells
\* nobody that a player is online who has not published it, or whose end has been told
\* (lobby.cpp:151: "Revision validation drops an offline snapshot if the peer has already
\* reconnected and published a newer presence").  It says what presenceOf answers now, unless
\* the session of the connection that delivers it has ended: that changes the presence, makes
\* no revision and is not pushed.  Nor does an exception in socialDisconnected.
PushesTrue ==
    \A c \in Connections :
        push[c] # NoPush /\ push[c].revision = revision /\ lost # revision =>
            /\ push[c].document = document.id
            /\ push[c].online => document.online /\ publishedOnline
            /\ push[c].online = Presence(document, publishedOnline).online
               \/ c \in endpoints \ valid

\* The connections that are sent what the services push to the subscriber.
Listening == follows \cap writer \cap valid

\* A subscriber that stays is sent every update, or a newer one in its place, unless an
\* exception or a broken socket of the publisher gave the update up: a push that is dropped
\* for being stale is always followed by another.
EveryUpdateArrives ==
    \A s \in Subscribers, r \in Revisions :
        s \in Listening /\ revision = r ~> s \notin Listening \/ told[s] >= r \/ lost >= r

\* The newest push is on its way to a connection.
Carries(c, s) ==
    /\ push[c] # NoPush /\ push[c].revision = revision
    /\ \/ stage[c] \in {"reply", "retire", "route"}
       \/ stage[c] \in {"deliver", "write"} /\ s \in targets[c]

\* What EveryUpdateArrives rests on: at every moment a subscriber that stays has been told the
\* newest revision, is about to be told it in a reply, or some thread carries a push of it to
\* the subscriber, unless it was given up.  No selection of connections, validation or end of
\* a connection loses the only push there is.
NothingForgotten ==
    \A s \in Listening :
        \/ told[s] >= revision \/ lost >= revision
        \/ stage[s] = "reply" /\ reply[s] >= revision
        \/ \E c \in Connections : Carries(c, s)
=============================================================================
