----------------------------- MODULE ChannelPush -----------------------------
(***************************************************************************)
(* How the members of a chat channel learn of each other: the membership   *)
(* Services/Channels/channel_services.cpp keeps, and the pushes that       *)
(* Core/lobby.cpp routes to the connections of its members.                *)
(*                                                                         *)
(* A process is the serving thread of a connection, or the worker of the   *)
(* delivery queue.  The store mutex and endpointMutex are held within one  *)
(* step, the mutex of an endpoint from the validation of a delivery to the *)
(* end of the write.  A request is dispatched under the store mutex, and   *)
(* its response written after that is released: nobody else can tell the   *)
(* two apart, so they are one step, and the deliveries are routed after    *)
(* it.  The order of one reply's deliveries is left open.                  *)
(*                                                                         *)
(* One channel; the client of a connection is the roster its frames build. *)
(* A slot c stands for one connection after another: an identifier is 64   *)
(* random bits, and a slot is taken again once nothing refers to it.       *)
(***************************************************************************)
EXTENDS Naturals, Sequences, FiniteSets

CONSTANTS
    Users,              \* accounts, positive numbers
    Connections, UserOf,
    Worker,             \* the thread of DeliveryQueue
    Free,               \* no thread, no endpoint
    MemberLimit,        \* 200
    Capacity,           \* 16384 queued deliveries
    MaxRevision,        \* UINT32_MAX, where advance throws
    MaxFaults,          \* bound: sessions that expire, reads and writes that fail
    MaxMessages,        \* bound: chat messages
    MaxEvents           \* bound: revisions, faults and messages together

Threads == Connections \cup {Worker}

ASSUME ChannelAssumption ==
    /\ Users \subseteq Nat \ {0} /\ IsFiniteSet(Users)
    /\ UserOf \in [Connections -> Users]
    /\ Worker \notin Connections /\ Free \notin Threads
    /\ MemberLimit \in Nat /\ Capacity \in Nat /\ MaxRevision \in Nat
    /\ MaxFaults \in Nat /\ MaxMessages \in Nat /\ MaxEvents \in Nat

VARIABLES
    generation,     \* members[user].generation, 0 for one who is no member
    revision,       \* of the channel
    pc,             \* the serving thread of a connection
    valid,          \* platform::valid of its session
    endpoints,
    writer,         \* the endpoint still has its writer
    holder,         \* the thread that holds the mutex of the endpoint
    joins,          \* channelJoins of the endpoint
    out,            \* deliveries of a reply that are still to be routed
    delivering,     \* the delivery a thread is at, its targets and the endpoint it writes to
    pending,        \* DeliveryQueue::pending
    roster,         \* history: the members the client knows, by the membership it knew them in
    present,        \* history: endpoints that were there when their user joined
    orphans,        \* history: clients given a message of somebody they do not know
    lost,           \* history: members one of whose notifications was thrown away
    faults, messages

vars == <<generation, revision, pc, valid, endpoints, writer, holder, joins, out,
          delivering, pending, roster, present, orphans, lost, faults,
          messages>>
store == <<generation, revision>>
endpoint == <<writer, joins, roster, orphans>>
lease == <<endpoints, valid>>

Kinds == {"join", "leave", "message"}
Deliveries == [to : Users, kind : Kinds, actor : Users, gen : 0 .. MaxRevision,
               recipient : 0 .. MaxRevision, introduces : BOOLEAN]
Pending == [delivery : Deliveries, targets : SUBSET Connections]
NoDelivery == [to |-> 0]
Nothing == [delivery |-> NoDelivery, targets |-> {}, at |-> Free]
Delivering == [delivery : Deliveries, targets : SUBSET Connections,
               at : Connections \cup {Free}] \cup {Nothing}
Unjoined == [gen |-> 0, recipient |-> 0]
Joins == [gen : 0 .. MaxRevision, recipient : 0 .. MaxRevision]
Stages == {"off", "idle", "late", "route", "closing", "retire", "farewell"}

TypeOK ==
    /\ generation \in [Users -> 0 .. MaxRevision]
    /\ revision \in 0 .. MaxRevision
    /\ pc \in [Connections -> Stages]
    /\ valid \in [Connections -> BOOLEAN]
    /\ endpoints \subseteq Connections
    /\ writer \in [Connections -> BOOLEAN]
    /\ holder \in [Connections -> Threads \cup {Free}]
    /\ joins \in [Connections -> [Users -> Joins]]
    /\ out \in [Connections -> SUBSET Deliveries]
    /\ delivering \in [Threads -> Delivering]
    /\ pending \in Seq(Pending)
    /\ roster \in [Connections -> [Users -> 0 .. MaxRevision]]
    /\ present \subseteq Connections
    /\ orphans \subseteq Connections
    /\ lost \subseteq Users
    /\ faults \in 0 .. MaxFaults /\ messages \in 0 .. MaxMessages

Init ==
    /\ generation = [u \in Users |-> 0] /\ revision = 0
    /\ pc = [c \in Connections |-> "off"]
    /\ valid = [c \in Connections |-> FALSE]
    /\ endpoints = {}
    /\ writer = [c \in Connections |-> FALSE]
    /\ holder = [c \in Connections |-> Free]
    /\ joins = [c \in Connections |-> [u \in Users |-> Unjoined]]
    /\ out = [c \in Connections |-> {}]
    /\ delivering = [t \in Threads |-> Nothing]
    /\ pending = <<>>
    /\ roster = [c \in Connections |-> [u \in Users |-> 0]]
    /\ present = {} /\ orphans = {} /\ lost = {} /\ faults = 0 /\ messages = 0

MembersOf(members) == {u \in DOMAIN members : members[u] # 0}
Leases(u) == {c \in endpoints : UserOf[c] = u}
Online(u) == \E c \in Leases(u) : valid[c]

(***************************************************************************)
(* The lease of a connection.                                              *)
(***************************************************************************)
Referred(c) ==
    \/ \E t \in Threads : c \in delivering[t].targets
    \/ \E i \in DOMAIN pending : c \in pending[i].targets

\* platform::authorize, and the constructor of the lease under endpointMutex.
Connect(c) ==
    /\ pc[c] = "off" /\ ~Referred(c)
    /\ pc' = [pc EXCEPT ![c] = "idle"]
    /\ valid' = [valid EXCEPT ![c] = TRUE]
    /\ endpoints' = endpoints \cup {c}
    /\ writer' = [writer EXCEPT ![c] = TRUE]
    /\ UNCHANGED <<store, holder, joins, out, delivering, pending, roster, present, orphans,
                   lost, faults, messages>>

Bounded(last) == last + faults + messages <= MaxEvents

Fault == faults < MaxFaults /\ Bounded(revision + 1) /\ faults' = faults + 1

\* The session expires, or another login supersedes it: never undone.  The thread may have
\* passed refreshLease and be waiting for the store mutex.
Expire(c) ==
    /\ valid[c]
    /\ valid' = [valid EXCEPT ![c] = FALSE]
    /\ \/ pc[c] = "idle" /\ pc' = [pc EXCEPT ![c] = "late"]
       \/ UNCHANGED pc
    /\ Fault
    /\ UNCHANGED <<store, endpoints, endpoint, holder, out, delivering, pending, present, lost,
                   messages>>

(***************************************************************************)
(* Requests.                                                               *)
(***************************************************************************)
\* context, membershipPacket: what the other members are told of one who came or left.
notifyMembership(members, kind, u, gen) ==
    {[to |-> v, kind |-> kind, actor |-> u, gen |-> gen, recipient |-> members[v],
      introduces |-> FALSE] : v \in MembersOf(members) \ {u}}

\* A member is swept when its lease has expired and its account is not online.  One swept
\* later hears of one swept before it; that delivery is never valid and is left out.
Sweepable == {u \in MembersOf(generation) : ~Online(u)}
Without(members, S) == [u \in Users |-> IF u \in S THEN 0 ELSE members[u]]
Departures(members, S) ==
    UNION {notifyMembership(Without(members, S), "leave", u, members[u]) : u \in S}

\* A sender that joined before the recipient is in the list the recipient reads.
IntroducesSwapped(members, u, v) == v # u /\ members[u] < members[v]
Introduces(members, u, v) == v # u /\ members[u] > members[v]
Messages(members, u, targets) ==
    {[to |-> v, kind |-> "message", actor |-> u, gen |-> members[u], recipient |-> members[v],
      introduces |-> Introduces(members, u, v)] : v \in targets}

\* Members who are never told of a change of their present membership.
Untold(members, deliveries) ==
    {d.to : d \in {e \in deliveries : e.kind # "message" /\ e.recipient = members[e.to]}}

\* advance throws when the revision is at its end, and nothing of the request is saved.
Advances(last) == last <= MaxRevision

\* A request of a session that was valid when it was taken.  When the response cannot be
\* written the thread ends, and routes nothing.
Dispatched(c, members, last, deliveries) ==
    /\ (pc[c] = "idle" /\ valid[c]) \/ pc[c] = "late"
    /\ Advances(last) /\ Bounded(last)
    /\ generation' = members /\ revision' = last
    /\ \/ /\ pc' = [pc EXCEPT ![c] = IF deliveries = {} THEN "idle" ELSE "route"]
          /\ out' = [out EXCEPT ![c] = deliveries]
          /\ UNCHANGED faults
       \/ /\ pc' = [pc EXCEPT ![c] = "closing"]
          /\ Fault
          /\ UNCHANGED out
    /\ UNCHANGED <<lease, endpoint, holder, delivering, pending>>

Unanswered(c, members, deliveries) ==
    IF pc'[c] = "closing" THEN Untold(members, deliveries) ELSE {}

\* An error reply: a refusal, a malformed or failing document, a revision at its end.
Refused(c) == Dispatched(c, generation, revision, {}) /\ UNCHANGED <<present, lost, messages>>

\* Tasks 1 and 6.  Whoever is a member already keeps its generation.
Subscribe(c) ==
    LET u == UserOf[c] IN
    \E S \in SUBSET Sweepable :
      LET members == Without(generation, S)
          last == revision + Cardinality(S) + 1
          joined == [members EXCEPT ![u] = last]
          told == Departures(generation, S) \cup notifyMembership(joined, "join", u, last)
      IN  \/ /\ members[u] = 0
             /\ Cardinality(MembersOf(members)) < MemberLimit
             /\ Dispatched(c, joined, last, told)
             /\ present' = {k \in present : UserOf[k] # u} \cup Leases(u)
             /\ UNCHANGED messages
             /\ lost' = (lost \ {u}) \cup Unanswered(c, joined, told)
          \/ /\ members[u] # 0
             /\ Dispatched(c, members, last - 1, Departures(generation, S))
             /\ lost' = lost \cup Unanswered(c, members, Departures(generation, S))
             /\ UNCHANGED <<present, messages>>

\* Tasks 2 and 12; the sweep of the tasks that only read (5, 7) comes with them.
Unsubscribe(c) ==
    LET u == UserOf[c] IN
    \E S \in SUBSET Sweepable :
      LET gone == S \cup ({u} \cap MembersOf(generation))
          members == Without(generation, gone)
          told == Departures(generation, gone)
      IN  /\ Dispatched(c, members, revision + Cardinality(gone), told)
          /\ lost' = lost \cup Unanswered(c, members, told)
          /\ UNCHANGED <<present, messages>>

\* Tasks 3 and 4: to every member, or to one.
Message(c) ==
    LET u == UserOf[c] IN
    \E S \in SUBSET Sweepable :
      LET members == Without(generation, S) IN
      /\ messages < MaxMessages /\ Bounded(revision + 1) /\ messages' = messages + 1
      /\ members[u] # 0
      /\ \E targets \in {MembersOf(members)} \cup {{v} : v \in MembersOf(members)} :
           LET told == Departures(generation, S) \cup Messages(members, u, targets) IN
           /\ Dispatched(c, members, revision + Cardinality(S), told)
           /\ lost' = lost \cup Unanswered(c, members, told)
      /\ UNCHANGED present

(***************************************************************************)
(* Routing and delivering.                                                 *)
(***************************************************************************)
Routing(c) == pc[c] \in {"route", "farewell"} /\ delivering[c] = Nothing

\* The thread goes on to the next delivery, the next record, or its end.
After(c) == IF pc[c] = "route" THEN "idle" ELSE "off"
Continues(c, remaining) == IF remaining = {} THEN After(c) ELSE pc[c]

\* A membership change waits 250 ms in the queue, with the endpoints it is routed to.  A full
\* queue throws: that ends a serving thread, and the end of a lease goes on to the next one.
RouteDelayed(c) ==
    /\ Routing(c)
    /\ \E d \in out[c] :
         /\ d.kind # "message"
         /\ \/ /\ Len(pending) < Capacity
               /\ pending' = Append(pending, [delivery |-> d, targets |-> Leases(d.to)])
               /\ out' = [out EXCEPT ![c] = @ \ {d}]
               /\ pc' = [pc EXCEPT ![c] = Continues(c, out[c] \ {d})]
               /\ UNCHANGED lost
            \/ /\ Len(pending) >= Capacity
               /\ LET dropped == IF pc[c] = "route" THEN out[c] ELSE {d} IN
                  /\ out' = [out EXCEPT ![c] = @ \ dropped]
                  /\ pc' = [pc EXCEPT ![c] = IF @ = "route" THEN "closing"
                                                          ELSE Continues(c, out[c] \ dropped)]
                  /\ lost' = lost \cup Untold(generation, dropped)
               /\ UNCHANGED pending
    /\ UNCHANGED <<store, lease, endpoint, holder, delivering, present, faults, messages>>

\* The rest of a delivery; a thread without targets is through with it.
Remaining(d, targets) ==
    IF targets = {} THEN Nothing ELSE [delivery |-> d, targets |-> targets, at |-> Free]

RouteNow(c) ==
    /\ Routing(c)
    /\ \E d \in out[c] :
         /\ d.kind = "message"
         /\ out' = [out EXCEPT ![c] = @ \ {d}]
         /\ delivering' = [delivering EXCEPT ![c] = Remaining(d, Leases(d.to))]
         /\ pc' = [pc EXCEPT ![c] = IF Leases(d.to) = {} THEN Continues(c, out[c] \ {d}) ELSE @]
    /\ UNCHANGED <<store, lease, endpoint, holder, pending, present, lost, faults, messages>>

\* The head of the queue is due.
Dequeue ==
    /\ delivering[Worker] = Nothing /\ pending # <<>>
    /\ delivering' = [delivering EXCEPT ![Worker] =
                         Remaining(Head(pending).delivery, Head(pending).targets)]
    /\ pending' = Tail(pending)
    /\ UNCHANGED <<store, pc, lease, endpoint, holder, out, present, lost, faults, messages>>

\* A thread goes on with the targets that are left.
Proceed(t, targets) ==
    /\ delivering' = [delivering EXCEPT ![t] = Remaining(@.delivery, targets)]
    /\ pc' = [c \in Connections |-> IF c = t /\ targets = {} THEN Continues(c, out[c]) ELSE pc[c]]

channelDeliveryValid(d) ==
    /\ generation[d.to] # 0 /\ generation[d.to] = d.recipient
    /\ IF d.kind = "leave" THEN generation[d.actor] = 0
                           ELSE generation[d.actor] = d.gen

\* deliveryValid: what it throws, for a channel file that cannot be read, is a refusal.
DeliveryThrows(d) == lost' = lost \cup Untold(generation, {d}) /\ Fault

Join(d) == [gen |-> d.gen, recipient |-> d.recipient]
Joined(c, d) == joins[c][d.actor] = Join(d)

LockAfterwards(t, c) == UNCHANGED holder
Lock(t, c) == holder' = [holder EXCEPT ![c] = t]
Unlocked(c) == holder' = [holder EXCEPT ![c] = Free]

\* The next endpoint of a delivery: its mutex first, then the store's, then the writer.  A
\* delivery is given up for all that are left when it is stale, or its channel cannot be read.
Validate(t) ==
    LET d == delivering[t].delivery IN
    /\ delivering[t].at = Free
    /\ \E c \in delivering[t].targets :
         /\ holder[c] = Free
         /\ \/ /\ ~channelDeliveryValid(d)
               /\ Proceed(t, {})
               /\ UNCHANGED <<holder, lost, faults>>
            \/ /\ Proceed(t, {})
               /\ DeliveryThrows(d)
               /\ UNCHANGED holder
            \/ /\ channelDeliveryValid(d)
               /\ (d.kind = "join" /\ Joined(c, d)) \/ ~writer[c] \/ ~valid[c]
               /\ Proceed(t, delivering[t].targets \ {c})
               /\ UNCHANGED <<holder, lost, faults>>
            \/ /\ channelDeliveryValid(d)
               /\ ~(d.kind = "join" /\ Joined(c, d)) /\ writer[c] /\ valid[c]
               /\ delivering' = [delivering EXCEPT ![t].at = c]
               /\ Lock(t, c)
               /\ UNCHANGED <<pc, lost, faults>>
    /\ UNCHANGED <<store, lease, endpoint, out, pending, present, messages>>

\* channelJoins and the client's roster after a frame; leave erases what join entered.
JoinWritten(c, d) ==
    /\ joins' = [joins EXCEPT ![c][d.actor] = Join(d)]
    /\ roster' = [roster EXCEPT ![c][d.actor] = d.recipient]
LeaveWritten(c, d) ==
    /\ joins' = [joins EXCEPT ![c][d.actor] = Unjoined]
    /\ roster' = [roster EXCEPT ![c][d.actor] = 0]

\* The join a message has to bring along.
MissingJoin(c, d) == d.introduces /\ ~Joined(c, d)

Written(t, c) ==
    /\ Proceed(t, delivering[t].targets \ {c})
    /\ Unlocked(c)
    /\ UNCHANGED <<store, lease, out, pending, present, lost, messages>>

\* The message of a member that came after the client did, and that it does not know.
Stranger(known, d) ==
    d.kind = "message" /\ d.actor # d.to /\ d.gen > d.recipient /\ known[d.actor] # d.recipient

\* The frames are out, the join before the message.
Write(t) ==
    \E c \in Connections :
      LET d == delivering[t].delivery IN
      /\ delivering[t].at = c
      /\ \/ d.kind = "join" /\ JoinWritten(c, d)
         \/ d.kind = "leave" /\ LeaveWritten(c, d)
         \/ d.kind = "message" /\ MissingJoin(c, d) /\ JoinWritten(c, d)
         \/ d.kind = "message" /\ ~MissingJoin(c, d) /\ UNCHANGED <<joins, roster>>
      /\ orphans' = orphans \cup {k \in {c} : Stranger(roster'[k], d)}
      /\ UNCHANGED <<writer, faults>>
      /\ Written(t, c)

\* A write fails, the join's or the one after it: the endpoint loses its writer.
WriteFails(t) ==
    \E c \in Connections :
      LET d == delivering[t].delivery IN
      /\ delivering[t].at = c
      /\ \/ d.kind = "message" /\ MissingJoin(c, d) /\ JoinWritten(c, d)
         \/ UNCHANGED <<joins, roster>>
      /\ writer' = [writer EXCEPT ![c] = FALSE]
      /\ Fault
      /\ UNCHANGED orphans
      /\ Written(t, c)

(***************************************************************************)
(* The end of a lease.                                                     *)
(***************************************************************************)
\* The record loop ends: the socket closed, the session retired, a record was malformed, or
\* something threw.  Under endpointMutex; disconnectChannels runs only when no valid lease
\* is left, and whatever it throws is swallowed.
Unregister(c) ==
    LET u == UserOf[c] IN
    /\ pc[c] \in {"idle", "closing"}
    /\ pc' = [pc EXCEPT ![c] = "retire"]
    /\ endpoints' = endpoints \ {c}
    /\ present' = present \ {c}
    /\ \/ /\ ~\E k \in Leases(u) \ {c} : valid[k]
          /\ generation[u] # 0 /\ revision < MaxRevision /\ Bounded(revision + 1)
          /\ generation' = Without(generation, {u})
          /\ revision' = revision + 1
          /\ out' = [out EXCEPT ![c] = Departures(generation, {u})]
       \/ UNCHANGED <<store, out>>
    /\ UNCHANGED <<valid, endpoint, holder, delivering, pending, lost, faults, messages>>

\* No thread is between the validation and the write of a delivery to this endpoint.
SilentUnchecked(c) == TRUE
Silent(c) == holder[c] = Free

\* The writer goes before the socket and the traffic key it refers to do.  Nothing is read of
\* a retired endpoint but that it has no writer.
RetireWriter(c) ==
    /\ pc[c] = "retire" /\ Silent(c)
    /\ pc' = [pc EXCEPT ![c] = IF out[c] = {} THEN "off" ELSE "farewell"]
    /\ writer' = [writer EXCEPT ![c] = FALSE]
    /\ valid' = [valid EXCEPT ![c] = FALSE]
    /\ joins' = [joins EXCEPT ![c] = [u \in Users |-> Unjoined]]
    /\ roster' = [roster EXCEPT ![c] = [u \in Users |-> 0]]
    /\ UNCHANGED <<store, endpoints, orphans, holder, out, delivering, pending, present, lost,
                   faults, messages>>

Lease(c) == Connect(c) \/ Expire(c) \/ Unregister(c) \/ RetireWriter(c)
Request(c) == Refused(c) \/ Subscribe(c) \/ Unsubscribe(c) \/ Message(c)
Route(c) == RouteDelayed(c) \/ RouteNow(c)
Deliver(t) == Validate(t) \/ Write(t) \/ WriteFails(t)

Next == \/ \E c \in Connections : Lease(c) \/ Request(c) \/ Route(c)
        \/ \E t \in Threads : Deliver(t)
        \/ Dequeue

Spec == Init /\ [][Next]_vars

(***************************************************************************)
(* Properties.                                                             *)
(***************************************************************************)
\* No client is handed a message of a member that joined after it and was never announced
\* to it: the delayed join may still be queued, and the message then brings it along.
JoinBeforeMessage == orphans = {}

\* No client is written the join of one membership twice, though a delayed join and the
\* message that brings it along race: "coalesces the same join still pending in the delayed
\* queue" (Core/lobby.cpp).
JoinWrittenOnce ==
    \A t \in Threads, c \in Connections :
        LET d == delivering[t].delivery IN
        delivering[t].at = c /\ d.kind = "join" => ~Joined(c, d)

\* No thread is about to use a writer that refers to the stack of a serve that has ended.
NoDetachedWriter ==
    \A t \in Threads, c \in Connections :
        delivering[t].at = c => writer[c] /\ pc[c] \notin {"off", "farewell"}

\* Everything said of the channel to u has been written or dropped.
Settled(u) ==
    /\ \A c \in Connections : \A d \in out[c] : d.to # u
    /\ \A t \in Threads : delivering[t].delivery.to # u
    /\ \A i \in DOMAIN pending : pending[i].delivery.to # u

\* Once nothing is on its way to a member, its clients know no one who is gone, and everyone
\* who joined after it did: whatever the order in which the requests of others were
\* dispatched, routed and delivered.
RosterAgrees ==
    \A c \in endpoints :
      LET u == UserOf[c] IN
      generation[u] # 0 /\ writer[c] /\ valid[c] /\ u \notin lost /\ Settled(u) =>
        \A v \in Users \ {u} :
          /\ roster[c][v] = generation[u] => generation[v] # 0
          /\ generation[v] > generation[u] /\ c \in present
                => roster[c][v] = generation[u]

=============================================================================
