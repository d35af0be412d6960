-------------------------- MODULE ChannelPushProofs --------------------------
(***************************************************************************)
(* Proofs about ChannelPush, for every set of users and connections, every *)
(* limit of the channel and of the queue, and every bound.                 *)
(***************************************************************************)
EXTENDS ChannelPush, FiniteSetTheorems, TLAPS

\* A thread at an endpoint holds its mutex, and the endpoint has a writer.
Held ==
    \A t \in Threads, c \in Connections :
        delivering[t].at = c => holder[c] = t /\ writer[c]

\* An endpoint with a writer belongs to a serve that has not ended.
Alive == \A c \in Connections : writer[c] => pc[c] \notin {"off", "farewell"}

\* A message of somebody who joined after the recipient brings the join along.
Introduced(d) == d.kind = "message" /\ d.actor # d.to /\ d.gen > d.recipient => d.introduces
Honest ==
    /\ \A c \in Connections : \A d \in out[c] : Introduced(d)
    /\ \A i \in DOMAIN pending : Introduced(pending[i].delivery)
    /\ \A t \in Threads : delivering[t] # Nothing => Introduced(delivering[t].delivery)

\* What an endpoint remembers is what its client knows.
Remembered ==
    \A c \in Connections, u \in Users : roster[c][u] = joins[c][u].recipient

\* A serving thread delivers while it routes.
Busy == \A c \in Connections : delivering[c] # Nothing => pc[c] \in {"route", "farewell"}

LeaseInv == TypeOK /\ Held /\ Alive /\ Busy
IInv == LeaseInv /\ Honest /\ Remembered /\ JoinBeforeMessage

(***************************************************************************)
(* What RosterAgrees rests on: whoever a member's client has still to hear *)
(* of, or to hear has left, is in a delivery on its way to that client.    *)
(***************************************************************************)
\* A delivery is still to reach a connection.
Targeted(d, c) ==
    \/ d.to = UserOf[c] /\ \E k \in Connections : d \in out[k]
    \/ \E i \in DOMAIN pending : pending[i].delivery = d /\ c \in pending[i].targets
    \/ \E t \in Threads : c \in delivering[t].targets /\ delivering[t].delivery = d

\* It tells the user of c, in its present membership, of the join or the absence of v.
Announces(d, kind, c, v) ==
    /\ d.kind = kind /\ d.actor = v /\ d.to = UserOf[c]
    /\ d.recipient = generation[UserOf[c]]
    /\ kind = "join" => d.gen = generation[v]

Coming(kind, c, v) == \E d \in Deliveries : Targeted(d, c) /\ Announces(d, kind, c, v)

\* An endpoint of a member that can be written to, and to which nothing was thrown away.
Listening(c) ==
    /\ c \in endpoints /\ writer[c] /\ valid[c]
    /\ generation[UserOf[c]] # 0 /\ UserOf[c] \notin lost

At(t, c, v) == delivering[t].at = c /\ delivering[t].delivery.actor = v

\* The write a thread is about to make enters the actor in the present membership.
Enters(t, c) ==
    /\ delivering[t].delivery.kind # "leave"
    /\ delivering[t].delivery.recipient = generation[UserOf[c]]

\* The client knows v, or is about to.
Knows(c, v) ==
    \/ roster[c][v] = generation[UserOf[c]]
    \/ \E t \in Threads : At(t, c, v) /\ Enters(t, c)

\* The client knows v, and is not about to forget it.
Settles(c, v) ==
    /\ roster[c][v] = generation[UserOf[c]]
    /\ \A t \in Threads : At(t, c, v) => Enters(t, c)

Told(c, v) ==
    /\ generation[v] = 0 /\ Knows(c, v) => Coming("leave", c, v)
    /\ c \in present /\ generation[v] > generation[UserOf[c]]
          => Settles(c, v) \/ Coming("join", c, v)
AllTold ==
    \A c \in Connections : \A v \in Users \ {UserOf[c]} : Listening(c) => Told(c, v)

\* No membership is newer than the revision of the channel.
Past(d) == d.recipient <= revision /\ (d.kind # "leave" => d.gen # 0)
Stamped ==
    /\ \A u \in Users : generation[u] <= revision
    /\ \A c \in Connections : \A v \in Users : roster[c][v] <= revision
    /\ \A c \in Connections : \A d \in out[c] : Past(d)
    /\ \A i \in DOMAIN pending : Past(pending[i].delivery)
    /\ \A t \in Threads : delivering[t] # Nothing => Past(delivering[t].delivery)

\* A delivery is aimed at endpoints of its recipient.
Addressed ==
    /\ \A i \in DOMAIN pending : \A c \in pending[i].targets : UserOf[c] = pending[i].delivery.to
    /\ \A t \in Threads : \A c \in delivering[t].targets : UserOf[c] = delivering[t].delivery.to

\* What the stage of a serving thread says of its reply, its client and its endpoint.
Places ==
    /\ present \subseteq endpoints
    /\ \A c \in Connections :
         /\ pc[c] \in {"off", "idle", "late", "closing"} => out[c] = {}
         /\ pc[c] \in {"off", "farewell"} => \A v \in Users : roster[c][v] = 0
         /\ c \in endpoints => pc[c] \notin {"off", "retire", "farewell"}

Side == Stamped /\ Addressed /\ Places
RosterInv == IInv /\ Side /\ AllTold

Memberships == [Users -> 0 .. MaxRevision]

\* Deliveries of a membership, whose messages all introduce their senders where they must.
Fit(ds) == ds \subseteq Deliveries /\ \A d \in ds : Introduced(d)

(***************************************************************************)
(* What requests and departing leases send.                                *)
(***************************************************************************)
LEMMA NotifyFit ==
    ASSUME NEW members \in Memberships, NEW kind \in {"join", "leave"}, NEW u \in Users,
           NEW gen \in 0 .. MaxRevision
    PROVE  Fit(notifyMembership(members, kind, u, gen))
  <1> SUFFICES ASSUME NEW d \in notifyMembership(members, kind, u, gen)
               PROVE  d \in Deliveries /\ Introduced(d)
    BY DEF Fit
  <1>1. PICK v \in MembersOf(members) \ {u} :
          d = [to |-> v, kind |-> kind, actor |-> u, gen |-> gen, recipient |-> members[v],
               introduces |-> FALSE]
    BY DEF notifyMembership
  <1>2. v \in Users /\ members[v] \in 0 .. MaxRevision
    BY DEF MembersOf, Memberships
  <1>3. QED
    BY <1>1, <1>2 DEF Deliveries, Kinds, Introduced

LEMMA WithoutType ==
    ASSUME NEW members \in Memberships, NEW S
    PROVE  Without(members, S) \in Memberships
  BY ChannelAssumption DEF Without, Memberships

LEMMA DeparturesFit ==
    ASSUME NEW members \in Memberships, NEW S \in SUBSET Users
    PROVE  Fit(Departures(members, S))
  <1> SUFFICES ASSUME NEW d \in Departures(members, S)
               PROVE  d \in Deliveries /\ Introduced(d)
    BY DEF Fit
  <1>1. PICK u \in S : d \in notifyMembership(Without(members, S), "leave", u, members[u])
    BY DEF Departures
  <1>2. members[u] \in 0 .. MaxRevision
    BY DEF Memberships
  <1>3. Fit(notifyMembership(Without(members, S), "leave", u, members[u]))
    BY <1>2, WithoutType, NotifyFit
  <1>4. QED
    BY <1>1, <1>3 DEF Fit

LEMMA MessagesFit ==
    ASSUME NEW members \in Memberships, NEW u \in Users, NEW targets \in SUBSET Users
    PROVE  Fit(Messages(members, u, targets))
  <1> SUFFICES ASSUME NEW d \in Messages(members, u, targets)
               PROVE  d \in Deliveries /\ Introduced(d)
    BY DEF Fit
  <1>1. PICK v \in targets :
          d = [to |-> v, kind |-> "message", actor |-> u, gen |-> members[u],
               recipient |-> members[v], introduces |-> Introduces(members, u, v)]
    BY DEF Messages
  <1>2. members[u] \in 0 .. MaxRevision /\ members[v] \in 0 .. MaxRevision
    BY DEF Memberships
  <1>3. Introduces(members, u, v) \in BOOLEAN
    BY DEF Introduces
  <1>4. d \in Deliveries
    BY <1>1, <1>2, <1>3 DEF Deliveries, Kinds
  <1>5. Introduced(d)
    BY <1>1, <1>2 DEF Introduced, Introduces
  <1>6. QED
    BY <1>4, <1>5

LEMMA UntoldUsers ==
    ASSUME NEW members, NEW ds \in SUBSET Deliveries
    PROVE  Untold(members, ds) \subseteq Users
  BY DEF Untold, Deliveries

(***************************************************************************)
(* The initial state.                                                      *)
(***************************************************************************)
LEMMA InitInv == Init => IInv
  <1> SUFFICES ASSUME Init PROVE IInv
    OBVIOUS
  <1> USE ChannelAssumption DEF Init
  <1>1. TypeOK
    BY DEF TypeOK, Stages, Delivering, Joins, Unjoined
  <1>2. Held /\ Alive /\ Busy
    BY DEF Held, Alive, Busy, Nothing, Threads
  <1>3. Honest /\ Remembered /\ JoinBeforeMessage
    BY DEF Honest, Remembered, JoinBeforeMessage, Unjoined
  <1>4. QED
    BY <1>1, <1>2, <1>3 DEF IInv, LeaseInv

(***************************************************************************)
(* Requests.                                                               *)
(***************************************************************************)
LEMMA DispatchedInv ==
    ASSUME IInv, NEW c \in Connections, NEW members, NEW last \in Nat, NEW ds,
           Dispatched(c, members, last, ds), members \in Memberships, Fit(ds),
           present' \subseteq Connections, lost' \subseteq Users,
           messages' \in 0 .. MaxMessages
    PROVE  IInv'
  <1> USE ChannelAssumption DEF IInv, LeaseInv
  <1>1. TypeOK'
    <2>1. generation' \in Memberships /\ revision' \in 0 .. MaxRevision
      BY DEF Dispatched, Advances
    <2>2. /\ pc' \in [Connections -> Stages]
          /\ out' \in [Connections -> SUBSET Deliveries]
      BY DEF Dispatched, TypeOK, Stages, Fit
    <2>3. faults' \in 0 .. MaxFaults
      BY DEF Dispatched, TypeOK, Fault
    <2>4. UNCHANGED <<valid, endpoints, writer, joins, roster, orphans, holder, delivering, pending>>
      BY DEF Dispatched, lease, endpoint
    <2>5. QED
      BY <2>1, <2>2, <2>3, <2>4 DEF TypeOK, Memberships
  <1>2. Held' /\ Alive' /\ Busy'
    BY DEF Dispatched, Held, Alive, Busy, endpoint, TypeOK
  <1>3. Honest'
    BY DEF Dispatched, Honest, Fit, TypeOK
  <1>4. Remembered' /\ JoinBeforeMessage'
    BY DEF Dispatched, Remembered, JoinBeforeMessage, endpoint
  <1>5. QED
    BY <1>1, <1>2, <1>3, <1>4

LEMMA SweptFacts ==
    ASSUME TypeOK, NEW c \in Connections, NEW S \in SUBSET Sweepable
    PROVE  /\ UserOf[c] \in Users /\ S \in SUBSET Users
           /\ Cardinality(S) \in Nat
           /\ Without(generation, S) \in Memberships
           /\ Fit(Departures(generation, S))
  <1>1. UserOf[c] \in Users /\ S \in SUBSET Users
    BY ChannelAssumption DEF Sweepable, MembersOf, TypeOK
  <1>2. IsFiniteSet(S)
    BY <1>1, ChannelAssumption, FS_Subset
  <1>3. Cardinality(S) \in Nat
    BY <1>2, FS_CardinalityType
  <1>4. generation \in Memberships
    BY DEF TypeOK, Memberships
  <1>5. QED
    BY <1>1, <1>3, <1>4, WithoutType, DeparturesFit

LEMMA RequestInv ==
    ASSUME IInv, NEW c \in Connections, Request(c)
    PROVE  IInv'
  <1> DEFINE u == UserOf[c]
  <1>0. TypeOK /\ u \in Users /\ generation \in Memberships /\ revision \in Nat
    BY ChannelAssumption DEF IInv, LeaseInv, TypeOK, Memberships
  <1>1. CASE Refused(c)
    <2>1. Dispatched(c, generation, revision, {})
      BY <1>1 DEF Refused
    <2>2. Fit({})
      BY DEF Fit
    <2>3. present' \subseteq Connections /\ lost' \subseteq Users /\ messages' \in 0 .. MaxMessages
      BY <1>1, <1>0 DEF Refused, TypeOK
    <2>4. QED
      BY <1>0, <2>1, <2>2, <2>3, DispatchedInv
  <1>2. CASE Subscribe(c)
    <2>1. PICK S \in SUBSET Sweepable :
            LET members == Without(generation, S)
                last == revision + Cardinality(S) + 1
                joined == [members EXCEPT ![u] = last]
                told == Departures(generation, S) \cup notifyMembership(joined, "join", u, last)
            IN  \/ /\ Dispatched(c, joined, last, told)
                   /\ present' = {k \in present : UserOf[k] # u} \cup Leases(u)
                   /\ UNCHANGED messages
                   /\ lost' = (lost \ {u}) \cup Unanswered(c, joined, told)
                \/ /\ Dispatched(c, members, last - 1, Departures(generation, S))
                   /\ lost' = lost \cup Unanswered(c, members, Departures(generation, S))
                   /\ UNCHANGED <<present, messages>>
      BY <1>2, Zenon DEF Subscribe
    <2> DEFINE members == Without(generation, S)
               last == revision + Cardinality(S) + 1
               joined == [members EXCEPT ![u] = last]
               told == Departures(generation, S) \cup notifyMembership(joined, "join", u, last)
    <2>a. \/ /\ Dispatched(c, joined, last, told)
             /\ present' = {k \in present : UserOf[k] # u} \cup Leases(u)
             /\ UNCHANGED messages
             /\ lost' = (lost \ {u}) \cup Unanswered(c, joined, told)
          \/ /\ Dispatched(c, members, last - 1, Departures(generation, S))
             /\ lost' = lost \cup Unanswered(c, members, Departures(generation, S))
             /\ UNCHANGED <<present, messages>>
      BY <2>1, Zenon
    <2>2. /\ Cardinality(S) \in Nat /\ members \in Memberships
          /\ Fit(Departures(generation, S))
      BY <1>0, SweptFacts
    <2>3. last \in Nat /\ last - 1 \in Nat
      BY <1>0, <2>2
    <2> HIDE DEF last
    <2>4. CASE /\ Dispatched(c, joined, last, told)
               /\ present' = {k \in present : UserOf[k] # u} \cup Leases(u)
               /\ UNCHANGED messages
               /\ lost' = (lost \ {u}) \cup Unanswered(c, joined, told)
      <3>1. last \in 0 .. MaxRevision
        BY <2>3, <2>4 DEF Dispatched, Advances
      <3>2. joined \in Memberships
        BY <2>2, <3>1, <1>0 DEF Memberships
      <3> HIDE DEF joined, members
      <3>3. Fit(notifyMembership(joined, "join", u, last))
        BY <3>1, <3>2, <1>0, NotifyFit
      <3>4. Fit(told)
        BY <2>2, <3>3 DEF Fit
      <3>5. Unanswered(c, joined, told) \subseteq Users
        BY <3>4, UntoldUsers DEF Unanswered, Fit
      <3> HIDE DEF told
      <3>6. /\ present' \subseteq Connections /\ lost' \subseteq Users
            /\ messages' \in 0 .. MaxMessages
        BY <2>4, <3>5, <1>0 DEF TypeOK, Leases
      <3>7. QED
        BY <2>3, <2>4, <3>2, <3>4, <3>6, DispatchedInv
    <2>5. CASE /\ Dispatched(c, members, last - 1, Departures(generation, S))
               /\ lost' = lost \cup Unanswered(c, members, Departures(generation, S))
               /\ UNCHANGED <<present, messages>>
      <3>1. Unanswered(c, members, Departures(generation, S)) \subseteq Users
        BY <2>2, UntoldUsers DEF Unanswered, Fit
      <3>2. /\ present' \subseteq Connections /\ lost' \subseteq Users
            /\ messages' \in 0 .. MaxMessages
        BY <2>5, <3>1, <1>0 DEF TypeOK
      <3> HIDE DEF members
      <3>3. QED
        BY <2>2, <2>3, <2>5, <3>2, DispatchedInv
    <2>6. QED
      BY <2>a, <2>4, <2>5
  <1>3. CASE Unsubscribe(c)
    <2>1. PICK S \in SUBSET Sweepable :
            LET gone == S \cup ({u} \cap MembersOf(generation))
                members == Without(generation, gone)
                told == Departures(generation, gone)
            IN  /\ Dispatched(c, members, revision + Cardinality(gone), told)
                /\ lost' = lost \cup Unanswered(c, members, told)
                /\ UNCHANGED <<present, messages>>
      BY <1>3 DEF Unsubscribe
    <2> DEFINE gone == S \cup ({u} \cap MembersOf(generation))
               members == Without(generation, gone)
               told == Departures(generation, gone)
    <2>2. gone \subseteq Users
      BY <1>0 DEF Sweepable, MembersOf, TypeOK
    <2>3. Cardinality(gone) \in Nat
      BY <2>2, ChannelAssumption, FS_Subset, FS_CardinalityType
    <2> HIDE DEF gone
    <2>4. members \in Memberships /\ Fit(told)
      BY <1>0, <2>2, WithoutType, DeparturesFit
    <2>5. Unanswered(c, members, told) \subseteq Users
      BY <2>4, UntoldUsers DEF Unanswered, Fit
    <2>6. /\ Dispatched(c, members, revision + Cardinality(gone), told)
          /\ lost' = lost \cup Unanswered(c, members, told)
          /\ UNCHANGED <<present, messages>>
      BY <2>1 DEF gone
    <2> HIDE DEF members, told
    <2>7. /\ present' \subseteq Connections /\ lost' \subseteq Users
          /\ messages' \in 0 .. MaxMessages
      BY <2>5, <2>6, <1>0 DEF TypeOK
    <2>8. revision + Cardinality(gone) \in Nat
      BY <1>0, <2>3
    <2>9. QED
      BY <2>4, <2>6, <2>7, <2>8, DispatchedInv
  <1>4. CASE Message(c)
    <2>1. PICK S \in SUBSET Sweepable :
            /\ messages < MaxMessages /\ messages' = messages + 1
            /\ \E targets \in {MembersOf(Without(generation, S))}
                                \cup {{v} : v \in MembersOf(Without(generation, S))} :
                 LET told == Departures(generation, S)
                               \cup Messages(Without(generation, S), u, targets) IN
                 /\ Dispatched(c, Without(generation, S), revision + Cardinality(S), told)
                 /\ lost' = lost \cup Unanswered(c, Without(generation, S), told)
            /\ UNCHANGED present
      BY <1>4 DEF Message
    <2> DEFINE members == Without(generation, S)
    <2>2. PICK targets \in {MembersOf(members)} \cup {{v} : v \in MembersOf(members)} :
            LET told == Departures(generation, S) \cup Messages(members, u, targets) IN
            /\ Dispatched(c, members, revision + Cardinality(S), told)
            /\ lost' = lost \cup Unanswered(c, members, told)
      BY <2>1
    <2>3. /\ Cardinality(S) \in Nat /\ members \in Memberships
          /\ Fit(Departures(generation, S))
      BY <1>0, SweptFacts
    <2> HIDE DEF members
    <2>4. targets \in SUBSET Users
      BY <2>3 DEF MembersOf, Memberships
    <2> DEFINE told == Departures(generation, S) \cup Messages(members, u, targets)
    <2>5. Fit(told)
      BY <2>3, <2>4, <1>0, MessagesFit DEF Fit
    <2>6. Dispatched(c, members, revision + Cardinality(S), told)
      BY <2>2
    <2>7. lost' = lost \cup Unanswered(c, members, told)
      BY <2>2
    <2>8. Unanswered(c, members, told) \subseteq Users
      BY <2>5, UntoldUsers DEF Unanswered, Fit
    <2> HIDE DEF told
    <2>9. present' \subseteq Connections /\ lost' \subseteq Users
      BY <2>1, <2>7, <2>8, <1>0 DEF TypeOK
    <2>12. messages' \in 0 .. MaxMessages
      <3>1. messages \in 0 .. MaxMessages /\ messages < MaxMessages /\ messages' = messages + 1
        BY <2>1, <1>0 DEF TypeOK
      <3>2. QED
        BY <3>1, ChannelAssumption
    <2>10. revision + Cardinality(S) \in Nat
      BY <1>0, <2>3
    <2>11. QED
      BY <2>3, <2>5, <2>6, <2>9, <2>10, <2>12, DispatchedInv
  <1>5. QED
    BY <1>1, <1>2, <1>3, <1>4 DEF Request

(***************************************************************************)
(* The lease of a connection.                                              *)
(***************************************************************************)
LEMMA ConnectInv == ASSUME IInv, NEW c \in Connections, Connect(c) PROVE IInv'
  <1> USE DEF IInv, LeaseInv
  <1>1. TypeOK'
    BY DEF Connect, TypeOK, store, Stages
  <1>2. Held' /\ Alive' /\ Busy'
    BY DEF Connect, Held, Alive, Busy, TypeOK
  <1>3. Honest' /\ Remembered' /\ JoinBeforeMessage'
    BY DEF Connect, Honest, Remembered, JoinBeforeMessage
  <1>4. QED
    BY <1>1, <1>2, <1>3

LEMMA ExpireInv == ASSUME IInv, NEW c \in Connections, Expire(c) PROVE IInv'
  <1> USE DEF IInv, LeaseInv
  <1>1. TypeOK'
    <2>1. faults' \in 0 .. MaxFaults
      BY ChannelAssumption DEF Expire, Fault, TypeOK
    <2>2. pc' \in [Connections -> Stages] /\ valid' \in [Connections -> BOOLEAN]
      BY DEF Expire, TypeOK, Stages
    <2>3. UNCHANGED <<store, endpoints, endpoint, holder, out, delivering, pending, present,
                      lost, messages>>
      BY DEF Expire
    <2>4. QED
      BY <2>1, <2>2, <2>3 DEF TypeOK, store, endpoint
  <1>2. Held'
    BY DEF Expire, Held, endpoint
  <1>4. \/ pc' = pc
        \/ pc[c] = "idle" /\ pc' = [pc EXCEPT ![c] = "late"]
    BY DEF Expire
  <1>5. Alive' /\ Busy'
    <2>1. CASE pc' = pc
      BY <2>1 DEF Expire, Alive, Busy, endpoint
    <2>2. CASE pc[c] = "idle" /\ pc' = [pc EXCEPT ![c] = "late"]
      <3>1. \A k \in Connections : pc'[k] = IF k = c THEN "late" ELSE pc[k]
        BY <2>2 DEF TypeOK
      <3>2. UNCHANGED <<writer, delivering>>
        BY DEF Expire, endpoint
      <3>3. QED
        BY <2>2, <3>1, <3>2 DEF Alive, Busy
    <2>3. QED
      BY <1>4, <2>1, <2>2
  <1>3. Honest' /\ Remembered' /\ JoinBeforeMessage'
    BY DEF Expire, Honest, Remembered, JoinBeforeMessage, endpoint
  <1>6. QED
    BY <1>1, <1>2, <1>3, <1>5

LEMMA UnregisterInv == ASSUME IInv, NEW c \in Connections, Unregister(c) PROVE IInv'
  <1> USE ChannelAssumption DEF IInv, LeaseInv
  <1>1. generation \in Memberships /\ UserOf[c] \in Users
    BY DEF TypeOK, Memberships
  <1>2. /\ Without(generation, {UserOf[c]}) \in Memberships
        /\ Fit(Departures(generation, {UserOf[c]}))
    BY <1>1, WithoutType, DeparturesFit
  <1>3. generation' \in Memberships /\ revision' \in 0 .. MaxRevision
    BY <1>1, <1>2 DEF Unregister, TypeOK, store
  <1>4. /\ out' \in [Connections -> SUBSET Deliveries]
        /\ \A k \in Connections : \A d \in out'[k] : Introduced(d)
    <2>1. CASE UNCHANGED out
      BY <2>1 DEF TypeOK, Honest
    <2>2. CASE out' = [out EXCEPT ![c] = Departures(generation, {UserOf[c]})]
      BY <1>2, <2>2 DEF TypeOK, Fit, Honest
    <2>3. QED
      BY <2>1, <2>2 DEF Unregister
  <1>5. TypeOK'
    BY <1>3, <1>4 DEF Unregister, TypeOK, endpoint, Stages, Memberships
  <1>6. Held' /\ Alive' /\ Busy'
    BY DEF Unregister, Held, Alive, Busy, endpoint, TypeOK
  <1>7. Honest' /\ Remembered' /\ JoinBeforeMessage'
    BY <1>4 DEF Unregister, Honest, Remembered, JoinBeforeMessage, endpoint
  <1>8. QED
    BY <1>5, <1>6, <1>7

LEMMA RetireWriterInv == ASSUME IInv, NEW c \in Connections, RetireWriter(c) PROVE IInv'
  <1> USE ChannelAssumption DEF IInv, LeaseInv
  <1>1. TypeOK'
    BY DEF RetireWriter, TypeOK, store, Stages, Joins, Unjoined
  <1>2. Held'
    <2> SUFFICES ASSUME NEW t \in Threads, NEW k \in Connections, delivering'[t].at = k
                 PROVE  holder'[k] = t /\ writer'[k]
      BY DEF Held
    <2>1. holder[k] = t /\ writer[k] /\ holder' = holder
      BY DEF RetireWriter, Held
    <2>2. k # c
      BY <2>1 DEF RetireWriter, Silent
    <2>3. writer'[k] = writer[k]
      BY <2>2 DEF RetireWriter, TypeOK
    <2>4. QED
      BY <2>1, <2>3
  <1>3. Alive' /\ Busy'
    BY DEF RetireWriter, Alive, Busy, TypeOK
  <1>4. Remembered'
    BY DEF RetireWriter, Remembered, Unjoined, TypeOK
  <1>5. Honest' /\ JoinBeforeMessage'
    BY DEF RetireWriter, Honest, JoinBeforeMessage
  <1>6. QED
    BY <1>1, <1>2, <1>3, <1>4, <1>5

(***************************************************************************)
(* Routing.                                                                *)
(***************************************************************************)
LEMMA LeasesType == ASSUME TypeOK, NEW u PROVE Leases(u) \in SUBSET Connections
  BY DEF Leases, TypeOK

LEMMA RemainingType ==
    ASSUME NEW d \in Deliveries, NEW targets \in SUBSET Connections
    PROVE  /\ Remaining(d, targets) \in Delivering
           /\ Remaining(d, targets).at = Free
           /\ Remaining(d, targets) # Nothing => Remaining(d, targets).delivery = d
  BY DEF Remaining, Delivering, Nothing

LEMMA RouteDelayedInv == ASSUME IInv, NEW c \in Connections, RouteDelayed(c) PROVE IInv'
  <1> USE ChannelAssumption DEF IInv, LeaseInv
  <1>1. PICK d \in out[c] :
          /\ d.kind # "message"
          /\ \/ /\ Len(pending) < Capacity
                /\ pending' = Append(pending, [delivery |-> d, targets |-> Leases(d.to)])
                /\ out' = [out EXCEPT ![c] = @ \ {d}]
                /\ pc' = [pc EXCEPT ![c] = Continues(c, out[c] \ {d})]
                /\ UNCHANGED lost
             \/ /\ Len(pending) >= Capacity
                /\ LET dropped == IF pc[c] = "route" THEN out[c] ELSE {d} IN
                   /\ out' = [out EXCEPT ![c] = @ \ dropped]
                   /\ pc' = [pc EXCEPT ![c] = IF @ = "route" THEN "closing"
                                              ELSE Continues(c, out[c] \ dropped)]
                   /\ lost' = lost \cup Untold(generation, dropped)
                /\ UNCHANGED pending
    BY DEF RouteDelayed
  <1>2. /\ pc[c] \in {"route", "farewell"} /\ delivering[c] = Nothing
        /\ UNCHANGED <<store, lease, endpoint, holder, delivering, present, faults, messages>>
    BY DEF RouteDelayed, Routing
  <1>3. /\ d \in Deliveries /\ Introduced(d) /\ out[c] \subseteq Deliveries
        /\ Leases(d.to) \in SUBSET Connections
    BY LeasesType DEF TypeOK, Honest
  <1> DEFINE entry == [delivery |-> d, targets |-> Leases(d.to)]
  <1>4. entry \in Pending /\ Introduced(entry.delivery)
    BY <1>3 DEF Pending
  <1> HIDE DEF entry
  <1>5. pending' = Append(pending, entry) \/ pending' = pending
    BY <1>1 DEF entry
  <1>6. pending' \in Seq(Pending)
    <2>1. pending \in Seq(Pending)
      BY DEF TypeOK
    <2>2. QED
      BY <1>4, <1>5, <2>1
  <1>7. \A i \in DOMAIN pending' : Introduced(pending'[i].delivery)
    <2> SUFFICES ASSUME NEW i \in DOMAIN pending' PROVE Introduced(pending'[i].delivery)
      OBVIOUS
    <2>1. CASE pending' = pending
      BY <2>1 DEF Honest
    <2>2. CASE pending' = Append(pending, entry)
      <3>1. (i \in DOMAIN pending /\ pending'[i] = pending[i]) \/ pending'[i] = entry
        BY <2>2, <1>4 DEF TypeOK
      <3>2. QED
        BY <3>1, <1>4 DEF Honest
    <2>3. QED
      BY <1>5, <2>1, <2>2
  <1>8. \E S : out' = [out EXCEPT ![c] = @ \ S]
    BY <1>1
  <1>9. out' \in [Connections -> SUBSET Deliveries] /\ \A k \in Connections : out'[k] \subseteq out[k]
    BY <1>8 DEF TypeOK
  <1>10. lost' \subseteq Users
    <2>1. \/ lost' = lost
          \/ lost' = lost \cup Untold(generation, out[c])
          \/ lost' = lost \cup Untold(generation, {d})
      BY <1>1
    <2>2. Untold(generation, out[c]) \subseteq Users /\ Untold(generation, {d}) \subseteq Users
      BY <1>3, UntoldUsers
    <2>3. QED
      BY <2>1, <2>2 DEF TypeOK
  <1>11. \E stage : /\ pc' = [pc EXCEPT ![c] = stage]
                    /\ stage \in {"route", "farewell", "closing", "idle", "off"}
                    /\ stage \in {"farewell", "off"} => pc[c] = "farewell"
    <2> DEFINE Fine(stage) == /\ stage \in {"route", "farewell", "closing", "idle", "off"}
                              /\ stage \in {"farewell", "off"} => pc[c] = "farewell"
    <2>1. \A rest : Fine(Continues(c, rest)) /\ (pc[c] = "route" => Fine("closing"))
      BY <1>2 DEF Continues, After
    <2>2. \/ \E rest : pc' = [pc EXCEPT ![c] = Continues(c, rest)]
          \/ \E rest : pc' = [pc EXCEPT ![c] = IF @ = "route" THEN "closing" ELSE Continues(c, rest)]
      BY <1>1
    <2>3. \E stage : pc' = [pc EXCEPT ![c] = stage] /\ Fine(stage)
      <3>1. ASSUME NEW rest, pc' = [pc EXCEPT ![c] = Continues(c, rest)]
            PROVE  \E stage : pc' = [pc EXCEPT ![c] = stage] /\ Fine(stage)
        BY <2>1, <3>1
      <3>2. ASSUME NEW rest,
                   pc' = [pc EXCEPT ![c] = IF @ = "route" THEN "closing" ELSE Continues(c, rest)]
            PROVE  \E stage : pc' = [pc EXCEPT ![c] = stage] /\ Fine(stage)
        BY <2>1, <3>2
      <3>3. QED
        BY <2>2, <3>1, <3>2
    <2>4. QED
      BY <2>3
  <1>12. TypeOK'
    BY <1>2, <1>6, <1>9, <1>10, <1>11 DEF TypeOK, store, lease, endpoint, Stages
  <1>13. Held' /\ Alive' /\ Busy'
    BY <1>2, <1>11 DEF Held, Alive, Busy, endpoint, TypeOK
  <1>14. Honest'
    BY <1>2, <1>7, <1>9 DEF Honest
  <1>15. Remembered' /\ JoinBeforeMessage'
    BY <1>2 DEF Remembered, JoinBeforeMessage, endpoint
  <1>16. QED
    BY <1>12, <1>13, <1>14, <1>15

LEMMA RouteNowInv == ASSUME IInv, NEW c \in Connections, RouteNow(c) PROVE IInv'
  <1> USE ChannelAssumption DEF IInv, LeaseInv
  <1>1. PICK d \in out[c] :
          /\ out' = [out EXCEPT ![c] = @ \ {d}]
          /\ delivering' = [delivering EXCEPT ![c] = Remaining(d, Leases(d.to))]
          /\ pc' = [pc EXCEPT ![c] = IF Leases(d.to) = {} THEN Continues(c, out[c] \ {d}) ELSE @]
    BY DEF RouteNow
  <1>2. /\ pc[c] \in {"route", "farewell"} /\ delivering[c] = Nothing
        /\ UNCHANGED <<store, lease, endpoint, holder, pending, present, lost, faults, messages>>
    BY DEF RouteNow, Routing
  <1>3. d \in Deliveries /\ Introduced(d) /\ Leases(d.to) \in SUBSET Connections
    BY LeasesType DEF TypeOK, Honest
  <1> DEFINE rest == Remaining(d, Leases(d.to))
  <1>4. rest \in Delivering /\ rest.at = Free /\ (rest # Nothing => Introduced(rest.delivery))
    BY <1>3, RemainingType
  <1>5. rest # Nothing => Leases(d.to) # {}
    BY DEF Remaining
  <1> HIDE DEF rest
  <1>6. delivering' = [delivering EXCEPT ![c] = rest]
    BY <1>1 DEF rest
  <1>7. \E stage : /\ pc' = [pc EXCEPT ![c] = stage]
                   /\ stage \in {"route", "farewell", "idle", "off"}
                   /\ stage \in {"farewell", "off"} => pc[c] = "farewell"
                   /\ rest # Nothing => stage = pc[c]
    BY <1>1, <1>2, <1>5 DEF Continues, After
  <1>8. TypeOK'
    <2>1. delivering' \in [Threads -> Delivering]
      BY <1>4, <1>6 DEF TypeOK
    <2>2. pc' \in [Connections -> Stages] /\ out' \in [Connections -> SUBSET Deliveries]
      BY <1>1, <1>7 DEF TypeOK, Stages
    <2>3. QED
      BY <1>2, <2>1, <2>2 DEF TypeOK, store, lease, endpoint
  <1>9. Held'
    <2>1. \A t \in Threads : delivering'[t] = IF t = c THEN rest ELSE delivering[t]
      BY <1>6 DEF TypeOK, Threads
    <2>2. holder' = holder /\ writer' = writer
      BY <1>2 DEF endpoint
    <2>3. Free \notin Connections
      BY DEF Threads
    <2>4. QED
      BY <1>4, <2>1, <2>2, <2>3 DEF Held
  <1>10. Alive' /\ Busy'
    BY <1>2, <1>6, <1>7 DEF Alive, Busy, endpoint, TypeOK, Threads
  <1>11. Honest'
    BY <1>1, <1>2, <1>4, <1>6 DEF Honest, TypeOK, Threads
  <1>12. Remembered' /\ JoinBeforeMessage'
    BY <1>2 DEF Remembered, JoinBeforeMessage, endpoint
  <1>13. QED
    BY <1>8, <1>9, <1>10, <1>11, <1>12

LEMMA DequeueInv == ASSUME IInv, Dequeue PROVE IInv'
  <1> USE ChannelAssumption DEF IInv, LeaseInv
  <1> DEFINE entry == Head(pending)
             rest == Remaining(entry.delivery, entry.targets)
  <1>1. pending # <<>> /\ pending \in Seq(Pending)
    BY DEF Dequeue, TypeOK
  <1>2. 1 \in DOMAIN pending /\ entry = pending[1] /\ entry \in Pending
    BY <1>1
  <1>3. /\ pending' = Tail(pending) /\ pending' \in Seq(Pending)
        /\ \A i \in DOMAIN pending' : i + 1 \in DOMAIN pending /\ pending'[i] = pending[i + 1]
    BY <1>1 DEF Dequeue
  <1>4. Introduced(entry.delivery) /\ entry.delivery \in Deliveries
        /\ entry.targets \in SUBSET Connections
    BY <1>2 DEF Honest, Pending
  <1>5. delivering' = [delivering EXCEPT ![Worker] = rest]
    BY DEF Dequeue
  <1> HIDE DEF entry
  <1>6. rest \in Delivering /\ rest.at = Free /\ (rest # Nothing => Introduced(rest.delivery))
    BY <1>4, RemainingType
  <1> HIDE DEF rest
  <1>7. UNCHANGED <<store, pc, lease, endpoint, holder, out, present, lost, faults, messages>>
    BY DEF Dequeue
  <1>8. TypeOK'
    <2>1. delivering' \in [Threads -> Delivering]
      BY <1>5, <1>6 DEF TypeOK
    <2>2. QED
      BY <1>3, <1>7, <2>1 DEF TypeOK, store, lease, endpoint
  <1>9. Held' /\ Alive' /\ Busy'
    BY <1>5, <1>6, <1>7 DEF Held, Alive, Busy, endpoint, TypeOK, Threads
  <1>10. Honest'
    BY <1>3, <1>5, <1>6, <1>7 DEF Honest, TypeOK, Threads
  <1>11. Remembered' /\ JoinBeforeMessage'
    BY <1>7 DEF Remembered, JoinBeforeMessage, endpoint
  <1>12. QED
    BY <1>8, <1>9, <1>10, <1>11

(***************************************************************************)
(* Delivering.                                                             *)
(***************************************************************************)
\* A thread with a delivery goes on with fewer targets.
LEMMA ProceedFacts ==
    ASSUME LeaseInv, Honest, NEW t \in Threads, NEW targets \in SUBSET Connections,
           delivering[t] # Nothing, Proceed(t, targets)
    PROVE  /\ delivering' \in [Threads -> Delivering]
           /\ pc' \in [Connections -> Stages]
           /\ delivering'[t].at = Free
           /\ delivering'[t] # Nothing => targets # {} /\ Introduced(delivering'[t].delivery)
           /\ \A k \in Threads \ {t} : delivering'[k] = delivering[k]
           /\ \A k \in Connections :
                /\ k # t \/ targets # {} => pc'[k] = pc[k]
                /\ pc'[k] \in {"off", "farewell"} => pc[k] \in {"off", "farewell"}
  <1> USE ChannelAssumption DEF LeaseInv
  <1> DEFINE d == delivering[t].delivery
             rest == Remaining(d, targets)
  <1>1. d \in Deliveries /\ Introduced(d)
    BY DEF TypeOK, Delivering, Honest
  <1>2. rest \in Delivering /\ rest.at = Free /\ (rest # Nothing => rest.delivery = d)
    BY <1>1, RemainingType
  <1>3. rest # Nothing => targets # {}
    BY DEF Remaining
  <1>4. delivering' = [delivering EXCEPT ![t] = rest]
    BY DEF Proceed
  <1> HIDE DEF rest
  <1>5. /\ delivering' \in [Threads -> Delivering]
        /\ delivering'[t] = rest
        /\ \A k \in Threads \ {t} : delivering'[k] = delivering[k]
    BY <1>2, <1>4 DEF TypeOK
  <1>6. \A k \in Connections :
          pc'[k] = IF k = t /\ targets = {} THEN Continues(k, out[k]) ELSE pc[k]
    BY DEF Proceed
  <1>7. t \in Connections => pc[t] \in {"route", "farewell"}
    BY DEF Busy
  <1>8. \A k \in Connections :
          /\ pc'[k] \in Stages
          /\ k # t \/ targets # {} => pc'[k] = pc[k]
          /\ pc'[k] \in {"off", "farewell"} => pc[k] \in {"off", "farewell"}
    BY <1>6, <1>7 DEF Continues, After, Stages, TypeOK
  <1>9. pc' \in [Connections -> Stages]
    BY <1>8 DEF Proceed
  <1>10. QED
    BY <1>1, <1>2, <1>3, <1>5, <1>8, <1>9

LEMMA ValidateInv == ASSUME IInv, NEW t \in Threads, Validate(t) PROVE IInv'
  <1> USE ChannelAssumption DEF IInv, LeaseInv
  <1>1. /\ delivering[t].at = Free
        /\ UNCHANGED <<store, lease, endpoint, out, pending, present, messages>>
    BY DEF Validate
  <1>2. PICK c \in delivering[t].targets :
          /\ holder[c] = Free
          /\ \/ Proceed(t, {}) /\ UNCHANGED holder
             \/ Proceed(t, delivering[t].targets \ {c}) /\ UNCHANGED holder
             \/ /\ writer[c]
                /\ delivering' = [delivering EXCEPT ![t].at = c]
                /\ Lock(t, c)
                /\ UNCHANGED pc
    BY DEF Validate
  <1>3. delivering[t] # Nothing
    BY <1>2 DEF Nothing
  <1>4. /\ delivering[t] \in Delivering /\ c \in Connections
        /\ delivering[t].targets \in SUBSET Connections
    BY <1>2, <1>3 DEF TypeOK, Delivering
  <1>5. Remembered' /\ JoinBeforeMessage'
    BY <1>1 DEF Remembered, JoinBeforeMessage, endpoint
  <1>a. lost' \subseteq Users /\ faults' \in 0 .. MaxFaults
    <2>1. delivering[t].delivery \in Deliveries
      BY <1>2, <1>3, <1>4 DEF Delivering
    <2>2. \/ UNCHANGED <<lost, faults>>
          \/ lost' = lost \cup Untold(generation, {delivering[t].delivery}) /\ Fault
      BY DEF Validate, DeliveryThrows
    <2>3. Untold(generation, {delivering[t].delivery}) \subseteq Users
      BY <2>1, UntoldUsers
    <2>4. lost' \subseteq Users
      BY <2>2, <2>3 DEF TypeOK
    <2>5. faults \in 0 .. MaxFaults /\ MaxFaults \in Nat
      BY ChannelAssumption DEF TypeOK
    <2>6. faults' = faults \/ (faults < MaxFaults /\ faults' = faults + 1)
      BY <2>2 DEF Fault
    <2>7. QED
      BY <2>4, <2>5, <2>6
  <1>6. ASSUME NEW targets \in SUBSET Connections, Proceed(t, targets), UNCHANGED holder
        PROVE  IInv'
    <2>1. TypeOK'
      BY <1>1, <1>3, <1>a, <1>6, ProceedFacts DEF TypeOK, store, lease, endpoint
    <2>2. Held'
      BY <1>1, <1>3, <1>6, ProceedFacts DEF Held, endpoint
    <2>3. Alive' /\ Busy'
      BY <1>1, <1>3, <1>6, ProceedFacts DEF Alive, Busy, endpoint, Threads
    <2>4. Honest'
      BY <1>1, <1>3, <1>6, ProceedFacts DEF Honest
    <2>5. QED
      BY <1>5, <2>1, <2>2, <2>3, <2>4
  <1>7. CASE /\ writer[c]
             /\ delivering' = [delivering EXCEPT ![t].at = c]
             /\ Lock(t, c)
             /\ UNCHANGED pc
    <2> DEFINE held == [delivering[t] EXCEPT !.at = c]
    <2>1. held \in Delivering /\ held.at = c /\ held.delivery = delivering[t].delivery /\ held # Nothing
      BY <1>3, <1>4 DEF Delivering, Nothing
    <2> HIDE DEF held
    <2>2. delivering' = [delivering EXCEPT ![t] = held]
      BY <1>7 DEF held
    <2>3. holder' = [holder EXCEPT ![c] = t]
      BY <1>7 DEF Lock
    <2>4. TypeOK'
      <3>1. delivering' \in [Threads -> Delivering] /\ holder' \in [Connections -> Threads \cup {Free}]
        BY <2>1, <2>2, <2>3 DEF TypeOK
      <3>2. QED
        BY <1>1, <1>a, <1>7, <3>1 DEF TypeOK, store, lease, endpoint
    <2>5. Held'
      <3> SUFFICES ASSUME NEW k \in Threads, NEW e \in Connections, delivering'[k].at = e
                   PROVE  holder'[e] = k /\ writer'[e]
        BY DEF Held
      <3>1. CASE k = t
        BY <1>1, <1>4, <1>7, <2>1, <2>2, <2>3, <3>1 DEF TypeOK, endpoint
      <3>2. CASE k # t
        <4>1. holder[e] = k /\ writer[e]
          BY <2>2, <3>2 DEF TypeOK, Held
        <4>2. e # c
          BY <1>2, <4>1
        <4>3. QED
          BY <1>1, <2>3, <4>1, <4>2 DEF TypeOK, endpoint
      <3>3. QED
        BY <3>1, <3>2
    <2>6. Alive' /\ Busy'
      BY <1>1, <1>3, <1>7, <2>2 DEF Alive, Busy, endpoint, TypeOK, Threads
    <2>7. Honest'
      BY <1>1, <1>3, <2>1, <2>2 DEF Honest, TypeOK
    <2>8. QED
      BY <1>5, <2>4, <2>5, <2>6, <2>7
  <1>8. QED
    BY <1>2, <1>4, <1>6, <1>7

\* What a write does to the endpoint's memory and to its client.
LEMMA JoinWrittenFacts ==
    ASSUME TypeOK, Remembered, NEW c \in Connections, NEW d \in Deliveries, JoinWritten(c, d)
    PROVE  /\ joins' \in [Connections -> [Users -> Joins]]
           /\ roster' \in [Connections -> [Users -> 0 .. MaxRevision]]
           /\ Remembered'
           /\ roster'[c][d.actor] = d.recipient
  <1>1. d.actor \in Users /\ Join(d) \in Joins /\ Join(d).recipient = d.recipient
        /\ d.recipient \in 0 .. MaxRevision
    BY DEF Deliveries, Join, Joins
  <1>2. /\ joins' = [joins EXCEPT ![c][d.actor] = Join(d)]
        /\ roster' = [roster EXCEPT ![c][d.actor] = d.recipient]
    BY DEF JoinWritten
  <1>3. QED
    BY <1>1, <1>2 DEF TypeOK, Remembered

LEMMA LeaveWrittenFacts ==
    ASSUME TypeOK, Remembered, NEW c \in Connections, NEW d \in Deliveries, LeaveWritten(c, d)
    PROVE  /\ joins' \in [Connections -> [Users -> Joins]]
           /\ roster' \in [Connections -> [Users -> 0 .. MaxRevision]]
           /\ Remembered'
  <1>1. d.actor \in Users /\ Unjoined \in Joins /\ Unjoined.recipient = 0 /\ 0 \in 0 .. MaxRevision
    BY ChannelAssumption DEF Deliveries, Unjoined, Joins
  <1>2. /\ joins' = [joins EXCEPT ![c][d.actor] = Unjoined]
        /\ roster' = [roster EXCEPT ![c][d.actor] = 0]
    BY DEF LeaveWritten
  <1>3. QED
    BY <1>1, <1>2 DEF TypeOK, Remembered

LEMMA WrittenInv ==
    ASSUME IInv, NEW t \in Threads, NEW c \in Connections, delivering[t].at = c, Written(t, c),
           joins' \in [Connections -> [Users -> Joins]],
           roster' \in [Connections -> [Users -> 0 .. MaxRevision]],
           Remembered', orphans' = {}, faults' \in 0 .. MaxFaults,
           UNCHANGED writer \/ writer' = [writer EXCEPT ![c] = FALSE]
    PROVE  IInv'
  <1> USE ChannelAssumption DEF IInv, LeaseInv
  <1>1. delivering[t] # Nothing
    BY DEF Nothing, Threads
  <1>2. delivering[t].targets \in SUBSET Connections
    BY <1>1 DEF TypeOK, Delivering
  <1> DEFINE targets == delivering[t].targets \ {c}
  <1>3. /\ Proceed(t, targets) /\ targets \in SUBSET Connections
        /\ holder' = [holder EXCEPT ![c] = Free]
        /\ UNCHANGED <<store, lease, out, pending, present, lost, messages>>
    BY <1>2 DEF Written, Unlocked
  <1> HIDE DEF targets
  <1>4. TypeOK'
    <2>1. writer' \in [Connections -> BOOLEAN] /\ holder' \in [Connections -> Threads \cup {Free}]
      BY <1>3 DEF TypeOK
    <2>2. QED
      BY <1>1, <1>3, <2>1, ProceedFacts DEF TypeOK, store, lease
  <1>5. Held'
    <2> SUFFICES ASSUME NEW k \in Threads, NEW e \in Connections, delivering'[k].at = e
                 PROVE  holder'[e] = k /\ writer'[e]
      BY DEF Held
    <2>1. k # t /\ delivering'[k] = delivering[k]
      BY <1>1, <1>3, ProceedFacts DEF Threads
    <2>2. holder[e] = k /\ writer[e] /\ holder[c] = t
      BY <2>1 DEF Held
    <2>3. e # c
      BY <2>1, <2>2
    <2>4. QED
      BY <1>3, <2>2, <2>3 DEF TypeOK
  <1>6. Alive' /\ Busy'
    <2>1. \A e \in Connections : writer'[e] => writer[e]
      BY DEF TypeOK
    <2>2. /\ delivering'[t] # Nothing => targets # {}
          /\ \A k \in Threads \ {t} : delivering'[k] = delivering[k]
          /\ \A k \in Connections :
               /\ k # t \/ targets # {} => pc'[k] = pc[k]
               /\ pc'[k] \in {"off", "farewell"} => pc[k] \in {"off", "farewell"}
      BY <1>1, <1>3, ProceedFacts
    <2>3. Alive'
      BY <2>1, <2>2 DEF Alive
    <2>4. Busy'
      BY <1>1, <2>2 DEF Busy, Threads
    <2>5. QED
      BY <2>3, <2>4
  <1>7. Honest'
    BY <1>1, <1>3, ProceedFacts DEF Honest
  <1>8. QED
    BY <1>4, <1>5, <1>6, <1>7 DEF JoinBeforeMessage

LEMMA WriteInv == ASSUME IInv, NEW t \in Threads, Write(t) PROVE IInv'
  <1> USE ChannelAssumption DEF IInv, LeaseInv
  <1> DEFINE d == delivering[t].delivery
  <1>1. PICK c \in Connections :
          /\ delivering[t].at = c
          /\ \/ d.kind = "join" /\ JoinWritten(c, d)
             \/ d.kind = "leave" /\ LeaveWritten(c, d)
             \/ d.kind = "message" /\ MissingJoin(c, d) /\ JoinWritten(c, d)
             \/ d.kind = "message" /\ ~MissingJoin(c, d) /\ UNCHANGED <<joins, roster>>
          /\ orphans' = orphans \cup {k \in {c} : Stranger(roster'[k], d)}
          /\ UNCHANGED <<writer, faults>>
          /\ Written(t, c)
    BY DEF Write
  <1>2. d \in Deliveries /\ Introduced(d)
    <2>1. delivering[t] # Nothing
      BY <1>1 DEF Nothing, Threads
    <2>2. QED
      BY <2>1 DEF TypeOK, Delivering, Honest
  <1> HIDE DEF d
  <1>3. /\ joins' \in [Connections -> [Users -> Joins]]
        /\ roster' \in [Connections -> [Users -> 0 .. MaxRevision]]
        /\ Remembered'
    <2>1. CASE JoinWritten(c, d)
      BY <1>2, <2>1, JoinWrittenFacts
    <2>2. CASE LeaveWritten(c, d)
      BY <1>2, <2>2, LeaveWrittenFacts
    <2>3. CASE UNCHANGED <<joins, roster>>
      BY <2>3 DEF TypeOK, Remembered
    <2>4. QED
      BY <1>1, <2>1, <2>2, <2>3
  <1>4. ~Stranger(roster'[c], d)
    <2>1. CASE d.kind # "message"
      BY <2>1 DEF Stranger
    <2>2. CASE d.kind = "message" /\ JoinWritten(c, d)
      BY <1>2, <2>2, JoinWrittenFacts DEF Stranger
    <2>3. CASE d.kind = "message" /\ ~MissingJoin(c, d) /\ UNCHANGED <<joins, roster>>
      <3>1. d.actor \in Users
        BY <1>2 DEF Deliveries
      <3>2. CASE d.introduces
        <4>1. joins[c][d.actor] = Join(d)
          BY <2>3, <3>2 DEF MissingJoin, Joined
        <4>2. roster[c][d.actor] = d.recipient
          <5>1. roster[c][d.actor] = joins[c][d.actor].recipient
            BY <3>1 DEF Remembered
          <5>2. Join(d).recipient = d.recipient
            BY DEF Join
          <5>3. QED
            BY <4>1, <5>1, <5>2
        <4>3. QED
          BY <2>3, <4>2 DEF Stranger
      <3>3. CASE ~d.introduces
        BY <1>2, <3>3 DEF Introduced, Stranger
      <3>4. QED
        BY <3>2, <3>3
    <2>4. QED
      BY <1>1, <2>1, <2>2, <2>3
  <1>5. orphans' = {}
    BY <1>1, <1>4 DEF JoinBeforeMessage
  <1>6. faults' \in 0 .. MaxFaults
    BY <1>1 DEF TypeOK
  <1>7. QED
    BY <1>1, <1>3, <1>5, <1>6, WrittenInv

LEMMA WriteFailsInv == ASSUME IInv, NEW t \in Threads, WriteFails(t) PROVE IInv'
  <1> USE ChannelAssumption DEF IInv, LeaseInv
  <1> DEFINE d == delivering[t].delivery
  <1>1. PICK c \in Connections :
          /\ delivering[t].at = c
          /\ JoinWritten(c, d) \/ UNCHANGED <<joins, roster>>
          /\ writer' = [writer EXCEPT ![c] = FALSE]
          /\ Fault
          /\ UNCHANGED orphans
          /\ Written(t, c)
    BY DEF WriteFails
  <1>2. d \in Deliveries
    BY <1>1 DEF TypeOK, Delivering, Nothing, Threads
  <1> HIDE DEF d
  <1>3. /\ joins' \in [Connections -> [Users -> Joins]]
        /\ roster' \in [Connections -> [Users -> 0 .. MaxRevision]]
        /\ Remembered'
    <2>1. CASE JoinWritten(c, d)
      BY <1>2, <2>1, JoinWrittenFacts
    <2>2. CASE UNCHANGED <<joins, roster>>
      BY <2>2 DEF TypeOK, Remembered
    <2>3. QED
      BY <1>1, <2>1, <2>2
  <1>4. orphans' = {} /\ faults' \in 0 .. MaxFaults
    BY <1>1 DEF JoinBeforeMessage, Fault, TypeOK
  <1>5. QED
    BY <1>1, <1>3, <1>4, WrittenInv

(***************************************************************************)
(* RosterAgrees: what is on its way.                                       *)
(***************************************************************************)
\* A client is told of v as before when nothing about either changed, no thread came to its
\* endpoint, and what was on its way still is.
LEMMA ToldKept ==
    ASSUME NEW c \in Connections, NEW v \in Users \ {UserOf[c]}, Told(c, v),
           generation'[UserOf[c]] = generation[UserOf[c]], generation'[v] = generation[v],
           roster'[c][v] = roster[c][v], c \in present' => c \in present,
           \A t \in Threads : delivering'[t].at = c =>
               delivering[t].at = c /\ delivering'[t].delivery = delivering[t].delivery,
           \A t \in Threads : delivering[t].at = c => delivering'[t].at = c,
           \A d \in Deliveries : \A kind \in {"join", "leave"} :
               Targeted(d, c) /\ Announces(d, kind, c, v) => Targeted(d, c)'
    PROVE  Told(c, v)'
  <1>1. ASSUME NEW kind \in {"join", "leave"}, Coming(kind, c, v) PROVE Coming(kind, c, v)'
    <2>1. PICK d \in Deliveries : Targeted(d, c) /\ Announces(d, kind, c, v)
      BY <1>1 DEF Coming
    <2>2. Targeted(d, c)'
      BY <2>1
    <2>3. Announces(d, kind, c, v)'
      BY <2>1 DEF Announces
    <2>4. QED
      BY <2>2, <2>3 DEF Coming
  <1>2. Knows(c, v)' => Knows(c, v)
    BY DEF Knows, At, Enters
  <1>3. Settles(c, v) => Settles(c, v)'
    BY DEF Settles, At, Enters
  <1>4. QED
    BY <1>1, <1>2, <1>3 DEF Told

LEMMA InFlightTyped ==
    ASSUME TypeOK
    PROVE  /\ \A i \in DOMAIN pending :
                 pending[i].delivery \in Deliveries /\ pending[i].targets \in SUBSET Connections
           /\ \A t \in Threads :
                 /\ delivering[t].targets \in SUBSET Connections
                 /\ delivering[t] # Nothing => delivering[t].delivery \in Deliveries
  <1>1. pending \in Seq(Pending) /\ delivering \in [Threads -> Delivering]
    BY DEF TypeOK
  <1>2. \A i \in DOMAIN pending : pending[i] \in Pending
    BY <1>1
  <1>3. \A t \in Threads : delivering[t] \in Delivering
    BY <1>1
  <1>4. \A i \in DOMAIN pending :
           pending[i].delivery \in Deliveries /\ pending[i].targets \in SUBSET Connections
    BY <1>2 DEF Pending
  <1>5. ASSUME NEW t \in Threads
        PROVE  /\ delivering[t].targets \in SUBSET Connections
               /\ delivering[t] # Nothing => delivering[t].delivery \in Deliveries
    <2>1. CASE delivering[t] = Nothing
      BY <2>1 DEF Nothing
    <2>2. CASE delivering[t] # Nothing
      BY <1>3, <2>2 DEF Delivering
    <2>3. QED
      BY <2>1, <2>2
  <1>6. QED
    BY <1>4, <1>5

\* A step that sends nothing new keeps the stamps.
LEMMA StampedKept ==
    ASSUME Stamped, UNCHANGED store,
           \A c \in Connections : \A v \in Users : roster'[c][v] <= revision,
           \A c \in Connections : \A d \in out'[c] : Past(d),
           \A i \in DOMAIN pending' : Past(pending'[i].delivery),
           \A t \in Threads : delivering'[t] # Nothing => Past(delivering'[t].delivery)
    PROVE  Stamped'
  BY DEF Stamped, store, Past

(***************************************************************************)
(* RosterAgrees: requests.                                                 *)
(***************************************************************************)
\* What a request has to say of the membership it leaves behind.
Announced(c, members, last, ds) ==
    /\ members \in Memberships /\ ds \subseteq Deliveries /\ last \in Nat /\ revision <= last
    /\ \A w \in Users :
         \/ members[w] \in {0, generation[w]}
         \/ members[w] = last /\ last > revision
    /\ \A d \in ds : d.recipient <= last /\ (d.kind # "leave" => d.gen # 0)
    /\ \A v, w \in Users :
         v # w /\ members[w] = generation[w] /\ members[w] # 0 =>
           /\ members[v] = 0 /\ generation[v] # 0 =>
                \E d \in ds : /\ d.kind = "leave" /\ d.actor = v
                              /\ d.to = w /\ d.recipient = members[w]
           /\ members[v] \notin {0, generation[v]} =>
                \E d \in ds : /\ d.kind = "join" /\ d.actor = v /\ d.gen = members[v]
                              /\ d.to = w /\ d.recipient = members[w]
    /\ \A w \in Users : members[w] = generation[w] /\ w \in lost => w \in lost'
    /\ Unanswered(c, members, ds) \subseteq lost'
    /\ \A k \in Connections :
         members[UserOf[k]] = generation[UserOf[k]] /\ k \in present' => k \in present
    /\ present' \subseteq endpoints

LEMMA DispatchedSide ==
    ASSUME IInv, Side, NEW c \in Connections, NEW members, NEW last, NEW ds,
           Dispatched(c, members, last, ds), Announced(c, members, last, ds)
    PROVE  Side'
  <1> USE ChannelAssumption DEF IInv, LeaseInv, Side
  <1>1. /\ UNCHANGED <<endpoints, valid, writer, joins, roster, orphans, holder, delivering, pending>>
        /\ generation' = members /\ revision' = last
        /\ pc[c] \in {"idle", "late"}
        /\ \/ /\ pc' = [pc EXCEPT ![c] = IF ds = {} THEN "idle" ELSE "route"]
              /\ out' = [out EXCEPT ![c] = ds]
           \/ pc' = [pc EXCEPT ![c] = "closing"] /\ UNCHANGED out
    BY DEF Dispatched, lease, endpoint
  <1>2. /\ revision \in Nat /\ last \in Nat /\ revision <= last
        /\ \A w \in Users : generation[w] \in Nat /\ members[w] \in Nat /\ members[w] <= last
    <2>1. revision \in Nat /\ last \in Nat /\ revision <= last
      BY DEF TypeOK, Announced
    <2> SUFFICES ASSUME NEW w \in Users
                 PROVE  generation[w] \in Nat /\ members[w] \in Nat /\ members[w] <= last
      BY <2>1
    <2>2. generation[w] \in Nat /\ generation[w] <= revision /\ members[w] \in Nat
      BY DEF TypeOK, Announced, Memberships, Stamped
    <2>3. members[w] \in {0, generation[w]} \/ members[w] = last
      BY DEF Announced
    <2>4. QED
      BY <2>1, <2>2, <2>3
  <1>3. \A d \in Deliveries : Past(d) => Past(d)'
    BY <1>1, <1>2 DEF Past, Deliveries
  <1>4. \A k \in Connections : \A d \in out'[k] : Past(d)'
    <2> SUFFICES ASSUME NEW k \in Connections, NEW d \in out'[k] PROVE Past(d)'
      OBVIOUS
    <2>1. d \in out[k] \/ d \in ds
      BY <1>1 DEF TypeOK
    <2>2. CASE d \in out[k]
      BY <1>3, <2>2 DEF Stamped, TypeOK
    <2>3. CASE d \in ds
      BY <1>1, <2>3 DEF Announced, Past
    <2>4. QED
      BY <2>1, <2>2, <2>3
  <1>5. Stamped'
    <2>1. \A k \in Connections : \A v \in Users : roster'[k][v] <= revision'
      BY <1>1, <1>2 DEF Stamped, TypeOK
    <2>2. (\A i \in DOMAIN pending : Past(pending[i].delivery))'
      <3>1. \A i \in DOMAIN pending : pending[i].delivery \in Deliveries
        BY InFlightTyped
      <3>2. \A i \in DOMAIN pending : Past(pending[i].delivery)
        BY DEF Stamped
      <3>3. QED
        BY <1>1, <1>2, <3>1, <3>2 DEF Past, Deliveries
    <2>3. (\A t \in Threads : delivering[t] # Nothing => Past(delivering[t].delivery))'
      <3>1. \A t \in Threads : delivering[t] # Nothing => delivering[t].delivery \in Deliveries
        BY InFlightTyped
      <3>2. \A t \in Threads : delivering[t] # Nothing => Past(delivering[t].delivery)
        BY DEF Stamped
      <3>3. QED
        BY <1>1, <1>2, <3>1, <3>2 DEF Past, Deliveries
    <2>5. \A w \in Users : generation'[w] <= revision'
      BY <1>1, <1>2
    <2>4. QED
      BY <1>4, <2>1, <2>2, <2>3, <2>5 DEF Stamped
  <1>6. Addressed'
    BY <1>1 DEF Addressed
  <1>7. Places'
    <2>1. present' \subseteq endpoints'
      BY <1>1 DEF Announced
    <2>2. pc \in [Connections -> Stages] /\ out \in [Connections -> SUBSET Deliveries]
      BY DEF TypeOK
    <2>3. \A k \in Connections \ {c} : pc'[k] = pc[k] /\ out'[k] = out[k]
      BY <1>1, <2>2
    <2>4. /\ pc'[c] \in {"idle", "route", "closing"}
          /\ pc'[c] \in {"idle", "closing"} => out'[c] = {}
      <3>1. CASE pc' = [pc EXCEPT ![c] = IF ds = {} THEN "idle" ELSE "route"]
                   /\ out' = [out EXCEPT ![c] = ds]
        BY <2>2, <3>1
      <3>2. CASE pc' = [pc EXCEPT ![c] = "closing"] /\ UNCHANGED out
        BY <1>1, <2>2, <3>2 DEF Places
      <3>3. QED
        BY <1>1, <3>1, <3>2
    <2>5. UNCHANGED <<roster, endpoints>> /\ pc[c] \in {"idle", "late"}
      BY <1>1
    <2>6. QED
      BY <2>1, <2>3, <2>4, <2>5 DEF Places
  <1>8. QED
    BY <1>5, <1>6, <1>7

LEMMA DispatchedTold ==
    ASSUME IInv, Side, AllTold, NEW c \in Connections, NEW members, NEW last, NEW ds,
           Dispatched(c, members, last, ds), Announced(c, members, last, ds)
    PROVE  AllTold'
  <1> USE ChannelAssumption DEF IInv, LeaseInv, Side
  <1> SUFFICES ASSUME NEW k \in Connections, NEW v \in Users \ {UserOf[k]}, Listening(k)'
               PROVE  Told(k, v)'
    BY DEF AllTold
  <1> DEFINE own == UserOf[k]
  <1>1. /\ UNCHANGED <<endpoints, valid, writer, joins, roster, orphans, holder, delivering, pending>>
        /\ generation' = members /\ revision' = last
        /\ pc[c] \in {"idle", "late"}
        /\ \/ /\ pc' = [pc EXCEPT ![c] = IF ds = {} THEN "idle" ELSE "route"]
              /\ out' = [out EXCEPT ![c] = ds]
           \/ pc' = [pc EXCEPT ![c] = "closing"] /\ UNCHANGED out
    BY DEF Dispatched, lease, endpoint
  <1>2. /\ own \in Users /\ v \in Users /\ v # own
        /\ members[own] # 0 /\ own \notin lost'
        /\ \A e \in Users : /\ generation[e] \in Nat /\ members[e] \in Nat
                            /\ generation[e] <= revision
                            /\ members[e] \in {0, generation[e]}
                                 \/ (members[e] = last /\ last > revision)
        /\ revision \in Nat /\ last \in Nat /\ revision <= last
    <2>1. own \in Users /\ v \in Users /\ v # own
      OBVIOUS
    <2>2. members[own] # 0 /\ own \notin lost'
      BY <1>1 DEF Listening
    <2>3. revision \in Nat /\ last \in Nat /\ revision <= last
      BY DEF TypeOK, Announced
    <2>4. ASSUME NEW e \in Users
          PROVE  /\ generation[e] \in Nat /\ members[e] \in Nat
                 /\ generation[e] <= revision
                 /\ members[e] \in {0, generation[e]} \/ (members[e] = last /\ last > revision)
      <3>1. generation[e] \in Nat /\ members[e] \in Nat
        BY DEF TypeOK, Announced, Memberships
      <3>2. generation[e] <= revision
        BY DEF Stamped
      <3>3. members[e] \in {0, generation[e]} \/ (members[e] = last /\ last > revision)
        BY Zenon DEF Announced
      <3>4. QED
        BY <3>1, <3>2, <3>3
    <2>5. QED
      BY <2>1, <2>2, <2>3, <2>4
  <1> HIDE DEF own
  <1>3. CASE members[own] # generation[own]
    <2>1. members[own] = last /\ last > revision
      BY <1>2, <1>3
    <2>2. roster[k][v] <= revision /\ roster[k][v] \in Nat
      <3>1. roster[k] \in [Users -> 0 .. MaxRevision]
        BY DEF TypeOK
      <3>2. QED
        BY <1>2, <3>1 DEF Stamped
    <2>3. \A t \in Threads : delivering[t].at = k => delivering[t].delivery.recipient # last
      <3> SUFFICES ASSUME NEW t \in Threads, delivering[t].at = k
                   PROVE  delivering[t].delivery.recipient # last
        OBVIOUS
      <3>1. delivering[t] # Nothing
        BY DEF Nothing, Threads
      <3>2. delivering[t].delivery \in Deliveries /\ Past(delivering[t].delivery)
        BY <3>1, InFlightTyped DEF Stamped
      <3>3. QED
        BY <1>2, <2>1, <3>2 DEF Past, Deliveries
    <2>4. ~Knows(k, v)'
      BY <1>1, <1>2, <2>1, <2>2, <2>3 DEF Knows, At, Enters, own
    <2>5. ~(generation'[v] > generation'[own])
      BY <1>1, <1>2, <2>1
    <2>6. QED
      BY <2>4, <2>5 DEF Told, own
  <1>4. CASE members[own] = generation[own]
    <2>1. own \notin lost /\ own \notin Unanswered(c, members, ds)
      BY <1>2, <1>4 DEF Announced
    <2>2. Told(k, v)
      <3>1. Listening(k)
        BY <1>1, <1>2, <1>4, <2>1 DEF Listening, own
      <3>2. QED
        BY <3>1 DEF AllTold
    <2>3. out[c] = {}
      BY <1>1 DEF Places
    <2>4. \A e \in Connections : out[e] \subseteq out'[e]
      BY <1>1, <2>3 DEF TypeOK
    <2>5. CASE members[v] = generation[v]
      <3>1. \A d \in Deliveries : Targeted(d, k) => Targeted(d, k)'
        BY <1>1, <2>4 DEF Targeted
      <3>2. k \in present' => k \in present
        BY <1>4 DEF Announced, own
      <3>3. QED
        BY <1>1, <1>2, <1>4, <2>2, <2>5, <3>1, <3>2, ToldKept DEF own
    <2>6. ASSUME NEW d \in ds, d.kind # "message", d.to = own, d.recipient = members[own]
          PROVE  d \in Deliveries /\ Targeted(d, k)'
      <3>2. pc'[c] # "closing"
        BY <2>1, <2>6 DEF Unanswered, Untold
      <3>3. out' = [out EXCEPT ![c] = ds]
        BY <1>1, <3>2 DEF TypeOK
      <3>4. d \in out'[c]
        BY <3>3 DEF TypeOK
      <3>5. QED
        BY <2>6, <3>4 DEF Targeted, Announced, own
    <2>7. CASE members[v] # generation[v] /\ members[v] = 0
      <3>1. PICK d \in ds : /\ d.kind = "leave" /\ d.actor = v
                            /\ d.to = own /\ d.recipient = members[own]
        BY <1>2, <1>4, <2>7 DEF Announced
      <3>2. Announces(d, "leave", k, v)'
        BY <1>1, <3>1 DEF Announces, own
      <3>3. Coming("leave", k, v)'
        BY <2>6, <3>1, <3>2 DEF Coming
      <3>4. ~(generation'[v] > generation'[own])
        BY <1>1, <1>2, <2>7
      <3>5. QED
        BY <3>3, <3>4 DEF Told, own
    <2>8. CASE members[v] # generation[v] /\ members[v] # 0
      <3>1. PICK d \in ds : /\ d.kind = "join" /\ d.actor = v /\ d.gen = members[v]
                            /\ d.to = own /\ d.recipient = members[own]
        BY <1>2, <1>4, <2>8 DEF Announced
      <3>2. Announces(d, "join", k, v)'
        BY <1>1, <3>1 DEF Announces, own
      <3>3. Coming("join", k, v)'
        BY <2>6, <3>1, <3>2 DEF Coming
      <3>4. generation'[v] # 0
        BY <1>1, <2>8
      <3>5. QED
        BY <3>3, <3>4 DEF Told
    <2>9. QED
      BY <2>5, <2>7, <2>8
  <1>5. QED
    BY <1>3, <1>4

\* Everybody who stays is told of everybody who went.
LEMMA DeparturesTell ==
    ASSUME TypeOK, Stamped, NEW S \in SUBSET Users
    PROVE  LET members == Without(generation, S) IN
           /\ \A v \in S, w \in Users : v # w /\ members[w] # 0 =>
                \E d \in Departures(generation, S) :
                    d.kind = "leave" /\ d.actor = v /\ d.to = w /\ d.recipient = members[w]
           /\ \A d \in Departures(generation, S) : d.kind = "leave" /\ d.recipient <= revision
  <1> DEFINE members == Without(generation, S)
  <1>1. \A w \in Users : members[w] = IF w \in S THEN 0 ELSE generation[w]
    BY DEF Without
  <1>2. DOMAIN members = Users
    BY DEF Without
  <1>3. \A w \in Users : members[w] \in Nat /\ members[w] <= revision
    <2>1. revision \in Nat /\ \A w \in Users : generation[w] \in Nat
      BY DEF TypeOK
    <2>2. \A w \in Users : generation[w] <= revision
      BY DEF Stamped
    <2> HIDE DEF members
    <2>3. QED
      BY <1>1, <2>1, <2>2
  <1> HIDE DEF members
  <1>4. ASSUME NEW v \in S, NEW w \in Users, v # w, members[w] # 0
        PROVE  \E d \in Departures(generation, S) :
                   d.kind = "leave" /\ d.actor = v /\ d.to = w /\ d.recipient = members[w]
    <2> DEFINE d == [to |-> w, kind |-> "leave", actor |-> v, gen |-> generation[v],
                     recipient |-> members[w], introduces |-> FALSE]
    <2>1. w \in MembersOf(members) \ {v}
      BY <1>2, <1>4 DEF MembersOf
    <2>2. d \in notifyMembership(members, "leave", v, generation[v])
      BY <2>1 DEF notifyMembership
    <2>3. d \in Departures(generation, S)
      BY <2>2 DEF Departures, members
    <2>4. QED
      BY <2>3
  <1>5. ASSUME NEW d \in Departures(generation, S)
        PROVE  d.kind = "leave" /\ d.recipient <= revision
    <2>1. PICK v \in S : d \in notifyMembership(members, "leave", v, generation[v])
      BY DEF Departures, members
    <2>2. PICK w \in MembersOf(members) : d = [to |-> w, kind |-> "leave", actor |-> v,
              gen |-> generation[v], recipient |-> members[w], introduces |-> FALSE]
      BY <2>1 DEF notifyMembership
    <2>3. QED
      BY <1>2, <1>3, <2>2 DEF MembersOf
  <1>6. QED
    BY <1>4, <1>5 DEF members

LEMMA NotifyTells ==
    ASSUME NEW members \in Memberships, NEW u \in Users, NEW gen
    PROVE  LET told == notifyMembership(members, "join", u, gen) IN
           /\ \A w \in Users : w # u /\ members[w] # 0 =>
                \E d \in told : /\ d.kind = "join" /\ d.actor = u /\ d.gen = gen
                                /\ d.to = w /\ d.recipient = members[w]
           /\ \A d \in told : d.gen = gen /\ \E w \in Users : d.recipient = members[w]
  <1>1. MembersOf(members) = {w \in Users : members[w] # 0}
    BY DEF MembersOf, Memberships
  <1>2. ASSUME NEW w \in Users, w # u, members[w] # 0
        PROVE  \E d \in notifyMembership(members, "join", u, gen) :
                   /\ d.kind = "join" /\ d.actor = u /\ d.gen = gen
                   /\ d.to = w /\ d.recipient = members[w]
    <2> DEFINE d == [to |-> w, kind |-> "join", actor |-> u, gen |-> gen,
                     recipient |-> members[w], introduces |-> FALSE]
    <2>1. d \in notifyMembership(members, "join", u, gen)
      BY <1>1, <1>2 DEF notifyMembership
    <2>2. QED
      BY <2>1
  <1>3. ASSUME NEW d \in notifyMembership(members, "join", u, gen)
        PROVE  d.gen = gen /\ \E w \in Users : d.recipient = members[w]
    BY <1>1 DEF notifyMembership
  <1>4. QED
    BY <1>2, <1>3

\* A request that only sweeps, and may send messages besides.
LEMMA SweepAnnounced ==
    ASSUME IInv, Side, NEW c \in Connections, NEW S \in SUBSET Users, NEW last \in Nat,
           NEW ds \in SUBSET Deliveries,
           revision <= last, Departures(generation, S) \subseteq ds,
           \A d \in ds : d.recipient <= revision /\ (d.kind # "leave" => d.gen # 0),
           lost' = lost \cup Unanswered(c, Without(generation, S), ds), UNCHANGED present
    PROVE  Announced(c, Without(generation, S), last, ds)
  <1> DEFINE members == Without(generation, S)
  <1>1. TypeOK /\ Stamped /\ Places
    BY DEF IInv, LeaseInv, Side
  <1>2. members \in Memberships
    BY <1>1, WithoutType DEF TypeOK, Memberships
  <1>3. \A w \in Users : members[w] = IF w \in S THEN 0 ELSE generation[w]
    BY DEF Without
  <1>4. \A v \in S, w \in Users : v # w /\ members[w] # 0 =>
            \E d \in ds : d.kind = "leave" /\ d.actor = v /\ d.to = w /\ d.recipient = members[w]
    BY <1>1, DeparturesTell
  <1>5. revision \in Nat /\ \A d \in ds : d.recipient \in Nat
    BY <1>1 DEF TypeOK, Deliveries
  <1>6. \A d \in ds : d.recipient <= last
    BY <1>5
  <1> HIDE DEF members
  <1>7. \A v, w \in Users :
         v # w /\ members[w] = generation[w] /\ members[w] # 0 =>
           /\ members[v] = 0 /\ generation[v] # 0 =>
                \E d \in ds : /\ d.kind = "leave" /\ d.actor = v
                              /\ d.to = w /\ d.recipient = members[w]
           /\ members[v] \in {0, generation[v]}
    BY <1>3, <1>4
  <1>8. /\ \A w \in Users : members[w] \in {0, generation[w]}
        /\ \A w \in Users : w \in lost => w \in lost'
        /\ Unanswered(c, members, ds) \subseteq lost'
        /\ present' \subseteq endpoints
    BY <1>1, <1>3 DEF Places, members
  <1>9. Announced(c, members, last, ds)
    BY <1>2, <1>6, <1>7, <1>8 DEF Announced
  <1>10. QED
    BY <1>9 DEF members

LEMMA MessagesTell ==
    ASSUME TypeOK, Stamped, NEW S \in SUBSET Users, NEW u \in Users,
           Without(generation, S)[u] # 0, NEW targets \in SUBSET Users
    PROVE  \A d \in Messages(Without(generation, S), u, targets) :
               d.recipient <= revision /\ d.gen # 0
  <1> DEFINE members == Without(generation, S)
  <1>1. \A w \in Users : members[w] = IF w \in S THEN 0 ELSE generation[w]
    BY DEF Without
  <1>2. revision \in Nat /\ \A w \in Users : generation[w] \in Nat
    BY DEF TypeOK
  <1>3. \A w \in Users : generation[w] <= revision
    BY DEF Stamped
  <1> HIDE DEF members
  <1>4. \A w \in Users : members[w] <= revision
    BY <1>1, <1>2, <1>3
  <1>5. ASSUME NEW d \in Messages(members, u, targets) PROVE d.recipient <= revision /\ d.gen # 0
    <2>1. PICK w \in targets : d = [to |-> w, kind |-> "message", actor |-> u,
              gen |-> members[u], recipient |-> members[w],
              introduces |-> Introduces(members, u, w)]
      BY DEF Messages
    <2>2. members[u] # 0
      BY DEF members
    <2>3. QED
      BY <1>4, <2>1, <2>2
  <1>6. QED
    BY <1>5 DEF members

\* A request that lets its user join, after a sweep.
LEMMA JoinAnnounced ==
    ASSUME IInv, Side, NEW c \in Connections, NEW S \in SUBSET Users, NEW last \in Nat,
           last > revision, last <= MaxRevision,
           lost' = (lost \ {UserOf[c]}) \cup
               Unanswered(c, [Without(generation, S) EXCEPT ![UserOf[c]] = last],
                   Departures(generation, S) \cup
                   notifyMembership([Without(generation, S) EXCEPT ![UserOf[c]] = last],
                                    "join", UserOf[c], last)),
           present' = {k \in present : UserOf[k] # UserOf[c]} \cup Leases(UserOf[c])
    PROVE  Announced(c, [Without(generation, S) EXCEPT ![UserOf[c]] = last], last,
                   Departures(generation, S) \cup
                   notifyMembership([Without(generation, S) EXCEPT ![UserOf[c]] = last],
                                    "join", UserOf[c], last))
  <1> DEFINE u == UserOf[c]
             swept == Without(generation, S)
             members == [swept EXCEPT ![u] = last]
             left == Departures(generation, S)
             told == notifyMembership(members, "join", u, last)
             ds == left \cup told
  <1>1. TypeOK /\ Stamped /\ Places /\ u \in Users /\ generation \in Memberships
    BY ChannelAssumption DEF IInv, LeaseInv, Side, TypeOK, Memberships
  <1>2. /\ revision \in Nat
        /\ \A w \in Users : generation[w] \in Nat /\ generation[w] <= revision
    <2>1. revision \in Nat /\ \A w \in Users : generation[w] \in Nat
      BY <1>1 DEF TypeOK
    <2>2. QED
      BY <1>1, <2>1 DEF Stamped
  <1>3. swept \in Memberships /\ \A w \in Users : swept[w] = IF w \in S THEN 0 ELSE generation[w]
    BY <1>1, WithoutType DEF Without
  <1>4. last \in 0 .. MaxRevision
    BY ChannelAssumption
  <1>5. /\ \A v \in S, w \in Users : v # w /\ swept[w] # 0 =>
             \E d \in left :
                 d.kind = "leave" /\ d.actor = v /\ d.to = w /\ d.recipient = swept[w]
        /\ \A d \in left : d.kind = "leave" /\ d.recipient <= revision
        /\ left \subseteq Deliveries
    BY <1>1, DeparturesTell, DeparturesFit DEF Fit
  <1>14. \A k \in Connections : UserOf[k] # u /\ k \in present' => k \in present
    BY DEF Leases
  <1>15. present' \subseteq endpoints
    BY <1>1 DEF Places, Leases
  <1> HIDE DEF swept, left
  <1>6. /\ members \in Memberships
        /\ \A w \in Users : members[w] = IF w = u THEN last ELSE swept[w]
    BY <1>1, <1>3, <1>4 DEF Memberships
  <1> HIDE DEF members
  <1>7. /\ \A w \in Users : w # u /\ members[w] # 0 =>
             \E d \in told : /\ d.kind = "join" /\ d.actor = u /\ d.gen = last
                             /\ d.to = w /\ d.recipient = members[w]
        /\ \A d \in told : d.gen = last /\ \E w \in Users : d.recipient = members[w]
        /\ told \subseteq Deliveries
    BY <1>1, <1>4, <1>6, NotifyTells, NotifyFit DEF Fit
  <1>8. \A w \in Users : members[w] \in Nat /\ members[w] <= last
    BY <1>2, <1>3, <1>6
  <1> HIDE DEF told, u
  <1>9. \A d \in ds : d.recipient <= last /\ (d.kind # "leave" => d.gen # 0)
    <2>1. ASSUME NEW d \in left PROVE d.kind = "leave" /\ d.recipient <= last
      <3>1. d.recipient \in Nat /\ d.recipient <= revision /\ d.kind = "leave"
        BY <1>5 DEF Deliveries
      <3>2. QED
        BY <1>2, <3>1
    <2>2. ASSUME NEW d \in told PROVE d.recipient <= last /\ d.gen # 0
      BY <1>2, <1>7, <1>8
    <2>3. QED
      BY <2>1, <2>2
  <1>10. \A w \in Users : \/ members[w] \in {0, generation[w]}
                          \/ members[w] = last /\ last > revision
    BY <1>3, <1>6
  <1>11. ASSUME NEW v \in Users, NEW w \in Users, v # w, members[w] = generation[w], members[w] # 0
         PROVE  /\ members[v] = 0 /\ generation[v] # 0 =>
                     \E d \in ds : /\ d.kind = "leave" /\ d.actor = v
                                   /\ d.to = w /\ d.recipient = members[w]
                /\ members[v] \notin {0, generation[v]} =>
                     \E d \in ds : /\ d.kind = "join" /\ d.actor = v /\ d.gen = members[v]
                                   /\ d.to = w /\ d.recipient = members[w]
    <2>1. w # u
      BY <1>2, <1>6, <1>11
    <2>2. members[w] = swept[w]
      BY <1>6, <2>1
    <2>3. ASSUME members[v] = 0, generation[v] # 0
          PROVE  \E d \in ds : /\ d.kind = "leave" /\ d.actor = v
                               /\ d.to = w /\ d.recipient = members[w]
      <3>1. v \in S
        BY <1>2, <1>3, <1>6, <2>3
      <3>2. QED
        BY <1>5, <1>11, <2>2, <3>1
    <2>4. ASSUME members[v] \notin {0, generation[v]}
          PROVE  \E d \in ds : /\ d.kind = "join" /\ d.actor = v /\ d.gen = members[v]
                               /\ d.to = w /\ d.recipient = members[w]
      <3>1. v = u /\ members[v] = last
        BY <1>3, <1>6, <2>4
      <3>2. QED
        BY <1>7, <1>11, <2>1, <3>1
    <2>5. QED
      BY <2>3, <2>4
  <1>12. /\ \A w \in Users : members[w] = generation[w] /\ w \in lost => w \in lost'
         /\ Unanswered(c, members, ds) \subseteq lost'
    <2>1. lost' = (lost \ {u}) \cup Unanswered(c, members, ds)
      BY DEF u, members, swept, left, told
    <2>2. members[u] # generation[u]
      BY <1>1, <1>2, <1>6
    <2> HIDE DEF ds
    <2>3. QED
      BY <2>1, <2>2
  <1>13. \A k \in Connections :
             members[UserOf[k]] = generation[UserOf[k]] /\ k \in present' => k \in present
    <2>1. members[u] # generation[u]
      BY <1>1, <1>2, <1>6
    <2>2. QED
      BY <1>14, <2>1 DEF u
  <1>16. /\ ds \subseteq Deliveries /\ revision <= last /\ last \in Nat
    BY <1>2, <1>5, <1>7
  <1>17. Announced(c, members, last, ds)
    <2> HIDE DEF ds
    <2>1. \A v, w \in Users :
            v # w /\ members[w] = generation[w] /\ members[w] # 0 =>
              /\ members[v] = 0 /\ generation[v] # 0 =>
                   \E d \in ds : /\ d.kind = "leave" /\ d.actor = v
                                 /\ d.to = w /\ d.recipient = members[w]
              /\ members[v] \notin {0, generation[v]} =>
                   \E d \in ds : /\ d.kind = "join" /\ d.actor = v /\ d.gen = members[v]
                                 /\ d.to = w /\ d.recipient = members[w]
      BY <1>11
    <2>2. members \in Memberships
      BY <1>6
    <2>3. QED
      BY <1>9, <1>10, <1>12, <1>13, <1>15, <1>16, <2>1, <2>2, Zenon DEF Announced
  <1>18. QED
    BY <1>17 DEF members, swept, left, told, u

LEMMA RequestTold ==
    ASSUME RosterInv, NEW c \in Connections, Request(c)
    PROVE  Side' /\ AllTold'
  <1> DEFINE u == UserOf[c]
  <1>0. /\ TypeOK /\ Stamped /\ Places /\ u \in Users /\ generation \in Memberships
        /\ revision \in Nat /\ IInv /\ Side /\ AllTold
    BY ChannelAssumption DEF RosterInv, Side, IInv, LeaseInv, TypeOK, Memberships
  <1>a. ASSUME NEW members, NEW last, NEW ds, Dispatched(c, members, last, ds),
               Announced(c, members, last, ds)
        PROVE  Side' /\ AllTold'
    BY <1>0, <1>a, DispatchedSide, DispatchedTold
  <1>b. ASSUME NEW S \in SUBSET Users
        PROVE  /\ Departures(generation, S) \subseteq Deliveries
               /\ \A d \in Departures(generation, S) : d.kind = "leave" /\ d.recipient <= revision
    BY <1>0, DeparturesTell, DeparturesFit DEF Fit
  <1>1. CASE Refused(c)
    <2>1. Dispatched(c, generation, revision, {}) /\ UNCHANGED <<present, lost>>
      BY <1>1 DEF Refused
    <2>2. Unanswered(c, generation, {}) = {}
      BY DEF Unanswered, Untold
    <2>3. present \subseteq endpoints
      BY <1>0 DEF Places
    <2>4. Announced(c, generation, revision, {})
      BY <1>0, <2>1, <2>2, <2>3 DEF Announced
    <2>5. QED
      BY <1>a, <2>1, <2>4
  <1>2. CASE Subscribe(c)
    <2>1. PICK S \in SUBSET Sweepable :
            LET members == Without(generation, S)
                last == revision + Cardinality(S) + 1
                joined == [members EXCEPT ![u] = last]
                told == Departures(generation, S) \cup notifyMembership(joined, "join", u, last)
            IN  \/ /\ Dispatched(c, joined, last, told)
                   /\ present' = {k \in present : UserOf[k] # u} \cup Leases(u)
                   /\ lost' = (lost \ {u}) \cup Unanswered(c, joined, told)
                \/ /\ Dispatched(c, members, last - 1, Departures(generation, S))
                   /\ lost' = lost \cup Unanswered(c, members, Departures(generation, S))
                   /\ UNCHANGED present
      BY <1>2, Zenon DEF Subscribe
    <2> DEFINE members == Without(generation, S)
               last == revision + Cardinality(S) + 1
               joined == [members EXCEPT ![u] = last]
               told == Departures(generation, S) \cup notifyMembership(joined, "join", u, last)
    <2>2. S \in SUBSET Users /\ Cardinality(S) \in Nat
      BY <1>0, SweptFacts
    <2>3. /\ last \in Nat /\ last > revision
          /\ last - 1 \in Nat /\ revision <= last - 1
      BY <1>0, <2>2
    <2>4. CASE /\ Dispatched(c, joined, last, told)
               /\ present' = {k \in present : UserOf[k] # u} \cup Leases(u)
               /\ lost' = (lost \ {u}) \cup Unanswered(c, joined, told)
      <3>1. last <= MaxRevision
        BY <2>4 DEF Dispatched, Advances
      <3> HIDE DEF last
      <3>2. Announced(c, joined, last, told)
        BY <1>0, <2>2, <2>3, <2>4, <3>1, JoinAnnounced
      <3> HIDE DEF joined, told
      <3>3. QED
        BY <1>a, <2>4, <3>2
    <2>5. CASE /\ Dispatched(c, members, last - 1, Departures(generation, S))
               /\ lost' = lost \cup Unanswered(c, members, Departures(generation, S))
               /\ UNCHANGED present
      <3> HIDE DEF last
      <3>1. Announced(c, members, last - 1, Departures(generation, S))
        BY <1>0, <1>b, <2>2, <2>3, <2>5, SweepAnnounced
      <3> HIDE DEF members
      <3>2. QED
        BY <1>a, <2>5, <3>1
    <2>6. QED
      BY <2>1, <2>4, <2>5
  <1>3. CASE Unsubscribe(c)
    <2>1. PICK S \in SUBSET Sweepable :
            LET gone == S \cup ({u} \cap MembersOf(generation))
                members == Without(generation, gone)
                told == Departures(generation, gone)
            IN  /\ Dispatched(c, members, revision + Cardinality(gone), told)
                /\ lost' = lost \cup Unanswered(c, members, told)
                /\ UNCHANGED present
      BY <1>3 DEF Unsubscribe
    <2> DEFINE gone == S \cup ({u} \cap MembersOf(generation))
               last == revision + Cardinality(gone)
    <2>2. gone \in SUBSET Users
      BY <1>0 DEF Sweepable, MembersOf, TypeOK
    <2>3. Cardinality(gone) \in Nat
      BY <2>2, ChannelAssumption, FS_Subset, FS_CardinalityType
    <2>4. last \in Nat /\ revision <= last
      BY <1>0, <2>3
    <2>5. /\ Dispatched(c, Without(generation, gone), last, Departures(generation, gone))
          /\ lost' = lost \cup Unanswered(c, Without(generation, gone), Departures(generation, gone))
          /\ UNCHANGED present
      BY <2>1
    <2> HIDE DEF last, gone
    <2>6. Announced(c, Without(generation, gone), last, Departures(generation, gone))
      BY <1>0, <1>b, <2>2, <2>4, <2>5, SweepAnnounced
    <2>7. QED
      BY <1>a, <2>5, <2>6
  <1>4. CASE Message(c)
    <2>1. PICK S \in SUBSET Sweepable :
            /\ Without(generation, S)[u] # 0
            /\ \E targets \in {MembersOf(Without(generation, S))}
                                \cup {{v} : v \in MembersOf(Without(generation, S))} :
                 LET told == Departures(generation, S)
                               \cup Messages(Without(generation, S), u, targets) IN
                 /\ Dispatched(c, Without(generation, S), revision + Cardinality(S), told)
                 /\ lost' = lost \cup Unanswered(c, Without(generation, S), told)
            /\ UNCHANGED present
      BY <1>4 DEF Message
    <2> DEFINE members == Without(generation, S)
               last == revision + Cardinality(S)
    <2>2. PICK targets \in {MembersOf(members)} \cup {{v} : v \in MembersOf(members)} :
            LET told == Departures(generation, S) \cup Messages(members, u, targets) IN
            /\ Dispatched(c, members, last, told)
            /\ lost' = lost \cup Unanswered(c, members, told)
      BY <2>1
    <2>3. /\ Cardinality(S) \in Nat /\ members \in Memberships /\ S \in SUBSET Users
          /\ last \in Nat /\ revision <= last
      BY <1>0, SweptFacts
    <2>4. targets \in SUBSET Users
      BY <2>3 DEF MembersOf, Memberships
    <2> DEFINE told == Departures(generation, S) \cup Messages(members, u, targets)
    <2>5. /\ told \in SUBSET Deliveries
          /\ \A d \in told : d.recipient <= revision /\ (d.kind # "leave" => d.gen # 0)
      BY <1>0, <1>b, <2>1, <2>3, <2>4, MessagesFit, MessagesTell DEF Fit
    <2>6. Dispatched(c, members, last, told) /\ lost' = lost \cup Unanswered(c, members, told)
      BY <2>2
    <2>7. Departures(generation, S) \subseteq told
      OBVIOUS
    <2> HIDE DEF last, told
    <2>8. Announced(c, members, last, told)
      BY <1>0, <2>1, <2>3, <2>5, <2>6, <2>7, SweepAnnounced
    <2> HIDE DEF members
    <2>9. QED
      BY <1>a, <2>6, <2>8
  <1>5. QED
    BY <1>1, <1>2, <1>3, <1>4 DEF Request

(***************************************************************************)
(* RosterAgrees: the lease of a connection.                                *)
(***************************************************************************)
LEMMA SideUnfolds ==
    ASSUME RosterInv
    PROVE  /\ IInv /\ Side /\ AllTold /\ TypeOK /\ Held /\ Alive /\ Busy /\ Remembered
           /\ Stamped /\ Addressed /\ Places
  BY DEF RosterInv, Side, IInv, LeaseInv

\* A step that leaves channel, queue and deliveries alone, at the endpoints it leaves alone.
LEMMA QuietTold ==
    ASSUME AllTold, NEW Busied,
           UNCHANGED <<generation, delivering, pending>>, present' \subseteq present,
           \A k \in Connections : out[k] \subseteq out'[k],
           \A k \in Connections \ Busied : roster'[k] = roster[k] /\ (Listening(k)' => Listening(k))
    PROVE  \A k \in Connections \ Busied : \A v \in Users \ {UserOf[k]} :
               Listening(k)' => Told(k, v)'
  <1> SUFFICES ASSUME NEW k \in Connections \ Busied, NEW v \in Users \ {UserOf[k]}, Listening(k)'
               PROVE  Told(k, v)'
    OBVIOUS
  <1>1. Told(k, v)
    BY DEF AllTold
  <1>2. \A d \in Deliveries : Targeted(d, k) => Targeted(d, k)'
    BY DEF Targeted
  <1>3. roster'[k] = roster[k]
    OBVIOUS
  <1>4. QED
    BY <1>1, <1>2, <1>3, ToldKept

\* The stamps of a step that leaves channel, queue and deliveries alone.
LEMMA QuietStamped ==
    ASSUME Stamped, UNCHANGED <<store, delivering, pending>>,
           \A k \in Connections : out'[k] \subseteq out[k],
           \A k \in Connections : \A v \in Users : roster'[k][v] <= revision
    PROVE  Stamped'
  BY StampedKept DEF Stamped

LEMMA ConnectTold ==
    ASSUME RosterInv, NEW c \in Connections, Connect(c)
    PROVE  Side' /\ AllTold'
  <1> USE SideUnfolds
  <1>1. /\ pc[c] = "off" /\ pc' = [pc EXCEPT ![c] = "idle"]
        /\ valid' = [valid EXCEPT ![c] = TRUE] /\ writer' = [writer EXCEPT ![c] = TRUE]
        /\ endpoints' = endpoints \cup {c}
        /\ UNCHANGED <<store, generation, revision, joins, out, delivering, pending, roster,
                       present, lost>>
    BY DEF Connect, store
  <1>2. Stamped'
    BY <1>1, QuietStamped DEF Stamped
  <1>3. Addressed'
    BY <1>1 DEF Addressed
  <1>4. Places'
    BY <1>1 DEF Places, TypeOK
  <1>5. \A k \in Connections \ {c} : \A v \in Users \ {UserOf[k]} : Listening(k)' => Told(k, v)'
    <2>1. \A k \in Connections \ {c} : Listening(k)' => Listening(k)
      BY <1>1 DEF Listening, TypeOK
    <2>2. QED
      BY <1>1, <2>1, QuietTold
  <1>6. ASSUME NEW v \in Users \ {UserOf[c]}, Listening(c)' PROVE Told(c, v)'
    <2>1. generation'[UserOf[c]] # 0 /\ roster'[c][v] = 0
      BY <1>1, <1>6 DEF Listening, Places
    <2>2. \A t \in Threads : delivering'[t].at # c
      BY <1>1 DEF Held, Alive
    <2>3. c \notin present'
      BY <1>1 DEF Places
    <2>4. QED
      BY <2>1, <2>2, <2>3 DEF Told, Knows, At
  <1>7. QED
    BY <1>2, <1>3, <1>4, <1>5, <1>6 DEF Side, AllTold

LEMMA ExpireTold ==
    ASSUME RosterInv, NEW c \in Connections, Expire(c)
    PROVE  Side' /\ AllTold'
  <1> USE SideUnfolds
  <1>1. /\ valid' = [valid EXCEPT ![c] = FALSE]
        /\ pc' = pc \/ (pc[c] = "idle" /\ pc' = [pc EXCEPT ![c] = "late"])
        /\ UNCHANGED <<store, generation, revision, endpoints, writer, joins, roster, out,
                       delivering, pending, present, lost>>
    BY DEF Expire, store, endpoint
  <1>2. Stamped'
    BY <1>1, QuietStamped DEF Stamped
  <1>3. Addressed'
    BY <1>1 DEF Addressed
  <1>4. Places'
    BY <1>1 DEF Places, TypeOK
  <1>5. \A k \in Connections : Listening(k)' => Listening(k)
    BY <1>1 DEF Listening, TypeOK
  <1>6. AllTold'
    BY <1>1, <1>5, QuietTold DEF AllTold
  <1>7. QED
    BY <1>2, <1>3, <1>4, <1>6 DEF Side

LEMMA RetireWriterTold ==
    ASSUME RosterInv, NEW c \in Connections, RetireWriter(c)
    PROVE  Side' /\ AllTold'
  <1> USE SideUnfolds
  <1>1. /\ pc[c] = "retire"
        /\ pc' = [pc EXCEPT ![c] = IF out[c] = {} THEN "off" ELSE "farewell"]
        /\ writer' = [writer EXCEPT ![c] = FALSE] /\ valid' = [valid EXCEPT ![c] = FALSE]
        /\ roster' = [roster EXCEPT ![c] = [u \in Users |-> 0]]
        /\ UNCHANGED <<store, generation, revision, endpoints, out, delivering, pending,
                       present, lost>>
    BY DEF RetireWriter, store
  <1>2. \A k \in Connections : \A v \in Users :
            roster'[k][v] = IF k = c THEN 0 ELSE roster[k][v]
    BY <1>1 DEF TypeOK
  <1>3. Stamped'
    <2>1. revision \in Nat
      BY DEF TypeOK
    <2>2. \A k \in Connections : \A v \in Users : roster'[k][v] <= revision
      BY <1>2, <2>1 DEF Stamped
    <2>3. QED
      BY <1>1, <2>2, QuietStamped
  <1>4. Addressed'
    BY <1>1 DEF Addressed
  <1>5. Places'
    <2>1. \A k \in Connections :
            pc'[k] = IF k = c THEN IF out[c] = {} THEN "off" ELSE "farewell" ELSE pc[k]
      BY <1>1 DEF TypeOK
    <2>2. QED
      BY <1>1, <1>2, <2>1 DEF Places
  <1>6. \A k \in Connections \ {c} : \A v \in Users \ {UserOf[k]} : Listening(k)' => Told(k, v)'
    <2>1. \A k \in Connections \ {c} : roster'[k] = roster[k] /\ (Listening(k)' => Listening(k))
      BY <1>1 DEF Listening, TypeOK
    <2>2. QED
      BY <1>1, <2>1, QuietTold
  <1>7. ~Listening(c)'
    BY <1>1 DEF Listening, TypeOK
  <1>8. QED
    BY <1>3, <1>4, <1>5, <1>6, <1>7 DEF Side, AllTold

LEMMA UnregisterTold ==
    ASSUME RosterInv, NEW c \in Connections, Unregister(c)
    PROVE  Side' /\ AllTold'
  <1> USE SideUnfolds
  <1> DEFINE u == UserOf[c]
             left == Departures(generation, {u})
             members == Without(generation, {u})
  <1>1. /\ pc[c] \in {"idle", "closing"} /\ pc' = [pc EXCEPT ![c] = "retire"]
        /\ endpoints' = endpoints \ {c} /\ present' = present \ {c}
        /\ UNCHANGED <<valid, writer, roster, delivering, pending, lost>>
    BY DEF Unregister, endpoint
  <1>2. out[c] = {}
    BY <1>1 DEF Places
  <1>3. Addressed'
    BY <1>1 DEF Addressed
  <1>4. Places'
    <2>1. \A k \in Connections : pc'[k] = IF k = c THEN "retire" ELSE pc[k]
      BY <1>1 DEF TypeOK
    <2>2. \A k \in Connections \ {c} : out'[k] = out[k]
      BY DEF Unregister, TypeOK
    <2>3. QED
      BY <1>1, <2>1, <2>2 DEF Places
  <1>5. CASE UNCHANGED <<store, out>>
    <2>1. Stamped'
      BY <1>1, <1>5, QuietStamped DEF Stamped
    <2>2. \A k \in Connections : Listening(k)' => Listening(k)
      BY <1>1, <1>5 DEF Listening, store
    <2>3. AllTold'
      BY <1>1, <1>5, <2>2, QuietTold DEF AllTold, store
    <2>4. QED
      BY <1>3, <1>4, <2>1, <2>3 DEF Side
  <1>6. CASE /\ generation' = members /\ revision' = revision + 1
             /\ out' = [out EXCEPT ![c] = left]
    <2>1. /\ u \in Users /\ generation \in Memberships /\ revision \in Nat
          /\ \A w \in Users : generation[w] \in Nat /\ generation[w] <= revision
      <3>1. u \in Users /\ generation \in Memberships /\ revision \in Nat
        BY ChannelAssumption DEF TypeOK, Memberships
      <3>2. QED
        BY <3>1 DEF Stamped, Memberships
    <2>2. \A w \in Users : members[w] = IF w = u THEN 0 ELSE generation[w]
      BY DEF Without
    <2>3. /\ left \subseteq Deliveries
          /\ \A d \in left : d.kind = "leave" /\ d.recipient <= revision
          /\ \A w \in Users : w # u /\ members[w] # 0 =>
               \E d \in left : d.kind = "leave" /\ d.actor = u /\ d.to = w /\ d.recipient = members[w]
      BY <2>1, DeparturesTell, DeparturesFit DEF Fit
    <2> HIDE DEF left, members
    <2>4. \A d \in Deliveries : Past(d) => Past(d)'
      BY <1>6, <2>1 DEF Past, Deliveries
    <2>5. Stamped'
      <3>1. \A w \in Users : generation'[w] <= revision'
        BY <1>6, <2>1, <2>2
      <3>2. \A k \in Connections : \A v \in Users : roster'[k][v] <= revision'
        <4>1. \A k \in Connections : \A v \in Users : roster[k][v] \in Nat
          BY DEF TypeOK
        <4>2. QED
          BY <1>1, <1>6, <2>1, <4>1 DEF Stamped
      <3>3. (\A k \in Connections : \A d \in out[k] : Past(d))'
        <4>1. \A k \in Connections : \A d \in out'[k] : d \in out[k] \/ d \in left
          BY <1>6 DEF TypeOK
        <4>2. \A d \in left : Past(d)'
          <5>1. \A d \in left : d.recipient \in Nat
            BY <2>3 DEF Deliveries
          <5>2. QED
            BY <1>6, <2>1, <2>3, <5>1 DEF Past
        <4>3. \A k \in Connections : \A d \in out[k] : d \in Deliveries /\ Past(d)
          BY DEF TypeOK, Stamped
        <4>4. QED
          BY <2>4, <4>1, <4>2, <4>3
      <3>4. (\A i \in DOMAIN pending : Past(pending[i].delivery))'
        <4>1. \A i \in DOMAIN pending : pending[i].delivery \in Deliveries /\ Past(pending[i].delivery)
          BY InFlightTyped DEF Stamped
        <4>2. QED
          BY <1>1, <1>6, <2>1, <4>1 DEF Past, Deliveries
      <3>5. (\A t \in Threads : delivering[t] # Nothing => Past(delivering[t].delivery))'
        <4>1. \A t \in Threads : delivering[t] # Nothing =>
                  delivering[t].delivery \in Deliveries /\ Past(delivering[t].delivery)
          BY InFlightTyped DEF Stamped
        <4>2. QED
          BY <1>1, <1>6, <2>1, <4>1 DEF Past, Deliveries
      <3>6. QED
        BY <3>1, <3>2, <3>3, <3>4, <3>5 DEF Stamped
    <2>6. ASSUME NEW k \in Connections, NEW v \in Users \ {UserOf[k]}, Listening(k)'
          PROVE  Told(k, v)'
      <3> DEFINE own == UserOf[k]
      <3>1. /\ own \in Users /\ members[own] # 0 /\ own # u /\ generation'[own] = generation[own]
            /\ Listening(k)
        BY <1>1, <1>6, <2>1, <2>2, <2>6, ChannelAssumption DEF Listening
      <3>2. \A e \in Connections : out[e] \subseteq out'[e]
        BY <1>2, <1>6 DEF TypeOK
      <3>3. CASE v # u
        <4>1. generation'[v] = generation[v]
          BY <1>6, <2>2, <3>3
        <4>2. \A d \in Deliveries : Targeted(d, k) => Targeted(d, k)'
          BY <1>1, <3>2 DEF Targeted
        <4>3. Told(k, v)
          BY <3>1 DEF AllTold
        <4> QED
          BY <1>1, <3>1, <4>1, <4>2, <4>3, ToldKept
      <3>4. CASE v = u
        <4>1. PICK d \in left : /\ d.kind = "leave" /\ d.actor = u
                                /\ d.to = own /\ d.recipient = members[own]
          BY <2>3, <3>1
        <4>2. d \in out'[c]
          BY <1>6 DEF TypeOK
        <4>3. d \in Deliveries /\ Targeted(d, k)'
          BY <2>3, <4>1, <4>2 DEF Targeted
        <4>4. Announces(d, "leave", k, v)'
          BY <1>6, <3>4, <4>1 DEF Announces
        <4>5. Coming("leave", k, v)'
          BY <4>3, <4>4 DEF Coming
        <4>6. ~(generation'[v] > generation'[own])
          BY <1>6, <2>1, <2>2, <3>1, <3>4
        <4> QED
          BY <4>5, <4>6 DEF Told
      <3> QED
        BY <3>3, <3>4
    <2>7. QED
      BY <1>3, <1>4, <2>5, <2>6 DEF Side, AllTold
  <1>7. QED
    BY <1>5, <1>6 DEF Unregister

(***************************************************************************)
(* RosterAgrees: routing.                                                  *)
(***************************************************************************)
LEMMA RouteDelayedTold ==
    ASSUME RosterInv, NEW c \in Connections, RouteDelayed(c)
    PROVE  Side' /\ AllTold'
  <1> USE SideUnfolds
  <1>1. PICK d \in out[c] :
          /\ d.kind # "message"
          /\ \/ /\ pending' = Append(pending, [delivery |-> d, targets |-> Leases(d.to)])
                /\ out' = [out EXCEPT ![c] = @ \ {d}]
                /\ pc' = [pc EXCEPT ![c] = Continues(c, out[c] \ {d})]
                /\ UNCHANGED lost
             \/ /\ LET dropped == IF pc[c] = "route" THEN out[c] ELSE {d} IN
                   /\ out' = [out EXCEPT ![c] = @ \ dropped]
                   /\ pc' = [pc EXCEPT ![c] = IF @ = "route" THEN "closing"
                                              ELSE Continues(c, out[c] \ dropped)]
                   /\ lost' = lost \cup Untold(generation, dropped)
                /\ UNCHANGED pending
    BY DEF RouteDelayed
  <1>2. /\ pc[c] \in {"route", "farewell"}
        /\ UNCHANGED <<store, generation, revision, endpoints, valid, writer, joins, roster,
                       delivering, present>>
    BY DEF RouteDelayed, Routing, store, lease, endpoint
  <1> DEFINE dropped == IF pc[c] = "route" THEN out[c] ELSE {d}
             entry == [delivery |-> d, targets |-> Leases(d.to)]
             queued == Append(pending, entry)
  <1>3. /\ d \in Deliveries /\ out[c] \subseteq Deliveries /\ Past(d)
        /\ pending \in Seq(Pending) /\ entry \in Pending
    BY LeasesType DEF TypeOK, Stamped, Pending
  <1>4. /\ entry.delivery = d /\ entry.targets = Leases(d.to)
        /\ \A k \in Leases(d.to) : UserOf[k] = d.to
    BY DEF Leases
  <1> HIDE DEF entry
  <1>5. /\ DOMAIN pending \subseteq DOMAIN queued
        /\ \A i \in DOMAIN pending : queued[i] = pending[i]
        /\ \A i \in DOMAIN queued : queued[i] = entry \/ (i \in DOMAIN pending /\ queued[i] = pending[i])
        /\ Len(pending) + 1 \in DOMAIN queued /\ queued[Len(pending) + 1] = entry
    BY <1>3
  <1> HIDE DEF queued
  <1>6. \/ /\ pending' = queued
           /\ out' = [out EXCEPT ![c] = @ \ {d}]
           /\ pc' = [pc EXCEPT ![c] = Continues(c, out[c] \ {d})]
           /\ lost' = lost
        \/ /\ out' = [out EXCEPT ![c] = @ \ dropped]
           /\ pc' = [pc EXCEPT ![c] = IF @ = "route" THEN "closing" ELSE Continues(c, out[c] \ dropped)]
           /\ lost' = lost \cup Untold(generation, dropped)
           /\ pending' = pending
    BY <1>1 DEF entry, queued
  <1>7. Stamped'
    <2>1. \A k \in Connections : out'[k] \subseteq out[k]
      <3>1. \E ds : out' = [out EXCEPT ![c] = @ \ ds]
        BY <1>6
      <3>2. QED
        BY <3>1 DEF TypeOK
    <2>2. \A i \in DOMAIN pending' : Past(pending'[i].delivery)
      BY <1>3, <1>4, <1>5, <1>6 DEF Stamped
    <2>3. QED
      BY <1>2, <2>1, <2>2, StampedKept DEF Stamped
  <1>8. Addressed'
    BY <1>2, <1>4, <1>5, <1>6 DEF Addressed
  <1>9. Places'
    <2>1. \A k \in Connections \ {c} : out'[k] = out[k] /\ pc'[k] = pc[k]
      <3>1. \E ds, stage : out' = [out EXCEPT ![c] = ds] /\ pc' = [pc EXCEPT ![c] = stage]
        BY <1>6
      <3>2. QED
        BY <3>1 DEF TypeOK
    <2>2. /\ pc'[c] \in {"off", "idle", "late", "closing"} => out'[c] = {}
          /\ pc'[c] \in {"off", "farewell"} => pc[c] = "farewell"
          /\ pc'[c] \in {"off", "retire", "farewell"} => pc[c] = "farewell"
      <3>1. CASE pc' = [pc EXCEPT ![c] = Continues(c, out[c] \ {d})] /\ out' = [out EXCEPT ![c] = @ \ {d}]
        BY <1>2, <3>1 DEF TypeOK, Continues, After
      <3>2. CASE /\ out' = [out EXCEPT ![c] = @ \ dropped]
                 /\ pc' = [pc EXCEPT ![c] = IF @ = "route" THEN "closing"
                                            ELSE Continues(c, out[c] \ dropped)]
        BY <1>2, <3>2 DEF TypeOK, Continues, After
      <3>3. QED
        BY <1>6, <3>1, <3>2
    <2>3. QED
      BY <1>2, <2>1, <2>2 DEF Places
  <1>10. ASSUME NEW k \in Connections, NEW v \in Users \ {UserOf[k]}, Listening(k)'
         PROVE  Told(k, v)'
    <2>1. Listening(k)
      BY <1>2, <1>6, <1>10 DEF Listening
    <2>2. Told(k, v)
      BY <2>1 DEF AllTold
    <2>3. ASSUME NEW e \in Deliveries, NEW kind \in {"join", "leave"},
                 Targeted(e, k), Announces(e, kind, k, v)
          PROVE  Targeted(e, k)'
      <3>1. e.to = UserOf[k] /\ e.kind # "message" /\ e.recipient = generation[e.to]
        BY <2>3 DEF Announces
      <3>2. CASE \E x \in Connections : e \in out[x]
        <4>1. PICK x \in Connections : e \in out[x]
          BY <3>2
        <4>2. CASE e \in out'[x]
          BY <3>1, <4>2 DEF Targeted
        <4>3. CASE e \notin out'[x] /\ pending' = queued /\ out' = [out EXCEPT ![c] = @ \ {d}]
          <5>1. e = d
            BY <4>1, <4>3 DEF TypeOK
          <5>2. k \in entry.targets
            BY <1>4, <2>1, <3>1, <5>1 DEF Leases, Listening
          <5> QED
            BY <1>4, <1>5, <4>3, <5>1, <5>2 DEF Targeted
        <4>4. CASE /\ e \notin out'[x]
                   /\ out' = [out EXCEPT ![c] = @ \ dropped]
                   /\ lost' = lost \cup Untold(generation, dropped)
          <5>1. e \in dropped
            BY <4>1, <4>4 DEF TypeOK
          <5>2. e.to \in lost'
            BY <3>1, <4>4, <5>1 DEF Untold
          <5> QED
            BY <1>10, <3>1, <5>2 DEF Listening
        <4> QED
          BY <1>6, <4>2, <4>3, <4>4
      <3>3. CASE \E i \in DOMAIN pending : pending[i].delivery = e /\ k \in pending[i].targets
        <4>1. \A i \in DOMAIN pending : i \in DOMAIN pending' /\ pending'[i] = pending[i]
          BY <1>5, <1>6
        <4> QED
          BY <3>3, <4>1 DEF Targeted
      <3>4. CASE \E t \in Threads : k \in delivering[t].targets /\ delivering[t].delivery = e
        BY <1>2, <3>4 DEF Targeted
      <3> QED
        BY <2>3, <3>2, <3>3, <3>4 DEF Targeted
    <2>4. QED
      BY <1>2, <2>2, <2>3, ToldKept
  <1>11. QED
    BY <1>7, <1>8, <1>9, <1>10 DEF Side, AllTold

LEMMA RouteNowTold ==
    ASSUME RosterInv, NEW c \in Connections, RouteNow(c)
    PROVE  Side' /\ AllTold'
  <1> USE SideUnfolds
  <1>1. PICK d \in out[c] :
          /\ d.kind = "message"
          /\ out' = [out EXCEPT ![c] = @ \ {d}]
          /\ delivering' = [delivering EXCEPT ![c] = Remaining(d, Leases(d.to))]
          /\ pc' = [pc EXCEPT ![c] = IF Leases(d.to) = {} THEN Continues(c, out[c] \ {d}) ELSE @]
    BY DEF RouteNow
  <1>2. /\ pc[c] \in {"route", "farewell"} /\ delivering[c] = Nothing
        /\ UNCHANGED <<store, generation, revision, endpoints, valid, writer, joins, roster,
                       pending, present, lost>>
    BY DEF RouteNow, Routing, store, lease, endpoint
  <1>3. /\ d \in Deliveries /\ Past(d) /\ Leases(d.to) \in SUBSET Connections
        /\ \A k \in Leases(d.to) : UserOf[k] = d.to
    BY LeasesType DEF TypeOK, Stamped, Leases
  <1> DEFINE rest == Remaining(d, Leases(d.to))
  <1>4. /\ rest.at = Free /\ (rest # Nothing => rest.delivery = d)
        /\ rest.targets \subseteq Leases(d.to)
        /\ rest.targets # {} => rest.delivery = d
    BY <1>3, RemainingType DEF Remaining, Nothing
  <1> HIDE DEF rest
  <1>5. \A t \in Threads : delivering'[t] = IF t = c THEN rest ELSE delivering[t]
    BY <1>1 DEF TypeOK, Threads, rest
  <1>6. \A k \in Connections : out'[k] = IF k = c THEN out[c] \ {d} ELSE out[k]
    BY <1>1 DEF TypeOK
  <1>7. Stamped'
    <2>1. \A t \in Threads : delivering'[t] # Nothing => Past(delivering'[t].delivery)
      BY <1>3, <1>4, <1>5 DEF Stamped
    <2>2. \A k \in Connections : \A e \in out'[k] : Past(e)
      BY <1>6 DEF Stamped
    <2>3. QED
      BY <1>2, <2>1, <2>2, StampedKept DEF Stamped
  <1>8. Addressed'
    BY <1>2, <1>3, <1>4, <1>5 DEF Addressed
  <1>9. Places'
    <2>1. \A k \in Connections \ {c} : pc'[k] = pc[k]
      BY <1>1 DEF TypeOK
    <2>2. /\ pc'[c] \in {"off", "idle", "late", "closing"} => out'[c] = {}
          /\ pc'[c] \in {"off", "retire", "farewell"} => pc[c] = "farewell"
      BY <1>1, <1>2, <1>6 DEF TypeOK, Continues, After
    <2>3. QED
      BY <1>2, <1>6, <2>1, <2>2 DEF Places
  <1>10. ASSUME NEW k \in Connections, NEW v \in Users \ {UserOf[k]}, Listening(k)'
         PROVE  Told(k, v)'
    <2>1. Told(k, v)
      BY <1>2, <1>10 DEF AllTold, Listening
    <2>2. ASSUME NEW e \in Deliveries, NEW kind \in {"join", "leave"},
                 Targeted(e, k), Announces(e, kind, k, v)
          PROVE  Targeted(e, k)'
      <3>1. e # d
        BY <1>1, <2>2 DEF Announces
      <3>2. \A x \in Connections : e \in out[x] => e \in out'[x]
        BY <1>6, <3>1
      <3>3. \A t \in Threads : k \in delivering[t].targets => delivering'[t] = delivering[t]
        BY <1>2, <1>5 DEF Nothing
      <3>4. QED
        BY <1>2, <2>2, <3>2, <3>3 DEF Targeted
    <2>3. \A t \in Threads : (delivering'[t].at = k \/ delivering[t].at = k) =>
              delivering'[t] = delivering[t]
      BY <1>2, <1>4, <1>5, ChannelAssumption DEF Nothing, Threads
    <2>4. QED
      BY <1>2, <2>1, <2>2, <2>3, ToldKept
  <1>11. QED
    BY <1>7, <1>8, <1>9, <1>10 DEF Side, AllTold

LEMMA DequeueTold ==
    ASSUME RosterInv, Dequeue
    PROVE  Side' /\ AllTold'
  <1> USE SideUnfolds
  <1> DEFINE entry == Head(pending)
             rest == Remaining(entry.delivery, entry.targets)
  <1>1. pending # <<>> /\ pending \in Seq(Pending) /\ delivering[Worker] = Nothing
    BY DEF Dequeue, TypeOK
  <1>2. 1 \in DOMAIN pending /\ entry = pending[1] /\ entry \in Pending
    BY <1>1
  <1>3. /\ \A i \in DOMAIN pending' : i + 1 \in DOMAIN pending /\ pending'[i] = pending[i + 1]
        /\ \A i \in DOMAIN pending : i # 1 =>
              \E j \in DOMAIN pending' : pending'[j] = pending[i]
    <2>1. pending' = Tail(pending)
      BY DEF Dequeue
    <2>2. /\ DOMAIN Tail(pending) = 1 .. Len(pending) - 1
          /\ \A i \in 1 .. Len(pending) - 1 : Tail(pending)[i] = pending[i + 1]
          /\ DOMAIN pending = 1 .. Len(pending) /\ Len(pending) \in Nat
      BY <1>1
    <2>3. \A i \in DOMAIN pending : i # 1 =>
            /\ i \in Nat /\ i - 1 \in DOMAIN Tail(pending)
            /\ Tail(pending)[i - 1] = pending[(i - 1) + 1] /\ (i - 1) + 1 = i
      BY <2>2
    <2>4. \A i \in DOMAIN pending : i # 1 =>
              i - 1 \in DOMAIN pending' /\ pending'[i - 1] = pending[i]
      BY <2>1, <2>3
    <2>5. \A i \in DOMAIN pending' : i + 1 \in DOMAIN pending /\ pending'[i] = pending[i + 1]
      BY <2>1, <2>2
    <2>6. QED
      BY <2>4, <2>5
  <1>4. /\ entry.delivery \in Deliveries /\ entry.targets \in SUBSET Connections
        /\ Past(entry.delivery)
        /\ \A k \in entry.targets : UserOf[k] = entry.delivery.to
    BY <1>2 DEF Pending, Stamped, Addressed
  <1>5. /\ delivering' = [delivering EXCEPT ![Worker] = rest]
        /\ UNCHANGED <<store, generation, revision, pc, endpoints, valid, writer, joins, roster,
                       out, present, lost>>
    BY DEF Dequeue, store, lease, endpoint
  <1> HIDE DEF entry
  <1>6. /\ rest.at = Free
        /\ rest.targets = entry.targets
        /\ rest # Nothing => rest.delivery = entry.delivery
        /\ rest.targets # {} => rest.delivery = entry.delivery
    BY <1>4, RemainingType DEF Remaining, Nothing
  <1> HIDE DEF rest
  <1>7. \A t \in Threads : delivering'[t] = IF t = Worker THEN rest ELSE delivering[t]
    BY <1>5 DEF TypeOK
  <1>8. Stamped'
    <2>1. \A t \in Threads : delivering'[t] # Nothing => Past(delivering'[t].delivery)
      BY <1>4, <1>6, <1>7 DEF Stamped
    <2>2. \A i \in DOMAIN pending' : Past(pending'[i].delivery)
      BY <1>3 DEF Stamped
    <2>3. QED
      BY <1>5, <2>1, <2>2, StampedKept DEF Stamped
  <1>9. Addressed'
    BY <1>3, <1>4, <1>6, <1>7 DEF Addressed
  <1>10. Places'
    BY <1>5 DEF Places
  <1>11. ASSUME NEW k \in Connections, NEW v \in Users \ {UserOf[k]}, Listening(k)'
         PROVE  Told(k, v)'
    <2>1. Told(k, v)
      BY <1>5, <1>11 DEF AllTold, Listening
    <2>2. ASSUME NEW e \in Deliveries, Targeted(e, k) PROVE Targeted(e, k)'
      <3>1. CASE \E x \in Connections : e \in out[x] /\ e.to = UserOf[k]
        BY <1>5, <3>1 DEF Targeted
      <3>2. CASE \E i \in DOMAIN pending : pending[i].delivery = e /\ k \in pending[i].targets
        <4>1. PICK i \in DOMAIN pending : pending[i].delivery = e /\ k \in pending[i].targets
          BY <3>2
        <4>2. CASE i = 1
          <5>1. Worker \in Threads /\ delivering'[Worker] = rest
            BY <1>7 DEF Threads
          <5> QED
            BY <1>2, <1>6, <4>1, <4>2, <5>1 DEF Targeted
        <4>3. CASE i # 1
          BY <1>3, <4>1, <4>3 DEF Targeted
        <4> QED
          BY <4>2, <4>3
      <3>3. CASE \E t \in Threads : k \in delivering[t].targets /\ delivering[t].delivery = e
        <4>1. \A t \in Threads : k \in delivering[t].targets => delivering'[t] = delivering[t]
          BY <1>1, <1>7 DEF Nothing
        <4> QED
          BY <3>3, <4>1 DEF Targeted
      <3> QED
        BY <2>2, <3>1, <3>2, <3>3 DEF Targeted
    <2>3. \A t \in Threads : (delivering'[t].at = k \/ delivering[t].at = k) =>
              delivering'[t] = delivering[t]
      BY <1>1, <1>6, <1>7, ChannelAssumption DEF Nothing, Threads
    <2>4. QED
      BY <1>5, <2>1, <2>2, <2>3, ToldKept
  <1>12. QED
    BY <1>8, <1>9, <1>10, <1>11 DEF Side, AllTold

(***************************************************************************)
(* RosterAgrees: delivering.                                               *)
(***************************************************************************)
LEMMA ProceedTargets ==
    ASSUME RosterInv, NEW t \in Threads, NEW targets \in SUBSET delivering[t].targets,
           delivering[t] # Nothing, Proceed(t, targets)
    PROVE  /\ \A k \in Threads \ {t} : delivering'[k] = delivering[k]
           /\ delivering'[t].targets = targets /\ delivering'[t].at = Free
           /\ targets # {} \/ delivering'[t] # Nothing
                => delivering'[t].delivery = delivering[t].delivery
           /\ \A k \in Connections :
                /\ pc'[k] \in {"off", "idle", "late", "closing"} => out[k] = {}
                /\ pc'[k] \in {"off", "farewell"} => pc[k] \in {"off", "farewell"}
                /\ pc'[k] \in {"off", "retire", "farewell"} => pc[k] \in {"off", "retire", "farewell"}
  <1> USE SideUnfolds
  <1> DEFINE rest == Remaining(delivering[t].delivery, targets)
  <1>1. rest \in Delivering /\ rest.at = Free /\ (rest # Nothing => rest.delivery = delivering[t].delivery)
    <2>1. delivering[t].delivery \in Deliveries /\ targets \in SUBSET Connections
      BY InFlightTyped
    <2>2. QED
      BY <2>1, RemainingType
  <1>2. rest.targets = targets /\ (targets # {} => rest.delivery = delivering[t].delivery)
    BY DEF Remaining, Nothing
  <1> HIDE DEF rest
  <1>3. \A k \in Threads : delivering'[k] = IF k = t THEN rest ELSE delivering[k]
    BY DEF Proceed, TypeOK, rest
  <1>4. \A k \in Connections :
          pc'[k] = IF k = t /\ targets = {} THEN Continues(k, out[k]) ELSE pc[k]
    BY DEF Proceed
  <1>5. t \in Connections => pc[t] \in {"route", "farewell"}
    BY DEF Busy
  <1>6. \A k \in Connections :
          /\ pc'[k] \in {"off", "idle", "late", "closing"} => out[k] = {}
          /\ pc'[k] \in {"off", "farewell"} => pc[k] \in {"off", "farewell"}
          /\ pc'[k] \in {"off", "retire", "farewell"} => pc[k] \in {"off", "retire", "farewell"}
    BY <1>4, <1>5 DEF Continues, After, Places
  <1>7. QED
    BY <1>1, <1>2, <1>3, <1>6

LEMMA ProceedSide ==
    ASSUME RosterInv, NEW t \in Threads, NEW targets \in SUBSET delivering[t].targets,
           delivering[t] # Nothing, Proceed(t, targets),
           UNCHANGED <<store, endpoints, out, pending, present>>,
           \A k \in Connections : \A v \in Users : roster'[k][v] <= revision,
           \A k \in Connections : pc[k] \in {"off", "farewell"} => roster'[k] = roster[k]
    PROVE  Side'
  <1> USE SideUnfolds
  <1>1. Stamped'
    <2>1. \A k \in Threads : delivering'[k] # Nothing => Past(delivering'[k].delivery)
      BY ProceedTargets DEF Stamped
    <2>2. QED
      BY <2>1, StampedKept DEF Stamped
  <1>2. Addressed'
    BY ProceedTargets DEF Addressed
  <1>3. Places'
    BY ProceedTargets DEF Places
  <1>4. QED
    BY <1>1, <1>2, <1>3 DEF Side

\* A thread that goes on takes away only what was on its way through it.
LEMMA ProceedTargeted ==
    ASSUME RosterInv, NEW t \in Threads, NEW targets \in SUBSET delivering[t].targets,
           delivering[t] # Nothing, Proceed(t, targets), UNCHANGED <<out, pending>>,
           NEW k \in Connections, NEW e \in Deliveries, Targeted(e, k),
           e = delivering[t].delivery => k \in targets
    PROVE  Targeted(e, k)'
  <1>1. CASE \E x \in Threads : k \in delivering[x].targets /\ delivering[x].delivery = e
    <2>1. PICK x \in Threads : k \in delivering[x].targets /\ delivering[x].delivery = e
      BY <1>1
    <2>2. k \in delivering'[x].targets /\ delivering'[x].delivery = e
      BY <2>1, ProceedTargets
    <2>3. QED
      BY <2>2 DEF Targeted
  <1>2. QED
    BY <1>1 DEF Targeted

LEMMA ValidateTold ==
    ASSUME RosterInv, NEW t \in Threads, Validate(t)
    PROVE  Side' /\ AllTold'
  <1> USE SideUnfolds
  <1> DEFINE d == delivering[t].delivery
  <1>1. PICK c \in delivering[t].targets :
         /\ holder[c] = Free
         /\ \/ ~channelDeliveryValid(d) /\ Proceed(t, {})
            \/ Proceed(t, {}) /\ lost' = lost \cup Untold(generation, {d})
            \/ /\ channelDeliveryValid(d)
               /\ (d.kind = "join" /\ Joined(c, d)) \/ ~writer[c] \/ ~valid[c]
               /\ Proceed(t, delivering[t].targets \ {c})
            \/ /\ channelDeliveryValid(d)
               /\ delivering' = [delivering EXCEPT ![t].at = c]
               /\ UNCHANGED pc
    BY DEF Validate, DeliveryThrows
  <1>2. /\ delivering[t].at = Free
        /\ UNCHANGED <<store, generation, revision, endpoints, valid, writer, joins, roster, out,
                       pending, present>>
        /\ lost \subseteq lost'
    BY DEF Validate, DeliveryThrows, store, lease, endpoint
  <1>3. delivering[t] # Nothing
    BY <1>1 DEF Nothing
  <1>4. /\ d \in Deliveries /\ c \in Connections /\ d.to = UserOf[c] /\ Past(d)
        /\ delivering[t].targets \in SUBSET Connections
    BY <1>1, <1>3, InFlightTyped DEF Addressed, Stamped
  <1> HIDE DEF d
  <1>5. \A x \in Threads : delivering[x].at # c
    BY <1>1, <1>4, ChannelAssumption DEF Held, Threads
  <1>6. \A k \in Connections : Listening(k)' => Listening(k)
    BY <1>2 DEF Listening
  <1>7. /\ \A k \in Connections : \A v \in Users : roster'[k][v] <= revision
        /\ \A k \in Connections : roster'[k] = roster[k]
    BY <1>2 DEF Stamped
  <1>8. ASSUME NEW targets \in SUBSET delivering[t].targets, Proceed(t, targets)
        PROVE  /\ Side'
               /\ \A k \in Connections : \A x \in Threads :
                    delivering'[x].at = k \/ delivering[x].at = k => delivering'[x] = delivering[x]
               /\ \A k \in Connections, e \in Deliveries :
                    Targeted(e, k) /\ (e = d => k \in targets) => Targeted(e, k)'
    <2>1. Side'
      BY <1>2, <1>3, <1>7, <1>8, ProceedSide
    <2>2. \A k \in Connections : \A x \in Threads :
             delivering'[x].at = k \/ delivering[x].at = k => delivering'[x] = delivering[x]
      BY <1>2, <1>3, <1>8, ProceedTargets, ChannelAssumption DEF Threads
    <2>3. \A k \in Connections, e \in Deliveries :
             Targeted(e, k) /\ (e = d => k \in targets) => Targeted(e, k)'
      BY <1>2, <1>3, <1>8, ProceedTargeted DEF d
    <2>4. QED
      BY <2>1, <2>2, <2>3
  <1>9. CASE ~channelDeliveryValid(d) /\ Proceed(t, {})
    <2>1. ASSUME NEW k \in Connections, NEW v \in Users \ {UserOf[k]}, Listening(k)'
          PROVE  Told(k, v)'
      <3>1. Told(k, v) /\ generation[UserOf[k]] # 0
        BY <1>6, <2>1 DEF AllTold, Listening
      <3>2. CASE \A e \in Deliveries : \A kind \in {"join", "leave"} :
                     Targeted(e, k) /\ Announces(e, kind, k, v) => e # d
        BY <1>2, <1>8, <1>9, <3>1, <3>2, ToldKept
      <3>3. CASE \E kind \in {"join", "leave"} : Announces(d, kind, k, v)
        <4>1. PICK kind \in {"join", "leave"} : Announces(d, kind, k, v)
          BY <3>3
        <4>2. /\ kind = "leave" /\ generation[v] # 0
          BY <1>9, <3>1, <4>1 DEF Announces, channelDeliveryValid
        <4>3. \A e \in Deliveries : Announces(e, "join", k, v) => e # d
          BY <4>1, <4>2 DEF Announces
        <4>4. Settles(k, v) => Settles(k, v)'
          BY <1>2, <1>8, <1>9 DEF Settles, At, Enters
        <4>5. Coming("join", k, v) => Coming("join", k, v)'
          <5>1. ASSUME NEW e \in Deliveries, Targeted(e, k), Announces(e, "join", k, v)
                PROVE  Targeted(e, k)' /\ Announces(e, "join", k, v)'
            <6>1. Targeted(e, k)'
              BY <1>8, <1>9, <4>3, <5>1
            <6>2. Announces(e, "join", k, v)'
              BY <1>2, <5>1 DEF Announces
            <6> QED
              BY <6>1, <6>2
          <5> QED
            BY <5>1 DEF Coming
        <4> QED
          BY <1>2, <3>1, <4>2, <4>4, <4>5 DEF Told
      <3> QED
        BY <3>2, <3>3
    <2>2. QED
      BY <1>8, <1>9, <2>1 DEF AllTold
  \* The channel cannot be read: the member that is not told is lost.
  <1>a. CASE Proceed(t, {}) /\ lost' = lost \cup Untold(generation, {d})
    <2>1. ASSUME NEW k \in Connections, NEW v \in Users \ {UserOf[k]}, Listening(k)'
          PROVE  Told(k, v)'
      <3>1. Told(k, v)
        BY <1>6, <2>1 DEF AllTold
      <3>2. \A kind \in {"join", "leave"} : ~Announces(d, kind, k, v)
        BY <1>2, <1>a, <2>1 DEF Announces, Untold, Listening
      <3>3. \A e \in Deliveries : \A kind \in {"join", "leave"} :
                Targeted(e, k) /\ Announces(e, kind, k, v) => Targeted(e, k)'
        BY <1>8, <1>a, <3>2
      <3>4. QED
        BY <1>2, <1>8, <1>a, <3>1, <3>3, ToldKept
    <2>2. QED
      BY <1>8, <1>a, <2>1 DEF AllTold
  <1>10. CASE /\ channelDeliveryValid(d)
              /\ (d.kind = "join" /\ Joined(c, d)) \/ ~writer[c] \/ ~valid[c]
              /\ Proceed(t, delivering[t].targets \ {c})
    <2> DEFINE targets == delivering[t].targets \ {c}
    <2>1. ASSUME NEW k \in Connections, NEW v \in Users \ {UserOf[k]}, Listening(k)'
          PROVE  Told(k, v)'
      <3>1. Told(k, v) /\ Listening(k)
        BY <1>6, <2>1 DEF AllTold
      <3>2. CASE \A e \in Deliveries : \A kind \in {"join", "leave"} :
                     Targeted(e, k) /\ Announces(e, kind, k, v) /\ e = d => k \in targets
        <4>1. \A e \in Deliveries : \A kind \in {"join", "leave"} :
                Targeted(e, k) /\ Announces(e, kind, k, v) => Targeted(e, k)'
          BY <1>8, <1>10, <3>2
        <4> QED
          BY <1>2, <1>8, <1>10, <3>1, <4>1, ToldKept
      <3>3. CASE \E kind \in {"join", "leave"} : Announces(d, kind, k, v) /\ k = c
        <4>1. d.kind = "join" /\ Joined(c, d) /\ Announces(d, "join", k, v) /\ k = c
          BY <1>10, <3>1, <3>3 DEF Announces, Listening
        <4>2. roster[c][v] = generation[UserOf[c]]
          BY <1>4, <4>1 DEF Joined, Join, Remembered, Announces
        <4>3. \A x \in Threads : delivering'[x].at # c
          BY <1>4, <1>5, <1>8, <1>10
        <4>4. Settles(k, v)'
          BY <1>2, <4>1, <4>2, <4>3 DEF Settles, At
        <4>5. generation'[v] # 0
          BY <1>2, <1>4, <1>10, <4>1 DEF channelDeliveryValid, Announces, Past
        <4> QED
          BY <4>4, <4>5 DEF Told
      <3>4. CASE \E e \in Deliveries : \E kind \in {"join", "leave"} :
                     Targeted(e, k) /\ Announces(e, kind, k, v) /\ e = d /\ k \notin targets /\ k # c
        <4>1. PICK e \in Deliveries : Targeted(e, k) /\ e = d /\ k \notin delivering[t].targets
          BY <3>4
        <4>2. Targeted(e, k)'
          <5>1. CASE \E x \in Threads : k \in delivering[x].targets /\ delivering[x].delivery = e
            <6>1. PICK x \in Threads : k \in delivering[x].targets /\ delivering[x].delivery = e
              BY <5>1
            <6>2. x # t
              BY <4>1, <6>1
            <6>3. delivering'[x] = delivering[x]
              BY <1>3, <1>10, <6>2, ProceedTargets
            <6> QED
              BY <6>1, <6>3 DEF Targeted
          <5>2. QED
            BY <1>2, <4>1, <5>1 DEF Targeted
        <4>3. \A f \in Deliveries : Targeted(f, k) => Targeted(f, k)'
          BY <1>8, <1>10, <4>1, <4>2
        <4> QED
          BY <1>2, <1>8, <1>10, <3>1, <4>3, ToldKept
      <3> QED
        BY <3>2, <3>3, <3>4
    <2>2. QED
      BY <1>8, <1>10, <2>1 DEF AllTold
  <1>11. CASE /\ channelDeliveryValid(d)
              /\ delivering' = [delivering EXCEPT ![t].at = c]
              /\ UNCHANGED pc
    <2> DEFINE held == [delivering[t] EXCEPT !.at = c]
    <2>1. /\ held.at = c /\ held.delivery = d /\ held.targets = delivering[t].targets
      BY <1>3, <1>4 DEF TypeOK, Delivering, d
    <2> HIDE DEF held
    <2>2. \A x \in Threads : delivering'[x] = IF x = t THEN held ELSE delivering[x]
      BY <1>11 DEF TypeOK, held
    <2>3. Stamped'
      <3>1. \A x \in Threads : delivering'[x] # Nothing => Past(delivering'[x].delivery)
        BY <1>4, <2>1, <2>2 DEF Stamped
      <3>2. QED
        BY <1>2, <1>7, <3>1, StampedKept DEF Stamped
    <2>4. Addressed'
      BY <1>2, <2>1, <2>2 DEF Addressed, d
    <2>5. Places'
      BY <1>2, <1>11 DEF Places
    <2>6. ASSUME NEW k \in Connections, NEW v \in Users \ {UserOf[k]}, Listening(k)'
          PROVE  Told(k, v)'
      <3>1. Told(k, v)
        BY <1>6, <2>6 DEF AllTold
      <3>2. \A e \in Deliveries : Targeted(e, k) => Targeted(e, k)'
        BY <1>2, <2>1, <2>2 DEF Targeted, d
      <3>3. ASSUME NEW kind \in {"join", "leave"}, Coming(kind, k, v) PROVE Coming(kind, k, v)'
        <4>1. PICK e \in Deliveries : Targeted(e, k) /\ Announces(e, kind, k, v)
          BY <3>3 DEF Coming
        <4>2. Targeted(e, k)' /\ Announces(e, kind, k, v)'
          BY <1>2, <3>2, <4>1 DEF Announces
        <4> QED
          BY <4>2 DEF Coming
      <3>4. generation[v] = 0 /\ Knows(k, v)' => Knows(k, v)
        <4>1. ASSUME generation[v] = 0 PROVE ~(k = c /\ v = d.actor /\ d.kind # "leave")
          BY <1>4, <1>11, <4>1 DEF channelDeliveryValid, Past
        <4>2. ASSUME NEW x \in Threads, At(x, k, v)', Enters(x, k)', generation[v] = 0
              PROVE  At(x, k, v) /\ Enters(x, k)
          <5>1. x # t
            BY <2>1, <2>2, <4>1, <4>2 DEF At, Enters
          <5> QED
            BY <1>2, <2>2, <4>2, <5>1 DEF At, Enters
        <4> QED
          BY <1>2, <4>2 DEF Knows
      <3>5. ASSUME generation[v] > generation[UserOf[k]], Settles(k, v) PROVE Settles(k, v)'
        <4> SUFFICES ASSUME NEW x \in Threads, At(x, k, v)' PROVE Enters(x, k)'
          BY <1>2, <3>5 DEF Settles
        <4>1. CASE x # t
          BY <1>2, <2>2, <3>5, <4>1 DEF Settles, At, Enters
        <4>2. CASE x = t
          <5>1. k = c /\ v = d.actor
            BY <2>1, <2>2, <4>2 DEF At
          <5>2. generation[v] # 0
            <6>1. generation \in [Users -> 0 .. MaxRevision] /\ UserOf[k] \in Users
              BY ChannelAssumption DEF TypeOK
            <6>2. generation[UserOf[k]] >= 0
              BY <6>1
            <6> QED
              BY <3>5, <6>1, <6>2
          <5>3. d.kind # "leave" /\ d.recipient = generation[UserOf[k]]
            BY <1>4, <1>11, <5>1, <5>2 DEF channelDeliveryValid
          <5> QED
            BY <1>2, <2>1, <2>2, <4>2, <5>3 DEF Enters
        <4> QED
          BY <4>1, <4>2
      <3>6. QED
        BY <1>2, <3>1, <3>3, <3>4, <3>5 DEF Told
    <2>7. QED
      BY <2>3, <2>4, <2>5, <2>6 DEF Side, AllTold
  <1>12. QED
    BY <1>1, <1>9, <1>a, <1>10, <1>11

\* What a write does besides the roster: other clients are told as before.
LEMMA WrittenTold ==
    ASSUME RosterInv, NEW t \in Threads, NEW c \in Connections, delivering[t].at = c, Written(t, c),
           JoinWritten(c, delivering[t].delivery) \/ LeaveWritten(c, delivering[t].delivery)
               \/ UNCHANGED roster,
           \A k \in Connections : writer'[k] => writer[k]
    PROVE  /\ Side'
           /\ \A k \in Connections : Listening(k)' => Listening(k)
           /\ \A k \in Connections \ {c} : \A v \in Users \ {UserOf[k]} : Listening(k)' => Told(k, v)'
           /\ \A v \in Users : v # delivering[t].delivery.actor => roster'[c][v] = roster[c][v]
           /\ \A k \in Threads : delivering'[k].at # c
           /\ \A e \in Deliveries : Targeted(e, c) /\ e # delivering[t].delivery => Targeted(e, c)'
  <1> USE SideUnfolds
  <1> DEFINE d == delivering[t].delivery
             targets == delivering[t].targets \ {c}
  <1>1. delivering[t] # Nothing
    BY ChannelAssumption DEF Nothing, Threads
  <1>2. d \in Deliveries /\ Past(d) /\ d.actor \in Users
    BY <1>1, InFlightTyped DEF Stamped, Deliveries
  <1>3. /\ Proceed(t, targets)
        /\ UNCHANGED <<store, generation, revision, endpoints, valid, out, pending, present, lost>>
    BY DEF Written, store, lease
  <1> HIDE DEF d
  <1>4. \A k \in Connections : \A v \in Users :
            roster'[k][v] = IF k = c /\ v = d.actor THEN roster'[c][d.actor] ELSE roster[k][v]
    BY <1>2 DEF JoinWritten, LeaveWritten, TypeOK, d
  <1>5. \A k \in Connections : k # c => roster'[k] = roster[k]
    BY <1>2 DEF JoinWritten, LeaveWritten, TypeOK, d
  <1>6. roster'[c][d.actor] \in {d.recipient, 0, roster[c][d.actor]}
    BY <1>2 DEF JoinWritten, LeaveWritten, TypeOK, d
  <1>7. Side'
    <2>1. \A k \in Connections : \A v \in Users : roster'[k][v] <= revision
      <3>1. revision \in Nat /\ 0 <= revision
        BY DEF TypeOK
      <3>2. roster'[c][d.actor] <= revision
        BY <1>2, <1>6, <3>1 DEF Past, Stamped
      <3>3. QED
        BY <1>4, <3>2 DEF Stamped
    <2>2. pc[c] \notin {"off", "farewell"}
      BY DEF Held, Alive
    <2>3. QED
      BY <1>1, <1>3, <1>5, <2>1, <2>2, ProceedSide
  <1>8. \A k \in Threads : delivering'[k].at = delivering[k].at \/ delivering'[k].at = Free
    BY <1>1, <1>3, ProceedTargets
  <1>9. \A k \in Threads \ {t} : delivering'[k] = delivering[k] /\ delivering[k].at # c
    BY <1>1, <1>3, ProceedTargets DEF Held
  <1>10. delivering'[t].at = Free
    BY <1>1, <1>3, ProceedTargets
  <1>11. \A k \in Connections : Listening(k)' => Listening(k)
    BY <1>3 DEF Listening
  <1>12. ASSUME NEW k \in Connections \ {c}, NEW v \in Users \ {UserOf[k]}, Listening(k)'
         PROVE  Told(k, v)'
    <2>1. Told(k, v)
      BY <1>11, <1>12 DEF AllTold
    <2>2. \A e \in Deliveries : Targeted(e, k) => Targeted(e, k)'
      <3> SUFFICES ASSUME NEW e \in Deliveries, Targeted(e, k) PROVE Targeted(e, k)'
        OBVIOUS
      <3>1. CASE \E x \in Threads : k \in delivering[x].targets /\ delivering[x].delivery = e
        <4>1. PICK x \in Threads : k \in delivering[x].targets /\ delivering[x].delivery = e
          BY <3>1
        <4>2. k \in delivering'[x].targets /\ delivering'[x].delivery = e
          BY <1>1, <1>3, <4>1, ProceedTargets
        <4> QED
          BY <4>2 DEF Targeted
      <3>2. QED
        BY <1>3, <3>1 DEF Targeted
    <2>3. \A x \in Threads : delivering'[x].at = k \/ delivering[x].at = k =>
              delivering'[x] = delivering[x]
      BY <1>9, <1>10, ChannelAssumption DEF Threads
    <2>4. roster'[k] = roster[k]
      BY <1>5
    <2>5. QED
      BY <1>3, <2>1, <2>2, <2>3, <2>4, ToldKept
  <1>13. \A e \in Deliveries : Targeted(e, c) /\ e # d => Targeted(e, c)'
    BY <1>1, <1>3, ProceedTargeted DEF d
  <1>14. \A v \in Users : v # d.actor => roster'[c][v] = roster[c][v]
    BY <1>4
  <1>15. \A k \in Threads : delivering'[k].at # c
    BY <1>9, <1>10, ChannelAssumption DEF Threads
  <1>16. QED
    BY <1>7, <1>11, <1>12, <1>13, <1>14, <1>15 DEF d

LEMMA WriteTold ==
    ASSUME RosterInv, NEW t \in Threads, Write(t)
    PROVE  Side' /\ AllTold'
  <1> USE SideUnfolds
  <1> DEFINE d == delivering[t].delivery
  <1>1. PICK c \in Connections :
          /\ delivering[t].at = c
          /\ \/ d.kind = "join" /\ JoinWritten(c, d)
             \/ d.kind = "leave" /\ LeaveWritten(c, d)
             \/ d.kind = "message" /\ MissingJoin(c, d) /\ JoinWritten(c, d)
             \/ d.kind = "message" /\ ~MissingJoin(c, d) /\ UNCHANGED <<joins, roster>>
          /\ UNCHANGED writer
          /\ Written(t, c)
    BY DEF Write
  <1>2. d \in Deliveries /\ d.actor \in Users /\ UserOf[c] \in Users
    <2>1. delivering[t] # Nothing
      BY <1>1, ChannelAssumption DEF Nothing, Threads
    <2>2. QED
      BY <2>1, InFlightTyped, ChannelAssumption DEF Deliveries
  <1>3. JoinWritten(c, d) \/ LeaveWritten(c, d) \/ UNCHANGED roster
    BY <1>1
  <1>4. /\ Side'
        /\ \A k \in Connections : Listening(k)' => Listening(k)
        /\ \A k \in Connections \ {c} : \A v \in Users \ {UserOf[k]} : Listening(k)' => Told(k, v)'
        /\ \A v \in Users : v # d.actor => roster'[c][v] = roster[c][v]
        /\ \A k \in Threads : delivering'[k].at # c
        /\ \A e \in Deliveries : Targeted(e, c) /\ e # d => Targeted(e, c)'
    BY <1>1, <1>3, WrittenTold
  <1>5. UNCHANGED <<generation, present>>
    BY <1>1 DEF Written, store
  <1>6. /\ d.kind = "leave" => roster'[c][d.actor] = 0
        /\ d.kind = "join" => roster'[c][d.actor] = d.recipient
        /\ \/ roster'[c][d.actor] = d.recipient /\ d.kind # "leave"
           \/ roster'[c][d.actor] = roster[c][d.actor] /\ d.kind = "message"
           \/ d.kind = "leave"
    BY <1>1, <1>2 DEF JoinWritten, LeaveWritten, TypeOK
  <1>7. ASSUME NEW v \in Users \ {UserOf[c]}, Listening(c)' PROVE Told(c, v)'
    <2>1. Told(c, v) /\ generation[UserOf[c]] # 0
      BY <1>4, <1>7 DEF AllTold, Listening
    <2>2. ASSUME NEW kind \in {"join", "leave"}, Coming(kind, c, v),
                 ~Announces(d, kind, c, v)
          PROVE  Coming(kind, c, v)'
      <3>1. PICK e \in Deliveries : Targeted(e, c) /\ Announces(e, kind, c, v)
        BY <2>2 DEF Coming
      <3>2. Targeted(e, c)'
        BY <1>4, <2>2, <3>1
      <3>3. Announces(e, kind, c, v)'
        BY <1>5, <3>1 DEF Announces
      <3>4. QED
        BY <3>2, <3>3 DEF Coming
    <2>3. Settles(c, v)' <=> roster'[c][v] = generation[UserOf[c]]
      BY <1>4, <1>5 DEF Settles, At
    <2>4. Knows(c, v)' <=> roster'[c][v] = generation[UserOf[c]]
      BY <1>4, <1>5 DEF Knows, At
    <2> HIDE DEF d
    <2>5. CASE v # d.actor
      <3>1. roster'[c][v] = roster[c][v]
        BY <1>4, <2>5
      <3>2. ~Announces(d, "leave", c, v) /\ ~Announces(d, "join", c, v)
        BY <2>5 DEF Announces
      <3>3. QED
        BY <1>5, <2>1, <2>2, <2>3, <2>4, <3>1, <3>2 DEF Told, Knows, Settles
    <2>6. CASE v = d.actor
      <3>1. At(t, c, v)
        BY <1>1, <2>6 DEF At, d
      <3>2. ASSUME generation[v] = 0, Knows(c, v)' PROVE Coming("leave", c, v)'
        <4>1. roster'[c][v] = generation[UserOf[c]] /\ d.kind # "leave"
          BY <1>6, <2>1, <2>4, <2>6, <3>2
        <4>2. Knows(c, v)
          <5>1. CASE roster'[c][v] = d.recipient
            BY <3>1, <4>1, <5>1 DEF Knows, Enters, d
          <5>2. CASE roster'[c][v] = roster[c][v]
            BY <4>1, <5>2 DEF Knows
          <5>3. QED
            BY <1>6, <2>6, <4>1, <5>1, <5>2
        <4>3. ~Announces(d, "leave", c, v)
          BY <4>1 DEF Announces
        <4>4. QED
          BY <2>1, <2>2, <3>2, <4>2, <4>3 DEF Told
      <3>3. ASSUME c \in present, generation[v] > generation[UserOf[c]],
                   roster'[c][v] # generation[UserOf[c]]
            PROVE  Coming("join", c, v)'
        <4>1. ~Announces(d, "join", c, v)
          BY <1>6, <2>6, <3>3 DEF Announces
        <4>2. ~Settles(c, v)
          <5>1. SUFFICES ASSUME Settles(c, v) PROVE FALSE
            OBVIOUS
          <5>2. d.kind # "leave" /\ d.recipient = generation[UserOf[c]]
                /\ roster[c][v] = generation[UserOf[c]]
            BY <3>1, <5>1 DEF Settles, Enters, d
          <5>3. QED
            BY <1>6, <2>6, <3>3, <5>2
        <4>3. QED
          BY <2>1, <2>2, <3>3, <4>1, <4>2 DEF Told
      <3>4. QED
        BY <1>5, <2>3, <3>2, <3>3 DEF Told
    <2>7. QED
      BY <2>5, <2>6
  <1>8. QED
    BY <1>4, <1>7 DEF AllTold

LEMMA WriteFailsTold ==
    ASSUME RosterInv, NEW t \in Threads, WriteFails(t)
    PROVE  Side' /\ AllTold'
  <1> USE SideUnfolds
  <1> DEFINE d == delivering[t].delivery
  <1>1. PICK c \in Connections :
          /\ delivering[t].at = c
          /\ JoinWritten(c, d) \/ UNCHANGED roster
          /\ writer' = [writer EXCEPT ![c] = FALSE]
          /\ Written(t, c)
    BY DEF WriteFails
  <1>2. ~writer'[c] /\ \A k \in Connections : writer'[k] => writer[k]
    BY <1>1 DEF TypeOK
  <1>3. /\ Side'
        /\ \A k \in Connections \ {c} : \A v \in Users \ {UserOf[k]} : Listening(k)' => Told(k, v)'
    BY <1>1, <1>2, WrittenTold
  <1>4. ~Listening(c)'
    BY <1>2 DEF Listening
  <1>5. QED
    BY <1>3, <1>4 DEF AllTold

(***************************************************************************)
(* The theorems.                                                           *)
(***************************************************************************)
LEMMA NextInv == IInv /\ [Next]_vars => IInv'
  <1> SUFFICES ASSUME IInv, [Next]_vars PROVE IInv'
    OBVIOUS
  <1>1. ASSUME NEW c \in Connections, Lease(c) PROVE IInv'
    BY <1>1, ConnectInv, ExpireInv, UnregisterInv, RetireWriterInv DEF Lease
  <1>2. ASSUME NEW c \in Connections, Route(c) PROVE IInv'
    BY <1>2, RouteDelayedInv, RouteNowInv DEF Route
  <1>3. ASSUME NEW t \in Threads, Deliver(t) PROVE IInv'
    BY <1>3, ValidateInv, WriteInv, WriteFailsInv DEF Deliver
  <1>4. CASE UNCHANGED vars
    BY <1>4 DEF vars, IInv, LeaseInv, TypeOK, Held, Alive, Busy, Honest, Remembered,
                JoinBeforeMessage
  <1>5. QED
    BY <1>1, <1>2, <1>3, <1>4, RequestInv, DequeueInv DEF Next

\* The inductive invariant: mutexes, serving threads, what deliveries introduce, and what the
\* endpoints of Core/lobby.cpp remember of their clients.
THEOREM Invariance == Spec => []IInv
  BY InitInv, NextInv, PTL DEF Spec

\* Members, revisions, endpoints, queues and histories stay within their types, and no
\* generation passes the end of the revision.
THEOREM TypeCorrect == Spec => []TypeOK
  <1>1. IInv => TypeOK
    BY DEF IInv, LeaseInv
  <1>2. QED
    BY Invariance, <1>1, PTL

\* A member that joined after the recipient is announced to the recipient's client before
\* any of its messages is written there.
THEOREM JoinsPrecedeMessages == Spec => []JoinBeforeMessage
  <1>1. IInv => JoinBeforeMessage
    BY DEF IInv
  <1>2. QED
    BY Invariance, <1>1, PTL

\* No thread writes through an endpoint whose serving thread has left the socket behind.
THEOREM WritersRetire == Spec => []NoDetachedWriter
  <1>1. IInv => NoDetachedWriter
    BY DEF IInv, LeaseInv, Held, Alive, NoDetachedWriter
  <1>2. QED
    BY Invariance, <1>1, PTL

(***************************************************************************)
(* JoinWrittenOnce.                                                        *)
(***************************************************************************)
\* The memory of an endpoint that a thread is at, and the delivery it is there with, stay.
LEMMA StillUnwritten ==
    ASSUME JoinWrittenOnce,
           \A k \in Threads, e \in Connections : delivering'[k].at = e =>
               delivering'[k] = delivering[k] /\ joins'[e] = joins[e]
    PROVE  JoinWrittenOnce'
  BY DEF JoinWrittenOnce, Joined, Join

\* A delivery that is taken up, or a thread that goes on, is at no endpoint yet.
LEMMA TakenUp ==
    ASSUME LeaseInv, NEW t \in Threads, NEW next, next.at = Free,
           delivering' = [delivering EXCEPT ![t] = next]
    PROVE  \A k \in Threads, e \in Connections :
               delivering'[k].at = e => k # t /\ delivering'[k] = delivering[k]
  BY ChannelAssumption DEF LeaseInv, TypeOK, Threads

LEMMA RemainingAtNone == ASSUME NEW d, NEW targets PROVE Remaining(d, targets).at = Free
  BY DEF Remaining, Nothing

LEMMA RequestsStay ==
    ASSUME NEW c \in Connections, Request(c)
    PROVE  UNCHANGED <<delivering, joins>>
  <1>1. CASE Refused(c)
    BY <1>1 DEF Refused, Dispatched, endpoint
  <1>2. CASE Subscribe(c)
    BY <1>2 DEF Subscribe, Dispatched, endpoint
  <1>3. CASE Unsubscribe(c)
    BY <1>3 DEF Unsubscribe, Dispatched, endpoint
  <1>4. CASE Message(c)
    BY <1>4 DEF Message, Dispatched, endpoint
  <1>5. QED
    BY <1>1, <1>2, <1>3, <1>4 DEF Request

LEMMA OnceInv ==
    ASSUME IInv, JoinWrittenOnce, [Next]_vars
    PROVE  JoinWrittenOnce'
  <1> USE ChannelAssumption DEF IInv, LeaseInv
  <1>1. CASE UNCHANGED <<delivering, joins>>
    BY <1>1, StillUnwritten
  <1>2. ASSUME NEW c \in Connections, RetireWriter(c) PROVE JoinWrittenOnce'
    <2>1. /\ holder[c] = Free /\ delivering' = delivering
          /\ \A e \in Connections \ {c} : joins'[e] = joins[e]
      BY <1>2 DEF RetireWriter, Silent, TypeOK
    <2>2. \A k \in Threads : delivering[k].at # c
      BY <2>1 DEF Held
    <2>3. QED
      BY <2>1, <2>2, StillUnwritten
  <1>3. ASSUME NEW c \in Connections, RouteNow(c) PROVE JoinWrittenOnce'
    <2>1. PICK d \in out[c] : delivering' = [delivering EXCEPT ![c] = Remaining(d, Leases(d.to))]
      BY <1>3 DEF RouteNow
    <2>2. joins' = joins
      BY <1>3 DEF RouteNow, endpoint
    <2>3. QED
      BY <2>1, <2>2, RemainingAtNone, TakenUp, StillUnwritten DEF Threads
  <1>4. CASE Dequeue
    <2>1. joins' = joins /\ delivering' = [delivering EXCEPT ![Worker] =
                                  Remaining(Head(pending).delivery, Head(pending).targets)]
      BY <1>4 DEF Dequeue, endpoint
    <2>2. QED
      BY <2>1, RemainingAtNone, TakenUp, StillUnwritten DEF Threads
  <1>5. ASSUME NEW t \in Threads, Validate(t) PROVE JoinWrittenOnce'
    <2>1. joins' = joins
      BY <1>5 DEF Validate, endpoint
    <2>2. ASSUME NEW targets, Proceed(t, targets) PROVE JoinWrittenOnce'
      BY <2>1, <2>2, RemainingAtNone, TakenUp, StillUnwritten DEF Proceed
    <2>3. ASSUME NEW c \in delivering[t].targets,
                 ~(delivering[t].delivery.kind = "join" /\ Joined(c, delivering[t].delivery)),
                 delivering' = [delivering EXCEPT ![t].at = c]
          PROVE  JoinWrittenOnce'
      <3>1. delivering[t] \in Delivering /\ delivering[t] # Nothing
        BY <2>3 DEF TypeOK, Nothing
      <3>2. /\ delivering'[t].at = c /\ delivering'[t].delivery = delivering[t].delivery
            /\ \A k \in Threads \ {t} : delivering'[k] = delivering[k]
        BY <2>3, <3>1 DEF TypeOK, Delivering
      <3>3. QED
        BY <2>1, <2>3, <3>2 DEF JoinWrittenOnce, Joined, Join
    <2>4. QED
      BY <1>5, <2>2, <2>3 DEF Validate
  <1>6. ASSUME NEW t \in Threads, Write(t) \/ WriteFails(t) PROVE JoinWrittenOnce'
    <2>1. PICK c \in Connections :
            /\ delivering[t].at = c /\ Written(t, c)
            /\ \/ JoinWritten(c, delivering[t].delivery) \/ LeaveWritten(c, delivering[t].delivery)
               \/ UNCHANGED joins
      BY <1>6 DEF Write, WriteFails
    <2>2. \A e \in Connections \ {c} : joins'[e] = joins[e]
      BY <2>1 DEF JoinWritten, LeaveWritten, TypeOK
    <2>3. \A k \in Threads, e \in Connections :
            delivering'[k].at = e => k # t /\ delivering'[k] = delivering[k]
      BY <2>1, RemainingAtNone, TakenUp DEF Written, Proceed
    <2>4. \A k \in Threads \ {t} : delivering[k].at # c
      BY <2>1 DEF Held
    <2>5. QED
      BY <2>2, <2>3, <2>4, StillUnwritten
  <1>7. ASSUME NEW c \in Connections, Lease(c) \/ Route(c) PROVE JoinWrittenOnce'
    BY <1>1, <1>2, <1>3, <1>7 DEF Lease, Route, Connect, Expire, Unregister, RouteDelayed, endpoint
  <1>8. QED
    BY <1>1, <1>4, <1>5, <1>6, <1>7, RequestsStay DEF Next, Deliver, vars

\* Whichever of the delayed join and the message that brings it along is first, an endpoint of
\* Core/lobby.cpp is written the join of one membership once.
THEOREM JoinsWrittenOnce == Spec => []JoinWrittenOnce
  <1>1. Init => JoinWrittenOnce
    BY ChannelAssumption DEF Init, JoinWrittenOnce, Nothing, Threads
  <1>2. QED
    BY Invariance, <1>1, OnceInv, PTL DEF Spec

(***************************************************************************)
(* RosterAgrees.                                                           *)
(***************************************************************************)
LEMMA RosterInvInit == Init => RosterInv
  <1> SUFFICES ASSUME Init PROVE RosterInv
    OBVIOUS
  <1>1. IInv
    BY InitInv
  <1>2. Stamped /\ Addressed /\ Places
    BY DEF Init, Stamped, Addressed, Places, Nothing
  <1>3. AllTold
    BY DEF Init, AllTold, Listening
  <1>4. QED
    BY <1>1, <1>2, <1>3 DEF RosterInv, Side

LEMMA RosterInvNext == RosterInv /\ [Next]_vars => RosterInv'
  <1> SUFFICES ASSUME RosterInv, [Next]_vars PROVE RosterInv'
    OBVIOUS
  <1>1. IInv'
    BY NextInv DEF RosterInv
  <1>2. Side' /\ AllTold'
    <2>1. ASSUME NEW c \in Connections, Lease(c) PROVE Side' /\ AllTold'
      BY <2>1, ConnectTold, ExpireTold, UnregisterTold, RetireWriterTold DEF Lease
    <2>2. ASSUME NEW c \in Connections, Route(c) PROVE Side' /\ AllTold'
      BY <2>2, RouteDelayedTold, RouteNowTold DEF Route
    <2>3. ASSUME NEW t \in Threads, Deliver(t) PROVE Side' /\ AllTold'
      BY <2>3, ValidateTold, WriteTold, WriteFailsTold DEF Deliver
    <2>4. CASE UNCHANGED vars
      <3>1. Side'
        BY <2>4 DEF vars, RosterInv, Side, Stamped, Addressed, Places, Past
      <3>2. AllTold'
        BY <2>4 DEF vars, RosterInv, AllTold, Listening, Told, Knows, Settles, At, Enters,
                    Coming, Targeted, Announces
      <3>3. QED
        BY <3>1, <3>2
    <2>5. QED
      BY <2>1, <2>2, <2>3, <2>4, RequestTold, DequeueTold DEF Next
  <1>3. QED
    BY <1>1, <1>2 DEF RosterInv

\* Once everything on its way to a member has been written or dropped, its clients know
\* nobody who is gone and everybody who joined after it, however requests, routing and
\* deliveries of Core/lobby.cpp interleave, for any number of users and connections.
THEOREM RostersAgree == Spec => []RosterAgrees
  <1>1. RosterInv => RosterAgrees
    <2> SUFFICES ASSUME RosterInv, NEW c \in endpoints,
                        generation[UserOf[c]] # 0, writer[c], valid[c], UserOf[c] \notin lost,
                        Settled(UserOf[c]), NEW v \in Users \ {UserOf[c]}
                 PROVE  /\ roster[c][v] = generation[UserOf[c]] => generation[v] # 0
                        /\ generation[v] > generation[UserOf[c]] /\ c \in present
                              => roster[c][v] = generation[UserOf[c]]
      BY DEF RosterAgrees
    <2> USE SideUnfolds
    <2>1. c \in Connections /\ Listening(c)
      BY DEF TypeOK, Listening
    <2>2. Told(c, v)
      BY <2>1 DEF AllTold
    <2>3. ASSUME NEW kind \in {"join", "leave"}, Coming(kind, c, v) PROVE FALSE
      <3>1. PICK d \in Deliveries : Targeted(d, c) /\ d.to = UserOf[c]
        BY <2>3 DEF Coming, Announces
      <3>2. QED
        BY <3>1 DEF Targeted, Settled
    <2>4. QED
      BY <2>2, <2>3 DEF Told, Knows, Settles
  <1>2. QED
    BY RosterInvInit, RosterInvNext, <1>1, PTL DEF Spec

=============================================================================
