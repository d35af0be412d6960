--------------------------- MODULE RelayProvider ---------------------------
(***************************************************************************)
(* The UDP relay: Provider in Services/Relay/relay_provider.cpp.  One      *)
(* worker thread purges its associations, waits for a datagram at most     *)
(* 50 ms, and acts on it.  Other threads end the platform sessions that    *)
(* the associations depend on.  Signatures, MACs and payloads are left     *)
(* out: a datagram is what its sender was able to authenticate.  Its       *)
(* counter passes the window of RelaySequence, so here every datagram of   *)
(* an association is a new one.                                            *)
(***************************************************************************)
EXTENDS Integers, FiniteSets

CONSTANTS
    Routes,             \* routing IDs the provider may draw
    Joins,              \* join IDs it may draw
    NoJoin, None,       \* the zero join ID; no association
    Sessions,           \* native session digests of the platform
    Title,              \* the title each session plays
    Inits,              \* the INIT datagrams, one for each SHA-256 digest
    Request,            \* what each INIT asks for: [session, bind, route, join]
    MaxAssociations,    \* 256
    MaxTransmit,        \* INT32_MAX: the counter no reply may use
    ClosedLimit, PendingLimit, EstablishedLimit   \* 5, 10 and 300 seconds of silence

\* struct Association; its age is the time since lastSeen.
Associations ==
    [init : Inits, join : Joins \cup {NoJoin}, established : BOOLEAN, closed : BOOLEAN,
     transmit : 1 .. MaxTransmit, age : 0 .. EstablishedLimit + 1]

ASSUME RelayAssumption ==
    /\ IsFiniteSet(Routes)
    /\ None \notin Associations
    /\ Request \in [Inits -> [session : Sessions, bind : BOOLEAN,
                              route : Routes, join : Joins]]
    /\ MaxAssociations \in Nat /\ MaxTransmit \in Nat \ {0}
    /\ ClosedLimit \in Nat /\ PendingLimit \in Nat /\ EstablishedLimit \in Nat
    /\ ClosedLimit <= EstablishedLimit /\ PendingLimit <= EstablishedLimit

VARIABLES
    associations,   \* by route
    active,         \* the published number of established associations
    live,           \* the platform sessions that still exist
    expired,        \* the INITs whose signed credentials have expired
    pc              \* where the worker is: "purge", "select" or "down"

vars == <<associations, active, live, expired, pc>>

Known(r) == associations[r] # None
Taken == {r \in Routes : Known(r)}
SessionOf(item) == Request[item.init].session

\* A broken variant: the session check forgets that an established association needs one too.
sessionEstablished(item) ==
    item.established \/ (item.init \notin expired /\ SessionOf(item) \in live)

\* Provider::session: an established association outlives its credentials, never
\* the session they were issued for.
session(item) ==
    /\ item.established \/ item.init \notin expired
    /\ SessionOf(item) \in live

\* A route that counts as active, and that data may come from or go to.
Open(item) == item.established /\ ~item.closed
OpenRoutes == {r \in Routes : Known(r) /\ Open(associations[r])}

\* The silence after which the purge drops an association.
Limit(item) == IF item.closed THEN ClosedLimit
               ELSE IF item.established THEN EstablishedLimit
               ELSE PendingLimit

Dead == {r \in Taken : ~session(associations[r]) \/ associations[r].age > Limit(associations[r])}

-----------------------------------------------------------------------------
(* Broken variants *)

\* Only half-open associations are searched for a repeated INIT.
RepeatedOpen(d) ==
    \E r \in Taken : associations[r].init = d /\ ~associations[r].established

\* The purge does not count what it drops.
PurgeUncounted ==
    /\ pc = "purge"
    /\ associations' = [r \in Routes |-> IF r \in Dead THEN None ELSE associations[r]]
    /\ pc' = "select"
    /\ UNCHANGED <<active, live, expired>>

\* A repeated INIT keeps its handshake from ageing.
ResendRefreshing(d) ==
    /\ pc = "select"
    /\ \E r \in Taken :
        /\ associations[r].init = d
        /\ ~associations[r].closed /\ session(associations[r])
        /\ associations' = [associations EXCEPT ![r].age = 0]
    /\ pc' = "purge"
    /\ UNCHANGED <<active, live, expired>>

-----------------------------------------------------------------------------
Init ==
    /\ associations = [r \in Routes |-> None]
    /\ active = 0
    /\ live = Sessions
    /\ expired = {}
    /\ pc = "purge"

\* The head of run's loop: drop what lost its session or has been silent too long.
Purge ==
    /\ pc = "purge"
    /\ associations' = [r \in Routes |-> IF r \in Dead THEN None ELSE associations[r]]
    /\ active' = active - Cardinality(Dead \cap OpenRoutes)
    /\ pc' = "select"
    /\ UNCHANGED <<live, expired>>

\* Nothing arrives in 50 ms, or what arrives is rejected and changes nothing.
Idle ==
    /\ pc = "select"
    /\ pc' = "purge"
    /\ UNCHANGED <<associations, active, live, expired>>

\* init's checks of the credentials, and of the association a join asks for.
Admissible(d) ==
    /\ d \notin expired /\ Request[d].session \in live
    /\ \/ Request[d].bind
       \/ LET r == Request[d].route IN
            /\ Known(r) /\ Open(associations[r]) /\ session(associations[r])
            /\ associations[r].join = Request[d].join
            /\ Title[SessionOf(associations[r])] = Title[Request[d].session]

Repeated(d) == \E r \in Taken : associations[r].init = d

\* A new INIT makes a half-open association at a route nobody has.
Handshake(d) ==
    /\ pc = "select"
    /\ Admissible(d) /\ ~Repeated(d)
    /\ Cardinality(Taken) < MaxAssociations
    /\ \E r \in Routes \ Taken, j \in Joins :
        associations' = [associations EXCEPT ![r] =
            [init |-> d, join |-> IF Request[d].bind THEN j ELSE NoJoin,
             established |-> FALSE, closed |-> FALSE, transmit |-> 1, age |-> 0]]
    /\ pc' = "purge"
    /\ UNCHANGED <<active, live, expired>>

\* A repeated INIT is answered with the same acknowledgement and changes nothing.
Resend(d) ==
    /\ pc = "select"
    /\ Admissible(d)
    /\ \E r \in Taken :
        /\ associations[r].init = d
        /\ ~associations[r].closed /\ session(associations[r])
    /\ pc' = "purge"
    /\ UNCHANGED <<associations, active, live, expired>>

\* What every datagram of an association needs before receive looks at its type.
Receives(r) == pc = "select" /\ Known(r) /\ session(associations[r])

\* The item after a reply that may use its transmit counter, or after one that may
\* not: then the handler throws before it refreshes lastSeen.
Replied(item) ==
    IF item.transmit < MaxTransmit THEN [item EXCEPT !.transmit = @ + 1, !.age = 0] ELSE item

\* Type 3: the peer proves the handshake.
Verify(r) ==
    /\ Receives(r) /\ ~associations[r].closed
    /\ associations' = [associations EXCEPT ![r] = Replied([@ EXCEPT !.established = TRUE])]
    /\ active' = IF associations[r].established THEN active ELSE active + 1
    /\ pc' = "purge"
    /\ UNCHANGED <<live, expired>>

\* Type 5: data for another association, forwarded under that one's counter.
Data(r, t) ==
    /\ Receives(r) /\ Open(associations[r])
    /\ LET reaches == /\ Known(t) /\ Open(associations[t]) /\ session(associations[t])
                      /\ Title[SessionOf(associations[t])] = Title[SessionOf(associations[r])]
       IN  associations' =
             IF ~reaches THEN [associations EXCEPT ![r].age = 0]
             ELSE IF associations[t].transmit < MaxTransmit
             THEN [associations EXCEPT ![t].transmit = @ + 1, ![r].age = 0]
             ELSE associations
    /\ pc' = "purge"
    /\ UNCHANGED <<active, live, expired>>

\* Type 6: a ping of the peer's own timestamp is echoed; a probe is only noted.
Ping(r) ==
    /\ Receives(r) /\ Open(associations[r])
    /\ \/ associations' = [associations EXCEPT ![r] = Replied(@)]
       \/ associations' = [associations EXCEPT ![r].age = 0]
    /\ pc' = "purge"
    /\ UNCHANGED <<active, live, expired>>

\* Type 8: a joined association binds too, and gets the join ID others will name.
BindUpgrade(r) ==
    /\ Receives(r) /\ Open(associations[r])
    /\ \E j \in Joins :
        associations' = [associations EXCEPT ![r] =
            Replied(IF @.join = NoJoin THEN [@ EXCEPT !.join = j] ELSE @)]
    /\ pc' = "purge"
    /\ UNCHANGED <<active, live, expired>>

\* Type 10: the peer disconnects, perhaps again; the purge removes the route later.
Disconnect(r) ==
    /\ Receives(r)
    /\ associations' = [associations EXCEPT ![r] = Replied([@ EXCEPT !.closed = TRUE])]
    /\ active' = IF Open(associations[r]) THEN active - 1 ELSE active
    /\ pc' = "purge"
    /\ UNCHANGED <<live, expired>>

\* An event write, sendto or select fails: the worker gives everything up for good.
ProviderFailure ==
    /\ pc \in {"purge", "select"}
    /\ pc' = "down"
    /\ active' = 0
    /\ associations' = [r \in Routes |-> None]
    /\ UNCHANGED <<live, expired>>

\* Another thread replaces a session or lets it expire; its digest never returns.
EndSession(s) ==
    /\ s \in live
    /\ live' = live \ {s}
    /\ UNCHANGED <<associations, active, expired, pc>>

\* The signed credentials of an INIT pass their deadline.
Expire(d) ==
    /\ d \notin expired
    /\ expired' = expired \cup {d}
    /\ UNCHANGED <<associations, active, live, pc>>

\* A unit of time passes for every association that is not past every limit already.
Tick ==
    /\ \E r \in Taken : associations[r].age <= EstablishedLimit
    /\ associations' = [r \in Routes |->
          IF Known(r) /\ associations[r].age <= EstablishedLimit
          THEN [associations[r] EXCEPT !.age = @ + 1] ELSE associations[r]]
    /\ UNCHANGED <<active, live, expired, pc>>

Receive ==
    \/ \E d \in Inits : Handshake(d) \/ Resend(d)
    \/ \E r \in Routes : Verify(r) \/ Ping(r) \/ BindUpgrade(r) \/ Disconnect(r)
    \/ \E r, t \in Routes : Data(r, t)

Next ==
    \/ Purge
    \/ Idle
    \/ Receive
    \/ ProviderFailure
    \/ \E s \in Sessions : EndSession(s)
    \/ \E d \in Inits : Expire(d)
    \/ Tick

Spec == Init /\ [][Next]_vars

\* The worker's loop never blocks for longer than select's 50 ms, and time passes.
Fairness == WF_vars(Purge) /\ WF_vars(Idle \/ Receive) /\ WF_vars(Tick)
FairSpec == Spec /\ Fairness

-----------------------------------------------------------------------------
(* Properties *)

TypeOK ==
    /\ associations \in [Routes -> Associations \cup {None}]
    /\ active \in Nat
    /\ live \subseteq Sessions
    /\ expired \subseteq Inits
    /\ pc \in {"purge", "select", "down"}

\* The number the status page shows counts exactly the open associations, through
\* repeated verifications and disconnects, purges of open and closed ones, and failure.
ActiveExact == active = Cardinality(OpenRoutes)

\* One INIT has at most one association, however often it is sent (init looks for its
\* digest): its acknowledgement always carries the same keys.
OnePerInit ==
    \A r, t \in Taken : associations[r].init = associations[t].init => r = t

\* A half-open association does not keep its place in the table, whatever its peer and
\* the others send: it is verified or closed, or the purge takes it.
HalfOpen(r) == Known(r) /\ ~associations[r].established /\ ~associations[r].closed
HandshakesEnd == \A r \in Routes : HalfOpen(r) ~> ~HalfOpen(r)

\* When a session ends, its associations go and none comes back, even if its peer
\* never falls silent.
SessionsTakeRoutesAlong ==
    \A s \in Sessions :
        s \notin live ~> [](\A r \in Taken : SessionOf(associations[r]) # s)

\* The table never outgrows its limit.
TableBounded == Cardinality(Taken) <= MaxAssociations

\* What may become of an association while it has its route: its keys are those of one INIT, it
\* is verified and closed once and for all, others keep naming the same join ID, no counter is
\* used again under the same keys, and as long as it is half-open it only grows older.
Forward(before, after) ==
    /\ after.init = before.init
    /\ before.established => after.established
    /\ before.closed => after.closed
    /\ before.join # NoJoin => after.join = before.join
    /\ after.transmit >= before.transmit
    /\ ~after.established /\ ~after.closed => after.age >= before.age

\* Nobody's datagrams, the peer's or another association's, take an association back, and a
\* route passes to another INIT only after the purge has cleared it: what HandshakesEnd
\* rests on.
NeverBack ==
    [][\A r \in Taken : Known(r)' => Forward(associations[r], associations'[r])]_vars

\* A session that has ended and has no association gets none again: what the second half of
\* SessionsTakeRoutesAlong rests on.
NoneComesBack ==
    [][\A s \in Sessions \ live :
          (\A r \in Taken : SessionOf(associations[r]) # s) =>
              /\ s \notin live'
              /\ \A r \in Taken' : SessionOf(associations'[r]) # s]_vars
=============================================================================
