---------------------------- MODULE RelayProofs ----------------------------
(***************************************************************************)
(* Proofs about the relay: RelayWindow, for every modulus, window and      *)
(* counter bound, and RelayProvider, for every table, limit and set of     *)
(* INITs.  The two share no variable.                                      *)
(***************************************************************************)
EXTENDS RelayWindow, RelayProvider, FiniteSetTheorems, TLAPS

-----------------------------------------------------------------------------
(* RelayWindow *)

WindowIInv == WindowTypeOK /\ NoReplay /\ WindowExact

-----------------------------------------------------------------------------
(* The window's operators *)

\* A counter that candidate returns is fresh in the window.
LEMMA CandidateFresh ==
  ASSUME NEW seq \in Sequences, NEW low, NEW c \in Counters, candidate(seq, low) = c
  PROVE  Fresh(seq, c)
  BY SequenceAssumption DEF candidate, Counters, Rejected

\* Accepting a fresh counter yields a window again.
LEMMA AcceptTyped ==
  ASSUME NEW seq \in Sequences, NEW c \in Counters, Fresh(seq, c)
  PROVE  accept(seq, c) \in Sequences
  <1> USE SequenceAssumption DEF Sequences, Windows, Counters
  <1>1. CASE c > seq.highest
    BY <1>1 DEF accept
  <1>2. CASE ~(c > seq.highest)
    <2>1. seq.highest - c \in 0 .. Window - 1
      BY <1>2 DEF Fresh
    <2> QED
      BY <1>2, <2>1 DEF accept
  <1> QED
    BY <1>1, <1>2

\* A fresh counter has not been handled.
LEMMA FreshUnhandled ==
  ASSUME WindowIInv, NEW c \in Counters, Fresh(receive, c)
  PROVE  handled[c] = 0
  <1> USE SequenceAssumption DEF WindowIInv, WindowTypeOK, Sequences, Windows, Counters
  <1>1. CASE c > receive.highest
    BY <1>1 DEF WindowExact
  <1>2. CASE ~(c > receive.highest)
    <2> DEFINE k == receive.highest - c
    <2>1. k \in 0 .. Window - 1 /\ k \notin receive.seen
      BY <1>2 DEF Fresh
    <2>2. receive.highest - k = c
      OBVIOUS
    <2>3. ~(handled[receive.highest - k] > 0)
      BY <2>1, <2>2 DEF WindowExact
    <2> QED
      BY <2>2, <2>3
  <1> QED
    BY <1>1, <1>2

-----------------------------------------------------------------------------
(* The invariant *)

\* Nothing has been sent or handled at first, and the window is empty.
LEMMA InitWindowIInv == WindowInit => WindowIInv
  BY SequenceAssumption
  DEF WindowInit, WindowIInv, WindowTypeOK, NoReplay, WindowExact, NewSequence, Sequences, Windows, Counters

\* After a datagram is handled, the bitmap still says exactly what was handled.
LEMMA ArriveWindowExact ==
  ASSUME WindowIInv, NEW c \in Counters, Arrive(c)
  PROVE  WindowExact'
  <1> USE SequenceAssumption DEF WindowIInv, WindowTypeOK, Sequences, Windows, Counters
  <1>1. Fresh(receive, c)
    BY CandidateFresh DEF Arrive
  <1>2. /\ receive' = accept(receive, c)
        /\ handled' = [handled EXCEPT ![c] = @ + 1]
        /\ handled[c] = 0
    BY <1>1, FreshUnhandled DEF Arrive
  <1>3. handled'[c] = 1 /\ \A d \in Counters : d # c => handled'[d] = handled[d]
    BY <1>2
  <1>4. CASE c > receive.highest
    <2>1. /\ receive'.highest = c
          /\ receive'.seen = {k \in 0 .. Window - 1 :
                                k - (c - receive.highest) \in receive.seen} \cup {0}
      BY <1>2, <1>4 DEF accept
    <2>2. ASSUME NEW d \in Counters, d > receive'.highest PROVE handled'[d] = 0
      BY <1>3, <1>4, <2>1, <2>2 DEF WindowExact
    <2>3. ASSUME NEW k \in 0 .. Window - 1, receive'.highest - k \in Counters
          PROVE  k \in receive'.seen <=> handled'[receive'.highest - k] > 0
      <3> DEFINE j == k - (c - receive.highest)
      <3>1. CASE k = 0
        BY <1>3, <2>1, <3>1
      <3>2. CASE k # 0 /\ j >= 0
        <4>1. j \in 0 .. Window - 1 /\ receive.highest - j = c - k
          BY <1>4, <3>2
        <4>2. c - k \in Counters /\ c - k # c
          BY <2>1, <2>3, <3>2
        <4>3. j \in receive.seen <=> handled[receive.highest - j] > 0
          BY <4>1, <4>2 DEF WindowExact
        <4>4. k \in receive'.seen <=> j \in receive.seen
          BY <2>1, <3>2
        <4>5. handled'[c - k] = handled[c - k]
          BY <1>3, <4>2
        <4> QED
          BY <2>1, <4>1, <4>3, <4>4, <4>5
      <3>3. CASE k # 0 /\ j < 0
        <4>1. k \notin receive'.seen
          BY <2>1, <3>3
        <4>2. c - k \in Counters /\ c - k # c /\ c - k > receive.highest
          BY <2>1, <2>3, <3>3
        <4>3. handled[c - k] = 0
          BY <4>2 DEF WindowExact
        <4> QED
          BY <1>3, <2>1, <4>1, <4>2, <4>3
      <3> QED
        BY <1>4, <3>1, <3>2, <3>3
    <2> QED
      BY <2>2, <2>3 DEF WindowExact
  <1>5. CASE ~(c > receive.highest)
    <2>1. /\ receive'.highest = receive.highest
          /\ receive'.seen = receive.seen \cup {receive.highest - c}
      BY <1>2, <1>5 DEF accept
    <2>2. ASSUME NEW d \in Counters, d > receive'.highest PROVE handled'[d] = 0
      BY <1>3, <1>5, <2>1, <2>2 DEF WindowExact
    <2>3. ASSUME NEW k \in 0 .. Window - 1, receive'.highest - k \in Counters
          PROVE  k \in receive'.seen <=> handled'[receive'.highest - k] > 0
      <3>1. CASE receive.highest - k = c
        BY <1>3, <2>1, <3>1
      <3>2. CASE receive.highest - k # c
        <4>1. k # receive.highest - c
          BY <3>2
        <4>2. k \in receive'.seen <=> k \in receive.seen
          BY <2>1, <4>1
        <4> QED
          BY <1>3, <2>1, <2>3, <3>2, <4>2 DEF WindowExact
      <3> QED
        BY <3>1, <3>2
    <2> QED
      BY <2>2, <2>3 DEF WindowExact
  <1> QED
    BY <1>4, <1>5

\* Every step keeps the invariant.
LEMMA NextWindowIInv == WindowIInv /\ [WindowNext]_windowVars => WindowIInv'
  <1> SUFFICES ASSUME WindowIInv, [WindowNext]_windowVars PROVE WindowIInv'
    OBVIOUS
  <1> USE SequenceAssumption
  <1>1. CASE Send
    BY <1>1 DEF Send, WindowIInv, WindowTypeOK, NoReplay, WindowExact
  <1>2. ASSUME NEW c \in Counters, Arrive(c) PROVE WindowIInv'
    <2>1. Fresh(receive, c)
      BY <1>2, CandidateFresh DEF Arrive, WindowIInv, WindowTypeOK
    <2>2. WindowTypeOK'
      BY <1>2, <2>1, AcceptTyped DEF Arrive, WindowIInv, WindowTypeOK
    <2>3. NoReplay'
      BY <1>2, <2>1, FreshUnhandled DEF Arrive, WindowIInv, WindowTypeOK, NoReplay
    <2>4. WindowExact'
      BY <1>2, ArriveWindowExact
    <2> QED
      BY <2>2, <2>3, <2>4 DEF WindowIInv
  <1>3. CASE UNCHANGED windowVars
    BY <1>3 DEF windowVars, WindowIInv, WindowTypeOK, NoReplay, WindowExact
  <1> QED
    BY <1>1, <1>2, <1>3 DEF WindowNext

\* Sequence keeps its types: the bitmap stays inside its 32 bits and no accepted
\* counter reaches INT32_MAX.
THEOREM WindowTypeCorrect == WindowSpec => []WindowTypeOK
  <1>1. WindowIInv => WindowTypeOK
    BY DEF WindowIInv
  <1> QED
    BY InitWindowIInv, NextWindowIInv, <1>1, PTL DEF WindowSpec

\* Whatever the network loses, duplicates and reorders, the provider acts on each
\* counter of an association at most once.
THEOREM NeverReplayed == WindowSpec => []NoReplay
  <1>1. WindowIInv => NoReplay
    BY DEF WindowIInv
  <1> QED
    BY InitWindowIInv, NextWindowIInv, <1>1, PTL DEF WindowSpec

\* The bitmap is exact: a counter is refused for its mark only if it was handled.
THEOREM WindowIsExact == WindowSpec => []WindowExact
  <1>1. WindowIInv => WindowExact
    BY DEF WindowIInv
  <1> QED
    BY InitWindowIInv, NextWindowIInv, <1>1, PTL DEF WindowSpec

\* A counter next to the highest one is in the same epoch of the wire or in the next to it.
LEMMA Epochs ==
  ASSUME NEW m \in Nat \ {0}, NEW a \in Nat, NEW b \in Nat, a - b < m, b - a < m
  PROVE  /\ a = (a \div m) * m + (a % m) /\ a \div m \in Nat /\ a % m \in 0 .. m - 1
         /\ a \div m \in {(b \div m) - 1, b \div m, (b \div m) + 1}
  OBVIOUS

\* Multiples of m at a distance of at most one epoch.
LEMMA EpochShift ==
  ASSUME NEW m \in Int, NEW q \in Int, NEW e \in Int, NEW r \in Int, NEW c \in Int,
         c = q * m + r, q \in {e - 1, e, e + 1}
  PROVE  e * m + r \in {c - m, c, c + m}
  <1>1. CASE q = e - 1
    <2>1. q * m = e * m - m
      BY <1>1
    <2> QED
      BY <2>1
  <1>2. CASE q = e
    BY <1>2
  <1>3. CASE q = e + 1
    <2>1. q * m = e * m + m
      BY <1>3
    <2> QED
      BY <2>1
  <1> QED
    BY <1>1, <1>2, <1>3

\* The epoch of the highest counter and the low bits of another one near it miss that
\* one by at most one turn of the wire's range.
LEMMA NearMiss ==
  ASSUME NEW m \in Nat \ {0}, NEW c \in Nat, NEW h \in Nat, c - h < m, h - c < m
  PROVE  (h \div m) * m + (c % m) \in {c - m, c, c + m}
  <1>1. /\ c = (c \div m) * m + (c % m) /\ c \div m \in Nat /\ c % m \in 0 .. m - 1
        /\ c \div m \in {(h \div m) - 1, h \div m, (h \div m) + 1}
    BY Epochs
  <1>2. h \div m \in Int /\ c % m \in Int /\ c \div m \in Int
    BY <1>1
  <1> QED
    BY <1>1, <1>2, EpochShift

\* From its low bits a counter less than half the wire's range away is rebuilt.
LEMMA RebuildsNear ==
  ASSUME NEW seq \in Sequences, seq.highest >= 0, NEW c \in Nat,
         c - seq.highest < Half, seq.highest - c < Half
  PROVE  Rebuilt(seq, c % Modulus) = c
  <1> DEFINE h == seq.highest
             near == (h \div Modulus) * Modulus + (c % Modulus)
  <1>1. /\ h \in Nat /\ Modulus \in Nat \ {0}
        /\ Half \in Nat /\ Modulus = 2 * Half
    BY SequenceAssumption DEF Sequences, Half
  <1>2. near \in {c - Modulus, c, c + Modulus}
    <2>1. c - h < Modulus /\ h - c < Modulus
      BY <1>1
    <2> HIDE DEF h
    <2> QED
      BY <1>1, <2>1, NearMiss
  <1>3. Rebuilt(seq, c % Modulus) =
            IF near - h > Half THEN near - Modulus
            ELSE IF h - near > Half THEN near + Modulus ELSE near
    BY <1>1 DEF Rebuilt
  <1>4. c - h < Half /\ h - c < Half
    OBVIOUS
  <1> HIDE DEF near, h
  <1> QED
    BY <1>1, <1>2, <1>3, <1>4

\* A counter that is not marked is fresh while it is in the window or ahead of it.
LEMMA AdmitsWhatItSaw == WindowIInv => AdmitsFresh
  <1> SUFFICES ASSUME WindowIInv, NEW c \in Counters, c < next, handled[c] = 0,
                      c - receive.highest < Half, receive.highest - c < Window,
                      receive.highest >= 0
               PROVE  candidate(receive, c % Modulus) = c
    BY DEF AdmitsFresh
  <1>1. receive \in Sequences /\ c \in Nat /\ c < MaxCounter /\ receive.highest \in Nat
    BY SequenceAssumption DEF WindowIInv, WindowTypeOK, Sequences, Counters
  <1>2. receive.highest - c < Half
    BY <1>1, SequenceAssumption, WindowAssumption DEF Half
  <1>3. Rebuilt(receive, c % Modulus) = c
    BY <1>1, <1>2, RebuildsNear
  <1>4. Fresh(receive, c)
    <2>1. CASE c > receive.highest
      BY <1>1, <2>1 DEF Fresh
    <2>2. CASE ~(c > receive.highest)
      <3> DEFINE k == receive.highest - c
      <3>1. k \in 0 .. Window - 1 /\ receive.highest - k = c
        BY <1>1, <2>2, SequenceAssumption
      <3>2. k \notin receive.seen
        BY <3>1 DEF WindowIInv, WindowExact
      <3> QED
        BY <1>1, <3>2 DEF Fresh
    <2> QED
      BY <2>1, <2>2
  <1> QED
    BY <1>3, <1>4 DEF candidate

\* Wrapping counters, lost datagrams and reordering cut no association off: a counter that
\* was not handled is admitted while it is near enough to the highest one (candidate).
THEOREM FreshAdmitted == WindowSpec => []AdmitsFresh
  BY InitWindowIInv, NextWindowIInv, AdmitsWhatItSaw, PTL DEF WindowSpec

-----------------------------------------------------------------------------
(* RelayProvider *)

IInv == TypeOK /\ ActiveExact /\ OnePerInit

\* No association is the null one.
LEMMA NotNone == \A item \in Associations : item # None
  BY RelayAssumption

\* An association keeps its type, its INIT and its openness under the updates of receive.
LEMMA ItemTyped ==
  ASSUME NEW item \in Associations
  PROVE  /\ [item EXCEPT !.established = TRUE] \in Associations
         /\ [item EXCEPT !.closed = TRUE] \in Associations
         /\ \A j \in Joins : [item EXCEPT !.join = j] \in Associations
  <1>1. [item EXCEPT !.established = TRUE] \in Associations
    BY DEF Associations
  <1>2. [item EXCEPT !.closed = TRUE] \in Associations
    BY DEF Associations
  <1>3. ASSUME NEW j \in Joins PROVE [item EXCEPT !.join = j] \in Associations
    BY DEF Associations
  <1> QED
    BY <1>1, <1>2, <1>3

LEMMA AgeTyped ==
  ASSUME NEW item \in Associations, NEW a \in 0 .. EstablishedLimit + 1
  PROVE  /\ [item EXCEPT !.age = a] \in Associations
         /\ [item EXCEPT !.age = a].init = item.init
         /\ Open([item EXCEPT !.age = a]) <=> Open(item)
  BY DEF Associations, Open

LEMMA TransmitTyped ==
  ASSUME NEW item \in Associations, item.transmit < MaxTransmit
  PROVE  /\ [item EXCEPT !.transmit = @ + 1] \in Associations
         /\ [item EXCEPT !.transmit = @ + 1].init = item.init
         /\ Open([item EXCEPT !.transmit = @ + 1]) <=> Open(item)
  <1>1. item.transmit + 1 \in 1 .. MaxTransmit
    BY RelayAssumption DEF Associations
  <1> QED
    BY <1>1 DEF Associations, Open

\* A reply changes nothing that the invariant tells apart.
LEMMA ReplyTyped ==
  ASSUME NEW item \in Associations
  PROVE  /\ Replied(item) \in Associations
         /\ Replied(item).init = item.init
         /\ Open(Replied(item)) <=> Open(item)
  <1>1. CASE item.transmit < MaxTransmit
    <2> DEFINE sent == [item EXCEPT !.transmit = @ + 1]
    <2>1. sent \in Associations /\ sent.init = item.init /\ (Open(sent) <=> Open(item))
      BY <1>1, TransmitTyped
    <2>2. Replied(item) = [sent EXCEPT !.age = 0]
      BY <1>1 DEF Replied, Associations
    <2>3. 0 \in 0 .. EstablishedLimit + 1
      BY RelayAssumption
    <2> HIDE DEF sent
    <2> QED
      BY <2>1, <2>2, <2>3, AgeTyped
  <1>2. CASE ~(item.transmit < MaxTransmit)
    BY <1>2 DEF Replied
  <1> QED
    BY <1>1, <1>2

\* The open routes are finitely many.
LEMMA OpenFinite ==
  /\ IsFiniteSet(OpenRoutes) /\ Cardinality(OpenRoutes) \in Nat
  /\ OpenRoutes \subseteq Routes
  <1>1. OpenRoutes \in SUBSET Routes
    BY DEF OpenRoutes
  <1> QED
    BY <1>1, FS_Subset, FS_CardinalityType, RelayAssumption

\* One association becomes item: the others, and the invariant but for the count, stay.
LEMMA ItemStep ==
  ASSUME IInv, NEW r \in Routes, Known(r), NEW item \in Associations,
         item.init = associations[r].init,
         associations' = [associations EXCEPT ![r] = item]
  PROVE  /\ associations' \in [Routes -> Associations \cup {None}]
         /\ OnePerInit'
         /\ Open(item) => OpenRoutes' = OpenRoutes \cup {r}
         /\ ~Open(item) => OpenRoutes' = OpenRoutes \ {r}
  <1> USE DEF IInv, TypeOK
  <1>1. item # None
    BY RelayAssumption DEF Associations
  <1>2. associations' \in [Routes -> Associations \cup {None}]
    OBVIOUS
  <1>3. /\ associations'[r] = item
        /\ \A t \in Routes : t # r => associations'[t] = associations[t]
    OBVIOUS
  <1>4. Taken' = Taken
    BY <1>1, <1>3 DEF Taken, Known
  <1>5. \A t \in Taken : associations'[t].init = associations[t].init
    BY <1>3 DEF Taken
  <1>6. OnePerInit'
    BY <1>4, <1>5 DEF OnePerInit
  <1>7. \A t \in Routes : t # r => (t \in OpenRoutes' <=> t \in OpenRoutes)
    BY <1>3 DEF OpenRoutes, Known
  <1>8. r \in OpenRoutes' <=> Open(item)
    BY <1>1, <1>3 DEF OpenRoutes, Known
  <1>9. OpenRoutes \subseteq Routes /\ OpenRoutes' \subseteq Routes
    BY DEF OpenRoutes
  <1> QED
    BY <1>2, <1>6, <1>7, <1>8, <1>9

\* A step that changes neither who is open nor who holds which INIT keeps the count.
LEMMA SameOpen ==
  ASSUME IInv, OpenRoutes' = OpenRoutes, UNCHANGED active
  PROVE  ActiveExact' /\ active' \in Nat
  BY OpenFinite DEF IInv, ActiveExact

-----------------------------------------------------------------------------
(* The steps *)

\* The provider starts with no association.
LEMMA InitIInv == Init => IInv
  <1> SUFFICES ASSUME Init PROVE IInv
    OBVIOUS
  <1>1. OpenRoutes = {} /\ Taken = {}
    BY DEF Init, OpenRoutes, Taken, Known
  <1>2. ActiveExact
    BY <1>1, FS_EmptySet DEF ActiveExact, Init
  <1> QED
    BY <1>1, <1>2 DEF IInv, TypeOK, Init, OnePerInit

\* The purge counts each open association it drops, once.
LEMMA PurgeStep == ASSUME IInv, Purge PROVE IInv'
  <1> USE DEF IInv, TypeOK
  <1>1. \A r \in Routes : associations'[r] = IF r \in Dead THEN None ELSE associations[r]
    BY DEF Purge
  <1>2. OpenRoutes' = OpenRoutes \ (Dead \cap OpenRoutes)
    BY <1>1 DEF OpenRoutes, Known, Dead
  <1>3. Cardinality(OpenRoutes \ (Dead \cap OpenRoutes))
          = Cardinality(OpenRoutes) - Cardinality(OpenRoutes \cap (Dead \cap OpenRoutes))
    BY OpenFinite, FS_Difference
  <1>4. OpenRoutes \cap (Dead \cap OpenRoutes) = Dead \cap OpenRoutes
    OBVIOUS
  <1>5. ActiveExact'
    BY <1>2, <1>3, <1>4 DEF ActiveExact, Purge
  <1>6. IsFiniteSet(OpenRoutes \ (Dead \cap OpenRoutes))
    BY OpenFinite, FS_Difference
  <1>7. active' \in Nat
    BY <1>2, <1>5, <1>6, FS_CardinalityType DEF ActiveExact
  <1>8. associations' \in [Routes -> Associations \cup {None}]
    BY DEF Purge
  <1>9. OnePerInit'
    BY <1>1 DEF OnePerInit, Taken, Known
  <1> QED
    BY <1>5, <1>7, <1>8, <1>9 DEF Purge

\* A new association is half-open, and its INIT had none.
LEMMA HandshakeStep == ASSUME IInv, NEW d \in Inits, Handshake(d) PROVE IInv'
  <1> USE DEF IInv, TypeOK
  <1>1. PICK r \in Routes \ Taken, j \in Joins :
          associations' = [associations EXCEPT ![r] =
            [init |-> d, join |-> IF Request[d].bind THEN j ELSE NoJoin,
             established |-> FALSE, closed |-> FALSE, transmit |-> 1, age |-> 0]]
    BY DEF Handshake
  <1> DEFINE item == [init |-> d, join |-> IF Request[d].bind THEN j ELSE NoJoin,
                      established |-> FALSE, closed |-> FALSE, transmit |-> 1, age |-> 0]
  <1>2. item \in Associations /\ item # None /\ ~Open(item) /\ item.init = d
    <2>1. 1 \in 1 .. MaxTransmit /\ 0 \in 0 .. EstablishedLimit + 1
      BY RelayAssumption
    <2>2. item \in Associations
      BY <2>1 DEF Associations
    <2> QED
      BY <2>2, NotNone DEF Open
  <1>3. /\ associations'[r] = item
        /\ \A t \in Routes : t # r => associations'[t] = associations[t]
    BY <1>1
  <1> HIDE DEF item
  <1>4. OpenRoutes' = OpenRoutes
    BY <1>2, <1>3 DEF OpenRoutes, Taken, Known
  <1>5. associations' \in [Routes -> Associations \cup {None}]
    BY <1>1, <1>2 DEF item
  <1>6. \A t \in Taken : associations[t].init # d
    BY DEF Handshake, Repeated
  <1>7. OnePerInit'
    BY <1>2, <1>3, <1>6 DEF OnePerInit, Taken, Known
  <1>8. ActiveExact' /\ active' \in Nat
    BY <1>4, SameOpen DEF Handshake
  <1> QED
    BY <1>5, <1>7, <1>8 DEF Handshake

\* A verification opens a route that was not open, or repeats itself.
LEMMA VerifyStep == ASSUME IInv, NEW r \in Routes, Verify(r) PROVE IInv'
  <1> USE DEF IInv, TypeOK
  <1> DEFINE old == associations[r]
             item == Replied([old EXCEPT !.established = TRUE])
  <1>1. old \in Associations /\ Known(r) /\ ~old.closed
    BY DEF Verify, Receives, Known
  <1>2. item \in Associations /\ item.init = old.init /\ Open(item)
    <2>1. [old EXCEPT !.established = TRUE] \in Associations
      BY <1>1, ItemTyped
    <2>2. Open([old EXCEPT !.established = TRUE])
      BY <1>1 DEF Open, Associations
    <2> QED
      BY <1>1, <2>1, <2>2, ReplyTyped DEF Associations
  <1>3. associations' = [associations EXCEPT ![r] = item]
    BY DEF Verify
  <1> HIDE DEF item
  <1>4. /\ associations' \in [Routes -> Associations \cup {None}]
        /\ OnePerInit' /\ OpenRoutes' = OpenRoutes \cup {r}
    BY <1>1, <1>2, <1>3, ItemStep
  <1>5. r \in OpenRoutes <=> old.established
    BY <1>1 DEF OpenRoutes, Open
  <1>6. Cardinality(OpenRoutes \cup {r})
          = IF r \in OpenRoutes THEN Cardinality(OpenRoutes) ELSE Cardinality(OpenRoutes) + 1
    BY OpenFinite, FS_AddElement
  <1>7. ActiveExact' /\ active' \in Nat
    BY <1>4, <1>5, <1>6, OpenFinite DEF ActiveExact, Verify
  <1> QED
    BY <1>4, <1>7 DEF Verify

\* A disconnect closes a route that was open, or was not.
LEMMA DisconnectStep == ASSUME IInv, NEW r \in Routes, Disconnect(r) PROVE IInv'
  <1> USE DEF IInv, TypeOK
  <1> DEFINE old == associations[r]
             item == Replied([old EXCEPT !.closed = TRUE])
  <1>1. old \in Associations /\ Known(r)
    BY DEF Disconnect, Receives, Known
  <1>2. item \in Associations /\ item.init = old.init /\ ~Open(item)
    <2>1. [old EXCEPT !.closed = TRUE] \in Associations
      BY <1>1, ItemTyped
    <2>2. ~Open([old EXCEPT !.closed = TRUE])
      BY <1>1 DEF Open, Associations
    <2> QED
      BY <1>1, <2>1, <2>2, ReplyTyped DEF Associations
  <1>3. associations' = [associations EXCEPT ![r] = item]
    BY DEF Disconnect
  <1> HIDE DEF item
  <1>4. /\ associations' \in [Routes -> Associations \cup {None}]
        /\ OnePerInit' /\ OpenRoutes' = OpenRoutes \ {r}
    BY <1>1, <1>2, <1>3, ItemStep
  <1>5. r \in OpenRoutes <=> Open(old)
    BY <1>1 DEF OpenRoutes
  <1>6. /\ IsFiniteSet(OpenRoutes \ {r})
        /\ Cardinality(OpenRoutes \ {r})
             = IF r \in OpenRoutes THEN Cardinality(OpenRoutes) - 1 ELSE Cardinality(OpenRoutes)
    BY OpenFinite, FS_RemoveElement
  <1>7. ActiveExact'
    BY <1>4, <1>5, <1>6 DEF ActiveExact, Disconnect
  <1>8. active' \in Nat
    BY <1>4, <1>6, <1>7, FS_CardinalityType DEF ActiveExact
  <1> QED
    BY <1>4, <1>7, <1>8 DEF Disconnect

\* A datagram that leaves an association as open as it was keeps the invariant.
LEMMA QuietStep ==
  ASSUME IInv, NEW r \in Routes, Known(r), NEW item \in Associations,
         item.init = associations[r].init, Open(item) <=> Open(associations[r]),
         associations' = [associations EXCEPT ![r] = item],
         UNCHANGED <<active, live, expired>>, pc' = "purge"
  PROVE  IInv'
  <1>1. r \in OpenRoutes <=> Open(item)
    BY DEF OpenRoutes
  <1>2. OpenRoutes' = OpenRoutes
    <2>1. /\ Open(item) => OpenRoutes' = OpenRoutes \cup {r}
          /\ ~Open(item) => OpenRoutes' = OpenRoutes \ {r}
      BY ItemStep
    <2>2. CASE r \in OpenRoutes
      <3>1. OpenRoutes' = OpenRoutes \cup {r}
        BY <1>1, <2>1, <2>2
      <3> QED
        BY <2>2, <3>1
    <2>3. CASE r \notin OpenRoutes
      <3>1. OpenRoutes' = OpenRoutes \ {r}
        BY <1>1, <2>1, <2>3
      <3> QED
        BY <2>3, <3>1
    <2> QED
      BY <2>2, <2>3
  <1>3. associations' \in [Routes -> Associations \cup {None}] /\ OnePerInit'
    BY ItemStep
  <1> QED
    BY <1>2, <1>3, SameOpen DEF IInv, TypeOK

\* Data moves counters and ages only.
LEMMA DataStep == ASSUME IInv, NEW r \in Routes, NEW t \in Routes, Data(r, t) PROVE IInv'
  <1> USE DEF IInv, TypeOK
  <1>1. Known(r) /\ associations[r] \in Associations
    BY DEF Data, Receives, Known
  <1>2. CASE UNCHANGED associations
    BY <1>2 DEF Data, OnePerInit, Taken, Known, ActiveExact, OpenRoutes
  <1>3. CASE associations' = [associations EXCEPT ![r].age = 0]
    <2> DEFINE item == [associations[r] EXCEPT !.age = 0]
    <2>1. item \in Associations /\ item.init = associations[r].init
          /\ (Open(item) <=> Open(associations[r]))
      BY <1>1, AgeTyped, RelayAssumption
    <2>2. associations' = [associations EXCEPT ![r] = item]
      BY <1>3
    <2> HIDE DEF item
    <2> QED
      BY <1>1, <2>1, <2>2, QuietStep DEF Data
  <1>4. CASE /\ Known(t) /\ associations[t].transmit < MaxTransmit
             /\ associations' = [associations EXCEPT ![t].transmit = @ + 1, ![r].age = 0]
    <2> DEFINE sent == [associations[t] EXCEPT !.transmit = @ + 1]
               middle == [associations EXCEPT ![t] = sent]
               item == [middle[r] EXCEPT !.age = 0]
    <2>1. associations[t] \in Associations
      BY <1>4 DEF Known
    <2>2. sent \in Associations /\ sent.init = associations[t].init
          /\ (Open(sent) <=> Open(associations[t])) /\ sent # None
      BY <1>4, <2>1, TransmitTyped, NotNone
    <2> HIDE DEF sent
    <2>3. /\ middle \in [Routes -> Associations \cup {None}]
          /\ middle[r] \in Associations /\ middle[r].init = associations[r].init
          /\ (Open(middle[r]) <=> Open(associations[r]))
      BY <1>1, <2>2
    <2>4. associations' = [middle EXCEPT ![r] = item]
      BY <1>4 DEF sent
    <2>5. item \in Associations /\ item.init = associations[r].init
          /\ (Open(item) <=> Open(associations[r])) /\ item # None
      BY <2>3, AgeTyped, NotNone, RelayAssumption
    <2> HIDE DEF item
    <2>6. \A u \in Routes : /\ associations'[u] = None <=> associations[u] = None
                            /\ associations'[u] \in Associations \cup {None}
                            /\ Known(u) => /\ associations'[u].init = associations[u].init
                                           /\ Open(associations'[u]) <=> Open(associations[u])
      BY <1>1, <1>4, <2>2, <2>3, <2>4, <2>5 DEF Known
    <2>7. OpenRoutes' = OpenRoutes /\ Taken' = Taken
      BY <2>6 DEF OpenRoutes, Taken, Known
    <2>8. OnePerInit'
      BY <2>6, <2>7 DEF OnePerInit, Taken
    <2>9. associations' \in [Routes -> Associations \cup {None}]
      BY <2>3, <2>4, <2>5
    <2> QED
      BY <2>7, <2>8, <2>9, SameOpen DEF Data
  <1> QED
    BY <1>2, <1>3, <1>4 DEF Data

\* Pings and bind upgrades leave an association open.
LEMMA ReplyStep ==
  ASSUME IInv, NEW r \in Routes, Ping(r) \/ BindUpgrade(r)
  PROVE  IInv'
  <1> USE DEF IInv, TypeOK
  <1>1. Known(r) /\ associations[r] \in Associations
    BY DEF Ping, BindUpgrade, Receives, Known
  <1>2. PICK item \in Associations :
          /\ item.init = associations[r].init /\ (Open(item) <=> Open(associations[r]))
          /\ associations' = [associations EXCEPT ![r] = item]
    <2>1. CASE associations' = [associations EXCEPT ![r] = Replied(@)]
      BY <1>1, <2>1, ReplyTyped
    <2>2. CASE associations' = [associations EXCEPT ![r].age = 0]
      <3>1. associations' = [associations EXCEPT ![r] = [associations[r] EXCEPT !.age = 0]]
        BY <2>2
      <3> DEFINE fresh == [associations[r] EXCEPT !.age = 0]
      <3>2. /\ fresh \in Associations /\ fresh.init = associations[r].init
            /\ Open(fresh) <=> Open(associations[r])
        BY <1>1, AgeTyped, RelayAssumption
      <3> HIDE DEF fresh
      <3>3. associations' = [associations EXCEPT ![r] = fresh]
        BY <3>1 DEF fresh
      <3> QED
        BY <3>2, <3>3
    <2>3. CASE BindUpgrade(r)
      <3>1. PICK j \in Joins : associations' = [associations EXCEPT ![r] =
              Replied(IF @.join = NoJoin THEN [@ EXCEPT !.join = j] ELSE @)]
        BY <2>3 DEF BindUpgrade
      <3> DEFINE bound == IF associations[r].join = NoJoin
                          THEN [associations[r] EXCEPT !.join = j] ELSE associations[r]
      <3>2. bound \in Associations
        BY <1>1, ItemTyped
      <3>3. bound.init = associations[r].init /\ (Open(bound) <=> Open(associations[r]))
        BY <1>1 DEF Associations, Open
      <3>4. associations' = [associations EXCEPT ![r] = Replied(bound)]
        BY <3>1
      <3> HIDE DEF bound
      <3> QED
        BY <3>2, <3>3, <3>4, ReplyTyped
    <2> QED
      BY <2>1, <2>2, <2>3 DEF Ping
  <1> QED
    BY <1>1, <1>2, QuietStep DEF Ping, BindUpgrade

\* Time changes ages only.
LEMMA TickStep == ASSUME IInv, Tick PROVE IInv'
  <1> USE DEF IInv, TypeOK
  <1>1. \A r \in Routes :
          /\ associations'[r] = None <=> associations[r] = None
          /\ associations'[r] \in Associations \cup {None}
          /\ Known(r) => /\ associations'[r].init = associations[r].init
                         /\ Open(associations'[r]) <=> Open(associations[r])
    <2> SUFFICES ASSUME NEW r \in Routes
                 PROVE  /\ associations'[r] = None <=> associations[r] = None
                        /\ associations'[r] \in Associations \cup {None}
                        /\ Known(r) => /\ associations'[r].init = associations[r].init
                                       /\ Open(associations'[r]) <=> Open(associations[r])
      OBVIOUS
    <2>1. CASE Known(r) /\ associations[r].age <= EstablishedLimit
      <3> DEFINE item == [associations[r] EXCEPT !.age = @ + 1]
      <3>1. associations[r] \in Associations
        BY <2>1 DEF Known
      <3>2. item \in Associations /\ item.init = associations[r].init
            /\ (Open(item) <=> Open(associations[r])) /\ item # None
        <4>1. associations[r].age + 1 \in 0 .. EstablishedLimit + 1
          BY <2>1, <3>1, RelayAssumption DEF Associations
        <4> QED
          BY <3>1, <4>1, AgeTyped, NotNone
      <3>3. associations'[r] = item
        BY <2>1 DEF Tick
      <3> QED
        BY <2>1, <3>2, <3>3 DEF Known
    <2>2. CASE ~(Known(r) /\ associations[r].age <= EstablishedLimit)
      <3>1. associations'[r] = associations[r]
        BY <2>2 DEF Tick
      <3> QED
        BY <3>1
    <2> QED
      BY <2>1, <2>2
  <1>2. OpenRoutes' = OpenRoutes /\ Taken' = Taken
    BY <1>1 DEF OpenRoutes, Taken, Known
  <1>3. OnePerInit'
    BY <1>1, <1>2 DEF OnePerInit, Taken
  <1>4. associations' \in [Routes -> Associations \cup {None}]
    BY <1>1 DEF Tick
  <1> QED
    BY <1>2, <1>3, <1>4, SameOpen DEF Tick

\* Every step keeps the invariant.
LEMMA NextIInv == IInv /\ [Next]_vars => IInv'
  <1> SUFFICES ASSUME IInv, [Next]_vars PROVE IInv'
    OBVIOUS
  <1>1. CASE Purge
    BY <1>1, PurgeStep
  <1>2. ASSUME UNCHANGED <<associations, active>>, live' \subseteq Sessions,
               expired' \subseteq Inits, pc' \in {"purge", "select", "down"}
        PROVE  IInv'
    BY <1>2 DEF IInv, TypeOK, ActiveExact, OpenRoutes, OnePerInit, Taken, Known
  <1>3. CASE Idle
    BY <1>2, <1>3 DEF Idle, IInv, TypeOK
  <1>4. ASSUME NEW d \in Inits, Handshake(d) PROVE IInv'
    BY <1>4, HandshakeStep
  <1>5. ASSUME NEW d \in Inits, Resend(d) PROVE IInv'
    BY <1>2, <1>5 DEF Resend, IInv, TypeOK
  <1>6. ASSUME NEW r \in Routes, Verify(r) \/ Ping(r) \/ BindUpgrade(r) \/ Disconnect(r)
        PROVE  IInv'
    BY <1>6, VerifyStep, ReplyStep, DisconnectStep
  <1>7. ASSUME NEW r \in Routes, NEW t \in Routes, Data(r, t) PROVE IInv'
    BY <1>7, DataStep
  <1>8. CASE ProviderFailure
    <2>1. OpenRoutes' = {} /\ Taken' = {}
      BY <1>8 DEF ProviderFailure, OpenRoutes, Taken, Known
    <2> QED
      BY <1>8, <2>1, FS_EmptySet DEF ProviderFailure, IInv, TypeOK, ActiveExact, OnePerInit
  <1>9. ASSUME NEW s \in Sessions, EndSession(s) PROVE IInv'
    BY <1>2, <1>9 DEF EndSession, IInv, TypeOK
  <1>10. ASSUME NEW d \in Inits, Expire(d) PROVE IInv'
    BY <1>2, <1>10 DEF Expire, IInv, TypeOK
  <1>11. CASE Tick
    BY <1>11, TickStep
  <1>12. CASE UNCHANGED vars
    BY <1>2, <1>12 DEF vars, IInv, TypeOK
  <1> QED
    BY <1>1, <1>3, <1>4, <1>5, <1>6, <1>7, <1>8, <1>9, <1>10, <1>11, <1>12
    DEF Next, Receive

\* Associations keep their types; no transmit counter passes its limit.
THEOREM TypeCorrect == Spec => []TypeOK
  <1>1. IInv => TypeOK
    BY DEF IInv
  <1> QED
    BY InitIInv, NextIInv, <1>1, PTL DEF Spec

\* The published count is the number of open associations, always.
THEOREM ActiveCount == Spec => []ActiveExact
  <1>1. IInv => ActiveExact
    BY DEF IInv
  <1> QED
    BY InitIInv, NextIInv, <1>1, PTL DEF Spec

\* No INIT, however often repeated, has two associations.
THEOREM OneAssociationEach == Spec => []OnePerInit
  <1>1. IInv => OnePerInit
    BY DEF IInv
  <1> QED
    BY InitIInv, NextIInv, <1>1, PTL DEF Spec

-----------------------------------------------------------------------------
(* What becomes of an association *)

LEMMA ForwardSame ==
  ASSUME NEW item \in Associations
  PROVE  Forward(item, item)
  BY RelayAssumption DEF Forward, Associations

LEMMA ForwardTwice ==
  ASSUME NEW a \in Associations, NEW b \in Associations, NEW c \in Associations,
         Forward(a, b), Forward(b, c)
  PROVE  Forward(a, c)
  <1>1. /\ a.transmit \in Nat /\ b.transmit \in Nat /\ c.transmit \in Nat
        /\ a.age \in Nat /\ b.age \in Nat /\ c.age \in Nat
    BY RelayAssumption DEF Associations
  <1>2. c.transmit >= a.transmit
    BY <1>1 DEF Forward
  <1>3. ~c.established /\ ~c.closed => c.age >= a.age
    BY <1>1 DEF Forward
  <1> QED
    BY <1>2, <1>3 DEF Forward

\* The updates that receive makes of an association.
LEMMA ForwardMarks ==
  ASSUME NEW item \in Associations
  PROVE  /\ Forward(item, [item EXCEPT !.established = TRUE])
         /\ Forward(item, [item EXCEPT !.closed = TRUE])
         /\ item.join = NoJoin => \A j \in Joins : Forward(item, [item EXCEPT !.join = j])
  <1>1. item.transmit \in Nat /\ item.age \in Nat
    BY RelayAssumption DEF Associations
  <1>2. Forward(item, [item EXCEPT !.established = TRUE])
    BY <1>1 DEF Forward, Associations
  <1>3. Forward(item, [item EXCEPT !.closed = TRUE])
    BY <1>1 DEF Forward, Associations
  <1>4. ASSUME item.join = NoJoin, NEW j \in Joins
        PROVE  Forward(item, [item EXCEPT !.join = j])
    BY <1>1, <1>4 DEF Forward, Associations
  <1> QED
    BY <1>2, <1>3, <1>4

\* What is verified or closed may be heard from again, and what grows older grows older.
LEMMA ForwardAge ==
  ASSUME NEW item \in Associations, NEW a \in 0 .. EstablishedLimit + 1,
         item.established \/ item.closed \/ a >= item.age
  PROVE  Forward(item, [item EXCEPT !.age = a])
  <1>1. item.transmit \in Nat
    BY RelayAssumption DEF Associations
  <1> QED
    BY <1>1 DEF Forward, Associations

LEMMA ForwardTransmit ==
  ASSUME NEW item \in Associations
  PROVE  Forward(item, [item EXCEPT !.transmit = @ + 1])
  <1>1. item.transmit \in Nat /\ item.age \in Nat
    BY RelayAssumption DEF Associations
  <1> QED
    BY <1>1 DEF Forward, Associations

LEMMA ForwardReplied ==
  ASSUME NEW item \in Associations, item.established \/ item.closed
  PROVE  Forward(item, Replied(item))
  <1>1. CASE item.transmit < MaxTransmit
    <2> DEFINE sent == [item EXCEPT !.transmit = @ + 1]
    <2>1. sent \in Associations /\ Forward(item, sent)
      BY <1>1, TransmitTyped, ForwardTransmit
    <2>2. sent.established = item.established /\ sent.closed = item.closed
      BY DEF Associations
    <2>3. Replied(item) = [sent EXCEPT !.age = 0]
      BY <1>1 DEF Replied, Associations
    <2>4. 0 \in 0 .. EstablishedLimit + 1
      BY RelayAssumption
    <2> HIDE DEF sent
    <2>5. Replied(item) \in Associations /\ Forward(sent, Replied(item))
      BY <2>1, <2>2, <2>3, <2>4, AgeTyped, ForwardAge
    <2> QED
      BY <2>1, <2>5, ForwardTwice
  <1>2. CASE ~(item.transmit < MaxTransmit)
    BY <1>2, ForwardSame DEF Replied
  <1> QED
    BY <1>1, <1>2

\* A verified association stays verified, whichever mark it got in between.
LEMMA ForwardMarked ==
  ASSUME NEW item \in Associations
  PROVE  /\ Forward(item, Replied([item EXCEPT !.established = TRUE]))
         /\ Forward(item, Replied([item EXCEPT !.closed = TRUE]))
  <1>1. ASSUME NEW marked \in Associations, Forward(item, marked),
               marked.established \/ marked.closed
        PROVE  Forward(item, Replied(marked))
    BY <1>1, ForwardReplied, ReplyTyped, ForwardTwice
  <1>2. [item EXCEPT !.established = TRUE].established
    BY DEF Associations
  <1>3. [item EXCEPT !.closed = TRUE].closed
    BY DEF Associations
  <1> QED
    BY <1>1, <1>2, <1>3, ItemTyped, ForwardMarks

LEMMA Owned ==
  ASSUME TypeOK, NEW r \in Routes, Known(r)
  PROVE  associations[r] \in Associations
  BY DEF TypeOK, Known

\* One association goes forward and the others stay.
LEMMA OneForward ==
  ASSUME TypeOK, NEW r \in Routes, Known(r), NEW item \in Associations,
         Forward(associations[r], item), associations' = [associations EXCEPT ![r] = item]
  PROVE  \A t \in Routes : /\ Known(t)' <=> Known(t)
                           /\ Known(t) => Forward(associations[t], associations'[t])
  <1> TAKE t \in Routes
  <1>1. CASE t = r
    BY <1>1, NotNone DEF TypeOK, Known
  <1>2. CASE t # r
    BY <1>2, Owned, ForwardSame DEF TypeOK, Known
  <1> QED
    BY <1>1, <1>2

LEMMA DataForward ==
  ASSUME TypeOK, NEW r \in Routes, NEW t \in Routes, Data(r, t)
  PROVE  \A u \in Routes : /\ Known(u)' <=> Known(u)
                           /\ Known(u) => Forward(associations[u], associations'[u])
  <1>1. /\ Known(r) /\ associations[r] \in Associations /\ associations[r].established
        /\ associations \in [Routes -> Associations \cup {None}]
        /\ 0 \in 0 .. EstablishedLimit + 1
    BY RelayAssumption DEF Data, Receives, Open, TypeOK, Known
  <1>2. CASE UNCHANGED associations
    BY <1>2, Owned, ForwardSame DEF Known
  <1>3. CASE associations' = [associations EXCEPT ![r].age = 0]
    <2> DEFINE item == [associations[r] EXCEPT !.age = 0]
    <2>1. item \in Associations /\ Forward(associations[r], item)
      BY <1>1, AgeTyped, ForwardAge
    <2>2. associations' = [associations EXCEPT ![r] = item]
      BY <1>3
    <2> HIDE DEF item
    <2> QED
      BY <1>1, <2>1, <2>2, OneForward
  <1>4. CASE /\ Known(t) /\ associations[t].transmit < MaxTransmit
             /\ associations' = [associations EXCEPT ![t].transmit = @ + 1, ![r].age = 0]
    <2> DEFINE sent == [associations[t] EXCEPT !.transmit = @ + 1]
               middle == [associations EXCEPT ![t] = sent]
               item == [middle[r] EXCEPT !.age = 0]
    <2>1. associations[t] \in Associations
      BY <1>4 DEF TypeOK, Known
    <2>2. /\ sent \in Associations /\ Forward(associations[t], sent)
          /\ sent.established = associations[t].established
      <3>1. sent.established = associations[t].established
        BY <2>1 DEF Associations
      <3> QED
        BY <1>4, <2>1, <3>1, TransmitTyped, ForwardTransmit
    <2> HIDE DEF sent
    <2>3. middle[r] \in Associations /\ Forward(associations[r], middle[r])
      BY <1>1, <2>2, ForwardSame
    <2>4. middle[r].established
      BY <1>1, <2>2
    <2>5. associations' = [middle EXCEPT ![r] = item]
      BY <1>4 DEF sent
    <2>6. item \in Associations /\ Forward(middle[r], item)
      BY <1>1, <2>3, <2>4, AgeTyped, ForwardAge
    <2> HIDE DEF item
    <2>7. Forward(associations[r], item)
      BY <1>1, <2>3, <2>6, ForwardTwice
    <2>8. \A u \in Routes : associations'[u] = IF u = r THEN item
                                              ELSE IF u = t THEN sent ELSE associations[u]
      BY <1>1, <2>5
    <2> HIDE DEF middle
    <2> TAKE u \in Routes
    <2>9. CASE u = r
      BY <1>1, <2>6, <2>7, <2>8, <2>9, NotNone DEF Known
    <2>10. CASE u # r /\ u = t
      BY <1>4, <2>2, <2>8, <2>10, NotNone DEF Known
    <2>11. CASE u # r /\ u # t
      BY <2>8, <2>11, Owned, ForwardSame DEF Known
    <2> QED
      BY <2>9, <2>10, <2>11
  <1> QED
    BY <1>2, <1>3, <1>4 DEF Data

LEMMA RepliesForward ==
  ASSUME TypeOK, NEW r \in Routes, Verify(r) \/ Ping(r) \/ BindUpgrade(r) \/ Disconnect(r)
  PROVE  \A t \in Routes : /\ Known(t)' <=> Known(t)
                           /\ Known(t) => Forward(associations[t], associations'[t])
  <1> DEFINE old == associations[r]
  <1>1. /\ Known(r) /\ old \in Associations
        /\ 0 \in 0 .. EstablishedLimit + 1
        /\ Ping(r) \/ BindUpgrade(r) => old.established
    BY RelayAssumption DEF Verify, Ping, BindUpgrade, Disconnect, Receives, Open, TypeOK, Known
  <1>2. SUFFICES \E item \in Associations :
                     Forward(old, item) /\ associations' = [associations EXCEPT ![r] = item]
    BY <1>1, OneForward
  <1>3. CASE Verify(r)
    <2>1. associations' = [associations EXCEPT ![r] = Replied([old EXCEPT !.established = TRUE])]
      BY <1>3 DEF Verify
    <2> QED
      BY <1>1, <2>1, ForwardMarked, ItemTyped, ReplyTyped
  <1>4. CASE Disconnect(r)
    <2>1. associations' = [associations EXCEPT ![r] = Replied([old EXCEPT !.closed = TRUE])]
      BY <1>4 DEF Disconnect
    <2> QED
      BY <1>1, <2>1, ForwardMarked, ItemTyped, ReplyTyped
  <1>5. CASE Ping(r)
    <2>1. CASE associations' = [associations EXCEPT ![r] = Replied(@)]
      BY <1>1, <1>5, <2>1, ForwardReplied, ReplyTyped
    <2>2. CASE associations' = [associations EXCEPT ![r].age = 0]
      <3>1. associations' = [associations EXCEPT ![r] = [old EXCEPT !.age = 0]]
        BY <2>2
      <3> QED
        BY <1>1, <1>5, <3>1, AgeTyped, ForwardAge
    <2> QED
      BY <1>5, <2>1, <2>2 DEF Ping
  <1>6. CASE BindUpgrade(r)
    <2>1. PICK j \in Joins : associations' = [associations EXCEPT ![r] =
              Replied(IF @.join = NoJoin THEN [@ EXCEPT !.join = j] ELSE @)]
      BY <1>6 DEF BindUpgrade
    <2> DEFINE bound == IF old.join = NoJoin THEN [old EXCEPT !.join = j] ELSE old
    <2>2. bound \in Associations /\ Forward(old, bound)
      BY <1>1, ItemTyped, ForwardMarks, ForwardSame
    <2>3. bound.established
      BY <1>1, <1>6, <2>2 DEF Forward
    <2>4. associations' = [associations EXCEPT ![r] = Replied(bound)]
      BY <2>1
    <2> HIDE DEF bound
    <2>5. Replied(bound) \in Associations /\ Forward(old, Replied(bound))
      BY <1>1, <2>2, <2>3, ForwardReplied, ReplyTyped, ForwardTwice
    <2> QED
      BY <2>4, <2>5
  <1> QED
    BY <1>3, <1>4, <1>5, <1>6

LEMMA TickForward ==
  ASSUME TypeOK, Tick, NEW r \in Routes
  PROVE  /\ Known(r)' <=> Known(r)
         /\ Known(r) => Forward(associations[r], associations'[r])
  <1>1. CASE Known(r) /\ associations[r].age <= EstablishedLimit
    <2> DEFINE item == [associations[r] EXCEPT !.age = @ + 1]
    <2>1. associations[r] \in Associations
      BY <1>1, Owned
    <2>2. /\ associations[r].age + 1 \in 0 .. EstablishedLimit + 1
          /\ associations[r].age + 1 >= associations[r].age
      BY <1>1, <2>1, RelayAssumption DEF Associations
    <2>3. item \in Associations /\ Forward(associations[r], item)
      BY <2>1, <2>2, AgeTyped, ForwardAge
    <2>4. associations'[r] = item
      BY <1>1 DEF Tick
    <2> HIDE DEF item
    <2> QED
      BY <1>1, <2>3, <2>4, NotNone DEF Known
  <1>2. CASE ~(Known(r) /\ associations[r].age <= EstablishedLimit)
    <2>1. associations'[r] = associations[r]
      BY <1>2 DEF Tick
    <2> QED
      BY <2>1, Owned, ForwardSame DEF Known
  <1> QED
    BY <1>1, <1>2

\* A step takes the associations forward, drops some, or makes one for an INIT whose session
\* is live.
LEMMA StepForward ==
  ASSUME TypeOK, [Next]_vars, NEW r \in Routes, Known(r)'
  PROVE  \/ Known(r) /\ Forward(associations[r], associations'[r])
         \/ ~Known(r) /\ SessionOf(associations'[r]) \in live
  <1>1. CASE associations'[r] = associations[r]
    BY <1>1, Owned, ForwardSame DEF Known
  <1>2. CASE Purge \/ ProviderFailure
    <2>1. associations'[r] \in {None, associations[r]}
      BY <1>2 DEF Purge, ProviderFailure
    <2> QED
      BY <1>1, <2>1 DEF Known
  <1>3. ASSUME NEW d \in Inits, Handshake(d), associations'[r] # associations[r]
        PROVE  ~Known(r) /\ SessionOf(associations'[r]) \in live
    <2>1. PICK q \in Routes \ Taken, j \in Joins :
              associations' = [associations EXCEPT ![q] =
                [init |-> d, join |-> IF Request[d].bind THEN j ELSE NoJoin,
                 established |-> FALSE, closed |-> FALSE, transmit |-> 1, age |-> 0]]
      BY <1>3 DEF Handshake
    <2> DEFINE item == associations'[q]
    <2>2. q = r /\ item.init = d
      BY <1>3, <2>1 DEF TypeOK
    <2>3. Request[d].session \in live
      BY <1>3 DEF Handshake, Admissible
    <2> QED
      BY <2>1, <2>2, <2>3 DEF Taken, SessionOf
  <1>4. CASE \E q \in Routes : Verify(q) \/ Ping(q) \/ BindUpgrade(q) \/ Disconnect(q)
    BY <1>4, RepliesForward
  <1>5. CASE \E q, t \in Routes : Data(q, t)
    BY <1>5, DataForward
  <1>6. CASE Tick
    BY <1>6, TickForward
  <1>7. CASE \/ UNCHANGED vars \/ Idle \/ \E d \in Inits : Resend(d)
             \/ \E s \in Sessions : EndSession(s)
             \/ \E d \in Inits : Expire(d)
    <2>1. UNCHANGED associations
      BY <1>7 DEF vars, Idle, Resend, EndSession, Expire
    <2> QED
      BY <1>1, <2>1
  <1> QED
    BY <1>1, <1>2, <1>3, <1>4, <1>5, <1>6, <1>7 DEF Next, Receive

\* No datagram, signal or passing of time takes an association back or hands its route to
\* another INIT.
THEOREM AssociationsGoForward == Spec => NeverBack
  <1>1. ASSUME TypeOK, [Next]_vars, NEW r \in Taken, Known(r)'
        PROVE  Forward(associations[r], associations'[r])
    BY <1>1, StepForward DEF Taken
  <1>2. TypeOK /\ [Next]_vars
            => [\A r \in Taken : Known(r)' => Forward(associations[r], associations'[r])]_vars
    BY <1>1
  <1> QED
    BY <1>2, TypeCorrect, PTL DEF Spec, NeverBack

\* An ended session that has lost its associations gets no other: only INITs of live sessions
\* are given routes.
THEOREM EndedStayWithout == Spec => NoneComesBack
  <1>1. ASSUME TypeOK, [Next]_vars, NEW s \in Sessions \ live,
               \A r \in Taken : SessionOf(associations[r]) # s
        PROVE  /\ s \notin live'
               /\ \A r \in Taken' : SessionOf(associations'[r]) # s
    <2>1. live' \subseteq live
      BY <1>1 DEF Next, Receive, Purge, Idle, Handshake, Resend, Verify, Ping, BindUpgrade,
                  Disconnect, Data, ProviderFailure, EndSession, Expire, Tick, vars
    <2>2. ASSUME NEW r \in Taken' PROVE SessionOf(associations'[r]) # s
      <3>1. r \in Routes /\ Known(r)'
        BY DEF Taken
      <3>2. \/ r \in Taken /\ associations'[r].init = associations[r].init
            \/ SessionOf(associations'[r]) \in live
        BY <1>1, <3>1, StepForward DEF Taken, Forward
      <3> QED
        BY <1>1, <3>2 DEF SessionOf
    <2> QED
      BY <2>1, <2>2
  <1>2. TypeOK /\ [Next]_vars
            => [\A s \in Sessions \ live :
                   (\A r \in Taken : SessionOf(associations[r]) # s) =>
                       /\ s \notin live'
                       /\ \A r \in Taken' : SessionOf(associations'[r]) # s]_vars
    BY <1>1
  <1> QED
    BY <1>2, TypeCorrect, PTL DEF Spec, NoneComesBack

\* The table holds at most MaxAssociations, whatever is sent.
THEOREM TableStaysBounded == Spec => []TableBounded
  <1>1. Init => TableBounded
    <2> SUFFICES ASSUME Init PROVE TableBounded
      OBVIOUS
    <2>1. Taken = {}
      BY DEF Init, Taken, Known
    <2> QED
      BY <2>1, FS_EmptySet, RelayAssumption DEF TableBounded
  <1>2. ASSUME TypeOK, TableBounded, [Next]_vars PROVE TableBounded'
    <2>1. IsFiniteSet(Taken) /\ Cardinality(Taken) \in Nat
      BY FS_Subset, FS_CardinalityType, RelayAssumption DEF Taken
    <2>2. CASE Taken' \subseteq Taken
      <3>1. Cardinality(Taken') <= Cardinality(Taken) /\ Cardinality(Taken') \in Nat
        BY <2>1, <2>2, FS_Subset, FS_CardinalityType
      <3> QED
        BY <1>2, <2>1, <3>1, RelayAssumption DEF TableBounded
    <2>3. ASSUME NEW d \in Inits, Handshake(d) PROVE TableBounded'
      <3>1. PICK q \in Routes \ Taken : \A r \in Routes : r # q => associations'[r] = associations[r]
        BY <1>2, <2>3 DEF Handshake, TypeOK
      <3>2. Taken' \subseteq Taken \cup {q}
        BY <3>1 DEF Taken, Known
      <3>3. /\ IsFiniteSet(Taken \cup {q})
            /\ Cardinality(Taken \cup {q}) = Cardinality(Taken) + 1
        BY <2>1, <3>1, FS_AddElement
      <3>4. Cardinality(Taken') <= Cardinality(Taken) + 1 /\ Cardinality(Taken') \in Nat
        BY <3>2, <3>3, FS_Subset, FS_CardinalityType
      <3>5. Cardinality(Taken) < MaxAssociations
        BY <2>3 DEF Handshake
      <3> QED
        BY <2>1, <3>4, <3>5, RelayAssumption DEF TableBounded
    <2>4. ASSUME ~\E d \in Inits : Handshake(d) PROVE Taken' \subseteq Taken
      <3>1. CASE Purge \/ ProviderFailure
        BY <3>1 DEF Purge, ProviderFailure, Taken, Known
      <3>2. CASE \E q \in Routes : Verify(q) \/ Ping(q) \/ BindUpgrade(q) \/ Disconnect(q)
        BY <1>2, <3>2, RepliesForward DEF Taken
      <3>3. CASE \E q, t \in Routes : Data(q, t)
        BY <1>2, <3>3, DataForward DEF Taken
      <3>4. CASE Tick
        BY <1>2, <3>4, TickForward DEF Taken
      <3>5. CASE \/ UNCHANGED vars \/ Idle \/ \E d \in Inits : Resend(d)
                 \/ \E s \in Sessions : EndSession(s)
                 \/ \E d \in Inits : Expire(d)
        BY <3>5 DEF vars, Idle, Resend, EndSession, Expire, Taken, Known
      <3> QED
        BY <1>2, <2>4, <3>1, <3>2, <3>3, <3>4, <3>5 DEF Next, Receive
    <2> QED
      BY <2>2, <2>3, <2>4
  <1>3. TableBounded /\ TypeOK /\ [Next]_vars => TableBounded'
    BY <1>2
  <1> QED
    BY <1>1, <1>3, TypeCorrect, PTL DEF Spec
=============================================================================
