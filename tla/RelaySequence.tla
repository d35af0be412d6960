--------------------------- MODULE RelaySequence ---------------------------
(***************************************************************************)
(* The anti-replay window of a relay association: struct Sequence in       *)
(* Services/Relay/relay_provider.cpp.  A datagram carries the low bits of  *)
(* its sender's counter; the receiver rebuilds the whole counter next to   *)
(* the highest one it has accepted and keeps a bitmap of the last Window   *)
(* counters.  The bitmap is the set of its bit numbers: k is in seen when  *)
(* counter highest - k was accepted.                                       *)
(***************************************************************************)
EXTENDS Integers

CONSTANTS
    Modulus,    \* 65536: the counter's low bits on the wire are taken modulo this
    Window,     \* 32: counters the bitmap remembers
    MaxCounter  \* INT32_MAX: no counter reaches it

ASSUME SequenceAssumption ==
    /\ Modulus \in Nat /\ Modulus >= 2 /\ Modulus % 2 = 0
    /\ Window \in Nat \ {0}
    /\ MaxCounter \in Nat

Half == Modulus \div 2
Rejected == -1

\* The bits of a window and a fresh one.
Windows == SUBSET (0 .. Window - 1)
NewSequence == [highest |-> -1, seen |-> {}]
Sequences == [highest : -1 .. MaxCounter - 1, seen : Windows]

\* A broken variant: the counter is always rebuilt in the highest one's epoch.
RebuiltSameEpoch(seq, low) ==
    IF seq.highest < 0 THEN low ELSE (seq.highest \div Modulus) * Modulus + low

\* The counter nearest to seq.highest with these low bits.
Rebuilt(seq, low) ==
    LET near == IF seq.highest < 0 THEN low
                ELSE (seq.highest \div Modulus) * Modulus + low
    IN  IF seq.highest >= 0 /\ near - seq.highest > Half THEN near - Modulus
        ELSE IF seq.highest >= 0 /\ seq.highest - near > Half THEN near + Modulus
        ELSE near

\* A counter that is out of range, older than the bitmap or marked in it is a replay.
Fresh(seq, full) ==
    /\ 0 <= full /\ full < MaxCounter
    /\ \/ full > seq.highest
       \/ seq.highest - full < Window /\ seq.highest - full \notin seq.seen

\* A broken variant: the bitmap test dropped.
CandidateUnmarked(seq, low) ==
    LET full == Rebuilt(seq, low)
    IN  IF 0 <= full /\ full < MaxCounter /\ seq.highest - full < Window
        THEN full ELSE Rejected

candidate(seq, low) ==
    LET full == Rebuilt(seq, low) IN IF Fresh(seq, full) THEN full ELSE Rejected

\* Accepting a newer counter shifts the bitmap; bits shifted past the top are lost.
accept(seq, full) ==
    IF full > seq.highest
    THEN [highest |-> full,
          seen |-> {k \in 0 .. Window - 1 : k - (full - seq.highest) \in seq.seen} \cup {0}]
    ELSE [seq EXCEPT !.seen = @ \cup {seq.highest - full}]
=============================================================================
