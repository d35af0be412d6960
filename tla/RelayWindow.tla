---------------------------- MODULE RelayWindow ----------------------------
(***************************************************************************)
(* One direction of a relay association: a peer numbers its datagrams, the *)
(* network loses, duplicates, delays and reorders them, and the provider   *)
(* admits them through the window of RelaySequence.  A datagram's MAC      *)
(* covers its whole counter, so the provider acts on it only when the      *)
(* counter it rebuilt is the one the peer used.                            *)
(***************************************************************************)
EXTENDS RelaySequence

\* 32 counters are remembered, and a counter is rebuilt from 16 bits.
ASSUME WindowAssumption == Window <= Half

VARIABLES
    next,       \* counters below next have been sent, each on one datagram
    receive,    \* the association's Sequence
    handled     \* how often the provider has acted on each counter

windowVars == <<next, receive, handled>>

Counters == 0 .. MaxCounter - 1

WindowInit ==
    /\ next = 0
    /\ receive = NewSequence
    /\ handled = [c \in Counters |-> 0]

\* The peer sends its next datagram.
Send ==
    /\ next < MaxCounter
    /\ next' = next + 1
    /\ UNCHANGED <<receive, handled>>

\* Any datagram ever sent may arrive, any number of times.
Arrive(c) ==
    /\ c < next
    /\ candidate(receive, c % Modulus) = c
    /\ receive' = accept(receive, c)
    /\ handled' = [handled EXCEPT ![c] = @ + 1]
    /\ UNCHANGED next

WindowNext == Send \/ \E c \in Counters : Arrive(c)

WindowSpec == WindowInit /\ [][WindowNext]_windowVars

-----------------------------------------------------------------------------
WindowTypeOK ==
    /\ next \in 0 .. MaxCounter
    /\ receive \in Sequences
    /\ handled \in [Counters -> Nat]

\* The provider acts on a datagram at most once, however often and late the network
\* delivers it (validMac and candidate guard every case of receive).
NoReplay == \A c \in Counters : handled[c] <= 1

\* The bitmap says exactly which of the last Window counters have been handled, and
\* nothing newer than highest has been.
WindowExact ==
    /\ \A c \in Counters : c > receive.highest => handled[c] = 0
    /\ \A k \in 0 .. Window - 1 :
         receive.highest - k \in Counters =>
            (k \in receive.seen <=> handled[receive.highest - k] > 0)

\* A datagram that was not handled yet is admitted as long as it is less than Window
\* behind and less than half the wire's range ahead: counters that wrap on the wire,
\* and gaps of lost datagrams, do not cut an association off.
AdmitsFresh ==
    \A c \in Counters :
        /\ c < next /\ handled[c] = 0
        /\ c - receive.highest < Half /\ receive.highest - c < Window
        /\ receive.highest >= 0
        => candidate(receive, c % Modulus) = c
=============================================================================
