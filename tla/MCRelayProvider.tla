-------------------------- MODULE MCRelayProvider --------------------------
(* Two players of one title: the first binds, the second joins it or binds too. *)
EXTENDS RelayProvider, TLC

CONSTANTS r1, r2, r3, j1, s1, s2, d1, d2, d3

MCTitle == [s \in Sessions |-> "mp"]
MCRequests ==
    d1 :> [session |-> s1, bind |-> TRUE, route |-> r1, join |-> j1]
    @@ d2 :> [session |-> s2, bind |-> FALSE, route |-> r1, join |-> j1]
    @@ d3 :> [session |-> s2, bind |-> TRUE, route |-> r1, join |-> j1]
MCRequest == [d \in Inits |-> MCRequests[d]]
=============================================================================
