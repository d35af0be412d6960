------------------------ MODULE MCMatchmakingStore ------------------------
(* Instances of MatchmakingStore for TLC. *)
EXTENDS MatchmakingStore, TLC

CONSTANTS lobby, search, enrollment, t1, t2, t3

\* Two transactions that share the enrollment, as two competitions retired in one
\* maintenance pass do, and one that writes a lobby and a search, as a join does.
MCWriteSet == (t1 :> {lobby, enrollment}) @@ (t2 :> {search, enrollment}) @@ (t3 :> {lobby, search})
=============================================================================
