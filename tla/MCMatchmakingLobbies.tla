------------------------ MODULE MCMatchmakingLobbies ------------------------
(***************************************************************************)
(* Players are interchangeable.                                            *)
(***************************************************************************)
EXTENDS MatchmakingLobbies, TLC

Players == Permutations(Users)

=============================================================================
