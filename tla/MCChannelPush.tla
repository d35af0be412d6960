---------------------------- MODULE MCChannelPush ----------------------------
(***************************************************************************)
(* Two members of a channel; the first has two connections, as while it    *)
(* reconnects.                                                             *)
(***************************************************************************)
EXTENDS ChannelPush, TLC

CONSTANTS a1, a2, b1

MCUserOf == a1 :> 1 @@ a2 :> 1 @@ b1 :> 2
Reconnections == Permutations({a1, a2})

=============================================================================
