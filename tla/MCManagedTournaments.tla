------------------------ MODULE MCManagedTournaments ------------------------
(* An instance of ManagedTournaments for TLC. *)
EXTENDS ManagedTournaments, TLC

\* Four players: four teams of one and two rounds, or two teams of two.
Singles == [size |-> 1, teams |-> 4, rounds |-> 2]
Pairs == [size |-> 2, teams |-> 2, rounds |-> 1]
Small == {Singles, Pairs}

\* A search for every team, and for pairs one more: a team that is formed again.
Bounds == Singles :> 4 @@ Pairs :> 3

Symmetry == Permutations(Players)
=============================================================================
