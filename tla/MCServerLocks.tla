--------------------------- MODULE MCServerLocks ---------------------------
(* An instance of ServerLocks for TLC. *)
EXTENDS ServerLocks
=============================================================================
