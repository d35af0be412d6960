-------------------------- MODULE MCPresencePush --------------------------
(* An instance of PresencePush for TLC. *)
EXTENDS PresencePush
=============================================================================
