----------------------------- MODULE MCBootstrap -----------------------------
(* Bootstrap for TLC. *)
EXTENDS Bootstrap
=============================================================================
