------------------------------ MODULE MCLives ------------------------------
(* Instances of Lives for TLC. *)
EXTENDS Lives
=============================================================================
