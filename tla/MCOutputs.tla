----------------------------- MODULE MCOutputs -----------------------------
(* An instance of Outputs for TLC, with the outputs in the order of          *)
(* docs/config.md.                                                           *)
EXTENDS Outputs

DocumentedOrder == <<"github", "slack">>
=============================================================================
