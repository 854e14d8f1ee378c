---------------------------- MODULE MCAdmission ----------------------------
(* Instances of Admission for TLC. *)
EXTENDS Admission, TLC

Symmetry == Permutations(Fingerprints) \cup Permutations(Triagers)
            \cup Permutations(Clickers) \cup Permutations(Updaters)
=============================================================================
