---------------------------- MODULE MCGroomLoop ----------------------------
(* Instances of GroomLoop for TLC. *)
EXTENDS GroomLoop, TLC

HookSymmetry == Permutations(Hooks)

AllKinds == EventKind
\* one kind per branch of RouteEvent; "ci_failure" and "review" take the branch of "comment"
RoutedKinds == {"ci_success", "comment", "merged", "closed"}
ReviewKinds == {"ci_failure", "ci_success", "comment"}
=============================================================================
