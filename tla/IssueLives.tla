----------------------------- MODULE IssueLives -----------------------------
(***************************************************************************)
(* The promise of IssuePromise over the successive lives of a fingerprint: *)
(* every life keeps it, and only a row that is terminal, or not there at   *)
(* all, gives way to the next life. Lives is checked and proved to         *)
(* implement it.                                                           *)
(***************************************************************************)
EXTENDS IssuePromise

Nobody == status = "absent" /\ attempts = 0

\* claim, and the verdict of triage
Reclaim ==
  /\ status \in Terminal \cup {"absent"}
  /\ status' \in {"fixing", "rca_only", "awaiting_approval"}
  /\ attempts' = 0

\* a press of Dismiss
Dismiss ==
  /\ status = "awaiting_approval"
  /\ status' = "closed"
  /\ UNCHANGED attempts

LivesNext == Reclaim \/ Start \/ Dismiss \/ FirstRun \/ GroomRun \/ MarkReady \/ Settle \/ GiveUp

LivesSpec == Nobody /\ [][LivesNext]_vars
=============================================================================
