---------------------------- MODULE IssuePromise ----------------------------
(***************************************************************************)
(* What an issue promises to those who only see its row: the life of the   *)
(* IssueState document (core/models.py) from the moment a fix is started.  *)
(* A run either pushes, and the pull request goes on, or ends the issue;   *)
(* every run but the first costs one attempt; a terminal status is final.  *)
(* GroomLoop, with all its handlers, is shown to implement it.             *)
(***************************************************************************)
EXTENDS IssueModel, Naturals

CONSTANT MaxAttempts  \* policy.max_attempts

VARIABLES status, attempts

vars == <<status, attempts>>

InReview == {"pr_open", "grooming", "ready"}

Init == status \in {"triaged", "awaiting_approval"} /\ attempts = 0

\* start_fix has written the row
Start ==
  /\ status \in {"triaged", "awaiting_approval"}
  /\ status' = "fixing"
  /\ UNCHANGED attempts

\* the fix run reports
FirstRun ==
  /\ status = "fixing"
  /\ status' \in {"pr_open", "rca_only", "needs_human"}
  /\ UNCHANGED attempts

\* a groom run reports; the pull request is opened now if it was not before
GroomRun ==
  /\ status \in InReview
  /\ attempts < MaxAttempts
  /\ attempts' = attempts + 1
  /\ status' \in {"pr_open", "grooming", "rca_only", "needs_human"}

\* after_run is run again for the push that opened the pull request
SecondAfterRun ==
  /\ status = "pr_open"
  /\ status' = "grooming"
  /\ UNCHANGED attempts

MarkReady ==
  /\ status \in InReview
  /\ status' = "ready"
  /\ UNCHANGED attempts

Settle ==
  /\ status \in InReview
  /\ status' \in {"merged", "closed"}
  /\ UNCHANGED attempts

\* a worker that failed, an exhausted budget, two weeks of silence
GiveUp ==
  /\ status \in InReview \cup {"fixing"}
  /\ status' = "needs_human"
  /\ UNCHANGED attempts

Next == Start \/ FirstRun \/ GroomRun \/ SecondAfterRun \/ MarkReady \/ Settle \/ GiveUp

Spec == Init /\ [][Next]_vars
=============================================================================
