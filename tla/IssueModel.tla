----------------------------- MODULE IssueModel -----------------------------
(***************************************************************************)
(* The vocabulary shared by every module: the statuses of an issue         *)
(* (core/models.py), the status sets the store and the GitHub hook test    *)
(* (core/store.py, handlers/github_hook.py), the events a parked execution *)
(* can be resumed with and the outcomes a worker can report.               *)
(***************************************************************************)

\* models.py: IssueStatus
Status == {"triaged", "awaiting_approval", "fixing", "pr_open", "grooming",
           "ready", "needs_human", "rca_only", "merged", "closed"}

\* store.py: the statuses a claim may overwrite
Terminal == {"merged", "closed", "rca_only", "needs_human"}

\* store.py: an engine run was started; the row counts against prs_per_day
Started == {"fixing", "pr_open", "grooming", "ready", "merged", "closed",
            "needs_human"}

\* github_hook.py: the statuses whose GitHub events are not dropped
Active == {"pr_open", "grooming", "fixing"}

\* models.py: AwaitedEvent.kind
EventKind == {"ci_failure", "ci_success", "review", "comment", "merged", "closed"}

CiKind == {"ci_failure", "ci_success"}

\* What a worker reports: FixOutcome.status without "pr_open", which no worker
\* of this repository sends (worker/main.py, outcome_for).
Outcome == {"pushed", "declined", "failed"}
=============================================================================
