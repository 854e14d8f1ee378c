-------------------------------- MODULE Lives --------------------------------
(***************************************************************************)
(* One fingerprint over its successive lives. An error that comes back     *)
(* after its row has become terminal is claimed again (core/store.py,      *)
(* handlers/triage.py): a new execution, a new brief, a new pull request,  *)
(* and the branch name of the life before. What outlives a row meets the   *)
(* next life here: the branch and the pull requests on GitHub, the PR#     *)
(* items of the store that no one deletes, and the containers that go on   *)
(* working when Step Functions has stopped waiting for them.               *)
(*                                                                         *)
(* The worker (worker/main.py, engines/) is modelled with what it does to  *)
(* git; each of its actions holds one access to the remote. The handlers   *)
(* are one action each: module GroomLoop interleaves their calls.          *)
(***************************************************************************)
EXTENDS IssueModel, Naturals, Sequences, FiniteSets

CONSTANTS
  Kinds,         \* the kinds of feedback GitHub sends in this instance
  MaxAttempts,   \* policy.max_attempts
  Engine,        \* the repository's engine: "claude" or "codex"
  MaxLives,      \* bound: claims of the fingerprint
  MaxEvents,     \* bound: comments and CI results on tracked pull requests
  MaxHuman       \* bound: commits people push to the branch

ASSUME BoundsAssumption ==
  /\ MaxAttempts \in Nat /\ MaxLives \in Nat /\ MaxEvents \in Nat /\ MaxHuman \in Nat
ASSUME KindsAssumption == Kinds \subseteq CiKind \cup {"review", "comment"}
ASSUME EngineAssumption == Engine \in {"claude", "codex"}

VARIABLES
  log,      \* the commits: of each, the commits of its history
  main,     \* the head of the default branch
  branch,   \* the head of grumpycat/<id> on the remote, 0 when there is none
  prs,      \* GitHub's pull requests for the branch
  row,      \* the issue row: status, attempts, pr_number, last_outcome.pushed_sha,
            \* brief
  tracked,  \* the numbers that have a PR# item
  pending,  \* the row's pending_events
  exec,     \* the Step Functions execution of the current life
  runs,     \* the worker containers started so far, of all lives
  resolved, \* history: review comments GitHub shows as addressed
  shown,    \* history: review comments an engine was shown
  spent     \* the bounded environment: lives, events and human commits so far

repo == <<log, main, branch>>
store == <<row, tracked, pending>>
history == <<resolved, shown>>
vars == <<log, main, branch, prs, row, tracked, pending, exec, runs, resolved,
          shown, spent>>

-----------------------------------------------------------------------------
(* State *)

Commit == [past : SUBSET Nat]
PullRequest == [state : {"open", "merged", "closed"}, life : Nat]
\* pr is the pull request the event is about, 0 for a status event; ids are
\* its review-comment ids
Event == [kind : EventKind, pr : Nat, ids : SUBSET Nat]
NoEvent == [kind |-> "none", pr |-> 0, ids |-> {}]
\* brief_md: the previous fix it names, the review findings it renders
BriefMd == [prev : Nat, findings : SUBSET Nat]
\* head is the commit the container has checked out, 0 before and after that;
\* outside says of a fix that the default branch did not have that commit; a
\* container is over when it ended without a push
Run == [pc : {"starting", "working", "pushed", "over"}, kind : {"fix", "groom"},
        life : Nat, head : Nat, outside : BOOLEAN, ids : SUBSET Nat, brief : BriefMd]

AslState == {"Fix", "Groom", "AfterRun", "Park", "Parked", "FinalizeReady",
             "FinalizeMerged", "FinalizeClosed", "FinalizeNeedsHuman", "Done"}

Row == [status : Status \cup {"absent"}, attempts : 0..MaxAttempts, pr : Nat, sha : Nat,
        brief : BriefMd]
Execution == [at : AslState, run : Nat, outcome : Outcome \cup {"none"},
              attempt : 0..MaxAttempts, ev : Event \cup {NoEvent},
              brief : BriefMd, clean : BOOLEAN]

TypeOK ==
  /\ log \in Seq(Commit)
  /\ main \in 1..Len(log) /\ branch \in 0..Len(log)
  /\ prs \in Seq(PullRequest)
  /\ row \in Row /\ row.pr <= Len(prs) /\ row.sha <= Len(log)
  /\ tracked \subseteq 1..Len(prs)
  /\ pending \in Seq(Event)
  /\ exec \in Execution /\ exec.run <= Len(runs)
  /\ runs \in Seq(Run)
  /\ resolved \subseteq Nat /\ shown \subseteq Nat
  /\ spent \in [lives : 0..MaxLives, events : 0..MaxEvents, human : 0..MaxHuman]

NoBrief == [prev |-> 0, findings |-> {}]

\* no execution, or one that ended; clean says of the life that it began with no
\* pull request open (history)
Over(clean) ==
  [at |-> "Done", run |-> 0, outcome |-> "none", attempt |-> 0, ev |-> NoEvent,
   brief |-> NoBrief, clean |-> clean]

Init ==
  /\ log = <<[past |-> {1}]>>
  /\ main = 1 /\ branch = 0
  /\ prs = <<>>
  /\ row = [status |-> "absent", attempts |-> 0, pr |-> 0, sha |-> 0, brief |-> NoBrief]
  /\ tracked = {} /\ pending = <<>>
  /\ exec = Over(TRUE)
  /\ runs = <<>>
  /\ resolved = {} /\ shown = {}
  /\ spent = [lives |-> 0, events |-> 0, human |-> 0]

Opened == {n \in DOMAIN prs : prs[n].state = "open"}

-----------------------------------------------------------------------------
(* git *)

\* a new commit on top of the history h
Committed(h) == Append(log, [past |-> h \cup {Len(log) + 1}])
NewCommit == Len(log) + 1
Past(c) == IF c = 0 THEN {} ELSE log[c].past

\* mutant of PushAccepted: git push --force
PushAcceptedForced(base) == branch = 0 \/ base # 0

\* git push without --force: the remote takes a branch it does not have, or
\* one whose head the new commit descends from
PushAccepted(base) == branch = 0 \/ branch \in log[base].past

-----------------------------------------------------------------------------
(* Triage: claim, then rca_only, the approval gate or start_fix *)

\* a container that Step Functions starts
Launched(kind, ids, brief, life) ==
  [pc |-> "starting", kind |-> kind, life |-> life, head |-> 0, outside |-> FALSE,
   ids |-> ids, brief |-> brief]

\* start_fix, of a life that began clean or not: brief_md is rendered here, once
\* for the whole life
StartFix(brief, life, clean) ==
  /\ exec' = [at |-> "Fix", run |-> Len(runs) + 1, outcome |-> "none", attempt |-> 0,
              ev |-> NoEvent, brief |-> brief, clean |-> clean]
  /\ runs' = Append(runs, Launched("fix", {}, brief, life))

\* mutants of ClaimedRow and ClaimedQueue: the claim updates what it finds, and
\* keeps its pull request, its pending events
ClaimedRowUpdated ==
  [status |-> "triaged", attempts |-> 0, pr |-> row.pr, sha |-> 0, brief |-> NoBrief]
ClaimedQueueKept == pending

\* the row claim puts in the place of the one it finds: without a pull
\* request, a wait token, a brief or pending events
ClaimedRow == [status |-> "triaged", attempts |-> 0, pr |-> 0, sha |-> 0, brief |-> NoBrief]
ClaimedQueue == <<>>

\* process reads the row before it claims it: the brief of the new life names
\* the pull request of the life before
PreviousPr == row.pr

Claim ==
  /\ row.status \in Terminal \cup {"absent"}
  /\ spent.lives < MaxLives
  /\ spent' = [spent EXCEPT !.lives = @ + 1]
  /\ pending' = ClaimedQueue
  /\ LET brief == [prev |-> PreviousPr, findings |-> {}]
         clean == Opened = {}
     IN  \/ \* no repository, a low confidence or the daily cap
            /\ row' = [ClaimedRow EXCEPT !.status = "rca_only"]
            /\ exec' = Over(clean) /\ UNCHANGED runs
         \/ \* policy.gated: the brief waits in the row for a press
            /\ row' = [ClaimedRow EXCEPT !.status = "awaiting_approval", !.brief = brief]
            /\ exec' = Over(clean) /\ UNCHANGED runs
         \/ /\ row' = [ClaimedRow EXCEPT !.status = "fixing", !.brief = brief]
            /\ StartFix(brief, spent.lives + 1, clean)
  /\ UNCHANGED <<repo, prs, tracked, history>>

\* the buttons of the gate; module Admission has two presses at a time
Pressed ==
  /\ row.status = "awaiting_approval"
  /\ UNCHANGED <<repo, prs, tracked, pending, history, spent>>

Approve ==
  /\ Pressed
  /\ row' = [row EXCEPT !.status = "fixing"]
  /\ StartFix(row.brief, spent.lives, exec.clean)

Dismiss ==
  /\ Pressed
  /\ row' = [row EXCEPT !.status = "closed"]
  /\ UNCHANGED <<exec, runs>>

-----------------------------------------------------------------------------
(* The worker: checkout, then the push of what the engine left, or nothing  *)
(* to push, then the callback                                               *)

\* the execution waits for the callback of container r
Awaited(r) == exec.at \in {"Fix", "Groom"} /\ exec.run = r

\* where Workspace.checkout may start from: a groom run from the branch; a fix
\* from the deployed commit, any that the remote still has, an open pull
\* request's among them, or, when it is unknown or cannot be fetched, from the
\* head of the default branch
Bases(r) ==
  IF runs[r].kind = "groom" THEN {branch} \ {0} ELSE DOMAIN log

\* clone and checkout; preflight, prepare and the engine then work locally, the
\* engine from the brief it was given and from nothing else
Checkout(r) ==
  /\ runs[r].pc = "starting"
  /\ \E base \in Bases(r) :
       runs' = [runs EXCEPT ![r] =
                  [@ EXCEPT !.pc = "working", !.head = base,
                            !.outside = runs[r].kind = "fix" /\ base \notin Past(main)]]
  /\ shown' = shown \cup runs[r].brief.findings
  /\ UNCHANGED <<repo, prs, store, exec, resolved, spent>>

\* what a run may leave in the working tree: .grumpycat/ with the brief, and
\* GRUMPYCAT_REPORT.md, or changes, of the engine or of the prepare command
WorkingTree == {{"scratch"} \cup tree : tree \in SUBSET {"report", "changes"}}
\* what git status shows, minus our own files (changed_paths)
ChangedPaths(tree) == tree \ {"scratch", "report"}

\* an exception in the worker: send_task_failure, which States.ALL catches
\* when the execution still waits; what was pushed stays pushed
GivesUp(r) ==
  /\ runs' = IF runs[r].pc = "pushed" THEN runs
             ELSE [runs EXCEPT ![r] = [@ EXCEPT !.pc = "over", !.head = 0]]
  /\ exec' = IF Awaited(r) THEN [exec EXCEPT !.at = "FinalizeNeedsHuman"] ELSE exec

\* mutant of Push: the exit code of git push is not looked at
PushUnchecked(r) ==
  /\ runs[r].pc = "working"
  /\ \E tree \in WorkingTree : ChangedPaths(tree) # {}
  /\ log' = Committed(log[runs[r].head].past)
  /\ branch' = IF PushAccepted(runs[r].head) THEN NewCommit ELSE branch
  /\ runs' = [runs EXCEPT ![r].pc = "pushed", ![r].head = NewCommit]
  /\ UNCHANGED <<main, prs, store, exec, history, spent>>

\* commit_and_push
Push(r) ==
  /\ runs[r].pc = "working"
  /\ \E tree \in WorkingTree : ChangedPaths(tree) # {}
  /\ IF PushAccepted(runs[r].head)
     THEN /\ log' = Committed(log[runs[r].head].past)
          /\ branch' = NewCommit
          /\ runs' = [runs EXCEPT ![r] = [@ EXCEPT !.pc = "pushed", !.head = NewCommit]]
          /\ UNCHANGED exec
     ELSE GivesUp(r) /\ UNCHANGED <<log, branch>>
  /\ UNCHANGED <<main, prs, store, history, spent>>

\* send_task_success. The token of a container that is no longer awaited is
\* refused: it ends, or fails, without a trace, like one that is killed.
CallsBack(r, outcome) ==
  /\ Awaited(r)
  /\ exec' = [exec EXCEPT !.at = "AfterRun", !.outcome = outcome]

ReportPush(r) ==
  /\ runs[r].pc = "pushed"
  /\ CallsBack(r, "pushed")
  /\ UNCHANGED <<repo, prs, store, runs, history, spent>>

\* what the engine's run returns for a session that left the tree and did, or
\* did not, end in an error, its timeout among them: codex does not say which
Summarized(tree, isError) ==
  [changed |-> ChangedPaths(tree) # {}, report |-> "report" \in tree, is_error |-> isError]
ClaudeResult(tree, error) == Summarized(tree, error)
CodexResult(tree) == Summarized(tree, FALSE)
EngineResult(tree, error) ==
  IF Engine = "claude" THEN ClaudeResult(tree, error) ELSE CodexResult(tree)

\* outcome_for without a push
Unpushed(result) ==
  IF result.report \/ ~result.is_error THEN "declined" ELSE "failed"

ReportNothing(r) ==
  /\ runs[r].pc = "working"
  /\ \E tree \in WorkingTree, error \in BOOLEAN :
       LET result == EngineResult(tree, error)
       IN  ~result.changed /\ CallsBack(r, Unpushed(result))
  /\ runs' = [runs EXCEPT ![r] = [@ EXCEPT !.pc = "over", !.head = 0]]
  /\ UNCHANGED <<repo, prs, store, history, spent>>

Fail(r) ==
  /\ runs[r].pc # "over" /\ Awaited(r)
  /\ GivesUp(r)
  /\ UNCHANGED <<repo, prs, store, history, spent>>

\* mutant of TaskTimeout: Catch sends a timeout to Park
TaskTimeoutParks ==
  /\ exec.at \in {"Fix", "Groom"}
  /\ exec' = [exec EXCEPT !.at = "Park"]
  /\ UNCHANGED <<repo, prs, store, runs, history, spent>>

\* TimeoutSeconds or HeartbeatSeconds: the container is left to itself
TaskTimeout ==
  /\ exec.at \in {"Fix", "Groom"}
  /\ exec' = [exec EXCEPT !.at = "FinalizeNeedsHuman"]
  /\ UNCHANGED <<repo, prs, store, runs, history, spent>>

-----------------------------------------------------------------------------
(* The lifecycle Lambda and the Choice states around it *)

\* mutant of RouteEvent: without CheckBudget
RouteEventUnbounded(kind) ==
  CASE kind \in {"ci_failure", "review", "comment"} -> "Groom"
    [] kind = "ci_success" -> "FinalizeReady"
    [] kind = "merged"     -> "FinalizeMerged"
    [] kind = "closed"     -> "FinalizeClosed"

\* RouteEvent, CheckBudget
RouteEvent(kind) ==
  CASE kind \in {"ci_failure", "review", "comment"} ->
         IF exec.attempt < MaxAttempts THEN "Groom" ELSE "FinalizeNeedsHuman"
    [] kind = "ci_success" -> "FinalizeReady"
    [] kind = "merged"     -> "FinalizeMerged"
    [] kind = "closed"     -> "FinalizeClosed"

\* mutant of Resume: BumpAttempt does not count
ResumeUncounted(ev) ==
  IF RouteEvent(ev.kind) = "Groom"
  THEN /\ exec' = [exec EXCEPT !.at = "Groom", !.ev = ev, !.run = Len(runs) + 1]
       /\ runs' = Append(runs, Launched("groom", ev.ids, exec.brief, spent.lives))
  ELSE exec' = [exec EXCEPT !.at = RouteEvent(ev.kind), !.ev = ev] /\ UNCHANGED runs

\* the execution goes on with an event; BumpAttempt makes the event's comments
\* the trigger of the next task, the brief stays
Resume(ev) ==
  IF RouteEvent(ev.kind) = "Groom"
  THEN /\ exec' = [exec EXCEPT !.at = "Groom", !.ev = ev, !.run = Len(runs) + 1,
                               !.attempt = @ + 1]
       /\ runs' = Append(runs, Launched("groom", ev.ids, exec.brief, spent.lives))
  ELSE exec' = [exec EXCEPT !.at = RouteEvent(ev.kind), !.ev = ev] /\ UNCHANGED runs

\* the container the execution waited for
TheRun == runs[exec.run]

\* GitHub opens a pull request for a branch with commits of its own and no
\* open pull request yet
CanOpen == branch # 0 /\ branch \notin log[main].past /\ Opened = {}

\* after_run of a run without a push: RouteOutcome ends the execution, and a
\* pull request the life has opened is left to itself
AfterNothing ==
  /\ exec.at = "AfterRun" /\ exec.outcome # "pushed"
  /\ row' = [row EXCEPT !.sha = 0, !.attempts = exec.attempt,
                        !.status = IF exec.outcome = "declined" THEN "rca_only"
                                   ELSE "needs_human"]
  /\ exec' = Over(exec.clean)
  /\ UNCHANGED <<repo, prs, tracked, pending, runs, history, spent>>

AfterRunRow(status) ==
  [row EXCEPT !.status = status, !.attempts = exec.attempt, !.sha = TheRun.head]

AfterPush ==
  /\ exec.at = "AfterRun" /\ exec.outcome = "pushed"
  /\ exec' = [exec EXCEPT !.at = "Park"]
  /\ UNCHANGED <<repo, pending, runs, shown, spent>>

\* the first push of a life: _open_pr answers with a number ...
OpenPr ==
  /\ AfterPush
  /\ row.pr = 0 /\ CanOpen
  /\ prs' = Append(prs, [state |-> "open", life |-> spent.lives])
  /\ row' = [AfterRunRow("pr_open") EXCEPT !.pr = Len(prs) + 1]
  /\ tracked' = tracked \cup {Len(prs) + 1}
  /\ UNCHANGED resolved

\* ... or opens the pull request and fails before it returns the number ...
LosePr ==
  /\ AfterPush
  /\ row.pr = 0 /\ CanOpen
  /\ prs' = Append(prs, [state |-> "open", life |-> spent.lives])
  /\ row' = AfterRunRow("pr_open")
  /\ UNCHANGED <<tracked, resolved>>

\* ... or fails; _notify swallows the exception
RefusePr ==
  /\ AfterPush
  /\ row.pr = 0
  /\ row' = AfterRunRow("pr_open")
  /\ UNCHANGED <<prs, tracked, resolved>>

\* a later push: _after_push replies to the comments of the run's trigger and
\* resolves their threads, as far as they are of this pull request
AnswerPush ==
  /\ AfterPush
  /\ row.pr # 0
  /\ row' = AfterRunRow("grooming")
  /\ \E done \in SUBSET TheRun.ids :
       /\ exec.ev.pr = row.pr \/ done = {}
       /\ resolved' = resolved \cup done
  /\ UNCHANGED <<prs, tracked>>

\* park: replay the first pending event, or store the token and wait
Park ==
  /\ exec.at = "Park"
  /\ IF pending = <<>>
     THEN exec' = [exec EXCEPT !.at = "Parked"] /\ UNCHANGED <<pending, runs>>
     ELSE Resume(Head(pending)) /\ pending' = Tail(pending)
  /\ UNCHANGED <<repo, prs, row, tracked, history, spent>>

ParkTimeout ==
  /\ exec.at = "Parked"
  /\ exec' = [exec EXCEPT !.at = "FinalizeNeedsHuman"]
  /\ UNCHANGED <<repo, prs, store, runs, history, spent>>

\* finalize, and the state that follows it
Finalize(at, status) ==
  /\ exec.at = at
  /\ row' = [row EXCEPT !.status = status]
  /\ exec' = IF status = "ready" THEN [exec EXCEPT !.at = "Park"] ELSE Over(exec.clean)
  /\ UNCHANGED <<repo, prs, tracked, pending, runs, history, spent>>

Finalizes ==
  \/ Finalize("FinalizeReady", "ready")
  \/ Finalize("FinalizeMerged", "merged")
  \/ Finalize("FinalizeClosed", "closed")
  \/ Finalize("FinalizeNeedsHuman", "needs_human")

-----------------------------------------------------------------------------
(* GitHub, its people, and the hook. A webhook finds the row by the PR#     *)
(* item of whatever life, or by the branch name that all lives share, and   *)
(* asks of it only that its status is ACTIVE.                               *)

Tracked(n) == row.status \in Active /\ n \in tracked \cup {0}

Deliver(ev) ==
  IF Tracked(ev.pr)
  THEN IF exec.at = "Parked"
       THEN Resume(ev) /\ UNCHANGED pending
       ELSE pending' = Append(pending, ev) /\ UNCHANGED <<exec, runs>>
  ELSE UNCHANGED <<pending, exec, runs>>

\* a review comment on a pull request, open or not, and a CI result for one or
\* for the branch
Feedback ==
  /\ spent.events < MaxEvents
  /\ spent' = [spent EXCEPT !.events = @ + 1]
  /\ \E n \in DOMAIN prs \cup {0}, kind \in Kinds :
       /\ Tracked(n)
       /\ n = 0 => kind \in CiKind /\ branch # 0
       /\ Deliver([kind |-> kind, pr |-> n,
                   ids |-> IF kind = "comment" THEN {spent.events + 1} ELSE {}])
  /\ UNCHANGED <<repo, prs, row, tracked, history>>

Settled(n, state) ==
  /\ n \in Opened
  /\ prs' = [prs EXCEPT ![n] = [@ EXCEPT !.state = state]]
  /\ branch' \in {branch, 0}
  /\ Deliver([kind |-> state, pr |-> n, ids |-> {}])
  /\ UNCHANGED <<row, tracked, history, spent>>

\* a merge commit, or a squash that leaves the branch outside the history
Merge(n) ==
  /\ Settled(n, "merged")
  /\ \E merged \in {Past(branch), {}} : log' = Committed(log[main].past \cup merged)
  /\ main' = NewCommit

Close(n) == Settled(n, "closed") /\ UNCHANGED <<log, main>>

\* people commit to the branch of the pull request they review
HumanPush ==
  /\ branch # 0 /\ Opened # {} /\ spent.human < MaxHuman
  /\ spent' = [spent EXCEPT !.human = @ + 1]
  /\ log' = Committed(log[branch].past)
  /\ branch' = NewCommit
  /\ UNCHANGED <<main, prs, store, exec, runs, history>>

-----------------------------------------------------------------------------
(* Next-state relation *)

Worker(r) == Checkout(r) \/ Push(r) \/ ReportPush(r) \/ ReportNothing(r) \/ Fail(r)

Lifecycle == \/ AfterNothing \/ OpenPr \/ LosePr \/ RefusePr \/ AnswerPush
             \/ Park \/ Finalizes

People == Feedback \/ HumanPush \/ \E n \in DOMAIN prs : Merge(n) \/ Close(n)

\* every life is over, and so are the pull requests
Finished ==
  /\ exec.at = "Done" /\ spent.lives = MaxLives /\ UNCHANGED vars

Next ==
  \/ Claim \/ Approve \/ Dismiss
  \/ \E r \in DOMAIN runs : Worker(r)
  \/ TaskTimeout \/ ParkTimeout
  \/ Lifecycle
  \/ People
  \/ Finished

Spec == Init /\ [][Next]_vars

-----------------------------------------------------------------------------
(* What separates one life from the next *)

Life == spent.lives
\* the containers started in life l, those left to themselves included
Containers(l) == {r \in DOMAIN runs : runs[r].life = l}
\* the containers of the current life that pushed
Pushers == {r \in Containers(Life) : runs[r].pc = "pushed"}
\* the containers that may still push
AtWork == {r \in DOMAIN runs : runs[r].pc \in {"starting", "working"}}
\* the fix of the current life started from a commit outside the default branch
Outside == \E r \in Containers(Life) : runs[r].outside
\* GitHub's pull requests that the current life opened
OwnPrs == {n \in DOMAIN prs : prs[n].life = Life}

(* No push loses work: a commit that reached the branch, from whatever      *)
(* container or person, stays in its history until the branch is deleted    *)
(* (commit_and_push pushes without --force).                                *)
BranchGrows == [][branch # 0 /\ branch' # 0 => branch \in log'[branch'].past]_vars

(* All lives push to one branch name (fingerprint.branch_name). Still, as   *)
(* long as a pull request of an earlier life is open, the current life adds *)
(* no commit to it, however late the containers of either life are, unless  *)
(* its fix started from a deployed commit that the default branch did not   *)
(* have (Workspace.checkout): such a fix may start from the very branch of  *)
(* that pull request, and its push is accepted there.                       *)
OlderPrUntouched ==
  (\E n \in Opened : prs[n].life # Life) /\ ~Outside => Pushers = {}

(* However often runs time out, fail or go on unattended, and whatever is   *)
(* replayed from the queue, a life starts one container for its fix and at  *)
(* most one for each of its max_attempts groom runs, so that it pushes no   *)
(* more commits than that (issue.asl.json, CheckBudget and BumpAttempt; the *)
(* fix starts at the claim or at a press of Approve, never at both).        *)
LifeInBudget == \A l \in 1..Life : Cardinality(Containers(l)) <= MaxAttempts + 1

(* Two containers of one life never work at the same time: whatever times   *)
(* out, fails or is replayed from the queue, a groom run starts only when   *)
(* the run before it has pushed or is over (issue.asl.json, Catch of Fix    *)
(* and Groom). What a container left to itself does meets only later lives. *)
WorksAlone ==
  \A r, s \in AtWork : runs[r].life = runs[s].life => r = s

(* "Pushed `sha`", the comment of _after_push, is true: the commit that     *)
(* after_run recorded is on the branch of the open pull request, unless a   *)
(* pull request of this life was lost before it had a number, or the fix    *)
(* came from outside the default branch while an earlier pull request was   *)
(* open, which takes the branch with it when it is settled.                 *)
ReportedIsPushed ==
  row.status \in {"pr_open", "grooming", "ready"} /\ row.pr \in Opened
    /\ OwnPrs \subseteq tracked /\ (exec.clean \/ ~Outside)
  => branch # 0 /\ row.sha \in log[branch].past

(* A life that began with no pull request open is settled by its own: a row *)
(* that says merged or closed names a pull request of this life, and GitHub *)
(* agrees about it, or its fix was dismissed and never ran. No event of an  *)
(* earlier life is replayed.                                                *)
SettledByOwnPr ==
  row.status \in {"merged", "closed"} /\ exec.clean =>
    \/ row.pr \in OwnPrs /\ prs[row.pr].state = row.status
    \/ row.status = "closed" /\ Containers(Life) = {}

(* The row names no pull request but one of this life, and the brief, in    *)
(* the row or with the execution, names as the previous fix only one of an  *)
(* earlier life, the latest that was tracked: the row that is read is the   *)
(* one that the claim replaces, and a press of Approve, however late, uses  *)
(* the brief of its own life.                                               *)
LivesAreSeparate ==
  /\ row.pr # 0 => row.pr \in OwnPrs \cap tracked
  /\ \A brief \in {row.brief, exec.brief} : brief.prev # 0 =>
       /\ brief.prev \in tracked \ OwnPrs
       /\ \A n \in tracked \ OwnPrs : n <= brief.prev

(* The row keeps the promise of IssuePromise in every life, and no life     *)
(* takes it before the one before has settled.                              *)
Promise == INSTANCE IssueLives WITH status <- row.status, attempts <- row.attempts
KeepsPromise == Promise!LivesSpec

-----------------------------------------------------------------------------
(* What the repository says and the code does not do                        *)

\* models.py:199: addressed_comment_ids are "Review comments this push
\* responded to". A thread is resolved only if its comment was in a brief.
AddressedWasShown == resolved \subseteq shown
=============================================================================
