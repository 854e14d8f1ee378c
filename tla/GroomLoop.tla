------------------------------ MODULE GroomLoop ------------------------------
(***************************************************************************)
(* The life of one issue from start_execution to the end of its Step       *)
(* Functions execution: the state machine (statemachine/issue.asl.json),   *)
(* the lifecycle Lambda it calls (handlers/lifecycle.py), the worker it    *)
(* runs (worker/main.py), the GitHub hook that resumes it                  *)
(* (handlers/github_hook.py), the two writers that share the issue row     *)
(* with them (start_fix and _handle_update of handlers/triage.py), and the *)
(* DynamoDB item they all meet in (core/store.py).                         *)
(*                                                                         *)
(* One action per remote call of a handler: everything a Lambda does       *)
(* between two calls to DynamoDB, Step Functions or GitHub is one step,    *)
(* and steps of different handlers interleave.                             *)
(***************************************************************************)
EXTENDS IssueModel, Naturals, Sequences, FiniteSets

CONSTANTS
  Hooks,        \* GitHub webhook invocations that may run at the same time
  Kinds,        \* the kinds of event GitHub sends in this instance
  MaxAttempts,  \* policy.max_attempts
  MaxEvents,    \* bound: webhooks GitHub sends
  MaxFaults,    \* bound: Lambda invocations that fail half-way
  MaxUpdates,   \* bound: RECOVERED / UPDATE events the source sends
  PromptStart   \* timing: start_fix's last write precedes the worker's report

ASSUME KindsAssumption == Kinds \subseteq EventKind
ASSUME BoundsAssumption ==
  /\ MaxAttempts \in Nat /\ MaxEvents \in Nat
  /\ MaxFaults \in Nat /\ MaxUpdates \in Nat
ASSUME PromptStartAssumption == PromptStart \in BOOLEAN

VARIABLES
  doc,      \* the IssueState document of the row
  prRow,    \* the number of the PR#<repo>#<number> item, 0 when there is none
  token,    \* the row's wait_token, 0 when absent
  pending,  \* the row's pending_events
  exec,     \* the Step Functions execution
  worker,   \* the Fargate task of the current Fix or Groom state
  life,     \* the lifecycle Lambda the execution is waiting for
  hook,     \* the webhook invocations
  gh,       \* GitHub: the pull request, the branch and its CI results
  starter,  \* start_fix, between start_execution and its put
  upd,      \* _handle_update of a RECOVERED / UPDATE event
  faults,   \* Lambda failures so far
  accepted, \* history: ids of the events a hook took for a tracked issue
  delivered,\* history: ids of the events that resumed the execution
  refused,  \* history: ids of the events whose webhook ended in an error
  reports   \* history: outcomes the execution received from workers

store == <<doc, prRow, token, pending>>
history == <<accepted, delivered, refused, reports>>
vars == <<doc, prRow, token, pending, exec, worker, life, hook, gh, starter,
          upd, faults, accepted, delivered, refused, reports>>

-----------------------------------------------------------------------------
(* State *)

Working == {"Fix", "Groom"}
Final == {"FinalizeReady", "FinalizeMerged", "FinalizeClosed",
          "FinalizeNeedsHumanBudget", "FinalizeNeedsHuman"}
Ended == {"Done", "Failed"}
AslState == Working \cup Final \cup Ended \cup {"AfterRun", "Park"}

LifePc == {"idle", "remove", "send", "settoken", "parked",
           "notify", "clear", "put", "putpr", "return"}
HookPc == {"idle", "read", "clear", "send", "push"}
WorkerPc == {"idle", "running", "pushed"}

\* pr is the pr_number the document records, 0 for None
Doc == [status : Status, pr : 0..1, attempts : Nat, cost : Nat]
Event == [id : Nat, kind : EventKind]
NoEvent == [id |-> 0, kind |-> "none"]
NoDoc == [status |-> "fixing", pr |-> 0, attempts |-> 0, cost |-> 0]

Idle == [pc |-> "idle", doc |-> NoDoc, ev |-> NoEvent]
IdleHook == [pc |-> "idle", ev |-> NoEvent, tok |-> 0]

Execution == [at : AslState, attempt : Nat, token : Nat, ev : Event \cup {NoEvent},
              outcome : Outcome \cup {"none"}, retries : 0..2]
LifeRun == [pc : LifePc, doc : Doc, ev : Event \cup {NoEvent}]
HookRun == [pc : HookPc, ev : Event \cup {NoEvent}, tok : Nat]
UpdateRun == [pc : {"idle", "notify", "put", "putpr"}, doc : Doc, left : Nat]
PullRequest == [pr : {"none", "open", "merged", "closed"}, head : Nat, sent : Nat]

TypeOK ==
  /\ doc \in Doc /\ prRow \in 0..1 /\ token \in Nat /\ pending \in Seq(Event)
  /\ exec \in Execution
  /\ worker \in WorkerPc
  /\ life \in LifeRun
  /\ hook \in [Hooks -> HookRun]
  /\ gh \in PullRequest
  /\ starter \in {"put", "done"}
  /\ upd \in UpdateRun
  /\ faults \in 0..MaxFaults
  /\ accepted \subseteq Nat /\ delivered \subseteq Nat /\ refused \subseteq Nat
  /\ reports \in Nat

(* start_execution has just returned: the row is the one triage claimed (or *)
(* the one waiting for approval), and the execution is in its Fix state.    *)
Init ==
  /\ doc \in [status : {"triaged", "awaiting_approval"}, pr : {0},
              attempts : {0}, cost : {0}]
  /\ prRow = 0
  /\ token = 0
  /\ pending = <<>>
  /\ exec = [at |-> "Fix", attempt |-> 0, token |-> 0, ev |-> NoEvent,
             outcome |-> "none", retries |-> 0]
  /\ worker = "running"
  /\ life = Idle
  /\ hook = [h \in Hooks |-> IdleHook]
  /\ gh = [pr |-> "none", head |-> 0, sent |-> 0]
  /\ starter = "put"
  /\ upd = [pc |-> "idle", doc |-> NoDoc, left |-> MaxUpdates]
  /\ faults = 0
  /\ accepted = {} /\ delivered = {} /\ refused = {} /\ reports = 0

-----------------------------------------------------------------------------
(* The state machine: its Choice and Pass states are folded into the step  *)
(* that enters them, since nothing else can observe them.                  *)

Goto(at) == exec' = [exec EXCEPT !.at = at]

\* entering Park creates the task token of this visit
EnterPark == exec' = [exec EXCEPT !.at = "Park", !.token = @ + 1]

\* mutant of RouteEvent: <= instead of < in CheckBudget
RouteEventOneMore(kind) ==
  CASE kind \in {"ci_failure", "review", "comment"} ->
         IF exec.attempt <= MaxAttempts THEN "Groom" ELSE "FinalizeNeedsHumanBudget"
    [] kind = "ci_success" -> "FinalizeReady"
    [] kind = "merged"     -> "FinalizeMerged"
    [] kind = "closed"     -> "FinalizeClosed"

\* RouteEvent, CheckBudget
RouteEvent(kind) ==
  CASE kind \in {"ci_failure", "review", "comment"} ->
         IF exec.attempt < MaxAttempts THEN "Groom" ELSE "FinalizeNeedsHumanBudget"
    [] kind = "ci_success" -> "FinalizeReady"
    [] kind = "merged"     -> "FinalizeMerged"
    [] kind = "closed"     -> "FinalizeClosed"

\* send_task_success of an event on the token of the current Park visit
Resume(ev) ==
  LET next == RouteEvent(ev.kind)
  IN  /\ exec' = [exec EXCEPT !.at = next, !.ev = ev,
                              !.attempt = IF next = "Groom" THEN @ + 1 ELSE @]
      /\ worker' = IF next = "Groom" THEN "running" ELSE worker
      /\ life' = Idle
      /\ delivered' = delivered \cup {ev.id}

\* mutant of Continue: "End": true on FinalizeReady
ContinueEndsReady ==
  IF exec.at = "AfterRun" /\ exec.outcome = "pushed" THEN EnterPark ELSE Goto("Done")

\* mutant of Continue: a run that declined leaves the pull request to GitHub
ContinueDeclined ==
  CASE exec.at = "FinalizeReady" -> EnterPark
    [] exec.at = "AfterRun" /\ exec.outcome # "failed" -> EnterPark
    [] OTHER -> Goto("Done")

\* where the execution goes when the lifecycle Lambda returns
Continue ==
  CASE exec.at = "FinalizeReady" -> EnterPark
    [] exec.at = "AfterRun" /\ exec.outcome = "pushed" -> EnterPark
    [] OTHER -> Goto("Done")

-----------------------------------------------------------------------------
(* The worker (worker/main.py). It pushes to the branch before it reports,  *)
(* and goes on running when Step Functions has stopped waiting for it.      *)

Waiting == exec.at \in Working

\* the timing assumption, when the instance makes it
MayReport == PromptStart => starter = "done"

WorkerPush ==
  /\ worker = "running"
  /\ worker' = "pushed"
  /\ gh' = [gh EXCEPT !.head = @ + 1]
  /\ UNCHANGED <<store, exec, life, hook, starter, upd, faults, history>>

WorkerReport ==
  /\ MayReport
  /\ \E o \in Outcome :
       /\ worker = IF o = "pushed" THEN "pushed" ELSE "running"
       /\ exec' = IF Waiting
                  THEN [exec EXCEPT !.at = "AfterRun", !.outcome = o, !.retries = 0]
                  ELSE exec
       /\ reports' = IF Waiting THEN reports + 1 ELSE reports
  /\ worker' = "idle"
  /\ UNCHANGED <<store, life, hook, gh, starter, upd, faults, accepted, delivered, refused>>

\* any exception: send_task_failure, or RunTask itself failing
WorkerFail ==
  /\ MayReport
  /\ worker # "idle"
  /\ worker' = "idle"
  /\ IF Waiting THEN Goto("FinalizeNeedsHuman") ELSE UNCHANGED exec
  /\ UNCHANGED <<store, life, hook, gh, starter, upd, faults, history>>

\* the container is killed: no callback at all
WorkerDies ==
  /\ worker # "idle"
  /\ worker' = "idle"
  /\ UNCHANGED <<store, exec, life, hook, gh, starter, upd, faults, history>>

\* mutant of TaskTimeout: only a task that is still there times out
TaskTimeoutOfTheLiving ==
  /\ MayReport
  /\ Waiting /\ worker # "idle"
  /\ Goto("FinalizeNeedsHuman")
  /\ UNCHANGED <<store, worker, life, hook, gh, starter, upd, faults, history>>

\* TimeoutSeconds, or HeartbeatSeconds since the worker never sends one
TaskTimeout ==
  /\ MayReport
  /\ Waiting
  /\ Goto("FinalizeNeedsHuman")
  /\ UNCHANGED <<store, worker, life, hook, gh, starter, upd, faults, history>>

-----------------------------------------------------------------------------
(* IssueStore.put: the state document, then the PR item. token and pending  *)
(* stay as they are.                                                        *)

PutDoc(d) == doc' = d /\ UNCHANGED <<prRow, token, pending>>
PutPrRow(d) == prRow' = (IF d.pr = 0 THEN prRow ELSE d.pr) /\ UNCHANGED <<doc, token, pending>>

(* GitHubOutput._open_pr on a PR_OPEN document without a PR number: the PR  *)
(* is created and its number returned; or it is not created (an error, or   *)
(* GitHub refusing a second PR for the branch); or it is created and the    *)
(* label call fails, so that _notify swallows the exception and the number  *)
(* is lost. Any other document passes through unchanged. A second PR for    *)
(* the branch, after a lost one was closed, has number 1 here as well: the  *)
(* lost one is in no row.                                                   *)
Notified(d) ==
  IF d.status = "pr_open" /\ d.pr = 0
  THEN {[doc |-> d, pr |-> gh.pr]}
       \cup (IF gh.pr = "open" THEN {}
             ELSE {[doc |-> [d EXCEPT !.pr = 1], pr |-> "open"],
                   [doc |-> d, pr |-> "open"]})
  ELSE {[doc |-> d, pr |-> gh.pr]}

-----------------------------------------------------------------------------
(* The lifecycle Lambda (handlers/lifecycle.py)                             *)

\* after_run: the status an outcome leads to
OutcomeStatus ==
  CASE exec.outcome = "pushed" -> IF doc.pr = 0 THEN "pr_open" ELSE "grooming"
    [] exec.outcome = "declined" -> "rca_only"
    [] exec.outcome = "failed" -> "needs_human"

\* mutants of AfterRunDoc: the outcome taken for a status; a run counted, not
\* an attempt; the cost of the last run instead of the sum
AfterRunDocRaw ==
  [doc EXCEPT !.attempts = exec.attempt, !.cost = @ + 1, !.status = exec.outcome]
AfterRunDocCountsRuns ==
  [doc EXCEPT !.attempts = @ + 1, !.cost = @ + 1, !.status = OutcomeStatus]
AfterRunDocLastCost ==
  [doc EXCEPT !.attempts = exec.attempt, !.cost = 1, !.status = OutcomeStatus]

\* after_run: the document it will put, made from the one it read
AfterRunDoc ==
  [doc EXCEPT !.attempts = exec.attempt, !.cost = @ + 1, !.status = OutcomeStatus]

AfterRunGet ==
  /\ exec.at = "AfterRun" /\ life.pc = "idle"
  /\ life' = [life EXCEPT !.pc = "notify", !.doc = AfterRunDoc]
  /\ UNCHANGED <<store, exec, worker, hook, gh, starter, upd, faults, history>>

LifeNotify ==
  /\ life.pc = "notify"
  /\ \E n \in Notified(life.doc) :
       /\ life' = [life EXCEPT !.pc = "put", !.doc = n.doc]
       /\ gh' = [gh EXCEPT !.pr = n.pr]
  /\ UNCHANGED <<store, exec, worker, hook, starter, upd, faults, history>>

LifePut ==
  /\ life.pc = "put"
  /\ PutDoc(life.doc)
  /\ life' = [life EXCEPT !.pc = "putpr"]
  /\ UNCHANGED <<exec, worker, hook, gh, starter, upd, faults, history>>

LifePutPrRow ==
  /\ life.pc = "putpr"
  /\ PutPrRow(life.doc)
  /\ life' = [life EXCEPT !.pc = "return"]
  /\ UNCHANGED <<exec, worker, hook, gh, starter, upd, faults, history>>

\* the Lambda returns (after annotating the source) and the execution moves on
LifeReturn ==
  /\ life.pc = "return"
  /\ Continue
  /\ life' = Idle
  /\ UNCHANGED <<store, worker, hook, gh, starter, upd, faults, history>>

\* mutant of FinalStatus: needs_human written as a rationale only
FinalStatusKept ==
  CASE exec.at = "FinalizeReady"  -> "ready"
    [] exec.at = "FinalizeMerged" -> "merged"
    [] exec.at = "FinalizeClosed" -> "closed"
    [] OTHER -> doc.status

\* finalize: read the document, clear the token, notify, put
FinalStatus ==
  CASE exec.at = "FinalizeReady"  -> "ready"
    [] exec.at = "FinalizeMerged" -> "merged"
    [] exec.at = "FinalizeClosed" -> "closed"
    [] OTHER -> "needs_human"

FinalizeGet ==
  /\ exec.at \in Final /\ life.pc = "idle"
  /\ life' = [life EXCEPT !.pc = "clear", !.doc = [doc EXCEPT !.status = FinalStatus]]
  /\ UNCHANGED <<store, exec, worker, hook, gh, starter, upd, faults, history>>

\* mutant of FinalizeClear: the token of a wait that timed out stays
FinalizeClearForgotten ==
  /\ life.pc = "clear"
  /\ life' = [life EXCEPT !.pc = "put"]
  /\ UNCHANGED <<store, exec, worker, hook, gh, starter, upd, faults, history>>

FinalizeClear ==
  /\ life.pc = "clear"
  /\ token' = 0
  /\ life' = [life EXCEPT !.pc = "put"]
  /\ UNCHANGED <<doc, prRow, pending, exec, worker, hook, gh, starter, upd,
                 faults, history>>

\* park: pop_pending reads the queue ...
ParkGet ==
  /\ exec.at = "Park" /\ life.pc = "idle"
  /\ life' = IF pending = <<>>
             THEN [life EXCEPT !.pc = "settoken"]
             ELSE [life EXCEPT !.pc = "remove", !.ev = Head(pending)]
  /\ UNCHANGED <<store, exec, worker, hook, gh, starter, upd, faults, history>>

\* mutant of ParkRemove: pop_pending only peeks
ParkRemovePeeks ==
  /\ life.pc = "remove"
  /\ life' = [life EXCEPT !.pc = "send"]
  /\ UNCHANGED <<store, exec, worker, hook, gh, starter, upd, faults, history>>

\* ... and removes what is then its first element
ParkRemove ==
  /\ life.pc = "remove"
  /\ pending' = Tail(pending)
  /\ life' = [life EXCEPT !.pc = "send"]
  /\ UNCHANGED <<doc, prRow, token, exec, worker, hook, gh, starter, upd,
                 faults, history>>

ParkSend ==
  /\ life.pc = "send"
  /\ Resume(life.ev)
  /\ UNCHANGED <<store, hook, gh, starter, upd, faults, accepted, refused, reports>>

ParkSetToken ==
  /\ life.pc = "settoken"
  /\ token' = exec.token
  /\ life' = [life EXCEPT !.pc = "parked"]
  /\ UNCHANGED <<doc, prRow, pending, exec, worker, hook, gh, starter, upd,
                 faults, history>>

Parked == exec.at = "Park" /\ life.pc = "parked"

\* Park's TimeoutSeconds: 14 days without an event
ParkTimeout ==
  /\ Parked
  /\ Goto("FinalizeNeedsHuman")
  /\ life' = Idle
  /\ UNCHANGED <<store, worker, hook, gh, starter, upd, faults, history>>

(* The Lambda fails before one of its calls. Only AfterRun has a Retry     *)
(* (twice); Park catches nothing but States.Timeout and the Finalize states *)
(* catch nothing, so the execution fails.                                   *)
LifeFails ==
  /\ faults < MaxFaults
  /\ faults' = faults + 1
  /\ exec.at \in Final \cup {"AfterRun", "Park"} /\ life.pc # "parked"
  /\ life' = Idle
  /\ exec' = IF exec.at = "AfterRun" /\ exec.retries < 2
             THEN [exec EXCEPT !.retries = @ + 1]
             ELSE [exec EXCEPT !.at = "Failed"]
  /\ UNCHANGED <<store, worker, hook, gh, starter, upd, history>>

-----------------------------------------------------------------------------
(* GitHub and the hook (handlers/github_hook.py). A webhook that finds no    *)
(* tracked issue ends in its first step; the others read the token, and     *)
(* clear it and resume the execution, or queue the event.                   *)

\* _state_for_pr and get_by_branch: the issue is found and its status is
\* ACTIVE. Every put of an ACTIVE status writes the branch attribute too.
Tracked(via) == doc.status \in Active /\ (via = "pr" => prRow # 0)

\* what GitHub can report now: CI results of any commit pushed so far, by
\* branch (status) or by pull request (check_run); reviews, comments and the
\* end of an open pull request
Reportable(kind, via) ==
  IF kind \in CiKind
  THEN gh.head > 0 /\ (via = "pr" => gh.pr # "none")
  ELSE via = "pr" /\ gh.pr = "open"

Webhook(h, kind, via) ==
  LET ev == [id |-> gh.sent + 1, kind |-> kind]
  IN  /\ hook[h].pc = "idle"
      /\ gh.sent < MaxEvents
      /\ Reportable(kind, via)
      /\ gh' = [gh EXCEPT !.sent = @ + 1,
                          !.pr = IF kind \in {"merged", "closed"} THEN kind ELSE @]
      /\ IF Tracked(via)
         THEN /\ hook' = [hook EXCEPT ![h] = [@ EXCEPT !.pc = "read", !.ev = ev]]
              /\ accepted' = accepted \cup {ev.id}
         ELSE UNCHANGED <<hook, accepted>>
      /\ UNCHANGED <<store, exec, worker, life, starter, upd, faults, delivered,
                     refused, reports>>

\* resume: wait_token
HookReadToken(h) ==
  /\ hook[h].pc = "read"
  /\ hook' = [hook EXCEPT ![h] = [@ EXCEPT !.tok = token,
                                           !.pc = IF token = 0 THEN "push" ELSE "clear"]]
  /\ UNCHANGED <<store, exec, worker, life, gh, starter, upd, faults, history>>

\* resume: set_wait_token(fp, None), whatever the row holds by now
HookClear(h) ==
  /\ hook[h].pc = "clear"
  /\ token' = 0
  /\ hook' = [hook EXCEPT ![h].pc = "send"]
  /\ UNCHANGED <<doc, prRow, pending, exec, worker, life, gh, starter, upd,
                 faults, history>>

\* resume: send_task_success, which raises when the token was used already
HookSend(h) ==
  /\ hook[h].pc = "send"
  /\ hook' = [hook EXCEPT ![h] = IdleHook]
  /\ IF exec.at = "Park" /\ exec.token = hook[h].tok
     THEN Resume(hook[h].ev) /\ UNCHANGED refused
     ELSE /\ refused' = refused \cup {hook[h].ev.id}
          /\ UNCHANGED <<exec, worker, life, delivered>>
  /\ UNCHANGED <<store, gh, starter, upd, faults, accepted, reports>>

\* mutant of HookPush: SET pending_events to the new event, no list_append
HookPushReplaces(h) ==
  /\ hook[h].pc = "push"
  /\ pending' = <<hook[h].ev>>
  /\ hook' = [hook EXCEPT ![h] = IdleHook]
  /\ UNCHANGED <<doc, prRow, token, exec, worker, life, gh, starter, upd,
                 faults, history>>

\* resume: push_pending
HookPush(h) ==
  /\ hook[h].pc = "push"
  /\ pending' = Append(pending, hook[h].ev)
  /\ hook' = [hook EXCEPT ![h] = IdleHook]
  /\ UNCHANGED <<doc, prRow, token, exec, worker, life, gh, starter, upd,
                 faults, history>>

HookFails(h) ==
  /\ hook[h].pc # "idle" /\ faults < MaxFaults
  /\ faults' = faults + 1
  /\ hook' = [hook EXCEPT ![h] = IdleHook]
  /\ refused' = refused \cup {hook[h].ev.id}
  /\ UNCHANGED <<store, exec, worker, life, gh, starter, upd, accepted, delivered, reports>>

-----------------------------------------------------------------------------
(* The two other writers of the row (handlers/triage.py)                    *)

\* start_fix: its put of the FIXING document built before the execution began
StarterPut ==
  /\ starter = "put"
  /\ starter' = "done"
  /\ PutDoc([status |-> "fixing", pr |-> 0, attempts |-> 0, cost |-> 0])
  /\ UNCHANGED <<exec, worker, life, hook, gh, upd, faults, history>>

\* _handle_update: reads the document ...
UpdateGet ==
  /\ upd.pc = "idle" /\ upd.left > 0
  /\ upd' = [pc |-> "notify", doc |-> doc, left |-> upd.left - 1]
  /\ UNCHANGED <<store, exec, worker, life, hook, gh, starter, faults, history>>

\* ... shows it to the outputs, which may open the pull request ...
UpdateNotify ==
  /\ upd.pc = "notify"
  /\ \E n \in Notified(upd.doc) :
       /\ upd' = [upd EXCEPT !.pc = "put", !.doc = n.doc]
       /\ gh' = [gh EXCEPT !.pr = n.pr]
  /\ UNCHANGED <<store, exec, worker, life, hook, starter, faults, history>>

\* ... and writes the whole of it back
UpdatePut ==
  /\ upd.pc = "put"
  /\ PutDoc(upd.doc)
  /\ upd' = [upd EXCEPT !.pc = "putpr"]
  /\ UNCHANGED <<exec, worker, life, hook, gh, starter, faults, history>>

UpdatePutPrRow ==
  /\ upd.pc = "putpr"
  /\ PutPrRow(upd.doc)
  /\ upd' = [upd EXCEPT !.pc = "idle"]
  /\ UNCHANGED <<exec, worker, life, hook, gh, starter, faults, history>>

-----------------------------------------------------------------------------
(* Next-state relation and fairness *)

Worker == WorkerPush \/ WorkerReport \/ WorkerFail \/ WorkerDies \/ TaskTimeout

Life == \/ AfterRunGet \/ LifeNotify \/ LifePut \/ LifePutPrRow \/ LifeReturn
        \/ FinalizeGet \/ FinalizeClear
        \/ ParkGet \/ ParkRemove \/ ParkSend \/ ParkSetToken

GitHub == \E h \in Hooks, kind \in Kinds, via \in {"pr", "branch"} :
            Webhook(h, kind, via)

Hook(h) == HookReadToken(h) \/ HookClear(h) \/ HookSend(h) \/ HookPush(h)

Update == UpdateGet \/ UpdateNotify \/ UpdatePut \/ UpdatePutPrRow

\* nothing is left to do: the execution ended and every handler returned
Quiescent ==
  /\ exec.at \in Ended /\ worker = "idle" /\ starter = "done" /\ upd.pc = "idle"
  /\ \A h \in Hooks : hook[h].pc = "idle"

Finished == Quiescent /\ UNCHANGED vars

Next ==
  \/ Worker \/ Life \/ ParkTimeout \/ LifeFails
  \/ GitHub
  \/ \E h \in Hooks : Hook(h) \/ HookFails(h)
  \/ StarterPut \/ Update
  \/ Finished

(* Lambdas run to their end or fail, Step Functions enforces its timeouts.  *)
(* Nothing obliges a worker to push or to report, nor GitHub or the source  *)
(* to send anything.                                                        *)
Fairness ==
  /\ WF_vars(Life) /\ WF_vars(TaskTimeout) /\ WF_vars(ParkTimeout)
  /\ WF_vars(StarterPut)
  /\ WF_vars(UpdateNotify) /\ WF_vars(UpdatePut) /\ WF_vars(UpdatePutPrRow)
  /\ \A h \in Hooks : WF_vars(Hook(h))

Spec == Init /\ [][Next]_vars
FairSpec == Spec /\ Fairness

-----------------------------------------------------------------------------
(* What holds in every interleaving, with failures, stale writers and an    *)
(* unfortunate start                                                        *)

Queued == {pending[i].id : i \in DOMAIN pending}
Busy == {h \in Hooks : hook[h].pc # "idle"}
Popped == IF life.pc = "send" THEN {life.ev.id} ELSE {}

(* The attempt budget (RouteEvent, CheckBudget, BumpAttempt) bounds what    *)
(* reaches the branch: one push of the fix and one for each groom run, even *)
(* when workers outlive the execution and events are delivered late.        *)
BudgetRespected ==
  /\ exec.attempt <= MaxAttempts
  /\ gh.head <= MaxAttempts + 1

(* However hooks, pop_pending and failures interleave, an event is in at    *)
(* most one place: with one hook, once in the queue, popped by park, or     *)
(* handed to the execution. None starts two groom runs.                     *)
DeliveredOnce ==
  /\ \A i, j \in DOMAIN pending : pending[i].id = pending[j].id => i = j
  /\ \A g, h \in Busy : hook[g].ev.id = hook[h].ev.id => g = h
  /\ \A h \in Busy : hook[h].ev.id \notin Queued \cup Popped \cup delivered
  /\ Queued \cap (Popped \cup delivered) = {}
  /\ Popped \cap delivered = {}

(* The wait_token of the row is never that of an earlier visit to Park: a   *)
(* hook that finds one finds the token of the wait in progress, or of the   *)
(* one that has just timed out.                                             *)
TokenIsCurrent ==
  token # 0 => /\ token = exec.token
               /\ Parked \/ exec.at \in {"FinalizeNeedsHuman", "Failed"}

(* No event is lost in silence: until the execution gives up, an event that *)
(* a hook accepted is with the hook, queued, popped, delivered, or GitHub   *)
(* got an error for its webhook.                                            *)
EventsKept ==
  exec.at \notin Ended \cup {"FinalizeNeedsHuman"} =>
    accepted \subseteq delivered \cup refused \cup Queued \cup Popped
                        \cup {hook[h].ev.id : h \in Busy}

\* the steps that the execution can still take with what it has been given:
\* in the current call of the Lambda, up to the next wait or the end, and in
\* all with the events that are still to come
CallsLeft ==
  CASE life.pc = "idle" -> IF exec.at = "Park" THEN 3 ELSE 5
    [] life.pc \in {"notify", "clear"} -> 4
    [] life.pc = "put" -> 3
    [] life.pc \in {"putpr", "remove", "settoken"} -> 2
    [] life.pc \in {"return", "send", "parked"} -> 1

StageLeft ==
  CASE exec.at \in Ended -> 0
    [] exec.at \in Working -> 24
    [] exec.at = "AfterRun" -> 8 + 5 * (2 - exec.retries) + CallsLeft
    [] exec.at = "FinalizeReady" -> 8 + CallsLeft
    [] exec.at = "Park" -> 5 + CallsLeft
    [] exec.at \in Final \ {"FinalizeReady"} -> CallsLeft

StepsLeft == 25 * (MaxEvents - Cardinality(delivered)) + StageLeft

(* The state machine has loops (Park to FinalizeReady to Park, Park to Groom *)
(* to AfterRun to Park, the Retry of AfterRun), the queue feeds it, and the  *)
(* rest of the system writes what it reads. Still it never turns on the spot: *)
(* every step of it or of its Lambda uses up something that only an event of *)
(* GitHub can make good.                                                     *)
ExecutionAdvances ==
  [][<<exec, life>>' # <<exec, life>> => StepsLeft' < StepsLeft]_vars

(* From the moment a row is terminal, claim may give its fingerprint to a    *)
(* new execution (store.py:112): the old one neither waits nor works again,  *)
(* whichever hook, timeout, retry or late worker comes in. And it is not the *)
(* old execution that brings the row back: only the put of start_fix and     *)
(* that of an UPDATE, each of a document older than the row, ever do.        *)
TerminalIsFinal ==
  [][doc.status \in Terminal =>
       /\ exec'.at \notin Working \cup {"Park"}
       /\ doc'.status \in Terminal \/ StarterPut \/ UpdatePut]_vars

-----------------------------------------------------------------------------
(* What holds, whatever Lambda fails, when no UPDATE event arrives while    *)
(* the issue is in flight, and start_fix writes before the worker reports   *)

(* The row and the execution agree: while the execution waits for GitHub or *)
(* grooms, the row says there is a pull request in progress; when it is     *)
(* over, the row is terminal, so that claim may take the fingerprint again. *)
RowTracksExecution ==
  /\ Parked \/ exec.at = "Groom" => doc.status \in {"pr_open", "grooming", "ready"}
  /\ exec.at = "Done" => doc.status \in Terminal

(* after_run counts every attempt, and charges every run it was told of: at  *)
(* least once, once when nothing fails, and once more at most for each       *)
(* failure. One that fails between its put and its return is retried, and    *)
(* adds the cost of the run a second time.                                   *)
CountersAccurate ==
  /\ Parked => doc.attempts = exec.attempt
  /\ Parked \/ exec.at = "Done" => reports <= doc.cost /\ doc.cost <= reports + faults

(* The row, seen from outside, keeps the promise of module IssuePromise:    *)
(* one attempt for each groom run, no step back from a terminal status, no  *)
(* way into merged or closed but through a pull request.                    *)
Promise == INSTANCE IssuePromise WITH status <- doc.status, attempts <- doc.attempts
KeepsPromise == Promise!Spec

(* Module Admission knows an execution by its row only: the put of the       *)
(* invocation that started it, writes that keep the row live, one that ends  *)
(* it, after which only after_run has something left to do, or a death. This *)
(* is all that anybody can see of the execution here: as long as nobody      *)
(* claims the row again, what a Retry of after_run writes was there before.  *)
Claim == INSTANCE Admission WITH
  Fingerprints <- {"issue"}, Triagers <- {"start_fix"}, Updaters <- {}, Clickers <- {},
  Gated <- FALSE, PrsPerDay <- 0, MaxEvents <- 0, MaxFaults <- 1,
  row <- [fp \in {"issue"} |->
            [status |-> IF doc.status = "grooming" THEN "pr_open" ELSE doc.status,
             opened |-> IF starter = "done" THEN 1 ELSE 0,
             recent |-> IF doc.status = "closed" THEN 1 ELSE 0]],
  inv <- [i \in {"start_fix"} |->
            IF starter = "put"
            THEN [pc |-> "fixing", fp |-> "issue", status |-> "triaged"]
            ELSE [pc |-> "idle", fp |-> "none", status |-> "none"]],
  runs <- [fp \in {"issue"} |->
             IF doc.status \in Terminal \/ exec.at \in Ended THEN 0 ELSE 1],
  ending <- [fp \in {"issue"} |->
               IF doc.status \in Terminal /\ exec.at = "AfterRun" THEN 1 ELSE 0],
  overtaken <- [fp \in {"issue"} |-> 0], events <- 0, started <- 1,
  faults <- IF exec.at = "Failed" /\ doc.status \notin Terminal THEN 1 ELSE 0
RunsAsAdmitted ==
  [][Claim!PutFixing("start_fix") \/ Claim!Execution("issue")]_(Claim!vars)

-----------------------------------------------------------------------------
(* Liveness *)

(* A worker that hangs or dies does not hang the issue: every run is        *)
(* followed by a wait for GitHub or by the end of the execution.            *)
RunEnds == Waiting ~> (Parked \/ exec.at \in Ended)

(* GitHub falling silent is not the end of the story either: the issue      *)
(* reaches a terminal status and keeps it, unless a Lambda call that the    *)
(* state machine does not catch (issue.asl.json:84) fails the execution.    *)
Settles == <>[](doc.status \in Terminal \/ exec.at = "Failed")

-----------------------------------------------------------------------------
(* What the repository says and the code does not do                        *)

\* store.py:6: "While the execution is parked waiting for GitHub, the issue
\* row carries `wait_token`".
ParkedHasToken == Parked /\ Busy = {} => token = exec.token

\* issue.asl.json:173: "Ready for review, but keep listening: a later review
\* comment or merge still matters". A webhook for a READY issue is not dropped.
ReadyKeepsListening ==
  [][\A h \in Hooks, kind \in {"review", "comment", "merged"} :
       Webhook(h, kind, "pr") /\ doc.status = "ready" => hook'[h].pc = "read"]_vars
=============================================================================
