# A verification project for grumpycat

Grumpycat turns a production error into a draft pull request and grooms it: a triage Lambda
claims the error's fingerprint, a Step Functions execution runs a coding agent in a Fargate
task, parks until GitHub reports CI results or reviews, runs the agent again, and ends with a
terminal status. Half a dozen short-lived handlers read and write one DynamoDB row without
locks, and call GitHub and Slack in between. That is what these TLA+ modules model, what TLC
checks on small instances and TLAPS proves for every instance.

Paths below are relative to the repository; `g/` stands for `src/grumpycat/`.

## 1. The system

| Component | Source | State it keeps | Operations |
|---|---|---|---|
| issue store | `g/core/store.py`, `g/core/models.py` | per fingerprint: the `IssueState` document, `wait_token`, `pending_events`, `opened_on`; a `PR#` item per pull request | `get`, `get_by_pr`, `get_by_branch`, `claim`, `put`, `wait_token`, `set_wait_token`, `push_pending`, `pop_pending`, `opened_today` |
| triage Lambda | `g/handlers/triage.py` | none | `process`, `start_fix`, `_rca_only`, `_handle_update` |
| Slack interactions | `g/handlers/slack_interactions.py` | none | Approve, Dismiss |
| state machine | `statemachine/issue.asl.json` | its state, `attempt`, the task token | Fix, AfterRun, Park, RouteEvent, CheckBudget, Groom, Finalize* |
| lifecycle Lambda | `g/handlers/lifecycle.py` | none | `park`, `after_run`, `finalize` |
| GitHub hook | `g/handlers/github_hook.py` | none | `handle`, `resume` |
| worker | `g/worker/main.py` | a git clone; the branch `grumpycat/<id>` on the remote | `checkout`, `prepare`, engine, `commit_and_push`, `outcome_for`, callback |
| GitHub output, Slack output | `g/outputs/` | what they return in the document: `pr_number`, `slack_thread_ts`, `paged` | `on_transition` |
| router | `g/handlers/router.py` | none | verify, parse, invoke triage asynchronously |
| Datadog and Sentry inputs | `g/inputs/` | none | `parse`, `enrich` (search and dominant signature; issue and latest event) |
| scoring, fingerprints | `g/core/triage.py`, `g/core/fingerprint.py` | none | `confidence`, `severity`, `should_page`, `final_fingerprint` |
| engines | `g/engines/` | files in the worker's clone | run; `changed_paths`, `ensure_scratch`, `summarize` |
| brief | `g/core/brief.py` | none | `render_brief` |
| CI plugins | `g/ci/` | none | fetch a log |
| registry, config, secrets, digest | `g/plugins/`, `g/core/`, `g/handlers/` | none that changes | start-up, a report |

**How they interact.** Handlers share nothing but the row, the Step Functions API
(`start_execution`, `send_task_success` on a token) and GitHub itself. Every handler that
writes the document reads all of it, calls the outputs over HTTP, and puts all of it back
without a condition; only `claim` is conditional. The queue of events and the wait token are
attributes of the same row, written by separate updates.

**What is hard.** Two hooks and `park` around one token and one queue; whole documents
written back after others have changed; successive lives of one fingerprint that share a branch
name, pull requests and containers that outlive their execution; the execution starting before `start_fix` has written;
workers that outlive their heartbeat; Lambdas that die between two calls and are or are not
retried; outputs that fail half-way and lose what they learnt; caps, budgets and cool-downs
tested before the write that counts; webhooks that reach triage in any order, late or twice, and
whose first one decides. PROJECT.json lists the hazards one by one, each with its
line and with the properties that watch it.

**What makes each part correct.** Store and hook: no event is lost in silence or delivered
twice, and the token in the row can end the wait in progress. State machine and lifecycle: the
attempt budget bounds what reaches the branch, the row agrees with the execution, every run
ends and every issue settles. Triage and Slack: one execution per fingerprint, an approval
before any run in gated mode, a claim in somebody's hands, a bounded overshoot of the daily
cap. Outputs: page once, one thread, every push told once, and a thread that tells the truth.
Worker and branch: no push loses work, no life takes the branch, the pull request or the events
of another for its own, and none has more containers than attempts to pay for them. Inputs and scores: one issue per breakage, no pull request for what has no name or no fix in
code, pages for paging environments alone, nothing opened beyond the alarms raised.

## 2. The modules

* `IssueModel` has the vocabulary: statuses, the sets `Terminal`, `Started`, `Active`, kinds
  of event, outcomes.
* `GroomLoop` is one issue from `start_execution` to the end of its execution. One action per
  remote call: `HookReadToken`, `HookClear`, `HookSend`, `HookPush` are the calls of `resume`;
  `ParkGet`, `ParkRemove`, `ParkSend`, `ParkSetToken` those of `park` and `pop_pending`;
  `AfterRunGet` or `FinalizeGet` with `FinalizeClear`, then `LifeNotify`, `LifePut`,
  `LifePutPrRow`, `LifeReturn` those of `after_run` and `finalize`; `Update*` those of
  `_handle_update`; `StarterPut` the late put of `start_fix`. The program counters are `life`,
  `hook[h]`, `upd` and `starter`. `exec` is the state machine, whose Choice and Pass states are
  folded into the step that enters them (`RouteEvent`, `Resume`, `Continue`). `LifeFails` and
  `HookFails` let an invocation die before any of its calls, with the Retry of AfterRun and the
  missing Catch of the other states.
* `IssuePromise` is the abstract specification: the status and the attempts of a row as an
  observer sees them. `GroomLoop` has the refinement (`Promise`, `KeepsPromise`).
* `Admission` is many fingerprints and many concurrent invocations of triage, Slack and UPDATE
  events around `claim`, the cap, the cool-down and the gate. An execution is reduced there to
  the statuses it writes (`RunWrites`, `RunEnds`, `RunDies`), and to what `after_run` may do to
  the row after its last write: `ending` counts the executions that wait for it to return
  (`RunReturns`), and its retry writes to whatever row is there by then (`RunRetries`). The
  history `overtaken` counts, per fingerprint, who acted on a row that was another's: such a
  retry on a live row, an UPDATE that writes back a status the row has left, a press on a row
  that is not `Free` any more. No action reads it.
  `GroomLoop` has the execution in full, and a second refinement (`Claim`, `RunsAsAdmitted`): each
  of its steps is one that `Admission` allows an execution, or changes nothing it can see.
* `Lives` is one fingerprint from its first claim on: row after row, execution after execution,
  with what outlives them. `log`, `main` and `branch` are git (a commit is the set of commits in
  its history), `prs` is GitHub, `tracked` the PR# items, `runs` every
  container that was ever started. `Claim` is `process` from the read of the prior row on, with
  its three ends: rca_only, the approval gate, which leaves the brief in the row, and
  `StartFix`; `Approve` and `Dismiss` are the buttons of the gate. `Checkout`, `Push`, `ReportPush`, `ReportNothing` and `Fail` are `worker/main.py`,
  one access to the remote each, and `EngineResult` is what the two engines make of a session.
  `OpenPr`, `LosePr`, `RefusePr` and `AnswerPush` are `after_run` with the GitHub output;
  `Feedback`, `Merge`, `Close` and `HumanPush` are people and CI, whose webhooks `Deliver` hands
  to the execution or the queue.
* `IssueLives` is `IssuePromise` over successive lives; `Lives` has the refinement.
* `Outputs` is what one issue says to people. The flow of triage, approval and lifecycle calls,
  and UPDATE events beside it, notify GitHub and Slack in the order of the config. An `after_run`
  may die anywhere between its read and its return (`AfterRunDies`), and is called again with the
  row as it is then (`AfterRunRetried`), `Tries` times in all. The calls of
  one output are one step, of which the first k take effect, and an exception drops what the
  output would have recorded. `done` counts the calls that the properties speak of.
* `Alerts` is the way from a webhook to the verdict on it. `place` is the truth about the one
  Datadog monitor and the one Sentry issue that are watched; `monitor` and `issue` move as
  those services let them (`MonitorNotifies`, `SentryPosts`), and `Route` is parse and the
  asynchronous dispatch of what parse accepts. `Taken` ends an invocation of triage or leaves the
  event for one more. `TriageDatadog`, `TriageSentry` and `TriageBare` are `process` after a
  search (`Searches`: the hits in order, with the details `_normalise` strikes out), after
  Sentry's answer, and after an `enrich` that raised; each folds the signature into the
  fingerprint, claims and judges (`Open`). A row is its `standing`; `RowMoves` is what
  `GroomLoop` and `Admission` do to it afterwards. `process` is one step here, because
  `Admission` interleaves its claims.
* `MCGroomLoop`, `MCAdmission`, `MCLives`, `MCOutputs`, `MCAlerts` are the instances for TLC.
  `GroomLoopProofs` with `GroomPromiseProofs` and `GroomProgressProofs`, `AdmissionProofs` with
  `AdmissionCapProofs`, `LivesProofs`, `AlertsProofs` and `OutputsProofs` hold the proofs.

Operators introduced as mutants (`...OneMore`, `...Anyway`, `...Unsaved`, ...) are plausible
mistakes in the definition that follows them. No specification uses them; PROJECT.json names
the property that each of them breaks.

### Abstractions

* The row of `GroomLoop` is the status, the PR number (0 or 1), attempts and cost (one unit per
  run). A second pull request for the branch, possible after one whose number was lost was
  closed, has number 1 too.
* The hook's events are those of allow-listed actors; what the hook ignores ends in its first
  step. An event is its kind.
* `pr_open` as an outcome of the worker and `rca_only` as an outcome of `finalize` are left
  out: nothing in the repository sends them.
* Reads return the last write. DynamoDB's eventually consistent reads and indexes
  would add behaviours; an old read of a handler that reads the row once is the read of an
  invocation that was slow after it, which the models have wherever reads and writes are apart.
* Executions are named by fingerprint and second, so that two starts are two executions.
* The handlers of `Lives` are one action each, since `GroomLoop` interleaves their calls, and the
  row is read and written in one step. A container that is no longer awaited ends without a
  trace, unless it pushes. The default branch moves by merges only, and people commit to the
  branch while its pull request is open; both forms of merge (with the history of the branch, and
  the squash without it) are there, and the branch may be deleted at a merge or a close. The
  cool-down may always be over. The deployed commit that a fix starts from is any commit there
  is, one of an open pull request or of a deleted branch among them; `outside` records that the
  default branch lacked it. A checkout is one read of the remote; what preflight, prepare and the engine do between it and
  the push is local.
* `Admission` covers one repository and one day; the cool-down is a flag that may run out. A
  retry of `after_run` is read and write in one step, and their number is that of the faults, not
  two per execution. `Lives` has no such retry: there the next life begins after the last
  invocation of the one before.
* `Outputs` has an issue that triage pages for, an on-call channel, draft pull requests, and
  one review comment at most per push. Of its handlers only `after_run` dies, the one that is
  called again with the same outcome (the deaths of the others are in `GroomLoop` and
  `Admission`), and triage's put comes before the worker reports.
* `Alerts` takes the webhooks of one monitor and one issue that pass `verify` and the filters
  on projects and monitor ids. An error text matches `_INFRA_PATTERNS` by its wording (`Infra`)
  or by a code in it (`Codes`), which `_normalise` strikes out of Datadog's signature and value
  and Sentry's value keeps; the repository of the service and its daily cap are one choice (`room`), as is the content of
  Sentry's answer. An UPDATE or RECOVERED event changes nothing of what its rows say.

### The timing assumption PromptStart

`start_fix` puts its FIXING document after `start_execution`. With `PromptStart = TRUE` the
worker (whose sessions take minutes, docs/architecture.md:13) reports after that put; with
`FALSE` it may report before. The properties of `loop_hazards`, `admission` and
`admission_gate` hold either way. Those of `loop_promise` need it: without it TLC finds a worker that fails at once, a terminal row, and then FIXING over it for ever.

## 3. The runs

| Run | Instance | What it shows |
|---|---|---|
| `loop_hazards` | 2 hooks, 2 events, 1 attempt, 1 death, 1 UPDATE, late start allowed; 2 million states | `BudgetRespected`, `DeliveredOnce`, `EventsKept`, `TokenIsCurrent` in every interleaving, `ExecutionAdvances`: every step of the execution uses up some of what is left to do, and `TerminalIsFinal`: the execution of a terminal row neither waits nor works again, and only a stale `start_fix` or UPDATE makes the row live |
| `loop_promise` | 2 hooks, 2 events of 4 kinds, 2 attempts, 2 deaths, no UPDATE, fairness; 0.16 million states | `RowTracksExecution`, `CountersAccurate` (attempts, and each run charged once and at most once more for each failure), the refinements `KeepsPromise` and `RunsAsAdmitted`, and `RunEnds`, `Settles` |
| `lives` | 2 lives, gated or not, 1 attempt, 2 events, 1 human commit, any deployed commit, engine `claude`; 3.6 million states | `OlderPrUntouched`, `WorksAlone` (no two containers of one life at work), `LifeInBudget` (nor more than it has attempts for), `BranchGrows`, `ReportedIsPushed`, `SettledByOwnPr`, `LivesAreSeparate`, and the refinement `KeepsPromise` of `IssueLives` |
| `admission` | 3 fingerprints, 2 triages, 4 events, cap 1, 1 death or retry, no gate; 0.15 million states | `OneExecutionPerClaim`, `ClaimIsHeld`, `CapOvershoot` |
| `admission_gate` | 2 fingerprints, 2 triages, an UPDATE, 2 reviewers, 5 events, 1 death or retry, gated; 0.24 million states | `ApprovedFirst`, and `OneExecutionPerClaim`, `ClaimIsHeld` with all three ways to overtake a row |
| `alerts` | 3 webhooks, 1 redelivery, the default `dominant_share` of 0.5, searches of up to 3 hits of 2 errors (one infrastructural) with 2 details (one a code such as 503); 0.19 million states | `IssuePerBreakage` (and what a tie leaves open), `NoPrWithoutDefect`, `PagedForProduction`, `OpenedByAlarms` |
| `outputs` | 3 runs, 1 failing call, 1 UPDATE, 3 deaths of `after_run`; 1.9 million states | `PagedOnce`, `OneThread`, `PushesAnswered`, `ThreadTellsStatus` |

**Bounds.** Two hooks and two events are what a race for one token needs. One attempt reaches
the budget's boundary, two have a groom run after a groom run. One death is enough to stop any
handler at any call, two also to stop the retry of AfterRun. Two lives are what a branch, a
pull request, a queue or a container of an earlier life needs to meet a later one; of its two
events one is answered while the other is still queued, and one human commit makes a push
refused. `LivesProofs` holds for any number of each.
Three fingerprints with a cap of 1 leave room for an overshoot beyond the bound of
`CapOvershoot`. Three runs in `outputs` give two groomed pushes in a row, which is what
`_new_push` has to tell apart; three deaths use up every try of one `after_run`, or one of each
of three. Three webhooks have an alarm behind a recovery, or an event
alert behind an issue webhook and one more; three hits are the fewest with a majority that is
not everything, and two of them the fewest with a tie. `Share` and `ConfidenceMin` have the
code's defaults. Deadlock is checked in the runs of `GroomLoop`, where
`Finished` marks the states in which everything has returned; `Admission`, `Outputs` and
`Alerts` do stop, when their bounds are used up.

**Fairness** (`FairSpec`): Lambdas and hooks go on to their end (weak fairness of `Life`,
`Hook`, the puts), and Step Functions enforces its timeouts (`TaskTimeout`, `ParkTimeout`).
Nothing obliges a worker to push or report, GitHub to send anything, or a source to send
an UPDATE. The deaths of `loop_promise` are never obliged either, and `Settles` says what one of
them can do: an error in Park or a Finalize state, which have no Catch for it
(issue.asl.json:97), ends the execution and leaves the row live. `RunEnds` and `Settles` are
properties of `GroomLoop` only; the others have no fairness.

### Where the code differs from what the repository says

Each is a run in which TLC finds the quoted sentence violated.

| Run | The code | The text |
|---|---|---|
| `erased_token` | `resume` removes `wait_token` whatever it holds by then, so a slow hook removes the token of the next wait, which only the 14-day timeout can end | store.py:6 "While the execution is parked waiting for GitHub, the issue row carries `wait_token`" |
| `deaf_ready` | `ACTIVE` lacks READY, so the hook drops every event of a ready pull request | issue.asl.json:173 "keep listening: a later review comment or merge still matters" |
| `unseen_feedback` | the brief is rendered once, at the start of the execution; groom runs get the same text, the engine reads nothing else, and the comment ids of the trigger are listed as addressed | models.py:199 "Review comments this push responded to", docs/architecture.md:95 "resolve the review threads it addressed" |
| `double_approve` | the status is tested on a read, and the execution started before the put | docs/architecture.md:44 "one execution per fingerprint" |
| `silent_fatal` | an issue webhook has no environment and `enrich` returns evidence only, so `should_page` says no; the event alert behind it is a duplicate as long as the row is open | inputs/sentry:151 "enrich() fills it from the event" |

Met on the way, and not kept as runs of their own:

* RouteEvent takes any `ci_success`, of whatever commit and check, so that the first of several
  checks, or a late one, makes a head READY that nobody has tested (outputs/github:213 "CI is
  green and no review thread is open");
* an execution that ended as needs_human or rca_only leaves its pull request open; the next life
  cannot open one of its own, its row has no pull request, and the merge of the older one ends
  it (`SettledByOwnPr` fails without `exec.clean`);
* a second fix starts from the default branch or the deployed commit, and its push is refused
  wherever the branch of the first still exists and is not in the history of that commit: the
  life ends as needs_human, "worker task failed";
* a deployed commit may be one of the first's branch (a pull request that is tried on staging):
  the second fix then starts on top of it and its push goes into the first's pull request, which
  is not the row's (`OlderPrUntouched` and `ReportedIsPushed` fail without `Outside`);
* what `prepare` leaves in the working tree is a change, so that a run that declines is committed
  and gets a pull request;
* codex's result has no `is_error`, so that a crash without changes is "declined" and the issue
  rca_only (`Engine = "codex"`);
* after a life of rca_only the row has no `pr_url`, and the pull request before it is not named in
  the next brief;
* an event queued just after `park` looked waits beside the parked execution for another one
  (store.py:7 "replayed by the park Lambda"); `EventsKept` counts it as kept;
* an `after_run` that dies between its outputs and its put (lifecycle.py:68) is called again and
  reads the old row: `_new_push` is true once more and the push has two comments on GitHub and
  two messages in Slack; `PushesAnswered` bounds them by the deaths;
* the second of two hooks that read one token gets an error for its webhook (`refused`);
* a put of `start_fix` that comes after the failure of the worker overwrites its status;
* an error in Park or Finalize fails the execution, and the row stays live;
* `after_run` failing after the write that ended the row is called again five seconds later
  (issue.asl.json:72); if the fingerprint has been claimed meanwhile it ends the row of the new
  life, and the next event starts an execution beside that one (docs/architecture.md:44 "one
  execution per fingerprint"): `OneExecution` fails in `admission`, and `OneExecutionPerClaim` says
  how far it can go, there and with the two presses of `double_approve` and stale UPDATEs;
* each such UPDATE may also write back a status that counts as opened today: with one in
  `admission` and 5 events, `CapOvershoot` fails;
* in gated mode the cap is tested when an approval is asked for, and rows that wait for one do
  not count (triage.py:163): more than `prs_per_day` of them can be approved on one day, and
  `CapOvershoot` fails with `Gated = TRUE`;
* a triage that dies after `claim` leaves a TRIAGED row that turns its own retry away;
* a dismissal between the read and the conditional put of a `claim` is re-claimed without
  cool-down;
* `transition_text` tests GROOMING before "seen again", so that an UPDATE event of a grooming
  issue is posted as "pushed follow-up" (outputs/slack:152, and :168 that is never reached);
* with `slack` listed before `github`, the message of PR_OPEN is never posted
  (`ThreadTellsStatus` fails under that `Order`);
* `_handle_update` writes back the status it read before `finalize`, so that a terminal row is
  live again without an execution (models.py:230 "The single source of truth for one error.");
* a worker sends no heartbeat, is handed off after 30 minutes and may push after that
  (docs/architecture.md:13 "5–40 min", outputs/github:233 "It will not push again on this PR.");
* with the default `dominant_share` of 0.5 two errors can share the hits evenly, and the order of
  the hits decides which of them names the issue, so that a breakage that fires again may open
  a second one (inputs/datadog:22 "the same breakage re-firing is one"): `IssuePerBreakage`
  holds with its second disjunct only;
* `_normalise` (inputs/datadog:358) turns the bare numbers of a message into `#` before the
  scores read it, so that the 502, 503 and 504 of `_INFRA_PATTERNS` (core/triage.py:21) match no
  signature of a monitor: "upstream returned 503" with "nothing will retry" in the alert scores
  0.65 and gets a pull request, although core/triage.py:15 counts it among the "Signatures that
  are almost never fixed by editing application code." `NoPrWithoutDefect` speaks of the wording;
* a second delivery of an event claims an rca_only row again, or one whose execution has ended
  meanwhile; hence the `redelivered` of `OpenedByAlarms`;
* a RECOVERED event whose search finds nothing any more has the base fingerprint, misses the
  row with the digest, and is ignored (inputs/datadog, handlers/triage.py:100);
* a fatal level makes an issue CRITICAL, which pages by itself: `page_when.level_fatal: false`
  changes nothing;
* `environments` in the Sentry input rejects every issue webhook, which has none.

## 4. The proofs

`GroomLoopProofs`, from the assumptions of `GroomLoop` on its constants alone, for any number
of hooks, events, attempts, deaths and updates:

* `TypesKept`. The types are not inductive by themselves: `TypeInv` adds that the Lambda's
  program counter fits the state of the execution, that ids are those of events sent, and that
  between the two calls of `pop_pending` the head of the queue is the event it read.
* `BudgetAlwaysRespected`. The strengthening counts commits together with a worker that has
  yet to push against the groom runs started.
* `TokenAlwaysCurrent`. A token in the row is that of the wait in progress; the invariant
  follows it through `park`, `finalize` and the hooks, which can only clear it.
* `EventsDeliveredOnce`. The places an event can be in (hook, queue, popped, delivered) stay
  disjoint.
* `EventsAlwaysKept`. `KeptInv` says that only a failed execution drops an event, the one its
  `park` had popped. It needs the invariant of the token: a hook that finds a token finds one
  that still ends a wait, so that its event and a popped one never meet.
* `TerminalAlwaysFinal`. `FinalInv`: whoever holds a terminal document, the row, the Lambda
  before its put or an UPDATE, has it from an execution that is `Settling`, which no late worker,
  retry or webhook turns back (`SettlesForGood`). It needs neither `PromptStart` nor the absence
  of updates: they can make a terminal row live, and nothing else can.

`GroomPromiseProofs` goes on from there, for any number of hooks, events, attempts and failing
Lambdas, assuming `Prompt`: `PromptStart`, and no UPDATE event. The invariant `PromiseInv` has
four parts. `StartInv`: until `start_fix` has written, there is a first run and nothing else.
`RowInv`: what the row says in each state of the machine, and whether the run that has just
ended is in it yet, which a retry of AfterRun makes uncertain. `LifeInv`: what the lifecycle
Lambda is about to put. `CostInv`: what it has charged, with a fault to pay for every run that was
charged again. From it follow `RowAlwaysTracks`,
`CountersAlwaysAccurate`, and `GroomLoopKeepsPromise`: every step of `GroomLoop` is one of
`IssuePromise` or leaves `status` and `attempts` alone. `SettledForGood` is read off the abstract
specification: a terminal status stays. `ExecutionAsAdmitted` is the other refinement, from the
same invariant: only `StarterPut`, the put of the lifecycle Lambda, its return and its failure are
seen by `Admission` at all.

`GroomProgressProofs`, again from the assumptions on the constants alone, is about the loops of
the state machine. `StepsLeft` counts what is left: a full round of states and calls for each
attempt of the budget and each event still to come, in a queue or in a hook, the calls of the
state the execution is in, its retries. `SentInv` says that no more events are on their way than
were sent. `ExecutionAlwaysAdvances`: it never grows, and every step of the execution lowers it.
`EveryStageEnds` is one turn of the argument for termination, for every n: from `StepsLeft = n` the
execution gets below n or ends, if whoever is named by the guards (`LifeReady`, `TimeoutReady`,
`Parked`, `starter`) moves whenever he can (`FairGuards`).

`AdmissionProofs`, for any number of fingerprints and invocations:

* `TypeCorrect`; and `OnlyApprovalsStart`, for `Gated`: the invariant `GateShut` says that
  neither triage nor UPDATE ever stands before `start_execution`.
* `ExecutionsPerClaim`, `OneExecutionEach` and `ClaimsAreHeld`, under every policy and with every
  kind of event. `Ledger` adds up, for a fingerprint, the invocations that may yet start its
  execution or end its row (`AtWork`), its executions, and the one that a row which is `Free`
  would let in: the sum is at most one and `overtaken`. A claim and a press on a free row turn
  the free place into an invocation at work, `start_execution` turns that into an execution, and
  every end of either gives back one place at most; whatever else adds a place is counted. That
  `AtWork` is finite is part of the invariant, not an assumption. `Owned` says that a TRIAGED row
  has an owner until something fails or overtakes it. The lemmas `TriageSeen`, `SlackSeen`,
  `UpdateSeen` and `ExecutionSeen` reduce every step to what one fingerprint sees of it.
* `OneReviewerAtATime`: `Gated`, with one press on its way at a time, no UPDATE event and no
  failure. `ReviewedAt` says that a row for which a press is on its way waits and has no
  execution, and that a row that waits and has one is about to be written by who started it. This
  bounds `double_approve` from the other side: it takes two presses at once, or a failure.

`AdmissionCapProofs`, for `~Gated`, without UPDATE events, and for finite sets of fingerprints and
triages (neither of the first two can be dropped: rows approved late and rows written back both
count beyond the cap):

* `CapOvershootBounded`. `CapInv` counts what has a started row, an execution, or an invocation
  past the test of the cap: a triage passes the test only while fewer than the cap have a started
  row, the executions without one (`Orphans`, to which a fingerprint with a retry belongs for good)
  are no more than the faults, and the invocations past the test no more than there are triages.

`LivesProofs`, for any number of lives, containers, commits, pull requests and events, either
engine, gated or not. `Basics` is inductive by itself: the types with `GitInv` (the history
of a commit holds it, and the histories of its members), `RunsInv` (a container is of a life
that has begun, and its commit exists) and `WaitInv` (an execution in Fix or Groom has its
container). On it rest:

* `LivesTypes`, and `BranchAlwaysGrows` as an action property: a commit that is pushed descends
  from the head it replaces, by the rule of `PushAccepted`.
* `GateAlways`, for all that follows: `GateInv` says that a life at the approval gate has no
  container, and none without a container has an execution, so that a press of Approve starts the
  first container of its life and a dismissed one has none.
* `OlderPrsUntouched`, by `ReviewInv`: while an earlier life's pull request is open, its
  branch is not in the history of `main`, which is all that a fix of this life can start from
  unless it is `Outside`, and a groom run needs a push before it.
* `LivesSettledByOwnPr` and `LivesAlwaysSeparate`, by `CleanInv` and `IdentInv`: an event
  that settles, queued or taken, is about the row's own pull request as long as no other is
  open; and the row's pull request is the newest that is tracked, which is what `PreviousPr`
  reads.
* `ReportsArePushed`, by `ShaInv`, by which the commit of every container that pushed for a life stays on the branch while
  its pull request is open, provided that no pull request of the life was lost and none of
  another was open beside a fix from outside (`Accounted`), and the row's commit is that of one
  of them.
* `LivesWorkAlone`, by `AloneInv`: a container at work is the one its life waits for, or has
  given up to end (`WaitEnds` says where an execution goes from there), or its life is over.
* `LivesStayInBudget`: a life starts at most `MaxAttempts + 1` containers, and so pushes at
  most as many commits. `SpendInv` counts the
  containers of a life against the attempts of its execution.
* `LivesKeepPromise`, the refinement: `PromiseInv` ties the attempts of the row to those of the
  execution in every state of the machine, and each action of `Lives` is a step of `IssueLives`
  or leaves `status` and `attempts` alone.
* `OnlyAClaimReopens`, from the same invariant: a row in a terminal status is next written by
  `Claim`, whatever the life before left behind.

`AlertsProofs`, for any number of webhooks, errors, details and hits, and any scores that the
assumptions of `Alerts` allow:

* `WorseIsNeverQuieter`: more users or occurrences never lower the severity, nor lose a page.
* `AlertTypes`; `PagesOnlyForProduction`, whose invariant `EnvInv` says that an event has the
  environment of its place or none.
* `NoPrForTheUnnamed`, assuming `ConfidenceMin > 50`: an unnamed error reaches 50 at most (a
  regression whose alert says that nothing will retry, with a sample of the log), and one of a monitor
  whose normalised wording is infrastructural less. The default is 60.
* `AlarmsBoundOpenings`: `OpenInv` counts the alarms still in flight with the issues opened.
* `OneIssuePerBreakage`, for every `dominant_share`, by way of `OnlyATieIsOpen`: the signature
  that dominates is outnumbered by none, so that two lists with the same errors can only differ
  in it when two errors have as many hits, and those have half of them at most. `SearchInv` says that every pair recorded comes from some search.

`OutputsProofs`, for any number of runs, UPDATE events, failing calls and deaths of `after_run`:

* `OutputTypes`, with `Stage`, which ties the runs that pushed to where the flow stands.
* `PagesAreOnce` and `ThreadsAreOne`, in either order of the outputs. `LedgerInv` adds to the calls made
  those that may still be made: one if the document the flow goes by (`Line`) lacks the record,
  one more if an update beside the flow has a document that lacks it. The sum never exceeds one
  and the losses: a call moves one unit within the sum, and only a failure, a death or an overlap adds
  one. `PageInv` and `ThreadInv` say that the record is right while nothing has been lost.
* `PushesAreAnswered`, in either order. `CommentInv`: the comments of a push, with the one that the
  call in progress may make, are no more than its tries, and no more than one and the deaths; an
  update's push is that of its previous state, so that `_new_push` is false for it.
  `AnswerInv`: which pushes have been told at each point of a call.
* `ThreadAlwaysTells`, with `github` before `slack` (`Documented`): by the time Slack speaks of
  PR_OPEN the number of the pull request is known. With the other order TLC refutes it.

Only model-checked: liveness (`RunEnds`, `Settles`). What is proved of liveness is one turn of
the argument, `EveryStageEnds`; the two links that are missing are out of the prover's reach: that
the guards of `FairGuards`, which are written down from the actions of `FairSpec`, are their
ENABLED, and the induction over n that strings the turns together. Every other invariant and action property of the passing runs, and the three
refinements, are proved, some of them under the conditions that are named above and that their
runs meet.

## 5. Not modelled, and the plan

Left out for good: CI plugins, config, secrets, scrubbing, the digest, the wording of briefs,
comments and commits, the engines' arguments and transcripts, `classify_monitor`, and the
extraction of fields from payloads. They are pure transformations or I/O; what they decide enters
the models as a free choice (`Decide`, `Searches`, the tree a session leaves, the kind of an
event).

Done: `GroomLoop`, `IssuePromise`, `Admission`, `Outputs`, `Alerts`, `Lives`, `IssueLives`, with
the runs and the theorems above. What could still be added: a store whose reads may
be old; a clock for the cool-down; the text that the outputs and the brief make of a state.
