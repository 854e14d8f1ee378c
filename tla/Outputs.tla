------------------------------- MODULE Outputs -------------------------------
(***************************************************************************)
(* What an issue says to people: the Slack output (outputs/slack) and the  *)
(* GitHub output (outputs/github), called one after the other by _notify   *)
(* at every transition, with HTTP calls that fail half-way. An exception   *)
(* is swallowed by _notify and takes with it what the output would have    *)
(* recorded in the state: the PR number, the thread, the page.             *)
(*                                                                         *)
(* "flow" is the sequence of triage, Slack approval and lifecycle calls of *)
(* one issue, "update" the _handle_update of an UPDATE or RECOVERED event, *)
(* which reads, notifies and writes the same row at any time. An after_run *)
(* that dies is called again by Step Functions, with the same outcome and  *)
(* the row as it is then. The issue is one that triage pages for; the      *)
(* config is that of docs/config.md, with draft pull requests. The deaths  *)
(* of the other handlers, which nobody retries in the same way, are in     *)
(* modules GroomLoop and Admission.                                        *)
(***************************************************************************)
EXTENDS IssueModel, Naturals, Sequences, FiniteSets

CONSTANTS
  Order,        \* the outputs in the order of the config
  MaxRuns,      \* worker runs: max_attempts and the fix
  MaxFailures,  \* bound: HTTP calls that fail
  MaxUpdates,   \* bound: UPDATE and RECOVERED events
  MaxDeaths     \* bound: tries of after_run that die

ASSUME OrderAssumption == Order \in {<<"github", "slack">>, <<"slack", "github">>}
ASSUME BoundsAssumption ==
  MaxRuns \in Nat \ {0} /\ MaxFailures \in Nat /\ MaxUpdates \in Nat /\ MaxDeaths \in Nat

VARIABLES
  doc,       \* the state document of the row
  inv,       \* the two invocations
  at,        \* where the flow is between its calls
  pushes,    \* worker runs that pushed
  tries,     \* calls of after_run for the latest run, 0 before the first
  done,      \* how often each of the HTTP calls in Call took effect
  told,      \* the status of the last status message in Slack
  failures,  \* HTTP calls that failed
  deaths,    \* tries of after_run that died
  updates,   \* UPDATE and RECOVERED events so far
  overlaps   \* history: the updates, by number, that were at work beside the flow

vars == <<doc, inv, at, pushes, tries, done, told, failures, deaths, updates, overlaps>>
world == <<done, told, failures, deaths>>

-----------------------------------------------------------------------------
Notifiers == {"flow", "update"}
Position == {"triage", "approval", "working", "retrying", "parked", "over"}

\* the first call of after_run and MaxAttempts of its Retry
Tries == 3

\* push stands for last_outcome.pushed_sha, 0 for none; thread is 0 for None
Doc == [status : Status, pr : 0..1, paged : BOOLEAN, thread : Nat, push : 0..MaxRuns]
Claimed == [status |-> "triaged", pr |-> 0, paged |-> FALSE, thread |-> 0, push |-> 0]

\* previous is a document, or None as the document with status "none"
NoDoc == [Claimed EXCEPT !.status = "none"]
Previous == Doc \cup {NoDoc}

Idle == [step |-> 0, st |-> Claimed, prev |-> NoDoc, goto |-> "over"]
Invocation == [step : 0..3, st : Doc, prev : Previous, goto : Position]

\* the calls that are counted; the others can only fail
Call == ({"openPr", "page", "newThread"} \X {0}) \cup ({"pushComment"} \X (1..MaxRuns))

TypeOK ==
  /\ doc \in Doc
  /\ inv \in [Notifiers -> Invocation]
  /\ at \in Position
  /\ pushes \in 0..MaxRuns /\ tries \in 0..Tries
  /\ done \in [Call -> Nat]
  /\ told \in Status
  /\ failures \in 0..MaxFailures /\ deaths \in 0..MaxDeaths /\ updates \in 0..MaxUpdates
  /\ overlaps \subseteq 1..MaxUpdates

\* claim has just written the row
Init ==
  /\ doc = Claimed
  /\ inv = [n \in Notifiers |-> Idle]
  /\ at = "triage"
  /\ pushes = 0 /\ tries = 0
  /\ done = [c \in Call |-> 0]
  /\ told = "triaged"
  /\ failures = 0 /\ deaths = 0 /\ updates = 0 /\ overlaps = {}

-----------------------------------------------------------------------------
(* GitHubOutput.on_transition: the calls it makes, in order                  *)

Opens(st) == st.status = "pr_open" /\ st.pr = 0

\* mutant of NewPush: without the comparison of the two shas
NewPushByStatus(st, prev) == st.push # 0 /\ prev.status # "grooming"

\* _new_push; previous is never None for a GROOMING state
NewPush(st, prev) == st.push # 0 /\ (st.push # prev.push \/ prev.status # "grooming")

Changed(st, prev, status) == st.status = status /\ prev.status # status

\* _after_push answers the review comment of the push, if any, and resolves
\* its thread, unless somebody has; _ready asks reviewers if the config does
GitHubCalls(st, prev) ==
  CASE Opens(st) -> {<< <<"openPr", 0>>, <<"label", 0>> >>}
    [] st.status = "grooming" /\ st.pr # 0 /\ NewPush(st, prev) ->
         {SubSeq(<< <<"pushComment", st.push>>, <<"reply", st.push>>, <<"resolve", st.push>> >>,
                 1, n) : n \in 1..3}
    [] Changed(st, prev, "ready") /\ st.pr # 0 ->
         {<< <<"markReady", 0>>, <<"readyComment", 0>> >>,
          << <<"markReady", 0>>, <<"askReviewers", 0>>, <<"readyComment", 0>> >>}
    [] Changed(st, prev, "needs_human") /\ st.pr # 0 ->
         {<< <<"humanLabel", 0>>, <<"humanComment", 0>> >>}
    [] OTHER -> {<<>>}

\* GitHub has the branch's pull request already, or _ready asserts that the
\* state has a number: the output raises before its first effect
Refused(st, prev) ==
  \/ Opens(st) /\ done[<<"openPr", 0>>] > 0
  \/ Changed(st, prev, "ready") /\ st.pr = 0

GitHubReturn(st) == [st EXCEPT !.pr = IF Opens(st) THEN 1 ELSE @]

-----------------------------------------------------------------------------
(* SlackOutput.on_transition                                                 *)

\* mutant of StatusMessage: READY announced on the way from PR_OPEN only
StatusMessageOnce(st, prev) ==
  CASE st.status = "grooming" -> TRUE
    [] st.status = "pr_open" -> prev.status # "pr_open" /\ st.pr # 0
    [] st.status = "ready" -> prev.status = "pr_open"
    [] OTHER -> st.status \notin {"triaged", prev.status}

\* a message that names the status: RCA_ONLY, AWAITING_APPROVAL, and what
\* transition_text has for the others. GROOMING is announced every time.
StatusMessage(st, prev) ==
  CASE st.status = "grooming" -> TRUE
    [] st.status = "pr_open" -> prev.status # "pr_open" /\ st.pr # 0
    [] OTHER -> st.status \notin {"triaged", prev.status}

\* transition_text: "seen again", for a status that did not change
SeenAgain(st, prev) ==
  st.status = prev.status /\ st.status \in {"pr_open", "ready", "awaiting_approval"}

\* an approval request begins a thread whether or not there is one
Message(st, prev) ==
  IF ~StatusMessage(st, prev) /\ ~SeenAgain(st, prev) THEN <<>>
  ELSE IF st.thread = 0 \/ Changed(st, prev, "awaiting_approval")
       THEN << <<"newThread", 0>> >>
       ELSE << <<"inThread", 0>> >>

SlackCalls(st, prev) ==
  (IF st.paged THEN <<>> ELSE << <<"page", 0>> >>) \o Message(st, prev)

\* mutants of SlackReturn: paged not recorded; the thread not recorded
SlackReturnUnpaged(st, prev) ==
  [st EXCEPT !.thread = IF Message(st, prev) = << <<"newThread", 0>> >>
                        THEN done[<<"newThread", 0>>] + 1 ELSE @]
SlackReturnNoThread(st, prev) == [st EXCEPT !.paged = TRUE]

\* the state on_transition returns; a thread is named by its number
SlackReturn(st, prev) ==
  [st EXCEPT !.paged = TRUE,
             !.thread = IF Message(st, prev) = << <<"newThread", 0>> >>
                        THEN done[<<"newThread", 0>>] + 1 ELSE @]

-----------------------------------------------------------------------------
(* _notify: the outputs in turn. The calls of one output are one step: the  *)
(* first k of them take effect, and when one of them fails the state stays  *)
(* as it was. A call may take effect and fail all the same.                 *)

Performed(calls, k) ==
  done' = [c \in Call |-> done[c] + IF \E i \in 1..k : calls[i] = c THEN 1 ELSE 0]

Next1(n, st) == inv' = [inv EXCEPT ![n].step = @ + 1, ![n].st = st]

Works(n, output) == inv[n].step \in DOMAIN Order /\ Order[inv[n].step] = output

GitHubNotify(n) ==
  LET st == inv[n].st
      prev == inv[n].prev
  IN  /\ Works(n, "github")
      /\ IF Refused(st, prev)
         THEN Next1(n, st) /\ UNCHANGED <<done, failures>>
         ELSE \E calls \in GitHubCalls(st, prev) :
                \/ /\ Performed(calls, Len(calls))
                   /\ Next1(n, GitHubReturn(st))
                   /\ UNCHANGED failures
                \/ /\ calls # <<>> /\ failures < MaxFailures
                   /\ failures' = failures + 1
                   /\ \E k \in 0..Len(calls) : Performed(calls, k)
                   /\ Next1(n, st)
      /\ UNCHANGED <<doc, at, pushes, tries, told, deaths, updates, overlaps>>

Told(st, prev) == told' = IF StatusMessage(st, prev) THEN st.status ELSE told

SlackNotify(n) ==
  LET st == inv[n].st
      prev == inv[n].prev
      calls == SlackCalls(st, prev)
  IN  /\ Works(n, "slack")
      /\ \/ /\ Performed(calls, Len(calls))
            /\ Told(st, prev)
            /\ Next1(n, SlackReturn(st, prev))
            /\ UNCHANGED failures
         \/ /\ calls # <<>> /\ failures < MaxFailures
            /\ failures' = failures + 1
            /\ \E k \in 0..Len(calls) :
                 /\ Performed(calls, k)
                 /\ IF k = Len(calls) THEN Told(st, prev) ELSE UNCHANGED told
            /\ Next1(n, st)
      /\ UNCHANGED <<doc, at, pushes, tries, deaths, updates, overlaps>>

\* the caller of _notify puts the state the outputs returned
Put(n) ==
  /\ inv[n].step = 3
  /\ doc' = inv[n].st
  /\ at' = IF n = "flow" THEN inv[n].goto ELSE at
  /\ inv' = [inv EXCEPT ![n] = Idle]
  /\ UNCHANGED <<pushes, tries, world, updates, overlaps>>

-----------------------------------------------------------------------------
(* The flow. Triage goes by the state it claimed and the other handlers by  *)
(* the row they read.                                                       *)

Begin(n, prev, st, goto) ==
  /\ inv[n].step = 0
  /\ inv' = [inv EXCEPT ![n] = [step |-> 1, st |-> st, prev |-> prev, goto |-> goto]]
  /\ UNCHANGED <<doc, at, world>>

\* the flow begins a call while an update is between its read and its put
FlowOverlaps ==
  overlaps' = IF inv["update"].step # 0 THEN overlaps \cup {updates} ELSE overlaps

\* _rca_only and the gate have no previous state, start_fix the claimed one
Triage ==
  /\ at = "triage"
  /\ \/ Begin("flow", NoDoc, [Claimed EXCEPT !.status = "rca_only"], "over")
     \/ Begin("flow", NoDoc, [Claimed EXCEPT !.status = "awaiting_approval"], "approval")
     \/ Begin("flow", Claimed, [Claimed EXCEPT !.status = "fixing"], "working")
  /\ UNCHANGED <<pushes, tries, updates, overlaps>>

\* slack_interactions.handle: Approve (start_fix) or Dismiss
Decided ==
  /\ at = "approval" /\ doc.status = "awaiting_approval"
  /\ \/ Begin("flow", doc, [doc EXCEPT !.status = "fixing"], "working")
     \/ Begin("flow", doc, [doc EXCEPT !.status = "closed"], "over")
  /\ FlowOverlaps
  /\ UNCHANGED <<pushes, tries, updates>>

\* what after_run makes of the row for the push with the given number
Recorded(push) ==
  [doc EXCEPT !.status = IF doc.pr = 0 THEN "pr_open" ELSE "grooming", !.push = push]

\* after_run of a run that pushed
AfterPush ==
  /\ at = "working"
  /\ pushes' = pushes + 1 /\ tries' = 1
  /\ Begin("flow", doc, Recorded(pushes + 1), "parked")
  /\ FlowOverlaps
  /\ UNCHANGED updates

\* after_run of a run that declined or failed
AfterNoPush ==
  /\ at = "working"
  /\ tries' = 1
  /\ \E status \in {"rca_only", "needs_human"} :
       Begin("flow", doc, [doc EXCEPT !.status = status], "over")
  /\ FlowOverlaps
  /\ UNCHANGED <<pushes, updates>>

\* after_run dies before, between or after its outputs, before its put or
\* after it. The third time nobody calls it again and the execution fails.
AfterRunDies ==
  /\ at \in {"working", "retrying"} /\ tries # 0
  /\ inv["flow"].step # 0 /\ deaths < MaxDeaths
  /\ deaths' = deaths + 1
  /\ doc' \in {doc} \cup {d \in {inv["flow"].st} : inv["flow"].step = 3}
  /\ at' = IF tries < Tries THEN "retrying" ELSE "over"
  /\ inv' = [inv EXCEPT !["flow"].step = 0, !["flow"].prev = NoDoc]
  /\ UNCHANGED <<pushes, tries, done, told, failures, updates, overlaps>>

\* the state of the call that died says which outcome the next one is given
Again(st) ==
  IF st.status \in {"pr_open", "grooming"} THEN Recorded(pushes)
  ELSE [doc EXCEPT !.status = st.status]

AfterRunRetried ==
  /\ at = "retrying"
  /\ tries' = tries + 1
  /\ Begin("flow", doc, Again(inv["flow"].st), inv["flow"].goto)
  /\ FlowOverlaps
  /\ UNCHANGED <<pushes, updates>>

\* finalize of a parked execution, or of one whose worker is lost
Finalize ==
  /\ \/ /\ at = "parked"
        /\ \/ Begin("flow", doc, [doc EXCEPT !.status = "ready"], "parked")
           \/ \E status \in {"merged", "closed", "needs_human"} :
                Begin("flow", doc, [doc EXCEPT !.status = status], "over")
     \/ /\ at = "working"
        /\ Begin("flow", doc, [doc EXCEPT !.status = "needs_human"], "over")
  /\ FlowOverlaps
  /\ UNCHANGED <<pushes, tries, updates>>

\* mutant of Resume: <= for <
ResumeOneMore ==
  /\ at = "parked" /\ inv["flow"].step = 0 /\ pushes <= MaxRuns
  /\ at' = "working" /\ tries' = 0
  /\ UNCHANGED <<doc, inv, pushes, world, updates, overlaps>>

\* CheckBudget lets an event start a groom run, which tells nobody
Resume ==
  /\ at = "parked" /\ inv["flow"].step = 0 /\ pushes < MaxRuns
  /\ at' = "working" /\ tries' = 0
  /\ UNCHANGED <<doc, inv, pushes, world, updates, overlaps>>

\* _handle_update: the outputs see the same state twice
HandleUpdate ==
  /\ updates < MaxUpdates
  /\ updates' = updates + 1
  /\ Begin("update", doc, doc, "over")
  /\ overlaps' = IF inv["flow"].step # 0 \/ at = "triage"
                 THEN overlaps \cup {updates + 1} ELSE overlaps
  /\ UNCHANGED <<pushes, tries>>

Next ==
  \/ Triage \/ Decided \/ AfterPush \/ AfterNoPush \/ Finalize \/ Resume
  \/ AfterRunDies \/ AfterRunRetried
  \/ HandleUpdate
  \/ \E n \in Notifiers : GitHubNotify(n) \/ SlackNotify(n) \/ Put(n)

Spec == Init /\ [][Next]_vars

-----------------------------------------------------------------------------
Count(verb) == done[<<verb, 0>>]
FlowRests == inv["flow"].step = 0
Trouble == failures + deaths + Cardinality(overlaps)
Untroubled == Trouble = 0

(* outputs/slack:74: "Page once, as early as possible." By the end of       *)
(* triage somebody was paged, and nobody is paged twice but for a failed    *)
(* call, a dead after_run or an UPDATE handled at the same time: one page   *)
(* for each.                                                                *)
PagedOnce ==
  /\ Count("page") <= 1 + Trouble
  /\ at # "triage" /\ failures = 0 => Count("page") >= 1

(* outputs/slack:1: "one thread per issue". Another one is begun only when  *)
(* the record of the first was lost, once for each such loss.               *)
OneThread ==
  /\ Count("newThread") <= 1 + Trouble
  /\ Untroubled /\ FlowRests => doc.thread = Count("newThread")

(* outputs/github:3-6. Every push is told on GitHub: the first as the pull  *)
(* request, each later one in a comment. No failed call and no UPDATE makes *)
(* a push be told in a second comment; an after_run that died may have      *)
(* commented before its put, and the Retry of issue.asl.json:72 comments    *)
(* again: one comment more for each death, and never more than its tries.   *)
PushesAnswered ==
  /\ \A p \in 1..MaxRuns :
       done[<<"pushComment", p>>] <= 1 + deaths /\ done[<<"pushComment", p>>] <= Tries
  /\ Untroubled /\ FlowRests =>
       \A p \in 1..pushes : IF p = 1 THEN Count("openPr") = 1
                                     ELSE done[<<"pushComment", p>>] = 1

(* A reader of the Slack thread knows the status: the last one told is that *)
(* of the row, when no call failed, no after_run died and no two handlers   *)
(* were at work at once. With slack before github in the config this fails  *)
(* at PR_OPEN.                                                              *)
ThreadTellsStatus == Untroubled /\ FlowRests /\ at # "triage" => told = doc.status
=============================================================================
