------------------------------ MODULE Admission ------------------------------
(***************************************************************************)
(* Who may start a fix: the triage Lambda (handlers/triage.py), the claim  *)
(* on a fingerprint (core/store.py, claim), the daily cap, the cool-down   *)
(* and the Slack approval (handlers/slack_interactions.py), for any number *)
(* of fingerprints of one repository and any number of invocations running *)
(* at the same time. An execution, once started, is reduced to what it     *)
(* writes to the row; module GroomLoop has it in full.                     *)
(*                                                                         *)
(* The model covers one day and one repository: opened_today counts the    *)
(* rows whose opened_on attribute is set.                                  *)
(***************************************************************************)
EXTENDS IssueModel, Naturals, FiniteSets

CONSTANTS
  Fingerprints,
  Triagers,     \* triage invocations for NEW / REGRESSION events
  Updaters,     \* triage invocations for RECOVERED / UPDATE events
  Clickers,     \* Slack interactions: presses of Approve or Dismiss
  Gated,        \* policy.gated
  PrsPerDay,    \* policy.prs_per_day, 0 for no cap
  MaxEvents,    \* bound: events received and buttons pressed
  MaxFaults,    \* bound: invocations and executions that die
  PromptStart   \* timing: start_fix's put precedes the end of the execution

Invocations == Triagers \cup Updaters \cup Clickers

ASSUME InvocationsAssumption ==
  Triagers \cap Clickers = {} /\ Updaters \cap (Triagers \cup Clickers) = {}
ASSUME PolicyAssumption ==
  Gated \in BOOLEAN /\ PromptStart \in BOOLEAN /\ PrsPerDay \in Nat
ASSUME BoundsAssumption == MaxEvents \in Nat /\ MaxFaults \in Nat

VARIABLES
  row,      \* the ISSUE# item of each fingerprint
  inv,      \* the invocations
  runs,     \* executions per fingerprint that have yet to end its row
  ending,   \* those that have ended it in after_run, which has yet to return
  events,   \* events and button presses so far
  faults,   \* deaths so far
  started,  \* history: executions started
  overtaken \* history: stale writes to a row and presses on one already taken

vars == <<row, inv, runs, ending, events, faults, started, overtaken>>

-----------------------------------------------------------------------------
(* Rows. status "none" is an absent item; opened is 1 when opened_on is     *)
(* set; recent is 1 while a CLOSED row is within the cool-down.             *)

Row == [status : Status \cup {"none"}, opened : 0..1, recent : 0..1]
NoRow == [status |-> "none", opened |-> 0, recent |-> 0]

Live(r) == r.status \notin Terminal \cup {"none"}
Cooling(r) == r.status = "closed" /\ r.recent = 1

\* IssueStore._item as claim writes it: the whole item is replaced
Claimed == [status |-> "triaged", opened |-> 0, recent |-> 0]

\* mutant of Put: opened_on counts writes
PutCountsWrites(r, status) ==
  [status |-> status,
   opened |-> IF status \in Started THEN r.opened + 1 ELSE r.opened,
   recent |-> IF status = "closed" THEN 1 ELSE 0]

\* IssueStore.put on row r: attributes the new item lacks keep their value
Put(r, status) ==
  [status |-> status,
   opened |-> IF status \in Started THEN 1 ELSE r.opened,
   recent |-> IF status = "closed" THEN 1 ELSE 0]

\* between its claim or its press on fp and the write or the start that ends it
WorksOn(i, fp) ==
  inv[i].fp = fp /\ inv[i].pc \in {"decide", "cap", "rca", "await", "start", "dismiss"}

\* the row of fp lets a claim or a press in, and nobody is on it
Free(fp) ==
  \/ ~Live(row[fp])
  \/ /\ row[fp].status = "awaiting_approval" /\ runs[fp] = 0
     /\ \A i \in Invocations : ~WorksOn(i, fp)

\* history only: somebody acts on a row that is another's
OvertakesIf(fp, stale) ==
  overtaken' = [overtaken EXCEPT ![fp] = IF stale THEN @ + 1 ELSE @]

OpenedToday == Cardinality({fp \in Fingerprints : row[fp].opened = 1})

-----------------------------------------------------------------------------
(* Invocations *)

Pc == {"idle", "get", "claim", "decide", "cap", "rca", "await", "start",
       "fixing", "dismiss", "update"}
Invocation == [pc : Pc, fp : Fingerprints \cup {"none"}, status : Status \cup {"none"}]
Idle == [pc |-> "idle", fp |-> "none", status |-> "none"]

TypeOK ==
  /\ row \in [Fingerprints -> Row]
  /\ inv \in [Invocations -> Invocation]
  /\ runs \in [Fingerprints -> Nat] /\ ending \in [Fingerprints -> Nat]
  /\ overtaken \in [Fingerprints -> Nat]
  /\ events \in 0..MaxEvents /\ faults \in 0..MaxFaults /\ started \in Nat

Init ==
  /\ row = [fp \in Fingerprints |-> NoRow]
  /\ inv = [i \in Invocations |-> Idle]
  /\ runs = [fp \in Fingerprints |-> 0] /\ ending = [fp \in Fingerprints |-> 0]
  /\ overtaken = [fp \in Fingerprints |-> 0]
  /\ events = 0 /\ faults = 0 /\ started = 0

At(i, pc) == inv[i].pc = pc
Step(i, pc) == inv' = [inv EXCEPT ![i].pc = pc]
Return(i) == inv' = [inv EXCEPT ![i] = Idle]
Write(fp, status) == row' = [row EXCEPT ![fp] = Put(@, status)]

-----------------------------------------------------------------------------
(* triage.process for a NEW or REGRESSION event *)

Receive(l, fp) ==
  /\ At(l, "idle") /\ events < MaxEvents
  /\ events' = events + 1
  /\ inv' = [inv EXCEPT ![l] = [pc |-> "get", fp |-> fp, status |-> "triaged"]]
  /\ UNCHANGED <<row, runs, faults, started, ending, overtaken>>

\* claim: the read, and AlreadyOpen for a live or cooling row
ClaimGet(l) ==
  /\ At(l, "get")
  /\ LET r == row[inv[l].fp]
     IN  IF Live(r) \/ Cooling(r) THEN Return(l) ELSE Step(l, "claim")
  /\ UNCHANGED <<row, runs, events, faults, started, ending, overtaken>>

\* mutant of ClaimPut: put_item without its ConditionExpression
ClaimPutAnyway(l) ==
  /\ At(l, "claim")
  /\ Step(l, "decide")
  /\ row' = [row EXCEPT ![inv[l].fp] = Claimed]
  /\ UNCHANGED <<runs, events, faults, started, ending, overtaken>>

\* claim: the conditional put, AlreadyOpen when the condition fails
ClaimPut(l) ==
  /\ At(l, "claim")
  /\ LET fp == inv[l].fp
     IN  IF Live(row[fp])
         THEN Return(l) /\ UNCHANGED row
         ELSE Step(l, "decide") /\ row' = [row EXCEPT ![fp] = Claimed]
  /\ UNCHANGED <<runs, events, faults, started, ending, overtaken>>

\* no repository for the service, or too little confidence; or go on
Decide(l) ==
  /\ At(l, "decide")
  /\ \E verdict \in {"rca", "cap"} : Step(l, verdict)
  /\ UNCHANGED <<row, runs, events, faults, started, ending, overtaken>>

\* mutants of CapCheck: > for >=; the gate forgotten
CapCheckOneMore(l) ==
  /\ At(l, "cap")
  /\ Step(l, CASE PrsPerDay # 0 /\ OpenedToday > PrsPerDay -> "rca"
               [] OTHER -> IF Gated THEN "await" ELSE "start")
  /\ UNCHANGED <<row, runs, events, faults, started, ending, overtaken>>

CapCheckUngated(l) ==
  /\ At(l, "cap")
  /\ Step(l, IF PrsPerDay # 0 /\ OpenedToday >= PrsPerDay THEN "rca" ELSE "start")
  /\ UNCHANGED <<row, runs, events, faults, started, ending, overtaken>>

\* opened_today against prs_per_day, then the gate
CapCheck(l) ==
  /\ At(l, "cap")
  /\ Step(l, CASE PrsPerDay # 0 /\ OpenedToday >= PrsPerDay -> "rca"
               [] OTHER -> IF Gated THEN "await" ELSE "start")
  /\ UNCHANGED <<row, runs, events, faults, started, ending, overtaken>>

\* mutant of RcaOnly: outputs notified, row not written
RcaOnlyUnsaved(l) ==
  /\ At(l, "rca")
  /\ Return(l)
  /\ UNCHANGED <<row, runs, events, faults, started, ending, overtaken>>

RcaOnly(l) ==
  /\ At(l, "rca")
  /\ Write(inv[l].fp, "rca_only")
  /\ Return(l)
  /\ UNCHANGED <<runs, events, faults, started, ending, overtaken>>

\* mutant of AwaitApproval: approval asked for, row not written
AwaitApprovalUnsaved(l) ==
  /\ At(l, "await")
  /\ Return(l)
  /\ UNCHANGED <<row, runs, events, faults, started, ending, overtaken>>

AwaitApproval(l) ==
  /\ At(l, "await")
  /\ Write(inv[l].fp, "awaiting_approval")
  /\ Return(l)
  /\ UNCHANGED <<runs, events, faults, started, ending, overtaken>>

-----------------------------------------------------------------------------
(* start_fix, shared by triage and the Slack approval. Execution names      *)
(* differ by the second, so that every call starts an execution.            *)

StartExecution(i) ==
  /\ At(i, "start")
  /\ runs' = [runs EXCEPT ![inv[i].fp] = @ + 1]
  /\ started' = started + 1
  /\ Step(i, "fixing")
  /\ UNCHANGED <<row, events, faults, ending, overtaken>>

PutFixing(i) ==
  /\ At(i, "fixing")
  /\ Write(inv[i].fp, "fixing")
  /\ Return(i)
  /\ UNCHANGED <<runs, events, faults, started, ending, overtaken>>

-----------------------------------------------------------------------------
(* slack_interactions.handle *)

\* mutant of Click: the status of the row is not tested
ClickAnyway(c, fp, next) ==
  /\ At(c, "idle") /\ events < MaxEvents
  /\ events' = events + 1
  /\ inv' = [inv EXCEPT ![c] = [pc |-> next, fp |-> fp, status |-> "awaiting_approval"]]
  /\ OvertakesIf(fp, ~Free(fp))
  /\ UNCHANGED <<row, runs, faults, started, ending>>

Click(c, fp, next) ==
  /\ At(c, "idle") /\ events < MaxEvents
  /\ events' = events + 1
  /\ row[fp].status = "awaiting_approval"
  /\ inv' = [inv EXCEPT ![c] = [pc |-> next, fp |-> fp, status |-> "awaiting_approval"]]
  /\ OvertakesIf(fp, ~Free(fp))
  /\ UNCHANGED <<row, runs, faults, started, ending>>

DismissPut(c) ==
  /\ At(c, "dismiss")
  /\ Write(inv[c].fp, "closed")
  /\ Return(c)
  /\ UNCHANGED <<runs, events, faults, started, ending, overtaken>>

-----------------------------------------------------------------------------
(* triage._handle_update: reads the row and writes it back                  *)

UpdateGet(u, fp) ==
  /\ At(u, "idle") /\ events < MaxEvents
  /\ events' = events + 1
  /\ row[fp] # NoRow
  /\ inv' = [inv EXCEPT ![u] = [pc |-> "update", fp |-> fp, status |-> row[fp].status]]
  /\ UNCHANGED <<row, runs, faults, started, ending, overtaken>>

UpdatePut(u) ==
  /\ At(u, "update")
  /\ Write(inv[u].fp, inv[u].status)
  /\ OvertakesIf(inv[u].fp, row[inv[u].fp].status # inv[u].status)
  /\ Return(u)
  /\ UNCHANGED <<runs, events, faults, started, ending>>

-----------------------------------------------------------------------------
(* The executions (module GroomLoop): they move the row through the live    *)
(* statuses of a pull request and end with a terminal one.                  *)

RunWrites(fp) ==
  /\ runs[fp] > 0
  /\ \E s \in {"pr_open", "ready"} : Write(fp, s)
  /\ UNCHANGED <<inv, runs, ending, events, faults, started, overtaken>>

\* the statuses in which after_run ends an issue, and those of finalize
AfterRunEnds == {"rca_only", "needs_human"}
FinalizeEnds == {"merged", "closed", "needs_human"}

RunEnds(fp) ==
  /\ runs[fp] > 0
  /\ PromptStart => \A i \in Invocations : ~(At(i, "fixing") /\ inv[i].fp = fp)
  /\ runs' = [runs EXCEPT ![fp] = @ - 1]
  /\ \/ /\ \E s \in AfterRunEnds : Write(fp, s)
        /\ ending' = [ending EXCEPT ![fp] = @ + 1]
     \/ /\ \E s \in FinalizeEnds : Write(fp, s)
        /\ UNCHANGED ending
  /\ UNCHANGED <<inv, events, faults, started, overtaken>>

\* the last invocation of after_run returns, or is not made again
RunReturns(fp) ==
  /\ ending[fp] > 0
  /\ ending' = [ending EXCEPT ![fp] = @ - 1]
  /\ UNCHANGED <<row, inv, runs, events, faults, started, overtaken>>

\* after_run failed after its put: the state machine invokes it again, and it
\* reads and writes whatever row is there by now
RunRetries(fp) ==
  /\ ending[fp] > 0 /\ faults < MaxFaults
  /\ faults' = faults + 1
  /\ \E s \in AfterRunEnds : Write(fp, s)
  /\ OvertakesIf(fp, Live(row[fp]))
  /\ UNCHANGED <<inv, runs, ending, events, started>>

\* the cool-down of a closed row runs out
CoolDownEnds(fp) ==
  /\ Cooling(row[fp])
  /\ row' = [row EXCEPT ![fp].recent = 0]
  /\ UNCHANGED <<inv, runs, ending, events, faults, started, overtaken>>

\* an invocation is killed half-way, or an execution fails without a write
Dies(i) ==
  /\ ~At(i, "idle") /\ faults < MaxFaults
  /\ faults' = faults + 1
  /\ Return(i)
  /\ UNCHANGED <<row, runs, ending, events, started, overtaken>>

RunDies(fp) ==
  /\ runs[fp] > 0 /\ faults < MaxFaults
  /\ faults' = faults + 1
  /\ runs' = [runs EXCEPT ![fp] = @ - 1]
  /\ UNCHANGED <<row, inv, ending, events, started, overtaken>>

-----------------------------------------------------------------------------
Triage(l) ==
  \/ \E fp \in Fingerprints : Receive(l, fp)
  \/ ClaimGet(l) \/ ClaimPut(l) \/ Decide(l) \/ CapCheck(l) \/ RcaOnly(l)
  \/ AwaitApproval(l) \/ StartExecution(l) \/ PutFixing(l)

Slack(c) ==
  \/ \E fp \in Fingerprints, next \in {"start", "dismiss"} : Click(c, fp, next)
  \/ DismissPut(c) \/ StartExecution(c) \/ PutFixing(c)

Update(u) == UpdatePut(u) \/ \E fp \in Fingerprints : UpdateGet(u, fp)

Execution(fp) ==
  \/ RunWrites(fp) \/ RunEnds(fp) \/ RunReturns(fp) \/ RunRetries(fp)
  \/ CoolDownEnds(fp) \/ RunDies(fp)

Next ==
  \/ \E l \in Triagers : Triage(l)
  \/ \E c \in Clickers : Slack(c)
  \/ \E u \in Updaters : Update(u)
  \/ \E i \in Invocations : Dies(i)
  \/ \E fp \in Fingerprints : Execution(fp)

Spec == Init /\ [][Next]_vars

-----------------------------------------------------------------------------
(* Properties *)

(* docs/architecture.md:44: "one execution per fingerprint".                 *)
OneExecution == \A fp \in Fingerprints : runs[fp] <= 1

(* Concurrent events, re-claims of a terminal row, approvals, dismissals,    *)
(* deaths and late writes of start_fix never leave two executions at work on *)
(* one fingerprint. Only an after_run that is retried when its row has been  *)
(* claimed again, an UPDATE that writes back a status the row has left, and  *)
(* a press on a row that somebody else is on do: each time one more.         *)
OneExecutionPerClaim == \A fp \in Fingerprints : runs[fp] <= 1 + overtaken[fp]

(* docs/architecture.md:44: "gated mode requires a Slack approval before    *)
(* any fix run". Whatever dies and whatever stale write brings a row back,  *)
(* only a reviewer's press of Approve leads to an execution.                *)
ApprovedFirst ==
  [][\A fp \in Fingerprints : runs'[fp] > runs[fp] =>
       \E c \in Clickers : At(c, "start") /\ inv[c].fp = fp]_vars

(* core/store.py:43, AlreadyOpen: "Another run owns this fingerprint right  *)
(* now". Unless its row was overtaken, a claim has one holder and its row   *)
(* turns other events away; and as long as nothing fails, the TRIAGED row   *)
(* that does so has a holder, or an execution that start_fix has yet to     *)
(* write down.                                                              *)
ClaimIsHeld ==
  \A fp \in Fingerprints :
    LET holders == {l \in Triagers : WorksOn(l, fp)}
    IN  overtaken[fp] = 0 =>
          /\ \A l, k \in holders : l = k
          /\ holders # {} => Live(row[fp])
          /\ faults = 0 /\ row[fp].status = "triaged" => holders # {} \/ runs[fp] > 0

(* policy.prs_per_day is tested before the row that counts is written. The  *)
(* rows of a day that count against it exceed it by no more than the other  *)
(* triage invocations at work and the ones that died after their start.     *)
CapOvershoot ==
  PrsPerDay # 0 => OpenedToday <= PrsPerDay + Cardinality(Triagers) - 1 + faults
=============================================================================
