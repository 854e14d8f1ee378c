--------------------------- MODULE AdmissionProofs ---------------------------
(***************************************************************************)
(* Proofs about module Admission, for any number of fingerprints and       *)
(* invocations. Under every policy claims exclude each other and a         *)
(* fingerprint has one execution, and one more each time somebody acts on  *)
(* a row that is another's; with the gate, and whatever else happens, only *)
(* an approval starts one.                                                 *)
(***************************************************************************)
EXTENDS Admission, FiniteSetTheorems, TLAPS

LEMMA PutType == ASSUME NEW r \in Row, NEW s \in Status \cup {"none"} PROVE Put(r, s) \in Row
  BY DEF Put, Row

LEMMA StatusTypes == /\ Terminal \subseteq Status /\ Idle \in Invocation
                     /\ Claimed \in Row /\ NoRow \in Row
  BY DEF Terminal, Status, Idle, Invocation, Pc, Claimed, NoRow, Row

LEMMA WriteType ==
  ASSUME TypeOK, NEW fp, NEW s \in Status \cup {"none"}, Write(fp, s)
  PROVE  row' \in [Fingerprints -> Row]
<1>1. CASE fp \in Fingerprints
  <2>1. Put(row[fp], s) \in Row
    BY <1>1, PutType DEF TypeOK
  <2> QED
    BY <2>1 DEF Write, TypeOK
<1>2. CASE fp \notin Fingerprints
  BY <1>2 DEF Write, TypeOK
<1> QED
  BY <1>1, <1>2

LEMMA StepType ==
  ASSUME TypeOK, NEW i \in Invocations, NEW pc \in Pc, Step(i, pc) \/ Return(i)
  PROVE  inv' \in [Invocations -> Invocation]
  BY StatusTypes DEF TypeOK, Step, Return, Invocation

LEMMA StepFacts ==
  ASSUME TypeOK, NEW i \in Invocations, NEW pc \in Pc, Step(i, pc)
  PROVE  /\ \A k \in Invocations : k # i => inv'[k] = inv[k]
         /\ inv'[i].pc = pc /\ inv'[i].fp = inv[i].fp
  BY DEF TypeOK, Step, Invocation

LEMMA ReturnFacts ==
  ASSUME TypeOK, NEW i \in Invocations, Return(i)
  PROVE  /\ \A k \in Invocations : k # i => inv'[k] = inv[k]
         /\ inv'[i].pc = "idle" /\ inv'[i].fp = "none"
  BY DEF TypeOK, Return, Idle

LEMMA OvertakenType ==
  ASSUME TypeOK, NEW fp, NEW stale, OvertakesIf(fp, stale)
  PROVE  overtaken' \in [Fingerprints -> Nat]
<1>1. CASE fp \in Fingerprints
  BY <1>1 DEF TypeOK, OvertakesIf
<1>2. CASE fp \notin Fingerprints
  BY <1>2 DEF TypeOK, OvertakesIf
<1> QED
  BY <1>1, <1>2

LEMMA TypeStep == TypeOK /\ [Next]_vars => TypeOK'
<1> SUFFICES ASSUME TypeOK, [Next]_vars PROVE TypeOK'
  OBVIOUS
<1> USE BoundsAssumption
<1>0. Triagers \subseteq Invocations /\ Clickers \subseteq Invocations /\ Updaters \subseteq Invocations
  BY DEF Invocations
<1>1. ASSUME NEW l \in Triagers, NEW fp \in Fingerprints, Receive(l, fp) PROVE TypeOK'
  <2>1. [pc |-> "get", fp |-> fp, status |-> "triaged"] \in Invocation
    BY DEF Invocation, Pc, Status
  <2> QED
    BY <1>0, <1>1, <2>1 DEF TypeOK, Receive
<1>2. ASSUME NEW l \in Triagers, ClaimGet(l) \/ Decide(l) \/ CapCheck(l) PROVE TypeOK'
  <2>1. \E pc \in Pc : Step(l, pc) \/ Return(l)
    BY <1>2 DEF ClaimGet, Decide, CapCheck, Pc
  <2>2. inv' \in [Invocations -> Invocation]
    BY <1>0, <2>1, StepType
  <2> QED
    BY <1>2, <2>2 DEF TypeOK, ClaimGet, Decide, CapCheck
<1>3. ASSUME NEW l \in Triagers, ClaimPut(l) PROVE TypeOK'
  <2>1. inv' \in [Invocations -> Invocation]
    BY <1>0, <1>3, StepType DEF ClaimPut, Pc
  <2>2. row' \in [Fingerprints -> Row]
    BY <1>3, StatusTypes DEF ClaimPut, TypeOK
  <2> QED
    BY <1>3, <2>1, <2>2 DEF TypeOK, ClaimPut
<1>4. ASSUME NEW i \in Invocations,
             \/ RcaOnly(i) \/ AwaitApproval(i) \/ PutFixing(i) \/ DismissPut(i) \/ UpdatePut(i)
      PROVE TypeOK'
  <2>1. inv' \in [Invocations -> Invocation]
    BY <1>4, StepType DEF RcaOnly, AwaitApproval, PutFixing, DismissPut, UpdatePut, Pc
  <2>2. \E s \in Status \cup {"none"} : Write(inv[i].fp, s)
    BY <1>4 DEF RcaOnly, AwaitApproval, PutFixing, DismissPut, UpdatePut, Status, TypeOK, Invocation
  <2>3. row' \in [Fingerprints -> Row]
    BY <2>2, WriteType
  <2>4. overtaken' \in [Fingerprints -> Nat]
    <3>1. CASE UpdatePut(i)
      BY <3>1, OvertakenType DEF UpdatePut
    <3>2. CASE ~UpdatePut(i)
      BY <1>4, <3>2 DEF TypeOK, RcaOnly, AwaitApproval, PutFixing, DismissPut
    <3> QED
      BY <3>1, <3>2
  <2> QED
    BY <1>4, <2>1, <2>3, <2>4
    DEF TypeOK, RcaOnly, AwaitApproval, PutFixing, DismissPut, UpdatePut
<1>5. ASSUME NEW i \in Invocations, StartExecution(i) PROVE TypeOK'
  <2>1. inv' \in [Invocations -> Invocation]
    BY <1>5, StepType DEF StartExecution, Pc
  <2>2. runs' \in [Fingerprints -> Nat]
    <3>1. CASE inv[i].fp \in Fingerprints
      BY <1>5, <3>1 DEF StartExecution, TypeOK
    <3>2. CASE inv[i].fp \notin Fingerprints
      BY <1>5, <3>2 DEF StartExecution, TypeOK
    <3> QED
      BY <3>1, <3>2
  <2> QED
    BY <1>5, <2>1, <2>2 DEF TypeOK, StartExecution
<1>6. ASSUME NEW c \in Clickers, NEW fp \in Fingerprints, NEW next \in {"start", "dismiss"},
             Click(c, fp, next)
      PROVE TypeOK'
  <2>1. [pc |-> next, fp |-> fp, status |-> "awaiting_approval"] \in Invocation
    BY DEF Invocation, Pc, Status
  <2>2. overtaken' \in [Fingerprints -> Nat]
    BY <1>6, OvertakenType DEF Click
  <2> QED
    BY <1>0, <1>6, <2>1, <2>2 DEF TypeOK, Click
<1>7. ASSUME NEW u \in Updaters, NEW fp \in Fingerprints, UpdateGet(u, fp) PROVE TypeOK'
  <2>1. [pc |-> "update", fp |-> fp, status |-> row[fp].status] \in Invocation
    BY DEF Invocation, Pc, TypeOK, Row
  <2> QED
    BY <1>0, <1>7, <2>1 DEF TypeOK, UpdateGet
<1>8. ASSUME NEW i \in Invocations, Dies(i) PROVE TypeOK'
  <2>1. inv' \in [Invocations -> Invocation]
    BY <1>8, StepType DEF Dies, Pc
  <2> QED
    BY <1>8, <2>1 DEF TypeOK, Dies
<1>9. ASSUME NEW fp \in Fingerprints, RunWrites(fp) \/ RunEnds(fp) PROVE TypeOK'
  <2>1. \E s \in Status \cup {"none"} : Write(fp, s)
    BY <1>9, StatusTypes DEF RunWrites, RunEnds, AfterRunEnds, FinalizeEnds, Status
  <2>2. row' \in [Fingerprints -> Row]
    BY <2>1, WriteType
  <2>3. runs' \in [Fingerprints -> Nat] /\ ending' \in [Fingerprints -> Nat]
    BY <1>9 DEF RunWrites, RunEnds, TypeOK
  <2> QED
    BY <1>9, <2>2, <2>3 DEF TypeOK, RunWrites, RunEnds
<1>10. ASSUME NEW fp \in Fingerprints, CoolDownEnds(fp) \/ RunDies(fp) PROVE TypeOK'
  <2>1. row' \in [Fingerprints -> Row]
    BY <1>10 DEF CoolDownEnds, RunDies, TypeOK, Row
  <2> QED
    BY <1>10, <2>1 DEF CoolDownEnds, RunDies, TypeOK
<1>11. ASSUME NEW fp \in Fingerprints, RunReturns(fp) PROVE TypeOK'
  BY <1>11 DEF RunReturns, TypeOK
<1>12. ASSUME NEW fp \in Fingerprints, RunRetries(fp) PROVE TypeOK'
  <2>1. \E s \in Status \cup {"none"} : Write(fp, s)
    BY <1>12 DEF RunRetries, AfterRunEnds, Status
  <2>2. row' \in [Fingerprints -> Row]
    BY <2>1, WriteType
  <2>3. overtaken' \in [Fingerprints -> Nat]
    BY <1>12, OvertakenType DEF RunRetries
  <2> QED
    BY <1>12, <2>2, <2>3 DEF TypeOK, RunRetries
<1>13. CASE UNCHANGED vars
  BY <1>13 DEF vars, TypeOK
<1> QED
  BY <1>0, <1>1, <1>2, <1>3, <1>4, <1>5, <1>6, <1>7, <1>8, <1>9, <1>10, <1>11, <1>12, <1>13
  DEF Next, Triage, Slack, Update, Execution

(* Rows, invocations and executions keep their types (core/store.py,       *)
(* handlers/triage.py, handlers/slack_interactions.py).                    *)
THEOREM TypeCorrect == Spec => []TypeOK
<1>1. Init => TypeOK
  BY BoundsAssumption, StatusTypes DEF Init, TypeOK
<1> QED
  BY <1>1, TypeStep, PTL DEF Spec

-----------------------------------------------------------------------------
(* The gate *)

\* What the gate keeps shut: triage and UPDATE events never get to start_fix
GateShut == \A i \in Triagers \cup Updaters : ~At(i, "start")

(* docs/architecture.md:44: "gated mode requires a Slack approval before    *)
(* any fix run", with any number of approvals, stale writes and deaths.     *)
THEOREM OnlyApprovalsStart == ASSUME Gated PROVE Spec => ApprovedFirst
<1>1. Init => GateShut
  BY DEF Init, GateShut, At, Idle, Invocations
<1>2. TypeOK /\ GateShut /\ [Next]_vars => GateShut'
  <2> SUFFICES ASSUME TypeOK, GateShut, [Next]_vars, NEW i \in Triagers \cup Updaters
               PROVE  ~At(i, "start")'
    BY DEF GateShut
  <2>1. i \in Invocations /\ i \notin Clickers /\ ~At(i, "start")
    BY InvocationsAssumption DEF Invocations, GateShut
  <2>2. inv \in [Invocations -> Invocation]
    BY DEF TypeOK
  <2>3. CASE UNCHANGED vars
    BY <2>1, <2>3 DEF vars, At
  <2>4. ASSUME NEW l \in Triagers, Triage(l) PROVE ~At(i, "start")'
    <3>1. l \in Invocations
      BY DEF Invocations
    <3>2. CASE \E fp \in Fingerprints : Receive(l, fp)
      BY <2>1, <2>2, <3>2 DEF Receive, At
    <3>3. CASE ClaimGet(l) \/ ClaimPut(l) \/ Decide(l) \/ RcaOnly(l) \/ AwaitApproval(l)
      <4>1. Return(l) \/ \E pc \in {"claim", "decide", "rca", "cap"} : Step(l, pc)
        BY <3>3 DEF ClaimGet, ClaimPut, Decide, RcaOnly, AwaitApproval
      <4>2. CASE Return(l)
        BY <2>1, <3>1, <4>2, ReturnFacts DEF At
      <4>3. ASSUME NEW pc \in {"claim", "decide", "rca", "cap"}, Step(l, pc)
            PROVE  ~At(i, "start")'
        BY <2>1, <3>1, <4>3, StepFacts DEF At, Pc
      <4> QED
        BY <4>1, <4>2, <4>3
    <3>4. CASE CapCheck(l)
      <4>1. \E pc \in {"rca", "await"} : Step(l, pc)
        BY <3>4, Gated DEF CapCheck
      <4> QED
        BY <2>1, <2>2, <3>1, <4>1 DEF At, Step
    <3>5. CASE StartExecution(l) \/ PutFixing(l)
      BY <2>1, <2>2, <3>1, <3>5 DEF StartExecution, PutFixing, At, Step, Return, Idle
    <3> QED
      BY <2>4, <3>2, <3>3, <3>4, <3>5 DEF Triage
  <2>5. ASSUME NEW c \in Clickers, Slack(c) PROVE ~At(i, "start")'
    BY <2>1, <2>2, <2>5
    DEF Slack, Click, DismissPut, StartExecution, PutFixing, At, Step, Return, Idle, Invocations
  <2>6. ASSUME NEW u \in Updaters, Update(u) PROVE ~At(i, "start")'
    BY <2>1, <2>2, <2>6 DEF Update, UpdateGet, UpdatePut, At, Return, Idle
  <2>7. ASSUME NEW j \in Invocations, Dies(j) PROVE ~At(i, "start")'
    BY <2>1, <2>2, <2>7 DEF Dies, At, Return, Idle
  <2>8. ASSUME NEW fp \in Fingerprints, Execution(fp) PROVE ~At(i, "start")'
    BY <2>1, <2>8 DEF Execution, RunWrites, RunEnds, RunReturns, RunRetries, CoolDownEnds, RunDies, At
  <2> QED
    BY <2>3, <2>4, <2>5, <2>6, <2>7, <2>8 DEF Next
<1>3. TypeOK /\ GateShut /\ [Next]_vars =>
        [\A fp \in Fingerprints : runs'[fp] > runs[fp] =>
           \E c \in Clickers : At(c, "start") /\ inv[c].fp = fp]_vars
  <2> SUFFICES ASSUME TypeOK, GateShut, Next, NEW fp \in Fingerprints, runs'[fp] > runs[fp]
               PROVE  \E c \in Clickers : At(c, "start") /\ inv[c].fp = fp
    BY DEF vars
  <2>1. runs \in [Fingerprints -> Nat] /\ runs' # runs
    BY DEF TypeOK
  <2>2. \E i \in Invocations : StartExecution(i)
    BY <2>1
    DEF Next, Triage, Slack, Update, Execution, Receive, ClaimGet, ClaimPut, Decide, CapCheck,
        RcaOnly, AwaitApproval, PutFixing, Click, DismissPut, UpdateGet, UpdatePut, RunWrites,
        RunEnds, RunReturns, RunRetries, CoolDownEnds, RunDies, Dies, Invocations
  <2> QED
    BY <2>1, <2>2 DEF StartExecution, GateShut, At, Invocations
<1> QED
  BY <1>1, <1>2, <1>3, TypeCorrect, PTL DEF Spec, ApprovedFirst

-----------------------------------------------------------------------------
(* One execution per claim, under every policy                              *)

LEMMA Ends == AfterRunEnds \subseteq Terminal /\ FinalizeEnds \subseteq Terminal
  BY DEF AfterRunEnds, FinalizeEnds, Terminal

LEMMA Statuses ==
  ASSUME NEW r
  PROVE  /\ Live(Claimed) /\ Live(Put(r, "fixing"))
         /\ \A s \in {"pr_open", "ready"} : Live(Put(r, s))
         /\ \A s \in Terminal : ~Live(Put(r, s)) /\ s # "triaged" /\ s # "awaiting_approval"
         /\ \A s : Put(r, s).status = s
         /\ Claimed.status = "triaged"
  BY DEF Live, Claimed, Put, Terminal

LEMMA WriteFacts ==
  ASSUME TypeOK, NEW f, NEW s, Write(f, s), NEW fp \in Fingerprints
  PROVE  /\ fp # f => row'[fp] = row[fp]
         /\ fp = f => row'[fp].status = s
  BY Statuses DEF Write, TypeOK

\* overtaken only grows, and a fault is never forgotten
LEMMA OvertakenGrows ==
  ASSUME TypeOK, [Next]_vars, NEW fp \in Fingerprints
  PROVE  overtaken'[fp] >= overtaken[fp] /\ faults' >= faults
<1>0. overtaken \in [Fingerprints -> Nat] /\ overtaken[fp] \in Nat /\ faults \in Nat
  BY BoundsAssumption DEF TypeOK
<1>1. \/ overtaken' = overtaken
      \/ \E f, stale : OvertakesIf(f, stale)
  BY DEF Next, Triage, Slack, Update, Execution, Receive, ClaimGet, ClaimPut, Decide, CapCheck,
      RcaOnly, AwaitApproval, StartExecution, PutFixing, Click, DismissPut, UpdateGet,
      UpdatePut, RunWrites, RunEnds, RunReturns, RunRetries, CoolDownEnds, RunDies, Dies, vars
<1>2. faults' = faults \/ faults' = faults + 1
  BY DEF Next, Triage, Slack, Update, Execution, Receive, ClaimGet, ClaimPut, Decide, CapCheck,
      RcaOnly, AwaitApproval, StartExecution, PutFixing, Click, DismissPut, UpdateGet,
      UpdatePut, RunWrites, RunEnds, RunReturns, RunRetries, CoolDownEnds, RunDies, Dies, vars
<1>3. ASSUME NEW f, NEW stale, OvertakesIf(f, stale) PROVE overtaken'[fp] >= overtaken[fp]
  BY <1>0, <1>3 DEF OvertakesIf
<1> QED
  BY <1>0, <1>1, <1>2, <1>3

(* What a step of invocation i may do as fp sees it                         *)

Passes(i, fp) ==
  /\ row'[fp] = row[fp] /\ runs'[fp] = runs[fp]
  /\ WorksOn(i, fp)' <=> WorksOn(i, fp)

Takes(i, fp) ==
  /\ ~WorksOn(i, fp) /\ WorksOn(i, fp)'
  /\ runs'[fp] = runs[fp]

LeavesWith(i, fp, statuses) ==
  /\ WorksOn(i, fp) /\ ~WorksOn(i, fp)'
  /\ runs'[fp] = runs[fp] /\ row'[fp].status \in statuses

Starts(i, fp) ==
  /\ WorksOn(i, fp) /\ ~WorksOn(i, fp)'
  /\ row'[fp] = row[fp] /\ runs'[fp] = runs[fp] + 1

WritesOnly(i, fp, s) ==
  /\ WorksOn(i, fp)' <=> WorksOn(i, fp)
  /\ row'[fp].status = s /\ runs'[fp] = runs[fp]

LEMMA MovesBy ==
  ASSUME TypeOK, NEW i \in Invocations, Triage(i) \/ Slack(i) \/ Update(i) \/ Dies(i)
  PROVE  \A k \in Invocations : k # i => inv'[k] = inv[k]
  BY DEF Triage, Slack, Update, Receive, ClaimGet, ClaimPut, Decide, CapCheck, RcaOnly,
         AwaitApproval, StartExecution, PutFixing, Click, DismissPut, UpdateGet, UpdatePut,
         Dies, Step, Return, TypeOK

\* start_fix, in triage and behind the button alike
LEMMA StartSeen ==
  ASSUME TypeOK, NEW i \in Invocations, StartExecution(i) \/ PutFixing(i),
         NEW fp \in Fingerprints
  PROVE  /\ Passes(i, fp) \/ Starts(i, fp) \/ WritesOnly(i, fp, "fixing")
         /\ overtaken' = overtaken /\ faults' = faults
<1>0. inv \in [Invocations -> Invocation] /\ runs \in [Fingerprints -> Nat]
  BY DEF TypeOK
<1>1. CASE StartExecution(i)
  <2>1. inv[i].pc = "start" /\ inv'[i].pc = "fixing" /\ inv'[i].fp = inv[i].fp
    BY <1>1, StepFacts DEF StartExecution, At, Pc
  <2> QED
    BY <1>0, <1>1, <2>1 DEF StartExecution, Passes, Starts, WorksOn
<1>2. CASE PutFixing(i)
  <2>1. inv[i].pc = "fixing" /\ inv'[i].pc = "idle"
    BY <1>2, ReturnFacts DEF PutFixing, At
  <2>2. Write(inv[i].fp, "fixing") /\ UNCHANGED <<runs, faults, overtaken>>
    BY <1>2 DEF PutFixing
  <2> QED
    BY <2>1, <2>2, WriteFacts DEF Passes, WritesOnly, WorksOn
<1> QED
  BY <1>1, <1>2

LEMMA TriageSeen ==
  ASSUME TypeOK, NEW i \in Invocations, Triage(i), NEW fp \in Fingerprints
  PROVE  /\ \/ Passes(i, fp)
            \/ ~Live(row[fp]) /\ row'[fp] = Claimed /\ Takes(i, fp)
            \/ LeavesWith(i, fp, {"rca_only", "awaiting_approval"})
            \/ Starts(i, fp)
            \/ WritesOnly(i, fp, "fixing")
         /\ overtaken' = overtaken /\ faults' = faults
<1>0. inv \in [Invocations -> Invocation] /\ row \in [Fingerprints -> Row]
  BY DEF TypeOK
<1>1. ASSUME NEW f \in Fingerprints, Receive(i, f)
      PROVE  Passes(i, fp) /\ overtaken' = overtaken /\ faults' = faults
  BY <1>0, <1>1 DEF Receive, At, Passes, WorksOn
<1>2. CASE ClaimGet(i) \/ Decide(i) \/ CapCheck(i)
  <2>1. \/ At(i, "get") /\ (Return(i) \/ Step(i, "claim"))
        \/ At(i, "decide") /\ (Step(i, "rca") \/ Step(i, "cap"))
        \/ At(i, "cap") /\ (Step(i, "rca") \/ Step(i, "await") \/ Step(i, "start"))
    BY <1>2 DEF ClaimGet, Decide, CapCheck
  <2>2. UNCHANGED <<row, runs, overtaken, faults>>
    BY <1>2 DEF ClaimGet, Decide, CapCheck
  <2>3. WorksOn(i, fp)' <=> WorksOn(i, fp)
    BY <2>1, StepFacts, ReturnFacts DEF WorksOn, At, Pc
  <2> QED
    BY <2>2, <2>3 DEF Passes
<1>3. CASE ClaimPut(i)
  <2>1. inv[i].pc = "claim" /\ UNCHANGED <<runs, overtaken, faults>>
    BY <1>3 DEF ClaimPut, At
  <2>2. CASE Live(row[inv[i].fp])
    <3>1. inv'[i].pc = "idle" /\ row' = row
      BY <1>3, <2>2, ReturnFacts DEF ClaimPut
    <3> QED
      BY <2>1, <3>1 DEF Passes, WorksOn
  <2>3. CASE ~Live(row[inv[i].fp])
    <3>1. Step(i, "decide") /\ row' = [row EXCEPT ![inv[i].fp] = Claimed]
      BY <1>3, <2>3 DEF ClaimPut
    <3>2. inv'[i].pc = "decide" /\ inv'[i].fp = inv[i].fp
      BY <3>1, StepFacts DEF Pc
    <3> QED
      BY <1>0, <2>1, <2>3, <3>1, <3>2 DEF Passes, Takes, WorksOn
  <2> QED
    BY <2>2, <2>3
<1>4. CASE RcaOnly(i) \/ AwaitApproval(i)
  <2>1. inv[i].pc \in {"rca", "await"} /\ inv'[i].pc = "idle"
    BY <1>4, ReturnFacts DEF RcaOnly, AwaitApproval, At
  <2>2. /\ \E s \in {"rca_only", "awaiting_approval"} : Write(inv[i].fp, s)
        /\ UNCHANGED <<runs, faults, overtaken>>
    BY <1>4 DEF RcaOnly, AwaitApproval
  <2> QED
    BY <2>1, <2>2, WriteFacts DEF Passes, LeavesWith, WorksOn
<1>5. CASE StartExecution(i) \/ PutFixing(i)
  BY <1>5, StartSeen
<1> QED
  BY <1>1, <1>2, <1>3, <1>4, <1>5 DEF Triage

LEMMA SlackSeen ==
  ASSUME TypeOK, NEW c \in Clickers, Slack(c), NEW fp \in Fingerprints
  PROVE  /\ faults' = faults
         /\ \/ /\ \/ Passes(c, fp)
                  \/ LeavesWith(c, fp, {"closed"})
                  \/ Starts(c, fp)
                  \/ WritesOnly(c, fp, "fixing")
               /\ overtaken'[fp] = overtaken[fp]
            \/ /\ Takes(c, fp) /\ row' = row /\ row[fp].status = "awaiting_approval"
               /\ overtaken'[fp] = IF Free(fp) THEN overtaken[fp] ELSE overtaken[fp] + 1
<1>0. /\ c \in Invocations /\ inv \in [Invocations -> Invocation]
      /\ overtaken \in [Fingerprints -> Nat]
  BY DEF Invocations, TypeOK
<1>1. ASSUME NEW f \in Fingerprints, NEW next \in {"start", "dismiss"}, Click(c, f, next)
      PROVE  /\ faults' = faults
             /\ \/ Passes(c, fp) /\ overtaken'[fp] = overtaken[fp]
                \/ /\ Takes(c, fp) /\ row' = row /\ row[fp].status = "awaiting_approval"
                   /\ overtaken'[fp] = IF Free(fp) THEN overtaken[fp] ELSE overtaken[fp] + 1
  <2>1. /\ inv[c].pc = "idle" /\ inv'[c].pc = next /\ inv'[c].fp = f
        /\ row[f].status = "awaiting_approval" /\ UNCHANGED <<row, runs, faults>>
        /\ overtaken' = [overtaken EXCEPT ![f] = IF ~Free(f) THEN @ + 1 ELSE @]
    BY <1>0, <1>1 DEF Click, At, OvertakesIf
  <2> HIDE DEF Free
  <2>2. CASE f = fp
    BY <1>0, <2>1, <2>2 DEF Takes, WorksOn
  <2>3. CASE f # fp
    BY <1>0, <2>1, <2>3 DEF Passes, WorksOn
  <2> QED
    BY <2>2, <2>3
<1>2. CASE DismissPut(c)
  <2>1. inv[c].pc = "dismiss" /\ inv'[c].pc = "idle"
    BY <1>0, <1>2, ReturnFacts DEF DismissPut, At
  <2>2. Write(inv[c].fp, "closed") /\ UNCHANGED <<runs, faults, overtaken>>
    BY <1>2 DEF DismissPut
  <2> QED
    BY <2>1, <2>2, WriteFacts DEF Passes, LeavesWith, WorksOn
<1>3. CASE StartExecution(c) \/ PutFixing(c)
  BY <1>0, <1>3, StartSeen
<1> QED
  BY <1>1, <1>2, <1>3 DEF Slack

LEMMA UpdateSeen ==
  ASSUME TypeOK, NEW u \in Updaters, Update(u), NEW fp \in Fingerprints
  PROVE  /\ faults' = faults
         /\ \/ Passes(u, fp) /\ overtaken'[fp] = overtaken[fp]
            \/ WritesOnly(u, fp, row[fp].status) /\ overtaken'[fp] = overtaken[fp]
            \/ (\E s : WritesOnly(u, fp, s)) /\ overtaken'[fp] = overtaken[fp] + 1
<1>0. u \in Invocations /\ inv \in [Invocations -> Invocation] /\ overtaken \in [Fingerprints -> Nat]
  BY DEF Invocations, TypeOK
<1>1. ASSUME NEW f \in Fingerprints, UpdateGet(u, f)
      PROVE  Passes(u, fp) /\ overtaken'[fp] = overtaken[fp] /\ faults' = faults
  BY <1>0, <1>1 DEF UpdateGet, At, Passes, WorksOn
<1>2. CASE UpdatePut(u)
  <2>1. inv[u].pc = "update" /\ inv'[u].pc = "idle"
    BY <1>0, <1>2, ReturnFacts DEF UpdatePut, At
  <2>2. /\ Write(inv[u].fp, inv[u].status) /\ UNCHANGED <<runs, faults>>
        /\ overtaken' = [overtaken EXCEPT ![inv[u].fp] =
                           IF row[inv[u].fp].status # inv[u].status THEN @ + 1 ELSE @]
    BY <1>2 DEF UpdatePut, OvertakesIf
  <2> QED
    BY <1>0, <2>1, <2>2, WriteFacts DEF Passes, WritesOnly, WorksOn
<1> QED
  BY <1>1, <1>2 DEF Update

\* What an execution may do
LEMMA ExecutionSeen ==
  ASSUME TypeOK, NEW f \in Fingerprints, Execution(f), NEW fp \in Fingerprints
  PROVE  /\ inv' = inv
         /\ \/ /\ row'[fp].status = row[fp].status /\ runs'[fp] = runs[fp]
               /\ overtaken'[fp] = overtaken[fp]
            \/ /\ row'[fp].status \in {"pr_open", "ready"} /\ runs'[fp] = runs[fp]
               /\ overtaken'[fp] = overtaken[fp]
            \/ /\ row'[fp].status # "triaged" \/ faults' = faults + 1
               /\ runs[fp] > 0 /\ runs'[fp] = runs[fp] - 1
               /\ overtaken'[fp] = overtaken[fp]
            \/ /\ row'[fp].status \in Terminal /\ faults' = faults + 1 /\ runs'[fp] = runs[fp]
               /\ overtaken'[fp] = IF Live(row[fp]) THEN overtaken[fp] + 1 ELSE overtaken[fp]
<1>0. /\ row \in [Fingerprints -> Row] /\ runs \in [Fingerprints -> Nat]
      /\ overtaken \in [Fingerprints -> Nat]
  BY DEF TypeOK
<1>1. inv' = inv
  BY DEF Execution, RunWrites, RunEnds, RunReturns, RunRetries, CoolDownEnds, RunDies
<1>2. CASE f # fp
  <2>1. row'[fp] = row[fp] /\ runs'[fp] = runs[fp] /\ overtaken'[fp] = overtaken[fp]
    BY <1>0, <1>2 DEF Execution, RunWrites, RunEnds, RunReturns, RunRetries, CoolDownEnds,
                      RunDies, Write, OvertakesIf
  <2> QED
    BY <1>1, <2>1
<1>3. CASE f = fp /\ RunWrites(f)
  BY <1>1, <1>3, WriteFacts DEF RunWrites
<1>4. CASE f = fp /\ RunEnds(f)
  <2>1. \E s \in Terminal : Write(fp, s)
    BY <1>4, Ends DEF RunEnds
  <2>2. row'[fp].status # "triaged"
    BY <2>1, WriteFacts DEF Terminal
  <2>3. runs[fp] > 0 /\ runs'[fp] = runs[fp] - 1 /\ overtaken' = overtaken
    BY <1>0, <1>4 DEF RunEnds
  <2> QED
    BY <1>1, <2>2, <2>3
<1>5. CASE f = fp /\ RunRetries(f)
  <2>1. \E s \in Terminal : Write(fp, s)
    BY <1>5, Ends DEF RunRetries
  <2>2. row'[fp].status \in Terminal
    BY <2>1, WriteFacts
  <2> QED
    BY <1>0, <1>1, <1>5, <2>2 DEF RunRetries, OvertakesIf
<1>6. CASE f = fp /\ (RunReturns(f) \/ CoolDownEnds(f))
  <2>1. row'[fp].status = row[fp].status
    BY <1>0, <1>6 DEF RunReturns, CoolDownEnds, Row
  <2> QED
    BY <1>1, <1>6, <2>1 DEF RunReturns, CoolDownEnds
<1>7. CASE f = fp /\ RunDies(f)
  BY <1>0, <1>1, <1>7 DEF RunDies
<1> QED
  BY <1>2, <1>3, <1>4, <1>5, <1>6, <1>7 DEF Execution

-----------------------------------------------------------------------------
(* The ledger of a fingerprint: whoever may yet start an execution, those   *)
(* at work, and the one that a free row would let in. All but one of them   *)
(* come from somebody who acted on a row that was another's.                *)

AtWork(fp) == {i \in Invocations : WorksOn(i, fp)}
Claimants(fp) == Cardinality(AtWork(fp)) + runs[fp] + (IF Free(fp) THEN 1 ELSE 0)
Ledger(fp) == IsFiniteSet(AtWork(fp)) /\ Claimants(fp) <= 1 + overtaken[fp]

\* A triaged row is in somebody's hands
Owned(fp) ==
  overtaken[fp] = 0 /\ faults = 0 /\ row[fp].status = "triaged" =>
    (\E l \in Triagers : WorksOn(l, fp)) \/ runs[fp] > 0

ClaimInv == \A fp \in Fingerprints : Ledger(fp) /\ Owned(fp)

\* How many are at work after a step of one of them
LEMMA WorkCounts ==
  ASSUME NEW i \in Invocations, NEW fp, IsFiniteSet(AtWork(fp)),
         \A k \in Invocations : k # i => inv'[k] = inv[k]
  PROVE  /\ IsFiniteSet(AtWork(fp)')
         /\ Cardinality(AtWork(fp)) \in Nat /\ Cardinality(AtWork(fp)') \in Nat
         /\ (WorksOn(i, fp)' <=> WorksOn(i, fp)) => AtWork(fp)' = AtWork(fp)
         /\ WorksOn(i, fp)' /\ ~WorksOn(i, fp) =>
              Cardinality(AtWork(fp)') = Cardinality(AtWork(fp)) + 1
         /\ ~WorksOn(i, fp)' /\ WorksOn(i, fp) =>
              Cardinality(AtWork(fp)') = Cardinality(AtWork(fp)) - 1
<1>0. \A k \in Invocations : k # i => (WorksOn(k, fp)' <=> WorksOn(k, fp))
  BY DEF WorksOn
<1>1. IsFiniteSet(AtWork(fp)')
  <2>1. AtWork(fp)' \subseteq AtWork(fp) \cup {i}
    BY <1>0 DEF AtWork
  <2>2. IsFiniteSet(AtWork(fp) \cup {i})
    BY FS_AddElement
  <2> QED
    BY <2>1, <2>2, FS_Subset
<1>2. Cardinality(AtWork(fp)) \in Nat /\ Cardinality(AtWork(fp)') \in Nat
  BY <1>1, FS_CardinalityType
<1>3. ASSUME WorksOn(i, fp)' <=> WorksOn(i, fp) PROVE AtWork(fp)' = AtWork(fp)
  BY <1>0, <1>3 DEF AtWork
<1>4. ASSUME WorksOn(i, fp)', ~WorksOn(i, fp)
      PROVE  Cardinality(AtWork(fp)') = Cardinality(AtWork(fp)) + 1
  <2>1. AtWork(fp)' = AtWork(fp) \cup {i} /\ i \notin AtWork(fp)
    BY <1>0, <1>4 DEF AtWork
  <2> QED
    BY <2>1, FS_AddElement
<1>5. ASSUME ~WorksOn(i, fp)', WorksOn(i, fp)
      PROVE  Cardinality(AtWork(fp)') = Cardinality(AtWork(fp)) - 1
  <2>1. AtWork(fp) = AtWork(fp)' \cup {i} /\ i \notin AtWork(fp)'
    BY <1>0, <1>5 DEF AtWork
  <2>2. Cardinality(AtWork(fp)) = Cardinality(AtWork(fp)') + 1
    BY <1>1, <2>1, FS_AddElement
  <2> QED
    BY <1>2, <2>2
<1> QED
  BY <1>1, <1>2, <1>3, <1>4, <1>5

LEMMA NotFree ==
  ASSUME NEW fp
  PROVE  /\ row[fp].status \in {"triaged", "fixing", "pr_open", "ready"} => ~Free(fp)
         /\ row[fp].status = "awaiting_approval" /\ (runs[fp] # 0 \/ AtWork(fp) # {}) => ~Free(fp)
         /\ row[fp].status \in Terminal => Free(fp)
  BY DEF Free, Live, Terminal, AtWork

\* Whether a row is free depends on its status and on who is on it
LEMMA FreeKept ==
  ASSUME NEW fp, row'[fp].status = row[fp].status, runs'[fp] = runs[fp],
         AtWork(fp)' = AtWork(fp)
  PROVE  Free(fp)' <=> Free(fp)
  BY DEF Free, Live, AtWork

\* The ledger after the steps of an invocation
LEMMA LedgerInvocation ==
  ASSUME TypeOK, TypeOK', NEW i \in Invocations, NEW fp \in Fingerprints, Ledger(fp),
         \A k \in Invocations : k # i => inv'[k] = inv[k],
         \/ /\ \/ Passes(i, fp)
               \/ ~Live(row[fp]) /\ row'[fp] = Claimed /\ Takes(i, fp)
               \/ \E statuses : LeavesWith(i, fp, statuses)
               \/ Starts(i, fp)
               \/ WritesOnly(i, fp, "fixing")
               \/ WritesOnly(i, fp, row[fp].status)
            /\ overtaken'[fp] = overtaken[fp]
         \/ (\E s : WritesOnly(i, fp, s)) /\ overtaken'[fp] = overtaken[fp] + 1
         \/ /\ Takes(i, fp) /\ row' = row /\ row[fp].status = "awaiting_approval"
            /\ overtaken'[fp] = IF Free(fp) THEN overtaken[fp] ELSE overtaken[fp] + 1
  PROVE  Ledger(fp)'
<1> DEFINE n == Cardinality(AtWork(fp))
           m == Cardinality(AtWork(fp)')
<1>0. /\ runs[fp] \in Nat /\ runs'[fp] \in Nat
      /\ overtaken[fp] \in Nat /\ overtaken'[fp] \in Nat
  BY DEF TypeOK
<1>1. /\ IsFiniteSet(AtWork(fp)') /\ n \in Nat /\ m \in Nat
      /\ (WorksOn(i, fp)' <=> WorksOn(i, fp)) => AtWork(fp)' = AtWork(fp)
      /\ WorksOn(i, fp)' /\ ~WorksOn(i, fp) => m = n + 1
      /\ ~WorksOn(i, fp)' /\ WorksOn(i, fp) => m = n - 1
  BY WorkCounts DEF Ledger
<1>2. n + runs[fp] + (IF Free(fp) THEN 1 ELSE 0) <= 1 + overtaken[fp]
  BY DEF Ledger, Claimants
<1> DEFINE Goal == m + runs'[fp] + (IF Free(fp)' THEN 1 ELSE 0) <= 1 + overtaken'[fp]
<1>3. SUFFICES Goal
  BY <1>1 DEF Ledger, Claimants
<1> HIDE DEF n, m
<1>4. CASE (Passes(i, fp) \/ WritesOnly(i, fp, row[fp].status)) /\ overtaken'[fp] = overtaken[fp]
  <2>1. row'[fp].status = row[fp].status /\ runs'[fp] = runs[fp] /\ AtWork(fp)' = AtWork(fp)
    BY <1>1, <1>4 DEF Passes, WritesOnly
  <2> QED
    BY <1>0, <1>1, <1>2, <1>4, <2>1, FreeKept DEF n, m
<1>5. CASE /\ ~Live(row[fp]) /\ row'[fp] = Claimed /\ Takes(i, fp)
           /\ overtaken'[fp] = overtaken[fp]
  <2>1. Free(fp) /\ ~Free(fp)'
    BY <1>5 DEF Free, Claimed, Live, Terminal
  <2> QED
    BY <1>0, <1>1, <1>2, <1>5, <2>1 DEF Takes
<1>6. CASE (\E statuses : LeavesWith(i, fp, statuses)) /\ overtaken'[fp] = overtaken[fp]
  BY <1>0, <1>1, <1>2, <1>6 DEF LeavesWith
<1>7. CASE Starts(i, fp) /\ overtaken'[fp] = overtaken[fp]
  <2>1. Free(fp)' => Free(fp)
    BY <1>0, <1>7 DEF Starts, Free, Live
  <2> QED
    BY <1>0, <1>1, <1>2, <1>7, <2>1 DEF Starts
<1>8. CASE WritesOnly(i, fp, "fixing") /\ overtaken'[fp] = overtaken[fp]
  <2>1. AtWork(fp)' = AtWork(fp) /\ runs'[fp] = runs[fp] /\ ~Free(fp)'
    BY <1>1, <1>8 DEF WritesOnly, Free, Live, Terminal
  <2> QED
    BY <1>0, <1>1, <1>2, <1>8, <2>1 DEF n, m
<1>9. CASE (\E s : WritesOnly(i, fp, s)) /\ overtaken'[fp] = overtaken[fp] + 1
  <2>1. AtWork(fp)' = AtWork(fp) /\ runs'[fp] = runs[fp]
    BY <1>1, <1>9 DEF WritesOnly
  <2> QED
    BY <1>0, <1>1, <1>2, <1>9, <2>1 DEF n, m
<1>10. CASE /\ Takes(i, fp) /\ row' = row /\ row[fp].status = "awaiting_approval"
            /\ overtaken'[fp] = IF Free(fp) THEN overtaken[fp] ELSE overtaken[fp] + 1
  <2>1. ~Free(fp)'
    BY <1>10 DEF Takes, Free, Live, Terminal
  <2> QED
    BY <1>0, <1>1, <1>2, <1>10, <2>1 DEF Takes
<1> QED
  BY <1>4, <1>5, <1>6, <1>7, <1>8, <1>9, <1>10

LEMMA LedgerExecution ==
  ASSUME TypeOK, NEW f \in Fingerprints, Execution(f), NEW fp \in Fingerprints, Ledger(fp)
  PROVE  Ledger(fp)'
<1>0. runs[fp] \in Nat /\ overtaken[fp] \in Nat /\ Cardinality(AtWork(fp)) \in Nat
  BY FS_CardinalityType DEF TypeOK, Ledger
<1>1. inv' = inv
  BY ExecutionSeen
<1>2. AtWork(fp)' = AtWork(fp)
  BY <1>1 DEF AtWork, WorksOn
<1> DEFINE n == Cardinality(AtWork(fp))
<1>3. n + runs[fp] + (IF Free(fp) THEN 1 ELSE 0) <= 1 + overtaken[fp]
  BY DEF Ledger, Claimants
<1>4. SUFFICES n + runs'[fp] + (IF Free(fp)' THEN 1 ELSE 0) <= 1 + overtaken'[fp]
  BY <1>2 DEF Ledger, Claimants
<1> HIDE DEF n
<1>5. CASE /\ row'[fp].status = row[fp].status /\ runs'[fp] = runs[fp]
           /\ overtaken'[fp] = overtaken[fp]
  BY <1>2, <1>3, <1>5, FreeKept
<1>6. CASE /\ row'[fp].status \in {"pr_open", "ready"} /\ runs'[fp] = runs[fp]
           /\ overtaken'[fp] = overtaken[fp]
  <2>1. ~Free(fp)'
    BY <1>6 DEF Free, Live, Terminal
  <2> QED
    BY <1>0, <1>3, <1>6, <2>1 DEF n
<1>7. CASE runs[fp] > 0 /\ runs'[fp] = runs[fp] - 1 /\ overtaken'[fp] = overtaken[fp]
  BY <1>0, <1>3, <1>7 DEF n
<1>8. CASE /\ row'[fp].status \in Terminal /\ runs'[fp] = runs[fp]
           /\ overtaken'[fp] = IF Live(row[fp]) THEN overtaken[fp] + 1 ELSE overtaken[fp]
  <2>1. ~Live(row[fp]) => Free(fp)
    BY DEF Free
  <2> QED
    BY <1>0, <1>3, <1>8, <2>1 DEF n
<1> QED
  BY <1>5, <1>6, <1>7, <1>8, ExecutionSeen

LEMMA LedgerStep ==
  ASSUME TypeOK, TypeOK', [Next]_vars, NEW fp \in Fingerprints, Ledger(fp)
  PROVE  Ledger(fp)'
<1>0. Triagers \subseteq Invocations /\ Clickers \subseteq Invocations /\ Updaters \subseteq Invocations
  BY DEF Invocations
<1>1. ASSUME NEW l \in Triagers, Triage(l) PROVE Ledger(fp)'
  BY <1>0, <1>1, MovesBy, TriageSeen, LedgerInvocation
<1>2. ASSUME NEW c \in Clickers, Slack(c) PROVE Ledger(fp)'
  BY <1>0, <1>2, MovesBy, SlackSeen, LedgerInvocation
<1>3. ASSUME NEW u \in Updaters, Update(u) PROVE Ledger(fp)'
  BY <1>0, <1>3, MovesBy, UpdateSeen, LedgerInvocation
<1>4. ASSUME NEW i \in Invocations, Dies(i) PROVE Ledger(fp)'
  <2>1. ~WorksOn(i, fp)' /\ UNCHANGED <<row, runs, overtaken>>
    BY <1>4, ReturnFacts DEF Dies, WorksOn
  <2>2. Passes(i, fp) \/ LeavesWith(i, fp, {row[fp].status})
    BY <2>1 DEF Passes, LeavesWith
  <2> QED
    BY <1>4, <2>1, <2>2, MovesBy, LedgerInvocation
<1>5. ASSUME NEW f \in Fingerprints, Execution(f) PROVE Ledger(fp)'
  BY <1>5, LedgerExecution
<1>6. CASE UNCHANGED vars
  BY <1>6 DEF vars, Ledger, Claimants, AtWork, Free, WorksOn, Live
<1> QED
  BY <1>1, <1>2, <1>3, <1>4, <1>5, <1>6 DEF Next

LEMMA OwnedStep ==
  ASSUME TypeOK, [Next]_vars, NEW fp \in Fingerprints, Owned(fp)
  PROVE  Owned(fp)'
<1> SUFFICES ASSUME overtaken'[fp] = 0, faults' = 0, row'[fp].status = "triaged"
             PROVE  (\E l \in Triagers : WorksOn(l, fp)') \/ runs'[fp] > 0
  BY DEF Owned
<1>0. /\ overtaken[fp] = 0 /\ faults = 0 /\ faults' = faults
      /\ runs[fp] \in Nat /\ \A l \in Triagers : l \in Invocations
  BY OvertakenGrows, BoundsAssumption DEF TypeOK, Invocations
<1>1. row[fp].status = "triaged" => (\E l \in Triagers : WorksOn(l, fp)) \/ runs[fp] > 0
  BY <1>0 DEF Owned
<1>2. ASSUME NEW i \in Invocations, \A k \in Invocations : k # i => inv'[k] = inv[k],
             row[fp].status = "triaged", runs'[fp] = runs[fp],
             i \in Triagers /\ WorksOn(i, fp) => WorksOn(i, fp)'
      PROVE  (\E l \in Triagers : WorksOn(l, fp)') \/ runs'[fp] > 0
  BY <1>0, <1>1, <1>2 DEF WorksOn
<1>3. ASSUME NEW l \in Triagers, Triage(l)
      PROVE  (\E k \in Triagers : WorksOn(k, fp)') \/ runs'[fp] > 0
  <2>1. l \in Invocations /\ \A k \in Invocations : k # l => inv'[k] = inv[k]
    BY <1>0, <1>3, MovesBy
  <2>2. CASE Passes(l, fp)
    BY <1>2, <2>1, <2>2 DEF Passes
  <2>3. CASE Takes(l, fp)
    BY <2>3 DEF Takes
  <2>4. CASE Starts(l, fp)
    BY <1>0, <2>4 DEF Starts
  <2> QED
    BY <1>3, <2>1, <2>2, <2>3, <2>4, TriageSeen DEF LeavesWith, WritesOnly
<1>4. ASSUME NEW c \in Clickers, Slack(c)
      PROVE  (\E k \in Triagers : WorksOn(k, fp)') \/ runs'[fp] > 0
  <2>1. c \in Invocations /\ c \notin Triagers
    BY InvocationsAssumption DEF Invocations
  <2>2. \A k \in Invocations : k # c => inv'[k] = inv[k]
    BY <1>4, <2>1, MovesBy
  <2>3. CASE Passes(c, fp)
    BY <1>2, <2>1, <2>2, <2>3 DEF Passes
  <2>4. CASE Starts(c, fp)
    BY <1>0, <2>4 DEF Starts
  <2> QED
    BY <1>4, <2>3, <2>4, SlackSeen DEF LeavesWith, WritesOnly
<1>5. ASSUME NEW u \in Updaters, Update(u)
      PROVE  (\E k \in Triagers : WorksOn(k, fp)') \/ runs'[fp] > 0
  <2>1. u \in Invocations /\ u \notin Triagers
    BY InvocationsAssumption DEF Invocations
  <2>2. \A k \in Invocations : k # u => inv'[k] = inv[k]
    BY <1>5, <2>1, MovesBy
  <2>3. row'[fp].status = row[fp].status /\ runs'[fp] = runs[fp]
    BY <1>0, <1>5, UpdateSeen DEF Passes, WritesOnly
  <2> QED
    BY <1>2, <2>1, <2>2, <2>3
<1>6. ASSUME NEW i \in Invocations, Dies(i) PROVE FALSE
  BY <1>0, <1>6 DEF Dies
<1>7. ASSUME NEW f \in Fingerprints, Execution(f)
      PROVE  (\E k \in Triagers : WorksOn(k, fp)') \/ runs'[fp] > 0
  <2>1. /\ inv' = inv
        /\ row'[fp].status = row[fp].status /\ runs'[fp] = runs[fp]
    BY <1>0, <1>7, ExecutionSeen DEF Terminal
  <2> QED
    BY <1>1, <2>1 DEF WorksOn
<1>8. CASE UNCHANGED vars
  BY <1>1, <1>8 DEF vars, WorksOn
<1> QED
  BY <1>3, <1>4, <1>5, <1>6, <1>7, <1>8 DEF Next

LEMMA ClaimsHold == Spec => []ClaimInv
<1>1. Init => ClaimInv
  <2> SUFFICES ASSUME Init, NEW fp \in Fingerprints PROVE Ledger(fp) /\ Owned(fp)
    BY DEF ClaimInv
  <2>1. AtWork(fp) = {}
    BY DEF Init, AtWork, WorksOn, Idle
  <2>2. IsFiniteSet({}) /\ Cardinality({}) = 0
    BY FS_EmptySet
  <2> QED
    BY <2>1, <2>2 DEF Init, Ledger, Claimants, Owned, NoRow
<1>2. TypeOK /\ TypeOK' /\ ClaimInv /\ [Next]_vars => ClaimInv'
  BY LedgerStep, OwnedStep DEF ClaimInv
<1> QED
  BY <1>1, <1>2, TypeCorrect, PTL DEF Spec

\* What the ledger says of a fingerprint
LEMMA LedgerSays ==
  ASSUME TypeOK, ClaimInv, NEW fp \in Fingerprints
  PROVE  /\ runs[fp] <= 1 + overtaken[fp]
         /\ overtaken[fp] = 0 =>
              /\ ~Live(row[fp]) => runs[fp] = 0 /\ \A i \in Invocations : ~WorksOn(i, fp)
              /\ \A i, j \in Invocations : WorksOn(i, fp) /\ WorksOn(j, fp) => i = j
<1>0. /\ runs[fp] \in Nat /\ overtaken[fp] \in Nat
      /\ IsFiniteSet(AtWork(fp)) /\ Cardinality(AtWork(fp)) \in Nat
      /\ Cardinality(AtWork(fp)) + runs[fp] + (IF Free(fp) THEN 1 ELSE 0) <= 1 + overtaken[fp]
  BY FS_CardinalityType DEF TypeOK, ClaimInv, Ledger, Claimants
<1>1. ASSUME overtaken[fp] = 0, ~Live(row[fp])
      PROVE  runs[fp] = 0 /\ \A i \in Invocations : ~WorksOn(i, fp)
  <2>1. Free(fp)
    BY <1>1 DEF Free
  <2>2. runs[fp] = 0 /\ Cardinality(AtWork(fp)) = 0
    BY <1>0, <1>1, <2>1
  <2>3. AtWork(fp) = {}
    BY <1>0, <2>2, FS_EmptySet
  <2> QED
    BY <2>2, <2>3 DEF AtWork
<1>2. ASSUME overtaken[fp] = 0, NEW i \in Invocations, NEW j \in Invocations,
             WorksOn(i, fp), WorksOn(j, fp), i # j
      PROVE  FALSE
  <2>1. {i, j} \subseteq AtWork(fp)
    BY <1>2 DEF AtWork
  <2>2. Cardinality({i, j}) = 2
    <3>1. IsFiniteSet({i}) /\ Cardinality({i}) = 1
      BY FS_Singleton
    <3>2. {i, j} = {i} \cup {j} /\ j \notin {i}
      BY <1>2
    <3> QED
      BY <3>1, <3>2, FS_AddElement
  <2>3. Cardinality({i, j}) <= Cardinality(AtWork(fp))
    BY <1>0, <2>1, FS_Subset
  <2> QED
    BY <1>0, <1>2, <2>2, <2>3
<1> QED
  BY <1>0, <1>1, <1>2

(* docs/architecture.md:44, "one execution per fingerprint", as far as it   *)
(* goes, with or without the gate: concurrent events, claims of a terminal  *)
(* row, approvals, dismissals, late writes of start_fix and deaths let in   *)
(* no second one. Each after_run retried when its row has been claimed      *)
(* again (issue.asl.json:72), each UPDATE that writes back a status the row *)
(* has left, and each press on a row somebody is on, one more at most.      *)
THEOREM ExecutionsPerClaim == Spec => []OneExecutionPerClaim
<1>1. TypeOK /\ ClaimInv => OneExecutionPerClaim
  BY LedgerSays DEF OneExecutionPerClaim
<1> QED
  BY <1>1, ClaimsHold, TypeCorrect, PTL

(* docs/architecture.md:44: "one execution per fingerprint", until somebody *)
(* acts on a row that is another's.                                         *)
THEOREM OneExecutionEach ==
  Spec => []((\A fp \in Fingerprints : overtaken[fp] = 0) => OneExecution)
<1>1. TypeOK /\ ClaimInv => ((\A fp \in Fingerprints : overtaken[fp] = 0) => OneExecution)
  BY LedgerSays DEF OneExecution
<1> QED
  BY <1>1, ClaimsHold, TypeCorrect, PTL

(* core/store.py:43: until its row is overtaken a claim has one holder and  *)
(* turns other events away, and until something dies a TRIAGED row is in    *)
(* someone's hands.                                                         *)
THEOREM ClaimsAreHeld == Spec => []ClaimIsHeld
<1>1. TypeOK /\ ClaimInv => ClaimIsHeld
  <2> SUFFICES ASSUME TypeOK, ClaimInv, NEW fp \in Fingerprints, overtaken[fp] = 0
               PROVE  /\ \A l, k \in Triagers : WorksOn(l, fp) /\ WorksOn(k, fp) => l = k
                      /\ \A l \in Triagers : WorksOn(l, fp) => Live(row[fp])
                      /\ faults = 0 /\ row[fp].status = "triaged" =>
                           (\E l \in Triagers : WorksOn(l, fp)) \/ runs[fp] > 0
    BY DEF ClaimIsHeld
  <2>1. \A l \in Triagers : l \in Invocations
    BY DEF Invocations
  <2> QED
    BY <2>1, LedgerSays DEF ClaimInv, Owned
<1> QED
  BY <1>1, ClaimsHold, TypeCorrect, PTL

-----------------------------------------------------------------------------
(* Approvals, when they come one after the other                            *)

\* c has seen fp wait for approval, and has yet to act on it
Presses(c, fp) == inv[c].fp = fp /\ inv[c].pc \in {"start", "dismiss"}
Approves(c, fp) == inv[c].fp = fp /\ inv[c].pc = "fixing"

(* While a reviewer's press is on its way the row waits for it and nothing   *)
(* runs; only the one whose put is still to come leaves a waiting row with   *)
(* an execution.                                                             *)
ReviewedAt(fp) ==
  /\ runs[fp] <= 1
  /\ runs[fp] > 0 => Live(row[fp])
  /\ \A l \in Triagers : WorksOn(l, fp) =>
        /\ row[fp].status \in {"triaged", "fixing"} /\ runs[fp] = 0
        /\ \A k \in Triagers : WorksOn(k, fp) => k = l
  /\ \A c \in Clickers : Presses(c, fp) =>
        row[fp].status = "awaiting_approval" /\ runs[fp] = 0
  /\ row[fp].status = "awaiting_approval" /\ runs[fp] > 0 =>
        \E c \in Clickers : Approves(c, fp)

\* triage leaves start_fix and the buttons to the reviewers
LeavesToReviewers == \A l \in Triagers : inv[l].pc \notin {"start", "fixing", "dismiss", "update"}

ReviewInv ==
  /\ LeavesToReviewers
  /\ faults = 0 => \A fp \in Fingerprints : ReviewedAt(fp)

LEMMA GatedTriage ==
  ASSUME Gated, TypeOK, LeavesToReviewers, NEW l \in Triagers, Triage(l)
  PROVE  /\ \A i \in Invocations : i # l => inv'[i] = inv[i]
         /\ inv'[l].pc \in {"idle", "get", "claim", "decide", "cap", "rca", "await"}
         /\ \/ /\ UNCHANGED <<row, runs>>
               /\ \A fp : WorksOn(l, fp)' => WorksOn(l, fp)
            \/ ClaimPut(l) /\ ~Live(row[inv[l].fp])
            \/ RcaOnly(l) \/ AwaitApproval(l)
         /\ UNCHANGED <<runs, faults>>
<1>0. l \in Invocations /\ inv \in [Invocations -> Invocation]
  BY DEF Invocations, TypeOK
<1>1. CASE \E f \in Fingerprints : Receive(l, f)
  BY <1>0, <1>1 DEF Receive, WorksOn
<1>2. CASE ClaimGet(l) \/ Decide(l) \/ CapCheck(l)
  <2>1. \/ Return(l)
        \/ At(l, "get") /\ Step(l, "claim")
        \/ At(l, "decide") /\ (Step(l, "rca") \/ Step(l, "cap"))
        \/ At(l, "cap") /\ (Step(l, "rca") \/ Step(l, "await"))
    BY <1>2, Gated DEF ClaimGet, Decide, CapCheck
  <2>2. UNCHANGED <<row, runs, faults>>
    BY <1>2 DEF ClaimGet, Decide, CapCheck
  <2>3. CASE Return(l)
    BY <1>0, <2>2, <2>3, ReturnFacts DEF WorksOn
  <2>4. ASSUME NEW pc \in {"claim", "rca", "cap", "await"}, Step(l, pc),
               pc # "claim" => At(l, "decide") \/ At(l, "cap")
        PROVE  /\ \A i \in Invocations : i # l => inv'[i] = inv[i]
               /\ inv'[l].pc = pc
               /\ \A fp : WorksOn(l, fp)' => WorksOn(l, fp)
    BY <1>0, <2>4, StepFacts DEF WorksOn, At, Pc
  <2> QED
    BY <2>1, <2>2, <2>3, <2>4
<1>3. CASE ClaimPut(l)
  <2>1. CASE Live(row[inv[l].fp])
    <3>1. Return(l) /\ UNCHANGED <<row, runs, faults>>
      BY <1>3, <2>1 DEF ClaimPut
    <3> QED
      BY <1>0, <3>1, ReturnFacts DEF WorksOn
  <2>2. CASE ~Live(row[inv[l].fp])
    <3>1. Step(l, "decide") /\ UNCHANGED <<runs, faults>>
      BY <1>3, <2>2 DEF ClaimPut
    <3> QED
      BY <1>0, <1>3, <2>2, <3>1, StepFacts DEF Pc
  <2> QED
    BY <2>1, <2>2
<1>4. CASE RcaOnly(l) \/ AwaitApproval(l)
  BY <1>0, <1>4, ReturnFacts DEF RcaOnly, AwaitApproval
<1>5. CASE StartExecution(l) \/ PutFixing(l)
  BY <1>5 DEF StartExecution, PutFixing, At, LeavesToReviewers
<1> QED
  BY <1>1, <1>2, <1>3, <1>4, <1>5 DEF Triage

\* Steps that leave the row and its executions alone
LEMMA ReviewedKept ==
  ASSUME NEW fp \in Fingerprints, ReviewedAt(fp), row'[fp] = row[fp], runs'[fp] = runs[fp],
         \A l \in Triagers : WorksOn(l, fp)' => WorksOn(l, fp),
         \A c \in Clickers : Presses(c, fp)' => Presses(c, fp),
         \A c \in Clickers : Approves(c, fp) => Approves(c, fp)'
  PROVE  ReviewedAt(fp)'
  BY DEF ReviewedAt

LEMMA ReviewTriage ==
  ASSUME Gated, TypeOK, LeavesToReviewers, NEW l \in Triagers, Triage(l),
         NEW fp \in Fingerprints, ReviewedAt(fp)
  PROVE  ReviewedAt(fp)'
<1>0. /\ l \in Invocations /\ inv \in [Invocations -> Invocation]
      /\ row \in [Fingerprints -> Row] /\ runs \in [Fingerprints -> Nat]
      /\ \A k \in Triagers : k \in Invocations
      /\ \A c \in Clickers : c \in Invocations /\ c # l
  BY InvocationsAssumption DEF Invocations, TypeOK
<1>1. \A i \in Invocations : i # l => inv'[i] = inv[i]
  BY GatedTriage
<1>2. /\ \A k \in Triagers : k # l => (WorksOn(k, fp)' <=> WorksOn(k, fp))
      /\ \A c \in Clickers : (Presses(c, fp)' <=> Presses(c, fp))
      /\ \A c \in Clickers : (Approves(c, fp)' <=> Approves(c, fp))
      /\ runs' = runs
  BY <1>0, <1>1, GatedTriage DEF WorksOn, Presses, Approves
<1>3. CASE row' = row /\ \A f : WorksOn(l, f)' => WorksOn(l, f)
  BY <1>2, <1>3, ReviewedKept
<1>4. CASE ClaimPut(l) /\ ~Live(row[inv[l].fp])
  <2>1. row' = [row EXCEPT ![inv[l].fp] = Claimed] /\ inv'[l].fp = inv[l].fp
    BY <1>0, <1>4, StepFacts DEF ClaimPut, Pc
  <2>2. CASE inv[l].fp = fp
    <3>1. row'[fp].status = "triaged" /\ Live(row'[fp])
      BY <1>0, <2>1, <2>2, Statuses
    <3>2. runs[fp] = 0 /\ \A k \in Triagers : ~WorksOn(k, fp)
      <4>1. runs[fp] \in Nat /\ ~Live(row[fp])
        BY <1>0, <1>4, <2>2
      <4> QED
        BY <4>1 DEF ReviewedAt, Live, Terminal
    <3>3. \A c \in Clickers : ~Presses(c, fp)
      BY <1>4, <2>2 DEF ReviewedAt, Live, Terminal
    <3> QED
      BY <1>0, <1>2, <3>1, <3>2, <3>3 DEF ReviewedAt
  <2>3. CASE inv[l].fp # fp
    BY <1>0, <1>2, <2>1, <2>3, ReviewedKept DEF WorksOn
  <2> QED
    BY <2>2, <2>3
<1>5. CASE RcaOnly(l) \/ AwaitApproval(l)
  <2>1. WorksOn(l, inv[l].fp)
    BY <1>5 DEF RcaOnly, AwaitApproval, At, WorksOn
  <2>2. \A f : ~WorksOn(l, f)'
    BY <1>0, <1>5, ReturnFacts DEF RcaOnly, AwaitApproval, WorksOn
  <2>3. \E s \in {"rca_only", "awaiting_approval"} : Write(inv[l].fp, s)
    BY <1>5 DEF RcaOnly, AwaitApproval
  <2>4. CASE inv[l].fp = fp
    <3>1. /\ runs[fp] = 0 /\ \A k \in Triagers : WorksOn(k, fp) => k = l
          /\ row[fp].status \in {"triaged", "fixing"}
      BY <2>1, <2>4 DEF ReviewedAt
    <3>2. \A c \in Clickers : ~Presses(c, fp)
      BY <3>1 DEF ReviewedAt
    <3> QED
      BY <1>2, <2>2, <3>1, <3>2 DEF ReviewedAt
  <2>5. CASE inv[l].fp # fp
    <3>1. row'[fp] = row[fp]
      BY <1>0, <2>3, <2>5 DEF Write
    <3> QED
      BY <1>2, <2>2, <3>1, ReviewedKept
  <2> QED
    BY <2>4, <2>5
<1> QED
  BY <1>3, <1>4, <1>5, GatedTriage

LEMMA ReviewSlack ==
  ASSUME \A c, d \in Clickers : c = d, TypeOK, LeavesToReviewers, NEW c \in Clickers, Slack(c),
         NEW fp \in Fingerprints, ReviewedAt(fp)
  PROVE  ReviewedAt(fp)'
<1>0. /\ c \in Invocations /\ inv \in [Invocations -> Invocation] /\ inv[c] \in Invocation
      /\ row \in [Fingerprints -> Row] /\ runs \in [Fingerprints -> Nat] /\ runs[fp] \in Nat
      /\ \A l \in Triagers : l \in Invocations /\ l # c
  BY InvocationsAssumption DEF Invocations, TypeOK
<1>1. \A d \in Clickers : d = c
  OBVIOUS
<1>2. \A i \in Invocations : i # c => inv'[i] = inv[i]
  BY <1>0 DEF Slack, Click, DismissPut, StartExecution, PutFixing, Step, Return
<1>3. \A l \in Triagers : WorksOn(l, fp)' <=> WorksOn(l, fp)
  BY <1>0, <1>2 DEF WorksOn
<1>4. ASSUME NEW f \in Fingerprints, NEW next \in {"start", "dismiss"}, Click(c, f, next)
      PROVE  ReviewedAt(fp)'
  <2>1. /\ row' = row /\ runs' = runs /\ row[f].status = "awaiting_approval"
        /\ inv[c].pc = "idle" /\ inv'[c].fp = f
    BY <1>0, <1>4 DEF Click, At
  <2>2. CASE f = fp
    <3>1. ~Approves(c, fp)
      BY <2>1 DEF Approves
    <3>2. runs[fp] = 0 /\ \A l \in Triagers : ~WorksOn(l, fp)
      BY <1>0, <1>1, <2>1, <2>2, <3>1 DEF ReviewedAt
    <3> QED
      BY <1>3, <2>1, <2>2, <3>2 DEF ReviewedAt
  <2>3. CASE f # fp
    BY <1>1, <1>3, <2>1, <2>3, ReviewedKept DEF Presses, Approves
  <2> QED
    BY <2>2, <2>3
<1>5. CASE DismissPut(c)
  <2>1. /\ Presses(c, inv[c].fp) /\ ~Presses(c, fp)' /\ Write(inv[c].fp, "closed")
        /\ runs' = runs /\ ~Approves(c, fp)
    BY <1>0, <1>5, ReturnFacts DEF DismissPut, At, Presses, Approves
  <2>2. CASE inv[c].fp = fp
    <3>1. /\ runs[fp] = 0 /\ row[fp].status = "awaiting_approval"
          /\ \A l \in Triagers : ~WorksOn(l, fp)
      BY <2>1, <2>2 DEF ReviewedAt
    <3>2. row'[fp].status = "closed"
      BY <1>0, <2>1, <2>2 DEF Write, Put
    <3> QED
      BY <1>1, <1>3, <2>1, <3>1, <3>2 DEF ReviewedAt
  <2>3. CASE inv[c].fp # fp
    <3>1. row'[fp] = row[fp]
      BY <1>0, <2>1, <2>3 DEF Write
    <3> QED
      BY <1>1, <1>3, <2>1, <3>1, ReviewedKept
  <2> QED
    BY <2>2, <2>3
<1>6. CASE StartExecution(c)
  <2>1. /\ Presses(c, inv[c].fp) /\ row' = row /\ runs' = [runs EXCEPT ![inv[c].fp] = @ + 1]
        /\ inv'[c].pc = "fixing" /\ inv'[c].fp = inv[c].fp
    BY <1>0, <1>6, StepFacts DEF StartExecution, At, Presses, Pc
  <2>2. CASE inv[c].fp = fp
    <3>1. runs[fp] = 0 /\ row[fp].status = "awaiting_approval"
      BY <2>1, <2>2 DEF ReviewedAt
    <3>2. runs'[fp] = 1 /\ Approves(c, fp)' /\ ~Presses(c, fp)' /\ Live(row[fp])
      BY <1>0, <2>1, <2>2, <3>1 DEF Approves, Presses, Live, Terminal
    <3>3. \A l \in Triagers : ~WorksOn(l, fp)
      BY <3>1 DEF ReviewedAt
    <3> QED
      BY <1>1, <1>3, <2>1, <3>1, <3>2, <3>3 DEF ReviewedAt, Live
  <2>3. CASE inv[c].fp # fp
    BY <1>0, <1>1, <1>3, <2>1, <2>3, ReviewedKept DEF Presses, Approves
  <2> QED
    BY <2>2, <2>3
<1>7. CASE PutFixing(c)
  <2>1. /\ Approves(c, inv[c].fp) /\ Write(inv[c].fp, "fixing") /\ runs' = runs
        /\ ~Presses(c, fp)' /\ ~Presses(c, fp)
    BY <1>0, <1>7, ReturnFacts DEF PutFixing, At, Presses, Approves
  <2>2. CASE inv[c].fp = fp
    <3>1. row'[fp].status = "fixing" /\ Live(row'[fp])
      BY <1>0, <2>1, <2>2 DEF Write, Put, Live, Terminal
    <3> QED
      BY <1>1, <1>3, <2>1, <3>1 DEF ReviewedAt, Live
  <2>3. CASE inv[c].fp # fp
    <3>1. row'[fp] = row[fp] /\ ~Approves(c, fp)
      BY <1>0, <2>1, <2>3 DEF Write, Approves
    <3> QED
      BY <1>1, <1>3, <2>1, <3>1, ReviewedKept
  <2> QED
    BY <2>2, <2>3
<1> QED
  BY <1>4, <1>5, <1>6, <1>7 DEF Slack

LEMMA ReviewExecution ==
  ASSUME TypeOK, NEW f \in Fingerprints, Execution(f), faults' = 0, faults = 0,
         NEW fp \in Fingerprints, ReviewedAt(fp)
  PROVE  ReviewedAt(fp)'
<1>0. /\ row \in [Fingerprints -> Row] /\ runs \in [Fingerprints -> Nat] /\ runs[fp] \in Nat
      /\ runs[f] \in Nat
  BY DEF TypeOK
<1>1. inv' = inv
  BY DEF Execution, RunWrites, RunEnds, RunReturns, RunRetries, CoolDownEnds, RunDies
<1>2. /\ \A l : WorksOn(l, fp)' <=> WorksOn(l, fp)
      /\ \A c : Presses(c, fp)' <=> Presses(c, fp)
      /\ \A c : Approves(c, fp)' <=> Approves(c, fp)
  BY <1>1 DEF WorksOn, Presses, Approves
<1>3. CASE f # fp
  <2>1. row'[fp] = row[fp] /\ runs'[fp] = runs[fp]
    BY <1>0, <1>3 DEF Execution, RunWrites, RunEnds, RunReturns, RunRetries, CoolDownEnds, RunDies, Write
  <2> QED
    BY <1>2, <2>1, ReviewedKept
<1>4. CASE f = fp /\ CoolDownEnds(f)
  <2>1. row'[fp].status = row[fp].status /\ runs' = runs
    BY <1>0, <1>4 DEF CoolDownEnds, Row
  <2> QED
    BY <1>2, <2>1 DEF ReviewedAt, Live
<1>5. CASE f = fp /\ (RunWrites(f) \/ RunEnds(f))
  <2>1. runs[fp] = 1
    BY <1>0, <1>5 DEF RunWrites, RunEnds, ReviewedAt
  <2>2. /\ \A l \in Triagers : ~WorksOn(l, fp)
        /\ \A c \in Clickers : ~Presses(c, fp)
    BY <2>1 DEF ReviewedAt
  <2>3. CASE RunWrites(f)
    <3>1. row'[fp].status \in {"pr_open", "ready"} /\ runs' = runs
      BY <1>0, <1>5, <2>3 DEF RunWrites, Write, Put
    <3>2. Live(row'[fp]) /\ row'[fp].status # "awaiting_approval"
      BY <3>1 DEF Live, Terminal
    <3> QED
      BY <1>2, <2>1, <2>2, <3>1, <3>2 DEF ReviewedAt
  <2>4. CASE RunEnds(f)
    <3>1. runs'[fp] = 0
      BY <1>0, <1>5, <2>1, <2>4 DEF RunEnds
    <3> QED
      BY <1>2, <2>2, <3>1 DEF ReviewedAt
  <2> QED
    BY <1>5, <2>3, <2>4
<1>6. CASE f = fp /\ RunReturns(f)
  <2>1. row' = row /\ runs' = runs
    BY <1>6 DEF RunReturns
  <2> QED
    BY <1>2, <2>1, ReviewedKept
<1>7. ~RunDies(f) /\ ~RunRetries(f)
  BY DEF RunDies, RunRetries
<1> QED
  BY <1>3, <1>4, <1>5, <1>6, <1>7 DEF Execution

LEMMA ReviewStep ==
  ASSUME Gated, Updaters = {}, \A c, d \in Clickers : c = d, TypeOK, ReviewInv, [Next]_vars
  PROVE  ReviewInv'
<1>0. /\ inv \in [Invocations -> Invocation] /\ faults \in Nat
      /\ \A l \in Triagers : l \in Invocations /\ l \notin Clickers
      /\ \A c \in Clickers : c \in Invocations
  BY InvocationsAssumption, BoundsAssumption DEF Invocations, TypeOK
<1>1. ASSUME NEW l \in Triagers, Triage(l) PROVE ReviewInv'
  <2>1. LeavesToReviewers'
    BY <1>0, <1>1, GatedTriage DEF ReviewInv, LeavesToReviewers
  <2>2. faults' = faults
    BY <1>1, GatedTriage DEF ReviewInv
  <2> QED
    BY <1>1, <2>1, <2>2, ReviewTriage DEF ReviewInv
<1>2. ASSUME NEW c \in Clickers, Slack(c) PROVE ReviewInv'
  <2>1. \A i \in Invocations : i # c => inv'[i] = inv[i]
    BY <1>0, <1>2 DEF Slack, Click, DismissPut, StartExecution, PutFixing, Step, Return
  <2>2. LeavesToReviewers'
    BY <1>0, <1>2, <2>1 DEF ReviewInv, LeavesToReviewers
  <2>3. faults' = faults
    BY <1>2 DEF Slack, Click, DismissPut, StartExecution, PutFixing
  <2> QED
    BY <1>2, <2>2, <2>3, ReviewSlack DEF ReviewInv
<1>3. ASSUME NEW i \in Invocations, Dies(i) PROVE ReviewInv'
  <2>1. /\ faults' # 0 /\ inv'[i].pc = "idle"
        /\ \A j \in Invocations : j # i => inv'[j] = inv[j]
    BY <1>0, <1>3, ReturnFacts DEF Dies
  <2> QED
    BY <1>0, <2>1 DEF ReviewInv, LeavesToReviewers
<1>4. ASSUME NEW f \in Fingerprints, Execution(f) PROVE ReviewInv'
  <2>1. inv' = inv /\ (faults' = faults \/ faults' = faults + 1)
    BY <1>4 DEF Execution, RunWrites, RunEnds, RunReturns, RunRetries, CoolDownEnds, RunDies
  <2>2. LeavesToReviewers'
    BY <2>1 DEF ReviewInv, LeavesToReviewers
  <2> QED
    BY <1>0, <1>4, <2>1, <2>2, ReviewExecution DEF ReviewInv
<1>5. CASE UNCHANGED vars
  BY <1>5 DEF vars, ReviewInv, LeavesToReviewers, ReviewedAt, WorksOn, Presses, Approves, Live
<1> QED
  BY <1>1, <1>2, <1>3, <1>4, <1>5 DEF Next

(* The two executions of a fingerprint that two reviewers can start          *)
(* (double_approve) take two presses at once or a death: while presses come  *)
(* one after the other and nothing dies, the status test of                  *)
(* slack_interactions.handle is enough, late puts of start_fix included.     *)
THEOREM OneReviewerAtATime ==
  ASSUME Gated, Updaters = {}, \A c, d \in Clickers : c = d
  PROVE  Spec => [](faults = 0 => OneExecution)
<1>1. Init => ReviewInv
  BY DEF Init, ReviewInv, LeavesToReviewers, ReviewedAt, WorksOn, Presses, Approves, Idle, NoRow,
         Invocations
<1>2. TypeOK /\ ReviewInv /\ [Next]_vars => ReviewInv'
  BY ReviewStep
<1>3. ReviewInv => (faults = 0 => OneExecution)
  BY DEF ReviewInv, ReviewedAt, OneExecution
<1> QED
  BY <1>1, <1>2, <1>3, TypeCorrect, PTL DEF Spec
=============================================================================
