--------------------------- MODULE OutputsProofs ---------------------------
(***************************************************************************)
(* Proofs about module Outputs, for any number of runs, UPDATE events,     *)
(* failed calls and dead tries of after_run.                               *)
(***************************************************************************)
EXTENDS Outputs, SequenceTheorems, FiniteSetTheorems, TLAPS

-----------------------------------------------------------------------------
(* Types                                                                    *)

Outcomes == {"pr_open", "grooming", "rca_only", "needs_human"}
Pushed(n) == inv[n].st.status \in {"pr_open", "grooming"}

\* after_run is at work, or is to be tried again
Reporting == at \in {"working", "retrying"} /\ tries # 0

\* no run begins beyond the budget, a report knows its outcome and its tries,
\* and an update at work has its number
Stage ==
  /\ at \in {"triage", "approval"} => pushes = 0 /\ tries = 0
  /\ ~FlowRests /\ inv["flow"].goto \in {"approval", "working"} => pushes = 0 /\ tries = 0
  /\ at = "working" /\ FlowRests => pushes < MaxRuns /\ tries = 0
  /\ at = "retrying" => tries # 0
  /\ at = "retrying" /\ FlowRests => tries <= deaths /\ tries < Tries
  /\ tries <= 1 + deaths
  /\ Reporting => /\ inv["flow"].st.status \in Outcomes /\ inv["flow"].goto \in {"parked", "over"}
                  /\ Pushed("flow") => pushes >= 1
  /\ ~FlowRests /\ Pushed("flow") => Reporting
  /\ inv["update"].step # 0 => updates >= 1
  /\ ~FlowRests => inv["flow"].goto \notin {"triage", "retrying"} /\ at # "over"

TypeInv == TypeOK /\ Stage

LEMMA DocTypes ==
  /\ Claimed \in Doc /\ NoDoc \in Previous /\ Doc \subseteq Previous
  /\ \A d \in Doc, s \in Status : [d EXCEPT !.status = s] \in Doc
  /\ \A d \in Doc, s \in Status, p \in 0..MaxRuns :
       [d EXCEPT !.status = s, !.push = p] \in Doc
<1>1. Claimed \in Doc
  BY BoundsAssumption DEF Claimed, Doc, Status
<1>2. NoDoc \in Previous /\ Doc \subseteq Previous
  BY DEF Previous
<1>3. ASSUME NEW d \in Doc, NEW s \in Status PROVE [d EXCEPT !.status = s] \in Doc
  BY DEF Doc
<1>4. ASSUME NEW d \in Doc, NEW s \in Status, NEW p \in 0..MaxRuns
      PROVE  [d EXCEPT !.status = s, !.push = p] \in Doc
  BY DEF Doc
<1> QED
  BY <1>1, <1>2, <1>3, <1>4

LEMMA IdleType == Idle \in Invocation
<1>1. 0 \in 0..3 /\ "over" \in Position
  BY DEF Position
<1>2. Claimed \in Doc /\ NoDoc \in Previous
  BY DocTypes, Zenon
<1> QED
  BY <1>1, <1>2 DEF Idle, Invocation

LEMMA Names ==
  /\ "flow" \in Notifiers /\ "update" \in Notifiers
  /\ <<"page", 0>> \in Call /\ <<"newThread", 0>> \in Call /\ <<"openPr", 0>> \in Call
  /\ \A p \in 1..MaxRuns : <<"pushComment", p>> \in Call
  BY DEF Notifiers, Call

\* What an output gives back is a document again
LEMMA ReturnTypes ==
  ASSUME TypeOK, NEW st \in Doc, NEW prev \in Previous
  PROVE  GitHubReturn(st) \in Doc /\ SlackReturn(st, prev) \in Doc
<1>1. GitHubReturn(st) \in Doc
  BY DEF GitHubReturn, Doc
<1>2. done[<<"newThread", 0>>] + 1 \in Nat
  BY Names DEF TypeOK
<1> DEFINE t == IF Message(st, prev) = << <<"newThread", 0>> >>
                THEN done[<<"newThread", 0>>] + 1 ELSE st.thread
<1>3. t \in Nat
  BY <1>2 DEF Doc
<1>4. SlackReturn(st, prev) = [st EXCEPT !.paged = TRUE, !.thread = t]
  BY DEF SlackReturn
<1> HIDE DEF t
<1>5. SlackReturn(st, prev) \in Doc
  BY <1>3, <1>4 DEF Doc
<1> QED
  BY <1>1, <1>5

LEMMA PerformedType ==
  ASSUME TypeOK, NEW calls, NEW k, Performed(calls, k)
  PROVE  /\ done' \in [Call -> Nat]
         /\ \A c \in Call : done'[c] = done[c] + IF \E i \in 1..k : calls[i] = c THEN 1 ELSE 0
  BY DEF TypeOK, Performed

\* The outputs work on the state of one invocation and pass it on
LEMMA NotifyFacts ==
  ASSUME TypeInv, NEW n \in Notifiers, GitHubNotify(n) \/ SlackNotify(n)
  PROVE  /\ inv[n].step \in 1..2 /\ inv'[n].step = inv[n].step + 1
         /\ inv'[n].prev = inv[n].prev /\ inv'[n].goto = inv[n].goto
         /\ \A m \in Notifiers : m # n => inv'[m] = inv[m]
         /\ GitHubNotify(n) => inv'[n].st \in {inv[n].st, GitHubReturn(inv[n].st)}
         /\ SlackNotify(n) => inv'[n].st \in {inv[n].st, SlackReturn(inv[n].st, inv[n].prev)}
         /\ UNCHANGED <<doc, at, pushes, tries, deaths, updates, overlaps>>
<1>1. inv[n].step \in 1..2
  <2>1. DOMAIN Order = 1..2
    BY OrderAssumption
  <2> QED
    BY <2>1 DEF GitHubNotify, SlackNotify, Works
<1>2. inv[n] \in Invocation
  BY DEF TypeInv, TypeOK
<1>3. \E d : /\ inv' = [inv EXCEPT ![n].step = @ + 1, ![n].st = d]
             /\ GitHubNotify(n) => d \in {inv[n].st, GitHubReturn(inv[n].st)}
             /\ SlackNotify(n) => d \in {inv[n].st, SlackReturn(inv[n].st, inv[n].prev)}
  <2>1. ASSUME GitHubNotify(n)
        PROVE  \E d \in {inv[n].st, GitHubReturn(inv[n].st)} : Next1(n, d)
    BY <2>1 DEF GitHubNotify
  <2>2. ASSUME SlackNotify(n)
        PROVE  \E d \in {inv[n].st, SlackReturn(inv[n].st, inv[n].prev)} : Next1(n, d)
    BY <2>2 DEF SlackNotify
  <2>3. ASSUME GitHubNotify(n), SlackNotify(n) PROVE FALSE
    BY <2>3 DEF GitHubNotify, SlackNotify, Works
  <2> QED
    BY <2>1, <2>2, <2>3 DEF Next1
<1>4. UNCHANGED <<doc, at, pushes, tries, deaths, updates, overlaps>>
  BY DEF GitHubNotify, SlackNotify
<1> QED
  BY <1>1, <1>2, <1>3, <1>4 DEF TypeInv, TypeOK, Invocation

LEMMA NotifyType ==
  ASSUME TypeInv, NEW n \in Notifiers, GitHubNotify(n) \/ SlackNotify(n)
  PROVE  TypeInv'
<1> DEFINE st == inv[n].st
           prev == inv[n].prev
<1>1. st \in Doc /\ prev \in Previous /\ inv[n] \in Invocation
  BY DEF TypeInv, TypeOK, Invocation
<1>2. GitHubReturn(st) \in Doc /\ SlackReturn(st, prev) \in Doc
  BY <1>1, ReturnTypes DEF TypeInv
<1>3. \E d \in Doc : inv' = [inv EXCEPT ![n].step = @ + 1, ![n].st = d]
  BY <1>1, <1>2 DEF GitHubNotify, SlackNotify, Next1
<1>4. inv' \in [Notifiers -> Invocation]
  <2>1. PICK d \in Doc : inv' = [inv EXCEPT ![n].step = @ + 1, ![n].st = d]
    BY <1>3
  <2>2. [inv[n] EXCEPT !.step = @ + 1, !.st = d] \in Invocation
    <3>1. inv[n].step + 1 \in 0..3
      BY NotifyFacts
    <3> QED
      BY <1>1, <3>1 DEF Invocation
  <2> QED
    BY <2>1, <2>2 DEF TypeInv, TypeOK
<1>5. done' \in [Call -> Nat]
  <2>1. done' = done \/ \E calls, k : Performed(calls, k)
    BY DEF GitHubNotify, SlackNotify
  <2> QED
    BY <2>1, PerformedType DEF TypeInv, TypeOK
<1>6. told' \in Status
  <2>1. told' \in {told, st.status}
    BY DEF GitHubNotify, SlackNotify, Told
  <2> QED
    BY <1>1, <2>1 DEF Doc, TypeInv, TypeOK
<1>7. failures' \in 0..MaxFailures
  BY BoundsAssumption DEF GitHubNotify, SlackNotify, TypeInv, TypeOK
<1>8. TypeOK'
  BY <1>4, <1>5, <1>6, <1>7, NotifyFacts DEF TypeInv, TypeOK
<1>9. Stage'
  <2>1. /\ inv[n].step # 0 /\ inv'[n].step # 0 /\ inv'[n].goto = inv[n].goto
        /\ \A m \in Notifiers : m # n => inv'[m] = inv[m]
        /\ UNCHANGED <<at, pushes, tries, deaths, updates>>
    BY NotifyFacts
  <2>2. inv'[n].st.status = st.status
    <3>1. inv'[n].st \in {st, GitHubReturn(st), SlackReturn(st, prev)}
      BY NotifyFacts
    <3> QED
      BY <1>1, <3>1 DEF GitHubReturn, SlackReturn, Doc
  <2>3. CASE n = "flow"
    BY <2>1, <2>2, <2>3, Names DEF TypeInv, Stage, FlowRests, Reporting, Pushed
  <2>4. CASE n = "update"
    BY <2>1, <2>4, Names DEF TypeInv, Stage, FlowRests, Reporting, Pushed
  <2> QED
    BY <2>3, <2>4 DEF Notifiers
<1> QED
  BY <1>8, <1>9 DEF TypeInv

\* An invocation that begins
LEMMA BeginType ==
  ASSUME TypeOK, NEW n \in Notifiers, NEW prev \in Previous, NEW st \in Doc,
         NEW goto \in Position, Begin(n, prev, st, goto)
  PROVE  /\ inv[n].step = 0 /\ inv' \in [Notifiers -> Invocation]
         /\ inv'[n] = [step |-> 1, st |-> st, prev |-> prev, goto |-> goto]
         /\ \A m \in Notifiers : m # n => inv'[m] = inv[m]
         /\ UNCHANGED <<doc, at, done, told, failures, deaths>>
<1>1. [step |-> 1, st |-> st, prev |-> prev, goto |-> goto] \in Invocation
  BY DEF Invocation
<1> QED
  BY <1>1 DEF Begin, world, TypeOK

\* The statuses a flow can begin with, by where it stands
FlowStatus == {"rca_only", "awaiting_approval", "fixing", "closed", "pr_open", "grooming",
               "needs_human", "ready", "merged"}

\* Every step is the begin of an invocation, a call of an output, a put or Resume
FlowBegins ==
  \/ /\ at = "triage" /\ UNCHANGED <<pushes, tries, updates, overlaps>>
     /\ \/ Begin("flow", NoDoc, [Claimed EXCEPT !.status = "rca_only"], "over")
        \/ Begin("flow", NoDoc, [Claimed EXCEPT !.status = "awaiting_approval"], "approval")
        \/ Begin("flow", Claimed, [Claimed EXCEPT !.status = "fixing"], "working")
  \/ /\ at = "approval" /\ FlowOverlaps /\ UNCHANGED <<pushes, tries, updates>>
     /\ \/ Begin("flow", doc, [doc EXCEPT !.status = "fixing"], "working")
        \/ Begin("flow", doc, [doc EXCEPT !.status = "closed"], "over")
  \/ /\ at = "working" /\ tries' \in {tries, 1} /\ FlowOverlaps /\ UNCHANGED <<pushes, updates>>
     /\ \E status \in {"rca_only", "needs_human"} :
          Begin("flow", doc, [doc EXCEPT !.status = status], "over")
  \/ /\ at = "parked" /\ FlowOverlaps /\ UNCHANGED <<pushes, tries, updates>>
     /\ \E status \in {"needs_human", "merged", "closed"} :
          Begin("flow", doc, [doc EXCEPT !.status = status], "over")
  \/ /\ at = "parked" /\ FlowOverlaps /\ UNCHANGED <<pushes, tries, updates>>
     /\ Begin("flow", doc, [doc EXCEPT !.status = "ready"], "parked")

LEMMA StepCases ==
  ASSUME [Next]_vars
  PROVE  \/ FlowBegins \/ AfterPush \/ AfterRunRetried \/ AfterRunDies \/ Resume
         \/ HandleUpdate
         \/ \E n \in Notifiers : GitHubNotify(n) \/ SlackNotify(n) \/ Put(n)
         \/ UNCHANGED vars
<1>1. CASE Triage
  BY <1>1 DEF Triage, FlowBegins
<1>2. CASE Decided
  BY <1>2 DEF Decided, FlowBegins
<1>3. CASE AfterNoPush
  BY <1>3 DEF AfterNoPush, FlowBegins
<1>4. CASE Finalize
  BY <1>4 DEF Finalize, FlowBegins
<1> QED
  BY <1>1, <1>2, <1>3, <1>4 DEF Next

\* d says of pull request, page, thread and push what e says
Same(d, e) == d.pr = e.pr /\ d.paged = e.paged /\ d.thread = e.thread /\ d.push = e.push

LEMMA FlowBeginFacts ==
  ASSUME TypeInv, FlowBegins
  PROVE  LET f == inv'["flow"]
         IN  /\ FlowRests /\ f.step = 1 /\ inv'["update"] = inv["update"]
             /\ inv' \in [Notifiers -> Invocation]
             /\ UNCHANGED <<doc, at, done, told, failures, deaths, pushes, updates>>
             /\ tries' = tries \/ (at = "working" /\ tries' = 1)
             /\ at = "working" => f.goto = "over" /\ f.st.status \in {"rca_only", "needs_human"}
             /\ at # "retrying"
             /\ f.st.status \in FlowStatus \ {"pr_open", "grooming"}
             /\ f.goto \notin {"triage", "retrying"}
             /\ f.goto \in {"approval", "working"} => at \in {"triage", "approval"}
             /\ f.st.status = "awaiting_approval" => at = "triage"
             /\ at # "over"
             /\ at = "triage" => /\ Same(f.st, Claimed) /\ f.prev.status \in {"none", "triaged"}
                                 /\ overlaps' = overlaps
             /\ at # "triage" => Same(f.st, doc) /\ f.prev = doc /\ FlowOverlaps
<1> DEFINE f == inv'["flow"]
<1>0. /\ doc \in Doc /\ TypeOK
  BY DEF TypeInv, TypeOK
<1>1. ASSUME NEW prev \in Previous, NEW d \in Doc, NEW status \in Status, NEW goto \in Position,
             Begin("flow", prev, [d EXCEPT !.status = status], goto)
      PROVE  /\ FlowRests /\ f.step = 1 /\ inv'["update"] = inv["update"]
             /\ inv' \in [Notifiers -> Invocation]
             /\ UNCHANGED <<doc, at, done, told, failures, deaths>>
             /\ f.st.status = status /\ Same(f.st, d) /\ f.prev = prev /\ f.goto = goto
  <2>1. [d EXCEPT !.status = status] \in Doc
    BY DocTypes
  <2>2. /\ inv["flow"].step = 0 /\ inv' \in [Notifiers -> Invocation]
        /\ inv'["flow"] = [step |-> 1, st |-> [d EXCEPT !.status = status],
                           prev |-> prev, goto |-> goto]
        /\ inv'["update"] = inv["update"]
        /\ UNCHANGED <<doc, at, done, told, failures, deaths>>
    BY <1>0, <1>1, <2>1, BeginType, Names
  <2> QED
    BY <2>2 DEF FlowRests, Same, Doc
<1>2. CASE at = "triage"
  <2>1. /\ UNCHANGED <<pushes, tries, updates, overlaps>>
        /\ \E prev \in {NoDoc, Claimed}, status \in {"rca_only", "awaiting_approval", "fixing"},
              goto \in {"over", "approval", "working"} :
             Begin("flow", prev, [Claimed EXCEPT !.status = status], goto)
    BY <1>2 DEF FlowBegins
  <2>2. PICK prev \in {NoDoc, Claimed}, status \in {"rca_only", "awaiting_approval", "fixing"},
             goto \in {"over", "approval", "working"} :
          Begin("flow", prev, [Claimed EXCEPT !.status = status], goto)
    BY <2>1
  <2>3. /\ prev \in Previous /\ Claimed \in Doc /\ prev.status \in {"none", "triaged"}
    <3>1. NoDoc \in Previous /\ Claimed \in Doc /\ Claimed \in Previous
      BY DocTypes, Zenon
    <3>2. NoDoc.status = "none" /\ Claimed.status = "triaged"
      BY DEF NoDoc, Claimed
    <3> QED
      BY <3>1, <3>2
  <2>4. status \in Status /\ goto \in Position
    BY DEF Status, Position
  <2>5. /\ FlowRests /\ f.step = 1 /\ inv'["update"] = inv["update"]
        /\ inv' \in [Notifiers -> Invocation]
        /\ UNCHANGED <<doc, at, done, told, failures, deaths>>
        /\ f.st.status = status /\ Same(f.st, Claimed) /\ f.prev = prev /\ f.goto = goto
    BY <1>1, <2>2, <2>3, <2>4
  <2> QED
    BY <1>2, <2>1, <2>2, <2>3, <2>5 DEF FlowStatus
<1>3. CASE at # "triage"
  <2>1. /\ FlowOverlaps /\ UNCHANGED <<pushes, updates>> /\ at # "over" /\ at # "retrying"
        /\ tries' = tries \/ (at = "working" /\ tries' = 1)
        /\ \E status \in FlowStatus \ {"pr_open", "grooming", "awaiting_approval"}, goto \in {"over", "parked", "working"} :
             /\ Begin("flow", doc, [doc EXCEPT !.status = status], goto)
             /\ goto = "working" => at = "approval"
             /\ at = "working" => goto = "over" /\ status \in {"rca_only", "needs_human"}
    <3> DEFINE From(status, goto) == Begin("flow", doc, [doc EXCEPT !.status = status], goto)
    <3>1. \/ /\ at = "approval" /\ FlowOverlaps /\ UNCHANGED <<pushes, tries, updates>>
             /\ From("fixing", "working") \/ From("closed", "over")
          \/ /\ at = "working" /\ tries' \in {tries, 1} /\ FlowOverlaps
             /\ UNCHANGED <<pushes, updates>>
             /\ \E status \in {"rca_only", "needs_human"} : From(status, "over")
          \/ /\ at = "parked" /\ FlowOverlaps /\ UNCHANGED <<pushes, tries, updates>>
             /\ \/ \E status \in {"needs_human", "merged", "closed"} : From(status, "over")
                \/ From("ready", "parked")
      BY <1>3 DEF FlowBegins
    <3> HIDE DEF From
    <3>2. /\ FlowOverlaps /\ UNCHANGED <<pushes, updates>> /\ at # "over" /\ at # "retrying"
          /\ tries' = tries \/ (at = "working" /\ tries' = 1)
      BY <3>1
    <3>3. \E status \in FlowStatus \ {"pr_open", "grooming", "awaiting_approval"}, goto \in {"over", "parked", "working"} :
             /\ From(status, goto)
             /\ goto = "working" => at = "approval"
             /\ at = "working" => goto = "over" /\ status \in {"rca_only", "needs_human"}
      BY <3>1 DEF FlowStatus
    <3> QED
      BY <3>2, <3>3 DEF From
  <2>2. PICK status \in FlowStatus \ {"pr_open", "grooming", "awaiting_approval"},
             goto \in {"over", "parked", "working"} :
          /\ Begin("flow", doc, [doc EXCEPT !.status = status], goto)
          /\ goto = "working" => at = "approval"
          /\ at = "working" => goto = "over" /\ status \in {"rca_only", "needs_human"}
    BY <2>1
  <2>3. doc \in Previous
    BY <1>0, DocTypes
  <2>4. status \in Status /\ goto \in Position
    BY DEF Status, Position, FlowStatus
  <2> QED
    BY <1>0, <1>1, <1>3, <2>1, <2>2, <2>3, <2>4 DEF FlowStatus
<1> QED
  BY <1>2, <1>3

LEMMA AfterPushFacts ==
  ASSUME TypeInv, AfterPush
  PROVE  LET f == inv'["flow"]
         IN  /\ at = "working" /\ FlowRests /\ f.step = 1 /\ inv'["update"] = inv["update"]
             /\ inv' \in [Notifiers -> Invocation]
             /\ UNCHANGED <<doc, at, done, told, failures, deaths, updates>>
             /\ pushes' = pushes + 1 /\ pushes < MaxRuns /\ tries' = 1
             /\ f.st.status = (IF doc.pr = 0 THEN "pr_open" ELSE "grooming")
             /\ f.st.pr = doc.pr /\ f.st.paged = doc.paged /\ f.st.thread = doc.thread
             /\ f.st.push = pushes + 1 /\ f.prev = doc /\ f.goto = "parked"
             /\ FlowOverlaps
<1> DEFINE status == IF doc.pr = 0 THEN "pr_open" ELSE "grooming"
<1>1. doc \in Doc /\ TypeOK /\ doc \in Previous /\ "parked" \in Position /\ status \in Status
  BY DocTypes DEF TypeInv, TypeOK, Position, Status
<1>2. /\ at = "working" /\ FlowOverlaps /\ pushes' = pushes + 1 /\ updates' = updates
      /\ tries' = 1
      /\ Begin("flow", doc, [doc EXCEPT !.status = status, !.push = pushes + 1], "parked")
  BY DEF AfterPush, Recorded
<1> HIDE DEF status
<1>3. FlowRests
  BY <1>2 DEF Begin, FlowRests
<1>4. pushes < MaxRuns /\ pushes + 1 \in 0..MaxRuns
  BY <1>2, <1>3, BoundsAssumption DEF TypeInv, TypeOK, Stage
<1>5. [doc EXCEPT !.status = status, !.push = pushes + 1] \in Doc
  BY <1>1, <1>4, DocTypes
<1>6. /\ inv' \in [Notifiers -> Invocation]
      /\ inv'["flow"] = [step |-> 1, st |-> [doc EXCEPT !.status = status, !.push = pushes + 1],
                         prev |-> doc, goto |-> "parked"]
      /\ inv'["update"] = inv["update"]
      /\ UNCHANGED <<doc, at, done, told, failures, deaths>>
  BY <1>1, <1>2, <1>5, BeginType, Names
<1>7. /\ inv'["flow"].st.status = status /\ inv'["flow"].st.push = pushes + 1
      /\ inv'["flow"].st.pr = doc.pr /\ inv'["flow"].st.paged = doc.paged
      /\ inv'["flow"].st.thread = doc.thread
  <2> DEFINE d == [doc EXCEPT !.status = status, !.push = pushes + 1]
  <2>1. /\ d.status = status /\ d.push = pushes + 1 /\ d.pr = doc.pr /\ d.paged = doc.paged
        /\ d.thread = doc.thread
    BY <1>1 DEF Doc
  <2>2. inv'["flow"].st = d
    BY <1>6
  <2> QED
    BY <2>1, <2>2
<1>8. inv'["flow"].step = 1 /\ inv'["flow"].prev = doc /\ inv'["flow"].goto = "parked"
  BY <1>6
<1> QED
  BY <1>2, <1>3, <1>4, <1>6, <1>7, <1>8 DEF status

\* A report that is made again says the same of the row as it is now
LEMMA RetryFacts ==
  ASSUME TypeInv, AfterRunRetried
  PROVE  LET f == inv'["flow"]
         IN  /\ at = "retrying" /\ FlowRests /\ f.step = 1 /\ inv'["update"] = inv["update"]
             /\ inv' \in [Notifiers -> Invocation]
             /\ UNCHANGED <<doc, at, done, told, failures, deaths, pushes, updates>>
             /\ tries' = tries + 1 /\ tries' \in 1..Tries /\ tries <= deaths
             /\ f.st.status \in Outcomes /\ (Pushed("flow")' <=> Pushed("flow"))
             /\ Pushed("flow") => f.st.push = pushes
             /\ f.st.push \in {doc.push, pushes}
             /\ f.st.pr = doc.pr /\ f.st.paged = doc.paged /\ f.st.thread = doc.thread
             /\ f.prev = doc /\ f.goto = inv["flow"].goto
             /\ FlowOverlaps
<1> DEFINE old == inv["flow"]
           st == Again(old.st)
<1>0. TypeOK /\ Stage /\ doc \in Doc /\ doc \in Previous /\ old \in Invocation
  BY DocTypes, Names DEF TypeInv, TypeOK
<1>1. /\ at = "retrying" /\ tries' = tries + 1 /\ Begin("flow", doc, st, old.goto)
      /\ FlowOverlaps /\ UNCHANGED <<pushes, updates>>
  BY DEF AfterRunRetried
<1>2. FlowRests
  BY <1>1 DEF Begin, FlowRests
<1>3. old.st.status \in Outcomes
  BY <1>0, <1>1 DEF Stage, Reporting
<1>4. /\ st \in Doc /\ st.status \in Outcomes /\ st.push \in {doc.push, pushes}
      /\ st.pr = doc.pr /\ st.paged = doc.paged /\ st.thread = doc.thread
      /\ st.status \in {"pr_open", "grooming"} <=> Pushed("flow")
      /\ Pushed("flow") => st.push = pushes
  <2>1. CASE Pushed("flow")
    <3> DEFINE status == IF doc.pr = 0 THEN "pr_open" ELSE "grooming"
    <3>1. st = [doc EXCEPT !.status = status, !.push = pushes]
      BY <2>1 DEF Pushed, Again, Recorded
    <3>2. status \in {"pr_open", "grooming"}
      OBVIOUS
    <3>3. pushes \in 0..MaxRuns /\ status \in Status
      BY <1>0, <3>2 DEF TypeOK, Status
    <3> HIDE DEF status, st
    <3>4. st \in Doc
      BY <1>0, <3>1, <3>3, DocTypes
    <3> QED
      BY <1>0, <2>1, <3>1, <3>2, <3>4 DEF Doc, Outcomes
  <2>2. CASE ~Pushed("flow")
    <3>1. st = [doc EXCEPT !.status = old.st.status]
      BY <2>2 DEF Pushed, Again
    <3>2. old.st.status \in Status
      BY <1>3 DEF Outcomes, Status
    <3> HIDE DEF st
    <3>3. st \in Doc
      BY <1>0, <3>1, <3>2, DocTypes
    <3> QED
      BY <1>0, <1>3, <2>2, <3>1, <3>3 DEF Doc, Pushed
  <2> QED
    BY <2>1, <2>2
<1> HIDE DEF st
<1>5. old.goto \in Position
  BY <1>0 DEF Invocation
<1>6. /\ inv' \in [Notifiers -> Invocation]
      /\ inv'["flow"] = [step |-> 1, st |-> st, prev |-> doc, goto |-> old.goto]
      /\ inv'["update"] = inv["update"]
      /\ UNCHANGED <<doc, at, done, told, failures, deaths>>
  BY <1>0, <1>1, <1>4, <1>5, BeginType, Names
<1>7. tries' \in 1..Tries /\ tries <= deaths
  BY <1>0, <1>1, <1>2 DEF TypeOK, Stage, Tries
<1>8. Pushed("flow")' <=> Pushed("flow")
  BY <1>4, <1>6 DEF Pushed
<1> QED
  BY <1>1, <1>2, <1>4, <1>6, <1>7, <1>8

\* What a death leaves: the row as it was, or as after_run had put it
LEMMA DeathFacts ==
  ASSUME TypeInv, AfterRunDies
  PROVE  /\ Reporting /\ ~FlowRests /\ FlowRests'
         /\ at' = (IF tries < Tries THEN "retrying" ELSE "over")
         /\ deaths' = deaths + 1 /\ deaths' \in 0..MaxDeaths
         /\ doc' \in {doc, inv["flow"].st} /\ doc' \in Doc
         /\ inv' \in [Notifiers -> Invocation] /\ inv'["update"] = inv["update"]
         /\ inv'["flow"].step = 0 /\ inv'["flow"].st = inv["flow"].st
         /\ inv'["flow"].goto = inv["flow"].goto
         /\ UNCHANGED <<pushes, tries, done, told, failures, updates, overlaps>>
<1>0. TypeOK /\ doc \in Doc /\ inv["flow"] \in Invocation /\ NoDoc \in Previous
  BY DocTypes, Names DEF TypeInv, TypeOK
<1>1. /\ at \in {"working", "retrying"} /\ tries # 0
      /\ inv["flow"].step # 0 /\ deaths < MaxDeaths /\ deaths' = deaths + 1
      /\ doc' \in {doc, inv["flow"].st}
      /\ at' = (IF tries < Tries THEN "retrying" ELSE "over")
      /\ inv' = [inv EXCEPT !["flow"].step = 0, !["flow"].prev = NoDoc]
      /\ UNCHANGED <<pushes, tries, done, told, failures, updates, overlaps>>
  BY DEF AfterRunDies
<1>2. inv["flow"].st \in Doc
  BY <1>0 DEF Invocation
<1>3. [inv["flow"] EXCEPT !.step = 0, !.prev = NoDoc] \in Invocation
  <2>1. 0 \in 0..3
    OBVIOUS
  <2> QED
    BY <1>0, <2>1 DEF Invocation
<1>4. /\ inv' \in [Notifiers -> Invocation] /\ inv'["update"] = inv["update"]
      /\ inv'["flow"].step = 0 /\ inv'["flow"].st = inv["flow"].st
      /\ inv'["flow"].goto = inv["flow"].goto
  BY <1>0, <1>1, <1>3, Names DEF TypeOK, Invocation
<1>5. deaths' \in 0..MaxDeaths
  BY <1>0, <1>1, BoundsAssumption DEF TypeOK
<1> QED
  BY <1>0, <1>1, <1>2, <1>4, <1>5 DEF Reporting, FlowRests

LEMMA HandleUpdateFacts ==
  ASSUME TypeInv, HandleUpdate
  PROVE  /\ updates < MaxUpdates /\ updates' = updates + 1 /\ inv["update"].step = 0
         /\ inv' \in [Notifiers -> Invocation] /\ inv'["flow"] = inv["flow"]
         /\ inv'["update"] = [step |-> 1, st |-> doc, prev |-> doc, goto |-> "over"]
         /\ overlaps' = (IF ~FlowRests \/ at = "triage" THEN overlaps \cup {updates + 1}
                         ELSE overlaps)
         /\ UNCHANGED <<doc, at, done, told, failures, deaths, pushes, tries>>
<1>1. doc \in Doc /\ TypeOK /\ doc \in Previous /\ "over" \in Position
  BY DocTypes DEF TypeInv, TypeOK, Position
<1>2. Begin("update", doc, doc, "over")
  BY DEF HandleUpdate
<1>3. /\ inv["update"].step = 0
      /\ inv' \in [Notifiers -> Invocation] /\ inv'["flow"] = inv["flow"]
      /\ inv'["update"] = [step |-> 1, st |-> doc, prev |-> doc, goto |-> "over"]
      /\ UNCHANGED <<doc, at, done, told, failures, deaths>>
  BY <1>1, <1>2, BeginType, Names
<1> QED
  BY <1>3 DEF HandleUpdate, FlowRests

LEMMA PutFacts ==
  ASSUME TypeInv, NEW n \in Notifiers, Put(n)
  PROVE  /\ inv[n].step = 3 /\ doc' = inv[n].st /\ inv[n].st \in Doc
         /\ at' = (IF n = "flow" THEN inv[n].goto ELSE at)
         /\ inv' \in [Notifiers -> Invocation] /\ inv'[n] = Idle
         /\ \A m \in Notifiers : m # n => inv'[m] = inv[m]
         /\ UNCHANGED <<pushes, tries, done, told, failures, deaths, updates, overlaps>>
<1>1. /\ inv[n].step = 3 /\ doc' = inv[n].st /\ inv' = [inv EXCEPT ![n] = Idle]
      /\ at' = (IF n = "flow" THEN inv[n].goto ELSE at)
      /\ UNCHANGED <<pushes, tries, done, told, failures, deaths, updates, overlaps>>
  BY DEF Put, world
<1>2. inv[n].st \in Doc
  BY DEF TypeInv, TypeOK, Invocation
<1>3. inv' \in [Notifiers -> Invocation] /\ inv'[n] = Idle
  BY <1>1, IdleType DEF TypeInv, TypeOK
<1>4. \A m \in Notifiers : m # n => inv'[m] = inv[m]
  BY <1>1 DEF TypeInv, TypeOK
<1> QED
  BY <1>1, <1>2, <1>3, <1>4

LEMMA TypeStep == TypeInv /\ [Next]_vars => TypeInv'
<1> SUFFICES ASSUME TypeInv, [Next]_vars PROVE TypeInv'
  OBVIOUS
<1> USE BoundsAssumption
<1>0. TypeOK /\ Stage
  BY DEF TypeInv
<1>a. FlowOverlaps => overlaps' \subseteq 1..MaxUpdates
  BY <1>0 DEF FlowOverlaps, TypeOK, Stage
<1>1. CASE FlowBegins
  <2>1. TypeOK'
    <3>1. /\ inv' \in [Notifiers -> Invocation]
          /\ UNCHANGED <<doc, at, done, told, failures, deaths, pushes, updates>>
          /\ tries' \in {tries, 1}
          /\ overlaps' = overlaps \/ FlowOverlaps
      BY <1>1, FlowBeginFacts
    <3>2. overlaps' \subseteq 1..MaxUpdates
      BY <1>0, <1>a, <3>1 DEF TypeOK
    <3>3. tries' \in 0..Tries
      BY <1>0, <3>1 DEF TypeOK, Tries
    <3> QED
      BY <1>0, <3>1, <3>2, <3>3 DEF TypeOK
  <2>2. Stage'
    <3>1. /\ inv'["flow"].step = 1 /\ inv'["update"] = inv["update"] /\ FlowRests
          /\ UNCHANGED <<at, pushes, deaths, updates>>
          /\ tries' = tries \/ (at = "working" /\ tries' = 1)
          /\ at = "working" => /\ inv'["flow"].goto = "over"
                               /\ inv'["flow"].st.status \in {"rca_only", "needs_human"}
          /\ inv'["flow"].st.status \notin {"pr_open", "grooming"}
          /\ inv'["flow"].goto \notin {"triage", "retrying"}
          /\ inv'["flow"].goto \in {"approval", "working"} => at \in {"triage", "approval"}
          /\ at # "over" /\ at # "retrying"
      BY <1>1, FlowBeginFacts
    <3>2. deaths \in Nat
      BY <1>0 DEF TypeOK
    <3> QED
      BY <1>0, <3>1, <3>2 DEF Stage, FlowRests, Reporting, Pushed, Outcomes
  <2> QED
    BY <2>1, <2>2 DEF TypeInv
<1>2. CASE AfterPush
  <2>1. TypeOK'
    BY <1>0, <1>2, <1>a, AfterPushFacts DEF TypeOK, Tries
  <2>2. Stage'
    <3>1. deaths \in Nat /\ pushes \in Nat
      BY <1>0 DEF TypeOK
    <3> QED
      BY <1>0, <1>2, <3>1, AfterPushFacts DEF Stage, FlowRests, Reporting, Pushed, Outcomes
  <2> QED
    BY <2>1, <2>2 DEF TypeInv
<1>3. CASE Resume
  BY <1>0, <1>3 DEF Resume, world, TypeInv, TypeOK, Stage, FlowRests, Position, Reporting, Pushed,
                     Tries
<1>7. CASE AfterRunRetried
  <2>1. TypeOK'
    BY <1>0, <1>7, <1>a, RetryFacts DEF TypeOK
  <2>2. Stage'
    <3>1. deaths \in Nat /\ tries \in Nat
      BY <1>0 DEF TypeOK
    <3> QED
      BY <1>0, <1>7, <3>1, RetryFacts DEF Stage, FlowRests, Reporting
  <2> QED
    BY <2>1, <2>2 DEF TypeInv
<1>8. CASE AfterRunDies
  <2>1. TypeOK'
    BY <1>0, <1>8, DeathFacts DEF TypeOK, Position
  <2>2. Stage'
    <3>1. deaths \in Nat /\ tries \in Nat
      BY <1>0 DEF TypeOK
    <3> QED
      BY <1>0, <1>8, <3>1, DeathFacts DEF Stage, FlowRests, Reporting, Pushed
  <2> QED
    BY <2>1, <2>2 DEF TypeInv
<1>4. CASE HandleUpdate
  <2>1. TypeOK'
    <3>1. /\ updates \in 0..MaxUpdates /\ updates < MaxUpdates /\ updates' = updates + 1
          /\ overlaps \subseteq 1..MaxUpdates
          /\ overlaps' \subseteq overlaps \cup {updates + 1}
      BY <1>0, <1>4, HandleUpdateFacts DEF TypeOK
    <3>2. updates' \in 0..MaxUpdates /\ overlaps' \subseteq 1..MaxUpdates
      BY <3>1
    <3> QED
      BY <1>0, <1>4, <3>2, HandleUpdateFacts DEF TypeOK
  <2>2. Stage'
    BY <1>0, <1>4, HandleUpdateFacts DEF Stage, FlowRests, TypeOK, Reporting, Pushed
  <2> QED
    BY <2>1, <2>2 DEF TypeInv
<1>5. ASSUME NEW n \in Notifiers, Put(n) PROVE TypeInv'
  <2>1. TypeOK'
    <3>1. at' \in Position
      <4>1. at' \in {at, inv[n].goto} /\ inv[n] \in Invocation
        BY <1>0, <1>5, PutFacts DEF TypeOK
      <4> QED
        BY <1>0, <4>1 DEF TypeOK, Invocation
    <3> QED
      BY <1>0, <1>5, <3>1, PutFacts DEF TypeOK
  <2>2. Stage'
    <3>1. CASE n = "flow"
      <4>0. "update" \in Notifiers /\ Idle.step = 0 /\ Idle.goto = "over"
        BY DEF Notifiers, Idle
      <4>1. /\ at' = inv["flow"].goto /\ inv'["flow"].step = 0 /\ inv["flow"].step = 3
            /\ inv'["update"] = inv["update"] /\ pushes' = pushes /\ updates' = updates
            /\ inv'["flow"].goto = "over" /\ tries' = tries /\ deaths' = deaths
        BY <1>5, <3>1, <4>0, PutFacts
      <4>2. at' # "triage"
        BY <1>0, <4>1 DEF Stage, FlowRests
      <4>3. at' # "retrying" /\ ~Reporting'
        BY <1>0, <4>1 DEF Stage, FlowRests, Reporting
      <4> QED
        BY <1>0, <4>1, <4>2, <4>3 DEF Stage, FlowRests, TypeOK
    <3>2. CASE n = "update"
      BY <1>0, <1>5, <3>2, PutFacts, Names DEF Stage, FlowRests, Idle, Reporting, Pushed
    <3> QED
      BY <3>1, <3>2 DEF Notifiers
  <2> QED
    BY <2>1, <2>2 DEF TypeInv
<1>6. CASE UNCHANGED vars
  BY <1>0, <1>6 DEF vars, TypeInv, TypeOK, Stage, FlowRests, Reporting, Pushed
<1> QED
  BY <1>1, <1>2, <1>3, <1>4, <1>5, <1>6, <1>7, <1>8, StepCases, NotifyType

LEMMA InitialTypes == Init => TypeInv
<1> SUFFICES ASSUME Init PROVE TypeInv
  OBVIOUS
<1>1. Claimed \in Doc
  BY DocTypes, Zenon
<1>2. TypeOK
  BY <1>1, IdleType, BoundsAssumption DEF Init, TypeOK, Position, Status, Tries
<1>3. Stage
  BY Names DEF Init, Stage, FlowRests, Idle, Reporting
<1> QED
  BY <1>2, <1>3 DEF TypeInv

LEMMA TypesAlways == Spec => []TypeInv
  BY InitialTypes, TypeStep, PTL DEF Spec

(* Every variable keeps its type: the pull request, thread and push of a   *)
(* document, the steps of _notify and the counters of calls, and no more   *)
(* runs push than the budget has (issue.asl.json, CheckBudget).            *)
THEOREM OutputTypes == Spec => []TypeOK
<1>1. TypeInv => TypeOK
  BY DEF TypeInv
<1> QED
  BY <1>1, TypesAlways, PTL

-----------------------------------------------------------------------------
(* What one output does                                                     *)

Page == <<"page", 0>>
NewThread == <<"newThread", 0>>
OpenPr == <<"openPr", 0>>
PushComment(p) == <<"pushComment", p>>

Answers(st, prev) == st.status = "grooming" /\ st.pr # 0 /\ NewPush(st, prev)

LEMMA GitHubCallFacts ==
  ASSUME NEW st \in Doc, NEW prev \in Previous, NEW calls \in GitHubCalls(st, prev)
  PROVE  /\ Len(calls) \in Nat
         /\ \A i \in 1..Len(calls) :
              /\ calls[i] # Page /\ calls[i] # NewThread
              /\ calls[i] = OpenPr => Opens(st)
              /\ \A p : calls[i] = PushComment(p) => Answers(st, prev) /\ p = st.push
         /\ Opens(st) => Len(calls) >= 1 /\ calls[1] = OpenPr
         /\ Answers(st, prev) => Len(calls) >= 1 /\ calls[1] = PushComment(st.push)
<1> USE DEF Page, NewThread, OpenPr, PushComment
<1>1. CASE Opens(st)
  <2>1. calls = << <<"openPr", 0>>, <<"label", 0>> >>
    BY <1>1 DEF GitHubCalls, Opens, Changed
  <2>2. ~Answers(st, prev)
    BY <1>1 DEF Opens, Answers
  <2> QED
    BY <1>1, <2>1, <2>2
<1>2. CASE Answers(st, prev)
  <2>1. ~Opens(st)
    BY <1>2 DEF Opens, Answers
  <2>2. PICK n \in 1..3 :
          calls = SubSeq(<< <<"pushComment", st.push>>, <<"reply", st.push>>,
                            <<"resolve", st.push>> >>, 1, n)
    BY <1>2, <2>1 DEF GitHubCalls, Answers, Changed
  <2> DEFINE all == << <<"pushComment", st.push>>, <<"reply", st.push>>,
                       <<"resolve", st.push>> >>
             made == {<<"pushComment", st.push>>, <<"reply", st.push>>,
                      <<"resolve", st.push>>}
  <2>3. \A i \in 1..n : all[i] \in made
    OBVIOUS
  <2>4. all[1] = <<"pushComment", st.push>>
    OBVIOUS
  <2>5. calls = SubSeq(all, 1, n)
    BY <2>2
  <2> HIDE DEF all, made
  <2>6. /\ Len(calls) = n /\ n \in Nat /\ n >= 1
        /\ \A i \in 1..n : calls[i] = all[i]
    BY <2>3, <2>5, SubSeqProperties
  <2>7. calls[1] = <<"pushComment", st.push>> /\ \A i \in 1..n : calls[i] \in made
    BY <2>3, <2>4, <2>6
  <2>8. \A c \in made : /\ c # Page /\ c # NewThread /\ c # OpenPr
                        /\ \A p : c = PushComment(p) => p = st.push
    BY DEF made
  <2> QED
    BY <1>2, <2>1, <2>6, <2>7, <2>8
<1>3. CASE ~Opens(st) /\ ~Answers(st, prev)
  <2>1. calls \in {<< <<"markReady", 0>>, <<"readyComment", 0>> >>,
                   << <<"markReady", 0>>, <<"askReviewers", 0>>, <<"readyComment", 0>> >>,
                   << <<"humanLabel", 0>>, <<"humanComment", 0>> >>,
                   <<>>}
    BY <1>3 DEF GitHubCalls, Answers
  <2>2. CASE calls = << <<"markReady", 0>>, <<"readyComment", 0>> >>
    BY <1>3, <2>2
  <2>3. CASE calls = << <<"markReady", 0>>, <<"askReviewers", 0>>, <<"readyComment", 0>> >>
    BY <1>3, <2>3
  <2>4. CASE calls = << <<"humanLabel", 0>>, <<"humanComment", 0>> >>
    BY <1>3, <2>4
  <2>5. CASE calls = <<>>
    BY <1>3, <2>5
  <2> QED
    BY <2>1, <2>2, <2>3, <2>4, <2>5
<1> QED
  BY <1>1, <1>2, <1>3

LEMMA SlackCallFacts ==
  ASSUME NEW st \in Doc, NEW prev \in Previous
  PROVE  LET calls == SlackCalls(st, prev)
         IN  /\ Len(calls) \in Nat
             /\ \A i \in 1..Len(calls) :
                  /\ calls[i] # OpenPr /\ \A p : calls[i] # PushComment(p)
                  /\ calls[i] = Page => ~st.paged
                  /\ calls[i] = NewThread => Message(st, prev) = <<NewThread>>
             /\ ~st.paged => \E i \in 1..Len(calls) : calls[i] = Page
             /\ Message(st, prev) = <<NewThread>> =>
                  \E i \in 1..Len(calls) : calls[i] = NewThread
<1> USE DEF Page, NewThread, OpenPr, PushComment
<1>1. Message(st, prev) \in {<<>>, << <<"newThread", 0>> >>, << <<"inThread", 0>> >>}
  BY DEF Message
<1> DEFINE T == {<<"page", 0>>, <<"newThread", 0>>, <<"inThread", 0>>}
           first == IF st.paged THEN <<>> ELSE << <<"page", 0>> >>
           second == Message(st, prev)
           calls == SlackCalls(st, prev)
<1>2. first \in Seq(T) /\ second \in Seq(T)
  <2>1. <<>> \in Seq(T) /\ \A c \in T : <<c>> \in Seq(T)
    <3> HIDE DEF T
    <3> QED
      OBVIOUS
  <2>2. first \in {<<>>, << <<"page", 0>> >>}
    OBVIOUS
  <2>3. <<"page", 0>> \in T /\ <<"newThread", 0>> \in T /\ <<"inThread", 0>> \in T
    OBVIOUS
  <2>4. second \in {<<>>, << <<"newThread", 0>> >>, << <<"inThread", 0>> >>}
    BY <1>1
  <2> HIDE DEF first, second, T
  <2> QED
    BY <2>1, <2>2, <2>3, <2>4
<1>3. /\ st.paged => Len(first) = 0
      /\ ~st.paged => Len(first) = 1 /\ first[1] = <<"page", 0>>
      /\ second = <<>> => Len(second) = 0
      /\ second # <<>> => Len(second) = 1
      /\ second = << <<"newThread", 0>> >> => second[1] = <<"newThread", 0>>
      /\ second = << <<"inThread", 0>> >> => second[1] = <<"inThread", 0>>
  BY <1>1 DEF Doc
<1>4. calls = first \o second
  BY DEF SlackCalls
<1> HIDE DEF first, second, calls, T
<1>5. /\ Len(calls) = Len(first) + Len(second)
      /\ \A i \in 1..Len(first) + Len(second) :
           calls[i] = IF i <= Len(first) THEN first[i] ELSE second[i - Len(first)]
  BY <1>2, <1>4, ConcatProperties
<1>6. Len(calls) \in Nat
  BY <1>2, <1>4, ConcatProperties
<1>7. ASSUME NEW i \in 1..Len(calls)
      PROVE  \/ ~st.paged /\ calls[i] = <<"page", 0>>
             \/ second \in {<< <<"newThread", 0>> >>, << <<"inThread", 0>> >>} /\ calls[i] = second[1]
  BY <1>1, <1>3, <1>5, <1>7 DEF second
<1>8. ASSUME ~st.paged PROVE 1 \in 1..Len(calls) /\ calls[1] = <<"page", 0>>
  BY <1>1, <1>3, <1>5, <1>8 DEF second
<1>9. ASSUME second # <<>>
      PROVE  Len(calls) \in 1..Len(calls) /\ calls[Len(calls)] = second[1]
  <2>1. Len(second) = 1 /\ Len(first) \in {0, 1} /\ Len(calls) = Len(first) + 1
    BY <1>3, <1>5, <1>9 DEF first
  <2>2. calls[Len(first) + 1] = second[1]
    BY <1>5, <2>1
  <2> QED
    BY <2>1, <2>2
<1>10. second # <<>> <=> second \in {<< <<"newThread", 0>> >>, << <<"inThread", 0>> >>}
  BY <1>1 DEF second
<1>11. \A i \in 1..Len(calls) :
         /\ calls[i] # OpenPr /\ \A p : calls[i] # PushComment(p)
         /\ calls[i] = Page => ~st.paged
         /\ calls[i] = NewThread => second = << <<"newThread", 0>> >>
  BY <1>3, <1>7
<1>12. second = << <<"newThread", 0>> >> => \E i \in 1..Len(calls) : calls[i] = <<"newThread", 0>>
  BY <1>3, <1>9
<1> QED
  BY <1>6, <1>8, <1>11, <1>12 DEF second, calls
\* the output has had its turn in the invocation of n
Ran(n, output) == \E k \in 1..2 : k < inv[n].step /\ Order[k] = output

LEMMA RanFacts ==
  ASSUME TypeInv, NEW n \in Notifiers
  PROVE  /\ inv[n].step \in 0..3
         /\ inv[n].step \in {0, 1} => ~Ran(n, "github") /\ ~Ran(n, "slack")
         /\ inv[n].step = 3 => Ran(n, "github") /\ Ran(n, "slack")
<1>1. inv[n].step \in 0..3
  BY DEF TypeInv, TypeOK, Invocation
<1> QED
  BY <1>1, OrderAssumption DEF Ran

\* Each output has one turn
LEMMA TurnFacts ==
  ASSUME TypeInv, NEW n \in Notifiers, NEW output \in {"github", "slack"}, Works(n, output),
         inv'[n].step = inv[n].step + 1
  PROVE  /\ ~Ran(n, output) /\ Ran(n, output)'
         /\ \A other \in {"github", "slack"} : other # output => (Ran(n, other)' <=> Ran(n, other))
<1>1. inv[n].step \in 0..3
  BY DEF TypeInv, TypeOK, Invocation
<1>2. inv[n].step \in 1..2 /\ Order[inv[n].step] = output
  <2>1. DOMAIN Order = 1..2
    BY OrderAssumption
  <2> QED
    BY <2>1 DEF Works
<1>3. CASE Order = <<"github", "slack">>
  BY <1>1, <1>2, <1>3 DEF Ran
<1>4. CASE Order = <<"slack", "github">>
  BY <1>1, <1>2, <1>4 DEF Ran
<1> QED
  BY <1>3, <1>4, OrderAssumption

\* The GitHub output has pages and threads as they were, and counts a push once
LEMMA GitHubStep ==
  ASSUME TypeInv, NEW n \in Notifiers, GitHubNotify(n)
  PROVE  LET st == inv[n].st
             prev == inv[n].prev
             new == inv'[n].st
         IN  /\ ~Ran(n, "github") /\ Ran(n, "github")' /\ (Ran(n, "slack")' <=> Ran(n, "slack"))
             /\ new.status = st.status /\ new.paged = st.paged /\ new.thread = st.thread
             /\ new.push = st.push
             /\ done'[Page] = done[Page] /\ done'[NewThread] = done[NewThread] /\ told' = told
             /\ failures' \in {failures, failures + 1}
             /\ \A p \in 1..MaxRuns :
                  \/ done'[PushComment(p)] = done[PushComment(p)]
                  \/ /\ Answers(st, prev) /\ p = st.push
                     /\ done'[PushComment(p)] = done[PushComment(p)] + 1
             /\ failures' = failures =>
                  /\ Opens(st) /\ done[OpenPr] = 0 => new.pr = 1 /\ done'[OpenPr] = 1
                  /\ ~Opens(st) => new.pr = st.pr /\ done'[OpenPr] = done[OpenPr]
                  /\ \A p \in 1..MaxRuns :
                       Answers(st, prev) /\ p = st.push =>
                         done'[PushComment(p)] = done[PushComment(p)] + 1
<1> DEFINE st == inv[n].st
           prev == inv[n].prev
           new == inv'[n].st
<1>1. /\ TypeOK /\ st \in Doc /\ prev \in Previous /\ inv[n] \in Invocation
      /\ failures \in Nat /\ done \in [Call -> Nat]
  BY DEF TypeInv, TypeOK, Invocation
<1>2. /\ Page \in Call /\ NewThread \in Call /\ OpenPr \in Call
      /\ \A p \in 1..MaxRuns : PushComment(p) \in Call
  BY Names DEF Page, NewThread, OpenPr, PushComment
<1>3. ~Ran(n, "github") /\ Ran(n, "github")' /\ (Ran(n, "slack")' <=> Ran(n, "slack"))
  <2>1. inv'[n].step = inv[n].step + 1 /\ Works(n, "github")
    BY NotifyFacts DEF GitHubNotify
  <2> QED
    BY <2>1, TurnFacts
<1>4. new \in {st, GitHubReturn(st)}
  BY NotifyFacts
<1>5. /\ GitHubReturn(st).status = st.status /\ GitHubReturn(st).paged = st.paged
      /\ GitHubReturn(st).thread = st.thread /\ GitHubReturn(st).push = st.push
      /\ GitHubReturn(st).pr = IF Opens(st) THEN 1 ELSE st.pr
  BY <1>1 DEF GitHubReturn, Doc
<1>6. CASE Refused(st, prev)
  <2>1. done' = done /\ failures' = failures /\ told' = told /\ Next1(n, st)
    BY <1>6 DEF GitHubNotify
  <2>2. new = st
    BY <1>1, <2>1 DEF Next1, TypeOK, Invocation
  <2>3. ~Answers(st, prev) /\ (Opens(st) => done[OpenPr] > 0)
    BY <1>6 DEF Refused, Answers, Opens, Changed, OpenPr
  <2> QED
    BY <1>1, <1>2, <1>3, <2>1, <2>2, <2>3
<1>7. CASE ~Refused(st, prev)
  <2>1. PICK calls \in GitHubCalls(st, prev) :
          /\ told' = told
          /\ \/ /\ Performed(calls, Len(calls))
                /\ Next1(n, GitHubReturn(st))
                /\ failures' = failures
             \/ /\ failures' = failures + 1
                /\ \E k \in 0..Len(calls) : Performed(calls, k)
                /\ Next1(n, st)
    BY <1>7 DEF GitHubNotify
  <2>2. PICK k \in 0..Len(calls) :
          /\ Performed(calls, k)
          /\ \/ failures' = failures + 1
             \/ failures' = failures /\ k = Len(calls) /\ Next1(n, GitHubReturn(st))
    BY <1>1, <2>1, GitHubCallFacts
  <2>3. \A c \in Call : done'[c] = done[c] + IF \E i \in 1..k : calls[i] = c THEN 1 ELSE 0
    BY <1>1, <2>2, PerformedType
  <2>4. \A i \in 1..k : i \in 1..Len(calls)
    BY <1>1, GitHubCallFacts
  <2>5. done'[Page] = done[Page] /\ done'[NewThread] = done[NewThread]
    BY <1>1, <1>2, <2>3, <2>4, GitHubCallFacts
  <2>6. ASSUME NEW p \in 1..MaxRuns
        PROVE  \/ done'[PushComment(p)] = done[PushComment(p)]
               \/ /\ Answers(st, prev) /\ p = st.push
                  /\ done'[PushComment(p)] = done[PushComment(p)] + 1
    <3>1. (\E i \in 1..k : calls[i] = PushComment(p)) => Answers(st, prev) /\ p = st.push
      BY <1>1, <2>4, GitHubCallFacts
    <3> QED
      BY <1>1, <1>2, <2>3, <3>1
  <2>7. ASSUME failures' = failures
        PROVE  /\ Opens(st) /\ done[OpenPr] = 0 => new.pr = 1 /\ done'[OpenPr] = 1
               /\ ~Opens(st) => new.pr = st.pr /\ done'[OpenPr] = done[OpenPr]
               /\ \A p \in 1..MaxRuns :
                    Answers(st, prev) /\ p = st.push =>
                      done'[PushComment(p)] = done[PushComment(p)] + 1
    <3>1. k = Len(calls) /\ new = GitHubReturn(st)
      BY <1>1, <2>2, <2>7 DEF Next1, TypeOK, Invocation
    <3>2. Opens(st) => done'[OpenPr] = done[OpenPr] + 1
      <4>1. Opens(st) => \E i \in 1..k : calls[i] = OpenPr
        BY <1>1, <3>1, GitHubCallFacts
      <4> QED
        BY <1>2, <2>3, <4>1
    <3>3. ~Opens(st) => done'[OpenPr] = done[OpenPr]
      <4>1. ~Opens(st) => ~\E i \in 1..k : calls[i] = OpenPr
        BY <1>1, <2>4, GitHubCallFacts
      <4> QED
        BY <1>1, <1>2, <2>3, <4>1
    <3>4. ASSUME NEW p \in 1..MaxRuns, Answers(st, prev), p = st.push
          PROVE  done'[PushComment(p)] = done[PushComment(p)] + 1
      <4>1. \E i \in 1..k : calls[i] = PushComment(p)
        BY <1>1, <3>1, <3>4, GitHubCallFacts
      <4> QED
        BY <1>2, <2>3, <4>1
    <3> QED
      BY <1>5, <3>1, <3>2, <3>3, <3>4
  <2> QED
    BY <1>3, <1>4, <1>5, <2>1, <2>2, <2>5, <2>6, <2>7
<1> QED
  BY <1>6, <1>7

\* The Slack output has pull requests and answers as they were
LEMMA SlackStep ==
  ASSUME TypeInv, NEW n \in Notifiers, SlackNotify(n)
  PROVE  LET st == inv[n].st
             prev == inv[n].prev
             new == inv'[n].st
             begins == Message(st, prev) = <<NewThread>>
         IN  /\ ~Ran(n, "slack") /\ Ran(n, "slack")' /\ (Ran(n, "github")' <=> Ran(n, "github"))
             /\ new.status = st.status /\ new.pr = st.pr /\ new.push = st.push
             /\ done'[OpenPr] = done[OpenPr]
             /\ \A p \in 1..MaxRuns : done'[PushComment(p)] = done[PushComment(p)]
             /\ \/ /\ failures' = failures /\ Told(st, prev)
                   /\ done'[Page] = done[Page] + (IF st.paged THEN 0 ELSE 1)
                   /\ new.paged
                   /\ done'[NewThread] = done[NewThread] + (IF begins THEN 1 ELSE 0)
                   /\ new.thread = IF begins THEN done'[NewThread] ELSE st.thread
                \/ /\ failures' = failures + 1 /\ new = st
                   /\ done'[Page] \in {done[Page], done[Page] + (IF st.paged THEN 0 ELSE 1)}
                   /\ done'[NewThread] \in {done[NewThread],
                                            done[NewThread] + (IF begins THEN 1 ELSE 0)}
<1> DEFINE st == inv[n].st
           prev == inv[n].prev
           new == inv'[n].st
           begins == Message(st, prev) = <<NewThread>>
           calls == SlackCalls(st, prev)
<1>1. /\ TypeOK /\ st \in Doc /\ prev \in Previous /\ inv[n] \in Invocation
      /\ failures \in Nat /\ done \in [Call -> Nat] /\ st.paged \in BOOLEAN
  BY DEF TypeInv, TypeOK, Invocation, Doc
<1>2. /\ Page \in Call /\ NewThread \in Call /\ OpenPr \in Call
      /\ \A p \in 1..MaxRuns : PushComment(p) \in Call
  BY Names DEF Page, NewThread, OpenPr, PushComment
<1>3. ~Ran(n, "slack") /\ Ran(n, "slack")' /\ (Ran(n, "github")' <=> Ran(n, "github"))
  <2>1. inv'[n].step = inv[n].step + 1 /\ Works(n, "slack")
    BY NotifyFacts DEF SlackNotify
  <2> QED
    BY <2>1, TurnFacts
<1>4. new \in {st, SlackReturn(st, prev)}
  BY NotifyFacts
<1>5. /\ SlackReturn(st, prev).status = st.status /\ SlackReturn(st, prev).pr = st.pr
      /\ SlackReturn(st, prev).push = st.push /\ SlackReturn(st, prev).paged
      /\ SlackReturn(st, prev).thread = IF begins THEN done[NewThread] + 1 ELSE st.thread
  BY <1>1 DEF SlackReturn, Doc, NewThread
<1>6. PICK k \in 0..Len(calls) :
        /\ Performed(calls, k)
        /\ \/ failures' = failures + 1 /\ Next1(n, st)
           \/ /\ failures' = failures /\ k = Len(calls) /\ Told(st, prev)
              /\ Next1(n, SlackReturn(st, prev))
  <2>1. Len(calls) \in Nat
    BY <1>1, SlackCallFacts
  <2> QED
    BY <2>1 DEF SlackNotify
<1>7. \A c \in Call : done'[c] = done[c] + IF \E i \in 1..k : calls[i] = c THEN 1 ELSE 0
  BY <1>1, <1>6, PerformedType
<1> HIDE DEF calls
<1>8. /\ Len(calls) \in Nat
      /\ \A i \in 1..Len(calls) :
           /\ calls[i] # OpenPr /\ \A p : calls[i] # PushComment(p)
           /\ calls[i] = Page => ~st.paged
           /\ calls[i] = NewThread => begins
      /\ ~st.paged => \E i \in 1..Len(calls) : calls[i] = Page
      /\ begins => \E i \in 1..Len(calls) : calls[i] = NewThread
  BY <1>1, SlackCallFacts DEF calls
<1>9. \A i \in 1..k : i \in 1..Len(calls)
  BY <1>8
<1>10. /\ done'[OpenPr] = done[OpenPr]
       /\ \A p \in 1..MaxRuns : done'[PushComment(p)] = done[PushComment(p)]
  <2>1. ASSUME NEW c \in Call, \A i \in 1..Len(calls) : calls[i] # c
        PROVE  done'[c] = done[c]
    <3>1. ~\E i \in 1..k : calls[i] = c
      BY <1>9, <2>1
    <3> QED
      BY <1>1, <1>7, <3>1
  <2>2. \A i \in 1..Len(calls) : calls[i] # OpenPr /\ \A p : calls[i] # PushComment(p)
    BY <1>8
  <2> QED
    BY <1>2, <2>1, <2>2
<1>11. /\ done'[Page] \in {done[Page], done[Page] + (IF st.paged THEN 0 ELSE 1)}
       /\ done'[NewThread] \in {done[NewThread], done[NewThread] + (IF begins THEN 1 ELSE 0)}
  <2>1. st.paged => ~\E i \in 1..k : calls[i] = Page
    BY <1>8, <1>9
  <2>2. ~begins => ~\E i \in 1..k : calls[i] = NewThread
    BY <1>8, <1>9
  <2>3. \A c \in Call : done'[c] \in {done[c], done[c] + 1}
    BY <1>1, <1>7
  <2>4. /\ st.paged => done'[Page] = done[Page]
        /\ ~begins => done'[NewThread] = done[NewThread]
    BY <1>1, <1>2, <1>7, <2>1, <2>2
  <2> QED
    BY <1>2, <2>3, <2>4
<1>12. CASE failures' = failures + 1 /\ Next1(n, st)
  <2>1. new = st
    BY <1>1, <1>12 DEF Next1, TypeOK, Invocation
  <2> QED
    BY <1>3, <1>10, <1>11, <1>12, <2>1
<1>13. CASE /\ failures' = failures /\ k = Len(calls) /\ Told(st, prev)
            /\ Next1(n, SlackReturn(st, prev))
  <2>1. new = SlackReturn(st, prev)
    BY <1>1, <1>13 DEF Next1, TypeOK, Invocation
  <2>2. /\ done'[Page] = done[Page] + (IF st.paged THEN 0 ELSE 1)
        /\ done'[NewThread] = done[NewThread] + (IF begins THEN 1 ELSE 0)
    BY <1>1, <1>2, <1>7, <1>8, <1>9, <1>13
  <2> QED
    BY <1>3, <1>5, <1>10, <1>13, <2>1, <2>2
<1> QED
  BY <1>6, <1>12, <1>13
-----------------------------------------------------------------------------
(* Pages and threads: what is still owed                                    *)

\* An update shows the outputs the state of the row twice, and has been noted
\* as an overlap if the flow is at work beside it
UpdateInv ==
  /\ overlaps \subseteq 1..updates
  /\ inv["update"].step # 0 =>
       /\ ~FlowRests \/ at = "triage" => updates \in overlaps
       /\ inv["update"].st.status = inv["update"].prev.status
       /\ inv["update"].st.push = inv["update"].prev.push

\* Triage begins from nothing, and only triage asks for an approval
FlowInv ==
  ~FlowRests =>
    /\ at = "triage" => /\ inv["flow"].st.status \in FlowStatus /\ ~Pushed("flow")
                        /\ inv["flow"].prev.status \in {"none", "triaged"}
    /\ inv["flow"].st.status = "awaiting_approval" /\ ~Ran("flow", "slack") =>
         inv["flow"].st.thread = 0

LEMMA TroubleFacts ==
  ASSUME TypeInv
  PROVE  /\ Trouble \in Nat /\ IsFiniteSet(overlaps)
         /\ Untroubled <=> failures = 0 /\ deaths = 0 /\ overlaps = {}
         /\ overlaps' = overlaps /\ failures' \in Int /\ deaths' \in Int =>
              Trouble' = Trouble + (failures' - failures) + (deaths' - deaths)
         /\ \A u : /\ failures' = failures /\ deaths' = deaths
                  /\ overlaps' = overlaps \cup {u} /\ u \notin overlaps
                  => Trouble' = Trouble + 1
<1>1. failures \in Nat /\ deaths \in Nat /\ overlaps \subseteq 1..MaxUpdates
  BY BoundsAssumption DEF TypeInv, TypeOK
<1>2. IsFiniteSet(overlaps)
  <2>1. IsFiniteSet(1..MaxUpdates)
    BY BoundsAssumption, FS_Interval
  <2> QED
    BY <1>1, <2>1, FS_Subset
<1>3. Cardinality(overlaps) \in Nat /\ (Cardinality(overlaps) = 0 <=> overlaps = {})
  BY <1>2, FS_CardinalityType, FS_EmptySet
<1>4. ASSUME NEW u, failures' = failures, deaths' = deaths, overlaps' = overlaps \cup {u},
             u \notin overlaps
      PROVE  Trouble' = Trouble + 1
  <2>1. Cardinality(overlaps \cup {u}) = Cardinality(overlaps) + 1
    BY <1>2, <1>4, FS_AddElement
  <2> QED
    BY <1>1, <1>3, <1>4, <2>1 DEF Trouble
<1>5. ASSUME overlaps' = overlaps, failures' \in Int, deaths' \in Int
      PROVE  Trouble' = Trouble + (failures' - failures) + (deaths' - deaths)
  BY <1>1, <1>3, <1>5 DEF Trouble
<1>6. Untroubled <=> failures = 0 /\ deaths = 0 /\ overlaps = {}
  BY <1>1, <1>3 DEF Trouble, Untroubled
<1> QED
  BY <1>1, <1>2, <1>3, <1>4, <1>5, <1>6 DEF Trouble
\* The flow begins a call
FlowCalls == FlowBegins \/ AfterPush \/ AfterRunRetried

LEMMA FlowCallFacts ==
  ASSUME TypeInv, FlowCalls
  PROVE  LET f == inv'["flow"]
         IN  /\ FlowRests /\ f.step = 1 /\ inv'["update"] = inv["update"]
             /\ UNCHANGED <<doc, at, done, told, failures, deaths, updates>>
             /\ f.st.status \in FlowStatus
             /\ f.st.status = "awaiting_approval" => at = "triage"
             /\ at = "triage" => /\ f.st.status \notin {"pr_open", "grooming"}
                                 /\ f.prev.status \in {"none", "triaged"}
                                 /\ f.st.paged = Claimed.paged /\ f.st.thread = Claimed.thread
                                 /\ overlaps' = overlaps
             /\ at # "triage" => /\ f.prev = doc /\ FlowOverlaps
                                 /\ f.st.paged = doc.paged /\ f.st.thread = doc.thread
<1>1. CASE FlowBegins
  BY <1>1, FlowBeginFacts DEF Same
<1>2. CASE AfterPush
  BY <1>2, AfterPushFacts DEF FlowStatus
<1>3. CASE AfterRunRetried
  BY <1>3, RetryFacts DEF FlowStatus, Outcomes
<1> QED
  BY <1>1, <1>2, <1>3 DEF FlowCalls

\* What either output does to the invocation it works for
LEMMA NotifyStep ==
  ASSUME TypeInv, NEW n \in Notifiers, GitHubNotify(n) \/ SlackNotify(n)
  PROVE  /\ inv[n].step \in 1..2 /\ inv'[n].step # 0 /\ inv'[n].prev = inv[n].prev
         /\ inv'[n].st.status = inv[n].st.status /\ inv'[n].st.push = inv[n].st.push
         /\ Ran(n, "slack") => Ran(n, "slack")'
         /\ Ran(n, "github") => Ran(n, "github")'
         /\ failures' \in {failures, failures + 1} /\ failures \in Nat
         /\ \A m \in Notifiers : m # n => inv'[m] = inv[m]
         /\ UNCHANGED <<doc, at, pushes, tries, deaths, updates, overlaps>>
<1>1. /\ inv[n].step \in 1..2 /\ inv'[n].step = inv[n].step + 1 /\ inv'[n].prev = inv[n].prev
      /\ \A m \in Notifiers : m # n => inv'[m] = inv[m]
      /\ UNCHANGED <<doc, at, pushes, tries, deaths, updates, overlaps>>
  BY NotifyFacts
<1>2. failures \in Nat
  BY DEF TypeInv, TypeOK
<1>3. CASE GitHubNotify(n)
  BY <1>1, <1>2, <1>3, GitHubStep
<1>4. CASE SlackNotify(n)
  BY <1>1, <1>2, <1>4, SlackStep
<1> QED
  BY <1>3, <1>4

LEMMA UpdateStep == TypeInv /\ UpdateInv /\ [Next]_vars => UpdateInv'
<1> SUFFICES ASSUME TypeInv, UpdateInv, [Next]_vars PROVE UpdateInv'
  OBVIOUS
<1>0. TypeOK /\ Stage /\ updates \in Nat /\ overlaps \subseteq 1..updates
  BY DEF TypeInv, TypeOK, UpdateInv
<1> DEFINE U(u) ==
             u.step # 0 => u.st.status = u.prev.status /\ u.st.push = u.prev.push
<1>a. U(inv["update"]) /\ (inv["update"].step # 0 /\ (~FlowRests \/ at = "triage") => updates \in overlaps)
  BY DEF UpdateInv
<1>b. /\ updates' = updates /\ overlaps' = overlaps => overlaps' \subseteq 1..updates'
      /\ inv'["update"] = inv["update"] => U(inv'["update"])
  BY <1>0, <1>a
<1>1. CASE FlowCalls
  <2>1. /\ inv'["update"] = inv["update"] /\ at' = at /\ updates' = updates
        /\ at = "triage" => overlaps' = overlaps
        /\ at # "triage" => overlaps' = IF inv["update"].step # 0
                                        THEN overlaps \cup {updates} ELSE overlaps
    BY <1>1, FlowCallFacts DEF FlowOverlaps
  <2>2. inv["update"].step # 0 => updates \in 1..updates
    BY <1>0 DEF Stage
  <2>3. overlaps' \subseteq 1..updates /\ (inv["update"].step # 0 => updates \in overlaps')
    BY <1>0, <1>a, <2>1, <2>2
  <2> QED
    BY <1>b, <2>1, <2>3 DEF UpdateInv
<1>2. CASE Resume
  BY <1>0, <1>a, <1>2 DEF Resume, FlowRests, world, UpdateInv
<1>3. CASE HandleUpdate
  <2>1. /\ updates' = updates + 1 /\ inv'["flow"] = inv["flow"] /\ at' = at
        /\ inv'["update"] = [step |-> 1, st |-> doc, prev |-> doc, goto |-> "over"]
        /\ overlaps' = (IF ~FlowRests \/ at = "triage" THEN overlaps \cup {updates + 1}
                        ELSE overlaps)
    BY <1>3, HandleUpdateFacts
  <2>2. overlaps' \subseteq 1..updates'
    BY <1>0, <2>1
  <2>3. U(inv'["update"])
    BY <2>1
  <2> QED
    BY <2>1, <2>2, <2>3 DEF UpdateInv, FlowRests
<1>4. ASSUME NEW n \in Notifiers, GitHubNotify(n) \/ SlackNotify(n) PROVE UpdateInv'
  <2>1. UNCHANGED <<doc, at, pushes, updates, overlaps>>
    BY <1>4, NotifyStep
  <2>2. CASE n = "flow"
    <3>1. inv'["update"] = inv["update"] /\ inv["flow"].step # 0
      BY <1>4, <2>2, NotifyStep, Names
    <3> QED
      BY <1>0, <1>a, <1>b, <2>1, <3>1 DEF UpdateInv, FlowRests
  <2>3. CASE n = "update"
    <3>1. /\ inv'["flow"] = inv["flow"] /\ inv["update"].step # 0
          /\ inv'["update"].prev = inv["update"].prev
          /\ inv'["update"].st.status = inv["update"].st.status
          /\ inv'["update"].st.push = inv["update"].st.push
      BY <1>4, <2>3, NotifyStep, Names
    <3> QED
      BY <1>0, <1>a, <1>b, <2>1, <3>1 DEF UpdateInv, FlowRests
  <2> QED
    BY <1>4, <2>2, <2>3 DEF Notifiers
<1>5. ASSUME NEW n \in Notifiers, Put(n) PROVE UpdateInv'
  <2>1. UNCHANGED <<updates, overlaps>>
    BY <1>5, PutFacts
  <2>2. CASE n = "flow"
    <3>1. inv'["update"] = inv["update"] /\ inv["flow"].step = 3
      BY <1>5, <2>2, PutFacts, Names
    <3> QED
      BY <1>0, <1>a, <1>b, <2>1, <3>1 DEF UpdateInv, FlowRests
  <2>3. CASE n = "update"
    <3>1. inv'["update"] = Idle /\ Idle.step = 0
      BY <1>5, <2>3, PutFacts DEF Idle
    <3> QED
      BY <1>b, <2>1, <3>1 DEF UpdateInv
  <2> QED
    BY <1>5, <2>2, <2>3 DEF Notifiers
<1>7. CASE AfterRunDies
  BY <1>a, <1>b, <1>7, DeathFacts DEF UpdateInv, Reporting
<1>6. CASE UNCHANGED vars
  BY <1>6 DEF vars, FlowRests, UpdateInv
<1> QED
  BY <1>1, <1>2, <1>3, <1>4, <1>5, <1>6, <1>7, StepCases DEF FlowCalls

LEMMA FlowStep == TypeInv /\ UpdateInv /\ FlowInv /\ [Next]_vars => FlowInv'
<1> SUFFICES ASSUME TypeInv, UpdateInv, FlowInv, [Next]_vars PROVE FlowInv'
  OBVIOUS
<1>1. CASE FlowCalls
  <2>1. ~FlowRests' => at' = at
    BY <1>1, FlowCallFacts
  <2>2. Claimed.thread = 0
    BY DEF Claimed
  <2> QED
    BY <1>1, <2>1, <2>2, FlowCallFacts DEF FlowInv, FlowRests, Pushed
<1>2. CASE Resume
  BY <1>2 DEF Resume, FlowRests, FlowInv
<1>3. CASE HandleUpdate
  BY <1>3, HandleUpdateFacts DEF FlowRests, FlowInv, Ran, Pushed
<1>4. ASSUME NEW n \in Notifiers, GitHubNotify(n) \/ SlackNotify(n) PROVE FlowInv'
  <2>1. CASE n = "flow"
    <3>1. CASE GitHubNotify(n)
      BY <1>4, <2>1, <3>1, NotifyStep, GitHubStep DEF FlowRests, FlowInv, Pushed
    <3>2. CASE SlackNotify(n)
      BY <1>4, <2>1, <3>2, NotifyStep, SlackStep DEF FlowRests, FlowInv, Pushed
    <3> QED
      BY <1>4, <3>1, <3>2
  <2>2. CASE n = "update"
    BY <1>4, <2>2, NotifyStep, Names DEF FlowRests, FlowInv, Ran, Pushed
  <2> QED
    BY <2>1, <2>2 DEF Notifiers
<1>5. ASSUME NEW n \in Notifiers, Put(n) PROVE FlowInv'
  <2>1. CASE n = "flow"
    BY <1>5, <2>1, PutFacts DEF FlowRests, FlowInv, Idle
  <2>2. CASE n = "update"
    BY <1>5, <2>2, PutFacts, Names DEF FlowRests, FlowInv, Ran, Pushed
  <2> QED
    BY <2>1, <2>2 DEF Notifiers
<1>7. CASE AfterRunDies
  BY <1>7, DeathFacts DEF FlowInv
<1>6. CASE UNCHANGED vars
  BY <1>6 DEF vars, FlowRests, FlowInv, Ran, Pushed
<1> QED
  BY <1>1, <1>2, <1>3, <1>4, <1>5, <1>6, <1>7, StepCases DEF FlowCalls
Kind == {"page", "newThread"}
Bit(b) == IF b THEN 1 ELSE 0

\* what a document does not record: that somebody was paged, or the thread
Lacks(d, kind) == IF kind = "page" THEN ~d.paged ELSE d.thread = 0

\* an update at work, alone or beside the flow
Alone == inv["update"].step # 0 /\ updates \notin overlaps
Beside == inv["update"].step # 0 /\ updates \in overlaps

\* the document that the flow goes by, or will
Line ==
  IF ~FlowRests THEN inv["flow"].st
  ELSE IF at = "triage" THEN Claimed
  ELSE IF Alone THEN inv["update"].st
  ELSE doc

\* the calls made, and those that may be made without another loss
Ledger(kind) ==
  Count(kind) + Bit(Lacks(Line, kind)) + Bit(Beside /\ Lacks(inv["update"].st, kind))
    <= 1 + Trouble
LedgerInv == \A kind \in Kind : Ledger(kind)

LEMMA CountTypes == TypeInv => \A kind \in Kind : Count(kind) \in Nat
  BY Names DEF TypeInv, TypeOK, Count, Kind

\* A call is paid for by what the document lacks, or by a failure
LEMMA NotifyLedger ==
  ASSUME TypeInv, UpdateInv, FlowInv, NEW n \in Notifiers, GitHubNotify(n) \/ SlackNotify(n),
         NEW kind \in Kind
  PROVE  Count(kind)' + Bit(Lacks(inv'[n].st, kind)) <=
           Count(kind) + Bit(Lacks(inv[n].st, kind)) + (failures' - failures)
<1> DEFINE st == inv[n].st
           new == inv'[n].st
           lost == failures' - failures
<1>1. /\ failures \in Nat /\ st \in Doc /\ Count(kind) \in Nat
      /\ st.paged \in BOOLEAN /\ st.thread \in Nat
      /\ done[Page] \in Nat /\ done[NewThread] \in Nat
  BY CountTypes, Names DEF TypeInv, TypeOK, Invocation, Doc, Page, NewThread
<1>2. CASE GitHubNotify(n)
  <2>1. /\ new.paged = st.paged /\ new.thread = st.thread /\ lost \in {0, 1}
        /\ done'[Page] = done[Page] /\ done'[NewThread] = done[NewThread]
    BY <1>1, <1>2, GitHubStep
  <2>2. Count(kind)' = Count(kind) /\ (Lacks(new, kind) <=> Lacks(st, kind))
    BY <2>1 DEF Count, Kind, Lacks, Page, NewThread
  <2> QED
    BY <1>1, <2>1, <2>2 DEF Bit
<1>3. CASE SlackNotify(n)
  <2> DEFINE begins == Message(st, inv[n].prev) = <<NewThread>>
  <2>1. begins => st.thread = 0
    <3>1. ASSUME begins, st.thread # 0 PROVE Changed(st, inv[n].prev, "awaiting_approval")
      BY <3>1 DEF Message, NewThread
    <3>2. ~Ran(n, "slack") /\ inv[n].step # 0
      BY <1>3, SlackStep, NotifyStep
    <3>3. CASE n = "flow"
      BY <3>1, <3>2, <3>3 DEF FlowInv, FlowRests, Changed
    <3>4. CASE n = "update"
      BY <3>1, <3>2, <3>4 DEF UpdateInv, Changed
    <3> QED
      BY <3>3, <3>4 DEF Notifiers
  <2>2. \/ /\ lost = 0 /\ new.paged
           /\ done'[Page] = done[Page] + (IF st.paged THEN 0 ELSE 1)
           /\ done'[NewThread] = done[NewThread] + (IF begins THEN 1 ELSE 0)
           /\ new.thread = IF begins THEN done'[NewThread] ELSE st.thread
        \/ /\ lost = 1 /\ new = st
           /\ done'[Page] \in {done[Page], done[Page] + (IF st.paged THEN 0 ELSE 1)}
           /\ done'[NewThread] \in {done[NewThread],
                                    done[NewThread] + (IF begins THEN 1 ELSE 0)}
    BY <1>1, <1>3, SlackStep
  <2> HIDE DEF begins, new, st, lost
  <2>3. CASE kind = "page"
    <3>1. Count(kind) = done[Page] /\ Count(kind)' = done'[Page]
      BY <2>3 DEF Count, Page
    <3>2. Lacks(new, kind) <=> ~new.paged
      BY <2>3 DEF Lacks
    <3>3. Lacks(st, kind) <=> ~st.paged
      BY <2>3 DEF Lacks
    <3> QED
      BY <1>1, <2>2, <3>1, <3>2, <3>3 DEF Bit, new, st, lost
  <2>4. CASE kind = "newThread"
    <3>1. Count(kind) = done[NewThread] /\ Count(kind)' = done'[NewThread]
      BY <2>4 DEF Count, NewThread
    <3>2. (Lacks(new, kind) <=> new.thread = 0) /\ (Lacks(st, kind) <=> st.thread = 0)
      BY <2>4 DEF Lacks
    <3> QED
      BY <1>1, <2>1, <2>2, <3>1, <3>2 DEF Bit, new, st, lost
  <2> QED
    BY <2>3, <2>4 DEF Kind
<1> QED
  BY <1>2, <1>3

LEMMA LedgerStep ==
  TypeInv /\ UpdateInv /\ FlowInv /\ LedgerInv /\ [Next]_vars => LedgerInv'
<1> SUFFICES ASSUME TypeInv, UpdateInv, FlowInv, LedgerInv, [Next]_vars, NEW kind \in Kind
             PROVE  Ledger(kind)'
  BY DEF LedgerInv
<1> DEFINE u == inv["update"]
           C == Count(kind)
           L(d) == Bit(Lacks(d, kind))
           B == Bit(Beside /\ Lacks(u.st, kind))
<1>0. /\ TypeOK /\ Stage /\ C \in Nat /\ Trouble \in Nat /\ updates \in Nat
      /\ failures \in Nat /\ deaths \in Nat /\ overlaps \subseteq 1..updates
  BY CountTypes, TroubleFacts DEF TypeInv, TypeOK, UpdateInv
<1>a. \A b : Bit(b) \in {0, 1}
  BY DEF Bit
<1>b. C + L(Line) + B <= 1 + Trouble
  BY DEF LedgerInv, Ledger
<1>c. SUFFICES C' + L(Line)' + B' <= 1 + Trouble'
  BY DEF Ledger
<1>d. overlaps' = overlaps /\ failures' = failures /\ deaths' = deaths => Trouble' = Trouble
  BY <1>0, TroubleFacts
<1>f. done' = done => C' = C
  BY DEF Count
<1> HIDE DEF C
<1>1. CASE FlowCalls
  <2> DEFINE f == inv'["flow"]
  <2>1. /\ FlowRests /\ f.step = 1 /\ inv'["update"] = u
        /\ UNCHANGED <<doc, at, done, failures, deaths, updates>>
    BY <1>1, FlowCallFacts
  <2>2. Line' = f.st /\ C' = C
    BY <1>f, <2>1 DEF Line, FlowRests
  <2>3. CASE at = "triage"
    <3>1. overlaps' = overlaps /\ f.st.paged = Claimed.paged /\ f.st.thread = Claimed.thread
      BY <1>1, <2>3, FlowCallFacts
    <3>2. Line = Claimed
      BY <2>1, <2>3 DEF Line
    <3>3. L(Line)' = L(Line) /\ B' = B
      BY <2>1, <2>2, <3>1, <3>2 DEF Lacks, Beside
    <3> QED
      BY <1>b, <1>d, <2>1, <2>2, <3>1, <3>3
  <2>4. CASE at # "triage"
    <3>1. FlowOverlaps /\ f.st.paged = doc.paged /\ f.st.thread = doc.thread
      BY <1>1, <2>4, FlowCallFacts
    <3>2. L(Line)' = L(doc)
      BY <2>2, <3>1 DEF Lacks
    <3>3. CASE Alone
      <4>1. overlaps' = overlaps \cup {updates} /\ updates \notin overlaps
        BY <3>1, <3>3 DEF FlowOverlaps, Alone
      <4>2. Trouble' = Trouble + 1
        BY <2>1, <4>1, TroubleFacts
      <4>3. Line = u.st /\ B = 0 /\ B' = L(u.st)
        BY <2>1, <2>4, <3>3, <4>1 DEF Line, Beside, Alone, Bit
      <4>4. L(doc) \in {0, 1} /\ L(u.st) \in {0, 1}
        BY <1>a
      <4> QED
        BY <1>0, <1>b, <2>2, <3>2, <4>2, <4>3, <4>4
    <3>4. CASE ~Alone
      <4>1. overlaps' = overlaps
        BY <3>1, <3>4 DEF FlowOverlaps, Alone
      <4>2. Line = doc /\ B' = B
        BY <2>1, <2>4, <3>4, <4>1 DEF Line, Beside
      <4> QED
        BY <1>b, <1>d, <2>1, <2>2, <3>2, <4>1, <4>2
    <3> QED
      BY <3>3, <3>4
  <2> QED
    BY <2>3, <2>4
<1>2. CASE Resume
  <2>1. /\ at = "parked" /\ at' = "working"
        /\ UNCHANGED <<doc, inv, done, failures, deaths, updates, overlaps>>
    BY <1>2 DEF Resume, world
  <2>2. Line' = Line /\ B' = B
    BY <2>1 DEF Line, Alone, Beside, FlowRests
  <2> QED
    BY <1>b, <1>d, <1>f, <2>1, <2>2
<1>3. CASE HandleUpdate
  <2>1. /\ updates' = updates + 1 /\ u.step = 0 /\ inv'["flow"] = inv["flow"]
        /\ inv'["update"].step = 1 /\ inv'["update"].st = doc
        /\ overlaps' = (IF ~FlowRests \/ at = "triage" THEN overlaps \cup {updates + 1}
                        ELSE overlaps)
        /\ UNCHANGED <<doc, at, done, failures, deaths>>
    BY <1>3, HandleUpdateFacts
  <2>2. updates + 1 \notin overlaps
    BY <1>0
  <2>3. ~Beside /\ ~Alone /\ B = 0
    BY <2>1 DEF Beside, Alone, Bit
  <2>4. CASE FlowRests /\ at # "triage"
    <3>1. Alone' /\ ~Beside' /\ overlaps' = overlaps
      BY <2>1, <2>2, <2>4 DEF Alone, Beside
    <3>2. Line = doc /\ Line' = doc
      BY <2>1, <2>3, <2>4, <3>1 DEF Line, FlowRests
    <3>3. B' = 0
      BY <3>1 DEF Bit
    <3> QED
      BY <1>b, <1>d, <1>f, <2>1, <2>3, <3>1, <3>2, <3>3
  <2>5. CASE ~FlowRests \/ at = "triage"
    <3>1. Line' = Line
      BY <2>1, <2>5 DEF Line, FlowRests
    <3>2. Trouble' = Trouble + 1
      BY <2>1, <2>2, <2>5, TroubleFacts
    <3>3. B' \in {0, 1} /\ L(Line) \in {0, 1}
      BY DEF Bit
    <3> QED
      BY <1>0, <1>b, <1>f, <2>1, <2>3, <3>1, <3>2, <3>3
  <2> QED
    BY <2>4, <2>5
<1>4. ASSUME NEW n \in Notifiers, GitHubNotify(n) \/ SlackNotify(n)
      PROVE  C' + L(Line)' + B' <= 1 + Trouble'
  <2> DEFINE lost == failures' - failures
  <2>1. /\ inv[n].step # 0 /\ inv'[n].step # 0 /\ lost \in {0, 1}
        /\ UNCHANGED <<doc, at, deaths, updates, overlaps>>
    BY <1>4, NotifyStep
  <2>2. Trouble' = Trouble + lost
    <3>1. failures' \in Int
      BY <1>4, NotifyStep
    <3> QED
      BY <1>0, <2>1, <3>1, TroubleFacts
  <2>3. C' + L(inv'[n].st) <= C + L(inv[n].st) + lost
    BY <1>4, NotifyLedger DEF C
  <2>4. C' \in Nat
    <3>1. TypeInv'
      BY TypeStep
    <3> QED
      BY <3>1, Names DEF C, Count, Kind, TypeInv, TypeOK
  <2>5. \A d : L(d) \in {0, 1}
    BY DEF Bit
  <2>6. CASE n = "flow"
    <3>1. inv'["update"] = u
      BY <1>4, <2>6, NotifyStep, Names
    <3>2. Line = inv["flow"].st /\ Line' = inv'["flow"].st /\ B' = B
      BY <2>1, <2>6, <3>1 DEF Line, FlowRests, Beside
    <3>3. B \in {0, 1}
      BY DEF Bit
    <3> HIDE DEF L, B, lost
    <3>4. C' + L(inv'["flow"].st) + B <= 1 + Trouble'
      BY <1>0, <1>b, <2>1, <2>2, <2>3, <2>4, <2>5, <2>6, <3>2, <3>3
    <3> QED
      BY <3>2, <3>4 DEF L, B
  <2>7. CASE n = "update"
    <3>1. inv'["flow"] = inv["flow"]
      BY <1>4, <2>7, NotifyStep, Names
    <3>2. CASE Alone
      <4>1. FlowRests /\ at # "triage"
        BY <2>1, <2>7, <3>2 DEF UpdateInv, Alone
      <4>2. Line = u.st /\ Line' = inv'["update"].st /\ B = 0 /\ B' = 0
        BY <2>1, <2>7, <3>1, <3>2, <4>1 DEF Line, FlowRests, Alone, Beside, Bit
      <4> HIDE DEF L, B, lost
      <4>3. C' + L(inv'["update"].st) + 0 <= 1 + Trouble'
        BY <1>0, <1>b, <2>1, <2>2, <2>3, <2>4, <2>5, <2>7, <4>2
      <4> QED
        BY <4>2, <4>3 DEF L, B
    <3>3. CASE ~Alone
      <4>1. Beside /\ Beside' /\ ~Alone'
        BY <2>1, <2>7, <3>3 DEF Alone, Beside
      <4>2. Line' = Line
        BY <2>1, <3>1, <3>3, <4>1 DEF Line, FlowRests
      <4>3. B = L(u.st) /\ B' = L(inv'["update"].st)
        BY <4>1 DEF Bit
      <4> HIDE DEF L, B, lost
      <4>4. C' + L(Line) + L(inv'["update"].st) <= 1 + Trouble'
        BY <1>0, <1>b, <2>1, <2>2, <2>3, <2>4, <2>5, <2>7, <4>3
      <4> QED
        BY <4>2, <4>3, <4>4 DEF L, B
    <3> QED
      BY <3>2, <3>3
  <2> QED
    BY <2>6, <2>7 DEF Notifiers
<1>5. ASSUME NEW n \in Notifiers, Put(n)
      PROVE  C' + L(Line)' + B' <= 1 + Trouble'
  <2>1. /\ inv[n].step = 3 /\ doc' = inv[n].st /\ inv'[n].step = 0
        /\ at' = (IF n = "flow" THEN inv[n].goto ELSE at)
        /\ UNCHANGED <<done, failures, deaths, updates, overlaps>>
    BY <1>5, PutFacts DEF Idle
  <2>2. \A d : L(d) \in {0, 1}
    BY DEF Bit
  <2>3. CASE n = "flow"
    <3>1. inv'["update"] = u
      BY <1>5, <2>3, PutFacts, Names
    <3>2. ~FlowRests /\ FlowRests' /\ at' # "triage"
      BY <1>0, <2>1, <2>3 DEF FlowRests, Stage
    <3>3. ~Alone'
      BY <2>1, <3>1, <3>2 DEF UpdateInv, Alone
    <3>4. Line = inv["flow"].st /\ Line' = inv["flow"].st /\ B' = B
      BY <2>1, <2>3, <3>1, <3>2, <3>3 DEF Line, Beside
    <3> QED
      BY <1>b, <1>d, <1>f, <2>1, <3>4
  <2>4. CASE n = "update"
    <3>1. inv'["flow"] = inv["flow"] /\ at' = at /\ ~Alone' /\ ~Beside'
      BY <1>5, <2>1, <2>4, PutFacts, Names DEF Alone, Beside
    <3>2. B' = 0 /\ B \in {0, 1}
      BY <3>1 DEF Bit
    <3>3. CASE ~FlowRests \/ at = "triage"
      <4>1. Line' = Line
        BY <3>1, <3>3 DEF Line, FlowRests
      <4> HIDE DEF L, B
      <4>2. C + L(Line) + 0 <= 1 + Trouble
        BY <1>0, <1>b, <2>2, <3>2
      <4> QED
        BY <1>d, <1>f, <2>1, <3>2, <4>1, <4>2 DEF L, B
    <3>4. CASE FlowRests /\ at # "triage"
      <4>1. Line' = u.st
        BY <2>1, <2>4, <3>1, <3>4 DEF Line, FlowRests
      <4>2. CASE Alone
        <5>1. Line = u.st /\ B = 0
          BY <3>4, <4>2 DEF Line, Alone, Beside, Bit
        <5> QED
          BY <1>b, <1>d, <1>f, <2>1, <3>2, <4>1, <5>1
      <4>3. CASE ~Alone
        <5>1. B = L(u.st)
          BY <2>1, <2>4, <4>3 DEF Alone, Beside, Bit
        <5> HIDE DEF L, B
        <5>2. C + L(u.st) + 0 <= 1 + Trouble
          BY <1>0, <1>b, <2>2, <5>1
        <5> QED
          BY <1>d, <1>f, <2>1, <3>2, <4>1, <5>2 DEF L, B
      <4> QED
        BY <4>2, <4>3
    <3> QED
      BY <3>3, <3>4
  <2> QED
    BY <2>3, <2>4 DEF Notifiers
<1>7. CASE AfterRunDies
  <2>1. /\ Reporting /\ FlowRests' /\ at' # "triage" /\ inv'["update"] = u
        /\ deaths' = deaths + 1 /\ UNCHANGED <<done, failures, updates, overlaps>>
    BY <1>7, DeathFacts
  <2>2. Trouble' = Trouble + 1
    BY <1>0, <2>1, TroubleFacts
  <2>3. B' = B
    BY <2>1 DEF Beside
  <2>4. L(Line)' \in {0, 1} /\ L(Line) \in {0, 1} /\ B \in {0, 1}
    BY DEF Bit
  <2> QED
    BY <1>0, <1>b, <1>f, <2>1, <2>2, <2>3, <2>4
<1>6. CASE UNCHANGED vars
  <2>1. Line' = Line /\ B' = B /\ C' = C /\ Trouble' = Trouble
    BY <1>6 DEF vars, Line, Alone, Beside, FlowRests, C, Count, Trouble
  <2> QED
    BY <1>b, <2>1
<1> QED
  BY <1>1, <1>2, <1>3, <1>4, <1>5, <1>6, <1>7, StepCases DEF FlowCalls
\* A document that says paged is right as long as no call has failed
PageInv ==
  failures = 0 =>
    /\ at # "triage" \/ doc.paged => Count("page") >= 1
    /\ \A n \in Notifiers : inv[n].step # 0 /\ inv[n].st.paged => Count("page") >= 1
    /\ ~FlowRests /\ Ran("flow", "slack") => inv["flow"].st.paged

LEMMA PageStep == TypeInv /\ PageInv /\ [Next]_vars => PageInv'
<1> SUFFICES ASSUME TypeInv, PageInv, [Next]_vars PROVE PageInv'
  OBVIOUS
<1> DEFINE C == Count("page")
           Right(n) == inv[n].step # 0 /\ inv[n].st.paged => C >= 1
<1>0. /\ TypeOK /\ Stage /\ C \in Nat /\ C = done[Page] /\ failures \in Nat
      /\ ~Claimed.paged
  BY CountTypes DEF TypeInv, TypeOK, Kind, Count, Page, Claimed
<1>a. failures = 0 => /\ at # "triage" \/ doc.paged => C >= 1
                      /\ Right("flow") /\ Right("update")
                      /\ ~FlowRests /\ Ran("flow", "slack") => inv["flow"].st.paged
  BY Names DEF PageInv
<1>b. SUFFICES ASSUME failures' = 0
               PROVE  /\ at' # "triage" \/ doc'.paged => C' >= 1
                      /\ Right("flow")' /\ Right("update")'
                      /\ ~FlowRests' /\ Ran("flow", "slack")' => inv'["flow"].st.paged
  BY DEF PageInv, Notifiers
<1>c. C' = done'[Page]
  BY DEF Count, Page
<1> HIDE DEF C
<1>1. CASE FlowCalls
  <2> DEFINE f == inv'["flow"]
  <2>1. /\ FlowRests /\ f.step = 1 /\ inv'["update"] = inv["update"]
        /\ UNCHANGED <<doc, at, done, failures>>
        /\ f.st.paged = (IF at = "triage" THEN Claimed.paged ELSE doc.paged)
    BY <1>1, FlowCallFacts
  <2>2. ~Ran("flow", "slack")'
    BY <2>1, OrderAssumption DEF Ran
  <2> QED
    BY <1>0, <1>a, <1>b, <1>c, <2>1, <2>2
<1>2. CASE Resume
  BY <1>0, <1>a, <1>b, <1>c, <1>2 DEF Resume, world, FlowRests
<1>3. CASE HandleUpdate
  <2>1. /\ inv'["flow"] = inv["flow"] /\ inv'["update"].st = doc
        /\ UNCHANGED <<doc, at, done, failures>>
    BY <1>3, HandleUpdateFacts
  <2> QED
    BY <1>0, <1>a, <1>b, <1>c, <2>1 DEF FlowRests, Ran
<1>4. ASSUME NEW n \in Notifiers, GitHubNotify(n) \/ SlackNotify(n)
      PROVE  /\ at' # "triage" \/ doc'.paged => C' >= 1
             /\ Right("flow")' /\ Right("update")'
             /\ ~FlowRests' /\ Ran("flow", "slack")' => inv'["flow"].st.paged
  <2>1. /\ failures = 0 /\ inv[n].step # 0 /\ UNCHANGED <<doc, at>>
        /\ \A m \in Notifiers : m # n => inv'[m] = inv[m]
    BY <1>0, <1>4, <1>b, NotifyStep
  <2>2. CASE GitHubNotify(n)
    <3>1. /\ inv'[n].st.paged = inv[n].st.paged /\ done'[Page] = done[Page]
          /\ Ran(n, "slack")' <=> Ran(n, "slack")
      BY <2>2, GitHubStep
    <3>2. CASE n = "flow"
      BY <1>0, <1>a, <1>c, <2>1, <3>1, <3>2, Names DEF FlowRests
    <3>3. CASE n = "update"
      BY <1>0, <1>a, <1>c, <2>1, <3>1, <3>3, Names DEF FlowRests, Ran
    <3> QED
      BY <3>2, <3>3 DEF Notifiers
  <2>3. CASE SlackNotify(n)
    <3>1. /\ inv'[n].st.paged
          /\ done'[Page] = done[Page] + (IF inv[n].st.paged THEN 0 ELSE 1)
      BY <1>0, <1>b, <2>1, <2>3, SlackStep
    <3>2. C' >= C /\ C' >= 1
      BY <1>0, <1>a, <1>c, <2>1, <3>1 DEF Notifiers
    <3>3. CASE n = "flow"
      BY <1>0, <1>a, <2>1, <3>1, <3>2, <3>3, Names
    <3>4. CASE n = "update"
      BY <1>0, <1>a, <2>1, <3>1, <3>2, <3>4, Names DEF FlowRests, Ran
    <3> QED
      BY <3>3, <3>4 DEF Notifiers
  <2> QED
    BY <1>4, <2>2, <2>3
<1>5. ASSUME NEW n \in Notifiers, Put(n)
      PROVE  /\ at' # "triage" \/ doc'.paged => C' >= 1
             /\ Right("flow")' /\ Right("update")'
             /\ ~FlowRests' /\ Ran("flow", "slack")' => inv'["flow"].st.paged
  <2>1. /\ inv[n].step = 3 /\ doc' = inv[n].st /\ inv'[n].step = 0
        /\ at' = (IF n = "flow" THEN inv[n].goto ELSE at)
        /\ \A m \in Notifiers : m # n => inv'[m] = inv[m]
        /\ UNCHANGED <<done, failures>>
    BY <1>5, PutFacts DEF Idle
  <2>2. CASE n = "flow"
    <3>1. inv["flow"].st.paged
      BY <1>a, <1>b, <2>1, <2>2, RanFacts DEF FlowRests
    <3> QED
      BY <1>0, <1>a, <1>b, <1>c, <2>1, <2>2, <3>1, Names DEF FlowRests
  <2>3. CASE n = "update"
    BY <1>0, <1>a, <1>b, <1>c, <2>1, <2>3, Names DEF FlowRests, Ran
  <2> QED
    BY <2>2, <2>3 DEF Notifiers
<1>7. CASE AfterRunDies
  <2>1. /\ Reporting /\ ~FlowRests /\ FlowRests' /\ inv'["update"] = inv["update"]
        /\ inv'["flow"].step = 0
        /\ doc' \in {doc, inv["flow"].st} /\ UNCHANGED <<done, failures>>
    BY <1>7, DeathFacts
  <2>2. at # "triage"
    BY <2>1 DEF Reporting
  <2> QED
    BY <1>a, <1>b, <1>c, <1>0, <2>1, <2>2
<1>6. CASE UNCHANGED vars
  BY <1>0, <1>a, <1>b, <1>c, <1>6 DEF vars, FlowRests, Ran
<1> QED
  BY <1>1, <1>2, <1>3, <1>4, <1>5, <1>6, <1>7, StepCases DEF FlowCalls

\* The message that ends triage begins the thread
ThreadInv ==
  Untroubled =>
    LET begun == Count("newThread")
    IN  /\ FlowRests => doc.thread = begun
        /\ ~FlowRests => inv["flow"].st.thread = begun
        /\ inv["update"].step # 0 => inv["update"].st.thread = begun
        /\ begun = IF at # "triage" \/ (~FlowRests /\ Ran("flow", "slack")) THEN 1 ELSE 0

\* Nothing that goes wrong is forgotten
LEMMA UntroubledStep ==
  ASSUME TypeInv, UpdateInv, [Next]_vars, Untroubled'
  PROVE  /\ Untroubled /\ failures' = failures /\ deaths' = deaths /\ overlaps' = overlaps
         /\ deaths = 0 /\ ~AfterRunDies /\ ~AfterRunRetried
         /\ inv["update"].step # 0 => FlowRests /\ at # "triage" /\ ~FlowCalls
         /\ HandleUpdate => FlowRests /\ at # "triage"
<1>0. /\ failures \in Nat /\ deaths \in Nat /\ overlaps \subseteq 1..updates /\ TypeOK
      /\ Untroubled <=> failures = 0 /\ deaths = 0 /\ overlaps = {}
  BY TroubleFacts DEF TypeInv, TypeOK, UpdateInv
<1>1. failures' = 0 /\ deaths' = 0 /\ overlaps' = {}
  <2>1. TypeInv'
    BY TypeStep
  <2>2. failures' \in Nat /\ deaths' \in Nat /\ overlaps' \subseteq 1..MaxUpdates
    BY <2>1, BoundsAssumption DEF TypeInv, TypeOK
  <2>3. IsFiniteSet(overlaps')
    <3>1. IsFiniteSet(1..MaxUpdates)
      BY BoundsAssumption, FS_Interval
    <3> QED
      BY <2>2, <3>1, FS_Subset
  <2>4. Cardinality(overlaps') \in Nat /\ (Cardinality(overlaps') = 0 <=> overlaps' = {})
    BY <2>3, FS_CardinalityType, FS_EmptySet
  <2> QED
    <3>1. \A a, b, c \in Nat : a + b + c = 0 => a = 0 /\ b = 0 /\ c = 0
      OBVIOUS
    <3>2. failures' + deaths' + Cardinality(overlaps') = 0
      BY DEF Untroubled, Trouble
    <3>3. failures' = 0 /\ deaths' = 0 /\ Cardinality(overlaps') = 0
      BY <2>2, <2>4, <3>1, <3>2
    <3> QED
      BY <2>4, <3>3
<1>6. ~AfterRunDies
  BY <1>0, <1>1, DeathFacts
<1>2. overlaps \subseteq overlaps'
  <2>1. CASE FlowCalls
    BY <2>1, FlowCallFacts DEF FlowOverlaps
  <2>2. CASE HandleUpdate
    BY <2>2, HandleUpdateFacts
  <2>3. CASE Resume
    BY <2>3 DEF Resume
  <2>4. ASSUME NEW n \in Notifiers, GitHubNotify(n) \/ SlackNotify(n) \/ Put(n)
        PROVE  overlaps \subseteq overlaps'
    BY <2>4, NotifyStep, PutFacts
  <2>5. CASE UNCHANGED vars
    BY <2>5 DEF vars
  <2> QED
    BY <1>6, <2>1, <2>2, <2>3, <2>4, <2>5, StepCases DEF FlowCalls
<1>3. failures' \in {failures, failures + 1} /\ deaths' = deaths
  <2>1. CASE FlowCalls
    BY <2>1, FlowCallFacts
  <2>2. CASE HandleUpdate
    BY <2>2, HandleUpdateFacts
  <2>3. CASE Resume
    BY <2>3 DEF Resume, world
  <2>4. ASSUME NEW n \in Notifiers, GitHubNotify(n) \/ SlackNotify(n) \/ Put(n)
        PROVE  failures' \in {failures, failures + 1} /\ deaths' = deaths
    BY <2>4, NotifyStep, PutFacts
  <2>5. CASE UNCHANGED vars
    BY <2>5 DEF vars
  <2> QED
    BY <1>6, <2>1, <2>2, <2>3, <2>4, <2>5, StepCases DEF FlowCalls
<1>4. inv["update"].step # 0 => FlowRests /\ at # "triage" /\ ~FlowCalls
  <2>1. inv["update"].step # 0 => FlowRests /\ at # "triage"
    BY <1>1, <1>2 DEF UpdateInv
  <2>2. ASSUME FlowCalls, inv["update"].step # 0, at # "triage" PROVE FALSE
    BY <1>1, <2>2, FlowCallFacts DEF FlowOverlaps
  <2> QED
    BY <2>1, <2>2
<1>5. HandleUpdate => FlowRests /\ at # "triage"
  BY <1>1, HandleUpdateFacts
<1>7. ~AfterRunRetried
  <2>1. ASSUME AfterRunRetried PROVE FALSE
    <3>1. tries <= deaths /\ tries \in Nat /\ tries # 0
      BY <2>1, RetryFacts DEF TypeInv, TypeOK, Stage
    <3> QED
      BY <1>0, <1>1, <1>3, <3>1
  <2> QED
    BY <2>1
<1> QED
  BY <1>0, <1>1, <1>2, <1>3, <1>4, <1>5, <1>6, <1>7
LEMMA ThreadStep ==
  TypeInv /\ UpdateInv /\ FlowInv /\ ThreadInv /\ [Next]_vars => ThreadInv'
<1> DEFINE begun == Count("newThread")
           Expected == IF at # "triage" \/ (~FlowRests /\ Ran("flow", "slack")) THEN 1 ELSE 0
           Holds == /\ FlowRests => doc.thread = begun
                    /\ ~FlowRests => inv["flow"].st.thread = begun
                    /\ inv["update"].step # 0 => inv["update"].st.thread = begun
                    /\ begun = Expected
<1> SUFFICES ASSUME TypeInv, UpdateInv, FlowInv, ThreadInv, [Next]_vars, Untroubled'
             PROVE  Holds'
  BY DEF ThreadInv
<1>0. /\ Untroubled /\ Holds /\ failures' = failures /\ TypeOK /\ Stage /\ failures \in Nat
      /\ inv["update"].step # 0 => FlowRests /\ at # "triage" /\ ~FlowCalls
      /\ HandleUpdate => FlowRests /\ at # "triage"
      /\ ~AfterRunDies
  BY UntroubledStep DEF ThreadInv, TypeInv, TypeOK
<1>a. begun = done[NewThread] /\ begun' = done'[NewThread]
  BY DEF Count, NewThread
<1> HIDE DEF begun
<1>1. CASE FlowCalls
  <2> DEFINE f == inv'["flow"]
  <2>1. /\ FlowRests /\ f.step = 1 /\ inv'["update"] = inv["update"]
        /\ UNCHANGED <<doc, at, done, failures>>
        /\ f.st.thread = (IF at = "triage" THEN Claimed.thread ELSE doc.thread)
    BY <1>1, FlowCallFacts
  <2>2. ~Ran("flow", "slack")' /\ Claimed.thread = 0
    BY <2>1, OrderAssumption DEF Ran, Claimed
  <2> QED
    BY <1>0, <1>1, <1>a, <2>1, <2>2 DEF FlowRests
<1>2. CASE Resume
  BY <1>0, <1>a, <1>2 DEF Resume, world, FlowRests
<1>3. CASE HandleUpdate
  <2>1. /\ inv'["flow"] = inv["flow"] /\ inv'["update"].st = doc
        /\ UNCHANGED <<doc, at, done>>
    BY <1>3, HandleUpdateFacts
  <2> QED
    BY <1>0, <1>a, <1>3, <2>1 DEF FlowRests, Ran
<1>4. ASSUME NEW n \in Notifiers, GitHubNotify(n) \/ SlackNotify(n) PROVE Holds'
  <2> DEFINE st == inv[n].st
             new == inv'[n].st
  <2>1. /\ inv[n].step # 0 /\ inv'[n].step # 0 /\ UNCHANGED <<doc, at>>
        /\ \A m \in Notifiers : m # n => inv'[m] = inv[m]
    BY <1>4, NotifyStep
  <2>2. st.thread = begun
    BY <1>0, <2>1 DEF FlowRests, Notifiers
  <2>3. CASE GitHubNotify(n)
    <3>1. new.thread = st.thread /\ begun' = begun /\ (Ran(n, "slack")' <=> Ran(n, "slack"))
      BY <1>a, <2>3, GitHubStep
    <3>2. CASE n = "flow"
      BY <1>0, <2>1, <3>1, <3>2, Names DEF FlowRests
    <3>3. CASE n = "update"
      BY <1>0, <2>1, <3>1, <3>3, Names DEF FlowRests, Ran
    <3> QED
      BY <3>2, <3>3 DEF Notifiers
  <2>4. CASE SlackNotify(n)
    <3> DEFINE begins == Message(st, inv[n].prev) = <<NewThread>>
    <3>1. /\ ~Ran(n, "slack") /\ Ran(n, "slack")'
          /\ begun' = begun + (IF begins THEN 1 ELSE 0)
          /\ new.thread = IF begins THEN begun' ELSE st.thread
      BY <1>0, <1>a, <2>4, SlackStep
    <3>2. CASE at = "triage"
      <4>1. n = "flow" /\ ~FlowRests /\ begun = 0
        BY <1>0, <2>1, <3>1, <3>2 DEF FlowRests, Notifiers
      <4>2. StatusMessage(st, inv[n].prev)
        BY <3>2, <4>1 DEF FlowInv, StatusMessage, FlowStatus, Pushed
      <4>3. begins
        BY <2>2, <4>1, <4>2 DEF Message, NewThread
      <4> HIDE DEF begins
      <4> QED
        BY <1>0, <2>1, <3>1, <4>1, <4>3, Names DEF FlowRests
    <3>3. CASE at # "triage"
      <4>1. st.thread = 1
        BY <1>0, <2>2, <3>3
      <4>2. ~Changed(st, inv[n].prev, "awaiting_approval")
        <5>1. CASE n = "flow"
          BY <2>1, <3>1, <4>1, <5>1 DEF FlowInv, FlowRests, Changed
        <5>2. CASE n = "update"
          BY <2>1, <5>2 DEF UpdateInv, Changed
        <5> QED
          BY <5>1, <5>2 DEF Notifiers
      <4>3. ~begins
        BY <4>1, <4>2 DEF Message, NewThread
      <4> HIDE DEF begins
      <4>4. begun' = begun /\ new.thread = begun /\ begun = 1
        BY <1>0, <2>2, <3>1, <3>3, <4>3
      <4>5. CASE n = "flow"
        BY <1>0, <2>1, <3>3, <4>4, <4>5, Names DEF FlowRests
      <4>6. CASE n = "update"
        BY <1>0, <2>1, <3>3, <4>4, <4>6, Names DEF FlowRests
      <4> QED
        BY <4>5, <4>6 DEF Notifiers
    <3> QED
      BY <3>2, <3>3
  <2> QED
    BY <1>4, <2>3, <2>4
<1>5. ASSUME NEW n \in Notifiers, Put(n) PROVE Holds'
  <2>1. /\ inv[n].step = 3 /\ doc' = inv[n].st /\ inv'[n].step = 0
        /\ at' = (IF n = "flow" THEN inv[n].goto ELSE at)
        /\ \A m \in Notifiers : m # n => inv'[m] = inv[m]
        /\ UNCHANGED <<done, failures>>
    BY <1>5, PutFacts DEF Idle
  <2>2. CASE n = "flow"
    <3>1. ~FlowRests /\ Ran("flow", "slack") /\ at' # "triage"
      BY <1>0, <2>1, <2>2, RanFacts DEF FlowRests, Stage
    <3> QED
      BY <1>0, <1>a, <2>1, <2>2, <3>1, Names DEF FlowRests
  <2>3. CASE n = "update"
    BY <1>0, <1>a, <2>1, <2>3, Names DEF FlowRests, Ran
  <2> QED
    BY <2>2, <2>3 DEF Notifiers
<1>6. CASE UNCHANGED vars
  BY <1>0, <1>a, <1>6 DEF vars, FlowRests, Ran
<1> QED
  BY <1>1, <1>2, <1>3, <1>4, <1>5, <1>6, <1>0, StepCases DEF FlowCalls

-----------------------------------------------------------------------------
(* Pushes: what has been told of them on GitHub                             *)

\* What is left of the tries of the report pays for a comment that may be made
CommentInv ==
  /\ doc.push <= pushes
  /\ \A n \in Notifiers : inv[n].step # 0 => inv[n].st.push <= pushes
  /\ \A p \in 1..MaxRuns : /\ done[PushComment(p)] <= Tries
                           /\ done[PushComment(p)] <= 1 + deaths
                           /\ p > pushes => done[PushComment(p)] = 0
  /\ Reporting /\ Pushed("flow") =>
       done[PushComment(pushes)] + Bit(~FlowRests /\ ~Ran("flow", "github")) <= tries
  /\ ~FlowRests /\ Pushed("flow") =>
       /\ inv["flow"].st.push = pushes
       /\ deaths = 0 => inv["flow"].prev.push < pushes

LEMMA CommentStep ==
  TypeInv /\ UpdateInv /\ FlowInv /\ CommentInv /\ [Next]_vars => CommentInv'
<1> DEFINE Low == doc.push <= pushes
           LowAt(n) == inv[n].step # 0 => inv[n].st.push <= pushes
           Once == \A p \in 1..MaxRuns : /\ done[PushComment(p)] <= Tries
                                         /\ done[PushComment(p)] <= 1 + deaths
                                         /\ p > pushes => done[PushComment(p)] = 0
           Owed == Bit(~FlowRests /\ ~Ran("flow", "github"))
           Paid == Reporting /\ Pushed("flow") => done[PushComment(pushes)] + Owed <= tries
           AtWork == ~FlowRests /\ Pushed("flow") =>
             /\ inv["flow"].st.push = pushes
             /\ deaths = 0 => inv["flow"].prev.push < pushes
           Holds == Low /\ LowAt("flow") /\ LowAt("update") /\ Once /\ Paid /\ AtWork
<1> SUFFICES ASSUME TypeInv, UpdateInv, FlowInv, CommentInv, [Next]_vars
             PROVE  Holds'
  BY DEF CommentInv, Notifiers
<1>0. /\ TypeOK /\ Stage /\ pushes \in Nat /\ MaxRuns \in Nat /\ pushes <= MaxRuns
      /\ doc.push \in Nat /\ inv["flow"].st.push \in Nat /\ inv["update"].st.push \in Nat
      /\ tries \in Nat /\ tries <= Tries /\ tries <= 1 + deaths /\ deaths \in Nat
      /\ \A p \in 1..MaxRuns : done[PushComment(p)] \in Nat
  BY BoundsAssumption, Names DEF TypeInv, TypeOK, Invocation, Doc, PushComment, Stage, Tries
<1>a. Low /\ LowAt("flow") /\ LowAt("update") /\ Once /\ Paid /\ AtWork
  BY Names DEF CommentInv
<1>b. Reporting /\ Pushed("flow") => pushes \in 1..MaxRuns /\ done[PushComment(pushes)] \in Nat
  BY <1>0 DEF Stage
<1>c. Owed \in {0, 1}
  BY DEF Bit
<1>1. CASE FlowBegins
  <2>1. /\ inv'["update"] = inv["update"] /\ UNCHANGED <<doc, at, done, pushes, deaths>>
        /\ inv'["flow"].st.push \in {0, doc.push}
        /\ inv'["flow"].st.status \notin {"pr_open", "grooming"}
    BY <1>1, FlowBeginFacts DEF Same, Claimed
  <2> QED
    BY <1>0, <1>a, <2>1 DEF Pushed
<1>2. CASE AfterPush
  <2>1. /\ inv'["update"] = inv["update"] /\ UNCHANGED <<doc, at, done, deaths>>
        /\ pushes' = pushes + 1 /\ pushes < MaxRuns /\ inv'["flow"].st.push = pushes + 1
        /\ inv'["flow"].prev = doc /\ tries' = 1
    BY <1>2, AfterPushFacts
  <2>2. pushes + 1 \in 1..MaxRuns /\ done[PushComment(pushes + 1)] = 0
    BY <1>0, <1>a, <2>1
  <2>3. Owed' \in {0, 1}
    BY DEF Bit
  <2>4. done'[PushComment(pushes')] + Owed' <= tries'
    BY <2>1, <2>2, <2>3
  <2> QED
    BY <1>0, <1>a, <2>1, <2>2, <2>4
<1>3. CASE Resume
  <2>1. UNCHANGED <<doc, inv, pushes, done, deaths>> /\ tries' = 0
    BY <1>3 DEF Resume, world
  <2> QED
    BY <1>a, <2>1 DEF FlowRests, Pushed, Reporting
<1>8. CASE AfterRunRetried
  <2>1. /\ inv'["update"] = inv["update"] /\ UNCHANGED <<doc, at, done, pushes, deaths>>
        /\ tries' = tries + 1 /\ tries <= deaths /\ tries # 0
        /\ at = "retrying" /\ FlowRests
        /\ Pushed("flow")' <=> Pushed("flow")
        /\ Pushed("flow") => inv'["flow"].st.push = pushes
        /\ inv'["flow"].st.push \in {doc.push, pushes}
    BY <1>8, RetryFacts DEF TypeInv, Stage
  <2>2. Reporting
    BY <2>1 DEF Reporting
  <2>3. Owed' \in {0, 1} /\ Owed = 0
    BY <2>1 DEF Bit
  <2>4. Paid'
    <3>1. Pushed("flow") => done[PushComment(pushes)] <= tries
      BY <1>a, <1>b, <2>2, <2>3
    <3> HIDE DEF Owed
    <3>2. Pushed("flow") => done'[PushComment(pushes')] + Owed' <= tries'
      BY <1>0, <1>b, <2>1, <2>2, <2>3, <3>1
    <3> QED
      BY <2>1, <3>2
  <2>5. deaths # 0
    BY <1>0, <2>1
  <2> QED
    BY <1>0, <1>a, <2>1, <2>4, <2>5
<1>9. CASE AfterRunDies
  <2>1. /\ inv'["update"] = inv["update"] /\ UNCHANGED <<done, pushes, tries>>
        /\ deaths' = deaths + 1 /\ Reporting /\ ~FlowRests /\ FlowRests'
        /\ inv'["flow"].st = inv["flow"].st /\ inv'["flow"].step = 0
        /\ doc' \in {doc, inv["flow"].st}
    BY <1>9, DeathFacts
  <2>2. Owed' = 0
    BY <2>1 DEF Bit
  <2>3. Low'
    BY <1>a, <2>1 DEF FlowRests
  <2>4. Once'
    BY <1>0, <1>a, <2>1
  <2>5. Paid'
    <3>1. Pushed("flow") => done[PushComment(pushes)] <= tries
      BY <1>0, <1>a, <1>b, <1>c, <2>1
    <3> HIDE DEF Owed
    <3>2. Pushed("flow") => done'[PushComment(pushes')] + Owed' <= tries'
      BY <1>b, <2>1, <2>2, <3>1
    <3>3. Pushed("flow")' <=> Pushed("flow")
      BY <2>1 DEF Pushed
    <3> QED
      BY <3>2, <3>3
  <2> QED
    BY <1>a, <2>1, <2>3, <2>4, <2>5
<1>4. CASE HandleUpdate
  <2>1. /\ inv'["flow"] = inv["flow"] /\ inv'["update"].st = doc
        /\ UNCHANGED <<doc, at, done, pushes, tries, deaths>>
    BY <1>4, HandleUpdateFacts
  <2> QED
    BY <1>a, <2>1 DEF FlowRests, Pushed, Ran, Reporting
<1>5. ASSUME NEW n \in Notifiers, GitHubNotify(n) \/ SlackNotify(n) PROVE Holds'
  <2> DEFINE st == inv[n].st
             prev == inv[n].prev
  <2>1. /\ inv[n].step # 0 /\ inv'[n].step # 0 /\ UNCHANGED <<doc, at, pushes, tries, deaths>>
        /\ inv'[n].st.push = st.push /\ inv'[n].st.status = st.status /\ inv'[n].prev = prev
        /\ Ran(n, "github") => Ran(n, "github")'
        /\ \A m \in Notifiers : m # n => inv'[m] = inv[m]
    BY <1>5, NotifyStep
  <2>2. Low' /\ LowAt("flow")' /\ LowAt("update")'
    BY <1>a, <2>1 DEF Notifiers
  <2>3. /\ Pushed("flow")' <=> Pushed("flow")
        /\ FlowRests' <=> FlowRests
        /\ Reporting' <=> Reporting
        /\ inv'["flow"].st.push = inv["flow"].st.push /\ inv'["flow"].prev = inv["flow"].prev
    BY <2>1, Names DEF Pushed, FlowRests, Reporting, Notifiers
  <2>4. AtWork'
    BY <1>a, <2>1, <2>3
  <2>5. ASSUME \A p \in 1..MaxRuns : done'[PushComment(p)] = done[PushComment(p)],
               Ran("flow", "github") => Ran("flow", "github")'
        PROVE  Once' /\ Paid'
    <3>1. Once'
      BY <1>a, <2>1, <2>5
    <3>2. Owed' <= Owed /\ Owed' \in {0, 1}
      BY <2>3, <2>5 DEF Bit
    <3>3. Paid'
      <4> HIDE DEF Owed
      <4>1. ASSUME Reporting, Pushed("flow")
            PROVE  done'[PushComment(pushes')] + Owed' <= tries'
        <5>1. done'[PushComment(pushes)] = done[PushComment(pushes)]
          BY <1>b, <2>5, <4>1
        <5> QED
          BY <1>0, <1>a, <1>b, <1>c, <2>1, <3>2, <4>1, <5>1
      <4> QED
        BY <2>3, <4>1
    <3> QED
      BY <3>1, <3>3
  <2>6. CASE SlackNotify(n)
    <3>1. \A p \in 1..MaxRuns : done'[PushComment(p)] = done[PushComment(p)]
      BY <2>6, SlackStep
    <3>2. Ran("flow", "github") => Ran("flow", "github")'
      <4>1. CASE n = "flow"
        BY <2>6, <4>1, SlackStep
      <4>2. CASE n = "update"
        BY <2>1, <4>2, Names DEF Ran
      <4> QED
        BY <4>1, <4>2 DEF Notifiers
    <3> QED
      BY <2>2, <2>4, <2>5, <3>1, <3>2
  <2>7. CASE GitHubNotify(n)
    <3>1. \A p \in 1..MaxRuns :
            \/ done'[PushComment(p)] = done[PushComment(p)]
            \/ /\ Answers(st, prev) /\ p = st.push
               /\ done'[PushComment(p)] = done[PushComment(p)] + 1
      BY <2>7, GitHubStep
    <3>2. CASE n = "flow"
      <4>1. ~Ran("flow", "github") /\ Ran("flow", "github")' /\ ~FlowRests
        BY <2>1, <2>7, <3>2, GitHubStep DEF FlowRests
      <4>2. Owed = 1 /\ Owed' = 0
        BY <4>1 DEF Bit
      <4>3. Pushed("flow") => Reporting /\ st.push = pushes
        BY <1>0, <1>a, <3>2, <4>1 DEF Stage
      <4>4. Pushed("flow") => done[PushComment(pushes)] + 1 <= tries
        BY <1>a, <4>2, <4>3
      <4>5. \A p \in 1..MaxRuns :
              \/ done'[PushComment(p)] = done[PushComment(p)]
              \/ /\ Pushed("flow") /\ p = pushes
                 /\ done'[PushComment(p)] = done[PushComment(p)] + 1
        <5>1. Answers(st, prev) => Pushed("flow")
          BY <3>2 DEF Answers, Pushed
        <5> QED
          BY <3>1, <4>3, <5>1
      <4>6. Once'
        <5>1. ASSUME NEW p \in 1..MaxRuns
              PROVE  /\ done'[PushComment(p)] <= Tries /\ done'[PushComment(p)] <= 1 + deaths
                     /\ p > pushes => done'[PushComment(p)] = 0
          <6>1. CASE done'[PushComment(p)] = done[PushComment(p)]
            BY <1>a, <6>1
          <6>2. CASE /\ Pushed("flow") /\ p = pushes
                     /\ done'[PushComment(p)] = done[PushComment(p)] + 1
            <7>1. done'[PushComment(p)] <= tries
              BY <4>4, <6>2
            <7>2. Tries \in Nat /\ done'[PushComment(p)] \in Nat
              BY <1>0, <6>2 DEF Tries
            <7> QED
              BY <1>0, <6>2, <7>1, <7>2
          <6> QED
            BY <4>5, <6>1, <6>2
        <5> QED
          BY <2>1, <5>1
      <4>7. Paid'
        <5> HIDE DEF Owed
        <5>1. ASSUME Reporting, Pushed("flow")
              PROVE  done'[PushComment(pushes')] + Owed' <= tries'
          <6>1. done'[PushComment(pushes)] <= done[PushComment(pushes)] + 1
            BY <1>b, <4>5, <5>1
          <6>2. done'[PushComment(pushes)] \in {done[PushComment(pushes)],
                                               done[PushComment(pushes)] + 1}
            BY <1>b, <4>5, <5>1
          <6> QED
            BY <1>0, <1>b, <2>1, <4>2, <4>4, <5>1, <6>2
        <5> QED
          BY <2>3, <5>1
      <4> QED
        BY <2>2, <2>4, <4>6, <4>7
    <3>3. CASE n = "update"
      <4>1. ~Answers(st, prev)
        BY <2>1, <3>3 DEF UpdateInv, Answers, NewPush
      <4>2. \A p \in 1..MaxRuns : done'[PushComment(p)] = done[PushComment(p)]
        BY <3>1, <4>1
      <4>3. Ran("flow", "github") => Ran("flow", "github")'
        BY <2>1, <3>3, Names DEF Ran
      <4> QED
        BY <2>2, <2>4, <2>5, <4>2, <4>3
    <3> QED
      BY <3>2, <3>3 DEF Notifiers
  <2> QED
    BY <1>5, <2>6, <2>7
<1>6. ASSUME NEW n \in Notifiers, Put(n) PROVE Holds'
  <2>1. /\ inv[n].step = 3 /\ doc' = inv[n].st /\ inv'[n].step = 0 /\ inv'[n] = Idle
        /\ at' = (IF n = "flow" THEN inv[n].goto ELSE at)
        /\ \A m \in Notifiers : m # n => inv'[m] = inv[m]
        /\ UNCHANGED <<done, pushes, tries, deaths>>
    BY <1>6, PutFacts DEF Idle
  <2>2. CASE n = "flow"
    <3>1. ~Pushed("flow")'
      BY <2>1, <2>2 DEF Pushed, Idle, Claimed
    <3> QED
      BY <1>a, <2>1, <2>2, <3>1, Names DEF FlowRests
  <2>3. CASE n = "update"
    BY <1>a, <2>1, <2>3, Names DEF FlowRests, Ran, Pushed, Reporting
  <2> QED
    BY <2>2, <2>3 DEF Notifiers
<1>7. CASE UNCHANGED vars
  BY <1>a, <1>7 DEF vars, FlowRests, Ran, Pushed, Reporting
<1> QED
  BY <1>1, <1>2, <1>3, <1>4, <1>5, <1>6, <1>7, <1>8, <1>9, StepCases
\* the first k pushes are on GitHub, and pr is the number of the pull request
Answered(counts, pr, k) ==
  /\ pr = Bit(k >= 1) /\ counts[OpenPr] = Bit(k >= 1)
  /\ \A p \in 2..k : counts[PushComment(p)] = 1

AnswerInv ==
  Untroubled =>
    /\ FlowRests => Answered(done, doc.pr, pushes) /\ (doc.status = "pr_open" => pushes >= 1)
    /\ inv["update"].step # 0 =>
         inv["update"].st.pr = doc.pr /\ inv["update"].st.status = doc.status
    /\ ~FlowRests =>
         IF Pushed("flow") /\ ~Ran("flow", "github")
         THEN /\ Answered(done, inv["flow"].st.pr, pushes - 1)
              /\ inv["flow"].st.status = IF pushes = 1 THEN "pr_open" ELSE "grooming"
         ELSE Answered(done, inv["flow"].st.pr, pushes)

LEMMA AnswerStep ==
  TypeInv /\ UpdateInv /\ FlowInv /\ CommentInv /\ AnswerInv /\ [Next]_vars => AnswerInv'
<1> DEFINE AtRest == FlowRests => /\ Answered(done, doc.pr, pushes)
                                  /\ doc.status = "pr_open" => pushes >= 1
           Updating == inv["update"].step # 0 =>
             inv["update"].st.pr = doc.pr /\ inv["update"].st.status = doc.status
           Working == ~FlowRests =>
             IF Pushed("flow") /\ ~Ran("flow", "github")
             THEN /\ Answered(done, inv["flow"].st.pr, pushes - 1)
                  /\ inv["flow"].st.status = IF pushes = 1 THEN "pr_open" ELSE "grooming"
             ELSE Answered(done, inv["flow"].st.pr, pushes)
           Holds == AtRest /\ Updating /\ Working
<1> SUFFICES ASSUME TypeInv, UpdateInv, FlowInv, CommentInv, AnswerInv, [Next]_vars, Untroubled'
             PROVE  Holds'
  BY DEF AnswerInv
<1>0. /\ Untroubled /\ failures' = failures /\ TypeOK /\ Stage /\ failures \in Nat
      /\ inv["update"].step # 0 => FlowRests /\ at # "triage" /\ ~FlowCalls
      /\ HandleUpdate => FlowRests /\ at # "triage"
      /\ deaths = 0 /\ ~AfterRunDies /\ ~AfterRunRetried
  BY UntroubledStep DEF TypeInv, TypeOK
<1>a. /\ AtRest /\ Updating /\ Working /\ pushes \in Nat /\ MaxRuns \in Nat /\ pushes <= MaxRuns
      /\ doc.pr \in 0..1
      /\ \A p \in 1..MaxRuns : done[PushComment(p)] \in Nat
  BY <1>0, BoundsAssumption, Names DEF AnswerInv, TypeOK, Doc, PushComment
<1>1. CASE FlowBegins
  <2> DEFINE f == inv'["flow"]
  <2>1. /\ FlowRests /\ f.step = 1 /\ inv'["update"] = inv["update"]
        /\ UNCHANGED <<doc, at, done, pushes>>
        /\ f.st.pr = (IF at = "triage" THEN 0 ELSE doc.pr)
        /\ f.st.status \notin {"pr_open", "grooming"}
    BY <1>1, FlowBeginFacts DEF Same, Claimed
  <2>2. Answered(done, doc.pr, pushes) /\ ~Pushed("flow")'
    BY <1>a, <2>1 DEF Pushed
  <2>3. at = "triage" => doc.pr = 0
    BY <1>0, <2>2 DEF Stage, Answered, Bit
  <2>4. f.st.pr = doc.pr
    BY <2>1, <2>3
  <2>5. Answered(done', f.st.pr, pushes')
    BY <2>1, <2>2, <2>4 DEF Answered
  <2>6. ~FlowRests'
    BY <2>1 DEF FlowRests
  <2> QED
    BY <1>a, <2>1, <2>2, <2>5, <2>6
<1>2. CASE AfterPush
  <2> DEFINE f == inv'["flow"]
  <2>1. /\ FlowRests /\ f.step = 1 /\ inv'["update"] = inv["update"]
        /\ UNCHANGED <<doc, at, done>> /\ pushes' = pushes + 1 /\ f.st.pr = doc.pr
        /\ f.st.status = IF doc.pr = 0 THEN "pr_open" ELSE "grooming"
    BY <1>2, AfterPushFacts
  <2>2. Pushed("flow")' /\ ~Ran("flow", "github")' /\ ~FlowRests'
    BY <2>1, OrderAssumption DEF Pushed, Ran, FlowRests
  <2>3. Answered(done, doc.pr, pushes) /\ pushes' - 1 = pushes
    BY <1>a, <2>1
  <2>4. Answered(done', f.st.pr, pushes' - 1)
    BY <2>1, <2>3 DEF Answered
  <2>5. f.st.status = IF pushes' = 1 THEN "pr_open" ELSE "grooming"
    BY <1>a, <2>1, <2>3 DEF Answered, Bit
  <2> QED
    BY <1>a, <2>1, <2>2, <2>4, <2>5
<1>3. CASE Resume
  <2>1. UNCHANGED <<doc, inv, pushes, done>>
    BY <1>3 DEF Resume, world
  <2> QED
    BY <1>a, <2>1 DEF Answered, FlowRests, Pushed, Ran
<1>4. CASE HandleUpdate
  <2>1. /\ FlowRests /\ inv'["flow"] = inv["flow"] /\ inv'["update"].st = doc
        /\ UNCHANGED <<doc, done, pushes>>
    BY <1>0, <1>4, HandleUpdateFacts
  <2> QED
    BY <1>a, <2>1 DEF FlowRests, Answered
<1>5. ASSUME NEW n \in Notifiers, GitHubNotify(n) PROVE Holds'
  <2> DEFINE st == inv[n].st
             prev == inv[n].prev
             new == inv'[n].st
  <2>1. /\ inv[n].step # 0 /\ inv'[n].step # 0 /\ UNCHANGED <<doc, at, pushes>>
        /\ new.push = st.push /\ new.status = st.status /\ inv'[n].prev = prev
        /\ \A m \in Notifiers : m # n => inv'[m] = inv[m]
    BY <1>5, NotifyStep
  <2>2. /\ ~Ran(n, "github") /\ Ran(n, "github")'
        /\ Opens(st) /\ done[OpenPr] = 0 => new.pr = 1 /\ done'[OpenPr] = 1
        /\ ~Opens(st) => new.pr = st.pr /\ done'[OpenPr] = done[OpenPr]
        /\ \A p \in 1..MaxRuns :
             \/ done'[PushComment(p)] = done[PushComment(p)]
             \/ Answers(st, prev) /\ p = st.push
        /\ \A p \in 1..MaxRuns :
             Answers(st, prev) /\ p = st.push =>
               done'[PushComment(p)] = done[PushComment(p)] + 1
    BY <1>0, <1>5, GitHubStep
  <2>3. ASSUME ~Opens(st), ~Answers(st, prev)
        PROVE  /\ new.pr = st.pr
               /\ \A pr : \A k \in 0..MaxRuns : Answered(done, pr, k) => Answered(done', pr, k)
    <3>1. \A k \in 0..MaxRuns : \A p \in 2..k : p \in 1..MaxRuns
      BY <1>a
    <3> QED
      BY <2>2, <2>3, <3>1 DEF Answered
  <2>4. CASE n = "update"
    <3>1. FlowRests /\ inv'["flow"] = inv["flow"]
      BY <1>0, <2>1, <2>4, Names
    <3>2. ~Answers(st, prev)
      BY <2>1, <2>4 DEF UpdateInv, Answers, NewPush
    <3>3. ~Opens(st)
      BY <1>a, <2>1, <2>4, <3>1 DEF Opens, Answered, Bit
    <3>4. Answered(done', doc'.pr, pushes')
      BY <1>a, <2>1, <2>3, <3>1, <3>2, <3>3 DEF Answered
    <3> QED
      BY <1>a, <2>1, <2>3, <2>4, <3>1, <3>2, <3>3, <3>4 DEF FlowRests
  <2>5. CASE n = "flow" /\ ~Pushed("flow")
    <3>1. ~Opens(st) /\ ~Answers(st, prev) /\ ~Pushed("flow")'
      BY <2>1, <2>5 DEF Pushed, Opens, Answers
    <3>2. ~FlowRests /\ inv'["update"] = inv["update"] /\ inv["update"].step = 0 /\ ~FlowRests'
      BY <1>0, <2>1, <2>5, Names DEF FlowRests
    <3>3. Answered(done, st.pr, pushes)
      BY <1>a, <2>5, <3>2
    <3>4. Answered(done', new.pr, pushes')
      BY <1>a, <2>1, <2>3, <3>1, <3>3 DEF Answered
    <3> QED
      BY <2>1, <2>5, <3>1, <3>2, <3>4
  <2>6. CASE n = "flow" /\ Pushed("flow")
    <3>1. ~FlowRests /\ inv'["update"] = inv["update"] /\ inv["update"].step = 0 /\ ~FlowRests'
      BY <1>0, <2>1, <2>6, Names DEF FlowRests
    <3>2. /\ Answered(done, st.pr, pushes - 1)
          /\ st.status = IF pushes = 1 THEN "pr_open" ELSE "grooming"
      BY <1>a, <2>2, <2>6, <3>1
    <3>3. /\ st.push = pushes /\ pushes >= 1 /\ prev.push < pushes
          /\ done[PushComment(pushes)] = 0
      <4>1. Reporting /\ pushes \in 1..MaxRuns /\ tries <= 1 + deaths
        BY <1>0, <1>a, <2>6, <3>1 DEF Stage
      <4>2. Bit(~FlowRests /\ ~Ran("flow", "github")) = 1
        BY <2>2, <2>6, <3>1 DEF Bit
      <4>3. done[PushComment(pushes)] + 1 <= 1
        <5>1. done[PushComment(pushes)] + 1 <= tries
          BY <2>6, <4>1, <4>2 DEF CommentInv
        <5>2. tries \in Nat /\ tries <= 1 /\ done[PushComment(pushes)] \in Nat
          BY <1>0, <1>a, <4>1 DEF TypeOK, Tries
        <5> QED
          BY <5>1, <5>2
      <4>4. done[PushComment(pushes)] \in Nat
        BY <1>a, <4>1
      <4> QED
        BY <1>0, <2>6, <3>1, <4>1, <4>3, <4>4 DEF CommentInv
    <3>4. CASE pushes = 1
      <4>1. Opens(st) /\ done[OpenPr] = 0
        BY <3>2, <3>4 DEF Answered, Opens, Bit
      <4>2. new.pr = 1 /\ done'[OpenPr] = 1
        BY <2>2, <4>1
      <4>3. Answered(done', new.pr, pushes')
        BY <2>1, <3>4, <4>2 DEF Answered, Bit
      <4> QED
        BY <2>1, <2>2, <2>6, <3>1, <4>3
    <3>5. CASE pushes > 1
      <4>1. st.pr = 1 /\ done[OpenPr] = 1 /\ \A p \in 2..(pushes - 1) : done[PushComment(p)] = 1
        BY <1>a, <3>2, <3>5 DEF Answered, Bit
      <4>2. st.status = "grooming" /\ st.push # prev.push
        <5>1. prev.push # pushes
          <6>1. prev.push \in Nat
            BY <1>0 DEF TypeOK, Invocation, Previous, Doc, NoDoc, Claimed
          <6> QED
            BY <1>a, <3>3, <6>1
        <5> QED
          BY <3>2, <3>3, <3>5, <5>1
      <4>3. Answers(st, prev) /\ ~Opens(st)
        BY <3>3, <3>5, <4>1, <4>2 DEF Answers, Opens, NewPush
      <4>4. pushes \in 1..MaxRuns
        BY <1>a, <3>5
      <4>5. done'[PushComment(pushes)] = 1
        BY <2>2, <3>3, <4>2, <4>3, <4>4
      <4>6. \A p \in 2..pushes : done'[PushComment(p)] = 1
        <5>1. ASSUME NEW p \in 2..pushes, p # pushes PROVE done'[PushComment(p)] = 1
          <6>1. p \in 1..MaxRuns /\ p \in 2..(pushes - 1)
            BY <1>a, <5>1
          <6> QED
            BY <2>2, <3>3, <4>1, <5>1, <6>1
        <5> QED
          BY <4>5, <5>1
      <4>7. new.pr = 1 /\ done'[OpenPr] = 1
        BY <2>2, <4>1, <4>3
      <4>8. Answered(done', new.pr, pushes')
        BY <1>a, <2>1, <3>5, <4>6, <4>7 DEF Answered, Bit
      <4> QED
        BY <2>1, <2>2, <2>6, <3>1, <4>8
    <3> QED
      BY <1>a, <3>3, <3>4, <3>5
  <2> QED
    BY <2>4, <2>5, <2>6 DEF Notifiers
<1>6. ASSUME NEW n \in Notifiers, SlackNotify(n) PROVE Holds'
  <2>1. /\ inv[n].step # 0 /\ inv'[n].step # 0 /\ UNCHANGED <<doc, at, pushes>>
        /\ inv'[n].st.status = inv[n].st.status /\ inv'[n].st.pr = inv[n].st.pr
        /\ Ran(n, "github")' <=> Ran(n, "github")
        /\ done'[OpenPr] = done[OpenPr]
        /\ \A p \in 1..MaxRuns : done'[PushComment(p)] = done[PushComment(p)]
        /\ \A m \in Notifiers : m # n => inv'[m] = inv[m]
    BY <1>6, NotifyStep, SlackStep
  <2>2. \A pr : \A k \in 0..MaxRuns : Answered(done, pr, k) => Answered(done', pr, k)
    <3>1. \A k \in 0..MaxRuns : \A p \in 2..k : p \in 1..MaxRuns
      BY <1>a
    <3> QED
      BY <2>1, <3>1 DEF Answered
  <2>3. \A pr : /\ Answered(done, pr, pushes) => Answered(done', pr, pushes')
                /\ pushes >= 1 /\ Answered(done, pr, pushes - 1) => Answered(done', pr, pushes' - 1)
    BY <1>a, <2>1, <2>2 DEF Answered
  <2>4. Answered(done, doc.pr, pushes) => Answered(done', doc'.pr, pushes')
    BY <2>1, <2>3 DEF Answered
  <2>5. CASE n = "update"
    <3>1. FlowRests /\ inv'["flow"] = inv["flow"]
      BY <1>0, <2>1, <2>5, Names
    <3> QED
      BY <1>a, <2>1, <2>4, <2>5, <3>1 DEF FlowRests
  <2>6. CASE n = "flow"
    <3>1. ~FlowRests /\ inv'["update"] = inv["update"] /\ inv["update"].step = 0 /\ ~FlowRests'
      BY <1>0, <2>1, <2>6, Names DEF FlowRests
    <3>2. Pushed("flow")' <=> Pushed("flow")
      BY <2>1, <2>6 DEF Pushed
    <3>3. CASE Pushed("flow") /\ ~Ran("flow", "github")
      <4>1. pushes >= 1
        BY <1>0, <3>1, <3>3 DEF Stage
      <4>2. Answered(done', inv'["flow"].st.pr, pushes' - 1)
        <5>1. Answered(done, inv["flow"].st.pr, pushes - 1)
          BY <1>a, <3>1, <3>3
        <5> QED
          BY <2>1, <2>3, <2>6, <4>1, <5>1 DEF Answered
      <4> QED
        BY <1>a, <2>1, <2>6, <3>1, <3>2, <3>3, <4>2
    <3>4. CASE ~(Pushed("flow") /\ ~Ran("flow", "github"))
      <4>1. Answered(done, inv["flow"].st.pr, pushes)
        BY <1>a, <3>1, <3>4
      <4>2. Answered(done', inv'["flow"].st.pr, pushes')
        BY <2>1, <2>3, <2>6, <4>1 DEF Answered
      <4> QED
        BY <2>1, <2>6, <3>1, <3>2, <3>4, <4>2
    <3> QED
      BY <3>3, <3>4
  <2> QED
    BY <2>5, <2>6 DEF Notifiers
<1>7. ASSUME NEW n \in Notifiers, Put(n) PROVE Holds'
  <2>1. /\ inv[n].step = 3 /\ doc' = inv[n].st /\ inv'[n].step = 0
        /\ \A m \in Notifiers : m # n => inv'[m] = inv[m]
        /\ UNCHANGED <<done, pushes>>
    BY <1>7, PutFacts DEF Idle
  <2>2. CASE n = "flow"
    <3>1. ~FlowRests /\ Ran("flow", "github") /\ FlowRests' /\ inv["update"].step = 0
      BY <1>0, <2>1, <2>2, RanFacts DEF FlowRests
    <3>2. Answered(done, inv["flow"].st.pr, pushes)
      BY <1>a, <3>1
    <3>3. inv["flow"].st.status = "pr_open" => pushes >= 1
      BY <1>0, <3>1 DEF Stage, Pushed
    <3>4. Answered(done', doc'.pr, pushes')
      BY <2>1, <2>2, <3>2 DEF Answered
    <3> QED
      BY <2>1, <2>2, <3>1, <3>3, <3>4, Names
  <2>3. CASE n = "update"
    <3>1. FlowRests /\ inv'["flow"] = inv["flow"]
      BY <1>0, <2>1, <2>3, Names
    <3>2. doc'.pr = doc.pr /\ doc'.status = doc.status
      BY <1>a, <2>1, <2>3
    <3>3. Answered(done', doc'.pr, pushes')
      BY <1>a, <2>1, <3>1, <3>2 DEF Answered
    <3> QED
      BY <1>a, <2>1, <2>3, <3>1, <3>2, <3>3 DEF FlowRests
  <2> QED
    BY <2>2, <2>3 DEF Notifiers
<1>8. CASE UNCHANGED vars
  BY <1>a, <1>8 DEF vars, FlowRests, Ran, Pushed, Answered
<1> QED
  BY <1>1, <1>2, <1>3, <1>4, <1>5, <1>6, <1>7, <1>8, <1>0, StepCases
-----------------------------------------------------------------------------
(* The status that Slack knows                                              *)

\* With github before slack, the number of the pull request is known by the
\* time Slack announces it
Documented == Order = <<"github", "slack">>

ToldInv ==
  Untroubled =>
    /\ FlowRests /\ at # "triage" => told = doc.status
    /\ ~FlowRests =>
         /\ inv["flow"].st.status # "triaged"
         /\ IF Ran("flow", "slack") THEN told = inv["flow"].st.status
            ELSE \/ told = inv["flow"].prev.status
                 \/ inv["flow"].prev.status \in {"none", "triaged"} /\ ~Pushed("flow")

LEMMA ToldStep ==
  ASSUME Documented
  PROVE  /\ TypeInv /\ UpdateInv /\ FlowInv /\ CommentInv /\ AnswerInv /\ ToldInv
         /\ [Next]_vars
         => ToldInv'
<1> DEFINE Holds ==
             /\ FlowRests /\ at # "triage" => told = doc.status
             /\ ~FlowRests =>
                  /\ inv["flow"].st.status # "triaged"
                  /\ IF Ran("flow", "slack") THEN told = inv["flow"].st.status
                     ELSE \/ told = inv["flow"].prev.status
                          \/ inv["flow"].prev.status \in {"none", "triaged"} /\ ~Pushed("flow")
<1> SUFFICES ASSUME TypeInv, UpdateInv, FlowInv, CommentInv, AnswerInv, ToldInv, [Next]_vars,
                    Untroubled'
             PROVE  Holds'
  BY DEF ToldInv
<1>0. /\ Untroubled /\ failures' = failures /\ TypeOK /\ Stage /\ failures \in Nat /\ Holds
      /\ inv["update"].step # 0 => FlowRests /\ at # "triage" /\ ~FlowCalls
      /\ ~AfterRunDies
  BY UntroubledStep DEF TypeInv, TypeOK, ToldInv
<1>1. CASE FlowCalls
  <2> DEFINE f == inv'["flow"]
  <2>1. /\ FlowRests /\ f.step = 1 /\ UNCHANGED <<doc, at, told>>
        /\ f.st.status \in FlowStatus
        /\ at = "triage" => /\ f.st.status \notin {"pr_open", "grooming"}
                            /\ f.prev.status \in {"none", "triaged"}
        /\ at # "triage" => f.prev = doc
    BY <1>1, FlowCallFacts
  <2>2. ~Ran("flow", "slack")' /\ ~FlowRests'
    BY <2>1, OrderAssumption DEF Ran, FlowRests
  <2>3. f.st.status # "triaged"
    BY <2>1 DEF FlowStatus
  <2> QED
    BY <1>0, <2>1, <2>2, <2>3 DEF Pushed
<1>2. CASE Resume
  BY <1>0, <1>2 DEF Resume, world, FlowRests
<1>3. CASE HandleUpdate
  <2>1. inv'["flow"] = inv["flow"] /\ UNCHANGED <<doc, at, told>>
    BY <1>3, HandleUpdateFacts
  <2> QED
    BY <1>0, <2>1 DEF FlowRests, Ran, Pushed
<1>4. ASSUME NEW n \in Notifiers, GitHubNotify(n) PROVE Holds'
  <2>1. /\ inv[n].step # 0 /\ inv'[n].step # 0 /\ UNCHANGED <<doc, at>>
        /\ inv'[n].st.status = inv[n].st.status /\ inv'[n].prev = inv[n].prev
        /\ told' = told /\ (Ran(n, "slack")' <=> Ran(n, "slack"))
        /\ \A m \in Notifiers : m # n => inv'[m] = inv[m]
    BY <1>4, NotifyStep, GitHubStep
  <2>2. CASE n = "flow"
    BY <1>0, <2>1, <2>2 DEF FlowRests, Pushed
  <2>3. CASE n = "update"
    BY <1>0, <2>1, <2>3, Names DEF FlowRests, Ran, Pushed
  <2> QED
    BY <2>2, <2>3 DEF Notifiers
<1>5. ASSUME NEW n \in Notifiers, SlackNotify(n) PROVE Holds'
  <2> DEFINE st == inv[n].st
             prev == inv[n].prev
  <2>1. /\ inv[n].step # 0 /\ inv'[n].step # 0 /\ UNCHANGED <<doc, at>>
        /\ inv'[n].st.status = st.status /\ inv'[n].prev = prev
        /\ told' = IF StatusMessage(st, prev) THEN st.status ELSE told
        /\ ~Ran(n, "slack") /\ Ran(n, "slack")'
        /\ \A m \in Notifiers : m # n => inv'[m] = inv[m]
    BY <1>0, <1>5, NotifyStep, SlackStep DEF Told
  <2>2. CASE n = "flow"
    <3>1. ~FlowRests /\ ~FlowRests'
      BY <2>1, <2>2 DEF FlowRests
    <3>2. Ran("flow", "github")
      BY <1>5, <2>2 DEF SlackNotify, Works, Documented, Ran
    <3>3. Pushed("flow") => st.pr = 1
      <4>1. Pushed("flow") => pushes >= 1
        BY <1>0, <3>1 DEF Stage
      <4> QED
        BY <1>0, <2>2, <3>1, <3>2, <4>1 DEF AnswerInv, Answered, Bit
    <3>4. /\ st.status # "triaged" /\ st.status # "none"
          /\ \/ told = prev.status
             \/ prev.status \in {"none", "triaged"} /\ ~Pushed("flow")
      BY <1>0, <2>1, <2>2, <3>1 DEF TypeOK, Invocation, Doc, Status
    <3>5. told' = st.status
      BY <2>1, <2>2, <3>3, <3>4 DEF StatusMessage, Pushed
    <3> QED
      BY <2>1, <2>2, <3>1, <3>4, <3>5
  <2>3. CASE n = "update"
    <3>1. FlowRests /\ at # "triage" /\ inv'["flow"] = inv["flow"]
      BY <1>0, <2>1, <2>3, Names
    <3>2. st.status = doc.status
      BY <1>0, <2>1, <2>3 DEF AnswerInv
    <3> QED
      BY <1>0, <2>1, <3>1, <3>2 DEF FlowRests
  <2> QED
    BY <2>2, <2>3 DEF Notifiers
<1>6. ASSUME NEW n \in Notifiers, Put(n) PROVE Holds'
  <2>1. /\ inv[n].step = 3 /\ doc' = inv[n].st /\ inv'[n].step = 0 /\ told' = told
        /\ at' = (IF n = "flow" THEN inv[n].goto ELSE at)
        /\ \A m \in Notifiers : m # n => inv'[m] = inv[m]
    BY <1>6, PutFacts DEF Idle
  <2>2. CASE n = "flow"
    BY <1>0, <2>1, <2>2, RanFacts DEF FlowRests
  <2>3. CASE n = "update"
    <3>1. FlowRests /\ inv'["flow"] = inv["flow"] /\ doc'.status = doc.status
      BY <1>0, <2>1, <2>3, Names DEF AnswerInv
    <3> QED
      BY <1>0, <2>1, <2>3, <3>1 DEF FlowRests
  <2> QED
    BY <2>2, <2>3 DEF Notifiers
<1>7. CASE UNCHANGED vars
  BY <1>0, <1>7 DEF vars, FlowRests, Ran, Pushed
<1> QED
  BY <1>1, <1>2, <1>3, <1>4, <1>5, <1>6, <1>7, <1>0, StepCases DEF FlowCalls

-----------------------------------------------------------------------------
(* The theorems                                                             *)

\* Inductive, in either order of the outputs
OutputInv ==
  /\ TypeInv /\ UpdateInv /\ FlowInv
  /\ LedgerInv /\ PageInv /\ ThreadInv
  /\ CommentInv /\ AnswerInv

LEMMA InitialOutputs == Init => OutputInv /\ ToldInv
<1> SUFFICES ASSUME Init PROVE OutputInv /\ ToldInv
  OBVIOUS
<1>1. TypeInv
  BY InitialTypes
<1>2. /\ FlowRests /\ inv["update"].step = 0 /\ inv["flow"].step = 0 /\ at = "triage"
      /\ doc = Claimed /\ pushes = 0 /\ tries = 0 /\ failures = 0 /\ deaths = 0 /\ overlaps = {}
      /\ \A c \in Call : done[c] = 0
  BY Names DEF Init, FlowRests, Idle
<1>3. \A c \in {Page, NewThread, OpenPr} : done[c] = 0
  BY <1>2, Names DEF Page, NewThread, OpenPr
<1>4. \A p \in 1..MaxRuns : done[PushComment(p)] = 0
  BY <1>2, Names DEF PushComment
<1>5. /\ Claimed.status = "triaged" /\ Claimed.pr = 0 /\ ~Claimed.paged /\ Claimed.thread = 0
      /\ Claimed.push = 0
  BY DEF Claimed
<1>6. UpdateInv /\ FlowInv
  BY <1>2 DEF UpdateInv, FlowInv
<1>7. LedgerInv
  <2>1. Trouble \in Nat
    BY <1>1, TroubleFacts
  <2>2. \A kind \in Kind : Count(kind) = 0
    BY <1>3 DEF Kind, Count, Page, NewThread
  <2>3. ~Beside
    BY <1>2 DEF Beside
  <2> QED
    BY <2>1, <2>2, <2>3 DEF LedgerInv, Ledger, Bit
<1>8. PageInv /\ ThreadInv
  BY <1>2, <1>3, <1>5 DEF PageInv, ThreadInv, Notifiers, Count, NewThread
<1>9. CommentInv
  BY <1>2, <1>4, <1>5 DEF CommentInv, Notifiers, Reporting, Tries
<1>10. AnswerInv
  BY <1>2, <1>3, <1>5 DEF AnswerInv, Answered, Bit
<1>11. ToldInv
  BY <1>2 DEF ToldInv
<1> QED
  BY <1>1, <1>6, <1>7, <1>8, <1>9, <1>10, <1>11 DEF OutputInv

LEMMA OutputStep == OutputInv /\ [Next]_vars => OutputInv'
  BY TypeStep, UpdateStep, FlowStep, LedgerStep, PageStep, ThreadStep, CommentStep, AnswerStep
  DEF OutputInv

LEMMA OutputsAlways == Spec => []OutputInv
<1>1. Init => OutputInv
  BY InitialOutputs
<1> QED
  BY <1>1, OutputStep, PTL DEF Spec

\* A count within the ledger is within the losses
LEMMA CountBound == OutputInv => \A kind \in Kind : Count(kind) <= 1 + Trouble
<1> SUFFICES ASSUME OutputInv, NEW kind \in Kind PROVE Count(kind) <= 1 + Trouble
  OBVIOUS
<1>1. Ledger(kind) /\ Count(kind) \in Nat /\ Trouble \in Nat
  BY CountTypes, TroubleFacts DEF OutputInv, LedgerInv
<1>2. \A b : Bit(b) \in {0, 1}
  BY DEF Bit
<1> QED
  BY <1>1, <1>2 DEF Ledger

(* outputs/slack:74: "Page once, as early as possible." For any number of  *)
(* runs and UPDATE events, and in either order of the outputs, every page  *)
(* beyond the first is paid for by a call that failed, an after_run that   *)
(* died or an update that was at work beside the flow; and triage does not *)
(* end without one.                                                        *)
THEOREM PagesAreOnce == Spec => []PagedOnce
<1>1. OutputInv => PagedOnce
  BY CountBound DEF OutputInv, PageInv, PagedOnce, Kind
<1> QED
  BY <1>1, OutputsAlways, PTL

(* outputs/slack:1: "one thread per issue". Likewise for the threads, and  *)
(* while nothing has gone wrong the row names the one there is.            *)
THEOREM ThreadsAreOne == Spec => []OneThread
<1>1. OutputInv => OneThread
  BY CountBound DEF OutputInv, ThreadInv, OneThread, Kind
<1> QED
  BY <1>1, OutputsAlways, PTL

(* outputs/github:3-6: no failed call and no update makes a push be told   *)
(* in a second comment; a dead after_run costs one comment more, and the   *)
(* Retry of issue.asl.json:72 ends it after three. While nothing has gone  *)
(* wrong each push has been told once, the first as the pull request.      *)
THEOREM PushesAreAnswered == Spec => []PushesAnswered
<1>1. OutputInv => PushesAnswered
  <2> SUFFICES ASSUME OutputInv PROVE PushesAnswered
    OBVIOUS
  <2>1. \A p \in 1..MaxRuns : done[PushComment(p)] <= 1 + deaths /\ done[PushComment(p)] <= Tries
    BY DEF OutputInv, CommentInv
  <2>2. ASSUME Untroubled, FlowRests, NEW p \in 1..pushes
        PROVE  IF p = 1 THEN Count("openPr") = 1 ELSE done[PushComment(p)] = 1
    <3>1. Answered(done, doc.pr, pushes) /\ pushes \in Nat
      BY <2>2 DEF OutputInv, AnswerInv, TypeInv, TypeOK
    <3>2. pushes >= 1 /\ (p # 1 => p \in 2..pushes)
      BY <2>2, <3>1
    <3> QED
      BY <3>1, <3>2 DEF Answered, Bit, Count, OpenPr
  <2> QED
    BY <2>1, <2>2 DEF PushesAnswered, PushComment
<1> QED
  BY <1>1, OutputsAlways, PTL

(* With github before slack, a reader of the thread knows the status, as   *)
(* long as no call failed, no after_run died and no two handlers were at   *)
(* work at once.                                                           *)
THEOREM ThreadAlwaysTells ==
  ASSUME Documented
  PROVE  Spec => []ThreadTellsStatus
<1>1. OutputInv /\ ToldInv /\ [Next]_vars => (OutputInv /\ ToldInv)'
  BY OutputStep, ToldStep DEF OutputInv
<1>2. OutputInv /\ ToldInv => ThreadTellsStatus
  BY DEF ToldInv, ThreadTellsStatus
<1> QED
  BY <1>1, <1>2, InitialOutputs, PTL DEF Spec
============================================================================
