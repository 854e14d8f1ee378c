-------------------------- MODULE GroomPromiseProofs --------------------------
(***************************************************************************)
(* What the row of an issue tells of its execution, for every set of hooks, *)
(* every budget and any number of Lambda failures, when start_fix writes   *)
(* before the worker reports and no UPDATE event writes the row back: the  *)
(* row follows the execution, its counters are right, and GroomLoop        *)
(* implements IssuePromise.                                                *)
(***************************************************************************)
EXTENDS GroomLoopProofs

Prompt == PromptStart /\ MaxUpdates = 0

Reviewed == {"pr_open", "grooming", "ready"}

\* the statuses after_run writes for the outcome the execution received
Reported ==
  CASE exec.outcome = "pushed" -> {"pr_open", "grooming"}
    [] exec.outcome = "declined" -> {"rca_only"}
    [] exec.outcome = "failed" -> {"needs_human"}

\* the run is not in the row yet, or it is
Counted == doc.attempts = exec.attempt
FirstRunDue == doc.status = "fixing" /\ doc.pr = 0 /\ doc.attempts = 0 /\ exec.attempt = 0
GroomRunDue == doc.status \in Reviewed /\ exec.attempt = doc.attempts + 1
Written == Counted /\ doc.status \in Reported

Wrote == life.pc \in {"putpr", "return"}

\* start_fix has yet to write the row: the worker is at work, nothing else is
StartInv ==
  /\ upd.pc = "idle" /\ upd.left = 0
  /\ starter = "put" =>
       /\ exec.at = "Fix" /\ exec.attempt = 0 /\ reports = 0
       /\ doc.status \in {"triaged", "awaiting_approval"}
       /\ doc.attempts = 0 /\ doc.cost = 0

\* what the row says in each state of the machine
RowInv ==
  starter = "done" =>
    /\ exec.at = "Fix" => FirstRunDue
    /\ exec.at = "Groom" => GroomRunDue
    /\ exec.at = "AfterRun" => Written \/ (~Wrote /\ (FirstRunDue \/ GroomRunDue))
    /\ exec.at = "Park" => Counted /\ doc.status \in Reviewed
    /\ exec.at \in Final =>
         /\ exec.at # "FinalizeNeedsHuman" => Counted
         /\ IF Wrote THEN doc.status = FinalStatus
            ELSE \/ doc.status \in Reviewed
                 \/ exec.at = "FinalizeNeedsHuman" /\ doc.status = "fixing"
    /\ exec.at = "Done" => doc.status \in Terminal

\* what the lifecycle Lambda is about to put
LifeInv ==
  /\ doc.status = "grooming" => doc.pr # 0
  /\ exec.at = "AfterRun" /\ life.pc \in {"notify", "put"} =>
       /\ life.doc.attempts = exec.attempt
       /\ life.doc.status \in Reported
       /\ life.doc.status = "pr_open" => doc.pr = 0
       /\ life.doc.status = "grooming" => doc.pr # 0 /\ life.doc.pr # 0
  /\ exec.at \in Final /\ life.pc \in {"clear", "put"} =>
       life.doc.attempts = doc.attempts /\ life.doc.status = FinalStatus

\* the sum of the costs, in the row and on its way there: it has every report,
\* and one cost more at most for each failure, that of a put made once more
ChargeDue == IF exec.at = "AfterRun" /\ ~Wrote THEN 1 ELSE 0

CostInv ==
  /\ doc.cost + ChargeDue <= reports + faults
  /\ exec.at # "Failed" => reports <= doc.cost + ChargeDue
  /\ life.pc \in {"notify", "clear", "put"} =>
       life.doc.cost = IF exec.at = "AfterRun" THEN doc.cost + 1 ELSE doc.cost

PromiseInv == StartInv /\ RowInv /\ LifeInv /\ CostInv

-----------------------------------------------------------------------------
(* The invariant                                                            *)

LEMMA PromiseInit == ASSUME Prompt PROVE Init => PromiseInv
  BY DEF Prompt, Init, PromiseInv, StartInv, RowInv, LifeInv, CostInv, ChargeDue, Idle, Wrote, Final

\* The steps that neither touch the row nor the execution
LEMMA PromiseFrame ==
  ASSUME TypeInv, PromiseInv, UNCHANGED <<doc, exec, life, starter, upd, reports>>,
         faults' = faults \/ faults' = faults + 1
  PROVE  PromiseInv'
<1>1. StartInv' /\ LifeInv'
  BY DEF PromiseInv, StartInv, LifeInv, Reported, FinalStatus
<1>2. RowInv'
  BY DEF PromiseInv, RowInv, FirstRunDue, GroomRunDue, Written, Counted, Reported, Wrote,
         FinalStatus
<1>3. doc.cost \in Nat /\ reports \in Nat /\ faults \in Nat
  BY DEF TypeInv, TypeOK, Doc
<1>4. CostInv'
  BY <1>3 DEF PromiseInv, CostInv, ChargeDue, Wrote
<1> QED
  BY <1>1, <1>2, <1>4 DEF PromiseInv

\* A worker's callback, or the timeout in its place, ends a wait of Fix or Groom
LEMMA PromiseWorker == ASSUME Prompt, TypeInv, PromiseInv, Worker PROVE PromiseInv'
<1>1. UNCHANGED <<doc, life, starter, upd, faults>>
  BY DEF Worker, WorkerPush, WorkerReport, WorkerFail, WorkerDies, TaskTimeout, store, history
<1>2. CASE UNCHANGED <<exec, reports>>
  BY <1>1, <1>2, PromiseFrame
<1>3. CASE ~UNCHANGED <<exec, reports>>
  <2>1. Waiting /\ starter = "done"
    BY <1>3 DEF Prompt, MayReport, Worker, WorkerPush, WorkerReport, WorkerFail, WorkerDies,
                TaskTimeout, history
  <2>2. life.pc = "idle"
    BY <2>1 DEF Waiting, Working, Final, TypeInv, TypeOK, PcAgrees, LifeRun, LifePc
  <2>3. \/ exec'.at = "AfterRun" /\ reports' = reports + 1
        \/ exec'.at = "FinalizeNeedsHuman" /\ reports' = reports
    BY <1>3, <2>1 DEF Worker, WorkerPush, WorkerReport, WorkerFail, WorkerDies, TaskTimeout, Goto,
                      history, TypeInv, TypeOK, Execution
  <2>4. exec'.attempt = exec.attempt
    BY <1>3, <2>1 DEF Worker, WorkerPush, WorkerReport, WorkerFail, WorkerDies, TaskTimeout, Goto,
                      history, TypeInv, TypeOK, Execution
  <2>5. StartInv' /\ LifeInv'
    BY <1>1, <2>1, <2>2 DEF PromiseInv, StartInv, LifeInv
  <2>6. RowInv'
    BY <1>1, <2>1, <2>2, <2>3, <2>4
    DEF PromiseInv, RowInv, Waiting, Working, Final, FirstRunDue, GroomRunDue, Wrote
  <2>7. CostInv'
    BY <1>1, <2>1, <2>2, <2>3
    DEF PromiseInv, CostInv, ChargeDue, Waiting, Working, Wrote, TypeInv, TypeOK, Doc
  <2> QED
    BY <2>5, <2>6, <2>7 DEF PromiseInv
<1> QED
  BY <1>2, <1>3

\* An event that resumes a parked execution finds the row up to date
LEMMA PromiseResume ==
  ASSUME TypeInv, PromiseInv, exec.at = "Park", NEW ev \in Event, Resume(ev),
         UNCHANGED <<doc, starter, upd, faults, reports>>
  PROVE  PromiseInv'
<1>1. life' = Idle /\ exec'.at \in Final \cup {"Groom"}
  BY ResumeType DEF TypeInv
<1>2. exec'.at = RouteEvent(ev.kind) /\ exec'.at # "FinalizeNeedsHuman"
  BY DEF Resume, RouteEvent, Event, EventKind, TypeInv, TypeOK, Execution
<1>3. exec'.attempt = IF exec'.at = "Groom" THEN exec.attempt + 1 ELSE exec.attempt
  BY <1>2 DEF Resume, TypeInv, TypeOK, Execution
<1>4. starter = "done" /\ Counted /\ doc.status \in Reviewed
  BY DEF PromiseInv, StartInv, RowInv, TypeInv, TypeOK
<1>5. StartInv' /\ LifeInv'
  BY <1>1, <1>4 DEF PromiseInv, StartInv, LifeInv, Idle, Final
<1>6. RowInv'
  BY <1>1, <1>3, <1>4 DEF RowInv, Final, GroomRunDue, Counted, Wrote, Idle
<1>7. CostInv'
  BY <1>1 DEF PromiseInv, CostInv, ChargeDue, Wrote, Idle, Final
<1> QED
  BY <1>5, <1>6, <1>7 DEF PromiseInv

\* after_run and finalize read the row and prepare what they will put
LEMMA PromiseGet ==
  ASSUME TypeInv, PromiseInv, AfterRunGet \/ FinalizeGet
  PROVE  PromiseInv'
<1>1. UNCHANGED <<doc, exec, starter, upd, faults, reports>> /\ life.pc = "idle"
  BY DEF AfterRunGet, FinalizeGet, store, history
<1>2. StartInv'
  BY <1>1 DEF PromiseInv, StartInv
<1>3. CASE AfterRunGet
  <2>1. exec.at = "AfterRun" /\ exec.outcome \in Outcome
    BY <1>3 DEF AfterRunGet, TypeInv, EventsReal
  <2>2. /\ life'.pc = "notify" /\ life'.doc.attempts = exec.attempt
        /\ life'.doc.cost = doc.cost + 1 /\ life'.doc.status = OutcomeStatus
        /\ life'.doc.pr = doc.pr
    BY <1>3 DEF AfterRunGet, AfterRunDoc, TypeInv, TypeOK, LifeRun, Doc
  <2>3. /\ OutcomeStatus \in Reported
        /\ OutcomeStatus = "pr_open" => doc.pr = 0
        /\ OutcomeStatus = "grooming" => doc.pr # 0
    BY <2>1 DEF OutcomeStatus, Reported, Outcome
  <2>4. LifeInv'
    BY <1>1, <2>1, <2>2, <2>3 DEF PromiseInv, LifeInv, Reported, Final
  <2>5. RowInv'
    BY <1>1, <2>1, <2>2
    DEF PromiseInv, RowInv, FirstRunDue, GroomRunDue, Written, Counted, Reported, Wrote, Final
  <2>6. CostInv'
    BY <1>1, <2>1, <2>2 DEF PromiseInv, CostInv, ChargeDue, Wrote
  <2> QED
    BY <1>2, <2>4, <2>5, <2>6 DEF PromiseInv
<1>4. CASE FinalizeGet
  <2>1. exec.at \in Final
    BY <1>4 DEF FinalizeGet
  <2>2. /\ life'.pc = "clear" /\ life'.doc.attempts = doc.attempts
        /\ life'.doc.cost = doc.cost /\ life'.doc.status = FinalStatus
    BY <1>4 DEF FinalizeGet, TypeInv, TypeOK, LifeRun, Doc
  <2>3. LifeInv'
    BY <1>1, <2>1, <2>2 DEF PromiseInv, LifeInv, FinalStatus, Final
  <2>4. RowInv'
    BY <1>1, <2>1, <2>2 DEF PromiseInv, RowInv, Counted, Wrote, FinalStatus, Final
  <2>5. CostInv'
    BY <1>1, <2>1, <2>2 DEF PromiseInv, CostInv, ChargeDue, Wrote, Final, TypeInv, TypeOK, Doc
  <2> QED
    BY <1>2, <2>3, <2>4, <2>5 DEF PromiseInv
<1> QED
  BY <1>3, <1>4

\* On its way to the put the document may gain a PR number, nothing else
LEMMA PromiseOnTheWay ==
  ASSUME TypeInv, PromiseInv, LifeNotify \/ FinalizeClear
  PROVE  PromiseInv'
<1>1. UNCHANGED <<doc, exec, starter, upd, faults, reports>>
  BY DEF LifeNotify, FinalizeClear, store, history
<1>2. /\ life.pc \in {"notify", "clear"} /\ life'.pc = "put"
      /\ life'.doc.status = life.doc.status /\ life'.doc.attempts = life.doc.attempts
      /\ life'.doc.cost = life.doc.cost /\ (life.doc.pr # 0 => life'.doc.pr # 0)
  <2>1. CASE LifeNotify
    <3>1. PICK n \in Notified(life.doc) : life' = [life EXCEPT !.pc = "put", !.doc = n.doc]
      BY <2>1 DEF LifeNotify
    <3>2. life.doc \in Doc
      BY DEF TypeInv, TypeOK, LifeRun
    <3>3. /\ n.doc.status = life.doc.status /\ n.doc.attempts = life.doc.attempts
          /\ n.doc.cost = life.doc.cost /\ (life.doc.pr # 0 => n.doc.pr # 0)
      BY <3>2 DEF Notified, Doc
    <3> QED
      BY <2>1, <3>1, <3>3 DEF LifeNotify, TypeInv, TypeOK, LifeRun
  <2>2. CASE FinalizeClear
    BY <2>2 DEF FinalizeClear, TypeInv, TypeOK, LifeRun
  <2> QED
    BY <2>1, <2>2
<1>3. exec.at \in Final \cup {"AfterRun"} /\ (life.pc = "clear" => exec.at \in Final)
      /\ (life.pc = "notify" => exec.at = "AfterRun")
  BY <1>2 DEF TypeInv, PcAgrees
<1>4. StartInv'
  BY <1>1 DEF PromiseInv, StartInv
<1>5. LifeInv'
  BY <1>1, <1>2, <1>3 DEF PromiseInv, LifeInv, Reported, FinalStatus, Final
<1>6. RowInv'
  BY <1>1, <1>2
  DEF PromiseInv, RowInv, FirstRunDue, GroomRunDue, Written, Counted, Reported, Wrote, FinalStatus
<1>7. CostInv'
  BY <1>1, <1>2 DEF PromiseInv, CostInv, ChargeDue, Wrote
<1> QED
  BY <1>4, <1>5, <1>6, <1>7 DEF PromiseInv

\* What a put of the lifecycle Lambda replaces, and by what
LEMMA PutFacts ==
  ASSUME TypeInv, PromiseInv, LifePut
  PROVE  /\ doc' = life.doc /\ starter = "done"
         /\ \/ /\ exec.at = "AfterRun"
               /\ Written \/ FirstRunDue \/ GroomRunDue
               /\ life.doc.attempts = exec.attempt /\ life.doc.status \in Reported
               /\ life.doc.status = "pr_open" => doc.pr = 0
               /\ life.doc.status = "grooming" => doc.pr # 0 /\ life.doc.pr # 0
            \/ /\ exec.at \in Final
               /\ exec.at # "FinalizeNeedsHuman" => Counted
               /\ \/ doc.status \in Reviewed
                  \/ exec.at = "FinalizeNeedsHuman" /\ doc.status = "fixing"
               /\ life.doc.attempts = doc.attempts /\ life.doc.status = FinalStatus
<1>1. life.pc = "put" /\ doc' = life.doc
  BY DEF LifePut, PutDoc
<1>2. exec.at \in Final \cup {"AfterRun"}
  BY <1>1 DEF TypeInv, PcAgrees
<1>3. starter = "done"
  BY <1>2 DEF PromiseInv, StartInv, Final, TypeInv, TypeOK
<1> QED
  BY <1>1, <1>2, <1>3 DEF PromiseInv, RowInv, LifeInv, Wrote

LEMMA PromisePut == ASSUME TypeInv, PromiseInv, LifePut PROVE PromiseInv'
<1>1. /\ UNCHANGED <<exec, starter, upd, faults, reports>>
      /\ life.pc = "put" /\ life'.pc = "putpr" /\ doc' = life.doc
  BY DEF LifePut, PutDoc, history, TypeInv, TypeOK, LifeRun
<1>2. exec.at \in Final \cup {"AfterRun"} /\ starter = "done"
  BY PutFacts
<1>3. StartInv'
  BY <1>1, <1>2 DEF PromiseInv, StartInv
<1>4. LifeInv'
  BY <1>1, <1>2, PutFacts DEF LifeInv, FinalStatus
<1>5. RowInv'
  BY <1>1, <1>2, PutFacts
  DEF RowInv, Written, Counted, Reported, Wrote, FinalStatus, Final
<1>6. CostInv'
  BY <1>1, <1>2 DEF PromiseInv, CostInv, ChargeDue, Wrote, Final, TypeInv, TypeOK, LifeRun, Doc
<1> QED
  BY <1>3, <1>4, <1>5, <1>6 DEF PromiseInv

\* The Lambda returns from a put: the row says where the execution goes
LEMMA PromiseReturn == ASSUME TypeInv, PromiseInv, LifeReturn PROVE PromiseInv'
<1>1. UNCHANGED <<doc, starter, upd, faults, reports>> /\ Wrote /\ life' = Idle
  BY DEF LifeReturn, store, history, Wrote
<1>2. exec.at \in Final \cup {"AfterRun"} /\ starter = "done"
  BY DEF LifeReturn, TypeInv, TypeOK, PcAgrees, PromiseInv, StartInv, Final
<1>3. \/ /\ exec'.at = "Park" /\ exec'.attempt = exec.attempt
         /\ exec.at = "FinalizeReady" \/ (exec.at = "AfterRun" /\ exec.outcome = "pushed")
      \/ /\ exec'.at = "Done" /\ exec.at # "FinalizeReady"
         /\ exec.at = "AfterRun" => exec.outcome \in Outcome \ {"pushed"}
  BY <1>2 DEF LifeReturn, Continue, EnterPark, Goto, TypeInv, TypeOK, EventsReal, Execution
<1>4. StartInv' /\ LifeInv'
  BY <1>1, <1>2, <1>3 DEF PromiseInv, StartInv, LifeInv, Idle, Final
<1>5. RowInv'
  <2>1. CASE exec.at = "AfterRun"
    BY <1>1, <1>2, <1>3, <2>1
    DEF PromiseInv, RowInv, Written, Counted, Reported, Reviewed, Terminal, Outcome, Final
  <2>2. CASE exec.at \in Final
    BY <1>1, <1>2, <1>3, <2>2
    DEF PromiseInv, RowInv, Counted, FinalStatus, Reviewed, Terminal, Final
  <2> QED
    BY <1>2, <2>1, <2>2
<1>6. CostInv'
  BY <1>1, <1>2, <1>3
  DEF PromiseInv, CostInv, ChargeDue, Wrote, Idle, Final, TypeInv, TypeOK, Doc
<1> QED
  BY <1>4, <1>5, <1>6 DEF PromiseInv

\* A Lambda that fails is run again for AfterRun and ends the execution else
LEMMA PromiseLifeFails == ASSUME TypeInv, PromiseInv, LifeFails PROVE PromiseInv'
<1>1. /\ UNCHANGED <<doc, starter, upd, reports>> /\ life' = Idle /\ faults' = faults + 1
      /\ exec.at \in Final \cup {"AfterRun", "Park"}
  BY DEF LifeFails, store, history, TypeInv, TypeOK
<1>2. /\ exec'.attempt = exec.attempt /\ exec'.outcome = exec.outcome
      /\ (exec.at = "AfterRun" /\ exec'.at = "AfterRun") \/ exec'.at = "Failed"
  BY DEF LifeFails, TypeInv, TypeOK, Execution
<1>3. starter = "done"
  BY <1>1 DEF PromiseInv, StartInv, Final, TypeInv, TypeOK
<1>4. StartInv' /\ LifeInv'
  BY <1>1, <1>2, <1>3 DEF PromiseInv, StartInv, LifeInv, Idle, Final
<1>5. RowInv'
  BY <1>1, <1>2
  DEF PromiseInv, RowInv, FirstRunDue, GroomRunDue, Written, Counted, Reported, Wrote, Idle, Final
<1>6. CostInv'
  <2>1. doc.cost \in Nat /\ reports \in Nat /\ faults \in Nat
    BY DEF TypeInv, TypeOK, Doc
  <2>2. /\ doc.cost + ChargeDue <= reports + faults /\ reports <= doc.cost + ChargeDue
        /\ ChargeDue \in 0..1 /\ ChargeDue' \in 0..1
        /\ exec'.at = "AfterRun" => ChargeDue' = 1
    BY <1>1, <1>2 DEF PromiseInv, CostInv, ChargeDue, Wrote, Idle, Final
  <2>3. /\ doc'.cost + ChargeDue' <= reports' + faults'
        /\ exec'.at # "Failed" => reports' <= doc'.cost + ChargeDue'
    BY <1>1, <1>2, <2>1, <2>2
  <2>4. life'.pc = "idle"
    BY <1>1 DEF Idle
  <2> QED
    BY <2>3, <2>4 DEF CostInv
<1> QED
  BY <1>4, <1>5, <1>6 DEF PromiseInv

\* park and the end of its wait leave the row alone, and it is up to date
LEMMA PromisePark ==
  ASSUME TypeInv, PromiseInv,
         ParkGet \/ ParkRemove \/ ParkSetToken \/ ParkTimeout \/ LifePutPrRow
  PROVE  PromiseInv'
<1>1. UNCHANGED <<doc, starter, upd, faults, reports>>
  BY DEF ParkGet, ParkRemove, ParkSetToken, ParkTimeout, LifePutPrRow, PutPrRow, store, history
<1>2. CASE LifePutPrRow
  <2>1. exec' = exec /\ life.pc = "putpr" /\ life'.pc = "return"
    BY <1>2 DEF LifePutPrRow, TypeInv, TypeOK, LifeRun
  <2>2. StartInv' /\ LifeInv'
    BY <1>1, <2>1 DEF PromiseInv, StartInv, LifeInv
  <2>3. RowInv'
    BY <1>1, <2>1 DEF PromiseInv, RowInv, FirstRunDue, GroomRunDue, Written, Counted, Reported,
                      Wrote, FinalStatus
  <2>4. CostInv'
    BY <1>1, <2>1 DEF PromiseInv, CostInv, ChargeDue, Wrote
  <2> QED
    BY <2>2, <2>3, <2>4 DEF PromiseInv
<1>3. CASE ~LifePutPrRow
  <2>1. exec.at = "Park" /\ ~Wrote
    BY <1>3 DEF ParkGet, ParkRemove, ParkSetToken, ParkTimeout, Parked, Wrote, TypeInv, PcAgrees
  <2>2. life'.pc \in {"idle", "remove", "send", "settoken", "parked"}
    <3>1. CASE ParkGet
      BY <3>1 DEF ParkGet, TypeInv, TypeOK, LifeRun
    <3>2. CASE ParkRemove \/ ParkSetToken \/ ParkTimeout
      BY <3>2 DEF ParkRemove, ParkSetToken, ParkTimeout, Idle, TypeInv, TypeOK, LifeRun
    <3> QED
      BY <1>3, <3>1, <3>2
  <2>3. exec' = exec \/ exec'.at = "FinalizeNeedsHuman"
    BY <1>3 DEF ParkGet, ParkRemove, ParkSetToken, ParkTimeout, Goto, TypeInv, TypeOK, Execution
  <2>4. exec'.attempt = exec.attempt
    BY <1>3 DEF ParkGet, ParkRemove, ParkSetToken, ParkTimeout, Goto, TypeInv, TypeOK, Execution
  <2>5. starter = "done" /\ Counted /\ doc.status \in Reviewed
    BY <2>1, <2>2, <2>3 DEF PromiseInv, StartInv, RowInv, TypeInv, TypeOK
  <2>6. StartInv' /\ LifeInv'
    BY <1>1, <2>1, <2>2, <2>3, <2>5 DEF PromiseInv, StartInv, LifeInv, Final
  <2>7. RowInv'
    BY <1>1, <2>1, <2>2, <2>3, <2>4, <2>5 DEF RowInv, Final, Counted, Wrote
  <2>8. CostInv'
    BY <1>1, <2>1, <2>2, <2>3 DEF PromiseInv, CostInv, ChargeDue, Wrote
  <2> QED
    BY <2>6, <2>7, <2>8 DEF PromiseInv
<1> QED
  BY <1>2, <1>3

\* start_fix writes the row while the first run is at work
LEMMA PromiseStart == ASSUME TypeInv, PromiseInv, StarterPut PROVE PromiseInv'
<1>1. /\ starter' = "done" /\ UNCHANGED <<exec, life, upd, faults, reports>>
      /\ doc' = [status |-> "fixing", pr |-> 0, attempts |-> 0, cost |-> 0]
      /\ exec.at = "Fix" /\ exec.attempt = 0 /\ reports = 0
  BY DEF StarterPut, PutDoc, history, PromiseInv, StartInv
<1>2. life.pc = "idle"
  BY <1>1 DEF Final, TypeInv, TypeOK, PcAgrees, LifeRun, LifePc
<1>3. StartInv' /\ LifeInv'
  BY <1>1, <1>2 DEF PromiseInv, StartInv, LifeInv
<1>4. RowInv'
  BY <1>1 DEF RowInv, FirstRunDue, Final
<1>5. CostInv'
  BY <1>1, <1>2 DEF PromiseInv, StartInv, CostInv, ChargeDue, TypeInv, TypeOK
<1> QED
  BY <1>3, <1>4, <1>5 DEF PromiseInv

LEMMA PromiseStep ==
  ASSUME Prompt, TypeInv, PromiseInv, [Next]_vars
  PROVE  PromiseInv'
<1>1. CASE ParkSend
  <2>1. Resume(life.ev) /\ life.ev \in Event /\ exec.at = "Park"
    BY <1>1 DEF ParkSend, TypeInv, EventsReal, PcAgrees
  <2> QED
    BY <1>1, <2>1, PromiseResume DEF ParkSend, store
<1>2. CASE GitHub \/ Finished \/ UNCHANGED vars
  BY <1>2, PromiseFrame DEF GitHub, Webhook, Finished, vars, store, history
<1>3. ASSUME NEW h \in Hooks, HookSend(h) PROVE PromiseInv'
  <2>1. UNCHANGED <<doc, starter, upd, faults, reports>>
    BY <1>3 DEF HookSend, store
  <2>2. CASE exec.at = "Park" /\ exec.token = hook[h].tok
    <3>1. Resume(hook[h].ev) /\ hook[h].ev \in Event
      BY <1>3, <2>2 DEF HookSend, TypeInv, EventsReal
    <3> QED
      BY <2>1, <2>2, <3>1, PromiseResume
  <2>3. CASE ~(exec.at = "Park" /\ exec.token = hook[h].tok)
    BY <1>3, <2>1, <2>3, PromiseFrame DEF HookSend
  <2> QED
    BY <2>2, <2>3
<1>4. ASSUME NEW h \in Hooks, HookReadToken(h) \/ HookClear(h) \/ HookPush(h) \/ HookFails(h)
      PROVE  PromiseInv'
  <2>1. /\ UNCHANGED <<doc, exec, life, starter, upd, reports>>
        /\ faults' = faults \/ faults' = faults + 1
    BY <1>4 DEF HookReadToken, HookClear, HookPush, HookFails, store, history
  <2> QED
    BY <2>1, PromiseFrame
<1>5. ~Update
  BY DEF Update, UpdateGet, UpdateNotify, UpdatePut, UpdatePutPrRow, PromiseInv, StartInv
<1> QED
  BY <1>1, <1>2, <1>3, <1>4, <1>5, PromiseWorker, PromiseGet, PromiseOnTheWay, PromisePut,
     PromiseReturn, PromiseLifeFails, PromisePark, PromiseStart
  DEF Next, Life, Hook

LEMMA PromiseAlways == ASSUME Prompt PROVE Spec => []PromiseInv
<1>1. Init => PromiseInv
  BY PromiseInit
<1>2. TypeInv /\ PromiseInv /\ [Next]_vars => PromiseInv'
  BY PromiseStep
<1> QED
  BY <1>1, <1>2, TypeInvariant, PTL DEF Spec

-----------------------------------------------------------------------------
(* What the row tells                                                       *)

(* While the execution grooms or waits for GitHub the row shows a pull     *)
(* request in progress, and when it is over a terminal status, by which    *)
(* claim may take the fingerprint again (handlers/lifecycle.py, after_run, *)
(* finalize; core/store.py, claim), however often a Lambda fails.          *)
THEOREM RowAlwaysTracks == ASSUME Prompt PROVE Spec => []RowTracksExecution
<1>1. TypeInv /\ PromiseInv => RowTracksExecution
  BY DEF TypeInv, TypeOK, PromiseInv, StartInv, RowInv, GroomRunDue, Reviewed,
         RowTracksExecution, Parked
<1> QED
  BY <1>1, TypeInvariant, PromiseAlways, PTL

(* A parked execution finds every attempt in the row; every run it was told *)
(* of is charged, once when no Lambda fails and once more at most for each  *)
(* failure (handlers/lifecycle.py, after_run, and its Retry).               *)
THEOREM CountersAlwaysAccurate == ASSUME Prompt PROVE Spec => []CountersAccurate
<1>1. TypeInv /\ PromiseInv => CountersAccurate
  BY DEF TypeInv, TypeOK, Doc, PromiseInv, StartInv, RowInv, CostInv, ChargeDue, Counted,
         CountersAccurate, Parked
<1> QED
  BY <1>1, TypeInvariant, PromiseAlways, PTL

-----------------------------------------------------------------------------
(* The refinement                                                           *)

LEMMA PutKeepsPromise ==
  ASSUME TypeInv, BudgetInv, PromiseInv, LifePut
  PROVE  [Promise!Next]_(Promise!vars)
<1>1. doc' = life.doc /\ doc.attempts \in Nat /\ exec.attempt \in Nat
  BY PutFacts DEF TypeInv, TypeOK, Doc, Execution
<1>2. CASE exec.at = "AfterRun"
  <2>1. /\ life.doc.attempts = exec.attempt /\ life.doc.status \in Reported
        /\ life.doc.status = "pr_open" => doc.pr = 0
        /\ life.doc.status = "grooming" => doc.pr # 0
        /\ Written \/ FirstRunDue \/ GroomRunDue
    BY <1>2, PutFacts DEF Final
  <2>2. exec.outcome \in Outcome
    BY <1>2 DEF TypeInv, EventsReal
  <2>3. CASE FirstRunDue
    <3>1. Promise!FirstRun
      BY <1>1, <2>1, <2>2, <2>3 DEF FirstRunDue, Reported, Outcome, Promise!FirstRun
    <3> QED
      BY <3>1 DEF Promise!Next
  <2>4. CASE GroomRunDue
    <3>1. doc.attempts < MaxAttempts
      BY <1>1, <2>4, BoundsAssumption DEF GroomRunDue, BudgetInv
    <3>2. Promise!GroomRun
      BY <1>1, <2>1, <2>2, <2>4, <3>1
      DEF GroomRunDue, Reviewed, Reported, Outcome, Promise!GroomRun, Promise!InReview
    <3> QED
      BY <3>2 DEF Promise!Next
  <2>5. CASE Written
    <3>1. \/ UNCHANGED Promise!vars
          \/ Promise!SecondAfterRun
      BY <1>1, <2>1, <2>2, <2>5
      DEF PromiseInv, LifeInv, Written, Counted, Reported, Outcome, Promise!vars,
          Promise!SecondAfterRun
    <3> QED
      BY <3>1 DEF Promise!Next
  <2> QED
    BY <2>1, <2>3, <2>4, <2>5
<1>3. CASE exec.at \in Final
  <2>1. /\ life.doc.attempts = doc.attempts /\ life.doc.status = FinalStatus
        /\ \/ doc.status \in Reviewed
           \/ exec.at = "FinalizeNeedsHuman" /\ doc.status = "fixing"
    BY <1>3, PutFacts DEF Final
  <2>2. Promise!MarkReady \/ Promise!Settle \/ Promise!GiveUp
    BY <1>1, <1>3, <2>1
    DEF Final, FinalStatus, Reviewed, Promise!MarkReady, Promise!Settle, Promise!GiveUp,
        Promise!InReview
  <2> QED
    BY <2>2 DEF Promise!Next
<1> QED
  BY <1>2, <1>3, PutFacts

\* Only the two puts of the document are seen from outside
LEMMA KeepsPromiseStep ==
  ASSUME TypeInv, BudgetInv, PromiseInv, [Next]_vars
  PROVE  [Promise!Next]_(Promise!vars)
<1>1. CASE LifePut
  BY <1>1, PutKeepsPromise
<1>2. CASE StarterPut
  <2>1. Promise!Start
    BY <1>2 DEF StarterPut, PutDoc, PromiseInv, StartInv, Promise!Start
  <2> QED
    BY <2>1 DEF Promise!Next
<1>3. ~Update
  BY DEF Update, UpdateGet, UpdateNotify, UpdatePut, UpdatePutPrRow, PromiseInv, StartInv
<1>4. CASE ~LifePut /\ ~StarterPut
  <2>1. CASE Worker \/ GitHub \/ Finished \/ UNCHANGED vars
    BY <2>1 DEF Worker, WorkerPush, WorkerReport, WorkerFail, WorkerDies, TaskTimeout, GitHub,
                Webhook, Finished, vars, store, Promise!vars
  <2>2. CASE Life \/ ParkTimeout \/ LifeFails
    BY <1>4, <2>2
    DEF Life, AfterRunGet, LifeNotify, LifePutPrRow, PutPrRow, LifeReturn, FinalizeGet,
        FinalizeClear, ParkGet, ParkRemove, ParkSend, ParkSetToken, ParkTimeout, LifeFails,
        store, Promise!vars
  <2>3. CASE \E h \in Hooks : Hook(h) \/ HookFails(h)
    BY <2>3 DEF Hook, HookReadToken, HookClear, HookSend, HookPush, HookFails, store,
                Promise!vars
  <2> QED
    BY <1>3, <1>4, <2>1, <2>2, <2>3 DEF Next
<1> QED
  BY <1>1, <1>2, <1>4

(* GroomLoop implements IssuePromise: whatever the handlers, the hooks and *)
(* the failures do in between, each write of the row is a step that the    *)
(* abstract issue may take (statemachine/issue.asl.json with               *)
(* handlers/lifecycle.py and start_fix).                                   *)
THEOREM GroomLoopKeepsPromise == ASSUME Prompt PROVE Spec => KeepsPromise
<1>1. Init => Promise!Init
  BY DEF Init, Promise!Init
<1>2. TypeInv /\ BudgetInv /\ PromiseInv /\ [Next]_vars => [Promise!Next]_(Promise!vars)
  BY KeepsPromiseStep
<1>3. Init => BudgetInv
  BY BoundsAssumption DEF Init, BudgetInv
<1>4. TypeInv /\ BudgetInv /\ [Next]_vars => BudgetInv'
  BY BudgetStep
<1> QED
  BY <1>1, <1>2, <1>3, <1>4, TypeInvariant, PromiseAlways, PTL DEF Spec, KeepsPromise, Promise!Spec
-----------------------------------------------------------------------------
(* What the promise is worth                                                *)

\* An issue never leaves a terminal status, and every attempt is one more
LEMMA PromiseForGood ==
  ASSUME [Promise!Next]_(Promise!vars), doc.status \in Terminal
  PROVE  UNCHANGED Promise!vars
  BY DEF Promise!Next, Promise!Start, Promise!FirstRun, Promise!GroomRun,
         Promise!SecondAfterRun, Promise!MarkReady, Promise!Settle, Promise!GiveUp,
         Promise!InReview, Terminal

(* A row that is settled stays as it is until claim takes the fingerprint    *)
(* again: neither a hook, nor a retried after_run, nor a worker that nobody  *)
(* waits for any more brings the issue back (core/store.py, TERMINAL).       *)
THEOREM SettledForGood ==
  ASSUME Prompt
  PROVE  Spec => [][doc.status \in Terminal => UNCHANGED <<doc.status, doc.attempts>>]_vars
<1>1. [Promise!Next]_(Promise!vars)
        => [doc.status \in Terminal => UNCHANGED <<doc.status, doc.attempts>>]_vars
  BY PromiseForGood DEF Promise!vars
<1> QED
  BY <1>1, GroomLoopKeepsPromise, PTL DEF KeepsPromise, Promise!Spec

-----------------------------------------------------------------------------
(* The execution as module Admission has it                                 *)

\* Steps that do not touch the row and leave the execution where Admission sees it
LEMMA AdmissionUnmoved ==
  ASSUME doc' = doc, starter' = starter,
         \/ exec'.at = exec.at
         \/ doc.status \in Terminal /\ "AfterRun" \notin {exec.at, exec'.at}
         \/ doc.status \notin Terminal /\ {exec.at, exec'.at} \cap Ended = {}
  PROVE  UNCHANGED Claim!vars
<1>1. /\ doc'.status = doc.status
      /\ (doc.status \in Terminal \/ exec'.at \in Ended)
            <=> (doc.status \in Terminal \/ exec.at \in Ended)
      /\ (exec'.at = "Failed" /\ doc.status \notin Terminal)
            <=> (exec.at = "Failed" /\ doc.status \notin Terminal)
      /\ (doc.status \in Terminal /\ exec'.at = "AfterRun")
            <=> (doc.status \in Terminal /\ exec.at = "AfterRun")
  BY DEF Ended
<1> QED
  BY <1>1 DEF Claim!vars

\* The row of Admission is that of GroomLoop
SeenRow == [status |-> IF doc.status = "grooming" THEN "pr_open" ELSE doc.status,
            opened |-> IF starter = "done" THEN 1 ELSE 0,
            recent |-> IF doc.status = "closed" THEN 1 ELSE 0]

LEMMA AdmissionWrites ==
  ASSUME NEW s, SeenRow' = Claim!Put(SeenRow, s)
  PROVE  Claim!Write("issue", s)
  BY DEF Claim!Write, SeenRow

LEMMA AdmissionStart ==
  ASSUME PromiseInv, StarterPut
  PROVE  Claim!PutFixing("start_fix")
<1>1. /\ starter = "put" /\ starter' = "done" /\ exec' = exec /\ exec.at = "Fix"
      /\ doc.status \in {"triaged", "awaiting_approval"} /\ doc'.status = "fixing"
  BY DEF StarterPut, PutDoc, PromiseInv, StartInv
<1>2. SeenRow' = Claim!Put(SeenRow, "fixing")
  BY <1>1 DEF SeenRow, Claim!Put, Claim!Started
<1>3. Claim!Write("issue", "fixing")
  BY <1>2, AdmissionWrites
<1>4. Claim!At("start_fix", "fixing") /\ Claim!Return("start_fix")
  BY <1>1 DEF Claim!At, Claim!Return, Claim!Idle
<1>5. /\ doc.status \notin Terminal /\ doc'.status \notin Terminal
      /\ exec.at \notin Ended /\ exec'.at \notin Ended
  BY <1>1 DEF Terminal, Ended
<1> QED
  BY <1>1, <1>3, <1>4, <1>5 DEF Claim!PutFixing, Ended

SeenRuns == [fp \in {"issue"} |->
               IF doc.status \in Terminal \/ exec.at \in Ended THEN 0 ELSE 1]
SeenEnding == [fp \in {"issue"} |->
                 IF doc.status \in Terminal /\ exec.at = "AfterRun" THEN 1 ELSE 0]

\* The write that ends the row
LEMMA AdmissionEnds ==
  ASSUME doc.status \notin Terminal, doc'.status \in Terminal, exec' = exec, exec.at \notin Ended,
         starter = "done", starter' = "done",
         IF exec.at = "AfterRun" THEN \E s \in Claim!AfterRunEnds : Claim!Write("issue", s)
         ELSE \E s \in Claim!FinalizeEnds : Claim!Write("issue", s)
  PROVE  Claim!RunEnds("issue")
<1>1. SeenRuns["issue"] > 0 /\ SeenRuns' = [SeenRuns EXCEPT !["issue"] = @ - 1]
  BY DEF SeenRuns
<1>2. IF exec.at = "AfterRun" THEN SeenEnding' = [SeenEnding EXCEPT !["issue"] = @ + 1]
      ELSE SeenEnding' = SeenEnding
  BY DEF SeenEnding
<1>3. \A i \in Claim!Invocations : ~Claim!At(i, "fixing")
  BY DEF Claim!At, Claim!Invocations
<1>4. \/ /\ \E s \in Claim!AfterRunEnds : Claim!Write("issue", s)
         /\ SeenEnding' = [SeenEnding EXCEPT !["issue"] = @ + 1]
      \/ /\ \E s \in Claim!FinalizeEnds : Claim!Write("issue", s)
         /\ SeenEnding' = SeenEnding
  BY <1>2
<1> QED
  BY <1>1, <1>3, <1>4 DEF Claim!RunEnds, SeenRuns, SeenEnding, Ended

LEMMA AdmissionPut ==
  ASSUME TypeInv, BudgetInv, PromiseInv, LifePut
  PROVE  Claim!Execution("issue") \/ UNCHANGED Claim!vars
<1>1. /\ doc' = life.doc /\ exec' = exec /\ starter' = starter /\ starter = "done"
      /\ exec.at \in Final \cup {"AfterRun"} /\ exec.at \notin Ended
  BY PutFacts DEF LifePut, Final, Ended
<1>2. [Promise!Next]_(Promise!vars)
  BY PutKeepsPromise
<1>3. doc'.status \in Reviewed \cup Terminal
  BY <1>1, PutFacts DEF Reported, FinalStatus, Final, Reviewed, Terminal, TypeInv, EventsReal, Outcome
<1>4. CASE doc.status \in Terminal
  <2>1. doc'.status = doc.status
    BY <1>2, <1>4, PromiseForGood DEF Promise!vars
  <2> QED
    BY <1>1, <2>1 DEF Claim!vars
<1>5. CASE doc.status \notin Terminal /\ doc'.status \in Terminal
  <2>1. SeenRow' = Claim!Put(SeenRow, doc'.status)
    BY <1>1, <1>5 DEF SeenRow, Claim!Put, Terminal
  <2>2. Claim!Write("issue", doc'.status)
    BY <2>1, AdmissionWrites
  <2>3. CASE exec.at = "AfterRun"
    <3>1. doc'.status \in Claim!AfterRunEnds
      BY <1>1, <1>5, <2>3, PutFacts
      DEF Reported, Final, Terminal, Claim!AfterRunEnds, TypeInv, EventsReal, Outcome
    <3> QED
      BY <1>1, <1>5, <2>2, <2>3, <3>1, AdmissionEnds DEF Claim!Execution
  <2>4. CASE exec.at \in Final
    <3>1. doc'.status \in Claim!FinalizeEnds /\ exec.at # "AfterRun"
      BY <1>1, <1>5, <2>4, PutFacts DEF FinalStatus, Final, Terminal, Claim!FinalizeEnds
    <3> QED
      BY <1>1, <1>5, <2>2, <3>1, AdmissionEnds DEF Claim!Execution
  <2> QED
    BY <1>1, <2>3, <2>4
<1>6. CASE doc.status \notin Terminal /\ doc'.status \in Reviewed \ Terminal
  <2> DEFINE seen == IF doc'.status = "grooming" THEN "pr_open" ELSE doc'.status
  <2>1. seen \in {"pr_open", "ready"}
    BY <1>6 DEF Reviewed
  <2>2. SeenRow' = Claim!Put(SeenRow, seen)
    BY <1>1, <1>6 DEF SeenRow, Claim!Put, Reviewed
  <2>3. Claim!Write("issue", seen)
    BY <2>2, AdmissionWrites
  <2> HIDE DEF seen
  <2>4. Claim!RunWrites("issue")
    BY <1>1, <1>6, <2>1, <2>3 DEF Claim!RunWrites, Ended
  <2> QED
    BY <2>4 DEF Claim!Execution
<1> QED
  BY <1>3, <1>4, <1>5, <1>6

\* An execution that has ended its row in after_run leaves it for good
LEMMA AdmissionLeaves ==
  ASSUME doc' = doc, starter' = starter, doc.status \in Terminal,
         exec.at = "AfterRun", exec'.at # "AfterRun"
  PROVE  Claim!RunReturns("issue")
  BY DEF Claim!RunReturns

\* The Lambda returns from a row that is settled, or to the wait
LEMMA AdmissionReturn ==
  ASSUME TypeInv, PromiseInv, PromiseInv', LifeReturn
  PROVE  Claim!Execution("issue") \/ UNCHANGED Claim!vars
<1>1. doc' = doc /\ starter' = starter /\ exec.at \in Final \cup {"AfterRun"}
  BY DEF LifeReturn, store, TypeInv, PcAgrees
<1>2. starter = "done"
  BY <1>1 DEF PromiseInv, StartInv, Final, TypeInv, TypeOK
<1>3. exec'.at = "Park" \/ exec'.at = "Done"
  BY DEF LifeReturn, Continue, EnterPark, Goto, TypeInv, TypeOK, Execution
<1>4. exec'.at = "Done" => doc.status \in Terminal
  BY <1>1, <1>2 DEF PromiseInv, RowInv
<1>5. CASE doc.status \in Terminal /\ exec.at = "AfterRun"
  BY <1>1, <1>3, <1>5, AdmissionLeaves DEF Claim!Execution
<1>6. CASE doc.status \in Terminal /\ exec.at # "AfterRun"
  BY <1>1, <1>3, <1>6, AdmissionUnmoved
<1>7. CASE doc.status \notin Terminal
  BY <1>1, <1>3, <1>4, <1>7, AdmissionUnmoved DEF Final, Ended
<1> QED
  BY <1>5, <1>6, <1>7

LEMMA AdmissionFails ==
  ASSUME TypeInv, LifeFails
  PROVE  Claim!Execution("issue") \/ UNCHANGED Claim!vars
<1>1. doc' = doc /\ starter' = starter /\ exec.at \in Final \cup {"AfterRun", "Park"}
  BY DEF LifeFails, store
<1>2. exec'.at = exec.at \/ exec'.at = "Failed"
  BY DEF LifeFails, TypeInv, TypeOK, Execution
<1>3. CASE exec'.at = exec.at
  BY <1>1, <1>3, AdmissionUnmoved
<1>4. CASE exec'.at = "Failed" /\ doc.status \in Terminal /\ exec.at # "AfterRun"
  BY <1>1, <1>4, AdmissionUnmoved
<1>5. CASE exec'.at = "Failed" /\ doc.status \in Terminal /\ exec.at = "AfterRun"
  BY <1>1, <1>5, AdmissionLeaves DEF Claim!Execution
<1>6. CASE exec'.at = "Failed" /\ doc.status \notin Terminal
  <2>1. exec.at \notin Ended
    BY <1>1 DEF Final, Ended
  <2>2. Claim!RunDies("issue")
    BY <1>1, <1>6, <2>1 DEF Claim!RunDies, Ended
  <2> QED
    BY <2>2 DEF Claim!Execution
<1> QED
  BY <1>2, <1>3, <1>4, <1>5, <1>6

LEMMA AdmissionStep ==
  ASSUME TypeInv, BudgetInv, PromiseInv, PromiseInv', [Next]_vars
  PROVE  [Claim!PutFixing("start_fix") \/ Claim!Execution("issue")]_(Claim!vars)
<1>1. CASE LifePut \/ LifeReturn \/ LifeFails \/ StarterPut
  BY <1>1, AdmissionPut, AdmissionReturn, AdmissionFails, AdmissionStart
<1>2. ~Update
  BY DEF Update, UpdateGet, UpdateNotify, UpdatePut, UpdatePutPrRow, PromiseInv, StartInv
<1>3. CASE ~LifePut /\ ~LifeReturn /\ ~LifeFails /\ ~StarterPut
  <2>1. doc' = doc /\ starter' = starter
    <3>1. CASE Worker \/ GitHub \/ Finished \/ UNCHANGED vars
      BY <3>1 DEF Worker, WorkerPush, WorkerReport, WorkerFail, WorkerDies, TaskTimeout, GitHub,
                  Webhook, Finished, vars, store
    <3>2. CASE Life \/ ParkTimeout
      BY <1>3, <3>2
      DEF Life, AfterRunGet, LifeNotify, LifePutPrRow, PutPrRow, FinalizeGet, FinalizeClear,
          ParkGet, ParkRemove, ParkSend, ParkSetToken, ParkTimeout, store
    <3>3. CASE \E h \in Hooks : Hook(h) \/ HookFails(h)
      BY <3>3 DEF Hook, HookReadToken, HookClear, HookSend, HookPush, HookFails, store
    <3> QED
      BY <1>2, <1>3, <3>1, <3>2, <3>3 DEF Next
  <2> DEFINE Inside == /\ {exec.at, exec'.at} \cap Ended = {}
                       /\ Waiting \/ "AfterRun" \notin {exec.at, exec'.at}
  <2>2. exec'.at = exec.at \/ Inside
    <3>1. CASE WorkerReport \/ WorkerFail \/ TaskTimeout
      BY <3>1 DEF WorkerReport, WorkerFail, TaskTimeout, Waiting, Working, Goto, Ended, TypeInv,
                  TypeOK, Execution
    <3>2. CASE ParkTimeout
      BY <3>2 DEF ParkTimeout, Parked, Goto, Ended, TypeInv, TypeOK, Execution
    <3>3. ASSUME NEW ev \in Event, exec.at = "Park", Resume(ev)
          PROVE  Inside
      BY <3>3, ResumeType DEF TypeInv, TypeOK, Ended, Working, Final
    <3>4. CASE ParkSend
      BY <3>3, <3>4 DEF ParkSend, TypeInv, PcAgrees, EventsReal
    <3>5. ASSUME NEW h \in Hooks, HookSend(h)
          PROVE  exec'.at = exec.at \/ Inside
      BY <3>3, <3>5 DEF HookSend, TypeInv, EventsReal, Busy
    <3>6. CASE exec' = exec
      BY <3>6
    <3>7. CASE Life /\ ~ParkSend
      <4>1. exec' = exec
        BY <1>3, <3>7 DEF Life, AfterRunGet, LifeNotify, LifePutPrRow, FinalizeGet,
                          FinalizeClear, ParkGet, ParkRemove, ParkSetToken
      <4> QED
        BY <4>1
    <3>8. CASE WorkerPush \/ WorkerDies \/ GitHub \/ Finished \/ UNCHANGED vars
      BY <3>8 DEF WorkerPush, WorkerDies, GitHub, Webhook, Finished, vars
    <3>9. ASSUME NEW h \in Hooks, HookReadToken(h) \/ HookClear(h) \/ HookPush(h) \/ HookFails(h)
          PROVE  exec' = exec
      BY <3>9 DEF HookReadToken, HookClear, HookPush, HookFails
    <3> QED
      BY <1>2, <1>3, <3>1, <3>2, <3>4, <3>5, <3>6, <3>7, <3>8, <3>9 DEF Next, Worker, Hook
  <2>3. Waiting => doc.status \notin Terminal
    BY DEF Waiting, Working, PromiseInv, StartInv, RowInv, FirstRunDue, GroomRunDue, Reviewed,
           Terminal, TypeInv, TypeOK
  <2> QED
    BY <2>1, <2>2, <2>3, AdmissionUnmoved
<1> QED
  BY <1>1, <1>3

(* Admission reduces an execution to one put of start_fix, writes that keep  *)
(* the row live, one that ends the row, the end of after_run, or a death.    *)
(* Whatever the handlers, the hooks and the failures do, GroomLoop shows no  *)
(* more of it.                                                               *)
THEOREM ExecutionAsAdmitted == ASSUME Prompt PROVE Spec => RunsAsAdmitted
<1>1. TypeInv /\ BudgetInv /\ PromiseInv /\ PromiseInv' /\ [Next]_vars
        => [Claim!PutFixing("start_fix") \/ Claim!Execution("issue")]_(Claim!vars)
  BY AdmissionStep
<1>2. Init => BudgetInv
  BY BoundsAssumption DEF Init, BudgetInv
<1>3. TypeInv /\ BudgetInv /\ [Next]_vars => BudgetInv'
  BY BudgetStep
<1> QED
  BY <1>1, <1>2, <1>3, TypeInvariant, PromiseAlways, PTL DEF Spec, RunsAsAdmitted
=============================================================================
