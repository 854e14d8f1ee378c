-------------------------- MODULE GroomLoopProofs --------------------------
(***************************************************************************)
(* What holds of GroomLoop for every set of hooks, every budget and every  *)
(* bound: its type invariant, the attempt budget, the currency of the      *)
(* stored token, the single delivery of every event, its safe keeping and  *)
(* that a terminal row is final.                                           *)
(***************************************************************************)
EXTENDS GroomLoop, TLAPS

-----------------------------------------------------------------------------
(* Type correctness                                                         *)

\* Which state of the machine each step of the lifecycle Lambda belongs to
PcAgrees ==
  /\ life.pc \in {"remove", "send", "settoken", "parked"} => exec.at = "Park"
  /\ life.pc = "clear" => exec.at \in Final
  /\ life.pc = "notify" => exec.at = "AfterRun"
  /\ life.pc \in {"put", "putpr", "return"} => exec.at \in Final \cup {"AfterRun"}

\* A busy handler holds a real event, and AfterRun a real outcome
EventsReal ==
  /\ \A h \in Hooks : hook[h].pc # "idle" => hook[h].ev \in Event
  /\ life.pc \in {"remove", "send"} => life.ev \in Event
  /\ exec.at = "AfterRun" => exec.outcome \in Outcome

\* Between the two calls of pop_pending, what was read is still the first
PopStable == life.pc = "remove" => pending # <<>> /\ life.ev = Head(pending)

TypeInv == TypeOK /\ PcAgrees /\ EventsReal /\ PopStable

LEMMA InitType == Init => TypeInv
<1> SUFFICES ASSUME Init PROVE TypeInv
  OBVIOUS
<1>1. doc \in Doc /\ upd \in UpdateRun
  BY BoundsAssumption DEF Init, Doc, NoDoc, Status, UpdateRun
<1>2. exec \in Execution
  BY DEF Execution, Init, AslState, Working
<1>3. life \in LifeRun
  BY DEF LifeRun, Init, Idle, LifePc, Doc, NoDoc, Status
<1>4. hook \in [Hooks -> HookRun]
  BY DEF HookRun, Init, IdleHook, HookPc
<1>5. gh \in PullRequest
  BY DEF PullRequest, Init
<1>6. /\ prRow \in 0..1 /\ token \in Nat /\ pending \in Seq(Event)
      /\ worker \in WorkerPc /\ starter \in {"put", "done"} /\ faults \in 0..MaxFaults
      /\ accepted \subseteq Nat /\ delivered \subseteq Nat /\ refused \subseteq Nat
      /\ reports \in Nat
  BY BoundsAssumption DEF Init, WorkerPc
<1>7. TypeOK
  BY <1>1, <1>2, <1>3, <1>4, <1>5, <1>6 DEF TypeOK
<1>8. PcAgrees /\ EventsReal /\ PopStable
  BY DEF Init, PcAgrees, EventsReal, PopStable, Idle, IdleHook
<1> QED
  BY <1>7, <1>8 DEF TypeInv


LEMMA IdleType == Idle \in LifeRun /\ IdleHook \in HookRun
  BY DEF Idle, IdleHook, LifeRun, HookRun, LifePc, HookPc, Doc, NoDoc, Status

\* The document an output returns is a document, and GitHub's answer a PR state
LEMMA NotifiedType ==
  ASSUME gh \in PullRequest, NEW d \in Doc, NEW n \in Notified(d)
  PROVE  n.doc \in Doc /\ n.pr \in {"none", "open", "merged", "closed"}
<1>1. gh.pr \in {"none", "open", "merged", "closed"}
  BY DEF PullRequest
<1>2. [d EXCEPT !.pr = 1] \in Doc
  BY DEF Doc
<1> QED
  BY <1>1, <1>2 DEF Notified

\* Every event routes to a groom run or to a Finalize state
LEMMA RouteType ==
  ASSUME NEW ev \in Event
  PROVE  RouteEvent(ev.kind) \in Final \cup {"Groom"}
  BY DEF Event, EventKind, RouteEvent, Final

LEMMA ResumeType ==
  ASSUME TypeOK, NEW ev \in Event, Resume(ev)
  PROVE  /\ exec' \in Execution /\ life' = Idle /\ worker' \in WorkerPc
         /\ delivered' \subseteq Nat
         /\ exec'.at \in Final \cup {"Groom"}
<1>1. RouteEvent(ev.kind) \in Final \cup {"Groom"}
  BY RouteType
<1>2. RouteEvent(ev.kind) \in AslState
  BY <1>1 DEF AslState, Working
<1> DEFINE n == IF RouteEvent(ev.kind) = "Groom" THEN exec.attempt + 1 ELSE exec.attempt
<1>3. n \in Nat
  BY DEF TypeOK, Execution
<1>4. exec' = [exec EXCEPT !.at = RouteEvent(ev.kind), !.ev = ev, !.attempt = n]
  BY DEF Resume
<1> HIDE DEF n
<1>5. exec' \in Execution
  BY <1>2, <1>3, <1>4 DEF TypeOK, Execution
<1>6. exec'.at = RouteEvent(ev.kind)
  BY <1>4 DEF TypeOK, Execution
<1> QED
  BY <1>1, <1>5, <1>6 DEF Resume, TypeOK, WorkerPc, Event

LEMMA TypeStep == TypeInv /\ [Next]_vars => TypeInv'
<1> SUFFICES ASSUME TypeInv, [Next]_vars PROVE TypeInv'
  OBVIOUS
<1> USE BoundsAssumption, KindsAssumption DEF TypeInv
<1>1. CASE WorkerPush
  <2>1. gh' \in PullRequest
    <3>1. gh' = [gh EXCEPT !.head = gh.head + 1] /\ gh \in PullRequest
      BY <1>1 DEF WorkerPush, TypeOK
    <3> QED
      BY <3>1 DEF PullRequest
  <2>2. TypeOK'
    BY <1>1, <2>1 DEF TypeOK, WorkerPush, store, history, WorkerPc
  <2>3. PcAgrees'
    BY <1>1 DEF PcAgrees, TypeOK, Execution, LifeRun, WorkerPush, store, history, Final, Working, WorkerPc
  <2>4. EventsReal'
    BY <1>1 DEF EventsReal, PcAgrees, TypeOK, Execution, LifeRun, HookRun, WorkerPush, store, history, WorkerPc
  <2>5. PopStable'
    BY <1>1 DEF PopStable, PcAgrees, TypeOK, Execution, LifeRun, WorkerPush, store, history, WorkerPc
  <2> QED
    BY <2>2, <2>3, <2>4, <2>5
<1>2. CASE WorkerReport
  <2>0. PICK o \in Outcome :
          exec' = IF Waiting
                  THEN [exec EXCEPT !.at = "AfterRun", !.outcome = o, !.retries = 0]
                  ELSE exec
    BY <1>2 DEF WorkerReport
  <2>a. ASSUME Waiting PROVE exec' \in Execution
    <3>1. exec' = [exec EXCEPT !.at = "AfterRun", !.outcome = o, !.retries = 0]
      BY <2>0, <2>a
    <3>2. "AfterRun" \in AslState /\ 0 \in 0..2
      BY DEF AslState
    <3> QED
      BY <3>1, <3>2 DEF TypeOK, Execution
  <2>b. ASSUME ~Waiting PROVE exec' \in Execution
    BY <2>0, <2>b DEF TypeOK
  <2>1. exec' \in Execution
    BY <2>a, <2>b
  <2>2. TypeOK'
    BY <1>2, <2>1 DEF TypeOK, WorkerReport, store, history, Waiting, WorkerPc
  <2>3. PcAgrees'
    BY <1>2 DEF PcAgrees, TypeOK, Execution, LifeRun, WorkerReport, store, history, Final, Working, Waiting, WorkerPc
  <2>4. EventsReal'
    BY <1>2 DEF EventsReal, PcAgrees, TypeOK, Execution, LifeRun, HookRun, WorkerReport, store, history, Waiting, WorkerPc
  <2>5. PopStable'
    BY <1>2 DEF PopStable, PcAgrees, TypeOK, Execution, LifeRun, WorkerReport, store, history, Waiting, WorkerPc
  <2> QED
    BY <2>2, <2>3, <2>4, <2>5
<1>3. CASE WorkerFail
  <2>1. exec' \in Execution
    BY <1>3 DEF WorkerFail, TypeOK, Execution, AslState, Working, Final, Ended, Waiting, Goto
  <2>2. TypeOK'
    BY <1>3, <2>1 DEF TypeOK, WorkerFail, store, history, Waiting, Goto, WorkerPc
  <2>3. PcAgrees'
    BY <1>3 DEF PcAgrees, TypeOK, Execution, LifeRun, WorkerFail, store, history, Final, Working, Waiting, Goto, WorkerPc
  <2>4. EventsReal'
    BY <1>3 DEF EventsReal, PcAgrees, TypeOK, Execution, LifeRun, HookRun, WorkerFail, store, history, Waiting, Goto, WorkerPc
  <2>5. PopStable'
    BY <1>3 DEF PopStable, PcAgrees, TypeOK, Execution, LifeRun, WorkerFail, store, history, Waiting, Goto, WorkerPc
  <2> QED
    BY <2>2, <2>3, <2>4, <2>5
<1>4. CASE WorkerDies
  <2>1. TypeOK'
    BY <1>4 DEF TypeOK, WorkerDies, store, history, WorkerPc
  <2>2. PcAgrees'
    BY <1>4 DEF PcAgrees, TypeOK, Execution, LifeRun, WorkerDies, store, history, Final, Working, WorkerPc
  <2>3. EventsReal'
    BY <1>4 DEF EventsReal, PcAgrees, TypeOK, Execution, LifeRun, HookRun, WorkerDies, store, history, WorkerPc
  <2>4. PopStable'
    BY <1>4 DEF PopStable, PcAgrees, TypeOK, Execution, LifeRun, WorkerDies, store, history, WorkerPc
  <2> QED
    BY <2>1, <2>2, <2>3, <2>4
<1>5. CASE TaskTimeout
  <2>1. exec' \in Execution
    BY <1>5 DEF TaskTimeout, TypeOK, Execution, AslState, Working, Final, Ended, Waiting, Goto
  <2>2. TypeOK'
    BY <1>5, <2>1 DEF TypeOK, TaskTimeout, store, history, Waiting, Goto
  <2>3. PcAgrees'
    BY <1>5 DEF PcAgrees, TypeOK, Execution, LifeRun, TaskTimeout, store, history, Final, Working, Waiting, Goto
  <2>4. EventsReal'
    BY <1>5 DEF EventsReal, PcAgrees, TypeOK, Execution, LifeRun, HookRun, TaskTimeout, store, history, Waiting, Goto
  <2>5. PopStable'
    BY <1>5 DEF PopStable, PcAgrees, TypeOK, Execution, LifeRun, TaskTimeout, store, history, Waiting, Goto
  <2> QED
    BY <2>2, <2>3, <2>4, <2>5
<1>6. CASE AfterRunGet
  <2>0. exec.outcome \in Outcome /\ exec.attempt \in Nat
    BY <1>6 DEF AfterRunGet, EventsReal, TypeOK, Execution
  <2> DEFINE st == CASE exec.outcome = "pushed" -> IF doc.pr = 0 THEN "pr_open" ELSE "grooming"
                     [] exec.outcome = "declined" -> "rca_only"
                     [] exec.outcome = "failed" -> "needs_human"
  <2>b. st \in Status /\ doc.cost + 1 \in Nat
    BY <2>0 DEF TypeOK, Doc, Status, Outcome
  <2>c. AfterRunDoc = [doc EXCEPT !.attempts = exec.attempt, !.cost = doc.cost + 1, !.status = st]
    BY DEF AfterRunDoc, OutcomeStatus
  <2> HIDE DEF st
  <2>a. AfterRunDoc \in Doc
    BY <2>0, <2>b, <2>c DEF TypeOK, Doc
  <2>1. life' \in LifeRun
    BY <1>6, <2>a DEF AfterRunGet, TypeOK, LifeRun, LifePc
  <2>2. TypeOK'
    BY <1>6, <2>1 DEF TypeOK, AfterRunGet, store, history
  <2>3. PcAgrees'
    BY <1>6 DEF PcAgrees, TypeOK, Execution, LifeRun, AfterRunGet, store, history, Final, Working
  <2>4. EventsReal'
    BY <1>6 DEF EventsReal, PcAgrees, TypeOK, Execution, LifeRun, HookRun, AfterRunGet, store, history
  <2>5. PopStable'
    BY <1>6 DEF PopStable, PcAgrees, TypeOK, Execution, LifeRun, AfterRunGet, store, history
  <2> QED
    BY <2>2, <2>3, <2>4, <2>5
<1>7. CASE LifeNotify
  <2>0. PICK n \in Notified(life.doc) :
          /\ life' = [life EXCEPT !.pc = "put", !.doc = n.doc]
          /\ gh' = [gh EXCEPT !.pr = n.pr]
    BY <1>7 DEF LifeNotify
  <2>a. n.doc \in Doc /\ n.pr \in {"none", "open", "merged", "closed"}
    BY NotifiedType DEF TypeOK, LifeRun
  <2>1. life' \in LifeRun
    BY <2>0, <2>a DEF TypeOK, LifeRun, LifePc
  <2>2. gh' \in PullRequest
    BY <2>0, <2>a DEF TypeOK, PullRequest
  <2>3. TypeOK'
    BY <1>7, <2>1, <2>2 DEF TypeOK, LifeNotify, store, history
  <2>4. PcAgrees'
    BY <1>7 DEF PcAgrees, TypeOK, Execution, LifeRun, LifeNotify, store, history, Final, Working
  <2>5. EventsReal'
    BY <1>7 DEF EventsReal, PcAgrees, TypeOK, Execution, LifeRun, HookRun, LifeNotify, store, history
  <2>6. PopStable'
    BY <1>7 DEF PopStable, PcAgrees, TypeOK, Execution, LifeRun, LifeNotify, store, history
  <2> QED
    BY <2>3, <2>4, <2>5, <2>6
<1>8. CASE LifePut
  <2>1. doc' \in Doc
    BY <1>8 DEF LifePut, TypeOK, Doc, Status, PutDoc, LifeRun
  <2>2. life' \in LifeRun
    BY <1>8 DEF LifePut, TypeOK, LifeRun, LifePc
  <2>3. TypeOK'
    BY <1>8, <2>1, <2>2 DEF TypeOK, LifePut, store, history, PutDoc
  <2>4. PcAgrees'
    BY <1>8 DEF PcAgrees, TypeOK, Execution, LifeRun, LifePut, store, history, Final, Working, PutDoc
  <2>5. EventsReal'
    BY <1>8 DEF EventsReal, PcAgrees, TypeOK, Execution, LifeRun, HookRun, LifePut, store, history, PutDoc
  <2>6. PopStable'
    BY <1>8 DEF PopStable, PcAgrees, TypeOK, Execution, LifeRun, LifePut, store, history, PutDoc
  <2> QED
    BY <2>3, <2>4, <2>5, <2>6
<1>9. CASE LifePutPrRow
  <2>1. prRow' \in 0..1
    BY <1>9 DEF LifePutPrRow, TypeOK, PutPrRow, LifeRun, Doc
  <2>2. life' \in LifeRun
    BY <1>9 DEF LifePutPrRow, TypeOK, LifeRun, LifePc
  <2>3. TypeOK'
    BY <1>9, <2>1, <2>2 DEF TypeOK, LifePutPrRow, store, history, PutPrRow
  <2>4. PcAgrees'
    BY <1>9 DEF PcAgrees, TypeOK, Execution, LifeRun, LifePutPrRow, store, history, Final, Working, PutPrRow
  <2>5. EventsReal'
    BY <1>9 DEF EventsReal, PcAgrees, TypeOK, Execution, LifeRun, HookRun, LifePutPrRow, store, history, PutPrRow
  <2>6. PopStable'
    BY <1>9 DEF PopStable, PcAgrees, TypeOK, Execution, LifeRun, LifePutPrRow, store, history, PutPrRow
  <2> QED
    BY <2>3, <2>4, <2>5, <2>6
<1>10. CASE LifeReturn
  <2>0. \/ exec' = [exec EXCEPT !.at = "Park", !.token = exec.token + 1]
        \/ exec' = [exec EXCEPT !.at = "Done"]
    BY <1>10 DEF LifeReturn, Continue, EnterPark, Goto
  <2>a. ASSUME exec' = [exec EXCEPT !.at = "Park", !.token = exec.token + 1]
        PROVE  exec' \in Execution
    <3>1. "Park" \in AslState /\ exec.token + 1 \in Nat
      BY DEF AslState, TypeOK, Execution
    <3> QED
      BY <2>a, <3>1 DEF TypeOK, Execution
  <2>b. ASSUME exec' = [exec EXCEPT !.at = "Done"] PROVE exec' \in Execution
    BY <2>b DEF TypeOK, Execution, AslState, Ended
  <2>1. exec' \in Execution
    BY <2>0, <2>a, <2>b
  <2>2. life' \in LifeRun
    BY <1>10, IdleType DEF LifeReturn
  <2>3. TypeOK'
    BY <1>10, <2>1, <2>2 DEF TypeOK, LifeReturn, store, history, Continue, EnterPark, Goto, Idle
  <2>4. PcAgrees'
    BY <1>10 DEF PcAgrees, TypeOK, Execution, LifeRun, LifeReturn, store, history, Final, Working, Continue, EnterPark, Goto, Idle
  <2>5. EventsReal'
    BY <1>10 DEF EventsReal, PcAgrees, TypeOK, Execution, LifeRun, HookRun, LifeReturn, store, history, Continue, EnterPark, Goto, Idle
  <2>6. PopStable'
    BY <1>10 DEF PopStable, PcAgrees, TypeOK, Execution, LifeRun, LifeReturn, store, history, Continue, EnterPark, Goto, Idle
  <2> QED
    BY <2>3, <2>4, <2>5, <2>6
<1>11. CASE FinalizeGet
  <2>1. life' \in LifeRun
    BY ZenonT(40), <1>11 DEF FinalizeGet, TypeOK, LifeRun, LifePc, FinalStatus, Doc, Status
  <2>2. TypeOK'
    BY <1>11, <2>1 DEF TypeOK, FinalizeGet, store, history
  <2>3. PcAgrees'
    BY <1>11 DEF PcAgrees, TypeOK, Execution, LifeRun, FinalizeGet, store, history, Final, Working
  <2>4. EventsReal'
    BY <1>11 DEF EventsReal, PcAgrees, TypeOK, Execution, LifeRun, HookRun, FinalizeGet, store, history
  <2>5. PopStable'
    BY <1>11 DEF PopStable, PcAgrees, TypeOK, Execution, LifeRun, FinalizeGet, store, history
  <2> QED
    BY <2>2, <2>3, <2>4, <2>5
<1>12. CASE FinalizeClear
  <2>1. life' \in LifeRun
    BY <1>12 DEF FinalizeClear, TypeOK, LifeRun, LifePc
  <2>2. TypeOK'
    BY <1>12, <2>1 DEF TypeOK, FinalizeClear, store, history
  <2>3. PcAgrees'
    BY <1>12 DEF PcAgrees, TypeOK, Execution, LifeRun, FinalizeClear, store, history, Final, Working
  <2>4. EventsReal'
    BY <1>12 DEF EventsReal, PcAgrees, TypeOK, Execution, LifeRun, HookRun, FinalizeClear, store, history
  <2>5. PopStable'
    BY <1>12 DEF PopStable, PcAgrees, TypeOK, Execution, LifeRun, FinalizeClear, store, history
  <2> QED
    BY <2>2, <2>3, <2>4, <2>5
<1>13. CASE ParkGet
  <2>0. pending # <<>> => Head(pending) \in Event
    BY DEF TypeOK
  <2>1. life' \in LifeRun
    BY <1>13, <2>0 DEF ParkGet, TypeOK, LifeRun, LifePc
  <2>2. TypeOK'
    BY <1>13, <2>1 DEF TypeOK, ParkGet, store, history
  <2>3. PcAgrees'
    BY <1>13 DEF PcAgrees, TypeOK, Execution, LifeRun, ParkGet, store, history, Final, Working
  <2>4. EventsReal'
    BY <1>13 DEF EventsReal, PcAgrees, TypeOK, Execution, LifeRun, HookRun, ParkGet, store, history
  <2>5. PopStable'
    BY <1>13 DEF PopStable, PcAgrees, TypeOK, Execution, LifeRun, ParkGet, store, history
  <2> QED
    BY <2>2, <2>3, <2>4, <2>5
<1>14. CASE ParkRemove
  <2>1. life' \in LifeRun
    BY <1>14 DEF ParkRemove, TypeOK, LifeRun, LifePc
  <2>2. pending' \in Seq(Event)
    BY <1>14 DEF ParkRemove, TypeOK, PopStable, PcAgrees
  <2>3. TypeOK'
    BY <1>14, <2>1, <2>2 DEF TypeOK, ParkRemove, store, history
  <2>4. PcAgrees'
    BY <1>14 DEF PcAgrees, TypeOK, Execution, LifeRun, ParkRemove, store, history, Final, Working
  <2>5. EventsReal'
    BY <1>14 DEF EventsReal, PcAgrees, TypeOK, Execution, LifeRun, HookRun, ParkRemove, store, history
  <2>6. PopStable'
    BY <1>14 DEF PopStable, PcAgrees, TypeOK, Execution, LifeRun, ParkRemove, store, history
  <2> QED
    BY <2>3, <2>4, <2>5, <2>6
<1>15. CASE ParkSend
  <2>0. life.ev \in Event
    BY <1>15 DEF ParkSend, EventsReal
  <2>1. /\ exec' \in Execution /\ life' = Idle /\ worker' \in WorkerPc
        /\ delivered' \subseteq Nat
        /\ exec'.at \in Final \cup {"Groom"}
    BY <1>15, <2>0, ResumeType DEF ParkSend
  <2>2. TypeOK'
    BY <1>15, <2>1, IdleType DEF TypeOK, ParkSend, store
  <2>3. PcAgrees'
    BY <2>1 DEF PcAgrees, Idle
  <2>4. EventsReal'
    BY <1>15, <2>1 DEF EventsReal, TypeOK, Idle, Final, ParkSend
  <2>5. PopStable'
    BY <2>1 DEF PopStable, Idle
  <2> QED
    BY <2>2, <2>3, <2>4, <2>5
<1>16. CASE ParkSetToken
  <2>1. life' \in LifeRun
    BY <1>16 DEF ParkSetToken, TypeOK, LifeRun, LifePc
  <2>2. TypeOK'
    BY <1>16, <2>1 DEF TypeOK, ParkSetToken, Execution, history
  <2>3. PcAgrees'
    BY <1>16 DEF PcAgrees, TypeOK, Execution, LifeRun, ParkSetToken, store, history, Final, Working
  <2>4. EventsReal'
    BY <1>16 DEF EventsReal, PcAgrees, TypeOK, Execution, LifeRun, HookRun, ParkSetToken, store, history
  <2>5. PopStable'
    BY <1>16 DEF PopStable, PcAgrees, TypeOK, Execution, LifeRun, ParkSetToken, store, history
  <2> QED
    BY <2>2, <2>3, <2>4, <2>5
<1>17. CASE ParkTimeout
  <2>1. exec' \in Execution
    BY <1>17 DEF ParkTimeout, TypeOK, Execution, AslState, Working, Final, Ended, Goto
  <2>2. life' \in LifeRun
    BY <1>17, IdleType DEF ParkTimeout
  <2>3. TypeOK'
    BY <1>17, <2>1, <2>2 DEF TypeOK, ParkTimeout, store, history, Parked, Goto, Idle
  <2>4. PcAgrees'
    BY <1>17 DEF PcAgrees, TypeOK, Execution, LifeRun, ParkTimeout, store, history, Final, Working, Parked, Goto, Idle
  <2>5. EventsReal'
    BY <1>17 DEF EventsReal, PcAgrees, TypeOK, Execution, LifeRun, HookRun, ParkTimeout, store, history, Parked, Goto, Idle
  <2>6. PopStable'
    BY <1>17 DEF PopStable, PcAgrees, TypeOK, Execution, LifeRun, ParkTimeout, store, history, Parked, Goto, Idle
  <2> QED
    BY <2>3, <2>4, <2>5, <2>6
<1>18. CASE LifeFails
  <2>0. \/ exec.retries < 2 /\ exec' = [exec EXCEPT !.retries = exec.retries + 1]
        \/ exec' = [exec EXCEPT !.at = "Failed"]
    BY <1>18 DEF LifeFails
  <2>1. exec' \in Execution
    <3>1. exec \in Execution
      BY DEF TypeOK
    <3>2. CASE exec' = [exec EXCEPT !.at = "Failed"]
      BY <3>1, <3>2 DEF Execution, AslState, Ended
    <3>3. CASE exec.retries < 2 /\ exec' = [exec EXCEPT !.retries = exec.retries + 1]
      <4>1. exec.retries \in 0..2 /\ exec.retries + 1 \in 0..2
        BY <3>1, <3>3 DEF Execution
      <4> QED
        BY <3>1, <3>3, <4>1 DEF Execution
    <3> QED
      BY <2>0, <3>2, <3>3
  <2>2. life' \in LifeRun
    BY <1>18, IdleType DEF LifeFails
  <2>3. TypeOK'
    BY <1>18, <2>1, <2>2 DEF TypeOK, LifeFails, store, history, Idle
  <2>4. PcAgrees'
    BY <1>18 DEF PcAgrees, TypeOK, Execution, LifeRun, LifeFails, store, history, Final, Working, Idle
  <2>5. EventsReal'
    BY <1>18 DEF EventsReal, PcAgrees, TypeOK, Execution, LifeRun, HookRun, LifeFails, store, history, Idle
  <2>6. PopStable'
    BY <1>18 DEF PopStable, PcAgrees, TypeOK, Execution, LifeRun, LifeFails, store, history, Idle
  <2> QED
    BY <2>3, <2>4, <2>5, <2>6
<1>19. ASSUME NEW h \in Hooks, NEW kind \in Kinds, NEW via \in {"pr", "branch"},
            Webhook(h, kind, via)
      PROVE TypeInv'
  <2> DEFINE ev == [id |-> gh.sent + 1, kind |-> kind]
  <2>0. ev \in Event
    BY DEF TypeOK, PullRequest, Event
  <2> DEFINE p == IF kind \in {"merged", "closed"} THEN kind ELSE gh.pr
  <2>a. /\ p \in {"none", "open", "merged", "closed"} 
        /\ gh.sent + 1 \in Nat
    BY DEF TypeOK, PullRequest
  <2>b. gh' = [gh EXCEPT !.sent = gh.sent + 1, !.pr = p]
    BY <1>19 DEF Webhook
  <2> HIDE DEF p
  <2>1. gh' \in PullRequest
    BY <2>a, <2>b DEF TypeOK, PullRequest
  <2>2. hook' \in [Hooks -> HookRun]
    <3>1. \/ hook' = hook
          \/ hook' = [hook EXCEPT ![h] = [hook[h] EXCEPT !.pc = "read", !.ev = ev]]
      BY <1>19 DEF Webhook
    <3>2. hook \in [Hooks -> HookRun]
      BY DEF TypeOK
    <3> QED
      BY ZenonT(40), <3>1, <3>2, <2>0 DEF HookRun, HookPc
  <2>3. TypeOK'
    BY <1>19, <2>1, <2>2 DEF TypeOK, Webhook, store, history, Event, PullRequest
  <2>4. PcAgrees'
    BY <1>19 DEF PcAgrees, TypeOK, Execution, LifeRun, Webhook, store, history, Final, Working, Event, PullRequest
  <2>5. EventsReal'
    <3>1. \A k \in Hooks : hook'[k] = hook[k] \/ hook'[k].ev = ev
      BY <1>19 DEF Webhook, TypeOK, HookRun
    <3> QED
      BY <1>19, <2>0, <3>1 DEF EventsReal, Webhook
  <2>6. PopStable'
    BY <1>19 DEF PopStable, PcAgrees, TypeOK, Execution, LifeRun, Webhook, store, history, Event, PullRequest
  <2> QED
    BY <2>3, <2>4, <2>5, <2>6
<1>20. ASSUME NEW h \in Hooks, HookReadToken(h) PROVE TypeInv'
  <2>1. hook' \in [Hooks -> HookRun]
    BY ZenonT(40), <1>20 DEF HookReadToken, TypeOK, HookRun, HookPc
  <2>2. TypeOK'
    BY <1>20, <2>1 DEF TypeOK, HookReadToken, store, history
  <2>3. PcAgrees'
    BY <1>20 DEF PcAgrees, TypeOK, Execution, LifeRun, HookReadToken, store, history, Final, Working
  <2>4. EventsReal'
    BY <1>20 DEF EventsReal, PcAgrees, TypeOK, Execution, LifeRun, HookRun, HookReadToken, store, history
  <2>5. PopStable'
    BY <1>20 DEF PopStable, PcAgrees, TypeOK, Execution, LifeRun, HookReadToken, store, history
  <2> QED
    BY <2>2, <2>3, <2>4, <2>5
<1>21. ASSUME NEW h \in Hooks, HookClear(h) PROVE TypeInv'
  <2>1. hook' \in [Hooks -> HookRun]
    BY <1>21 DEF HookClear, TypeOK, HookRun, HookPc
  <2>2. TypeOK'
    BY <1>21, <2>1 DEF TypeOK, HookClear, store, history
  <2>3. PcAgrees'
    BY <1>21 DEF PcAgrees, TypeOK, Execution, LifeRun, HookClear, store, history, Final, Working
  <2>4. EventsReal'
    BY <1>21 DEF EventsReal, PcAgrees, TypeOK, Execution, LifeRun, HookRun, HookClear, store, history
  <2>5. PopStable'
    BY <1>21 DEF PopStable, PcAgrees, TypeOK, Execution, LifeRun, HookClear, store, history
  <2> QED
    BY <2>2, <2>3, <2>4, <2>5
<1>22. ASSUME NEW h \in Hooks, HookSend(h) PROVE TypeInv'
  <2>1. hook' \in [Hooks -> HookRun]
    BY <1>22 DEF HookSend, TypeOK, HookRun, HookPc, IdleHook, NoEvent
  <2>0. hook[h].ev \in Event
    BY <1>22 DEF HookSend, EventsReal
  <2>2. Resume(hook[h].ev) =>
          /\ exec' \in Execution /\ life' = Idle /\ worker' \in WorkerPc
          /\ delivered' \subseteq Nat
          /\ exec'.at \in Final \cup {"Groom"}
    BY <2>0, ResumeType
  <2>r. refused' \subseteq Nat
    <3>1. refused' = refused \/ refused' = refused \cup {hook[h].ev.id}
      BY <1>22 DEF HookSend
    <3>2. hook[h].ev.id \in Nat
      BY <2>0 DEF Event
    <3> QED
      BY <3>1, <3>2 DEF TypeOK
  <2>3. CASE Resume(hook[h].ev)
    <3>1. TypeOK'
      BY <1>22, <2>r, <2>1, <2>2, <2>3, IdleType DEF TypeOK, HookSend, store
    <3>2. PcAgrees' /\ PopStable'
      BY <2>2, <2>3 DEF PcAgrees, PopStable, Idle
    <3>3. EventsReal'
      BY <1>22, <2>2, <2>3 DEF EventsReal, TypeOK, Idle, IdleHook, Final, HookSend
    <3> QED
      BY <3>1, <3>2, <3>3
  <2>4. CASE UNCHANGED <<exec, worker, life, delivered>>
    <3>1. TypeOK'
      BY <1>22, <2>r, <2>1, <2>4 DEF TypeOK, HookSend, store
    <3>2. PcAgrees' /\ PopStable'
      BY <1>22, <2>4 DEF PcAgrees, PopStable, HookSend, store
    <3>3. EventsReal'
      BY <1>22, <2>4 DEF EventsReal, TypeOK, IdleHook, HookSend
    <3> QED
      BY <3>1, <3>2, <3>3
  <2> QED
    BY <1>22, <2>3, <2>4 DEF HookSend
<1>23. ASSUME NEW h \in Hooks, HookPush(h) PROVE TypeInv'
  <2>1. hook' \in [Hooks -> HookRun]
    BY <1>23 DEF HookPush, TypeOK, HookRun, HookPc, IdleHook, NoEvent
  <2>2. pending' \in Seq(Event)
    BY <1>23 DEF HookPush, TypeOK, EventsReal
  <2>3. TypeOK'
    BY <1>23, <2>1, <2>2 DEF TypeOK, HookPush, store, history, IdleHook
  <2>4. PcAgrees'
    BY <1>23 DEF PcAgrees, TypeOK, Execution, LifeRun, HookPush, store, history, Final, Working, IdleHook
  <2>5. EventsReal'
    BY <1>23 DEF EventsReal, PcAgrees, TypeOK, Execution, LifeRun, HookRun, HookPush, store, history, IdleHook
  <2>6. PopStable'
    BY <1>23 DEF PopStable, PcAgrees, TypeOK, Execution, LifeRun, HookPush, store, history, IdleHook
  <2> QED
    BY <2>3, <2>4, <2>5, <2>6
<1>24. ASSUME NEW h \in Hooks, HookFails(h) PROVE TypeInv'
  <2>1. hook' \in [Hooks -> HookRun]
    BY <1>24 DEF HookFails, TypeOK, HookRun, HookPc, IdleHook, NoEvent
  <2>2. refused' \subseteq Nat
    <3>1. hook[h].ev.id \in Nat
      BY DEF TypeOK, HookRun, Event, NoEvent
    <3> QED
      BY <1>24, <3>1 DEF HookFails, TypeOK
  <2>6. TypeOK'
    BY <1>24, <2>1, <2>2 DEF TypeOK, HookFails, store, history, IdleHook
  <2>3. PcAgrees'
    BY <1>24 DEF PcAgrees, TypeOK, Execution, LifeRun, HookFails, store, history, Final, Working, IdleHook
  <2>4. EventsReal'
    BY <1>24 DEF EventsReal, PcAgrees, TypeOK, Execution, LifeRun, HookRun, HookFails, store, history, IdleHook
  <2>5. PopStable'
    BY <1>24 DEF PopStable, PcAgrees, TypeOK, Execution, LifeRun, HookFails, store, history, IdleHook
  <2> QED
    BY <2>6, <2>3, <2>4, <2>5
<1>25. CASE StarterPut
  <2>1. doc' \in Doc
    BY <1>25 DEF StarterPut, TypeOK, Doc, Status, PutDoc
  <2>2. TypeOK'
    BY <1>25, <2>1 DEF TypeOK, StarterPut, store, history, PutDoc
  <2>3. PcAgrees'
    BY <1>25 DEF PcAgrees, TypeOK, Execution, LifeRun, StarterPut, store, history, Final, Working, PutDoc
  <2>4. EventsReal'
    BY <1>25 DEF EventsReal, PcAgrees, TypeOK, Execution, LifeRun, HookRun, StarterPut, store, history, PutDoc
  <2>5. PopStable'
    BY <1>25 DEF PopStable, PcAgrees, TypeOK, Execution, LifeRun, StarterPut, store, history, PutDoc
  <2> QED
    BY <2>2, <2>3, <2>4, <2>5
<1>26. CASE UpdateGet
  <2>1. upd' \in UpdateRun
    BY <1>26 DEF UpdateGet, TypeOK, UpdateRun
  <2>2. TypeOK'
    BY <1>26, <2>1 DEF TypeOK, UpdateGet, store, history
  <2>3. PcAgrees'
    BY <1>26 DEF PcAgrees, TypeOK, Execution, LifeRun, UpdateGet, store, history, Final, Working
  <2>4. EventsReal'
    BY <1>26 DEF EventsReal, PcAgrees, TypeOK, Execution, LifeRun, HookRun, UpdateGet, store, history
  <2>5. PopStable'
    BY <1>26 DEF PopStable, PcAgrees, TypeOK, Execution, LifeRun, UpdateGet, store, history
  <2> QED
    BY <2>2, <2>3, <2>4, <2>5
<1>27. CASE UpdateNotify
  <2>0. PICK n \in Notified(upd.doc) :
          /\ upd' = [upd EXCEPT !.pc = "put", !.doc = n.doc]
          /\ gh' = [gh EXCEPT !.pr = n.pr]
    BY <1>27 DEF UpdateNotify
  <2>a. n.doc \in Doc /\ n.pr \in {"none", "open", "merged", "closed"}
    BY NotifiedType DEF TypeOK, UpdateRun
  <2>1. upd' \in UpdateRun
    BY <2>0, <2>a DEF TypeOK, UpdateRun
  <2>2. gh' \in PullRequest
    BY <2>0, <2>a DEF TypeOK, PullRequest
  <2>3. TypeOK'
    BY <1>27, <2>1, <2>2 DEF TypeOK, UpdateNotify, store, history
  <2>4. PcAgrees'
    BY <1>27 DEF PcAgrees, TypeOK, Execution, LifeRun, UpdateNotify, store, history, Final, Working
  <2>5. EventsReal'
    BY <1>27 DEF EventsReal, PcAgrees, TypeOK, Execution, LifeRun, HookRun, UpdateNotify, store, history
  <2>6. PopStable'
    BY <1>27 DEF PopStable, PcAgrees, TypeOK, Execution, LifeRun, UpdateNotify, store, history
  <2> QED
    BY <2>3, <2>4, <2>5, <2>6
<1>28. CASE UpdatePut
  <2>1. doc' \in Doc
    BY <1>28 DEF UpdatePut, TypeOK, Doc, Status, PutDoc, UpdateRun
  <2>2. upd' \in UpdateRun
    BY <1>28 DEF UpdatePut, TypeOK, UpdateRun
  <2>3. TypeOK'
    BY <1>28, <2>1, <2>2 DEF TypeOK, UpdatePut, store, history, PutDoc
  <2>4. PcAgrees'
    BY <1>28 DEF PcAgrees, TypeOK, Execution, LifeRun, UpdatePut, store, history, Final, Working, PutDoc
  <2>5. EventsReal'
    BY <1>28 DEF EventsReal, PcAgrees, TypeOK, Execution, LifeRun, HookRun, UpdatePut, store, history, PutDoc
  <2>6. PopStable'
    BY <1>28 DEF PopStable, PcAgrees, TypeOK, Execution, LifeRun, UpdatePut, store, history, PutDoc
  <2> QED
    BY <2>3, <2>4, <2>5, <2>6
<1>29. CASE UpdatePutPrRow
  <2>1. prRow' \in 0..1
    BY <1>29 DEF UpdatePutPrRow, TypeOK, PutPrRow, UpdateRun, Doc
  <2>2. upd' \in UpdateRun
    BY <1>29 DEF UpdatePutPrRow, TypeOK, UpdateRun
  <2>3. TypeOK'
    BY <1>29, <2>1, <2>2 DEF TypeOK, UpdatePutPrRow, store, history, PutPrRow
  <2>4. PcAgrees'
    BY <1>29 DEF PcAgrees, TypeOK, Execution, LifeRun, UpdatePutPrRow, store, history, Final, Working, PutPrRow
  <2>5. EventsReal'
    BY <1>29 DEF EventsReal, PcAgrees, TypeOK, Execution, LifeRun, HookRun, UpdatePutPrRow, store, history, PutPrRow
  <2>6. PopStable'
    BY <1>29 DEF PopStable, PcAgrees, TypeOK, Execution, LifeRun, UpdatePutPrRow, store, history, PutPrRow
  <2> QED
    BY <2>3, <2>4, <2>5, <2>6
<1>30. CASE UNCHANGED vars
  BY <1>30 DEF vars, TypeOK, PcAgrees, EventsReal, PopStable
<1> QED
  BY <1>1, <1>2, <1>3, <1>4, <1>5, <1>6, <1>7, <1>8, <1>9, <1>10, <1>11, <1>12, <1>13, <1>14, <1>15, <1>16, <1>17, <1>18, <1>19, <1>20, <1>21, <1>22, <1>23, <1>24, <1>25, <1>26, <1>27, <1>28, <1>29, <1>30 DEF Next, Worker, Life, GitHub, Hook, Update, Finished

(* Every state the program reaches is well typed, the Lambda's program     *)
(* counter agrees with the state machine, and pop_pending removes the      *)
(* event it returns (core/store.py, pop_pending; handlers/lifecycle.py).   *)
THEOREM TypeInvariant == Spec => []TypeInv
<1>1. Init => TypeInv
  BY InitType
<1>2. TypeInv /\ [Next]_vars => TypeInv'
  BY TypeStep
<1> QED
  BY <1>1, <1>2, PTL DEF Spec

(* Types alone: every variable keeps its type, for any number of hooks,     *)
(* events, attempts and failures.                                           *)
THEOREM TypesKept == Spec => []TypeOK
<1>1. TypeInv => TypeOK
  BY DEF TypeInv
<1> QED
  BY <1>1, TypeInvariant, PTL

-----------------------------------------------------------------------------
(* The attempt budget                                                       *)

\* Commits on the branch and the commit of a running worker, against the
\* groom runs started
BudgetInv ==
  /\ exec.attempt <= MaxAttempts
  /\ gh.head + (IF worker = "running" THEN 1 ELSE 0) <= exec.attempt + 1

LEMMA BudgetImplied == TypeInv /\ BudgetInv => BudgetRespected
  BY BoundsAssumption DEF TypeInv, TypeOK, Execution, PullRequest, BudgetInv, BudgetRespected

\* A delivered event adds at most the groom run it pays for
LEMMA ResumeBudget ==
  ASSUME TypeInv, BudgetInv, NEW ev \in Event, Resume(ev), gh' = gh
  PROVE  BudgetInv'
<1> DEFINE next == RouteEvent(ev.kind)
<1>1. next = "Groom" => exec.attempt < MaxAttempts
  BY DEF RouteEvent, Event, EventKind
<1>2. next = "Groom" => exec'.attempt = exec.attempt + 1
  BY DEF Resume, TypeInv, TypeOK, Execution
<1>3. next # "Groom" => exec'.attempt = exec.attempt /\ worker' = worker
  BY DEF Resume, TypeInv, TypeOK, Execution
<1> HIDE DEF next
<1> QED
  BY <1>1, <1>2, <1>3, BoundsAssumption
  DEF BudgetInv, TypeInv, TypeOK, Execution, PullRequest

LEMMA BudgetStep == TypeInv /\ BudgetInv /\ [Next]_vars => BudgetInv'
<1> SUFFICES ASSUME TypeInv, BudgetInv, [Next]_vars PROVE BudgetInv'
  OBVIOUS
<1> USE BoundsAssumption DEF BudgetInv
<1>1. CASE WorkerPush
  BY <1>1 DEF WorkerPush, TypeInv, TypeOK, PullRequest, Execution
<1>2. CASE WorkerReport
  <2>1. exec'.attempt = exec.attempt /\ exec.attempt \in Nat /\ UNCHANGED gh
    BY <1>2 DEF WorkerReport, TypeInv, TypeOK, Execution
  <2>2. worker' = "idle"
    BY <1>2 DEF WorkerReport
  <2> QED
    BY <2>1, <2>2 DEF TypeInv, TypeOK, PullRequest
<1>3. CASE WorkerFail \/ WorkerDies \/ TaskTimeout
  BY SMTT(30), <1>3 DEF WorkerFail, WorkerDies, TaskTimeout, Goto, TypeInv, TypeOK, PullRequest, Execution
<1>4. CASE LifeReturn \/ ParkTimeout \/ LifeFails
  BY <1>4 DEF LifeReturn, ParkTimeout, LifeFails, Continue, EnterPark, Goto, TypeInv, TypeOK,
              Execution
<1>5. CASE LifeNotify \/ UpdateNotify
  BY <1>5 DEF LifeNotify, UpdateNotify, TypeInv, TypeOK, PullRequest
<1>6. CASE ParkSend
  BY <1>6, ResumeBudget DEF ParkSend, TypeInv, EventsReal
<1>7. ASSUME NEW h \in Hooks, HookSend(h) PROVE BudgetInv'
  BY <1>7, ResumeBudget DEF HookSend, TypeInv, EventsReal
<1>8. ASSUME NEW h \in Hooks, NEW kind \in Kinds, NEW via \in {"pr", "branch"},
             Webhook(h, kind, via)
      PROVE  BudgetInv'
  BY <1>8 DEF Webhook, TypeInv, TypeOK, PullRequest
<1>9. CASE UNCHANGED <<exec, gh, worker>>
  BY <1>9
<1> QED
  BY <1>1, <1>2, <1>3, <1>4, <1>5, <1>6, <1>7, <1>8, <1>9
  DEF Next, Worker, Life, GitHub, Hook, Update, Finished, vars, AfterRunGet, LifePut,
      LifePutPrRow, FinalizeGet, FinalizeClear, ParkGet, ParkRemove, ParkSetToken,
      HookReadToken, HookClear, HookPush, HookFails, StarterPut, UpdateGet, UpdatePut,
      UpdatePutPrRow

(* No interleaving of late events, orphaned workers and failures makes     *)
(* grumpycat push more than once for the fix and once for each of its      *)
(* max_attempts groom runs (issue.asl.json, CheckBudget and BumpAttempt).  *)
THEOREM BudgetAlwaysRespected == Spec => []BudgetRespected
<1>1. Init => BudgetInv
  BY BoundsAssumption DEF Init, BudgetInv
<1>2. TypeInv /\ BudgetInv /\ [Next]_vars => BudgetInv'
  BY BudgetStep
<1> QED
  BY <1>1, <1>2, TypeInvariant, BudgetImplied, PTL DEF Spec

-----------------------------------------------------------------------------
(* The stored token                                                         *)

\* A hook holds a token that was published, and if that is the token of the
\* current visit, the one in the row is gone once the hook has cleared it
TokenInv ==
  /\ TokenIsCurrent
  /\ exec.at = "FinalizeNeedsHuman" /\ life.pc \in {"put", "putpr", "return"} => token = 0
  /\ \A h \in Hooks : hook[h].pc \in {"clear", "send"} =>
       /\ hook[h].tok <= exec.token
       /\ hook[h].tok = exec.token => Parked \/ exec.at # "Park"
       /\ hook[h].pc = "send" /\ hook[h].tok = exec.token => token = 0

\* Whoever delivers an event has seen to it that the row holds no token
LEMMA ResumeToken ==
  ASSUME TypeInv, TokenInv, NEW ev \in Event, Resume(ev), token' = 0,
         \A h \in Hooks : hook'[h] = hook[h] \/ hook'[h] = IdleHook
  PROVE  TokenInv'
<1>1. exec'.at \in Final \cup {"Groom"} /\ life' = Idle
  BY ResumeType DEF TypeInv
<1>2. exec'.token = exec.token
  BY DEF Resume, TypeInv, TypeOK, Execution
<1> QED
  BY <1>1, <1>2
  DEF TokenInv, TokenIsCurrent, Parked, Idle, IdleHook, Final, TypeInv, TypeOK, HookRun

LEMMA TokenStep == TypeInv /\ TokenInv /\ [Next]_vars => TokenInv'
<1> SUFFICES ASSUME TypeInv, TokenInv, [Next]_vars PROVE TokenInv'
  OBVIOUS
<1> USE DEF TokenInv, TokenIsCurrent, Parked
<1>1. CASE WorkerPush \/ WorkerDies
  BY <1>1 DEF WorkerPush, WorkerDies, store, history
<1>2. CASE WorkerReport \/ WorkerFail \/ TaskTimeout
  <2>1. exec' = exec \/ exec.at \in Working
    BY <1>2 DEF WorkerReport, WorkerFail, TaskTimeout, Waiting
  <2>2. exec'.token = exec.token /\ (exec' = exec \/ exec'.at \in {"AfterRun", "FinalizeNeedsHuman"})
    BY <1>2 DEF WorkerReport, WorkerFail, TaskTimeout, Goto, TypeInv, TypeOK, Execution
  <2>3. UNCHANGED <<token, life, hook>>
    BY <1>2 DEF WorkerReport, WorkerFail, TaskTimeout, store
  <2> QED
    BY <2>1, <2>2, <2>3 DEF TypeInv, PcAgrees, Working, Final
<1>3. CASE AfterRunGet \/ LifeNotify \/ LifePut \/ LifePutPrRow \/ FinalizeGet
  BY <1>3 DEF AfterRunGet, LifeNotify, LifePut, LifePutPrRow, FinalizeGet, PutDoc, PutPrRow,
              store, TypeInv, TypeOK, PcAgrees, LifeRun
<1>4. CASE LifeReturn
  <2>1. token = 0 /\ token' = 0 /\ hook' = hook /\ life' = Idle
    BY <1>4 DEF LifeReturn, store, TypeInv, PcAgrees, Final
  <2>2. \/ exec'.at = "Park" /\ exec'.token = exec.token + 1
        \/ exec'.at = "Done" /\ exec'.token = exec.token
    BY <1>4 DEF LifeReturn, Continue, EnterPark, Goto, TypeInv, TypeOK, Execution
  <2> QED
    BY <2>1, <2>2 DEF Idle, TypeInv, TypeOK, Execution, HookRun
<1>5. CASE FinalizeClear
  BY <1>5 DEF FinalizeClear, TypeInv, TypeOK, PcAgrees, LifeRun, Final
<1>6. CASE ParkGet \/ ParkRemove
  BY <1>6 DEF ParkGet, ParkRemove, store, TypeInv, TypeOK, PcAgrees, LifeRun
<1>7. CASE ParkSend
  <2>1. token = 0 /\ token' = 0 /\ hook' = hook
    BY <1>7 DEF ParkSend, store, TypeInv, PcAgrees
  <2> QED
    BY <1>7, <2>1, ResumeToken DEF ParkSend, TypeInv, EventsReal
<1>8. CASE ParkSetToken
  BY <1>8 DEF ParkSetToken, TypeInv, TypeOK, PcAgrees, LifeRun, Execution
<1>9. CASE ParkTimeout \/ LifeFails
  <2>1. exec'.token = exec.token /\ life' = Idle /\ token' = token /\ hook' = hook
    BY <1>9 DEF ParkTimeout, LifeFails, Goto, store, TypeInv, TypeOK, Execution
  <2>2. \/ exec'.at = "FinalizeNeedsHuman" /\ exec.at = "Park"
        \/ exec'.at = "AfterRun" /\ exec.at = "AfterRun"
        \/ exec'.at = "Failed" /\ ~Parked
    BY <1>9 DEF ParkTimeout, LifeFails, Goto, TypeInv, TypeOK, Execution
  <2> QED
    BY <2>1, <2>2 DEF Idle
<1>10. ASSUME NEW h \in Hooks, NEW kind \in Kinds, NEW via \in {"pr", "branch"},
              Webhook(h, kind, via)
       PROVE  TokenInv'
  BY <1>10 DEF Webhook, store, TypeInv, TypeOK, HookRun
<1>11. ASSUME NEW h \in Hooks, HookReadToken(h) PROVE TokenInv'
  BY <1>11 DEF HookReadToken, store, TypeInv, TypeOK, HookRun, Execution
<1>12. ASSUME NEW h \in Hooks, HookClear(h) PROVE TokenInv'
  BY <1>12 DEF HookClear, TypeInv, TypeOK, HookRun
<1>13. ASSUME NEW h \in Hooks, HookSend(h) PROVE TokenInv'
  <2>1. \A g \in Hooks : hook'[g] = hook[g] \/ hook'[g] = IdleHook
    BY <1>13 DEF HookSend, TypeInv, TypeOK
  <2>2. token' = token
    BY <1>13 DEF HookSend, store
  <2>3. CASE exec.at = "Park" /\ exec.token = hook[h].tok
    <3>1. token = 0 /\ Resume(hook[h].ev) /\ hook[h].ev \in Event
      BY <1>13, <2>3 DEF HookSend, TypeInv, EventsReal
    <3> QED
      BY <2>1, <2>2, <3>1, ResumeToken
  <2>4. CASE ~(exec.at = "Park" /\ exec.token = hook[h].tok)
    BY <1>13, <2>1, <2>2, <2>4 DEF HookSend, IdleHook
  <2> QED
    BY <2>3, <2>4
<1>14. ASSUME NEW h \in Hooks, HookPush(h) \/ HookFails(h) PROVE TokenInv'
  BY <1>14 DEF HookPush, HookFails, store, IdleHook, TypeInv, TypeOK
<1>15. CASE StarterPut \/ Update \/ UNCHANGED vars
  BY <1>15 DEF StarterPut, Update, UpdateGet, UpdateNotify, UpdatePut, UpdatePutPrRow, PutDoc,
               PutPrRow, store, vars
<1> QED
  BY <1>1, <1>2, <1>3, <1>4, <1>5, <1>6, <1>7, <1>8, <1>9, <1>10, <1>11, <1>12, <1>13, <1>14,
     <1>15
  DEF Next, Worker, Life, GitHub, Hook, Finished

(* Whatever the hooks, park and finalize do to the row, a wait_token found *)
(* in it belongs to the current wait (core/store.py, set_wait_token).      *)
THEOREM TokenAlwaysCurrent == Spec => []TokenIsCurrent
<1>1. Init => TokenInv
  BY DEF Init, TokenInv, TokenIsCurrent, IdleHook, Idle
<1>2. TypeInv /\ TokenInv /\ [Next]_vars => TokenInv'
  BY TokenStep
<1>3. TokenInv => TokenIsCurrent
  BY DEF TokenInv
<1> QED
  BY <1>1, <1>2, <1>3, TypeInvariant, PTL DEF Spec

-----------------------------------------------------------------------------
(* Single delivery                                                          *)

\* Every event known to the system was sent, so a new one is in no place yet
EventInv ==
  /\ DeliveredOnce
  /\ \A i \in DOMAIN pending : pending[i].id <= gh.sent
  /\ \A h \in Busy : hook[h].ev.id <= gh.sent
  /\ \A id \in Popped \cup delivered : id <= gh.sent

\* The steps that move no event
LEMMA SameEvents ==
  ASSUME EventInv, UNCHANGED <<pending, hook, delivered>>, gh'.sent = gh.sent,
         Popped' \subseteq Popped
  PROVE  EventInv'
<1>1. Busy' = Busy /\ Queued' = Queued
  BY DEF Busy, Queued
<1> QED
  BY <1>1 DEF EventInv, DeliveredOnce

\* Removing the head of the queue takes its event, and no other, out of it
LEMMA QueueTail ==
  ASSUME TypeInv, EventInv, pending # <<>>, pending' = Tail(pending)
  PROVE  /\ \A i, j \in DOMAIN pending' : pending'[i].id = pending'[j].id => i = j
         /\ Queued' \subseteq Queued
         /\ Head(pending).id \in Queued /\ Head(pending).id \notin Queued'
<1>1. /\ DOMAIN pending = 1..Len(pending) /\ Len(pending) \in Nat /\ Len(pending) > 0
      /\ DOMAIN pending' = 1..(Len(pending) - 1)
      /\ \A i \in DOMAIN pending' : i + 1 \in DOMAIN pending /\ pending'[i] = pending[i + 1]
      /\ Head(pending) = pending[1] /\ 1 \in DOMAIN pending
  BY DEF TypeInv, TypeOK
<1>2. \A i, j \in DOMAIN pending : pending[i].id = pending[j].id => i = j
  BY DEF EventInv, DeliveredOnce
<1>3. \A i, j \in DOMAIN pending' : pending'[i].id = pending'[j].id => i = j
  <2> TAKE i, j \in DOMAIN pending'
  <2> HAVE pending'[i].id = pending'[j].id
  <2>1. i + 1 = j + 1
    BY <1>1, <1>2
  <2> QED
    BY <1>1, <2>1
<1>4. Queued' \subseteq Queued
  BY <1>1 DEF Queued
<1>5. Head(pending).id \notin Queued'
  <2> SUFFICES ASSUME NEW i \in DOMAIN pending', pending'[i].id = pending[1].id PROVE FALSE
    BY <1>1 DEF Queued
  <2>1. i + 1 = 1
    BY <1>1, <1>2
  <2> QED
    BY <1>1, <2>1
<1> QED
  BY <1>1, <1>3, <1>4, <1>5 DEF Queued

\* Queueing an event adds its id and no other
LEMMA QueueAppend ==
  ASSUME TypeInv, NEW ev \in Event, pending' = Append(pending, ev), ev.id \notin Queued,
         \A i, j \in DOMAIN pending : pending[i].id = pending[j].id => i = j
  PROVE  /\ \A i, j \in DOMAIN pending' : pending'[i].id = pending'[j].id => i = j
         /\ Queued' = Queued \cup {ev.id}
<1>1. /\ DOMAIN pending = 1..Len(pending) /\ Len(pending) \in Nat
      /\ DOMAIN pending' = 1..(Len(pending) + 1)
      /\ \A i \in DOMAIN pending : pending'[i] = pending[i]
      /\ pending'[Len(pending) + 1] = ev
  BY DEF TypeInv, TypeOK
<1>2. Queued' = Queued \cup {ev.id}
  BY <1>1 DEF Queued
<1> QED
  BY <1>1, <1>2 DEF Queued

LEMMA EventStep == TypeInv /\ EventInv /\ [Next]_vars => EventInv'
<1> SUFFICES ASSUME TypeInv, EventInv, [Next]_vars PROVE EventInv'
  OBVIOUS
<1>1. CASE Worker
  BY <1>1, SameEvents
  DEF Worker, WorkerPush, WorkerReport, WorkerFail, WorkerDies, TaskTimeout, store, history,
      TypeInv, TypeOK, PullRequest, Popped
<1>2. CASE AfterRunGet \/ LifeNotify \/ LifePut \/ LifePutPrRow \/ FinalizeGet \/ FinalizeClear
           \/ ParkGet \/ ParkSetToken
  BY <1>2, SameEvents
  DEF AfterRunGet, LifeNotify, LifePut, LifePutPrRow, FinalizeGet, FinalizeClear, ParkGet,
      ParkSetToken, PutDoc, PutPrRow, store, history, TypeInv, TypeOK, PullRequest, LifeRun, Popped
<1>3. CASE LifeReturn \/ ParkTimeout \/ LifeFails
  BY <1>3, SameEvents DEF LifeReturn, ParkTimeout, LifeFails, store, history, Popped, Idle
<1>4. CASE ParkRemove
  <2>1. /\ Popped = {} /\ Popped' = {Head(pending).id}
        /\ pending # <<>> /\ pending' = Tail(pending)
    BY <1>4 DEF ParkRemove, Popped, TypeInv, TypeOK, LifeRun, PopStable
  <2>2. UNCHANGED <<hook, delivered, gh>> /\ Busy' = Busy
    BY <1>4 DEF ParkRemove, history, Busy
  <2>3. \A id \in Queued : id <= gh.sent
    BY DEF EventInv, Queued
  <2>4. \A i \in DOMAIN pending' : pending'[i].id \in Queued'
    BY DEF Queued
  <2> QED
    BY <2>1, <2>2, <2>3, <2>4, QueueTail DEF EventInv, DeliveredOnce
<1>5. CASE ParkSend
  <2>1. Popped = {life.ev.id} /\ Popped' = {} /\ delivered' = delivered \cup {life.ev.id}
    BY <1>5 DEF ParkSend, Resume, Popped, Idle
  <2>2. UNCHANGED <<pending, hook, gh>> /\ Busy' = Busy /\ Queued' = Queued
    BY <1>5 DEF ParkSend, store, Busy, Queued
  <2> QED
    BY <2>1, <2>2 DEF EventInv, DeliveredOnce
<1>6. ASSUME NEW h \in Hooks, NEW kind \in Kinds, NEW via \in {"pr", "branch"},
             Webhook(h, kind, via)
      PROVE  EventInv'
  <2>1. /\ UNCHANGED <<pending, delivered>> /\ Queued' = Queued /\ Popped' = Popped
        /\ gh'.sent = gh.sent + 1 /\ gh.sent \in Nat
    BY <1>6 DEF Webhook, store, Queued, Popped, TypeInv, TypeOK, PullRequest
  <2>2. \/ Busy' = Busy /\ hook' = hook
        \/ /\ Busy' = Busy \cup {h} /\ h \notin Busy /\ hook'[h].ev.id = gh.sent + 1
           /\ \A g \in Busy : hook'[g] = hook[g]
    <3>1. CASE hook' = hook
      BY <3>1 DEF Busy
    <3>2. CASE hook' # hook
      <4>1. hook' = [hook EXCEPT ![h] = [hook[h] EXCEPT !.pc = "read",
                       !.ev = [id |-> gh.sent + 1, kind |-> kind]]]
        BY <1>6, <3>2 DEF Webhook
      <4>2. /\ hook'[h].pc = "read" /\ hook'[h].ev.id = gh.sent + 1
            /\ \A g \in Hooks : g # h => hook'[g] = hook[g]
        BY <4>1 DEF TypeInv, TypeOK, HookRun
      <4>3. hook[h].pc = "idle"
        BY <1>6 DEF Webhook
      <4> QED
        BY <4>2, <4>3 DEF Busy
    <3> QED
      BY <3>1, <3>2
  <2>3. /\ \A id \in Queued \cup Popped \cup delivered : id <= gh.sent /\ id \in Nat
        /\ \A g \in Busy : hook[g].ev.id <= gh.sent /\ hook[g].ev.id \in Nat
    <3>1. \A e \in Event : e.id \in Nat
      BY DEF Event
    <3>2. \A i \in DOMAIN pending : pending[i] \in Event
      BY DEF TypeInv, TypeOK
    <3>3. \A g \in Busy : hook[g].ev \in Event
      BY DEF Busy, TypeInv, EventsReal
    <3>4. \A id \in Popped : id \in Nat
      BY <3>1 DEF Popped, TypeInv, EventsReal
    <3>5. delivered \subseteq Nat
      BY DEF TypeInv, TypeOK
    <3> QED
      BY <3>1, <3>2, <3>3, <3>4, <3>5 DEF EventInv, Queued
  <2>4. \A i \in DOMAIN pending : pending[i].id \in Queued
    BY DEF Queued
  <2> QED
    BY <2>1, <2>2, <2>3, <2>4 DEF EventInv, DeliveredOnce
<1>7. ASSUME NEW h \in Hooks, HookReadToken(h) \/ HookClear(h) PROVE EventInv'
  <2>1. /\ UNCHANGED <<pending, delivered, gh, life>> /\ Queued' = Queued /\ Popped' = Popped
        /\ Busy' = Busy /\ \A g \in Hooks : hook'[g].ev = hook[g].ev
    <3>1. /\ UNCHANGED <<pending, delivered, gh, life>> /\ hook[h].pc # "idle"
      BY <1>7 DEF HookReadToken, HookClear, store, history
    <3>2. /\ hook'[h].pc # "idle" /\ hook'[h].ev = hook[h].ev
          /\ \A g \in Hooks : g # h => hook'[g] = hook[g]
      <4>1. CASE HookReadToken(h)
        BY <4>1 DEF HookReadToken, TypeInv, TypeOK, HookRun
      <4>2. CASE HookClear(h)
        BY <4>2 DEF HookClear, TypeInv, TypeOK, HookRun
      <4> QED
        BY <1>7, <4>1, <4>2
    <3> QED
      BY <3>1, <3>2 DEF Busy, Queued, Popped
  <2> QED
    BY <2>1 DEF EventInv, DeliveredOnce, Busy
<1>8. ASSUME NEW h \in Hooks, HookSend(h) \/ HookFails(h) PROVE EventInv'
  <2>1. /\ UNCHANGED <<pending, gh>> /\ Queued' = Queued /\ h \in Busy
        /\ Busy' = Busy \ {h} /\ \A g \in Busy' : hook'[g] = hook[g]
    BY <1>8 DEF HookSend, HookFails, store, Busy, Queued, IdleHook, TypeInv, TypeOK, HookRun
  <2>2. \/ delivered' = delivered /\ Popped' = Popped
        \/ delivered' = delivered \cup {hook[h].ev.id} /\ Popped' = {}
    BY <1>8 DEF HookSend, HookFails, Resume, Popped, Idle, history
  <2> QED
    BY <2>1, <2>2 DEF EventInv, DeliveredOnce
<1>9. ASSUME NEW h \in Hooks, HookPush(h) PROVE EventInv'
  <2>1. /\ UNCHANGED <<delivered, gh>> /\ Popped' = Popped /\ h \in Busy
        /\ Busy' = Busy \ {h} /\ \A g \in Busy' : hook'[g] = hook[g]
        /\ pending' = Append(pending, hook[h].ev) /\ hook[h].ev \in Event
    BY <1>9 DEF HookPush, history, Busy, Popped, IdleHook, TypeInv, TypeOK, HookRun, EventsReal
  <2>2. /\ \A i, j \in DOMAIN pending' : pending'[i].id = pending'[j].id => i = j
        /\ Queued' = Queued \cup {hook[h].ev.id}
    BY <2>1, QueueAppend DEF EventInv, DeliveredOnce
  <2>3. \A i \in DOMAIN pending' : pending'[i].id \in Queued'
    BY DEF Queued
  <2>4. \A id \in Queued : id <= gh.sent
    BY DEF EventInv, Queued
  <2> QED
    BY <2>1, <2>2, <2>3, <2>4 DEF EventInv, DeliveredOnce
<1>10. CASE StarterPut \/ Update \/ UNCHANGED vars
  BY <1>10, SameEvents
  DEF StarterPut, Update, UpdateGet, UpdateNotify, UpdatePut, UpdatePutPrRow, PutDoc, PutPrRow,
      store, history, vars, TypeInv, TypeOK, PullRequest, Popped
<1> QED
  BY <1>1, <1>2, <1>3, <1>4, <1>5, <1>6, <1>7, <1>8, <1>9, <1>10
  DEF Next, Life, GitHub, Hook, Finished

(* No event of GitHub is handed to the execution twice, however hooks,     *)
(* pop_pending and failures interleave (core/store.py, push_pending and    *)
(* pop_pending; handlers/github_hook.py, resume).                          *)
THEOREM EventsDeliveredOnce == Spec => []DeliveredOnce
<1>1. Init => EventInv
  BY DEF Init, EventInv, DeliveredOnce, Busy, Popped, Queued, IdleHook, Idle
<1>2. TypeInv /\ EventInv /\ [Next]_vars => EventInv'
  BY EventStep
<1>3. EventInv => DeliveredOnce
  BY DEF EventInv
<1> QED
  BY <1>1, <1>2, <1>3, TypeInvariant, PTL DEF Spec

-----------------------------------------------------------------------------
(* No event is lost                                                         *)

Held == {hook[h].ev.id : h \in Busy}
Places == delivered \cup refused \cup Queued \cup Popped \cup Held

\* EventsKept without its exemption for an execution that ends in order: only
\* a failed execution drops an event, the one its park had popped
KeptInv == exec.at # "Failed" => accepted \subseteq Places

\* A failed execution stays failed
LEMMA FailedForGood == TypeInv /\ [Next]_vars /\ exec.at = "Failed" => exec' = exec
<1> SUFFICES ASSUME TypeInv, [Next]_vars, exec.at = "Failed" PROVE exec' = exec
  OBVIOUS
<1> USE DEF TypeInv, PcAgrees, Working, Final
<1>1. CASE Worker
  BY <1>1 DEF Worker, WorkerPush, WorkerReport, WorkerFail, WorkerDies, TaskTimeout, Waiting
<1>2. CASE Life \/ ParkTimeout \/ LifeFails
  BY <1>2 DEF Life, AfterRunGet, LifeNotify, LifePut, LifePutPrRow, LifeReturn, FinalizeGet,
              FinalizeClear, ParkGet, ParkRemove, ParkSend, ParkSetToken, ParkTimeout, LifeFails,
              Parked
<1>3. CASE GitHub \/ \E h \in Hooks : Hook(h) \/ HookFails(h)
  BY <1>3 DEF GitHub, Webhook, Hook, HookReadToken, HookClear, HookSend, HookPush, HookFails
<1>4. CASE StarterPut \/ Update \/ Finished \/ UNCHANGED vars
  BY <1>4 DEF StarterPut, Update, UpdateGet, UpdateNotify, UpdatePut, UpdatePutPrRow, Finished,
              vars
<1> QED
  BY <1>1, <1>2, <1>3, <1>4 DEF Next

\* The steps in which no new event is accepted and none leaves its places
LEMMA NothingLost ==
  ASSUME TypeInv, KeptInv, [Next]_vars, accepted' = accepted,
         exec'.at # "Failed" => Places \subseteq Places'
  PROVE  KeptInv'
  BY FailedForGood DEF KeptInv

\* A hook that ends leaves the events of the others with them
LEMMA HookEnds ==
  ASSUME TypeInv, NEW h \in Hooks, hook[h].pc # "idle", hook' = [hook EXCEPT ![h] = IdleHook]
  PROVE  Held \subseteq Held' \cup {hook[h].ev.id}
<1>1. \A g \in Hooks : g # h => hook'[g] = hook[g]
  BY DEF TypeInv, TypeOK
<1> QED
  BY <1>1 DEF Held, Busy

LEMMA KeptStep == TypeInv /\ TokenInv /\ KeptInv /\ [Next]_vars => KeptInv'
<1> SUFFICES ASSUME TypeInv, TokenInv, KeptInv, [Next]_vars PROVE KeptInv'
  OBVIOUS
<1>1. ASSUME UNCHANGED <<accepted, delivered, refused, pending, hook>>, Popped \subseteq Popped'
      PROVE  KeptInv'
  <2>1. Places \subseteq Places'
    BY <1>1 DEF Places, Queued, Held, Busy
  <2> QED
    BY <1>1, <2>1, NothingLost
<1>2. CASE Worker \/ StarterPut \/ Update \/ Finished \/ UNCHANGED vars
  BY <1>1, <1>2
  DEF Worker, WorkerPush, WorkerReport, WorkerFail, WorkerDies, TaskTimeout, StarterPut, Update,
      UpdateGet, UpdateNotify, UpdatePut, UpdatePutPrRow, PutDoc, PutPrRow, Finished, vars,
      store, history, Popped
<1>3. CASE AfterRunGet \/ LifeNotify \/ LifePut \/ LifePutPrRow \/ LifeReturn \/ FinalizeGet
           \/ FinalizeClear \/ ParkGet \/ ParkSetToken \/ ParkTimeout
  <2>1. life.pc # "send" /\ UNCHANGED <<accepted, delivered, refused, pending, hook>>
    BY <1>3 DEF AfterRunGet, LifeNotify, LifePut, LifePutPrRow, LifeReturn, FinalizeGet,
                FinalizeClear, ParkGet, ParkSetToken, ParkTimeout, Parked, PutDoc, PutPrRow,
                store, history
  <2> QED
    BY <1>1, <2>1 DEF Popped
<1>4. CASE ParkRemove
  <2>1. /\ pending # <<>> /\ pending' = Tail(pending) /\ Popped = {}
        /\ Popped' = {Head(pending).id}
        /\ UNCHANGED <<accepted, delivered, refused, hook>>
    BY <1>4 DEF ParkRemove, Popped, history, TypeInv, TypeOK, LifeRun, PopStable
  <2>2. Queued \subseteq Queued' \cup {Head(pending).id}
    <3>1. /\ DOMAIN pending = 1..Len(pending) /\ Len(pending) \in Nat
          /\ DOMAIN pending' = 1..(Len(pending) - 1)
          /\ \A i \in DOMAIN pending' : pending'[i] = pending[i + 1]
          /\ Head(pending) = pending[1]
      BY <2>1 DEF TypeInv, TypeOK
    <3>2. \A i \in DOMAIN pending : i = 1 \/ (i - 1 \in DOMAIN pending' /\ pending'[i - 1] = pending[i])
      BY <3>1
    <3> QED
      BY <3>1, <3>2 DEF Queued
  <2>3. Places \subseteq Places'
    BY <2>1, <2>2 DEF Places, Held, Busy
  <2> QED
    BY <2>1, <2>3, NothingLost
<1>5. CASE ParkSend
  <2>1. Popped = {life.ev.id} /\ delivered' = delivered \cup {life.ev.id}
        /\ UNCHANGED <<accepted, refused, pending, hook>>
    BY <1>5 DEF ParkSend, Resume, Popped, store
  <2>2. Places \subseteq Places'
    BY <2>1 DEF Places, Queued, Held, Busy
  <2> QED
    BY <2>1, <2>2, NothingLost
<1>6. CASE LifeFails
  <2>1. UNCHANGED <<accepted, delivered, refused, pending, hook>>
    BY <1>6 DEF LifeFails, store, history
  <2>2. exec'.at # "Failed" => life.pc # "send"
    BY <1>6 DEF LifeFails, TypeInv, TypeOK, PcAgrees, Execution
  <2>3. exec'.at # "Failed" => Places \subseteq Places'
    BY <2>1, <2>2 DEF Places, Queued, Held, Busy, Popped
  <2> QED
    BY <2>1, <2>3, NothingLost
<1>7. ASSUME NEW h \in Hooks, NEW kind \in Kinds, NEW via \in {"pr", "branch"},
             Webhook(h, kind, via)
      PROVE  KeptInv'
  <2>1. UNCHANGED <<delivered, refused, pending, life, exec>> /\ hook[h].pc = "idle"
    BY <1>7 DEF Webhook, store
  <2>2. CASE Tracked(via)
    <3>1. /\ hook' = [hook EXCEPT ![h] = [hook[h] EXCEPT !.pc = "read",
                         !.ev = [id |-> gh.sent + 1, kind |-> kind]]]
          /\ accepted' = accepted \cup {gh.sent + 1}
      BY <1>7, <2>2 DEF Webhook
    <3>2. /\ hook'[h].pc = "read" /\ hook'[h].ev.id = gh.sent + 1
          /\ \A g \in Hooks : g # h => hook'[g] = hook[g]
      BY <3>1 DEF TypeInv, TypeOK, HookRun
    <3>3. Held \subseteq Held' /\ gh.sent + 1 \in Held'
      BY <2>1, <3>2 DEF Held, Busy
    <3> QED
      BY <2>1, <3>1, <3>3 DEF KeptInv, Places, Queued, Popped
  <2>3. CASE ~Tracked(via)
    BY <1>1, <1>7, <2>1, <2>3 DEF Webhook, Popped
  <2> QED
    BY <2>2, <2>3
<1>8. ASSUME NEW h \in Hooks, HookReadToken(h) \/ HookClear(h) PROVE KeptInv'
  <2>1. UNCHANGED <<accepted, delivered, refused, pending, life>> /\ hook[h].pc # "idle"
    BY <1>8 DEF HookReadToken, HookClear, store, history
  <2>2. /\ hook'[h].pc # "idle" /\ hook'[h].ev = hook[h].ev
        /\ \A g \in Hooks : g # h => hook'[g] = hook[g]
    <3>1. CASE HookReadToken(h)
      BY <3>1 DEF HookReadToken, TypeInv, TypeOK, HookRun
    <3>2. CASE HookClear(h)
      BY <3>2 DEF HookClear, TypeInv, TypeOK, HookRun
    <3> QED
      BY <1>8, <3>1, <3>2
  <2>3. Held \subseteq Held'
    BY <2>1, <2>2 DEF Held, Busy
  <2> QED
    BY <2>1, <2>3, NothingLost DEF Places, Queued, Popped
<1>9. ASSUME NEW h \in Hooks, HookSend(h) PROVE KeptInv'
  <2>1. /\ UNCHANGED <<accepted, pending>>
        /\ hook[h].pc # "idle" /\ hook' = [hook EXCEPT ![h] = IdleHook]
    BY <1>9 DEF HookSend, store
  <2>2. Held \subseteq Held' \cup {hook[h].ev.id} /\ Queued' = Queued
    BY <2>1, HookEnds DEF Queued
  <2>3. CASE exec.at = "Park" /\ exec.token = hook[h].tok
    <3>1. Popped = {}
      BY <1>9, <2>3 DEF HookSend, TokenInv, Parked, Popped
    <3>2. delivered' = delivered \cup {hook[h].ev.id} /\ refused' = refused
      BY <1>9, <2>3 DEF HookSend, Resume
    <3> QED
      BY <2>1, <2>2, <3>1, <3>2, NothingLost DEF Places
  <2>4. CASE ~(exec.at = "Park" /\ exec.token = hook[h].tok)
    <3>1. refused' = refused \cup {hook[h].ev.id} /\ UNCHANGED <<life, delivered>>
      BY <1>9, <2>4 DEF HookSend
    <3> QED
      BY <2>1, <2>2, <3>1, NothingLost DEF Places, Popped
  <2> QED
    BY <2>3, <2>4
<1>10. ASSUME NEW h \in Hooks, HookPush(h) PROVE KeptInv'
  <2>1. /\ UNCHANGED <<accepted, delivered, refused, life>>
        /\ hook[h].pc # "idle" /\ hook' = [hook EXCEPT ![h] = IdleHook]
        /\ pending' = Append(pending, hook[h].ev) /\ hook[h].ev \in Event
    BY <1>10 DEF HookPush, history, TypeInv, EventsReal
  <2>2. Queued \cup {hook[h].ev.id} \subseteq Queued'
    <3>1. /\ DOMAIN pending = 1..Len(pending) /\ Len(pending) \in Nat
          /\ DOMAIN pending' = 1..(Len(pending) + 1)
          /\ \A i \in DOMAIN pending : pending'[i] = pending[i]
          /\ pending'[Len(pending) + 1] = hook[h].ev
      BY <2>1 DEF TypeInv, TypeOK
    <3> QED
      BY <3>1 DEF Queued
  <2>3. Held \subseteq Held' \cup {hook[h].ev.id}
    BY <2>1, HookEnds
  <2> QED
    BY <2>1, <2>2, <2>3, NothingLost DEF Places, Popped
<1>11. ASSUME NEW h \in Hooks, HookFails(h) PROVE KeptInv'
  <2>1. /\ UNCHANGED <<accepted, delivered, pending, life>>
        /\ hook[h].pc # "idle" /\ hook' = [hook EXCEPT ![h] = IdleHook]
        /\ refused' = refused \cup {hook[h].ev.id}
    BY <1>11 DEF HookFails, store
  <2>2. Held \subseteq Held' \cup {hook[h].ev.id}
    BY <2>1, HookEnds
  <2> QED
    BY <2>1, <2>2, NothingLost DEF Places, Queued, Popped
<1> QED
  BY <1>2, <1>3, <1>4, <1>5, <1>6, <1>7, <1>8, <1>9, <1>10, <1>11 DEF Next, Life, GitHub, Hook

(* An event that a hook took for a tracked issue is in the hands of some   *)
(* handler, in the queue, delivered, or answered with an error, whatever   *)
(* the hooks, pop_pending and the timeouts do meanwhile; only a failed     *)
(* execution drops one (core/store.py, push_pending and pop_pending;       *)
(* handlers/github_hook.py, resume; handlers/lifecycle.py, park).          *)
THEOREM EventsAlwaysKept == Spec => []EventsKept
<1>1. Init => KeptInv
  BY DEF Init, KeptInv
<1>2. TypeInv /\ TokenInv /\ KeptInv /\ [Next]_vars => KeptInv'
  BY KeptStep
<1>3. KeptInv => EventsKept
  BY DEF KeptInv, EventsKept, Places, Held, Ended
<1>4. Init => TokenInv
  BY DEF Init, TokenInv, TokenIsCurrent, IdleHook, Idle
<1>5. TypeInv /\ TokenInv /\ [Next]_vars => TokenInv'
  BY TokenStep
<1> QED
  BY <1>1, <1>2, <1>3, <1>4, <1>5, TypeInvariant, PTL DEF Spec
-----------------------------------------------------------------------------
(* A terminal row is final                                                  *)

\* The execution is over, or can only come to its end: it finalizes for good,
\* or after_run has a run to record that pushed nothing
Settling ==
  \/ exec.at \in Ended \cup (Final \ {"FinalizeReady"})
  \/ exec.at = "AfterRun" /\ exec.outcome # "pushed"

\* What makes or keeps the row terminal is the end of the execution, or was
\* read from a row that was: the document of the Lambda before its put, and
\* that of an UPDATE
FinalInv ==
  /\ doc.status \in Terminal => Settling
  /\ upd.pc # "idle" /\ upd.doc.status \in Terminal => Settling
  /\ life.pc \in {"notify", "clear", "put"} => (life.doc.status \in Terminal <=> Settling)

\* What an output returns has the status it was shown
LEMMA NotifiedStatus ==
  ASSUME NEW d \in Doc, NEW n \in Notified(d)
  PROVE  n.doc.status = d.status
  BY DEF Notified, Doc

\* The statuses that the Lambda writes tell whether the execution settles
LEMMA AfterRunStatus ==
  ASSUME TypeInv, exec.at = "AfterRun"
  PROVE  AfterRunDoc.status \in Terminal <=> Settling
<1>1. exec.outcome \in Outcome /\ doc \in Doc
  BY DEF TypeInv, TypeOK, EventsReal
<1>2. AfterRunDoc.status = OutcomeStatus
  BY <1>1 DEF AfterRunDoc, Doc
<1>3. Settling <=> exec.outcome # "pushed"
  BY DEF Settling, Ended, Final
<1>4. OutcomeStatus \in Terminal <=> exec.outcome # "pushed"
  BY <1>1 DEF OutcomeStatus, Outcome, Terminal
<1> QED
  BY <1>2, <1>3, <1>4

LEMMA FinalizeStatus ==
  ASSUME exec.at \in Final
  PROVE  FinalStatus \in Terminal <=> Settling
  BY DEF FinalStatus, Settling, Final, Ended, Terminal

\* Nothing turns a settling execution back: no late worker, timeout, retry or
\* webhook; and while the Lambda is at work on a document, nothing but its
\* own failure moves the execution
LEMMA SettlesForGood == TypeInv /\ [Next]_vars /\ Settling => Settling'
<1> SUFFICES ASSUME TypeInv, [Next]_vars, Settling PROVE Settling'
  OBVIOUS
<1> USE DEF TypeInv, PcAgrees, Working, Final, Ended, Settling
<1>1. exec \in Execution
  BY DEF TypeOK
<1>2. CASE Worker
  <2>1. ~Waiting
    BY DEF Waiting
  <2> QED
    BY <1>2, <2>1 DEF Worker, WorkerPush, WorkerReport, WorkerFail, WorkerDies, TaskTimeout
<1>3. CASE LifeReturn
  <2>1. exec' = [exec EXCEPT !.at = "Done"]
    BY <1>3 DEF LifeReturn, Continue, Goto
  <2> QED
    BY <1>1, <2>1 DEF Execution
<1>4. CASE LifeFails
  <2>1. \/ exec.at = "AfterRun" /\ exec' = [exec EXCEPT !.retries = exec.retries + 1]
        \/ exec' = [exec EXCEPT !.at = "Failed"]
    BY <1>4 DEF LifeFails
  <2>2. exec'.at = "Failed" \/ (exec.at = "AfterRun" /\ exec'.at = exec.at /\ exec'.outcome = exec.outcome)
    BY <1>1, <2>1 DEF Execution
  <2> QED
    BY <2>2
<1>5. CASE Life /\ ~LifeReturn
  BY <1>5 DEF Life, AfterRunGet, LifeNotify, LifePut, LifePutPrRow, FinalizeGet, FinalizeClear,
              ParkGet, ParkRemove, ParkSend, ParkSetToken
<1>6. CASE ParkTimeout
  BY <1>6 DEF ParkTimeout, Parked
<1>7. CASE GitHub \/ \E h \in Hooks : Hook(h) \/ HookFails(h)
  BY <1>7 DEF GitHub, Webhook, Hook, HookReadToken, HookClear, HookSend, HookPush, HookFails
<1>8. CASE StarterPut \/ Update \/ Finished \/ UNCHANGED vars
  BY <1>8 DEF StarterPut, Update, UpdateGet, UpdateNotify, UpdatePut, UpdatePutPrRow, Finished,
              vars
<1> QED
  BY <1>2, <1>3, <1>4, <1>5, <1>6, <1>7, <1>8 DEF Next

\* The steps that neither write a document nor move the execution under one
LEMMA FinalSame ==
  ASSUME TypeInv, FinalInv, [Next]_vars, UNCHANGED <<doc, upd>>,
         \/ UNCHANGED <<exec, life>>
         \/ life'.pc \notin {"notify", "clear", "put"}
  PROVE  FinalInv'
<1>1. Settling => Settling'
  BY SettlesForGood
<1>2. CASE UNCHANGED <<exec, life>>
  BY <1>1, <1>2 DEF FinalInv, Settling
<1>3. CASE life'.pc \notin {"notify", "clear", "put"}
  BY <1>1, <1>3 DEF FinalInv
<1> QED
  BY <1>2, <1>3

LEMMA FinalStep == TypeInv /\ FinalInv /\ [Next]_vars => FinalInv'
<1> SUFFICES ASSUME TypeInv, FinalInv, [Next]_vars PROVE FinalInv'
  OBVIOUS
<1>0. /\ doc \in Doc /\ life \in LifeRun /\ life.doc \in Doc
      /\ upd \in UpdateRun /\ upd.doc \in Doc /\ exec \in Execution
  BY DEF TypeInv, TypeOK, LifeRun, UpdateRun
<1>t. Settling => Settling'
  BY SettlesForGood
<1>1. CASE Worker
  <2>1. life.pc \in {"notify", "clear", "put"} => ~Waiting
    BY DEF TypeInv, PcAgrees, Waiting, Working, Final
  <2>2. UNCHANGED <<doc, upd, life>>
    BY <1>1 DEF Worker, WorkerPush, WorkerReport, WorkerFail, WorkerDies, TaskTimeout, store
  <2>3. ~Waiting => UNCHANGED exec
    BY <1>1 DEF Worker, WorkerPush, WorkerReport, WorkerFail, WorkerDies, TaskTimeout
  <2> QED
    BY <2>1, <2>2, <2>3, FinalSame
<1>2. CASE AfterRunGet
  <2>1. life' = [life EXCEPT !.pc = "notify", !.doc = AfterRunDoc]
    BY <1>2 DEF AfterRunGet
  <2>2. life'.doc = AfterRunDoc /\ UNCHANGED <<doc, upd, exec>> /\ exec.at = "AfterRun"
    BY <1>0, <1>2, <2>1 DEF LifeRun, AfterRunGet, store
  <2>3. life'.doc.status \in Terminal <=> Settling
    BY <2>2, AfterRunStatus
  <2> QED
    BY <2>2, <2>3 DEF FinalInv, Settling
<1>3. CASE FinalizeGet
  <2>1. life' = [life EXCEPT !.pc = "clear", !.doc = [doc EXCEPT !.status = FinalStatus]]
    BY <1>3 DEF FinalizeGet
  <2>2. life'.doc.status = FinalStatus
    BY <1>0, <2>1 DEF LifeRun, Doc
  <2>3. UNCHANGED <<doc, upd, exec>> /\ exec.at \in Final
    BY <1>3 DEF FinalizeGet, store
  <2>4. life'.doc.status \in Terminal <=> Settling
    BY <2>2, <2>3, FinalizeStatus
  <2> QED
    BY <2>3, <2>4 DEF FinalInv, Settling
<1>4. CASE LifeNotify
  <2>1. PICK n \in Notified(life.doc) : life' = [life EXCEPT !.pc = "put", !.doc = n.doc]
    BY <1>4 DEF LifeNotify
  <2>2. life'.doc.status = life.doc.status
    BY <1>0, <2>1, NotifiedStatus DEF LifeRun
  <2>3. UNCHANGED <<doc, upd, exec>> /\ life.pc = "notify"
    BY <1>4 DEF LifeNotify, store
  <2> QED
    BY <2>2, <2>3 DEF FinalInv, Settling
<1>5. CASE FinalizeClear
  <2>1. life' = [life EXCEPT !.pc = "put"] /\ UNCHANGED <<doc, upd, exec>> /\ life.pc = "clear"
    BY <1>5 DEF FinalizeClear
  <2>2. life'.doc = life.doc
    BY <1>0, <2>1 DEF LifeRun
  <2> QED
    BY <2>1, <2>2 DEF FinalInv, Settling
<1>6. CASE LifePut
  <2>1. doc' = life.doc /\ life.pc = "put" /\ UNCHANGED <<upd, exec>>
    BY <1>6 DEF LifePut, PutDoc
  <2>2. life'.pc = "putpr"
    BY <1>0, <1>6 DEF LifePut, LifeRun
  <2> QED
    BY <2>1, <2>2 DEF FinalInv, Settling
<1>7. CASE LifePutPrRow \/ LifeReturn \/ ParkGet \/ ParkRemove \/ ParkSend \/ ParkSetToken
           \/ ParkTimeout \/ LifeFails
  <2>1. UNCHANGED <<doc, upd>>
    BY <1>7 DEF LifePutPrRow, LifeReturn, ParkGet, ParkRemove, ParkSend, ParkSetToken,
                ParkTimeout, LifeFails, PutPrRow, Resume, store
  <2>2. ASSUME ParkGet PROVE life'.pc \in {"settoken", "remove"}
    <3>1. \/ life' = [life EXCEPT !.pc = "settoken"]
          \/ life' = [life EXCEPT !.pc = "remove", !.ev = Head(pending)]
      BY <2>2 DEF ParkGet
    <3> QED
      BY <1>0, <3>1 DEF LifeRun
  <2>3. ASSUME LifePutPrRow \/ ParkRemove \/ ParkSetToken
        PROVE  life'.pc \in {"return", "send", "parked"}
    BY <1>0, <2>3 DEF LifePutPrRow, ParkRemove, ParkSetToken, LifeRun
  <2>4. ASSUME LifeReturn \/ ParkSend \/ ParkTimeout \/ LifeFails PROVE life'.pc = "idle"
    BY <2>4 DEF LifeReturn, ParkSend, ParkTimeout, LifeFails, Resume, Idle
  <2> QED
    BY <1>7, <2>1, <2>2, <2>3, <2>4, FinalSame
<1>8. CASE GitHub \/ \E h \in Hooks : Hook(h) \/ HookFails(h)
  <2>1. UNCHANGED <<doc, upd>>
    BY <1>8 DEF GitHub, Webhook, Hook, HookReadToken, HookClear, HookSend, HookPush, HookFails,
                store
  <2>2. UNCHANGED <<exec, life>> \/ life' = Idle
    BY <1>8 DEF GitHub, Webhook, Hook, HookReadToken, HookClear, HookSend, HookPush, HookFails,
                Resume
  <2> QED
    BY <2>1, <2>2, FinalSame DEF Idle
<1>9. CASE StarterPut
  <2>1. doc'.status = "fixing" /\ UNCHANGED <<exec, life, upd>>
    BY <1>9 DEF StarterPut, PutDoc
  <2> QED
    BY <2>1 DEF FinalInv, Settling, Terminal
<1>10. CASE Update
  <2>0. UNCHANGED <<exec, life>>
    BY <1>10 DEF Update, UpdateGet, UpdateNotify, UpdatePut, UpdatePutPrRow
  <2>1. CASE UpdateGet
    <3>1. upd'.doc = doc /\ UNCHANGED doc
      BY <2>1 DEF UpdateGet, store
    <3> QED
      BY <2>0, <3>1 DEF FinalInv, Settling
  <2>2. CASE UpdateNotify
    <3>1. PICK n \in Notified(upd.doc) : upd' = [upd EXCEPT !.pc = "put", !.doc = n.doc]
      BY <2>2 DEF UpdateNotify
    <3>2. upd'.doc.status = upd.doc.status
      BY <1>0, <3>1, NotifiedStatus DEF UpdateRun
    <3>3. UNCHANGED doc /\ upd.pc # "idle"
      BY <2>2 DEF UpdateNotify, store
    <3> QED
      BY <2>0, <3>2, <3>3 DEF FinalInv, Settling
  <2>3. CASE UpdatePut
    <3>1. doc' = upd.doc /\ upd.pc = "put"
      BY <2>3 DEF UpdatePut, PutDoc
    <3>2. upd'.doc = upd.doc
      BY <1>0, <2>3 DEF UpdatePut, UpdateRun
    <3> QED
      BY <2>0, <3>1, <3>2 DEF FinalInv, Settling
  <2>4. CASE UpdatePutPrRow
    <3>1. UNCHANGED doc /\ upd'.pc = "idle"
      BY <1>0, <2>4 DEF UpdatePutPrRow, PutPrRow, UpdateRun
    <3> QED
      BY <2>0, <3>1 DEF FinalInv, Settling
  <2> QED
    BY <1>10, <2>1, <2>2, <2>3, <2>4 DEF Update
<1>11. CASE Finished \/ UNCHANGED vars
  <2>1. UNCHANGED <<doc, upd, exec, life>>
    BY <1>11 DEF Finished, vars
  <2> QED
    BY <2>1, FinalSame
<1> QED
  BY <1>1, <1>2, <1>3, <1>4, <1>5, <1>6, <1>7, <1>8, <1>9, <1>10, <1>11 DEF Next, Life

\* Who writes the document: of the four, only two can take it from terminal
LEMMA TerminalKept ==
  ASSUME TypeInv, FinalInv, [Next]_vars, doc.status \in Terminal
  PROVE  doc'.status \in Terminal \/ StarterPut \/ UpdatePut
<1>1. CASE LifePut
  <2>1. doc' = life.doc /\ life.pc = "put"
    BY <1>1 DEF LifePut, PutDoc
  <2> QED
    BY <2>1 DEF FinalInv
<1>2. CASE Worker \/ (Life /\ ~LifePut) \/ ParkTimeout \/ LifeFails
  BY <1>2 DEF Worker, WorkerPush, WorkerReport, WorkerFail, WorkerDies, TaskTimeout, Life,
              AfterRunGet, LifeNotify, LifePutPrRow, LifeReturn, FinalizeGet, FinalizeClear,
              ParkGet, ParkRemove, ParkSend, ParkSetToken, ParkTimeout, LifeFails, PutPrRow, store
<1>3. CASE GitHub \/ \E h \in Hooks : Hook(h) \/ HookFails(h)
  BY <1>3 DEF GitHub, Webhook, Hook, HookReadToken, HookClear, HookSend, HookPush, HookFails,
              store
<1>4. CASE (Update /\ ~UpdatePut) \/ Finished \/ UNCHANGED vars
  BY <1>4 DEF Update, UpdateGet, UpdateNotify, UpdatePutPrRow, PutPrRow, Finished, vars, store
<1> QED
  BY <1>1, <1>2, <1>3, <1>4 DEF Next

(* From the moment a row is terminal, the execution that owns it neither    *)
(* waits nor works again, and only start_fix or an UPDATE, with a document  *)
(* older than the row, makes it live: for every number of hooks, events,    *)
(* failures and updates (statemachine/issue.asl.json, AfterRun to Done;     *)
(* handlers/lifecycle.py, after_run and finalize; core/store.py, claim).    *)
THEOREM TerminalAlwaysFinal == Spec => TerminalIsFinal
<1>1. Init => FinalInv
  BY DEF Init, FinalInv, Terminal, Idle
<1>2. TypeInv /\ FinalInv /\ [Next]_vars => FinalInv'
  BY FinalStep
<1>3. TypeInv /\ FinalInv /\ [Next]_vars =>
        [doc.status \in Terminal =>
           /\ exec'.at \notin Working \cup {"Park"}
           /\ doc'.status \in Terminal \/ StarterPut \/ UpdatePut]_vars
  <2> SUFFICES ASSUME TypeInv, FinalInv, [Next]_vars, doc.status \in Terminal
               PROVE  /\ exec'.at \notin Working \cup {"Park"}
                      /\ doc'.status \in Terminal \/ StarterPut \/ UpdatePut
    OBVIOUS
  <2>1. Settling'
    BY SettlesForGood DEF FinalInv
  <2>2. exec'.at \notin Working \cup {"Park"}
    BY <2>1 DEF Settling, Ended, Final, Working
  <2> QED
    BY <2>2, TerminalKept
<1> QED
  BY <1>1, <1>2, <1>3, TypeInvariant, PTL DEF Spec, TerminalIsFinal
=============================================================================
