------------------------ MODULE GroomProgressProofs ------------------------
(***************************************************************************)
(* Why an execution ends, for every set of hooks, every budget and every   *)
(* bound: what it can still do by itself is a number, and each of its      *)
(* steps makes that number smaller. Of the liveness of GroomLoop this is   *)
(* all but the induction over that number.                                 *)
(***************************************************************************)
EXTENDS GroomLoopProofs, FiniteSetTheorems

-----------------------------------------------------------------------------
(* The ids of the events on their way are those of webhooks sent            *)

Known == Queued \cup Popped \cup delivered \cup Held
SentInv == gh.sent \in 0..MaxEvents /\ Known \subseteq 1..gh.sent

\* The steps that learn of no new event
LEMMA KnownKept ==
  ASSUME TypeInv, SentInv, gh'.sent = gh.sent, Known' \subseteq Known
  PROVE  SentInv'
  BY DEF SentInv

LEMMA KnownFrame ==
  ASSUME TypeInv, SentInv, UNCHANGED <<pending, hook, delivered>>, gh'.sent = gh.sent,
         Popped' \subseteq Popped \cup delivered
  PROVE  SentInv'
<1>1. Known' \subseteq Known
  BY DEF Known, Queued, Held, Busy
<1> QED
  BY <1>1, KnownKept

LEMMA SentStep == TypeInv /\ SentInv /\ [Next]_vars => SentInv'
<1> SUFFICES ASSUME TypeInv, SentInv, [Next]_vars PROVE SentInv'
  OBVIOUS
<1>1. CASE Worker \/ StarterPut \/ Update \/ Finished \/ UNCHANGED vars
  <2>1. UNCHANGED <<pending, hook, delivered, life>>
    BY <1>1 DEF Worker, WorkerPush, WorkerReport, WorkerFail, WorkerDies, TaskTimeout,
                StarterPut, Update, UpdateGet, UpdateNotify, UpdatePut, UpdatePutPrRow, PutDoc,
                PutPrRow, Finished, vars, store, history
  <2>2. gh'.sent = gh.sent
    BY <1>1 DEF Worker, WorkerPush, WorkerReport, WorkerFail, WorkerDies, TaskTimeout,
                StarterPut, Update, UpdateGet, UpdateNotify, UpdatePut, UpdatePutPrRow,
                Finished, vars, TypeInv, TypeOK, PullRequest
  <2> QED
    BY <2>1, <2>2, KnownFrame DEF Popped
<1>2. CASE AfterRunGet \/ LifeNotify \/ LifePut \/ LifePutPrRow \/ LifeReturn \/ FinalizeGet
           \/ FinalizeClear \/ ParkGet \/ ParkSetToken \/ ParkTimeout \/ LifeFails
  <2>1. UNCHANGED <<pending, hook, delivered>> /\ gh'.sent = gh.sent
    BY <1>2 DEF AfterRunGet, LifeNotify, LifePut, LifePutPrRow, LifeReturn, FinalizeGet,
                FinalizeClear, ParkGet, ParkSetToken, ParkTimeout, LifeFails, PutDoc, PutPrRow,
                store, history, TypeInv, TypeOK, PullRequest
  <2>2. life'.pc # "send"
    <3>1. CASE AfterRunGet \/ LifeNotify \/ LifePut \/ LifePutPrRow \/ FinalizeGet
      BY <3>1 DEF AfterRunGet, LifeNotify, LifePut, LifePutPrRow, FinalizeGet, TypeInv, TypeOK,
                  LifeRun
    <3>2. CASE FinalizeClear \/ ParkGet \/ ParkSetToken
      BY <3>2 DEF FinalizeClear, ParkGet, ParkSetToken, TypeInv, TypeOK, LifeRun
    <3>3. CASE LifeReturn \/ ParkTimeout \/ LifeFails
      BY <3>3 DEF LifeReturn, ParkTimeout, LifeFails, Idle
    <3> QED
      BY <1>2, <3>1, <3>2, <3>3
  <2> QED
    BY <2>1, <2>2, KnownFrame DEF Popped
<1>3. CASE ParkRemove
  <2>1. /\ pending # <<>> /\ pending' = Tail(pending)
        /\ Popped' = {Head(pending).id}
        /\ UNCHANGED <<delivered, hook, gh>>
    BY <1>3 DEF ParkRemove, Popped, history, TypeInv, TypeOK, LifeRun, PopStable
  <2>2. Queued' \subseteq Queued /\ Popped' \subseteq Queued
    <3>1. /\ DOMAIN pending = 1..Len(pending) /\ Len(pending) \in Nat /\ Len(pending) > 0
          /\ DOMAIN pending' = 1..(Len(pending) - 1)
          /\ \A i \in DOMAIN pending' : i + 1 \in DOMAIN pending /\ pending'[i] = pending[i + 1]
          /\ Head(pending) = pending[1] /\ 1 \in DOMAIN pending
      BY <2>1 DEF TypeInv, TypeOK
    <3> QED
      BY <2>1, <3>1 DEF Queued
  <2>3. Held' = Held
    BY <2>1 DEF Held, Busy
  <2>4. Known' \subseteq Known
    BY <2>1, <2>2, <2>3 DEF Known
  <2> QED
    BY <2>1, <2>4, KnownKept
<1>4. CASE ParkSend
  <2>1. /\ Popped = {life.ev.id} /\ Popped' = {} /\ delivered' = delivered \cup {life.ev.id}
        /\ UNCHANGED <<pending, hook, gh>>
    BY <1>4 DEF ParkSend, Resume, Popped, store, Idle
  <2>2. Known' \subseteq Known
    BY <2>1 DEF Known, Queued, Held, Busy
  <2> QED
    BY <2>1, <2>2, KnownKept
<1>5. ASSUME NEW h \in Hooks, NEW kind \in Kinds, NEW via \in {"pr", "branch"},
             Webhook(h, kind, via)
      PROVE  SentInv'
  <2>1. /\ UNCHANGED <<pending, delivered, life>> /\ gh'.sent = gh.sent + 1
        /\ gh.sent < MaxEvents /\ gh.sent \in Nat
    BY <1>5 DEF Webhook, store, TypeInv, TypeOK, PullRequest
  <2>2. \A g \in Hooks : \/ hook'[g] = hook[g]
                         \/ g = h /\ hook'[g].ev.id = gh.sent + 1
    <3>1. CASE Tracked(via)
      <4>1. hook' = [hook EXCEPT ![h] = [hook[h] EXCEPT !.pc = "read",
                       !.ev = [id |-> gh.sent + 1, kind |-> kind]]]
        BY <1>5, <3>1 DEF Webhook
      <4> QED
        BY <4>1 DEF TypeInv, TypeOK, HookRun
    <3>2. CASE ~Tracked(via)
      BY <1>5, <3>2 DEF Webhook
    <3> QED
      BY <3>1, <3>2
  <2>3. Held' \subseteq Held \cup {gh.sent + 1}
    BY <2>2 DEF Held, Busy
  <2>4. Known' \subseteq Known \cup {gh.sent + 1}
    BY <2>1, <2>3 DEF Known, Queued, Popped
  <2> QED
    BY <2>1, <2>4, BoundsAssumption DEF SentInv
<1>6. ASSUME NEW h \in Hooks, HookReadToken(h) \/ HookClear(h) PROVE SentInv'
  <2>1. UNCHANGED <<delivered, pending, life, gh>> /\ hook[h].pc # "idle"
    BY <1>6 DEF HookReadToken, HookClear, store, history
  <2>2. /\ hook'[h].ev = hook[h].ev
        /\ \A g \in Hooks : g # h => hook'[g] = hook[g]
    <3>1. CASE HookReadToken(h)
      BY <3>1 DEF HookReadToken, TypeInv, TypeOK, HookRun
    <3>2. CASE HookClear(h)
      BY <3>2 DEF HookClear, TypeInv, TypeOK, HookRun
    <3> QED
      BY <1>6, <3>1, <3>2
  <2>3. Held' \subseteq Held
    BY <2>1, <2>2 DEF Held, Busy
  <2> QED
    BY <2>1, <2>3, KnownKept DEF Known, Queued, Popped
<1>7. ASSUME NEW h \in Hooks, HookSend(h) \/ HookPush(h) \/ HookFails(h) PROVE SentInv'
  <2>1. hook[h].pc # "idle" /\ hook' = [hook EXCEPT ![h] = IdleHook] /\ gh' = gh
    BY <1>7 DEF HookSend, HookPush, HookFails
  <2>2. Held' \subseteq Held /\ hook[h].ev.id \in Held
    BY <2>1 DEF Held, Busy, TypeInv, TypeOK, IdleHook
  <2>3. Queued' \subseteq Queued \cup {hook[h].ev.id}
    <3>1. CASE pending' = pending
      BY <3>1 DEF Queued
    <3>2. CASE pending' = Append(pending, hook[h].ev)
      <4>1. hook[h].ev \in Event
        BY <2>1 DEF TypeInv, EventsReal
      <4>2. /\ DOMAIN pending' = 1..(Len(pending) + 1) /\ Len(pending) \in Nat
            /\ DOMAIN pending = 1..Len(pending)
            /\ \A i \in DOMAIN pending : pending'[i] = pending[i]
            /\ pending'[Len(pending) + 1] = hook[h].ev
        BY <3>2, <4>1 DEF TypeInv, TypeOK
      <4> QED
        BY <4>2 DEF Queued
    <3> QED
      BY <1>7, <3>1, <3>2 DEF HookSend, HookPush, HookFails, store
  <2>4. Popped' \subseteq Popped /\ delivered' \subseteq delivered \cup {hook[h].ev.id}
    BY <1>7 DEF HookSend, HookPush, HookFails, Resume, Popped, Idle, history
  <2>5. Known' \subseteq Known
    BY <2>2, <2>3, <2>4 DEF Known
  <2> QED
    BY <2>1, <2>5, KnownKept
<1> QED
  BY <1>1, <1>2, <1>3, <1>4, <1>5, <1>6, <1>7 DEF Next, Life, GitHub, Hook

LEMMA SentInit == Init => SentInv
  BY BoundsAssumption DEF Init, SentInv, Known, Queued, Popped, Held, Busy, Idle, IdleHook

-----------------------------------------------------------------------------
(* The variant                                                              *)

LEMMA StageType ==
  ASSUME TypeInv
  PROVE  /\ StageLeft \in 0..24 /\ CallsLeft \in 1..5
         /\ exec.at \notin Ended => StageLeft > 0
<1>1. exec.at \in AslState /\ life.pc \in LifePc /\ exec.retries \in 0..2
  BY DEF TypeInv, TypeOK, Execution, LifeRun
<1>2. CallsLeft \in 1..5 /\ (exec.at = "Park" => CallsLeft \in 1..4)
  BY <1>1 DEF CallsLeft, LifePc, TypeInv, PcAgrees, Final
<1> HIDE DEF CallsLeft
<1> QED
  BY <1>1, <1>2 DEF StageLeft, AslState, Working, Final, Ended

\* Each event is one more webhook that GitHub has sent
LEMMA DeliveredCount ==
  ASSUME TypeInv, SentInv
  PROVE  IsFiniteSet(delivered) /\ Cardinality(delivered) \in 0..MaxEvents
<1>1. delivered \subseteq 1..gh.sent /\ gh.sent \in Nat /\ gh.sent <= MaxEvents
  BY BoundsAssumption DEF SentInv, Known
<1>2. IsFiniteSet(1..gh.sent) /\ Cardinality(1..gh.sent) = gh.sent
  BY SMTT(60), <1>1, FS_Interval
<1>3. /\ IsFiniteSet(delivered) /\ Cardinality(delivered) <= gh.sent
      /\ Cardinality(delivered) \in Nat
  BY ZenonT(60), <1>1, <1>2, FS_Subset, FS_CardinalityType
<1> QED
  BY <1>1, <1>3, BoundsAssumption

LEMMA StepsType == ASSUME TypeInv, SentInv PROVE StepsLeft \in Nat
  BY StageType, DeliveredCount, BoundsAssumption DEF StepsLeft

\* The same of the state that a step leads to
LEMMA StageTypeNext == ASSUME TypeInv' PROVE StageLeft' \in 0..24
<1>1. exec'.at \in AslState /\ life'.pc \in LifePc /\ exec'.retries \in 0..2
  BY DEF TypeInv, TypeOK, Execution, LifeRun
<1>2. CallsLeft' \in 1..5
  BY <1>1 DEF CallsLeft, LifePc
<1>3. exec'.at = "Park" => CallsLeft' \in 1..4
  BY <1>1 DEF CallsLeft, LifePc, TypeInv, PcAgrees, Final
<1> HIDE DEF CallsLeft
<1> QED
  BY <1>1, <1>2, <1>3 DEF StageLeft, AslState, Working, Final, Ended

\* The number of each stage, in the state before a step and in the one after
LEMMA StageValue ==
  /\ exec.at = "AfterRun" => StageLeft = 8 + 5 * (2 - exec.retries) + CallsLeft
  /\ exec.at = "FinalizeReady" => StageLeft = 8 + CallsLeft
  /\ exec.at = "Park" => StageLeft = 5 + CallsLeft
  /\ exec.at \in Final \ {"FinalizeReady"} => StageLeft = CallsLeft
  /\ exec.at \in Working => StageLeft = 24
  /\ exec.at \in Ended => StageLeft = 0
  BY DEF StageLeft, Working, Final, Ended

LEMMA StageValueNext ==
  /\ exec'.at = "AfterRun" => StageLeft' = 8 + 5 * (2 - exec'.retries) + CallsLeft'
  /\ exec'.at = "FinalizeReady" => StageLeft' = 8 + CallsLeft'
  /\ exec'.at = "Park" => StageLeft' = 5 + CallsLeft'
  /\ exec'.at \in Final \ {"FinalizeReady"} => StageLeft' = CallsLeft'
  /\ exec'.at \in Working => StageLeft' = 24
  /\ exec'.at \in Ended => StageLeft' = 0
  BY DEF StageLeft, Working, Final, Ended

Advances == StepsLeft' < StepsLeft
Rests == UNCHANGED <<exec, life, delivered>>

\* A step within the stage
LEMMA StageAdvances ==
  ASSUME TypeInv, TypeInv', SentInv, delivered' = delivered, StageLeft' < StageLeft
  PROVE  Advances
<1>1. StageLeft \in 0..24 /\ StageLeft' \in 0..24
  BY StageType, StageTypeNext
<1>2. Cardinality(delivered) \in 0..MaxEvents
  BY DeliveredCount
<1>3. StepsLeft' = 25 * (MaxEvents - Cardinality(delivered)) + StageLeft'
  BY DEF StepsLeft
<1> QED
  BY <1>1, <1>2, <1>3, BoundsAssumption DEF Advances, StepsLeft

\* A new event pays for a stage
LEMMA ResumeAdvances ==
  ASSUME TypeInv, TypeInv', SentInv, NEW ev \in Event, Resume(ev), ev.id \notin delivered,
         exec.at \notin Ended
  PROVE  Advances
<1>1. delivered' = delivered \cup {ev.id}
  BY DEF Resume
<1>2. IsFiniteSet(delivered) /\ Cardinality(delivered) \in 0..MaxEvents
  BY DeliveredCount
<1>3. Cardinality(delivered') = Cardinality(delivered) + 1
  <2>1. Cardinality(delivered \cup {ev.id}) = Cardinality(delivered) + 1
    BY <1>2, FS_AddElement
  <2> QED
    BY <1>1, <2>1
<1>4. StageLeft \in 1..24 /\ StageLeft' \in 0..24
  BY StageType, StageTypeNext
<1>5. StepsLeft' = 25 * (MaxEvents - Cardinality(delivered')) + StageLeft'
  BY DEF StepsLeft
<1> QED
  BY <1>2, <1>3, <1>4, <1>5, BoundsAssumption DEF Advances, StepsLeft

LEMMA OneCallLess ==
  ASSUME NEW r \in 0..2, NEW c \in 1..5, NEW d, d = c - 1
  PROVE  8 + 5 * (2 - r) + d < 8 + 5 * (2 - r) + c
  OBVIOUS

LEMMA LifeAdvances ==
  ASSUME TypeInv, TypeInv', SentInv, EventInv, Life
  PROVE  Advances
<1> USE DEF TypeInv, TypeOK, PcAgrees, Execution, LifeRun
<1>1. CASE AfterRunGet \/ LifeNotify \/ LifePut \/ LifePutPrRow
  <2>1. exec' = exec /\ delivered' = delivered
    BY <1>1 DEF AfterRunGet, LifeNotify, LifePut, LifePutPrRow, history
  <2>2. \/ exec.at = "AfterRun" /\ life.pc = "idle" /\ life'.pc = "notify"
        \/ life.pc = "notify" /\ life'.pc = "put"
        \/ life.pc = "put" /\ life'.pc = "putpr"
        \/ life.pc = "putpr" /\ life'.pc = "return"
    BY <1>1 DEF AfterRunGet, LifeNotify, LifePut, LifePutPrRow
  <2>3. exec.at \in Final \cup {"AfterRun"} /\ exec.retries \in 0..2
    BY <2>2
  <2>4. CallsLeft \in 1..5 /\ CallsLeft' = CallsLeft - 1
    BY <2>1, <2>2, <2>3 DEF CallsLeft, Final
  <2> HIDE DEF CallsLeft
  <2>5. CASE exec.at = "AfterRun"
    <3>1. StageLeft = 8 + 5 * (2 - exec.retries) + CallsLeft
      BY <2>5, StageValue
    <3>2. StageLeft' = 8 + 5 * (2 - exec.retries) + CallsLeft'
      BY <2>1, <2>5, StageValueNext
    <3>3. StageLeft' < StageLeft
      BY <2>3, <2>4, <3>1, <3>2, OneCallLess
    <3> QED
      BY <2>1, <3>3, StageAdvances
  <2>6. CASE exec.at = "FinalizeReady"
    BY SMTT(60), <2>1, <2>4, <2>6, StageValue, StageValueNext, StageAdvances
  <2>7. CASE exec.at \in Final \ {"FinalizeReady"}
    BY SMTT(60), <2>1, <2>4, <2>7, StageValue, StageValueNext, StageAdvances
  <2> QED
    BY <2>3, <2>5, <2>6, <2>7
<1>2. CASE FinalizeGet \/ FinalizeClear
  <2>1. exec' = exec /\ delivered' = delivered /\ exec.at \in Final
    BY <1>2 DEF FinalizeGet, FinalizeClear, history
  <2>2. \/ life.pc = "idle" /\ life'.pc = "clear"
        \/ life.pc = "clear" /\ life'.pc = "put"
    BY <1>2 DEF FinalizeGet, FinalizeClear
  <2>3. CallsLeft \in 1..5 /\ CallsLeft' = CallsLeft - 1
    BY SMTT(60), <2>1, <2>2 DEF CallsLeft, Final
  <2> HIDE DEF CallsLeft
  <2>4. CASE exec.at = "FinalizeReady"
    BY SMTT(60), <2>1, <2>3, <2>4, StageValue, StageValueNext, StageAdvances
  <2>5. CASE exec.at \in Final \ {"FinalizeReady"}
    BY SMTT(60), <2>1, <2>3, <2>5, StageValue, StageValueNext, StageAdvances
  <2> QED
    BY <2>1, <2>4, <2>5
<1>3. CASE ParkGet \/ ParkRemove \/ ParkSetToken
  <2>1. exec' = exec /\ delivered' = delivered /\ exec.at = "Park"
    BY <1>3 DEF ParkGet, ParkRemove, ParkSetToken, history
  <2>2. \/ life.pc = "idle" /\ life'.pc \in {"remove", "settoken"}
        \/ life.pc = "remove" /\ life'.pc = "send"
        \/ life.pc = "settoken" /\ life'.pc = "parked"
    BY <1>3 DEF ParkGet, ParkRemove, ParkSetToken
  <2>3. CallsLeft \in 1..5 /\ CallsLeft' = CallsLeft - 1
    BY <2>1, <2>2 DEF CallsLeft
  <2> HIDE DEF CallsLeft
  <2> QED
    BY SMTT(60), <2>1, <2>3, StageValue, StageValueNext, StageAdvances
<1>4. CASE LifeReturn
  <2>1. /\ exec.at \in Final \cup {"AfterRun"} /\ life' = Idle /\ delivered' = delivered
        /\ life.pc = "return"
    BY <1>4 DEF LifeReturn, history
  <2>2. \/ exec.at \in {"FinalizeReady", "AfterRun"} /\ exec'.at = "Park"
        \/ exec'.at = "Done"
    BY <1>4 DEF LifeReturn, Continue, EnterPark, Goto
  <2>3. CallsLeft = 1 /\ life'.pc = "idle" /\ exec.retries \in 0..2
    BY <2>1 DEF CallsLeft, Idle
  <2>4. exec.at \notin Ended
    BY <2>1 DEF Final, Ended
  <2>5. StageLeft > 0 /\ StageLeft \in 0..24
    BY <2>4, StageType
  <2>6. CASE exec'.at = "Done"
    <3>1. StageLeft' = 0
      BY <2>6, StageValueNext DEF Ended
    <3> QED
      BY <2>1, <2>5, <3>1, StageAdvances
  <2>7. CASE exec.at \in {"FinalizeReady", "AfterRun"} /\ exec'.at = "Park"
    <3>1. CallsLeft' = 3
      BY <2>3, <2>7 DEF CallsLeft
    <3>2. StageLeft' = 8 /\ StageLeft >= 9
      BY SMTT(60), <2>3, <2>7, <3>1, StageValue, StageValueNext
    <3> QED
      BY SMTT(60), <2>1, <2>5, <3>2, StageAdvances
  <2> QED
    BY <2>2, <2>6, <2>7
<1>5. CASE ParkSend
  <2>1. life.ev.id \notin delivered
    BY <1>5 DEF ParkSend, EventInv, DeliveredOnce, Popped
  <2>2. Resume(life.ev) /\ life.ev \in Event /\ exec.at \notin Ended
    BY <1>5 DEF ParkSend, EventsReal, Ended
  <2> QED
    BY <2>1, <2>2, ResumeAdvances
<1> QED
  BY <1>1, <1>2, <1>3, <1>4, <1>5 DEF Life

LEMMA AdvanceStep ==
  TypeInv /\ TypeInv' /\ SentInv /\ EventInv /\ [Next]_vars => Rests \/ Advances
<1> SUFFICES ASSUME TypeInv, TypeInv', SentInv, EventInv, [Next]_vars PROVE Rests \/ Advances
  OBVIOUS
<1>1. CASE Life
  BY <1>1, LifeAdvances
<1>2. CASE WorkerReport \/ WorkerFail \/ TaskTimeout
  <2>1. CASE exec' = exec
    BY <1>2, <2>1 DEF WorkerReport, WorkerFail, TaskTimeout, history, Rests
  <2>2. CASE exec' # exec
    <3>1. exec.at \in Working /\ delivered' = delivered /\ life' = life
      BY <1>2, <2>2 DEF WorkerReport, WorkerFail, TaskTimeout, history, Waiting
    <3> exec \in Execution
      BY DEF TypeInv, TypeOK
    <3>2. life.pc = "idle"
      BY <3>1 DEF TypeInv, TypeOK, LifeRun, LifePc, PcAgrees, Working, Final
    <3>3. \/ exec'.at = "AfterRun" /\ exec'.retries = 0
          \/ exec'.at = "FinalizeNeedsHuman"
      <4>1. CASE WorkerReport
        BY <2>2, <4>1 DEF WorkerReport, Execution
      <4>2. CASE WorkerFail \/ TaskTimeout
        BY <2>2, <4>2 DEF WorkerFail, TaskTimeout, Goto, Execution
      <4> QED
        BY <1>2, <4>1, <4>2
    <3>5. CallsLeft' = 5
      BY <3>1, <3>2, <3>3 DEF CallsLeft
    <3>6. StageLeft = 24 /\ StageLeft' < 24
      BY <3>1, <3>3, <3>5, StageValue, StageValueNext DEF Final
    <3> QED
      BY <3>1, <3>6, StageAdvances
  <2> QED
    BY <2>1, <2>2
<1>3. CASE ParkTimeout
  <2>1. /\ exec.at = "Park" /\ life.pc = "parked" /\ exec'.at = "FinalizeNeedsHuman"
        /\ life'.pc = "idle" /\ delivered' = delivered
    BY <1>3 DEF ParkTimeout, Parked, Goto, Idle, history, TypeInv, TypeOK, Execution
  <2>2. CallsLeft = 1 /\ CallsLeft' = 5
    BY <2>1 DEF CallsLeft
  <2>3. StageLeft = 6 /\ StageLeft' = 5
    BY <2>1, <2>2, StageValue, StageValueNext DEF Final
  <2> QED
    BY <2>1, <2>3, StageAdvances
<1>4. CASE LifeFails
  <2>1. /\ exec.at \in Final \cup {"AfterRun", "Park"} /\ delivered' = delivered
        /\ life'.pc = "idle" /\ exec.retries \in 0..2
    BY <1>4 DEF LifeFails, Idle, history, TypeInv, TypeOK, Execution
  <2>2. StageLeft > 0 /\ StageLeft \in 0..24 /\ CallsLeft \in 1..5
    BY <2>1, StageType DEF Final, Ended
  <2>3. CASE exec.at = "AfterRun" /\ exec.retries < 2
    <3>1. exec'.at = "AfterRun" /\ exec'.retries = exec.retries + 1
      BY <1>4, <2>3 DEF LifeFails, TypeInv, TypeOK, Execution
    <3>2. CallsLeft' = 5
      BY <2>1, <3>1 DEF CallsLeft
    <3>3. StageLeft = 8 + 5 * (2 - exec.retries) + CallsLeft
      BY <2>3, StageValue
    <3>4. StageLeft' = 8 + 5 * (2 - (exec.retries + 1)) + 5
      BY <3>1, <3>2, StageValueNext
    <3>5. StageLeft' < StageLeft
      BY <2>1, <2>2, <3>3, <3>4
    <3> QED
      BY <2>1, <3>5, StageAdvances
  <2>4. CASE ~(exec.at = "AfterRun" /\ exec.retries < 2)
    <3>1. exec'.at = "Failed"
      BY <1>4, <2>4 DEF LifeFails, TypeInv, TypeOK, Execution
    <3>2. StageLeft' = 0
      BY <3>1, StageValueNext DEF Ended
    <3> QED
      BY <2>1, <2>2, <3>2, StageAdvances
  <2> QED
    BY <2>3, <2>4
<1>5. ASSUME NEW h \in Hooks, HookSend(h) PROVE Rests \/ Advances
  <2>1. CASE exec.at = "Park" /\ exec.token = hook[h].tok
    <3>1. Resume(hook[h].ev) /\ h \in Busy
      BY <1>5, <2>1 DEF HookSend, Busy
    <3>2. hook[h].ev.id \notin delivered /\ hook[h].ev \in Event /\ exec.at \notin Ended
      BY <2>1, <3>1 DEF EventInv, DeliveredOnce, TypeInv, EventsReal, Busy, Ended
    <3> QED
      BY <3>1, <3>2, ResumeAdvances
  <2>2. CASE ~(exec.at = "Park" /\ exec.token = hook[h].tok)
    BY <1>5, <2>2 DEF HookSend, Rests
  <2> QED
    BY <2>1, <2>2
<1>6. CASE WorkerPush \/ WorkerDies \/ StarterPut \/ Update \/ Finished \/ UNCHANGED vars
  BY <1>6 DEF WorkerPush, WorkerDies, StarterPut, Update, UpdateGet, UpdateNotify, UpdatePut,
              UpdatePutPrRow, Finished, vars, history, Rests
<1>7. CASE GitHub
  BY <1>7 DEF GitHub, Webhook, Rests
<1>8. ASSUME NEW h \in Hooks, HookReadToken(h) \/ HookClear(h) \/ HookPush(h) \/ HookFails(h)
      PROVE  Rests \/ Advances
  BY <1>8 DEF HookReadToken, HookClear, HookPush, HookFails, history, Rests
<1> QED
  BY <1>1, <1>2, <1>3, <1>4, <1>5, <1>6, <1>7, <1>8 DEF Next, Worker, Hook

ProgressInv == TypeInv /\ SentInv /\ EventInv

\* Where the variant counts: it is a natural number, and zero only at the end
THEOREM ProgressAlways == Spec => []ProgressInv
<1>1. Init => ProgressInv
  BY SentInit, InitType DEF ProgressInv, Init, EventInv, DeliveredOnce, Busy, Popped, Queued, IdleHook, Idle
<1>2. ProgressInv /\ [Next]_vars => ProgressInv'
  BY TypeStep, SentStep, EventStep DEF ProgressInv
<1> QED
  BY <1>1, <1>2, PTL DEF Spec

(* The execution never turns on the spot, whatever the hooks, the queue and  *)
(* the other writers do: each step of the state machine or of its Lambda     *)
(* uses up something that only an event of GitHub can make good.             *)
THEOREM ExecutionAlwaysAdvances == Spec => ExecutionAdvances
<1>1. ProgressInv /\ ProgressInv' /\ [Next]_vars
        => [<<exec, life>>' # <<exec, life>> => StepsLeft' < StepsLeft]_vars
  BY AdvanceStep DEF ProgressInv, Rests, Advances
<1> QED
  BY <1>1, ProgressAlways, PTL DEF Spec, ExecutionAdvances

-----------------------------------------------------------------------------
(* One step of the liveness argument. Fairness is written here with the      *)
(* guards of the actions in the place of ENABLED: an action whose guard      *)
(* holds from some moment on is taken again and again.                       *)

\* when the Lambda of the execution has a call to make, and when a worker that
\* it waits for can time out
LifeReady == exec.at \in Final \cup {"AfterRun", "Park"} /\ ~Parked
TimeoutReady == Waiting /\ MayReport

FairGuards ==
  /\ []<>~LifeReady \/ []<><<Life>>_vars
  /\ []<>~TimeoutReady \/ []<><<TaskTimeout>>_vars
  /\ []<>~Parked \/ []<><<ParkTimeout>>_vars
  /\ []<>~(starter = "put") \/ []<><<StarterPut>>_vars

\* The execution is with its Lambda, with a worker, or with GitHub
LEMMA WithSomeone == TypeInv => exec.at \in Ended \/ LifeReady \/ Waiting \/ Parked
  BY DEF TypeInv, TypeOK, Execution, AslState, LifeReady, Waiting

\* What the execution does to its variant, and what leaves it in its stage
LEMMA StageKept ==
  ASSUME ProgressInv, ProgressInv', [Next]_vars
  PROVE  /\ StepsLeft \in Nat /\ StepsLeft' \in Nat
         /\ \/ StepsLeft' < StepsLeft
            \/ /\ StepsLeft' = StepsLeft /\ UNCHANGED <<exec, life>>
               /\ LifeReady' = LifeReady /\ Waiting' = Waiting /\ Parked' = Parked
<1>1. StepsLeft \in Nat
  BY StepsType DEF ProgressInv
<1>2. StepsLeft' \in Nat
  <2>1. StageLeft' \in 0..24 /\ delivered' \subseteq 1..gh'.sent /\ gh'.sent \in Nat
        /\ gh'.sent <= MaxEvents
    BY StageTypeNext, BoundsAssumption DEF ProgressInv, SentInv, Known
  <2>2. IsFiniteSet(1..gh'.sent) /\ Cardinality(1..gh'.sent) = gh'.sent
    BY SMTT(60), <2>1, FS_Interval
  <2>3. Cardinality(delivered') \in Nat /\ Cardinality(delivered') <= gh'.sent
    BY <2>1, <2>2, FS_Subset, FS_CardinalityType
  <2>4. StepsLeft' = 25 * (MaxEvents - Cardinality(delivered')) + StageLeft'
    BY DEF StepsLeft
  <2> QED
    BY <2>1, <2>3, <2>4, BoundsAssumption
<1>3. CASE Advances
  BY <1>1, <1>2, <1>3 DEF Advances
<1>4. CASE Rests
  <2>1. StageLeft' = StageLeft
    BY <1>4 DEF Rests, StageLeft, CallsLeft
  <2> QED
    BY <1>1, <1>2, <1>4, <2>1 DEF Rests, StepsLeft, LifeReady, Waiting, Parked
<1> QED
  BY <1>3, <1>4, AdvanceStep DEF ProgressInv

\* start_fix writes once
LEMMA StarterDone == [Next]_vars /\ starter = "done" => starter' = "done"
  BY DEF Next, vars, Worker, WorkerPush, WorkerReport, WorkerFail, WorkerDies, TaskTimeout,
         Life, AfterRunGet, LifeNotify, LifePut, LifePutPrRow, LifeReturn, FinalizeGet,
         FinalizeClear, ParkGet, ParkRemove, ParkSend, ParkSetToken, ParkTimeout, LifeFails,
         GitHub, Webhook, Hook, HookReadToken, HookClear, HookSend, HookPush, HookFails,
         StarterPut, Update, UpdateGet, UpdateNotify, UpdatePut, UpdatePutPrRow, Finished

(* Whatever number of steps the execution has left, it ends or comes to have *)
(* fewer: the Lambda goes on, the state machine stops waiting for the worker *)
(* or for GitHub, once start_fix has written.                                *)
THEOREM EveryStageEnds ==
  ASSUME NEW n \in Nat
  PROVE  Spec /\ FairGuards => ((StepsLeft = n /\ exec.at \notin Ended) ~> StepsLeft < n)
<1> DEFINE P == StepsLeft = n /\ exec.at \notin Ended
           Q == StepsLeft < n
           Calls == P /\ LifeReady
           Early == P /\ Waiting /\ starter = "put"
           Runs == P /\ Waiting /\ starter = "done"
           Listens == P /\ Parked
<1>1. ProgressInv /\ P => Calls \/ Early \/ Runs \/ Listens
  BY WithSomeone DEF ProgressInv, TypeInv, TypeOK
<1>2. Calls /\ ProgressInv /\ ProgressInv' /\ [Next]_vars => Calls' \/ Q'
  BY StageKept
<1>3. Calls /\ ProgressInv /\ ProgressInv' /\ <<Life>>_vars => Q'
  BY LifeAdvances DEF ProgressInv, Advances
<1>4. Early /\ ProgressInv /\ ProgressInv' /\ [Next]_vars => Early' \/ Runs' \/ Q'
  <2>1. ProgressInv' => starter' \in {"put", "done"}
    BY DEF ProgressInv, TypeInv, TypeOK
  <2> QED
    BY <2>1, StageKept
<1>5. Early /\ ProgressInv /\ ProgressInv' /\ [Next]_vars /\ <<StarterPut>>_vars => Runs' \/ Q'
  <2>1. StarterPut => starter' = "done"
    BY DEF StarterPut
  <2> QED
    BY <2>1, StageKept
<1>6. Runs /\ ProgressInv /\ ProgressInv' /\ [Next]_vars => Runs' \/ Q'
  BY StageKept, StarterDone
<1>7. Runs /\ ProgressInv /\ ProgressInv' /\ [Next]_vars /\ <<TaskTimeout>>_vars => Q'
  <2>1. Runs /\ TaskTimeout /\ ProgressInv => exec' # exec
    BY DEF TaskTimeout, Goto, Waiting, Working, ProgressInv, TypeInv, TypeOK, Execution
  <2> QED
    BY <2>1, StageKept
<1>8. Listens /\ ProgressInv /\ ProgressInv' /\ [Next]_vars => Listens' \/ Q'
  BY StageKept
<1>9. Listens /\ ProgressInv /\ ProgressInv' /\ [Next]_vars /\ <<ParkTimeout>>_vars => Q'
  <2>1. ParkTimeout /\ ProgressInv => exec' # exec
    BY DEF ParkTimeout, Goto, Parked, ProgressInv, TypeInv, TypeOK, Execution
  <2> QED
    BY <2>1, StageKept
<1>10. /\ Calls => LifeReady
       /\ Early => starter = "put"
       /\ Runs => TimeoutReady
       /\ Listens => Parked
  BY DEF TimeoutReady, MayReport
<1> HIDE DEF P, Q, Calls, Early, Runs, Listens
<1>11. Spec /\ FairGuards => (P ~> Q)
  BY <1>1, <1>2, <1>3, <1>4, <1>5, <1>6, <1>7, <1>8, <1>9, <1>10, ProgressAlways, PTL
  DEF Spec, FairGuards
<1> QED
  BY <1>11 DEF P, Q
=============================================================================
