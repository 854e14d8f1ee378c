------------------------- MODULE AdmissionCapProofs -------------------------
(***************************************************************************)
(* How far a day may exceed policy.prs_per_day, for any number of          *)
(* fingerprints, triage invocations, deaths and retries, without approvals *)
(* and without the stale writes of UPDATE events.                          *)
(***************************************************************************)
EXTENDS AdmissionProofs

-----------------------------------------------------------------------------
(* Without the gate nobody approves                                         *)

\* nobody approves: no row waits for it and no press of a button goes through
Ungated ==
  /\ \A fp \in Fingerprints : row[fp].status # "awaiting_approval"
  /\ \A c \in Clickers : At(c, "idle")
  /\ \A l \in Triagers : ~At(l, "await")

\* What a triage invocation can do to itself and to its row
LEMMA TriageFacts ==
  ASSUME ~Gated, TypeOK, Ungated, NEW l \in Triagers, Triage(l)
  PROVE  /\ \A k \in Invocations : k # l => inv'[k] = inv[k]
         /\ inv'[l].pc # "await"
         /\ \/ UNCHANGED row
            \/ row' = [row EXCEPT ![inv[l].fp] = Claimed]
            \/ \E s \in {"rca_only", "fixing"} : Write(inv[l].fp, s)
<1> DEFINE Goal == /\ \A k \in Invocations : k # l => inv'[k] = inv[k]
                   /\ inv'[l].pc # "await"
<1>0. l \in Invocations /\ inv \in [Invocations -> Invocation]
  BY DEF Invocations, TypeOK
<1>1. ASSUME NEW fp \in Fingerprints, Receive(l, fp) PROVE Goal /\ UNCHANGED row
  BY <1>0, <1>1 DEF Receive
<1>2. ASSUME NEW pc \in Pc \ {"await"}, Step(l, pc) PROVE Goal
  BY <1>0, <1>2, StepFacts
<1>3. ASSUME Return(l) PROVE Goal
  BY <1>0, <1>3, ReturnFacts
<1>4. CASE ClaimGet(l) \/ Decide(l) \/ CapCheck(l) \/ StartExecution(l)
  <2>1. Return(l) \/ \E pc \in Pc \ {"await"} : Step(l, pc)
    BY <1>4 DEF ClaimGet, Decide, CapCheck, StartExecution, Pc
  <2>2. UNCHANGED row
    BY <1>4 DEF ClaimGet, Decide, CapCheck, StartExecution
  <2> QED
    BY <1>2, <1>3, <2>1, <2>2
<1>5. CASE ClaimPut(l)
  <2>1. Return(l) \/ \E pc \in Pc \ {"await"} : Step(l, pc)
    BY <1>5 DEF ClaimPut, Pc
  <2>2. UNCHANGED row \/ row' = [row EXCEPT ![inv[l].fp] = Claimed]
    BY <1>5 DEF ClaimPut
  <2> QED
    BY <1>2, <1>3, <2>1, <2>2
<1>6. CASE RcaOnly(l) \/ PutFixing(l)
  BY <1>3, <1>6 DEF RcaOnly, PutFixing
<1>7. ~AwaitApproval(l)
  BY DEF AwaitApproval, Ungated
<1> QED
  BY <1>1, <1>4, <1>5, <1>6, <1>7 DEF Triage

LEMMA UngatedStep ==
  ASSUME ~Gated, Updaters = {}, TypeOK, Ungated, [Next]_vars
  PROVE  Ungated'
<1>0. inv \in [Invocations -> Invocation] /\ row \in [Fingerprints -> Row]
  BY DEF TypeOK
<1>1. ASSUME NEW l \in Triagers, Triage(l) PROVE Ungated'
  <2>1. l \in Invocations /\ l \notin Clickers /\ Clickers \subseteq Invocations
        /\ Triagers \subseteq Invocations
    BY InvocationsAssumption DEF Invocations
  <2>2. \A fp \in Fingerprints : row'[fp].status # "awaiting_approval"
    <3>1. CASE UNCHANGED row
      BY <3>1 DEF Ungated
    <3>2. CASE row' = [row EXCEPT ![inv[l].fp] = Claimed]
      BY <1>0, <3>2, Statuses DEF Ungated
    <3>3. CASE \E s \in {"rca_only", "fixing"} : Write(inv[l].fp, s)
      <4>1. PICK s \in {"rca_only", "fixing"} : row' = [row EXCEPT ![inv[l].fp] = Put(@, s)]
        BY <3>3 DEF Write
      <4> QED
        BY <1>0, <4>1, Statuses DEF Ungated
    <3> QED
      BY <1>1, <3>1, <3>2, <3>3, TriageFacts
  <2> QED
    BY <1>1, <2>1, <2>2, TriageFacts DEF Ungated, At
<1>2. ASSUME NEW c \in Clickers, Slack(c) PROVE FALSE
  BY <1>2 DEF Slack, Click, DismissPut, StartExecution, PutFixing, Ungated, At
<1>3. ASSUME NEW i \in Invocations, Dies(i) PROVE Ungated'
  BY <1>0, <1>3 DEF Dies, Return, Idle, Ungated, At
<1>4. ASSUME NEW fp \in Fingerprints, Execution(fp) PROVE Ungated'
  <2>1. /\ UNCHANGED inv
        /\ \/ \E s \in {"pr_open", "ready"} \cup Terminal : Write(fp, s)
           \/ row' = [row EXCEPT ![fp].recent = 0]
           \/ row' = row
    BY <1>4, Ends
    DEF Execution, RunWrites, RunEnds, RunReturns, RunRetries, CoolDownEnds, RunDies
  <2>2. \A f \in Fingerprints : row'[f].status # "awaiting_approval"
    <3>1. CASE \E s \in {"pr_open", "ready"} \cup Terminal : Write(fp, s)
      <4>1. PICK s \in {"pr_open", "ready"} \cup Terminal : row' = [row EXCEPT ![fp] = Put(@, s)]
        BY <3>1 DEF Write
      <4>2. s # "awaiting_approval"
        BY DEF Terminal
      <4> QED
        BY <1>0, <4>1, <4>2, Statuses DEF Ungated
    <3>2. CASE row' = [row EXCEPT ![fp].recent = 0]
      BY <1>0, <3>2 DEF Ungated, Row
    <3> QED
      BY <2>1, <3>1, <3>2 DEF Ungated
  <2> QED
    BY <2>1, <2>2 DEF Ungated, At
<1>5. CASE UNCHANGED vars
  BY <1>5 DEF vars, Ungated, At
<1> QED
  BY <1>1, <1>2, <1>3, <1>4, <1>5 DEF Next

LEMMA UngatedHolds == ASSUME ~Gated, Updaters = {} PROVE Spec => []Ungated
<1>1. Init => Ungated
  BY DEF Init, Ungated, At, Idle, NoRow, Invocations
<1>2. TypeOK /\ Ungated /\ [Next]_vars => Ungated'
  BY UngatedStep
<1> QED
  BY <1>1, <1>2, TypeCorrect, PTL DEF Spec

-----------------------------------------------------------------------------
(* What counts                                                              *)

\* a triage invocation passed the cap for fp and has not written the row yet
Underway == {"start", "fixing"}
Starting(fp) == \E l \in Triagers : inv[l].fp = fp /\ inv[l].pc \in Underway

Opened == {fp \in Fingerprints : row[fp].opened = 1}
InStart == {fp \in Fingerprints : Starting(fp)}

\* executions whose row does not count and that nobody is about to make count;
\* a retried after_run may leave one at any later claim
Orphans ==
  {fp \in Fingerprints :
     overtaken[fp] > 0 \/ (row[fp].opened = 0 /\ runs[fp] > 0 /\ ~Starting(fp))}

\* what counts against the cap, or will, or would if its starter had lived
Counting == {fp \in Fingerprints : row[fp].opened = 1 \/ runs[fp] > 0 \/ Starting(fp)}

CapInv ==
  PrsPerDay # 0 =>
    /\ Cardinality(Orphans) <= faults
    /\ Cardinality(Counting) <= PrsPerDay - 1 + Cardinality(Triagers) + faults

Finite == IsFiniteSet(Fingerprints) /\ IsFiniteSet(Triagers)

LEMMA Cardinalities ==
  ASSUME Finite
  PROVE  /\ Cardinality(Triagers) \in Nat
         /\ \A S \in SUBSET Fingerprints :
              /\ IsFiniteSet(S) /\ Cardinality(S) \in Nat
              /\ \A T \in SUBSET S : Cardinality(T) <= Cardinality(S)
  BY FS_CardinalityType, FS_Subset DEF Finite

LEMMA Parts ==
  /\ Opened \in SUBSET Fingerprints /\ InStart \in SUBSET Fingerprints
  /\ Orphans \in SUBSET Fingerprints /\ Counting \in SUBSET Fingerprints
  /\ Opened' \in SUBSET Fingerprints /\ InStart' \in SUBSET Fingerprints
  /\ Orphans' \in SUBSET Fingerprints /\ Counting' \in SUBSET Fingerprints
  BY DEF Opened, InStart, Orphans, Counting

\* Fingerprints that have an invocation of their own are no more than those
LEMMA ServedBounded ==
  ASSUME Finite, NEW S, NEW serves, \A fp \in S : \E l \in Triagers : serves[l] = fp
  PROVE  Cardinality(S) <= Cardinality(Triagers)
<1> DEFINE f == [fp \in S |-> CHOOSE l \in Triagers : serves[l] = fp]
<1>1. \A fp \in S : f[fp] \in Triagers /\ serves[f[fp]] = fp
  OBVIOUS
<1>2. f \in Injection(S, Triagers)
  BY <1>1 DEF Injection, IsInjective
<1> QED
  BY <1>2, FS_Injection DEF Finite

\* A set of three parts is no larger than the parts together
LEMMA ThreeParts ==
  ASSUME Finite, NEW A \in SUBSET Fingerprints, NEW B \in SUBSET Fingerprints,
         NEW C \in SUBSET Fingerprints, NEW D, D \subseteq A \cup B \cup C
  PROVE  Cardinality(D) <= Cardinality(A) + Cardinality(B) + Cardinality(C)
<1>1. /\ IsFiniteSet(A) /\ IsFiniteSet(B) /\ IsFiniteSet(C)
      /\ Cardinality(A) \in Nat /\ Cardinality(B) \in Nat /\ Cardinality(C) \in Nat
      /\ Cardinality(A \cap B) \in Nat /\ Cardinality((A \cup B) \cap C) \in Nat
      /\ Cardinality(A \cup B) \in Nat /\ IsFiniteSet(A \cup B)
  <2>1. A \cap B \in SUBSET Fingerprints /\ (A \cup B) \cap C \in SUBSET Fingerprints
        /\ A \cup B \in SUBSET Fingerprints
    OBVIOUS
  <2> QED
    BY <2>1, Cardinalities
<1>2. Cardinality(A \cup B) = Cardinality(A) + Cardinality(B) - Cardinality(A \cap B)
  BY <1>1, FS_Union
<1>3. Cardinality((A \cup B) \cup C)
        = Cardinality(A \cup B) + Cardinality(C) - Cardinality((A \cup B) \cap C)
  BY <1>1, FS_Union
<1>4. Cardinality(D) <= Cardinality((A \cup B) \cup C)
  <2>1. (A \cup B) \cup C \in SUBSET Fingerprints /\ D \in SUBSET ((A \cup B) \cup C)
    OBVIOUS
  <2> QED
    BY <2>1, Cardinalities
<1>5. Cardinality(D) \in Nat
  BY Cardinalities
<1> QED
  BY <1>1, <1>2, <1>3, <1>4, <1>5

-----------------------------------------------------------------------------
(* The steps                                                                *)

\* fp neither begins to count nor loses the last one who would make it count
Calm(fp) ==
  /\ fp \in Counting' => fp \in Counting
  /\ fp \in Orphans' => fp \in Orphans

LEMMA CapCalm ==
  ASSUME Finite, TypeOK, TypeOK', CapInv, \A fp \in Fingerprints : Calm(fp), faults' = faults
  PROVE  CapInv'
<1>1. Counting' \in SUBSET Counting /\ Orphans' \in SUBSET Orphans
  BY Parts DEF Calm
<1>2. /\ Cardinality(Counting') <= Cardinality(Counting)
      /\ Cardinality(Orphans') <= Cardinality(Orphans)
      /\ Cardinality(Counting) \in Nat /\ Cardinality(Orphans) \in Nat
      /\ Cardinality(Counting') \in Nat /\ Cardinality(Orphans') \in Nat
  BY <1>1, Parts, Cardinalities
<1>3. faults \in Nat /\ PrsPerDay \in Nat /\ Cardinality(Triagers) \in Nat
  BY Cardinalities, BoundsAssumption, PolicyAssumption DEF TypeOK
<1> QED
  BY <1>2, <1>3 DEF CapInv

\* A set that gains no more than x
LEMMA OneMore ==
  ASSUME Finite, NEW A \in SUBSET Fingerprints, NEW B \in SUBSET Fingerprints, NEW x,
         \A fp \in B : fp \in A \/ fp = x
  PROVE  Cardinality(B) <= Cardinality(A) + 1
<1>1. IsFiniteSet(A) /\ Cardinality(A) \in Nat /\ Cardinality(B) \in Nat /\ B \subseteq A \cup {x}
  BY Cardinalities
<1>2. /\ IsFiniteSet(A \cup {x})
      /\ \/ Cardinality(A \cup {x}) = Cardinality(A)
         \/ Cardinality(A \cup {x}) = Cardinality(A) + 1
  BY <1>1, FS_AddElement, Zenon
<1>3. Cardinality(B) <= Cardinality(A \cup {x})
  BY <1>1, <1>2, FS_Subset
<1>4. Cardinality(A \cup {x}) \in Nat
  BY <1>2, FS_CardinalityType
<1> QED
  BY <1>1, <1>2, <1>3, <1>4

\* A fault concerns one fingerprint: the execution it leaves behind, or the row
\* that a retried after_run makes count
LEMMA CapFault ==
  ASSUME Finite, TypeOK, CapInv, faults' = faults + 1, NEW x,
         \A fp \in Fingerprints : /\ fp \in Counting' => fp \in Counting \/ fp = x
                                  /\ fp \in Orphans' => fp \in Orphans \/ fp = x
  PROVE  CapInv'
<1>1. /\ \A fp \in Counting' : fp \in Counting \/ fp = x
      /\ \A fp \in Orphans' : fp \in Orphans \/ fp = x
  BY Parts
<1>2. /\ Cardinality(Counting') <= Cardinality(Counting) + 1
      /\ Cardinality(Orphans') <= Cardinality(Orphans) + 1
  BY <1>1, Parts, OneMore
<1>3. /\ Cardinality(Counting) \in Nat /\ Cardinality(Orphans) \in Nat
      /\ Cardinality(Counting') \in Nat /\ Cardinality(Orphans') \in Nat
  BY Parts, Cardinalities
<1>4. faults \in Nat /\ PrsPerDay \in Nat /\ Cardinality(Triagers) \in Nat
  BY Cardinalities, BoundsAssumption, PolicyAssumption DEF TypeOK
<1> QED
  BY <1>2, <1>3, <1>4 DEF CapInv

\* A triage invocation that passes the cap: it saw fewer rows than the cap, and
\* all that will count beyond them is in some start or was orphaned by a death
LEMMA CapPassed ==
  ASSUME Finite, TypeOK, CapInv, NEW l \in Triagers, CapCheck(l), Step(l, "start")
  PROVE  CapInv'
<1>1. UNCHANGED <<row, runs, faults, overtaken>>
  BY DEF CapCheck
<1>2. PrsPerDay # 0 => Cardinality(Opened) < PrsPerDay
  <2>1. l \in Invocations /\ inv' = [inv EXCEPT ![l].pc = "start"] /\ inv \in [Invocations -> Invocation]
    BY DEF Step, Invocations, TypeOK
  <2>2. inv'[l].pc = "start"
    BY <2>1 DEF Invocation
  <2>3. ASSUME Step(l, "rca") PROVE FALSE
    BY <2>1, <2>2, <2>3 DEF Step, Invocation
  <2>4. ASSUME PrsPerDay # 0 PROVE ~(OpenedToday >= PrsPerDay)
    BY <2>3, <2>4 DEF CapCheck
  <2>5. OpenedToday = Cardinality(Opened)
    BY DEF OpenedToday, Opened
  <2>6. Cardinality(Opened) \in Nat
    BY Parts, Cardinalities
  <2> QED
    BY <2>4, <2>5, <2>6, PolicyAssumption
<1>3. \A fp \in Fingerprints : Starting(fp) => Starting(fp)'
  <2>1. l \in Invocations /\ Triagers \subseteq Invocations
    BY DEF Invocations
  <2>2. /\ \A k \in Invocations : k # l => inv'[k] = inv[k]
        /\ inv'[l].pc = "start" /\ inv'[l].fp = inv[l].fp
    BY <2>1, StepFacts DEF Pc
  <2> QED
    BY <2>1, <2>2 DEF Starting, Underway
<1>4. Orphans' \in SUBSET Orphans
  BY <1>1, <1>3 DEF Orphans
<1>5. Counting' \subseteq Opened \cup InStart' \cup Orphans
  BY <1>1, <1>3 DEF Counting, Opened, InStart, Orphans, TypeOK, Row
<1>6. Cardinality(Counting') <= Cardinality(Opened) + Cardinality(InStart') + Cardinality(Orphans)
  BY <1>5, Parts, ThreeParts
<1>7. Cardinality(InStart') <= Cardinality(Triagers)
  <2> DEFINE serves == [l1 \in Triagers |-> inv'[l1].fp]
  <2>1. \A fp \in InStart' : \E l1 \in Triagers : serves[l1] = fp
    BY DEF InStart, Starting
  <2> HIDE DEF serves
  <2> QED
    BY <2>1, ServedBounded
<1>8. Cardinality(Orphans') <= Cardinality(Orphans)
  BY <1>4, Parts, Cardinalities
<1>9. /\ Cardinality(Opened) \in Nat /\ Cardinality(InStart') \in Nat
      /\ Cardinality(Orphans) \in Nat /\ Cardinality(Counting') \in Nat
      /\ Cardinality(Orphans') \in Nat /\ Cardinality(Triagers) \in Nat
      /\ faults \in Nat /\ PrsPerDay \in Nat
  BY Parts, Cardinalities, BoundsAssumption, PolicyAssumption DEF TypeOK
<1> QED
  BY <1>1, <1>2, <1>6, <1>7, <1>8, <1>9 DEF CapInv

\* Invocation l moves outside its start
LEMMA StartsKept ==
  ASSUME TypeOK, NEW l \in Invocations, inv[l].pc \notin Underway,
         \A k \in Invocations : k # l => inv'[k] = inv[k],
         inv'[l].pc \notin Underway
  PROVE  \A fp \in Fingerprints : Starting(fp)' <=> Starting(fp)
<1>1. Triagers \subseteq Invocations
  BY DEF Invocations
<1> QED
  BY <1>1 DEF Starting

\* Nobody's start is disturbed, and fp counts no more than before
LEMMA CalmRow ==
  ASSUME NEW fp \in Fingerprints, Starting(fp)' <=> Starting(fp),
         row'[fp].opened = row[fp].opened \/ (row'[fp].opened = 1 /\ runs[fp] > 0)
           \/ (row'[fp].opened = 0 /\ (runs'[fp] = 0 \/ overtaken[fp] > 0)),
         runs'[fp] > 0 => runs[fp] > 0, overtaken'[fp] = overtaken[fp]
  PROVE  Calm(fp)
  BY DEF Calm, Counting, Orphans

LEMMA PutOpened ==
  ASSUME TypeOK, NEW f \in Fingerprints, NEW s \in Status, Write(f, s), NEW fp \in Fingerprints
  PROVE  /\ fp # f => row'[fp] = row[fp]
         /\ fp = f => row'[fp].opened = IF s \in Started THEN 1 ELSE row[fp].opened
  BY DEF Write, Put, TypeOK

LEMMA CapTriage ==
  ASSUME Finite, ~Gated, TypeOK, TypeOK', Ungated, ClaimInv, CapInv, NEW l \in Triagers, Triage(l)
  PROVE  CapInv'
<1>0. /\ l \in Invocations /\ Triagers \subseteq Invocations
      /\ inv \in [Invocations -> Invocation] /\ inv[l] \in Invocation
      /\ row \in [Fingerprints -> Row] /\ runs \in [Fingerprints -> Nat]
  BY DEF Invocations, TypeOK
<1>1. ASSUME NEW f \in Fingerprints, Receive(l, f) PROVE CapInv'
  <2>1. UNCHANGED <<row, runs, faults, overtaken>>
    BY <1>1 DEF Receive
  <2>2. \A fp \in Fingerprints : Starting(fp)' <=> Starting(fp)
    BY <1>0, <1>1, StartsKept DEF Receive, At, Underway
  <2> QED
    BY <2>1, <2>2, CalmRow, CapCalm
<1>2. CASE ClaimGet(l) \/ Decide(l) \/ RcaOnly(l)
  <2>1. /\ inv[l].pc \notin Underway
        /\ Return(l) \/ \E pc \in Pc \ Underway : Step(l, pc)
    BY <1>2 DEF ClaimGet, Decide, RcaOnly, At, Underway, Pc
  <2>2. /\ \A k \in Invocations : k # l => inv'[k] = inv[k]
        /\ inv'[l].pc \notin Underway
    BY <1>0, <2>1, StepFacts, ReturnFacts DEF Underway
  <2>3. \A fp \in Fingerprints : Starting(fp)' <=> Starting(fp)
    BY <1>0, <2>1, <2>2, StartsKept
  <2>4. UNCHANGED <<runs, faults, overtaken>> /\ (row' = row \/ Write(inv[l].fp, "rca_only"))
    BY <1>2 DEF ClaimGet, Decide, RcaOnly
  <2>5. \A fp \in Fingerprints : row'[fp].opened = row[fp].opened
    BY <1>0, <2>4 DEF Write, Put, Started
  <2> QED
    BY <2>3, <2>4, <2>5, CalmRow, CapCalm
<1>3. CASE ClaimPut(l)
  <2>1. /\ inv[l].pc \notin Underway /\ UNCHANGED <<runs, faults, overtaken>>
        /\ Return(l) \/ Step(l, "decide")
    BY <1>3 DEF ClaimPut, At, Underway
  <2>2. /\ \A k \in Invocations : k # l => inv'[k] = inv[k]
        /\ inv'[l].pc \notin Underway
    BY <1>0, <2>1, StepFacts, ReturnFacts DEF Underway, Pc
  <2>3. \A fp \in Fingerprints : Starting(fp)' <=> Starting(fp)
    BY <1>0, <2>1, <2>2, StartsKept
  <2>4. \A fp \in Fingerprints :
           row'[fp] = row[fp] \/ (row'[fp].opened = 0 /\ (runs[fp] = 0 \/ overtaken[fp] > 0))
    <3> SUFFICES ASSUME NEW fp \in Fingerprints, row'[fp] # row[fp]
                 PROVE  row'[fp].opened = 0 /\ (runs[fp] = 0 \/ overtaken[fp] > 0)
      OBVIOUS
    <3>1. fp = inv[l].fp /\ row'[fp] = Claimed /\ ~Live(row[fp])
      BY <1>0, <1>3 DEF ClaimPut
    <3>2. overtaken[fp] = 0 \/ overtaken[fp] > 0
      BY DEF TypeOK
    <3> QED
      BY <1>0, <3>1, <3>2, LedgerSays DEF Claimed
  <2> QED
    BY <2>1, <2>3, <2>4, CalmRow, CapCalm
<1>4. CASE CapCheck(l)
  <2>1. Step(l, "rca") \/ Step(l, "start")
    BY <1>4 DEF CapCheck
  <2>2. CASE Step(l, "rca")
    <3>1. inv[l].pc \notin Underway /\ UNCHANGED <<row, runs, faults, overtaken>>
      BY <1>4 DEF CapCheck, At, Underway
    <3>2. /\ \A k \in Invocations : k # l => inv'[k] = inv[k]
          /\ inv'[l].pc \notin Underway
      BY <1>0, <2>2, StepFacts DEF Underway, Pc
    <3>3. \A fp \in Fingerprints : Starting(fp)' <=> Starting(fp)
      BY <1>0, <3>1, <3>2, StartsKept
    <3> QED
      BY <3>1, <3>3, CalmRow, CapCalm
  <2> QED
    BY <1>4, <2>1, <2>2, CapPassed
<1>5. CASE StartExecution(l)
  <2>1. /\ inv[l].pc = "start" /\ Step(l, "fixing") /\ UNCHANGED <<row, faults, overtaken>>
        /\ runs' = [runs EXCEPT ![inv[l].fp] = @ + 1]
    BY <1>5 DEF StartExecution, At
  <2>2. /\ \A k \in Invocations : k # l => inv'[k] = inv[k]
        /\ inv'[l].pc = "fixing" /\ inv'[l].fp = inv[l].fp
    BY <1>0, <2>1, StepFacts DEF Pc
  <2>3. \A fp \in Fingerprints : Starting(fp)' <=> Starting(fp)
    BY <1>0, <2>1, <2>2 DEF Starting, Underway
  <2>4. \A fp \in Fingerprints : fp = inv[l].fp => Starting(fp)
    BY <2>1 DEF Starting, Underway
  <2>5. \A fp \in Fingerprints : Calm(fp)
    BY <1>0, <2>1, <2>3, <2>4 DEF Calm, Counting, Orphans
  <2> QED
    BY <2>1, <2>5, CapCalm
<1>6. CASE PutFixing(l)
  <2>1. /\ inv[l].pc = "fixing" /\ Return(l) /\ Write(inv[l].fp, "fixing")
        /\ UNCHANGED <<runs, faults, overtaken>>
    BY <1>6 DEF PutFixing, At
  <2>2. \A k \in Invocations : k # l => inv'[k] = inv[k]
    BY <1>0, <2>1, ReturnFacts
  <2>3. inv'[l].pc = "idle"
    BY <1>0, <2>1, ReturnFacts
  <2>4. \A fp \in Fingerprints : /\ Starting(fp)' => Starting(fp)
                                 /\ fp # inv[l].fp => (Starting(fp)' <=> Starting(fp))
                                 /\ fp = inv[l].fp => Starting(fp)
    BY <1>0, <2>1, <2>2, <2>3 DEF Starting, Underway
  <2>5. \A fp \in Fingerprints : /\ fp # inv[l].fp => row'[fp] = row[fp]
                                 /\ fp = inv[l].fp => row'[fp].opened = 1
    BY <1>0, <2>1 DEF Write, Put, Started
  <2>6. \A fp \in Fingerprints : Calm(fp)
    <3>1. ASSUME NEW fp \in Fingerprints, fp # inv[l].fp PROVE Calm(fp)
      <4>1. /\ row'[fp] = row[fp] /\ runs'[fp] = runs[fp] /\ overtaken'[fp] = overtaken[fp]
            /\ Starting(fp)' <=> Starting(fp)
        BY <2>1, <2>4, <2>5, <3>1
      <4> QED
        BY <4>1, CalmRow
    <3>2. ASSUME NEW fp \in Fingerprints, fp = inv[l].fp PROVE Calm(fp)
      <4>1. row'[fp].opened = 1 /\ Starting(fp) /\ overtaken'[fp] = overtaken[fp]
        BY <2>1, <2>4, <2>5, <3>2
      <4> QED
        BY <4>1 DEF Calm, Counting, Orphans
    <3> QED
      BY <3>1, <3>2
  <2> QED
    BY <2>1, <2>6, CapCalm
<1>7. ~AwaitApproval(l)
  BY DEF AwaitApproval, Ungated
<1> QED
  BY <1>1, <1>2, <1>3, <1>4, <1>5, <1>6, <1>7 DEF Triage

LEMMA CapExecution ==
  ASSUME Finite, TypeOK, TypeOK', CapInv, NEW f \in Fingerprints, Execution(f)
  PROVE  CapInv'
<1>0. row \in [Fingerprints -> Row] /\ runs \in [Fingerprints -> Nat] /\ UNCHANGED inv
  BY DEF TypeOK, Execution, RunWrites, RunEnds, RunReturns, RunRetries, CoolDownEnds, RunDies
<1>1. \A fp \in Fingerprints : Starting(fp)' <=> Starting(fp)
  BY <1>0 DEF Starting
<1>2. \A fp \in Fingerprints : runs'[fp] > 0 => runs[fp] > 0
  BY <1>0 DEF Execution, RunWrites, RunEnds, RunReturns, RunRetries, CoolDownEnds, RunDies
<1>3. CASE RunRetries(f)
  <2>1. \E s \in Status : Write(f, s)
    BY <1>3, Ends, StatusTypes DEF RunRetries
  <2>2. /\ faults' = faults + 1 /\ runs' = runs
        /\ \A fp \in Fingerprints : fp # f => row'[fp] = row[fp] /\ overtaken'[fp] = overtaken[fp]
    BY <1>3, <2>1, PutOpened DEF RunRetries, OvertakesIf, TypeOK
  <2>3. \A fp \in Fingerprints : fp # f => Calm(fp)
    BY <1>1, <2>2, CalmRow
  <2> QED
    BY <2>2, <2>3, CapFault DEF Calm
<1>4. CASE ~RunRetries(f)
  <2>1. overtaken' = overtaken
    BY <1>4 DEF Execution, RunWrites, RunEnds, RunReturns, CoolDownEnds, RunDies
  <2>2. \A fp \in Fingerprints :
           row'[fp].opened = row[fp].opened \/ (row'[fp].opened = 1 /\ runs[fp] > 0)
    <3>1. CASE RunWrites(f) \/ RunEnds(f)
      <4>1. runs[f] > 0 /\ \E s \in Status : Write(f, s)
        BY <3>1, Ends, StatusTypes DEF RunWrites, RunEnds, Status
      <4> QED
        BY <4>1, PutOpened
    <3>2. CASE CoolDownEnds(f)
      BY <1>0, <3>2 DEF CoolDownEnds, Row
    <3>3. CASE RunDies(f) \/ RunReturns(f)
      BY <3>3 DEF RunDies, RunReturns
    <3> QED
      BY <1>4, <3>1, <3>2, <3>3 DEF Execution
  <2>3. \A fp \in Fingerprints : Calm(fp)
    BY <1>1, <1>2, <2>1, <2>2, CalmRow
  <2>4. faults' = faults \/ faults' = faults + 1
    BY <1>4 DEF Execution, RunWrites, RunEnds, RunReturns, CoolDownEnds, RunDies
  <2> QED
    BY <2>3, <2>4, CapCalm, CapFault DEF Calm
<1> QED
  BY <1>3, <1>4

LEMMA CapStep ==
  ASSUME Finite, ~Gated, Updaters = {}, TypeOK, TypeOK', Ungated, ClaimInv, CapInv,
         [Next]_vars
  PROVE  CapInv'
<1>1. ASSUME NEW c \in Clickers, Slack(c) PROVE FALSE
  BY <1>1 DEF Slack, Click, DismissPut, StartExecution, PutFixing, Ungated, At
<1>2. ASSUME NEW i \in Invocations, Dies(i) PROVE CapInv'
  <2>1. UNCHANGED <<row, runs, overtaken>> /\ faults' = faults + 1 /\ Return(i)
    BY <1>2 DEF Dies
  <2>2. /\ \A k \in Invocations : k # i => inv'[k] = inv[k]
        /\ inv'[i].pc = "idle"
    BY <2>1, ReturnFacts
  <2>3. \A fp \in Fingerprints : /\ Starting(fp)' => Starting(fp)
                                 /\ fp # inv[i].fp => (Starting(fp) => Starting(fp)')
    BY <2>2 DEF Starting, Underway, Invocations
  <2>4. \A fp \in Fingerprints : /\ fp \in Counting' => fp \in Counting
                                 /\ fp \in Orphans' => fp \in Orphans \/ fp = inv[i].fp
    BY <2>1, <2>3 DEF Counting, Orphans
  <2> DEFINE x == inv[i].fp
  <2>5. \A fp \in Fingerprints : /\ fp \in Counting' => fp \in Counting
                                 /\ fp \in Orphans' => fp \in Orphans \/ fp = x
    BY <2>4
  <2> HIDE DEF x
  <2> QED
    BY <2>1, <2>5, CapFault
<1>3. CASE UNCHANGED vars
  BY <1>3 DEF vars, CapInv, Orphans, Counting, Starting
<1> QED
  BY <1>1, <1>2, <1>3, CapTriage, CapExecution DEF Next

-----------------------------------------------------------------------------
(* policy.prs_per_day is tested before the row that counts is written: the *)
(* invocations at work at the same time, and those that died after their   *)
(* start, are all that a day exceeds it by (handlers/triage.py, process;   *)
(* core/store.py, opened_today).                                           *)
THEOREM CapOvershootBounded ==
  ASSUME ~Gated, Updaters = {}, IsFiniteSet(Fingerprints), IsFiniteSet(Triagers)
  PROVE  Spec => []CapOvershoot
<1>0. Finite
  BY DEF Finite
<1>1. Init => CapInv
  <2> SUFFICES ASSUME Init PROVE CapInv
    OBVIOUS
  <2>1. Orphans = {} /\ Counting = {}
    BY DEF Init, Orphans, Counting, Starting, Idle, NoRow, Underway, Invocations
  <2>2. Cardinality({}) = 0 /\ Cardinality(Triagers) \in Nat
    BY <1>0, Cardinalities, FS_EmptySet
  <2> QED
    BY <2>1, <2>2, PolicyAssumption DEF Init, CapInv
<1>2. TypeOK /\ TypeOK' /\ Ungated /\ ClaimInv /\ CapInv /\ [Next]_vars => CapInv'
  BY <1>0, CapStep
<1>3. TypeOK /\ CapInv => CapOvershoot
  <2> SUFFICES ASSUME TypeOK, CapInv PROVE CapOvershoot
    OBVIOUS
  <2>1. Opened \in SUBSET Counting /\ OpenedToday = Cardinality(Opened)
    BY DEF Opened, Counting, OpenedToday
  <2>2. /\ Cardinality(Opened) <= Cardinality(Counting)
        /\ Cardinality(Opened) \in Nat /\ Cardinality(Counting) \in Nat
        /\ Cardinality(Triagers) \in Nat
    BY <1>0, <2>1, Parts, Cardinalities
  <2>3. faults \in Nat /\ PrsPerDay \in Nat
    BY BoundsAssumption, PolicyAssumption DEF TypeOK
  <2> QED
    BY <2>1, <2>2, <2>3 DEF CapInv, CapOvershoot
<1> QED
  BY <1>1, <1>2, <1>3, TypeCorrect, ClaimsHold, UngatedHolds, PTL DEF Spec

=============================================================================
