----------------------------- MODULE LivesProofs -----------------------------
(***************************************************************************)
(* Proofs about module Lives, for any number of lives, attempts, events    *)
(* and commits of people, for either engine, gated or not.                 *)
(***************************************************************************)
EXTENDS Lives, SequenceTheorems, FiniteSetTheorems, TLAPS

USE BoundsAssumption, KindsAssumption

-----------------------------------------------------------------------------
(* Types *)

LEMMA AppendFacts ==
  ASSUME NEW S, NEW s \in Seq(S), NEW x \in S
  PROVE  /\ Append(s, x) \in Seq(S)
         /\ Len(Append(s, x)) = Len(s) + 1
         /\ DOMAIN Append(s, x) = 1..(Len(s) + 1)
         /\ \A i \in 1..Len(s) : Append(s, x)[i] = s[i]
         /\ Append(s, x)[Len(s) + 1] = x
  OBVIOUS

LEMMA ExceptFacts ==
  ASSUME NEW S, NEW s \in Seq(S), NEW i \in DOMAIN s, NEW x \in S
  PROVE  /\ [s EXCEPT ![i] = x] \in Seq(S)
         /\ Len([s EXCEPT ![i] = x]) = Len(s)
         /\ DOMAIN [s EXCEPT ![i] = x] = DOMAIN s
         /\ \A j \in DOMAIN s : [s EXCEPT ![i] = x][j] = IF j = i THEN x ELSE s[j]
<1>1. DOMAIN s = 1..Len(s)
  OBVIOUS
<1> QED
  BY <1>1, ExceptSeq

LEMMA CommittedFacts ==
  ASSUME log \in Seq(Commit), NEW h \in SUBSET Nat
  PROVE  /\ Committed(h) \in Seq(Commit)
         /\ Len(Committed(h)) = Len(log) + 1
         /\ DOMAIN Committed(h) = 1..(Len(log) + 1)
         /\ \A c \in 1..Len(log) : Committed(h)[c] = log[c]
         /\ Committed(h)[Len(log) + 1]
              = [past |-> h \cup {Len(log) + 1}]
<1>0. Len(log) + 1 \in Nat
  OBVIOUS
<1>1. [past |-> h \cup {Len(log) + 1}] \in Commit
  BY <1>0 DEF Commit
<1> QED
  BY <1>1, AppendFacts DEF Committed

LEMMA RouteType ==
  ASSUME NEW kind \in EventKind
  PROVE  /\ RouteEvent(kind) \in {"Groom", "FinalizeReady", "FinalizeMerged",
                                  "FinalizeClosed", "FinalizeNeedsHuman"}
         /\ RouteEvent(kind) = "Groom" => exec.attempt < MaxAttempts
         /\ RouteEvent(kind) = "Groom" => kind \in {"ci_failure", "review", "comment"}
         /\ RouteEvent(kind) = "FinalizeMerged" => kind = "merged"
         /\ RouteEvent(kind) = "FinalizeClosed" => kind = "closed"
  BY DEF RouteEvent, EventKind

LEMMA OverType == \A clean \in BOOLEAN : Over(clean) \in Execution
  BY DEF Over, Execution, AslState, NoBrief, BriefMd

LEMMA TypeInit == Init => TypeOK
<1> SUFFICES ASSUME Init PROVE TypeOK
  OBVIOUS
<1>1. [past |-> {1}] \in Commit
  BY DEF Commit
<1>2. log \in Seq(Commit) /\ Len(log) = 1
  BY <1>1 DEF Init
<1>3. exec \in Execution /\ exec.run = 0
  BY OverType DEF Init, Over
<1>4. row \in Row /\ row.pr = 0 /\ row.sha = 0
  BY DEF Init, Row, NoBrief, BriefMd
<1>5. spent \in [lives : 0..MaxLives, events : 0..MaxEvents, human : 0..MaxHuman]
  BY DEF Init
<1>6. prs \in Seq(PullRequest) /\ pending \in Seq(Event) /\ runs \in Seq(Run)
  BY DEF Init
<1>7. tracked = {} /\ resolved = {} /\ shown = {} /\ main = 1 /\ branch = 0
      /\ Len(prs) = 0 /\ Len(runs) = 0
  BY DEF Init
<1> QED
  BY <1>2, <1>3, <1>4, <1>5, <1>6, <1>7 DEF TypeOK

(* A step that goes on with an event starts a groom run, or only moves on. *)
StartsGroom(ev) ==
  /\ ev.kind \in {"ci_failure", "review", "comment"}
  /\ exec.attempt < MaxAttempts
  /\ exec' = [exec EXCEPT !.at = "Groom", !.ev = ev, !.run = Len(runs) + 1,
                          !.attempt = @ + 1]
  /\ runs' = Append(runs, Launched("groom", ev.ids, exec.brief, spent.lives))
MovesOn(ev) ==
  /\ exec' = [exec EXCEPT !.at = RouteEvent(ev.kind), !.ev = ev]
  /\ RouteEvent(ev.kind) \in {"FinalizeReady", "FinalizeMerged", "FinalizeClosed",
                              "FinalizeNeedsHuman"}
  /\ RouteEvent(ev.kind) = "FinalizeMerged" => ev.kind = "merged"
  /\ RouteEvent(ev.kind) = "FinalizeClosed" => ev.kind = "closed"
  /\ runs' = runs

LEMMA ResumeFacts ==
  ASSUME NEW ev \in Event, Resume(ev)
  PROVE  StartsGroom(ev) \/ MovesOn(ev)
<1>1. ev.kind \in EventKind
  BY DEF Event
<1> QED
  BY <1>1, RouteType DEF Resume, StartsGroom, MovesOn

LEMMA LaunchedType ==
  ASSUME NEW kind \in {"fix", "groom"}, NEW ids \in SUBSET Nat, NEW brief \in BriefMd,
         NEW life \in Nat
  PROVE  Launched(kind, ids, brief, life) \in Run
  BY DEF Launched, Run

\* a container that has checked out or pushed another commit
Moved(x, pc, head) == [x EXCEPT !.pc = pc, !.head = head]
CheckedOut(x, head, outside) ==
  [x EXCEPT !.pc = "working", !.head = head, !.outside = outside]

LEMMA MovedFacts ==
  ASSUME NEW x \in Run, NEW pc \in {"working", "pushed"}, NEW head \in Nat
  PROVE  /\ Moved(x, pc, head) \in Run
         /\ Moved(x, pc, head).pc = pc /\ Moved(x, pc, head).head = head
         /\ Moved(x, pc, head).kind = x.kind /\ Moved(x, pc, head).life = x.life
         /\ Moved(x, pc, head).ids = x.ids /\ Moved(x, pc, head).brief = x.brief
         /\ Moved(x, pc, head).outside = x.outside
  BY DEF Moved, Run

LEMMA CheckedOutFacts ==
  ASSUME NEW x \in Run, NEW head \in Nat, NEW outside \in BOOLEAN
  PROVE  /\ CheckedOut(x, head, outside) \in Run
         /\ CheckedOut(x, head, outside).pc = "working"
         /\ CheckedOut(x, head, outside).head = head
         /\ CheckedOut(x, head, outside).outside = outside
         /\ CheckedOut(x, head, outside).kind = x.kind
         /\ CheckedOut(x, head, outside).life = x.life
  BY DEF CheckedOut, Run

LEMMA ResumeTypes ==
  ASSUME TypeOK, NEW ev \in Event, Resume(ev)
  PROVE  /\ exec' \in Execution /\ exec'.run <= Len(runs')
         /\ runs' \in Seq(Run)
<1>1. /\ exec \in Execution /\ exec.run <= Len(runs)
      /\ runs \in Seq(Run) /\ Len(runs) \in Nat
      /\ spent.lives \in Nat
  BY DEF TypeOK
<1>2. CASE MovesOn(ev)
  <2>1. RouteEvent(ev.kind) \in AslState
    BY <1>2 DEF MovesOn, AslState
  <2> QED
    BY <1>1, <1>2, <2>1 DEF MovesOn, Execution
<1>3. CASE StartsGroom(ev)
  <2>1. Launched("groom", ev.ids, exec.brief, spent.lives) \in Run
    BY <1>1, LaunchedType DEF Execution, Event
  <2>2. runs' \in Seq(Run) /\ Len(runs') = Len(runs) + 1
    BY <1>1, <1>3, <2>1, AppendFacts DEF StartsGroom
  <2>3. exec.attempt + 1 \in 0..MaxAttempts
    BY <1>1, <1>3 DEF Execution, StartsGroom
  <2>4. exec' = [at |-> "Groom", run |-> Len(runs) + 1, outcome |-> exec.outcome,
                 attempt |-> exec.attempt + 1, ev |-> ev, brief |-> exec.brief,
                 clean |-> exec.clean]
    BY <1>1, <1>3 DEF Execution, StartsGroom
  <2> QED
    BY <1>1, <2>2, <2>3, <2>4 DEF Execution, AslState
<1> QED
  BY <1>2, <1>3, ResumeFacts

-----------------------------------------------------------------------------
(* The commits, the containers and the types of everything else *)

\* a commit is in its own history, and histories are closed
GitInv ==
  \A c \in DOMAIN log :
    /\ c \in log[c].past /\ log[c].past \subseteq DOMAIN log
    /\ \A d \in log[c].past : log[d].past \subseteq log[c].past

\* what a container has checked out
RunOK(x) ==
  /\ x.head <= Len(log) /\ x.life <= Life
  /\ x.pc \in {"working", "pushed"} => x.head \in DOMAIN log
  /\ x.kind = "fix" /\ x.pc = "working" /\ ~x.outside => x.head \in log[main].past
  /\ x.pc = "starting" => ~x.outside
RunsInv == \A r \in DOMAIN runs : RunOK(runs[r])

\* the container that is waited for
WaitInv ==
  /\ exec.at \in {"Fix", "Groom", "AfterRun"} =>
       exec.run \in DOMAIN runs /\ runs[exec.run].life = Life
  /\ exec.at = "AfterRun" /\ exec.outcome = "pushed" => runs[exec.run].pc = "pushed"

Basics == TypeOK /\ GitInv /\ RunsInv /\ WaitInv

(* A commit on top of a history that is closed keeps the histories closed   *)
(* and those of the older commits as they are.                              *)
LEMMA CommitFacts ==
  ASSUME TypeOK, GitInv, NEW h \in SUBSET (DOMAIN log),
         \A d \in h : log[d].past \subseteq h,
         log' = Committed(h)
  PROVE  /\ log' \in Seq(Commit) /\ Len(log') = Len(log) + 1
         /\ DOMAIN log' = 1..(Len(log) + 1) /\ DOMAIN log = 1..Len(log)
         /\ \A c \in DOMAIN log : log'[c] = log[c]
         /\ log'[Len(log) + 1].past = h \cup {Len(log) + 1}
         /\ GitInv'
<1>1. log \in Seq(Commit) /\ Len(log) \in Nat /\ DOMAIN log = 1..Len(log)
  BY DEF TypeOK
<1>2. h \in SUBSET Nat
  BY <1>1
<1>3. /\ log' \in Seq(Commit) /\ Len(log') = Len(log) + 1
      /\ DOMAIN log' = 1..(Len(log) + 1)
      /\ \A c \in 1..Len(log) : log'[c] = log[c]
      /\ log'[Len(log) + 1] = [past |-> h \cup {Len(log) + 1}]
  BY <1>1, <1>2, CommittedFacts
<1>4. GitInv'
  <2> SUFFICES ASSUME NEW c \in DOMAIN log'
               PROVE  /\ c \in log'[c].past /\ log'[c].past \subseteq DOMAIN log'
                      /\ \A d \in log'[c].past : log'[d].past \subseteq log'[c].past
    BY DEF GitInv
  <2>1. CASE c \in DOMAIN log
    <3>1. log'[c] = log[c] /\ log[c].past \subseteq DOMAIN log /\ c \in log[c].past
      BY <1>1, <1>3, <2>1 DEF GitInv
    <3>2. \A d \in log[c].past : log'[d] = log[d] /\ log[d].past \subseteq log[c].past
      BY <1>1, <1>3, <2>1, <3>1 DEF GitInv
    <3> QED
      BY <1>1, <1>3, <3>1, <3>2
  <2>2. CASE c = Len(log) + 1
    <3>1. log'[c].past = h \cup {c}
      BY <1>3, <2>2
    <3>2. \A d \in h : log'[d] = log[d]
      BY <1>1, <1>3
    <3> QED
      BY <1>1, <1>3, <2>2, <3>1, <3>2
  <2> QED
    BY <1>1, <1>3, <2>1, <2>2
<1> QED
  BY <1>1, <1>3, <1>4

(* An update of one container. *)
LEMMA RunFacts ==
  ASSUME TypeOK, NEW r \in DOMAIN runs, NEW x \in Run, runs' = [runs EXCEPT ![r] = x]
  PROVE  /\ runs' \in Seq(Run) /\ Len(runs') = Len(runs) /\ DOMAIN runs' = DOMAIN runs
         /\ \A q \in DOMAIN runs : runs'[q] = IF q = r THEN x ELSE runs[q]
  BY ExceptFacts DEF TypeOK

LEMMA LaunchFacts ==
  ASSUME TypeOK, NEW x \in Run, runs' = Append(runs, x)
  PROVE  /\ runs' \in Seq(Run) /\ Len(runs') = Len(runs) + 1
         /\ DOMAIN runs' = DOMAIN runs \cup {Len(runs) + 1}
         /\ Len(runs) + 1 \notin DOMAIN runs
         /\ \A q \in DOMAIN runs : runs'[q] = runs[q]
         /\ runs'[Len(runs) + 1] = x
<1>1. runs \in Seq(Run) /\ DOMAIN runs = 1..Len(runs) /\ Len(runs) \in Nat
  BY DEF TypeOK
<1> QED
  BY <1>1, AppendFacts

\* what every step does to the commits
Grows ==
  /\ log' \in Seq(Commit) /\ Len(log) <= Len(log')
  /\ main' \in DOMAIN log' /\ branch' \in DOMAIN log' \cup {0}
  /\ \A c \in DOMAIN log : c \in DOMAIN log' /\ log'[c] = log[c]
  /\ log[main].past \subseteq log'[main'].past
  /\ GitInv'

LEMMA SameRepo ==
  ASSUME Basics, UNCHANGED repo
  PROVE  Grows
<1>1. log \in Seq(Commit) /\ main \in DOMAIN log /\ branch \in DOMAIN log \cup {0}
  BY DEF Basics, TypeOK
<1> QED
  BY <1>1 DEF Grows, GitInv, Basics, repo

(* What a container has checked out stays where it is. *)
LEMMA RunKept ==
  ASSUME Basics, Grows, Life <= Life', Life' \in Nat, NEW x \in Run, RunOK(x)
  PROVE  /\ x.head <= Len(log') /\ x.life <= Life'
         /\ x.pc \in {"working", "pushed"} => x.head \in DOMAIN log'
         /\ x.kind = "fix" /\ x.pc = "working" /\ ~x.outside => x.head \in log'[main'].past
<1>1. Len(log) \in Nat /\ Len(log') \in Nat /\ Life \in Nat /\ x.head \in Nat /\ x.life \in Nat
  BY SMTT(30) DEF Basics, TypeOK, Grows, Run, Life
<1> QED
  BY <1>1 DEF Grows, RunOK

LEMMA RunsKept ==
  ASSUME Basics, Grows, Life' = Life, UNCHANGED runs
  PROVE  RunsInv'
<1>1. Life' \in Nat /\ Life <= Life'
  BY DEF Basics, TypeOK, Life
<1>2. \A r \in DOMAIN runs : runs[r] \in Run
  BY DEF Basics, TypeOK
<1> SUFFICES ASSUME NEW r \in DOMAIN runs PROVE RunOK(runs[r])'
  BY DEF RunsInv
<1>3. RunOK(runs[r])
  BY DEF Basics, RunsInv
<1> QED
  BY <1>1, <1>2, <1>3, RunKept DEF RunOK

LEMMA RunsUpdated ==
  ASSUME Basics, Grows, Life' = Life, NEW r \in DOMAIN runs, NEW x \in Run,
         runs' = [runs EXCEPT ![r] = x],
         /\ x.head <= Len(log') /\ x.life <= Life'
         /\ x.pc \in {"working", "pushed"} => x.head \in DOMAIN log'
         /\ x.kind = "fix" /\ x.pc = "working" /\ ~x.outside => x.head \in log'[main'].past,
         x.pc # "starting"
  PROVE  RunsInv'
<1>1. Life' \in Nat /\ Life <= Life'
  BY DEF Basics, TypeOK, Life
<1>2. \A q \in DOMAIN runs : runs[q] \in Run
  BY DEF Basics, TypeOK
<1>3. DOMAIN runs' = DOMAIN runs /\ \A q \in DOMAIN runs : runs'[q] = IF q = r THEN x ELSE runs[q]
  BY RunFacts DEF Basics
<1> SUFFICES ASSUME NEW q \in DOMAIN runs PROVE RunOK(runs[q])'
  BY <1>3 DEF RunsInv
<1>4. CASE q = r
  BY <1>3, <1>4 DEF RunOK
<1>5. CASE q # r
  <2>1. RunOK(runs[q]) /\ runs'[q] = runs[q]
    BY <1>3, <1>5 DEF Basics, RunsInv
  <2> QED
    BY <1>1, <1>2, <2>1, RunKept DEF RunOK
<1> QED
  BY <1>4, <1>5

LEMMA RunsLaunched ==
  ASSUME Basics, Grows, Life' \in Nat, Life <= Life', NEW x \in Run,
         x.pc = "starting", ~x.outside, x.head = 0, x.life <= Life', runs' = Append(runs, x)
  PROVE  RunsInv'
<1>2. \A q \in DOMAIN runs : runs[q] \in Run
  BY DEF Basics, TypeOK
<1>3. /\ DOMAIN runs' = DOMAIN runs \cup {Len(runs) + 1}
      /\ \A q \in DOMAIN runs : runs'[q] = runs[q]
      /\ runs'[Len(runs) + 1] = x
  BY LaunchFacts DEF Basics
<1>4. \A q \in DOMAIN runs : RunOK(runs[q])'
  <2> TAKE q \in DOMAIN runs
  <2>1. RunOK(runs[q]) /\ runs'[q] = runs[q]
    BY <1>3 DEF Basics, RunsInv
  <2> QED
    BY <1>2, <2>1, RunKept DEF RunOK
<1>5. ASSUME NEW q, q = Len(runs) + 1 PROVE RunOK(runs[q])'
  <2>1. runs'[q] = x /\ 0 <= Len(log')
    BY <1>3, <1>5 DEF Grows
  <2> QED
    BY <2>1 DEF RunOK
<1>6. SUFFICES ASSUME NEW q \in DOMAIN runs' PROVE RunOK(runs[q])'
  BY DEF RunsInv
<1> QED
  BY <1>3, <1>4, <1>5

LEMMA BasicFacts ==
  ASSUME Basics
  PROVE  /\ log \in Seq(Commit) /\ Len(log) \in Nat /\ DOMAIN log = 1..Len(log)
         /\ main \in DOMAIN log /\ branch \in DOMAIN log \cup {0} /\ 0 \notin DOMAIN log
         /\ \A c \in DOMAIN log : /\ log[c].past \in SUBSET (DOMAIN log)
                                  /\ c \in log[c].past
                                  /\ \A d \in log[c].past : log[d].past \subseteq log[c].past
         /\ prs \in Seq(PullRequest) /\ Len(prs) \in Nat /\ DOMAIN prs = 1..Len(prs)
         /\ runs \in Seq(Run) /\ Len(runs) \in Nat /\ DOMAIN runs = 1..Len(runs)
         /\ \A r \in DOMAIN runs : runs[r] \in Run
         /\ row \in Row /\ exec \in Execution /\ exec.run <= Len(runs)
         /\ row.pr <= Len(prs) /\ row.sha <= Len(log)
         /\ tracked \subseteq DOMAIN prs /\ pending \in Seq(Event)
         /\ resolved \subseteq Nat /\ shown \subseteq Nat
         /\ spent \in [lives : 0..MaxLives, events : 0..MaxEvents, human : 0..MaxHuman]
         /\ Life \in Nat /\ spent.lives \in Nat /\ spent.lives = Life
<1>1. TypeOK /\ GitInv
  BY DEF Basics
<1>2. /\ log \in Seq(Commit) /\ prs \in Seq(PullRequest) /\ runs \in Seq(Run)
      /\ main \in 1..Len(log) /\ branch \in 0..Len(log)
      /\ tracked \subseteq 1..Len(prs)
      /\ row \in Row /\ exec \in Execution /\ exec.run <= Len(runs)
      /\ row.pr <= Len(prs) /\ row.sha <= Len(log) /\ pending \in Seq(Event)
      /\ resolved \subseteq Nat /\ shown \subseteq Nat
      /\ spent \in [lives : 0..MaxLives, events : 0..MaxEvents, human : 0..MaxHuman]
  BY <1>1 DEF TypeOK
<1>3. /\ Len(log) \in Nat /\ DOMAIN log = 1..Len(log)
      /\ Len(prs) \in Nat /\ DOMAIN prs = 1..Len(prs)
      /\ Len(runs) \in Nat /\ DOMAIN runs = 1..Len(runs)
      /\ \A r \in DOMAIN runs : runs[r] \in Run
  BY <1>2
<1>4. main \in DOMAIN log /\ branch \in DOMAIN log \cup {0} /\ 0 \notin DOMAIN log
  BY <1>2, <1>3
<1>5. Life \in Nat /\ spent.lives \in Nat /\ spent.lives = Life
  BY <1>2 DEF Life
<1> QED
  BY <1>1, <1>2, <1>3, <1>4, <1>5 DEF GitInv

(* What the type invariant asks of a step that lets the commits grow. *)
LEMMA TypesKept ==
  ASSUME Basics, Grows,
         prs' \in Seq(PullRequest), tracked' \subseteq 1..Len(prs'),
         row' \in Row, row'.pr <= Len(prs'), row'.sha <= Len(log'),
         pending' \in Seq(Event), exec' \in Execution, runs' \in Seq(Run),
         exec'.run <= Len(runs'), resolved' \subseteq Nat, shown' \subseteq Nat,
         spent' \in [lives : 0..MaxLives, events : 0..MaxEvents, human : 0..MaxHuman]
  PROVE  TypeOK'
<1>1. log' \in Seq(Commit) /\ main' \in DOMAIN log' /\ branch' \in DOMAIN log' \cup {0}
  BY DEF Grows
<1>2. main' \in 1..Len(log') /\ branch' \in 0..Len(log')
  BY <1>1
<1> QED
  BY <1>1, <1>2 DEF TypeOK

(* The first container of a life, at the claim or at a press of Approve. *)
LEMMA StartFixFacts ==
  ASSUME Basics, Grows, NEW brief \in BriefMd, NEW clean \in BOOLEAN, NEW life \in Nat,
         life = Life', Life <= life, StartFix(brief, life, clean)
  PROVE  /\ exec' \in Execution /\ exec'.run = Len(runs) + 1 /\ exec'.at = "Fix"
         /\ exec'.run <= Len(runs') /\ runs' \in Seq(Run)
         /\ RunsInv' /\ WaitInv'
<1> USE BasicFacts
<1> DEFINE x == Launched("fix", {}, brief, life)
<1>1. x \in Run
  BY LaunchedType
<1>2. runs' = Append(runs, x)
  BY DEF StartFix
<1>3. x.pc = "starting" /\ ~x.outside /\ x.head = 0 /\ x.life = life
  BY DEF Launched
<1>4. exec' \in Execution /\ exec'.run = Len(runs) + 1 /\ exec'.at = "Fix"
  BY DEF StartFix, Execution, AslState
<1> HIDE DEF x
<1>5. /\ runs' \in Seq(Run) /\ Len(runs') = Len(runs) + 1
      /\ Len(runs) + 1 \in DOMAIN runs' /\ runs'[Len(runs) + 1] = x
  BY <1>1, <1>2, LaunchFacts DEF Basics
<1>6. RunsInv'
  BY <1>1, <1>2, <1>3, RunsLaunched
<1>7. WaitInv'
  BY <1>3, <1>4, <1>5 DEF WaitInv
<1>8. exec'.run <= Len(runs')
  BY <1>4, <1>5
<1> QED
  BY <1>4, <1>5, <1>6, <1>7, <1>8

LEMMA ClaimFacts ==
  ASSUME Basics, Claim
  PROVE  /\ Grows /\ Life' = Life + 1 /\ Life' \in Nat /\ Life <= Life'
         /\ row.status \in Terminal \cup {"absent"}
         /\ spent' \in [lives : 0..MaxLives, events : 0..MaxEvents, human : 0..MaxHuman]
         /\ pending' = <<>> /\ prs' = prs /\ tracked' = tracked
         /\ resolved' = resolved /\ shown' = shown /\ log' = log /\ repo' = repo
         /\ row' \in Row /\ row'.pr = 0 /\ row'.sha = 0 /\ row'.attempts = 0
         /\ row'.brief.prev \in {0, row.pr}
         /\ \/ /\ row'.status \in {"rca_only", "awaiting_approval"}
               /\ exec' = Over(Opened = {}) /\ runs' = runs
            \/ /\ row'.status = "fixing"
               /\ \E brief \in BriefMd : /\ brief.prev = row.pr
                                        /\ StartFix(brief, Life + 1, Opened = {})
<1> USE BasicFacts
<1>1. Grows /\ repo' = repo /\ log' = log
  BY SameRepo DEF Claim, repo
<1>2. /\ spent' \in [lives : 0..MaxLives, events : 0..MaxEvents, human : 0..MaxHuman]
      /\ Life' = Life + 1
  <2>1. spent.lives \in 0..MaxLives /\ spent.lives < MaxLives
        /\ spent' = [spent EXCEPT !.lives = @ + 1]
    BY DEF Claim
  <2>2. spent.lives + 1 \in 0..MaxLives
    BY SMTT(30), <2>1
  <2> QED
    BY <2>1, <2>2 DEF Life
<1>3. Life' \in Nat /\ Life <= Life'
  BY <1>2
<1> DEFINE b == [prev |-> PreviousPr, findings |-> {}]
<1>4. b \in BriefMd /\ b.prev = row.pr
  BY DEF PreviousPr, BriefMd, Row
<1>5. /\ row.status \in Terminal \cup {"absent"} /\ pending' = <<>>
      /\ prs' = prs /\ tracked' = tracked /\ resolved' = resolved /\ shown' = shown
  BY DEF Claim, ClaimedQueue, history
<1>6. \/ /\ row' = [ClaimedRow EXCEPT !.status = "rca_only"]
         /\ exec' = Over(Opened = {}) /\ runs' = runs
      \/ /\ row' = [ClaimedRow EXCEPT !.status = "awaiting_approval", !.brief = b]
         /\ exec' = Over(Opened = {}) /\ runs' = runs
      \/ /\ row' = [ClaimedRow EXCEPT !.status = "fixing", !.brief = b]
         /\ StartFix(b, Life + 1, Opened = {})
  BY DEF Claim, Life
<1> HIDE DEF b
<1>7. /\ row' \in Row /\ row'.pr = 0 /\ row'.sha = 0 /\ row'.attempts = 0
      /\ row'.brief.prev \in {0, row.pr}
  <2>1. PICK status \in {"rca_only", "awaiting_approval", "fixing"}, brief \in {b, NoBrief} :
          row' = [status |-> status, attempts |-> 0, pr |-> 0, sha |-> 0, brief |-> brief]
    BY <1>6 DEF ClaimedRow
  <2>2. brief \in BriefMd /\ brief.prev \in {0, row.pr}
    BY <1>4, <2>1 DEF NoBrief, BriefMd
  <2>3. 0 \in 0..MaxAttempts /\ status \in Status
    BY <2>1, BoundsAssumption DEF Status
  <2> QED
    BY <2>1, <2>2, <2>3 DEF Row
<1>8. CASE /\ exec' = Over(Opened = {}) /\ runs' = runs
           /\ \/ row' = [ClaimedRow EXCEPT !.status = "rca_only"]
              \/ row' = [ClaimedRow EXCEPT !.status = "awaiting_approval", !.brief = b]
  <2>1. row'.status \in {"rca_only", "awaiting_approval"}
    BY <1>8 DEF ClaimedRow
  <2> QED
    BY <1>1, <1>2, <1>3, <1>5, <1>7, <1>8, <2>1
<1>9. CASE /\ row' = [ClaimedRow EXCEPT !.status = "fixing", !.brief = b]
           /\ StartFix(b, Life + 1, Opened = {})
  <2>1. row'.status = "fixing"
    BY <1>9 DEF ClaimedRow
  <2> QED
    BY <1>1, <1>2, <1>3, <1>4, <1>5, <1>7, <1>9, <2>1
<1> QED
  BY <1>6, <1>8, <1>9

LEMMA ClaimBasics ==
  ASSUME Basics, Claim
  PROVE  Basics'
<1> USE BasicFacts, ClaimFacts
<1>1. /\ exec' \in Execution /\ exec'.run <= Len(runs') /\ runs' \in Seq(Run)
      /\ RunsInv' /\ WaitInv'
  <2>1. CASE exec' = Over(Opened = {}) /\ runs' = runs
    <3>1. exec' \in Execution /\ exec'.run = 0 /\ exec'.at = "Done"
      BY <2>1, OverType DEF Over
    <3>2. \A r \in DOMAIN runs : RunOK(runs[r])'
      <4> TAKE r \in DOMAIN runs
      <4>1. RunOK(runs[r]) /\ runs' = runs
        BY <2>1 DEF Basics, RunsInv
      <4> QED
        BY <4>1, RunKept DEF RunOK
    <3>3. RunsInv' /\ WaitInv'
      BY <2>1, <3>1, <3>2 DEF RunsInv, WaitInv
    <3> QED
      BY <2>1, <3>1, <3>3
  <2>2. ASSUME NEW brief \in BriefMd, StartFix(brief, Life + 1, Opened = {})
        PROVE  /\ exec' \in Execution /\ exec'.run <= Len(runs') /\ runs' \in Seq(Run)
               /\ RunsInv' /\ WaitInv'
    <3>1. (Opened = {}) \in BOOLEAN /\ Life + 1 \in Nat /\ Life + 1 = Life' /\ Life <= Life + 1
          /\ Grows
      OBVIOUS
    <3> QED
      BY <2>2, <3>1, StartFixFacts
  <2> QED
    BY <2>1, <2>2
<1>2. /\ prs' \in Seq(PullRequest) /\ tracked' \subseteq 1..Len(prs')
      /\ row' \in Row /\ row'.pr <= Len(prs') /\ row'.sha <= Len(log')
      /\ pending' \in Seq(Event) /\ resolved' \subseteq Nat /\ shown' \subseteq Nat
      /\ spent' \in [lives : 0..MaxLives, events : 0..MaxEvents, human : 0..MaxHuman]
      /\ Grows
  <2>1. /\ Grows /\ prs' \in Seq(PullRequest) /\ tracked' \subseteq 1..Len(prs')
        /\ resolved' \subseteq Nat /\ shown' \subseteq Nat
    OBVIOUS
  <2>2. row' \in Row /\ row'.pr = 0 /\ row'.sha = 0 /\ log' = log
    OBVIOUS
  <2>3. Len(prs') \in Nat /\ Len(log') \in Nat
    BY <2>1, <2>2
  <2>4. row'.pr <= Len(prs') /\ row'.sha <= Len(log')
    BY <2>2, <2>3
  <2>5. pending' \in Seq(Event)
    BY ClaimFacts
  <2> QED
    BY <2>1, <2>2, <2>4, <2>5
<1>3. TypeOK'
  BY <1>1, <1>2, TypesKept
<1> QED
  BY <1>1, <1>2, <1>3 DEF Basics, Grows

LEMMA PressedFacts ==
  ASSUME Basics, Approve \/ Dismiss
  PROVE  /\ Grows /\ Life' = Life /\ row.status = "awaiting_approval"
         /\ pending' = pending /\ prs' = prs /\ tracked' = tracked
         /\ resolved' = resolved /\ shown' = shown /\ log' = log /\ spent' = spent
         /\ repo' = repo
         /\ row' \in Row /\ row'.pr = row.pr /\ row'.sha = row.sha
         /\ row'.attempts = row.attempts /\ row'.brief = row.brief
         /\ \/ row'.status = "fixing" /\ StartFix(row.brief, Life, exec.clean) /\ Approve
            \/ row'.status = "closed" /\ exec' = exec /\ runs' = runs /\ Dismiss
<1>1. /\ UNCHANGED repo /\ row.status = "awaiting_approval"
      /\ pending' = pending /\ prs' = prs /\ tracked' = tracked
      /\ resolved' = resolved /\ shown' = shown /\ spent' = spent
  BY DEF Approve, Dismiss, Pressed, history
<1>2. Grows /\ log' = log /\ Life' = Life
  BY <1>1, SameRepo DEF repo, Life
<1>3. \/ row' = [row EXCEPT !.status = "fixing"] /\ StartFix(row.brief, Life, exec.clean)
         /\ Approve
      \/ row' = [row EXCEPT !.status = "closed"] /\ exec' = exec /\ runs' = runs /\ Dismiss
  BY DEF Approve, Dismiss, Life
<1>4. row \in Row
  BY BasicFacts
<1>5. /\ row' \in Row /\ row'.pr = row.pr /\ row'.sha = row.sha
      /\ row'.attempts = row.attempts /\ row'.brief = row.brief
  BY <1>3, <1>4 DEF Row, Status
<1>6. \/ row'.status = "fixing" /\ StartFix(row.brief, Life, exec.clean) /\ Approve
      \/ row'.status = "closed" /\ exec' = exec /\ runs' = runs /\ Dismiss
  BY <1>3, <1>4 DEF Row
<1> QED
  BY <1>1, <1>2, <1>5, <1>6

LEMMA PressedBasics ==
  ASSUME Basics, Approve \/ Dismiss
  PROVE  Basics'
<1> USE BasicFacts, PressedFacts
<1>1. /\ exec' \in Execution /\ exec'.run <= Len(runs') /\ runs' \in Seq(Run)
      /\ RunsInv' /\ WaitInv'
  <2>1. CASE exec' = exec /\ runs' = runs
    BY <2>1, RunsKept DEF Basics, WaitInv
  <2>2. CASE StartFix(row.brief, Life, exec.clean)
    <3>1. row.brief \in BriefMd /\ exec.clean \in BOOLEAN /\ Life \in Nat /\ Life = Life'
          /\ Life <= Life /\ Grows
      BY DEF Row, Execution
    <3> QED
      BY <2>2, <3>1, StartFixFacts
  <2> QED
    BY <2>1, <2>2
<1>2. /\ prs' \in Seq(PullRequest) /\ tracked' \subseteq 1..Len(prs')
      /\ row' \in Row /\ row'.pr <= Len(prs') /\ row'.sha <= Len(log')
      /\ pending' \in Seq(Event) /\ resolved' \subseteq Nat /\ shown' \subseteq Nat
      /\ spent' \in [lives : 0..MaxLives, events : 0..MaxEvents, human : 0..MaxHuman]
      /\ Grows
  OBVIOUS
<1>3. TypeOK'
  BY <1>1, <1>2, TypesKept
<1> QED
  BY <1>1, <1>2, <1>3 DEF Basics, Grows

LEMMA CheckoutBasics ==
  ASSUME Basics, NEW r \in DOMAIN runs, Checkout(r)
  PROVE  Basics'
<1>1. Grows /\ Life' = Life
  BY SameRepo DEF Checkout, Life
<1>2. PICK base \in Bases(r) :
        runs' = [runs EXCEPT ![r] =
                   CheckedOut(runs[r], base, runs[r].kind = "fix" /\ base \notin Past(main))]
  BY DEF Checkout, CheckedOut
<1> DEFINE outside == runs[r].kind = "fix" /\ base \notin Past(main)
<1>3. /\ base \in DOMAIN log /\ outside \in BOOLEAN
      /\ runs[r].kind = "fix" /\ ~outside => base \in log[main].past
  BY BasicFacts DEF Bases, Run, Past
<1>13. runs[r] \in Run /\ base \in Nat
  BY <1>3, BasicFacts
<1> DEFINE x == CheckedOut(runs[r], base, outside)
<1>5. runs' = [runs EXCEPT ![r] = x]
  BY <1>2
<1> HIDE DEF outside
<1>4. /\ x \in Run /\ x.pc = "working" /\ x.head = base /\ x.outside = outside
      /\ x.kind = runs[r].kind /\ x.life = runs[r].life
  BY <1>3, <1>13, CheckedOutFacts
<1>6. runs[r].life <= Life'
  BY <1>1 DEF Basics, RunsInv, RunOK
<1> HIDE DEF x
<1>7. /\ x.head <= Len(log') /\ x.life <= Life'
      /\ x.head \in DOMAIN log'
      /\ x.kind = "fix" /\ ~x.outside => x.head \in log'[main'].past
  <2>1. base <= Len(log) /\ Len(log) <= Len(log') /\ Len(log') \in Nat
    BY <1>1, <1>3, BasicFacts DEF Grows
  <2>2. base <= Len(log')
    BY <1>13, <2>1, BasicFacts
  <2> QED
    BY <1>1, <1>3, <1>4, <1>6, <2>2 DEF Grows
<1>8. RunsInv'
  BY <1>1, <1>4, <1>5, <1>7, RunsUpdated
<1>9. /\ runs' \in Seq(Run) /\ Len(runs') = Len(runs) /\ DOMAIN runs' = DOMAIN runs
      /\ \A q \in DOMAIN runs : runs'[q] = IF q = r THEN x ELSE runs[q]
  BY <1>4, <1>5, RunFacts DEF Basics
<1>10. WaitInv'
  <2>1. runs[r].pc = "starting" /\ UNCHANGED exec
    BY DEF Checkout
  <2> QED
    BY <1>1, <1>4, <1>9, <2>1 DEF WaitInv, Basics
<1>11. shown' \subseteq Nat
  BY BasicFacts DEF Checkout, Run, BriefMd
<1>12. UNCHANGED <<prs, tracked, row, pending, exec, resolved, spent, log>>
  BY DEF Checkout, repo, store
<1> QED
  BY <1>1, <1>8, <1>9, <1>10, <1>11, <1>12, TypesKept, BasicFacts DEF Basics, Grows

\* the execution moves to another state of the machine
LEMMA AtFacts ==
  ASSUME NEW e \in Execution, NEW at \in AslState
  PROVE  /\ [e EXCEPT !.at = at] \in Execution
         /\ [e EXCEPT !.at = at].at = at
         /\ [e EXCEPT !.at = at].run = e.run
         /\ [e EXCEPT !.at = at].outcome = e.outcome
         /\ [e EXCEPT !.at = at].attempt = e.attempt
         /\ [e EXCEPT !.at = at].ev = e.ev
         /\ [e EXCEPT !.at = at].brief = e.brief
         /\ [e EXCEPT !.at = at].clean = e.clean
  BY DEF Execution

(* A step of the execution alone, or of the row with it. *)
LEMMA QuietBasics ==
  ASSUME Basics, UNCHANGED repo, UNCHANGED <<runs, spent, shown, pending>>,
         prs' \in Seq(PullRequest), Len(prs) <= Len(prs'), tracked' \subseteq 1..Len(prs'),
         row' \in Row, row'.pr <= Len(prs'), row'.sha <= Len(log),
         exec' \in Execution, exec'.run <= Len(runs), resolved' \subseteq Nat,
         WaitInv'
  PROVE  Basics'
<1>1. Grows
  BY SameRepo
<1>2. runs' = runs /\ spent' = spent /\ shown' = shown /\ pending' = pending /\ log' = log
  BY DEF repo
<1>3. RunsInv'
  BY <1>1, <1>2, RunsKept DEF Life
<1>4. /\ exec'.run <= Len(runs') /\ row'.sha <= Len(log') /\ runs' \in Seq(Run)
      /\ pending' \in Seq(Event) /\ shown' \subseteq Nat
      /\ spent' \in [lives : 0..MaxLives, events : 0..MaxEvents, human : 0..MaxHuman]
  BY <1>2, BasicFacts
<1>5. TypeOK'
  BY <1>1, <1>4, TypesKept
<1> QED
  BY <1>1, <1>3, <1>5 DEF Basics, Grows

\* the same with the row, the pull requests and the event queue as they are
LEMMA ExecBasics ==
  ASSUME Basics, UNCHANGED <<repo, runs, spent, shown, pending, prs, tracked, row, resolved>>,
         exec' \in Execution, exec'.run <= Len(runs), WaitInv'
  PROVE  Basics'
<1>1. /\ UNCHANGED repo /\ UNCHANGED <<runs, spent, shown, pending>>
      /\ prs' = prs /\ tracked' = tracked /\ row' = row /\ resolved' = resolved
  OBVIOUS
<1>2. /\ prs' \in Seq(PullRequest) /\ Len(prs) <= Len(prs') /\ tracked' \subseteq 1..Len(prs')
      /\ row' \in Row /\ row'.pr <= Len(prs') /\ row'.sha <= Len(log) /\ resolved' \subseteq Nat
  BY <1>1, BasicFacts
<1> QED
  BY <1>1, <1>2, QuietBasics

LEMMA CallsBackFacts ==
  ASSUME Basics, NEW r \in DOMAIN runs, NEW outcome \in Outcome, CallsBack(r, outcome)
  PROVE  /\ exec' \in Execution /\ exec'.at = "AfterRun" /\ exec'.outcome = outcome
         /\ exec'.run = r /\ exec'.run = exec.run /\ exec'.attempt = exec.attempt
         /\ exec'.ev = exec.ev /\ exec'.brief = exec.brief /\ exec'.clean = exec.clean
         /\ exec.at \in {"Fix", "Groom"} /\ runs[r].life = Life
<1>1. exec \in Execution
  BY BasicFacts
<1>2. exec' = [at |-> "AfterRun", run |-> exec.run, outcome |-> outcome,
               attempt |-> exec.attempt, ev |-> exec.ev, brief |-> exec.brief,
               clean |-> exec.clean]
  BY <1>1 DEF CallsBack, Execution
<1>3. exec.at \in {"Fix", "Groom"} /\ exec.run = r
  BY DEF CallsBack, Awaited
<1>4. runs[r].life = Life
  BY <1>3 DEF Basics, WaitInv
<1> QED
  BY <1>1, <1>2, <1>3, <1>4 DEF Execution, AslState

LEMMA ReportPushBasics ==
  ASSUME Basics, NEW r \in DOMAIN runs, ReportPush(r)
  PROVE  Basics'
<1>1. "pushed" \in Outcome /\ CallsBack(r, "pushed")
  BY DEF ReportPush, Outcome
<1>2. UNCHANGED <<repo, runs, spent, shown, pending, prs, tracked, row, resolved>>
  BY DEF ReportPush, store, history
<1>3. /\ exec' \in Execution /\ exec'.at = "AfterRun" /\ exec'.run = r
      /\ runs[r].life = Life
  BY <1>1, CallsBackFacts
<1>4. runs' = runs /\ spent' = spent /\ runs[r].pc = "pushed"
  BY <1>2 DEF ReportPush
<1>5. WaitInv'
  BY <1>3, <1>4 DEF WaitInv, Life
<1>6. exec'.run <= Len(runs)
  BY <1>3, BasicFacts
<1> QED
  BY <1>2, <1>3, <1>5, <1>6, ExecBasics

\* a container that gives up, or ends with nothing to push
Gone(x) == [x EXCEPT !.pc = "over", !.head = 0]

LEMMA GoneFacts ==
  ASSUME NEW x \in Run
  PROVE  /\ Gone(x) \in Run /\ Gone(x).pc = "over" /\ Gone(x).head = 0
         /\ Gone(x).kind = x.kind /\ Gone(x).life = x.life
         /\ Gone(x).ids = x.ids /\ Gone(x).brief = x.brief
         /\ Gone(x).outside = x.outside
  BY DEF Gone, Run

\* a step that ends container r and touches nothing else but the execution
LEMMA GoneBasics ==
  ASSUME Basics, NEW r \in DOMAIN runs, runs[r].pc # "pushed",
         UNCHANGED <<repo, spent, shown, pending, prs, tracked, row, resolved>>,
         runs' = [runs EXCEPT ![r] = Gone(runs[r])],
         exec' \in Execution, exec'.run = exec.run,
         \/ exec' = exec
         \/ exec.at \in {"Fix", "Groom"} /\ exec'.at = "FinalizeNeedsHuman"
         \/ exec.at \in {"Fix", "Groom"} /\ exec'.at = "AfterRun" /\ exec'.outcome # "pushed"
  PROVE  Basics'
<1>1. /\ Grows
      /\ spent' = spent /\ shown' = shown /\ pending' = pending /\ prs' = prs
      /\ tracked' = tracked /\ row' = row /\ resolved' = resolved /\ log' = log /\ main' = main
      /\ Life' = Life
  BY SameRepo DEF repo, Life
<1>2. runs[r] \in Run
  BY BasicFacts
<1> DEFINE x == Gone(runs[r])
<1>3. x \in Run /\ x.pc = "over" /\ x.head = 0 /\ x.life = runs[r].life
  BY <1>2, GoneFacts
<1>4. runs' = [runs EXCEPT ![r] = x]
  OBVIOUS
<1> HIDE DEF x
<1>5. /\ runs' \in Seq(Run) /\ Len(runs') = Len(runs) /\ DOMAIN runs' = DOMAIN runs
      /\ \A q \in DOMAIN runs : runs'[q] = IF q = r THEN x ELSE runs[q]
  BY <1>3, <1>4, RunFacts DEF Basics
<1>6. RunOK(runs[r])
  BY DEF Basics, RunsInv
<1>7. RunsInv'
  <2>1. /\ x.head <= Len(log') /\ x.life <= Life'
        /\ x.pc \in {"working", "pushed"} => x.head \in DOMAIN log'
        /\ x.kind = "fix" /\ x.pc = "working" /\ ~x.outside => x.head \in log'[main'].past
    BY <1>1, <1>3, <1>6 DEF RunOK, Grows
  <2> QED
    BY <1>1, <1>3, <1>4, <2>1, RunsUpdated
<1>8. WaitInv'
  <2>1. WaitInv
    BY DEF Basics
  <2>2. CASE exec' = exec
    BY <1>1, <1>3, <1>5, <2>1, <2>2 DEF WaitInv
  <2>3. CASE exec.at \in {"Fix", "Groom"} /\ exec'.at = "FinalizeNeedsHuman"
    BY <1>1, <1>3, <1>5, <2>1, <2>3 DEF WaitInv
  <2>4. CASE exec.at \in {"Fix", "Groom"} /\ exec'.at = "AfterRun" /\ exec'.outcome # "pushed"
    BY <1>1, <1>3, <1>5, <2>1, <2>4 DEF WaitInv
  <2> QED
    BY <2>2, <2>3, <2>4
<1>9. /\ prs' \in Seq(PullRequest) /\ tracked' \subseteq 1..Len(prs')
      /\ row' \in Row /\ row'.pr <= Len(prs') /\ row'.sha <= Len(log')
      /\ pending' \in Seq(Event) /\ exec'.run <= Len(runs')
      /\ resolved' \subseteq Nat /\ shown' \subseteq Nat
      /\ spent' \in [lives : 0..MaxLives, events : 0..MaxEvents, human : 0..MaxHuman]
  BY <1>1, <1>5, BasicFacts
<1>10. TypeOK'
  BY <1>1, <1>5, <1>9, TypesKept
<1> QED
  BY <1>1, <1>7, <1>8, <1>10 DEF Basics, Grows

LEMMA GivesUpFacts ==
  ASSUME Basics, NEW r \in DOMAIN runs, GivesUp(r)
  PROVE  /\ exec' \in Execution /\ exec'.run = exec.run
         /\ \/ exec' = exec
            \/ exec.at \in {"Fix", "Groom"} /\ exec'.at = "FinalizeNeedsHuman"
         /\ exec'.attempt = exec.attempt /\ exec'.ev = exec.ev
         /\ exec'.brief = exec.brief /\ exec'.clean = exec.clean
         /\ \/ runs' = runs
            \/ runs[r].pc # "pushed" /\ runs' = [runs EXCEPT ![r] = Gone(runs[r])]
<1>1. exec \in Execution
  BY BasicFacts
<1>2. "FinalizeNeedsHuman" \in AslState
  BY DEF AslState
<1>3. CASE Awaited(r)
  <2>1. exec' = [exec EXCEPT !.at = "FinalizeNeedsHuman"] /\ exec.at \in {"Fix", "Groom"}
    BY <1>3 DEF GivesUp, Awaited
  <2>2. /\ exec' \in Execution /\ exec'.run = exec.run /\ exec'.at = "FinalizeNeedsHuman"
        /\ exec'.attempt = exec.attempt /\ exec'.ev = exec.ev
        /\ exec'.brief = exec.brief /\ exec'.clean = exec.clean
    BY <1>1, <1>2, <2>1, AtFacts
  <2> QED
    BY <2>1, <2>2 DEF GivesUp, Gone
<1>4. CASE ~Awaited(r)
  BY <1>1, <1>4 DEF GivesUp, Gone
<1> QED
  BY <1>3, <1>4

LEMMA GivesUpBasics ==
  ASSUME Basics, NEW r \in DOMAIN runs, GivesUp(r),
         UNCHANGED <<repo, spent, shown, pending, prs, tracked, row, resolved>>
  PROVE  Basics'
<1>1. CASE runs' = runs
  <2>1. UNCHANGED <<repo, runs, spent, shown, pending, prs, tracked, row, resolved>>
    BY <1>1
  <2>2. exec' \in Execution /\ exec'.run <= Len(runs)
    BY GivesUpFacts, BasicFacts
  <2>3. exec' = exec \/ exec'.at = "FinalizeNeedsHuman"
    BY GivesUpFacts
  <2>4. WaitInv'
    <3>1. WaitInv /\ spent' = spent
      BY DEF Basics
    <3> QED
      BY <1>1, <2>3, <3>1 DEF WaitInv, Life
  <2> QED
    BY <2>1, <2>2, <2>4, ExecBasics
<1>2. CASE runs[r].pc # "pushed" /\ runs' = [runs EXCEPT ![r] = Gone(runs[r])]
  BY <1>2, GivesUpFacts, GoneBasics
<1> QED
  BY <1>1, <1>2, GivesUpFacts

\* the two ways a push can end
Pushed(r) ==
  /\ runs[r].pc = "working" /\ PushAccepted(runs[r].head)
  /\ log' = Committed(log[runs[r].head].past)
  /\ branch' = NewCommit
  /\ runs' = [runs EXCEPT ![r] = Moved(runs[r], "pushed", NewCommit)]
  /\ UNCHANGED <<exec, main, prs, store, history, spent>>
Refused(r) ==
  /\ runs[r].pc = "working" /\ GivesUp(r)
  /\ UNCHANGED <<repo, prs, store, history, spent>>

LEMMA PushCases ==
  ASSUME NEW r, Push(r)
  PROVE  Pushed(r) \/ Refused(r)
  BY DEF Push, Pushed, Refused, Moved, repo

LEMMA PushedFacts ==
  ASSUME Basics, NEW r \in DOMAIN runs, Pushed(r)
  PROVE  /\ runs[r].head \in DOMAIN log
         /\ Grows /\ Len(log') = Len(log) + 1 /\ DOMAIN log' = 1..(Len(log) + 1)
         /\ log'[NewCommit].past = log[runs[r].head].past \cup {NewCommit}
         /\ runs' \in Seq(Run) /\ Len(runs') = Len(runs) /\ DOMAIN runs' = DOMAIN runs
         /\ \A q \in DOMAIN runs : q # r => runs'[q] = runs[q]
         /\ runs'[r] = Moved(runs[r], "pushed", NewCommit)
         /\ runs'[r].pc = "pushed" /\ runs'[r].head = NewCommit
         /\ runs'[r].kind = runs[r].kind /\ runs'[r].life = runs[r].life
         /\ runs'[r].outside = runs[r].outside
         /\ RunsInv'
<1>1. RunOK(runs[r]) /\ runs[r] \in Run
  BY BasicFacts DEF Basics, RunsInv
<1>2. runs[r].head \in DOMAIN log
  BY <1>1 DEF RunOK, Pushed
<1>3. log' = Committed(log[runs[r].head].past)
  BY DEF Pushed
<1>5. /\ log[runs[r].head].past \in SUBSET (DOMAIN log)
      /\ \A d \in log[runs[r].head].past : log[d].past \subseteq log[runs[r].head].past
  BY <1>2, BasicFacts
<1>6. /\ log' \in Seq(Commit) /\ Len(log') = Len(log) + 1
      /\ DOMAIN log' = 1..(Len(log) + 1) /\ DOMAIN log = 1..Len(log)
      /\ \A c \in DOMAIN log : log'[c] = log[c]
      /\ log'[Len(log) + 1].past = log[runs[r].head].past \cup {Len(log) + 1}
      /\ GitInv'
  BY <1>3, <1>5, CommitFacts DEF Basics
<1>7. main' = main /\ branch' = Len(log) + 1 /\ main \in DOMAIN log /\ Len(log) \in Nat
  BY BasicFacts DEF Pushed, NewCommit
<1>8. Grows
  BY <1>6, <1>7 DEF Grows
<1> DEFINE x == Moved(runs[r], "pushed", NewCommit)
<1>9. NewCommit \in Nat
  BY <1>7 DEF NewCommit
<1>10. /\ x \in Run /\ x.pc = "pushed" /\ x.head = NewCommit
       /\ x.kind = runs[r].kind /\ x.life = runs[r].life /\ x.outside = runs[r].outside
  BY <1>1, <1>9, MovedFacts
<1>11. runs' = [runs EXCEPT ![r] = x]
  BY DEF Pushed
<1>12. Life' = Life /\ runs[r].life <= Life
  BY <1>1 DEF Pushed, Life, RunOK
<1>13. /\ runs' \in Seq(Run) /\ Len(runs') = Len(runs) /\ DOMAIN runs' = DOMAIN runs
       /\ \A q \in DOMAIN runs : runs'[q] = IF q = r THEN x ELSE runs[q]
  <2> HIDE DEF x
  <2> QED
    BY <1>10, <1>11, RunFacts DEF Basics
<1>14. RunsInv'
  <2> HIDE DEF x
  <2>1. /\ x.head <= Len(log') /\ x.life <= Life' /\ x.head \in DOMAIN log'
        /\ x.pc = "pushed"
    BY <1>6, <1>7, <1>10, <1>12 DEF NewCommit
  <2> QED
    BY <1>8, <1>10, <1>11, <1>12, <2>1, RunsUpdated
<1>15. /\ \A q \in DOMAIN runs : q # r => runs'[q] = runs[q]
       /\ runs'[r] = x
  BY <1>13
<1> QED
  BY <1>2, <1>6, <1>8, <1>10, <1>13, <1>14, <1>15 DEF NewCommit

LEMMA PushBasics ==
  ASSUME Basics, NEW r \in DOMAIN runs, Push(r)
  PROVE  Basics'
<1>1. CASE Pushed(r)
  <2>1. /\ Grows /\ RunsInv' /\ Len(log') = Len(log) + 1
        /\ runs' \in Seq(Run) /\ Len(runs') = Len(runs) /\ DOMAIN runs' = DOMAIN runs
        /\ \A q \in DOMAIN runs : q # r => runs'[q] = runs[q]
        /\ runs'[r].pc = "pushed" /\ runs'[r].life = runs[r].life
    BY <1>1, PushedFacts
  <2>2. /\ exec' = exec /\ prs' = prs /\ tracked' = tracked /\ row' = row
        /\ pending' = pending /\ resolved' = resolved /\ shown' = shown /\ spent' = spent
    BY <1>1 DEF Pushed, store, history
  <2>3. WaitInv'
    <3>1. WaitInv
      BY DEF Basics
    <3> QED
      BY <2>1, <2>2, <3>1 DEF WaitInv, Life
  <2>4. row'.sha <= Len(log')
    <3>1. row.sha <= Len(log) /\ row.sha \in Nat /\ Len(log) \in Nat
      BY BasicFacts DEF Row
    <3> QED
      BY <2>1, <2>2, <3>1
  <2>5. /\ prs' \in Seq(PullRequest) /\ tracked' \subseteq 1..Len(prs')
        /\ row' \in Row /\ row'.pr <= Len(prs')
        /\ pending' \in Seq(Event) /\ exec' \in Execution /\ exec'.run <= Len(runs')
        /\ resolved' \subseteq Nat /\ shown' \subseteq Nat
        /\ spent' \in [lives : 0..MaxLives, events : 0..MaxEvents, human : 0..MaxHuman]
    BY <2>1, <2>2, BasicFacts
  <2>6. TypeOK'
    BY <2>1, <2>4, <2>5, TypesKept
  <2> QED
    BY <2>1, <2>3, <2>6 DEF Basics, Grows
<1>2. CASE Refused(r)
  <2>1. GivesUp(r) /\ UNCHANGED <<repo, spent, shown, pending, prs, tracked, row, resolved>>
    BY <1>2 DEF Refused, store, history
  <2> QED
    BY <2>1, GivesUpBasics
<1> QED
  BY <1>1, <1>2, PushCases

LEMMA ReportNothingFacts ==
  ASSUME Basics, NEW r \in DOMAIN runs, ReportNothing(r)
  PROVE  /\ runs' = [runs EXCEPT ![r] = Gone(runs[r])]
         /\ runs[r].pc = "working" /\ exec.at \in {"Fix", "Groom"}
         /\ exec' \in Execution /\ exec'.at = "AfterRun"
         /\ exec'.outcome \in {"declined", "failed"}
         /\ exec'.run = exec.run /\ exec'.attempt = exec.attempt
         /\ exec'.ev = exec.ev /\ exec'.brief = exec.brief /\ exec'.clean = exec.clean
         /\ UNCHANGED <<repo, spent, shown, pending, prs, tracked, row, resolved>>
<1>1. PICK tree \in WorkingTree, error \in BOOLEAN : CallsBack(r, Unpushed(EngineResult(tree, error)))
  BY DEF ReportNothing
<1>2. Unpushed(EngineResult(tree, error)) \in {"declined", "failed"}
  BY DEF Unpushed
<1>3. Unpushed(EngineResult(tree, error)) \in Outcome
  BY <1>2 DEF Outcome
<1>4. /\ exec' \in Execution /\ exec'.at = "AfterRun" /\ exec'.outcome = Unpushed(EngineResult(tree, error))
      /\ exec'.run = exec.run /\ exec'.attempt = exec.attempt
      /\ exec'.ev = exec.ev /\ exec'.brief = exec.brief /\ exec'.clean = exec.clean
      /\ exec.at \in {"Fix", "Groom"}
  BY <1>1, <1>3, CallsBackFacts
<1>5. /\ runs' = [runs EXCEPT ![r] = Gone(runs[r])] /\ runs[r].pc = "working"
      /\ UNCHANGED <<repo, spent, shown, pending, prs, tracked, row, resolved>>
  BY DEF ReportNothing, Gone, store, history
<1> QED
  BY <1>2, <1>4, <1>5

LEMMA ReportNothingBasics ==
  ASSUME Basics, NEW r \in DOMAIN runs, ReportNothing(r)
  PROVE  Basics'
<1>1. /\ runs' = [runs EXCEPT ![r] = Gone(runs[r])] /\ runs[r].pc # "pushed"
      /\ UNCHANGED <<repo, spent, shown, pending, prs, tracked, row, resolved>>
      /\ exec' \in Execution /\ exec'.run = exec.run
      /\ exec.at \in {"Fix", "Groom"} /\ exec'.at = "AfterRun" /\ exec'.outcome # "pushed"
  BY ReportNothingFacts
<1> QED
  BY <1>1, GoneBasics

LEMMA FailBasics ==
  ASSUME Basics, NEW r \in DOMAIN runs, Fail(r)
  PROVE  Basics'
<1>1. GivesUp(r) /\ UNCHANGED <<repo, spent, shown, pending, prs, tracked, row, resolved>>
  BY DEF Fail, store, history
<1> QED
  BY <1>1, GivesUpBasics

\* TaskTimeout and ParkTimeout, and a finalize that goes back to Park
LEMMA AtBasics ==
  ASSUME Basics, NEW at \in AslState \ {"Fix", "Groom", "AfterRun"},
         exec' = [exec EXCEPT !.at = at],
         row' \in Row, row'.pr <= Len(prs), row'.sha <= Len(log),
         UNCHANGED <<repo, prs, tracked, pending, runs, history, spent>>
  PROVE  Basics'
<1>1. exec \in Execution
  BY BasicFacts
<1>2. exec' \in Execution /\ exec'.run = exec.run /\ exec'.at = at
  BY <1>1, AtFacts
<1>3. WaitInv'
  BY <1>2 DEF WaitInv
<1>4. /\ UNCHANGED repo /\ UNCHANGED <<runs, spent, shown, pending>>
      /\ prs' = prs /\ tracked' = tracked /\ resolved' = resolved
  BY DEF history
<1>5. /\ prs' \in Seq(PullRequest) /\ Len(prs) <= Len(prs') /\ tracked' \subseteq 1..Len(prs')
      /\ row'.pr <= Len(prs') /\ resolved' \subseteq Nat /\ exec'.run <= Len(runs)
  BY <1>2, <1>4, BasicFacts
<1> QED
  BY <1>2, <1>3, <1>4, <1>5, QuietBasics

LEMMA TaskTimeoutBasics ==
  ASSUME Basics, TaskTimeout
  PROVE  Basics'
<1>1. "FinalizeNeedsHuman" \in AslState \ {"Fix", "Groom", "AfterRun"}
  BY DEF AslState
<1>2. /\ exec' = [exec EXCEPT !.at = "FinalizeNeedsHuman"] /\ row' = row
      /\ UNCHANGED <<repo, prs, tracked, pending, runs, history, spent>>
  BY DEF TaskTimeout, store
<1>3. row' \in Row /\ row'.pr <= Len(prs) /\ row'.sha <= Len(log)
  BY <1>2, BasicFacts
<1> QED
  BY <1>1, <1>2, <1>3, AtBasics

LEMMA ParkTimeoutBasics ==
  ASSUME Basics, ParkTimeout
  PROVE  Basics'
<1>1. "FinalizeNeedsHuman" \in AslState \ {"Fix", "Groom", "AfterRun"}
  BY DEF AslState
<1>2. /\ exec' = [exec EXCEPT !.at = "FinalizeNeedsHuman"] /\ row' = row
      /\ UNCHANGED <<repo, prs, tracked, pending, runs, history, spent>>
  BY DEF ParkTimeout, store
<1>3. row' \in Row /\ row'.pr <= Len(prs) /\ row'.sha <= Len(log)
  BY <1>2, BasicFacts
<1> QED
  BY <1>1, <1>2, <1>3, AtBasics

\* a step that ends the execution
LEMMA OverBasics ==
  ASSUME Basics, exec' = Over(exec.clean),
         row' \in Row, row'.pr <= Len(prs), row'.sha <= Len(log),
         UNCHANGED <<repo, prs, tracked, pending, runs, history, spent>>
  PROVE  Basics'
<1>1. exec.clean \in BOOLEAN
  BY BasicFacts DEF Execution
<1>2. exec' \in Execution /\ exec'.run = 0 /\ exec'.at = "Done"
  BY <1>1, OverType DEF Over
<1>3. WaitInv'
  BY <1>2 DEF WaitInv
<1>4. /\ UNCHANGED repo /\ UNCHANGED <<runs, spent, shown, pending>>
      /\ prs' = prs /\ tracked' = tracked /\ resolved' = resolved
  BY DEF history
<1>5. /\ prs' \in Seq(PullRequest) /\ Len(prs) <= Len(prs') /\ tracked' \subseteq 1..Len(prs')
      /\ row'.pr <= Len(prs') /\ resolved' \subseteq Nat /\ exec'.run <= Len(runs)
  BY <1>2, <1>4, BasicFacts
<1> QED
  BY <1>2, <1>3, <1>4, <1>5, QuietBasics

LEMMA FinalizeBasics ==
  ASSUME Basics, NEW at, NEW status \in Status, Finalize(at, status)
  PROVE  Basics'
<1>1. row' \in Row /\ row'.pr = row.pr /\ row'.sha = row.sha
  BY BasicFacts DEF Finalize, Row
<1>2. /\ UNCHANGED <<repo, prs, tracked, pending, runs, history, spent>>
      /\ row'.pr <= Len(prs) /\ row'.sha <= Len(log)
  BY <1>1, BasicFacts DEF Finalize
<1>3. "Park" \in AslState \ {"Fix", "Groom", "AfterRun"}
  BY DEF AslState
<1>4. exec' = [exec EXCEPT !.at = "Park"] \/ exec' = Over(exec.clean)
  BY DEF Finalize
<1> QED
  BY <1>1, <1>2, <1>3, <1>4, AtBasics, OverBasics

LEMMA FinalizesCases ==
  ASSUME Finalizes
  PROVE  \/ Finalize("FinalizeReady", "ready")
         \/ Finalize("FinalizeMerged", "merged")
         \/ Finalize("FinalizeClosed", "closed")
         \/ Finalize("FinalizeNeedsHuman", "needs_human")
  BY DEF Finalizes

LEMMA FinalizesBasics ==
  ASSUME Basics, Finalizes
  PROVE  Basics'
<1>1. PICK at \in AslState, status \in Status : Finalize(at, status)
  <2>1. /\ {"ready", "merged", "closed", "needs_human"} \subseteq Status
        /\ {"FinalizeReady", "FinalizeMerged", "FinalizeClosed", "FinalizeNeedsHuman"}
             \subseteq AslState
    BY DEF Status, AslState
  <2> QED
    BY <2>1, FinalizesCases
<1> QED
  BY <1>1, FinalizeBasics

LEMMA AfterNothingFacts ==
  ASSUME Basics, AfterNothing
  PROVE  /\ row' \in Row /\ row'.pr = row.pr /\ row'.sha = 0 /\ row'.brief = row.brief
         /\ row'.attempts = exec.attempt /\ row'.status \in {"rca_only", "needs_human"}
         /\ exec' = Over(exec.clean) /\ exec.at = "AfterRun" /\ exec.outcome # "pushed"
         /\ UNCHANGED <<repo, prs, tracked, pending, runs, history, spent>>
<1>1. row \in Row /\ exec.attempt \in 0..MaxAttempts
  BY BasicFacts DEF Execution
<1>2. \E status \in {"rca_only", "needs_human"} :
        row' = [row EXCEPT !.sha = 0, !.attempts = exec.attempt, !.status = status]
  BY DEF AfterNothing
<1>3. PICK status \in {"rca_only", "needs_human"} :
        row' = [row EXCEPT !.sha = 0, !.attempts = exec.attempt, !.status = status]
  BY <1>2
<1>4. row' = [status |-> status, attempts |-> exec.attempt, pr |-> row.pr, sha |-> 0,
              brief |-> row.brief]
  BY <1>1, <1>3 DEF Row
<1>5. status \in Status
  BY DEF Status
<1>6. /\ row' \in Row /\ row'.pr = row.pr /\ row'.sha = 0 /\ row'.brief = row.brief
      /\ row'.attempts = exec.attempt /\ row'.status \in {"rca_only", "needs_human"}
  BY <1>1, <1>4, <1>5 DEF Row
<1>7. /\ exec' = Over(exec.clean) /\ exec.at = "AfterRun" /\ exec.outcome # "pushed"
      /\ UNCHANGED <<repo, prs, tracked, pending, runs, history, spent>>
  BY DEF AfterNothing
<1> QED
  BY <1>6, <1>7

LEMMA AfterNothingBasics ==
  ASSUME Basics, AfterNothing
  PROVE  Basics'
<1>1. row'.pr <= Len(prs) /\ row'.sha <= Len(log)
  BY AfterNothingFacts, BasicFacts
<1> QED
  BY <1>1, AfterNothingFacts, OverBasics

\* what the four outcomes of after_run after a push have in common
LEMMA AfterPushFacts ==
  ASSUME Basics, AfterPush
  PROVE  /\ exec' \in Execution /\ exec'.at = "Park" /\ exec'.run = exec.run
         /\ exec'.attempt = exec.attempt /\ exec'.ev = exec.ev
         /\ exec'.brief = exec.brief /\ exec'.clean = exec.clean
         /\ exec.at = "AfterRun" /\ exec.run \in DOMAIN runs
         /\ runs[exec.run].pc = "pushed" /\ runs[exec.run].life = Life
         /\ TheRun = runs[exec.run] /\ TheRun.head \in DOMAIN log
         /\ UNCHANGED repo /\ UNCHANGED <<runs, spent, shown, pending>>
<1>1. exec \in Execution /\ "Park" \in AslState
  BY BasicFacts DEF AslState
<1>2. /\ exec' = [exec EXCEPT !.at = "Park"] /\ exec.at = "AfterRun" /\ exec.outcome = "pushed"
      /\ UNCHANGED repo /\ UNCHANGED <<runs, spent, shown, pending>>
  BY DEF AfterPush
<1>3. /\ exec' \in Execution /\ exec'.at = "Park" /\ exec'.run = exec.run
      /\ exec'.attempt = exec.attempt /\ exec'.ev = exec.ev
      /\ exec'.brief = exec.brief /\ exec'.clean = exec.clean
  BY <1>1, <1>2, AtFacts
<1>4. /\ exec.run \in DOMAIN runs /\ runs[exec.run].pc = "pushed"
      /\ runs[exec.run].life = Life
  BY <1>2 DEF Basics, WaitInv
<1>5. RunOK(runs[exec.run])
  BY <1>4 DEF Basics, RunsInv
<1>6. TheRun = runs[exec.run] /\ TheRun.head \in DOMAIN log
  BY <1>4, <1>5 DEF TheRun, RunOK
<1> QED
  BY <1>2, <1>3, <1>4, <1>6

LEMMA AfterRunRowFacts ==
  ASSUME Basics, AfterPush, NEW status \in Status
  PROVE  /\ AfterRunRow(status) \in Row
         /\ AfterRunRow(status).status = status /\ AfterRunRow(status).attempts = exec.attempt
         /\ AfterRunRow(status).sha = TheRun.head /\ AfterRunRow(status).pr = row.pr
         /\ AfterRunRow(status).brief = row.brief
<1>1. row \in Row /\ exec.attempt \in 0..MaxAttempts /\ TheRun.head \in Nat
  BY SMTT(30), AfterPushFacts, BasicFacts DEF Execution
<1>2. AfterRunRow(status) = [row EXCEPT !.status = status, !.attempts = exec.attempt,
                                        !.sha = TheRun.head]
  BY DEF AfterRunRow
<1>3. PICK x \in Row, attempts \in 0..MaxAttempts, sha \in Nat :
        x = row /\ attempts = exec.attempt /\ sha = TheRun.head
  BY <1>1
<1>4. AfterRunRow(status) = [x EXCEPT !.status = status, !.attempts = attempts, !.sha = sha]
  BY <1>2, <1>3
<1>5. /\ AfterRunRow(status) \in Row
      /\ AfterRunRow(status).status = status /\ AfterRunRow(status).attempts = attempts
      /\ AfterRunRow(status).sha = sha /\ AfterRunRow(status).pr = x.pr
      /\ AfterRunRow(status).brief = x.brief
  BY <1>4 DEF Row
<1> QED
  BY <1>3, <1>5

\* the pull request GitHub opened, and what the row and the PR# items then say
OpenedPr ==
  /\ CanOpen /\ row.pr = 0
  /\ prs' = Append(prs, [state |-> "open", life |-> Life])
OpenedFacts ==
  /\ prs' \in Seq(PullRequest) /\ Len(prs') = Len(prs) + 1
  /\ DOMAIN prs' = DOMAIN prs \cup {Len(prs) + 1} /\ Len(prs) + 1 \notin DOMAIN prs
  /\ \A n \in DOMAIN prs : prs'[n] = prs[n]
  /\ prs'[Len(prs) + 1].state = "open" /\ prs'[Len(prs) + 1].life = Life

LEMMA OpenedPrFacts ==
  ASSUME Basics, OpenedPr
  PROVE  OpenedFacts
<1>1. /\ prs \in Seq(PullRequest) /\ Len(prs) \in Nat /\ DOMAIN prs = 1..Len(prs)
      /\ Life \in Nat
  BY BasicFacts
<1>2. [state |-> "open", life |-> Life] \in PullRequest
  BY <1>1 DEF PullRequest
<1>3. /\ prs' \in Seq(PullRequest) /\ Len(prs') = Len(prs) + 1
      /\ DOMAIN prs' = 1..(Len(prs) + 1)
      /\ \A n \in 1..Len(prs) : prs'[n] = prs[n]
      /\ prs'[Len(prs) + 1] = [state |-> "open", life |-> Life]
  BY <1>1, <1>2, AppendFacts DEF OpenedPr
<1> QED
  BY <1>1, <1>3 DEF OpenedFacts

LEMMA OpenPrFacts ==
  ASSUME Basics, OpenPr
  PROVE  /\ AfterPush /\ OpenedPr /\ OpenedFacts
         /\ row' \in Row /\ row'.status = "pr_open" /\ row'.attempts = exec.attempt
         /\ row'.sha = TheRun.head /\ row'.pr = Len(prs) + 1
         /\ tracked' = tracked \cup {Len(prs) + 1} /\ resolved' = resolved
         /\ row'.brief = row.brief
<1>1. AfterPush /\ OpenedPr /\ tracked' = tracked \cup {Len(prs) + 1} /\ resolved' = resolved
  BY DEF OpenPr, OpenedPr, Life
<1>2. "pr_open" \in Status
  BY DEF Status
<1>3. row' = [AfterRunRow("pr_open") EXCEPT !.pr = Len(prs) + 1] /\ Len(prs) + 1 \in Nat
  BY BasicFacts DEF OpenPr
<1>4. /\ AfterRunRow("pr_open") \in Row
      /\ AfterRunRow("pr_open").status = "pr_open"
      /\ AfterRunRow("pr_open").attempts = exec.attempt
      /\ AfterRunRow("pr_open").sha = TheRun.head
      /\ AfterRunRow("pr_open").brief = row.brief
  BY <1>1, <1>2, AfterRunRowFacts
<1>5. /\ row' \in Row /\ row'.status = "pr_open" /\ row'.attempts = exec.attempt
      /\ row'.sha = TheRun.head /\ row'.pr = Len(prs) + 1 /\ row'.brief = row.brief
  BY <1>3, <1>4 DEF Row
<1> QED
  BY <1>1, <1>5, OpenedPrFacts

LEMMA LosePrFacts ==
  ASSUME Basics, LosePr
  PROVE  /\ AfterPush /\ OpenedPr /\ OpenedFacts
         /\ row' \in Row /\ row'.status = "pr_open" /\ row'.attempts = exec.attempt
         /\ row'.sha = TheRun.head /\ row'.pr = 0
         /\ tracked' = tracked /\ resolved' = resolved /\ row'.brief = row.brief
<1>1. /\ AfterPush /\ OpenedPr /\ tracked' = tracked /\ resolved' = resolved
      /\ row' = AfterRunRow("pr_open") /\ row.pr = 0
  BY DEF LosePr, OpenedPr, Life
<1>2. "pr_open" \in Status
  BY DEF Status
<1> QED
  BY <1>1, <1>2, AfterRunRowFacts, OpenedPrFacts

LEMMA RefusePrFacts ==
  ASSUME Basics, RefusePr
  PROVE  /\ AfterPush /\ prs' = prs
         /\ row' \in Row /\ row'.status = "pr_open" /\ row'.attempts = exec.attempt
         /\ row'.sha = TheRun.head /\ row'.pr = 0 /\ row.pr = 0
         /\ tracked' = tracked /\ resolved' = resolved /\ row'.brief = row.brief
<1>1. /\ AfterPush /\ prs' = prs /\ tracked' = tracked /\ resolved' = resolved
      /\ row' = AfterRunRow("pr_open") /\ row.pr = 0
  BY DEF RefusePr
<1>2. "pr_open" \in Status
  BY DEF Status
<1> QED
  BY <1>1, <1>2, AfterRunRowFacts

LEMMA AnswerPushFacts ==
  ASSUME Basics, AnswerPush
  PROVE  /\ AfterPush /\ prs' = prs
         /\ row' \in Row /\ row'.status = "grooming" /\ row'.attempts = exec.attempt
         /\ row'.sha = TheRun.head /\ row'.pr = row.pr /\ row.pr # 0
         /\ tracked' = tracked /\ resolved' \subseteq Nat /\ row'.brief = row.brief
<1>1. /\ AfterPush /\ prs' = prs /\ tracked' = tracked
      /\ row' = AfterRunRow("grooming") /\ row.pr # 0
  BY DEF AnswerPush
<1>2. "grooming" \in Status
  BY DEF Status
<1>3. TheRun \in Run
  BY <1>1, AfterPushFacts, BasicFacts
<1>4. resolved' \subseteq Nat
  BY <1>3, BasicFacts DEF AnswerPush, Run
<1> QED
  BY <1>1, <1>2, <1>4, AfterRunRowFacts

LEMMA AfterPushBasics ==
  ASSUME Basics, AfterPush,
         prs' \in Seq(PullRequest), Len(prs) <= Len(prs'), tracked' \subseteq 1..Len(prs'),
         row' \in Row, row'.pr <= Len(prs'), row'.sha = TheRun.head, resolved' \subseteq Nat
  PROVE  Basics'
<1>1. /\ exec' \in Execution /\ exec'.run <= Len(runs) /\ exec'.at = "Park"
      /\ UNCHANGED repo /\ UNCHANGED <<runs, spent, shown, pending>>
      /\ row'.sha <= Len(log)
  BY SMTT(30), AfterPushFacts, BasicFacts
<1>2. WaitInv'
  BY <1>1 DEF WaitInv
<1> QED
  BY <1>1, <1>2, QuietBasics

LEMMA AfterRunBasics ==
  ASSUME Basics, OpenPr \/ LosePr \/ RefusePr \/ AnswerPush
  PROVE  Basics'
<1> USE BasicFacts
<1>1. CASE OpenPr
  <2>1. /\ prs' \in Seq(PullRequest) /\ Len(prs') = Len(prs) + 1 /\ row'.pr = Len(prs) + 1
        /\ tracked' = tracked \cup {Len(prs) + 1} /\ resolved' = resolved
    BY <1>1, OpenPrFacts DEF OpenedFacts
  <2>2. Len(prs) <= Len(prs') /\ row'.pr <= Len(prs') /\ resolved' \subseteq Nat
        /\ tracked' \subseteq 1..Len(prs')
    BY <2>1
  <2> QED
    BY <1>1, <2>1, <2>2, OpenPrFacts, AfterPushBasics
<1>2. CASE LosePr
  <2>1. /\ prs' \in Seq(PullRequest) /\ Len(prs') = Len(prs) + 1 /\ row'.pr = 0
        /\ tracked' = tracked /\ resolved' = resolved
    BY <1>2, LosePrFacts DEF OpenedFacts
  <2>2. Len(prs) <= Len(prs') /\ row'.pr <= Len(prs') /\ resolved' \subseteq Nat
        /\ tracked' \subseteq 1..Len(prs')
    BY <2>1
  <2> QED
    BY <1>2, <2>1, <2>2, LosePrFacts, AfterPushBasics
<1>3. CASE RefusePr
  <2>1. /\ prs' = prs /\ tracked' = tracked /\ row'.pr = 0 /\ resolved' = resolved
    BY <1>3, RefusePrFacts
  <2>2. /\ prs' \in Seq(PullRequest) /\ Len(prs) <= Len(prs') /\ row'.pr <= Len(prs')
        /\ tracked' \subseteq 1..Len(prs') /\ resolved' \subseteq Nat
    BY <2>1
  <2> QED
    BY <1>3, <2>1, <2>2, RefusePrFacts, AfterPushBasics
<1>4. CASE AnswerPush
  <2>1. /\ prs' = prs /\ tracked' = tracked /\ row'.pr = row.pr /\ resolved' \subseteq Nat
    BY <1>4, AnswerPushFacts
  <2>2. /\ prs' \in Seq(PullRequest) /\ Len(prs) <= Len(prs') /\ row'.pr <= Len(prs')
        /\ tracked' \subseteq 1..Len(prs')
    BY <2>1
  <2> QED
    BY <1>4, <2>1, <2>2, AnswerPushFacts, AfterPushBasics
<1> QED
  BY <1>1, <1>2, <1>3, <1>4

\* both ways to go on with an event, whatever the commits do in the same step
LEMMA ResumeBasics ==
  ASSUME Basics, Grows, Life' = Life, NEW ev \in Event, Resume(ev)
  PROVE  /\ exec' \in Execution /\ exec'.run <= Len(runs') /\ runs' \in Seq(Run)
         /\ RunsInv' /\ WaitInv'
<1>1. exec' \in Execution /\ exec'.run <= Len(runs') /\ runs' \in Seq(Run)
  BY ResumeTypes DEF Basics
<1>2. exec \in Execution /\ Life \in Nat /\ Len(runs) \in Nat
  BY BasicFacts
<1>3. CASE MovesOn(ev)
  <2>1. runs' = runs /\ exec'.at \notin {"Fix", "Groom", "AfterRun"}
    BY <1>2, <1>3 DEF MovesOn, Execution
  <2> QED
    BY <1>1, <2>1, RunsKept DEF WaitInv
<1>4. CASE StartsGroom(ev)
  <2> DEFINE x == Launched("groom", ev.ids, exec.brief, spent.lives)
  <2>1. x \in Run
    BY <1>2, BasicFacts, LaunchedType DEF Execution, Event
  <2>2. x.pc = "starting" /\ ~x.outside /\ x.head = 0 /\ x.life = Life
    BY DEF Launched, Life
  <2>3. runs' = Append(runs, x) /\ exec'.at = "Groom" /\ exec'.run = Len(runs) + 1
    BY <1>2, <1>4 DEF StartsGroom, Execution
  <2> HIDE DEF x
  <2>4. RunsInv'
    BY <1>2, <2>1, <2>2, <2>3, RunsLaunched
  <2>5. Len(runs) + 1 \in DOMAIN runs' /\ runs'[Len(runs) + 1] = x
    BY <2>1, <2>3, LaunchFacts DEF Basics
  <2>6. WaitInv'
    BY <2>2, <2>3, <2>5 DEF WaitInv
  <2> QED
    BY <1>1, <2>4, <2>6
<1> QED
  BY <1>3, <1>4, ResumeFacts

LEMMA ParkCases ==
  ASSUME Basics, Park
  PROVE  /\ exec.at = "Park"
         /\ UNCHANGED <<repo, prs, row, tracked, history, spent>>
         /\ \/ exec' = [exec EXCEPT !.at = "Parked"] /\ UNCHANGED <<pending, runs>>
            \/ /\ pending # <<>> /\ Head(pending) \in Event
               /\ Resume(Head(pending))
               /\ pending' = Tail(pending) /\ pending' \in Seq(Event)
<1>1. pending \in Seq(Event)
  BY BasicFacts
<1>2. pending # <<>> => Head(pending) \in Event /\ Tail(pending) \in Seq(Event)
  BY <1>1
<1> QED
  BY <1>2 DEF Park

LEMMA ParkBasics ==
  ASSUME Basics, Park
  PROVE  Basics'
<1>1. UNCHANGED <<repo, prs, row, tracked, history, spent>>
  BY ParkCases
<1>2. CASE exec' = [exec EXCEPT !.at = "Parked"] /\ UNCHANGED <<pending, runs>>
  <2>1. "Parked" \in AslState \ {"Fix", "Groom", "AfterRun"}
    BY DEF AslState
  <2>2. row' \in Row /\ row'.pr <= Len(prs) /\ row'.sha <= Len(log)
    BY <1>1, BasicFacts
  <2>3. UNCHANGED <<repo, prs, tracked, pending, runs, history, spent>>
    BY <1>1, <1>2
  <2> QED
    BY <1>2, <2>1, <2>2, <2>3, AtBasics
<1>3. CASE /\ Head(pending) \in Event /\ Resume(Head(pending)) /\ pending' \in Seq(Event)
  <2>1. /\ Grows /\ Life' = Life
        /\ prs' = prs /\ row' = row /\ tracked' = tracked /\ resolved' = resolved
        /\ shown' = shown /\ spent' = spent /\ log' = log
    BY <1>1, SameRepo DEF Life, repo, history
  <2>2. /\ exec' \in Execution /\ exec'.run <= Len(runs') /\ runs' \in Seq(Run)
        /\ RunsInv' /\ WaitInv'
    BY <1>3, <2>1, ResumeBasics
  <2>3. /\ prs' \in Seq(PullRequest) /\ tracked' \subseteq 1..Len(prs')
        /\ row' \in Row /\ row'.pr <= Len(prs') /\ row'.sha <= Len(log')
        /\ resolved' \subseteq Nat /\ shown' \subseteq Nat
        /\ spent' \in [lives : 0..MaxLives, events : 0..MaxEvents, human : 0..MaxHuman]
    BY <2>1, BasicFacts
  <2>4. TypeOK'
    BY <1>3, <2>1, <2>2, <2>3, TypesKept
  <2> QED
    BY <2>1, <2>2, <2>4 DEF Basics, Grows
<1> QED
  BY <1>2, <1>3, ParkCases

\* an event that GitHub delivers is replayed at once, queued or dropped
LEMMA DeliverCases ==
  ASSUME Basics, NEW ev \in Event, Deliver(ev)
  PROVE  \/ Tracked(ev.pr) /\ exec.at = "Parked" /\ Resume(ev) /\ pending' = pending
         \/ /\ Tracked(ev.pr) /\ exec.at # "Parked"
            /\ pending' = Append(pending, ev) /\ pending' \in Seq(Event)
            /\ exec' = exec /\ runs' = runs
         \/ pending' = pending /\ exec' = exec /\ runs' = runs
<1>1. Append(pending, ev) \in Seq(Event)
  BY BasicFacts
<1> QED
  BY <1>1 DEF Deliver

LEMMA DeliverBasics ==
  ASSUME Basics, Grows, Life' = Life, NEW ev \in Event, Deliver(ev)
  PROVE  /\ pending' \in Seq(Event)
         /\ exec' \in Execution /\ exec'.run <= Len(runs') /\ runs' \in Seq(Run)
         /\ RunsInv' /\ WaitInv'
<1>1. CASE Resume(ev) /\ pending' = pending
  BY <1>1, ResumeBasics, BasicFacts
<1>2. CASE pending' \in Seq(Event) /\ exec' = exec /\ runs' = runs
  <2>1. RunsInv'
    BY <1>2, RunsKept
  <2>2. WaitInv'
    BY <1>2 DEF WaitInv, Basics
  <2> QED
    BY <1>2, <2>1, <2>2, BasicFacts
<1> QED
  BY <1>1, <1>2, DeliverCases, BasicFacts

LEMMA FeedbackFacts ==
  ASSUME Basics, Feedback
  PROVE  /\ UNCHANGED <<repo, prs, row, tracked, history>> /\ Life' = Life
         /\ spent' \in [lives : 0..MaxLives, events : 0..MaxEvents, human : 0..MaxHuman]
         /\ \E ev \in Event : Deliver(ev) /\ ev.kind \in CiKind \cup {"review", "comment"}
<1>1. /\ spent.events \in 0..MaxEvents /\ spent.events < MaxEvents
      /\ spent' = [spent EXCEPT !.events = @ + 1]
      /\ spent \in [lives : 0..MaxLives, events : 0..MaxEvents, human : 0..MaxHuman]
  BY BasicFacts DEF Feedback
<1>2. spent.events + 1 \in 0..MaxEvents
  BY <1>1
<1>3. spent' \in [lives : 0..MaxLives, events : 0..MaxEvents, human : 0..MaxHuman]
      /\ Life' = Life
  BY <1>1, <1>2 DEF Life
<1>4. PICK n \in DOMAIN prs \cup {0}, kind \in Kinds :
        Deliver([kind |-> kind, pr |-> n,
                 ids |-> IF kind = "comment" THEN {spent.events + 1} ELSE {}])
  BY DEF Feedback
<1> DEFINE ev == [kind |-> kind, pr |-> n,
                  ids |-> IF kind = "comment" THEN {spent.events + 1} ELSE {}]
<1>5. n \in Nat
  BY BasicFacts
<1>6. kind \in EventKind /\ kind \in CiKind \cup {"review", "comment"}
  BY DEF EventKind, CiKind
<1>7. (IF kind = "comment" THEN {spent.events + 1} ELSE {}) \in SUBSET Nat
  BY <1>2
<1>8. ev \in Event /\ ev.kind = kind
  BY <1>5, <1>6, <1>7 DEF Event
<1> QED
  BY <1>3, <1>4, <1>6, <1>8 DEF Feedback

LEMMA FeedbackBasics ==
  ASSUME Basics, Feedback
  PROVE  Basics'
<1>1. PICK ev \in Event : Deliver(ev)
  BY FeedbackFacts
<1>2. /\ UNCHANGED <<repo, prs, row, tracked, history>> /\ Life' = Life
      /\ spent' \in [lives : 0..MaxLives, events : 0..MaxEvents, human : 0..MaxHuman]
  BY FeedbackFacts
<1>3. /\ Grows /\ prs' = prs /\ row' = row /\ tracked' = tracked /\ resolved' = resolved
      /\ shown' = shown /\ log' = log
  BY <1>2, SameRepo DEF repo, history
<1>4. /\ pending' \in Seq(Event)
      /\ exec' \in Execution /\ exec'.run <= Len(runs') /\ runs' \in Seq(Run)
      /\ RunsInv' /\ WaitInv'
  BY <1>1, <1>2, <1>3, DeliverBasics
<1>5. /\ prs' \in Seq(PullRequest) /\ tracked' \subseteq 1..Len(prs')
      /\ row' \in Row /\ row'.pr <= Len(prs') /\ row'.sha <= Len(log')
      /\ resolved' \subseteq Nat /\ shown' \subseteq Nat
  BY <1>3, BasicFacts
<1>6. TypeOK'
  BY <1>2, <1>3, <1>4, <1>5, TypesKept
<1> QED
  BY <1>3, <1>4, <1>6 DEF Basics, Grows

\* a pull request that is merged or closed
LEMMA SettledFacts ==
  ASSUME Basics, NEW n, NEW state \in {"merged", "closed"}, Settled(n, state)
  PROVE  /\ n \in Opened /\ n \in DOMAIN prs /\ prs[n].state = "open"
         /\ prs' \in Seq(PullRequest) /\ Len(prs') = Len(prs) /\ DOMAIN prs' = DOMAIN prs
         /\ \A k \in DOMAIN prs : k # n => prs'[k] = prs[k]
         /\ prs'[n].state = state /\ prs'[n].life = prs[n].life
         /\ branch' \in {branch, 0}
         /\ row' = row /\ tracked' = tracked /\ resolved' = resolved /\ shown' = shown
         /\ spent' = spent /\ Life' = Life
         /\ [kind |-> state, pr |-> n, ids |-> {}] \in Event
         /\ Deliver([kind |-> state, pr |-> n, ids |-> {}])
<1>1. n \in Opened /\ n \in DOMAIN prs /\ prs[n].state = "open"
  BY DEF Settled, Opened
<1>2. prs \in Seq(PullRequest) /\ prs[n] \in PullRequest /\ n \in Nat
  BY <1>1, BasicFacts
<1> DEFINE x == [prs[n] EXCEPT !.state = state]
<1>3. x \in PullRequest /\ x.state = state /\ x.life = prs[n].life
  BY <1>2 DEF PullRequest
<1>4. prs' = [prs EXCEPT ![n] = x]
  BY DEF Settled
<1>5. /\ prs' \in Seq(PullRequest) /\ Len(prs') = Len(prs) /\ DOMAIN prs' = DOMAIN prs
      /\ \A k \in DOMAIN prs : prs'[k] = IF k = n THEN x ELSE prs[k]
  <2> HIDE DEF x
  <2> QED
    BY <1>1, <1>2, <1>3, <1>4, ExceptFacts
<1>6. [kind |-> state, pr |-> n, ids |-> {}] \in Event
  BY <1>2 DEF Event, EventKind
<1>7. /\ branch' \in {branch, 0}
      /\ row' = row /\ tracked' = tracked /\ resolved' = resolved /\ shown' = shown
      /\ spent' = spent /\ Life' = Life
      /\ Deliver([kind |-> state, pr |-> n, ids |-> {}])
  BY DEF Settled, history, Life
<1>8. /\ \A k \in DOMAIN prs : k # n => prs'[k] = prs[k]
      /\ prs'[n].state = state /\ prs'[n].life = prs[n].life
  BY <1>1, <1>3, <1>5
<1> QED
  BY <1>1, <1>5, <1>6, <1>7, <1>8

LEMMA SettledBasics ==
  ASSUME Basics, Grows, NEW n, NEW state \in {"merged", "closed"}, Settled(n, state)
  PROVE  Basics'
<1> DEFINE ev == [kind |-> state, pr |-> n, ids |-> {}]
<1>1. /\ ev \in Event /\ Deliver(ev) /\ Life' = Life
      /\ prs' \in Seq(PullRequest) /\ Len(prs') = Len(prs)
      /\ row' = row /\ tracked' = tracked /\ resolved' = resolved /\ shown' = shown
      /\ spent' = spent
  BY SettledFacts
<1> HIDE DEF ev
<1>2. /\ pending' \in Seq(Event)
      /\ exec' \in Execution /\ exec'.run <= Len(runs') /\ runs' \in Seq(Run)
      /\ RunsInv' /\ WaitInv'
  BY <1>1, DeliverBasics
<1>3. row'.sha <= Len(log')
  <2>1. row.sha <= Len(log) /\ row.sha \in Nat /\ Len(log) \in Nat
    BY BasicFacts DEF Row
  <2>2. Len(log) <= Len(log') /\ Len(log') \in Nat
    BY DEF Grows
  <2> QED
    BY <1>1, <2>1, <2>2
<1>4. /\ tracked' \subseteq 1..Len(prs')
      /\ row' \in Row /\ row'.pr <= Len(prs')
      /\ resolved' \subseteq Nat /\ shown' \subseteq Nat
      /\ spent' \in [lives : 0..MaxLives, events : 0..MaxEvents, human : 0..MaxHuman]
  BY <1>1, BasicFacts
<1>5. TypeOK'
  BY <1>1, <1>2, <1>3, <1>4, TypesKept
<1> QED
  BY <1>2, <1>5 DEF Basics, Grows

LEMMA MergeFacts ==
  ASSUME Basics, NEW n, Merge(n)
  PROVE  /\ Grows /\ Settled(n, "merged")
         /\ Len(log') = Len(log) + 1 /\ main' = NewCommit
         /\ log'[main'].past \in {log[main].past \cup {NewCommit},
                                  log[main].past \cup Past(branch) \cup {NewCommit}}
<1>1. Settled(n, "merged") /\ main' = NewCommit
  BY DEF Merge
<1>2. PICK merged \in {Past(branch), {}} :
        log' = Committed(log[main].past \cup merged)
  BY DEF Merge
<1> DEFINE h == log[main].past \cup merged
<1>3. /\ log[main].past \in SUBSET (DOMAIN log)
      /\ \A d \in log[main].past : log[d].past \subseteq log[main].past
  BY BasicFacts
<1>4. /\ merged \in SUBSET (DOMAIN log)
      /\ \A d \in merged : log[d].past \subseteq merged
  <2>1. CASE branch = 0 \/ merged = {}
    BY <2>1 DEF Past
  <2>2. CASE branch # 0 /\ merged = Past(branch)
    <3>1. branch \in DOMAIN log /\ merged = log[branch].past
      BY <2>2, BasicFacts DEF Past
    <3> QED
      BY <3>1, BasicFacts
  <2> QED
    BY <2>1, <2>2
<1>5. h \in SUBSET (DOMAIN log) /\ \A d \in h : log[d].past \subseteq h
  BY <1>3, <1>4
<1>6. log' = Committed(h)
  BY <1>2
<1> HIDE DEF h
<1>7. /\ log' \in Seq(Commit) /\ Len(log') = Len(log) + 1
      /\ DOMAIN log' = 1..(Len(log) + 1) /\ DOMAIN log = 1..Len(log)
      /\ \A c \in DOMAIN log : log'[c] = log[c]
      /\ log'[Len(log) + 1].past = h \cup {Len(log) + 1}
      /\ GitInv'
  BY <1>5, <1>6, CommitFacts DEF Basics
<1>8. /\ branch' \in {branch, 0} /\ branch \in DOMAIN log \cup {0} /\ Len(log) \in Nat
  BY <1>1, BasicFacts, SettledFacts
<1>9. log[main].past \subseteq h
  BY DEF h
<1>10. main' = Len(log) + 1
  BY <1>1 DEF NewCommit
<1>11. Grows
  BY <1>7, <1>8, <1>9, <1>10 DEF Grows
<1>12. h = log[main].past \/ h = log[main].past \cup Past(branch)
  BY DEF h
<1> QED
  BY <1>1, <1>7, <1>10, <1>11, <1>12 DEF NewCommit

LEMMA CloseFacts ==
  ASSUME Basics, NEW n, Close(n)
  PROVE  Grows /\ Settled(n, "closed") /\ log' = log /\ main' = main
<1>1. Settled(n, "closed") /\ log' = log /\ main' = main
  BY DEF Close
<1>2. branch' \in {branch, 0}
  BY <1>1, SettledFacts
<1> QED
  BY SMTT(30), <1>1, <1>2, BasicFacts DEF Grows, GitInv, Basics

LEMMA HumanPushFacts ==
  ASSUME Basics, HumanPush
  PROVE  /\ Grows /\ branch # 0 /\ branch \in DOMAIN log /\ Opened # {}
         /\ log'[branch'].past = log[branch].past \cup {NewCommit}
         /\ branch' = NewCommit /\ Life' = Life /\ main' = main
         /\ spent' \in [lives : 0..MaxLives, events : 0..MaxEvents, human : 0..MaxHuman]
         /\ prs' = prs /\ row' = row /\ tracked' = tracked /\ pending' = pending
         /\ exec' = exec /\ runs' = runs /\ resolved' = resolved /\ shown' = shown
<1>1. /\ spent.human \in 0..MaxHuman /\ spent.human < MaxHuman
      /\ spent' = [spent EXCEPT !.human = @ + 1]
      /\ spent \in [lives : 0..MaxLives, events : 0..MaxEvents, human : 0..MaxHuman]
  BY BasicFacts DEF HumanPush
<1>2. spent.human + 1 \in 0..MaxHuman
  BY <1>1
<1>3. /\ spent' \in [lives : 0..MaxLives, events : 0..MaxEvents, human : 0..MaxHuman]
      /\ Life' = Life
  BY <1>1, <1>2 DEF Life
<1>4. /\ branch # 0 /\ Opened # {} /\ log' = Committed(log[branch].past)
      /\ branch' = Len(log) + 1
      /\ main' = main /\ prs' = prs /\ row' = row /\ tracked' = tracked /\ pending' = pending
      /\ exec' = exec /\ runs' = runs /\ resolved' = resolved /\ shown' = shown
  BY DEF HumanPush, NewCommit, store, history
<1>5. /\ branch \in DOMAIN log /\ main \in DOMAIN log
      /\ log[branch].past \in SUBSET (DOMAIN log)
      /\ \A d \in log[branch].past : log[d].past \subseteq log[branch].past
      /\ Len(log) \in Nat
  BY <1>4, BasicFacts
<1>7. /\ log' \in Seq(Commit) /\ Len(log') = Len(log) + 1
      /\ DOMAIN log' = 1..(Len(log) + 1) /\ DOMAIN log = 1..Len(log)
      /\ \A c \in DOMAIN log : log'[c] = log[c]
      /\ log'[Len(log) + 1].past = log[branch].past \cup {Len(log) + 1}
      /\ GitInv'
  BY <1>4, <1>5, CommitFacts DEF Basics
<1>8. Grows
  BY <1>4, <1>5, <1>7 DEF Grows
<1> QED
  BY <1>3, <1>4, <1>5, <1>7, <1>8 DEF NewCommit

LEMMA HumanPushBasics ==
  ASSUME Basics, HumanPush
  PROVE  Basics'
<1>1. /\ Grows /\ Life' = Life
      /\ spent' \in [lives : 0..MaxLives, events : 0..MaxEvents, human : 0..MaxHuman]
      /\ prs' = prs /\ row' = row /\ tracked' = tracked /\ pending' = pending
      /\ exec' = exec /\ runs' = runs /\ resolved' = resolved /\ shown' = shown
  BY HumanPushFacts
<1>2. RunsInv' /\ WaitInv'
  BY <1>1, RunsKept DEF Basics, WaitInv
<1>3. row'.sha <= Len(log')
  <2>1. row.sha <= Len(log) /\ row.sha \in Nat /\ Len(log) \in Nat
    BY BasicFacts DEF Row
  <2>2. Len(log) <= Len(log') /\ Len(log') \in Nat
    BY <1>1 DEF Grows
  <2> QED
    BY <1>1, <2>1, <2>2
<1>4. /\ prs' \in Seq(PullRequest) /\ tracked' \subseteq 1..Len(prs')
      /\ row' \in Row /\ row'.pr <= Len(prs')
      /\ pending' \in Seq(Event) /\ exec' \in Execution /\ exec'.run <= Len(runs')
      /\ runs' \in Seq(Run) /\ resolved' \subseteq Nat /\ shown' \subseteq Nat
  BY <1>1, BasicFacts
<1>5. TypeOK'
  BY <1>1, <1>3, <1>4, TypesKept
<1> QED
  BY <1>1, <1>2, <1>5 DEF Basics, Grows

LEMMA NextCases ==
  ASSUME Next
  PROVE  \/ Claim \/ Approve \/ Dismiss
         \/ \E r \in DOMAIN runs : \/ Checkout(r) \/ Push(r) \/ ReportPush(r)
                                   \/ ReportNothing(r) \/ Fail(r)
         \/ TaskTimeout \/ ParkTimeout \/ AfterNothing
         \/ OpenPr \/ LosePr \/ RefusePr \/ AnswerPush
         \/ Park \/ Finalizes \/ Feedback \/ HumanPush
         \/ \E n \in DOMAIN prs : Merge(n) \/ Close(n)
         \/ UNCHANGED vars
  BY DEF Next, Worker, Lifecycle, People, Finished

LEMMA StutterBasics ==
  ASSUME Basics, UNCHANGED vars
  PROVE  Basics'
  BY DEF Basics, TypeOK, GitInv, RunsInv, RunOK, WaitInv, Life, vars

LEMMA BasicsStep == Basics /\ [Next]_vars => Basics'
<1> SUFFICES ASSUME Basics, [Next]_vars PROVE Basics'
  OBVIOUS
<1>1. ASSUME NEW n \in DOMAIN prs, Merge(n) \/ Close(n) PROVE Basics'
  BY <1>1, MergeFacts, CloseFacts, SettledBasics
<1> QED
  BY <1>1, NextCases, ClaimBasics, PressedBasics, CheckoutBasics, PushBasics, ReportPushBasics,
     ReportNothingBasics, FailBasics, TaskTimeoutBasics, ParkTimeoutBasics,
     AfterNothingBasics, AfterRunBasics, ParkBasics, FinalizesBasics, FeedbackBasics,
     HumanPushBasics, StutterBasics

LEMMA BasicsInit == Init => Basics
<1> SUFFICES ASSUME Init PROVE Basics
  OBVIOUS
<1>1. GitInv
  <2>1. log = <<[past |-> {1}]>>
    BY DEF Init
  <2>2. DOMAIN log = {1} /\ log[1].past = {1}
    BY <2>1
  <2> QED
    BY <2>2 DEF GitInv
<1>2. RunsInv
  BY DEF Init, RunsInv
<1>3. WaitInv
  BY DEF Init, WaitInv, Over
<1> QED
  BY <1>1, <1>2, <1>3, TypeInit DEF Basics

LEMMA BasicsAlways == Spec => []Basics
  BY BasicsInit, BasicsStep, PTL DEF Spec

(* Every variable keeps its type, for any number of lives, attempts, events *)
(* and commits of people.                                                   *)
THEOREM LivesTypes == Spec => []TypeOK
<1>1. Basics => TypeOK
  BY DEF Basics
<1> QED
  BY <1>1, BasicsAlways, PTL

-----------------------------------------------------------------------------
(* The branch *)

\* only a container, a person or a merge makes a commit
LEMMA RepoCases ==
  ASSUME Basics, [Next]_vars
  PROVE  /\ Grows
         /\ \/ branch' \in {branch, 0}
            \/ \E r \in DOMAIN runs : Pushed(r)
            \/ HumanPush
<1>1. CASE UNCHANGED repo
  BY <1>1, SameRepo DEF repo
<1>2. CASE \E r \in DOMAIN runs : Push(r)
  <2>1. PICK r \in DOMAIN runs : Push(r)
    BY <1>2
  <2>2. CASE Pushed(r)
    BY <2>2, PushedFacts
  <2>3. CASE Refused(r)
    BY <1>1, <2>3 DEF Refused
  <2> QED
    BY <2>1, <2>2, <2>3, PushCases
<1>3. CASE \E n \in DOMAIN prs : Merge(n) \/ Close(n)
  BY <1>3, MergeFacts, CloseFacts, SettledFacts
<1>4. CASE HumanPush
  BY <1>4, HumanPushFacts
<1>5. CASE Claim \/ TaskTimeout \/ ParkTimeout \/ AfterNothing \/ Feedback \/ Park
  BY <1>1, <1>5 DEF Claim, TaskTimeout, ParkTimeout, AfterNothing, Feedback, Park
<1>10. CASE Approve \/ Dismiss
  BY <1>1, <1>10 DEF Approve, Dismiss, Pressed
<1>6. CASE OpenPr \/ LosePr \/ RefusePr \/ AnswerPush
  BY <1>1, <1>6 DEF OpenPr, LosePr, RefusePr, AnswerPush, AfterPush
<1>7. CASE Finalizes
  BY <1>1, <1>7 DEF Finalizes, Finalize
<1>8. CASE \E r \in DOMAIN runs : Checkout(r) \/ ReportPush(r) \/ ReportNothing(r) \/ Fail(r)
  BY <1>1, <1>8 DEF Checkout, ReportPush, ReportNothing, Fail
<1>9. CASE UNCHANGED vars
  BY <1>1, <1>9 DEF vars, repo
<1> QED
  BY <1>2, <1>3, <1>4, <1>5, <1>6, <1>7, <1>8, <1>9, <1>10, NextCases

(* No push loses work: a commit that reached the branch stays in its        *)
(* history until the branch is deleted.                                     *)
THEOREM BranchAlwaysGrows == Spec => BranchGrows
<1> DEFINE Kept == branch # 0 /\ branch' # 0 => branch \in log'[branch'].past
<1>1. Basics /\ [Next]_vars => [Kept]_vars
  <2> SUFFICES ASSUME Basics, [Next]_vars, branch # 0, branch' # 0
               PROVE  branch \in log'[branch'].past
    OBVIOUS
  <2>1. branch \in DOMAIN log /\ branch \in log[branch].past /\ Grows
    BY BasicFacts, RepoCases
  <2>2. CASE branch' \in {branch, 0}
    BY <2>1, <2>2 DEF Grows
  <2>3. ASSUME NEW r \in DOMAIN runs, Pushed(r) PROVE branch \in log'[branch'].past
    <3>1. branch \in log[runs[r].head].past
      BY <2>3 DEF Pushed, PushAccepted
    <3>2. branch' = NewCommit /\ log[runs[r].head].past \subseteq log'[NewCommit].past
      BY <2>3, PushedFacts DEF Pushed
    <3> QED
      BY <3>1, <3>2
  <2>4. CASE HumanPush
    BY <2>1, <2>4, HumanPushFacts
  <2> QED
    BY <2>2, <2>3, <2>4, RepoCases
<1> QED
  BY <1>1, BasicsAlways, PTL DEF Spec, BranchGrows

-----------------------------------------------------------------------------
(* The containers                                                           *)

Works(x) == x.pc \in {"starting", "working"}

\* What any step does to the containers: what was pushed stays pushed, only
\* Push pushes, none goes back to work, and the one that is started is the one
\* the execution waits for: the fix of a life, or a groom run, from Park.
RunsEvolve ==
  /\ \A r \in DOMAIN runs :
       /\ r \in DOMAIN runs'
       /\ runs'[r].life = runs[r].life /\ runs'[r].kind = runs[r].kind
       /\ runs[r].outside => runs'[r].outside
       /\ runs[r].pc = "pushed" => runs'[r] = runs[r]
       /\ Works(runs'[r]) => Works(runs[r])
  /\ \A r \in DOMAIN runs' :
       runs'[r].pc = "pushed" => r \in DOMAIN runs /\ (runs[r].pc = "pushed" \/ Pushed(r))
  /\ \A r \in DOMAIN runs' :
       r \in DOMAIN runs
       \/ /\ runs'[r].life = Life'
          /\ r = exec'.run /\ exec'.at \in {"Fix", "Groom"}
          /\ \/ runs'[r].kind = "fix" /\ (Claim \/ Approve)
             \/ /\ runs'[r].kind = "groom" /\ Life' = Life
                /\ exec.at \in {"Park", "Parked"} /\ exec'.attempt = exec.attempt + 1

LEMMA EvolveSame ==
  ASSUME Basics, runs' = runs
  PROVE  RunsEvolve
  BY DEF RunsEvolve

LEMMA EvolveUpdated ==
  ASSUME Basics, NEW r \in DOMAIN runs, NEW x \in Run, runs' = [runs EXCEPT ![r] = x],
         runs[r].pc # "pushed", x.life = runs[r].life, x.kind = runs[r].kind,
         runs[r].outside => x.outside,
         x.pc = "pushed" => Pushed(r), Works(x) => Works(runs[r])
  PROVE  RunsEvolve
<1>1. /\ DOMAIN runs' = DOMAIN runs
      /\ \A q \in DOMAIN runs : runs'[q] = IF q = r THEN x ELSE runs[q]
  BY RunFacts DEF Basics
<1> QED
  BY <1>1 DEF RunsEvolve

LEMMA EvolveLaunched ==
  ASSUME Basics, NEW x \in Run, runs' = Append(runs, x), x.pc = "starting", x.life = Life',
         exec'.run = Len(runs) + 1, exec'.at \in {"Fix", "Groom"},
         \/ x.kind = "fix" /\ (Claim \/ Approve)
         \/ /\ x.kind = "groom" /\ Life' = Life
            /\ exec.at \in {"Park", "Parked"} /\ exec'.attempt = exec.attempt + 1
  PROVE  RunsEvolve
<1>1. /\ DOMAIN runs' = DOMAIN runs \cup {Len(runs) + 1}
      /\ Len(runs) + 1 \notin DOMAIN runs
      /\ \A q \in DOMAIN runs : runs'[q] = runs[q]
      /\ runs'[Len(runs) + 1] = x
  BY LaunchFacts DEF Basics
<1> DEFINE new == Len(runs) + 1
<1>2. /\ DOMAIN runs' = DOMAIN runs \cup {new} /\ new \notin DOMAIN runs
      /\ \A q \in DOMAIN runs : runs'[q] = runs[q]
      /\ runs'[new] = x /\ exec'.run = new
  BY <1>1
<1> HIDE DEF new
<1> QED
  BY <1>2 DEF RunsEvolve

LEMMA EvolveGone ==
  ASSUME Basics, NEW r \in DOMAIN runs, runs[r].pc # "pushed",
         runs' = [runs EXCEPT ![r] = Gone(runs[r])]
  PROVE  RunsEvolve
<1>1. runs[r] \in Run
  BY BasicFacts
<1> DEFINE x == Gone(runs[r])
<1>2. /\ x \in Run /\ x.pc = "over" /\ x.life = runs[r].life /\ x.kind = runs[r].kind
      /\ x.outside = runs[r].outside
  BY <1>1, GoneFacts
<1>3. runs' = [runs EXCEPT ![r] = x]
  OBVIOUS
<1> HIDE DEF x
<1>4. /\ x.pc = "pushed" => Pushed(r)
      /\ Works(x) => Works(runs[r])
      /\ runs[r].outside => x.outside
  BY <1>2 DEF Works
<1> QED
  BY <1>2, <1>3, <1>4, EvolveUpdated

LEMMA EvolveResume ==
  ASSUME Basics, NEW ev \in Event, Resume(ev), Life' = Life, exec.at \in {"Park", "Parked"}
  PROVE  RunsEvolve
<1>1. CASE MovesOn(ev)
  BY <1>1, EvolveSame DEF MovesOn
<1>2. CASE StartsGroom(ev)
  <2> DEFINE x == Launched("groom", ev.ids, exec.brief, spent.lives)
  <2>1. x \in Run
    BY BasicFacts, LaunchedType DEF Execution, Event
  <2>2. x.pc = "starting" /\ x.life = Life' /\ x.kind = "groom"
    BY DEF Launched, Life
  <2>3. runs' = Append(runs, x)
    BY <1>2 DEF StartsGroom
  <2>4. exec'.run = Len(runs) + 1 /\ exec'.at = "Groom" /\ exec'.attempt = exec.attempt + 1
    BY <1>2, BasicFacts DEF StartsGroom, Execution
  <2> HIDE DEF x
  <2> QED
    BY <2>1, <2>2, <2>3, <2>4, EvolveLaunched
<1> QED
  BY <1>1, <1>2, ResumeFacts

LEMMA EvolveDeliver ==
  ASSUME Basics, NEW ev \in Event, Deliver(ev), Life' = Life
  PROVE  RunsEvolve
  BY DeliverCases, EvolveResume, EvolveSame

LEMMA EvolveGivesUp ==
  ASSUME Basics, NEW r \in DOMAIN runs, GivesUp(r)
  PROVE  RunsEvolve
  BY GivesUpFacts, EvolveGone, EvolveSame

LEMMA EvolveStartFix ==
  ASSUME Basics, NEW brief \in BriefMd, NEW clean \in BOOLEAN, NEW life \in Nat,
         life = Life', Claim \/ Approve, StartFix(brief, life, clean)
  PROVE  RunsEvolve
<1> DEFINE x == Launched("fix", {}, brief, life)
<1>1. x \in Run
  BY LaunchedType
<1>2. x.pc = "starting" /\ x.life = Life' /\ x.kind = "fix"
  BY DEF Launched
<1>3. runs' = Append(runs, x) /\ exec'.run = Len(runs) + 1 /\ exec'.at = "Fix"
  BY DEF StartFix
<1> HIDE DEF x
<1> QED
  BY <1>1, <1>2, <1>3, EvolveLaunched

LEMMA EvolveClaim ==
  ASSUME Basics, Claim
  PROVE  RunsEvolve
<1>1. CASE runs' = runs
  BY <1>1, EvolveSame
<1>2. ASSUME NEW brief \in BriefMd, StartFix(brief, Life + 1, Opened = {}) PROVE RunsEvolve
  <2>1. Life + 1 \in Nat /\ Life + 1 = Life' /\ (Opened = {}) \in BOOLEAN
    BY ClaimFacts, BasicFacts
  <2> QED
    BY <1>2, <2>1, EvolveStartFix
<1> QED
  BY <1>1, <1>2, ClaimFacts

LEMMA EvolvePressed ==
  ASSUME Basics, Approve \/ Dismiss
  PROVE  RunsEvolve
<1>1. CASE runs' = runs
  BY <1>1, EvolveSame
<1>2. CASE StartFix(row.brief, Life, exec.clean) /\ Approve
  <2>1. Life \in Nat /\ Life = Life' /\ row.brief \in BriefMd /\ exec.clean \in BOOLEAN
    BY PressedFacts, BasicFacts DEF Row, Execution
  <2> QED
    BY <1>2, <2>1, EvolveStartFix
<1> QED
  BY <1>1, <1>2, PressedFacts

LEMMA EvolveCheckout ==
  ASSUME Basics, NEW r \in DOMAIN runs, Checkout(r)
  PROVE  RunsEvolve
<1>1. PICK base \in Bases(r) :
        runs' = [runs EXCEPT ![r] =
                   CheckedOut(runs[r], base, runs[r].kind = "fix" /\ base \notin Past(main))]
  BY DEF Checkout, CheckedOut
<1>2. runs[r] \in Run /\ base \in Nat
  BY BasicFacts DEF Bases
<1>3. runs[r].pc = "starting" /\ ~runs[r].outside
  BY DEF Checkout, Basics, RunsInv, RunOK
<1> DEFINE outside == runs[r].kind = "fix" /\ base \notin Past(main)
           x == CheckedOut(runs[r], base, outside)
<1>4. outside \in BOOLEAN /\ runs' = [runs EXCEPT ![r] = x]
  BY <1>1
<1> HIDE DEF outside
<1>5. x \in Run /\ x.pc = "working" /\ x.life = runs[r].life /\ x.kind = runs[r].kind
  BY <1>2, <1>4, CheckedOutFacts
<1> HIDE DEF x
<1> QED
  BY <1>3, <1>4, <1>5, EvolveUpdated DEF Works

LEMMA EvolvePush ==
  ASSUME Basics, NEW r \in DOMAIN runs, Push(r)
  PROVE  RunsEvolve
<1>1. CASE Pushed(r)
  <2>1. /\ DOMAIN runs' = DOMAIN runs
        /\ \A q \in DOMAIN runs : q # r => runs'[q] = runs[q]
        /\ runs'[r].pc = "pushed" /\ runs'[r].kind = runs[r].kind
        /\ runs'[r].life = runs[r].life /\ runs'[r].outside = runs[r].outside
    BY <1>1, PushedFacts
  <2>2. runs[r].pc = "working"
    BY <1>1 DEF Pushed
  <2> QED
    BY <1>1, <2>1, <2>2 DEF RunsEvolve, Works
<1>2. CASE Refused(r)
  BY <1>2, EvolveGivesUp DEF Refused
<1> QED
  BY <1>1, <1>2, PushCases

LEMMA Evolves ==
  ASSUME Basics, [Next]_vars
  PROVE  RunsEvolve
<1>1. CASE \E r \in DOMAIN runs : \/ Checkout(r) \/ Push(r) \/ ReportPush(r)
                                   \/ ReportNothing(r) \/ Fail(r)
  <2>1. ASSUME NEW r \in DOMAIN runs, ReportPush(r) PROVE RunsEvolve
    BY <2>1, EvolveSame DEF ReportPush
  <2>2. ASSUME NEW r \in DOMAIN runs, ReportNothing(r) PROVE RunsEvolve
    BY <2>2, EvolveGone, ReportNothingFacts
  <2>3. ASSUME NEW r \in DOMAIN runs, Fail(r) PROVE RunsEvolve
    BY <2>3, EvolveGivesUp DEF Fail
  <2> QED
    BY <1>1, <2>1, <2>2, <2>3, EvolveCheckout, EvolvePush
<1>2. CASE Park
  <2>1. Life' = Life
    BY <1>2 DEF Park, Life
  <2> QED
    BY <1>2, <2>1, ParkCases, EvolveResume, EvolveSame
<1>3. CASE Feedback
  BY <1>3, FeedbackFacts, EvolveDeliver
<1>4. CASE \E n \in DOMAIN prs : Merge(n) \/ Close(n)
  BY <1>4, MergeFacts, CloseFacts, SettledFacts, EvolveDeliver
<1>5. CASE UNCHANGED runs
  BY <1>5, EvolveSame
<1>6. CASE TaskTimeout \/ ParkTimeout \/ AfterNothing \/ HumanPush
  BY <1>5, <1>6 DEF TaskTimeout, ParkTimeout, AfterNothing, HumanPush
<1>7. CASE OpenPr \/ LosePr \/ RefusePr \/ AnswerPush
  BY <1>5, <1>7 DEF OpenPr, LosePr, RefusePr, AnswerPush, AfterPush
<1>8. CASE Finalizes
  BY <1>5, <1>8 DEF Finalizes, Finalize
<1>9. CASE UNCHANGED vars
  BY <1>5, <1>9 DEF vars
<1> QED
  BY <1>1, <1>2, <1>3, <1>4, <1>6, <1>7, <1>8, <1>9, EvolveClaim, EvolvePressed, NextCases

-----------------------------------------------------------------------------
(* How the lives, their reviews and the pull requests go on                 *)

\* a life is in review once one of its containers has pushed and reported
Reviewed == {"Park", "Parked", "FinalizeReady", "FinalizeMerged", "FinalizeClosed"}
HasPushed == exec.at = "AfterRun" /\ exec.outcome = "pushed"

LEMMA LifeCases ==
  ASSUME Basics, [Next]_vars
  PROVE  \/ Life' = Life
         \/ Claim /\ Life' = Life + 1 /\ exec'.at \in {"Done", "Fix"}
<1>1. CASE Claim
  BY <1>1, ClaimFacts DEF StartFix, Over
<1>2. CASE UNCHANGED spent
  BY <1>2 DEF Life
<1>3. CASE \E r \in DOMAIN runs : \/ Checkout(r) \/ Push(r) \/ ReportPush(r)
                                   \/ ReportNothing(r) \/ Fail(r)
  BY <1>2, <1>3 DEF Checkout, Push, ReportPush, ReportNothing, Fail
<1>4. CASE TaskTimeout \/ ParkTimeout \/ AfterNothing \/ Park \/ Finalizes
  BY <1>2, <1>4 DEF TaskTimeout, ParkTimeout, AfterNothing, Park, Finalizes, Finalize
<1>5. CASE OpenPr \/ LosePr \/ RefusePr \/ AnswerPush
  BY <1>2, <1>5 DEF OpenPr, LosePr, RefusePr, AnswerPush, AfterPush
<1>6. CASE \E n \in DOMAIN prs : Merge(n) \/ Close(n)
  BY <1>2, <1>6 DEF Merge, Close, Settled
<1>7. CASE UNCHANGED vars
  BY <1>2, <1>7 DEF vars
<1> QED
  BY <1>1, <1>3, <1>4, <1>5, <1>6, <1>7, PressedFacts, FeedbackFacts, HumanPushFacts, NextCases

LEMMA ReviewCases ==
  ASSUME Basics, [Next]_vars, exec'.at \in Reviewed
  PROVE  Life' = Life /\ (exec.at \in Reviewed \/ HasPushed)
<1>0. Life' = Life
  BY LifeCases DEF Reviewed
<1>1. CASE exec' = exec
  BY <1>0, <1>1
<1>2. CASE \E r \in DOMAIN runs : \/ Checkout(r) \/ Push(r) \/ ReportPush(r)
                                   \/ ReportNothing(r) \/ Fail(r)
  <2>1. ASSUME NEW r \in DOMAIN runs, GivesUp(r) PROVE exec' = exec
    BY <2>1, GivesUpFacts DEF Reviewed
  <2>2. ASSUME NEW r \in DOMAIN runs, Push(r) PROVE exec' = exec
    BY <2>1, <2>2, PushCases DEF Pushed, Refused
  <2>3. ASSUME NEW r \in DOMAIN runs, ReportPush(r) PROVE FALSE
    <3>1. CallsBack(r, "pushed") /\ "pushed" \in Outcome
      BY <2>3 DEF ReportPush, Outcome
    <3>2. exec'.at = "AfterRun"
      BY <3>1, CallsBackFacts
    <3> QED
      BY <3>2 DEF Reviewed
  <2>4. ASSUME NEW r \in DOMAIN runs, ReportNothing(r) PROVE FALSE
    BY <2>4, ReportNothingFacts DEF Reviewed
  <2>5. ASSUME NEW r \in DOMAIN runs, Fail(r) PROVE exec' = exec
    BY <2>1, <2>5 DEF Fail
  <2>6. ASSUME NEW r \in DOMAIN runs, Checkout(r) PROVE exec' = exec
    BY <2>6 DEF Checkout
  <2> QED
    BY <1>1, <1>2, <2>2, <2>3, <2>4, <2>5, <2>6
<1>3. CASE TaskTimeout \/ ParkTimeout \/ AfterNothing
  <2>1. exec \in Execution
    BY BasicFacts
  <2>2. exec'.at \in {"FinalizeNeedsHuman", "Done"}
    BY <1>3, <2>1 DEF TaskTimeout, ParkTimeout, AfterNothing, Over, Execution
  <2> QED
    BY <2>2 DEF Reviewed
<1>4. CASE OpenPr \/ LosePr \/ RefusePr \/ AnswerPush
  BY <1>0, <1>4 DEF OpenPr, LosePr, RefusePr, AnswerPush, AfterPush, HasPushed
<1>5. CASE Park
  BY <1>0, <1>5 DEF Park, Reviewed
<1>6. CASE Finalizes
  <2>1. CASE Finalize("FinalizeReady", "ready") \/ Finalize("FinalizeMerged", "merged")
             \/ Finalize("FinalizeClosed", "closed")
    BY <1>0, <2>1 DEF Finalize, Reviewed
  <2>2. CASE Finalize("FinalizeNeedsHuman", "needs_human")
    BY <2>2 DEF Finalize, Over, Reviewed
  <2> QED
    BY <1>6, <2>1, <2>2, FinalizesCases
<1>7. CASE \E ev \in Event : Deliver(ev)
  BY <1>0, <1>1, <1>7, DeliverCases DEF Reviewed
<1>8. CASE \E n \in DOMAIN prs : Merge(n) \/ Close(n)
  BY <1>7, <1>8, MergeFacts, CloseFacts, SettledFacts
<1>9. CASE Claim \/ Approve \/ Dismiss
  BY <1>1, <1>9, ClaimFacts, PressedFacts DEF StartFix, Reviewed, Over
<1>10. CASE UNCHANGED vars
  BY <1>1, <1>10 DEF vars
<1> QED
  BY <1>1, <1>2, <1>3, <1>4, <1>5, <1>6, <1>7, <1>8, <1>9, <1>10, FeedbackFacts,
     HumanPushFacts, NextCases

LEMMA PrCases ==
  ASSUME Basics, [Next]_vars
  PROVE  \/ /\ prs' = prs /\ main' = main
            /\ \/ branch' = branch
               \/ branch' = NewCommit /\ (HumanPush \/ \E r \in DOMAIN runs : Pushed(r))
         \/ OpenedPr /\ OpenedFacts /\ UNCHANGED repo /\ Life' = Life /\ runs' = runs
            /\ (OpenPr \/ LosePr)
         \/ \E n \in DOMAIN prs, state \in {"merged", "closed"} :
              Settled(n, state) /\ (Merge(n) \/ Close(n))
<1>1. CASE UNCHANGED <<repo, prs>>
  <2>1. prs' = prs /\ main' = main /\ branch' = branch
    BY <1>1 DEF repo
  <2> QED
    BY <2>1
<1>2. CASE \E r \in DOMAIN runs : Push(r)
  <2>1. PICK r \in DOMAIN runs : Push(r)
    BY <1>2
  <2>2. CASE Pushed(r)
    BY <2>2 DEF Pushed
  <2>3. CASE Refused(r)
    BY <1>1, <2>3 DEF Refused
  <2> QED
    BY <2>1, <2>2, <2>3, PushCases
<1>3. CASE \E n \in DOMAIN prs : Merge(n) \/ Close(n)
  BY <1>3, MergeFacts, CloseFacts
<1>4. CASE HumanPush
  BY <1>4, HumanPushFacts
<1>5. CASE Claim \/ TaskTimeout \/ ParkTimeout \/ AfterNothing \/ Feedback \/ Park
  BY <1>1, <1>5 DEF Claim, TaskTimeout, ParkTimeout, AfterNothing, Feedback, Park
<1>11. CASE Approve \/ Dismiss
  BY <1>1, <1>11 DEF Approve, Dismiss, Pressed
<1>6. CASE OpenPr \/ LosePr
  <2>1. UNCHANGED repo /\ Life' = Life /\ runs' = runs
    BY <1>6 DEF OpenPr, LosePr, AfterPush, Life
  <2> QED
    BY <1>6, <2>1, OpenPrFacts, LosePrFacts
<1>7. CASE RefusePr \/ AnswerPush
  BY <1>1, <1>7 DEF RefusePr, AnswerPush, AfterPush
<1>8. CASE Finalizes
  BY <1>1, <1>8 DEF Finalizes, Finalize
<1>9. CASE \E r \in DOMAIN runs : Checkout(r) \/ ReportPush(r) \/ ReportNothing(r) \/ Fail(r)
  BY <1>1, <1>9 DEF Checkout, ReportPush, ReportNothing, Fail
<1>10. CASE UNCHANGED vars
  BY <1>1, <1>10 DEF vars, repo
<1> QED
  BY <1>2, <1>3, <1>4, <1>5, <1>6, <1>7, <1>8, <1>9, <1>10, <1>11,
     NextCases

-----------------------------------------------------------------------------
(* What each kind of step does to the row, the execution and the events     *)

Carries == exec'.brief = exec.brief /\ exec'.clean = exec.clean
SameRow == row' = row /\ tracked' = tracked /\ Life' = Life

\* the worker's and the clock's steps
WorkerStep ==
  /\ SameRow /\ prs' = prs /\ pending' = pending /\ Carries
  /\ exec'.attempt = exec.attempt /\ exec'.ev = exec.ev
  /\ \/ exec'.at = exec.at
     \/ exec.at \in {"Fix", "Groom"} /\ exec'.at \in {"AfterRun", "FinalizeNeedsHuman"}
     \/ exec.at = "Parked" /\ exec'.at = "FinalizeNeedsHuman"
PressStep == Approve \/ Dismiss
AfterPushStep == AfterPush /\ (OpenPr \/ LosePr \/ RefusePr \/ AnswerPush)
ParkStep == SameRow /\ prs' = prs /\ Park
FinalizeStep ==
  \/ Finalize("FinalizeReady", "ready") \/ Finalize("FinalizeMerged", "merged")
  \/ Finalize("FinalizeClosed", "closed") \/ Finalize("FinalizeNeedsHuman", "needs_human")
FeedbackStep ==
  /\ SameRow /\ prs' = prs
  /\ \E ev \in Event : Deliver(ev) /\ ev.kind \in CiKind \cup {"review", "comment"}
SettledStep ==
  \E n \in DOMAIN prs, state \in {"merged", "closed"} : Settled(n, state)

LEMMA ResumeExec ==
  ASSUME Basics, NEW ev \in Event, Resume(ev)
  PROVE  /\ Carries /\ exec'.ev = ev
         /\ \/ exec'.at = "Groom" /\ exec.attempt < MaxAttempts
               /\ exec'.attempt = exec.attempt + 1
            \/ /\ exec'.at \in {"FinalizeReady", "FinalizeMerged", "FinalizeClosed",
                                "FinalizeNeedsHuman"}
               /\ exec'.attempt = exec.attempt
               /\ exec'.at = "FinalizeMerged" => ev.kind = "merged"
               /\ exec'.at = "FinalizeClosed" => ev.kind = "closed"
<1>1. exec \in Execution
  BY BasicFacts
<1>2. CASE MovesOn(ev)
  BY <1>1, <1>2 DEF MovesOn, Execution, Carries
<1>3. CASE StartsGroom(ev)
  BY <1>1, <1>3 DEF StartsGroom, Execution, Carries
<1> QED
  BY <1>2, <1>3, ResumeFacts

LEMMA TimeoutStep ==
  ASSUME Basics, TaskTimeout \/ ParkTimeout
  PROVE  WorkerStep
<1>1. exec' = [exec EXCEPT !.at = "FinalizeNeedsHuman"]
      /\ exec.at \in {"Fix", "Groom", "Parked"}
  BY DEF TaskTimeout, ParkTimeout
<1>2. exec \in Execution /\ "FinalizeNeedsHuman" \in AslState
  BY BasicFacts DEF AslState
<1>3. /\ exec'.at = "FinalizeNeedsHuman" /\ exec'.attempt = exec.attempt
      /\ exec'.ev = exec.ev /\ exec'.brief = exec.brief /\ exec'.clean = exec.clean
  BY <1>1, <1>2, AtFacts
<1>4. row' = row /\ tracked' = tracked /\ pending' = pending /\ prs' = prs /\ Life' = Life
  BY DEF TaskTimeout, ParkTimeout, store, Life
<1> QED
  BY <1>1, <1>3, <1>4 DEF WorkerStep, SameRow, Carries

LEMMA ContainerStep ==
  ASSUME Basics, NEW r \in DOMAIN runs,
         Checkout(r) \/ Push(r) \/ ReportPush(r) \/ ReportNothing(r) \/ Fail(r)
  PROVE  WorkerStep
<1>1. row' = row /\ tracked' = tracked /\ pending' = pending /\ prs' = prs /\ Life' = Life
  BY DEF Checkout, Push, ReportPush, ReportNothing, Fail, store, Life
<1>2. CASE exec' = exec
  BY <1>1, <1>2 DEF WorkerStep, SameRow, Carries
<1>3. CASE GivesUp(r)
  BY <1>1, <1>3, GivesUpFacts DEF WorkerStep, SameRow, Carries
<1>4. CASE ReportPush(r)
  <2>1. CallsBack(r, "pushed") /\ "pushed" \in Outcome
    BY <1>4 DEF ReportPush, Outcome
  <2> QED
    BY <1>1, <2>1, CallsBackFacts DEF WorkerStep, SameRow, Carries
<1>5. CASE ReportNothing(r)
  BY <1>1, <1>5, ReportNothingFacts DEF WorkerStep, SameRow, Carries
<1>6. CASE Checkout(r)
  BY <1>2, <1>6 DEF Checkout
<1>7. CASE Push(r)
  BY <1>2, <1>3, <1>7, PushCases DEF Pushed, Refused
<1>8. CASE Fail(r)
  BY <1>3, <1>8 DEF Fail
<1> QED
  BY <1>4, <1>5, <1>6, <1>7, <1>8

LEMMA StepCases ==
  ASSUME Basics, [Next]_vars
  PROVE  \/ WorkerStep \/ Claim \/ PressStep \/ AfterNothing \/ AfterPushStep \/ ParkStep
         \/ FinalizeStep \/ FeedbackStep \/ SettledStep
<1>1. ASSUME NEW r \in DOMAIN runs,
             Checkout(r) \/ Push(r) \/ ReportPush(r) \/ ReportNothing(r) \/ Fail(r)
      PROVE  WorkerStep
  BY <1>1, ContainerStep
<1>2. CASE OpenPr \/ LosePr \/ RefusePr \/ AnswerPush
  BY <1>2 DEF AfterPushStep, OpenPr, LosePr, RefusePr, AnswerPush
<1>3. CASE Park
  BY <1>3 DEF ParkStep, Park, SameRow, Life
<1>4. CASE Finalizes
  BY <1>4, FinalizesCases DEF FinalizeStep
<1>5. CASE Feedback
  <2>1. row' = row /\ tracked' = tracked /\ prs' = prs /\ Life' = Life
    BY <1>5, FeedbackFacts
  <2> QED
    BY <1>5, <2>1, FeedbackFacts DEF FeedbackStep, SameRow
<1>6. CASE HumanPush
  <2>1. /\ row' = row /\ tracked' = tracked /\ prs' = prs /\ Life' = Life /\ pending' = pending
        /\ exec' = exec
    BY <1>6, HumanPushFacts
  <2> QED
    BY <2>1 DEF WorkerStep, SameRow, Carries
<1>7. CASE \E n \in DOMAIN prs : Merge(n) \/ Close(n)
  BY <1>7, MergeFacts, CloseFacts DEF SettledStep
<1>8. CASE UNCHANGED vars
  BY <1>8 DEF vars, WorkerStep, SameRow, Carries, Life
<1> QED
  BY <1>1, <1>2, <1>3, <1>4, <1>5, <1>6, <1>7, <1>8, TimeoutStep, NextCases DEF PressStep

\* the briefs and the clean flag after a step that is not a claim
LEMMA CarriedOn ==
  ASSUME Basics, [Next]_vars, ~Claim
  PROVE  /\ exec'.brief \in {exec.brief, NoBrief, row.brief} /\ row'.brief = row.brief
         /\ exec'.clean = exec.clean /\ Life' = Life
<1>0. Life' = Life
  BY LifeCases
<1> SUFFICES /\ exec'.brief \in {exec.brief, NoBrief, row.brief} /\ row'.brief = row.brief
             /\ exec'.clean = exec.clean
  BY <1>0
<1>1. exec \in Execution /\ row \in Row
  BY BasicFacts
<1>10. CASE PressStep
  BY <1>10, PressedFacts DEF PressStep, StartFix
<1>2. CASE WorkerStep
  BY <1>2 DEF WorkerStep, SameRow, Carries
<1>3. CASE AfterNothing
  BY <1>3, AfterNothingFacts DEF Over
<1>4. CASE AfterPushStep
  BY <1>4, AfterPushFacts, OpenPrFacts, LosePrFacts, RefusePrFacts, AnswerPushFacts
     DEF AfterPushStep
<1>5. CASE ParkStep
  <2>1. row' = row
    BY <1>5 DEF ParkStep, SameRow
  <2>2. CASE exec' = [exec EXCEPT !.at = "Parked"]
    BY <1>1, <2>1, <2>2 DEF Execution
  <2>3. CASE /\ Head(pending) \in Event /\ Resume(Head(pending))
    BY <2>1, <2>3, ResumeExec DEF Carries
  <2> QED
    BY <1>5, <2>2, <2>3, ParkCases DEF ParkStep
<1>6. CASE FinalizeStep
  <2>1. exec' = [exec EXCEPT !.at = "Park"] \/ exec' = Over(exec.clean)
    BY <1>6 DEF FinalizeStep, Finalize
  <2>2. row'.brief = row.brief
    BY <1>1, <1>6 DEF FinalizeStep, Finalize, Row
  <2> QED
    BY <1>1, <2>1, <2>2 DEF Over, Execution
<1>7. CASE row' = row /\ \E ev \in Event : Deliver(ev)
  BY <1>7, DeliverCases, ResumeExec DEF Carries
<1>8. CASE FeedbackStep \/ SettledStep
  BY <1>7, <1>8, SettledFacts DEF FeedbackStep, SettledStep, SameRow
<1> QED
  BY <1>2, <1>3, <1>4, <1>5, <1>6, <1>8, <1>10, StepCases

Waits == {"Fix", "Groom", "FinalizeNeedsHuman"}

\* Where an execution goes that waits for a container, or that has given it up
LEMMA WaitEnds ==
  ASSUME Basics, [Next]_vars, ~Claim, ~Approve, exec.at \in Waits \cup {"Done"}
  PROVE  \/ exec' = exec \/ exec'.at = "Done"
         \/ exec'.at = "FinalizeNeedsHuman" /\ exec'.run = exec.run /\ exec.at # "Done"
         \/ /\ exec.run \in DOMAIN runs /\ exec.at # "Done"
            /\ runs'[exec.run].pc \in {"pushed", "over"}
<1> USE DEF Waits
<1>0. exec \in Execution
  BY BasicFacts
<1>1. ASSUME NEW r \in DOMAIN runs, GivesUp(r)
      PROVE  \/ exec' = exec
             \/ exec'.at = "FinalizeNeedsHuman" /\ exec'.run = exec.run /\ exec.at # "Done"
  BY <1>1, GivesUpFacts
<1>2. ASSUME NEW r \in DOMAIN runs, ReportPush(r)
      PROVE  exec.run = r /\ exec.at # "Done" /\ runs'[r].pc = "pushed"
  BY <1>2 DEF ReportPush, CallsBack, Awaited
<1>3. ASSUME NEW r \in DOMAIN runs, ReportNothing(r)
      PROVE  exec.run = r /\ exec.at # "Done" /\ runs'[r].pc = "over"
  <2>1. exec.run = r /\ exec.at # "Done"
    BY <1>3 DEF ReportNothing, CallsBack, Awaited
  <2>2. runs' = [runs EXCEPT ![r] = Gone(runs[r])]
    BY <1>3, ReportNothingFacts
  <2>3. Gone(runs[r]).pc = "over"
    BY BasicFacts, GoneFacts
  <2> QED
    BY <2>1, <2>2, <2>3
<1>4. ASSUME NEW r \in DOMAIN runs, Checkout(r) \/ Push(r) \/ Fail(r)
      PROVE  exec' = exec \/ GivesUp(r)
  BY <1>4, PushCases DEF Checkout, Pushed, Refused, Fail
<1>5. CASE TaskTimeout
  BY <1>0, <1>5 DEF TaskTimeout, Execution
<1>6. CASE Finalizes
  BY <1>6 DEF Finalizes, Finalize, Over
<1>7. CASE Feedback \/ \E n \in DOMAIN prs : Merge(n) \/ Close(n)
  BY <1>7, FeedbackFacts, MergeFacts, CloseFacts, SettledFacts, DeliverCases
<1>8. CASE ParkTimeout \/ AfterNothing \/ Park \/ OpenPr \/ LosePr \/ RefusePr \/ AnswerPush
  BY <1>8 DEF ParkTimeout, AfterNothing, Park, OpenPr, LosePr, RefusePr, AnswerPush, AfterPush
<1>9. CASE HumanPush \/ Dismiss \/ UNCHANGED vars
  BY <1>9 DEF HumanPush, Dismiss, vars
<1> QED
  BY <1>1, <1>2, <1>3, <1>4, <1>5, <1>6, <1>7, <1>8, <1>9, NextCases

-----------------------------------------------------------------------------
(* The approval gate                                                        *)

\* A life waits at the gate without a container, and has no execution before
\* it has its first
GateInv ==
  /\ row.status = "awaiting_approval" => Containers(Life) = {}
  /\ Containers(Life) = {} => exec.at = "Done"

LEMMA GateInit == Init => GateInv
  BY DEF Init, GateInv, Containers, Over

\* the container that is waited for is one of the life
LEMMA WaitedFor ==
  ASSUME Basics, exec.at \in {"Fix", "Groom", "AfterRun"}
  PROVE  exec.run \in Containers(Life)
  BY DEF Basics, WaitInv, Containers

\* a life that is over starts no container but at a claim or a press
LEMMA NothingStarts ==
  ASSUME Basics, [Next]_vars, ~Claim, ~Approve, exec.at = "Done"
  PROVE  Containers(Life)' = Containers(Life) /\ exec'.at = "Done"
<1>1. Life' = Life /\ RunsEvolve
  BY LifeCases, Evolves
<1>2. exec'.at = "Done"
  BY WaitEnds DEF Waits
<1>3. DOMAIN runs' = DOMAIN runs
  BY <1>1, <1>2 DEF RunsEvolve
<1> QED
  BY <1>1, <1>2, <1>3 DEF RunsEvolve, Containers

\* no container of a life was started before the claim
LEMMA NothingBefore ==
  ASSUME Basics, NEW r \in DOMAIN runs
  PROVE  runs[r].life # Life + 1
<1>1. RunOK(runs[r]) /\ runs[r].life \in Nat /\ Life \in Nat
  BY BasicFacts DEF Basics, RunsInv, Run
<1> QED
  BY <1>1 DEF RunOK

\* only the claim puts a row at the gate
LEMMA GateReached ==
  ASSUME Basics, [Next]_vars, ~Claim, row'.status = "awaiting_approval"
  PROVE  row.status = "awaiting_approval"
<1>1. row \in Row
  BY BasicFacts
<1>2. CASE WorkerStep \/ ParkStep \/ FeedbackStep \/ SettledStep
  BY <1>2, SettledFacts DEF WorkerStep, ParkStep, FeedbackStep, SettledStep, SameRow
<1>3. CASE PressStep
  BY <1>3, PressedFacts DEF PressStep
<1>4. CASE AfterNothing
  BY <1>4, AfterNothingFacts
<1>5. CASE AfterPushStep
  BY <1>5, OpenPrFacts, LosePrFacts, RefusePrFacts, AnswerPushFacts DEF AfterPushStep
<1>6. CASE FinalizeStep
  BY <1>1, <1>6 DEF FinalizeStep, Finalize, Row
<1> QED
  BY <1>2, <1>3, <1>4, <1>5, <1>6, StepCases

LEMMA GateStep == Basics /\ Basics' /\ GateInv /\ [Next]_vars => GateInv'
<1> SUFFICES ASSUME Basics, Basics', GateInv, [Next]_vars PROVE GateInv'
  OBVIOUS
<1>1. ASSUME exec'.at \in {"Fix", "Groom", "AfterRun"} PROVE Containers(Life)' # {}
  BY <1>1 DEF Basics, WaitInv, Containers
<1>2. CASE Claim
  <2>1. CASE exec' = Over(Opened = {}) /\ runs' = runs
    <3>1. Containers(Life)' = {}
      BY <1>2, <2>1, ClaimFacts, NothingBefore DEF Containers
    <3> QED
      BY <2>1, <3>1 DEF GateInv, Over
  <2>2. ASSUME NEW brief \in BriefMd, StartFix(brief, Life + 1, Opened = {}),
               row'.status = "fixing"
        PROVE  GateInv'
    BY <1>1, <2>2 DEF GateInv, StartFix
  <2> QED
    BY <1>2, <2>1, <2>2, ClaimFacts
<1>3. CASE Approve
  <2>1. row'.status = "fixing" \/ row'.status = "closed"
    BY <1>3, PressedFacts
  <2>2. exec'.at = "Fix"
    BY <1>3 DEF Approve, StartFix
  <2> QED
    BY <1>1, <2>1, <2>2 DEF GateInv
<1>4. CASE ~Claim /\ ~Approve
  <2>1. Life' = Life
    BY <1>4, LifeCases
  <2>2. Containers(Life) \subseteq Containers(Life)'
    BY <2>1, Evolves DEF RunsEvolve, Containers
  <2>3. row'.status = "awaiting_approval" => row.status = "awaiting_approval"
    BY <1>4, GateReached
  <2>4. exec.at = "Done" => Containers(Life)' = Containers(Life) /\ exec'.at = "Done"
    BY <1>4, NothingStarts
  <2> QED
    BY <2>2, <2>3, <2>4 DEF GateInv
<1> QED
  BY <1>2, <1>3, <1>4

LEMMA GateAlways == Spec => [](Basics /\ GateInv)
  BY GateInit, GateStep, BasicsAlways, PTL DEF Spec

-----------------------------------------------------------------------------
(* The pull requests of earlier lives                                       *)

\* the pull requests of the branch, and what a life in review has done
ReviewInv ==
  /\ Opened # {} => branch # 0 /\ branch \notin log[main].past
  /\ \A m, n \in Opened : m = n
  /\ exec.at \in Reviewed => Pushers # {}
  /\ (\E r \in DOMAIN runs : runs[r].kind = "groom" /\ runs[r].life = Life) => Pushers # {}
  /\ OlderPrUntouched

\* what a life has pushed, it has pushed
LEMMA PushersKept ==
  ASSUME Basics, [Next]_vars, Life' = Life
  PROVE  Pushers \subseteq Pushers'
  BY Evolves DEF RunsEvolve, Pushers, Containers

\* where the fix of the current life started from is not forgotten
LEMMA OutsideKept ==
  ASSUME Basics, [Next]_vars, Life' = Life, ~Outside'
  PROVE  ~Outside
  BY Evolves DEF RunsEvolve, Outside, Containers

LEMMA PushersNew ==
  ASSUME Basics, [Next]_vars, NEW r \in Pushers', Life' = Life
  PROVE  r \in DOMAIN runs /\ runs[r].life = Life /\ (r \in Pushers \/ Pushed(r))
  BY Evolves DEF RunsEvolve, Pushers, Containers

LEMMA PushersOfClaim ==
  ASSUME Basics, [Next]_vars, Life' = Life + 1
  PROVE  /\ Pushers' = {}
         /\ ~ \E r \in DOMAIN runs' : runs'[r].kind = "groom" /\ runs'[r].life = Life'
<1>1. \A r \in DOMAIN runs : runs[r].life # Life + 1
  BY NothingBefore
<1>2. Life' # Life
  BY BasicFacts
<1>3. \A r \in DOMAIN runs' : runs'[r].life = Life + 1 =>
        r \notin DOMAIN runs /\ runs'[r].pc # "pushed" /\ runs'[r].kind # "groom"
  <2> TAKE r \in DOMAIN runs'
  <2>1. r \in DOMAIN runs => runs'[r].life = runs[r].life
    BY Evolves DEF RunsEvolve
  <2> QED
    BY <1>1, <1>2, <2>1, Evolves DEF RunsEvolve
<1> QED
  BY <1>3 DEF Pushers, Containers

LEMMA ReviewInit == Init => ReviewInv
  BY DEF Init, ReviewInv, Opened, OlderPrUntouched, Over, Reviewed

LEMMA OpenedSettled ==
  ASSUME Basics, ReviewInv, NEW n, NEW state \in {"merged", "closed"}, Settled(n, state)
  PROVE  Opened' = {}
<1>1. /\ n \in Opened /\ DOMAIN prs' = DOMAIN prs
      /\ \A k \in DOMAIN prs : k # n => prs'[k] = prs[k]
      /\ prs'[n].state = state
  BY SettledFacts
<1>2. \A k \in DOMAIN prs : k # n => prs[k].state # "open"
  BY <1>1 DEF ReviewInv, Opened
<1> QED
  BY <1>1, <1>2 DEF Opened

LEMMA OpenedNew ==
  ASSUME Basics, OpenedPr, OpenedFacts
  PROVE  Opened' = {Len(prs) + 1}
<1>1. Opened = {}
  BY DEF OpenedPr, CanOpen
<1>2. \A k \in DOMAIN prs : prs[k].state # "open"
  BY <1>1 DEF Opened
<1> DEFINE new == Len(prs) + 1
<1>3. /\ DOMAIN prs' = DOMAIN prs \cup {new} /\ new \notin DOMAIN prs
      /\ \A n \in DOMAIN prs : prs'[n] = prs[n]
      /\ prs'[new].state = "open"
  BY DEF OpenedFacts
<1> HIDE DEF new
<1>4. Opened' = {new}
  BY <1>2, <1>3 DEF Opened
<1> QED
  BY <1>4 DEF new

LEMMA NewCommitIsNew ==
  ASSUME Basics
  PROVE  NewCommit # 0 /\ NewCommit \notin DOMAIN log /\ NewCommit \notin log[main].past
  BY BasicFacts DEF NewCommit

\* the branch an open pull request is for exists and is not merged yet
LEMMA BranchOpen ==
  ASSUME Basics, ReviewInv, [Next]_vars, Opened' # {}
  PROVE  branch' # 0 /\ branch' \notin log'[main'].past
<1>1. CASE prs' = prs /\ main' = main /\ branch' \in {branch, NewCommit}
  <2>1. Opened' = Opened
    BY <1>1 DEF Opened
  <2>2. log'[main'].past = log[main].past
    BY <1>1, RepoCases, BasicFacts DEF Grows
  <2> QED
    BY <1>1, <2>1, <2>2, NewCommitIsNew DEF ReviewInv
<1>2. CASE OpenedPr /\ UNCHANGED repo
  BY <1>2 DEF OpenedPr, CanOpen, repo
<1>3. ASSUME NEW n \in DOMAIN prs, NEW state \in {"merged", "closed"}, Settled(n, state)
      PROVE  FALSE
  BY <1>3, OpenedSettled
<1> QED
  BY <1>1, <1>2, <1>3, PrCases

\* a fix from the default branch cannot push past an open pull request, and a
\* groom run has a push of its life before it
LEMMA NoPushPast ==
  ASSUME Basics, ReviewInv, NEW r \in DOMAIN runs, Pushed(r), runs[r].life = Life, ~Outside,
         NEW n \in Opened, prs[n].life # Life
  PROVE  FALSE
<1>1. Pushers = {} /\ branch # 0 /\ branch \notin log[main].past
  BY DEF ReviewInv, OlderPrUntouched
<1>2. runs[r].kind = "fix" /\ runs[r].pc = "working" /\ ~runs[r].outside
  <2>1. runs[r].kind # "groom"
    BY <1>1 DEF ReviewInv
  <2> QED
    BY <2>1, BasicFacts DEF Run, Pushed, Outside, Containers
<1>3. runs[r].head \in log[main].past
  BY <1>2 DEF Basics, RunsInv, RunOK
<1>4. log[runs[r].head].past \subseteq log[main].past
  BY <1>3, BasicFacts
<1>5. branch \in log[runs[r].head].past
  BY <1>1 DEF Pushed, PushAccepted
<1> QED
  BY <1>1, <1>4, <1>5

\* an open pull request of an earlier life was open before
LEMMA OlderWasOpen ==
  ASSUME Basics, ReviewInv, [Next]_vars, NEW n \in Opened', prs'[n].life # Life'
  PROVE  n \in Opened /\ (Life' = Life => prs[n].life # Life)
<1>1. CASE prs' = prs
  BY <1>1 DEF Opened
<1>2. CASE OpenedPr /\ OpenedFacts /\ Life' = Life
  <2>1. n = Len(prs) + 1
    BY <1>2, OpenedNew
  <2> QED
    BY <1>2, <2>1 DEF OpenedFacts
<1>3. ASSUME NEW k \in DOMAIN prs, NEW state \in {"merged", "closed"}, Settled(k, state)
      PROVE  FALSE
  BY <1>3, OpenedSettled
<1> QED
  BY <1>1, <1>2, <1>3, PrCases

LEMMA ReviewStep == Basics /\ ReviewInv /\ [Next]_vars => ReviewInv'
<1> SUFFICES ASSUME Basics, ReviewInv, [Next]_vars PROVE ReviewInv'
  OBVIOUS
<1>1. Opened' # {} => branch' # 0 /\ branch' \notin log'[main'].past
  BY BranchOpen
<1>2. \A m, n \in Opened' : m = n
  <2>1. CASE prs' = prs
    BY <2>1 DEF ReviewInv, Opened
  <2>2. CASE OpenedPr /\ OpenedFacts
    BY <2>2, OpenedNew
  <2>3. CASE \E n \in DOMAIN prs, state \in {"merged", "closed"} : Settled(n, state)
    BY <2>3, OpenedSettled
  <2> QED
    BY <2>1, <2>2, <2>3, PrCases
<1>3. exec'.at \in Reviewed => Pushers' # {}
  <2> SUFFICES ASSUME exec'.at \in Reviewed PROVE Pushers' # {}
    OBVIOUS
  <2>1. Life' = Life /\ (exec.at \in Reviewed \/ HasPushed)
    BY ReviewCases
  <2>2. HasPushed => exec.run \in Pushers
    BY DEF HasPushed, Basics, WaitInv, Pushers, Containers
  <2>3. Pushers # {}
    BY <2>1, <2>2 DEF ReviewInv
  <2> QED
    BY <2>1, <2>3, PushersKept
<1>4. (\E r \in DOMAIN runs' : runs'[r].kind = "groom" /\ runs'[r].life = Life') => Pushers' # {}
  <2> SUFFICES ASSUME NEW r \in DOMAIN runs', runs'[r].kind = "groom", runs'[r].life = Life'
               PROVE  Pushers' # {}
    OBVIOUS
  <2>1. Life' = Life
    BY LifeCases, PushersOfClaim
  <2>2. CASE r \in DOMAIN runs
    <3>1. runs[r].kind = "groom" /\ runs[r].life = Life
      BY <2>1, <2>2, Evolves DEF RunsEvolve
    <3> QED
      BY <2>1, <2>2, <3>1, PushersKept DEF ReviewInv
  <2>3. CASE r \notin DOMAIN runs
    <3>1. exec.at \in {"Park", "Parked"}
      BY <2>3, Evolves DEF RunsEvolve
    <3> QED
      BY <2>1, <3>1, PushersKept DEF ReviewInv, Reviewed
  <2> QED
    BY <2>2, <2>3
<1>5. OlderPrUntouched'
  <2> SUFFICES ASSUME NEW n \in Opened', prs'[n].life # Life', ~Outside', NEW r \in Pushers'
               PROVE  FALSE
    BY DEF OlderPrUntouched
  <2>1. Life' = Life
    BY LifeCases, PushersOfClaim
  <2>2. n \in Opened /\ prs[n].life # Life /\ ~Outside
    BY <2>1, OlderWasOpen, OutsideKept
  <2>3. r \in DOMAIN runs /\ runs[r].life = Life /\ (r \in Pushers \/ Pushed(r))
    BY <2>1, PushersNew
  <2>4. r \notin Pushers
    BY <2>2 DEF ReviewInv, OlderPrUntouched
  <2> QED
    BY <2>2, <2>3, <2>4, NoPushPast
<1> QED
  BY <1>1, <1>2, <1>3, <1>4, <1>5 DEF ReviewInv

LEMMA ReviewAlways == Spec => [](Basics /\ ReviewInv)
<1>1. Init => Basics /\ ReviewInv
  BY BasicsInit, ReviewInit
<1>2. (Basics /\ ReviewInv) /\ [Next]_vars => (Basics /\ ReviewInv)'
  BY BasicsStep, ReviewStep
<1> QED
  BY <1>1, <1>2, PTL DEF Spec

(* As long as a pull request of an earlier life is open, no container of    *)
(* the current life has pushed, if its fix started from a commit of the     *)
(* default branch: the branch of an open pull request is in no history      *)
(* there, and a groom run has a push of its own life before it.             *)
THEOREM OlderPrsUntouched == Spec => []OlderPrUntouched
<1>1. ReviewInv => OlderPrUntouched
  BY DEF ReviewInv
<1> QED
  BY <1>1, ReviewAlways, PTL

-----------------------------------------------------------------------------
(* One container at a time                                                  *)

\* A container at work is the one its life waits for, or stopped waiting for to
\* end, or its life is over
AloneInv ==
  /\ WorksAlone
  /\ \A r \in AtWork : runs[r].life = Life /\ exec.at # "Done" => r = exec.run /\ exec.at \in Waits

LEMMA AloneStep == Basics /\ GateInv /\ AloneInv /\ [Next]_vars => AloneInv'
<1> SUFFICES ASSUME Basics, GateInv, AloneInv, [Next]_vars PROVE AloneInv'
  OBVIOUS
<1>0. RunsEvolve
  BY Evolves
<1>1. ASSUME NEW r \in AtWork', r \in DOMAIN runs
      PROVE  r \in AtWork /\ runs'[r].life = runs[r].life
  BY <1>0, <1>1 DEF RunsEvolve, AtWork, Works
<1>2. ASSUME NEW r \in AtWork', r \notin DOMAIN runs
      PROVE  /\ runs'[r].life = Life' /\ r = exec'.run /\ exec'.at \in {"Fix", "Groom"}
             /\ \A s \in AtWork : runs[s].life # Life'
  <2>1. /\ runs'[r].life = Life' /\ r = exec'.run /\ exec'.at \in {"Fix", "Groom"}
        /\ Claim \/ Approve \/ exec.at \in {"Park", "Parked"}
    BY <1>0, <1>2 DEF RunsEvolve, AtWork
  <2>2. ASSUME NEW s \in AtWork PROVE runs[s].life # Life'
    <3>1. CASE Life' = Life /\ exec.at \in {"Park", "Parked"}
      BY <3>1 DEF AloneInv, Waits
    <3>2. CASE Life' = Life + 1
      BY <3>2, NothingBefore DEF AtWork
    <3>3. CASE Approve
      BY <3>3, PressedFacts DEF GateInv, Containers, AtWork
    <3>4. Claim => Life' = Life + 1
      BY ClaimFacts
    <3> QED
      BY <2>1, <3>1, <3>2, <3>3, <3>4, LifeCases
  <2> QED
    BY <2>1, <2>2
<1>3. WorksAlone'
  <2> SUFFICES ASSUME NEW r \in AtWork', NEW s \in AtWork', runs'[r].life = runs'[s].life
               PROVE  r = s
    BY DEF WorksAlone
  <2>1. CASE r \in DOMAIN runs /\ s \in DOMAIN runs
    BY <1>1, <2>1 DEF AloneInv, WorksAlone
  <2>2. CASE r \notin DOMAIN runs \/ s \notin DOMAIN runs
    BY <1>1, <1>2, <2>2
  <2> QED
    BY <2>1, <2>2
<1>4. ASSUME NEW r \in AtWork', runs'[r].life = Life', exec'.at # "Done"
      PROVE  r = exec'.run /\ exec'.at \in Waits
  <2>1. CASE r \notin DOMAIN runs
    BY <1>2, <2>1 DEF Waits
  <2>2. CASE r \in DOMAIN runs
    <3>1. r \in AtWork /\ runs[r].life = Life' /\ runs[r].life <= Life
      BY <1>1, <1>4, <2>2 DEF Basics, RunsInv, RunOK
    <3>2. ~Claim /\ ~Approve /\ Life' = Life
      <4>1. Claim => Life' = Life + 1
        BY ClaimFacts
      <4>2. Life \in Nat /\ Life' # Life + 1
        BY <3>1, BasicFacts
      <4>3. Life' = Life
        BY <4>1, <4>2, LifeCases
      <4>4. Approve => Containers(Life) = {}
        BY PressedFacts DEF GateInv
      <4> QED
        BY <3>1, <4>1, <4>2, <4>3, <4>4 DEF Containers, AtWork
    <3>3. exec.at = "Done" \/ (r = exec.run /\ exec.at \in Waits)
      BY <3>1, <3>2 DEF AloneInv
    <3>4. runs'[r].pc \notin {"pushed", "over"}
      BY DEF AtWork
    <3> QED
      BY <1>4, <3>2, <3>3, <3>4, WaitEnds DEF Waits
  <2> QED
    BY <2>1, <2>2
<1> QED
  BY <1>3, <1>4 DEF AloneInv

(* A life has one container at work at any time: a second one is started    *)
(* only by an execution whose last run has reported, and an execution that  *)
(* has stopped waiting for its container starts no other                    *)
(* (statemachine/issue.asl.json, Catch of Fix and Groom).                   *)
THEOREM LivesWorkAlone == Spec => []WorksAlone
<1>1. Init => AloneInv
  BY DEF Init, AloneInv, WorksAlone, AtWork
<1>2. AloneInv => WorksAlone
  BY DEF AloneInv
<1>3. (Basics /\ GateInv) /\ AloneInv /\ [Next]_vars => AloneInv'
  BY AloneStep
<1> QED
  BY <1>1, <1>2, <1>3, GateAlways, PTL DEF Spec

-----------------------------------------------------------------------------
(* Whose pull request is whose                                              *)

IdentInv ==
  /\ \A n \in DOMAIN prs : prs[n].life <= Life
  /\ row.pr # 0 => row.pr \in OwnPrs \cap tracked /\ \A n \in tracked : n <= row.pr
  /\ OwnPrs \cap tracked \subseteq {row.pr}
  /\ LivesAreSeparate

LEMMA IdentInit == Init => IdentInv
  BY DEF Init, IdentInv, OwnPrs, LivesAreSeparate, Over, NoBrief

LEMMA IdentKept ==
  ASSUME IdentInv, DOMAIN prs' = DOMAIN prs,
         \A n \in DOMAIN prs : prs'[n].life = prs[n].life,
         tracked' = tracked, Life' = Life, row'.pr = row.pr, row'.brief = row.brief,
         exec'.brief \in {exec.brief, NoBrief, row.brief}
  PROVE  IdentInv'
<1>1. OwnPrs' = OwnPrs
  BY DEF OwnPrs
<1>2. exec'.brief.prev \in {exec.brief.prev, 0, row.brief.prev}
      /\ row'.brief.prev = row.brief.prev
  BY DEF NoBrief
<1>3. LivesAreSeparate'
  BY <1>1, <1>2 DEF IdentInv, LivesAreSeparate
<1>4. \A n \in DOMAIN prs' : prs'[n].life <= Life'
  BY DEF IdentInv
<1> QED
  BY <1>1, <1>3, <1>4 DEF IdentInv

LEMMA IdentOpened ==
  ASSUME Basics, IdentInv, OpenedPr, OpenedFacts, Life' = Life, row'.brief = row.brief,
         exec'.brief \in {exec.brief, NoBrief, row.brief},
         \/ tracked' = tracked /\ row'.pr = 0
         \/ tracked' = tracked \cup {Len(prs) + 1} /\ row'.pr = Len(prs) + 1
  PROVE  IdentInv'
<1> DEFINE new == Len(prs) + 1
<1>1. /\ DOMAIN prs' = DOMAIN prs \cup {new} /\ new \notin DOMAIN prs
      /\ \A n \in DOMAIN prs : prs'[n] = prs[n]
      /\ prs'[new].life = Life /\ row.pr = 0 /\ new # 0
      /\ \/ tracked' = tracked /\ row'.pr = 0
         \/ tracked' = tracked \cup {new} /\ row'.pr = new
  BY SMTT(30), BasicFacts DEF OpenedFacts, OpenedPr
<1>2. /\ tracked \subseteq DOMAIN prs /\ 0 \notin DOMAIN prs /\ Life \in Nat
      /\ \A n \in DOMAIN prs : n <= new
      /\ new <= new
  BY BasicFacts
<1> HIDE DEF new
<1>3. OwnPrs' = OwnPrs \cup {new} /\ OwnPrs \subseteq DOMAIN prs
  BY <1>1 DEF OwnPrs
<1>4. OwnPrs \cap tracked = {}
  BY <1>1, <1>2, <1>3 DEF IdentInv
<1>5. \A n \in DOMAIN prs' : prs'[n].life <= Life'
  BY <1>1, <1>2 DEF IdentInv
<1>6. row'.pr # 0 => row'.pr \in OwnPrs' \cap tracked' /\ \A n \in tracked' : n <= row'.pr
  BY <1>1, <1>2, <1>3
<1>7. OwnPrs' \cap tracked' \subseteq {row'.pr}
  BY <1>1, <1>2, <1>3, <1>4
<1>8. LivesAreSeparate'
  <2>1. exec'.brief.prev \in {exec.brief.prev, 0, row.brief.prev}
        /\ row'.brief.prev = row.brief.prev
    BY DEF NoBrief
  <2>2. tracked' \ OwnPrs' = tracked \ OwnPrs
    BY <1>1, <1>2, <1>3
  <2> QED
    BY <1>6, <2>1, <2>2 DEF IdentInv, LivesAreSeparate
<1> QED
  BY <1>5, <1>6, <1>7, <1>8 DEF IdentInv

LEMMA ClaimIdent ==
  ASSUME Basics, IdentInv, Claim
  PROVE  IdentInv'
<1>1. Life' = Life + 1 /\ prs' = prs /\ tracked' = tracked /\ row'.pr = 0 /\ Life \in Nat
  BY BasicFacts, ClaimFacts
<1>2. OwnPrs' = {}
  <2>1. \A n \in DOMAIN prs : prs[n].life # Life + 1
    <3> TAKE n \in DOMAIN prs
    <3>1. prs[n] \in PullRequest /\ prs[n].life <= Life
      BY BasicFacts DEF IdentInv
    <3>2. prs[n].life \in Nat
      BY <3>1 DEF PullRequest
    <3> QED
      BY <1>1, <3>1, <3>2
  <2> QED
    BY <1>1, <2>1 DEF OwnPrs
<1>3. exec'.brief.prev \in {0, row.pr} /\ row'.brief.prev \in {0, row.pr}
  BY ClaimFacts DEF StartFix, Over, NoBrief
<1>4. LivesAreSeparate'
  BY <1>1, <1>2, <1>3 DEF IdentInv, LivesAreSeparate
<1>5. \A n \in DOMAIN prs' : prs'[n].life <= Life'
  <2> TAKE n \in DOMAIN prs'
  <2>1. prs[n] \in PullRequest /\ prs[n].life <= Life /\ prs'[n] = prs[n]
    BY <1>1, BasicFacts DEF IdentInv
  <2>2. prs[n].life \in Nat
    BY <2>1 DEF PullRequest
  <2> QED
    BY <1>1, <2>1, <2>2
<1> QED
  BY <1>1, <1>2, <1>4, <1>5 DEF IdentInv

LEMMA IdentStep == Basics /\ IdentInv /\ [Next]_vars => IdentInv'
<1> SUFFICES ASSUME Basics, IdentInv, [Next]_vars, ~Claim PROVE IdentInv'
  BY ClaimIdent
<1>1. /\ exec'.brief \in {exec.brief, NoBrief, row.brief} /\ row'.brief = row.brief
      /\ Life' = Life
  BY CarriedOn
<1>7. CASE PressStep
  <2>1. row'.pr = row.pr /\ prs' = prs /\ tracked' = tracked
    BY <1>7, PressedFacts DEF PressStep
  <2> QED
    BY <1>1, <2>1, IdentKept
<1>2. CASE WorkerStep \/ ParkStep \/ FeedbackStep
  BY <1>1, <1>2, IdentKept DEF WorkerStep, ParkStep, FeedbackStep, SameRow
<1>3. CASE AfterNothing
  <2>1. row'.pr = row.pr /\ prs' = prs /\ tracked' = tracked
    BY <1>3, AfterNothingFacts
  <2> QED
    BY <1>1, <2>1, IdentKept
<1>4. CASE FinalizeStep
  <2>1. row \in Row
    BY BasicFacts
  <2>2. row'.pr = row.pr /\ prs' = prs /\ tracked' = tracked
    BY <1>4, <2>1 DEF FinalizeStep, Finalize, Row
  <2> QED
    BY <1>1, <2>2, IdentKept
<1>5. CASE SettledStep
  <2>1. PICK n \in DOMAIN prs, state \in {"merged", "closed"} : Settled(n, state)
    BY <1>5 DEF SettledStep
  <2>2. /\ DOMAIN prs' = DOMAIN prs /\ row' = row /\ tracked' = tracked
        /\ \A k \in DOMAIN prs : prs'[k].life = prs[k].life
    BY <2>1, SettledFacts
  <2> QED
    BY <1>1, <2>2, IdentKept
<1>6. CASE AfterPushStep
  <2>1. CASE OpenPr
    BY <1>1, <2>1, OpenPrFacts, IdentOpened
  <2>2. CASE LosePr
    BY <1>1, <2>2, LosePrFacts, IdentOpened
  <2>3. CASE RefusePr
    <3>1. row'.pr = row.pr /\ prs' = prs /\ tracked' = tracked
      BY <2>3, RefusePrFacts
    <3> QED
      BY <1>1, <3>1, IdentKept
  <2>4. CASE AnswerPush
    <3>1. row'.pr = row.pr /\ prs' = prs /\ tracked' = tracked
      BY <2>4, AnswerPushFacts
    <3> QED
      BY <1>1, <3>1, IdentKept
  <2> QED
    BY <1>6, <2>1, <2>2, <2>3, <2>4 DEF AfterPushStep
<1> QED
  BY <1>2, <1>3, <1>4, <1>5, <1>6, <1>7, StepCases

LEMMA IdentAlways == Spec => []IdentInv
  BY IdentInit, IdentStep, BasicsAlways, PTL DEF Spec

(* The row names no pull request but one of its own life, and the brief of  *)
(* a life, with the execution or at the gate, names as the previous fix     *)
(* only one of an earlier life, the latest that was tracked.                *)
THEOREM LivesAlwaysSeparate == Spec => []LivesAreSeparate
<1>1. IdentInv => LivesAreSeparate
  BY DEF IdentInv
<1> QED
  BY <1>1, IdentAlways, PTL

-----------------------------------------------------------------------------
(* Who settles a life                                                       *)

\* an event that settles the issue is about the pull request of the row
Own(ev) ==
  ev.kind \in {"merged", "closed"} =>
    ev.pr = row.pr /\ ev.pr \in OwnPrs /\ prs[ev.pr].state = ev.kind

CleanInv ==
  /\ exec.clean => Opened \subseteq OwnPrs
  /\ exec.clean => \A i \in DOMAIN pending : Own(pending[i])
  /\ exec.clean /\ exec.at \in {"FinalizeMerged", "FinalizeClosed"} => Own(exec.ev)
  /\ exec.at = "FinalizeMerged" => exec.ev.kind = "merged"
  /\ exec.at = "FinalizeClosed" => exec.ev.kind = "closed"
  /\ SettledByOwnPr

LEMMA CleanInit == Init => CleanInv
  BY DEF Init, CleanInv, Opened, Over, SettledByOwnPr

\* nothing that has happened to a pull request is undone, and a row changes
\* its pull request once
LEMMA Ledger ==
  ASSUME Basics, [Next]_vars, ~Claim
  PROVE  /\ \A n \in DOMAIN prs :
              /\ n \in DOMAIN prs' /\ prs'[n].life = prs[n].life
              /\ prs[n].state # "open" => prs'[n] = prs[n]
         /\ row'.pr = row.pr \/ row.pr = 0
         /\ OwnPrs \subseteq OwnPrs'
<1>1. \A n \in DOMAIN prs :
        /\ n \in DOMAIN prs' /\ prs'[n].life = prs[n].life
        /\ prs[n].state # "open" => prs'[n] = prs[n]
  <2>1. CASE prs' = prs
    BY <2>1
  <2>2. CASE OpenedFacts
    BY <2>2 DEF OpenedFacts
  <2>3. CASE \E n \in DOMAIN prs, state \in {"merged", "closed"} : Settled(n, state)
    <3>1. PICK n \in DOMAIN prs, state \in {"merged", "closed"} : Settled(n, state)
      BY <2>3
    <3> QED
      BY <3>1, SettledFacts
  <2> QED
    BY <2>1, <2>2, <2>3, PrCases
<1>2. row'.pr = row.pr \/ row.pr = 0
  <2>1. row \in Row
    BY BasicFacts
  <2>2. CASE WorkerStep \/ ParkStep \/ FeedbackStep
    BY <2>2 DEF WorkerStep, ParkStep, FeedbackStep, SameRow
  <2>7. CASE PressStep
    BY <2>7, PressedFacts DEF PressStep
  <2>3. CASE AfterNothing
    BY <2>3, AfterNothingFacts
  <2>4. CASE AfterPushStep
    BY <2>4, AnswerPushFacts DEF AfterPushStep, OpenPr, LosePr, RefusePr
  <2>5. CASE FinalizeStep
    BY <2>1, <2>5 DEF FinalizeStep, Finalize, Row
  <2>6. CASE SettledStep
    BY <2>6, SettledFacts DEF SettledStep
  <2> QED
    BY <2>2, <2>3, <2>4, <2>5, <2>6, <2>7, StepCases
<1>3. OwnPrs \subseteq OwnPrs'
  BY <1>1, CarriedOn DEF OwnPrs
<1> QED
  BY <1>1, <1>2, <1>3

LEMMA OwnKept ==
  ASSUME Basics, [Next]_vars, ~Claim, NEW ev, Own(ev)
  PROVE  ev.kind \in {"merged", "closed"} =>
           ev.pr = row'.pr /\ ev.pr \in OwnPrs' /\ prs'[ev.pr].state = ev.kind
<1> SUFFICES ASSUME ev.kind \in {"merged", "closed"}
             PROVE  ev.pr = row'.pr /\ ev.pr \in OwnPrs' /\ prs'[ev.pr].state = ev.kind
  OBVIOUS
<1>1. ev.pr = row.pr /\ ev.pr \in OwnPrs /\ prs[ev.pr].state = ev.kind
  BY DEF Own
<1>2. ev.pr \in DOMAIN prs /\ ev.pr # 0
  BY <1>1, BasicFacts DEF OwnPrs
<1>3. prs[ev.pr].state # "open"
  BY <1>1
<1> QED
  BY <1>1, <1>2, <1>3, Ledger

\* the event of a merge or a close that a tracked pull request sends
LEMMA OwnSettled ==
  ASSUME Basics, IdentInv, CleanInv, exec.clean,
         NEW n, NEW state \in {"merged", "closed"}, Settled(n, state), Tracked(n)
  PROVE  n = row'.pr /\ n \in OwnPrs' /\ prs'[n].state = state
<1>1. /\ n \in Opened /\ prs'[n].state = state /\ row' = row /\ Life' = Life
      /\ DOMAIN prs' = DOMAIN prs /\ prs'[n].life = prs[n].life /\ n \in DOMAIN prs
  BY SettledFacts
<1>2. n \in OwnPrs /\ n # 0
  BY <1>1, BasicFacts DEF CleanInv
<1>3. n \in tracked
  BY <1>2 DEF Tracked
<1> QED
  BY <1>1, <1>2, <1>3 DEF IdentInv, OwnPrs

LEMMA ClaimClean ==
  ASSUME Basics, Claim
  PROVE  CleanInv'
<1>1. /\ pending' = <<>> /\ prs' = prs
      /\ row'.status \in {"fixing", "rca_only", "awaiting_approval"}
      /\ exec'.at \in {"Done", "Fix"}
  BY ClaimFacts DEF StartFix, Over
<1>2. exec'.clean => Opened = {}
  <2>1. exec'.clean = (Opened = {})
    BY ClaimFacts DEF StartFix, Over
  <2> QED
    BY <2>1, Zenon
<1>3. Opened' = Opened
  BY <1>1 DEF Opened
<1>4. exec'.clean => Opened' \subseteq OwnPrs'
  BY <1>2, <1>3
<1> QED
  BY <1>1, <1>4 DEF CleanInv, SettledByOwnPr

LEMMA CleanOpened ==
  ASSUME Basics, ReviewInv, CleanInv, [Next]_vars, ~Claim, exec'.clean
  PROVE  Opened' \subseteq OwnPrs'
<1>1. exec.clean /\ Life' = Life /\ OwnPrs \subseteq OwnPrs'
  BY CarriedOn, Ledger
<1>2. CASE prs' = prs
  BY <1>1, <1>2 DEF CleanInv, Opened
<1>3. CASE OpenedPr /\ OpenedFacts
  BY <1>1, <1>3, OpenedNew DEF OpenedFacts, OwnPrs
<1>4. CASE \E n \in DOMAIN prs, state \in {"merged", "closed"} : Settled(n, state)
  BY <1>4, OpenedSettled
<1> QED
  BY <1>2, <1>3, <1>4, PrCases

\* the events that a step may go on with, and those it may queue
LEMMA EventCases ==
  ASSUME Basics, IdentInv, CleanInv, [Next]_vars, ~Claim
  PROVE  \/ pending' = pending /\ exec'.ev = exec.ev
            /\ (exec'.at = exec.at \/ exec'.at \notin {"FinalizeMerged", "FinalizeClosed"})
         \/ /\ pending # <<>> /\ pending' = Tail(pending) /\ Resume(Head(pending))
            /\ Head(pending) \in Event
         \/ exec'.at \notin {"FinalizeMerged", "FinalizeClosed"} /\ pending' = pending
         \/ \E ev \in Event :
              /\ \/ pending' = pending /\ Resume(ev)
                 \/ pending' = Append(pending, ev) /\ exec' = exec
              /\ exec.clean /\ ev.kind \in {"merged", "closed"} =>
                   ev.pr = row'.pr /\ ev.pr \in OwnPrs' /\ prs'[ev.pr].state = ev.kind
<1>1. exec \in Execution
  BY BasicFacts
<1>2. CASE WorkerStep
  BY <1>2 DEF WorkerStep
<1>8. CASE PressStep
  <2>1. pending' = pending /\ (exec' = exec \/ exec'.at = "Fix")
    BY <1>8, PressedFacts DEF PressStep, StartFix
  <2> QED
    BY <2>1
<1>3. CASE AfterNothing \/ AfterPushStep
  <2>1. exec'.at \in {"Done", "Park"} /\ pending' = pending
    BY <1>1, <1>3 DEF AfterNothing, AfterPushStep, AfterPush, Over, Execution
  <2> QED
    BY <2>1
<1>4. CASE FinalizeStep
  <2>1. exec'.at \in {"Done", "Park"} /\ pending' = pending
    BY <1>1, <1>4 DEF FinalizeStep, Finalize, Over, Execution
  <2> QED
    BY <2>1
<1>5. CASE ParkStep
  <2>1. CASE exec' = [exec EXCEPT !.at = "Parked"] /\ UNCHANGED <<pending, runs>>
    <3>1. exec'.at = "Parked" /\ pending' = pending
      BY <1>1, <2>1 DEF Execution
    <3> QED
      BY <3>1
  <2> QED
    BY <1>5, <2>1, ParkCases DEF ParkStep
<1>6. CASE FeedbackStep
  <2>1. PICK ev \in Event : Deliver(ev) /\ ev.kind \in CiKind \cup {"review", "comment"}
    BY <1>6 DEF FeedbackStep
  <2>2. ev.kind \notin {"merged", "closed"}
    BY <2>1 DEF CiKind
  <2> QED
    BY <2>1, <2>2, DeliverCases
<1>7. CASE SettledStep
  <2>1. PICK n \in DOMAIN prs, state \in {"merged", "closed"} : Settled(n, state)
    BY <1>7 DEF SettledStep
  <2> DEFINE ev == [kind |-> state, pr |-> n, ids |-> {}]
  <2>2. ev \in Event /\ Deliver(ev) /\ ev.pr = n /\ ev.kind = state
    BY <2>1, SettledFacts
  <2> HIDE DEF ev
  <2>3. CASE pending' = pending /\ exec' = exec
    BY <2>3
  <2>4. CASE Tracked(ev.pr)
    <3>1. exec.clean => ev.pr = row'.pr /\ ev.pr \in OwnPrs' /\ prs'[ev.pr].state = ev.kind
      BY <2>1, <2>2, <2>4, OwnSettled
    <3> QED
      BY <2>2, <3>1, DeliverCases
  <2> QED
    BY <2>2, <2>3, <2>4, DeliverCases
<1> QED
  BY <1>2, <1>3, <1>4, <1>5, <1>6, <1>7, <1>8, StepCases

LEMMA CleanQueue ==
  ASSUME Basics, IdentInv, CleanInv, [Next]_vars, ~Claim, exec'.clean,
         NEW i \in DOMAIN pending'
  PROVE  Own(pending[i])'
<1>1. exec.clean /\ pending \in Seq(Event)
  BY CarriedOn, BasicFacts
<1>2. ASSUME NEW ev, ev = pending'[i],
             Own(ev) \/ (ev.kind \in {"merged", "closed"} =>
                           ev.pr = row'.pr /\ ev.pr \in OwnPrs' /\ prs'[ev.pr].state = ev.kind)
      PROVE  Own(pending[i])'
  BY <1>2, OwnKept DEF Own
<1>3. CASE pending' = pending
  BY <1>1, <1>2, <1>3 DEF CleanInv
<1>4. CASE pending # <<>> /\ pending' = Tail(pending)
  <2>1. i + 1 \in DOMAIN pending /\ pending'[i] = pending[i + 1]
    BY <1>1, <1>4
  <2>2. Own(pending[i + 1])
    BY <1>1, <2>1 DEF CleanInv
  <2> QED
    BY <1>2, <2>1, <2>2
<1>5. ASSUME NEW ev \in Event, pending' = Append(pending, ev),
             ev.kind \in {"merged", "closed"} =>
               ev.pr = row'.pr /\ ev.pr \in OwnPrs' /\ prs'[ev.pr].state = ev.kind
      PROVE  Own(pending[i])'
  <2>1. (i \in DOMAIN pending /\ pending'[i] = pending[i]) \/ pending'[i] = ev
    BY <1>1, <1>5
  <2>2. CASE i \in DOMAIN pending /\ pending'[i] = pending[i]
    BY <1>1, <1>2, <2>2 DEF CleanInv
  <2>3. CASE pending'[i] = ev
    BY <1>2, <1>5, <2>3
  <2> QED
    BY <2>1, <2>2, <2>3
<1> QED
  BY <1>1, <1>3, <1>4, <1>5, EventCases

\* the event an execution finalizes with
LEMMA CleanEvent ==
  ASSUME Basics, IdentInv, CleanInv, [Next]_vars, ~Claim,
         exec'.at \in {"FinalizeMerged", "FinalizeClosed"}
  PROVE  /\ exec'.clean => Own(exec.ev)'
         /\ exec'.at = "FinalizeMerged" => exec'.ev.kind = "merged"
         /\ exec'.at = "FinalizeClosed" => exec'.ev.kind = "closed"
<1>1. exec'.clean = exec.clean /\ pending \in Seq(Event)
  BY CarriedOn, BasicFacts
<1>2. CASE exec'.ev = exec.ev /\ exec'.at = exec.at
  <2>1. exec'.clean => Own(exec.ev)
    BY <1>1, <1>2 DEF CleanInv
  <2> DEFINE ev == exec.ev
  <2>2. exec'.clean => Own(ev)
    BY <2>1
  <2>3. exec'.ev = ev
    BY <1>2
  <2>4. exec'.clean => Own(exec.ev)'
    <3> HIDE DEF ev
    <3> QED
      BY <2>2, <2>3, OwnKept DEF Own
  <2> QED
    BY <1>2, <2>4 DEF CleanInv
<1>3. ASSUME NEW ev \in Event, Resume(ev),
             exec.clean => (Own(ev)
                \/ (ev.kind \in {"merged", "closed"} =>
                      ev.pr = row'.pr /\ ev.pr \in OwnPrs' /\ prs'[ev.pr].state = ev.kind))
      PROVE  /\ exec'.clean => Own(exec.ev)'
             /\ exec'.at = "FinalizeMerged" => exec'.ev.kind = "merged"
             /\ exec'.at = "FinalizeClosed" => exec'.ev.kind = "closed"
  <2>1. exec'.ev = ev
    BY <1>3, ResumeExec
  <2>2. /\ exec'.at = "FinalizeMerged" => ev.kind = "merged"
        /\ exec'.at = "FinalizeClosed" => ev.kind = "closed"
    BY <1>3, ResumeExec
  <2>3. exec'.clean => Own(exec.ev)'
    BY <1>1, <1>3, <2>1, OwnKept DEF Own
  <2> QED
    BY <2>1, <2>2, <2>3
<1>4. CASE pending # <<>> /\ Resume(Head(pending)) /\ Head(pending) \in Event
  <2>1. 1 \in DOMAIN pending /\ Head(pending) = pending[1]
    BY <1>1, <1>4
  <2>2. exec.clean => Own(Head(pending))
    BY <2>1 DEF CleanInv
  <2> QED
    BY <1>3, <1>4, <2>2
<1>5. ASSUME NEW ev \in Event, exec' = exec
      PROVE  exec'.ev = exec.ev /\ exec'.at = exec.at
  BY <1>5
<1> QED
  BY <1>2, <1>3, <1>4, <1>5, EventCases

LEMMA CleanSettled ==
  ASSUME Basics, GateInv, CleanInv, [Next]_vars, ~Claim
  PROVE  SettledByOwnPr'
<1> DEFINE Settles == row'.pr \in OwnPrs' /\ prs'[row'.pr].state = row'.status
           Dismissed == row'.status = "closed" /\ Containers(Life)' = {}
<1> SUFFICES ASSUME row'.status \in {"merged", "closed"}, exec'.clean
             PROVE  Settles \/ Dismissed
  BY DEF SettledByOwnPr
<1>1. exec.clean
  BY CarriedOn
<1>2. CASE row' = row
  <2>1. CASE row.pr \in OwnPrs /\ prs[row.pr].state = row.status
    <3>1. row.pr \in DOMAIN prs /\ prs[row.pr].state # "open"
      BY <1>2, <2>1 DEF OwnPrs
    <3> QED
      BY <1>2, <2>1, <3>1, Ledger
  <2>2. CASE row.status = "closed" /\ Containers(Life) = {}
    <3>1. exec.at = "Done" /\ ~Approve
      BY <2>2, PressedFacts DEF GateInv
    <3> QED
      BY <1>2, <2>2, <3>1, NothingStarts
  <2> QED
    BY <1>1, <1>2, <2>1, <2>2 DEF CleanInv, SettledByOwnPr
<1>8. CASE PressStep
  <2>1. row.status = "awaiting_approval" /\ Life' = Life /\ runs' = runs
    BY <1>8, PressedFacts DEF PressStep
  <2>2. Containers(Life)' = {}
    BY <2>1 DEF GateInv, Containers
  <2> QED
    BY <1>8, <2>2, PressedFacts DEF PressStep
<1>3. CASE WorkerStep \/ ParkStep \/ FeedbackStep \/ SettledStep
  BY <1>2, <1>3, SettledFacts DEF WorkerStep, ParkStep, FeedbackStep, SettledStep, SameRow
<1>4. CASE AfterNothing
  BY <1>4, AfterNothingFacts
<1>5. CASE AfterPushStep
  BY <1>5, OpenPrFacts, LosePrFacts, RefusePrFacts, AnswerPushFacts DEF AfterPushStep
<1>6. ASSUME NEW at, NEW status \in {"merged", "closed"}, Finalize(at, status),
             exec.at \in {"FinalizeMerged", "FinalizeClosed"}, exec.ev.kind = status
      PROVE  Settles
  <2>1. row'.status = status /\ row'.pr = row.pr
    BY <1>6, BasicFacts DEF Finalize, Row
  <2>2. row.pr \in OwnPrs /\ prs[row.pr].state = status
    BY <1>1, <1>6 DEF CleanInv, Own
  <2>3. row.pr \in DOMAIN prs /\ prs[row.pr].state # "open"
    BY <2>2 DEF OwnPrs
  <2> QED
    BY <2>1, <2>2, <2>3, Ledger
<1>7. CASE FinalizeStep
  <2>1. CASE Finalize("FinalizeReady", "ready") \/ Finalize("FinalizeNeedsHuman", "needs_human")
    <3>1. row'.status \in {"ready", "needs_human"}
      BY <2>1, BasicFacts DEF Finalize, Row
    <3> QED
      BY <3>1
  <2>2. CASE Finalize("FinalizeMerged", "merged")
    BY <1>6, <2>2 DEF CleanInv, Finalize
  <2>3. CASE Finalize("FinalizeClosed", "closed")
    BY <1>6, <2>3 DEF CleanInv, Finalize
  <2> QED
    BY <1>7, <2>1, <2>2, <2>3 DEF FinalizeStep
<1> QED
  BY <1>3, <1>4, <1>5, <1>7, <1>8, StepCases

LEMMA CleanStep ==
  Basics /\ GateInv /\ ReviewInv /\ IdentInv /\ CleanInv /\ [Next]_vars => CleanInv'
<1> SUFFICES ASSUME Basics, GateInv, ReviewInv, IdentInv, CleanInv, [Next]_vars, ~Claim
             PROVE  CleanInv'
  BY ClaimClean
<1>1. exec'.clean => \A i \in DOMAIN pending' : Own(pending[i])'
  BY CleanQueue
<1> QED
  BY <1>1, CleanOpened, CleanEvent, CleanSettled DEF CleanInv

LEMMA CleanAlways == Spec => []CleanInv
<1>1. (Basics /\ GateInv) /\ (Basics /\ ReviewInv) /\ IdentInv /\ CleanInv /\ [Next]_vars
        => CleanInv'
  BY CleanStep
<1> QED
  BY <1>1, CleanInit, GateAlways, ReviewAlways, IdentAlways, PTL DEF Spec

(* A life that began with no pull request open is settled by its own, and   *)
(* GitHub agrees about it, or by a press of Dismiss before any container    *)
(* was started for it: no event of an earlier life is replayed to it.       *)
THEOREM LivesSettledByOwnPr == Spec => []SettledByOwnPr
<1>1. CleanInv => SettledByOwnPr
  BY DEF CleanInv
<1> QED
  BY <1>1, CleanAlways, PTL

-----------------------------------------------------------------------------
(* What the row says was pushed                                             *)

\* the row's pushed_sha is that of a container of its life
ShaPushed == \E r \in Pushers : runs[r].head = row.sha
\* GitHub has the pull request of this life, or none was opened yet, and none
\* was lost; no other one was open, or the life keeps away from it
Accounted ==
  /\ OwnPrs \subseteq tracked /\ (OwnPrs = {} \/ OwnPrs \cap Opened # {})
  /\ exec.clean \/ ~Outside
OnBranch(c) == branch # 0 /\ c \in log[branch].past

ShaInv ==
  /\ Accounted => \A r \in Pushers : OnBranch(runs[r].head)
  /\ exec.at \in Reviewed => ShaPushed
  /\ row.status \in {"pr_open", "grooming", "ready"} => ShaPushed

LEMMA ShaInit == Init => ShaInv
  BY DEF Init, ShaInv, Pushers, Containers, Over, Reviewed

\* the commits on the branch stay there while the pull request is open
LEMMA OnBranchKept ==
  ASSUME Basics, [Next]_vars, branch' # 0, NEW c \in Nat, OnBranch(c)
  PROVE  c \in log'[branch'].past
<1>1. branch \in DOMAIN log /\ c \in log[branch].past /\ branch # 0
  BY BasicFacts DEF OnBranch
<1>2. Grows
  BY RepoCases
<1>3. CASE branch' \in {branch, 0}
  BY <1>1, <1>2, <1>3 DEF Grows
<1>4. CASE HumanPush
  BY <1>1, <1>4, HumanPushFacts
<1>5. ASSUME NEW r \in DOMAIN runs, Pushed(r) PROVE c \in log'[branch'].past
  <2>1. branch \in log[runs[r].head].past /\ branch' = NewCommit
    BY <1>1, <1>5 DEF Pushed, PushAccepted
  <2>2. /\ runs[r].head \in DOMAIN log
        /\ log'[NewCommit].past = log[runs[r].head].past \cup {NewCommit}
    BY <1>5, PushedFacts
  <2>3. log[branch].past \subseteq log[runs[r].head].past
    BY <2>1, <2>2, BasicFacts
  <2> QED
    BY <1>1, <2>1, <2>2, <2>3
<1> QED
  BY <1>3, <1>4, <1>5, RepoCases

\* an accounted life was accounted before, and its branch was not deleted
LEMMA WasAccounted ==
  ASSUME Basics, ReviewInv, IdentInv, CleanInv, [Next]_vars, Life' = Life, Accounted',
         Pushers # {}
  PROVE  Accounted /\ (branch # 0 => branch' # 0)
<1>4. exec.clean \/ ~Outside
  <2>1. ~Claim
    BY ClaimFacts, BasicFacts
  <2> QED
    BY <2>1, CarriedOn, OutsideKept DEF Accounted
<1>1. CASE prs' = prs /\ main' = main /\ branch' \in {branch, NewCommit}
  <2>1. OwnPrs' = OwnPrs /\ Opened' = Opened
    BY <1>1 DEF OwnPrs, Opened
  <2>2. OwnPrs \subseteq tracked
    <3>1. tracked' = tracked
      <4>1. CASE WorkerStep \/ ParkStep \/ FeedbackStep
        BY <4>1 DEF WorkerStep, ParkStep, FeedbackStep, SameRow
      <4>2. CASE AfterNothing \/ Claim \/ FinalizeStep
        BY <4>2 DEF AfterNothing, Claim, FinalizeStep, Finalize
      <4>5. CASE PressStep
        BY <4>5, PressedFacts DEF PressStep
      <4>3. CASE AfterPushStep
        <5>1. ~OpenPr /\ ~LosePr
          <6>1. prs \in Seq(PullRequest) /\ Len(prs) \in Nat
            BY BasicFacts
          <6>2. OpenedFacts => Len(prs') = Len(prs) + 1
            BY DEF OpenedFacts
          <6> QED
            BY <1>1, <6>1, <6>2, OpenPrFacts, LosePrFacts
        <5> QED
          BY <4>3, <5>1, RefusePrFacts, AnswerPushFacts DEF AfterPushStep
      <4>4. CASE SettledStep
        BY <4>4, SettledFacts DEF SettledStep
      <4> QED
        BY <4>1, <4>2, <4>3, <4>4, <4>5, StepCases
    <3> QED
      BY <2>1, <3>1 DEF Accounted
  <2> QED
    BY <1>1, <1>4, <2>1, <2>2, NewCommitIsNew DEF Accounted
<1>2. CASE OpenedPr /\ OpenedFacts /\ UNCHANGED repo /\ (OpenPr \/ LosePr)
  <2> DEFINE new == Len(prs) + 1
  <2>1. /\ DOMAIN prs' = DOMAIN prs \cup {new} /\ new \notin DOMAIN prs
        /\ \A n \in DOMAIN prs : prs'[n] = prs[n]
        /\ prs'[new].life = Life /\ row.pr = 0
        /\ tracked' \subseteq tracked \cup {new}
    BY <1>2, OpenPrFacts, LosePrFacts DEF OpenedFacts, OpenedPr
  <2> HIDE DEF new
  <2>2. OwnPrs' = OwnPrs \cup {new} /\ OwnPrs \subseteq DOMAIN prs
    BY <2>1 DEF OwnPrs
  <2>3. OwnPrs \subseteq tracked
    BY <2>1, <2>2 DEF Accounted
  <2>4. OwnPrs \cap tracked = {}
    BY <2>1, <2>2, BasicFacts DEF IdentInv
  <2>5. branch' = branch
    BY <1>2 DEF repo
  <2> QED
    BY <1>4, <2>3, <2>4, <2>5 DEF Accounted
<1>3. ASSUME NEW n \in DOMAIN prs, NEW state \in {"merged", "closed"}, Settled(n, state)
      PROVE  FALSE
  <2>1. Opened' = {}
    BY <1>3, OpenedSettled
  <2>2. OwnPrs' = {}
    BY <2>1 DEF Accounted
  <2>3. /\ n \in Opened /\ DOMAIN prs' = DOMAIN prs /\ prs'[n].life = prs[n].life
    BY <1>3, SettledFacts
  <2>4. prs[n].life # Life
    BY <2>2, <2>3 DEF OwnPrs
  <2>5. ~exec.clean
    BY <2>3, <2>4 DEF CleanInv, OwnPrs
  <2> QED
    BY <1>4, <2>3, <2>4, <2>5 DEF ReviewInv, OlderPrUntouched
<1> QED
  BY <1>1, <1>2, <1>3, PrCases

LEMMA PushersOnBranch ==
  ASSUME Basics, ReviewInv, IdentInv, CleanInv, ShaInv, [Next]_vars, Accounted',
         NEW r \in Pushers'
  PROVE  branch' # 0 /\ runs'[r].head \in log'[branch'].past
<1>1. Life' = Life
  BY LifeCases, PushersOfClaim
<1>2. r \in DOMAIN runs /\ (r \in Pushers \/ Pushed(r))
  BY <1>1, PushersNew
<1>3. CASE Pushed(r)
  <2>1. /\ branch' = NewCommit /\ runs'[r].head = NewCommit
        /\ NewCommit \in log'[NewCommit].past
    BY <1>2, <1>3, PushedFacts DEF Pushed
  <2> QED
    BY <2>1, NewCommitIsNew
<1>4. CASE r \in Pushers
  <2>1. Accounted /\ (branch # 0 => branch' # 0)
    BY <1>1, <1>4, WasAccounted
  <2>2. OnBranch(runs[r].head) /\ runs[r].head \in Nat
    BY <1>2, <1>4, <2>1, BasicFacts DEF ShaInv, Run
  <2>3. runs'[r] = runs[r]
    BY <1>2, <1>4, Evolves DEF RunsEvolve, Pushers, Containers
  <2>4. branch' # 0
    BY <2>1, <2>2 DEF OnBranch
  <2> QED
    BY <2>2, <2>3, <2>4, OnBranchKept
<1> QED
  BY <1>2, <1>3, <1>4

LEMMA ShaKept ==
  ASSUME Basics, [Next]_vars, Life' = Life, ShaPushed, row'.sha = row.sha
  PROVE  ShaPushed'
<1>1. PICK r \in Pushers : runs[r].head = row.sha
  BY DEF ShaPushed
<1>2. r \in Pushers' /\ runs'[r] = runs[r]
  BY Evolves, PushersKept DEF RunsEvolve, Pushers, Containers
<1> QED
  BY <1>1, <1>2 DEF ShaPushed

LEMMA ShaRecorded ==
  ASSUME Basics, AfterPushStep
  PROVE  ShaPushed'
<1>1. /\ row'.sha = runs[exec.run].head /\ runs' = runs /\ spent' = spent
      /\ exec.run \in DOMAIN runs
      /\ runs[exec.run].pc = "pushed" /\ runs[exec.run].life = Life
  BY OpenPrFacts, LosePrFacts, RefusePrFacts, AnswerPushFacts, AfterPushFacts DEF AfterPushStep
<1>2. exec.run \in Pushers /\ Pushers' = Pushers
  BY <1>1 DEF Pushers, Containers, Life
<1>3. PICK r \in Pushers' : runs'[r].head = row'.sha
  BY <1>1, <1>2
<1> QED
  BY <1>3 DEF ShaPushed

LEMMA ShaStep ==
  Basics /\ ReviewInv /\ IdentInv /\ CleanInv /\ ShaInv /\ [Next]_vars => ShaInv'
<1> SUFFICES ASSUME Basics, ReviewInv, IdentInv, CleanInv, ShaInv, [Next]_vars PROVE ShaInv'
  OBVIOUS
<1>1. Accounted' => \A r \in Pushers' : OnBranch(runs[r].head)'
  BY PushersOnBranch DEF OnBranch
<1>2. ASSUME \/ exec'.at \in Reviewed
             \/ row'.status \in {"pr_open", "grooming", "ready"}
      PROVE  ShaPushed'
  <2>1. CASE Claim
    BY <1>2, <2>1, ClaimFacts DEF StartFix, Over, Reviewed
  <2>2. CASE AfterPushStep
    BY <2>2, ShaRecorded
  <2>3. CASE ~Claim /\ ~AfterPushStep
    <3>1. Life' = Life /\ exec \in Execution /\ row \in Row
      BY <2>3, CarriedOn, BasicFacts
    <3>2. CASE WorkerStep \/ ParkStep \/ FeedbackStep \/ SettledStep
      <4>1. row' = row
        BY <3>2, SettledFacts DEF WorkerStep, ParkStep, FeedbackStep, SettledStep, SameRow
      <4>2. exec'.at \in Reviewed => exec.at \in Reviewed
        <5>1. CASE WorkerStep
          BY <5>1 DEF WorkerStep, Reviewed
        <5>2. CASE ParkStep
          BY <5>2 DEF ParkStep, Park, Reviewed
        <5>3. CASE \E ev \in Event : Deliver(ev)
          BY <5>3, DeliverCases DEF Reviewed
        <5> QED
          BY <3>2, <5>1, <5>2, <5>3, SettledFacts DEF FeedbackStep, SettledStep
      <4> QED
        BY <1>2, <3>1, <4>1, <4>2, ShaKept DEF ShaInv
    <3>3. CASE AfterNothing
      BY <1>2, <3>3, AfterNothingFacts DEF Over, Reviewed
    <3>5. CASE PressStep
      <4>1. exec'.at \in Reviewed => exec.at \in Reviewed
        BY <3>5, PressedFacts DEF PressStep, StartFix, Reviewed
      <4>2. row'.sha = row.sha /\ row'.status \in {"fixing", "closed"}
        BY <3>5, PressedFacts DEF PressStep
      <4> QED
        BY <1>2, <3>1, <4>1, <4>2, ShaKept DEF ShaInv
    <3>4. CASE FinalizeStep
      <4>1. Finalize("FinalizeReady", "ready")
        BY <1>2, <3>1, <3>4 DEF FinalizeStep, Finalize, Over, Reviewed, Row
      <4>2. exec.at \in Reviewed /\ row'.sha = row.sha
        BY <3>1, <4>1 DEF Finalize, Reviewed, Row
      <4> QED
        BY <3>1, <4>2, ShaKept DEF ShaInv
    <3> QED
      BY <2>3, <3>2, <3>3, <3>4, <3>5, StepCases
  <2> QED
    BY <2>1, <2>2, <2>3
<1> QED
  BY <1>1, <1>2 DEF ShaInv

LEMMA ShaAlways == Spec => [](Basics /\ IdentInv /\ ShaInv)
<1>1. (Basics /\ ReviewInv) /\ IdentInv /\ CleanInv /\ ShaInv /\ [Next]_vars => ShaInv'
  BY ShaStep
<1> QED
  BY <1>1, ShaInit, ReviewAlways, IdentAlways, CleanAlways, PTL DEF Spec

(* The commit that after_run recorded, and that _after_push reports, is on  *)
(* the branch of the open pull request, however many containers of this and *)
(* other lives push, late or refused; what it excepts are the two ways to   *)
(* lose a branch that ReportedIsPushed names.                               *)
THEOREM ReportsArePushed == Spec => []ReportedIsPushed
<1>1. Basics /\ IdentInv /\ ShaInv => ReportedIsPushed
  <2> SUFFICES ASSUME Basics, IdentInv, ShaInv,
                      row.status \in {"pr_open", "grooming", "ready"}, row.pr \in Opened,
                      OwnPrs \subseteq tracked, exec.clean \/ ~Outside
               PROVE  branch # 0 /\ row.sha \in log[branch].past
    BY DEF ReportedIsPushed
  <2>1. row.pr # 0
    BY BasicFacts DEF Opened
  <2>2. row.pr \in OwnPrs \cap Opened
    BY <2>1 DEF IdentInv
  <2>3. Accounted
    BY <2>2 DEF Accounted
  <2>4. PICK r \in Pushers : runs[r].head = row.sha
    BY DEF ShaInv, ShaPushed
  <2> QED
    BY <2>3, <2>4 DEF ShaInv, OnBranch
<1> QED
  BY <1>1, ShaAlways, PTL

-----------------------------------------------------------------------------
(* The promise                                                              *)

InReviewRow == row.status \in {"pr_open", "grooming", "ready"}

\* where the row stands while the execution is in each of its states
PromiseInv ==
  /\ exec.at = "Fix" => row.status = "fixing" /\ row.attempts = 0 /\ exec.attempt = 0
  /\ exec.at \in {"Groom", "AfterRun"} =>
       \/ row.status = "fixing" /\ row.attempts = 0 /\ exec.attempt = 0
       \/ InReviewRow /\ exec.attempt = row.attempts + 1
  /\ exec.at \in Reviewed => InReviewRow /\ exec.attempt = row.attempts
  /\ exec.at = "FinalizeNeedsHuman" => InReviewRow \/ row.status = "fixing"
  /\ exec.at = "Done" => row.status \in Terminal \cup {"absent", "awaiting_approval"}
  /\ row.status = "fixing" => row.pr = 0
  /\ row.status = "awaiting_approval" => exec.at = "Done" /\ row.attempts = 0 /\ row.pr = 0

LEMMA PromiseInit == Init => PromiseInv
  BY DEF Init, PromiseInv, Over, Reviewed

LEMMA PromiseWorker ==
  ASSUME Basics, PromiseInv, WorkerStep
  PROVE  PromiseInv' /\ UNCHANGED row
<1>1. row' = row /\ exec'.attempt = exec.attempt
  BY DEF WorkerStep, SameRow
<1>2. CASE exec'.at = exec.at
  BY <1>1, <1>2 DEF PromiseInv, InReviewRow
<1>3. CASE exec.at \in {"Fix", "Groom"} /\ exec'.at \in {"AfterRun", "FinalizeNeedsHuman"}
  BY <1>1, <1>3 DEF PromiseInv, InReviewRow, Reviewed
<1>4. CASE exec.at = "Parked" /\ exec'.at = "FinalizeNeedsHuman"
  BY <1>1, <1>4 DEF PromiseInv, InReviewRow, Reviewed
<1> QED
  BY <1>1, <1>2, <1>3, <1>4 DEF WorkerStep

LEMMA PromiseResume ==
  ASSUME Basics, PromiseInv, NEW ev \in Event, Resume(ev), row' = row,
         exec.at \in {"Park", "Parked"}
  PROVE  PromiseInv'
<1>1. InReviewRow /\ exec.attempt = row.attempts
  BY DEF PromiseInv, Reviewed
<1>2. CASE exec'.at = "Groom" /\ exec'.attempt = exec.attempt + 1
  BY <1>1, <1>2 DEF PromiseInv, InReviewRow, Reviewed
<1>3. CASE /\ exec'.at \in {"FinalizeReady", "FinalizeMerged", "FinalizeClosed",
                            "FinalizeNeedsHuman"}
           /\ exec'.attempt = exec.attempt
  BY <1>1, <1>3 DEF PromiseInv, InReviewRow, Reviewed
<1> QED
  BY <1>2, <1>3, ResumeExec

LEMMA PromiseDeliver ==
  ASSUME Basics, PromiseInv, NEW ev \in Event, Deliver(ev), row' = row
  PROVE  PromiseInv'
<1>1. CASE exec' = exec
  BY <1>1 DEF PromiseInv, InReviewRow
<1> QED
  BY <1>1, DeliverCases, PromiseResume

LEMMA PromisePark ==
  ASSUME Basics, PromiseInv, ParkStep
  PROVE  PromiseInv' /\ UNCHANGED row
<1>1. row' = row /\ exec.at = "Park" /\ Park
  BY ParkCases DEF ParkStep, SameRow
<1>2. CASE exec' = [exec EXCEPT !.at = "Parked"]
  <2>1. exec'.at = "Parked" /\ exec'.attempt = exec.attempt
    BY <1>2, BasicFacts DEF Execution
  <2> QED
    BY <1>1, <2>1 DEF PromiseInv, InReviewRow, Reviewed
<1> QED
  BY <1>1, <1>2, ParkCases, PromiseResume

LEMMA PromiseClaim ==
  ASSUME Basics, PromiseInv, Claim
  PROVE  PromiseInv' /\ Promise!LivesNext
<1>1. /\ row.status \in Terminal \cup {"absent"}
      /\ row'.attempts = 0 /\ row'.pr = 0
      /\ \/ row'.status \in {"rca_only", "awaiting_approval"} /\ exec'.at = "Done"
         \/ row'.status = "fixing" /\ exec'.at = "Fix" /\ exec'.attempt = 0
  BY ClaimFacts DEF StartFix, Over
<1>2. PromiseInv'
  BY <1>1 DEF PromiseInv, InReviewRow, Reviewed, Terminal
<1>3. Promise!Reclaim
  BY <1>1 DEF Promise!Reclaim, Promise!Terminal, Terminal
<1> QED
  BY <1>2, <1>3 DEF Promise!LivesNext

LEMMA PromisePressed ==
  ASSUME Basics, PromiseInv, PressStep
  PROVE  PromiseInv' /\ Promise!LivesNext
<1>1. /\ row.status = "awaiting_approval" /\ row.pr = 0 /\ row.attempts = 0
      /\ exec.at = "Done" /\ row'.pr = 0 /\ row'.attempts = 0
      /\ \/ row'.status = "fixing" /\ exec'.at = "Fix" /\ exec'.attempt = 0
         \/ row'.status = "closed" /\ exec' = exec
  BY PressedFacts DEF PressStep, PromiseInv, StartFix
<1>2. PromiseInv'
  BY <1>1 DEF PromiseInv, InReviewRow, Reviewed, Terminal
<1>3. Promise!Start \/ Promise!Dismiss
  BY <1>1 DEF Promise!Start, Promise!Dismiss
<1> QED
  BY <1>2, <1>3 DEF Promise!LivesNext

LEMMA PromiseAfterRun ==
  ASSUME Basics, PromiseInv, AfterNothing \/ AfterPushStep
  PROVE  PromiseInv' /\ Promise!LivesNext
<1>1. /\ exec.at = "AfterRun" /\ exec \in Execution /\ row \in Row
      /\ row'.attempts = exec.attempt
  BY AfterNothingFacts, OpenPrFacts, LosePrFacts, RefusePrFacts, AnswerPushFacts, BasicFacts
     DEF AfterNothing, AfterPushStep, AfterPush
<1>2. CASE AfterNothing
  <2>1. row'.status \in {"rca_only", "needs_human"} /\ exec'.at = "Done"
    BY <1>2, AfterNothingFacts DEF Over
  <2>2. PromiseInv'
    BY <2>1 DEF PromiseInv, InReviewRow, Reviewed, Terminal
  <2>3. Promise!FirstRun \/ Promise!GroomRun
    BY <1>1, <2>1 DEF PromiseInv, InReviewRow, Promise!FirstRun, Promise!GroomRun,
                      Promise!InReview, Execution, Row
  <2> QED
    BY <2>2, <2>3 DEF Promise!LivesNext
<1>3. CASE AfterPushStep
  <2>1. /\ exec'.at = "Park" /\ exec'.attempt = exec.attempt
        /\ row'.status \in {"pr_open", "grooming"}
        /\ row'.status = "grooming" => row.pr # 0
    BY <1>3, AfterPushFacts, OpenPrFacts, LosePrFacts, RefusePrFacts, AnswerPushFacts
       DEF AfterPushStep
  <2>2. PromiseInv'
    BY <1>1, <2>1 DEF PromiseInv, InReviewRow, Reviewed
  <2>3. Promise!FirstRun \/ Promise!GroomRun
    BY <1>1, <2>1 DEF PromiseInv, InReviewRow, Promise!FirstRun, Promise!GroomRun,
                      Promise!InReview, Execution, Row
  <2> QED
    BY <2>2, <2>3 DEF Promise!LivesNext
<1> QED
  BY <1>2, <1>3

LEMMA PromiseFinalize ==
  ASSUME Basics, PromiseInv, FinalizeStep
  PROVE  PromiseInv' /\ Promise!LivesNext
<1>1. row \in Row /\ exec \in Execution
  BY BasicFacts
<1>2. PICK at \in {"FinalizeReady", "FinalizeMerged", "FinalizeClosed", "FinalizeNeedsHuman"},
           status \in {"ready", "merged", "closed", "needs_human"} :
        /\ Finalize(at, status)
        /\ at = "FinalizeNeedsHuman" <=> status = "needs_human"
  BY DEF FinalizeStep
<1>3. /\ exec.at = at /\ row'.status = status /\ row'.attempts = row.attempts
      /\ row'.pr = row.pr
      /\ IF status = "ready" THEN exec'.at = "Park" /\ exec'.attempt = exec.attempt
         ELSE exec'.at = "Done"
  BY <1>1, <1>2 DEF Finalize, Over, Row, Execution
<1>4. PromiseInv'
  BY <1>2, <1>3 DEF PromiseInv, InReviewRow, Reviewed, Terminal
<1>5. Promise!MarkReady \/ Promise!Settle \/ Promise!GiveUp
  BY <1>2, <1>3 DEF PromiseInv, InReviewRow, Reviewed, Promise!MarkReady, Promise!Settle,
                    Promise!GiveUp, Promise!InReview
<1> QED
  BY <1>4, <1>5 DEF Promise!LivesNext

LEMMA PromiseStep ==
  ASSUME Basics, PromiseInv, [Next]_vars
  PROVE  PromiseInv' /\ [Promise!LivesNext]_(Promise!vars)
<1>1. ASSUME row' = row PROVE UNCHANGED Promise!vars
  BY <1>1 DEF Promise!vars
<1>2. CASE FeedbackStep
  BY <1>1, <1>2, PromiseDeliver DEF FeedbackStep, SameRow
<1>3. CASE SettledStep
  BY <1>1, <1>3, PromiseDeliver, SettledFacts DEF SettledStep
<1> QED
  BY <1>1, <1>2, <1>3, PromiseWorker, PromisePark, PromiseClaim, PromisePressed,
     PromiseAfterRun, PromiseFinalize, StepCases

(* Lives implements IssueLives: over any number of lives, every row goes    *)
(* through the life the abstract specification allows, and only a terminal  *)
(* one gives way to the next.                                               *)
THEOREM LivesKeepPromise == Spec => KeepsPromise
<1>1. Init => Promise!Nobody
  BY DEF Init, Promise!Nobody
<1>2. Basics /\ PromiseInv /\ [Next]_vars => PromiseInv' /\ [Promise!LivesNext]_(Promise!vars)
  BY PromiseStep
<1> QED
  BY <1>1, <1>2, PromiseInit, BasicsAlways, PTL DEF Spec, KeepsPromise, Promise!LivesSpec

\* What writes the row, and in which state of the execution
LEMMA RowWriters ==
  ASSUME Basics, [Next]_vars, row' # row
  PROVE  Claim \/ PressStep \/ exec.at = "AfterRun" \/ FinalizeStep
<1>1. ~FeedbackStep /\ ~SettledStep /\ ~ParkStep /\ ~WorkerStep
  BY SettledFacts DEF FeedbackStep, SettledStep, ParkStep, WorkerStep, SameRow
<1>2. AfterNothing \/ AfterPushStep => exec.at = "AfterRun"
  BY AfterNothingFacts, OpenPrFacts, LosePrFacts, RefusePrFacts, AnswerPushFacts
     DEF AfterNothing, AfterPushStep, AfterPush
<1> QED
  BY <1>1, <1>2, StepCases

(* What outlives a settled issue (containers at work, events of its pull     *)
(* requests, an execution that is over) never writes its row again: the next *)
(* write is the claim of the next life (core/store.py, claim and TERMINAL).  *)
THEOREM OnlyAClaimReopens == Spec => [][row.status \in Terminal /\ row' # row => Claim]_vars
<1>1. Init => PromiseInv
  BY PromiseInit
<1>2. Basics /\ PromiseInv /\ [Next]_vars => PromiseInv'
  BY PromiseStep
<1>3. Basics /\ PromiseInv /\ [Next]_vars => [row.status \in Terminal /\ row' # row => Claim]_vars
  <2> SUFFICES ASSUME Basics, PromiseInv, [Next]_vars, row.status \in Terminal, row' # row
               PROVE  Claim
    OBVIOUS
  <2>1. exec.at # "AfterRun"
    BY DEF PromiseInv, InReviewRow, Reviewed, Terminal
  <2>2. ~FinalizeStep
    BY DEF PromiseInv, InReviewRow, Reviewed, Terminal, FinalizeStep, Finalize
  <2>3. ~PressStep
    BY PressedFacts DEF PressStep, Terminal
  <2> QED
    BY <2>1, <2>2, <2>3, RowWriters
<1> QED
  BY <1>1, <1>2, <1>3, BasicsAlways, PTL DEF Spec

-----------------------------------------------------------------------------
(* The budget of a life                                                     *)

\* A life has a container for its fix and one for each attempt charged
SpendInv ==
  \A l \in Nat :
    /\ Cardinality(Containers(l)) <= MaxAttempts + 1
    /\ l = Life /\ exec.at # "Done" => Cardinality(Containers(l)) <= exec.attempt + 1

LEMMA ContainersFinite ==
  ASSUME Basics, NEW l
  PROVE  IsFiniteSet(Containers(l)) /\ Cardinality(Containers(l)) \in Nat
<1>1. IsFiniteSet(DOMAIN runs)
  BY BasicFacts, FS_Interval
<1>2. Containers(l) \subseteq DOMAIN runs
  BY DEF Containers
<1> QED
  BY <1>1, <1>2, FS_Subset, FS_CardinalityType

\* No step takes an attempt back while the execution lasts
LEMMA AttemptKept ==
  ASSUME Basics, [Next]_vars, ~Claim, ~Approve, exec'.at # "Done"
  PROVE  exec.at # "Done" /\ exec'.attempt \in Nat /\ exec'.attempt >= exec.attempt
<1>0. exec \in Execution /\ exec.attempt \in Nat /\ MaxAttempts \in Nat
  BY BasicFacts DEF Execution
<1>1. exec.at # "Done"
  BY WaitEnds DEF Waits
<1> SUFFICES exec'.attempt \in {exec.attempt, exec.attempt + 1}
  BY <1>0, <1>1
<1>2. CASE WorkerStep \/ Dismiss
  BY <1>2 DEF WorkerStep, Dismiss
<1>3. CASE AfterNothing
  BY <1>3 DEF AfterNothing, Over
<1>4. CASE AfterPushStep
  BY <1>4, AfterPushFacts DEF AfterPushStep
<1>5. CASE ParkStep
  <2>1. CASE exec' = [exec EXCEPT !.at = "Parked"]
    BY <1>0, <2>1 DEF Execution
  <2>2. CASE Head(pending) \in Event /\ Resume(Head(pending))
    BY <2>2, ResumeExec
  <2> QED
    BY <1>5, <2>1, <2>2, ParkCases DEF ParkStep
<1>6. CASE FinalizeStep
  <2>1. exec' = [exec EXCEPT !.at = "Park"] \/ exec' = Over(exec.clean)
    BY <1>6 DEF FinalizeStep, Finalize
  <2> QED
    BY <1>0, <2>1 DEF Over, Execution
<1>7. CASE \E ev \in Event : Deliver(ev)
  BY <1>7, DeliverCases, ResumeExec
<1>8. CASE FeedbackStep \/ SettledStep
  BY <1>7, <1>8, SettledFacts DEF FeedbackStep, SettledStep
<1> QED
  BY <1>2, <1>3, <1>4, <1>5, <1>6, <1>8, StepCases DEF PressStep

\* A step adds at most one container, the one the execution then waits for
LEMMA ContainersGrow ==
  ASSUME Basics, [Next]_vars, NEW l
  PROVE  \/ Containers(l)' = Containers(l)
         \/ /\ Containers(l)' = Containers(l) \cup {exec'.run}
            /\ l = Life' /\ exec'.at \in {"Fix", "Groom"}
            /\ \/ Claim \/ Approve
               \/ Life' = Life /\ exec'.attempt = exec.attempt + 1 /\ exec.at # "Done"
<1>0. RunsEvolve
  BY Evolves
<1>1. \A r \in DOMAIN runs : r \in DOMAIN runs' /\ runs'[r].life = runs[r].life
  BY <1>0 DEF RunsEvolve
<1>2. ASSUME NEW r \in DOMAIN runs', r \notin DOMAIN runs
      PROVE  /\ runs'[r].life = Life' /\ r = exec'.run /\ exec'.at \in {"Fix", "Groom"}
             /\ \/ Claim \/ Approve
                \/ Life' = Life /\ exec'.attempt = exec.attempt + 1 /\ exec.at # "Done"
  BY <1>0, <1>2 DEF RunsEvolve
<1>3. CASE \E r \in DOMAIN runs' : r \notin DOMAIN runs /\ runs'[r].life = l
  <2>1. PICK r \in DOMAIN runs' : r \notin DOMAIN runs /\ runs'[r].life = l
    BY <1>3
  <2>2. Containers(l)' = Containers(l) \cup {r}
    BY <1>1, <1>2, <2>1 DEF Containers
  <2> QED
    BY <1>2, <2>1, <2>2
<1>4. CASE ~ \E r \in DOMAIN runs' : r \notin DOMAIN runs /\ runs'[r].life = l
  BY <1>1, <1>4 DEF Containers
<1> QED
  BY <1>3, <1>4

LEMMA SpendStep == Basics /\ Basics' /\ GateInv /\ SpendInv /\ [Next]_vars => SpendInv'
<1> SUFFICES ASSUME Basics, Basics', GateInv, SpendInv, [Next]_vars, NEW l \in Nat
             PROVE  /\ Cardinality(Containers(l)') <= MaxAttempts + 1
                    /\ l = Life' /\ exec'.at # "Done" =>
                         Cardinality(Containers(l)') <= exec'.attempt + 1
  BY DEF SpendInv
<1> DEFINE n == Cardinality(Containers(l))
<1>0. /\ Life \in Nat /\ MaxAttempts \in Nat /\ exec.attempt \in 0..MaxAttempts
      /\ exec'.attempt \in 0..MaxAttempts
  BY BasicFacts DEF Basics, TypeOK, Execution
<1>1. n \in Nat /\ n <= MaxAttempts + 1 /\ (l = Life /\ exec.at # "Done" => n <= exec.attempt + 1)
  BY ContainersFinite DEF SpendInv
<1>4. Claim => Life' = Life + 1
  BY ClaimFacts
<1>2. ASSUME l = Life', Claim \/ Approve PROVE n = 0
  <2>1. Containers(l) = {}
    <3>1. CASE Claim
      BY <1>2, <1>4, <3>1, NothingBefore DEF Containers
    <3>2. CASE Approve
      BY <1>2, <3>2, PressedFacts DEF GateInv, Containers
    <3> QED
      BY <1>2, <3>1, <3>2
  <2> QED
    BY <2>1, FS_EmptySet
<1>3. Cardinality(Containers(l) \cup {exec'.run}) <= n + 1
  <2>1. /\ IsFiniteSet(Containers(l))
        /\ Cardinality(Containers(l) \cup {exec'.run}) \in {n, n + 1}
    BY ContainersFinite, FS_AddElement
  <2> HIDE DEF n
  <2> QED
    BY <1>1, <2>1
<1> HIDE DEF n
<1>5. CASE Containers(l)' = Containers(l)
  <2>1. Cardinality(Containers(l)') = n
    BY <1>5 DEF n
  <2>2. ASSUME l = Life', exec'.at # "Done" PROVE n <= exec'.attempt + 1
    <3>1. CASE Claim \/ Approve
      BY <1>0, <1>2, <2>2, <3>1
    <3>2. CASE ~Claim /\ ~Approve
      <4>1. Life' = Life /\ exec.at # "Done" /\ exec'.attempt >= exec.attempt
        BY <2>2, <3>2, AttemptKept, LifeCases
      <4> QED
        BY <1>0, <1>1, <2>2, <4>1
    <3> QED
      BY <3>1, <3>2
  <2> QED
    BY <1>1, <2>1, <2>2
<1>6. CASE /\ Containers(l)' = Containers(l) \cup {exec'.run}
           /\ l = Life' /\ exec'.at \in {"Fix", "Groom"}
           /\ \/ Claim \/ Approve
              \/ Life' = Life /\ exec'.attempt = exec.attempt + 1 /\ exec.at # "Done"
  <2>1. Cardinality(Containers(l)') \in Nat /\ Cardinality(Containers(l)') <= n + 1
    <3>1. IsFiniteSet(Containers(l) \cup {exec'.run})
      BY ContainersFinite, FS_AddElement
    <3> QED
      BY <1>3, <1>6, <3>1, FS_CardinalityType
  <2>2. n <= exec'.attempt
    <3>1. CASE Life' = Life /\ exec'.attempt = exec.attempt + 1 /\ exec.at # "Done"
      BY <1>0, <1>1, <1>6, <3>1
    <3>2. CASE Claim \/ Approve
      BY <1>0, <1>2, <1>6, <3>2
    <3> QED
      BY <1>6, <3>1, <3>2
  <2> QED
    BY <1>0, <1>1, <2>1, <2>2
<1> QED
  BY <1>5, <1>6, ContainersGrow

(* However often runs time out, fail or go on unattended, and however many  *)
(* lives the error has, no life starts more containers than one for the fix *)
(* and one for each of its max_attempts groom runs, at the claim or at a    *)
(* press of Approve (issue.asl.json, CheckBudget and BumpAttempt).          *)
THEOREM LivesStayInBudget == Spec => []LifeInBudget
<1>1. Init => SpendInv
  <2> SUFFICES ASSUME Init, NEW l \in Nat PROVE Cardinality(Containers(l)) <= MaxAttempts + 1
    BY DEF SpendInv, Init, Over
  <2>1. Containers(l) = {}
    BY DEF Init, Containers
  <2> QED
    BY <2>1, FS_EmptySet
<1>2. (Basics /\ GateInv) /\ Basics' /\ SpendInv /\ [Next]_vars => SpendInv'
  BY SpendStep
<1>3. SpendInv => LifeInBudget
  BY DEF SpendInv, LifeInBudget
<1> QED
  BY <1>1, <1>2, <1>3, BasicsAlways, GateAlways, PTL DEF Spec
=============================================================================
