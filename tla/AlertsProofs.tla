---------------------------- MODULE AlertsProofs ----------------------------
(***************************************************************************)
(* Proofs about module Alerts, for any sets of errors, environments and    *)
(* levels, any page size and any number of webhooks and redeliveries.      *)
(***************************************************************************)
EXTENDS Alerts, FiniteSetTheorems, WellFoundedInduction, TLAPS

-----------------------------------------------------------------------------
(* dominant_signature *)

LEMMA HitsFacts ==
  ASSUME NEW hits \in Hits
  PROVE  /\ IsFiniteSet(DOMAIN hits)
         /\ Cardinality(DOMAIN hits) \in Nat
         /\ \A s : /\ IsFiniteSet(Bucket(hits, s))
                   /\ Count(hits, s) \in Nat
                   /\ Count(hits, s) <= Cardinality(DOMAIN hits)
<1>1. PICK n \in 0..MaxHits : hits \in [1..n -> Hit]
  BY DEF Hits
<1>2. IsFiniteSet(DOMAIN hits)
  BY <1>1, FS_Interval, ConfigAssumption
<1>3. \A s : Bucket(hits, s) \in SUBSET (DOMAIN hits)
  BY DEF Bucket
<1> QED
  BY <1>2, <1>3, FS_Subset, FS_CardinalityType DEF Count

\* Count is what Breakage records
LEMMA FoundCounts ==
  ASSUME NEW hits, NEW s \in Errors
  PROVE  Breakage(hits).of[s] = Count(hits, s) /\ Breakage(hits).total = Cardinality(DOMAIN hits)
  BY DEF Breakage, Count, Bucket, Signature

LEMMA LeastNatural ==
  ASSUME NEW T \in SUBSET Nat, T # {}
  PROVE  \E m \in T : \A k \in T : m <= k
<1> DEFINE R == {ss \in Nat \X Nat : ss[1] < ss[2]}
<1>1. IsWellFoundedOn(R, Nat)
  BY NatLessThanWellFounded, Zenon DEF OpToRel
<1>2. PICK m \in T : \A k \in T : <<k, m>> \notin R
  BY <1>1, WFMin, Zenon
<1>3. \A k, l \in Nat : k < l => <<k, l>> \in R
  OBVIOUS
<1>4. T \subseteq Nat
  OBVIOUS
<1> HIDE DEF R
<1>5. m \in Nat /\ \A k \in T : k \in Nat /\ ~(k < m)
  BY <1>2, <1>3, <1>4, Zenon
<1>6. \A k \in T : m <= k
  BY <1>5
<1> QED
  BY <1>6

LEMMA HitsLength ==
  ASSUME NEW hits \in Hits
  PROVE  \E n \in Nat : /\ hits \in [1..n -> Hit] /\ DOMAIN hits = 1..n
                        /\ Cardinality(DOMAIN hits) = n
                        /\ hits = <<>> <=> n = 0
<1>1. PICK n \in 0..MaxHits : hits \in [1..n -> Hit]
  BY DEF Hits
<1>2. n \in Nat /\ DOMAIN hits = 1..n
  BY <1>1, ConfigAssumption
<1>3. Cardinality(DOMAIN hits) = n
  BY <1>2, FS_Interval
<1>4. hits = <<>> <=> n = 0
  <2>1. CASE n = 0
    BY <1>1, <1>2, <2>1
  <2>2. CASE n # 0
    <3>1. 1 \in DOMAIN hits
      BY <1>2, <2>2
    <3> QED
      BY <2>2, <3>1
  <2> QED
    BY <2>1, <2>2
<1> QED
  BY <1>1, <1>2, <1>3, <1>4

\* Counter.most_common(1) returns something: of the errors hit most often the
\* one seen first
LEMMA SomeErrorIsMostCommon ==
  ASSUME NEW hits \in Hits, hits # <<>>
  PROVE  \E s \in Errors : MostCommon(hits, s)
<1>1. PICK n \in Nat : hits \in [1..n -> Hit] /\ DOMAIN hits = 1..n /\ n # 0
                      /\ Cardinality(DOMAIN hits) = n
  BY HitsLength
<1> DEFINE C(i) == Count(hits, hits[i].error)
           Rests == {n - C(i) : i \in 1..n}
<1>2. \A i \in 1..n : hits[i].error \in Errors /\ i \in Bucket(hits, hits[i].error)
  BY <1>1 DEF Hit, Bucket, Signature
<1>3. \A s : Count(hits, s) \in Nat /\ Count(hits, s) <= n
  BY <1>1, HitsFacts
<1>4. PICK top \in 1..n : \A i \in 1..n : C(i) <= C(top)
  <2>1. Rests \in SUBSET Nat /\ Rests # {}
    BY <1>1, <1>3
  <2>2. PICK m \in Rests : \A k \in Rests : m <= k
    BY <2>1, LeastNatural, Zenon
  <2>3. PICK top \in 1..n : m = n - C(top)
    BY <2>2
  <2>4. ASSUME NEW i \in 1..n PROVE C(i) <= C(top)
    <3>1. n - C(top) <= n - C(i)
      BY <2>2, <2>3
    <3>2. C(i) \in Nat /\ C(top) \in Nat
      BY <1>3
    <3> HIDE DEF C
    <3> QED
      BY <3>1, <3>2
  <2> QED
    BY <2>4
<1> DEFINE Tops == {i \in 1..n : C(i) = C(top)}
<1>5. PICK first \in Tops : \A i \in Tops : first <= i
  <2>1. Tops \in SUBSET Nat /\ Tops # {}
    BY <1>4
  <2> QED
    BY <2>1, LeastNatural, Zenon
<1> DEFINE s == hits[first].error
<1>6. s \in Errors /\ first \in Bucket(hits, s) /\ Count(hits, s) = C(top)
  BY <1>2, <1>5
<1>7. ASSUME NEW t \in Errors \ {s}
      PROVE  \/ Count(hits, t) < Count(hits, s)
             \/ Count(hits, t) = Count(hits, s) /\ SeenBefore(hits, s, t)
  <2>1. ASSUME NEW i \in Bucket(hits, t)
        PROVE  i \in 1..n /\ C(i) = Count(hits, t) /\ hits[i].error = t
    BY <2>1, <1>1 DEF Bucket, Signature
  <2>2. CASE Bucket(hits, t) = {}
    <3>1. Count(hits, t) = 0
      BY <2>2, FS_EmptySet DEF Count
    <3>2. Count(hits, s) # 0
      BY <1>6, HitsFacts, FS_EmptySet DEF Count
    <3> QED
      BY <3>1, <3>2, <1>3
  <2>3. CASE Bucket(hits, t) # {} /\ Count(hits, t) = Count(hits, s)
    <3>1. \A i \in Bucket(hits, t) : first <= i /\ first # i /\ i \in 1..n
      BY <2>1, <2>3, <1>5, <1>6
    <3>2. \A i \in Bucket(hits, t) : first < i
      BY <3>1, <1>5
    <3> QED
      BY <2>3, <3>2, <1>6 DEF SeenBefore
  <2>4. CASE Bucket(hits, t) # {} /\ Count(hits, t) # Count(hits, s)
    <3>1. Count(hits, t) <= Count(hits, s)
      BY <2>1, <2>4, <1>4, <1>6
    <3> QED
      BY <3>1, <2>4, <1>3
  <2> QED
    BY <2>2, <2>3, <2>4
<1> QED
  BY <1>6, <1>7 DEF MostCommon

\* a hit counts for one error only
LEMMA CountsApart ==
  ASSUME NEW hits \in Hits, NEW s, NEW t, s # t
  PROVE  Count(hits, s) + Count(hits, t) <= Cardinality(DOMAIN hits)
<1>1. Bucket(hits, s) \cap Bucket(hits, t) = {}
  BY DEF Bucket
<1>2. Bucket(hits, s) \subseteq DOMAIN hits /\ Bucket(hits, t) \subseteq DOMAIN hits
  BY DEF Bucket
<1> QED
  BY <1>1, <1>2, HitsFacts, FS_MajoritiesIntersect DEF Count

LEMMA SignatureType ==
  ASSUME NEW hits
  PROVE  DominantSignature(hits) \in Errors \cup {NotAnError}
  BY DEF DominantSignature

\* what is named is not outnumbered
LEMMA SignatureHasMost ==
  ASSUME NEW hits \in Hits, DominantSignature(hits) # NotAnError, NEW t \in Errors
  PROVE  Count(hits, t) <= Count(hits, DominantSignature(hits))
<1>1. Dominates(hits, DominantSignature(hits))
  BY DEF DominantSignature
<1>2. \A s : Count(hits, s) \in Nat
  BY HitsFacts
<1> QED
  BY <1>1, <1>2 DEF Dominates, MostCommon

\* and nothing is named when, and only when, no error has its share
LEMMA UnnamedWithoutShare ==
  ASSUME NEW hits \in Hits
  PROVE  DominantSignature(hits) = NotAnError <=>
           \/ Cardinality(DOMAIN hits) = 0
           \/ \A s \in Errors : 100 * Count(hits, s) < Share * Cardinality(DOMAIN hits)
<1> DEFINE T == Cardinality(DOMAIN hits)
<1>1. T \in Nat /\ Share \in Nat /\ (hits = <<>> <=> T = 0)
      /\ \A s : Count(hits, s) \in Nat
  BY HitsLength, HitsFacts, ConfigAssumption
<1>2. Share * T \in Nat
  BY <1>1
<1>3. DominantSignature(hits) = NotAnError <=> ~\E s \in Errors : Dominates(hits, s)
  BY DataAssumption DEF DominantSignature
<1>4. ASSUME NEW s \in Errors, Dominates(hits, s)
      PROVE  T # 0 /\ ~(100 * Count(hits, s) < Share * T)
  BY <1>4, <1>1, <1>2 DEF Dominates
<1>5. ASSUME T # 0, NEW s \in Errors, ~(100 * Count(hits, s) < Share * T)
      PROVE  \E t \in Errors : Dominates(hits, t)
  <2>1. PICK t \in Errors : MostCommon(hits, t)
    BY <1>1, <1>5, SomeErrorIsMostCommon
  <2>2. Count(hits, s) <= Count(hits, t)
    BY <2>1, <1>1 DEF MostCommon
  <2>3. 100 * Count(hits, t) >= Share * T
    <3> HIDE DEF T
    <3> QED
      BY <2>2, <1>1, <1>2, <1>5
  <2> QED
    BY <2>1, <2>3, <1>1, <1>5 DEF Dominates
<1> HIDE DEF T
<1>6. DominantSignature(hits) = NotAnError <=>
        T = 0 \/ \A s \in Errors : 100 * Count(hits, s) < Share * T
  BY <1>3, <1>4, <1>5
<1> QED
  BY <1>6 DEF T

(* inputs/datadog:21-23. For every dominant_share, two searches with the    *)
(* same numbers of the same errors have the same signature, in whatever     *)
(* order the hits are and however their messages differ; but for a tie, in  *)
(* which the order decides, and which is between errors that have half of   *)
(* the hits at most: above 0.5 there is none, at the default 0.5 there is.  *)
THEOREM OnlyATieIsOpen ==
  ASSUME NEW hits \in Hits, NEW others \in Hits, Breakage(hits) = Breakage(others)
  PROVE  LET s == DominantSignature(hits)
             t == DominantSignature(others)
         IN  \/ s = t
             \/ /\ NotAnError \notin {s, t}
                /\ Count(hits, s) = Count(hits, t)
                /\ 2 * Count(hits, s) <= Cardinality(DOMAIN hits)
<1> DEFINE s == DominantSignature(hits)
           t == DominantSignature(others)
<1>1. \A r \in Errors : Count(hits, r) = Count(others, r)
  BY FoundCounts
<1>2. Cardinality(DOMAIN hits) = Cardinality(DOMAIN others)
  BY DEF Breakage
<1>3. s = NotAnError <=> t = NotAnError
  BY <1>1, <1>2, UnnamedWithoutShare
<1>4. \A r : Count(hits, r) \in Nat
  BY HitsFacts
<1>5. ASSUME s # t PROVE /\ NotAnError \notin {s, t}
                        /\ Count(hits, s) = Count(hits, t)
                        /\ 2 * Count(hits, s) <= Cardinality(DOMAIN hits)
  <2>1. s # NotAnError /\ t # NotAnError /\ s \in Errors /\ t \in Errors
    BY <1>3, <1>5, SignatureType
  <2>2. Count(hits, t) <= Count(hits, s) /\ Count(others, s) <= Count(others, t)
    BY <2>1, SignatureHasMost
  <2>3. Count(hits, s) = Count(hits, t)
    BY <2>1, <2>2, <1>1, <1>4
  <2>4. Count(hits, s) + Count(hits, t) <= Cardinality(DOMAIN hits)
    BY <1>5, CountsApart
  <2> QED
    BY <2>1, <2>3, <2>4, <1>4, HitsFacts
<1> QED
  BY <1>5

-----------------------------------------------------------------------------
(* What an event that may open an issue comes to *)

Fits(e, ev, fp) ==
  /\ ev.exception \in {"none", "bare", "in_app"}
  /\ ev.error \in Errors \cup {NotAnError}
  /\ ev.exception = "none" <=> ev.error = NotAnError
  /\ ev.exception = "in_app" => e.input = "sentry"
  /\ ev.infra \in BOOLEAN /\ ev.logs \in BOOLEAN /\ ev.advice \in BOOLEAN
  /\ e.input = "datadog" /\ ev.error \in Infra => ev.infra
  /\ fp \in Fingerprint /\ fp.input = e.input
  /\ fp.error # NotAnError => fp.error = ev.error
  /\ e.transition \in {"new", "regression"}

Triage(e) ==
  \/ TriageBare(e)
  \/ \E ev \in SentryEvidence : TriageSentry(e, ev)
  \/ \E search \in Searches : TriageDatadog(e, search)

LEMMA TriageOpens ==
  ASSUME NEW e \in Event, Triage(e)
  PROVE  \E ev, fp : Open(e, ev, fp) /\ Fits(e, ev, fp)
<1>1. CASE TriageBare(e)
  <2>1. Fits(e, NoEvidence, FinalFingerprint(e, NoEvidence))
    BY <1>1, DataAssumption DEF TriageBare, Fits, NoEvidence, FinalFingerprint, Fingerprint,
                                Event
  <2> QED
    BY <1>1, <2>1 DEF TriageBare
<1>2. CASE \E ev \in SentryEvidence : TriageSentry(e, ev)
  <2>1. PICK ev \in SentryEvidence : TriageSentry(e, ev)
    BY <1>2
  <2>2. Fits(e, ev, FinalFingerprint(e, ev))
    BY <2>1 DEF TriageSentry, Fits, SentryEvidence, FinalFingerprint, Fingerprint, Event
  <2> QED
    BY <2>1, <2>2 DEF TriageSentry
<1>3. CASE \E search \in Searches : TriageDatadog(e, search)
  <2>1. PICK search \in Searches : TriageDatadog(e, search)
    BY <1>3
  <2>2. PICK hits \in Hits, advice \in BOOLEAN : search.evidence = DatadogEvidence(hits, advice)
    BY <2>1 DEF Searches
  <2> DEFINE ev == DatadogEvidence(hits, advice)
             fp == FinalFingerprint(e, ev)
  <2>3. /\ ev.exception = IF ev.error = NotAnError THEN "none" ELSE "bare"
        /\ ev.error = DominantSignature(hits)
        /\ ev.logs \in BOOLEAN /\ ev.advice \in BOOLEAN
    BY DEF DatadogEvidence
  <2>4. ev.error \in Errors \cup {NotAnError}
    BY <2>3, SignatureType
  <2>5. fp \in Fingerprint /\ fp.input = e.input /\ (fp.error # NotAnError => fp.error = ev.error)
    BY <2>4 DEF FinalFingerprint, Fingerprint, Event
  <2>6. Open(e, ev, fp) /\ e.transition \in {"new", "regression"}
    BY <2>1, <2>2 DEF TriageDatadog
  <2>7. ev.infra = (DominantSignature(hits) \in Infra)
    BY DEF DatadogEvidence
  <2> HIDE DEF ev, fp
  <2>8. ev.infra \in BOOLEAN /\ (ev.error \in Infra => ev.infra)
    <3>1. ev.error = DominantSignature(hits)
      BY <2>3
    <3>2. (DominantSignature(hits) \in Infra) \in BOOLEAN
      OBVIOUS
    <3>3. ev.infra \in BOOLEAN
      BY <3>2, <2>7, Zenon
    <3>4. ev.error \in Infra => ev.infra
      BY <3>1, <2>7, Zenon
    <3> QED
      BY <3>3, <3>4
  <2>9. Fits(e, ev, fp)
    BY <2>3, <2>4, <2>5, <2>6, <2>8 DEF Fits
  <2> QED
    BY <2>6, <2>9, Zenon
<1> QED
  BY <1>1, <1>2, <1>3 DEF Triage

LEMMA NextCases ==
  ASSUME inflight \subseteq Event, Next
  PROVE  \/ \E n \in Notifications : MonitorNotifies(n)
         \/ SentryPosts
         \/ \E e \in inflight : NothingOpened(e)
         \/ \E e \in inflight : \E ev, fp : Open(e, ev, fp) /\ Fits(e, ev, fp)
         \/ \E fp \in Fingerprint : RowMoves(fp)
<1>1. ASSUME NEW e \in inflight, Triage(e)
      PROVE  \E d \in inflight : \E ev, fp : Open(d, ev, fp) /\ Fits(d, ev, fp)
  BY <1>1, TriageOpens
<1> QED
  BY <1>1 DEF Next, Triage, HandleUpdate, Dropped

-----------------------------------------------------------------------------
(* Types. An alarm is a webhook, so that there are no more of them.         *)

TypeInv == TypeOK /\ alarms <= posts

LEMMA TransitionsFacts ==
  ASSUME NEW n \in Notifications, n.label \in DOMAIN Transitions
  PROVE  /\ Transitions[n.label] \in Transition
         /\ Transitions[n.label] \in {"new", "regression"} => n.label = "Triggered"
  BY DEF Notifications, Transitions, Transition

\* the step of the router that a webhook takes
Dispatched(accepted, alarm, e) ==
  /\ accepted \in BOOLEAN /\ alarm \in BOOLEAN
  /\ Route(accepted, e, alarm)
  /\ accepted => /\ e \in Event /\ e.env \in {NoEnv, place.env}
                 /\ e.transition \in {"new", "regression"} => alarm

LEMMA Routed ==
  ASSUME TypeOK, (\E n \in Notifications : MonitorNotifies(n)) \/ SentryPosts
  PROVE  \E accepted, alarm, e : Dispatched(accepted, alarm, e)
<1>1. ASSUME NEW n \in Notifications, MonitorNotifies(n)
      PROVE  \E accepted, alarm, e : Dispatched(accepted, alarm, e)
  <2> DEFINE known == n.label \in DOMAIN Transitions
             accepted == known /\ EnvAccepted(place.env)
             e == [input |-> "datadog",
                   transition |-> IF known THEN Transitions[n.label] ELSE "update",
                   env |-> place.env, level |-> "none"]
  <2>1. Route(accepted, e, n.label = "Triggered")
    BY <1>1 DEF MonitorNotifies
  <2>2. e \in Event
    BY TransitionsFacts DEF Event, Input, Transition, TypeOK, Place
  <2>3. e.transition \in {"new", "regression"} => n.label = "Triggered"
    BY TransitionsFacts
  <2>4. accepted \in BOOLEAN /\ (n.label = "Triggered") \in BOOLEAN
    BY DEF EnvAccepted
  <2>5. e.env \in {NoEnv, place.env}
    OBVIOUS
  <2> HIDE DEF known, accepted, e
  <2> QED
    BY <2>1, <2>2, <2>3, <2>4, <2>5, Zenon DEF Dispatched
<1>2. ASSUME NEW from, NEW to, NEW t \in {"new", "regression", "recovered"}, IssueHook(from, to, t)
      PROVE  \E accepted, alarm, e : Dispatched(accepted, alarm, e)
  <2> DEFINE e == [input |-> "sentry", transition |-> t, env |-> NoEnv, level |-> place.level]
  <2>1. Route(SentryAccepts(NoEnv), e, t # "recovered") /\ SentryAccepts(NoEnv) \in BOOLEAN
    BY <1>2 DEF IssueHook, SentryAccepts, EnvAccepted
  <2>2. e \in Event
    BY DEF Event, Input, Transition, TypeOK, Place
  <2>3. e.env \in {NoEnv, place.env} /\ (t # "recovered") \in BOOLEAN
        /\ (e.transition \in {"new", "regression"} => t # "recovered")
    OBVIOUS
  <2> HIDE DEF e
  <2> QED
    BY <2>1, <2>2, <2>3, Zenon DEF Dispatched
<1>3. ASSUME EventAlert
      PROVE  \E accepted, alarm, e : Dispatched(accepted, alarm, e)
  <2> DEFINE e == [input |-> "sentry", transition |-> "new", env |-> place.env,
                   level |-> place.level]
  <2>1. Route(SentryAccepts(place.env), e, TRUE) /\ SentryAccepts(place.env) \in BOOLEAN
    BY <1>3 DEF EventAlert, SentryAccepts, EnvAccepted
  <2>2. e \in Event
    BY DEF Event, Input, Transition, TypeOK, Place
  <2>3. e.env \in {NoEnv, place.env} /\ TRUE \in BOOLEAN
    OBVIOUS
  <2> HIDE DEF e
  <2> QED
    BY <2>1, <2>2, <2>3, Zenon DEF Dispatched
<1> QED
  BY <1>1, <1>2, <1>3 DEF SentryPosts

LEMMA TypeInit == Init => TypeInv
<1> SUFFICES ASSUME Init PROVE TypeInv
  OBVIOUS
<1>1. NoRow \in Row
  BY DEF NoRow, Row
<1> QED
  BY <1>1, BoundsAssumption DEF Init, TypeInv, TypeOK

LEMMA OpenType ==
  ASSUME TypeInv, NEW e \in inflight, NEW ev, NEW fp, Open(e, ev, fp), Fits(e, ev, fp)
  PROVE  TypeInv'
<1>1. /\ place' = place /\ monitor' = monitor /\ issue' = issue /\ posts' = posts
      /\ alarms' = alarms /\ inflight' \subseteq inflight /\ redelivered' \in 0..MaxRedelivered
  BY BoundsAssumption DEF Open, Taken, TypeInv, TypeOK
<1>2. rows' \in [Fingerprint -> Row] /\ opened' \in Nat
  <2>1. CASE Claimable(rows[fp])
    <3>1. PICK room \in BOOLEAN :
            rows' = [rows EXCEPT ![fp] =
                      [standing |-> Verdict(e, ev, room), paged |-> ShouldPage(e, ev),
                       named |-> ev.error # NotAnError]]
      BY <2>1, Zenon DEF Open
    <3>2. [standing |-> Verdict(e, ev, room), paged |-> ShouldPage(e, ev),
           named |-> ev.error # NotAnError] \in Row
      BY DEF Row, Verdict, ShouldPage
    <3>3. opened' = opened + 1
      BY <2>1, Zenon DEF Open
    <3>4. PICK r \in Row : rows' = [rows EXCEPT ![fp] = r]
      BY <3>1, <3>2, Zenon
    <3>5. rows \in [Fingerprint -> Row] /\ opened \in Nat
      BY DEF TypeInv, TypeOK
    <3>6. rows' \in [Fingerprint -> Row]
      BY <3>4, <3>5
    <3>7. opened' \in Nat
      BY <3>3, <3>5
    <3> QED
      BY <3>6, <3>7
  <2>2. CASE ~Claimable(rows[fp])
    BY <2>2 DEF Open, TypeInv, TypeOK
  <2> QED
    BY <2>1, <2>2
<1> QED
  BY <1>1, <1>2 DEF TypeInv, TypeOK

LEMMA TypeStep == TypeInv /\ [Next]_vars => TypeInv'
<1> SUFFICES ASSUME TypeInv, [Next]_vars PROVE TypeInv'
  OBVIOUS
<1> USE BoundsAssumption DEF TypeInv
<1>1. CASE \E n \in Notifications : MonitorNotifies(n)
  <2>0. PICK n \in Notifications : monitor' = n.to /\ issue' = issue
    BY <1>1 DEF MonitorNotifies
  <2>1. monitor' \in {"ok", "warn", "alert"} /\ issue' = issue
    BY <2>0 DEF Notifications
  <2> QED
    BY <1>1, <2>1, Routed DEF TypeOK, Dispatched, Route, If
<1>2. CASE SentryPosts
  <2>1. issue' \in {"none", "unresolved", "resolved"} /\ monitor' = monitor
    BY <1>2 DEF SentryPosts, IssueHook, EventAlert, TypeOK
  <2> QED
    BY <1>2, <2>1, Routed DEF TypeOK, Dispatched, Route, If
<1>3. CASE \E e \in inflight : NothingOpened(e)
  BY <1>3 DEF NothingOpened, Taken, TypeOK
<1>4. CASE \E e \in inflight : \E ev, fp : Open(e, ev, fp) /\ Fits(e, ev, fp)
  BY <1>4, OpenType
<1>5. CASE \E fp \in Fingerprint : RowMoves(fp)
  BY <1>5 DEF RowMoves, TypeOK, Row
<1>6. CASE UNCHANGED vars
  BY <1>6 DEF vars, TypeOK
<1> QED
  BY <1>1, <1>2, <1>3, <1>4, <1>5, <1>6, NextCases DEF TypeOK

(* Every step of webhooks and triage keeps the types; no bound on errors,   *)
(* environments, webhooks or redeliveries.                                  *)
THEOREM AlertTypes == Spec => []TypeOK
<1>1. TypeInv => TypeOK
  BY DEF TypeInv
<1> QED
  BY <1>1, TypeInit, TypeStep, PTL DEF Spec

-----------------------------------------------------------------------------
(* Paging. An event has the environment of its source or none.              *)

EnvInv ==
  /\ \A e \in inflight : e.env \in {NoEnv, place.env}
  /\ PagedForProduction

\* the row that Open writes
LEMMA OpenWrites ==
  ASSUME NEW e, NEW ev, NEW fp, Open(e, ev, fp)
  PROVE  \/ rows' = rows /\ opened' = opened
         \/ \E room \in BOOLEAN :
              /\ rows' = [rows EXCEPT ![fp] =
                            [standing |-> Verdict(e, ev, room), paged |-> ShouldPage(e, ev),
                             named |-> ev.error # NotAnError]]
              /\ opened' = opened + 1
  BY Zenon DEF Open

(* policy.page_when: whatever the order, the delay and the number of the    *)
(* deliveries, only an error of a paging environment is paged for.          *)
THEOREM PagesOnlyForProduction == Spec => []PagedForProduction
<1>1. Init => EnvInv
  BY DEF Init, EnvInv, PagedForProduction, NoRow
<1>2. TypeInv /\ EnvInv /\ [Next]_vars => EnvInv'
  <2> SUFFICES ASSUME TypeInv, EnvInv, [Next]_vars PROVE EnvInv'
    OBVIOUS
  <2> USE DEF TypeInv
  <2>1. CASE (\E n \in Notifications : MonitorNotifies(n)) \/ SentryPosts
    BY <2>1, Routed DEF Dispatched, Route, EnvInv, PagedForProduction
  <2>2. CASE \E e \in inflight : NothingOpened(e)
    BY <2>2 DEF NothingOpened, Taken, EnvInv, PagedForProduction
  <2>3. ASSUME NEW e \in inflight, NEW ev, NEW fp, Open(e, ev, fp), Fits(e, ev, fp)
        PROVE  EnvInv'
    <3>1. place' = place /\ inflight' \subseteq inflight
      BY <2>3 DEF Open, Taken
    <3>2. ASSUME ShouldPage(e, ev) PROVE place.env \in PageEnvs
      BY <3>2, DataAssumption DEF ShouldPage, EnvInv
    <3>3. ASSUME NEW q \in Fingerprint, rows'[q].paged PROVE place.env \in PageEnvs
      <4>1. CASE rows' = rows
        BY <3>3, <4>1 DEF EnvInv, PagedForProduction
      <4>2. ASSUME NEW room \in BOOLEAN,
                   rows' = [rows EXCEPT ![fp] =
                     [standing |-> Verdict(e, ev, room), paged |-> ShouldPage(e, ev),
                      named |-> ev.error # NotAnError]]
            PROVE  place.env \in PageEnvs
        <5>1. CASE q = fp
          BY <5>1, <4>2, <3>2, <3>3 DEF TypeOK
        <5>2. CASE q # fp
          BY <5>2, <4>2, <3>3 DEF TypeOK, EnvInv, PagedForProduction
        <5> QED
          BY <5>1, <5>2
      <4> QED
        BY <4>1, <4>2, <2>3, OpenWrites
    <3> QED
      BY <3>1, <3>3 DEF EnvInv, PagedForProduction
  <2>4. CASE \E fp \in Fingerprint : RowMoves(fp)
    BY <2>4 DEF RowMoves, EnvInv, PagedForProduction, TypeOK, Row
  <2>5. CASE UNCHANGED vars
    BY <2>5 DEF vars, EnvInv, PagedForProduction
  <2> QED
    BY <2>1, <2>2, <2>3, <2>4, <2>5, NextCases DEF TypeOK
<1>3. EnvInv => PagedForProduction
  BY DEF EnvInv
<1> QED
  BY <1>1, <1>2, <1>3, TypeInit, TypeStep, PTL DEF Spec

\* how bad a severity is
Rank(severity) ==
  CASE severity = "low" -> 0 [] severity = "medium" -> 1
    [] severity = "high" -> 2 [] severity = "critical" -> 3

(* Paging is monotone: whatever the thresholds of page_when, the same event  *)
(* with more users or more occurrences is no less severe, and wakes somebody *)
(* when it would have done so with fewer (core/triage.py, severity and       *)
(* should_page).                                                             *)
THEOREM WorseIsNeverQuieter ==
  ASSUME NEW e \in Event, NEW ev \in Evidence, NEW worse \in Evidence,
         worse.users >= ev.users, worse.count >= ev.count
  PROVE  /\ Rank(Severity(e, worse)) >= Rank(Severity(e, ev))
         /\ ShouldPage(e, ev) => ShouldPage(e, worse)
<1>1. /\ ev.users \in Nat /\ ev.count \in Nat /\ worse.users \in Nat /\ worse.count \in Nat
      /\ UsersToPage \in Nat /\ EventsToPage \in Nat
  BY ConfigAssumption DEF Evidence
<1> DEFINE Critical(found) == e.level = "fatal" \/ found.users >= 100 \/ found.count >= 1000
           High(found) == found.users >= 20 \/ found.count >= 200 \/ e.input = "datadog"
           Medium(found) == found.users >= 1 \/ found.count >= 10
<1>2. \A found : Severity(e, found) = IF Critical(found) THEN "critical"
                                      ELSE IF High(found) THEN "high"
                                      ELSE IF Medium(found) THEN "medium"
                                      ELSE "low"
  BY DEF Severity
<1>3. /\ Critical(ev) => Critical(worse)
      /\ High(ev) => High(worse)
      /\ Medium(ev) => Medium(worse)
  BY <1>1
<1> HIDE DEF Critical, High, Medium
<1>4. Severity(e, ev) = "critical" => Severity(e, worse) = "critical"
  BY <1>2, <1>3
<1>5. Severity(e, ev) = "high" => Severity(e, worse) \in {"high", "critical"}
  BY <1>2, <1>3
<1>6. Severity(e, ev) = "medium" => Severity(e, worse) \in {"medium", "high", "critical"}
  BY <1>2, <1>3
<1>7. \A found \in {ev, worse} : Severity(e, found) \in {"low", "medium", "high", "critical"}
  BY DEF Severity
<1>8. Rank(Severity(e, worse)) >= Rank(Severity(e, ev))
  BY <1>4, <1>5, <1>6, <1>7 DEF Rank
<1>9. ShouldPage(e, ev) => ShouldPage(e, worse)
  BY <1>1, <1>4 DEF ShouldPage
<1> QED
  BY <1>8, <1>9

-----------------------------------------------------------------------------
(* Confidence *)

LEMMA LittleConfidence ==
  ASSUME ConfidenceMin > 50, NEW e, NEW ev, NEW fp, Fits(e, ev, fp), NEW room,
         Verdict(e, ev, room) = "open"
  PROVE  ev.error # NotAnError /\ (fp.input = "datadog" => fp.error \notin Infra)
<1>1. Confidence(e, ev) > 50
  BY ConfigAssumption DEF Verdict, Confidence, Clamp, If
<1>2. ASSUME ev.error = NotAnError PROVE FALSE
  BY <1>1, <1>2, DataAssumption DEF Fits, Confidence, Clamp, If
<1>3. ASSUME fp.input = "datadog", fp.error \in Infra PROVE FALSE
  <2>1. ev.infra /\ ev.exception = "bare" /\ ev.error # NotAnError
    BY <1>2, <1>3, DataAssumption DEF Fits
  <2> QED
    BY <1>1, <2>1 DEF Confidence, Clamp, If
<1> QED
  BY <1>2, <1>3

(* inputs/datadog:23, "no PR (RCA only)": with a confidence_min above 0.50, *)
(* the scores alone keep every issue without an exception or signature, and *)
(* every one of a monitor whose wording is infrastructural, from a fix. A   *)
(* bare code 502, 503 or 504 is not wording: _normalise strikes it out.     *)
THEOREM NoPrForTheUnnamed == ConfidenceMin > 50 => (Spec => []NoPrWithoutDefect)
<1> SUFFICES ASSUME ConfidenceMin > 50 PROVE Spec => []NoPrWithoutDefect
  OBVIOUS
<1>1. Init => NoPrWithoutDefect
  BY DEF Init, NoPrWithoutDefect, NoRow
<1>2. TypeInv /\ NoPrWithoutDefect /\ [Next]_vars => NoPrWithoutDefect'
  <2> SUFFICES ASSUME TypeInv, NoPrWithoutDefect, [Next]_vars PROVE NoPrWithoutDefect'
    OBVIOUS
  <2> USE DEF TypeInv
  <2>1. CASE (\E n \in Notifications : MonitorNotifies(n)) \/ SentryPosts
    BY <2>1, Routed DEF Dispatched, Route, NoPrWithoutDefect
  <2>2. CASE \E e \in inflight : NothingOpened(e)
    BY <2>2 DEF NothingOpened, NoPrWithoutDefect
  <2>3. ASSUME NEW e \in inflight, NEW ev, NEW fp, Open(e, ev, fp), Fits(e, ev, fp)
        PROVE  NoPrWithoutDefect'
    <3>1. CASE rows' = rows
      BY <3>1 DEF NoPrWithoutDefect
    <3>2. ASSUME NEW room \in BOOLEAN,
                 rows' = [rows EXCEPT ![fp] =
                   [standing |-> Verdict(e, ev, room), paged |-> ShouldPage(e, ev),
                    named |-> ev.error # NotAnError]]
          PROVE  NoPrWithoutDefect'
      <4>1. SUFFICES ASSUME NEW q \in Fingerprint, rows'[q].standing \in {"open", "cooling"}
                     PROVE  rows'[q].named /\ (q.input = "datadog" => q.error \notin Infra)
        BY DEF NoPrWithoutDefect
      <4>2. CASE q = fp
        <5>1. Verdict(e, ev, room) = "open"
          BY <4>1, <4>2, <3>2 DEF TypeOK, Verdict
        <5>2. ev.error # NotAnError /\ (fp.input = "datadog" => fp.error \notin Infra)
          BY <5>1, <2>3, LittleConfidence
        <5> QED
          BY <5>2, <4>2, <3>2 DEF TypeOK
      <4>3. CASE q # fp
        BY <4>1, <4>3, <3>2 DEF TypeOK, NoPrWithoutDefect
      <4> QED
        BY <4>2, <4>3
    <3> QED
      BY <3>1, <3>2, <2>3, OpenWrites
  <2>4. CASE \E fp \in Fingerprint : RowMoves(fp)
    BY <2>4 DEF RowMoves, NoPrWithoutDefect, TypeOK, Row
  <2>5. CASE UNCHANGED vars
    BY <2>5 DEF vars, NoPrWithoutDefect
  <2> QED
    BY <2>1, <2>2, <2>3, <2>4, <2>5, NextCases DEF TypeOK
<1> QED
  BY <1>1, <1>2, TypeInit, TypeStep, PTL DEF Spec

-----------------------------------------------------------------------------
(* Alarms and openings. An alarm is in flight, has opened an issue, or was  *)
(* taken without opening one; a redelivery leaves it in flight.             *)

Alarming == {e \in inflight : e.transition \in {"new", "regression"}}

OpenInv ==
  /\ IsFiniteSet(Alarming)
  /\ opened + Cardinality(Alarming) <= alarms + redelivered

LEMMA TakenAlarm ==
  ASSUME TypeInv, NEW e \in inflight, Taken(e), IsFiniteSet(Alarming)
  PROVE  /\ IsFiniteSet(Alarming') /\ Cardinality(Alarming') \in Nat
         /\ alarms' = alarms /\ redelivered' \in Nat
         /\ Cardinality(Alarming') + redelivered <= Cardinality(Alarming) + redelivered'
         /\ e.transition \in {"new", "regression"} =>
              Cardinality(Alarming') + redelivered < Cardinality(Alarming) + redelivered'
<1>1. Cardinality(Alarming) \in Nat /\ alarms' = alarms /\ redelivered \in Nat
  BY FS_CardinalityType DEF Taken, TypeInv, TypeOK
<1>2. CASE inflight' = inflight \ {e} /\ redelivered' = redelivered
  <2>1. Alarming' = Alarming \ {e}
    BY <1>2 DEF Alarming
  <2>2. e \in Alarming <=> e.transition \in {"new", "regression"}
    BY DEF Alarming
  <2>3. /\ IsFiniteSet(Alarming \ {e})
        /\ Cardinality(Alarming \ {e}) =
             IF e \in Alarming THEN Cardinality(Alarming) - 1 ELSE Cardinality(Alarming)
    BY FS_RemoveElement
  <2>4. Cardinality(Alarming \ {e}) \in Nat
    BY <2>3, FS_CardinalityType
  <2> QED
    BY <1>1, <1>2, <2>1, <2>2, <2>3, <2>4
<1>3. CASE redelivered' = redelivered + 1 /\ inflight' = inflight
  <2>1. Alarming' = Alarming
    BY <1>3 DEF Alarming
  <2> QED
    BY <1>1, <1>3, <2>1
<1> QED
  BY <1>2, <1>3 DEF Taken

(* models.py:24-26. Renotifications and recoveries open nothing, and an     *)
(* alarm opens one issue at most each time it is delivered, the second      *)
(* time included.                                                           *)
THEOREM AlarmsBoundOpenings == Spec => []OpenedByAlarms
<1>1. Init => OpenInv
  <2> SUFFICES ASSUME Init PROVE OpenInv
    OBVIOUS
  <2>1. Alarming = {}
    BY DEF Init, Alarming
  <2> QED
    BY <2>1, FS_EmptySet DEF Init, OpenInv
<1>2. TypeInv /\ OpenInv /\ [Next]_vars => OpenInv'
  <2> SUFFICES ASSUME TypeInv, OpenInv, [Next]_vars PROVE OpenInv'
    OBVIOUS
  <2>0. /\ opened \in Nat /\ alarms \in Nat /\ redelivered \in Nat
        /\ Cardinality(Alarming) \in Nat
        /\ opened + Cardinality(Alarming) <= alarms + redelivered
    BY FS_CardinalityType DEF TypeInv, TypeOK, OpenInv
  <2>1. CASE (\E n \in Notifications : MonitorNotifies(n)) \/ SentryPosts
    <3>1. PICK accepted, alarm, e : Dispatched(accepted, alarm, e)
      BY <2>1, Routed DEF TypeInv
    <3>2. opened' = opened /\ redelivered' = redelivered /\ alarms' = alarms + If(alarm, 1)
      BY <3>1 DEF Dispatched, Route
    <3>3. CASE Alarming' = Alarming
      BY <3>2, <3>3, <2>0 DEF OpenInv, If
    <3>4. CASE Alarming' # Alarming
      <4>1. alarm /\ Alarming' = Alarming \cup {e}
        BY <3>1, <3>4 DEF Dispatched, Route, Alarming
      <4>2. /\ IsFiniteSet(Alarming')
            /\ Cardinality(Alarming') <= Cardinality(Alarming) + 1
        BY <4>1, <2>0, FS_AddElement DEF OpenInv
      <4>3. Cardinality(Alarming') \in Nat
        BY <4>2, FS_CardinalityType
      <4> QED
        BY <4>1, <4>2, <4>3, <3>2, <2>0 DEF OpenInv, If
    <3> QED
      BY <3>3, <3>4
  <2>2. CASE \E e \in inflight : NothingOpened(e)
    <3>1. PICK e \in inflight : Taken(e) /\ opened' = opened
      BY <2>2 DEF NothingOpened
    <3> QED
      BY <3>1, <2>0, TakenAlarm DEF OpenInv
  <2>3. ASSUME NEW e \in inflight, NEW ev, NEW fp, Open(e, ev, fp), Fits(e, ev, fp)
        PROVE  OpenInv'
    <3>1. Taken(e) /\ e.transition \in {"new", "regression"}
      BY <2>3 DEF Open, Fits
    <3>2. opened' = opened \/ opened' = opened + 1
      BY <2>3, OpenWrites
    <3> QED
      BY <3>1, <3>2, <2>0, TakenAlarm DEF OpenInv
  <2>4. CASE \E fp \in Fingerprint : RowMoves(fp)
    BY <2>4 DEF RowMoves, OpenInv, Alarming
  <2>5. CASE UNCHANGED vars
    BY <2>5 DEF vars, OpenInv, Alarming
  <2> QED
    BY <2>1, <2>2, <2>3, <2>4, <2>5, NextCases DEF TypeInv, TypeOK
<1>3. TypeInv /\ OpenInv => OpenedByAlarms
  <2> SUFFICES ASSUME TypeInv, OpenInv PROVE OpenedByAlarms
    OBVIOUS
  <2>1. opened \in Nat /\ alarms \in Nat /\ redelivered \in Nat /\ Cardinality(Alarming) \in Nat
    BY FS_CardinalityType DEF TypeInv, TypeOK, OpenInv
  <2> QED
    BY <2>1 DEF OpenInv, OpenedByAlarms
<1> QED
  BY <1>1, <1>2, <1>3, TypeInit, TypeStep, PTL DEF Spec

-----------------------------------------------------------------------------
(* Breakages *)

Searched(p) ==
  \E hits \in Hits : /\ p.found = Breakage(hits)
                     /\ p.fp = [input |-> "datadog", error |-> DominantSignature(hits)]

SearchInv == \A p \in breakages : Searched(p)

LEMMA SearchedMeansNamed ==
  ASSUME NEW p, NEW q, Searched(p), Searched(q)
  PROVE  /\ p.found = q.found =>
              \/ p.fp = q.fp
              \/ /\ NotAnError \notin {p.fp.error, q.fp.error}
                 /\ p.found.of[p.fp.error] = p.found.of[q.fp.error]
                 /\ 2 * p.found.of[p.fp.error] <= p.found.total
         /\ p.fp.error # NotAnError =>
              \A s \in Errors : p.found.of[s] <= p.found.of[p.fp.error]
         /\ p.fp.error = NotAnError <=>
              \/ p.found.total = 0
              \/ \A s \in Errors : 100 * p.found.of[s] < Share * p.found.total
<1>1. PICK hits \in Hits : /\ p.found = Breakage(hits)
                           /\ p.fp = [input |-> "datadog", error |-> DominantSignature(hits)]
  BY DEF Searched
<1>2. PICK others \in Hits : /\ q.found = Breakage(others)
                             /\ q.fp = [input |-> "datadog", error |-> DominantSignature(others)]
  BY DEF Searched
<1>3. /\ p.fp.error = DominantSignature(hits) /\ p.fp.error \in Errors \cup {NotAnError}
      /\ q.fp.error = DominantSignature(others) /\ q.fp.error \in Errors \cup {NotAnError}
      /\ p.found.total = Cardinality(DOMAIN hits)
      /\ \A s \in Errors : p.found.of[s] = Count(hits, s)
  <2>1. p.fp.error = DominantSignature(hits) /\ q.fp.error = DominantSignature(others)
    BY <1>1, <1>2
  <2>2. p.found.total = Cardinality(DOMAIN hits)
    BY <1>1 DEF Breakage
  <2>3. \A s \in Errors : p.found.of[s] = Count(hits, s)
    BY <1>1, FoundCounts
  <2> QED
    BY <2>1, <2>2, <2>3, SignatureType
<1>4. ASSUME p.found = q.found, p.fp # q.fp
      PROVE  /\ NotAnError \notin {p.fp.error, q.fp.error}
             /\ p.found.of[p.fp.error] = p.found.of[q.fp.error]
             /\ 2 * p.found.of[p.fp.error] <= p.found.total
  <2>1. Breakage(hits) = Breakage(others) /\ DominantSignature(hits) # DominantSignature(others)
    BY <1>1, <1>2, <1>4
  <2>2. /\ NotAnError \notin {DominantSignature(hits), DominantSignature(others)}
        /\ Count(hits, DominantSignature(hits)) = Count(hits, DominantSignature(others))
        /\ 2 * Count(hits, DominantSignature(hits)) <= Cardinality(DOMAIN hits)
    BY <2>1, OnlyATieIsOpen
  <2> QED
    BY <2>2, <1>3
<1>5. ASSUME p.fp.error # NotAnError, NEW s \in Errors
      PROVE  p.found.of[s] <= p.found.of[p.fp.error]
  BY <1>3, <1>5, SignatureHasMost
<1>6. p.fp.error = NotAnError <=>
        \/ p.found.total = 0
        \/ \A s \in Errors : 100 * p.found.of[s] < Share * p.found.total
  BY <1>3, UnnamedWithoutShare
<1> QED
  BY <1>4, <1>5, <1>6

LEMMA SearchStep ==
  ASSUME SearchInv, NEW e, NEW search \in Searches, TriageDatadog(e, search)
  PROVE  SearchInv'
<1>1. PICK hits \in Hits, advice \in BOOLEAN :
        search = [evidence |-> DatadogEvidence(hits, advice), found |-> Breakage(hits)]
  BY DEF Searches
<1>2. search.evidence.error = DominantSignature(hits) /\ search.found = Breakage(hits)
  BY <1>1 DEF DatadogEvidence
<1>3. FinalFingerprint(e, search.evidence) =
        [input |-> "datadog", error |-> DominantSignature(hits)]
  BY <1>2 DEF TriageDatadog, FinalFingerprint
<1> DEFINE new == [found |-> search.found, fp |-> FinalFingerprint(e, search.evidence)]
<1>4. Searched(new)
  BY <1>2, <1>3 DEF Searched
<1>5. breakages' = breakages \cup {new}
  BY DEF TriageDatadog
<1> QED
  BY <1>4, <1>5 DEF SearchInv

(* inputs/datadog:21-23, "the same breakage re-firing is one": for every    *)
(* dominant_share, issues are named by what breaks and not by the order or  *)
(* the wording of the hits, with the tie as the one exception.              *)
THEOREM OneIssuePerBreakage == Spec => []IssuePerBreakage
<1>1. Init => SearchInv
  BY DEF Init, SearchInv
<1>2. SearchInv /\ [Next]_vars => SearchInv'
  <2> SUFFICES ASSUME SearchInv, [Next]_vars PROVE SearchInv'
    OBVIOUS
  <2>1. ASSUME NEW e, NEW search \in Searches, TriageDatadog(e, search) PROVE SearchInv'
    BY <2>1, SearchStep
  <2>2. ASSUME breakages' = breakages PROVE SearchInv'
    BY <2>2 DEF SearchInv
  <2>3. ASSUME Next, ~\E e, search : search \in Searches /\ TriageDatadog(e, search)
        PROVE  breakages' = breakages
    BY <2>3 DEF Next, MonitorNotifies, SentryPosts, IssueHook, EventAlert, Route,
                HandleUpdate, Dropped, NothingOpened, TriageBare, TriageSentry, RowMoves
  <2> QED
    BY <2>1, <2>2, <2>3 DEF vars
<1>3. SearchInv => IssuePerBreakage
  BY SearchedMeansNamed DEF SearchInv, IssuePerBreakage
<1> QED
  BY <1>1, <1>2, <1>3, PTL DEF Spec
=============================================================================
