------------------------------- MODULE Alerts -------------------------------
(***************************************************************************)
(* From an alert to the verdict on it: the router (handlers/router.py),    *)
(* the Datadog and Sentry inputs (inputs/), the fingerprint and the scores *)
(* (core/fingerprint.py, core/triage.py) and what triage.process makes of  *)
(* them. One Datadog monitor and one Sentry issue are watched; their       *)
(* webhooks are dispatched asynchronously, so that triage may see them in  *)
(* any order, late, twice or not at all. process is one step here: module  *)
(* Admission interleaves its claims.                                       *)
(*                                                                         *)
(* Scores and shares are in hundredths.                                    *)
(***************************************************************************)
EXTENDS Naturals, FiniteSets

CONSTANTS
  Errors,         \* what can be wrong behind the monitor and the issue
  Infra,          \* those whose wording matches _INFRA_PATTERNS
  Details,        \* what _normalise strikes out of a message: numbers, addresses
  Codes,          \* those of them that match _INFRA_PATTERNS: 502, 503, 504
  Envs,           \* environments alerts come from
  PageEnvs,       \* those that page_when.env matches
  Levels,         \* Sentry levels
  LevelsAccepted, \* those that are not below min_level
  EnvsAccepted,   \* the inputs' envs / environments, {} for all
  Users, Counts,  \* numbers of users and events an issue may have
  MaxHits,        \* max_events: hits of one search
  Share,          \* dominant_share
  ConfidenceMin,  \* policy.confidence_min
  LevelFatal, UsersToPage, EventsToPage, \* page_when, 0 for None
  MaxPosts,       \* bound: webhooks posted
  MaxRedelivered  \* bound: events that triage is given once more

NotAnError == "none"
NoEnv == "none"

ASSUME DataAssumption ==
  /\ Infra \subseteq Errors /\ NotAnError \notin Errors
  /\ Codes \subseteq Details
  /\ PageEnvs \subseteq Envs /\ NoEnv \notin Envs
  /\ Users \subseteq Nat /\ Counts \subseteq Nat
ASSUME ConfigAssumption ==
  /\ MaxHits \in Nat \ {0} /\ Share \in 0..100 /\ ConfidenceMin \in 0..100
  /\ LevelFatal \in BOOLEAN /\ UsersToPage \in Nat /\ EventsToPage \in Nat
ASSUME BoundsAssumption == MaxPosts \in Nat /\ MaxRedelivered \in Nat

VARIABLES
  place,       \* the truth: the environment of both sources, the level of the issue
  monitor,     \* the state of the Datadog monitor
  issue,       \* the state of the Sentry issue
  inflight,    \* events dispatched to triage
  rows,        \* what the row of each fingerprint says
  posts, redelivered,
  alarms,      \* history: NEW and REGRESSION events dispatched
  opened,      \* history: claims
  breakages    \* history: what the searches found and the fingerprint given to it

vars == <<place, monitor, issue, inflight, rows, posts, redelivered, alarms,
          opened, breakages>>

-----------------------------------------------------------------------------
(* dominant_signature: a hit is an error with details in its message, and   *)
(* a search returns the latest hits first.                                  *)

Hit == [error : Errors, detail : Details]
Hits == UNION {[1..n -> Hit] : n \in 0..MaxHits}

\* mutant of Signature: the message is not normalised, details split an error
SignatureVerbatim(h) == IF h.detail = CHOOSE d \in Details : TRUE THEN h.error ELSE NotAnError

\* "type: normalised message": every detail is struck out, a code too
Signature(h) == h.error

Bucket(hits, s) == {i \in DOMAIN hits : Signature(hits[i]) = s}
Count(hits, s) == Cardinality(Bucket(hits, s))
SeenBefore(hits, s, t) == \E i \in Bucket(hits, s) : \A j \in Bucket(hits, t) : i < j

\* Counter.most_common(1): of equal counts the one seen first
MostCommon(hits, s) ==
  \A t \in Errors \ {s} :
    \/ Count(hits, t) < Count(hits, s)
    \/ Count(hits, t) = Count(hits, s) /\ SeenBefore(hits, s, t)

Dominates(hits, s) ==
  /\ hits # <<>>
  /\ MostCommon(hits, s)
  /\ 100 * Count(hits, s) >= Share * Cardinality(DOMAIN hits)

DominantSignature(hits) ==
  IF \E s \in Errors : Dominates(hits, s)
  THEN CHOOSE s \in Errors : Dominates(hits, s)
  ELSE NotAnError

\* what the hits were, whatever their order and details
Breakage(hits) ==
  [total |-> Cardinality(DOMAIN hits),
   of |-> [s \in Errors |-> Cardinality({i \in DOMAIN hits : hits[i].error = s})]]

-----------------------------------------------------------------------------
(* Events and evidence *)

Transition == {"new", "regression", "recovered", "update"}
Input == {"datadog", "sentry"}
Event == [input : Input, transition : Transition, env : Envs \cup {NoEnv},
          level : Levels \cup {"none"}]

\* exception: none, one without in-app frames, one with; error is its
\* signature; infra: _infra_like of the signature or of the exception's value;
\* advice: the message says that nothing will retry
Evidence == [exception : {"none", "bare", "in_app"}, error : Errors \cup {NotAnError},
             infra : BOOLEAN, logs : BOOLEAN, advice : BOOLEAN, users : Nat, count : Nat]

\* enrich failed
NoEvidence == [exception |-> "none", error |-> NotAnError, infra |-> FALSE,
               logs |-> FALSE, advice |-> FALSE, users |-> 0, count |-> 0]

\* datadog.build_evidence; a signature makes an exception without frames, whose
\* value is normalised as well, so that only the wording can look
\* infrastructural; the sample hit is quoted whether or not it dominates
DatadogEvidence(hits, advice) ==
  LET s == DominantSignature(hits)
  IN  [exception |-> IF s = NotAnError THEN "none" ELSE "bare", error |-> s,
       infra |-> s \in Infra, logs |-> hits # <<>>, advice |-> advice, users |-> 0,
       count |-> Cardinality(DOMAIN hits)]

\* what enrich can come back with, and the hits it comes from
Searches == {[evidence |-> DatadogEvidence(hits, advice), found |-> Breakage(hits)] :
               hits \in Hits, advice \in BOOLEAN}

\* sentry.evidence_from_event: the signature is that of the exception, whose
\* value keeps its details
SentryEvidence ==
  {ev \in [exception : {"none", "bare", "in_app"}, error : Errors \cup {NotAnError},
           infra : BOOLEAN, logs : {FALSE}, advice : BOOLEAN, users : Users, count : Counts] :
     /\ ev.exception = "none" <=> ev.error = NotAnError
     /\ \E d \in Details :
          ev.infra = (ev.error \in Infra \/ (ev.exception # "none" /\ d \in Codes))}

\* fingerprint.final_fingerprint
FinalFingerprint(e, ev) ==
  [input |-> e.input, error |-> IF e.input = "sentry" THEN NotAnError ELSE ev.error]

Fingerprint == [input : Input, error : Errors \cup {NotAnError}]

-----------------------------------------------------------------------------
(* core/triage.py *)

If(condition, points) == IF condition THEN points ELSE 0
Clamp(n) == IF n > 100 THEN 100 ELSE n

\* mutant of Confidence: infrastructure is not told from code
ConfidenceInCode(e, ev) ==
  Clamp(20 + (CASE ev.exception = "in_app" -> 50
                [] ev.exception = "bare" -> 30
                [] OTHER -> 0)
           + If(e.transition = "regression", 10) + If(ev.advice, 15))

Confidence(e, ev) ==
  LET gained == 20
        + (CASE ev.exception = "in_app" -> 50
             [] ev.exception = "bare" -> 30
             [] OTHER -> If(ev.error # NotAnError, 20))
        + If(ev.logs /\ ev.exception = "none", 5)
        + If(e.transition = "regression", 10)
        + If(ev.advice, 15)
      lost == If(ev.infra, 35)
  IN  IF gained < lost THEN 0 ELSE Clamp(gained - lost)

Severity(e, ev) ==
  IF e.level = "fatal" \/ ev.users >= 100 \/ ev.count >= 1000 THEN "critical"
  ELSE IF ev.users >= 20 \/ ev.count >= 200 \/ e.input = "datadog" THEN "high"
  ELSE IF ev.users >= 1 \/ ev.count >= 10 THEN "medium"
  ELSE "low"

\* mutant of ShouldPage: an event without environment pages
ShouldPageBlind(e, ev) == e.level = "fatal" \/ Severity(e, ev) = "critical"

ShouldPage(e, ev) ==
  /\ e.env \in PageEnvs
  /\ \/ LevelFatal /\ e.level = "fatal"
     \/ UsersToPage # 0 /\ ev.users >= UsersToPage
     \/ EventsToPage # 0 /\ ev.count >= EventsToPage
     \/ Severity(e, ev) = "critical"

-----------------------------------------------------------------------------
(* Rows. An open row is that of an issue awaiting approval or in the hands  *)
(* of an execution; a cooling one is CLOSED and within its cool-down; an    *)
(* ended one has any other terminal status. named: the brief has a          *)
(* signature or an exception.                                               *)

Row == [standing : {"none", "rca_only", "open", "cooling", "ended"},
        paged : BOOLEAN, named : BOOLEAN]
NoRow == [standing |-> "none", paged |-> FALSE, named |-> FALSE]

Claimable(row) == row.standing \in {"none", "rca_only", "ended"}

Place == [env : Envs, level : Levels]

TypeOK ==
  /\ place \in Place
  /\ monitor \in {"ok", "warn", "alert"}
  /\ issue \in {"none", "unresolved", "resolved"}
  /\ inflight \subseteq Event
  /\ rows \in [Fingerprint -> Row]
  /\ posts \in 0..MaxPosts /\ redelivered \in 0..MaxRedelivered
  /\ alarms \in 0..MaxPosts /\ opened \in Nat

Init ==
  /\ place \in Place
  /\ monitor = "ok" /\ issue = "none"
  /\ inflight = {}
  /\ rows = [fp \in Fingerprint |-> NoRow]
  /\ posts = 0 /\ redelivered = 0 /\ alarms = 0 /\ opened = 0
  /\ breakages = {}

-----------------------------------------------------------------------------
(* Webhooks and what the inputs make of them *)

EnvAccepted(env) == EnvsAccepted = {} \/ env \in EnvsAccepted

\* parse, then router._dispatch; what parse refuses is answered and forgotten
Route(accepted, e, alarm) ==
  /\ posts < MaxPosts
  /\ posts' = posts + 1
  /\ inflight' = IF accepted THEN inflight \cup {e} ELSE inflight
  /\ alarms' = alarms + If(alarm, 1)
  /\ UNCHANGED <<place, rows, redelivered, opened, breakages>>

\* the moves of a Datadog monitor and their $ALERT_TRANSITION, written without
\* spaces
Notifications ==
  {[from |-> "ok", to |-> "alert", label |-> "Triggered"],
   [from |-> "warn", to |-> "alert", label |-> "Triggered"],
   [from |-> "alert", to |-> "alert", label |-> "Renotify"],
   [from |-> "alert", to |-> "warn", label |-> "Warn"],
   [from |-> "ok", to |-> "warn", label |-> "Warn"],
   [from |-> "alert", to |-> "ok", label |-> "Recovered"],
   [from |-> "warn", to |-> "ok", label |-> "WarnRecovered"]}

\* mutants of Transitions: a renotification is news; None is taken for a transition
TransitionsOfNews == [Triggered |-> "new", Renotify |-> "new", Recovered |-> "recovered"]
TransitionsOrNone == [Triggered |-> "new", Renotify |-> "update", Recovered |-> "recovered",
                      Warn |-> "none"]

\* datadog._TRANSITIONS without the labels it maps to None, and without
\* Re-Triggered, which is an update as Renotify is
Transitions == [Triggered |-> "new", Renotify |-> "update", Recovered |-> "recovered"]

\* DatadogInput.parse: the environment is in the scope or the tags
MonitorNotifies(n) ==
  /\ n.from = monitor
  /\ monitor' = n.to
  /\ LET known == n.label \in DOMAIN Transitions
     IN  Route(known /\ EnvAccepted(place.env),
               [input |-> "datadog",
                transition |-> IF known THEN Transitions[n.label] ELSE "update",
                env |-> place.env, level |-> "none"],
               n.label = "Triggered")
  /\ UNCHANGED issue

SentryAccepts(env) == EnvAccepted(env) /\ place.level \in LevelsAccepted

\* SentryInput._parse_issue: an issue webhook has no environment
IssueHook(from, to, transition) ==
  /\ issue = from
  /\ issue' = to
  /\ Route(SentryAccepts(NoEnv),
           [input |-> "sentry", transition |-> transition, env |-> NoEnv,
            level |-> place.level],
           transition # "recovered")
  /\ UNCHANGED monitor

\* SentryInput._parse_event
EventAlert ==
  /\ issue = "unresolved"
  /\ Route(SentryAccepts(place.env),
           [input |-> "sentry", transition |-> "new", env |-> place.env,
            level |-> place.level], TRUE)
  /\ UNCHANGED <<monitor, issue>>

SentryPosts ==
  \/ IssueHook("none", "unresolved", "new")
  \/ IssueHook("unresolved", "resolved", "recovered")
  \/ IssueHook("resolved", "unresolved", "regression")
  \/ EventAlert

-----------------------------------------------------------------------------
(* triage.process *)

\* the invocation is over, or the Lambda service will make it once more
Taken(e) ==
  /\ e \in inflight
  /\ \/ inflight' = inflight \ {e} /\ UNCHANGED redelivered
     \/ /\ redelivered < MaxRedelivered
        /\ redelivered' = redelivered + 1
        /\ UNCHANGED inflight
  /\ UNCHANGED <<place, monitor, issue, posts, alarms>>

NothingOpened(e) ==
  /\ Taken(e)
  /\ UNCHANGED <<rows, opened, breakages>>

\* _handle_update: ignored, or the event is put in the row that is found
HandleUpdate(e) ==
  /\ e.transition \in {"recovered", "update"}
  /\ NothingOpened(e)

\* policy.freeze, or all attempts of the invocation failed before claim
Dropped(e) ==
  /\ e.transition \in {"new", "regression"}
  /\ NothingOpened(e)

\* room: the service has a repository that is under its daily cap
Verdict(e, ev, room) ==
  IF room /\ Confidence(e, ev) >= ConfidenceMin THEN "open" ELSE "rca_only"

\* a NEW or REGRESSION event whose fingerprint is fp
Open(e, ev, fp) ==
  /\ Taken(e)
  /\ IF Claimable(rows[fp])
     THEN /\ \E room \in BOOLEAN :
               rows' = [rows EXCEPT ![fp] =
                 [standing |-> Verdict(e, ev, room), paged |-> ShouldPage(e, ev),
                  named |-> ev.error # NotAnError]]
          /\ opened' = opened + 1
     ELSE UNCHANGED <<rows, opened>>

TriageDatadog(e, search) ==
  LET fp == FinalFingerprint(e, search.evidence)
  IN  /\ e.input = "datadog" /\ e.transition \in {"new", "regression"}
      /\ Open(e, search.evidence, fp)
      /\ breakages' = breakages \cup {[found |-> search.found, fp |-> fp]}

TriageSentry(e, ev) ==
  /\ e.input = "sentry" /\ e.transition \in {"new", "regression"}
  /\ Open(e, ev, FinalFingerprint(e, ev))
  /\ UNCHANGED breakages

\* enrich raised an exception: process goes on with the bare event
TriageBare(e) ==
  /\ e.transition \in {"new", "regression"}
  /\ Open(e, NoEvidence, FinalFingerprint(e, NoEvidence))
  /\ UNCHANGED breakages

\* the executions, reviewers and time (modules GroomLoop and Admission)
RowMoves(fp) ==
  /\ \/ /\ rows[fp].standing = "open"
        /\ \E s \in {"cooling", "ended"} : rows' = [rows EXCEPT ![fp].standing = s]
     \/ /\ rows[fp].standing = "cooling"
        /\ rows' = [rows EXCEPT ![fp].standing = "ended"]
  /\ UNCHANGED <<place, monitor, issue, inflight, posts, redelivered, alarms, opened,
                 breakages>>

Next ==
  \/ \E n \in Notifications : MonitorNotifies(n)
  \/ SentryPosts
  \/ \E e \in inflight :
       \/ HandleUpdate(e) \/ Dropped(e)
       \/ TriageBare(e)
       \/ \E ev \in SentryEvidence : TriageSentry(e, ev)
       \/ \E search \in Searches : TriageDatadog(e, search)
  \/ \E fp \in Fingerprint : RowMoves(fp)

Spec == Init /\ [][Next]_vars

-----------------------------------------------------------------------------
(* Properties *)

(* inputs/datadog:21: "one endpoint breaking two different ways is two      *)
(* issues, and the same breakage re-firing is one". Two searches that find  *)
(* the same errors, in whatever order and with whatever details, name one   *)
(* issue, but for a tie of errors none of which has more than half of the   *)
(* hits: then the latest hit decides, and at the default dominant_share of  *)
(* 0.5 the second alert of one breakage may open a second issue. An issue   *)
(* is named after an error that no other outnumbers, and it is unnamed when *)
(* no error reaches dominant_share and only then.                           *)
IssuePerBreakage ==
  \A p, q \in breakages :
    /\ p.found = q.found =>
         \/ p.fp = q.fp
         \/ /\ NotAnError \notin {p.fp.error, q.fp.error}
            /\ p.found.of[p.fp.error] = p.found.of[q.fp.error]
            /\ 2 * p.found.of[p.fp.error] <= p.found.total
    /\ p.fp.error # NotAnError =>
         \A s \in Errors : p.found.of[s] <= p.found.of[p.fp.error]
    /\ p.fp.error = NotAnError <=>
         \/ p.found.total = 0
         \/ \A s \in Errors : 100 * p.found.of[s] < Share * p.found.total

(* inputs/datadog:23: "No dominant signature -> no PR (RCA only)"; and an   *)
(* error whose wording says that editing code will not mend it              *)
(* (core/triage.py:15) has none either when a monitor reports it. This must *)
(* follow from the scores and confidence_min alone: nothing tests the       *)
(* signature before a fix. It is not so for an error that only the code 502,*)
(* 503 or 504 gives away: _normalise has struck it out of what the scores   *)
(* see, and with a message that nothing will retry it scores 0.65.          *)
NoPrWithoutDefect ==
  \A fp \in Fingerprint : rows[fp].standing \in {"open", "cooling"} =>
    rows[fp].named /\ (fp.input = "datadog" => fp.error \notin Infra)

(* policy.page_when: nobody is woken for what does not happen in a paging   *)
(* environment, whichever of an issue's webhooks triage sees first.         *)
PagedForProduction ==
  \A fp \in Fingerprint : rows[fp].paged => place.env \in PageEnvs

(* models.py:24-26: a recovery annotates and never opens, and an update is  *)
(* about a known error. So issues are opened once at most for each alarm    *)
(* the sources raise, however late triage gets it, and once more for each   *)
(* time that triage is given an event again: a second delivery claims again *)
(* the row of an execution that has ended meanwhile, or an rca_only one.    *)
OpenedByAlarms == opened <= alarms + redelivered

(* inputs/sentry:151, of the environment that issue webhooks lack:          *)
(* "enrich() fills it from the event"; then a fatal error of a paging       *)
(* environment is paged for whichever webhook comes first.                  *)
FatalPages ==
  LET row == rows[[input |-> "sentry", error |-> NotAnError]]
  IN  row.standing # "none" /\ place.env \in PageEnvs /\ place.level = "fatal"
        => row.paged
=============================================================================
