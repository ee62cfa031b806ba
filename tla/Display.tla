------------------------------ MODULE Display -------------------------------
(***************************************************************************)
(* What the display shows: the rules, overrides and emergency messages     *)
(* that dashboards edit (store/misc.go and the handlers in                 *)
(* api/handlers_content.go), the status that the player reports, and the   *)
(* player page that fetches what is in force (web/src/player/Player.tsx).  *)
(*                                                                         *)
(* An event says that something changed, not what: the page fetches, and   *)
(* fetches every two minutes besides.  A fetch reads the schedule and then *)
(* the message, and its answer may come after that of a later one.         *)
(***************************************************************************)
EXTENDS Schedule, PlayerStatus

CONSTANTS
  Severity,     \* levels that messages use, of critical 0, warning 1 and info 2
  Seeded,       \* the window of the rules that the migration seeds
  Windows,      \* windows that an editor may give a rule
  MaxOverride,  \* MaxOverrideDuration
  Fetches,      \* fetches that may be underway
  MaxEdits,     \* bound on the edits
  Workloads     \* what comes together: subsets of {"rules", "overrides", "emergencies", "page", "status"}

ASSUME DisplayAssumption ==
  /\ Seeded \in Window
  /\ Windows \subseteq Window \cup {ClosedAllDay}
  /\ Severity \subseteq 0..2
  /\ MaxOverride \in Nat
  /\ MaxEdits \in Nat
  /\ Workloads # {}

VARIABLES
  rules,        \* schedule_rules
  overrides,    \* schedule_overrides that were not cleared
  emergencies,  \* emergency_messages that were not dismissed
  edits,        \* edits so far: an insert takes it as its id
  event,        \* an event is on its way to the page
  fetch,        \* where each fetch is
  shown,        \* what the page shows
  kinds         \* the workload

tables == <<rules, overrides, emergencies>>
page == <<event, fetch, shown>>
vars == <<now, statusVars, tables, edits, page, kinds>>

NoMessage == 0
Emergency == [id: 1..MaxEdits, severity: Severity, starts: Time, expires: Nat]

\* What a fetch answers, and the page shows: the display, and a message.
Answer == [on: BOOLEAN, message: 0..MaxEdits]
Fetch == [pc: {"idle", "schedule", "message", "answer"}, found: Answer]
NoFetch == [pc |-> "idle", found |-> [on |-> FALSE, message |-> NoMessage]]

TypeOK ==
  /\ StatusTypeOK
  /\ rules \in SUBSET Rule
  /\ \A r \in rules, s \in rules : r.key = s.key => r = s
  /\ \A o \in overrides : o \in Override /\ o.starts < o.expires
  /\ \A o \in overrides, p \in overrides : o.id = p.id => o = p
  /\ \A e \in emergencies : e \in Emergency /\ e.starts < e.expires
  /\ edits \in 0..MaxEdits
  /\ event \in BOOLEAN
  /\ fetch \in [Fetches -> Fetch]
  /\ shown \in Answer
  /\ kinds \in Workloads

\* The messages that Active may answer: of the worst, one that was raised last.
Active ==
  LET inForce == {e \in emergencies : e.starts <= now /\ now < e.expires}
  IN {e \in inForce : \A f \in inForce : \/ e.severity < f.severity
                                         \/ e.severity = f.severity /\ e.starts >= f.starts}
Messages == IF Active = {} THEN {NoMessage} ELSE {e.id : e \in Active}

On == Decide(now, rules, overrides).on

-----------------------------------------------------------------------------
(* Dashboards                                                              *)

\* Every edit is one statement, after which the handler broadcasts.
Edit(kind) ==
  /\ kind \in kinds
  /\ edits < MaxEdits
  /\ edits' = edits + 1
  /\ event' = TRUE
  /\ UNCHANGED <<now, statusVars, fetch, shown, kinds>>

KeyTaken(key) == \E r \in rules : r.key = key

\* Mutant: the rule is inserted beside the one it collides with.
InsertBeside(key, enabled, window) ==
  /\ Edit("rules")
  /\ rules' = rules \cup {[key |-> key, enabled |-> enabled, window |-> window]}
  /\ UNCHANGED <<overrides, emergencies>>

\* UpsertRule without an id: the rule of that weekday or date, new or replaced.
UpsertRule(key, enabled, window) ==
  /\ Edit("rules")
  /\ rules' = {r \in rules : r.key # key} \cup {[key |-> key, enabled |-> enabled, window |-> window]}
  /\ UNCHANGED <<overrides, emergencies>>

\* UpsertRule with an id may move the rule to another key, if that one is free.
MoveRule(r, key, enabled, window) ==
  /\ Edit("rules")
  /\ ~KeyTaken(key)
  /\ rules' = (rules \ {r}) \cup {[key |-> key, enabled |-> enabled, window |-> window]}
  /\ UNCHANGED <<overrides, emergencies>>

\* DeleteRule keeps weekly rules, disabled.
DeleteRule(r) ==
  /\ Edit("rules")
  /\ rules' = (rules \ {r}) \cup
              (IF r.key.kind = "weekly" THEN {[r EXCEPT !.enabled = FALSE]} ELSE {})
  /\ UNCHANGED <<overrides, emergencies>>

CreateOverride(mode, minutes) ==
  /\ Edit("overrides")
  /\ minutes \in 1..MaxOverride
  /\ overrides' = overrides \cup {[id |-> edits', mode |-> mode, starts |-> now, expires |-> now + minutes]}
  /\ UNCHANGED <<rules, emergencies>>

ClearOverrides ==
  /\ Edit("overrides")
  /\ overrides' = {}
  /\ UNCHANGED <<rules, emergencies>>

\* PruneOverrides: rows that have long expired.
PruneOverrides ==
  /\ \E o \in overrides : o.expires < now
  /\ overrides' = {o \in overrides : o.expires >= now}
  /\ UNCHANGED <<now, statusVars, rules, emergencies, edits, page, kinds>>

RaiseEmergency(severity, minutes) ==
  /\ Edit("emergencies")
  /\ emergencies' = emergencies \cup
       {[id |-> edits', severity |-> severity, starts |-> now, expires |-> now + minutes]}
  /\ UNCHANGED <<rules, overrides>>

DismissEmergency(e) ==
  /\ Edit("emergencies")
  /\ emergencies' = emergencies \ {e}
  /\ UNCHANGED <<rules, overrides>>

-----------------------------------------------------------------------------
(* The page                                                                *)

OnPage == UNCHANGED <<now, statusVars, tables, edits, kinds>>

\* An event, or the reconcile timer, starts a fetch.
StartFetch(f) ==
  /\ "page" \in kinds
  /\ fetch[f].pc = "idle"
  /\ fetch' = [fetch EXCEPT ![f].pc = "schedule"]

Deliver(f) ==
  /\ event
  /\ StartFetch(f)
  /\ event' = FALSE
  /\ UNCHANGED shown
  /\ OnPage

\* Mutant: the page relies on events.
OnlyEvents(f) ==
  /\ event
  /\ StartFetch(f)
  /\ UNCHANGED <<event, shown>>
  /\ OnPage

Reconcile(f) ==
  /\ StartFetch(f)
  /\ UNCHANGED <<event, shown>>
  /\ OnPage

\* The stream is down, the hub dropped the page, or the handler died before its broadcast.
LoseEvent ==
  /\ "page" \in kinds
  /\ event
  /\ event' = FALSE
  /\ UNCHANGED <<fetch, shown>>
  /\ OnPage

\* handlePlayerState reads the schedule and decides, then reads the message.
ReadSchedule(f) ==
  /\ fetch[f].pc = "schedule"
  /\ fetch' = [fetch EXCEPT ![f].pc = "message", ![f].found.on = On]
  /\ UNCHANGED <<event, shown>>
  /\ OnPage

ReadMessage(f) ==
  /\ fetch[f].pc = "message"
  /\ \E m \in Messages : fetch' = [fetch EXCEPT ![f].pc = "answer", ![f].found.message = m]
  /\ UNCHANGED <<event, shown>>
  /\ OnPage

\* applyState takes whatever answer comes.
Apply(f) ==
  /\ fetch[f].pc = "answer"
  /\ shown' = fetch[f].found
  /\ fetch' = [fetch EXCEPT ![f] = NoFetch]
  /\ UNCHANGED event
  /\ OnPage

\* The request fails, here as if on its way back; the page keeps what it has.
LoseAnswer(f) ==
  /\ fetch[f].pc = "answer"
  /\ fetch' = [fetch EXCEPT ![f] = NoFetch]
  /\ UNCHANGED <<event, shown>>
  /\ OnPage

-----------------------------------------------------------------------------
Tick ==
  /\ now < MaxTime
  /\ now' = now + 1
  /\ UNCHANGED <<statusVars, tables, edits, page, kinds>>

PlayerReports ==
  /\ "status" \in kinds
  /\ NextStatus
  /\ UNCHANGED <<now, tables, edits, page, kinds>>

\* The migration seeds a rule for every weekday.
Init ==
  /\ InitStatus
  /\ now = 0
  /\ rules = {[key |-> k, enabled |-> TRUE, window |-> Seeded] : k \in [kind: {"weekly"}, day: 0..Week - 1]}
  /\ overrides = {}
  /\ emergencies = {}
  /\ edits = 0
  /\ event = FALSE
  /\ fetch = [f \in Fetches |-> NoFetch]
  /\ shown = [on |-> FALSE, message |-> NoMessage]
  /\ kinds \in Workloads

Dashboard ==
  \/ \E key \in Keys, enabled \in BOOLEAN, w \in Windows : UpsertRule(key, enabled, w)
  \/ \E r \in rules, key \in Keys, enabled \in BOOLEAN, w \in Windows : MoveRule(r, key, enabled, w)
  \/ \E r \in rules : DeleteRule(r)
  \/ \E mode \in {"wake", "sleep"}, minutes \in 1..MaxOverride : CreateOverride(mode, minutes)
  \/ ClearOverrides
  \/ PruneOverrides
  \/ \E severity \in Severity, minutes \in 1..MaxOverride : RaiseEmergency(severity, minutes)
  \/ \E e \in emergencies : DismissEmergency(e)

Page ==
  \/ \E f \in Fetches : \/ Deliver(f) \/ Reconcile(f)
                        \/ ReadSchedule(f) \/ ReadMessage(f) \/ Apply(f) \/ LoseAnswer(f)
  \/ LoseEvent

Next == Tick \/ PlayerReports \/ Dashboard \/ Page

Spec == Init /\ [][Next]_vars

\* The timer goes on, requests run, and the network does not fail for ever.
FairSpec ==
  /\ Spec
  /\ \A f \in Fetches :
       /\ WF_vars(Reconcile(f)) /\ WF_vars(ReadSchedule(f)) /\ WF_vars(ReadMessage(f))
       /\ SF_vars(Apply(f))
-----------------------------------------------------------------------------
(* Properties                                                              *)

AllDay(w) == w.on = w.off

\* The next change that the dashboard shows is not late: until then the display stays
\* as it is.  (When no rule is for today, and a later one crosses midnight or is for
\* the whole day, NextChange names its start and the display is on before.)
NextChangeNotLate ==
  LET decision == Decide(now, rules, overrides)
      next == NextChange(now, rules, overrides)
      plain == \A r \in rules : Opens(r) => ~CrossesMidnight(r.window) /\ ~AllDay(r.window)
  IN next # Never /\ (decision.source # "default" \/ plain) =>
       /\ next > now
       /\ \A t \in now..next - 1 : Decide(t, rules, overrides).on = decision.on

\* A window across midnight that yesterday's and today's rule both have keeps the
\* display on from its start to its end, whatever the two rules are.
NightUnbroken ==
  \A before \in ruleFor(DayOf(now), rules), after \in ruleFor(DayOf(now) + 1, rules) :
    LET w == before.window
        midnight == (DayOf(now) + 1) * Day
    IN Opens(before) /\ Opens(after) /\ after.window = w /\ CrossesMidnight(w) =>
         \A t \in midnight - Day + w.on..midnight + w.off - 1 : Decide(t, rules, {}).on

\* When nothing changes any more the page comes to show what is in force, with
\* events lost, fetches failing and answers out of order.
PageCatchesUp ==
  <>[]("page" \in kinds => shown.on = On /\ shown.message \in Messages)
=============================================================================
