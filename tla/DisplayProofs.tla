--------------------------- MODULE DisplayProofs ---------------------------
(***************************************************************************)
(* Theorems about what the display shows and about the player's status,    *)
(* for days and weeks of any length, any rules, overrides and messages and *)
(* any number of goroutines that report.                                   *)
(*                                                                         *)
(* DisplayInv is the inductive invariant: the types; that no override is   *)
(* of the future and that edits numbers them; and what the row of the      *)
(* player's status is worth while flushes are underway.                    *)
(***************************************************************************)
EXTENDS Display, WellFoundedInduction, TLAPS

-----------------------------------------------------------------------------
(* Days and minutes                                                        *)

\* A day is over before a later one begins.
LEMMA DaysApart ==
  ASSUME NEW a \in Int, NEW b \in Int, a < b
  PROVE  a * Day + Day <= b * Day
<1>1. Day \in Nat /\ Day > 0
  BY ScheduleAssumption
<1>2. b - a \in Nat /\ b - a >= 1
  OBVIOUS
<1>3. b * Day = a * Day + (b - a) * Day
  BY <1>1
<1>4. (b - a) * Day >= Day
  BY <1>1, <1>2
<1> QED BY <1>1, <1>3, <1>4

\* A time is a minute of its day.
LEMMA DayAndMinute ==
  ASSUME NEW t \in Nat
  PROVE  /\ t = DayOf(t) * Day + MinuteOf(t)
         /\ MinuteOf(t) \in Minute
         /\ DayOf(t) \in Nat
         /\ DayOf(t) * Day \in Int
<1>1. Day \in Nat /\ Day > 0
  BY ScheduleAssumption
<1>2. t = Day * (t \div Day) + (t % Day) /\ t % Day \in 0..Day - 1
  BY <1>1
<1>3. t \div Day \in Int
  BY <1>1
<1>4. t \div Day >= 0
  BY <1>1
<1>5. (t \div Day) * Day \in Int
  BY <1>1, <1>3
<1> QED BY <1>1, <1>2, <1>3, <1>4, <1>5 DEF DayOf, MinuteOf, Minute

\* And of no other day.
LEMMA DayFound ==
  ASSUME NEW t \in Nat, NEW d \in Int, NEW m \in Minute, t = d * Day + m
  PROVE  DayOf(t) = d /\ MinuteOf(t) = m
<1>1. Day \in Nat /\ Day > 0 /\ m \in Int /\ m >= 0 /\ m < Day
  BY ScheduleAssumption DEF Minute
<1>2. /\ t = DayOf(t) * Day + MinuteOf(t)
      /\ MinuteOf(t) \in Int /\ MinuteOf(t) >= 0 /\ MinuteOf(t) < Day
      /\ DayOf(t) \in Int
  BY DayAndMinute, <1>1 DEF Minute
<1>3. d * Day \in Int /\ DayOf(t) * Day \in Int
  BY <1>1, <1>2
<1>4. ASSUME DayOf(t) < d PROVE FALSE
  <2>1. DayOf(t) * Day + Day <= d * Day
    BY <1>2, <1>4, DaysApart
  <2> QED BY <1>1, <1>2, <1>3, <2>1
<1>5. ASSUME d < DayOf(t) PROVE FALSE
  <2>1. d * Day + Day <= DayOf(t) * Day
    BY <1>2, <1>5, DaysApart
  <2> QED BY <1>1, <1>2, <1>3, <2>1
<1>6. DayOf(t) = d
  BY <1>2, <1>4, <1>5
<1> DEFINE start == d * Day
<1>7. start \in Int /\ t = start + m /\ t = start + MinuteOf(t)
  BY <1>2, <1>3, <1>6
<1> HIDE DEF start
<1>8. MinuteOf(t) = m
  BY <1>1, <1>2, <1>7
<1> QED BY <1>6, <1>8

\* Later times are not on earlier days.
LEMMA DaysInOrder ==
  ASSUME NEW t \in Nat, NEW u \in Nat, t <= u
  PROVE  DayOf(t) <= DayOf(u)
<1>1. Day \in Nat
  BY ScheduleAssumption
<1>2. /\ t = DayOf(t) * Day + MinuteOf(t) /\ u = DayOf(u) * Day + MinuteOf(u)
      /\ MinuteOf(t) \in Int /\ MinuteOf(t) >= 0
      /\ MinuteOf(u) \in Int /\ MinuteOf(u) < Day
      /\ DayOf(t) \in Int /\ DayOf(u) \in Int
      /\ DayOf(t) * Day \in Int /\ DayOf(u) * Day \in Int
  BY DayAndMinute, <1>1 DEF Minute
<1> QED BY <1>1, <1>2, DaysApart

-----------------------------------------------------------------------------
(* The player's status                                                     *)

\* What a flush took, and nobody has taken since, is the record, until it changes.
TurnsAreLive ==
  \A g \in Reporters :
    report[g].pc = "write" /\ report[g].turn /\ ~dirty => report[g].taken = live

StatusInv == StatusTypeOK /\ TurnsAreLive /\ RowIsLive

LEMMA AwayType == Away \in Report /\ Away.pc = "idle"
<1>1. (CHOOSE s \in Scenes : TRUE) \in Scenes
  BY PlayerStatusAssumption
<1> QED BY <1>1 DEF Away, Report, Initially, Status

LEMMA InitStatusInv == InitStatus /\ now = 0 => StatusInv
<1>1. (CHOOSE s \in Scenes : TRUE) \in Scenes
  BY PlayerStatusAssumption
<1> SUFFICES ASSUME InitStatus, now = 0 PROVE StatusInv
  OBVIOUS
<1>2. live \in Status /\ row = live
  BY <1>1 DEF InitStatus, Initially, Status
<1>3. StatusTypeOK
  <2>1. now \in Time /\ report \in [Reporters -> Report]
    BY AwayType, PlayerStatusAssumption DEF InitStatus, Time
  <2> QED BY <1>2, <2>1 DEF InitStatus, StatusTypeOK
<1>4. TurnsAreLive
  BY AwayType DEF InitStatus, TurnsAreLive
<1> QED BY <1>2, <1>3, <1>4 DEF StatusInv, RowIsLive

\* Types, of the steps under the mutex and of those outside it.
LEMMA StatusTypeStep ==
  ASSUME StatusTypeOK, NextStatus, now' = now
  PROVE  StatusTypeOK'
<1> USE DEF StatusTypeOK
<1>1. ASSUME NEW g \in Reporters, NEW pc \in {"flush", "write"}, To(g, pc)
      PROVE  report' \in [Reporters -> Report]
  <2> DEFINE r == [report[g] EXCEPT !.pc = pc]
  <2>1. r \in Report
    BY DEF Report
  <2>2. report' = [report EXCEPT ![g] = r]
    BY <1>1 DEF To
  <2> HIDE DEF r
  <2> QED BY <2>1, <2>2
<1>2. ASSUME NEW g \in Reporters, Leave(g) PROVE report' \in [Reporters -> Report]
  BY <1>2, AwayType DEF Leave
<1>3. ASSUME NEW g \in Reporters, NEW scene \in Scenes, Heartbeat(g, scene)
      PROVE  StatusTypeOK'
  <2>1. live' \in Status
    BY <1>3 DEF Heartbeat, Status
  <2>2. report' \in [Reporters -> Report]
    BY <1>1, <1>3 DEF Heartbeat
  <2> QED BY <1>3, <2>1, <2>2 DEF Heartbeat
<1>4. ASSUME NEW g \in Reporters, MarkOffline(g) PROVE StatusTypeOK'
  <2>1. live' \in Status
    BY <1>4 DEF MarkOffline, Status
  <2> QED BY <1>1, <1>4, <2>1 DEF MarkOffline
<1>5. ASSUME NEW g \in Reporters, Flush(g) PROVE StatusTypeOK'
  BY <1>1, <1>5 DEF Flush
<1>6. ASSUME NEW g \in Reporters, Take(g) PROVE StatusTypeOK'
  <2>1. CASE dirty
    <3>1. \A h \in Reporters : [report[h] EXCEPT !.turn = FALSE] \in Report
      BY DEF Report
    <3>2. [pc |-> "write", taken |-> live, turn |-> TRUE] \in Report
      BY DEF Report
    <3>3. report' = [h \in Reporters |->
                       IF h = g THEN [pc |-> "write", taken |-> live, turn |-> TRUE]
                       ELSE [report[h] EXCEPT !.turn = FALSE]]
      BY <1>6, <2>1 DEF Take
    <3>4. report' \in [Reporters -> Report]
      BY <3>1, <3>2, <3>3
    <3> QED BY <1>6, <2>1, <3>4 DEF Take
  <2>2. CASE ~dirty
    BY <1>2, <1>6, <2>2 DEF Take
  <2> QED BY <2>1, <2>2
<1>7. ASSUME NEW g \in Reporters, Write(g) PROVE StatusTypeOK'
  <2>1. report[g].taken \in Status /\ report[g].turn \in BOOLEAN
    BY DEF Report
  <2> QED BY <1>2, <1>7, <2>1 DEF Write
<1>8. ASSUME NEW g \in Reporters, FailWrite(g) PROVE StatusTypeOK'
  BY <1>2, <1>8 DEF FailWrite
<1>9. CASE Restart
  <2>1. live' \in Status /\ row.online \in BOOLEAN
    BY <1>9 DEF Restart, Status
  <2> QED BY <1>9, <2>1, AwayType DEF Restart
<1> QED BY <1>3, <1>4, <1>5, <1>6, <1>7, <1>8, <1>9 DEF NextStatus

LEMMA TurnsAreLiveStep ==
  ASSUME StatusTypeOK, TurnsAreLive, NextStatus
  PROVE  TurnsAreLive'
<1> USE DEF StatusTypeOK, TurnsAreLive
<1>1. ASSUME NEW g \in Reporters, NEW scene \in Scenes, Heartbeat(g, scene) \/ MarkOffline(g)
      PROVE  TurnsAreLive'
  BY <1>1 DEF Heartbeat, MarkOffline
<1>2. ASSUME NEW g \in Reporters, Flush(g) PROVE TurnsAreLive'
  BY <1>2 DEF Flush
<1>3. ASSUME NEW g \in Reporters, Leave(g), NEW h \in Reporters
      PROVE  report'[h] = report[h] \/ report'[h].pc = "idle"
  BY <1>3, AwayType DEF Leave
<1>4. ASSUME NEW g \in Reporters, Take(g) PROVE TurnsAreLive'
  <2>1. CASE dirty
    <3>1. ASSUME NEW h \in Reporters, h # g PROVE ~report'[h].turn
      BY <1>4, <2>1, <3>1 DEF Take, Report
    <3>2. report'[g].taken = live /\ live' = live
      BY <1>4, <2>1 DEF Take
    <3> QED BY <3>1, <3>2
  <2>2. CASE ~dirty
    BY <1>3, <1>4, <2>2 DEF Take
  <2> QED BY <2>1, <2>2
<1>5. ASSUME NEW g \in Reporters, Write(g) \/ FailWrite(g) PROVE TurnsAreLive'
  BY <1>3, <1>5 DEF Write, FailWrite
<1>6. Restart => TurnsAreLive'
  BY AwayType DEF Restart
<1> QED BY <1>1, <1>2, <1>4, <1>5, <1>6, PlayerStatusAssumption DEF NextStatus

\* The row is written with the record as it is, or the row is known to be behind.
LEMMA RowIsLiveStep ==
  ASSUME StatusTypeOK, TurnsAreLive, RowIsLive, NextStatus
  PROVE  RowIsLive'
<1> USE DEF StatusTypeOK, RowIsLive
<1>1. ASSUME NEW g \in Reporters, NEW scene \in Scenes, Heartbeat(g, scene) \/ MarkOffline(g)
      PROVE  RowIsLive'
  BY <1>1 DEF Heartbeat, MarkOffline
<1>2. ASSUME NEW g \in Reporters, Flush(g) PROVE RowIsLive'
  BY <1>2 DEF Flush
<1>3. ASSUME NEW g \in Reporters, Take(g) PROVE RowIsLive'
  <2>1. CASE dirty
    <3>1. report'[g].pc = "write"
      BY <1>3, <2>1 DEF Take
    <3> QED BY <3>1
  <2>2. CASE ~dirty
    <3>1. \A h \in Reporters : report[h].pc = "write" => report'[h].pc = "write"
      BY <1>3, <2>2 DEF Take, Leave
    <3> QED BY <1>3, <2>2, <3>1 DEF Take, Stored
  <2> QED BY <2>1, <2>2
<1>4. ASSUME NEW g \in Reporters, Write(g) PROVE RowIsLive'
  <2>1. CASE ~dirty /\ report[g].turn
    BY <1>4, <2>1 DEF Write, TurnsAreLive, Stored
  <2>2. CASE dirty \/ ~report[g].turn
    BY <1>4, <2>2 DEF Write
  <2> QED BY <2>1, <2>2
<1>5. ASSUME NEW g \in Reporters, FailWrite(g) PROVE RowIsLive'
  BY <1>5 DEF FailWrite
<1>6. CASE Restart
  <2>1. CASE row.online
    BY <1>6, <2>1 DEF Restart
  <2>2. CASE ~row.online
    <3>1. live' = row /\ row' = row
      BY <1>6, <2>2 DEF Restart, Status
    <3> QED BY <3>1 DEF Stored
  <2> QED BY <2>1, <2>2
<1> QED BY <1>1, <1>2, <1>3, <1>4, <1>5, <1>6, PlayerStatusAssumption DEF NextStatus

LEMMA StatusStep ==
  ASSUME StatusInv, NextStatus, now' = now
  PROVE  StatusInv'
  BY StatusTypeStep, TurnsAreLiveStep, RowIsLiveStep DEF StatusInv

\* Everything else leaves the status alone; the clock may go on.
LEMMA StatusKept ==
  ASSUME StatusInv, UNCHANGED statusVars, now' \in Time
  PROVE  StatusInv'
  BY DEF StatusInv, StatusTypeOK, TurnsAreLive, RowIsLive, statusVars

-----------------------------------------------------------------------------
(* Rules and overrides                                                     *)

\* A set of numbers has a least element.
LEMMA LeastExists ==
  ASSUME NEW T \in SUBSET Nat, T # {}
  PROVE  \E t \in T : \A u \in T : t <= u
<1> DEFINE R == {ss \in Nat \X Nat : ss[1] < ss[2]}
<1>1. IsWellFoundedOn(R, Nat)
  BY NatLessThanWellFounded DEF OpToRel
<1>2. PICK t \in T : \A u \in T : <<u, t>> \notin R
  <2> HIDE DEF R
  <2> QED BY <1>1, WFMin
<1>3. ASSUME NEW u \in T PROVE t <= u
  <2>1. u < t => <<u, t>> \in R
    OBVIOUS
  <2> QED BY <1>2, <2>1
<1> QED BY <1>3

\* And one of numbers below a bound a greatest.
LEMMA GreatestExists ==
  ASSUME NEW B \in Nat, NEW S \in SUBSET (0..B), S # {}
  PROVE  \E m \in S : \A n \in S : n <= m
<1> DEFINE T == {B - n : n \in S}
<1>1. \A n \in S : n \in Nat /\ B - n \in Nat
  OBVIOUS
<1>2. T \in SUBSET Nat /\ T # {}
  BY <1>1
<1> HIDE DEF T
<1>3. PICK t \in T : \A u \in T : t <= u
  BY <1>2, LeastExists
<1> USE DEF T
<1>4. PICK m \in S : t = B - m
  BY <1>3
<1>5. ASSUME NEW n \in S PROVE n <= m
  <2>1. B - m <= B - n
    BY <1>3, <1>4
  <2> QED BY <2>1, <1>1
<1> QED BY <1>5

\* What an edit may leave in schedule_overrides: rows with ids of their own, none of
\* which starts in the future.
OverridesFit ==
  /\ \A o \in overrides : o \in Override /\ o.starts < o.expires
  /\ \A o \in overrides, p \in overrides : o.id = p.id => o = p
  /\ \A o \in overrides : o.starts <= now /\ o.id <= edits

InForce(t) == {o \in overrides : o.starts <= t /\ t < o.expires}

\* At most one override is in force.
LEMMA OneOverride ==
  ASSUME OverridesFit, NEW t \in Nat,
         NEW o \in activeOverride(t, overrides), NEW p \in activeOverride(t, overrides)
  PROVE  o = p
<1>1. /\ o \in overrides /\ p \in overrides
      /\ o.starts > p.starts \/ (o.starts = p.starts /\ o.id >= p.id)
      /\ p.starts > o.starts \/ (p.starts = o.starts /\ p.id >= o.id)
  BY DEF activeOverride
<1>2. /\ o.starts \in Nat /\ p.starts \in Nat
      /\ o.id \in Nat /\ p.id \in Nat
  BY <1>1 DEF OverridesFit, Override
<1>3. o.id = p.id
  BY <1>1, <1>2
<1> QED BY <1>1, <1>3 DEF OverridesFit

\* One is, when any could be.
LEMMA SomeOverride ==
  ASSUME OverridesFit, now \in Nat, edits \in Nat, NEW t \in Nat, InForce(t) # {}
  PROVE  activeOverride(t, overrides) # {}
<1> DEFINE Starts == {o.starts : o \in InForce(t)}
<1>1. \A o \in InForce(t) : /\ o.starts \in Nat /\ o.starts <= t
                            /\ o.id \in Nat /\ o.id <= edits
  BY DEF InForce, OverridesFit, Override
<1>2. PICK last \in Starts : \A n \in Starts : n <= last
  <2>1. Starts \in SUBSET (0..t) /\ Starts # {}
    BY <1>1
  <2> HIDE DEF Starts
  <2> QED BY <2>1, GreatestExists
<1> DEFINE Ids == {o.id : o \in {o \in InForce(t) : o.starts = last}}
<1>3. PICK newest \in Ids : \A n \in Ids : n <= newest
  <2>1. Ids \in SUBSET (0..edits) /\ Ids # {}
    BY <1>1, <1>2
  <2> HIDE DEF Ids
  <2> QED BY <2>1, GreatestExists
<1>4. PICK o \in InForce(t) : o.starts = last /\ o.id = newest
  BY <1>3
<1>5. ASSUME NEW p \in InForce(t)
      PROVE  o.starts > p.starts \/ (o.starts = p.starts /\ o.id >= p.id)
  <2>1. p.starts <= o.starts /\ p.starts \in Nat /\ o.starts \in Nat
    BY <1>1, <1>2, <1>4, <1>5
  <2>2. p.starts = last => p.id <= o.id
    BY <1>3, <1>4, <1>5
  <2>3. p.id \in Nat /\ o.id \in Nat
    BY <1>1, <1>4, <1>5
  <2> QED BY <1>4, <2>1, <2>2, <2>3
<1> QED BY <1>4, <1>5 DEF activeOverride, InForce

\* No override begins later: one that is in force later is in force now.
LEMMA NoneBegins ==
  ASSUME OverridesFit, now \in Nat, NEW t \in Nat, now <= t
  PROVE  InForce(t) \subseteq InForce(now)
<1> SUFFICES ASSUME NEW o \in InForce(t) PROVE o \in InForce(now)
  OBVIOUS
<1>1. o \in overrides /\ o.starts <= now /\ o.starts \in Nat /\ o.expires \in Nat /\ t < o.expires
  BY DEF OverridesFit, Override, InForce
<1> QED BY <1>1 DEF InForce

\* The override of now stays in force until it expires.
LEMMA OverrideLasts ==
  ASSUME OverridesFit, now \in Nat, NEW o \in activeOverride(now, overrides),
         NEW t \in Nat, now <= t, t < o.expires
  PROVE  o \in activeOverride(t, overrides)
<1>1. o \in InForce(now) /\ o.starts \in Nat
  BY DEF activeOverride, InForce, OverridesFit, Override
<1>2. o \in InForce(t)
  BY <1>1 DEF InForce
<1>3. InForce(t) \subseteq InForce(now)
  BY NoneBegins
<1>4. \A p \in InForce(now) : o.starts > p.starts \/ (o.starts = p.starts /\ o.id >= p.id)
  BY DEF activeOverride, InForce
<1> QED BY <1>2, <1>3, <1>4 DEF activeOverride, InForce

\* schedule_rules has one row for a weekday and one for a date.
RulesFit == rules \in SUBSET Rule /\ \A r \in rules, s \in rules : r.key = s.key => r = s

\* A day has at most one rule.
LEMMA OneRule ==
  ASSUME RulesFit, NEW d, NEW r \in ruleFor(d, rules), NEW s \in ruleFor(d, rules)
  PROVE  r = s /\ r \in rules /\ r \in Rule
  BY DEF RulesFit, ruleFor

\* A window that opens is one of minutes.
LEMMA OpensAt ==
  ASSUME RulesFit, NEW r \in rules, Opens(r)
  PROVE  r.window.on \in Minute /\ r.window.off \in Minute
  BY DEF RulesFit, Rule, Opens, Window

-----------------------------------------------------------------------------
(* What is decided                                                         *)

LEMMA DecideByOverride ==
  ASSUME OverridesFit, NEW t \in Nat, NEW o \in activeOverride(t, overrides)
  PROVE  /\ Decide(t, rules, overrides).on = (o.mode = "wake")
         /\ Decide(t, rules, overrides).source = "override"
         /\ Decide(t, rules, overrides).next = o.expires
<1> DEFINE forced == activeOverride(t, overrides)
<1>1. (CHOOSE p \in forced : TRUE) = o
  <2>1. (CHOOSE p \in forced : TRUE) \in forced
    OBVIOUS
  <2> HIDE DEF forced
  <2>2. \A p \in forced : p = o
    BY OneOverride DEF forced
  <2> QED BY <2>1, <2>2
<1>2. Decide(t, rules, overrides) = [on |-> o.mode = "wake", source |-> "override", next |-> o.expires]
  BY <1>1 DEF Decide
<1> QED BY <1>2

LEMMA DecideByRule ==
  ASSUME RulesFit, NEW t \in Nat, NEW S, activeOverride(t, S) = {},
         NEW r \in ruleFor(DayOf(t), rules)
  PROVE  /\ Decide(t, rules, S).on = (Opens(r) /\ withinWindow(MinuteOf(t), r.window))
         /\ Decide(t, rules, S).source = r.key.kind
         /\ Decide(t, rules, S).next = Never
<1> DEFINE today == ruleFor(DayOf(t), rules)
<1>1. (CHOOSE q \in today : TRUE) = r
  <2>1. (CHOOSE q \in today : TRUE) \in today
    OBVIOUS
  <2>2. \A q \in today : q = r
    BY OneRule
  <2> HIDE DEF today
  <2> QED BY <2>1, <2>2
<1>2. Decide(t, rules, S) =
        [on |-> Opens(r) /\ withinWindow(MinuteOf(t), r.window), source |-> r.key.kind,
         next |-> Never]
  BY <1>1 DEF Decide
<1> QED BY <1>2

LEMMA DecideByDefault ==
  ASSUME NEW t \in Nat, NEW S, activeOverride(t, S) = {}, ruleFor(DayOf(t), rules) = {}
  PROVE  /\ Decide(t, rules, S).on = FALSE
         /\ Decide(t, rules, S).source = "default"
         /\ Decide(t, rules, S).next = nextTransition(t, rules)
  BY DEF Decide

\* The transition found is the first start of a window, of those on the days up to it.
LEMMA TransitionFound ==
  ASSUME RulesFit, NEW t \in Nat, nextTransition(t, rules) # Never
  PROVE  LET next == nextTransition(t, rules)
         IN /\ next \in Nat /\ next > t
            /\ \A d \in Nat : \A r \in ruleFor(d, rules) :
                 DayOf(t) <= d /\ d <= DayOf(next) /\ Opens(r) /\ d * Day + r.window.on > t
                   => next <= d * Day + r.window.on
<1> DEFINE days == DayOf(t)..DayOf(t) + Lookahead - 1
           startsOn(d) == {d * Day + r.window.on : r \in {s \in ruleFor(d, rules) : Opens(s)}}
           starts == UNION {startsOn(d) : d \in days}
           later == {c \in starts : c > t}
           next == nextTransition(t, rules)
<1>1. next = IF later = {} THEN Never ELSE CHOOSE c \in later : \A x \in later : c <= x
  BY DEF nextTransition
<1>2. DayOf(t) \in Nat /\ Day \in Nat /\ Lookahead \in Nat
  BY DayAndMinute, ScheduleAssumption
<1>3. ASSUME NEW d \in days, NEW c \in startsOn(d)
      PROVE  c \in Nat /\ DayOf(c) = d
  <2>1. d \in Nat
    BY <1>2
  <2>2. PICK r \in ruleFor(d, rules) : Opens(r) /\ c = d * Day + r.window.on
    OBVIOUS
  <2>3. r.window.on \in Minute
    BY <2>2, OneRule, OpensAt
  <2>4. c \in Nat
    <3>1. d * Day \in Nat /\ r.window.on \in Nat
      BY <1>2, <2>1, <2>3 DEF Minute
    <3> QED BY <2>2, <3>1
  <2> QED BY <2>1, <2>2, <2>3, <2>4, DayFound
<1>4. later \subseteq Nat /\ later # {}
  BY <1>1, <1>3
<1>5. next \in later /\ \A x \in later : next <= x
  <2>1. \E c \in later : \A x \in later : c <= x
    <3> HIDE DEF later
    <3> QED BY <1>4, LeastExists
  <2> HIDE DEF later, next
  <2> QED BY <1>1, <1>4, <2>1
<1>6. DayOf(next) \in days
  <2>1. PICK d \in days : next \in startsOn(d)
    BY <1>5
  <2> HIDE DEF next, startsOn, days
  <2> QED BY <1>3, <2>1
<1>7. ASSUME NEW d \in Nat, NEW r \in ruleFor(d, rules), DayOf(t) <= d, d <= DayOf(next),
             Opens(r), d * Day + r.window.on > t
      PROVE  next <= d * Day + r.window.on
  <2>1. d \in days
    BY <1>2, <1>6, <1>7
  <2>2. d * Day + r.window.on \in startsOn(d)
    BY <1>7
  <2>3. d * Day + r.window.on \in later
    BY <1>7, <2>1, <2>2
  <2> HIDE DEF later, next
  <2> QED BY <1>5, <2>3
<1>8. next \in Nat /\ next > t
  BY <1>4, <1>5
<1> HIDE DEF next
<1> QED BY <1>7, <1>8 DEF next

\* Minute by minute: what is found is the first change.
LEMMA FirstFlip ==
  ASSUME now \in Nat, Decide(now, rules, overrides).next = Never,
         NextChange(now, rules, overrides) # Never
  PROVE  LET next == NextChange(now, rules, overrides)
         IN /\ next > now
            /\ \A t \in now..next - 1 :
                 Decide(t, rules, overrides).on = Decide(now, rules, overrides).on
<1> DEFINE on(t) == Decide(t, rules, overrides).on
           flips == {p \in now + 1..now + 2 * Day - 1 : on(p) # on(now)}
           next == NextChange(now, rules, overrides)
<1>1. next = IF flips = {} THEN Never ELSE CHOOSE c \in flips : \A x \in flips : c <= x
  BY DEF NextChange
<1>2. Day \in Nat
  BY ScheduleAssumption
<1>3. flips # {} /\ flips \in SUBSET Nat
  BY <1>1, <1>2
<1>4. next \in flips /\ \A x \in flips : next <= x
  <2> HIDE DEF flips, next
  <2>1. \E c \in flips : \A x \in flips : c <= x
    BY <1>3, LeastExists
  <2> QED BY <1>1, <1>3, <2>1
<1>5. next > now /\ next <= now + 2 * Day - 1 /\ next \in Nat
  BY <1>2, <1>3, <1>4
<1>6. ASSUME NEW t \in now..next - 1 PROVE on(t) = on(now)
  <2>1. CASE t = now
    BY <2>1
  <2>2. CASE t # now
    <3>1. t \in now + 1..now + 2 * Day - 1 /\ t < next
      BY <1>2, <1>5, <1>6, <2>2
    <3>2. t \notin flips
      <4> HIDE DEF flips, next
      <4> QED BY <1>3, <1>4, <1>5, <1>6, <3>1
    <3> HIDE DEF on, next
    <3> QED BY <3>1, <3>2
  <2> QED BY <2>1, <2>2
<1> QED BY <1>5, <1>6

\* Under an override the next change is its end.
LEMMA NotLateByOverride ==
  ASSUME OverridesFit, now \in Nat, NEW o \in activeOverride(now, overrides)
  PROVE  LET next == NextChange(now, rules, overrides)
         IN /\ next > now
            /\ \A t \in now..next - 1 :
                 Decide(t, rules, overrides).on = Decide(now, rules, overrides).on
<1>1. o \in overrides /\ now < o.expires /\ o.expires \in Nat
  BY DEF activeOverride, OverridesFit, Override
<1>2. NextChange(now, rules, overrides) = o.expires
  <2>1. Decide(now, rules, overrides).next = o.expires
    BY DecideByOverride
  <2> QED BY <1>1, <2>1 DEF NextChange, Never
<1>3. ASSUME NEW t \in now..o.expires - 1
      PROVE  Decide(t, rules, overrides).on = Decide(now, rules, overrides).on
  <2>1. t \in Nat /\ now <= t /\ t < o.expires
    BY <1>1, <1>3
  <2>2. o \in activeOverride(t, overrides)
    BY <2>1, OverrideLasts
  <2> QED BY <2>1, <2>2, DecideByOverride
<1> QED BY <1>1, <1>2, <1>3

Plain == \A r \in rules : Opens(r) => ~CrossesMidnight(r.window) /\ ~AllDay(r.window)

\* With neither override nor rule today, it is the first window that opens.
LEMMA NotLateByDefault ==
  ASSUME RulesFit, OverridesFit, Plain, now \in Nat, edits \in Nat,
         activeOverride(now, overrides) = {}, ruleFor(DayOf(now), rules) = {},
         nextTransition(now, rules) # Never
  PROVE  LET next == NextChange(now, rules, overrides)
         IN /\ next > now
            /\ \A t \in now..next - 1 :
                 Decide(t, rules, overrides).on = Decide(now, rules, overrides).on
<1> DEFINE next == nextTransition(now, rules)
<1>1. Decide(now, rules, overrides).on = FALSE /\ Decide(now, rules, overrides).next = next
  BY DecideByDefault
<1>2. NextChange(now, rules, overrides) = next
  BY <1>1 DEF NextChange
<1>3. next \in Nat /\ next > now
  BY TransitionFound
<1>4. ASSUME NEW t \in now..next - 1 PROVE Decide(t, rules, overrides).on = FALSE
  <2> HIDE DEF next
  <2>1. t \in Nat /\ now <= t /\ t < next
    BY <1>3, <1>4
  <2>2. InForce(now) = {}
    BY SomeOverride
  <2>3. activeOverride(t, overrides) = {}
    BY <2>1, <2>2, NoneBegins DEF activeOverride, InForce
  <2>4. CASE ruleFor(DayOf(t), rules) = {}
    BY <2>1, <2>3, <2>4, DecideByDefault
  <2>5. ASSUME NEW r \in ruleFor(DayOf(t), rules),
               Opens(r), withinWindow(MinuteOf(t), r.window)
        PROVE  FALSE
    <3> DEFINE start == DayOf(t) * Day + r.window.on
    <3>1. /\ DayOf(now) \in Nat /\ DayOf(t) \in Nat /\ DayOf(next) \in Nat
          /\ DayOf(now) <= DayOf(t) /\ DayOf(t) <= DayOf(next)
      BY <1>3, <2>1, DayAndMinute, DaysInOrder
    <3>2. /\ r.window.on \in Nat
          /\ MinuteOf(t) \in Nat
          /\ r.window.on <= MinuteOf(t)
      <4>1. r.window.on \in Minute /\ r.window.off \in Minute /\ MinuteOf(t) \in Minute /\ r \in rules
        BY <2>1, <2>5, OneRule, OpensAt, DayAndMinute
      <4>2. ~(r.window.on = r.window.off) /\ ~(r.window.off < r.window.on)
        BY <2>5, <4>1 DEF Plain, CrossesMidnight, AllDay
      <4>3. Day \in Nat
        BY ScheduleAssumption
      <4> QED BY <2>5, <4>1, <4>2, <4>3 DEF withinWindow, Minute
    <3>3. DayOf(now) < DayOf(t)
      <4>1. DayOf(now) # DayOf(t)
        BY <2>5
      <4> QED BY <3>1, <4>1
    <3>4. start \in Int /\ start <= t
      BY <2>1, <3>2, DayAndMinute
    <3>5. start > now
      <4>1. DayOf(now) * Day + Day <= DayOf(t) * Day
        BY <3>1, <3>3, DaysApart
      <4>2. now < DayOf(now) * Day + Day /\ DayOf(now) * Day \in Int /\ DayOf(t) * Day \in Int
        BY <2>1, DayAndMinute, ScheduleAssumption DEF Minute
      <4>3. Day \in Nat
        BY ScheduleAssumption
      <4> QED BY <3>2, <4>1, <4>2, <4>3
    <3>6. next <= start
      BY <2>5, <3>1, <3>5, TransitionFound DEF next
    <3> HIDE DEF start
    <3> QED BY <1>3, <2>1, <3>4, <3>6
  <2>6. CASE ruleFor(DayOf(t), rules) # {}
    <3>1. PICK r : r \in ruleFor(DayOf(t), rules)
      BY <2>6
    <3> QED BY <2>1, <2>3, <2>5, <3>1, DecideByRule
  <2> QED BY <2>4, <2>6
<1> QED BY <1>1, <1>2, <1>3, <1>4

LEMMA NotLate ==
  ASSUME RulesFit, OverridesFit, now \in Nat, edits \in Nat
  PROVE  NextChangeNotLate
<1> DEFINE decision == Decide(now, rules, overrides)
           next == NextChange(now, rules, overrides)
           Good == /\ next > now
                   /\ \A t \in now..next - 1 : Decide(t, rules, overrides).on = decision.on
<1> SUFFICES ASSUME next # Never, decision.source # "default" \/ Plain
             PROVE  Good
  BY DEF NextChangeNotLate, Plain
<1>1. CASE activeOverride(now, overrides) # {}
  BY <1>1, NotLateByOverride
<1>2. CASE decision.next = Never
  BY <1>2, FirstFlip
<1>3. CASE activeOverride(now, overrides) = {} /\ ruleFor(DayOf(now), rules) # {}
  BY <1>2, <1>3, DecideByRule
<1>4. CASE activeOverride(now, overrides) = {} /\ ruleFor(DayOf(now), rules) = {}
  <2>1. decision.source = "default" /\ decision.next = nextTransition(now, rules)
    BY <1>4, DecideByDefault
  <2> QED BY <1>2, <1>4, <2>1, NotLateByDefault
<1> QED BY <1>1, <1>3, <1>4

\* Before midnight yesterday's rule keeps the display on, and after it today's.
LEMMA NightKept ==
  ASSUME RulesFit, now \in Nat
  PROVE  NightUnbroken
<1> SUFFICES ASSUME NEW before \in ruleFor(DayOf(now), rules),
                    NEW after \in ruleFor(DayOf(now) + 1, rules),
                    Opens(before), Opens(after), after.window = before.window,
                    CrossesMidnight(before.window),
                    NEW t \in (DayOf(now) + 1) * Day - Day + before.window.on
                                 ..(DayOf(now) + 1) * Day + before.window.off - 1
             PROVE  Decide(t, rules, {}).on
  BY DEF NightUnbroken
<1> DEFINE w == before.window
           start == DayOf(now) * Day
<1>1. /\ w.on \in Nat /\ w.off \in Nat /\ w.on < Day /\ w.off < w.on
      /\ Day \in Nat
      /\ w.on \in Minute /\ w.off \in Minute
  BY OneRule, OpensAt, ScheduleAssumption DEF Minute, CrossesMidnight
<1>2. /\ DayOf(now) \in Nat
      /\ start \in Nat
      /\ (DayOf(now) + 1) * Day = start + Day
  <2>1. DayOf(now) \in Nat
    BY DayAndMinute
  <2> QED BY <1>1, <2>1
<1>3. t \in Nat /\ t >= start + w.on /\ t < start + Day + w.off
  <2> HIDE DEF start
  <2> QED BY <1>1, <1>2
<1>4. activeOverride(t, {}) = {}
  BY DEF activeOverride
<1>5. CASE t < start + Day
  <2>1. t - start \in Minute /\ t - start >= w.on /\ t = start + (t - start)
    <3> HIDE DEF start
    <3> QED BY <1>1, <1>2, <1>3, <1>5 DEF Minute
  <2>2. DayOf(t) = DayOf(now) /\ MinuteOf(t) = t - start
    BY <1>2, <1>3, <2>1, DayFound
  <2>3. withinWindow(MinuteOf(t), w)
    BY <1>1, <2>1, <2>2 DEF withinWindow
  <2> QED BY <1>3, <1>4, <2>2, <2>3, DecideByRule
<1>6. CASE t >= start + Day
  <2> DEFINE m == t - (start + Day)
  <2>1. m \in Minute /\ m < w.off /\ t = (start + Day) + m
    <3> HIDE DEF start
    <3> QED BY <1>1, <1>2, <1>3, <1>6 DEF Minute
  <2>2. DayOf(t) = DayOf(now) + 1 /\ MinuteOf(t) = m
    <3>1. t = (DayOf(now) + 1) * Day + m
      BY <1>2, <2>1
    <3> HIDE DEF m
    <3> QED BY <1>2, <1>3, <2>1, <3>1, DayFound
  <2>3. withinWindow(MinuteOf(t), w)
    <3> HIDE DEF m
    <3> QED BY <1>1, <2>1, <2>2 DEF withinWindow
  <2> QED BY <1>3, <1>4, <2>2, <2>3, DecideByRule
<1>7. start + Day \in Nat
  BY <1>1, <1>2
<1> HIDE DEF start
<1> QED BY <1>3, <1>5, <1>6, <1>7

-----------------------------------------------------------------------------
(* The inductive invariant                                                 *)

DisplayInv == TypeOK /\ StatusInv /\ OverridesFit

LEMMA TypesFit == TypeOK => RulesFit /\ now \in Nat /\ edits \in Nat
  BY PlayerStatusAssumption, DisplayAssumption DEF TypeOK, RulesFit, StatusTypeOK, Time

LEMMA InitDisplayInv == Init => DisplayInv
<1> SUFFICES ASSUME Init PROVE DisplayInv
  OBVIOUS
<1>1. StatusInv
  BY InitStatusInv DEF Init
<1>2. rules \in SUBSET Rule /\ \A r \in rules, s \in rules : r.key = s.key => r = s
  <2> DEFINE seed(k) == [key |-> k, enabled |-> TRUE, window |-> Seeded]
             weekdays == [kind: {"weekly"}, day: 0..Week - 1]
  <2>1. rules = {seed(k) : k \in weekdays}
    BY DEF Init
  <2>2. ASSUME NEW k \in weekdays PROVE seed(k) \in Rule /\ seed(k).key = k
    <3>1. k \in Keys
      BY DEF Keys
    <3> HIDE DEF weekdays
    <3> QED BY <3>1, DisplayAssumption DEF Rule
  <2> HIDE DEF seed, weekdays
  <2> QED BY <2>1, <2>2
<1>3. NoFetch \in Fetch /\ shown \in Answer
  BY DisplayAssumption DEF Init, NoFetch, Fetch, Answer, NoMessage
<1>4. OverridesFit
  BY DEF Init, OverridesFit
<1>5. TypeOK
  <2>1. fetch \in [Fetches -> Fetch]
    BY <1>3 DEF Init
  <2>2. edits \in 0..MaxEdits
    BY DisplayAssumption DEF Init
  <2>3. overrides = {} /\ emergencies = {} /\ event \in BOOLEAN /\ kinds \in Workloads
    BY DEF Init
  <2> QED BY <1>1, <1>2, <1>3, <2>1, <2>2, <2>3 DEF TypeOK, StatusInv
<1> QED BY <1>1, <1>4, <1>5 DEF DisplayInv

\* An edit of any kind leaves the clock, the page's fetches and the status alone.
LEMMA EditTypes ==
  ASSUME TypeOK, NEW kind, Edit(kind)
  PROVE  /\ UNCHANGED <<now, statusVars, fetch, shown, kinds>>
         /\ edits' = edits + 1 /\ edits' \in 1..MaxEdits
         /\ event' \in BOOLEAN
         /\ StatusTypeOK'
         /\ fetch' \in [Fetches -> Fetch] /\ shown' \in Answer /\ kinds' \in Workloads
  BY DisplayAssumption DEF TypeOK, Edit, StatusTypeOK, statusVars

LEMMA RuleEdits ==
  ASSUME DisplayInv,
         \/ \E key \in Keys, enabled \in BOOLEAN, w \in Windows : UpsertRule(key, enabled, w)
         \/ \E r \in rules, key \in Keys, enabled \in BOOLEAN, w \in Windows : MoveRule(r, key, enabled, w)
         \/ \E r \in rules : DeleteRule(r)
  PROVE  TypeOK' /\ OverridesFit'
<1> USE DEF DisplayInv
<1>1. /\ Edit("rules")
      /\ UNCHANGED <<overrides, emergencies>>
      /\ rules' \in SUBSET Rule
      /\ \A r \in rules', s \in rules' : r.key = s.key => r = s
  <2>1. ASSUME NEW key \in Keys, NEW enabled \in BOOLEAN, NEW w \in Windows
        PROVE  [key |-> key, enabled |-> enabled, window |-> w] \in Rule
    BY DisplayAssumption DEF Rule
  <2>2. ASSUME NEW key \in Keys, NEW enabled \in BOOLEAN, NEW w \in Windows,
               UpsertRule(key, enabled, w)
        PROVE  <1>1!:
    BY <2>1, <2>2 DEF UpsertRule, TypeOK
  <2>3. ASSUME NEW r \in rules, NEW key \in Keys, NEW enabled \in BOOLEAN, NEW w \in Windows,
               MoveRule(r, key, enabled, w)
        PROVE  <1>1!:
    BY <2>1, <2>3 DEF MoveRule, KeyTaken, TypeOK
  <2>4. ASSUME NEW r \in rules, DeleteRule(r)
        PROVE  <1>1!:
    <3> DEFINE off == [r EXCEPT !.enabled = FALSE]
    <3>1. off \in Rule /\ off.key = r.key
      BY DEF TypeOK, Rule
    <3>2. Edit("rules") /\ UNCHANGED <<overrides, emergencies>>
      BY <2>4 DEF DeleteRule
    <3>3. rules' \subseteq (rules \ {r}) \cup {off}
      BY <2>4 DEF DeleteRule
    <3> HIDE DEF off
    <3> QED BY <3>1, <3>2, <3>3 DEF TypeOK
  <2> QED BY <2>2, <2>3, <2>4
<1>2. now \in Nat /\ edits \in Nat
  BY TypesFit
<1>3. OverridesFit'
  <2>1. overrides' = overrides /\ now' = now /\ edits' = edits + 1
    BY <1>1, EditTypes
  <2>2. \A o \in overrides : o.id \in Nat
    BY DEF OverridesFit, Override
  <2> QED BY <1>2, <2>1, <2>2 DEF OverridesFit
<1>4. TypeOK'
  BY <1>1, EditTypes DEF TypeOK
<1> QED BY <1>3, <1>4

LEMMA OverrideEdits ==
  ASSUME DisplayInv,
         \/ \E mode \in {"wake", "sleep"}, minutes \in 1..MaxOverride : CreateOverride(mode, minutes)
         \/ ClearOverrides
         \/ PruneOverrides
  PROVE  TypeOK' /\ OverridesFit'
<1> USE DEF DisplayInv
<1>1. now \in Nat /\ edits \in Nat
  BY TypesFit
<1>2. \A o \in overrides : o.id \in Nat /\ o.id <= edits
  BY DEF OverridesFit, Override
<1>3. ASSUME NEW mode \in {"wake", "sleep"}, NEW minutes \in 1..MaxOverride,
             CreateOverride(mode, minutes)
      PROVE  TypeOK' /\ OverridesFit'
  <2> DEFINE o == [id |-> edits', mode |-> mode, starts |-> now, expires |-> now + minutes]
  <2>1. /\ Edit("overrides")
        /\ overrides' = overrides \cup {o}
        /\ UNCHANGED <<rules, emergencies>>
    BY <1>3 DEF CreateOverride
  <2>2. edits' = edits + 1 /\ now' = now
    BY <2>1, EditTypes
  <2>3. /\ o \in Override /\ o.starts < o.expires
        /\ o.starts <= now' /\ o.id <= edits'
        /\ \A p \in overrides : p.id # o.id
    BY <1>1, <1>2, <2>2, DisplayAssumption DEF Override
  <2> HIDE DEF o
  <2>4. OverridesFit'
    BY <1>1, <1>2, <2>1, <2>2, <2>3 DEF OverridesFit
  <2> QED BY <2>1, <2>4, EditTypes DEF TypeOK, OverridesFit
<1>4. CASE ClearOverrides
  <2>1. Edit("overrides") /\ overrides' = {} /\ UNCHANGED <<rules, emergencies>>
    BY <1>4 DEF ClearOverrides
  <2> QED BY <2>1, EditTypes DEF TypeOK, OverridesFit
<1>5. CASE PruneOverrides
  <2>1. /\ overrides' \subseteq overrides
        /\ UNCHANGED <<now, statusVars, rules, emergencies, edits, page, kinds>>
    BY <1>5 DEF PruneOverrides
  <2> QED BY <2>1 DEF TypeOK, OverridesFit, StatusTypeOK, statusVars, page
<1> QED BY <1>3, <1>4, <1>5

LEMMA EmergencyEdits ==
  ASSUME DisplayInv,
         \/ \E severity \in Severity, minutes \in 1..MaxOverride : RaiseEmergency(severity, minutes)
         \/ \E e \in emergencies : DismissEmergency(e)
  PROVE  TypeOK' /\ OverridesFit'
<1> USE DEF DisplayInv
<1>1. now \in Time /\ now \in Nat /\ edits \in Nat
  BY TypesFit DEF TypeOK, StatusTypeOK
<1>2. /\ Edit("emergencies")
      /\ UNCHANGED <<rules, overrides>>
      /\ \A e \in emergencies' : e \in Emergency /\ e.starts < e.expires
  <2>1. ASSUME NEW severity \in Severity, NEW minutes \in 1..MaxOverride,
               RaiseEmergency(severity, minutes)
        PROVE  <1>2!:
    <3>1. Edit("emergencies") /\ UNCHANGED <<rules, overrides>>
      BY <2>1 DEF RaiseEmergency
    <3>2. edits' \in 1..MaxEdits
      BY <3>1, EditTypes
    <3> DEFINE e == [id |-> edits', severity |-> severity, starts |-> now, expires |-> now + minutes]
    <3>3. e \in Emergency /\ e.starts < e.expires
      BY <1>1, <3>2, DisplayAssumption DEF Emergency
    <3>4. emergencies' = emergencies \cup {e}
      BY <2>1 DEF RaiseEmergency
    <3> HIDE DEF e
    <3> QED BY <3>1, <3>3, <3>4 DEF TypeOK
  <2>2. ASSUME NEW e \in emergencies, DismissEmergency(e)
        PROVE  <1>2!:
    BY <2>2 DEF DismissEmergency, TypeOK
  <2> QED BY <2>1, <2>2
<1>3. OverridesFit'
  <2>1. overrides' = overrides /\ now' = now /\ edits' = edits + 1
    BY <1>2, EditTypes
  <2>2. \A o \in overrides : o.id \in Nat
    BY DEF OverridesFit, Override
  <2> QED BY <1>1, <2>1, <2>2 DEF OverridesFit
<1>4. TypeOK'
  BY <1>2, EditTypes DEF TypeOK
<1> QED BY <1>3, <1>4

\* What a fetch may find.
LEMMA FoundTypes ==
  ASSUME TypeOK
  PROVE  /\ On \in BOOLEAN
         /\ Messages \subseteq 0..MaxEdits
<1>1. On \in BOOLEAN
  BY DEF On, Decide
<1>2. Messages \subseteq 0..MaxEdits
  BY DisplayAssumption DEF TypeOK, Messages, Active, Emergency, NoMessage
<1> QED BY <1>1, <1>2

LEMMA PageTypes ==
  ASSUME TypeOK, Page
  PROVE  /\ fetch' \in [Fetches -> Fetch] /\ shown' \in Answer /\ event' \in BOOLEAN
         /\ OnPage
<1> DEFINE Goal == /\ fetch' \in [Fetches -> Fetch] /\ shown' \in Answer /\ event' \in BOOLEAN
                   /\ OnPage
<1>1. /\ fetch \in [Fetches -> Fetch] /\ shown \in Answer /\ event \in BOOLEAN
      /\ NoFetch \in Fetch
  BY DisplayAssumption DEF TypeOK, NoFetch, Fetch, Answer, NoMessage
<1>2. ASSUME NEW f \in Fetches, StartFetch(f) PROVE fetch' \in [Fetches -> Fetch]
  <2> DEFINE r == [fetch[f] EXCEPT !.pc = "schedule"]
  <2>1. r \in Fetch
    BY <1>1 DEF Fetch
  <2>2. fetch' = [fetch EXCEPT ![f] = r]
    BY <1>2 DEF StartFetch
  <2> HIDE DEF r
  <2> QED BY <1>1, <2>1, <2>2
<1>3. ASSUME NEW f \in Fetches, Deliver(f) \/ Reconcile(f) PROVE Goal
  BY <1>1, <1>2, <1>3 DEF Deliver, Reconcile
<1>4. ASSUME NEW f \in Fetches, ReadSchedule(f) PROVE Goal
  <2> DEFINE r == [fetch[f] EXCEPT !.pc = "message", !.found.on = On]
  <2>1. r \in Fetch
    BY <1>1, FoundTypes DEF Fetch, Answer
  <2>2. fetch' = [fetch EXCEPT ![f] = r]
    BY <1>4 DEF ReadSchedule
  <2> HIDE DEF r
  <2> QED BY <1>1, <1>4, <2>1, <2>2 DEF ReadSchedule
<1>5. ASSUME NEW f \in Fetches, ReadMessage(f) PROVE Goal
  <2>1. PICK m \in Messages :
          fetch' = [fetch EXCEPT ![f].pc = "answer", ![f].found.message = m]
    BY <1>5 DEF ReadMessage
  <2> DEFINE r == [fetch[f] EXCEPT !.pc = "answer", !.found.message = m]
  <2>2. r \in Fetch
    BY <1>1, FoundTypes DEF Fetch, Answer
  <2>3. fetch' = [fetch EXCEPT ![f] = r]
    BY <2>1
  <2> HIDE DEF r
  <2> QED BY <1>1, <1>5, <2>2, <2>3 DEF ReadMessage
<1>6. ASSUME NEW f \in Fetches, Apply(f) \/ LoseAnswer(f) PROVE Goal
  <2>1. fetch[f].found \in Answer
    BY <1>1 DEF Fetch
  <2> QED BY <1>1, <1>6, <2>1 DEF Apply, LoseAnswer
<1>7. LoseEvent => Goal
  BY <1>1 DEF LoseEvent
<1> QED BY <1>3, <1>4, <1>5, <1>6, <1>7 DEF Page

LEMMA DisplayInvStep == DisplayInv /\ [Next]_vars => DisplayInv'
<1> SUFFICES ASSUME DisplayInv, [Next]_vars PROVE DisplayInv'
  OBVIOUS
<1> USE DEF DisplayInv
<1>1. now \in Nat /\ now \in Time
  BY TypesFit DEF TypeOK, StatusTypeOK
<1>2. CASE Tick
  <2>1. /\ now' = now + 1 /\ now' \in Time
        /\ UNCHANGED <<statusVars, tables, edits, page, kinds>>
    BY <1>1, <1>2, PlayerStatusAssumption DEF Tick, Time
  <2>2. StatusInv'
    BY <2>1, StatusKept
  <2>3. OverridesFit'
    <3>1. \A o \in overrides : o.starts \in Nat
      BY DEF OverridesFit, Override
    <3> QED BY <1>1, <2>1, <3>1 DEF OverridesFit, tables
  <2> QED BY <2>1, <2>2, <2>3 DEF TypeOK, StatusInv, tables, page
<1>3. CASE PlayerReports
  <2>1. NextStatus /\ UNCHANGED <<now, tables, edits, page, kinds>>
    BY <1>3 DEF PlayerReports
  <2>2. StatusInv'
    BY <2>1, StatusStep
  <2> QED BY <2>1, <2>2 DEF TypeOK, StatusInv, OverridesFit, tables, page
<1>4. CASE Dashboard
  <2>1. TypeOK' /\ OverridesFit'
    BY <1>4, RuleEdits, OverrideEdits, EmergencyEdits DEF Dashboard
  <2>2. UNCHANGED <<now, statusVars>>
    BY <1>4 DEF Dashboard, UpsertRule, MoveRule, DeleteRule, CreateOverride, ClearOverrides,
                PruneOverrides, RaiseEmergency, DismissEmergency, Edit
  <2> QED BY <1>1, <2>1, <2>2, StatusKept
<1>5. CASE Page
  <2>1. /\ fetch' \in [Fetches -> Fetch] /\ shown' \in Answer /\ event' \in BOOLEAN
        /\ UNCHANGED <<now, statusVars, tables, edits, kinds>>
    BY <1>5, PageTypes DEF OnPage
  <2>2. StatusInv'
    BY <1>1, <2>1, StatusKept
  <2> QED BY <2>1, <2>2 DEF TypeOK, StatusInv, OverridesFit, tables
<1>6. CASE UNCHANGED vars
  <2>1. UNCHANGED <<now, statusVars, tables, edits, page, kinds>>
    BY <1>6 DEF vars
  <2>2. StatusInv'
    BY <1>1, <2>1, StatusKept
  <2> QED BY <2>1, <2>2 DEF TypeOK, StatusInv, OverridesFit, tables, page
<1> QED BY <1>2, <1>3, <1>4, <1>5, <1>6 DEF Next

\* The invariant holds in every state, whatever dashboards edit, the page fetches and
\* the player reports.
THEOREM DisplayIsSound == Spec => []DisplayInv
  BY InitDisplayInv, DisplayInvStep, PTL DEF Spec

\* The tables and the page stay within their types: one rule for a key, one override for
\* an id, no window that ends before it starts.
THEOREM DisplayTypes == Spec => []TypeOK
<1>1. DisplayInv => TypeOK
  BY DEF DisplayInv
<1> QED BY DisplayIsSound, <1>1, PTL

\* RowIsLive: when no flush is underway and none was lost or overtaken, the row holds the
\* record, for any number of goroutines inside the store.
THEOREM RowHoldsRecord == Spec => []RowIsLive
<1>1. DisplayInv => RowIsLive
  BY DEF DisplayInv, StatusInv
<1> QED BY DisplayIsSound, <1>1, PTL

\* NextChangeNotLate: the display stays as it is until the next change that the
\* dashboard shows, for days of any length and any set of rules and overrides.
THEOREM NextChangeIsNotLate == Spec => []NextChangeNotLate
<1>1. DisplayInv => NextChangeNotLate
  BY TypesFit, NotLate DEF DisplayInv
<1> QED BY DisplayIsSound, <1>1, PTL

\* NightUnbroken: a window across midnight that two days share is not broken at midnight.
THEOREM NightIsUnbroken == Spec => []NightUnbroken
<1>1. DisplayInv => NightUnbroken
  BY TypesFit, NightKept DEF DisplayInv
<1> QED BY DisplayIsSound, <1>1, PTL
=============================================================================
