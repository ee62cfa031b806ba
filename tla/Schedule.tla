------------------------------ MODULE Schedule ------------------------------
(***************************************************************************)
(* Whether the display should be on (internal/schedule/schedule.go).       *)
(*                                                                         *)
(* Time is counted in minutes of local wall-clock time; a day has Day of   *)
(* them and a week has Week days.  The table holds at most one rule for a  *)
(* weekday and one for a date (its two unique indexes).                    *)
(***************************************************************************)
EXTENDS Integers, FiniteSets

CONSTANTS
  Day,        \* minutes of a day
  Week,       \* days of a week
  Lookahead,  \* MaxLookaheadDays
  LastDay     \* bound on the dates that rules name

ASSUME ScheduleAssumption ==
  /\ Day \in Nat \ {0}
  /\ Week \in Nat \ {0}
  /\ Lookahead \in Nat
  /\ LastDay \in Nat

Never == -1   \* the zero time

Minute == 0..Day - 1
Window == [on: Minute, off: Minute]
ClosedAllDay == [on |-> Never, off |-> Never]

Keys == [kind: {"weekly"}, day: 0..Week - 1] \cup [kind: {"date"}, day: 0..LastDay]
Rule == [key: Keys, enabled: BOOLEAN, window: Window \cup {ClosedAllDay}]
Override == [id: Nat, mode: {"wake", "sleep"}, starts: Nat, expires: Nat]

DayOf(t) == t \div Day
MinuteOf(t) == t % Day

\* Mutant: the window is taken for one of a single day.
WithinDay(m, w) == w.on = w.off \/ (m >= w.on /\ m < w.off)

\* [on, off), across midnight when off comes first, and all day when they are equal.
withinWindow(m, w) ==
  \/ w.on = w.off
  \/ w.on < w.off /\ m >= w.on /\ m < w.off
  \/ w.on > w.off /\ (m >= w.on \/ m < w.off)

CrossesMidnight(w) == w.off < w.on

\* The rule of a day, as a set: a date's own before its weekday's.
ruleFor(day, rules) ==
  LET dated == {r \in rules : r.key = [kind |-> "date", day |-> day]}
  IN IF dated # {} THEN dated ELSE {r \in rules : r.key = [kind |-> "weekly", day |-> day % Week]}

\* The override in force, as a set: the one that started last, and of those the newest.
activeOverride(t, overrides) ==
  LET inForce == {o \in overrides : o.starts <= t /\ t < o.expires}
  IN {o \in inForce : \A p \in inForce : \/ o.starts > p.starts
                                         \/ o.starts = p.starts /\ o.id >= p.id}

Opens(r) == r.enabled /\ r.window # ClosedAllDay

\* The start of the first window that opens later, looking Lookahead days ahead.
nextTransition(t, rules) ==
  LET starts == UNION {{d * Day + r.window.on : r \in {s \in ruleFor(d, rules) : Opens(s)}} :
                         d \in DayOf(t)..DayOf(t) + Lookahead - 1}
      later == {c \in starts : c > t}
  IN IF later = {} THEN Never ELSE CHOOSE c \in later : \A x \in later : c <= x

Decide(t, rules, overrides) ==
  LET forced == activeOverride(t, overrides)
      today == ruleFor(DayOf(t), rules)
  IN IF forced # {}
     THEN LET o == CHOOSE o \in forced : TRUE
          IN [on |-> o.mode = "wake", source |-> "override", next |-> o.expires]
     ELSE IF today # {}
     THEN LET r == CHOOSE r \in today : TRUE
          IN [on |-> Opens(r) /\ withinWindow(MinuteOf(t), r.window), source |-> r.key.kind,
              next |-> Never]
     ELSE [on |-> FALSE, source |-> "default", next |-> nextTransition(t, rules)]

\* Mutant: every other minute is tried.
NextInSteps(t, rules, overrides) ==
  LET now == Decide(t, rules, overrides)
      flips == {p \in t + 1..t + 2 * Day - 1 : p % 2 = 0 /\ Decide(p, rules, overrides).on # now.on}
  IN IF now.next # Never THEN now.next
     ELSE IF flips = {} THEN Never ELSE CHOOSE c \in flips : \A x \in flips : c <= x

\* Without a next change in the decision, the next two days are tried minute by minute.
NextChange(t, rules, overrides) ==
  LET now == Decide(t, rules, overrides)
      flips == {p \in t + 1..t + 2 * Day - 1 : Decide(p, rules, overrides).on # now.on}
  IN IF now.next # Never THEN now.next
     ELSE IF flips = {} THEN Never ELSE CHOOSE c \in flips : \A x \in flips : c <= x
=============================================================================
