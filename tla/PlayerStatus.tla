---------------------------- MODULE PlayerStatus ----------------------------
(***************************************************************************)
(* The player's status (internal/store/player.go): a record in memory that *)
(* heartbeats and the watchdog write under a mutex, and a                  *)
(* row that it is flushed to now and then, outside the mutex.  The display *)
(* bit of the record is left out: nothing in the code sets it.             *)
(***************************************************************************)
EXTENDS Integers, FiniteSets

CONSTANTS
  Reporters,        \* goroutines that may be inside the store at the same time
  Scenes,           \* what a heartbeat may report
  OfflineAfter,     \* beats older than this are stale
  PersistInterval,  \* least time between two flushes of a quiet player
  MaxTime           \* bound on the clock

ASSUME PlayerStatusAssumption ==
  /\ OfflineAfter \in Nat
  /\ PersistInterval \in Nat
  /\ MaxTime \in Nat
  /\ IsFiniteSet(Reporters)
  /\ Scenes # {}

VARIABLES
  now,          \* the clock
  live,         \* the record in memory
  dirty,        \* it has changed since a flush took it
  lastPersist,  \* when that was
  row,          \* the row of player_state
  report,       \* where each goroutine is
  behind        \* history: the row is not of the last flush: one failed, or ended late

statusVars == <<live, dirty, lastPersist, row, report, behind>>

NoBeat == -1
Time == 0..MaxTime
Status == [online: BOOLEAN, beat: Time \cup {NoBeat}, scene: Scenes]
Report == [pc: {"idle", "flush", "write"}, taken: Status, turn: BOOLEAN]

Initially(scene) == [online |-> FALSE, beat |-> NoBeat, scene |-> scene]
Away == [pc |-> "idle", taken |-> Initially(CHOOSE s \in Scenes : TRUE), turn |-> FALSE]

StatusTypeOK ==
  /\ now \in Time
  /\ live \in Status
  /\ dirty \in BOOLEAN
  /\ lastPersist \in Time \cup {NoBeat}
  /\ row \in Status
  /\ report \in [Reporters -> Report]
  /\ behind \in BOOLEAN

InitStatus ==
  /\ live = Initially(CHOOSE s \in Scenes : TRUE)
  /\ row = live
  /\ dirty = FALSE
  /\ lastPersist = NoBeat
  /\ report = [g \in Reporters |-> Away]
  /\ behind = FALSE

Fresh(s) == s.beat # NoBeat /\ now - s.beat < OfflineAfter

\* What Get answers: the mark that MarkOffline leaves is not in it.
Get == [live EXCEPT !.online = Fresh(live)]

Begin(g) == report[g].pc = "idle"
To(g, pc) == report' = [report EXCEPT ![g].pc = pc]
Leave(g) == report' = [report EXCEPT ![g] = Away]

\* The report replaces the record.
Heartbeat(g, scene) ==
  LET changed == ~(live.online /\ Fresh(live)) IN
  /\ Begin(g)
  /\ live' = [online |-> TRUE, beat |-> now, scene |-> scene]
  /\ dirty' = TRUE
  /\ IF changed \/ lastPersist = NoBeat \/ now - lastPersist >= PersistInterval
     THEN To(g, "flush") ELSE UNCHANGED report
  /\ UNCHANGED <<lastPersist, row, behind>>

MarkOffline(g) ==
  /\ Begin(g)
  /\ live.online
  /\ live' = [live EXCEPT !.online = FALSE]
  /\ dirty' = TRUE
  /\ To(g, "flush")
  /\ UNCHANGED <<lastPersist, row, behind>>

\* Flush, called now and then and at shutdown.
Flush(g) ==
  /\ Begin(g)
  /\ dirty
  /\ To(g, "flush")
  /\ UNCHANGED <<live, dirty, lastPersist, row, behind>>

\* flush takes the record under the mutex, and clears the mark before it writes.
Take(g) ==
  /\ report[g].pc = "flush"
  /\ IF dirty
     THEN /\ report' = [h \in Reporters |->
                          IF h = g THEN [pc |-> "write", taken |-> live, turn |-> TRUE]
                          ELSE [report[h] EXCEPT !.turn = FALSE]]
          /\ dirty' = FALSE
          /\ lastPersist' = now
     ELSE Leave(g) /\ UNCHANGED <<dirty, lastPersist>>
  /\ UNCHANGED <<live, row, behind>>

\* Mutant: the mark is cleared after the write.
ClearLate(g) ==
  /\ report[g].pc = "write"
  /\ row' = report[g].taken
  /\ behind' = ~report[g].turn
  /\ dirty' = FALSE
  /\ Leave(g)
  /\ UNCHANGED <<live, lastPersist>>

\* The UPDATE.  Another flush may have taken a later record, and written it first.
Write(g) ==
  /\ report[g].pc = "write"
  /\ row' = report[g].taken
  /\ behind' = ~report[g].turn
  /\ Leave(g)
  /\ UNCHANGED <<live, dirty, lastPersist>>

\* The UPDATE fails, or the request that runs it is cancelled.  Nothing marks the
\* record again.
FailWrite(g) ==
  /\ report[g].pc = "write"
  /\ behind' = TRUE
  /\ Leave(g)
  /\ UNCHANGED <<live, dirty, lastPersist, row>>

\* The process stops; Load restores the row, never as online.
Restart ==
  /\ live' = [row EXCEPT !.online = FALSE]
  /\ dirty' = FALSE
  /\ lastPersist' = NoBeat
  /\ report' = [g \in Reporters |-> Away]
  /\ behind' = row.online
  /\ UNCHANGED row

NextStatus ==
  \/ \E g \in Reporters :
       \/ \E scene \in Scenes : Heartbeat(g, scene)
       \/ MarkOffline(g) \/ Flush(g) \/ Take(g) \/ Write(g) \/ FailWrite(g)
  \/ Restart

-----------------------------------------------------------------------------
Stored(s) == [online |-> s.online, beat |-> s.beat, scene |-> s.scene]

\* With nothing marked and no flush underway the row holds the record, unless the
\* last flush failed or was overtaken: neither is tried again.
RowIsLive ==
  ~dirty /\ ~behind /\ (\A g \in Reporters : report[g].pc # "write") => Stored(row) = Stored(live)
=============================================================================
