----------------------------- MODULE MCDisplay ------------------------------
(* The instances of Display that TLC checks.                               *)
EXTENDS Display, TLC

\* With a day of four minutes: a day window, one across midnight, and a closed day.
DayWindow == [on |-> 1, off |-> 3]
FewWindows == {DayWindow, [on |-> 3, off |-> 1], ClosedAllDay}
=============================================================================
