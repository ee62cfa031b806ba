------------------------------ MODULE Throttle ------------------------------
(***************************************************************************)
(* The rows of login_attempts (internal/auth/ratelimit.go) and what a      *)
(* failure makes of one.  A row keeps how long its window and its lock     *)
(* still last, not the instants: nothing else is read from them.           *)
(***************************************************************************)
EXTENDS Naturals

CONSTANTS
  LockAfter,   \* maxFailuresBeforeLock
  Window,      \* failureWindow
  BaseLock,    \* baseLockout
  MaxLock,     \* maxLockout
  MaxFailures  \* bound: failures are not told apart from here on

ASSUME ThrottleAssumption ==
  /\ LockAfter \in Nat \ {0}
  /\ Window \in Nat \ {0}
  /\ BaseLock \in Nat \ {0}
  /\ MaxLock \in Nat
  /\ MaxLock >= BaseLock
  /\ MaxFailures \in Nat
  /\ MaxFailures >= LockAfter

Least(a, b) == IF a < b THEN a ELSE b
Less(a, b) == IF a > b THEN a - b ELSE 0

Attempts == [failures: 0..MaxFailures, window: 0..Window, lock: 0..MaxLock]

\* No row: what lockedFor and recordOne find in a subject without failures.
NoAttempts == [failures |-> 0, window |-> 0, lock |-> 0]

Locked(a) == a.lock > 0

\* Doubles with every failure from the first that locks, up to the cap.
lockoutDuration(f) ==
  LET d == BaseLock * 2 ^ Less(f, LockAfter) IN IF d \in 1..MaxLock THEN d ELSE MaxLock

\* The row that recordOne writes, from the row it read.
Failed(a) ==
  LET failures == IF a.window = 0 THEN 1 ELSE Least(a.failures + 1, MaxFailures)
  IN [failures |-> failures,
      window |-> IF failures = 1 THEN Window ELSE a.window,
      lock |-> IF failures >= LockAfter THEN lockoutDuration(failures) ELSE 0]

\* Some time passes.
Older(a) == [a EXCEPT !.window = Less(@, 1), !.lock = Less(@, 1)]
=============================================================================
