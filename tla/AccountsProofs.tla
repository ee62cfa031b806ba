--------------------------- MODULE AccountsProofs ---------------------------
(***************************************************************************)
(* Theorems about accounts and sign-in, for any number of requests,        *)
(* accounts, sessions and passwords.                                       *)
(*                                                                         *)
(* That an administrator remains is kept by the guards that are still good:*)
(* a request between its guard and its write, which no removal has         *)
(* overtaken, has an administrator other than the account it is about.     *)
(***************************************************************************)
EXTENDS Accounts, SequenceTheorems, TLAPS

\* What the place of a request says of it: it is about some account; a creation was
\* ordered by an administrator, so the system is set up; there are steps left in
\* front of a step; and a guard that nobody has overtaken still holds.
Sound(r) ==
  /\ r.pc \notin {"idle", "create"} => r.user \in Ids
  /\ r.pc = "create" => lastUser > 0
  /\ r.pc \in {"guard", "apply", "revoke"} => r.todo # <<>>
  /\ r.pc = "apply" /\ Head(r.todo) \in Guarded /\ ~r.stale /\ ~raced => \E a \in Ids \ {r.user} : Admin(a)

RequestsSound == \A h \in Handlers : Sound(req[h])

AccountsInv == TypeOK /\ RequestsSound /\ AdminRemains

\* The parts of the type invariant about the two tables.
UsersOK ==
  /\ users \in [Ids -> User]
  /\ \A u \in Ids : Exists(u) <=> users[u] # NoUser
  /\ lastUser \in 0..MaxUsers
  /\ \A u \in Ids : Exists(u) => u <= lastUser

SessionsOK ==
  /\ sessions \in [Tokens -> Session]
  /\ \A s \in Tokens : Live(s) => sessions[s].user \in Ids /\ Exists(sessions[s].user)

\* A sequence of one, and what follows it.
LEMMA SingleSeq ==
  ASSUME NEW S, NEW x \in S
  PROVE  <<x>> \in Seq(S) /\ Len(<<x>>) = 1 /\ <<x>>[1] = x
  OBVIOUS

LEMMA TailOfCons ==
  ASSUME NEW S, NEW x \in S, NEW s \in Seq(S)
  PROVE  Tail(<<x>> \o s) = s
<1> DEFINE c == <<x>> \o s
<1>1. <<x>> \in Seq(S) /\ Len(<<x>>) = 1
  BY SingleSeq
<1>2. c \in Seq(S) /\ Len(c) = 1 + Len(s) /\ \A i \in 1..(1 + Len(s)) : c[i] = IF i <= 1 THEN <<x>>[i] ELSE s[i - 1]
  BY <1>1, ConcatProperties
<1>3. Len(s) \in Nat
  BY LenProperties
<1> HIDE DEF c
<1>4. c # <<>>
  BY <1>2, <1>3
<1>5. Tail(c) \in Seq(S) /\ Len(Tail(c)) = Len(s) /\ \A i \in 1..Len(s) : Tail(c)[i] = c[i + 1]
  BY <1>2, <1>3, <1>4, HeadTailProperties
<1>6. \A i \in 1..Len(s) : Tail(c)[i] = s[i]
  BY <1>2, <1>3, <1>5
<1>7. Tail(c) = s
  BY <1>5, <1>6, SeqEqual
<1> QED BY <1>7 DEF c

\* What is left of the steps of a PATCH after one of them is the end of a PATCH.
LEMMA TailIsPatch ==
  ASSUME NEW t \in Plans \cup Patches, t # <<>>
  PROVE  Tail(t) \in Patches
<1> DEFINE S == {"demote", "promote", "disable", "enable", "password", "delete"}
           R == {<<>>, <<"demote">>, <<"promote">>}
           D == {<<>>, <<"disable">>, <<"enable">>}
           P == {<<>>, <<"password">>}
<1>1. ASSUME NEW r \in R, NEW d \in D, NEW p \in P PROVE r \o d \o p \in Patches
  <2>1. Patches = {a \o b \o c : a \in R, b \in D, c \in P}
    BY DEF Patches
  <2> HIDE DEF R, D, P
  <2> QED BY <2>1
<1>2. \A x \in S : <<x>> \in Seq(S)
  BY SingleSeq
<1>3. <<>> \in Seq(S) /\ \A s \in Seq(S) : <<>> \o s = s
  BY EmptySeq, ConcatEmptySeq
<1>4. \A r \in R : r = <<>> \/ \E x \in S : r = <<x>>
  OBVIOUS
<1>5. \A d \in D : d = <<>> \/ \E x \in S : d = <<x>>
  OBVIOUS
<1>6. \A p \in P : p = <<>> \/ \E x \in S : p = <<x>>
  OBVIOUS
<1>7. <<>> \in R /\ <<>> \in D /\ <<>> \in P
  OBVIOUS
<1>8. "delete" \in S
  OBVIOUS
<1>9. (<<>> \o <<>>) \o <<>> = <<>>
  BY <1>3
<1>10. \A x \in S : Tail(<<x>>) = <<>>
  <2>1. \A x \in S : <<x>> \o <<>> = <<x>>
    BY <1>2, ConcatEmptySeq
  <2> HIDE DEF S
  <2> QED BY <1>3, <2>1, TailOfCons
<1>11. t = <<"delete">> \/ t \in Patches
  BY DEF Plans
<1>12. t \in Patches => \E r \in R, d \in D, p \in P : t = (r \o d) \o p
  BY DEF Patches
<1> HIDE DEF S, R, D, P
<1>13. CASE t = <<"delete">>
  BY <1>1, <1>7, <1>8, <1>9, <1>10, <1>13
<1>14. CASE t \in Patches
  <2>1. PICK r \in R, d \in D, p \in P : t = (r \o d) \o p
    BY <1>12, <1>14
  <2>2. r \in Seq(S) /\ d \in Seq(S) /\ p \in Seq(S)
    BY <1>2, <1>3, <1>4, <1>5, <1>6
  <2>3. d \o p \in Seq(S)
    BY <2>2, ConcatProperties
  <2>4. CASE r # <<>>
    <3>1. PICK x \in S : r = <<x>>
      BY <1>4, <2>4
    <3>2. t = <<x>> \o (d \o p)
      BY <2>1, <2>2, <3>1, ConcatAssociative
    <3>3. Tail(t) = (<<>> \o d) \o p
      BY <1>3, <2>2, <2>3, <3>2, TailOfCons
    <3> QED BY <1>1, <1>7, <3>3
  <2>5. CASE r = <<>> /\ d # <<>>
    <3>1. PICK x \in S : d = <<x>>
      BY <1>5, <2>5
    <3>2. t = <<x>> \o p
      BY <1>3, <2>1, <2>2, <2>5, <3>1
    <3>3. Tail(t) = (<<>> \o <<>>) \o p
      BY <1>3, <2>2, <3>2, TailOfCons
    <3> QED BY <1>1, <1>7, <3>3
  <2>6. CASE r = <<>> /\ d = <<>>
    <3>1. t = p
      BY <1>3, <2>1, <2>2, <2>6
    <3>2. PICK x \in S : t = <<x>>
      BY <1>6, <3>1
    <3>3. Tail(t) = (<<>> \o <<>>) \o <<>>
      BY <1>9, <1>10, <3>2
    <3> QED BY <1>1, <1>7, <3>3
  <2> QED BY <2>4, <2>5, <2>6
<1> QED BY <1>11, <1>13, <1>14

\* The rows of login_attempts that failures and time make are rows again.
LEMMA AttemptsClosed ==
  ASSUME NEW a \in Attempts
  PROVE  Failed(a) \in Attempts /\ Older(a) \in Attempts /\ NoAttempts \in Attempts
<1>1. \A f \in 0..MaxFailures : lockoutDuration(f) \in 0..MaxLock
  BY ThrottleAssumption DEF lockoutDuration
<1>2. NoAttempts \in Attempts
  BY ThrottleAssumption DEF Attempts, NoAttempts
<1>3. Older(a) \in Attempts
  <2>1. a.window \in 0..Window /\ a.lock \in 0..MaxLock
    BY DEF Attempts
  <2>2. Less(a.window, 1) \in 0..Window /\ Less(a.lock, 1) \in 0..MaxLock
    BY <2>1, ThrottleAssumption DEF Less
  <2> QED BY <2>2 DEF Older, Attempts
<1>4. Failed(a) \in Attempts
  <2> DEFINE f == IF a.window = 0 THEN 1 ELSE Least(a.failures + 1, MaxFailures)
  <2>1. f \in 0..MaxFailures
    BY ThrottleAssumption DEF Attempts, Least
  <2>2. Failed(a) = [failures |-> f, window |-> IF f = 1 THEN Window ELSE a.window,
                     lock |-> IF f >= LockAfter THEN lockoutDuration(f) ELSE 0]
    BY DEF Failed
  <2> HIDE DEF f
  <2>3. (IF f = 1 THEN Window ELSE a.window) \in 0..Window
    BY ThrottleAssumption DEF Attempts
  <2>4. (IF f >= LockAfter THEN lockoutDuration(f) ELSE 0) \in 0..MaxLock
    BY <1>1, <2>1, ThrottleAssumption
  <2> QED BY <2>1, <2>2, <2>3, <2>4 DEF Attempts
<1> QED BY <1>2, <1>3, <1>4

\* Small facts about the records of the model.
LEMMA Constants ==
  /\ Idle \in Request
  /\ NoUser \in User
  /\ NoSession \in Session
  /\ NoAttempts \in Attempts
  /\ 0 \in 0..MaxUsers /\ 0 \in 0..MaxPasswords /\ 1 \in 0..MaxPasswords
<1>1. NoAttempts \in Attempts
  BY ThrottleAssumption DEF Attempts, NoAttempts
<1>2. 0 \in 0..MaxUsers /\ 0 \in 0..MaxPasswords /\ 1 \in 0..MaxPasswords
  BY AccountsAssumption
<1>3. <<>> \in Patches
  <2>1. <<>> \o <<>> \o <<>> = <<>>
    BY EmptySeq, ConcatEmptySeq
  <2>2. \E r \in {<<>>, <<"demote">>, <<"promote">>}, d \in {<<>>, <<"disable">>, <<"enable">>},
           p \in {<<>>, <<"password">>} : <<>> = r \o d \o p
    BY <2>1
  <2> QED BY <2>2 DEF Patches
<1>4. Idle \in Request
  BY <1>1, <1>2, <1>3 DEF Idle, Request
<1> QED BY <1>1, <1>2, <1>4 DEF NoUser, User, Role, NoSession, Session

\* A request that goes on with a record that is sound in the present state leaves all
\* of them sound, if no administrator goes with the step.
LEMMA Continue ==
  ASSUME AccountsInv, NEW h \in Handlers, NEW r \in Request, Become(h, r),
         UsersOK', SessionsOK', attempts' \in [Subjects -> Attempts], UNCHANGED fixed,
         raced' = raced,
         \A a \in Ids : Admin(a) => Admin(a)',
         lastUser = 0 /\ lastUser' # 0 => \E a \in Ids : Admin(a)',
         lastUser <= lastUser',
         r.pc \notin {"idle", "create"} => r.user \in Ids,
         r.pc = "create" => lastUser > 0,
         r.pc \in {"guard", "apply", "revoke"} => r.todo # <<>>,
         r.pc = "apply" /\ Head(r.todo) \in Guarded /\ ~r.stale /\ ~raced => \E a \in Ids \ {r.user} : Admin(a)
  PROVE  AccountsInv'
<1>1. req' \in [Handlers -> Request] /\ \A k \in Handlers : req'[k] = IF k = h THEN r ELSE req[k]
  BY DEF AccountsInv, TypeOK, Become
<1>2. TypeOK'
  BY <1>1 DEF AccountsInv, TypeOK, UsersOK, SessionsOK, fixed
<1>3. lastUser \in Nat /\ lastUser' \in Nat
  BY AccountsAssumption DEF AccountsInv, TypeOK, UsersOK
<1>4. ASSUME NEW k \in Handlers PROVE Sound(req[k])'
  <2>1. CASE k = h
    BY <1>1, <1>3, <2>1 DEF Sound
  <2>2. CASE k # h
    <3>1. Sound(req[k]) /\ req'[k] = req[k]
      BY <1>1, <2>2 DEF AccountsInv, RequestsSound
    <3> QED BY <1>3, <3>1 DEF Sound
  <2> QED BY <2>1, <2>2
<1>5. AdminRemains'
  BY <1>3 DEF AccountsInv, AdminRemains
<1> QED BY <1>2, <1>4, <1>5 DEF AccountsInv, RequestsSound

\* The same for a step that leaves the accounts alone.
LEMMA ContinueOnly ==
  ASSUME AccountsInv, NEW h \in Handlers, NEW r \in Request, Become(h, r),
         UNCHANGED <<users, lastUser, fixed, raced>>,
         SessionsOK', attempts' \in [Subjects -> Attempts],
         r.pc \notin {"idle", "create"} => r.user \in Ids,
         r.pc = "create" => lastUser > 0,
         r.pc \in {"guard", "apply", "revoke"} => r.todo # <<>>,
         r.pc = "apply" /\ Head(r.todo) \in Guarded /\ ~r.stale /\ ~raced => \E a \in Ids \ {r.user} : Admin(a)
  PROVE  AccountsInv'
<1>1. UsersOK'
  BY DEF AccountsInv, TypeOK, UsersOK, Exists
<1>2. \A a \in Ids : Admin(a) => Admin(a)'
  BY DEF Admin
<1>3. lastUser <= lastUser'
  BY AccountsAssumption DEF AccountsInv, TypeOK
<1> QED BY <1>1, <1>2, <1>3, Continue DEF fixed

\* A step that concerns no request and no row of an account but its weakness.
LEMMA Meanwhile ==
  ASSUME AccountsInv, UNCHANGED <<req, raced, kinds>>, UNCHANGED <<users, lastUser, upgrades>>,
         SessionsOK', attempts' \in [Subjects -> Attempts]
  PROVE  AccountsInv'
<1>1. TypeOK'
  BY DEF AccountsInv, TypeOK, SessionsOK, Exists
<1>2. RequestsSound'
  BY DEF AccountsInv, RequestsSound, Sound, Admin
<1>3. AdminRemains'
  BY DEF AccountsInv, AdminRemains, Admin
<1> QED BY <1>1, <1>2, <1>3 DEF AccountsInv

\* Sessions that are dropped or excused leave the foreign key as it is.
LEMMA SessionsShrink ==
  ASSUME TypeOK, UNCHANGED users,
         \/ UNCHANGED sessions
         \/ \E gone \in SUBSET Tokens : sessions' = Without(gone)
         \/ \E u \in Ids : sessions' = Excused(u)
  PROVE  SessionsOK'
<1>1. CASE UNCHANGED sessions
  BY <1>1 DEF TypeOK, SessionsOK, Live, Exists
<1>2. CASE \E gone \in SUBSET Tokens : sessions' = Without(gone)
  BY <1>2, Constants DEF TypeOK, SessionsOK, Live, Exists, Without
<1>3. ASSUME NEW u \in Ids, sessions' = Excused(u) PROVE SessionsOK'
  <2>1. \A s \in Tokens : sessions[s] \in Session /\ [sessions[s] EXCEPT !.excused = TRUE] \in Session
                          /\ [sessions[s] EXCEPT !.excused = TRUE].user = sessions[s].user
    BY DEF TypeOK, Session
  <2>2. \A s \in Tokens : sessions'[s] \in Session /\ sessions'[s].user = sessions[s].user
                          /\ (Live(s)' => Live(s))
    BY <1>3, <2>1 DEF Excused, Live
  <2> QED BY <1>3, <2>2 DEF TypeOK, SessionsOK, Exists, Excused
<1> QED BY <1>1, <1>2, <1>3

\* A write that changes neither a role nor whether an account is disabled.
LEMMA RolesKept ==
  ASSUME TypeOK, UNCHANGED lastUser, users' \in [Ids -> User],
         \A v \in Ids : /\ users'[v].role = users[v].role /\ users'[v].disabled = users[v].disabled
                        /\ (users'[v] # users[v] => Exists(v))
  PROVE  /\ UsersOK'
         /\ \A v \in Ids : (Exists(v)' <=> Exists(v)) /\ (Admin(v)' <=> Admin(v))
         /\ lastUser <= lastUser'
<1>1. \A v \in Ids : (Exists(v)' <=> Exists(v)) /\ (Admin(v)' <=> Admin(v))
  BY DEF Exists, Admin
<1>2. \A v \in Ids : users'[v] # NoUser <=> Exists(v)
  BY DEF TypeOK, Exists, NoUser
<1>3. lastUser <= lastUser'
  BY AccountsAssumption DEF TypeOK
<1> QED BY <1>1, <1>2, <1>3 DEF TypeOK, UsersOK

\* The UPDATE of SetPassword.
LEMMA PasswordSet ==
  ASSUME TypeOK, NEW u \in Ids, Exists(u), NewPassword(u)
  PROVE  /\ users' \in [Ids -> User]
         /\ users'[u].pw \in 0..MaxPasswords
         /\ \A v \in Ids : /\ users'[v].role = users[v].role /\ users'[v].disabled = users[v].disabled
                            /\ (users'[v] # users[v] => Exists(v))
<1> DEFINE row == [users[u] EXCEPT !.pw = users[u].newest + 1, !.newest = @ + 1, !.weak = FALSE]
<1>1. users[u] \in User /\ users \in [Ids -> User]
  BY DEF TypeOK
<1>2. users[u].newest + 1 \in 0..MaxPasswords
  BY <1>1, AccountsAssumption DEF NewPassword, User
<1>3. users' = [users EXCEPT ![u] = row]
  BY <1>1 DEF NewPassword, User
<1>4. row \in User /\ row.role = users[u].role /\ row.disabled = users[u].disabled
      /\ row.pw \in 0..MaxPasswords
  BY <1>1, <1>2 DEF User
<1> HIDE DEF row
<1> QED BY <1>1, <1>3, <1>4

\* Requests of the sign-in keep the invariant.
LEMMA SignInStep ==
  ASSUME AccountsInv, NEW h \in Handlers, SignIn(h)
  PROVE  AccountsInv'
<1>0. /\ TypeOK /\ req[h] \in Request /\ Sound(req[h]) /\ req[h].user \in 0..MaxUsers
      /\ \A x \in Subjects : attempts[x] \in Attempts
  BY DEF AccountsInv, TypeOK, RequestsSound, Request
<1>a. ASSUME UNCHANGED <<users, sessions>> PROVE SessionsOK'
  BY <1>0, <1>a DEF TypeOK, SessionsOK, Live, Exists
<1>1. ASSUME NEW u \in Ids, NEW cred \in 1..MaxPasswords, StartLogin(h, u, cred) PROVE AccountsInv'
  <2> DEFINE r == [Idle EXCEPT !.pc = "verify", !.user = u, !.cred = cred]
  <2>0. u \in 0..MaxUsers /\ cred \in 0..MaxPasswords /\ Idle \in Request
    BY Constants, AccountsAssumption DEF Ids
  <2>1. r \in Request /\ r.pc = "verify" /\ r.user = u
    BY <2>0 DEF Request
  <2>2. Become(h, r) /\ UNCHANGED <<users, lastUser, sessions, attempts, fixed, raced>>
    BY <1>1 DEF StartLogin, tables
  <2> HIDE DEF r
  <2> QED BY <1>0, <1>a, <2>1, <2>2, ContinueOnly DEF TypeOK
<1>2. CASE Verify(h)
  <2>1. UNCHANGED <<users, lastUser, sessions, attempts, fixed, raced>> /\ req[h].user \in Ids
    BY <1>0, <1>2 DEF Verify, tables, At, Sound
  <2>2. PICK r \in Request : Become(h, r) /\ r.pc \in {"idle", "rehash", "reset", "readIP"}
                             /\ (r.pc # "idle" => r.user = req[h].user)
    <3>1. CASE \E pc \in {"rehash", "reset"} : Goto(h, pc)
      BY <1>0, <3>1 DEF Goto, Request
    <3>2. CASE Become(h, [req[h] EXCEPT !.pc = "readIP", !.cred = 0])
      <4>1. [req[h] EXCEPT !.pc = "readIP", !.cred = 0] \in Request
        BY <1>0, Constants DEF Request
      <4> QED BY <1>0, <3>2, <4>1 DEF Request
    <3>3. CASE Finish(h)
      BY <3>3, Constants DEF Finish, Idle
    <3> QED BY <1>2, <3>1, <3>2, <3>3 DEF Verify
  <2> QED BY <1>0, <1>a, <2>1, <2>2, ContinueOnly DEF TypeOK
<1>3. CASE Rehash(h)
  <2> DEFINE u == req[h].user
             r == [req[h] EXCEPT !.pc = "reset"]
  <2>1. u \in Ids
    BY <1>0, <1>3 DEF Rehash, At, Sound
  <2>2. r \in Request /\ r.pc = "reset" /\ r.user = u /\ Become(h, r)
    BY <1>0, <1>3 DEF Rehash, Goto, Request
  <2>3. UNCHANGED <<lastUser, attempts, fixed, raced>>
    BY <1>3 DEF Rehash
  <2>4. /\ users' \in [Ids -> User]
        /\ \A v \in Ids : /\ users'[v].role = users[v].role /\ users'[v].disabled = users[v].disabled
                          /\ (users'[v] # users[v] => Exists(v))
    <3>1. CASE Exists(u)
      <4> DEFINE row == [users[u] EXCEPT !.pw = req[h].cred, !.weak = FALSE]
      <4>1. users' = [users EXCEPT ![u] = row]
        BY <1>0, <1>3, <2>1, <3>1 DEF Rehash, TypeOK, User
      <4>2. row \in User /\ row.role = users[u].role /\ row.disabled = users[u].disabled
        <5>1. users[u] \in User /\ req[h].cred \in 0..MaxPasswords
          BY <1>0, <2>1 DEF TypeOK, Request
        <5> HIDE DEF u
        <5> QED BY <5>1 DEF User
      <4> HIDE DEF row
      <4> QED BY <1>0, <2>1, <3>1, <4>1, <4>2 DEF TypeOK
    <3>2. CASE ~Exists(u)
      BY <1>0, <1>3, <3>2 DEF Rehash, TypeOK
    <3> QED BY <3>1, <3>2
  <2>5. UsersOK' /\ (\A v \in Ids : (Exists(v)' <=> Exists(v)) /\ (Admin(v)' <=> Admin(v))) /\ lastUser <= lastUser'
    BY <1>0, <2>3, <2>4, RolesKept
  <2>6. SessionsOK'
    <3>1. \A s \in Tokens : sessions'[s] \in Session /\ sessions'[s].user = sessions[s].user
                            /\ (Live(s)' => Live(s))
      <4>1. \A s \in Tokens : sessions[s] \in Session /\ [sessions[s] EXCEPT !.excused = TRUE] \in Session
                              /\ [sessions[s] EXCEPT !.excused = TRUE].user = sessions[s].user
        BY <1>0 DEF TypeOK, Session
      <4>2. CASE sessions' = Excused(u)
        BY <4>1, <4>2 DEF Excused, Live
      <4>3. CASE sessions' = sessions
        BY <4>1, <4>3 DEF Live
      <4> QED BY <1>3, <4>2, <4>3 DEF Rehash
    <3>2. sessions' \in [Tokens -> Session]
      <4>1. CASE sessions' = Excused(u)
        BY <3>1, <4>1 DEF Excused
      <4>2. CASE sessions' = sessions
        BY <1>0, <4>2 DEF TypeOK
      <4> QED BY <1>3, <4>1, <4>2 DEF Rehash
    <3> QED BY <1>0, <2>5, <3>1, <3>2 DEF TypeOK, SessionsOK
  <2> HIDE DEF u, r
  <2> QED BY <1>0, <2>1, <2>2, <2>3, <2>5, <2>6, Continue DEF TypeOK, fixed
<1>4. CASE Reset(h)
  <2>1. UNCHANGED <<users, lastUser, sessions, fixed, raced>> /\ req[h].user \in Ids
    BY <1>0, <1>4 DEF Reset, tables, At, Sound
  <2>2. attempts' \in [Subjects -> Attempts]
    BY <1>0, <1>4, Constants DEF Reset, TypeOK
  <2> DEFINE r == [req[h] EXCEPT !.pc = "issue"]
  <2>3. r \in Request /\ r.pc = "issue" /\ r.user = req[h].user /\ Become(h, r)
    BY <1>0, <1>4 DEF Reset, Goto, Request
  <2> HIDE DEF r
  <2> QED BY <1>0, <1>a, <2>1, <2>2, <2>3, ContinueOnly
<1>5. CASE ReadAttempts(h)
  <2> DEFINE ip == At(h, "readIP")
             x == IF ip THEN Address ELSE req[h].user
             r == [req[h] EXCEPT !.pc = IF ip THEN "writeIP" ELSE "writeUser", !.seen = attempts[x]]
  <2>1. UNCHANGED <<users, lastUser, sessions, attempts, fixed, raced>> /\ req[h].user \in Ids /\ Become(h, r)
    BY <1>0, <1>5 DEF ReadAttempts, tables, At, Sound
  <2>2. attempts[x] \in Attempts
    BY <1>0, <2>1 DEF Subjects
  <2>3. r \in Request /\ r.pc \in {"writeIP", "writeUser"} /\ r.user = req[h].user
    BY <1>0, <2>2 DEF Request
  <2> HIDE DEF r, x
  <2> QED BY <1>0, <1>a, <2>1, <2>3, ContinueOnly DEF TypeOK
<1>6. CASE WriteAttempts(h)
  <2>1. UNCHANGED <<users, lastUser, sessions, fixed, raced>> /\ req[h].user \in Ids
    BY <1>0, <1>6 DEF WriteAttempts, tables, At, Sound
  <2>2. Failed(req[h].seen) \in Attempts
    BY <1>0, AttemptsClosed DEF Request
  <2>3. attempts' \in [Subjects -> Attempts]
    BY <1>0, <1>6, <2>2 DEF WriteAttempts, TypeOK
  <2>4. PICK r \in Request : Become(h, r) /\ r.pc \in {"idle", "readUser"}
                             /\ (r.pc # "idle" => r.user = req[h].user)
    <3>1. [req[h] EXCEPT !.pc = "readUser", !.seen = NoAttempts] \in Request
      BY <1>0, Constants DEF Request
    <3>2. [req[h] EXCEPT !.pc = "readUser", !.seen = NoAttempts].pc = "readUser"
          /\ [req[h] EXCEPT !.pc = "readUser", !.seen = NoAttempts].user = req[h].user
      BY <1>0 DEF Request
    <3>3. Idle.pc = "idle"
      BY DEF Idle
    <3> QED BY <1>6, <3>1, <3>2, <3>3, Constants DEF WriteAttempts
  <2> QED BY <1>0, <1>a, <2>1, <2>3, <2>4, ContinueOnly
<1>7. ASSUME NEW s \in Tokens, Issue(h, s) PROVE AccountsInv'
  <2> DEFINE u == req[h].user
             new == [user |-> u, cred |-> req[h].cred, excused |-> users[u].pw # req[h].cred \/ users[u].disabled]
  <2>1. UNCHANGED <<users, lastUser, attempts, fixed, raced>> /\ u \in Ids /\ Become(h, Idle) /\ Idle.pc = "idle"
    BY <1>0, <1>7 DEF Issue, At, Sound, Finish, Idle
  <2>2. new \in Session /\ new.user = u
    <3>1. (users[u].pw # req[h].cred \/ users[u].disabled) \in BOOLEAN
      BY Zenon
    <3>2. req[h].cred \in 0..MaxPasswords /\ u \in 0..MaxUsers
      BY <1>0 DEF Request
    <3> QED BY <3>1, <3>2 DEF Session
  <2>3. SessionsOK'
    <3>1. CASE Exists(u)
      <4>1. sessions' = [sessions EXCEPT ![s] = new]
        BY <1>7, <3>1 DEF Issue
      <4> HIDE DEF new
      <4>2. \A v \in Ids : Exists(v)' <=> Exists(v)
        BY <2>1 DEF Exists
      <4> QED BY <1>0, <2>1, <2>2, <3>1, <4>1, <4>2 DEF TypeOK, SessionsOK, Live
    <3>2. CASE ~Exists(u)
      BY <1>0, <1>7, <1>a, <2>1, <3>2 DEF Issue
    <3> QED BY <3>1, <3>2
  <2> QED BY <1>0, <2>1, <2>3, Constants, ContinueOnly DEF TypeOK
<1> QED BY <1>1, <1>2, <1>3, <1>4, <1>5, <1>6, <1>7 DEF SignIn

\* Requests about the user's own sessions and password keep the invariant.
LEMMA OwnStep ==
  ASSUME AccountsInv, NEW h \in Handlers, Own(h)
  PROVE  AccountsInv'
<1>0. TypeOK /\ req[h] \in Request /\ Sound(req[h]) /\ req[h].user \in 0..MaxUsers
  BY DEF AccountsInv, TypeOK, RequestsSound, Request
<1>a. ASSUME UNCHANGED <<users, sessions>> PROVE SessionsOK'
  BY <1>0, <1>a DEF TypeOK, SessionsOK, Live, Exists
<1>1. ASSUME NEW s \in Tokens, NEW pc \in {"change", "keep"}, StartOwn(h, s, pc) PROVE AccountsInv'
  <2> DEFINE u == sessions[s].user
             r == [Idle EXCEPT !.pc = pc, !.user = u, !.token = {s}, !.cred = users[u].pw]
  <2>1. Live(s) /\ Become(h, r) /\ UNCHANGED <<users, lastUser, sessions, attempts, fixed, raced>>
    BY <1>1 DEF StartOwn, Authorised, tables
  <2>2. u \in Ids /\ u \in 0..MaxUsers
    BY <1>0, <2>1, AccountsAssumption DEF TypeOK, Ids
  <2>3. users[u] \in User /\ users[u].pw \in 0..MaxPasswords
    BY <1>0, <2>2 DEF TypeOK, User
  <2>4. r \in Request /\ r.pc = pc /\ r.user = u
    <3> HIDE DEF u
    <3> QED BY <2>2, <2>3, Constants DEF Request
  <2> HIDE DEF r
  <2> QED BY <1>0, <1>a, <2>1, <2>2, <2>4, ContinueOnly DEF TypeOK
<1>2. CASE ChangePassword(h)
  <2>1. UNCHANGED <<users, lastUser, sessions, attempts, fixed, raced>> /\ req[h].user \in Ids
    BY <1>0, <1>2 DEF ChangePassword, tables, At, Sound
  <2>2. PICK r \in Request : Become(h, r) /\ r.pc \in {"idle", "set"}
                             /\ (r.pc # "idle" => r.user = req[h].user)
    <3>1. CASE Goto(h, "set")
      BY <1>0, <3>1 DEF Goto, Request
    <3>2. CASE Finish(h)
      BY <3>2, Constants DEF Finish, Idle
    <3> QED BY <1>2, <3>1, <3>2 DEF ChangePassword
  <2> QED BY <1>0, <1>a, <2>1, <2>2, ContinueOnly DEF TypeOK
<1>3. CASE SetOwnPassword(h)
  <2> DEFINE u == req[h].user
  <2>1. u \in Ids /\ UNCHANGED <<lastUser, attempts, fixed, raced>>
    BY <1>0, <1>3 DEF SetOwnPassword, At, Sound
  <2>2. CASE Exists(u)
    <3> DEFINE r == [req[h] EXCEPT !.pc = "keep"]
    <3>1. /\ NewPassword(u)
          /\ sessions' = [s \in Tokens |-> IF s \in req[h].token /\ sessions[s].user = u
                            THEN [sessions[s] EXCEPT !.cred = users'[u].pw] ELSE sessions[s]]
          /\ Become(h, r)
      BY <1>3, <2>2 DEF SetOwnPassword, Goto
    <3>2. r \in Request /\ r.pc = "keep" /\ r.user = u
      BY <1>0 DEF Request
    <3>3. /\ users' \in [Ids -> User]
          /\ users'[u].pw \in 0..MaxPasswords
          /\ \A v \in Ids : /\ users'[v].role = users[v].role /\ users'[v].disabled = users[v].disabled
                            /\ (users'[v] # users[v] => Exists(v))
      BY <1>0, <2>1, <2>2, <3>1, PasswordSet
    <3>4. UsersOK' /\ (\A v \in Ids : (Exists(v)' <=> Exists(v)) /\ (Admin(v)' <=> Admin(v))) /\ lastUser <= lastUser'
      BY <1>0, <2>1, <3>3, RolesKept
    <3>5. SessionsOK'
      <4> DEFINE p == users'[u].pw
      <4>1. p \in 0..MaxPasswords
        BY <3>3
      <4> HIDE DEF p
      <4>2. \A s \in Tokens : /\ sessions[s] \in Session /\ [sessions[s] EXCEPT !.cred = p] \in Session
                              /\ [sessions[s] EXCEPT !.cred = p].user = sessions[s].user
        BY <1>0, <4>1 DEF TypeOK, Session
      <4>3. /\ sessions' \in [Tokens -> Session]
            /\ \A s \in Tokens : sessions'[s].user = sessions[s].user
        BY <3>1, <4>2 DEF p
      <4>4. \A s \in Tokens : Live(s)' => Live(s) \/ sessions[s].user = u
        BY <3>1 DEF Live
      <4> QED BY <1>0, <2>1, <2>2, <3>4, <4>3, <4>4 DEF TypeOK, SessionsOK
    <3> HIDE DEF r
    <3> QED BY <1>0, <2>1, <3>1, <3>2, <3>4, <3>5, Continue DEF TypeOK, fixed
  <2>3. CASE ~Exists(u)
    <3>1. UNCHANGED <<users, sessions>> /\ Become(h, Idle) /\ Idle.pc = "idle"
      BY <1>3, <2>3 DEF SetOwnPassword, Finish, Idle
    <3> QED BY <1>0, <1>a, <2>1, <3>1, Constants, ContinueOnly DEF TypeOK
  <2> QED BY <2>2, <2>3
<1>4. CASE KeepOne(h)
  <2>1. /\ UNCHANGED <<users, lastUser, attempts, fixed, raced>> /\ Become(h, Idle) /\ Idle.pc = "idle"
        /\ \E gone \in SUBSET Tokens : sessions' = Without(gone)
    BY <1>4 DEF KeepOne, Finish, Idle, SessionsOf
  <2>2. SessionsOK'
    BY <1>0, <2>1, SessionsShrink
  <2> QED BY <1>0, <2>1, <2>2, Constants, ContinueOnly DEF TypeOK
<1> QED BY <1>1, <1>2, <1>3, <1>4 DEF Own

\* What follows a step of a PATCH, or its start, is sound: in front of a guarded step
\* comes its guard.
LEMMA Resumed ==
  ASSUME NEW r \in Request, NEW todo \in Plans \cup Patches, todo # <<>>, r.user \in Ids,
         NEW n, n = [r EXCEPT !.pc = Resume(todo), !.todo = todo, !.stale = FALSE]
  PROVE  /\ n \in Request /\ n.user = r.user /\ n.todo = todo
         /\ n.pc \in {"guard", "apply"} /\ (n.pc = "apply" => Head(n.todo) \notin Guarded)
<1>1. Resume(todo) \in {"guard", "apply"} /\ (Resume(todo) = "apply" => Head(todo) \notin Guarded)
  BY DEF Resume
<1> QED BY <1>1 DEF Request

LEMMA Proceeds ==
  ASSUME AccountsInv, NEW h \in Handlers, At(h, "apply") \/ At(h, "revoke"), Advance(h)
  PROVE  \E r \in Request : /\ Become(h, r)
                            /\ r.pc \in {"idle", "guard", "apply"}
                            /\ r.pc # "idle" => r.user = req[h].user /\ r.todo # <<>>
                            /\ r.pc = "apply" => Head(r.todo) \notin Guarded
<1>0. req[h] \in Request /\ req[h].user \in Ids /\ req[h].todo \in Plans \cup Patches /\ req[h].todo # <<>>
  BY DEF AccountsInv, TypeOK, RequestsSound, Sound, At, Request
<1> DEFINE t == Tail(req[h].todo)
<1>1. t \in Plans \cup Patches
  BY <1>0, TailIsPatch
<1>2. Proceed(h, t)
  BY DEF Advance
<1> HIDE DEF t
<1>3. CASE t = <<>>
  BY <1>2, <1>3, Constants DEF Proceed, Idle
<1>4. CASE t # <<>>
  <2> DEFINE n == [req[h] EXCEPT !.pc = Resume(t), !.todo = t, !.stale = FALSE]
  <2>1. Become(h, n)
    BY <1>2, <1>4 DEF Proceed
  <2>2. /\ n \in Request /\ n.user = req[h].user /\ n.todo = t
        /\ n.pc \in {"guard", "apply"} /\ (n.pc = "apply" => Head(n.todo) \notin Guarded)
    BY <1>0, <1>1, <1>4, Resumed
  <2> HIDE DEF n
  <2> QED BY <1>4, <2>1, <2>2
<1> QED BY <1>3, <1>4

\* A new account: its id is above all others.
LEMMA AccountAdded ==
  ASSUME TypeOK, NEW role \in Role, Added(role)
  PROVE  /\ lastUser' \in Ids /\ lastUser' \in 0..MaxUsers /\ lastUser <= lastUser' /\ lastUser' # 0
         /\ UsersOK'
         /\ \A v \in Ids : (Exists(v) => Exists(v)') /\ (Admin(v) => Admin(v)')
         /\ role = "admin" => Admin(lastUser)'
<1> DEFINE row == [role |-> role, disabled |-> FALSE, pw |-> 1, newest |-> 1, weak |-> FALSE]
<1>1. lastUser' = lastUser + 1 /\ lastUser < MaxUsers /\ users' = [users EXCEPT ![lastUser'] = row]
  BY DEF Added
<1>2. lastUser \in Nat /\ lastUser' \in Ids /\ lastUser' \in 0..MaxUsers /\ lastUser <= lastUser' /\ lastUser' # 0
  BY <1>1, AccountsAssumption DEF TypeOK, Ids
<1>3. row \in User /\ row.role = role /\ ~row.disabled
  BY Constants DEF User
<1> HIDE DEF row
<1>4. role # "none"
  BY DEF Role
<1>5. ~Exists(lastUser')
  BY <1>1, <1>2 DEF TypeOK
<1>6. /\ users' \in [Ids -> User] /\ users'[lastUser'] = row
      /\ \A v \in Ids \ {lastUser'} : users'[v] = users[v]
  BY <1>1, <1>2, <1>3 DEF TypeOK
<1>7. UsersOK'
  <2>1. \A v \in Ids : Exists(v)' <=> (v = lastUser' \/ Exists(v))
    BY <1>2, <1>3, <1>4, <1>6 DEF Exists
  <2>2. row # NoUser
    BY <1>3, <1>4 DEF NoUser
  <2>3. \A v \in Ids : Exists(v)' <=> users'[v] # NoUser
    BY <1>2, <1>6, <2>1, <2>2 DEF TypeOK
  <2>4. \A v \in Ids : Exists(v)' => v <= lastUser'
    BY <1>1, <1>2, <2>1 DEF TypeOK, Ids
  <2> QED BY <1>2, <1>6, <2>3, <2>4 DEF UsersOK
<1>8. \A v \in Ids : (Exists(v) => Exists(v)') /\ (Admin(v) => Admin(v)')
  <2>1. \A v \in Ids : Admin(v) => Exists(v)
    BY DEF Admin, Exists
  <2>2. \A v \in Ids : v # lastUser' => (Exists(v) => Exists(v)') /\ (Admin(v) => Admin(v)')
    BY <1>6 DEF Admin, Exists
  <2> QED BY <1>5, <2>1, <2>2
<1>9. role = "admin" => Admin(lastUser)'
  BY <1>2, <1>3, <1>6 DEF Admin
<1> QED BY <1>2, <1>7, <1>8, <1>9

\* Requests of an administrator, but for the write of a step, keep the invariant.
LEMMA AdministerStep ==
  ASSUME AccountsInv, NEW h \in Handlers,
         \/ Bootstrap(h) \/ Guard(h) \/ Revoke(h)
         \/ \E s \in Tokens : StartCreate(h, s)
         \/ \E role \in Role : Create(h, role)
         \/ \E s \in Tokens, u \in Ids, plan \in Plans : StartPatch(h, s, u, plan)
  PROVE  AccountsInv'
<1>0. TypeOK /\ req[h] \in Request /\ Sound(req[h]) /\ req[h].user \in 0..MaxUsers
  BY DEF AccountsInv, TypeOK, RequestsSound, Request
<1>a. ASSUME UNCHANGED <<users, sessions>> PROVE SessionsOK'
  BY <1>0, <1>a DEF TypeOK, SessionsOK, Live, Exists
<1>b. ASSUME UNCHANGED sessions, \A v \in Ids : Exists(v) => Exists(v)' PROVE SessionsOK'
  BY <1>0, <1>b DEF TypeOK, SessionsOK, Live
<1>1. CASE Bootstrap(h)
  <2> DEFINE r == [Idle EXCEPT !.pc = "issue", !.user = lastUser', !.cred = 1]
  <2>1. Added("admin") /\ Become(h, r) /\ UNCHANGED <<sessions, attempts, fixed, raced>>
    BY <1>1 DEF Bootstrap
  <2>2. /\ lastUser' \in Ids /\ lastUser' \in 0..MaxUsers /\ lastUser <= lastUser' /\ UsersOK'
        /\ \A v \in Ids : (Exists(v) => Exists(v)') /\ (Admin(v) => Admin(v)')
        /\ Admin(lastUser)'
    BY <1>0, <2>1, AccountAdded DEF Role
  <2>3. r \in Request /\ r.pc = "issue" /\ r.user = lastUser'
    BY <2>2, Constants DEF Request
  <2>4. \E a \in Ids : Admin(a)'
    BY <2>2
  <2> HIDE DEF r
  <2> QED BY <1>0, <1>b, <2>1, <2>2, <2>3, <2>4, Continue DEF TypeOK, fixed
<1>2. ASSUME NEW role \in Role, Create(h, role) PROVE AccountsInv'
  <2>1. Added(role) /\ Become(h, Idle) /\ Idle.pc = "idle" /\ UNCHANGED <<sessions, attempts, fixed, raced>>
        /\ lastUser > 0
    BY <1>0, <1>2 DEF Create, Finish, Idle, Sound, At
  <2>2. /\ lastUser <= lastUser' /\ UsersOK'
        /\ \A v \in Ids : (Exists(v) => Exists(v)') /\ (Admin(v) => Admin(v)')
    BY <1>0, <2>1, AccountAdded
  <2>3. lastUser # 0
    BY <2>1
  <2> QED BY <1>0, <1>b, <2>1, <2>2, <2>3, Constants, Continue DEF TypeOK, fixed
<1>3. ASSUME NEW s \in Tokens, StartCreate(h, s) PROVE AccountsInv'
  <2> DEFINE r == [Idle EXCEPT !.pc = "create"]
  <2>1. Live(s) /\ Become(h, r) /\ UNCHANGED <<users, lastUser, sessions, attempts, fixed, raced>>
    BY <1>3 DEF StartCreate, Authorised, tables
  <2>2. r \in Request /\ r.pc = "create"
    BY Constants DEF Request
  <2>3. sessions[s].user \in Ids /\ sessions[s].user <= lastUser
    BY <1>0, <2>1 DEF TypeOK
  <2>4. lastUser > 0
    BY <1>0, <2>3, AccountsAssumption DEF Ids, TypeOK
  <2> HIDE DEF r
  <2> QED BY <1>0, <1>a, <2>1, <2>2, <2>4, ContinueOnly DEF TypeOK
<1>4. ASSUME NEW s \in Tokens, NEW u \in Ids, NEW plan \in Plans, StartPatch(h, s, u, plan) PROVE AccountsInv'
  <2> DEFINE r == [Idle EXCEPT !.pc = Resume(plan), !.user = u, !.todo = plan]
  <2>1. Become(h, r) /\ UNCHANGED <<users, lastUser, sessions, attempts, fixed, raced>>
    BY <1>4 DEF StartPatch, tables
  <2>2. plan # <<>>
    <3>1. plan = <<"delete">> \/ Len(plan) \in 1..PlanLength
      BY DEF Plans
    <3>2. plan # <<>> \/ Len(plan) = 0
      BY EmptySeq
    <3> QED BY <3>1, <3>2, AccountsAssumption
  <2>3. Resume(plan) \in {"guard", "apply"} /\ (Resume(plan) = "apply" => Head(plan) \notin Guarded)
    BY <2>2 DEF Resume
  <2>4. u \in 0..MaxUsers
    BY AccountsAssumption DEF Ids
  <2>5. r \in Request /\ r.user = u /\ r.todo = plan /\ r.pc = Resume(plan)
    BY <2>3, <2>4, Constants DEF Request
  <2> HIDE DEF r
  <2> QED BY <1>0, <1>a, <2>1, <2>2, <2>3, <2>5, ContinueOnly DEF TypeOK
<1>5. CASE Guard(h)
  <2> DEFINE u == req[h].user
             r == [req[h] EXCEPT !.pc = "apply", !.stale = FALSE]
  <2>1. UNCHANGED <<users, lastUser, sessions, attempts, fixed, raced>> /\ u \in Ids /\ req[h].todo # <<>>
    BY <1>0, <1>5 DEF Guard, tables, At, Sound
  <2>2. CASE Exists(u) /\ ~LastAdmin(u)
    <3>1. Become(h, r)
      BY <1>5, <2>2 DEF Guard
    <3>2. r \in Request /\ r.pc = "apply" /\ r.user = u /\ r.todo = req[h].todo
      BY <1>0 DEF Request
    <3>3. lastUser > 0
      BY <1>0, <2>1, <2>2, AccountsAssumption DEF TypeOK, Ids
    <3>4. raced \/ \E a \in Ids \ {u} : Admin(a)
      BY <2>1, <2>2, <3>3 DEF LastAdmin, AccountsInv, AdminRemains
    <3> QED BY <1>0, <1>a, <2>1, <2>2, <3>1, <3>2, <3>4, ContinueOnly DEF TypeOK
  <2>3. CASE ~(Exists(u) /\ ~LastAdmin(u))
    <3>1. Become(h, Idle) /\ Idle.pc = "idle"
      BY <1>5, <2>3 DEF Guard, Finish, Idle
    <3> QED BY <1>0, <1>a, <2>1, <3>1, Constants, ContinueOnly DEF TypeOK
  <2> QED BY <2>2, <2>3
<1>6. CASE Revoke(h)
  <2>1. UNCHANGED <<users, lastUser, attempts, fixed, raced>> /\ req[h].user \in Ids
        /\ (\E gone \in SUBSET Tokens : sessions' = Without(gone))
    BY <1>0, <1>6 DEF Revoke, At, Sound, SessionsOf
  <2>2. SessionsOK'
    BY <1>0, <2>1, SessionsShrink
  <2>3. PICK r \in Request : /\ Become(h, r)
                             /\ r.pc \in {"idle", "guard", "apply"}
                             /\ r.pc # "idle" => r.user = req[h].user /\ r.todo # <<>>
                             /\ r.pc = "apply" => Head(r.todo) \notin Guarded
    BY <1>6, Proceeds DEF Revoke
  <2> QED BY <1>0, <2>1, <2>2, <2>3, ContinueOnly DEF TypeOK
<1> QED BY <1>1, <1>2, <1>3, <1>4, <1>5, <1>6

\* The write of a step.  It changes one account, and only a guarded one takes
\* an administrator away.
LEMMA StepWritten ==
  ASSUME TypeOK, NEW h \in Handlers, Apply(h),
         NEW u \in Ids, u = req[h].user, NEW step, step = Head(req[h].todo)
  PROVE  /\ users' \in [Ids -> User]
         /\ \A v \in Ids \ {u} : users'[v] = users[v]
         /\ step \notin Guarded => (Admin(u) => Admin(u)')
         /\ step # "delete" => (Exists(u)' <=> Exists(u))
         /\ Exists(u)' => Exists(u)
         /\ users'[u].role = "none" => users'[u] = NoUser
<1>0. users \in [Ids -> User] /\ u \in Ids /\ users[u] \in User /\ (~Exists(u) => users[u] = NoUser)
  BY DEF TypeOK
<1>1. CASE ~Exists(u)
  <2>1. users' = users
    BY <1>1 DEF Apply
  <2>2. (Exists(u)' <=> Exists(u)) /\ (Admin(u)' <=> Admin(u))
    BY <2>1 DEF Exists, Admin
  <2>3. users'[u] = NoUser
    BY <1>0, <1>1, <2>1
  <2> QED BY <1>0, <2>1, <2>2, <2>3
<1>2. CASE Exists(u)
  <2>0. \/ step = "demote" /\ users' = [users EXCEPT ![u].role = "editor"]
        \/ step = "promote" /\ users' = [users EXCEPT ![u].role = "admin"]
        \/ step = "disable" /\ users' = [users EXCEPT ![u].disabled = TRUE]
        \/ step = "enable" /\ users' = [users EXCEPT ![u].disabled = FALSE]
        \/ step = "password" /\ NewPassword(u)
        \/ step = "delete" /\ users' = [users EXCEPT ![u] = NoUser]
    BY <1>2 DEF Apply
  <2> DEFINE Goal == /\ users' \in [Ids -> User]
                     /\ \A v \in Ids \ {u} : users'[v] = users[v]
                     /\ step \notin Guarded => (Admin(u) => Admin(u)')
                     /\ step # "delete" => (Exists(u)' <=> Exists(u))
                     /\ Exists(u)' => Exists(u)
                     /\ users'[u].role = "none" => users'[u] = NoUser
  <2>1. ASSUME NEW row \in User, users' = [users EXCEPT ![u] = row],
               \/ row = NoUser /\ step = "delete"
               \/ /\ row.role # "none"
                  /\ step \notin Guarded /\ Admin(u) => row.role = "admin" /\ ~row.disabled
        PROVE  Goal
    <3>1. users' \in [Ids -> User] /\ users'[u] = row /\ \A v \in Ids \ {u} : users'[v] = users[v]
      BY <1>0, <2>1
    <3>2. CASE row = NoUser /\ step = "delete"
      BY <1>0, <1>2, <3>1, <3>2 DEF Guarded, NoUser
    <3>3. CASE /\ row.role # "none"
               /\ step \notin Guarded /\ Admin(u) => row.role = "admin" /\ ~row.disabled
      BY <1>0, <1>2, <3>1, <3>3 DEF Exists, Admin
    <3> QED BY <2>1, <3>2, <3>3
  <2>8. SUFFICES Goal
    OBVIOUS
  <2> HIDE DEF Goal
  <2>2. CASE step = "demote" /\ users' = [users EXCEPT ![u].role = "editor"]
    <3> DEFINE row == [users[u] EXCEPT !.role = "editor"]
    <3>1. row \in User /\ row.role # "none" /\ users' = [users EXCEPT ![u] = row]
      BY <1>0, <2>2 DEF User, Role
    <3> HIDE DEF row
    <3> QED BY <2>1, <2>2, <3>1 DEF Guarded
  <2>3. CASE step = "promote" /\ users' = [users EXCEPT ![u].role = "admin"]
    <3> DEFINE row == [users[u] EXCEPT !.role = "admin"]
    <3>1. row \in User /\ row.role = "admin" /\ row.disabled = users[u].disabled /\ users' = [users EXCEPT ![u] = row]
      BY <1>0, <2>3 DEF User, Role
    <3> HIDE DEF row
    <3> QED BY <2>1, <2>3, <3>1 DEF Guarded, Admin
  <2>4. CASE step = "disable" /\ users' = [users EXCEPT ![u].disabled = TRUE]
    <3> DEFINE row == [users[u] EXCEPT !.disabled = TRUE]
    <3>1. row \in User /\ row.role = users[u].role /\ users' = [users EXCEPT ![u] = row]
      BY <1>0, <2>4 DEF User
    <3> HIDE DEF row
    <3> QED BY <1>2, <2>1, <2>4, <3>1 DEF Guarded, Exists
  <2>5. CASE step = "enable" /\ users' = [users EXCEPT ![u].disabled = FALSE]
    <3> DEFINE row == [users[u] EXCEPT !.disabled = FALSE]
    <3>1. row \in User /\ row.role = users[u].role /\ ~row.disabled /\ users' = [users EXCEPT ![u] = row]
      BY <1>0, <2>5 DEF User
    <3> HIDE DEF row
    <3> QED BY <1>2, <2>1, <2>5, <3>1 DEF Guarded, Exists, Admin
  <2>6. CASE step = "password" /\ NewPassword(u)
    <3>1. /\ users' \in [Ids -> User]
          /\ \A v \in Ids : /\ users'[v].role = users[v].role /\ users'[v].disabled = users[v].disabled
                            /\ (users'[v] # users[v] => Exists(v))
      BY <1>0, <1>2, <2>6, PasswordSet
    <3>2. \A v \in Ids \ {u} : users'[v] = users[v]
      BY <1>0, <2>6 DEF NewPassword
    <3> QED BY <1>0, <1>2, <3>1, <3>2 DEF Goal, Exists, Admin
  <2>7. CASE step = "delete" /\ users' = [users EXCEPT ![u] = NoUser]
    BY <2>1, <2>7, Constants
  <2> QED BY <2>0, <2>2, <2>3, <2>4, <2>5, <2>6, <2>7
<1> QED BY <1>1, <1>2

LEMMA ApplyStep ==
  ASSUME AccountsInv, NEW h \in Handlers, Apply(h)
  PROVE  AccountsInv'
<1> SUFFICES ASSUME NEW u, u = req[h].user, NEW step, step = Head(req[h].todo) PROVE AccountsInv'
  OBVIOUS
<1> DEFINE removes == step \in Guarded /\ Admin(u)
<1>0. TypeOK /\ req[h] \in Request /\ Sound(req[h]) /\ At(h, "apply") /\ u \in Ids /\ req[h].todo # <<>>
      /\ req[h].todo \in Plans \cup Patches
  BY DEF AccountsInv, TypeOK, RequestsSound, Request, Apply, At, Sound
<1>1. /\ users' \in [Ids -> User]
      /\ \A v \in Ids \ {u} : users'[v] = users[v]
      /\ step \notin Guarded => (Admin(u) => Admin(u)')
      /\ step # "delete" => (Exists(u)' <=> Exists(u))
      /\ Exists(u)' => Exists(u)
      /\ users'[u].role = "none" => users'[u] = NoUser
  BY <1>0, StepWritten
<1>2. /\ UNCHANGED <<lastUser, attempts, fixed>>
      /\ sessions' = IF step = "delete" THEN Without(SessionsOf(u)) ELSE sessions
      /\ raced' = (raced \/ (removes /\ req[h].stale))
      /\ \A k \in Handlers \ {h} : req'[k] = IF removes /\ req[k].pc = "apply" THEN [req[k] EXCEPT !.stale = TRUE] ELSE req[k]
  BY DEF Apply
<1>3. \E r \in Request : /\ req'[h] = r
                         /\ r.pc \in {"idle", "revoke", "guard", "apply"}
                         /\ r.pc # "idle" => r.user = u /\ r.todo # <<>>
                         /\ r.pc = "apply" => Head(r.todo) \notin Guarded
  <2> DEFINE t == Tail(req[h].todo)
             n == [req[h] EXCEPT !.pc = Resume(t), !.todo = t, !.stale = FALSE]
             r == [req[h] EXCEPT !.pc = "revoke"]
  <2>1. t \in Plans \cup Patches
    BY <1>0, TailIsPatch
  <2>2. req'[h] = Idle \/ req'[h] = r \/ (t # <<>> /\ req'[h] = [req[h] EXCEPT !.pc = Resume(t), !.todo = Tail(@), !.stale = FALSE])
    BY DEF Apply
  <2>3. [req[h] EXCEPT !.pc = Resume(t), !.todo = Tail(@), !.stale = FALSE] = n
    BY <1>0 DEF Request
  <2>4. t # <<>> => /\ n \in Request /\ n.user = u /\ n.todo = t
                    /\ n.pc \in {"guard", "apply"} /\ (n.pc = "apply" => Head(n.todo) \notin Guarded)
    <3> HIDE DEF t
    <3>1. SUFFICES ASSUME t # <<>>
                   PROVE  /\ n \in Request /\ n.user = u /\ n.todo = t
                          /\ n.pc \in {"guard", "apply"} /\ (n.pc = "apply" => Head(n.todo) \notin Guarded)
      OBVIOUS
    <3>2. req[h].user \in Ids
      BY <1>0
    <3>3. req[h] \in Request /\ t \in Plans \cup Patches
      BY <1>0, <2>1
    <3>4. /\ n \in Request /\ n.user = req[h].user /\ n.todo = t
          /\ n.pc \in {"guard", "apply"} /\ (n.pc = "apply" => Head(n.todo) \notin Guarded)
      BY <3>1, <3>2, <3>3, Resumed
    <3> QED BY <3>4
  <2>5. r \in Request /\ r.pc = "revoke" /\ r.user = u /\ r.todo = req[h].todo
    BY <1>0 DEF Request
  <2>6. Idle \in Request /\ Idle.pc = "idle"
    BY Constants DEF Idle
  <2> HIDE DEF n, r, t
  <2> QED BY <1>0, <2>2, <2>3, <2>4, <2>5, <2>6
<1>4. ASSUME NEW k \in Handlers \ {h}
      PROVE  /\ req'[k] \in Request /\ req'[k].pc = req[k].pc /\ req'[k].user = req[k].user
             /\ req'[k].todo = req[k].todo
             /\ req'[k].stale = (req[k].stale \/ (removes /\ req[k].pc = "apply"))
  <2>1. req[k] \in Request
    BY <1>0 DEF TypeOK
  <2>2. CASE removes /\ req[k].pc = "apply"
    BY <1>2, <2>1, <2>2 DEF Request
  <2>3. CASE ~(removes /\ req[k].pc = "apply")
    BY <1>2, <2>1, <2>3 DEF Request
  <2> QED BY <2>2, <2>3
<1>5. req' \in [Handlers -> Request]
  <2>1. \A k \in Handlers : req'[k] \in Request
    BY <1>3, <1>4
  <2>2. req' = [k \in Handlers |-> req'[k]]
    BY DEF Apply
  <2> QED BY <2>1, <2>2
<1>6. UsersOK'
  <2>1. \A v \in Ids : Exists(v)' => Exists(v)
    BY <1>1 DEF Exists
  <2>2. \A v \in Ids : Exists(v)' <=> users'[v] # NoUser
    BY <1>0, <1>1 DEF TypeOK, Exists, NoUser
  <2> QED BY <1>0, <1>1, <1>2, <2>1, <2>2 DEF TypeOK, UsersOK
<1>7. SessionsOK'
  <2>1. \A v \in Ids \ {u} : Exists(v) => Exists(v)'
    BY <1>1 DEF Exists
  <2>2. CASE step = "delete"
    BY <1>0, <1>2, <2>1, <2>2, Constants DEF TypeOK, SessionsOK, Live, Without, SessionsOf
  <2>3. CASE step # "delete"
    <3>1. \A v \in Ids : Exists(v) => Exists(v)'
      BY <1>1, <2>1, <2>3
    <3>2. sessions' = sessions
      BY <1>2, <2>3
    <3> QED BY <1>0, <3>1, <3>2 DEF TypeOK, SessionsOK, Live
  <2> QED BY <2>2, <2>3
<1>8. raced' \in BOOLEAN
  <2>1. raced \in BOOLEAN /\ req[h].stale \in BOOLEAN
    BY <1>0 DEF TypeOK, Request
  <2> HIDE DEF removes
  <2> QED BY <1>2, <2>1
<1>9. TypeOK'
  BY <1>0, <1>2, <1>5, <1>6, <1>7, <1>8 DEF TypeOK, UsersOK, SessionsOK, fixed
<1>10. \A a \in Ids : Admin(a) /\ ~(removes /\ a = u) => Admin(a)'
  <2>1. \A a \in Ids \ {u} : Admin(a) => Admin(a)'
    BY <1>1 DEF Admin
  <2> QED BY <1>1, <2>1
<1>11. RequestsSound'
  <2>1. ASSUME NEW k \in Handlers, k # h PROVE Sound(req[k])'
    <3>1. Sound(req[k])
      BY DEF AccountsInv, RequestsSound
    <3>2. lastUser' = lastUser
      BY <1>2
    <3>3. ~raced' => ~raced
      BY <1>2
    <3> HIDE DEF removes
    <3>4. CASE removes
      BY <1>4, <2>1, <3>1, <3>2, <3>3, <3>4 DEF Sound
    <3>5. CASE ~removes
      <4>1. \A a \in Ids : Admin(a) => Admin(a)'
        BY <1>10, <3>5
      <4> QED BY <1>4, <2>1, <3>1, <3>2, <3>3, <3>5, <4>1 DEF Sound
    <3> QED BY <3>4, <3>5
  <2>2. Sound(req[h])'
    BY <1>0, <1>3 DEF Sound
  <2> QED BY <2>1, <2>2 DEF RequestsSound
<1>12. AdminRemains'
  <2>1. SUFFICES ASSUME lastUser > 0, ~raced' PROVE \E a \in Ids : Admin(a)'
    BY <1>2 DEF AdminRemains
  <2>2. ~raced /\ ~(removes /\ req[h].stale)
    BY <1>2, <2>1
  <2>3. \E a \in Ids : Admin(a) /\ ~(removes /\ a = u)
    <3>1. CASE removes
      BY <1>0, <2>2, <3>1 DEF Sound, At
    <3>2. CASE ~removes
      BY <2>1, <2>2, <3>2 DEF AccountsInv, AdminRemains
    <3> QED BY <3>1, <3>2
  <2> QED BY <1>10, <2>3
<1> QED BY <1>9, <1>11, <1>12 DEF AccountsInv

\* What happens without a request, or ends one.
LEMMA OtherStep ==
  ASSUME AccountsInv,
         \/ \E h \in Handlers : GiveUp(h)
         \/ \E s \in Tokens : Logout(s) \/ Expire(s)
         \/ \E x \in Subjects : CleanAttempts(x)
         \/ Elapse
         \/ Upgrade
  PROVE  AccountsInv'
<1>0. TypeOK /\ \A x \in Subjects : attempts[x] \in Attempts
  BY DEF AccountsInv, TypeOK
<1>1. ASSUME NEW h \in Handlers, GiveUp(h) PROVE AccountsInv'
  <2>1. UNCHANGED <<users, lastUser, attempts, fixed, raced>> /\ Become(h, Idle) /\ Idle.pc = "idle"
    BY <1>1 DEF GiveUp, Finish, Idle
  <2>2. \/ UNCHANGED sessions
        \/ \E u \in Ids : sessions' = Excused(u)
    <3>1. CASE req[h].pc \in {"keep", "revoke"}
      <4>1. req[h].user \in Ids
        BY <3>1 DEF AccountsInv, RequestsSound, Sound
      <4> QED BY <1>1, <3>1, <4>1 DEF GiveUp
    <3>2. CASE req[h].pc \notin {"keep", "revoke"}
      BY <1>1, <3>2 DEF GiveUp
    <3> QED BY <3>1, <3>2
  <2>3. SessionsOK'
    BY <1>0, <2>1, <2>2, SessionsShrink
  <2> QED BY <1>0, <2>1, <2>3, Constants, ContinueOnly DEF TypeOK
<1>2. ASSUME NEW s \in Tokens, Logout(s) \/ Expire(s) PROVE AccountsInv'
  <2>1. UNCHANGED <<users, lastUser, attempts, req, fixed, raced>> /\ \E gone \in SUBSET Tokens : sessions' = Without(gone)
    BY <1>2 DEF Logout, Expire
  <2>2. SessionsOK'
    BY <1>0, <2>1, SessionsShrink
  <2> QED BY <1>0, <2>1, <2>2, Meanwhile DEF TypeOK, fixed
<1>3. CASE Elapse \/ \E x \in Subjects : CleanAttempts(x)
  <2>1. UNCHANGED <<users, lastUser, sessions, req, fixed, raced>>
    BY <1>3 DEF Elapse, CleanAttempts, tables
  <2>2. attempts' \in [Subjects -> Attempts]
    BY <1>0, <1>3, AttemptsClosed, Constants DEF Elapse, CleanAttempts, TypeOK
  <2>3. SessionsOK'
    BY <1>0, <2>1, SessionsShrink
  <2> QED BY <2>1, <2>2, <2>3, Meanwhile DEF fixed
<1>4. CASE Upgrade
  <2>1. UNCHANGED <<lastUser, sessions, attempts, req, kinds, raced>> /\ upgrades' \in 0..MaxUpgrades
    BY <1>0, <1>4, AccountsAssumption DEF Upgrade, TypeOK
  <2>2. /\ users' \in [Ids -> User]
        /\ \A v \in Ids : /\ users'[v].role = users[v].role /\ users'[v].disabled = users[v].disabled
                          /\ (users'[v] # users[v] => Exists(v))
    <3>1. \A v \in Ids : /\ users[v] \in User /\ (~Exists(v) => users[v] = NoUser)
                         /\ [users[v] EXCEPT !.weak = TRUE] \in User
                         /\ [users[v] EXCEPT !.weak = TRUE].role = users[v].role
                         /\ [users[v] EXCEPT !.weak = TRUE].disabled = users[v].disabled
      BY <1>0 DEF TypeOK, User
    <3> QED BY <1>4, <3>1, Constants DEF Upgrade
  <2>3. UsersOK' /\ (\A v \in Ids : (Exists(v)' <=> Exists(v)) /\ (Admin(v)' <=> Admin(v))) /\ lastUser <= lastUser'
    BY <1>0, <2>1, <2>2, RolesKept
  <2>4. SessionsOK'
    BY <1>0, <2>1, <2>3 DEF TypeOK, SessionsOK, Live
  <2>5. TypeOK'
    BY <1>0, <2>1, <2>3, <2>4 DEF TypeOK, UsersOK, SessionsOK
  <2>6. RequestsSound'
    BY <2>1, <2>3 DEF AccountsInv, RequestsSound, Sound
  <2>7. AdminRemains'
    BY <2>1, <2>3 DEF AccountsInv, AdminRemains
  <2> QED BY <2>5, <2>6, <2>7 DEF AccountsInv
<1> QED BY <1>1, <1>2, <1>3, <1>4

LEMMA InitAccounts == Init => AccountsInv
<1> SUFFICES ASSUME Init PROVE AccountsInv
  OBVIOUS
<1>1. TypeOK
  <2>1. UsersOK
    BY Constants, AccountsAssumption DEF Init, UsersOK, Exists, NoUser
  <2>2. SessionsOK
    BY Constants DEF Init, SessionsOK, Live
  <2>3. attempts \in [Subjects -> Attempts] /\ req \in [Handlers -> Request]
    BY Constants DEF Init
  <2>4. upgrades \in 0..MaxUpgrades /\ kinds \in Workloads
    BY AccountsAssumption DEF Init
  <2>5. raced \in BOOLEAN
    BY DEF Init
  <2> QED BY <2>1, <2>2, <2>3, <2>4, <2>5 DEF TypeOK, UsersOK, SessionsOK
<1>2. RequestsSound
  BY DEF Init, RequestsSound, Sound, Idle
<1>3. AdminRemains
  BY DEF Init, AdminRemains
<1> QED BY <1>1, <1>2, <1>3 DEF AccountsInv

\* The inductive invariant of accounts: types, what a request's place says of it, and
\* the administrator who remains.
THEOREM AccountsAreSound == Spec => []AccountsInv
<1>1. Init => AccountsInv
  BY InitAccounts
<1>2. AccountsInv /\ [Next]_vars => AccountsInv'
  <2> SUFFICES ASSUME AccountsInv, [Next]_vars PROVE AccountsInv'
    OBVIOUS
  <2>1. ASSUME NEW h \in Handlers, SignIn(h) \/ Administer(h) \/ Own(h) \/ GiveUp(h) PROVE AccountsInv'
    BY <2>1, SignInStep, OwnStep, AdministerStep, ApplyStep, OtherStep DEF Administer
  <2>2. CASE UNCHANGED vars
    <3>1. UNCHANGED <<users, lastUser, sessions, attempts, req, fixed, raced>>
      BY <2>2 DEF vars, tables
    <3>2. SessionsOK' /\ attempts' \in [Subjects -> Attempts]
      BY <3>1, SessionsShrink DEF AccountsInv, TypeOK
    <3> QED BY <3>1, <3>2, Meanwhile DEF fixed
  <2>3. CASE \/ \E s \in Tokens : Logout(s) \/ Expire(s)
             \/ \E x \in Subjects : CleanAttempts(x)
             \/ Elapse
             \/ Upgrade
    BY <2>3, OtherStep
  <2> QED BY <2>1, <2>2, <2>3 DEF Next
<1> QED BY <1>1, <1>2, PTL DEF Spec

\* Type correctness of accounts, sessions, counters and requests; a session is always
\* of an account that exists.
THEOREM AccountTypes == Spec => []TypeOK
<1>1. AccountsInv => TypeOK
  BY DEF AccountsInv
<1> QED BY <1>1, AccountsAreSound, PTL

\* Once the system is set up it has an administrator who can sign in, unless a removal
\* went ahead on a guard that an earlier removal had overtaken (users.go:321-366).
THEOREM AdministratorRemains == Spec => []AdminRemains
<1>1. AccountsInv => AdminRemains
  BY DEF AccountsInv
<1> QED BY <1>1, AccountsAreSound, PTL

-----------------------------------------------------------------------------
(* Sessions and credentials                                                *)

\* A revocation is underway that this session does not survive.
ToBeRevoked(s) ==
  \E h \in Handlers :
    /\ req[h].user = sessions[s].user
    /\ At(h, "revoke") \/ (At(h, "keep") /\ s \notin req[h].token)

\* What SessionsFollowCredential needs to be kept by the revocation that spares a session:
\* the spared one does not count on it.
Follows(s) ==
  \/ sessions[s].cred = users[sessions[s].user].pw /\ ~users[sessions[s].user].disabled
  \/ sessions[s].excused
  \/ ToBeRevoked(s)

CredentialInv == \A s \in Tokens : Live(s) => Follows(s)

\* A request that is going to revoke session s, if it is, still is.
Revoking(g, s) ==
  \/ req[g].pc \notin {"keep", "revoke"}
  \/ req'[g].pc = req[g].pc /\ req'[g].user = req[g].user /\ req'[g].token = req[g].token
  \/ sessions[s].user # req[g].user
  \/ At(g, "keep") /\ s \in req[g].token

\* A session that a step does not concern.
LEMMA SessionStays ==
  ASSUME CredentialInv, NEW s \in Tokens, Live(s)', sessions'[s] = sessions[s],
         users'[sessions[s].user].pw = users[sessions[s].user].pw,
         users'[sessions[s].user].disabled => users[sessions[s].user].disabled,
         \A g \in Handlers : Revoking(g, s)
  PROVE  Follows(s)'
<1>1. Live(s)
  BY DEF Live
<1>2. ToBeRevoked(s) => ToBeRevoked(s)'
  <2> SUFFICES ASSUME NEW h \in Handlers, req[h].user = sessions[s].user,
                      At(h, "revoke") \/ (At(h, "keep") /\ s \notin req[h].token)
               PROVE  ToBeRevoked(s)'
    BY DEF ToBeRevoked
  <2>1. req'[h].pc = req[h].pc /\ req'[h].user = req[h].user /\ req'[h].token = req[h].token
    BY DEF At, Revoking
  <2> QED BY <2>1 DEF ToBeRevoked, At
<1> QED BY <1>1, <1>2 DEF CredentialInv, Follows

\* Steps that change no session, password or revocation.
LEMMA CredentialsStand ==
  ASSUME CredentialInv,
         \A s \in Tokens : Live(s)' => sessions'[s] = sessions[s],
         \A s \in Tokens : Live(s) => /\ users'[sessions[s].user].pw = users[sessions[s].user].pw
                                      /\ users'[sessions[s].user].disabled => users[sessions[s].user].disabled,
         \A g \in Handlers, s \in Tokens : Live(s)' => Revoking(g, s)
  PROVE  CredentialInv'
<1> SUFFICES ASSUME NEW s \in Tokens, Live(s)' PROVE Follows(s)'
  BY DEF CredentialInv
<1>1. sessions'[s] = sessions[s] /\ Live(s)
  BY DEF Live
<1> QED BY <1>1, SessionStays

\* Steps that concern one account: its sessions follow for a reason of their own.
LEMMA OneAccount ==
  ASSUME CredentialInv, TypeOK, NEW u \in Ids,
         \A s \in SessionsOf(u) : Live(s)' => Follows(s)',
         \A s \in Tokens \ SessionsOf(u) : Live(s)' => sessions'[s] = sessions[s],
         \A v \in Ids \ {u} : users'[v] = users[v],
         \A g \in Handlers, s \in Tokens \ SessionsOf(u) : Revoking(g, s)
  PROVE  CredentialInv'
<1> SUFFICES ASSUME NEW s \in Tokens, Live(s)' PROVE Follows(s)'
  BY DEF CredentialInv
<1>1. CASE s \in SessionsOf(u)
  BY <1>1
<1>2. CASE s \notin SessionsOf(u)
  <2>1. sessions'[s] = sessions[s] /\ Live(s)
    BY <1>2 DEF Live
  <2>2. sessions[s].user \in Ids \ {u}
    BY <1>2, <2>1 DEF TypeOK, SessionsOf
  <2> QED BY <1>2, <2>1, <2>2, SessionStays
<1> QED BY <1>1, <1>2

\* Where a step leaves the other requests.
LEMMA OthersStay ==
  ASSUME TypeOK, NEW h \in Handlers, NEW r, Become(h, r)
  PROVE  /\ req'[h] = r
         /\ \A g \in Handlers \ {h} : req'[g] = req[g]
BY DEF TypeOK, Become

LEMMA OneStep ==
  ASSUME AccountsInv, CredentialInv, NEW h \in Handlers, NEW r, Become(h, r),
         req[h].pc \notin {"keep", "revoke"}, UNCHANGED <<users, sessions>>
  PROVE  CredentialInv'
<1>1. \A g \in Handlers, s \in Tokens : Revoking(g, s)
  BY OthersStay DEF AccountsInv, Revoking
<1> QED BY <1>1, CredentialsStand

LEMMA SignInFollows ==
  ASSUME AccountsInv, CredentialInv, NEW h \in Handlers, SignIn(h)
  PROVE  CredentialInv'
<1>1. ASSUME NEW u \in Ids, NEW cred \in 1..MaxPasswords, StartLogin(h, u, cred) PROVE CredentialInv'
  BY <1>1, OneStep DEF StartLogin, At, tables
<1>2. CASE Verify(h)
  BY <1>2, OneStep DEF Verify, At, tables, Goto, Finish
<1>3. CASE Reset(h) \/ ReadAttempts(h) \/ WriteAttempts(h)
  BY <1>3, OneStep DEF Reset, ReadAttempts, WriteAttempts, At, tables, Goto
<1>4. CASE Rehash(h)
  <2> DEFINE u == req[h].user
  <2>1. /\ TypeOK /\ At(h, "rehash") /\ Goto(h, "reset") /\ u \in Ids /\ users[u] \in User
        /\ users' = IF Exists(u) THEN [users EXCEPT ![u].pw = req[h].cred, ![u].weak = FALSE] ELSE users
        /\ sessions' = IF Exists(u) /\ users[u].pw # req[h].cred THEN Excused(u) ELSE sessions
    BY <1>4 DEF Rehash, AccountsInv, RequestsSound, Sound, At, TypeOK
  <2>2. \A g \in Handlers, s \in Tokens : Revoking(g, s)
    BY <2>1, OthersStay DEF Goto, At, Revoking
  <2>3. CASE ~Exists(u)
    BY <2>1, <2>2, <2>3, CredentialsStand
  <2>4. CASE Exists(u) /\ users[u].pw = req[h].cred
    <3>1. \A v \in Ids : users'[v].pw = users[v].pw /\ users'[v].disabled = users[v].disabled
      BY <2>1, <2>4 DEF TypeOK, User
    <3>2. \A s \in Tokens : Live(s) => sessions[s].user \in Ids
      BY <2>1 DEF TypeOK
    <3>3. sessions' = sessions
      BY <2>1, <2>4
    <3> QED BY <2>2, <3>1, <3>2, <3>3, CredentialsStand
  <2>5. CASE Exists(u) /\ users[u].pw # req[h].cred
    <3>1. \A v \in Ids \ {u} : users'[v] = users[v]
      BY <2>1, <2>5 DEF TypeOK
    <3>2. \A s \in Tokens : sessions[s] \in Session
      BY <2>1 DEF TypeOK
    <3>3. \A s \in Tokens : sessions'[s] = IF s \in SessionsOf(u) /\ Live(s)
                                           THEN [sessions[s] EXCEPT !.excused = TRUE] ELSE sessions[s]
      BY <2>1, <2>5 DEF Excused
    <3>4. \A s \in SessionsOf(u) : Live(s)' => Follows(s)'
      BY <3>2, <3>3 DEF SessionsOf, Session, Live, Follows
    <3>5. \A s \in Tokens \ SessionsOf(u) : sessions'[s] = sessions[s]
      BY <3>3
    <3> QED BY <2>1, <2>2, <3>1, <3>4, <3>5, OneAccount
  <2> QED BY <2>3, <2>4, <2>5
<1>5. ASSUME NEW s \in Tokens, Issue(h, s) PROVE CredentialInv'
  <2> DEFINE u == req[h].user
             new == [user |-> u, cred |-> req[h].cred,
                     excused |-> users[u].pw # req[h].cred \/ users[u].disabled]
  <2>1. /\ TypeOK /\ At(h, "issue") /\ Finish(h) /\ users' = users
        /\ sessions' = IF Exists(u) THEN [sessions EXCEPT ![s] = new] ELSE sessions
    BY <1>5 DEF Issue, AccountsInv
  <2>2. \A g \in Handlers, k \in Tokens : Revoking(g, k)
    BY <2>1, OthersStay DEF Finish, At, Revoking
  <2>3. CASE ~Exists(u)
    BY <2>1, <2>2, <2>3, CredentialsStand
  <2>4. CASE Exists(u)
    <3>1. sessions'[s] = new /\ \A k \in Tokens \ {s} : sessions'[k] = sessions[k]
      BY <2>1, <2>4 DEF TypeOK
    <3>2. new.user = u /\ new.cred = req[h].cred /\ new.excused = (users[u].pw # req[h].cred \/ users[u].disabled)
      OBVIOUS
    <3> HIDE DEF new
    <3>3. Follows(s)'
      BY <2>1, <3>1, <3>2 DEF Follows
    <3>4. ASSUME NEW k \in Tokens \ {s}, Live(k)' PROVE Follows(k)'
      BY <2>1, <2>2, <3>1, <3>4, SessionStays
    <3> QED BY <3>3, <3>4 DEF CredentialInv
  <2> QED BY <2>3, <2>4
<1> QED BY <1>1, <1>2, <1>3, <1>4, <1>5 DEF SignIn

LEMMA OwnFollows ==
  ASSUME AccountsInv, CredentialInv, NEW h \in Handlers, Own(h)
  PROVE  CredentialInv'
<1>1. ASSUME NEW s \in Tokens, NEW pc \in {"change", "keep"}, StartOwn(h, s, pc) PROVE CredentialInv'
  BY <1>1, OneStep DEF StartOwn, At, tables
<1>2. CASE ChangePassword(h)
  BY <1>2, OneStep DEF ChangePassword, At, tables, Goto, Finish
<1>3. CASE SetOwnPassword(h)
  <2> DEFINE u == req[h].user
  <2>1. TypeOK /\ At(h, "set") /\ u \in Ids
    BY <1>3 DEF SetOwnPassword, AccountsInv, RequestsSound, Sound, At
  <2>2. CASE ~Exists(u)
    <3>1. Finish(h) /\ UNCHANGED <<users, sessions>>
      BY <1>3, <2>2 DEF SetOwnPassword
    <3> QED BY <2>1, <3>1, OneStep DEF Finish, At
  <2>3. CASE Exists(u)
    <3>1. /\ NewPassword(u) /\ Goto(h, "keep")
          /\ sessions' = [s \in Tokens |-> IF s \in req[h].token /\ sessions[s].user = u
                                          THEN [sessions[s] EXCEPT !.cred = users'[u].pw]
                                          ELSE sessions[s]]
      BY <1>3, <2>3 DEF SetOwnPassword
    <3>2. users'[u].disabled = users[u].disabled /\ \A v \in Ids \ {u} : users'[v] = users[v]
      <4>1. users'[u].disabled = users[u].disabled
        BY <2>1, <2>3, <3>1, PasswordSet
      <4>2. \A v \in Ids \ {u} : users'[v] = users[v]
        BY <2>1, <3>1 DEF NewPassword, TypeOK
      <4> QED BY <4>1, <4>2
    <3>3. /\ req'[h].pc = "keep" /\ req'[h].user = u /\ req'[h].token = req[h].token
          /\ \A g \in Handlers \ {h} : req'[g] = req[g]
      <4>1. req[h] \in Request
        BY <2>1 DEF TypeOK
      <4> QED BY <2>1, <3>1, <4>1, OthersStay DEF Goto, Request
    <3>4. \A s \in SessionsOf(u) : sessions'[s].user = u
      BY <2>1, <3>1 DEF SessionsOf, TypeOK, Session
    <3>5. ASSUME NEW s \in SessionsOf(u), Live(s)' PROVE Follows(s)'
      <4>1. s \in Tokens /\ sessions[s].user = u /\ sessions[s] \in Session
        BY <2>1 DEF SessionsOf, TypeOK
      <4>2. CASE s \notin req[h].token
        BY <3>3, <3>4, <4>1, <4>2 DEF ToBeRevoked, At, Follows
      <4>3. CASE s \in req[h].token
        <5>1. sessions'[s] = [sessions[s] EXCEPT !.cred = users'[u].pw]
          BY <3>1, <4>1, <4>3
        <5>2. sessions'[s].cred = users'[u].pw /\ sessions'[s].excused = sessions[s].excused
          BY <4>1, <5>1 DEF Session
        <5>3. Live(s)
          BY <2>1, <4>1 DEF Live, NoSession, Ids
        <5>4. ToBeRevoked(s) => ToBeRevoked(s)'
          BY <2>1, <3>3, <3>4, <4>1 DEF ToBeRevoked, At
        <5>5. Follows(s)
          BY <4>1, <5>3 DEF CredentialInv
        <5> QED BY <3>2, <3>4, <4>1, <5>2, <5>4, <5>5 DEF Follows
      <4> QED BY <4>2, <4>3
    <3>6. \A s \in Tokens \ SessionsOf(u) : sessions'[s] = sessions[s]
      BY <3>1 DEF SessionsOf
    <3>7. \A g \in Handlers, s \in Tokens : Revoking(g, s)
      BY <2>1, <3>3 DEF At, Revoking
    <3> QED BY <2>1, <3>2, <3>5, <3>6, <3>7, OneAccount
  <2> QED BY <2>2, <2>3
<1>4. CASE KeepOne(h)
  <2> DEFINE gone == SessionsOf(req[h].user) \ req[h].token
  <2>1. TypeOK /\ At(h, "keep") /\ sessions' = Without(gone) /\ Finish(h) /\ users' = users
    BY <1>4 DEF KeepOne, AccountsInv
  <2>2. \A s \in Tokens : sessions'[s] = IF s \in gone THEN NoSession ELSE sessions[s]
    BY <2>1 DEF Without
  <2>3. \A s \in Tokens : Live(s)' => sessions'[s] = sessions[s] /\ s \notin gone
    BY <2>2 DEF Live
  <2>4. \A g \in Handlers \ {h} : req'[g] = req[g]
    BY <2>1, OthersStay DEF Finish
  <2>5. \A g \in Handlers, s \in Tokens : Live(s)' => Revoking(g, s)
    BY <2>1, <2>3, <2>4 DEF SessionsOf, Revoking
  <2> QED BY <2>1, <2>3, <2>5, CredentialsStand
<1> QED BY <1>1, <1>2, <1>3, <1>4 DEF Own

\* Nobody has a session of an account that is only now created.
LEMMA NewAccount ==
  ASSUME AccountsInv, CredentialInv, NEW h \in Handlers, NEW r, Become(h, r), NEW role \in Role, Added(role),
         req[h].pc \notin {"keep", "revoke"}, UNCHANGED sessions
  PROVE  CredentialInv'
<1>1. TypeOK /\ \A g \in Handlers, s \in Tokens : Revoking(g, s)
  BY OthersStay DEF AccountsInv, Revoking
<1>2. lastUser \in Nat /\ lastUser' = lastUser + 1
  BY <1>1, AccountsAssumption DEF TypeOK, Added
<1>3. \A v \in Ids \ {lastUser'} : users'[v] = users[v]
  BY <1>1, <1>2 DEF Added, TypeOK
<1>4. \A s \in Tokens : Live(s) => sessions[s].user \in Ids \ {lastUser'}
  BY <1>1, <1>2 DEF TypeOK, Ids
<1>5. \A s \in Tokens : Live(s) => users'[sessions[s].user] = users[sessions[s].user]
  BY <1>3, <1>4
<1> QED BY <1>1, <1>5, CredentialsStand

\* A revocation of all sessions of an account.
LEMMA AllGone ==
  ASSUME AccountsInv, CredentialInv, NEW h \in Handlers, NEW r, Become(h, r), UNCHANGED users,
         sessions' = Without(SessionsOf(req[h].user))
  PROVE  CredentialInv'
<1>1. \A s \in Tokens : Live(s)' => sessions'[s] = sessions[s] /\ sessions[s].user # req[h].user
  BY DEF Live, Without, SessionsOf
<1>2. \A g \in Handlers \ {h} : req'[g] = req[g]
  BY OthersStay DEF AccountsInv
<1>3. \A g \in Handlers, s \in Tokens : Live(s)' => Revoking(g, s)
  BY <1>1, <1>2 DEF Revoking
<1> QED BY <1>1, <1>3, CredentialsStand

LEMMA ApplyFollows ==
  ASSUME AccountsInv, CredentialInv, NEW h \in Handlers, Apply(h)
  PROVE  CredentialInv'
<1> SUFFICES ASSUME NEW u, u = req[h].user, NEW step, step = Head(req[h].todo) PROVE CredentialInv'
  OBVIOUS
<1>1. TypeOK /\ At(h, "apply") /\ u \in Ids /\ req[h] \in Request
  BY DEF AccountsInv, TypeOK, RequestsSound, Sound, Apply, At
<1>2. ASSUME NEW g \in Handlers, NEW s \in Tokens PROVE Revoking(g, s)
  <2> SUFFICES ASSUME req[g].pc \in {"keep", "revoke"} PROVE req'[g] = req[g]
    BY DEF Revoking
  <2>1. g # h
    BY <1>1 DEF At
  <2> QED BY <1>1, <2>1 DEF Apply
<1>3. \A v \in Ids \ {u} : users'[v] = users[v]
  BY <1>1, StepWritten
<1>4. CASE step \in {"disable", "password"} /\ Exists(u)
  <2>1. req'[h].pc = "revoke" /\ req'[h].user = u
    <3>1. req'[h] = [req[h] EXCEPT !.pc = "revoke"]
      BY <1>1, <1>4 DEF Apply
    <3> QED BY <1>1, <3>1 DEF Request
  <2>2. sessions' = sessions
    BY <1>4 DEF Apply
  <2>3. \A s \in SessionsOf(u) : Follows(s)'
    BY <2>1, <2>2 DEF SessionsOf, ToBeRevoked, At, Follows
  <2> QED BY <1>1, <1>2, <1>3, <2>2, <2>3, OneAccount
<1>5. CASE step = "delete"
  <2>1. sessions' = Without(SessionsOf(u))
    BY <1>5 DEF Apply
  <2>2. \A s \in Tokens \ SessionsOf(u) : sessions'[s] = sessions[s]
    BY <2>1 DEF Without
  <2>3. \A s \in SessionsOf(u) : ~Live(s)'
    BY <2>1 DEF Live, Without, SessionsOf
  <2> QED BY <1>1, <1>2, <1>3, <2>2, <2>3, OneAccount
<1>6. CASE step # "delete" /\ ~(step \in {"disable", "password"} /\ Exists(u))
  <2>1. sessions' = sessions
    BY <1>6 DEF Apply
  <2>2. users'[u].pw = users[u].pw /\ (users'[u].disabled => users[u].disabled)
    <3>1. CASE ~Exists(u)
      BY <3>1 DEF Apply
    <3>2. CASE Exists(u)
      <4>1. \/ users' = [users EXCEPT ![u].role = "editor"]
            \/ users' = [users EXCEPT ![u].role = "admin"]
            \/ users' = [users EXCEPT ![u].disabled = FALSE]
        BY <1>6, <3>2 DEF Apply
      <4>2. users \in [Ids -> User] /\ users[u] \in User
        BY <1>1 DEF TypeOK
      <4> QED BY <1>1, <4>1, <4>2 DEF User
    <3> QED BY <3>1, <3>2
  <2>3. \A s \in Tokens : Live(s) => sessions[s].user \in Ids
    BY <1>1 DEF TypeOK
  <2>4. \A s \in Tokens : Live(s) => /\ users'[sessions[s].user].pw = users[sessions[s].user].pw
                                     /\ users'[sessions[s].user].disabled => users[sessions[s].user].disabled
    BY <1>3, <2>2, <2>3
  <2> QED BY <1>2, <2>1, <2>4, CredentialsStand
<1> QED BY <1>4, <1>5, <1>6

LEMMA AdministerFollows ==
  ASSUME AccountsInv, CredentialInv, NEW h \in Handlers, Administer(h)
  PROVE  CredentialInv'
<1>1. CASE Bootstrap(h)
  BY <1>1, NewAccount DEF Bootstrap, At, Role
<1>2. ASSUME NEW s \in Tokens, StartCreate(h, s) PROVE CredentialInv'
  BY <1>2, OneStep DEF StartCreate, At, tables
<1>3. ASSUME NEW role \in Role, Create(h, role) PROVE CredentialInv'
  BY <1>3, NewAccount DEF Create, At, Finish
<1>4. ASSUME NEW s \in Tokens, NEW u \in Ids, NEW plan \in Plans, StartPatch(h, s, u, plan) PROVE CredentialInv'
  BY <1>4, OneStep DEF StartPatch, At, tables
<1>5. CASE Guard(h)
  BY <1>5, OneStep DEF Guard, At, tables, Finish
<1>6. CASE Revoke(h)
  BY <1>6, AllGone DEF Revoke, Advance, Proceed
<1> QED BY <1>1, <1>2, <1>3, <1>4, <1>5, <1>6, ApplyFollows DEF Administer

LEMMA OtherFollows ==
  ASSUME AccountsInv, CredentialInv,
         \/ \E h \in Handlers : GiveUp(h)
         \/ \E s \in Tokens : Logout(s) \/ Expire(s)
         \/ \E x \in Subjects : CleanAttempts(x)
         \/ Elapse
         \/ Upgrade
         \/ UNCHANGED vars
  PROVE  CredentialInv'
<1>0. TypeOK
  BY DEF AccountsInv
<1>a. req' = req => \A g \in Handlers, s \in Tokens : Revoking(g, s)
  BY DEF Revoking
<1>1. ASSUME NEW h \in Handlers, GiveUp(h) PROVE CredentialInv'
  <2> DEFINE u == req[h].user
  <2>1. \A g \in Handlers \ {h} : req'[g] = req[g]
    BY <1>0, <1>1, OthersStay DEF GiveUp, Finish
  <2>2. CASE req[h].pc \notin {"keep", "revoke"}
    BY <1>1, <2>2, OneStep DEF GiveUp, Finish
  <2>3. CASE req[h].pc \in {"keep", "revoke"}
    <3>1. sessions' = Excused(u) /\ users' = users
      BY <1>1, <2>3 DEF GiveUp
    <3>2. \A s \in Tokens : sessions[s] \in Session
      BY <1>0 DEF TypeOK
    <3>3. \A s \in Tokens : sessions'[s] = IF s \in SessionsOf(u) /\ Live(s)
                                           THEN [sessions[s] EXCEPT !.excused = TRUE] ELSE sessions[s]
      BY <3>1 DEF Excused
    <3>4. \A s \in SessionsOf(u) : Live(s)' => Follows(s)'
      BY <3>2, <3>3 DEF SessionsOf, Session, Live, Follows
    <3>5. \A s \in Tokens \ SessionsOf(u) : sessions'[s] = sessions[s]
      BY <3>3
    <3>6. \A g \in Handlers, s \in Tokens \ SessionsOf(u) : Revoking(g, s)
      BY <2>1 DEF Revoking, SessionsOf
    <3>7. u \in Ids
      BY <2>3 DEF AccountsInv, RequestsSound, Sound
    <3> QED BY <1>0, <3>1, <3>4, <3>5, <3>6, <3>7, OneAccount
  <2> QED BY <2>2, <2>3
<1>2. ASSUME NEW s \in Tokens, Logout(s) \/ Expire(s) PROVE CredentialInv'
  <2>1. sessions' = Without({s}) /\ users' = users /\ req' = req
    BY <1>2 DEF Logout, Expire
  <2>2. \A k \in Tokens : Live(k)' => sessions'[k] = sessions[k]
    BY <2>1 DEF Without, Live
  <2> QED BY <1>a, <2>1, <2>2, CredentialsStand
<1>3. CASE Elapse \/ (\E x \in Subjects : CleanAttempts(x)) \/ UNCHANGED vars
  <2>1. UNCHANGED <<users, sessions, req>>
    BY <1>3 DEF Elapse, CleanAttempts, tables, vars
  <2> QED BY <1>a, <2>1, CredentialsStand
<1>4. CASE Upgrade
  <2>1. /\ users' = [u \in Ids |-> IF Exists(u) THEN [users[u] EXCEPT !.weak = TRUE] ELSE NoUser]
        /\ sessions' = sessions /\ req' = req
    BY <1>4 DEF Upgrade
  <2>2. \A u \in Ids : Exists(u) => users'[u].pw = users[u].pw /\ users'[u].disabled = users[u].disabled
    BY <1>0, <2>1 DEF TypeOK, User
  <2>3. \A s \in Tokens : Live(s) => sessions[s].user \in Ids /\ Exists(sessions[s].user)
    BY <1>0 DEF TypeOK
  <2>4. \A s \in Tokens : Live(s) => /\ users'[sessions[s].user].pw = users[sessions[s].user].pw
                                     /\ users'[sessions[s].user].disabled => users[sessions[s].user].disabled
    BY <2>2, <2>3
  <2> QED BY <1>a, <2>1, <2>4, CredentialsStand
<1> QED BY <1>1, <1>2, <1>3, <1>4

\* A session that is accepted has the present password of an account that is enabled, or
\* its revocation is underway, unless an overlap that the property names excuses it
\* (session.go:253-268).
THEOREM SessionsFollow == Spec => []SessionsFollowCredential
<1>1. Init => CredentialInv
  BY DEF Init, CredentialInv, Live
<1>2. AccountsInv /\ CredentialInv /\ [Next]_vars => CredentialInv'
  BY SignInFollows, AdministerFollows, OwnFollows, OtherFollows DEF Next
<1>3. CredentialInv => SessionsFollowCredential
  <2> SUFFICES ASSUME CredentialInv, NEW s \in Tokens, Live(s), ToBeRevoked(s)
               PROVE  \E h \in Handlers : req[h].pc \in {"keep", "revoke"} /\ req[h].user = sessions[s].user
    BY DEF SessionsFollowCredential, CredentialInv, Follows
  <2> QED BY DEF ToBeRevoked, At
<1> QED BY <1>1, <1>2, <1>3, AccountsAreSound, PTL DEF Spec

-----------------------------------------------------------------------------
(* Locks                                                                   *)

Counting(r) == r.pc \in {"verify", "readIP", "writeIP", "readUser", "writeUser"}

\* A lock has the failures that it takes, and the window of a subject that a request still
\* counts failures for is open: the request began when the subject was not locked, and
\* does not take as long as a window does.
LocksCount == \A x \in Subjects : Locked(attempts[x]) => attempts[x].failures >= LockAfter
WindowsOpen ==
  \A h \in Handlers : Counting(req[h]) =>
    \A x \in {Address, req[h].user} : Locked(attempts[x]) => attempts[x].window > 0
LockInv == LocksCount /\ WindowsOpen

\* One more failure within the window keeps a lock, and leaves the window open.
LEMMA FailureKeepsLock ==
  ASSUME NEW a \in Attempts
  PROVE  /\ Failed(a).window > 0
         /\ Locked(Failed(a)) => Failed(a).failures >= LockAfter
         /\ Locked(a) /\ a.failures >= LockAfter /\ a.window > 0 => Locked(Failed(a))
<1> DEFINE failures == IF a.window = 0 THEN 1 ELSE Least(a.failures + 1, MaxFailures)
<1>1. a.failures \in 0..MaxFailures /\ a.window \in 0..Window /\ a.lock \in 0..MaxLock
  BY DEF Attempts
<1>2. failures \in 0..MaxFailures
  BY <1>1, ThrottleAssumption DEF Least
<1>3. lockoutDuration(failures) > 0
  BY ThrottleAssumption DEF lockoutDuration
<1>4. /\ Failed(a).failures = failures
      /\ Failed(a).window = IF failures = 1 THEN Window ELSE a.window
      /\ Failed(a).lock = IF failures >= LockAfter THEN lockoutDuration(failures) ELSE 0
  BY DEF Failed
<1>5. a.window = 0 => failures = 1
  OBVIOUS
<1>6. a.window > 0 /\ a.failures >= LockAfter => failures >= LockAfter
  BY <1>1, ThrottleAssumption DEF Least
<1> HIDE DEF failures
<1>7. Failed(a).window > 0
  BY <1>1, <1>4, <1>5, ThrottleAssumption
<1> QED BY <1>2, <1>3, <1>4, <1>6, <1>7, ThrottleAssumption DEF Locked

LEMMA OlderLock ==
  ASSUME NEW a \in Attempts
  PROVE  Locked(Older(a)) => Locked(a) /\ Older(a).failures = a.failures
<1>1. a.window \in 0..Window /\ a.lock \in 0..MaxLock
  BY DEF Attempts
<1> QED BY <1>1, ThrottleAssumption DEF Attempts, Older, Locked, Less

\* Steps that leave the rows alone: a request that goes on counting was doing so before.
LEMMA LocksStand ==
  ASSUME LockInv, UNCHANGED attempts,
         \A h \in Handlers : Counting(req'[h]) => Counting(req[h]) /\ req'[h].user = req[h].user
  PROVE  LockInv'
BY DEF LockInv, LocksCount, WindowsOpen

\* The rows that are written are unlocked or counted anew.
LEMMA LocksWritten ==
  ASSUME LockInv,
         \A x \in Subjects : \/ attempts'[x] = attempts[x]
                             \/ ~Locked(attempts'[x])
                             \/ attempts'[x].failures >= LockAfter /\ attempts'[x].window > 0,
         \A h \in Handlers : Counting(req'[h]) => Counting(req[h]) /\ req'[h].user = req[h].user /\ req[h].user \in Ids
  PROVE  LockInv'
<1>1. LocksCount'
  BY DEF LockInv, LocksCount
<1>2. WindowsOpen'
  BY DEF LockInv, WindowsOpen, Subjects
<1> QED BY <1>1, <1>2 DEF LockInv

LEMMA LockStep ==
  ASSUME AccountsInv, LockInv, [Next]_vars
  PROVE  LockInv'
<1>0. TypeOK /\ \A h \in Handlers : /\ req[h] \in Request
                                    /\ req[h].pc \notin {"idle", "create"} => req[h].user \in Ids
  BY DEF AccountsInv, TypeOK, RequestsSound, Sound
<1>1. ASSUME NEW h \in Handlers, NEW r, Become(h, r), UNCHANGED attempts,
             Counting(r) => Counting(req[h]) /\ r.user = req[h].user
      PROVE  LockInv'
  BY <1>0, <1>1, OthersStay, LocksStand
<1>2. ASSUME NEW h \in Handlers, SignIn(h) PROVE LockInv'
  <2>1. ASSUME NEW u \in Ids, NEW cred \in 1..MaxPasswords, StartLogin(h, u, cred) PROVE LockInv'
    <3> DEFINE r == [Idle EXCEPT !.pc = "verify", !.user = u, !.cred = cred]
    <3>1. Become(h, r) /\ r.user = u /\ UNCHANGED attempts /\ ~Locked(attempts[Address]) /\ ~Locked(attempts[u])
      BY <2>1 DEF StartLogin, Idle
    <3> HIDE DEF r
    <3>2. req'[h] = r /\ \A g \in Handlers \ {h} : req'[g] = req[g]
      BY <1>0, <3>1, OthersStay
    <3> QED BY <3>1, <3>2 DEF LockInv, LocksCount, WindowsOpen
  <2>2. CASE Verify(h)
    <3>1. CASE At(h, "verify") /\ UNCHANGED attempts /\ \E pc \in {"rehash", "reset"} : Goto(h, pc)
      <4>1. PICK pc \in {"rehash", "reset"} : Goto(h, pc)
        BY <3>1
      <4>2. [req[h] EXCEPT !.pc = pc].pc = pc
        BY <1>0 DEF Request
      <4> QED BY <1>1, <3>1, <4>1, <4>2 DEF Goto, Counting
    <3>2. CASE At(h, "verify") /\ UNCHANGED attempts /\ Become(h, [req[h] EXCEPT !.pc = "readIP", !.cred = 0])
      <4>1. [req[h] EXCEPT !.pc = "readIP", !.cred = 0].user = req[h].user
        BY <1>0 DEF Request
      <4> QED BY <1>1, <3>2, <4>1 DEF Counting, At
    <3>3. CASE Finish(h) /\ UNCHANGED attempts
      BY <1>1, <3>3 DEF Finish, Counting, Idle
    <3> QED BY <2>2, <3>1, <3>2, <3>3 DEF Verify
  <2>3. CASE Rehash(h)
    <3>1. [req[h] EXCEPT !.pc = "reset"].pc = "reset"
      BY <1>0 DEF Request
    <3> QED BY <1>1, <2>3, <3>1 DEF Rehash, Goto, Counting
  <2>4. CASE Reset(h)
    <3>1. /\ attempts' = [attempts EXCEPT ![Address] = NoAttempts, ![req[h].user] = NoAttempts]
          /\ At(h, "reset") /\ Goto(h, "issue")
      BY <2>4 DEF Reset
    <3>2. [req[h] EXCEPT !.pc = "issue"].pc = "issue"
      BY <1>0 DEF Request
    <3>3. \A g \in Handlers : Counting(req'[g]) => req'[g] = req[g]
      BY <1>0, <3>1, <3>2, OthersStay DEF Goto, Counting
    <3>4. \A x \in Subjects \ {Address, req[h].user} : attempts'[x] = attempts[x]
      BY <1>0, <3>1 DEF TypeOK
    <3>5. \A x \in {Address, req[h].user} : attempts'[x] = NoAttempts
      <4>1. Address \in Subjects /\ req[h].user \in Subjects
        BY <1>0, <3>1 DEF Subjects, At
      <4> QED BY <1>0, <3>1, <4>1 DEF TypeOK
    <3>6. ~Locked(NoAttempts)
      BY DEF Locked, NoAttempts
    <3>7. \A g \in Handlers : Counting(req[g]) => req[g].user \in Ids
      BY <1>0 DEF Counting
    <3> QED BY <3>3, <3>4, <3>5, <3>6, <3>7, LocksWritten
  <2>5. CASE ReadAttempts(h)
    <3> DEFINE ip == At(h, "readIP")
               r == [req[h] EXCEPT !.pc = IF ip THEN "writeIP" ELSE "writeUser",
                                   !.seen = attempts[IF ip THEN Address ELSE req[h].user]]
    <3>1. Become(h, r) /\ UNCHANGED attempts /\ Counting(req[h])
      BY <2>5 DEF ReadAttempts, Counting, At
    <3>2. r.user = req[h].user
      BY <1>0 DEF Request
    <3> QED BY <1>1, <3>1, <3>2
  <2>6. CASE WriteAttempts(h)
    <3> DEFINE x == IF At(h, "writeIP") THEN Address ELSE req[h].user
               r == [req[h] EXCEPT !.pc = "readUser", !.seen = NoAttempts]
    <3>1. /\ attempts' = [attempts EXCEPT ![x] = Failed(req[h].seen)]
          /\ At(h, "writeIP") \/ At(h, "writeUser")
          /\ Become(h, r) \/ Become(h, Idle)
      BY <2>6 DEF WriteAttempts
    <3>2. r.user = req[h].user
      BY <1>0 DEF Request
    <3>3. \A g \in Handlers : Counting(req'[g]) => Counting(req[g]) /\ req'[g].user = req[g].user
      <4>1. CASE Become(h, r)
        BY <1>0, <3>1, <3>2, <4>1, OthersStay DEF Counting, At
      <4>2. CASE Become(h, Idle)
        BY <1>0, <4>2, OthersStay DEF Counting, Idle
      <4> QED BY <3>1, <4>1, <4>2
    <3>4. x \in Subjects
      BY <1>0, <3>1 DEF Subjects, At
    <3> HIDE DEF x
    <3>5. /\ \A y \in Subjects \ {x} : attempts'[y] = attempts[y]
          /\ attempts'[x] = Failed(req[h].seen)
      BY <1>0, <3>1, <3>4 DEF TypeOK
    <3>6. req[h].seen \in Attempts
      BY <1>0 DEF Request
    <3>7. \A g \in Handlers : Counting(req[g]) => req[g].user \in Ids
      BY <1>0 DEF Counting
    <3> QED BY <3>3, <3>5, <3>6, <3>7, FailureKeepsLock, LocksWritten
  <2>7. ASSUME NEW s \in Tokens, Issue(h, s) PROVE LockInv'
    BY <1>1, <2>7 DEF Issue, Finish, Counting, Idle
  <2> QED BY <1>2, <2>1, <2>2, <2>3, <2>4, <2>5, <2>6, <2>7 DEF SignIn
<1>3. ASSUME NEW h \in Handlers, Own(h) PROVE LockInv'
  <2>1. ASSUME NEW s \in Tokens, NEW pc \in {"change", "keep"}, StartOwn(h, s, pc) PROVE LockInv'
    <3> DEFINE r == [Idle EXCEPT !.pc = pc, !.user = sessions[s].user, !.token = {s},
                                 !.cred = users[sessions[s].user].pw]
    <3>1. Become(h, r) /\ UNCHANGED attempts
      BY <2>1 DEF StartOwn
    <3>2. r.pc = pc
      BY DEF Idle
    <3> QED BY <1>1, <3>1, <3>2 DEF Counting
  <2>2. \A pc \in {"set", "keep"} : [req[h] EXCEPT !.pc = pc].pc = pc
    BY <1>0 DEF Request
  <2>3. CASE ChangePassword(h)
    BY <1>1, <2>2, <2>3 DEF ChangePassword, Goto, Finish, Counting, Idle
  <2>4. CASE SetOwnPassword(h)
    BY <1>1, <2>2, <2>4 DEF SetOwnPassword, Goto, Finish, Counting, Idle
  <2>5. CASE KeepOne(h)
    BY <1>1, <2>5 DEF KeepOne, Finish, Counting, Idle
  <2> QED BY <1>3, <2>1, <2>3, <2>4, <2>5 DEF Own
<1>4. ASSUME NEW h \in Handlers, Administer(h) PROVE LockInv'
  <2>1. CASE Bootstrap(h)
    BY <1>1, <2>1 DEF Bootstrap, Counting, Idle
  <2>2. ASSUME NEW s \in Tokens, StartCreate(h, s) PROVE LockInv'
    BY <1>1, <2>2 DEF StartCreate, Counting, Idle
  <2>3. ASSUME NEW role \in Role, Create(h, role) PROVE LockInv'
    BY <1>1, <2>3 DEF Create, Finish, Counting, Idle
  <2>4. ASSUME NEW s \in Tokens, NEW u \in Ids, NEW plan \in Plans, StartPatch(h, s, u, plan) PROVE LockInv'
    <3> DEFINE r == [Idle EXCEPT !.pc = Resume(plan), !.user = u, !.todo = plan]
    <3>1. Become(h, r) /\ UNCHANGED attempts
      BY <2>4 DEF StartPatch
    <3>2. r.pc \in {"idle", "guard", "apply"}
      BY DEF Idle, Resume
    <3> QED BY <1>1, <3>1, <3>2 DEF Counting
  <2>5. CASE Guard(h)
    <3>1. [req[h] EXCEPT !.pc = "apply", !.stale = FALSE].pc = "apply"
      BY <1>0 DEF Request
    <3> QED BY <1>1, <2>5, <3>1 DEF Guard, Finish, Counting, Idle
  <2>6. CASE Revoke(h)
    <3>1. UNCHANGED attempts /\ Advance(h)
      BY <2>6 DEF Revoke
    <3>2. \E r \in Request : Become(h, r) /\ r.pc \in {"idle", "guard", "apply"}
      BY <2>6, <3>1, Proceeds DEF Revoke
    <3> QED BY <1>1, <3>1, <3>2 DEF Counting
  <2>7. CASE Apply(h)
    <3> DEFINE step == Head(req[h].todo)
               removes == step \in Guarded /\ Admin(req[h].user)
               revoking == [req[h] EXCEPT !.pc = "revoke"]
               resumed == [req[h] EXCEPT !.pc = Resume(Tail(req[h].todo)), !.todo = Tail(@), !.stale = FALSE]
    <3>1. /\ UNCHANGED attempts
          /\ req'[h] \in {Idle, revoking, resumed}
          /\ \A g \in Handlers \ {h} : req'[g] \in {req[g], [req[g] EXCEPT !.stale = TRUE]}
      BY <2>7 DEF Apply
    <3>2. Idle.pc = "idle" /\ revoking.pc = "revoke" /\ resumed.pc \in {"idle", "guard", "apply"}
      BY <1>0 DEF Idle, Request, Resume
    <3> HIDE DEF step, removes, revoking, resumed
    <3>3. \A g \in Handlers : [req[g] EXCEPT !.stale = TRUE].pc = req[g].pc /\ [req[g] EXCEPT !.stale = TRUE].user = req[g].user
      BY <1>0 DEF Request
    <3>4. ~Counting(req'[h])
      BY <3>1, <3>2 DEF Counting
    <3>5. \A g \in Handlers : Counting(req'[g]) => Counting(req[g]) /\ req'[g].user = req[g].user
      BY <3>1, <3>3, <3>4 DEF Counting
    <3> QED BY <3>1, <3>5, LocksStand
  <2> QED BY <1>4, <2>1, <2>2, <2>3, <2>4, <2>5, <2>6, <2>7 DEF Administer
<1>5. ASSUME NEW h \in Handlers, GiveUp(h) PROVE LockInv'
  BY <1>1, <1>5 DEF GiveUp, Finish, Counting, Idle
<1>6. CASE UNCHANGED <<attempts, req>>
  BY <1>6, LocksStand
<1>7. ASSUME NEW x \in Subjects, CleanAttempts(x) PROVE LockInv'
  <2>1. /\ \A y \in Subjects \ {x} : attempts'[y] = attempts[y]
        /\ ~Locked(attempts'[x])
    BY <1>0, <1>7 DEF CleanAttempts, TypeOK, Locked, NoAttempts
  <2>2. \A g \in Handlers : Counting(req'[g]) => Counting(req[g]) /\ req'[g].user = req[g].user /\ req[g].user \in Ids
    BY <1>0, <1>7 DEF CleanAttempts, Counting
  <2> QED BY <2>1, <2>2, LocksWritten
<1>8. CASE Elapse
  <2>1. \A x \in Subjects : attempts'[x] = Older(attempts[x]) /\ attempts[x] \in Attempts
    BY <1>0, <1>8 DEF Elapse, TypeOK
  <2>2. LocksCount'
    BY <2>1, OlderLock DEF LockInv, LocksCount
  <2>3. WindowsOpen'
    BY <1>8 DEF Elapse, WindowsOpen, Counting
  <2> QED BY <2>2, <2>3 DEF LockInv
<1>9. CASE Upgrade
  BY <1>6, <1>9 DEF Upgrade
<1>10. ASSUME NEW s \in Tokens, Logout(s) \/ Expire(s) PROVE LockInv'
  BY <1>6, <1>10 DEF Logout, Expire
<1>11. CASE UNCHANGED vars
  BY <1>6, <1>11 DEF vars
<1> QED BY <1>2, <1>3, <1>4, <1>5, <1>7, <1>8, <1>9, <1>10, <1>11 DEF Next

\* Whose failure, sign-in or time it was that changed a row.
LEMMA RowsChange ==
  ASSUME AccountsInv, LockInv, [Next]_vars, NEW x \in Subjects, Locked(attempts[x]), ~Locked(attempts'[x])
  PROVE  \/ attempts'[x] = Older(attempts[x])
         \/ \E h \in Handlers : At(h, "reset") /\ req'[h].pc = "issue"
         \/ \E h \in Handlers : /\ req[h].pc \in {"writeIP", "writeUser"}
                               /\ req'[h] # req[h]
                               /\ req[h].seen # attempts[x]
<1>0. TypeOK /\ attempts'[x] # attempts[x] /\ \A h \in Handlers : req[h] \in Request
  BY DEF AccountsInv, TypeOK
<1>1. CASE Elapse
  BY <1>1 DEF Elapse
<1>2. ASSUME NEW y \in Subjects, CleanAttempts(y) PROVE FALSE
  BY <1>0, <1>2 DEF CleanAttempts, TypeOK
<1>3. ASSUME NEW h \in Handlers, Reset(h) PROVE At(h, "reset") /\ req'[h].pc = "issue"
  <2>1. [req[h] EXCEPT !.pc = "issue"].pc = "issue"
    BY <1>0 DEF Request
  <2> QED BY <1>0, <1>3, <2>1, OthersStay DEF Reset, Goto
<1>4. ASSUME NEW h \in Handlers, WriteAttempts(h)
      PROVE  /\ req[h].pc \in {"writeIP", "writeUser"}
             /\ req'[h] # req[h]
             /\ req[h].seen # attempts[x]
  <2> DEFINE y == IF At(h, "writeIP") THEN Address ELSE req[h].user
             r == IF At(h, "writeIP") THEN [req[h] EXCEPT !.pc = "readUser", !.seen = NoAttempts] ELSE Idle
  <2>1. /\ attempts' = [attempts EXCEPT ![y] = Failed(req[h].seen)]
        /\ req[h].pc \in {"writeIP", "writeUser"}
        /\ Become(h, r)
    BY <1>4 DEF WriteAttempts, At
  <2>2. r.pc \in {"readUser", "idle"}
    BY <1>0 DEF Request, Idle
  <2> HIDE DEF r
  <2>3. req'[h] # req[h]
    BY <1>0, <2>1, <2>2, OthersStay
  <2>4. y \in {Address, req[h].user}
    OBVIOUS
  <2> HIDE DEF y
  <2>5. x = y /\ attempts'[x] = Failed(req[h].seen)
    BY <1>0, <2>1 DEF TypeOK
  <2>6. attempts[x].failures >= LockAfter /\ attempts[x].window > 0
    BY <2>1, <2>4, <2>5 DEF LockInv, LocksCount, WindowsOpen, Counting
  <2>7. attempts[x] \in Attempts
    BY <1>0 DEF TypeOK
  <2> QED BY <2>1, <2>3, <2>5, <2>6, <2>7, FailureKeepsLock
<1>5. ASSUME NEW h \in Handlers, SignIn(h) PROVE Reset(h) \/ WriteAttempts(h)
  BY <1>0, <1>5 DEF SignIn, StartLogin, Verify, Rehash, ReadAttempts, Issue
<1>6. ASSUME NEW h \in Handlers, Administer(h) \/ Own(h) \/ GiveUp(h) PROVE FALSE
  <2>1. ~Administer(h)
    BY <1>0 DEF Administer, Bootstrap, StartCreate, Create, StartPatch, Guard, Apply, Revoke
  <2>2. ~Own(h) /\ ~GiveUp(h)
    BY <1>0 DEF Own, StartOwn, ChangePassword, SetOwnPassword, KeepOne, GiveUp
  <2> QED BY <1>6, <2>1, <2>2
<1>7. ~Upgrade /\ \A s \in Tokens : ~Logout(s) /\ ~Expire(s)
  BY <1>0 DEF Upgrade, Logout, Expire
<1>8. attempts' # attempts
  BY <1>0
<1>9. Next
  BY <1>8 DEF vars
<1> QED BY <1>1, <1>2, <1>3, <1>4, <1>5, <1>6, <1>7, <1>9 DEF Next

\* A lock ends with time or with a sign-in, not with one more failure, unless that failure was
\* counted from a row that another one has changed (ratelimit.go:99-142).
THEOREM LocksHold == Spec => LockHolds
<1>1. Init => LockInv
  BY DEF Init, LockInv, LocksCount, WindowsOpen, Locked, NoAttempts, Counting, Idle
<1>2. AccountsInv /\ LockInv /\ [Next]_vars => LockInv'
  BY LockStep
<1>3. AccountsInv /\ LockInv /\ [Next]_vars =>
        \A x \in Subjects : Locked(attempts[x]) /\ ~Locked(attempts'[x]) =>
          \/ attempts'[x] = Older(attempts[x])
          \/ \E h \in Handlers : At(h, "reset") /\ req'[h].pc = "issue"
          \/ \E h \in Handlers : /\ req[h].pc \in {"writeIP", "writeUser"}
                                /\ req'[h] # req[h]
                                /\ req[h].seen # attempts[x]
  BY RowsChange
<1> QED BY <1>1, <1>2, <1>3, AccountsAreSound, PTL DEF Spec, LockHolds
=============================================================================
