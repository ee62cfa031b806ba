------------------------------ MODULE Accounts ------------------------------
(***************************************************************************)
(* Accounts, sessions and sign-in (internal/auth, api/handlers_auth.go).   *)
(*                                                                         *)
(* A request runs its statements one after the other and none of them      *)
(* shares a transaction, but for Bootstrap's: any other request can fall   *)
(* between a check and the write that relies on it.  A password is a       *)
(* generation number, and a session keeps the one it was opened with.      *)
(***************************************************************************)
EXTENDS Throttle, Sequences, FiniteSets

CONSTANTS
  Handlers,      \* requests served at the same time
  Tokens,        \* session tokens that clients may hold
  MaxUsers,      \* bound on the accounts ever created
  MaxPasswords,  \* bound on the passwords an account is given
  PlanLength,    \* bound on the parts of one PATCH
  MaxUpgrades,   \* bound on starts with stronger hash parameters
  Workloads      \* sets of the kinds of request that come together

Kinds == {"signin", "guess", "own", "admin", "upgrade"}

ASSUME AccountsAssumption ==
  /\ MaxUsers \in Nat \ {0}
  /\ MaxPasswords \in Nat \ {0}
  /\ PlanLength \in Nat
  /\ MaxUpgrades \in Nat
  /\ Workloads \subseteq SUBSET Kinds
  /\ Workloads # {}

VARIABLES
  users,     \* the table, by id
  lastUser,  \* its AUTOINCREMENT counter
  sessions,  \* sessions neither revoked nor expired, by token
  attempts,  \* login_attempts: one row for the address, one per account
  req,       \* where each request is
  upgrades,  \* starts with stronger parameters so far
  kinds,     \* the workload
  raced      \* history: a guarded write that another removal overtook

tables == <<users, lastUser, sessions>>
fixed == <<upgrades, kinds>>
vars == <<tables, attempts, req, fixed, raced>>

Ids == 1..MaxUsers
Address == 0                  \* the ip: subject; the user: subjects are the ids
Subjects == {Address} \cup Ids
Role == {"admin", "editor"}   \* the roles below admin differ in nothing here

NoUser == [role |-> "none", disabled |-> TRUE, pw |-> 0, newest |-> 0, weak |-> FALSE]
User == [role: Role \cup {"none"}, disabled: BOOLEAN,
         pw: 0..MaxPasswords,       \* the password that password_hash is of
         newest: 0..MaxPasswords,   \* passwords it was ever given
         weak: BOOLEAN]             \* hashed under weaker parameters

NoSession == [user |-> 0, cred |-> 0, excused |-> FALSE]
Session == [user: 0..MaxUsers, cred: 0..MaxPasswords,
            excused: BOOLEAN]       \* history: why it may outlive its credential

Exists(u) == users[u].role # "none"
Admin(u) == users[u].role = "admin" /\ ~users[u].disabled
Live(s) == sessions[s] # NoSession

\* The parts of a PATCH in the order of the handler, or a DELETE.
Guarded == {"demote", "disable", "delete"}
Patches == {r \o d \o p : r \in {<<>>, <<"demote">>, <<"promote">>},
                          d \in {<<>>, <<"disable">>, <<"enable">>},
                          p \in {<<>>, <<"password">>}}
Plans == {p \in Patches : Len(p) \in 1..PlanLength} \cup {<<"delete">>}
Idle == [pc |-> "idle", user |-> 0, token |-> {}, cred |-> 0, todo |-> <<>>,
         stale |-> FALSE, seen |-> NoAttempts]

Request == [pc: {"idle", "verify", "rehash", "reset", "issue", "readIP", "writeIP", "readUser",
                 "writeUser", "change", "set", "keep", "create", "guard", "apply", "revoke"},
            user: 0..MaxUsers,         \* the account it is about
            token: SUBSET Tokens,      \* the session that it must not revoke
            cred: 0..MaxPasswords,     \* the password it presents, or has verified
            todo: Plans \cup Patches,
            stale: BOOLEAN,            \* history: an administrator went since its guard
            seen: Attempts]            \* the row that recordOne read

TypeOK ==
  /\ users \in [Ids -> User]
  /\ \A u \in Ids : Exists(u) <=> users[u] # NoUser
  /\ lastUser \in 0..MaxUsers
  /\ \A u \in Ids : Exists(u) => u <= lastUser
  /\ sessions \in [Tokens -> Session]
  /\ \A s \in Tokens : Live(s) => sessions[s].user \in Ids /\ Exists(sessions[s].user)
  /\ attempts \in [Subjects -> Attempts]
  /\ req \in [Handlers -> Request]
  /\ upgrades \in 0..MaxUpgrades
  /\ kinds \in Workloads
  /\ raced \in BOOLEAN

At(h, pc) == req[h].pc = pc
Become(h, r) == req' = [req EXCEPT ![h] = r]
Goto(h, pc) == Become(h, [req[h] EXCEPT !.pc = pc])
Finish(h) == Become(h, Idle)

\* The sessions that are left when those of a set are revoked, or their rows deleted.
Without(gone) == [s \in Tokens |-> IF s \in gone THEN NoSession ELSE sessions[s]]
SessionsOf(u) == {s \in Tokens : sessions[s].user = u}

\* The sessions of an account that a revocation cut short, or an old hash that came
\* back, leaves as they are.
Excused(u) == [s \in Tokens |-> IF s \in SessionsOf(u) /\ Live(s)
                               THEN [sessions[s] EXCEPT !.excused = TRUE] ELSE sessions[s]]

-----------------------------------------------------------------------------
(* Sign-in                                                                 *)

\* Mutant: the throttle is not asked.
StartUnchecked(h, u, cred) ==
  /\ "signin" \in kinds
  /\ cred = users[u].pw \/ "guess" \in kinds
  /\ At(h, "idle")
  /\ Become(h, [Idle EXCEPT !.pc = "verify", !.user = u, !.cred = cred])
  /\ UNCHANGED <<tables, attempts, fixed, raced>>

\* handleLogin up to Authenticate: the throttle is asked about both subjects.
StartLogin(h, u, cred) ==
  /\ "signin" \in kinds
  /\ cred = users[u].pw \/ "guess" \in kinds
  /\ At(h, "idle")
  /\ ~Locked(attempts[Address])
  /\ ~Locked(attempts[u])
  /\ Become(h, [Idle EXCEPT !.pc = "verify", !.user = u, !.cred = cred])
  /\ UNCHANGED <<tables, attempts, fixed, raced>>

\* Authenticate reads the row; the hash is compared with that reading.  Failures are
\* counted in the workloads that have guesses.
Verify(h) ==
  LET row == users[req[h].user] IN
  /\ At(h, "verify")
  /\ IF row.pw = req[h].cred /\ ~row.disabled
     THEN Goto(h, IF row.weak THEN "rehash" ELSE "reset")
     ELSE IF "guess" \in kinds
     THEN Become(h, [req[h] EXCEPT !.pc = "readIP", !.cred = 0])
     ELSE Finish(h)
  /\ UNCHANGED <<tables, attempts, fixed, raced>>

\* The hash is upgraded: the password that was verified is written again.
Rehash(h) ==
  LET u == req[h].user IN
  /\ At(h, "rehash")
  /\ users' = IF Exists(u) THEN [users EXCEPT ![u].pw = req[h].cred, ![u].weak = FALSE] ELSE users
  /\ sessions' = IF Exists(u) /\ users[u].pw # req[h].cred THEN Excused(u) ELSE sessions
  /\ Goto(h, "reset")
  /\ UNCHANGED <<lastUser, attempts, fixed, raced>>

\* Throttle.Reset, one statement, then RecordLogin.
Reset(h) ==
  /\ At(h, "reset")
  /\ attempts' = [attempts EXCEPT ![Address] = NoAttempts, ![req[h].user] = NoAttempts]
  /\ Goto(h, "issue")
  /\ UNCHANGED <<tables, fixed, raced>>

\* Mutant: the foreign key is not enforced.
IssueAnyway(h, s) ==
  LET u == req[h].user IN
  /\ At(h, "issue")
  /\ ~Live(s)
  /\ \A k \in Handlers : s \notin req[k].token
  /\ sessions' = [sessions EXCEPT ![s] = [user |-> u, cred |-> req[h].cred, excused |-> TRUE]]
  /\ Finish(h)
  /\ UNCHANGED <<users, lastUser, attempts, fixed, raced>>

\* issueSession.  The foreign key refuses a session of a deleted account.
Issue(h, s) ==
  LET u == req[h].user IN
  /\ At(h, "issue")
  /\ ~Live(s)
  /\ \A k \in Handlers : s \notin req[k].token
  /\ sessions' = IF Exists(u)
                 THEN [sessions EXCEPT ![s] = [user |-> u, cred |-> req[h].cred,
                         excused |-> users[u].pw # req[h].cred \/ users[u].disabled]]
                 ELSE sessions
  /\ Finish(h)
  /\ UNCHANGED <<users, lastUser, attempts, fixed, raced>>

\* recordOne for the address and then for the account: a read, and an upsert.
ReadAttempts(h) ==
  /\ At(h, "readIP") \/ At(h, "readUser")
  /\ LET ip == At(h, "readIP") IN
     Become(h, [req[h] EXCEPT !.pc = IF ip THEN "writeIP" ELSE "writeUser",
                              !.seen = attempts[IF ip THEN Address ELSE req[h].user]])
  /\ UNCHANGED <<tables, attempts, fixed, raced>>

WriteAttempts(h) ==
  LET ip == At(h, "writeIP") IN
  /\ At(h, "writeIP") \/ At(h, "writeUser")
  /\ attempts' = [attempts EXCEPT ![IF ip THEN Address ELSE req[h].user] = Failed(req[h].seen)]
  /\ Become(h, IF ip THEN [req[h] EXCEPT !.pc = "readUser", !.seen = NoAttempts] ELSE Idle)
  /\ UNCHANGED <<tables, fixed, raced>>

\* Time passes: windows close and locks run out.  A request is over long before.
Elapse ==
  /\ \A h \in Handlers : req[h].pc \notin {"verify", "readIP", "writeIP", "readUser", "writeUser"}
  /\ attempts # [x \in Subjects |-> Older(attempts[x])]
  /\ attempts' = [x \in Subjects |-> Older(attempts[x])]
  /\ UNCHANGED <<tables, req, fixed, raced>>

\* Throttle.Cleanup
CleanAttempts(x) ==
  /\ attempts[x].failures > 0 /\ attempts[x].window = 0 /\ ~Locked(attempts[x])
  /\ attempts' = [attempts EXCEPT ![x] = NoAttempts]
  /\ UNCHANGED <<tables, req, fixed, raced>>

-----------------------------------------------------------------------------
(* Accounts                                                                *)

Added(role) ==
  /\ lastUser < MaxUsers
  /\ lastUser' = lastUser + 1
  /\ users' = [users EXCEPT ![lastUser'] = [role |-> role, disabled |-> FALSE, pw |-> 1,
                                            newest |-> 1, weak |-> FALSE]]

\* Bootstrap counts and inserts in one transaction; the session follows.
Bootstrap(h) ==
  /\ At(h, "idle")
  /\ \A u \in Ids : ~Exists(u)
  /\ Added("admin")
  /\ Become(h, [Idle EXCEPT !.pc = "issue", !.user = lastUser', !.cred = 1])
  /\ UNCHANGED <<sessions, attempts, fixed, raced>>

\* requireAuth: Lookup joins the session with its account, and the role is enough.
Authorised(s, roles) ==
  /\ Live(s)
  /\ ~users[sessions[s].user].disabled
  /\ users[sessions[s].user].role \in roles

Logout(s) ==
  /\ "signin" \in kinds
  /\ Live(s)
  /\ sessions' = Without({s})
  /\ UNCHANGED <<users, lastUser, attempts, req, fixed, raced>>

\* A session passes its idle or absolute limit, after which Lookup revokes it and
\* Cleanup deletes it.
Expire(s) ==
  /\ Live(s)
  /\ sessions' = Without({s})
  /\ UNCHANGED <<users, lastUser, attempts, req, fixed, raced>>

\* handleChangePassword and DELETE of the other sessions.
StartOwn(h, s, pc) ==
  /\ "own" \in kinds
  /\ At(h, "idle")
  /\ Authorised(s, Role)
  /\ Become(h, [Idle EXCEPT !.pc = pc, !.user = sessions[s].user, !.token = {s},
                            !.cred = users[sessions[s].user].pw])
  /\ UNCHANGED <<tables, attempts, fixed, raced>>

\* ChangePassword reads the hash and verifies the current password.
ChangePassword(h) ==
  /\ At(h, "change")
  /\ IF users[req[h].user].pw = req[h].cred THEN Goto(h, "set") ELSE Finish(h)
  /\ UNCHANGED <<tables, attempts, fixed, raced>>

\* The UPDATE of SetPassword.
NewPassword(u) ==
  /\ users[u].newest < MaxPasswords
  /\ users' = [users EXCEPT ![u].pw = users[u].newest + 1, ![u].newest = @ + 1, ![u].weak = FALSE]

\* The session that changed the password counts as opened with the new one.
SetOwnPassword(h) ==
  LET u == req[h].user IN
  /\ At(h, "set")
  /\ IF Exists(u)
     THEN /\ NewPassword(u)
          /\ sessions' = [s \in Tokens |-> IF s \in req[h].token /\ sessions[s].user = u
                                          THEN [sessions[s] EXCEPT !.cred = users'[u].pw]
                                          ELSE sessions[s]]
          /\ Goto(h, "keep")
     ELSE Finish(h) /\ UNCHANGED <<users, sessions>>
  /\ UNCHANGED <<lastUser, attempts, fixed, raced>>

\* Mutant: the other sessions stay.
KeepAll(h) ==
  /\ At(h, "keep")
  /\ Finish(h)
  /\ UNCHANGED <<tables, attempts, fixed, raced>>

\* RevokeAllForUserExcept
KeepOne(h) ==
  /\ At(h, "keep")
  /\ sessions' = Without(SessionsOf(req[h].user) \ req[h].token)
  /\ Finish(h)
  /\ UNCHANGED <<users, lastUser, attempts, fixed, raced>>

-----------------------------------------------------------------------------
(* Administration                                                          *)

\* Where a request goes that has these steps left.
Resume(todo) ==
  IF todo = <<>> THEN "idle" ELSE IF Head(todo) \in Guarded THEN "guard" ELSE "apply"
Proceed(h, todo) ==
  Become(h, IF todo = <<>> THEN Idle
            ELSE [req[h] EXCEPT !.pc = Resume(todo), !.todo = todo, !.stale = FALSE])
Advance(h) == Proceed(h, Tail(req[h].todo))

StartCreate(h, s) ==
  /\ "admin" \in kinds
  /\ At(h, "idle")
  /\ Authorised(s, {"admin"})
  /\ Become(h, [Idle EXCEPT !.pc = "create"])
  /\ UNCHANGED <<tables, attempts, fixed, raced>>

Create(h, role) ==
  /\ At(h, "create")
  /\ Added(role)
  /\ Finish(h)
  /\ UNCHANGED <<sessions, attempts, fixed, raced>>

\* handleUserByID; nobody deletes the account of the session.
StartPatch(h, s, u, plan) ==
  /\ "admin" \in kinds
  /\ At(h, "idle")
  /\ Authorised(s, {"admin"})
  /\ plan = <<"delete">> => u # sessions[s].user
  /\ Become(h, [Idle EXCEPT !.pc = Resume(plan), !.user = u, !.todo = plan])
  /\ UNCHANGED <<tables, attempts, fixed, raced>>

\* guardLastAdmin; a refusal ends the request, with what it has already done.
LastAdmin(u) == Admin(u) /\ \A v \in Ids \ {u} : ~Admin(v)
\* Mutant: disabled administrators count.
GuardByRole(h) ==
  LET u == req[h].user IN
  /\ At(h, "guard")
  /\ IF Exists(u) /\ (\E v \in Ids \ {u} : users[v].role = "admin")
     THEN Become(h, [req[h] EXCEPT !.pc = "apply", !.stale = FALSE])
     ELSE Finish(h)
  /\ UNCHANGED <<tables, attempts, fixed, raced>>

Guard(h) ==
  LET u == req[h].user IN
  /\ At(h, "guard")
  /\ IF Exists(u) /\ ~LastAdmin(u) THEN Become(h, [req[h] EXCEPT !.pc = "apply", !.stale = FALSE])
     ELSE Finish(h)
  /\ UNCHANGED <<tables, attempts, fixed, raced>>

\* The write after the guard.  It takes effect whatever has happened since.
Apply(h) ==
  LET u == req[h].user
      step == Head(req[h].todo)
      removes == step \in Guarded /\ Admin(u)
      next == IF step \in {"disable", "password", "delete"}
              THEN [req[h] EXCEPT !.pc = "revoke"]
              ELSE IF Tail(req[h].todo) = <<>> THEN Idle
              ELSE [req[h] EXCEPT !.pc = Resume(Tail(req[h].todo)), !.todo = Tail(@), !.stale = FALSE]
  IN
  /\ At(h, "apply")
  /\ IF Exists(u)
     THEN \/ step = "demote" /\ users' = [users EXCEPT ![u].role = "editor"]
          \/ step = "promote" /\ users' = [users EXCEPT ![u].role = "admin"]
          \/ step = "disable" /\ users' = [users EXCEPT ![u].disabled = TRUE]
          \/ step = "enable" /\ users' = [users EXCEPT ![u].disabled = FALSE]
          \/ step = "password" /\ NewPassword(u)
          \/ step = "delete" /\ users' = [users EXCEPT ![u] = NoUser]
     ELSE UNCHANGED users
  /\ sessions' = IF step = "delete" THEN Without(SessionsOf(u)) ELSE sessions
  /\ raced' = (raced \/ (removes /\ req[h].stale))
  /\ req' = [k \in Handlers |->
               IF k = h THEN IF Exists(u) \/ step \notin {"password", "delete"} THEN next ELSE Idle
               ELSE IF removes /\ req[k].pc = "apply" THEN [req[k] EXCEPT !.stale = TRUE]
               ELSE req[k]]
  /\ UNCHANGED <<lastUser, attempts, fixed>>

\* Mutant: disabling or resetting leaves the sessions.
RevokeNone(h) ==
  /\ At(h, "revoke")
  /\ Advance(h)
  /\ UNCHANGED <<tables, attempts, fixed, raced>>

\* RevokeAllForUser
Revoke(h) ==
  LET u == req[h].user IN
  /\ At(h, "revoke")
  /\ sessions' = Without(SessionsOf(u))
  /\ Advance(h)
  /\ UNCHANGED <<users, lastUser, attempts, fixed, raced>>

\* The client goes, or the process stops: no further statement of the request runs.
GiveUp(h) ==
  /\ ~At(h, "idle")
  /\ sessions' = IF req[h].pc \in {"keep", "revoke"} THEN Excused(req[h].user) ELSE sessions
  /\ Finish(h)
  /\ UNCHANGED <<users, lastUser, attempts, fixed, raced>>

\* External: a start of a version that hashes passwords under stronger parameters.
Upgrade ==
  /\ "upgrade" \in kinds
  /\ upgrades < MaxUpgrades
  /\ \A h \in Handlers : At(h, "idle")
  /\ upgrades' = upgrades + 1
  /\ users' = [u \in Ids |-> IF Exists(u) THEN [users[u] EXCEPT !.weak = TRUE] ELSE NoUser]
  /\ UNCHANGED <<lastUser, sessions, attempts, req, kinds, raced>>

-----------------------------------------------------------------------------
Init ==
  /\ users = [u \in Ids |-> NoUser]
  /\ lastUser = 0
  /\ sessions = [s \in Tokens |-> NoSession]
  /\ attempts = [x \in Subjects |-> NoAttempts]
  /\ req = [h \in Handlers |-> Idle]
  /\ upgrades = 0
  /\ kinds \in Workloads
  /\ raced = FALSE

SignIn(h) ==
  \/ \E u \in Ids, cred \in 1..MaxPasswords : StartLogin(h, u, cred)
  \/ Verify(h) \/ Rehash(h) \/ Reset(h) \/ ReadAttempts(h) \/ WriteAttempts(h)
  \/ \E s \in Tokens : Issue(h, s)

Administer(h) ==
  \/ Bootstrap(h)
  \/ \E s \in Tokens : StartCreate(h, s)
  \/ \E role \in Role : Create(h, role)
  \/ \E s \in Tokens, u \in Ids, plan \in Plans : StartPatch(h, s, u, plan)
  \/ Guard(h) \/ Apply(h) \/ Revoke(h)

Own(h) ==
  \/ \E s \in Tokens, pc \in {"change", "keep"} : StartOwn(h, s, pc)
  \/ ChangePassword(h) \/ SetOwnPassword(h) \/ KeepOne(h)

Next ==
  \/ \E h \in Handlers : SignIn(h) \/ Administer(h) \/ Own(h) \/ GiveUp(h)
  \/ \E s \in Tokens : Logout(s) \/ Expire(s)
  \/ \E x \in Subjects : CleanAttempts(x)
  \/ Elapse
  \/ Upgrade

Spec == Init /\ [][Next]_vars
-----------------------------------------------------------------------------
(* Properties                                                              *)

\* Once set up, the system has an administrator who can sign in, however requests
\* overlap, unless one of them removed an administrator on the word of a guard that
\* an earlier removal had overtaken.
AdminRemains == lastUser > 0 /\ ~raced => \E u \in Ids : Admin(u)

\* A session that is accepted was opened with the present password of an account
\* that was enabled since, or its revocation is still to come; except when the login
\* was overtaken by the change, a revocation was cut short, or an old hash came back.
SessionsFollowCredential ==
  \A s \in Tokens : Live(s) =>
    LET u == sessions[s].user IN
    \/ sessions[s].cred = users[u].pw /\ ~users[u].disabled
    \/ sessions[s].excused
    \/ \E h \in Handlers : req[h].pc \in {"keep", "revoke"} /\ req[h].user = u

\* A lock ends with time or with a sign-in, not with one more failure, unless that
\* failure was counted from a row that another one has changed.
LockHolds ==
  [][\A x \in Subjects : Locked(attempts[x]) /\ ~Locked(attempts'[x]) =>
       \/ attempts'[x] = Older(attempts[x])
       \/ \E h \in Handlers : At(h, "reset") /\ req'[h].pc = "issue"
       \/ \E h \in Handlers : /\ req[h].pc \in {"writeIP", "writeUser"}
                             /\ req'[h] # req[h]
                             /\ req[h].seen # attempts[x]]_vars
=============================================================================
