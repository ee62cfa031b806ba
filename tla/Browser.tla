------------------------------ MODULE Browser ------------------------------
(***************************************************************************)
(* The managed browser (internal/browser/cdp.go) and the session state of  *)
(* the websites it renders, as the website handlers drive them: frames for *)
(* the player, and the interactive login that an administrator prepares,   *)
(* finishes, validates and clears.  All websites here need a login.        *)
(*                                                                         *)
(* A Chromium is named by the request that launched it, which launches at  *)
(* most one: exec.CommandContext kills it when that request ends.  There   *)
(* is a DevTools port for each of the three uses, and whoever asks a port  *)
(* gets the Chromium that has it.                                          *)
(***************************************************************************)
EXTENDS Integers, FiniteSets

CONSTANTS
  Requests,    \* requests served at the same time
  Websites,
  Profiles,
  ProfileOf,   \* of each website
  MaxCaptures, \* captures at the same time
  Workloads    \* what comes together: actions of the website handlers, and on which websites

ASSUME BrowserAssumption ==
  /\ \A l \in Workloads : l.websites \subseteq Websites
  /\ ProfileOf \in [Websites -> Profiles]
  /\ MaxCaptures \in Nat \ {0}
  /\ IsFiniteSet(Requests)
  /\ "none" \notin Requests \cup Websites \cup Profiles

VARIABLES
  site,        \* the session_state of each website
  session,     \* whether a profile on disk is logged in
  proc,        \* the Chromium of each request
  page,        \* the website open in it
  port,        \* whose Chromium has each port
  conn,        \* whose Chromium each request is connected to
  capture, interactive,  \* the manager's two instances
  lastShot,    \* the last frame of each profile
  slots,       \* captureSem
  status,      \* the manager's state
  req,         \* where each request is
  load         \* the workload

manager == <<capture, interactive, lastShot, slots, status>>
chromium == <<proc, page, port, conn>>
vars == <<site, session, chromium, manager, req, load>>

None == "none"
Ports == {"capture", "login", "validate"}
NoProc == [profile |-> None]
NoInst == [profile |-> None, by |-> None]
Inst == [profile: Profiles, by: Requests \cup {None}]  \* by None when it has ended
NoShot == [site |-> None, profile |-> None]
Request == [pc: {"idle", "slot", "look", "launch", "wait", "register", "dial", "shoot", "judge",
                 "free", "take", "remove", "record", "end"},
            action: {"frame", "prepare", "finish", "validate", "clear"},
            site: Websites \cup {None},
            seen: {"none", "preparing", "active", "error"},
            result: {None, "fresh", "cached", "ok", "login", "error"}]
Idle == [pc |-> "idle", action |-> "frame", site |-> None, seen |-> "none", result |-> None]

TypeOK ==
  /\ site \in [Websites -> {"none", "preparing", "active", "reauth_required", "error"}]
  /\ session \in [Profiles -> {"in", "out"}]
  /\ proc \in [Requests -> [profile: Profiles] \cup {NoProc}]
  /\ page \in [Requests -> Websites \cup {None}]
  /\ port \in [Ports -> Requests \cup {None}]
  /\ conn \in [Requests -> Requests \cup {None}]
  /\ capture \in Inst \cup {NoInst}
  /\ interactive \in Inst \cup {NoInst}
  /\ lastShot \in [Profiles -> [site: Websites, profile: Profiles] \cup {NoShot}]
  /\ slots \in 0..MaxCaptures
  /\ status \in {"stopped", "running", "interactive", "error"}
  /\ req \in [Requests -> Request]
  /\ load \in Workloads
  /\ \A u \in Ports : port[u] # None => proc[port[u]] # NoProc

At(h, pc) == req[h].pc = pc
Become(h, r) == req' = [req EXCEPT ![h] = r]
Goto(h, pc) == Become(h, [req[h] EXCEPT !.pc = pc])
Result(h, pc, result) == Become(h, [req[h] EXCEPT !.pc = pc, !.result = result])
Doing(h, action) == req[h].action = action
Profile(h) == ProfileOf[req[h].site]
Port(h) == CASE Doing(h, "frame") -> "capture"
             [] Doing(h, "prepare") -> "login"
             [] OTHER -> "validate"

\* Mutant of Stop: a port stays with a Chromium that has ended.
StopButPort(S, C) ==
  /\ proc' = [h \in Requests |-> IF h \in S THEN NoProc ELSE proc[h]]
  /\ page' = [h \in Requests |-> IF h \in S THEN None ELSE page[h]]
  /\ conn' = [h \in Requests |-> IF h \in C \/ conn[h] \in S THEN None ELSE conn[h]]
  /\ UNCHANGED port

\* The Chromiums of the requests in S end, and those in C close their connections.
Stop(S, C) ==
  /\ proc' = [h \in Requests |-> IF h \in S THEN NoProc ELSE proc[h]]
  /\ page' = [h \in Requests |-> IF h \in S THEN None ELSE page[h]]
  /\ port' = [u \in Ports |-> IF port[u] \in S THEN None ELSE port[u]]
  /\ conn' = [h \in Requests |-> IF h \in C \/ conn[h] \in S THEN None ELSE conn[h]]
Stopped(inst, S) == IF inst.by \in S THEN [inst EXCEPT !.by = None] ELSE inst

-----------------------------------------------------------------------------
(* Requests begin: the handler reads the website                           *)

Begin(h, action, w, pc) ==
  /\ At(h, "idle")
  /\ w \in load.websites
  /\ action \in load.actions
  /\ Become(h, [pc |-> pc, action |-> action, site |-> w,
                seen |-> IF action = "frame" THEN site[w] ELSE "none", result |-> None])
  /\ UNCHANGED <<site, session, chromium, manager, load>>

\* A website that needs a new login is not captured.
Frame(h, w) == site[w] # "reauth_required" /\ Begin(h, "frame", w, "slot")
Prepare(h, w) == Begin(h, "prepare", w, "free")
Finish(h, w) == Begin(h, "finish", w, "take")
Validate(h, w) == Begin(h, "validate", w, "launch")
Clear(h, w) == Begin(h, "clear", w, "free")

-----------------------------------------------------------------------------
(* Launching Chromium                                                      *)

\* It starts, and has its port unless another holds it.
Launch(h) ==
  /\ At(h, "launch")
  /\ proc' = [proc EXCEPT ![h] = [profile |-> Profile(h)]]
  /\ port' = [port EXCEPT ![Port(h)] = IF @ = None THEN h ELSE @]
  /\ Goto(h, "wait")
  /\ UNCHANGED <<site, session, page, conn, manager, load>>

\* A port answers, whoever has it.
DevToolsReady(h) ==
  /\ At(h, "wait")
  /\ port[Port(h)] # None
  /\ Goto(h, IF Doing(h, "frame") THEN "register" ELSE "dial")
  /\ UNCHANGED <<site, session, chromium, manager, load>>

CachedOrErr(h) == IF lastShot[Profile(h)] = NoShot THEN "error" ELSE "cached"

\* Mutant of FailLaunch: there is no deadline for the port.
FailStart(h) ==
  /\ At(h, "launch")
  /\ Stop({h}, {h})
  /\ capture' = Stopped(capture, {h})
  /\ interactive' = Stopped(interactive, {h})
  /\ slots' = IF Doing(h, "frame") THEN slots - 1 ELSE slots
  /\ status' = IF Doing(h, "frame") \/ Doing(h, "prepare") THEN "error" ELSE status
  /\ Result(h, "record", IF Doing(h, "frame") THEN CachedOrErr(h) ELSE "error")
  /\ UNCHANGED <<site, session, lastShot, load>>

\* It cannot be started, or nothing answers in time.
FailLaunch(h) ==
  /\ At(h, "launch") \/ At(h, "wait")
  /\ Stop({h}, {h})
  /\ capture' = Stopped(capture, {h})
  /\ interactive' = Stopped(interactive, {h})
  /\ slots' = IF Doing(h, "frame") THEN slots - 1 ELSE slots
  /\ status' = IF Doing(h, "frame") \/ Doing(h, "prepare") THEN "error" ELSE status
  /\ Result(h, "record", IF Doing(h, "frame") THEN CachedOrErr(h) ELSE "error")
  /\ UNCHANGED <<site, session, lastShot, load>>

\* The page of the Chromium that has the port now.
Dial(h) ==
  LET t == port[Port(h)] IN
  /\ At(h, "dial")
  /\ t # None
  /\ page' = [page EXCEPT ![t] = req[h].site]
  /\ IF Doing(h, "prepare")  \* which disconnects at once
     THEN Goto(h, "register") /\ UNCHANGED conn
     ELSE /\ Goto(h, IF Doing(h, "frame") THEN "shoot" ELSE "judge")
          /\ conn' = [conn EXCEPT ![h] = t]
  /\ UNCHANGED <<site, session, proc, port, manager, load>>

-----------------------------------------------------------------------------
(* Capture                                                                 *)

AcquireCapture(h) ==
  /\ At(h, "slot")
  /\ slots < MaxCaptures
  /\ slots' = slots + 1
  /\ Goto(h, "look")
  /\ UNCHANGED <<site, session, chromium, capture, interactive, lastShot, status, load>>

\* The deadline passes while it waits.
NoSlot(h) ==
  /\ At(h, "slot")
  /\ Result(h, "record", CachedOrErr(h))
  /\ UNCHANGED <<site, session, chromium, manager, load>>

\* Mutant of ReturnCached: the slot is released on success only.
ReturnHolding(h) ==
  /\ Result(h, "record", CachedOrErr(h))
  /\ UNCHANGED manager

\* Capture returns without a frame of its own.
ReturnCached(h) ==
  /\ slots' = slots - 1
  /\ Result(h, "record", CachedOrErr(h))
  /\ UNCHANGED <<capture, interactive, lastShot, status>>

Look(h) ==
  /\ At(h, "look")
  /\ IF interactive.profile = Profile(h)
     THEN ReturnCached(h)
     ELSE /\ Goto(h, IF capture.profile = Profile(h) THEN "dial" ELSE "launch")
          /\ UNCHANGED manager
  /\ UNCHANGED <<site, session, chromium, load>>

\* Mutant of RegisterCapture: the one before stays.
RegisterBeside(h) ==
  /\ At(h, "register")
  /\ Doing(h, "frame")
  /\ capture' = [profile |-> Profile(h), by |-> IF proc[h] = NoProc THEN None ELSE h]
  /\ status' = "running"
  /\ Goto(h, "dial")
  /\ UNCHANGED <<site, session, chromium, interactive, lastShot, slots, load>>

\* The instance registered before is stopped.
RegisterCapture(h) ==
  /\ At(h, "register")
  /\ Doing(h, "frame")
  /\ Stop({capture.by}, {})
  /\ capture' = [profile |-> Profile(h), by |-> IF proc[h] = NoProc THEN None ELSE h]
  /\ interactive' = Stopped(interactive, {capture.by})
  /\ status' = "running"
  /\ Goto(h, "dial")
  /\ UNCHANGED <<site, session, lastShot, slots, load>>

ScreenshotJPEG(h) ==
  LET t == conn[h] IN
  /\ At(h, "shoot")
  /\ t # None
  /\ lastShot' = [lastShot EXCEPT ![Profile(h)] = [site |-> page[t], profile |-> proc[t].profile]]
  /\ slots' = slots - 1
  /\ conn' = [conn EXCEPT ![h] = None]
  /\ Result(h, "record", "fresh")
  /\ UNCHANGED <<site, session, proc, page, port, capture, interactive, status, load>>

\* A command fails, for want of a Chromium or of time.
FailCapture(h) ==
  /\ Doing(h, "frame")
  /\ At(h, "dial") \/ At(h, "shoot")
  /\ ReturnCached(h)
  /\ conn' = [conn EXCEPT ![h] = None]
  /\ UNCHANGED <<site, session, proc, page, port, load>>

-----------------------------------------------------------------------------
(* Interactive login                                                       *)

\* PrepareLogin frees the profile, and ends the login there was; ClearSession ends both
\* instances when they are of the profile, and forgets its frame.
FreeProfile(h) ==
  LET p == Profile(h)
      endCapture == capture.profile = p
      endLogin == Doing(h, "prepare") \/ interactive.profile = p
      S == {i.by : i \in (IF endCapture THEN {capture} ELSE {}) \cup (IF endLogin THEN {interactive} ELSE {})} IN
  /\ At(h, "free")
  /\ Stop(S, {})
  /\ capture' = IF endCapture THEN NoInst ELSE capture
  /\ interactive' = IF endLogin THEN NoInst ELSE interactive
  /\ lastShot' = IF Doing(h, "clear") THEN [lastShot EXCEPT ![p] = NoShot] ELSE lastShot
  /\ Goto(h, IF Doing(h, "clear") THEN "remove" ELSE "launch")
  /\ UNCHANGED <<site, session, slots, status, load>>

RegisterLogin(h) ==
  /\ At(h, "register")
  /\ Doing(h, "prepare")
  /\ interactive' = [profile |-> Profile(h), by |-> IF proc[h] = NoProc THEN None ELSE h]
  /\ status' = "interactive"
  /\ Result(h, "record", "ok")
  /\ UNCHANGED <<site, session, chromium, capture, lastShot, slots, load>>

\* The page is opened if it can be: the login is registered all the same.
SkipDial(h) ==
  /\ At(h, "dial")
  /\ Doing(h, "prepare")
  /\ Goto(h, "register")
  /\ UNCHANGED <<site, session, chromium, manager, load>>

FinishLogin(h) ==
  /\ At(h, "take")
  /\ interactive' = NoInst
  /\ IF interactive = NoInst
     THEN Result(h, "record", "error") /\ UNCHANGED <<chromium, status>>
     ELSE Stop({interactive.by}, {}) /\ status' = "stopped" /\ Goto(h, "launch")
  /\ capture' = Stopped(capture, {interactive.by})
  /\ UNCHANGED <<site, session, lastShot, slots, load>>

\* Whether the page has turned into a login page; the instance is stopped.
Judge(h) ==
  LET t == conn[h] IN
  /\ At(h, "judge")
  /\ t # None
  /\ Result(h, "record", IF session[proc[t].profile] = "in" THEN "ok" ELSE "login")
  /\ Stop({h}, {h})
  /\ UNCHANGED <<site, session, manager, load>>

FailValidate(h) ==
  /\ Doing(h, "finish") \/ Doing(h, "validate")
  /\ At(h, "dial") \/ At(h, "judge")
  /\ Result(h, "record", "error")
  /\ Stop({h}, {h})
  /\ UNCHANGED <<site, session, manager, load>>

RemoveProfile(h) ==
  /\ At(h, "remove")
  /\ session' = [session EXCEPT ![Profile(h)] = "out"]
  /\ Result(h, "record", "ok")
  /\ UNCHANGED <<site, chromium, manager, load>>

-----------------------------------------------------------------------------
(* The website's row, and the end                                          *)

\* A frame of any kind clears the warning that the website had when it was asked for.
NewState(h) ==
  LET r == req[h] IN
  CASE r.result = "error" -> "error"
    [] r.action = "frame" -> IF r.seen = "active" THEN site[r.site] ELSE "active"
    [] r.action = "prepare" -> "preparing"
    [] r.action = "clear" -> "none"
    [] OTHER -> IF r.result = "ok" THEN "active" ELSE "reauth_required"

SetSessionState(h) ==
  /\ At(h, "record")
  /\ site' = [site EXCEPT ![req[h].site] = NewState(h)]
  /\ Goto(h, "end")
  /\ UNCHANGED <<session, chromium, manager, load>>

\* The context of the request is cancelled, and its Chromium with it.
End(h) ==
  /\ At(h, "end")
  /\ Stop({h}, {h})
  /\ capture' = Stopped(capture, {h})
  /\ interactive' = Stopped(interactive, {h})
  /\ Become(h, Idle)
  /\ UNCHANGED <<site, session, lastShot, slots, status, load>>

\* Someone logs in at the display; a session expires.
Sessions == load.actions \cap {"finish", "validate"} # {}  \* that anything depends on them

LogIn(h) ==
  /\ Sessions
  /\ proc[h] # NoProc
  /\ Doing(h, "prepare")
  /\ session' = [session EXCEPT ![proc[h].profile] = "in"]
  /\ UNCHANGED <<site, chromium, manager, req, load>>

Expire(p) ==
  /\ Sessions
  /\ session' = [session EXCEPT ![p] = "out"]
  /\ UNCHANGED <<site, chromium, manager, req, load>>

Step(h) ==
  \/ Launch(h) \/ DevToolsReady(h) \/ FailLaunch(h) \/ Dial(h)
  \/ AcquireCapture(h) \/ NoSlot(h) \/ Look(h) \/ RegisterCapture(h) \/ ScreenshotJPEG(h) \/ FailCapture(h)
  \/ FreeProfile(h) \/ RegisterLogin(h) \/ SkipDial(h) \/ FinishLogin(h) \/ Judge(h) \/ FailValidate(h)
  \/ RemoveProfile(h) \/ SetSessionState(h) \/ End(h)

Init ==
  /\ site = [w \in Websites |-> "none"]
  /\ session = [p \in Profiles |-> "out"]
  /\ proc = [h \in Requests |-> NoProc]
  /\ page = [h \in Requests |-> None]
  /\ port = [u \in Ports |-> None]
  /\ conn = [h \in Requests |-> None]
  /\ capture = NoInst
  /\ interactive = NoInst
  /\ lastShot = [p \in Profiles |-> NoShot]
  /\ slots = 0
  /\ status = "stopped"
  /\ req = [h \in Requests |-> Idle]
  /\ load \in Workloads

Next ==
  \/ \E h \in Requests : Step(h) \/ LogIn(h)
  \/ \E h \in Requests, w \in Websites :
       Frame(h, w) \/ Prepare(h, w) \/ Finish(h, w) \/ Validate(h, w) \/ Clear(h, w)
  \/ \E p \in Profiles : Expire(p)

Spec == Init /\ [][Next]_vars

\* Every request goes on: what it waits for comes or its deadline passes.
FairSpec == Spec /\ \A h \in Requests : WF_vars(Step(h))

-----------------------------------------------------------------------------
(* Properties                                                              *)

\* A frame shows the website and the profile it was taken for: captures share a Chromium
\* and a port, and take turns.
FramesAreOwn ==
  /\ \A p \in Profiles : lastShot[p] # NoShot => lastShot[p].profile = p
  /\ \A h \in Requests : At(h, "shoot") /\ conn[h] # None => page[conn[h]] = req[h].site

\* A capture slot is held by a request inside Capture and by nothing else.
SlotsReturned ==
  slots = Cardinality({h \in Requests : /\ Doing(h, "frame")
                                        /\ req[h].pc \in {"look", "launch", "wait", "register", "dial", "shoot"}})

\* Every request is answered, whether or not Chromium comes up.
RequestsEnd == \A h \in Requests : ~At(h, "idle") ~> At(h, "idle")

\* "StateInteractive means an interactive login instance is active."
LoginStaysOpen == status = "interactive" => interactive.by # None
=============================================================================
