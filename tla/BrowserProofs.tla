--------------------------- MODULE BrowserProofs ---------------------------
(***************************************************************************)
(* Theorems about the managed browser, for any number of requests,         *)
(* websites and profiles.                                                  *)
(*                                                                         *)
(* BrowserInv is the inductive invariant: the types, what a request may be *)
(* doing where it is, whose Chromium has which port and instance, and that *)
(* the slots in use are those of the captures underway.  With one slot,    *)
(* which is what the program has, TurnsTaken adds that the Chromium a      *)
(* capture finds at its port is the registered one, of its profile.        *)
(***************************************************************************)
EXTENDS Browser, FiniteSetTheorems, TLAPS

-----------------------------------------------------------------------------
(* The parts of the types                                                  *)

ChromiumTypes ==
  /\ proc \in [Requests -> [profile: Profiles] \cup {NoProc}]
  /\ page \in [Requests -> Websites \cup {None}]
  /\ port \in [Ports -> Requests \cup {None}]
  /\ conn \in [Requests -> Requests \cup {None}]
  /\ \A u \in Ports : port[u] # None => proc[port[u]] # NoProc

InstanceTypes == capture \in Inst \cup {NoInst} /\ interactive \in Inst \cup {NoInst}

RestTypes ==
  /\ site \in [Websites -> {"none", "preparing", "active", "reauth_required", "error"}]
  /\ session \in [Profiles -> {"in", "out"}]
  /\ lastShot \in [Profiles -> [site: Websites, profile: Profiles] \cup {NoShot}]
  /\ status \in {"stopped", "running", "interactive", "error"}
  /\ load \in Workloads

LEMMA TypeParts ==
  TypeOK <=> /\ ChromiumTypes /\ InstanceTypes /\ RestTypes
             /\ slots \in 0..MaxCaptures
             /\ req \in [Requests -> Request]
  BY DEF TypeOK, ChromiumTypes, InstanceTypes, RestTypes

LEMMA TypePartsNext ==
  TypeOK' <=> /\ ChromiumTypes' /\ InstanceTypes' /\ RestTypes'
              /\ slots' \in 0..MaxCaptures
              /\ req' \in [Requests -> Request]
  BY DEF TypeOK, ChromiumTypes, InstanceTypes, RestTypes

LEMMA NoneIsNone ==
  /\ None \notin Requests /\ None \notin Websites /\ None \notin Profiles
  /\ \A p \in Profiles : [profile |-> p] # NoProc
  BY BrowserAssumption DEF None, NoProc

-----------------------------------------------------------------------------
(* Where a request is                                                      *)

\* Which actions come to which place, and that they are about a website.
Fits(r) ==
  /\ r.pc # "idle" => r.site \in Websites
  /\ r.pc \in {"slot", "look", "shoot"} => r.action = "frame"
  /\ r.pc = "register" => r.action \in {"frame", "prepare"}
  /\ r.pc = "free" => r.action \in {"prepare", "clear"}
  /\ r.pc = "take" => r.action = "finish"
  /\ r.pc = "remove" => r.action = "clear"
  /\ r.pc = "judge" => r.action \in {"finish", "validate"}
  /\ r.action = "clear" => r.pc \in {"free", "remove", "record", "end"}

PlacesFit == \A h \in Requests : Fits(req[h])

\* Request h goes on to another place with what it is about.
Moved(h, pc) ==
  /\ req' \in [Requests -> Request]
  /\ PlacesFit'
  /\ \A g \in Requests : g # h => req'[g] = req[g]
  /\ req'[h].pc = pc
  /\ req'[h].action = req[h].action
  /\ req'[h].site = req[h].site

PCs == {"idle", "slot", "look", "launch", "wait", "register", "dial", "shoot", "judge",
        "free", "take", "remove", "record", "end"}

LEMMA Goes ==
  ASSUME req \in [Requests -> Request], PlacesFit, NEW h \in Requests, NEW pc \in PCs,
         NEW result \in {None, "fresh", "cached", "ok", "login", "error"},
         Goto(h, pc) \/ Result(h, pc, result),
         Fits([req[h] EXCEPT !.pc = pc])
  PROVE  Moved(h, pc)
<1>1. PICK r \in {[req[h] EXCEPT !.pc = pc], [req[h] EXCEPT !.pc = pc, !.result = result]} :
        req' = [req EXCEPT ![h] = r]
  BY DEF Goto, Result, Become
<1>2. /\ r \in Request /\ r.pc = pc
      /\ r.action = req[h].action /\ r.site = req[h].site
  BY DEF Request, PCs
<1>3. [req[h] EXCEPT !.pc = pc].pc = pc /\ [req[h] EXCEPT !.pc = pc].action = req[h].action
      /\ [req[h] EXCEPT !.pc = pc].site = req[h].site
  BY DEF Request
<1>4. Fits(r)
  BY <1>2, <1>3 DEF Fits
<1>5. /\ req' \in [Requests -> Request]
      /\ \A g \in Requests : g # h => req'[g] = req[g]
      /\ req'[h] = r
  BY <1>1, <1>2
<1>6. PlacesFit'
  BY <1>4, <1>5 DEF PlacesFit, Fits
<1> QED BY <1>2, <1>5, <1>6 DEF Moved

\* Where each step leads.
LEMMA StepsMove ==
  ASSUME req \in [Requests -> Request], PlacesFit, NEW h \in Requests
  PROVE  /\ Launch(h) => Moved(h, "wait")
         /\ DevToolsReady(h) => Moved(h, IF Doing(h, "frame") THEN "register" ELSE "dial")
         /\ FailLaunch(h) => Moved(h, "record")
         /\ Dial(h) => Moved(h, IF Doing(h, "prepare") THEN "register"
                               ELSE IF Doing(h, "frame") THEN "shoot" ELSE "judge")
         /\ AcquireCapture(h) => Moved(h, "look")
         /\ NoSlot(h) => Moved(h, "record")
         /\ Look(h) => Moved(h, IF interactive.profile = Profile(h) THEN "record"
                               ELSE IF capture.profile = Profile(h) THEN "dial" ELSE "launch")
         /\ RegisterCapture(h) => Moved(h, "dial")
         /\ ScreenshotJPEG(h) \/ FailCapture(h) => Moved(h, "record")
         /\ FreeProfile(h) => Moved(h, IF Doing(h, "clear") THEN "remove" ELSE "launch")
         /\ RegisterLogin(h) => Moved(h, "record")
         /\ SkipDial(h) => Moved(h, "register")
         /\ FinishLogin(h) => Moved(h, IF interactive = NoInst THEN "record" ELSE "launch")
         /\ Judge(h) \/ FailValidate(h) \/ RemoveProfile(h) => Moved(h, "record")
         /\ SetSessionState(h) => Moved(h, "end")
<1> DEFINE Cached == CachedOrErr(h)
           next(pc) == [req[h] EXCEPT !.pc = pc]
<1>1. /\ req[h] \in Request /\ Fits(req[h])
      /\ Cached \in {None, "fresh", "cached", "ok", "login", "error"}
  BY DEF PlacesFit, CachedOrErr
<1>2. ASSUME NEW pc \in PCs
      PROVE  next(pc).pc = pc /\ next(pc).action = req[h].action /\ next(pc).site = req[h].site
  BY <1>1 DEF Request
<1>3. ASSUME NEW pc \in {"wait", "register", "dial", "look", "launch", "shoot", "judge", "remove",
                         "record", "end"},
             req[h].pc # "idle",
             pc \in {"look", "shoot"} => req[h].action = "frame",
             pc = "register" => req[h].action \in {"frame", "prepare"},
             pc = "remove" => req[h].action = "clear",
             pc = "judge" => req[h].action \in {"finish", "validate"},
             req[h].action = "clear" => pc \in {"remove", "record", "end"}
      PROVE  Fits(next(pc)) /\ pc \in PCs
  BY <1>1, <1>2, <1>3 DEF Fits, PCs
<1> HIDE DEF next, Cached
<1>4. ASSUME NEW pc \in PCs, NEW result \in {None, "fresh", "cached", "ok", "login", "error"},
             Goto(h, pc) \/ Result(h, pc, result), Fits(next(pc))
      PROVE  Moved(h, pc)
  BY <1>4, Goes DEF next
<1>5. req[h].action \in {"frame", "prepare", "finish", "validate", "clear"}
  BY <1>1 DEF Request
<1>6. Launch(h) => Moved(h, "wait")
  BY <1>1, <1>3, <1>4, <1>5 DEF Launch, At, Fits
<1>7. DevToolsReady(h) => Moved(h, IF Doing(h, "frame") THEN "register" ELSE "dial")
  BY <1>1, <1>3, <1>4, <1>5 DEF DevToolsReady, At, Fits, Doing
<1>8. FailLaunch(h) => Moved(h, "record")
  BY <1>1, <1>3, <1>4, <1>5 DEF FailLaunch, At, Fits, Doing, Cached
<1>9. Dial(h) => Moved(h, IF Doing(h, "prepare") THEN "register"
                          ELSE IF Doing(h, "frame") THEN "shoot" ELSE "judge")
  BY <1>1, <1>3, <1>4, <1>5 DEF Dial, At, Fits, Doing
<1>10. AcquireCapture(h) => Moved(h, "look")
  BY <1>1, <1>3, <1>4, <1>5 DEF AcquireCapture, At, Fits
<1>11. NoSlot(h) => Moved(h, "record")
  BY <1>1, <1>3, <1>4, <1>5 DEF NoSlot, At, Fits, Cached
<1>12. Look(h) => Moved(h, IF interactive.profile = Profile(h) THEN "record"
                           ELSE IF capture.profile = Profile(h) THEN "dial" ELSE "launch")
  BY <1>1, <1>3, <1>4, <1>5 DEF Look, ReturnCached, At, Fits, Cached
<1>13. RegisterCapture(h) => Moved(h, "dial")
  BY <1>1, <1>3, <1>4, <1>5 DEF RegisterCapture, At, Fits, Doing
<1>14. ScreenshotJPEG(h) \/ FailCapture(h) => Moved(h, "record")
  BY <1>1, <1>3, <1>4, <1>5 DEF ScreenshotJPEG, FailCapture, ReturnCached, At, Fits, Cached
<1>15. FreeProfile(h) => Moved(h, IF Doing(h, "clear") THEN "remove" ELSE "launch")
  BY <1>1, <1>3, <1>4, <1>5 DEF FreeProfile, At, Fits, Doing
<1>16. RegisterLogin(h) => Moved(h, "record")
  BY <1>1, <1>3, <1>4, <1>5 DEF RegisterLogin, At, Fits
<1>17. SkipDial(h) => Moved(h, "register")
  BY <1>1, <1>3, <1>4, <1>5 DEF SkipDial, At, Fits, Doing
<1>18. FinishLogin(h) => Moved(h, IF interactive = NoInst THEN "record" ELSE "launch")
  BY <1>1, <1>3, <1>4, <1>5 DEF FinishLogin, At, Fits
<1>19. Judge(h) \/ FailValidate(h) \/ RemoveProfile(h) => Moved(h, "record")
  BY <1>1, <1>3, <1>4, <1>5 DEF Judge, FailValidate, RemoveProfile, At, Fits
<1>20. SetSessionState(h) => Moved(h, "end")
  BY <1>1, <1>3, <1>4, <1>5 DEF SetSessionState, At, Fits
<1> QED BY <1>6, <1>7, <1>8, <1>9, <1>10, <1>11, <1>12, <1>13, <1>14, <1>15, <1>16, <1>17, <1>18,
           <1>19, <1>20

\* A request begins where its action does, and ends with nothing.
Began(h, r) ==
  /\ r \in Request /\ Fits(r)
  /\ r.pc \in {"slot", "free", "take", "launch"} /\ (r.pc = "launch" => r.action = "validate")
  /\ req' = [req EXCEPT ![h] = r]

LEMMA RequestsBegin ==
  ASSUME TypeOK, NEW h \in Requests, NEW w \in Websites,
         Frame(h, w) \/ Prepare(h, w) \/ Finish(h, w) \/ Validate(h, w) \/ Clear(h, w)
  PROVE  /\ At(h, "idle")
         /\ UNCHANGED <<site, session, chromium, manager, load>>
         /\ \E r : Began(h, r)
<1>1. PICK action \in {"frame", "prepare", "finish", "validate", "clear"},
           pc \in {"slot", "free", "take", "launch"} :
        /\ Begin(h, action, w, pc)
        /\ action = "frame" => site[w] # "reauth_required" /\ pc = "slot"
        /\ action \in {"prepare", "clear"} => pc = "free"
        /\ action = "finish" => pc = "take"
        /\ action = "validate" => pc = "launch"
  BY DEF Frame, Prepare, Finish, Validate, Clear
<1> DEFINE seen == IF action = "frame" THEN site[w] ELSE "none"
           r == [pc |-> pc, action |-> action, site |-> w, seen |-> seen, result |-> None]
<1>3. seen \in {"none", "preparing", "active", "error"}
  BY <1>1 DEF TypeOK
<1>4. r \in Request
  BY <1>3 DEF Request
<1>5. Fits(r)
  BY <1>1 DEF Fits
<1>6. req' = [req EXCEPT ![h] = r]
  BY <1>1 DEF Begin, Become
<1>7. r.pc = pc /\ r.action = action
  OBVIOUS
<1> HIDE DEF r
<1>8. Began(h, r)
  BY <1>1, <1>4, <1>5, <1>6, <1>7 DEF Began
<1> QED BY <1>1, <1>8 DEF Begin

LEMMA IdleFits == Idle \in Request /\ Fits(Idle) /\ Idle.pc = "idle"
  BY DEF Idle, Request, Fits

-----------------------------------------------------------------------------
(* The capture slots                                                       *)

Inside(h) == /\ Doing(h, "frame")
             /\ req[h].pc \in {"look", "launch", "wait", "register", "dial", "shoot"}
Insiders == {h \in Requests : Inside(h)}

Counted == slots \in 0..MaxCaptures /\ SlotsReturned

LEMMA CountOf ==
  /\ SlotsReturned <=> slots = Cardinality(Insiders)
  /\ SlotsReturned' <=> slots' = Cardinality(Insiders')
  BY DEF SlotsReturned, Insiders, Inside

LEMMA InsidersFinite == IsFiniteSet(Insiders) /\ Cardinality(Insiders) \in Nat
  BY FS_Subset, FS_CardinalityType, BrowserAssumption DEF Insiders

\* Nobody goes in or out.
LEMMA SlotsKept ==
  ASSUME Counted, slots' = slots, \A h \in Requests : Inside(h)' <=> Inside(h)
  PROVE  Counted'
<1>1. Insiders' = Insiders
  BY DEF Insiders
<1> QED BY <1>1, CountOf DEF Counted

LEMMA SlotTaken ==
  ASSUME Counted, NEW h \in Requests, slots < MaxCaptures, slots' = slots + 1,
         ~Inside(h), Inside(h)', \A g \in Requests \ {h} : Inside(g)' <=> Inside(g)
  PROVE  Counted'
<1>1. Insiders' = Insiders \cup {h} /\ h \notin Insiders
  BY DEF Insiders
<1>2. Cardinality(Insiders') = Cardinality(Insiders) + 1
  BY <1>1, InsidersFinite, FS_AddElement
<1> QED BY <1>2, CountOf, BrowserAssumption DEF Counted

LEMMA SlotFreed ==
  ASSUME Counted, NEW h \in Requests, slots' = slots - 1,
         Inside(h), ~Inside(h)', \A g \in Requests \ {h} : Inside(g)' <=> Inside(g)
  PROVE  Counted'
<1>1. Insiders' = Insiders \ {h} /\ h \in Insiders
  BY DEF Insiders
<1>2. Cardinality(Insiders') = Cardinality(Insiders) - 1
  BY <1>1, InsidersFinite, FS_RemoveElement
<1>3. Cardinality(Insiders') \in Nat
  <2>1. IsFiniteSet(Insiders')
    BY <1>1, InsidersFinite, FS_RemoveElement
  <2> QED BY <2>1, FS_CardinalityType
<1> QED BY <1>2, <1>3, CountOf, BrowserAssumption DEF Counted

\* With one slot, one capture at most is underway.
LEMMA OneInside ==
  ASSUME Counted, MaxCaptures = 1, NEW g \in Requests, NEW h \in Requests, Inside(g), Inside(h)
  PROVE  g = h
<1> SUFFICES ASSUME g # h PROVE FALSE
  OBVIOUS
<1>1. {g, h} \subseteq Insiders
  BY DEF Insiders
<1>2. Cardinality({g}) = 1 /\ IsFiniteSet({g})
  BY FS_Singleton
<1>3. Cardinality({g} \cup {h}) = 2
  BY <1>2, FS_AddElement
<1>4. Cardinality({g} \cup {h}) <= Cardinality(Insiders)
  BY <1>1, InsidersFinite, FS_Subset
<1> QED BY <1>3, <1>4, InsidersFinite, CountOf DEF Counted

InsidePCs == {"look", "launch", "wait", "register", "dial", "shoot"}

LEMMA MovedInside ==
  ASSUME NEW h \in Requests, NEW pc, Moved(h, pc)
  PROVE  /\ \A g \in Requests \ {h} : Inside(g)' <=> Inside(g)
         /\ Inside(h)' <=> Doing(h, "frame") /\ pc \in InsidePCs
  BY DEF Moved, Inside, Doing, InsidePCs

\* What a step does to the slots is what it does to its request.
LEMMA CountedStep ==
  ASSUME req \in [Requests -> Request], PlacesFit, Counted, NEW h \in Requests, Step(h)
  PROVE  Counted'
<1> DEFINE Keeps == /\ slots' = slots
                    /\ \E pc : Moved(h, pc) /\ (Inside(h) <=> Doing(h, "frame") /\ pc \in InsidePCs)
           Frees == slots' = slots - 1 /\ Inside(h) /\ \E pc : Moved(h, pc) /\ pc \notin InsidePCs
<1>1. Keeps => Counted'
  <2> SUFFICES ASSUME slots' = slots, NEW pc, Moved(h, pc),
                      Inside(h) <=> Doing(h, "frame") /\ pc \in InsidePCs
               PROVE  Counted'
    OBVIOUS
  <2>1. \A g \in Requests : Inside(g)' <=> Inside(g)
    BY MovedInside
  <2> QED BY <2>1, SlotsKept
<1>2. Frees => Counted'
  BY MovedInside, SlotFreed
<1>3. Fits(req[h])
  BY DEF PlacesFit
<1>4. CASE Launch(h)
  <2>1. slots' = slots /\ At(h, "launch")
    BY <1>4 DEF Launch, manager
  <2>2. Moved(h, "wait")
    BY <1>4, StepsMove
  <2> QED BY <1>1, <2>1, <2>2 DEF Inside, InsidePCs, At
<1>5. CASE DevToolsReady(h)
  <2>1. slots' = slots /\ At(h, "wait")
    BY <1>5 DEF DevToolsReady, manager
  <2>2. Moved(h, IF Doing(h, "frame") THEN "register" ELSE "dial")
    BY <1>5, StepsMove
  <2> QED BY <1>1, <2>1, <2>2 DEF Inside, InsidePCs, At
<1>6. CASE FailLaunch(h)
  <2>1. /\ slots' = IF Doing(h, "frame") THEN slots - 1 ELSE slots
        /\ At(h, "launch") \/ At(h, "wait")
    BY <1>6 DEF FailLaunch
  <2>2. Moved(h, "record")
    BY <1>6, StepsMove
  <2> QED BY <1>1, <1>2, <2>1, <2>2 DEF Inside, InsidePCs, At
<1>7. CASE Dial(h)
  <2>1. slots' = slots /\ At(h, "dial")
    BY <1>7 DEF Dial, manager
  <2>2. Moved(h, IF Doing(h, "prepare") THEN "register" ELSE IF Doing(h, "frame") THEN "shoot" ELSE "judge")
    BY <1>7, StepsMove
  <2> QED BY <1>1, <2>1, <2>2 DEF Inside, InsidePCs, At, Doing
<1>8. CASE AcquireCapture(h)
  <2>1. slots' = slots + 1 /\ slots < MaxCaptures /\ At(h, "slot") /\ Doing(h, "frame")
    BY <1>3, <1>8 DEF AcquireCapture, Fits, At, Doing
  <2>2. Moved(h, "look")
    BY <1>8, StepsMove
  <2>3. Inside(h)' /\ ~Inside(h) /\ \A g \in Requests \ {h} : Inside(g)' <=> Inside(g)
    BY <2>1, <2>2, MovedInside DEF Inside, InsidePCs, At
  <2> QED BY <2>1, <2>3, SlotTaken
<1>9. CASE NoSlot(h)
  <2>1. slots' = slots /\ At(h, "slot")
    BY <1>9 DEF NoSlot, manager
  <2>2. Moved(h, "record")
    BY <1>9, StepsMove
  <2> QED BY <1>1, <2>1, <2>2 DEF Inside, InsidePCs, At
<1>10. CASE Look(h)
  <2>1. /\ slots' = IF interactive.profile = Profile(h) THEN slots - 1 ELSE slots
        /\ At(h, "look") /\ Doing(h, "frame")
    BY <1>3, <1>10 DEF Look, ReturnCached, manager, Fits, At, Doing
  <2>2. Moved(h, IF interactive.profile = Profile(h) THEN "record"
                 ELSE IF capture.profile = Profile(h) THEN "dial" ELSE "launch")
    BY <1>10, StepsMove
  <2> QED BY <1>1, <1>2, <2>1, <2>2 DEF Inside, InsidePCs, At
<1>11. CASE RegisterCapture(h)
  <2>1. slots' = slots /\ At(h, "register")
    BY <1>11 DEF RegisterCapture
  <2>2. Moved(h, "dial")
    BY <1>11, StepsMove
  <2> QED BY <1>1, <2>1, <2>2 DEF Inside, InsidePCs, At
<1>12. CASE ScreenshotJPEG(h) \/ FailCapture(h)
  <2>1. slots' = slots - 1 /\ (At(h, "dial") \/ At(h, "shoot")) /\ Doing(h, "frame")
    BY <1>3, <1>12 DEF ScreenshotJPEG, FailCapture, ReturnCached, Fits, At, Doing
  <2>2. Moved(h, "record")
    BY <1>12, StepsMove
  <2> QED BY <1>2, <2>1, <2>2 DEF Inside, InsidePCs, At
<1>13. CASE FreeProfile(h)
  <2>1. slots' = slots /\ At(h, "free") /\ ~Doing(h, "frame")
    BY <1>3, <1>13 DEF FreeProfile, Fits, At, Doing
  <2>2. Moved(h, IF Doing(h, "clear") THEN "remove" ELSE "launch")
    BY <1>13, StepsMove
  <2> QED BY <1>1, <2>1, <2>2 DEF Inside
<1>14. CASE RegisterLogin(h) \/ SkipDial(h)
  <2>1. slots' = slots /\ ~Doing(h, "frame")
    BY <1>14 DEF RegisterLogin, SkipDial, manager, Doing
  <2>2. \E pc : Moved(h, pc)
    BY <1>14, StepsMove
  <2> QED BY <1>1, <2>1, <2>2 DEF Inside
<1>15. CASE FinishLogin(h)
  <2>1. slots' = slots /\ ~Doing(h, "frame")
    BY <1>3, <1>15 DEF FinishLogin, Fits, At, Doing
  <2>2. \E pc : Moved(h, pc)
    BY <1>15, StepsMove
  <2> QED BY <1>1, <2>1, <2>2 DEF Inside
<1>16. CASE Judge(h) \/ FailValidate(h) \/ RemoveProfile(h)
  <2>1. slots' = slots /\ ~Doing(h, "frame")
    BY <1>3, <1>16 DEF Judge, FailValidate, RemoveProfile, manager, Fits, At, Doing
  <2>2. Moved(h, "record")
    BY <1>16, StepsMove
  <2> QED BY <1>1, <2>1, <2>2 DEF Inside
<1>17. CASE SetSessionState(h)
  <2>1. slots' = slots /\ At(h, "record")
    BY <1>17 DEF SetSessionState, manager
  <2>2. Moved(h, "end")
    BY <1>17, StepsMove
  <2> QED BY <1>1, <2>1, <2>2 DEF Inside, InsidePCs, At
<1>18. CASE End(h)
  <2>1. slots' = slots /\ At(h, "end") /\ req' = [req EXCEPT ![h] = Idle]
    BY <1>18 DEF End, Become
  <2>2. \A g \in Requests : Inside(g)' <=> Inside(g)
    BY <2>1, IdleFits DEF Inside, At, Doing
  <2> QED BY <2>1, <2>2, SlotsKept
<1> QED BY <1>4, <1>5, <1>6, <1>7, <1>8, <1>9, <1>10, <1>11, <1>12, <1>13, <1>14, <1>15, <1>16,
           <1>17, <1>18 DEF Step

-----------------------------------------------------------------------------
(* Chromiums, their ports and the registered instances                     *)

\* Until it launches a request has no Chromium.
Unborn == {"idle", "slot", "look", "launch", "free", "take", "remove"}

ChromiumFits ==
  /\ \A h \in Requests : req[h].pc \in Unborn => proc[h] = NoProc
  /\ \A h \in Requests : proc[h] # NoProc => proc[h] = [profile |-> Profile(h)]
  /\ \A u \in Ports : port[u] # None => Port(port[u]) = u
  /\ \A h \in Requests : conn[h] # None => proc[conn[h]] # NoProc /\ page[conn[h]] # None

\* After it has registered its Chromium.
Past(action) == IF action = "frame" THEN {"dial", "shoot", "record", "end"} ELSE {"record", "end"}

\* A registered Chromium is that of a request of its kind, and of the profile.
Registered(inst, action) ==
  inst.by # None => /\ Doing(inst.by, action)
                    /\ req[inst.by].pc \in Past(action)
                    /\ proc[inst.by] = [profile |-> inst.profile]

InstancesFit == Registered(capture, "frame") /\ Registered(interactive, "prepare")

\* When Chromiums end, what is left of the others is as it was.
LEMMA StopTypes ==
  ASSUME ChromiumTypes, NEW S, NEW C, Stop(S, C)
  PROVE  /\ ChromiumTypes'
         /\ \A g \in Requests : proc'[g] = IF g \in S THEN NoProc ELSE proc[g]
         /\ \A g \in Requests : page'[g] = IF g \in S THEN None ELSE page[g]
         /\ \A g \in Requests : conn'[g] = IF g \in C \/ conn[g] \in S THEN None ELSE conn[g]
         /\ \A u \in Ports : port'[u] = IF port[u] \in S THEN None ELSE port[u]
<1>1. /\ \A g \in Requests : proc'[g] = IF g \in S THEN NoProc ELSE proc[g]
      /\ \A g \in Requests : page'[g] = IF g \in S THEN None ELSE page[g]
      /\ \A g \in Requests : conn'[g] = IF g \in C \/ conn[g] \in S THEN None ELSE conn[g]
      /\ \A u \in Ports : port'[u] = IF port[u] \in S THEN None ELSE port[u]
  BY DEF ChromiumTypes, Stop
<1>2. /\ proc' \in [Requests -> [profile: Profiles] \cup {NoProc}]
      /\ page' \in [Requests -> Websites \cup {None}]
      /\ port' \in [Ports -> Requests \cup {None}]
      /\ conn' \in [Requests -> Requests \cup {None}]
  BY DEF ChromiumTypes, Stop
<1>3. \A u \in Ports : port'[u] # None => proc'[port'[u]] # NoProc
  BY <1>1 DEF ChromiumTypes
<1> QED BY <1>1, <1>2, <1>3 DEF ChromiumTypes

LEMMA InstanceParts ==
  ASSUME NEW inst \in Inst \cup {NoInst}
  PROVE  /\ inst.by \in Requests \cup {None}
         /\ inst.profile \in Profiles \cup {None}
         /\ inst.by # None => inst \in Inst
  BY DEF Inst, NoInst

LEMMA StoppedParts ==
  ASSUME NEW inst \in Inst \cup {NoInst}, NEW S
  PROVE  /\ Stopped(inst, S) \in Inst \cup {NoInst}
         /\ Stopped(inst, S).profile = inst.profile
         /\ Stopped(inst, S).by = IF inst.by \in S THEN None ELSE inst.by
  BY DEF Inst, NoInst, Stopped

\* Outside S, requests keep what they are about, and none goes back to before its launch,
\* or to before it registered.
Steady(S) ==
  \A g \in Requests \ S :
    /\ req'[g].action = req[g].action /\ req'[g].site = req[g].site
    /\ req'[g].pc \in Unborn => req[g].pc \in Unborn
    /\ req[g].pc \in Past(req[g].action) => req'[g].pc \in Past(req[g].action)

\* The Chromiums of the requests in S have ended.
Ended(S) ==
  /\ \A g \in Requests : proc'[g] = IF g \in S THEN NoProc ELSE proc[g]
  /\ \A g \in Requests : g \notin S => page'[g] = page[g]
  /\ \A u \in Ports : port'[u] # None => port'[u] = port[u] /\ port[u] \notin S
  /\ \A g \in Requests : conn'[g] # None => conn'[g] = conn[g] /\ conn[g] \notin S

LEMMA StopEnds ==
  ASSUME ChromiumTypes, NEW S, NEW C, Stop(S, C)
  PROVE  ChromiumTypes' /\ Ended(S)
<1>1. ChromiumTypes'
  BY StopTypes
<1>2. /\ \A g \in Requests : proc'[g] = IF g \in S THEN NoProc ELSE proc[g]
      /\ \A g \in Requests : page'[g] = IF g \in S THEN None ELSE page[g]
      /\ \A g \in Requests : conn'[g] = IF g \in C \/ conn[g] \in S THEN None ELSE conn[g]
      /\ \A u \in Ports : port'[u] = IF port[u] \in S THEN None ELSE port[u]
  BY StopTypes
<1> QED BY <1>1, <1>2 DEF Ended

LEMMA NothingEnds ==
  ASSUME ChromiumTypes, UNCHANGED chromium
  PROVE  ChromiumTypes' /\ Ended({})
  BY DEF ChromiumTypes, Ended, chromium

\* A request that has no Chromium may as well have lost it.
LEMMA NoneEnds ==
  ASSUME ChromiumTypes, ChromiumFits, UNCHANGED chromium, NEW h \in Requests, proc[h] = NoProc
  PROVE  ChromiumTypes' /\ Ended({h})
<1>1. ChromiumTypes'
  BY DEF ChromiumTypes, chromium
<1>2. \A u \in Ports : port[u] # h
  BY NoneIsNone DEF ChromiumTypes
<1>3. \A g \in Requests : conn[g] # h
  BY NoneIsNone DEF ChromiumFits
<1> QED BY <1>1, <1>2, <1>3 DEF Ended, chromium

LEMMA MovedSteady ==
  ASSUME NEW h \in Requests, NEW pc, Moved(h, pc), NEW S,
         pc \in Unborn => req[h].pc \in Unborn,
         req[h].pc \in Past(req[h].action) => pc \in Past(req[h].action)
  PROVE  Steady(S)
  BY DEF Moved, Steady

\* What holds of the Chromiums holds of those that are left.
LEMMA ChromiumKept ==
  ASSUME ChromiumTypes, ChromiumFits, NEW S, Steady(S), Ended(S)
  PROVE  ChromiumFits'
<1>1. ASSUME NEW g \in Requests, proc'[g] # NoProc
      PROVE  /\ g \notin S /\ proc'[g] = proc[g] /\ page'[g] = page[g]
             /\ req'[g].pc \notin Unborn
             /\ req'[g].action = req[g].action /\ req'[g].site = req[g].site
  <2>1. g \notin S /\ proc'[g] = proc[g] /\ page'[g] = page[g]
    BY <1>1 DEF Ended
  <2> QED BY <1>1, <2>1 DEF Steady, ChromiumFits
<1>2. \A g \in Requests : req'[g].pc \in Unborn => proc'[g] = NoProc
  BY <1>1
<1>3. \A g \in Requests : proc'[g] # NoProc => proc'[g] = [profile |-> ProfileOf[req'[g].site]]
  BY <1>1 DEF ChromiumFits, Profile
<1>4. ASSUME NEW u \in Ports, port'[u] # None PROVE Port(port[u])' = u /\ port'[u] = port[u]
  <2>1. port'[u] = port[u] /\ port[u] \notin S /\ port[u] \in Requests /\ Port(port[u]) = u
    BY <1>4 DEF Ended, ChromiumTypes, ChromiumFits
  <2>2. req'[port[u]].action = req[port[u]].action
    BY <2>1 DEF Steady
  <2>3. \A g \in Requests : req'[g].action = req[g].action =>
          (CASE req'[g].action = "frame" -> "capture" [] req'[g].action = "prepare" -> "login" [] OTHER -> "validate")
            = Port(g)
    BY DEF Port, Doing
  <2> QED BY <2>1, <2>2, <2>3 DEF Port, Doing
<1>5. ASSUME NEW g \in Requests, conn'[g] # None
      PROVE  proc'[conn'[g]] # NoProc /\ page'[conn'[g]] # None
  <2>1. conn'[g] = conn[g] /\ conn[g] \notin S /\ conn[g] \in Requests
    BY <1>5 DEF Ended, ChromiumTypes
  <2> QED BY <1>5, <2>1 DEF Ended, ChromiumFits
<1> QED BY <1>2, <1>3, <1>4, <1>5 DEF ChromiumFits, Profile

\* And of the registered instances.
LEMMA RegisteredKept ==
  ASSUME NEW inst \in Inst \cup {NoInst}, NEW action, Registered(inst, action), NEW S, Steady(S), Ended(S)
  PROVE  LET left == Stopped(inst, S)
         IN left.by # None => /\ req'[left.by].action = action
                              /\ req'[left.by].pc \in Past(action)
                              /\ proc'[left.by] = [profile |-> left.profile]
<1>1. /\ Stopped(inst, S).profile = inst.profile
      /\ Stopped(inst, S).by = IF inst.by \in S THEN None ELSE inst.by
      /\ inst.by \in Requests \cup {None}
  BY StoppedParts, InstanceParts
<1> SUFFICES ASSUME inst.by # None, inst.by \notin S
             PROVE  /\ req'[inst.by].action = action
                    /\ req'[inst.by].pc \in Past(action)
                    /\ proc'[inst.by] = [profile |-> inst.profile]
  BY <1>1
<1> QED BY <1>1 DEF Registered, Steady, Ended, Doing

LEMMA InstancesKept ==
  ASSUME InstanceTypes, InstancesFit, NEW S, Steady(S), Ended(S),
         capture' = Stopped(capture, S) \/ capture' = NoInst,
         interactive' = Stopped(interactive, S) \/ interactive' = NoInst
  PROVE  InstanceTypes' /\ InstancesFit'
<1>1. NoInst \in Inst \cup {NoInst} /\ NoInst.by = None
  BY DEF NoInst
<1>2. InstanceTypes'
  BY <1>1, StoppedParts DEF InstanceTypes
<1>3. capture'.by # None => /\ req'[capture'.by].action = "frame"
                           /\ req'[capture'.by].pc \in Past("frame")
                           /\ proc'[capture'.by] = [profile |-> capture'.profile]
  BY <1>1, RegisteredKept DEF InstanceTypes, InstancesFit
<1>4. interactive'.by # None => /\ req'[interactive'.by].action = "prepare"
                               /\ req'[interactive'.by].pc \in Past("prepare")
                               /\ proc'[interactive'.by] = [profile |-> interactive'.profile]
  BY <1>1, RegisteredKept DEF InstanceTypes, InstancesFit
<1> QED BY <1>2, <1>3, <1>4 DEF InstancesFit, Registered, Doing

\* A stopped instance that was not stopped is as it was.
LEMMA StoppedSame ==
  ASSUME NEW inst \in Inst \cup {NoInst}, NEW S, inst.by \notin S \/ inst.by = None
  PROVE  Stopped(inst, S) = inst
  BY DEF Stopped, Inst, NoInst

\* All that always holds of the Chromiums.
ChromiumSound == ChromiumTypes /\ InstanceTypes /\ ChromiumFits /\ InstancesFit

\* The registered instances are of different requests.
LEMMA InstancesApart ==
  ASSUME InstanceTypes, InstancesFit
  PROVE  /\ capture.by # None => capture.by # interactive.by
         /\ capture.by \in Requests \cup {None} /\ interactive.by \in Requests \cup {None}
  BY InstanceParts DEF InstanceTypes, InstancesFit, Registered, Doing

\* Steps that end the Chromiums in S, and the instances with them.
LEMMA SoundWhenEnded ==
  ASSUME ChromiumSound, ChromiumTypes', NEW S, Steady(S), Ended(S),
         capture' = Stopped(capture, S) \/ capture' = NoInst,
         interactive' = Stopped(interactive, S) \/ interactive' = NoInst
  PROVE  ChromiumSound'
  BY ChromiumKept, InstancesKept DEF ChromiumSound

LEMMA SoundWhenQuiet ==
  ASSUME ChromiumSound, Steady({}), UNCHANGED <<chromium, capture, interactive>>
  PROVE  ChromiumSound'
<1>1. ChromiumTypes' /\ Ended({})
  BY NothingEnds DEF ChromiumSound
<1>2. capture' = Stopped(capture, {}) /\ interactive' = Stopped(interactive, {})
  BY DEF Stopped
<1> QED BY <1>1, <1>2, SoundWhenEnded

LEMMA LaunchSound ==
  ASSUME TypeOK, PlacesFit, ChromiumSound, NEW h \in Requests, Launch(h)
  PROVE  ChromiumSound'
<1> USE DEF ChromiumSound
<1>1. /\ Moved(h, "wait") /\ At(h, "launch")
      /\ proc' = [proc EXCEPT ![h] = [profile |-> Profile(h)]]
      /\ port' = [port EXCEPT ![Port(h)] = IF @ = None THEN h ELSE @]
      /\ UNCHANGED <<page, conn, capture, interactive>>
  BY StepsMove DEF TypeOK, Launch, manager
<1>2. Profile(h) \in Profiles
  <2>1. req[h].site \in Websites
    BY <1>1 DEF PlacesFit, Fits, At
  <2> QED BY <2>1, BrowserAssumption DEF Profile
<1>3. proc[h] = NoProc
  BY <1>1 DEF ChromiumFits, Unborn, At
<1>4. /\ \A g \in Requests : g # h => proc'[g] = proc[g] /\ req'[g] = req[g]
      /\ proc'[h] = [profile |-> Profile(h)] /\ proc'[h] # NoProc
      /\ req'[h].pc = "wait" /\ req'[h].action = req[h].action /\ req'[h].site = req[h].site
  BY <1>1, <1>2, NoneIsNone DEF Moved, ChromiumTypes
<1>5. Port(h) \in Ports
  BY DEF Port, Ports
<1>6. \A u \in Ports : port'[u] = port[u] \/ (u = Port(h) /\ port'[u] = h)
  BY <1>1 DEF ChromiumTypes
<1>7. ChromiumTypes'
  <2>1. proc' \in [Requests -> [profile: Profiles] \cup {NoProc}]
    BY <1>1, <1>2 DEF ChromiumTypes
  <2>2. port' \in [Ports -> Requests \cup {None}]
    BY <1>1 DEF ChromiumTypes
  <2>3. \A u \in Ports : port'[u] # None => proc'[port'[u]] # NoProc
    BY <1>4, <1>6 DEF ChromiumTypes
  <2> QED BY <1>1, <2>1, <2>2, <2>3 DEF ChromiumTypes
<1>8. \A g \in Requests : Port(g)' = Port(g)
  BY <1>4 DEF Port, Doing
<1>9. ChromiumFits'
  <2>1. \A g \in Requests : req'[g].pc \in Unborn => proc'[g] = NoProc
    BY <1>4 DEF ChromiumFits, Unborn
  <2>2. \A g \in Requests : proc'[g] # NoProc => proc'[g] = [profile |-> ProfileOf[req'[g].site]]
    BY <1>4 DEF ChromiumFits, Profile
  <2>3. ASSUME NEW u \in Ports, port'[u] # None PROVE Port(port'[u]) = u /\ port'[u] \in Requests
    BY <1>6, <2>3 DEF ChromiumFits, ChromiumTypes
  <2>4. \A u \in Ports : port'[u] # None => Port(port[u])' = u
    BY <1>8, <2>3, <1>4 DEF Port, Doing
  <2>5. \A g \in Requests : conn'[g] # None => proc'[conn'[g]] # NoProc /\ page'[conn'[g]] # None
    BY <1>1, <1>4 DEF ChromiumFits, ChromiumTypes
  <2> QED BY <2>1, <2>2, <2>4, <2>5 DEF ChromiumFits, Profile
<1>10. capture.by # h /\ interactive.by # h
  <2>1. h # None
    BY NoneIsNone
  <2> QED BY <1>1, <2>1 DEF InstancesFit, Registered, Past, At
<1>11. InstancesFit'
  BY <1>1, <1>4, <1>10, InstancesApart DEF InstancesFit, Registered, Doing
<1> QED BY <1>1, <1>7, <1>9, <1>11 DEF InstanceTypes

LEMMA DialSound ==
  ASSUME TypeOK, PlacesFit, ChromiumSound, NEW h \in Requests, Dial(h)
  PROVE  ChromiumSound'
<1> USE DEF ChromiumSound
<1> DEFINE t == port[Port(h)]
           pc == IF Doing(h, "prepare") THEN "register" ELSE IF Doing(h, "frame") THEN "shoot" ELSE "judge"
<1>1. /\ Moved(h, pc) /\ At(h, "dial")
      /\ t # None
      /\ page' = [page EXCEPT ![t] = req[h].site]
      /\ conn' = conn \/ conn' = [conn EXCEPT ![h] = t]
      /\ UNCHANGED <<proc, port, capture, interactive>>
  BY StepsMove DEF TypeOK, Dial, manager
<1>2. t \in Requests /\ proc[t] # NoProc
  BY <1>1 DEF ChromiumTypes, Port, Ports
<1>3. req[h].site \in Websites
  BY <1>1 DEF PlacesFit, Fits, At
<1>4. /\ page' \in [Requests -> Websites \cup {None}]
      /\ conn' \in [Requests -> Requests \cup {None}]
      /\ page'[t] # None
      /\ \A g \in Requests : g # t => page'[g] = page[g]
      /\ \A g \in Requests : conn'[g] = conn[g] \/ conn'[g] = t
  BY <1>1, <1>2, <1>3, NoneIsNone DEF ChromiumTypes
<1> HIDE DEF t
<1>5. ChromiumTypes'
  BY <1>1, <1>4 DEF ChromiumTypes
<1>6. Steady({})
  <2>1. pc \notin Unborn /\ (req[h].pc \in Past(req[h].action) => pc \in Past(req[h].action))
    BY <1>1 DEF Unborn, Past, At, Doing
  <2> HIDE DEF pc
  <2> QED BY <1>1, <2>1, MovedSteady
<1>7. ChromiumFits'
  <2>1. \A g \in Requests : req'[g].pc \in Unborn => proc'[g] = NoProc
    BY <1>1, <1>6 DEF ChromiumFits, Steady
  <2>2. \A g \in Requests : proc'[g] # NoProc => proc'[g] = [profile |-> ProfileOf[req'[g].site]]
    BY <1>1, <1>6 DEF ChromiumFits, Steady, Profile
  <2>3. ASSUME NEW u \in Ports, port'[u] # None PROVE Port(port[u])' = u
    <3>1. port[u] # None /\ port[u] \in Requests /\ Port(port[u]) = u
      BY <1>1, <2>3 DEF ChromiumFits, ChromiumTypes
    <3>2. req'[port[u]].action = req[port[u]].action /\ port' = port
      BY <1>1, <1>6, <3>1 DEF Steady
    <3> QED BY <3>1, <3>2 DEF Port, Doing
  <2>4. \A g \in Requests : conn'[g] # None => proc'[conn'[g]] # NoProc /\ page'[conn'[g]] # None
    BY <1>1, <1>2, <1>4 DEF ChromiumFits, ChromiumTypes
  <2> QED BY <1>1, <2>1, <2>2, <2>3, <2>4 DEF ChromiumFits, Profile
<1>8. InstancesFit'
  BY <1>1, <1>6, InstancesApart DEF InstancesFit, Registered, Doing, Steady
<1> QED BY <1>1, <1>5, <1>7, <1>8 DEF InstanceTypes

LEMMA RegisterCaptureSound ==
  ASSUME TypeOK, PlacesFit, ChromiumSound, NEW h \in Requests, RegisterCapture(h)
  PROVE  ChromiumSound'
<1> USE DEF ChromiumSound
<1> DEFINE S == {capture.by}
<1>1. /\ Moved(h, "dial") /\ At(h, "register") /\ Doing(h, "frame")
      /\ Stop(S, {})
      /\ capture' = [profile |-> Profile(h), by |-> IF proc[h] = NoProc THEN None ELSE h]
      /\ interactive' = Stopped(interactive, S)
  BY StepsMove DEF TypeOK, RegisterCapture
<1>2. h \notin S
  <2>1. h # None
    BY NoneIsNone
  <2> QED BY <1>1, <2>1 DEF InstancesFit, Registered, Past, At
<1>3. Steady(S)
  BY <1>1, MovedSteady DEF Unborn, Past, At
<1>4. ChromiumTypes' /\ Ended(S)
  BY <1>1, StopEnds
<1>5. ChromiumFits'
  BY <1>3, <1>4, ChromiumKept
<1>6. Profile(h) \in Profiles
  <2>1. req[h].site \in Websites
    BY <1>1 DEF PlacesFit, Fits, At
  <2> QED BY <2>1, BrowserAssumption DEF Profile
<1>7. capture' \in Inst \cup {NoInst} /\ interactive' \in Inst \cup {NoInst}
  BY <1>1, <1>6, StoppedParts DEF InstanceTypes, Inst
<1>8. /\ capture'.profile = Profile(h)
      /\ capture'.by = IF proc[h] = NoProc THEN None ELSE h
  BY <1>1
<1>9. Registered(capture, "frame")'
  <2>1. proc'[h] = proc[h] /\ (proc[h] # NoProc => proc[h] = [profile |-> Profile(h)])
    BY <1>2, <1>4 DEF Ended, ChromiumFits
  <2>2. req'[h].pc = "dial" /\ req'[h].action = "frame"
    BY <1>1 DEF Moved, Doing
  <2> QED BY <1>8, <2>1, <2>2 DEF Registered, Past, Doing
<1>10. Registered(interactive, "prepare")'
  BY <1>1, <1>3, <1>4, RegisteredKept DEF InstanceTypes, InstancesFit, Registered, Doing
<1> QED BY <1>4, <1>5, <1>7, <1>9, <1>10 DEF InstanceTypes, InstancesFit

LEMMA RegisterLoginSound ==
  ASSUME TypeOK, PlacesFit, ChromiumSound, NEW h \in Requests, RegisterLogin(h)
  PROVE  ChromiumSound'
<1> USE DEF ChromiumSound
<1>1. /\ Moved(h, "record") /\ At(h, "register") /\ Doing(h, "prepare")
      /\ interactive' = [profile |-> Profile(h), by |-> IF proc[h] = NoProc THEN None ELSE h]
      /\ UNCHANGED <<chromium, capture>>
  BY StepsMove DEF TypeOK, RegisterLogin
<1>2. ChromiumTypes' /\ Ended({})
  BY <1>1, NothingEnds
<1>3. Steady({})
  BY <1>1, MovedSteady DEF Unborn, Past, At
<1>4. ChromiumFits'
  BY <1>2, <1>3, ChromiumKept
<1>5. Profile(h) \in Profiles
  <2>1. req[h].site \in Websites
    BY <1>1 DEF PlacesFit, Fits, At
  <2> QED BY <2>1, BrowserAssumption DEF Profile
<1>6. InstanceTypes'
  BY <1>1, <1>5 DEF InstanceTypes, Inst
<1>7. interactive'.profile = Profile(h) /\ interactive'.by = IF proc[h] = NoProc THEN None ELSE h
  BY <1>1
<1>8. Registered(interactive, "prepare")'
  <2>1. proc'[h] = proc[h] /\ (proc[h] # NoProc => proc[h] = [profile |-> Profile(h)])
    BY <1>1 DEF chromium, ChromiumFits
  <2>2. req'[h].pc = "record" /\ req'[h].action = "prepare"
    BY <1>1 DEF Moved, Doing
  <2> QED BY <1>7, <2>1, <2>2 DEF Registered, Past, Doing
<1>9. Registered(capture, "frame")'
  <2>1. Stopped(capture, {}) = capture
    BY DEF Stopped
  <2> QED BY <1>1, <1>2, <1>3, <2>1, RegisteredKept DEF InstanceTypes, InstancesFit, Registered, Doing
<1> QED BY <1>2, <1>4, <1>6, <1>8, <1>9 DEF InstancesFit

LEMMA FreeProfileSound ==
  ASSUME TypeOK, PlacesFit, ChromiumSound, NEW h \in Requests, FreeProfile(h)
  PROVE  ChromiumSound'
<1> USE DEF ChromiumSound
<1> DEFINE p == Profile(h)
           endCapture == capture.profile = p
           endLogin == Doing(h, "prepare") \/ interactive.profile = p
           S == {i.by : i \in (IF endCapture THEN {capture} ELSE {}) \cup (IF endLogin THEN {interactive} ELSE {})}
           pc == IF Doing(h, "clear") THEN "remove" ELSE "launch"
<1>1. /\ Moved(h, pc) /\ At(h, "free")
      /\ Stop(S, {})
      /\ capture' = IF endCapture THEN NoInst ELSE capture
      /\ interactive' = IF endLogin THEN NoInst ELSE interactive
  BY StepsMove DEF TypeOK, FreeProfile
<1>2. /\ ~endCapture => capture.by \notin S \/ capture.by = None
      /\ ~endLogin => interactive.by \notin S \/ interactive.by = None
  BY InstancesApart
<1>3. /\ ~endCapture => Stopped(capture, S) = capture
      /\ ~endLogin => Stopped(interactive, S) = interactive
  <2> HIDE DEF S
  <2> QED BY <1>2, StoppedSame DEF InstanceTypes
<1> HIDE DEF S, endCapture, endLogin
<1>4. ChromiumTypes' /\ Ended(S)
  BY <1>1, StopEnds
<1>5. Steady(S)
  <2>1. pc \in Unborn /\ req[h].pc \in Unborn /\ req[h].pc \notin Past(req[h].action)
    BY <1>1 DEF Unborn, Past, At
  <2> HIDE DEF pc
  <2> QED BY <1>1, <2>1, MovedSteady
<1> QED BY <1>1, <1>3, <1>4, <1>5, SoundWhenEnded

LEMMA FinishLoginSound ==
  ASSUME TypeOK, PlacesFit, ChromiumSound, NEW h \in Requests, FinishLogin(h)
  PROVE  ChromiumSound'
<1> USE DEF ChromiumSound
<1> DEFINE pc == IF interactive = NoInst THEN "record" ELSE "launch"
<1>1. /\ Moved(h, pc) /\ At(h, "take")
      /\ interactive' = NoInst
      /\ capture' = Stopped(capture, {interactive.by})
  BY StepsMove DEF TypeOK, FinishLogin
<1>2. \A S : Steady(S)
  <2>1. pc \in Unborn => req[h].pc \in Unborn
    BY <1>1 DEF Unborn, At
  <2>2. req[h].pc \notin Past(req[h].action)
    BY <1>1 DEF Past, At
  <2> HIDE DEF pc
  <2> QED BY <1>1, <2>1, <2>2, MovedSteady
<1>3. CASE interactive = NoInst
  <2>1. UNCHANGED chromium
    BY <1>3 DEF FinishLogin
  <2>2. ChromiumTypes' /\ Ended({})
    BY <2>1, NothingEnds
  <2>3. capture' = Stopped(capture, {})
    <3>1. interactive.by = None
      BY <1>3 DEF NoInst
    <3>2. Stopped(capture, {interactive.by}) = capture
      BY <3>1, StoppedSame DEF InstanceTypes
    <3> QED BY <1>1, <3>2 DEF Stopped
  <2> QED BY <1>1, <1>2, <2>2, <2>3, SoundWhenEnded
<1>4. CASE interactive # NoInst
  <2>1. Stop({interactive.by}, {})
    BY <1>4 DEF FinishLogin
  <2>2. ChromiumTypes' /\ Ended({interactive.by})
    BY <2>1, StopEnds
  <2> QED BY <1>1, <1>2, <2>2, SoundWhenEnded
<1> QED BY <1>3, <1>4

\* The request's own Chromium ends.
LEMMA OwnEndSound ==
  ASSUME TypeOK, PlacesFit, ChromiumSound, NEW h \in Requests,
         FailLaunch(h) \/ Judge(h) \/ FailValidate(h) \/ End(h)
  PROVE  ChromiumSound'
<1> USE DEF ChromiumSound
<1>1. Stop({h}, {h})
  BY DEF FailLaunch, Judge, FailValidate, End
<1>2. ChromiumTypes' /\ Ended({h})
  BY <1>1, StopEnds
<1>3. Steady({h})
  <2>1. \A g \in Requests : g # h => req'[g] = req[g]
    <3>1. End(h) => req' = [req EXCEPT ![h] = Idle]
      BY DEF End, Become
    <3> QED BY <3>1, StepsMove DEF TypeOK, Moved
  <2> QED BY <2>1 DEF Steady
<1>4. capture' = Stopped(capture, {h}) /\ interactive' = Stopped(interactive, {h})
  <2>1. CASE FailLaunch(h) \/ End(h)
    BY <2>1 DEF FailLaunch, End
  <2>2. CASE Judge(h) \/ FailValidate(h)
    <3>1. UNCHANGED <<capture, interactive>> /\ req[h].action \in {"finish", "validate"}
      BY <2>2 DEF Judge, FailValidate, manager, PlacesFit, Fits, At, Doing
    <3>2. capture.by # h /\ interactive.by # h
      <4>1. h # None
        BY NoneIsNone
      <4> QED BY <3>1, <4>1 DEF InstancesFit, Registered, Doing
    <3> QED BY <3>1, <3>2, StoppedSame DEF InstanceTypes
  <2> QED BY <2>1, <2>2
<1> QED BY <1>2, <1>3, <1>4, SoundWhenEnded

\* A capture is over: its connection is closed.
LEMMA CaptureEndSound ==
  ASSUME TypeOK, PlacesFit, ChromiumSound, NEW h \in Requests, ScreenshotJPEG(h) \/ FailCapture(h)
  PROVE  ChromiumSound'
<1> USE DEF ChromiumSound
<1>1. /\ Moved(h, "record") /\ Doing(h, "frame")
      /\ conn' = [conn EXCEPT ![h] = None]
      /\ UNCHANGED <<proc, page, port, capture, interactive>>
  BY StepsMove DEF TypeOK, ScreenshotJPEG, FailCapture, ReturnCached, PlacesFit, Fits, At, Doing
<1>2. ChromiumTypes' /\ Ended({})
  BY <1>1 DEF ChromiumTypes, Ended
<1>3. Steady({})
  BY <1>1, MovedSteady DEF Unborn, Past, Doing
<1>4. capture' = Stopped(capture, {}) /\ interactive' = Stopped(interactive, {})
  BY <1>1 DEF Stopped
<1> QED BY <1>2, <1>3, <1>4, SoundWhenEnded

LEMMA QuietSound ==
  ASSUME TypeOK, PlacesFit, ChromiumSound, NEW h \in Requests,
         \/ DevToolsReady(h) \/ AcquireCapture(h) \/ NoSlot(h) \/ Look(h)
         \/ SkipDial(h) \/ RemoveProfile(h) \/ SetSessionState(h)
  PROVE  ChromiumSound'
<1>1. UNCHANGED <<chromium, capture, interactive>>
  BY DEF DevToolsReady, AcquireCapture, NoSlot, Look, ReturnCached, SkipDial, RemoveProfile,
         SetSessionState, manager
<1>2. PICK pc : /\ Moved(h, pc)
                /\ pc \in Unborn => req[h].pc \in Unborn
                /\ req[h].pc \in Past(req[h].action) => pc \in Past(req[h].action)
  <2>1. CASE DevToolsReady(h)
    <3>1. At(h, "wait") /\ \E pc \in {"register", "dial"} : Moved(h, pc)
      BY <2>1, StepsMove DEF TypeOK, DevToolsReady
    <3> QED BY <3>1 DEF Unborn, Past, At
  <2>2. CASE AcquireCapture(h) \/ NoSlot(h)
    <3>1. At(h, "slot") /\ \E pc \in {"look", "record"} : Moved(h, pc)
      BY <2>2, StepsMove DEF TypeOK, AcquireCapture, NoSlot
    <3> QED BY <3>1 DEF Unborn, Past, At
  <2>3. CASE Look(h)
    <3>1. At(h, "look") /\ \E pc \in {"record", "dial", "launch"} : Moved(h, pc)
      BY <2>3, StepsMove DEF TypeOK, Look
    <3> QED BY <3>1 DEF Unborn, Past, At
  <2>4. CASE SkipDial(h)
    <3>1. At(h, "dial") /\ Doing(h, "prepare") /\ Moved(h, "register")
      BY <2>4, StepsMove DEF TypeOK, SkipDial
    <3> QED BY <3>1 DEF Unborn, Past, At, Doing
  <2>5. CASE RemoveProfile(h)
    <3>1. At(h, "remove") /\ Moved(h, "record")
      BY <2>5, StepsMove DEF TypeOK, RemoveProfile
    <3> QED BY <3>1 DEF Unborn, Past, At
  <2>6. CASE SetSessionState(h)
    <3>1. At(h, "record") /\ Moved(h, "end")
      BY <2>6, StepsMove DEF TypeOK, SetSessionState
    <3> QED BY <3>1 DEF Unborn, Past, At
  <2> QED BY <2>1, <2>2, <2>3, <2>4, <2>5, <2>6
<1>3. Steady({})
  BY <1>2, MovedSteady
<1> QED BY <1>1, <1>3, SoundWhenQuiet

LEMMA ChromiumSoundStep ==
  ASSUME TypeOK, PlacesFit, ChromiumSound, NEW h \in Requests, Step(h)
  PROVE  ChromiumSound'
  BY LaunchSound, DialSound, RegisterCaptureSound, RegisterLoginSound, FreeProfileSound,
     FinishLoginSound, OwnEndSound, CaptureEndSound, QuietSound DEF Step

-----------------------------------------------------------------------------
(* The inductive invariant                                                 *)

LEMMA RestTypesStep ==
  ASSUME TypeOK, PlacesFit, ChromiumSound, NEW h \in Requests, Step(h)
  PROVE  RestTypes'
<1> USE DEF TypeOK
<1>1. req[h].pc # "idle" => req[h].site \in Websites /\ Profile(h) \in Profiles
  BY BrowserAssumption DEF PlacesFit, Fits, Profile
<1>2. CASE ScreenshotJPEG(h)
  <2> DEFINE t == conn[h]
             shot == [site |-> page[t], profile |-> proc[t].profile]
  <2>1. /\ t # None /\ At(h, "shoot")
        /\ lastShot' = [lastShot EXCEPT ![Profile(h)] = shot]
        /\ UNCHANGED <<site, session, status, load>>
    BY <1>2 DEF ScreenshotJPEG
  <2>2. t \in Requests /\ page[t] \in Websites /\ proc[t] \in [profile: Profiles]
    BY <2>1 DEF ChromiumSound, ChromiumFits
  <2>3. shot \in [site: Websites, profile: Profiles]
    BY <2>2
  <2> HIDE DEF shot
  <2> QED BY <1>1, <2>1, <2>3 DEF RestTypes
<1>3. CASE FreeProfile(h)
  <2>1. /\ lastShot' = lastShot \/ lastShot' = [lastShot EXCEPT ![Profile(h)] = NoShot]
        /\ UNCHANGED <<site, session, status, load>>
    BY <1>3 DEF FreeProfile
  <2> QED BY <2>1 DEF RestTypes
<1>4. CASE RemoveProfile(h)
  BY <1>4 DEF RemoveProfile, RestTypes, manager
<1>5. CASE SetSessionState(h)
  <2>1. At(h, "record") /\ site' = [site EXCEPT ![req[h].site] = NewState(h)]
        /\ UNCHANGED <<session, lastShot, status, load>>
    BY <1>5 DEF SetSessionState, manager
  <2>2. NewState(h) \in {"none", "preparing", "active", "reauth_required", "error"}
    <3>1. req[h].site \in Websites
      BY <1>1, <2>1 DEF At
    <3> QED BY <3>1 DEF NewState
  <2> QED BY <2>1, <2>2 DEF RestTypes
<1>6. CASE FailLaunch(h)
  BY <1>6 DEF FailLaunch, RestTypes
<1>7. CASE RegisterCapture(h) \/ RegisterLogin(h)
  BY <1>7 DEF RegisterCapture, RegisterLogin, RestTypes
<1>8. CASE FinishLogin(h)
  BY <1>8 DEF FinishLogin, RestTypes
<1>9. CASE \/ Launch(h) \/ DevToolsReady(h) \/ Dial(h) \/ AcquireCapture(h) \/ NoSlot(h) \/ Look(h)
           \/ FailCapture(h) \/ SkipDial(h) \/ Judge(h) \/ FailValidate(h) \/ End(h)
  <2>1. UNCHANGED <<site, session, lastShot, status, load>>
    BY <1>9 DEF Launch, DevToolsReady, Dial, AcquireCapture, NoSlot, Look, ReturnCached, FailCapture,
                SkipDial, Judge, FailValidate, End, manager
  <2> QED BY <2>1 DEF RestTypes
<1> QED BY <1>2, <1>3, <1>4, <1>5, <1>6, <1>7, <1>8, <1>9 DEF Step

BrowserInv == TypeOK /\ PlacesFit /\ Counted /\ ChromiumSound

LEMMA InitBrowserInv == Init => BrowserInv
<1> SUFFICES ASSUME Init PROVE BrowserInv
  OBVIOUS
<1> USE DEF Init
<1>1. req \in [Requests -> Request] /\ PlacesFit
  BY IdleFits DEF PlacesFit
<1>2. Counted
  <2>1. Insiders = {}
    BY IdleFits DEF Insiders, Inside, Doing
  <2> QED BY <2>1, CountOf, FS_EmptySet, BrowserAssumption DEF Counted
<1>3. ChromiumTypes /\ InstanceTypes /\ RestTypes
  BY DEF ChromiumTypes, InstanceTypes, RestTypes
<1>4. ChromiumFits /\ InstancesFit
  BY DEF ChromiumFits, InstancesFit, Registered, NoInst
<1> QED BY <1>1, <1>2, <1>3, <1>4, TypeParts DEF BrowserInv, ChromiumSound, Counted

\* A request begins, of any action.
LEMMA BeginKeeps ==
  ASSUME BrowserInv, NEW h \in Requests, NEW w \in Websites,
         Frame(h, w) \/ Prepare(h, w) \/ Finish(h, w) \/ Validate(h, w) \/ Clear(h, w)
  PROVE  BrowserInv'
<1> USE DEF BrowserInv
<1>1. PICK r : /\ At(h, "idle") /\ Began(h, r)
               /\ UNCHANGED <<site, session, chromium, manager, load>>
  BY RequestsBegin
<1>2. /\ req' \in [Requests -> Request]
      /\ req'[h] = r
      /\ \A g \in Requests : g # h => req'[g] = req[g]
  BY <1>1 DEF Began, TypeOK
<1>3. PlacesFit'
  BY <1>1, <1>2 DEF Began, PlacesFit, Fits
<1>4. Counted'
  <2>1. \A g \in Requests : Inside(g)' <=> Inside(g)
    BY <1>1, <1>2 DEF Began, Inside, At, Doing
  <2> QED BY <1>1, <2>1, SlotsKept DEF manager
<1>5. proc[h] = NoProc
  BY <1>1 DEF At, ChromiumSound, ChromiumFits, Unborn
<1>6. ChromiumTypes' /\ Ended({h})
  BY <1>1, <1>5, NoneEnds DEF ChromiumSound
<1>7. Steady({h})
  BY <1>2 DEF Steady
<1>8. capture' = Stopped(capture, {h}) /\ interactive' = Stopped(interactive, {h})
  <2>1. UNCHANGED <<capture, interactive>>
    BY <1>1 DEF manager
  <2>2. capture.by # h /\ interactive.by # h
    <3>1. h # None /\ req[h].pc = "idle"
      BY <1>1, NoneIsNone DEF At
    <3> QED BY <3>1 DEF ChromiumSound, InstancesFit, Registered, Past
  <2> QED BY <2>1, <2>2, StoppedSame DEF ChromiumSound, InstanceTypes
<1>9. ChromiumSound'
  BY <1>6, <1>7, <1>8, SoundWhenEnded
<1>10. RestTypes'
  BY <1>1, TypeParts DEF RestTypes, manager
<1>11. TypeOK'
  BY <1>2, <1>4, <1>9, <1>10, TypePartsNext DEF ChromiumSound, Counted
<1> QED BY <1>3, <1>4, <1>9, <1>11

LEMMA BrowserInvStep == BrowserInv /\ [Next]_vars => BrowserInv'
<1> SUFFICES ASSUME BrowserInv, [Next]_vars PROVE BrowserInv'
  OBVIOUS
<1> USE DEF BrowserInv
<1>1. ASSUME NEW h \in Requests, Step(h) PROVE BrowserInv'
  <2>1. Counted' /\ ChromiumSound' /\ RestTypes'
    BY <1>1, CountedStep, ChromiumSoundStep, RestTypesStep DEF TypeOK
  <2>2. req' \in [Requests -> Request] /\ PlacesFit'
    <3>1. CASE End(h)
      <4>1. req' = [req EXCEPT ![h] = Idle]
        BY <3>1 DEF End, Become
      <4> QED BY <4>1, IdleFits DEF TypeOK, PlacesFit, Fits
    <3>2. CASE ~End(h)
      <4>1. \E pc : Moved(h, pc)
        BY <1>1, <3>2, StepsMove DEF Step, TypeOK
      <4> QED BY <4>1 DEF Moved
    <3> QED BY <3>1, <3>2
  <2> QED BY <2>1, <2>2, TypePartsNext DEF ChromiumSound, Counted
<1>2. ASSUME UNCHANGED <<site, chromium, manager, req, load>>,
             session' \in [Profiles -> {"in", "out"}]
      PROVE  BrowserInv'
  <2>1. ChromiumSound'
    <3>1. UNCHANGED <<proc, page, port, conn, capture, interactive, req>>
      BY <1>2 DEF chromium, manager
    <3>2. Steady({})
      BY <3>1 DEF Steady
    <3> QED BY <3>1, <3>2, SoundWhenQuiet DEF chromium
  <2>2. Counted'
    BY <1>2, SlotsKept DEF Inside, Doing, manager
  <2>3. RestTypes' /\ req' \in [Requests -> Request] /\ PlacesFit'
    BY <1>2 DEF TypeOK, RestTypes, PlacesFit, Fits, manager
  <2> QED BY <2>1, <2>2, <2>3, TypePartsNext DEF ChromiumSound, Counted
<1>3. ASSUME NEW h \in Requests, LogIn(h) PROVE BrowserInv'
  BY <1>2, <1>3 DEF LogIn, TypeOK
<1>4. ASSUME NEW p \in Profiles, Expire(p) PROVE BrowserInv'
  BY <1>2, <1>4 DEF Expire, TypeOK
<1>5. CASE UNCHANGED vars
  BY <1>2, <1>5 DEF vars, TypeOK
<1> QED BY <1>1, <1>3, <1>4, <1>5, BeginKeeps DEF Next

\* The invariant holds in every state, however the requests interleave.
THEOREM BrowserIsSound == Spec => []BrowserInv
  BY InitBrowserInv, BrowserInvStep, PTL DEF Spec

\* A port never stays with a Chromium that has ended, a frame is of some website and
\* profile, and there are never more captures than slots.
THEOREM BrowserTypes == Spec => []TypeOK
<1>1. BrowserInv => TypeOK
  BY DEF BrowserInv
<1> QED BY BrowserIsSound, <1>1, PTL

\* SlotsReturned: whichever way a capture ends, it gives back its slot, once.
THEOREM SlotsAreReturned == Spec => []SlotsReturned
<1>1. BrowserInv => SlotsReturned
  BY DEF BrowserInv, Counted
<1> QED BY BrowserIsSound, <1>1, PTL

-----------------------------------------------------------------------------
(* One slot, which is what the program has: captures take turns            *)

OneSlot == MaxCaptures = 1

\* The Chromium of a capture is the registered one from its registration on; a capture
\* that goes to the port finds one of its profile, and its page is its own.
TurnsTaken ==
  /\ \A h \in Requests :
       Doing(h, "frame") /\ proc[h] # NoProc /\ req[h].pc \in Past("frame") => capture.by = h
  /\ \A h \in Requests :
       Doing(h, "frame") /\ At(h, "dial") /\ capture.by # None => capture.profile = Profile(h)
  /\ \A h \in Requests :
       At(h, "shoot") /\ conn[h] # None =>
         /\ Doing(conn[h], "frame")
         /\ proc[conn[h]] = [profile |-> Profile(h)]
         /\ page[conn[h]] = req[h].site

ShotsOwn == \A p \in Profiles : lastShot[p] # NoShot => lastShot[p].profile = p

\* Steps that open no page and register no capture.
LEMMA TurnsKept ==
  ASSUME BrowserInv, TurnsTaken, NEW S, Steady(S), Ended(S),
         capture' = Stopped(capture, S) \/ (capture' = NoInst /\ capture.by \in S \cup {None}),
         \A g \in Requests :
           g \notin S /\ proc[g] # NoProc /\ req[g].action = "frame" /\ req'[g].pc \in Past("frame")
             => req[g].pc \in Past("frame"),
         \A g \in Requests :
           req'[g].action = "frame" /\ req'[g].pc = "dial" =>
             /\ req'[g].site = req[g].site /\ req[g].action = "frame"
             /\ req[g].pc = "dial" \/ capture'.profile = ProfileOf[req[g].site],
         \A g \in Requests :
           req'[g].pc = "shoot" => req[g].pc = "shoot" /\ req'[g].site = req[g].site
  PROVE  TurnsTaken'
<1>1. /\ capture.by \in Requests \cup {None}
      /\ capture'.by # None => /\ capture'.by = capture.by /\ capture'.profile = capture.profile
                              /\ capture.by \notin S
      /\ capture.by \notin S \cup {None} => capture'.by = capture.by
  BY InstanceParts, StoppedParts DEF BrowserInv, ChromiumSound, InstanceTypes, NoInst
<1>2. ASSUME NEW g \in Requests, req'[g].action = "frame", proc'[g] # NoProc, req'[g].pc \in Past("frame")
      PROVE  capture'.by = g
  <2>1. g \notin S /\ proc[g] # NoProc /\ req[g].action = "frame"
    BY <1>2 DEF Ended, Steady
  <2>2. capture.by = g
    BY <1>2, <2>1 DEF TurnsTaken, Doing
  <2> QED BY <1>1, <2>1, <2>2, NoneIsNone
<1>3. ASSUME NEW g \in Requests, req'[g].action = "frame", req'[g].pc = "dial", capture'.by # None
      PROVE  capture'.profile = ProfileOf[req'[g].site]
  <2>1. CASE req[g].pc = "dial"
    BY <1>1, <1>3, <2>1 DEF TurnsTaken, Doing, At, Profile
  <2>2. CASE req[g].pc # "dial"
    BY <1>3, <2>2
  <2> QED BY <2>1, <2>2
<1>4. ASSUME NEW g \in Requests, req'[g].pc = "shoot", conn'[g] # None
      PROVE  /\ req'[conn'[g]].action = "frame"
             /\ proc'[conn'[g]] = [profile |-> ProfileOf[req'[g].site]]
             /\ page'[conn'[g]] = req'[g].site
  <2>1. conn'[g] = conn[g] /\ conn[g] \notin S /\ conn[g] \in Requests
    BY <1>4 DEF Ended, BrowserInv, ChromiumSound, ChromiumTypes
  <2>2. req[g].pc = "shoot" /\ req'[g].site = req[g].site
    BY <1>4
  <2>3. /\ req[conn[g]].action = "frame"
        /\ proc[conn[g]] = [profile |-> ProfileOf[req[g].site]]
        /\ page[conn[g]] = req[g].site
    BY <1>4, <2>1, <2>2 DEF TurnsTaken, At, Doing, Profile
  <2>4. req'[conn[g]].action = "frame"
    BY <2>1, <2>3 DEF Steady
  <2> QED BY <2>1, <2>2, <2>3, <2>4 DEF Ended
<1> QED BY <1>2, <1>3, <1>4 DEF TurnsTaken, Doing, At, Profile

\* Where a request may have a Chromium of a capture.
LEMMA FramePlaces ==
  ASSUME BrowserInv, NEW g \in Requests, Doing(g, "frame"), proc[g] # NoProc
  PROVE  Inside(g) \/ req[g].pc \in Past("frame")
<1>1. req[g] \in Request /\ Fits(req[g]) /\ req[g].pc \notin Unborn
  BY DEF BrowserInv, TypeOK, PlacesFit, ChromiumSound, ChromiumFits
<1> QED BY <1>1 DEF Request, Fits, Unborn, Past, Inside, Doing

LEMMA MoveTurns ==
  ASSUME BrowserInv, TurnsTaken, NEW h \in Requests, NEW pc, Moved(h, pc), NEW S, Ended(S),
         capture' = Stopped(capture, S) \/ (capture' = NoInst /\ capture.by \in S \cup {None}),
         pc \in Unborn => req[h].pc \in Unborn,
         req[h].pc \in Past(req[h].action) => pc \in Past(req[h].action),
         req[h].pc \in Past("frame") \/ pc \notin Past("frame") \/ ~Doing(h, "frame") \/ proc[h] = NoProc \/ h \in S,
         pc # "shoot",
         pc = "dial" /\ Doing(h, "frame") => capture'.profile = Profile(h)
  PROVE  TurnsTaken'
<1>1. Steady(S)
  BY MovedSteady
<1>2. /\ \A g \in Requests : g # h => req'[g] = req[g]
      /\ req'[h].pc = pc /\ req'[h].action = req[h].action /\ req'[h].site = req[h].site
  BY DEF Moved
<1>3. \A g \in Requests :
        g \notin S /\ proc[g] # NoProc /\ req[g].action = "frame" /\ req'[g].pc \in Past("frame")
          => req[g].pc \in Past("frame")
  BY <1>2 DEF Doing
<1>4. \A g \in Requests :
        req'[g].action = "frame" /\ req'[g].pc = "dial" =>
          /\ req'[g].site = req[g].site /\ req[g].action = "frame"
          /\ req[g].pc = "dial" \/ capture'.profile = ProfileOf[req[g].site]
  BY <1>2 DEF Doing, Profile
<1>5. \A g \in Requests : req'[g].pc = "shoot" => req[g].pc = "shoot" /\ req'[g].site = req[g].site
  BY <1>2
<1> QED BY <1>1, <1>3, <1>4, <1>5, TurnsKept

\* Steps that leave the Chromiums and the registered capture as they are.
LEMMA QuietTurns ==
  ASSUME BrowserInv, TurnsTaken, NEW h \in Requests, NEW pc, Moved(h, pc), UNCHANGED <<chromium, capture>>,
         pc \in Unborn => req[h].pc \in Unborn,
         req[h].pc \in Past(req[h].action) => pc \in Past(req[h].action),
         req[h].pc \in Past("frame") \/ pc \notin Past("frame") \/ ~Doing(h, "frame") \/ proc[h] = NoProc,
         pc # "shoot",
         pc = "dial" /\ Doing(h, "frame") => capture.profile = Profile(h)
  PROVE  TurnsTaken'
<1>1. Ended({})
  BY NothingEnds DEF BrowserInv, ChromiumSound
<1>2. capture' = Stopped(capture, {}) /\ capture' = capture
  BY DEF Stopped
<1> QED BY <1>1, <1>2, MoveTurns

LEMMA QuietStepTurns ==
  ASSUME BrowserInv, TurnsTaken, NEW h \in Requests,
         \/ DevToolsReady(h) \/ AcquireCapture(h) \/ NoSlot(h) \/ Look(h)
         \/ RegisterLogin(h) \/ SkipDial(h) \/ RemoveProfile(h) \/ SetSessionState(h)
  PROVE  TurnsTaken'
<1> USE DEF BrowserInv
<1>1. UNCHANGED <<chromium, capture>>
  BY DEF DevToolsReady, AcquireCapture, NoSlot, Look, ReturnCached, RegisterLogin, SkipDial,
         RemoveProfile, SetSessionState, manager
<1>2. req[h].pc \in Unborn => proc[h] = NoProc
  BY DEF ChromiumSound, ChromiumFits
<1>3. CASE DevToolsReady(h)
  <2> DEFINE pc == IF Doing(h, "frame") THEN "register" ELSE "dial"
  <2>1. At(h, "wait") /\ Moved(h, pc)
    BY <1>3, StepsMove DEF TypeOK, DevToolsReady
  <2>2. /\ pc \notin Unborn /\ pc # "shoot" /\ ~(pc = "dial" /\ Doing(h, "frame"))
        /\ req[h].pc \notin Past(req[h].action)
        /\ pc \notin Past("frame") \/ ~Doing(h, "frame")
    BY <2>1 DEF Unborn, Past, At
  <2> HIDE DEF pc
  <2> QED BY <1>1, <2>1, <2>2, QuietTurns
<1>4. CASE AcquireCapture(h) \/ NoSlot(h)
  <2>1. PICK pc \in {"look", "record"} : At(h, "slot") /\ Moved(h, pc)
    BY <1>4, StepsMove DEF TypeOK, AcquireCapture, NoSlot
  <2>2. req[h].pc \in Unborn /\ req[h].pc \notin Past(req[h].action)
    BY <2>1 DEF Unborn, Past, At
  <2> QED BY <1>1, <1>2, <2>1, <2>2, QuietTurns
<1>5. CASE Look(h)
  <2>1. PICK pc \in {"record", "dial", "launch"} :
          /\ At(h, "look") /\ Moved(h, pc)
          /\ pc = "dial" => capture.profile = Profile(h)
    BY <1>5, StepsMove DEF TypeOK, Look
  <2>2. req[h].pc \in Unborn /\ req[h].pc \notin Past(req[h].action)
    BY <2>1 DEF Unborn, Past, At
  <2> QED BY <1>1, <1>2, <2>1, <2>2, QuietTurns
<1>6. CASE RegisterLogin(h) \/ SkipDial(h)
  <2>1. PICK pc \in {"record", "register"} :
          /\ Moved(h, pc) /\ Doing(h, "prepare")
          /\ At(h, "register") \/ At(h, "dial")
    BY <1>6, StepsMove DEF TypeOK, RegisterLogin, SkipDial
  <2>2. /\ req[h].pc \notin Past(req[h].action) /\ ~Doing(h, "frame")
        /\ pc \notin Unborn
    BY <2>1 DEF Unborn, Past, At, Doing
  <2> QED BY <1>1, <2>1, <2>2, QuietTurns
<1>7. CASE RemoveProfile(h)
  <2>1. At(h, "remove") /\ Moved(h, "record")
    BY <1>7, StepsMove DEF TypeOK, RemoveProfile
  <2>2. req[h].pc \in Unborn /\ req[h].pc \notin Past(req[h].action)
    BY <2>1 DEF Unborn, Past, At
  <2> QED BY <1>1, <1>2, <2>1, <2>2, QuietTurns
<1>8. CASE SetSessionState(h)
  <2>1. At(h, "record") /\ Moved(h, "end")
    BY <1>8, StepsMove DEF TypeOK, SetSessionState
  <2>2. req[h].pc \in Past("frame") /\ "end" \in Past(req[h].action) /\ "end" \notin Unborn
    BY <2>1 DEF Unborn, Past, At
  <2> QED BY <1>1, <2>1, <2>2, QuietTurns
<1> QED BY <1>3, <1>4, <1>5, <1>6, <1>7, <1>8

LEMMA EndingStepTurns ==
  ASSUME BrowserInv, TurnsTaken, NEW h \in Requests,
         \/ FailLaunch(h) \/ ScreenshotJPEG(h) \/ FailCapture(h) \/ FreeProfile(h) \/ FinishLogin(h)
         \/ Judge(h) \/ FailValidate(h)
  PROVE  TurnsTaken'
<1> USE DEF BrowserInv, ChromiumSound
<1>1. Fits(req[h])
  BY DEF PlacesFit
<1>2. CASE FailLaunch(h) \/ Judge(h) \/ FailValidate(h)
  <2>1. /\ Moved(h, "record") /\ Stop({h}, {h})
        /\ req[h].pc \notin Past(req[h].action)
        /\ capture' = Stopped(capture, {h}) \/ (capture' = capture /\ ~Doing(h, "frame"))
    BY <1>1, <1>2, StepsMove DEF TypeOK, FailLaunch, Judge, FailValidate, manager, Past, At, Fits, Doing
  <2>2. Ended({h})
    BY <2>1, StopEnds
  <2>3. capture' = Stopped(capture, {h})
    <3>1. ~Doing(h, "frame") => capture.by \notin {h} \/ capture.by = None
      BY DEF InstancesFit, Registered
    <3> QED BY <2>1, <3>1, StoppedSame DEF InstanceTypes
  <2> QED BY <2>1, <2>2, <2>3, MoveTurns DEF Unborn
<1>3. CASE ScreenshotJPEG(h) \/ FailCapture(h)
  <2>1. /\ Moved(h, "record")
        /\ req[h].pc \in Past("frame")
        /\ Doing(h, "frame")
        /\ conn' = [conn EXCEPT ![h] = None]
        /\ UNCHANGED <<proc, page, port, capture>>
    BY <1>1, <1>3, StepsMove DEF TypeOK, ScreenshotJPEG, FailCapture, ReturnCached, Past, At, Fits, Doing
  <2>2. Ended({})
    BY <2>1 DEF Ended, ChromiumTypes
  <2>3. capture' = Stopped(capture, {})
    BY <2>1 DEF Stopped
  <2> QED BY <2>1, <2>2, <2>3, MoveTurns DEF Unborn, Past
<1>4. CASE FreeProfile(h)
  <2> DEFINE p == Profile(h)
             endCapture == capture.profile = p
             endLogin == Doing(h, "prepare") \/ interactive.profile = p
             S == {i.by : i \in (IF endCapture THEN {capture} ELSE {}) \cup (IF endLogin THEN {interactive} ELSE {})}
             pc == IF Doing(h, "clear") THEN "remove" ELSE "launch"
  <2>1. /\ Moved(h, pc) /\ At(h, "free")
        /\ Stop(S, {})
        /\ capture' = IF endCapture THEN NoInst ELSE capture
    BY <1>4, StepsMove DEF TypeOK, FreeProfile
  <2>2. /\ endCapture => capture.by \in S
        /\ ~endCapture => capture.by \notin S \/ capture.by = None
    BY InstancesApart
  <2>3. capture' = Stopped(capture, S) \/ (capture' = NoInst /\ capture.by \in S \cup {None})
    <3> HIDE DEF S
    <3> QED BY <2>1, <2>2, StoppedSame DEF InstanceTypes
  <2> HIDE DEF S
  <2>4. Ended(S)
    BY <2>1, StopEnds
  <2>5. /\ req[h].pc \in Unborn /\ req[h].pc \notin Past(req[h].action)
        /\ pc \notin Past("frame") /\ pc # "shoot" /\ pc # "dial"
    BY <2>1 DEF Unborn, Past, At
  <2> HIDE DEF pc
  <2> QED BY <2>1, <2>3, <2>4, <2>5, MoveTurns
<1>5. CASE FinishLogin(h)
  <2> DEFINE S == {interactive.by}
             pc == IF interactive = NoInst THEN "record" ELSE "launch"
  <2>1. /\ Moved(h, pc) /\ At(h, "take")
        /\ capture' = Stopped(capture, S)
        /\ ~Doing(h, "frame")
    BY <1>1, <1>5, StepsMove DEF TypeOK, FinishLogin, Fits, At, Doing
  <2>2. Ended(S) \/ (Ended({}) /\ capture' = Stopped(capture, {}))
    <3>1. CASE interactive = NoInst
      <4>1. UNCHANGED chromium
        BY <1>5, <3>1 DEF FinishLogin
      <4>2. interactive.by = None
        BY <3>1 DEF NoInst
      <4>3. Stopped(capture, S) = capture /\ Stopped(capture, {}) = capture
        BY <4>2, StoppedSame DEF InstanceTypes
      <4> QED BY <2>1, <4>1, <4>3, NothingEnds
    <3>2. CASE interactive # NoInst
      <4>1. Stop(S, {})
        BY <1>5, <3>2 DEF FinishLogin
      <4> QED BY <4>1, StopEnds
    <3> QED BY <3>1, <3>2
  <2>3. /\ req[h].pc \in Unborn /\ req[h].pc \notin Past(req[h].action)
        /\ pc # "shoot" /\ pc # "dial"
    BY <2>1 DEF Unborn, Past, At
  <2> HIDE DEF pc, S
  <2> QED BY <2>1, <2>2, <2>3, MoveTurns
<1> QED BY <1>2, <1>3, <1>4, <1>5

LEMMA LaunchTurns ==
  ASSUME BrowserInv, TurnsTaken, NEW h \in Requests, Launch(h)
  PROVE  TurnsTaken'
<1> USE DEF BrowserInv, ChromiumSound
<1>1. /\ Moved(h, "wait") /\ At(h, "launch")
      /\ proc' = [proc EXCEPT ![h] = [profile |-> Profile(h)]]
      /\ UNCHANGED <<page, conn, capture>>
  BY StepsMove DEF TypeOK, Launch, manager
<1>2. proc[h] = NoProc
  BY <1>1 DEF ChromiumFits, Unborn, At
<1>3. /\ \A g \in Requests : g # h => proc'[g] = proc[g] /\ req'[g] = req[g]
      /\ req'[h].pc = "wait" /\ req'[h].action = req[h].action /\ req'[h].site = req[h].site
  BY <1>1 DEF Moved, ChromiumTypes
<1>4. \A g \in Requests : conn[g] # None => conn[g] # h /\ conn[g] \in Requests
  BY <1>2 DEF ChromiumFits, ChromiumTypes
<1>5. \A g \in Requests : req'[g].action = "frame" /\ proc'[g] # NoProc /\ req'[g].pc \in Past("frame")
                            => capture.by = g
  BY <1>3 DEF TurnsTaken, Past, Doing
<1>6. \A g \in Requests : req'[g].action = "frame" /\ req'[g].pc = "dial" /\ capture.by # None
                            => capture.profile = ProfileOf[req'[g].site]
  BY <1>3 DEF TurnsTaken, Doing, At, Profile
<1>7. ASSUME NEW g \in Requests, req'[g].pc = "shoot", conn[g] # None
      PROVE  /\ req'[conn[g]].action = "frame"
             /\ proc'[conn[g]] = [profile |-> ProfileOf[req'[g].site]]
             /\ page[conn[g]] = req'[g].site
  <2>1. g # h /\ req'[g] = req[g] /\ conn[g] # h /\ conn[g] \in Requests
    BY <1>3, <1>4, <1>7
  <2> QED BY <1>3, <1>7, <2>1 DEF TurnsTaken, At, Doing, Profile
<1> QED BY <1>1, <1>5, <1>6, <1>7 DEF TurnsTaken, Doing, At, Profile

\* A capture that registers is the only one underway.
LEMMA RegisterTurns ==
  ASSUME BrowserInv, OneSlot, TurnsTaken, NEW h \in Requests, RegisterCapture(h)
  PROVE  TurnsTaken'
<1> USE DEF BrowserInv, ChromiumSound
<1> DEFINE S == {capture.by}
<1>1. /\ Moved(h, "dial") /\ At(h, "register") /\ Doing(h, "frame")
      /\ Stop(S, {})
      /\ capture' = [profile |-> Profile(h), by |-> IF proc[h] = NoProc THEN None ELSE h]
  BY StepsMove DEF TypeOK, RegisterCapture
<1>2. Ended(S)
  BY <1>1, StopEnds
<1>3. \A g \in Requests : Inside(g) => g = h
  BY <1>1, OneInside DEF OneSlot, Inside, At
<1>4. /\ \A g \in Requests : g # h => req'[g] = req[g]
      /\ req'[h].pc = "dial" /\ req'[h].action = req[h].action /\ req'[h].site = req[h].site
  BY <1>1 DEF Moved
<1>5. capture'.profile = Profile(h) /\ capture'.by = IF proc[h] = NoProc THEN None ELSE h
  BY <1>1
<1>6. ASSUME NEW g \in Requests, req'[g].action = "frame", proc'[g] # NoProc, req'[g].pc \in Past("frame")
      PROVE  capture'.by = g
  <2>1. g \notin S /\ proc[g] # NoProc
    BY <1>2, <1>6 DEF Ended
  <2>2. g # h => capture.by = g
    BY <1>4, <1>6, <2>1 DEF TurnsTaken, Doing
  <2> QED BY <1>5, <2>1, <2>2
<1>7. ASSUME NEW g \in Requests, req'[g].action = "frame", req'[g].pc \in {"dial", "shoot"}
      PROVE  g = h
  BY <1>3, <1>4, <1>7 DEF Inside, Doing
<1>8. \A g \in Requests : req'[g].pc = "shoot" => req'[g].action = "frame"
  BY StepsMove, <1>1 DEF Moved, PlacesFit, Fits
<1> QED BY <1>4, <1>5, <1>6, <1>7, <1>8 DEF TurnsTaken, Doing, At, Profile

LEMMA DialTurns ==
  ASSUME BrowserInv, OneSlot, TurnsTaken, NEW h \in Requests, Dial(h)
  PROVE  TurnsTaken'
<1> USE DEF BrowserInv, ChromiumSound
<1> DEFINE t == port[Port(h)]
<1>1. /\ \E pc \in {"register", "shoot", "judge"} : Moved(h, pc)
      /\ Doing(h, "frame") => Moved(h, "shoot") /\ conn' = [conn EXCEPT ![h] = t]
      /\ ~Doing(h, "frame") => ~Moved(h, "shoot")
      /\ At(h, "dial")
      /\ t # None
      /\ page' = [page EXCEPT ![t] = req[h].site]
      /\ conn' = conn \/ conn' = [conn EXCEPT ![h] = t]
      /\ UNCHANGED <<proc, port, capture>>
  BY StepsMove DEF TypeOK, Dial, manager, Moved, Doing
<1>2. t \in Requests /\ proc[t] # NoProc /\ Port(t) = Port(h)
  BY <1>1 DEF ChromiumTypes, ChromiumFits, Port, Ports
<1>3. (Port(t) = "capture" <=> Doing(t, "frame")) /\ (Port(h) = "capture" <=> Doing(h, "frame"))
  BY DEF Port, Doing
<1> HIDE DEF t
<1>4. /\ \A g \in Requests : g # h => req'[g] = req[g]
      /\ req'[h].action = req[h].action /\ req'[h].site = req[h].site
      /\ req'[h].pc \in {"register", "shoot", "judge"}
      /\ ~Doing(h, "frame") => req'[h].pc # "shoot"
  BY <1>1 DEF Moved
<1>5. /\ page'[t] = req[h].site
      /\ \A g \in Requests : g # t => page'[g] = page[g]
      /\ \A g \in Requests : g # h => conn'[g] = conn[g]
      /\ Doing(h, "frame") => conn'[h] = t
  BY <1>1, <1>2 DEF ChromiumTypes
<1>6. \A g \in Requests : req'[g].action = "frame" /\ proc'[g] # NoProc /\ req'[g].pc \in Past("frame")
                            => capture'.by = g
  BY <1>1, <1>4 DEF TurnsTaken, Past, Doing, At
<1>7. \A g \in Requests : req'[g].action = "frame" /\ req'[g].pc = "dial" /\ capture'.by # None
                            => capture'.profile = ProfileOf[req'[g].site]
  BY <1>1, <1>4 DEF TurnsTaken, Doing, At, Profile
<1>8. ASSUME Doing(h, "frame")
      PROVE  Doing(t, "frame") /\ proc[t] = [profile |-> Profile(h)]
  <2>1. Doing(t, "frame")
    BY <1>2, <1>3, <1>8
  <2>2. req[t].pc \in Past("frame")
    <3>1. Inside(h) /\ req[h].pc \in Past("frame")
      BY <1>1, <1>8 DEF Inside, Past, At
    <3> QED BY <1>2, <2>1, <3>1, FramePlaces, OneInside DEF OneSlot
  <2>3. capture.by = t /\ capture.by # None
    BY <1>2, <2>1, <2>2, NoneIsNone DEF TurnsTaken
  <2>4. capture.profile = Profile(h) /\ proc[t] = [profile |-> capture.profile]
    BY <1>1, <1>8, <2>3 DEF TurnsTaken, InstancesFit, Registered
  <2> QED BY <2>1, <2>4
<1>9. ASSUME NEW g \in Requests, req'[g].pc = "shoot", conn'[g] # None
      PROVE  /\ req'[conn'[g]].action = "frame"
             /\ proc'[conn'[g]] = [profile |-> ProfileOf[req'[g].site]]
             /\ page'[conn'[g]] = req'[g].site
  <2>1. \A x \in Requests : req'[x].action = req[x].action
    BY <1>4
  <2>2. CASE Doing(h, "frame")
    <3>1. g = h
      <4>1. Inside(h)
        BY <1>1, <2>2 DEF Inside, At
      <4>2. g # h => Inside(g)
        BY <1>4, <1>9 DEF PlacesFit, Fits, Inside, Doing
      <4> QED BY <4>1, <4>2, OneInside DEF OneSlot
    <3> QED BY <1>1, <1>2, <1>4, <1>5, <1>8, <2>1, <2>2, <3>1 DEF Doing, Profile
  <2>3. CASE ~Doing(h, "frame")
    <3>1. g # h
      BY <1>4, <1>9, <2>3
    <3>2. req'[g] = req[g] /\ conn'[g] = conn[g] /\ conn[g] \in Requests
      BY <1>4, <1>5, <1>9, <3>1 DEF ChromiumTypes
    <3>3. Doing(conn[g], "frame") /\ proc[conn[g]] = [profile |-> Profile(g)] /\ page[conn[g]] = req[g].site
      BY <1>9, <3>2 DEF TurnsTaken, At
    <3>4. conn[g] # t
      BY <1>2, <1>3, <2>3, <3>3
    <3> QED BY <1>1, <1>5, <2>1, <3>2, <3>3, <3>4 DEF Doing, Profile
  <2> QED BY <2>2, <2>3
<1> QED BY <1>6, <1>7, <1>9 DEF TurnsTaken, Doing, At, Profile

\* A request ends, or begins: before it launches it has no Chromium.
LEMMA EndTurns ==
  ASSUME BrowserInv, TurnsTaken, NEW h \in Requests, End(h)
  PROVE  TurnsTaken'
<1> USE DEF BrowserInv, ChromiumSound
<1>1. Stop({h}, {h}) /\ capture' = Stopped(capture, {h}) /\ req' = [req EXCEPT ![h] = Idle]
  BY DEF End, Become
<1>2. \A g \in Requests : (g # h /\ req'[g] = req[g]) \/ (g = h /\ req'[g].pc = "idle")
  BY <1>1, IdleFits DEF TypeOK
<1>3. Ended({h})
  BY <1>1, StopEnds
<1>4. Steady({h})
  BY <1>2 DEF Steady
<1> QED BY <1>1, <1>2, <1>3, <1>4, TurnsKept

LEMMA BeginTurns ==
  ASSUME BrowserInv, TurnsTaken, NEW h \in Requests, NEW w \in Websites,
         Frame(h, w) \/ Prepare(h, w) \/ Finish(h, w) \/ Validate(h, w) \/ Clear(h, w)
  PROVE  TurnsTaken'
<1> USE DEF BrowserInv, ChromiumSound
<1>1. PICK r : /\ At(h, "idle") /\ Began(h, r)
               /\ UNCHANGED <<site, session, chromium, manager, load>>
  BY RequestsBegin
<1>2. \A g \in Requests : \/ g # h /\ req'[g] = req[g]
                          \/ g = h /\ req'[g].pc \in {"slot", "free", "take", "launch"}
  BY <1>1 DEF Began, TypeOK
<1>3. proc[h] = NoProc
  BY <1>1 DEF At, ChromiumFits, Unborn
<1>4. Ended({h})
  BY <1>1, <1>3, NoneEnds
<1>5. Steady({h})
  BY <1>2 DEF Steady
<1>6. capture' = Stopped(capture, {h})
  <2>1. capture.by # h
    <3>1. h # None /\ req[h].pc = "idle"
      BY <1>1, NoneIsNone DEF At
    <3> QED BY <3>1 DEF InstancesFit, Registered, Past
  <2> QED BY <1>1, <2>1, StoppedSame DEF InstanceTypes, manager
<1> QED BY <1>2, <1>4, <1>5, <1>6, TurnsKept

LEMMA TurnsStep == OneSlot /\ BrowserInv /\ TurnsTaken /\ [Next]_vars => TurnsTaken'
<1> SUFFICES ASSUME OneSlot, BrowserInv, TurnsTaken, [Next]_vars PROVE TurnsTaken'
  OBVIOUS
<1>1. ASSUME NEW h \in Requests, Step(h) PROVE TurnsTaken'
  BY <1>1, QuietStepTurns, EndingStepTurns, LaunchTurns, RegisterTurns, DialTurns, EndTurns DEF Step
<1>2. ASSUME UNCHANGED <<chromium, capture, req>> PROVE TurnsTaken'
  BY <1>2 DEF TurnsTaken, chromium, Doing, At, Profile
<1>3. ASSUME NEW h \in Requests, LogIn(h) PROVE TurnsTaken'
  BY <1>2, <1>3 DEF LogIn, manager
<1>4. ASSUME NEW p \in Profiles, Expire(p) PROVE TurnsTaken'
  BY <1>2, <1>4 DEF Expire, manager
<1>5. CASE UNCHANGED vars
  BY <1>2, <1>5 DEF vars, manager
<1> QED BY <1>1, <1>3, <1>4, <1>5, BeginTurns DEF Next

\* Only a capture leaves a frame, of the Chromium that it is connected to.
LEMMA ShotsStep == BrowserInv /\ TurnsTaken /\ ShotsOwn /\ [Next]_vars => ShotsOwn'
<1> SUFFICES ASSUME BrowserInv, TurnsTaken, ShotsOwn, [Next]_vars PROVE ShotsOwn'
  OBVIOUS
<1>1. ASSUME NEW h \in Requests, ScreenshotJPEG(h) PROVE ShotsOwn'
  <2> DEFINE shot == [site |-> page[conn[h]], profile |-> proc[conn[h]].profile]
  <2>1. /\ At(h, "shoot") /\ conn[h] # None
        /\ lastShot' = [lastShot EXCEPT ![Profile(h)] = shot]
    BY <1>1 DEF ScreenshotJPEG
  <2>2. shot.profile = Profile(h)
    <3>1. proc[conn[h]] = [profile |-> Profile(h)]
      BY <2>1 DEF TurnsTaken
    <3> DEFINE q == proc[conn[h]]
    <3>2. q.profile = Profile(h)
      BY <3>1
    <3> HIDE DEF q
    <3>3. shot = [site |-> page[conn[h]], profile |-> q.profile]
      BY DEF q
    <3> HIDE DEF shot
    <3> QED BY <3>2, <3>3
  <2> HIDE DEF shot
  <2> QED BY <2>1, <2>2 DEF ShotsOwn, BrowserInv, TypeOK
<1>2. ASSUME NEW h \in Requests, FreeProfile(h) PROVE ShotsOwn'
  <2>1. lastShot' = lastShot \/ lastShot' = [lastShot EXCEPT ![Profile(h)] = NoShot]
    BY <1>2 DEF FreeProfile
  <2> QED BY <2>1 DEF ShotsOwn, BrowserInv, TypeOK
<1>3. ASSUME NEW h \in Requests, Step(h), ~ScreenshotJPEG(h), ~FreeProfile(h) PROVE ShotsOwn'
  <2>1. UNCHANGED lastShot
    BY <1>3 DEF Step, Launch, DevToolsReady, FailLaunch, Dial, AcquireCapture, NoSlot, Look, ReturnCached,
                RegisterCapture, FailCapture, RegisterLogin, SkipDial, FinishLogin, Judge, FailValidate,
                RemoveProfile, SetSessionState, End, manager
  <2> QED BY <2>1 DEF ShotsOwn
<1>4. ASSUME NEW h \in Requests, NEW w \in Websites,
             Frame(h, w) \/ Prepare(h, w) \/ Finish(h, w) \/ Validate(h, w) \/ Clear(h, w)
      PROVE  ShotsOwn'
  BY <1>4 DEF Frame, Prepare, Finish, Validate, Clear, Begin, manager, ShotsOwn
<1>5. ASSUME NEW h \in Requests, LogIn(h) PROVE ShotsOwn'
  BY <1>5 DEF LogIn, manager, ShotsOwn
<1>6. ASSUME NEW p \in Profiles, Expire(p) PROVE ShotsOwn'
  BY <1>6 DEF Expire, manager, ShotsOwn
<1>7. CASE UNCHANGED vars
  BY <1>7 DEF vars, manager, ShotsOwn
<1> QED BY <1>1, <1>2, <1>3, <1>4, <1>5, <1>6, <1>7 DEF Next

\* FramesAreOwn: with the one slot that the program has, a frame shows the website and the
\* profile that it was taken for, whatever logins, validations and clears come between.
THEOREM FramesAreTheirOwn ==
  ASSUME OneSlot
  PROVE  Spec => []FramesAreOwn
<1>1. Init => TurnsTaken /\ ShotsOwn
  BY IdleFits DEF Init, TurnsTaken, ShotsOwn, At, NoInst, Past
<1>2. BrowserInv /\ TurnsTaken /\ [Next]_vars => TurnsTaken'
  BY TurnsStep
<1>3. BrowserInv /\ TurnsTaken /\ ShotsOwn /\ [Next]_vars => ShotsOwn'
  BY ShotsStep
<1>4. TurnsTaken /\ ShotsOwn => FramesAreOwn
  BY DEF TurnsTaken, ShotsOwn, FramesAreOwn
<1> QED BY BrowserIsSound, <1>1, <1>2, <1>3, <1>4, PTL DEF Spec
=============================================================================
