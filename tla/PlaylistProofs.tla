--------------------------- MODULE PlaylistProofs ---------------------------
(***************************************************************************)
(* Theorems about the playlist store, for any number of handlers, readers, *)
(* revisions and scenes and any retention.                                 *)
(*                                                                         *)
(* Consistent is the inductive invariant: the types, the single draft, and *)
(* the two facts about row ids that keep the draft single: ids above the   *)
(* AUTOINCREMENT counter have no row and no publication time.  On it rest  *)
(* what is live, what readers get, whether the dashboard's flag of         *)
(* unpublished changes is right, and the refinement of PublishLog.         *)
(***************************************************************************)
EXTENDS Playlist, FiniteSetTheorems, WellFoundedInduction, TLAPS

\* A set of numbers below a bound has a greatest element: what stands behind
\* each MAX and each ORDER BY ... LIMIT 1 of the store's queries.
LEMMA GreatestExists ==
  ASSUME NEW B \in Nat, NEW S \in SUBSET (0..B), S # {}
  PROVE  \E m \in S : \A n \in S : n <= m
<1> DEFINE T == {B - n : n \in S}
<1>1. \A n \in S : n \in Nat /\ B - n \in Nat
  OBVIOUS
<1>2. T \subseteq Nat /\ T # {}
  BY <1>1
<1> HIDE DEF T
<1>3. PICK t \in T : \A u \in T : t <= u
  <2> DEFINE R == {ss \in Nat \X Nat : ss[1] < ss[2]}
  <2>1. IsWellFoundedOn(R, Nat)
    BY NatLessThanWellFounded DEF OpToRel
  <2>2. PICK t \in T : \A u \in T : <<u, t>> \notin R
    <3> HIDE DEF R
    <3> QED BY <1>2, <2>1, WFMin
  <2>3. ASSUME NEW u \in T PROVE t <= u
    <3>1. t \in Nat /\ u \in Nat
      BY <1>2
    <3>2. u < t => <<u, t>> \in R
      BY <3>1
    <3>3. <<u, t>> \notin R
      BY <2>2
    <3> QED BY <3>1, <3>2, <3>3
  <2> QED BY <2>3
<1> USE DEF T
<1>4. PICK m \in S : t = B - m
  BY <1>3
<1>5. ASSUME NEW n \in S PROVE n <= m
  <2>1. B - m <= B - n
    BY <1>3, <1>4
  <2> QED BY <2>1, <1>1
<1> QED BY <1>5

\* The newest published revision exists and is unique in being newer than all
\* the others, so Live is a published revision whenever there is one.
LEMMA LiveIsPublished ==
  ASSUME TypeOK, Published # {}
  PROVE  /\ Live \in Published
         /\ \A q \in Published \ {Live} : Newer(Live, q)
<1>1. Published \subseteq Revision /\ MaxRevisions \in Nat /\ MaxClock \in Nat
  BY PlaylistAssumption DEF TypeOK, Published
<1>2. \A r \in Published : publishedAt[r] \in 1..MaxClock
  BY <1>1 DEF TypeOK, Published, Revision, Stamp
<1> DEFINE Times == {publishedAt[r] : r \in Published}
<1>3. Times \in SUBSET (0..MaxClock) /\ Times # {}
  BY <1>1, <1>2
<1>4. PICK t \in Times : \A u \in Times : u <= t
  BY <1>1, <1>3, GreatestExists
<1> DEFINE Latest == {r \in Published : publishedAt[r] = t}
<1>5. Latest \in SUBSET (0..MaxRevisions) /\ Latest # {}
  <2>1. \E r \in Published : publishedAt[r] = t
    BY <1>4
  <2>2. Latest \subseteq 0..MaxRevisions
    <3>1. Latest \subseteq Published
      OBVIOUS
    <3>2. Revision \subseteq 0..MaxRevisions
      BY <1>1 DEF Revision
    <3> QED BY <1>1, <3>1, <3>2
  <2> QED BY <2>1, <2>2
<1>6. PICK r \in Latest : \A q \in Latest : q <= r
  BY <1>1, <1>5, GreatestExists
<1>7. \A q \in Published \ {r} : Newer(r, q)
  BY <1>1, <1>2, <1>4, <1>6 DEF Newer, Revision
<1>8. r \in Published
  BY <1>6
<1> QED BY <1>7, <1>8, Zenon DEF Live

\* The revision PublishedRevision answers with is a row, or 0.
LEMMA LiveType == TypeOK => Live \in Revision \cup {0}
  BY LiveIsPublished DEF Live, Published, TypeOK
-----------------------------------------------------------------------------
(* The scenes table: every row belongs to a revision that has a row of its  *)
(* own (the foreign key), names a stable id that was handed out, and is the *)
(* only one of its revision to do so (the unique index).                    *)

RowsFit(rows, ids, top) ==
  /\ rows \subseteq Scene
  /\ \A s \in rows : s.rev \in ids /\ s.stable <= top
  /\ \A s, t \in rows : s.rev = t.rev /\ s.stable = t.stable => s = t

\* Rewriting rows in place keeps the table fit, as long as neither the revision
\* nor the stable id of a row is touched.
LEMMA RewriteFits ==
  ASSUME NEW rows, NEW ids, NEW top, RowsFit(rows, ids, top),
         NEW some \in SUBSET rows, NEW new \in [some -> Scene],
         \A s \in some : new[s].rev = s.rev /\ new[s].stable = s.stable
  PROVE  RowsFit((rows \ some) \cup {new[s] : s \in some}, ids, top)
<1> DEFINE after == (rows \ some) \cup {new[s] : s \in some}
<1>1. after \subseteq Scene
  BY DEF RowsFit
<1>2. \A s \in after : s.rev \in ids /\ s.stable <= top
  BY DEF RowsFit
<1>3. ASSUME NEW s \in after, NEW t \in after, s.rev = t.rev, s.stable = t.stable
      PROVE  s = t
  BY <1>3 DEF RowsFit
<1> QED BY <1>1, <1>2, <1>3 DEF RowsFit

\* Copying a revision's rows into a revision that has none keeps the table fit.
LEMMA CopyFits ==
  ASSUME NEW rows, NEW ids, NEW top, RowsFit(rows, ids, top),
         NEW others, NEW otherIds, RowsFit(others, otherIds, top),
         NEW src, NEW dst \in Revision \ ids, NEW copies,
         copies = {[s EXCEPT !.rev = dst] : s \in {t \in others : t.rev = src}}
  PROVE  RowsFit(rows \cup copies, ids \cup {dst}, top)
<1>1. copies \subseteq Scene
  BY DEF RowsFit, Scene
<1>2. \A s \in copies : s.rev = dst /\ s.stable <= top
  BY DEF RowsFit, Scene
<1>3. ASSUME NEW s \in copies, NEW t \in copies, s.stable = t.stable
      PROVE  s = t
  BY <1>3 DEF RowsFit, Scene
<1>4. rows \cup copies \subseteq Scene
  BY <1>1 DEF RowsFit
<1>5. \A s \in rows \cup copies : s.rev \in ids \cup {dst} /\ s.stable <= top
  BY <1>2 DEF RowsFit
<1>6. \A s, t \in rows \cup copies : s.rev = t.rev /\ s.stable = t.stable => s = t
  BY <1>2, <1>3 DEF RowsFit
<1> QED BY <1>4, <1>5, <1>6 DEF RowsFit

\* Deleting revisions with their rows keeps the table fit.
LEMMA CascadeFits ==
  ASSUME NEW rows, NEW ids, NEW top, RowsFit(rows, ids, top), NEW gone
  PROVE  RowsFit({s \in rows : s.rev \notin gone}, ids \ gone, top)
  BY DEF RowsFit

\* A revision has at most one row per stable id.
LEMMA RowCount ==
  ASSUME NEW rows, NEW ids, NEW top, RowsFit(rows, ids, top), NEW r
  PROVE  LET own == {s \in rows : s.rev = r}
         IN Cardinality(own) \in Nat /\ Cardinality(own) <= MaxScenes
<1> DEFINE own == {s \in rows : s.rev = r}
           f == [s \in own |-> s.stable]
<1>1. IsFiniteSet(StableId) /\ Cardinality(StableId) = MaxScenes
  <2>1. 1 \in Int /\ MaxScenes \in Int /\ 1 <= MaxScenes
    BY PlaylistAssumption
  <2>2. IsFiniteSet(1..MaxScenes) /\ Cardinality(1..MaxScenes) = MaxScenes - 1 + 1
    BY <2>1, FS_Interval
  <2> QED BY <2>1, <2>2 DEF StableId
<1>2. f \in Injection(own, StableId)
  <2>1. f \in [own -> StableId]
    BY DEF RowsFit, Scene
  <2>2. \A s, t \in own : f[s] = f[t] => s = t
    BY DEF RowsFit
  <2> QED BY <2>1, <2>2 DEF Injection, IsInjective
<1>3. IsFiniteSet(own) /\ Cardinality(own) <= Cardinality(StableId)
  <2> HIDE DEF own, f
  <2> QED BY <1>1, <1>2, FS_Injection
<1>4. Cardinality(own) \in Nat
  BY <1>3, FS_CardinalityType
<1> QED BY <1>1, <1>3, <1>4

\* A row that a reorder list names is put at one of the list's places.
LEMMA LastPlaceType ==
  ASSUME NEW n \in Nat, n <= MaxScenes, NEW list, DOMAIN list = 1..n, NEW s \in Scene
  PROVE  LastPlace(list, s) \in Position
<1> DEFINE places == Places(list, s)
<1>1. CASE places = {}
  BY <1>1 DEF LastPlace, Scene
<1>2. CASE places # {}
  <2>1. places \in SUBSET (0..n)
    BY DEF Places
  <2>2. \E i \in places : \A j \in places : j <= i
    BY <1>2, <2>1, GreatestExists
  <2>3. LastPlace(list, s) \in places
    BY <1>2, <2>2 DEF LastPlace
  <2> QED BY <2>3, PlaylistAssumption DEF Places, Position
<1> QED BY <1>1, <1>2

-----------------------------------------------------------------------------
(* The inductive invariant                                                  *)

\* Ids above the AUTOINCREMENT counter are unused.
IdsFit ==
  /\ \A r \in revisions : r <= lastRevision
  /\ \A r \in Revision : r > lastRevision => publishedAt[r] = 0

TableFit == RowsFit(scenes, revisions, lastStable)

\* An editor that is about to save has read the clock.
StampsFit == \A h \in Handlers : req[h].pc = "saving" => req[h].now \in Stamp

Consistent == TypeOK /\ SingleDraft /\ IdsFit /\ TableFit /\ StampsFit

\* The three ways in which a handler moves keep req typed and fit.
LEMMA BeginFit ==
  ASSUME TypeOK, StampsFit, NEW h \in Handlers,
         NEW pc \in {"idle", "saving", "updating", "prune", "notify"},
         NEW rev \in Revision \cup {0}, NEW now \in Stamp \cup {0},
         Begin(h, pc, rev, now), pc = "saving" => now \in Stamp
  PROVE  req' \in [Handlers -> Request] /\ StampsFit'
<1>1. req' \in [Handlers -> Request]
  BY DEF Begin, TypeOK, Request
<1>2. StampsFit'
  BY DEF Begin, TypeOK, StampsFit
<1> QED BY <1>1, <1>2

LEMMA ContinueFit ==
  ASSUME TypeOK, StampsFit, NEW h \in Handlers, NEW from,
         Continue(h, from, "notify")
  PROVE  req' \in [Handlers -> Request] /\ StampsFit'
<1>1. req' \in [Handlers -> Request]
  BY DEF Continue, TypeOK, Request
<1>2. StampsFit'
  BY DEF Continue, TypeOK, StampsFit, Request
<1> QED BY <1>1, <1>2

LEMMA DoneFit ==
  ASSUME TypeOK, StampsFit, NEW h \in Handlers, NEW from, Done(h, from)
  PROVE  req' \in [Handlers -> Request] /\ StampsFit'
<1>1. req' \in [Handlers -> Request]
  BY DEF Done, TypeOK, Request, Idle
<1>2. StampsFit'
  BY DEF Done, TypeOK, StampsFit, Idle
<1> QED BY <1>1, <1>2

\* A step that leaves the playlist's tables alone.
LEMMA StoreUntouched ==
  ASSUME Consistent, UNCHANGED <<revisionVars, sceneVars>>
  PROVE  SingleDraft' /\ IdsFit' /\ TableFit'
  BY DEF Consistent, SingleDraft, IdsFit, TableFit, revisionVars, sceneVars

\* A step that leaves playlist_revisions alone.
LEMMA RevisionsUntouched ==
  ASSUME Consistent, UNCHANGED revisionVars
  PROVE  SingleDraft' /\ IdsFit'
  BY DEF Consistent, SingleDraft, IdsFit, revisionVars

\* Reading the clock yields a stamp.
LEMMA ClockType ==
  ASSUME TypeOK, ReadClock
  PROVE  clock + 1 \in Stamp /\ clock' = clock + 1
  BY PlaylistAssumption DEF TypeOK, ReadClock, Stamp

LEMMA InitConsistent == Init => Consistent
<1> SUFFICES ASSUME Init PROVE Consistent
  OBVIOUS
<1> USE PlaylistAssumption DEF Init
<1>1. 1 \in Revision
  BY DEF Revision
<1>2. TypeOK
  BY <1>1 DEF TypeOK, Idle, Request
<1>3. SingleDraft
  BY <1>1 DEF SingleDraft
<1>4. IdsFit
  BY DEF IdsFit
<1>5. TableFit
  BY DEF TableFit, RowsFit
<1>6. StampsFit
  BY DEF StampsFit, Idle
<1> QED BY <1>2, <1>3, <1>4, <1>5, <1>6 DEF Consistent

\* Every step of an editing request keeps the invariant.
LEMMA EditingConsistent ==
  ASSUME Consistent, NEW h \in Handlers, Editing(h)
  PROVE  Consistent'
<1> USE DEF Consistent
<1> DEFINE r == req[h].rev
           rows == ScenesOf(r)
<1>0. req[h] \in Request /\ 0 \in Stamp \cup {0} /\ 0 \in Revision \cup {0}
  BY DEF TypeOK
<1>1. CASE StartSaving(h)
  <2>1. PICK d \in isDraft : Begin(h, "saving", d, clock + 1)
    BY <1>1 DEF StartSaving
  <2>2. d \in Revision /\ clock + 1 \in Stamp /\ clock' = clock + 1
    BY <1>1, <2>1, ClockType DEF StartSaving, TypeOK
  <2>3. req' \in [Handlers -> Request] /\ StampsFit'
    BY <2>1, <2>2, BeginFit
  <2>4. TypeOK'
    BY <1>1, <2>2, <2>3 DEF StartSaving, TypeOK, revisionVars, sceneVars, displayVars
  <2> QED BY <1>1, <2>3, <2>4, StoreUntouched DEF StartSaving
<1>2. CASE StartUpdating(h)
  <2>1. PICK d \in isDraft : Begin(h, "updating", d, 0)
    BY <1>2 DEF StartUpdating
  <2>2. d \in Revision
    BY <2>1 DEF TypeOK
  <2>3. req' \in [Handlers -> Request] /\ StampsFit'
    BY <1>0, <2>1, <2>2, BeginFit
  <2>4. TypeOK'
    BY <1>2, <2>3 DEF StartUpdating, TypeOK, revisionVars, sceneVars, displayVars
  <2> QED BY <1>2, <2>3, <2>4, StoreUntouched DEF StartUpdating
<1>3. CASE InsertScene(h)
  <2> USE DEF InsertScene
  <2>1. Done(h, "saving") /\ UNCHANGED revisionVars
    BY <1>3
  <2>2. req' \in [Handlers -> Request] /\ StampsFit' /\ req[h].now \in Stamp
    BY <2>1, DoneFit DEF Done, StampsFit
  <2>3. r \in revisions /\ lastStable + 1 \in StableId /\ lastStable' = lastStable + 1
    BY <1>3, PlaylistAssumption DEF TypeOK, StableId
  <2> DEFINE occupied == {s.pos : s \in ScenesOf(r)} \cup {0}
  <2>4. PICK last \in occupied, e \in BOOLEAN, v \in BOOLEAN :
          /\ last < MaxScenes
          /\ scenes' = scenes \cup {[rev |-> r, stable |-> lastStable + 1, pos |-> last + 1,
                                     enabled |-> e, valid |-> v, upd |-> req[h].now]}
    BY <1>3
  <2>5. last + 1 \in Position
    BY <2>4, PlaylistAssumption DEF TypeOK, ScenesOf, Scene, Position
  <2>6. scenes' \subseteq Scene
    BY <2>2, <2>3, <2>4, <2>5 DEF TypeOK, Scene
  <2>7. TableFit'
    BY <2>1, <2>3, <2>4, <2>6 DEF TableFit, RowsFit, revisionVars, TypeOK, Scene, StableId
  <2>8. TypeOK'
    BY <1>3, <2>2, <2>3, <2>6 DEF TypeOK, revisionVars, displayVars
  <2> QED BY <2>1, <2>2, <2>7, <2>8, RevisionsUntouched
<1>4. CASE UpdateScene(h)
  <2> USE DEF UpdateScene
  <2>1. Done(h, "saving") /\ UNCHANGED <<revisionVars, lastStable>>
    BY <1>4
  <2>2. req' \in [Handlers -> Request] /\ StampsFit' /\ req[h].now \in Stamp
    BY <2>1, DoneFit DEF Done, StampsFit
  <2>3. PICK s \in Addressed(h), p \in Position, e \in BOOLEAN, v \in BOOLEAN :
          scenes' = (scenes \ {s}) \cup
                      {[s EXCEPT !.pos = p, !.enabled = e, !.valid = v, !.upd = req[h].now]}
    BY <1>4
  <2> DEFINE new == [x \in {s} |-> [x EXCEPT !.pos = p, !.enabled = e, !.valid = v,
                                            !.upd = req[h].now]]
  <2>4. s \in scenes /\ s \in Scene
    BY <2>3 DEF Addressed, ScenesOf, TypeOK
  <2>5. new \in [{s} -> Scene] /\ new[s].rev = s.rev /\ new[s].stable = s.stable
    BY <2>2, <2>4 DEF Scene
  <2>6. scenes' = (scenes \ {s}) \cup {new[x] : x \in {s}}
    BY <2>3
  <2>7. RowsFit(scenes', revisions, lastStable)
    <3> HIDE DEF new
    <3> QED BY <2>4, <2>5, <2>6, RewriteFits DEF TableFit
  <2>8. TableFit' /\ scenes' \subseteq Scene
    BY <2>1, <2>7 DEF TableFit, RowsFit, revisionVars
  <2>9. TypeOK'
    BY <1>4, <2>2, <2>8 DEF TypeOK, revisionVars, displayVars
  <2> QED BY <2>1, <2>2, <2>8, <2>9, RevisionsUntouched
<1>5. CASE Reorder(h)
  <2> USE DEF Reorder
  <2>1. Done(h, "saving") /\ UNCHANGED <<revisionVars, lastStable>>
    BY <1>5
  <2>2. req' \in [Handlers -> Request] /\ StampsFit' /\ req[h].now \in Stamp
    BY <2>1, DoneFit DEF Done, StampsFit
  <2>3. Cardinality(rows) \in Nat /\ Cardinality(rows) <= MaxScenes
    BY RowCount DEF TableFit, ScenesOf
  <2>4. PICK list \in [1..Cardinality(rows) -> {s.stable : s \in rows}] :
          scenes' = (scenes \ rows) \cup Reordered(rows, list, req[h].now)
    BY <1>5
  <2>5. rows \subseteq scenes /\ rows \subseteq Scene
    BY DEF ScenesOf, TypeOK
  <2>6. \A s \in rows : LastPlace(list, s) \in Position
    BY <2>3, <2>4, <2>5, LastPlaceType
  <2> DEFINE new == [s \in rows |-> [s EXCEPT !.pos = LastPlace(list, s),
                       !.upd = IF Places(list, s) \subseteq {s.pos} THEN @ ELSE req[h].now]]
  <2>7. new \in [rows -> Scene] /\ \A s \in rows : new[s].rev = s.rev /\ new[s].stable = s.stable
    BY <2>2, <2>5, <2>6 DEF Scene
  <2>8. scenes' = (scenes \ rows) \cup {new[s] : s \in rows}
    BY <2>4 DEF Reordered
  <2>9. RowsFit(scenes', revisions, lastStable)
    <3> HIDE DEF new, rows
    <3> QED BY <2>5, <2>7, <2>8, RewriteFits DEF TableFit
  <2>10. TableFit' /\ scenes' \subseteq Scene
    BY <2>1, <2>9 DEF TableFit, RowsFit, revisionVars
  <2>11. TypeOK'
    BY <1>5, <2>2, <2>10 DEF TypeOK, revisionVars, displayVars
  <2> QED BY <2>1, <2>2, <2>10, <2>11, RevisionsUntouched
<1>6. CASE UpdateMany(h)
  <2> USE DEF UpdateMany
  <2>1. Done(h, "updating") /\ UNCHANGED <<revisionVars, lastStable>>
    BY <1>6
  <2>2. req' \in [Handlers -> Request] /\ StampsFit'
    BY <2>1, DoneFit
  <2>3. clock + 1 \in Stamp /\ clock' = clock + 1
    BY <1>6, ClockType
  <2>4. PICK some \in SUBSET Addressed(h) :
          \/ \E e \in BOOLEAN :
               scenes' = (scenes \ some) \cup
                           {[s EXCEPT !.enabled = e, !.upd = clock + 1] : s \in some}
          \/ scenes' = (scenes \ some) \cup {[s EXCEPT !.upd = clock + 1] : s \in some}
    BY <1>6
  <2>5. some \subseteq scenes /\ some \subseteq Scene
    BY DEF Addressed, ScenesOf, TypeOK
  <2>6. \E new \in [some -> Scene] :
          /\ \A s \in some : new[s].rev = s.rev /\ new[s].stable = s.stable
          /\ scenes' = (scenes \ some) \cup {new[s] : s \in some}
    <3>1. CASE \E e \in BOOLEAN :
                 scenes' = (scenes \ some) \cup
                             {[s EXCEPT !.enabled = e, !.upd = clock + 1] : s \in some}
      <4>1. PICK e \in BOOLEAN :
                 scenes' = (scenes \ some) \cup
                             {[s EXCEPT !.enabled = e, !.upd = clock + 1] : s \in some}
        BY <3>1
      <4> DEFINE new == [s \in some |-> [s EXCEPT !.enabled = e, !.upd = clock + 1]]
      <4>2. new \in [some -> Scene] /\ \A s \in some : new[s].rev = s.rev /\ new[s].stable = s.stable
        BY <2>3, <2>5 DEF Scene
      <4>3. scenes' = (scenes \ some) \cup {new[s] : s \in some}
        BY <4>1
      <4> HIDE DEF new
      <4> QED BY <4>2, <4>3
    <3>2. CASE scenes' = (scenes \ some) \cup {[s EXCEPT !.upd = clock + 1] : s \in some}
      <4> DEFINE new == [s \in some |-> [s EXCEPT !.upd = clock + 1]]
      <4>2. new \in [some -> Scene] /\ \A s \in some : new[s].rev = s.rev /\ new[s].stable = s.stable
        BY <2>3, <2>5 DEF Scene
      <4>3. scenes' = (scenes \ some) \cup {new[s] : s \in some}
        BY <3>2
      <4> HIDE DEF new
      <4> QED BY <4>2, <4>3
    <3> QED BY <2>4, <3>1, <3>2
  <2>7. RowsFit(scenes', revisions, lastStable)
    BY <2>5, <2>6, RewriteFits DEF TableFit
  <2>8. TableFit' /\ scenes' \subseteq Scene
    BY <2>1, <2>7 DEF TableFit, RowsFit, revisionVars
  <2>9. TypeOK'
    BY <1>6, <2>2, <2>3, <2>8 DEF TypeOK, revisionVars, displayVars
  <2> QED BY <2>1, <2>2, <2>8, <2>9, RevisionsUntouched
<1>7. CASE DeleteScene(h)
  <2>1. Done(h, "updating") /\ UNCHANGED <<revisionVars, lastStable>> /\ scenes' \subseteq scenes
    BY <1>7 DEF DeleteScene
  <2>2. req' \in [Handlers -> Request] /\ StampsFit'
    BY <2>1, DoneFit
  <2>3. TableFit'
    BY <2>1 DEF TableFit, RowsFit, revisionVars
  <2>4. TypeOK'
    BY <1>7, <2>1, <2>2 DEF DeleteScene, TypeOK, revisionVars, displayVars
  <2> QED BY <2>1, <2>2, <2>3, <2>4, RevisionsUntouched
<1>8. CASE GiveUp(h)
  <2>1. req' = [req EXCEPT ![h] = Idle]
    BY <1>8 DEF GiveUp
  <2>2. TypeOK'
    BY <1>8, <2>1 DEF GiveUp, TypeOK, Idle, Request, revisionVars, sceneVars, displayVars
  <2>3. StampsFit'
    BY <2>1 DEF StampsFit, TypeOK, Idle
  <2> QED BY <1>8, <2>2, <2>3, StoreUntouched DEF GiveUp
<1> QED BY <1>1, <1>2, <1>3, <1>4, <1>5, <1>6, <1>7, <1>8 DEF Editing

\* The draft's id and the next ids of the table.
LEMMA DraftIsUnpublished ==
  ASSUME Consistent
  PROVE  /\ \A d \in isDraft : isDraft = {d} /\ d \in revisions /\ publishedAt[d] = 0
         /\ isDraft \cap Published = {}
         /\ \A n \in Revision : n > lastRevision => n \notin revisions /\ publishedAt[n] = 0
  BY PlaylistAssumption DEF Consistent, SingleDraft, IdsFit, TypeOK, Published, Revision

\* Cloning a revision into an id that is free keeps the table fit.
LEMMA CloneFits ==
  ASSUME TableFit, NEW rows, NEW ids, RowsFit(rows, ids, lastStable),
         NEW src, NEW dst \in Revision \ ids
  PROVE  RowsFit(rows \cup Clone(src, dst), ids \cup {dst}, lastStable)
<1>1. RowsFit(scenes, revisions, lastStable)
  BY DEF TableFit
<1>2. Clone(src, dst) = {[s EXCEPT !.rev = dst] : s \in {t \in scenes : t.rev = src}}
  BY DEF Clone, ScenesOf
<1> QED BY <1>1, <1>2, CopyFits, Zenon

\* Pruning keeps the invariant, and never takes the draft.
LEMMA PruneConsistent ==
  ASSUME Consistent, PruneRevisions, UNCHANGED <<clock, hubRevision, fetch, shown>>,
         req' \in [Handlers -> Request], StampsFit'
  PROVE  Consistent'
<1> USE DEF Consistent, PruneRevisions
<1>1. Prunable \subseteq revisions /\ isDraft \cap Prunable = {} /\ kept \cap Prunable = {}
  BY DEF Prunable, Published
<1>2. RowsFit(scenes', revisions', lastStable)
  BY CascadeFits DEF TableFit, WithoutScenesOf
<1>3. TableFit' /\ scenes' \subseteq Scene
  BY <1>2 DEF TableFit, RowsFit
<1>4. publishedAt' \in [Revision -> Stamp \cup {0}]
  BY DEF Reset, TypeOK
<1>5. TypeOK'
  BY <1>1, <1>3, <1>4 DEF TypeOK
<1>6. SingleDraft'
  BY <1>1 DEF SingleDraft, TypeOK, Reset
<1>7. IdsFit'
  BY <1>1 DEF IdsFit, TypeOK, Reset
<1> QED BY <1>3, <1>5, <1>6, <1>7

\* Every step of a publishing request keeps the invariant.
LEMMA PublishingConsistent ==
  ASSUME Consistent, NEW h \in Handlers, Publishing(h)
  PROVE  Consistent'
<1> USE DEF Consistent
<1> DEFINE fresh == lastRevision + 1
<1>0. req[h] \in Request /\ lastRevision \in Nat /\ 0 \in Stamp \cup {0} /\ 0 \in Revision \cup {0}
  BY PlaylistAssumption DEF TypeOK, Revision
<1>1. CASE Publish(h)
  <2> USE DEF Publish
  <2>1. PICK d \in isDraft :
          /\ fresh \in Revision
          /\ ReadClock
          /\ Begin(h, "prune", d, 0)
          /\ revisions' = revisions \cup {fresh}
          /\ isDraft' = (isDraft \ {d}) \cup {fresh}
          /\ publishedAt' = [publishedAt EXCEPT ![d] = clock + 1]
          /\ lastRevision' = fresh
          /\ scenes' = scenes \cup Clone(d, fresh)
          /\ UNCHANGED <<kept, lastStable, displayVars>>
    BY <1>1
  <2>2. d \in revisions /\ isDraft = {d} /\ fresh \notin revisions /\ publishedAt[fresh] = 0
    BY <1>0, <2>1, DraftIsUnpublished
  <2>3. clock + 1 \in Stamp /\ clock' = clock + 1
    BY <2>1, ClockType
  <2>4. d \in Revision
    BY <2>2 DEF TypeOK
  <2>5. req' \in [Handlers -> Request] /\ StampsFit'
    BY <1>0, <2>1, <2>4, BeginFit
  <2>6. RowsFit(scenes', revisions', lastStable)
    BY <2>1, <2>2, CloneFits DEF TableFit
  <2>7. TableFit' /\ scenes' \subseteq Scene
    BY <2>1, <2>6 DEF TableFit, RowsFit
  <2>8. TypeOK'
    BY <2>1, <2>2, <2>3, <2>5, <2>7 DEF TypeOK, displayVars
  <2>9. SingleDraft'
    BY <2>1, <2>2 DEF SingleDraft, TypeOK
  <2>10. IdsFit'
    BY <1>0, <2>1, <2>2 DEF IdsFit, TypeOK, Revision
  <2> QED BY <2>5, <2>7, <2>8, <2>9, <2>10
<1>2. CASE Rollback(h)
  <2> DEFINE again == lastRevision + 1
             next == lastRevision + 2
  <2>1. PICK target \in Published :
          /\ next \in Revision
          /\ ReadClock
          /\ Begin(h, "notify", again, 0)
          /\ ReplaceDraft(next, {again, next})
          /\ publishedAt' = [publishedAt EXCEPT ![again] = clock + 1]
          /\ scenes' = WithoutScenesOf(isDraft) \cup Clone(target, again) \cup Clone(target, next)
          /\ UNCHANGED <<lastStable, displayVars>>
    BY <1>2 DEF Rollback
  <2>2. again \in Revision
    BY <1>0, <2>1, PlaylistAssumption DEF Revision
  <2>3. /\ again \notin revisions /\ next \notin revisions /\ again # next
        /\ publishedAt[next] = 0
    BY <1>0, <2>1, <2>2, DraftIsUnpublished
  <2>4. clock + 1 \in Stamp /\ clock' = clock + 1
    BY <2>1, ClockType
  <2>5. req' \in [Handlers -> Request] /\ StampsFit'
    BY <1>0, <2>1, <2>2, BeginFit
  <2> DEFINE base  == revisions \ isDraft
             rows0 == WithoutScenesOf(isDraft)
             rows1 == rows0 \cup Clone(target, again)
  <2>6. RowsFit(rows0, base, lastStable)
    BY CascadeFits DEF TableFit, WithoutScenesOf
  <2>7. RowsFit(rows1, base \cup {again}, lastStable)
    <3> HIDE DEF rows0, base
    <3>1. again \in Revision \ base
      BY <2>2, <2>3 DEF base
    <3> QED BY <2>6, <3>1, CloneFits
  <2>8. RowsFit(rows1 \cup Clone(target, next), (base \cup {again}) \cup {next}, lastStable)
    <3> HIDE DEF rows1, base
    <3>1. next \in Revision \ (base \cup {again})
      BY <2>1, <2>3 DEF base
    <3> QED BY <2>7, <3>1, CloneFits
  <2>9. TableFit' /\ scenes' \subseteq Scene
    <3>1. revisions' = (base \cup {again}) \cup {next}
      BY <2>1 DEF ReplaceDraft
    <3> QED BY <2>1, <2>8, <3>1 DEF TableFit, RowsFit
  <2>10. TypeOK'
    BY <2>1, <2>2, <2>3, <2>4, <2>5, <2>9 DEF TypeOK, ReplaceDraft, displayVars
  <2>11. SingleDraft'
    BY <2>1, <2>3 DEF SingleDraft, TypeOK, ReplaceDraft
  <2>12. IdsFit'
    BY <1>0, <2>1, <2>2 DEF IdsFit, TypeOK, Revision, ReplaceDraft
  <2> QED BY <2>5, <2>9, <2>10, <2>11, <2>12
<1>3. CASE DiscardDraft(h)
  <2>1. /\ Live # 0
        /\ fresh \in Revision
        /\ ReplaceDraft(fresh, {fresh})
        /\ scenes' = WithoutScenesOf(isDraft) \cup Clone(Live, fresh)
        /\ UNCHANGED <<publishedAt, lastStable, clock, req, displayVars>>
    BY <1>3 DEF DiscardDraft
  <2>2. fresh \notin revisions /\ publishedAt[fresh] = 0
    BY <1>0, <2>1, DraftIsUnpublished
  <2>3. RowsFit(WithoutScenesOf(isDraft), revisions \ isDraft, lastStable)
    BY CascadeFits DEF TableFit, WithoutScenesOf
  <2>4. RowsFit(scenes', (revisions \ isDraft) \cup {fresh}, lastStable)
    BY <2>1, <2>2, <2>3, CloneFits
  <2>5. TableFit' /\ scenes' \subseteq Scene
    BY <2>1, <2>4 DEF TableFit, RowsFit, ReplaceDraft
  <2>6. TypeOK'
    BY <2>1, <2>2, <2>5 DEF TypeOK, ReplaceDraft, displayVars
  <2>7. SingleDraft'
    BY <2>1, <2>2 DEF SingleDraft, ReplaceDraft
  <2>8. IdsFit'
    BY <1>0, <2>1 DEF IdsFit, TypeOK, Revision, ReplaceDraft
  <2>9. StampsFit'
    BY <2>1 DEF StampsFit
  <2> QED BY <2>5, <2>6, <2>7, <2>8, <2>9
<1>4. CASE PruneAfterPublish(h)
  <2>1. Continue(h, "prune", "notify") /\ PruneRevisions /\ UNCHANGED <<clock, displayVars>>
    BY <1>4 DEF PruneAfterPublish
  <2>2. req' \in [Handlers -> Request] /\ StampsFit'
    BY <2>1, ContinueFit
  <2> QED BY <2>1, <2>2, PruneConsistent DEF displayVars
<1>5. CASE NotifyPlaylist(h)
  <2>1. Done(h, "notify") /\ hubRevision' = req[h].rev
    BY <1>5 DEF NotifyPlaylist
  <2>2. req' \in [Handlers -> Request] /\ StampsFit'
    BY <2>1, DoneFit
  <2>3. TypeOK'
    BY <1>0, <1>5, <2>1, <2>2 DEF NotifyPlaylist, TypeOK, Request, revisionVars, sceneVars
  <2> QED BY <1>5, <2>2, <2>3, StoreUntouched DEF NotifyPlaylist
<1> QED BY <1>1, <1>2, <1>3, <1>4, <1>5 DEF Publishing

\* Pins, housekeeping, readers and a restart keep the invariant.
LEMMA OthersConsistent ==
  ASSUME Consistent,
         \/ \E r \in Pinnable : SetKeep(r)
         \/ Housekeeping
         \/ \E p \in Readers : LookUpLive(p) \/ ListLive(p)
         \/ Restart
  PROVE  Consistent'
<1> USE DEF Consistent
<1>1. ASSUME NEW r \in Pinnable, SetKeep(r) PROVE Consistent'
  <2>1. kept' \subseteq revisions
    BY <1>1 DEF SetKeep, TypeOK
  <2> QED BY <1>1, <2>1 DEF SetKeep, TypeOK, SingleDraft, IdsFit, TableFit, StampsFit,
                            sceneVars, displayVars
<1>2. CASE Housekeeping
  <2>1. PruneRevisions /\ UNCHANGED <<clock, req, displayVars>>
    BY <1>2 DEF Housekeeping
  <2>2. req' \in [Handlers -> Request] /\ StampsFit'
    BY <2>1 DEF TypeOK, StampsFit
  <2> QED BY <2>1, <2>2, PruneConsistent DEF displayVars
<1>3. ASSUME NEW p \in Readers, LookUpLive(p) PROVE Consistent'
  <2>1. TypeOK'
    BY <1>3, LiveType DEF LookUpLive, TypeOK, revisionVars, sceneVars
  <2>2. StampsFit'
    BY <1>3 DEF LookUpLive, StampsFit
  <2> QED BY <1>3, <2>1, <2>2, StoreUntouched DEF LookUpLive
<1>4. ASSUME NEW p \in Readers, ListLive(p) PROVE Consistent'
  <2>1. [rev |-> fetch[p], blank |-> Playable(fetch[p]) = {}]
          \in [rev: Revision \cup {0}, blank: BOOLEAN]
    BY DEF TypeOK
  <2>2. TypeOK'
    BY <1>4, <2>1 DEF ListLive, TypeOK, revisionVars, sceneVars
  <2>3. StampsFit'
    BY <1>4 DEF ListLive, StampsFit
  <2> QED BY <1>4, <2>2, <2>3, StoreUntouched DEF ListLive
<1>5. CASE Restart
  <2>1. clock' \in Stamp \cup {0}
    BY <1>5, PlaylistAssumption DEF Restart, TypeOK, Stamp
  <2>2. TypeOK'
    BY <1>5, <2>1, LiveType DEF Restart, TypeOK, revisionVars, sceneVars, Idle, Request
  <2>3. StampsFit'
    BY <1>5 DEF Restart, StampsFit, Idle
  <2> QED BY <1>5, <2>2, <2>3, StoreUntouched DEF Restart
<1> QED BY <1>1, <1>2, <1>3, <1>4, <1>5

LEMMA StutterConsistent == Consistent /\ UNCHANGED vars => Consistent'
  BY DEF Consistent, TypeOK, SingleDraft, IdsFit, TableFit, StampsFit, vars, revisionVars,
         sceneVars, displayVars

\* The invariant holds in every state, whatever requests overlap.
THEOREM StoreConsistent == Spec => []Consistent
<1>1. Consistent /\ [Next]_vars => Consistent'
  <2> SUFFICES ASSUME Consistent, [Next]_vars PROVE Consistent'
    OBVIOUS
  <2>1. ASSUME NEW h \in Handlers, Editing(h) \/ Publishing(h) PROVE Consistent'
    BY <2>1, EditingConsistent, PublishingConsistent
  <2>2. CASE UNCHANGED vars
    BY <2>2, StutterConsistent
  <2> QED BY <2>1, <2>2, OthersConsistent DEF Next
<1> QED BY InitConsistent, <1>1, PTL DEF Spec

\* Whatever the store holds stays within its types.
THEOREM TypesHold == Spec => []TypeOK
<1>1. Consistent => TypeOK
  BY DEF Consistent
<1> QED BY StoreConsistent, <1>1, PTL

\* There is always one draft, and it has never been published, however many
\* publishes, rollbacks and discards race for the slot: the repair in
\* DraftRevision is dead code as long as rows are only written by this store.
THEOREM OneDraft == Spec => []SingleDraft
<1>1. Consistent => SingleDraft
  BY DEF Consistent
<1> QED BY StoreConsistent, <1>1, PTL

-----------------------------------------------------------------------------
(* What is live and what retention keeps, for any number of overlapping     *)
(* requests.                                                               *)

LEMMA PublishedType ==
  TypeOK => /\ Published \subseteq Revision
            /\ \A r \in Published : r \in Nat /\ publishedAt[r] \in Nat
<1> SUFFICES ASSUME TypeOK
             PROVE  /\ Published \subseteq Revision
                    /\ \A r \in Published : r \in Nat /\ publishedAt[r] \in Nat
  OBVIOUS
<1>1. Published \subseteq Revision
  BY DEF TypeOK, Published
<1>2. ASSUME NEW r \in Revision PROVE r \in Nat /\ publishedAt[r] \in Nat
  BY PlaylistAssumption DEF TypeOK, Revision, Stamp
<1> QED BY <1>1, <1>2

\* Live is the published revision that is newer than all the others.
LiveIsNewest ==
  \A r \in Published : (\A q \in Published \ {r} : Newer(r, q)) => Live = r

LEMMA LiveFound == TypeOK => LiveIsNewest
<1> SUFFICES ASSUME TypeOK, NEW r \in Published, \A q \in Published \ {r} : Newer(r, q)
             PROVE  Live = r
  BY DEF LiveIsNewest
<1>1. Live \in Published /\ \A q \in Published \ {Live} : Newer(Live, q)
  BY LiveIsPublished
<1>2. SUFFICES ASSUME Live # r PROVE FALSE
  OBVIOUS
<1>3. Newer(r, Live) /\ Newer(Live, r)
  BY <1>1, <1>2
<1> QED BY <1>1, <1>3, PublishedType DEF Newer

LEMMA LiveFoundNext == TypeOK' => LiveIsNewest'
  BY LiveFound, PTL

\* What is live depends on the revisions and their publication times alone.
SameTimes ==
  Published' = Published /\ \A r \in Published : publishedAt'[r] = publishedAt[r]

LEMMA LiveSame ==
  ASSUME TypeOK, TypeOK', SameTimes
  PROVE  Live' = Live
<1>1. Published' = Published
  BY DEF SameTimes
<1>2. CASE Published = {}
  BY <1>1, <1>2 DEF Live
<1>3. CASE Published # {}
  <2>1. PICK l : l = Live
    OBVIOUS
  <2>2. l \in Published /\ \A q \in Published \ {l} : Newer(l, q)
    BY <1>3, <2>1, LiveIsPublished
  <2>3. l \in Published' /\ \A q \in Published' \ {l} : Newer(l, q)'
    BY <1>1, <2>2 DEF Newer, SameTimes
  <2> QED BY <1>1, <2>1, <2>3, LiveFoundNext DEF LiveIsNewest
<1> QED BY <1>1, <1>2, <1>3

\* Nothing has been published in the future, as long as the clock never steps
\* back.
PastStamps == \A r \in Revision : publishedAt[r] <= clock

\* Pruning leaves the live revision and the one before it alone.
LEMMA PruneKeeps ==
  ASSUME TypeOK, NEW r \in Published, Cardinality({q \in Published : Newer(q, r)}) < 2
  PROVE  r \notin Prunable
<1>1. Cardinality({q \in Published : Newer(q, r)}) < KeepN
  <2>1. IsFiniteSet(Published)
    <3>1. Published \subseteq 1..MaxRevisions
      BY DEF TypeOK, Published, Revision
    <3>2. IsFiniteSet(1..MaxRevisions)
      BY PlaylistAssumption, FS_Interval
    <3> QED BY <3>1, <3>2, FS_Subset
  <2> DEFINE newer == {q \in Published : Newer(q, r)}
  <2>2. Cardinality(newer) \in Nat
    <3>1. newer \subseteq Published
      OBVIOUS
    <3> HIDE DEF newer
    <3> QED BY <2>1, <3>1, FS_Subset, FS_CardinalityType
  <2>3. KeepN \in Nat /\ 2 <= KeepN
    BY PlaylistAssumption DEF KeepN
  <2> QED BY <2>2, <2>3
<1> QED BY <1>1 DEF Prunable, Newest

\* Pruning does not move the display.
LEMMA PruneKeepsLive ==
  ASSUME Consistent, TypeOK', PruneRevisions
  PROVE  Live' = Live /\ Published' = Published \ Prunable
<1>1. Published' = Published \ Prunable
  BY DEF PruneRevisions, Published, Reset, Consistent, TypeOK
<1>2. CASE Published = {}
  BY <1>1, <1>2 DEF Live
<1>3. CASE Published # {}
  <2>1. PICK l : l = Live
    OBVIOUS
  <2>2. l \in Published /\ \A q \in Published \ {l} : Newer(l, q)
    BY <1>3, <2>1, LiveIsPublished DEF Consistent
  <2>3. \A q \in Published : ~Newer(q, l)
    BY <2>2, PublishedType DEF Newer, Consistent
  <2>4. {q \in Published : Newer(q, l)} = {}
    BY <2>3
  <2>5. l \notin Prunable
    BY <2>2, <2>4, PruneKeeps, FS_EmptySet DEF Consistent
  <2>6. \A q \in Published' : publishedAt'[q] = publishedAt[q]
    BY <1>1 DEF PruneRevisions, Reset, Published, Consistent, TypeOK
  <2>7. l \in Published' /\ \A q \in Published' \ {l} : Newer(l, q)'
    BY <1>1, <2>2, <2>5, <2>6 DEF Newer
  <2> QED BY <1>1, <2>1, <2>7, LiveFoundNext DEF LiveIsNewest
<1> QED BY <1>1, <1>2, <1>3

\* What a publish or a rollback does to the history.
Releases(r) ==
  /\ r \in Revision \ Published
  /\ Published' = Published \cup {r}
  /\ \A q \in Published : publishedAt'[q] = publishedAt[q]
  /\ publishedAt'[r] = clock + 1

\* Every step releases a revision, prunes, or leaves the history alone.
LEMMA HistoryStep ==
  ASSUME Consistent, [Next]_vars
  PROVE  (\E r : Releases(r)) \/ PruneRevisions \/ SameTimes
<1> USE DEF Consistent
<1>1. UNCHANGED <<revisions, publishedAt>> => SameTimes
  BY DEF SameTimes, Published
<1>2. ASSUME NEW h \in Handlers, Editing(h) PROVE SameTimes
  BY <1>1, <1>2 DEF Editing, StartSaving, StartUpdating, InsertScene, UpdateScene, Reorder,
                    UpdateMany, DeleteScene, GiveUp, revisionVars
<1>3. ASSUME NEW h \in Handlers, Publish(h) PROVE \E r : Releases(r)
  <2>1. PICK d \in isDraft :
          /\ lastRevision + 1 \in Revision
          /\ revisions' = revisions \cup {lastRevision + 1}
          /\ publishedAt' = [publishedAt EXCEPT ![d] = clock + 1]
          /\ ReadClock
    BY <1>3 DEF Publish
  <2>2. d \in revisions /\ d \notin Published /\ publishedAt[lastRevision + 1] = 0
    BY <2>1, DraftIsUnpublished, PlaylistAssumption DEF TypeOK, Revision
  <2>3. d \in Revision /\ clock + 1 # 0
    BY <2>1, <2>2, ClockType, PlaylistAssumption DEF TypeOK, Stamp
  <2>4. Releases(d)
    BY <2>1, <2>2, <2>3, DraftIsUnpublished DEF Releases, Published, TypeOK
  <2> QED BY <2>4
<1>4. ASSUME NEW h \in Handlers, Rollback(h) PROVE \E r : Releases(r)
  <2> DEFINE again == lastRevision + 1
             next == lastRevision + 2
  <2>1. /\ next \in Revision
        /\ ReadClock
        /\ revisions' = (revisions \ isDraft) \cup {again, next}
        /\ publishedAt' = [publishedAt EXCEPT ![again] = clock + 1]
    BY <1>4 DEF Rollback, ReplaceDraft
  <2>2. again \in Revision /\ again # next /\ again > lastRevision /\ next > lastRevision
    BY <2>1, PlaylistAssumption DEF TypeOK, Revision
  <2>3. again \notin revisions /\ publishedAt[again] = 0 /\ publishedAt[next] = 0
    BY <2>1, <2>2, DraftIsUnpublished
  <2>4. clock + 1 # 0
    BY <2>1, ClockType, PlaylistAssumption DEF Stamp
  <2>5. isDraft \cap Published = {}
    BY DraftIsUnpublished
  <2>6. Releases(again)
    BY <2>1, <2>2, <2>3, <2>4, <2>5 DEF Releases, Published, TypeOK
  <2> QED BY <2>6
<1>5. ASSUME NEW h \in Handlers, DiscardDraft(h) PROVE SameTimes
  <2> DEFINE fresh == lastRevision + 1
  <2>1. /\ fresh \in Revision
        /\ revisions' = (revisions \ isDraft) \cup {fresh}
        /\ publishedAt' = publishedAt
    BY <1>5 DEF DiscardDraft, ReplaceDraft
  <2>2. publishedAt[fresh] = 0 /\ isDraft \cap Published = {}
    BY <2>1, DraftIsUnpublished, PlaylistAssumption DEF TypeOK, Revision
  <2> QED BY <2>1, <2>2 DEF SameTimes, Published
<1>6. ASSUME NEW h \in Handlers, PruneAfterPublish(h) \/ NotifyPlaylist(h)
      PROVE  PruneRevisions \/ SameTimes
  BY <1>1, <1>6 DEF PruneAfterPublish, NotifyPlaylist, revisionVars
<1>7. ASSUME NEW r \in Pinnable, SetKeep(r) PROVE SameTimes
  BY <1>1, <1>7 DEF SetKeep
<1>8. ASSUME NEW p \in Readers, LookUpLive(p) \/ ListLive(p) PROVE SameTimes
  BY <1>1, <1>8 DEF LookUpLive, ListLive, revisionVars
<1>9. Restart \/ UNCHANGED vars => SameTimes
  BY <1>1 DEF Restart, vars, revisionVars
<1> QED BY <1>2, <1>3, <1>4, <1>5, <1>6, <1>7, <1>8, <1>9 DEF Next, Publishing, Housekeeping

\* A clock that survives restarts never goes back.
LEMMA ClockGoesOn ==
  ASSUME RTC, Consistent, Consistent', [Next]_vars
  PROVE  clock \in Nat /\ clock' \in Nat /\ clock <= clock'
<1>1. clock \in Nat /\ clock' \in Nat
  BY PlaylistAssumption DEF Consistent, TypeOK, Stamp
<1>2. Restart => clock' = clock
  BY DEF Restart
<1>3. ASSUME NEW h \in Handlers, Editing(h) PROVE ReadClock \/ clock' = clock
  BY <1>3 DEF Editing, StartSaving, StartUpdating, InsertScene, UpdateScene, Reorder,
              UpdateMany, DeleteScene, GiveUp
<1>4. ASSUME NEW h \in Handlers, Publishing(h) PROVE ReadClock \/ clock' = clock
  BY <1>4 DEF Publishing, Publish, Rollback, DiscardDraft, PruneAfterPublish, NotifyPlaylist
<1>5. ReadClock \/ clock' = clock
  BY <1>2, <1>3, <1>4 DEF Next, SetKeep, Housekeeping, LookUpLive, ListLive, vars
<1> QED BY <1>1, <1>5 DEF ReadClock

\* Without a clock that steps back, publication times stay in the past.
LEMMA PastStampsStep ==
  ASSUME RTC, Consistent, Consistent', PastStamps, [Next]_vars
  PROVE  PastStamps'
<1>1. clock \in Nat /\ clock' \in Nat
  BY PlaylistAssumption DEF Consistent, TypeOK, Stamp
<1>2. clock <= clock'
  BY ClockGoesOn
<1>3. \A r \in Revision : publishedAt[r] \in Nat /\ publishedAt'[r] \in Nat
  BY PlaylistAssumption DEF Consistent, TypeOK, Stamp
<1>4. \A r \in Revision : publishedAt'[r] \in {0, publishedAt[r], clock'}
  BY ClockType DEF Next, Editing, Publishing, StartSaving, StartUpdating, InsertScene,
              UpdateScene, Reorder, UpdateMany, DeleteScene, GiveUp, Publish, Rollback,
              DiscardDraft, SetKeep, PruneAfterPublish, NotifyPlaylist, Housekeeping, LookUpLive,
              ListLive, Restart, vars, revisionVars, PruneRevisions, Reset, Consistent, TypeOK
<1> QED BY <1>1, <1>2, <1>3, <1>4 DEF PastStamps

\* With a clock that never steps back, what is released is newer than all else.
LEMMA ReleaseGoesLive ==
  ASSUME Consistent, TypeOK', PastStamps, NEW r, Releases(r)
  PROVE  Live' = r
<1>1. \A q \in Published : q \in Revision /\ publishedAt[q] \in Nat /\ publishedAt[q] <= clock
  BY PublishedType DEF Consistent, PastStamps
<1>2. clock \in Nat
  BY PlaylistAssumption DEF Consistent, TypeOK, Stamp
<1>3. ASSUME NEW q \in Published' \ {r} PROVE Newer(r, q)'
  <2>1. q \in Published /\ publishedAt'[q] = publishedAt[q] /\ publishedAt'[r] = clock + 1
    BY <1>3 DEF Releases
  <2> QED BY <1>1, <1>2, <2>1 DEF Newer
<1>4. r \in Published'
  BY DEF Releases
<1> QED BY <1>3, <1>4, LiveFoundNext DEF LiveIsNewest

\* PublishGoesLive: what a publish or a rollback released is live, and nothing
\* else moves the display.  The clock must not step back over a restart.
THEOREM PublishesGoLive ==
  ASSUME RTC
  PROVE  Spec => PublishGoesLive
<1> DEFINE Moves == /\ Published' \ Published # {} => Live' \in Published' \ Published
                    /\ Published' \ Published = {} => Live' = Live
<1>1. Init => PastStamps
  BY DEF Init, PastStamps
<1>2. Consistent /\ Consistent' /\ PastStamps /\ [Next]_vars => PastStamps'
  BY PastStampsStep
<1>3. Consistent /\ Consistent' /\ PastStamps /\ [Next]_vars => [Moves]_vars
  <2> SUFFICES ASSUME Consistent, Consistent', PastStamps, [Next]_vars PROVE Moves
    OBVIOUS
  <2>1. TypeOK /\ TypeOK'
    BY DEF Consistent
  <2>2. ASSUME NEW r, Releases(r) PROVE Moves
    BY <2>1, <2>2, ReleaseGoesLive DEF Releases
  <2>3. CASE PruneRevisions
    BY <2>1, <2>3, PruneKeepsLive
  <2>4. CASE SameTimes
    BY <2>1, <2>4, LiveSame DEF SameTimes
  <2> QED BY <2>2, <2>3, <2>4, HistoryStep
<1> QED BY StoreConsistent, <1>1, <1>2, <1>3, PTL DEF Spec, PublishGoesLive

\* RollbackPointKept: the live revision and the one before it outlive every
\* prune, and nothing but a prune deletes a published revision.
THEOREM RollbackPointIsKept == Spec => RollbackPointKept
<1> DEFINE Keeps == \A r \in Published :
                      (Live' = Live /\ Cardinality({q \in Published : Newer(q, r)}) < 2)
                        => r \in Published'
<1>1. Consistent /\ Consistent' /\ [Next]_vars => [Keeps]_vars
  <2> SUFFICES ASSUME Consistent, Consistent', [Next]_vars PROVE Keeps
    OBVIOUS
  <2>1. TypeOK /\ TypeOK'
    BY DEF Consistent
  <2>2. ASSUME NEW r, Releases(r) PROVE Keeps
    BY <2>2 DEF Releases
  <2>3. CASE PruneRevisions
    <3>1. Published' = Published \ Prunable
      BY <2>1, <2>3, PruneKeepsLive
    <3> QED BY <2>1, <3>1, PruneKeeps
  <2>4. CASE SameTimes
    BY <2>4 DEF SameTimes
  <2> QED BY <2>2, <2>3, <2>4, HistoryStep
<1> QED BY StoreConsistent, <1>1, PTL DEF Spec, RollbackPointKept

-----------------------------------------------------------------------------
(* Requests that do not overlap: with one handler at a time an editor       *)
(* always holds the current draft, so what is published never changes and   *)
(* is always fit to show.                                                  *)

\* The hypothesis of what follows: there is but one handler.
OneAtATime == \A g, h \in Handlers : g = h

\* What the requests' overlap would break.
HoldsDraft ==
  \A h \in Handlers : req[h].pc \in {"saving", "updating"} => req[h].rev \in isDraft

\* Editors write rows of the draft alone.
LEMMA EditsDraftOnly ==
  ASSUME Consistent, HoldsDraft, NEW h \in Handlers, Editing(h)
  PROVE  \A s \in (scenes \ scenes') \cup (scenes' \ scenes) : s.rev \in isDraft
<1> USE DEF Consistent
<1>1. CASE StartSaving(h) \/ StartUpdating(h) \/ GiveUp(h)
  BY <1>1 DEF StartSaving, StartUpdating, GiveUp, sceneVars
<1>2. CASE InsertScene(h)
  BY <1>2 DEF InsertScene, HoldsDraft, Done
<1>3. CASE UpdateScene(h)
  <2>1. PICK s \in ScenesOf(req[h].rev), p \in Position, e \in BOOLEAN, v \in BOOLEAN :
          scenes' = (scenes \ {s}) \cup
                      {[s EXCEPT !.pos = p, !.enabled = e, !.valid = v, !.upd = req[h].now]}
    BY <1>3 DEF UpdateScene, Addressed
  <2> DEFINE new == [s EXCEPT !.pos = p, !.enabled = e, !.valid = v, !.upd = req[h].now]
  <2>2. s \in Scene /\ s.rev \in isDraft
    BY <1>3, <2>1 DEF ScenesOf, TypeOK, UpdateScene, Done, HoldsDraft
  <2>3. new.rev = s.rev
    BY <2>2 DEF Scene
  <2> HIDE DEF new
  <2>4. scenes' = (scenes \ {s}) \cup {new}
    BY <2>1 DEF new
  <2> QED BY <2>2, <2>3, <2>4
<1>4. CASE Reorder(h)
  <2> DEFINE rows == ScenesOf(req[h].rev)
  <2>1. req[h].rev \in isDraft
    BY <1>4 DEF Reorder, Done, HoldsDraft
  <2>2. PICK list : scenes' = (scenes \ rows) \cup Reordered(rows, list, req[h].now)
    BY <1>4 DEF Reorder
  <2>3. \A s \in rows : s \in Scene /\ s.rev \in isDraft
    BY <2>1 DEF ScenesOf, TypeOK
  <2>4. \A t \in Reordered(rows, list, req[h].now) : t.rev \in isDraft
    BY <2>3 DEF Reordered, Scene
  <2> QED BY <2>2, <2>3, <2>4
<1>5. CASE UpdateMany(h)
  <2>1. req[h].rev \in isDraft
    BY <1>5 DEF UpdateMany, Done, HoldsDraft
  <2>2. PICK some \in SUBSET ScenesOf(req[h].rev) :
          \/ \E e \in BOOLEAN :
               scenes' = (scenes \ some) \cup
                           {[s EXCEPT !.enabled = e, !.upd = clock + 1] : s \in some}
          \/ scenes' = (scenes \ some) \cup {[s EXCEPT !.upd = clock + 1] : s \in some}
    BY <1>5 DEF UpdateMany, Addressed
  <2>3. \A s \in some : s \in Scene /\ s.rev \in isDraft
    BY <2>1 DEF ScenesOf, TypeOK
  <2>4. \A t \in {[s EXCEPT !.upd = clock + 1] : s \in some} : t.rev \in isDraft
    BY <2>3 DEF Scene
  <2>5. \A e \in BOOLEAN :
          \A t \in {[s EXCEPT !.enabled = e, !.upd = clock + 1] : s \in some} : t.rev \in isDraft
    BY <2>3 DEF Scene
  <2> QED BY <2>2, <2>3, <2>4, <2>5
<1>6. CASE DeleteScene(h)
  BY <1>6 DEF DeleteScene, Addressed, ScenesOf, HoldsDraft, Done
<1> QED BY <1>1, <1>2, <1>3, <1>4, <1>5, <1>6 DEF Editing

\* A clone's rows belong to the revision that was cloned into.
LEMMA CloneRows ==
  ASSUME TypeOK, NEW src, NEW dst
  PROVE  /\ \A t \in Clone(src, dst) : t.rev = dst
         /\ \A t \in Clone(src, dst) : \E s \in ScenesOf(src) :
                                          t.enabled = s.enabled /\ t.valid = s.valid
         /\ \A s \in ScenesOf(src) : \E t \in Clone(src, dst) :
                                          t.enabled = s.enabled /\ t.valid = s.valid
<1>1. \A s \in ScenesOf(src) : s \in Scene
  BY DEF ScenesOf, TypeOK
<1>2. ASSUME NEW s \in ScenesOf(src)
      PROVE  LET t == [s EXCEPT !.rev = dst]
             IN t.rev = dst /\ t.enabled = s.enabled /\ t.valid = s.valid
  BY <1>1 DEF Scene
<1>3. \A t \in Clone(src, dst) : \E s \in ScenesOf(src) : t = [s EXCEPT !.rev = dst]
  BY DEF Clone
<1>4. \A s \in ScenesOf(src) : [s EXCEPT !.rev = dst] \in Clone(src, dst)
  BY DEF Clone
<1> QED BY <1>2, <1>3, <1>4, Zenon

\* With one request at a time nobody takes the draft from under an editor.
LEMMA HoldsDraftStep ==
  ASSUME OneAtATime, Consistent, HoldsDraft, [Next]_vars
  PROVE  HoldsDraft'
<1> USE DEF HoldsDraft, Consistent
<1>1. ASSUME NEW h \in Handlers, Editing(h) PROVE HoldsDraft'
  <2>1. isDraft' = isDraft
    BY <1>1 DEF Editing, StartSaving, StartUpdating, InsertScene, UpdateScene, Reorder,
                UpdateMany, DeleteScene, GiveUp, revisionVars
  <2>2. CASE StartSaving(h)
    <3>1. PICK d \in isDraft : Begin(h, "saving", d, clock + 1)
      BY <2>2 DEF StartSaving
    <3> QED BY <2>1, <3>1 DEF Begin, TypeOK
  <2>3. CASE StartUpdating(h)
    <3>1. PICK d \in isDraft : Begin(h, "updating", d, 0)
      BY <2>3 DEF StartUpdating
    <3> QED BY <2>1, <3>1 DEF Begin, TypeOK
  <2>4. CASE req' = [req EXCEPT ![h] = Idle]
    BY <2>1, <2>4 DEF Idle, TypeOK
  <2> QED BY <1>1, <2>2, <2>3, <2>4 DEF Editing, InsertScene, UpdateScene, Reorder,
                                     UpdateMany, DeleteScene, GiveUp, Done
<1>2. ASSUME NEW h \in Handlers, Publishing(h) PROVE HoldsDraft'
  <2>1. \A g \in Handlers : g = h
    BY DEF OneAtATime
  <2>2. CASE Publish(h)
    <3>1. PICK d \in isDraft : Begin(h, "prune", d, 0)
      BY <2>2 DEF Publish
    <3> QED BY <2>1, <3>1 DEF Begin, TypeOK
  <2>3. CASE Rollback(h)
    <3>1. Begin(h, "notify", lastRevision + 1, 0)
      BY <2>3 DEF Rollback
    <3> QED BY <2>1, <3>1 DEF Begin, TypeOK
  <2>4. CASE DiscardDraft(h)
    BY <2>1, <2>4 DEF DiscardDraft, Idle
  <2>5. CASE PruneAfterPublish(h)
    BY <2>1, <2>5 DEF PruneAfterPublish, Continue, TypeOK, Request
  <2>6. CASE NotifyPlaylist(h)
    BY <2>1, <2>6 DEF NotifyPlaylist, Done, Idle, TypeOK
  <2> QED BY <1>2, <2>2, <2>3, <2>4, <2>5, <2>6 DEF Publishing
<1>3. ASSUME NEW r, SetKeep(r) PROVE HoldsDraft'
  BY <1>3 DEF SetKeep
<1>4. ASSUME NEW p, LookUpLive(p) \/ ListLive(p) PROVE HoldsDraft'
  BY <1>4 DEF LookUpLive, ListLive, revisionVars
<1>5. CASE Housekeeping
  BY <1>5 DEF Housekeeping, PruneRevisions
<1>6. CASE Restart
  BY <1>6 DEF Restart, Idle
<1>7. CASE UNCHANGED vars
  BY <1>7 DEF vars, revisionVars
<1> QED BY <1>1, <1>2, <1>3, <1>4, <1>5, <1>6, <1>7 DEF Next

\* The rows of a published revision are never written.
LEMMA PublishedRowsKept ==
  ASSUME Consistent, TypeOK', HoldsDraft, [Next]_vars, NEW r \in Published, r \in Published'
  PROVE  ScenesOf(r)' = ScenesOf(r)
<1> USE DEF Consistent
<1>1. r \notin isDraft /\ r <= lastRevision /\ r \in revisions /\ r \in Nat /\ lastRevision \in Nat
  BY DraftIsUnpublished, PublishedType, PlaylistAssumption DEF IdsFit, Published, TypeOK, Revision
<1>2. scenes' = scenes => ScenesOf(r)' = ScenesOf(r)
  BY DEF ScenesOf
<1>3. ASSUME NEW h \in Handlers, Editing(h) PROVE ScenesOf(r)' = ScenesOf(r)
  BY <1>1, <1>3, EditsDraftOnly DEF ScenesOf
<1>4. ASSUME NEW h \in Handlers, Publish(h) PROVE ScenesOf(r)' = ScenesOf(r)
  <2>1. PICK d \in isDraft : scenes' = scenes \cup Clone(d, lastRevision + 1)
    BY <1>4 DEF Publish
  <2>2. \A t \in Clone(d, lastRevision + 1) : t.rev # r
    BY <1>1, CloneRows
  <2> QED BY <2>1, <2>2 DEF ScenesOf
<1>5. ASSUME NEW h \in Handlers, Rollback(h) PROVE ScenesOf(r)' = ScenesOf(r)
  <2>1. PICK target \in Published :
          scenes' = WithoutScenesOf(isDraft) \cup Clone(target, lastRevision + 1)
                      \cup Clone(target, lastRevision + 2)
    BY <1>5 DEF Rollback
  <2>2. \A t \in Clone(target, lastRevision + 1) \cup Clone(target, lastRevision + 2) : t.rev # r
    BY <1>1, CloneRows
  <2> QED BY <1>1, <2>1, <2>2 DEF ScenesOf, WithoutScenesOf
<1>6. ASSUME NEW h \in Handlers, DiscardDraft(h) PROVE ScenesOf(r)' = ScenesOf(r)
  <2>1. scenes' = WithoutScenesOf(isDraft) \cup Clone(Live, lastRevision + 1)
    BY <1>6 DEF DiscardDraft
  <2>2. \A t \in Clone(Live, lastRevision + 1) : t.rev # r
    BY <1>1, CloneRows
  <2> QED BY <1>1, <2>1, <2>2 DEF ScenesOf, WithoutScenesOf
<1>7. CASE PruneRevisions
  <2>1. r \notin Prunable
    BY <1>7, PruneKeepsLive
  <2> QED BY <1>7, <2>1 DEF PruneRevisions, WithoutScenesOf, ScenesOf
<1>8. ASSUME NEW h \in Handlers, PruneAfterPublish(h) \/ NotifyPlaylist(h)
      PROVE  PruneRevisions \/ scenes' = scenes
  BY <1>8 DEF PruneAfterPublish, NotifyPlaylist, sceneVars
<1>9. ASSUME NEW q, SetKeep(q) \/ LookUpLive(q) \/ ListLive(q) PROVE scenes' = scenes
  BY <1>9 DEF SetKeep, LookUpLive, ListLive, sceneVars
<1>10. Restart \/ UNCHANGED vars => scenes' = scenes
  BY DEF Restart, vars, sceneVars
<1> QED BY <1>2, <1>3, <1>4, <1>5, <1>6, <1>7, <1>8, <1>9, <1>10 DEF Next, Publishing, Housekeeping

\* PublishedImmutable: with one request at a time, a published revision's scenes
\* never change.
THEOREM PublishedIsImmutable ==
  ASSUME OneAtATime
  PROVE  Spec => PublishedImmutable
<1> DEFINE Same == \A r \in Published \cap Published' : Content(r)' = Content(r)
<1>1. Init => HoldsDraft
  BY DEF Init, HoldsDraft, Idle
<1>2. Consistent /\ HoldsDraft /\ [Next]_vars => HoldsDraft'
  BY HoldsDraftStep
<1>3. Consistent /\ Consistent' /\ HoldsDraft /\ [Next]_vars => [Same]_vars
  <2> SUFFICES ASSUME Consistent, Consistent', HoldsDraft, [Next]_vars,
                      NEW r \in Published, r \in Published'
               PROVE  Content(r)' = Content(r)
    OBVIOUS
  <2>1. ScenesOf(r)' = ScenesOf(r)
    BY PublishedRowsKept DEF Consistent
  <2> QED BY <2>1 DEF Content
<1> QED BY StoreConsistent, <1>1, <1>2, <1>3, PTL DEF Spec, PublishedImmutable

\* Only a publish or a rollback adds to the history.
LEMMA OnlyReleasesPublish ==
  ASSUME Consistent, TypeOK', [Next]_vars, NEW r \in Published', r \notin Published
  PROVE  \E h \in Handlers : Publish(h) \/ Rollback(h)
<1> USE DEF Consistent
<1>1. UNCHANGED <<revisions, publishedAt>> => Published' = Published
  BY DEF Published
<1>2. ~PruneRevisions
  BY PruneKeepsLive
<1>3. ASSUME NEW h \in Handlers, Editing(h) PROVE FALSE
  BY <1>1, <1>3 DEF Editing, StartSaving, StartUpdating, InsertScene, UpdateScene, Reorder,
                    UpdateMany, DeleteScene, GiveUp, revisionVars
<1>4. ASSUME NEW h \in Handlers, DiscardDraft(h) PROVE FALSE
  <2>1. /\ lastRevision + 1 \in Revision
        /\ revisions' = (revisions \ isDraft) \cup {lastRevision + 1}
        /\ publishedAt' = publishedAt
    BY <1>4 DEF DiscardDraft, ReplaceDraft
  <2>2. publishedAt[lastRevision + 1] = 0
    BY <2>1, DraftIsUnpublished, PlaylistAssumption DEF TypeOK, Revision
  <2> QED BY <2>1, <2>2 DEF Published
<1>5. ASSUME NEW h \in Handlers, PruneAfterPublish(h) \/ NotifyPlaylist(h) PROVE FALSE
  BY <1>1, <1>2, <1>5 DEF PruneAfterPublish, NotifyPlaylist, revisionVars
<1>6. ASSUME NEW q, SetKeep(q) \/ LookUpLive(q) \/ ListLive(q) PROVE FALSE
  BY <1>1, <1>6 DEF SetKeep, LookUpLive, ListLive, revisionVars
<1>7. ~Restart /\ ~UNCHANGED vars /\ ~Housekeeping
  BY <1>1, <1>2 DEF Restart, vars, revisionVars, Housekeeping
<1> QED BY <1>3, <1>4, <1>5, <1>6, <1>7 DEF Next, Publishing

\* What the display may show: something playable, and nothing known broken.
Fit(r) == /\ \E s \in ScenesOf(r) : s.enabled /\ s.valid
          /\ \A s \in ScenesOf(r) : s.enabled => s.valid

HistoryFit == \A r \in Published : Fit(r)

\* A publish checks what it releases, and a rollback releases a copy of what was
\* released before.
LEMMA ReleaseFit ==
  ASSUME Consistent, HistoryFit, NEW h \in Handlers, Publish(h) \/ Rollback(h),
         NEW r \in Published', r \notin Published
  PROVE  Fit(r)'
<1> USE DEF Consistent
<1>1. CASE Publish(h)
  <2>1. PICK d \in isDraft :
          /\ Publishable(d)
          /\ lastRevision + 1 \in Revision
          /\ revisions' = revisions \cup {lastRevision + 1}
          /\ publishedAt' = [publishedAt EXCEPT ![d] = clock + 1]
          /\ scenes' = scenes \cup Clone(d, lastRevision + 1)
    BY <1>1 DEF Publish
  <2>2. /\ publishedAt[lastRevision + 1] = 0
        /\ d \in revisions
        /\ d # lastRevision + 1
    BY <2>1, DraftIsUnpublished, PlaylistAssumption DEF TypeOK, Revision
  <2>3. r = d
    BY <2>1, <2>2 DEF Published, TypeOK
  <2>4. \A t \in Clone(d, lastRevision + 1) : t.rev # d
    BY <2>2, CloneRows
  <2>5. ScenesOf(r)' = ScenesOf(d)
    BY <2>1, <2>3, <2>4 DEF ScenesOf
  <2> QED BY <2>1, <2>5 DEF Publishable, Fit
<1>2. CASE Rollback(h)
  <2> DEFINE again == lastRevision + 1
             next == lastRevision + 2
  <2>1. PICK target \in Published :
          /\ next \in Revision
          /\ revisions' = (revisions \ isDraft) \cup {again, next}
          /\ publishedAt' = [publishedAt EXCEPT ![again] = clock + 1]
          /\ scenes' = WithoutScenesOf(isDraft) \cup Clone(target, again) \cup Clone(target, next)
    BY <1>2 DEF Rollback, ReplaceDraft
  <2>2. lastRevision \in Nat /\ again \in Revision /\ again # next
    BY <2>1, PlaylistAssumption DEF TypeOK, Revision
  <2>3. again \notin revisions /\ publishedAt[next] = 0
    BY <2>1, <2>2, DraftIsUnpublished
  <2>4. r = again
    BY <2>1, <2>3 DEF Published, TypeOK
  <2>5. \A s \in scenes : s.rev # again
    BY <2>3 DEF TableFit, RowsFit
  <2>6. /\ \A t \in Clone(target, again) : t.rev = again
        /\ \A t \in Clone(target, next) : t.rev # again
    BY <2>2, CloneRows
  <2>7. ScenesOf(r)' = Clone(target, again)
    BY <2>1, <2>4, <2>5, <2>6 DEF ScenesOf, WithoutScenesOf
  <2>8. Fit(target)
    BY DEF HistoryFit
  <2> QED BY <2>7, <2>8, CloneRows DEF Fit
<1> QED BY <1>1, <1>2

\* So the history stays fit to show.
LEMMA HistoryFitStep ==
  ASSUME Consistent, Consistent', HoldsDraft, HistoryFit, [Next]_vars
  PROVE  HistoryFit'
<1> SUFFICES ASSUME NEW r \in Published' PROVE Fit(r)'
  BY DEF HistoryFit
<1>1. CASE r \in Published
  <2>1. ScenesOf(r)' = ScenesOf(r)
    BY <1>1, PublishedRowsKept DEF Consistent
  <2> QED BY <1>1, <2>1 DEF HistoryFit, Fit
<1>2. CASE r \notin Published
  <2>1. \E h \in Handlers : Publish(h) \/ Rollback(h)
    BY <1>2, OnlyReleasesPublish DEF Consistent
  <2> QED BY <1>2, <2>1, ReleaseFit
<1> QED BY <1>1, <1>2

\* LiveFit: with one request at a time, what is live is fit to show.
THEOREM LiveIsFit ==
  ASSUME OneAtATime
  PROVE  Spec => []LiveFit
<1>1. Init => HoldsDraft /\ HistoryFit
  <2>1. 1 \in Revision
    BY PlaylistAssumption DEF Revision
  <2> QED BY <2>1 DEF Init, HoldsDraft, Idle, HistoryFit, Published
<1>2. Consistent /\ HoldsDraft /\ [Next]_vars => HoldsDraft'
  BY HoldsDraftStep
<1>3. Consistent /\ Consistent' /\ HoldsDraft /\ HistoryFit /\ [Next]_vars => HistoryFit'
  BY HistoryFitStep
<1>4. Consistent /\ HistoryFit => LiveFit
  <2> SUFFICES ASSUME Consistent, HistoryFit, Live # 0
               PROVE  /\ Playable(Live) # {}
                      /\ \A s \in ScenesOf(Live) : s.enabled => s.valid
    BY DEF LiveFit
  <2>1. Live \in Published
    BY LiveIsPublished DEF Consistent, Live
  <2> QED BY <2>1 DEF HistoryFit, Fit, Playable
<1> QED BY StoreConsistent, <1>1, <1>2, <1>3, <1>4, PTL DEF Spec

-----------------------------------------------------------------------------
(* Readers between their two queries.  A publish prunes, so what a reader    *)
(* has looked up may be gone when it lists the scenes: Overtaken says that   *)
(* two others are published then.                                            *)

\* Among published revisions one is newer than the others.
LEMMA NewestExists ==
  ASSUME TypeOK, NEW S \in SUBSET Published, S # {}
  PROVE  \E r \in S : \A q \in S \ {r} : Newer(r, q)
<1>1. Published \subseteq Revision /\ MaxRevisions \in Nat /\ MaxClock \in Nat
  BY PlaylistAssumption DEF TypeOK, Published
<1>2. \A r \in S : publishedAt[r] \in 1..MaxClock
  BY <1>1 DEF TypeOK, Published, Revision, Stamp
<1> DEFINE Times == {publishedAt[r] : r \in S}
<1>3. Times \in SUBSET (0..MaxClock) /\ Times # {}
  BY <1>1, <1>2
<1>4. PICK t \in Times : \A u \in Times : u <= t
  BY <1>1, <1>3, GreatestExists
<1> DEFINE Latest == {r \in S : publishedAt[r] = t}
<1>5. Latest \in SUBSET (0..MaxRevisions) /\ Latest # {}
  <2>1. \E r \in S : publishedAt[r] = t
    BY <1>4
  <2>2. Latest \subseteq 0..MaxRevisions
    <3>1. Latest \subseteq Published
      OBVIOUS
    <3>2. Revision \subseteq 0..MaxRevisions
      BY <1>1 DEF Revision
    <3> QED BY <1>1, <3>1, <3>2
  <2> QED BY <2>1, <2>2
<1>6. PICK r \in Latest : \A q \in Latest : q <= r
  BY <1>1, <1>5, GreatestExists
<1>7. \A q \in S \ {r} : Newer(r, q)
  BY <1>1, <1>2, <1>4, <1>6 DEF Newer, Revision
<1> QED BY <1>6, <1>7

\* A revision with a publication time has a row.
TimesFit == \A r \in Revision : publishedAt[r] # 0 => r \in revisions

\* Only rows are stamped, and rows go with their time.
LEMMA TimesFitStep ==
  ASSUME Consistent, TimesFit, [Next]_vars
  PROVE  TimesFit'
<1> USE DEF Consistent
<1>1. UNCHANGED <<revisions, publishedAt>> => TimesFit'
  BY DEF TimesFit
<1>2. ASSUME NEW h \in Handlers, Editing(h) PROVE TimesFit'
  BY <1>1, <1>2 DEF Editing, StartSaving, StartUpdating, InsertScene, UpdateScene, Reorder,
                    UpdateMany, DeleteScene, GiveUp, revisionVars
<1>3. ASSUME NEW h \in Handlers, Publish(h) PROVE TimesFit'
  BY <1>3 DEF Publish, TimesFit, TypeOK
<1>4. \A d \in isDraft : publishedAt[d] = 0
  BY DEF SingleDraft
<1>5. ASSUME NEW h \in Handlers, Rollback(h) PROVE TimesFit'
  BY <1>4, <1>5 DEF Rollback, ReplaceDraft, TimesFit, TypeOK
<1>6. ASSUME NEW h \in Handlers, DiscardDraft(h) PROVE TimesFit'
  BY <1>4, <1>6 DEF DiscardDraft, ReplaceDraft, TimesFit, TypeOK
<1>7. CASE PruneRevisions
  BY <1>7 DEF PruneRevisions, Reset, TimesFit
<1>8. ASSUME NEW h \in Handlers, PruneAfterPublish(h) \/ NotifyPlaylist(h) PROVE TimesFit'
  BY <1>1, <1>7, <1>8 DEF PruneAfterPublish, NotifyPlaylist, revisionVars
<1>9. ASSUME NEW q, SetKeep(q) \/ LookUpLive(q) \/ ListLive(q) PROVE TimesFit'
  BY <1>1, <1>9 DEF SetKeep, LookUpLive, ListLive, revisionVars
<1>10. Restart \/ UNCHANGED vars => TimesFit'
  BY <1>1 DEF Restart, vars, revisionVars
<1> QED BY <1>2, <1>3, <1>5, <1>6, <1>7, <1>8, <1>9, <1>10 DEF Next, Publishing, Housekeeping

\* There are two published revisions.
TwoPublished == \E a, b \in Published : a # b

\* Pruning leaves two published revisions if there are two.
LEMMA PruneLeavesTwo ==
  ASSUME Consistent, TypeOK', PruneRevisions, TwoPublished
  PROVE  TwoPublished'
<1> USE DEF Consistent
<1>1. PICK l \in Published : \A q \in Published \ {l} : Newer(l, q)
  BY NewestExists DEF TwoPublished
<1>2. Published \ {l} # {}
  BY DEF TwoPublished
<1>3. PICK m \in Published \ {l} : \A q \in (Published \ {l}) \ {m} : Newer(m, q)
  BY <1>2, NewestExists
<1>4. \A q \in Published : ~Newer(q, l) /\ (Newer(q, m) => q = l)
  BY <1>1, <1>3, PublishedType DEF Newer
<1>5. {q \in Published : Newer(q, l)} = {}
  BY <1>4
<1>6. {q \in Published : Newer(q, m)} \subseteq {l}
  BY <1>4
<1>7. Cardinality({q \in Published : Newer(q, l)}) < 2
  BY <1>5, FS_EmptySet
<1>8. Cardinality({q \in Published : Newer(q, m)}) < 2
  <2> DEFINE newer == {q \in Published : Newer(q, m)}
  <2>1. IsFiniteSet({l}) /\ Cardinality({l}) = 1
    BY FS_Singleton
  <2>2. newer \subseteq {l}
    BY <1>6
  <2> HIDE DEF newer
  <2>3. Cardinality(newer) <= 1 /\ Cardinality(newer) \in Nat
    BY <2>1, <2>2, FS_Subset, FS_CardinalityType
  <2> QED BY <2>3 DEF newer
<1>9. l \notin Prunable /\ m \notin Prunable
  BY <1>3, <1>7, <1>8, PruneKeeps
<1>10. Published' = Published \ Prunable
  BY PruneKeepsLive
<1> QED BY <1>3, <1>9, <1>10 DEF TwoPublished

\* A prune that deletes a revision has two others to keep.
LEMMA PrunedHasNewer ==
  ASSUME TypeOK, NEW r \in Prunable
  PROVE  TwoPublished
<1>1. r \in Published /\ ~(Cardinality({q \in Published : Newer(q, r)}) < 2)
  BY PruneKeeps DEF Prunable
<1>2. {q \in Published : Newer(q, r)} # {}
  BY <1>1, FS_EmptySet
<1>3. PICK q \in Published : Newer(q, r)
  BY <1>2
<1>4. q # r
  BY <1>1, <1>3, PublishedType DEF Newer
<1> QED BY <1>1, <1>3, <1>4 DEF TwoPublished

\* What a reader has looked up is published, or has been pruned for two others.
Overtaken == \A p \in Readers : fetch[p] # 0 /\ fetch[p] \notin Published => TwoPublished

\* A reader looks up what is published, and a prune has two others to keep.
LEMMA OvertakenStep ==
  ASSUME Consistent, Consistent', Overtaken, [Next]_vars
  PROVE  Overtaken'
<1> USE DEF Consistent
<1>1. SUFFICES ASSUME NEW p \in Readers, fetch'[p] # 0, fetch'[p] \notin Published' PROVE TwoPublished'
  BY DEF Overtaken
<1>2. fetch'[p] = fetch[p] \/ fetch'[p] \in Published'
  <2>1. ASSUME NEW q \in Readers, LookUpLive(q) PROVE fetch'[p] = fetch[p] \/ fetch'[p] \in Published'
    <3>1. Live \in Published
      BY <2>1, LiveIsPublished DEF LookUpLive, Live
    <3>2. Published' = Published
      BY <2>1 DEF LookUpLive, Published, revisionVars
    <3> QED BY <2>1, <3>1, <3>2 DEF LookUpLive, TypeOK
  <2>2. ASSUME NEW q \in Readers, ListLive(q) PROVE fetch'[p] = fetch[p] \/ fetch'[p] = 0
    BY <2>2 DEF ListLive, TypeOK
  <2>3. Restart => fetch'[p] = 0
    BY DEF Restart
  <2>4. ASSUME NEW h \in Handlers, Editing(h) \/ Publishing(h) PROVE fetch' = fetch
    BY <2>4 DEF Editing, StartSaving, StartUpdating, InsertScene, UpdateScene, Reorder,
                UpdateMany, DeleteScene, GiveUp, Publishing, Publish, Rollback, DiscardDraft,
                PruneAfterPublish, NotifyPlaylist, displayVars
  <2>5. ASSUME NEW r, SetKeep(r) PROVE fetch' = fetch
    BY <2>5 DEF SetKeep, displayVars
  <2>6. Housekeeping \/ UNCHANGED vars => fetch' = fetch
    BY DEF Housekeeping, vars, displayVars
  <2> QED BY <1>1, <2>1, <2>2, <2>3, <2>4, <2>5, <2>6 DEF Next
<1>3. fetch'[p] = fetch[p] /\ fetch[p] # 0
  BY <1>1, <1>2
<1>4. ASSUME NEW r, Releases(r) PROVE TwoPublished'
  <2>1. fetch[p] \notin Published
    BY <1>1, <1>3, <1>4 DEF Releases
  <2> QED BY <1>3, <1>4, <2>1 DEF Overtaken, TwoPublished, Releases
<1>5. CASE PruneRevisions
  <2>1. Published' = Published \ Prunable
    BY <1>5, PruneKeepsLive
  <2>2. TwoPublished
    BY <1>1, <1>3, <2>1, PrunedHasNewer DEF Overtaken
  <2> QED BY <1>5, <2>2, PruneLeavesTwo
<1>6. CASE SameTimes
  BY <1>1, <1>3, <1>6 DEF SameTimes, Overtaken, TwoPublished
<1> QED BY <1>4, <1>5, <1>6, HistoryStep

\* Two members make at least two.
LEMMA TwoMembers ==
  ASSUME NEW S, IsFiniteSet(S), NEW a \in S, NEW b \in S, a # b
  PROVE  ~(Cardinality(S) < 2)
<1>1. IsFiniteSet({a}) /\ Cardinality({a}) = 1
  BY FS_Singleton
<1>2. {a} \subseteq S /\ {a} # S
  OBVIOUS
<1>3. Cardinality(S) \in Nat /\ Cardinality({a}) < Cardinality(S)
  BY <1>1, <1>2, FS_Subset, FS_CardinalityType
<1> QED BY <1>1, <1>3

\* Nothing is published at first.
LEMMA InitServes == Init => HoldsDraft /\ HistoryFit /\ TimesFit /\ Overtaken
<1>1. 1 \in Revision
  BY PlaylistAssumption DEF Revision
<1> QED BY <1>1 DEF Init, HoldsDraft, Idle, HistoryFit, Published, TimesFit, Overtaken

\* ReadSurvivesPublish: with one request at a time, the scenes of the revision a
\* reader has looked up (LookUpLive) are there for its second query (ListLive)
\* unless two newer revisions came in between, the release of one of which may
\* have pruned it.
THEOREM ReadsSurvive ==
  ASSUME OneAtATime
  PROVE  Spec => []ReadSurvivesPublish
<1>2. Consistent /\ HoldsDraft /\ [Next]_vars => HoldsDraft'
  BY HoldsDraftStep
<1>3. Consistent /\ Consistent' /\ HoldsDraft /\ HistoryFit /\ [Next]_vars => HistoryFit'
  BY HistoryFitStep
<1>4. Consistent /\ TimesFit /\ [Next]_vars => TimesFit'
  BY TimesFitStep
<1>5. Consistent /\ Consistent' /\ Overtaken /\ [Next]_vars => Overtaken'
  BY OvertakenStep
<1>6. Consistent /\ HistoryFit /\ TimesFit /\ Overtaken => ReadSurvivesPublish
  <2> USE DEF Consistent
  <2> SUFFICES ASSUME Consistent, HistoryFit, TimesFit, Overtaken, NEW p \in Readers, fetch[p] # 0,
                      Cardinality({q \in Published : Newer(q, fetch[p])}) < 2
               PROVE  Playable(fetch[p]) # {}
    BY DEF ReadSurvivesPublish
  <2>1. CASE fetch[p] \in Published
    BY <2>1 DEF HistoryFit, Fit, Playable
  <2>2. CASE fetch[p] \notin Published
    <3>1. PICK a \in Published, b \in Published : a # b
      BY <2>2 DEF Overtaken, TwoPublished
    <3>2. fetch[p] \in Revision /\ publishedAt[fetch[p]] = 0
      BY <2>2 DEF TypeOK, TimesFit, Published
    <3>3. \A q \in Published : Newer(q, fetch[p])
      BY <3>2, PublishedType DEF Newer, Published
    <3>4. {q \in Published : Newer(q, fetch[p])} = Published
      BY <3>3
    <3>5. IsFiniteSet(Published)
      <4>1. Published \subseteq 1..MaxRevisions
        BY DEF TypeOK, Published, Revision
      <4>2. IsFiniteSet(1..MaxRevisions)
        BY PlaylistAssumption, FS_Interval
      <4> QED BY <4>1, <4>2, FS_Subset
    <3> QED BY <3>1, <3>4, <3>5, TwoMembers
  <2> QED BY <2>1, <2>2
<1> QED BY StoreConsistent, InitServes, <1>2, <1>3, <1>4, <1>5, <1>6, PTL DEF Spec

-----------------------------------------------------------------------------
(* What is live has ascending ids: the draft has the greatest id there is,   *)
(* and a release stamps the draft or takes a greater one.                    *)

\* The draft has the greatest id there is.
DraftIsLast == isDraft = {lastRevision}

\* Every operation that makes a draft takes the next id for it last.
LEMMA DraftIsLastStep ==
  ASSUME Consistent, DraftIsLast, [Next]_vars
  PROVE  DraftIsLast'
<1> USE DEF Consistent, DraftIsLast
<1>1. ASSUME NEW h \in Handlers, Editing(h) PROVE DraftIsLast'
  BY <1>1 DEF Editing, StartSaving, StartUpdating, InsertScene, UpdateScene, Reorder,
              UpdateMany, DeleteScene, GiveUp, revisionVars
<1>2. ASSUME NEW h \in Handlers, Publish(h) PROVE DraftIsLast'
  BY <1>2 DEF Publish
<1>3. ASSUME NEW h \in Handlers, Rollback(h) \/ DiscardDraft(h) PROVE DraftIsLast'
  BY <1>3 DEF Rollback, DiscardDraft, ReplaceDraft
<1>4. ASSUME NEW h \in Handlers, PruneAfterPublish(h) \/ NotifyPlaylist(h) PROVE DraftIsLast'
  BY <1>4 DEF PruneAfterPublish, NotifyPlaylist, PruneRevisions, revisionVars
<1>5. ASSUME NEW q, SetKeep(q) \/ LookUpLive(q) \/ ListLive(q) PROVE DraftIsLast'
  BY <1>5 DEF SetKeep, LookUpLive, ListLive, revisionVars
<1>6. Housekeeping \/ Restart \/ UNCHANGED vars => DraftIsLast'
  BY DEF Housekeeping, PruneRevisions, Restart, vars, revisionVars
<1> QED BY <1>1, <1>2, <1>3, <1>4, <1>5, <1>6 DEF Next, Publishing

\* Releases take ascending ids.
LEMMA ReleasesAscend ==
  ASSUME Consistent, TypeOK', DraftIsLast, [Next]_vars, NEW r, Releases(r)
  PROVE  \A q \in Published : q < r
<1> USE DEF Consistent
<1>1. PICK h \in Handlers : Publish(h) \/ Rollback(h)
  BY OnlyReleasesPublish DEF Releases
<1>2. lastRevision \in Nat /\ r \in Revision /\ r \in Published' /\ r \notin Published
  BY PlaylistAssumption DEF TypeOK, Revision, Releases
<1>3. r >= lastRevision
  <2>1. CASE Publish(h)
    <3>1. PICK d \in isDraft :
            /\ revisions' = revisions \cup {lastRevision + 1}
            /\ lastRevision + 1 \in Revision
            /\ publishedAt' = [publishedAt EXCEPT ![d] = clock + 1]
      BY <2>1 DEF Publish
    <3>2. r = lastRevision + 1 \/ r = lastRevision
      BY <1>2, <3>1 DEF DraftIsLast, Published, TypeOK
    <3> QED BY <1>2, <3>2
  <2>2. CASE Rollback(h)
    <3>1. /\ revisions' = (revisions \ isDraft) \cup {lastRevision + 1, lastRevision + 2}
          /\ publishedAt' = [publishedAt EXCEPT ![lastRevision + 1] = clock + 1]
          /\ lastRevision + 2 \in Revision
      BY <2>2 DEF Rollback, ReplaceDraft
    <3>2. r \in {lastRevision + 1, lastRevision + 2}
      BY <1>2, <3>1 DEF Published, TypeOK
    <3> QED BY <1>2, <3>2
  <2> QED BY <1>1, <2>1, <2>2
<1>4. ASSUME NEW q \in Published PROVE q < r
  <2>1. q \in Nat /\ r \in Nat
    BY <1>2, PublishedType, PlaylistAssumption DEF Revision
  <2>2. q <= lastRevision /\ q # lastRevision
    BY DraftIsUnpublished DEF IdsFit, Published, DraftIsLast
  <2> QED BY <1>2, <1>3, <2>1, <2>2
<1> QED BY <1>4

\* No reader is ahead of what is live, and an answer underway is not behind the last.
ReadersFollow ==
  \A p \in Readers : /\ shown[p].rev <= Live /\ fetch[p] <= Live
                     /\ fetch[p] # 0 => shown[p].rev <= fetch[p]

\* The live revision is a revision, or none.
LiveTyped == Live \in Revision \cup {0}

\* LiveType of the state a step leads to.
LEMMA LiveTypedNext == TypeOK' => LiveTyped'
<1>1. TypeOK => LiveTyped
  BY LiveType DEF LiveTyped
<1> QED BY <1>1, PTL

\* So what is live has ascending ids.
LEMMA LiveAscends ==
  ASSUME Consistent, TypeOK', PastStamps, DraftIsLast, [Next]_vars
  PROVE  Live <= Live'
<1> USE DEF Consistent
<1>1. Live \in Nat /\ Live' \in Nat
  <2>1. Live \in Revision \cup {0}
    BY LiveType
  <2>2. Live' \in Revision \cup {0}
    BY LiveTypedNext DEF LiveTyped
  <2> QED BY <2>1, <2>2, PlaylistAssumption DEF Revision
<1>2. ASSUME NEW r, Releases(r) PROVE Live <= Live'
  <2>1. Live' = r
    BY <1>2, ReleaseGoesLive
  <2>2. CASE Published = {}
    BY <1>1, <2>2 DEF Live
  <2>3. CASE Published # {}
    BY <1>1, <1>2, <2>1, <2>3, LiveIsPublished, ReleasesAscend
  <2> QED BY <2>2, <2>3
<1>3. PruneRevisions \/ SameTimes => Live' = Live
  BY PruneKeepsLive, LiveSame
<1> QED BY <1>1, <1>2, <1>3, HistoryStep

\* What a step does to one reader.
LEMMA ReaderStep ==
  ASSUME Consistent, [Next]_vars, NEW p \in Readers
  PROVE  \/ fetch'[p] = fetch[p] /\ shown'[p] = shown[p]
         \/ fetch'[p] = Live /\ shown'[p] = shown[p] /\ Live' = Live
         \/ fetch'[p] = 0 /\ shown'[p].rev = fetch[p] /\ fetch[p] # 0
         \/ fetch'[p] = 0 /\ shown'[p] = shown[p]
<1> USE DEF Consistent
<1>1. ASSUME NEW q \in Readers, LookUpLive(q)
      PROVE  \/ fetch'[p] = fetch[p] /\ shown'[p] = shown[p]
             \/ fetch'[p] = Live /\ shown'[p] = shown[p] /\ Live' = Live
  <2>1. UNCHANGED <<revisions, publishedAt, shown>> /\ fetch' = [fetch EXCEPT ![q] = Live]
    BY <1>1 DEF LookUpLive, revisionVars
  <2>2. Live' = Live
    BY <2>1 DEF Live, Published, Newer
  <2> QED BY <2>1, <2>2 DEF TypeOK
<1>2. ASSUME NEW q \in Readers, ListLive(q)
      PROVE  \/ fetch'[p] = fetch[p] /\ shown'[p] = shown[p]
             \/ fetch'[p] = 0 /\ shown'[p].rev = fetch[p] /\ fetch[p] # 0
  BY <1>2 DEF ListLive, TypeOK
<1>3. Restart => fetch'[p] = 0 /\ shown' = shown
  BY DEF Restart
<1>4. ASSUME NEW h \in Handlers, Editing(h) \/ Publishing(h) PROVE fetch' = fetch /\ shown' = shown
  BY <1>4 DEF Editing, StartSaving, StartUpdating, InsertScene, UpdateScene, Reorder,
              UpdateMany, DeleteScene, GiveUp, Publishing, Publish, Rollback, DiscardDraft,
              PruneAfterPublish, NotifyPlaylist, displayVars
<1>5. ASSUME NEW r, SetKeep(r) PROVE fetch' = fetch /\ shown' = shown
  BY <1>5 DEF SetKeep, displayVars
<1>6. Housekeeping \/ UNCHANGED vars => fetch' = fetch /\ shown' = shown
  BY DEF Housekeeping, vars, displayVars
<1> QED BY <1>1, <1>2, <1>3, <1>4, <1>5, <1>6 DEF Next

\* A reader follows what is live, and never goes back.
LEMMA ReadersFollowStep ==
  ASSUME Consistent, Consistent', PastStamps, DraftIsLast, ReadersFollow, [Next]_vars
  PROVE  ReadersFollow' /\ \A p \in Readers : shown'[p].rev >= shown[p].rev
<1> USE DEF Consistent
<1>1. SUFFICES ASSUME NEW p \in Readers
               PROVE  /\ shown'[p].rev <= Live' /\ fetch'[p] <= Live'
                      /\ fetch'[p] # 0 => shown'[p].rev <= fetch'[p]
                      /\ shown'[p].rev >= shown[p].rev
  BY DEF ReadersFollow
<1>2. Live \in Nat /\ Live' \in Nat /\ Live <= Live'
  <2>1. Live \in Revision \cup {0}
    BY LiveType
  <2>2. Live' \in Revision \cup {0}
    BY LiveTypedNext DEF LiveTyped
  <2> QED BY <2>1, <2>2, LiveAscends, PlaylistAssumption DEF Revision
<1>3. shown[p].rev \in Nat /\ fetch[p] \in Nat
  BY PlaylistAssumption DEF TypeOK, Revision
<1>4. shown[p].rev <= Live /\ fetch[p] <= Live /\ (fetch[p] # 0 => shown[p].rev <= fetch[p])
  BY DEF ReadersFollow
<1>5. \/ fetch'[p] = fetch[p] /\ shown'[p] = shown[p]
      \/ fetch'[p] = Live /\ shown'[p] = shown[p] /\ Live' = Live
      \/ fetch'[p] = 0 /\ shown'[p].rev = fetch[p] /\ fetch[p] # 0
      \/ fetch'[p] = 0 /\ shown'[p] = shown[p]
  BY ReaderStep
<1> HIDE DEF Consistent
<1>6. CASE fetch'[p] = fetch[p] /\ shown'[p] = shown[p]
  BY <1>2, <1>3, <1>4, <1>6
<1>7. CASE fetch'[p] = Live /\ shown'[p] = shown[p] /\ Live' = Live
  BY <1>2, <1>3, <1>4, <1>7
<1>8. CASE fetch'[p] = 0 /\ shown'[p].rev = fetch[p] /\ fetch[p] # 0
  BY <1>2, <1>3, <1>4, <1>8
<1>9. CASE fetch'[p] = 0 /\ shown'[p] = shown[p]
  BY <1>2, <1>3, <1>4, <1>9
<1> QED BY <1>5, <1>6, <1>7, <1>8, <1>9

\* ReaderMovesForward: however a reader's two queries interleave with releases,
\* prunes and restarts, its answers never go back to an older revision.  The clock
\* must not step back over a restart.
THEOREM ReadersMoveForward ==
  ASSUME RTC
  PROVE  Spec => ReaderMovesForward
<1> DEFINE Forward == \A p \in Readers : shown'[p].rev >= shown[p].rev
<1>1. Init => PastStamps /\ DraftIsLast /\ ReadersFollow
  <2> SUFFICES ASSUME Init PROVE PastStamps /\ DraftIsLast /\ ReadersFollow
    OBVIOUS
  <2>1. Published = {}
    BY PlaylistAssumption DEF Init, Published, Revision
  <2>2. Live = 0
    BY <2>1 DEF Live
  <2> QED BY <2>2 DEF Init, PastStamps, DraftIsLast, ReadersFollow
<1>2. Consistent /\ Consistent' /\ PastStamps /\ [Next]_vars => PastStamps'
  BY PastStampsStep
<1>3. Consistent /\ DraftIsLast /\ [Next]_vars => DraftIsLast'
  BY DraftIsLastStep
<1>4. Consistent /\ Consistent' /\ PastStamps /\ DraftIsLast /\ ReadersFollow /\ [Next]_vars
        => ReadersFollow' /\ [Forward]_vars
  BY ReadersFollowStep
<1> HIDE DEF Forward
<1>5. Spec => [][Forward]_vars
  BY StoreConsistent, <1>1, <1>2, <1>3, <1>4, PTL DEF Spec
<1> QED BY <1>5 DEF Forward, ReaderMovesForward

-----------------------------------------------------------------------------
(* Ranks.  HasUnpublishedChanges compares the draft and the live revision    *)
(* row by row in display order.  A row's rank is its item's place in the     *)
(* content, every place is taken once, and so equal contents have equal      *)
(* times at equal ranks.                                                     *)

\* A row without its revision: what Content collects.
ItemOf(s) == [stable |-> s.stable, pos |-> s.pos, enabled |-> s.enabled, valid |-> s.valid, upd |-> s.upd]

\* The display order: by position, then by stable id.
NotAfter(t, s) == t.pos < s.pos \/ (t.pos = s.pos /\ t.stable <= s.stable)

\* Where an item stands among others, as Rank does for rows.
Place(items, s) == Cardinality({t \in items : NotAfter(t, s)})

\* A finite set of items told apart by their stable ids.
Keyed(items) ==
  /\ IsFiniteSet(items)
  /\ \A s \in items : s.stable \in Nat /\ s.pos \in Nat /\ s.upd \in Nat
  /\ \A s, t \in items : s.stable = t.stable => s = t

\* A place is a number from one to how many there are.
LEMMA PlaceRange ==
  ASSUME NEW items, Keyed(items), NEW s \in items
  PROVE  /\ Place(items, s) \in 1..Cardinality(items)
         /\ IsFiniteSet({t \in items : NotAfter(t, s)})
         /\ s \in {t \in items : NotAfter(t, s)}
<1> DEFINE upto == {t \in items : NotAfter(t, s)}
<1>1. s \in upto
  BY DEF Keyed, NotAfter
<1>2. upto \subseteq items /\ IsFiniteSet(items)
  BY DEF Keyed
<1>3. Place(items, s) = Cardinality(upto)
  BY DEF Place
<1> HIDE DEF upto
<1>4. /\ IsFiniteSet(upto) /\ Cardinality(upto) \in Nat /\ Cardinality(upto) <= Cardinality(items)
      /\ Cardinality(items) \in Nat /\ Cardinality(upto) # 0
  BY <1>1, <1>2, FS_Subset, FS_CardinalityType, FS_EmptySet
<1>5. Place(items, s) \in 1..Cardinality(items)
  BY <1>3, <1>4
<1> QED BY <1>1, <1>4, <1>5 DEF upto

\* No two items stand at one place.
LEMMA PlacesDiffer ==
  ASSUME NEW items, Keyed(items), NEW s \in items, NEW t \in items, Place(items, s) = Place(items, t)
  PROVE  s = t
<1>1. ASSUME NEW a \in items, NEW b \in items, NotAfter(a, b), Place(items, a) = Place(items, b)
      PROVE  a = b
  <2> DEFINE A == {x \in items : NotAfter(x, a)}
             B == {x \in items : NotAfter(x, b)}
  <2>1. A \subseteq B
    BY <1>1 DEF Keyed, NotAfter
  <2>2. IsFiniteSet(B) /\ b \in B
    BY PlaceRange
  <2>3. Cardinality(A) = Cardinality(B)
    BY <1>1 DEF Place
  <2>4. A = B
    <3> HIDE DEF A, B
    <3> QED BY <2>1, <2>2, <2>3, FS_Subset
  <2>5. NotAfter(b, a)
    BY <2>2, <2>4
  <2> QED BY <1>1, <2>5 DEF Keyed, NotAfter
<1>2. NotAfter(s, t) \/ NotAfter(t, s)
  BY DEF Keyed, NotAfter
<1> QED BY <1>1, <1>2

\* Every place is taken.
LEMMA PlacesTaken ==
  ASSUME NEW items, Keyed(items), NEW n \in 1..Cardinality(items)
  PROVE  \E s \in items : Place(items, s) = n
<1> DEFINE f == [s \in items |-> Place(items, s)]
           T == 1..Cardinality(items)
<1>1. f \in Injection(items, T)
  <2>1. f \in [items -> T]
    BY PlaceRange
  <2>2. \A s, t \in items : f[s] = f[t] => s = t
    BY PlacesDiffer
  <2> HIDE DEF f, T
  <2> QED BY <2>1, <2>2 DEF Injection, IsInjective
<1>2. Cardinality(items) \in Nat
  BY FS_CardinalityType DEF Keyed
<1>3. IsFiniteSet(T) /\ Cardinality(T) = Cardinality(items)
  <2>1. IsFiniteSet(T) /\ Cardinality(T) = IF 1 > Cardinality(items) THEN 0 ELSE Cardinality(items) - 1 + 1
    BY <1>2, FS_Interval
  <2> HIDE DEF T
  <2> QED BY <1>2, <2>1
<1>4. f \in Surjection(items, T)
  <2> HIDE DEF f, T
  <2> QED BY <1>1, <1>3, FS_Injection
<1>5. \A m \in T : \E s \in items : f[s] = m
  <2> HIDE DEF f, T
  <2> QED BY <1>4 DEF Surjection
<1> QED BY <1>5

\* A row stands in its revision where its item stands in the content.
LEMMA RankIsPlace ==
  ASSUME Consistent, NEW r
  PROVE  /\ Keyed(Content(r))
         /\ Cardinality(ScenesOf(r)) = Cardinality(Content(r))
         /\ \A s \in ScenesOf(r) : ItemOf(s) \in Content(r) /\ Rank(s) = Place(Content(r), ItemOf(s))
<1> USE DEF Consistent
<1> DEFINE own == ScenesOf(r)
           g == [s \in own |-> ItemOf(s)]
<1>1. \A s \in own : s \in Scene /\ s.rev = r
  BY DEF ScenesOf, TypeOK
<1>2. \A s, t \in own : s.stable = t.stable => s = t
  BY <1>1 DEF TableFit, RowsFit, ScenesOf
<1>3. IsFiniteSet(own)
  <2> DEFINE f == [s \in own |-> s.stable]
  <2>1. f \in Injection(own, 1..MaxScenes)
    <3>1. f \in [own -> 1..MaxScenes]
      BY <1>1 DEF Scene, StableId
    <3>2. \A s, t \in own : f[s] = f[t] => s = t
      BY <1>2
    <3> HIDE DEF f, own
    <3> QED BY <3>1, <3>2 DEF Injection, IsInjective
  <2>2. IsFiniteSet(1..MaxScenes)
    BY FS_Interval, PlaylistAssumption
  <2> HIDE DEF f, own
  <2> QED BY <2>1, <2>2, FS_Injection
<1>4. Content(r) = {ItemOf(s) : s \in own}
  BY DEF Content, ItemOf
<1>5. \A s, t \in own : ItemOf(s) = ItemOf(t) => s = t
  BY <1>2 DEF ItemOf
<1>6. ASSUME NEW some \in SUBSET own
      PROVE  /\ IsFiniteSet({ItemOf(s) : s \in some})
             /\ Cardinality({ItemOf(s) : s \in some}) = Cardinality(some)
  <2> DEFINE image == {ItemOf(s) : s \in some}
             k == [s \in some |-> ItemOf(s)]
  <2>1. k \in Surjection(some, image)
    <3>1. k \in [some -> image] /\ \A i \in image : \E s \in some : k[s] = i
      OBVIOUS
    <3> HIDE DEF k, image
    <3> QED BY <3>1 DEF Surjection
  <2>2. k \in Injection(some, image)
    <3>1. k \in [some -> image] /\ \A s, t \in some : k[s] = k[t] => s = t
      BY <1>5
    <3> HIDE DEF k, image
    <3> QED BY <3>1 DEF Injection, IsInjective
  <2>3. IsFiniteSet(some)
    BY <1>3, FS_Subset
  <2> HIDE DEF k, image
  <2>4. IsFiniteSet(image) /\ Cardinality(image) = Cardinality(some)
    BY <2>1, <2>2, <2>3, FS_Surjection
  <2> QED BY <2>4 DEF image
<1>7. Keyed(Content(r))
  <2>1. IsFiniteSet(Content(r))
    BY <1>4, <1>6
  <2>2. \A i \in Content(r) : i.stable \in Nat /\ i.pos \in Nat /\ i.upd \in Nat
    BY <1>1, <1>4, PlaylistAssumption DEF ItemOf, Scene, StableId, Position, Stamp
  <2>3. \A i, j \in Content(r) : i.stable = j.stable => i = j
    BY <1>2, <1>4 DEF ItemOf
  <2> QED BY <2>1, <2>2, <2>3 DEF Keyed
<1>8. ASSUME NEW s \in own PROVE Rank(s) = Place(Content(r), ItemOf(s))
  <2> DEFINE upto == {t \in own : NotAfter(t, s)}
  <2>1. Rank(s) = Cardinality(upto)
    BY <1>1 DEF Rank, NotAfter
  <2>2. {i \in Content(r) : NotAfter(i, ItemOf(s))} = {ItemOf(t) : t \in upto}
    BY <1>4 DEF NotAfter, ItemOf
  <2>3. upto \subseteq own
    OBVIOUS
  <2> HIDE DEF upto
  <2> QED BY <1>6, <2>1, <2>2, <2>3 DEF Place
<1>9. Cardinality(own) = Cardinality(Content(r))
  BY <1>4, <1>6
<1> QED BY <1>4, <1>7, <1>8, <1>9

\* A draft with the content of what is live reads as having nothing to publish.
LEMMA SameContentIsClean ==
  ASSUME Consistent, Live # 0, \A d \in isDraft : Content(d) = Content(Live)
  PROVE  ~HasUnpublished
<1> SUFFICES ASSUME NEW d \in isDraft
             PROVE  /\ Cardinality(ScenesOf(d)) = Cardinality(ScenesOf(Live))
                    /\ \A s \in ScenesOf(d), t \in ScenesOf(Live) : Rank(s) = Rank(t) => ~(s.upd > t.upd)
  BY DEF HasUnpublished
<1>1. Cardinality(ScenesOf(d)) = Cardinality(ScenesOf(Live))
  BY RankIsPlace
<1>2. ASSUME NEW s \in ScenesOf(d), NEW t \in ScenesOf(Live), Rank(s) = Rank(t) PROVE ~(s.upd > t.upd)
  <2>1. /\ Keyed(Content(Live)) /\ ItemOf(s) \in Content(Live) /\ ItemOf(t) \in Content(Live)
        /\ Place(Content(Live), ItemOf(s)) = Place(Content(Live), ItemOf(t))
    BY <1>2, RankIsPlace
  <2>2. ItemOf(s) = ItemOf(t) /\ ItemOf(s).upd \in Nat
    BY <2>1, PlacesDiffer DEF Keyed
  <2>3. s.upd = t.upd /\ s.upd \in Nat
    BY <2>2 DEF ItemOf
  <2> QED BY <2>3
<1> QED BY <1>1, <1>2

\* If all that differs in the draft is younger than what is live, a draft that reads as
\* having nothing to publish has the content of what is live.
LEMMA CleanIsSameContent ==
  ASSUME Consistent, ~HasUnpublished, NEW d \in isDraft,
         \A i \in Content(d) : i \in Content(Live) \/ \A j \in Content(Live) : i.upd > j.upd
  PROVE  Content(d) = Content(Live)
<1>1. /\ Keyed(Content(d)) /\ Keyed(Content(Live))
      /\ Cardinality(Content(d)) = Cardinality(Content(Live))
  BY RankIsPlace DEF HasUnpublished
<1>2. ASSUME NEW i \in Content(d) PROVE i \in Content(Live)
  <2>1. PICK s \in ScenesOf(d) : i = ItemOf(s)
    BY DEF Content, ItemOf
  <2>2. Place(Content(d), i) \in 1..Cardinality(Content(Live))
    BY <1>1, PlaceRange
  <2>3. PICK j \in Content(Live) : Place(Content(Live), j) = Place(Content(d), i)
    BY <1>1, <2>2, PlacesTaken
  <2>4. PICK t \in ScenesOf(Live) : j = ItemOf(t)
    BY DEF Content, ItemOf
  <2>5. Rank(s) = Rank(t)
    BY <2>1, <2>3, <2>4, RankIsPlace
  <2>6. ~(s.upd > t.upd)
    BY <2>5 DEF HasUnpublished
  <2>7. ~(i.upd > j.upd)
    BY <2>1, <2>4, <2>6 DEF ItemOf
  <2> QED BY <2>7
<1>3. Content(d) \subseteq Content(Live) /\ IsFiniteSet(Content(Live))
  BY <1>1, <1>2 DEF Keyed
<1> QED BY <1>1, <1>3, FS_Subset

-----------------------------------------------------------------------------
(* Copies: what a publish, a rollback and a discard leave as the draft is a  *)
(* copy of what is live.                                                     *)

\* A clone has the content of what it was made from.
LEMMA CloneContent ==
  ASSUME TypeOK, NEW src, NEW dst
  PROVE  {ItemOf(t) : t \in Clone(src, dst)} = Content(src)
<1>1. \A s \in ScenesOf(src) : s \in Scene
  BY DEF ScenesOf, TypeOK
<1>2. \A s \in ScenesOf(src) : ItemOf([s EXCEPT !.rev = dst]) = ItemOf(s)
  BY <1>1 DEF ItemOf, Scene
<1>3. Content(src) = {ItemOf(s) : s \in ScenesOf(src)}
  BY DEF Content, ItemOf
<1> QED BY <1>2, <1>3 DEF Clone

\* The content that a step leaves is that of the rows it leaves.
LEMMA ContentNext ==
  ASSUME NEW r
  PROVE  Content(r)' = {ItemOf(t) : t \in ScenesOf(r)'}
  BY DEF Content, ItemOf

\* A publish stamps the draft and copies it.
LEMMA PublishCopies ==
  ASSUME Consistent, TypeOK', PastStamps, NEW h \in Handlers, Publish(h)
  PROVE  \E d \in isDraft :
           /\ Publishable(d) /\ Releases(d) /\ Live' = d
           /\ Content(d)' = Content(d) /\ \A e \in isDraft' : Content(e)' = Content(d)
<1> USE DEF Consistent
<1>0. PICK fresh : fresh = lastRevision + 1
  OBVIOUS
<1>1. PICK d \in isDraft :
        /\ Publishable(d)
        /\ fresh \in Revision
        /\ revisions' = revisions \cup {fresh}
        /\ isDraft' = (isDraft \ {d}) \cup {fresh}
        /\ publishedAt' = [publishedAt EXCEPT ![d] = clock + 1]
        /\ ReadClock
        /\ scenes' = scenes \cup Clone(d, fresh)
  BY <1>0 DEF Publish
<1>2. d \in revisions /\ d \in Revision /\ d \notin Published /\ publishedAt[fresh] = 0 /\ fresh \notin revisions
      /\ isDraft = {d}
  BY <1>0, <1>1, DraftIsUnpublished, PlaylistAssumption DEF TypeOK, Revision
<1>3. Releases(d)
  <2>1. clock + 1 # 0
    BY <1>1, ClockType, PlaylistAssumption DEF Stamp
  <2> QED BY <1>1, <1>2, <2>1, DraftIsUnpublished DEF Releases, Published, TypeOK
<1>4. Live' = d
  BY <1>3, ReleaseGoesLive
<1>5. d # 0 /\ d # fresh
  BY <1>2, PlaylistAssumption DEF Revision
<1>6. (\A t \in Clone(d, fresh) : t.rev = fresh) /\ \A s \in scenes : s.rev # fresh
  BY <1>2, CloneRows DEF TableFit, RowsFit
<1>7. ScenesOf(d)' = ScenesOf(d) /\ ScenesOf(fresh)' = Clone(d, fresh)
  BY <1>1, <1>5, <1>6 DEF ScenesOf
<1>8. Content(d)' = Content(d) /\ Content(fresh)' = Content(d)
  BY <1>7, CloneContent, ContentNext DEF Content, ItemOf
<1> QED BY <1>1, <1>2, <1>3, <1>4, <1>8

\* A rollback makes two copies of its target.
LEMMA RollbackCopies ==
  ASSUME Consistent, TypeOK', PastStamps, NEW h \in Handlers, Rollback(h)
  PROVE  \E target \in Published, r \in Revision :
           /\ Releases(r) /\ Live' = r
           /\ Content(r)' = Content(target) /\ \A e \in isDraft' : Content(e)' = Content(target)
<1> USE DEF Consistent
<1>0. PICK again, next : again = lastRevision + 1 /\ next = lastRevision + 2
  OBVIOUS
<1>1. PICK target \in Published :
        /\ next \in Revision
        /\ ReadClock
        /\ revisions' = (revisions \ isDraft) \cup {again, next}
        /\ isDraft' = {next}
        /\ publishedAt' = [publishedAt EXCEPT ![again] = clock + 1]
        /\ scenes' = WithoutScenesOf(isDraft) \cup Clone(target, again) \cup Clone(target, next)
  BY <1>0 DEF Rollback, ReplaceDraft
<1>2. again \in Revision /\ again # next /\ again > lastRevision /\ next > lastRevision /\ again # 0
  BY <1>0, <1>1, PlaylistAssumption DEF TypeOK, Revision
<1>3. /\ again \notin revisions /\ next \notin revisions /\ publishedAt[again] = 0 /\ publishedAt[next] = 0
      /\ isDraft \cap Published = {}
  BY <1>1, <1>2, DraftIsUnpublished
<1>4. Releases(again)
  <2>1. clock + 1 # 0
    BY <1>1, ClockType, PlaylistAssumption DEF Stamp
  <2> QED BY <1>1, <1>2, <1>3, <2>1 DEF Releases, Published, TypeOK
<1>5. Live' = again
  BY <1>4, ReleaseGoesLive
<1>6. /\ \A t \in Clone(target, again) : t.rev = again
      /\ \A t \in Clone(target, next) : t.rev = next
      /\ \A s \in scenes : s.rev # again /\ s.rev # next
  BY <1>3, CloneRows DEF TableFit, RowsFit
<1>7. ScenesOf(again)' = Clone(target, again) /\ ScenesOf(next)' = Clone(target, next)
  BY <1>1, <1>2, <1>6 DEF ScenesOf, WithoutScenesOf
<1>8. Content(again)' = Content(target) /\ Content(next)' = Content(target)
  BY <1>7, CloneContent, ContentNext
<1> QED BY <1>1, <1>2, <1>4, <1>5, <1>8

\* A discard makes a copy of what is live.
LEMMA DiscardCopies ==
  ASSUME Consistent, TypeOK', NEW h \in Handlers, DiscardDraft(h)
  PROVE  /\ SameTimes /\ Live # 0 /\ Live' = Live
         /\ Content(Live)' = Content(Live) /\ \A e \in isDraft' : Content(e)' = Content(Live)
<1> USE DEF Consistent
<1>0. PICK fresh : fresh = lastRevision + 1
  OBVIOUS
<1>1. /\ Live # 0
      /\ fresh \in Revision
      /\ revisions' = (revisions \ isDraft) \cup {fresh}
      /\ isDraft' = {fresh}
      /\ publishedAt' = publishedAt
      /\ scenes' = WithoutScenesOf(isDraft) \cup Clone(Live, fresh)
  BY <1>0 DEF DiscardDraft, ReplaceDraft
<1>2. PICK l : l = Live
  OBVIOUS
<1>3. /\ publishedAt[fresh] = 0 /\ isDraft \cap Published = {} /\ fresh \notin revisions
      /\ l \in Published
  BY <1>0, <1>1, <1>2, DraftIsUnpublished, LiveIsPublished, PlaylistAssumption DEF TypeOK, Revision, Live
<1>4. SameTimes
  BY <1>1, <1>3 DEF SameTimes, Published
<1>5. Live' = l
  BY <1>2, <1>4, LiveSame
<1>6. /\ \A t \in Clone(l, fresh) : t.rev = fresh
      /\ \A s \in scenes : s.rev # fresh
      /\ l \notin isDraft /\ l # fresh
  BY <1>3, CloneRows DEF TableFit, RowsFit, Published
<1>7. ScenesOf(l)' = ScenesOf(l) /\ ScenesOf(fresh)' = Clone(l, fresh)
  BY <1>1, <1>2, <1>6 DEF ScenesOf, WithoutScenesOf
<1>8. Content(l)' = Content(l) /\ Content(fresh)' = Content(l)
  BY <1>7, CloneContent, ContentNext DEF Content, ItemOf
<1>9. Content(Live)' = Content(l)
  BY <1>5, <1>8 DEF Content, ScenesOf
<1> QED BY <1>1, <1>2, <1>4, <1>5, <1>8, <1>9

\* Any other step leaves the draft the draft.
LEMMA DraftReplaced ==
  ASSUME [Next]_vars, isDraft' # isDraft
  PROVE  \E h \in Handlers : Publish(h) \/ Rollback(h) \/ DiscardDraft(h)
<1>1. ASSUME NEW h \in Handlers, Editing(h) PROVE FALSE
  BY <1>1 DEF Editing, StartSaving, StartUpdating, InsertScene, UpdateScene, Reorder,
              UpdateMany, DeleteScene, GiveUp, revisionVars
<1>2. ASSUME NEW h \in Handlers, PruneAfterPublish(h) \/ NotifyPlaylist(h) PROVE FALSE
  BY <1>2 DEF PruneAfterPublish, NotifyPlaylist, PruneRevisions, revisionVars
<1>3. ASSUME NEW q, SetKeep(q) \/ LookUpLive(q) \/ ListLive(q) PROVE FALSE
  BY <1>3 DEF SetKeep, LookUpLive, ListLive, revisionVars
<1>4. ~Housekeeping /\ ~Restart /\ ~UNCHANGED vars
  BY DEF Housekeeping, PruneRevisions, Restart, vars, revisionVars
<1> QED BY <1>1, <1>2, <1>3, <1>4 DEF Next, Publishing

\* So a new draft is a copy of what is live, whichever operation made it.
LEMMA FreshDraftIsCopy ==
  ASSUME Consistent, TypeOK', PastStamps, [Next]_vars, isDraft' # isDraft
  PROVE  \A d \in isDraft' : Live' # 0 /\ Content(d)' = Content(Live)'
<1>1. ASSUME NEW r \in Revision, Live' = r, \A d \in isDraft' : Content(d)' = Content(r)'
      PROVE  \A d \in isDraft' : Live' # 0 /\ Content(d)' = Content(Live)'
  <2>1. Content(Live)' = Content(r)'
    BY <1>1 DEF Content, ScenesOf
  <2> QED BY <1>1, <2>1, PlaylistAssumption DEF Revision
<1>2. ASSUME NEW h \in Handlers, Publish(h)
      PROVE  \E r \in Revision : Live' = r /\ \A d \in isDraft' : Content(d)' = Content(r)'
  BY <1>2, PublishCopies DEF Consistent, TypeOK
<1>3. ASSUME NEW h \in Handlers, Rollback(h)
      PROVE  \E r \in Revision : Live' = r /\ \A d \in isDraft' : Content(d)' = Content(r)'
  BY <1>3, RollbackCopies
<1>4. ASSUME NEW h \in Handlers, DiscardDraft(h)
      PROVE  \A d \in isDraft' : Live' # 0 /\ Content(d)' = Content(Live)'
  BY <1>4, DiscardCopies
<1> QED BY <1>1, <1>2, <1>3, <1>4, DraftReplaced

\* The draft has the content of what is live.
Clean == Live # 0 /\ \A d \in isDraft : Content(d) = Content(Live)

\* SameContentIsClean of the state a step leads to.
LEMMA CleanNext == (Consistent /\ Clean => ~HasUnpublished)'
<1>1. Consistent /\ Clean => ~HasUnpublished
  BY SameContentIsClean DEF Clean
<1> QED BY <1>1, PTL

\* FreshDraftIsClean: the draft that a publish, a rollback or a discard leaves
\* reads on the dashboard as having nothing to publish.  The clock must not step
\* back over a restart, or what was released is not what is live.
THEOREM FreshDraftsAreClean ==
  ASSUME RTC
  PROVE  Spec => FreshDraftIsClean
<1> DEFINE Starts == isDraft' # isDraft => ~HasUnpublished'
<1>1. Init => PastStamps
  BY DEF Init, PastStamps
<1>2. Consistent /\ Consistent' /\ PastStamps /\ [Next]_vars => PastStamps'
  BY PastStampsStep
<1>3. Consistent /\ Consistent' /\ PastStamps /\ [Next]_vars => [Starts]_vars
  <2> SUFFICES ASSUME Consistent, Consistent', PastStamps, [Next]_vars, isDraft' # isDraft
               PROVE  ~HasUnpublished'
    OBVIOUS
  <2>1. \E d : d \in isDraft'
    BY DEF Consistent, SingleDraft
  <2>2. Clean'
    BY <2>1, FreshDraftIsCopy DEF Consistent, Clean
  <2> QED BY <2>2, CleanNext
<1> HIDE DEF Starts
<1>4. Spec => [][Starts]_vars
  BY StoreConsistent, <1>1, <1>2, <1>3, PTL DEF Spec
<1> QED BY <1>4 DEF Starts, FreshDraftIsClean

-----------------------------------------------------------------------------
(* The flag of unpublished changes is right with one request at a time:      *)
(* what the draft has that the live revision has not is younger than all of  *)
(* that, so a rank with different items shows a younger one in the draft.    *)

\* A row that an edit changes is stamped.
LEMMA EditStamps ==
  ASSUME Consistent, NEW h \in Handlers, Editing(h), NEW t \in scenes', t \notin scenes
  PROVE  \/ req[h].pc = "saving" /\ t.upd = req[h].now
         \/ t.upd = clock + 1 /\ clock' = clock + 1
<1> USE DEF Consistent
<1>1. CASE StartSaving(h) \/ StartUpdating(h) \/ GiveUp(h) \/ DeleteScene(h)
  BY <1>1 DEF StartSaving, StartUpdating, GiveUp, DeleteScene, sceneVars
<1>2. CASE InsertScene(h)
  BY <1>2 DEF InsertScene, Done
<1>3. CASE UpdateScene(h)
  <2>1. PICK s \in ScenesOf(req[h].rev), p \in Position, e \in BOOLEAN, v \in BOOLEAN :
          scenes' = (scenes \ {s}) \cup
                      {[s EXCEPT !.pos = p, !.enabled = e, !.valid = v, !.upd = req[h].now]}
    BY <1>3 DEF UpdateScene, Addressed
  <2>2. s \in Scene
    BY DEF ScenesOf, TypeOK
  <2>3. [s EXCEPT !.pos = p, !.enabled = e, !.valid = v, !.upd = req[h].now].upd = req[h].now
    BY <2>2 DEF Scene
  <2> QED BY <1>3, <2>1, <2>3 DEF UpdateScene, Done
<1>4. CASE Reorder(h)
  <2> DEFINE rows == ScenesOf(req[h].rev)
  <2>1. PICK list : scenes' = (scenes \ rows) \cup Reordered(rows, list, req[h].now)
    BY <1>4 DEF Reorder
  <2>2. PICK s \in rows : t = [s EXCEPT !.pos = LastPlace(list, s),
                                        !.upd = IF Places(list, s) \subseteq {s.pos} THEN @ ELSE req[h].now]
    BY <2>1 DEF Reordered
  <2>3. s \in Scene /\ s \in scenes
    BY DEF ScenesOf, TypeOK
  <2>4. CASE Places(list, s) \subseteq {s.pos}
    <3>1. LastPlace(list, s) = s.pos
      <4>1. CASE Places(list, s) = {}
        BY <4>1 DEF LastPlace
      <4>2. CASE Places(list, s) = {s.pos}
        <5>1. s.pos <= s.pos
          BY <2>3, PlaylistAssumption DEF Scene, Position
        <5> QED BY <4>2, <5>1 DEF LastPlace
      <4> QED BY <2>4, <4>1, <4>2
    <3>2. t = s
      BY <2>2, <2>3, <2>4, <3>1 DEF Scene
    <3> QED BY <2>3, <3>2
  <2>5. CASE ~(Places(list, s) \subseteq {s.pos})
    <3>1. t.upd = req[h].now
      BY <2>2, <2>3, <2>5 DEF Scene
    <3> QED BY <1>4, <3>1 DEF Reorder, Done
  <2> QED BY <2>4, <2>5
<1>5. CASE UpdateMany(h)
  <2>1. PICK some \in SUBSET ScenesOf(req[h].rev) :
          \/ \E e \in BOOLEAN :
               scenes' = (scenes \ some) \cup
                           {[s EXCEPT !.enabled = e, !.upd = clock + 1] : s \in some}
          \/ scenes' = (scenes \ some) \cup {[s EXCEPT !.upd = clock + 1] : s \in some}
    BY <1>5 DEF UpdateMany, Addressed
  <2>2. \A s \in some : s \in Scene
    BY DEF ScenesOf, TypeOK
  <2>3. \A u \in {[s EXCEPT !.upd = clock + 1] : s \in some} : u.upd = clock + 1
    BY <2>2 DEF Scene
  <2>4. \A e \in BOOLEAN :
          \A u \in {[s EXCEPT !.enabled = e, !.upd = clock + 1] : s \in some} : u.upd = clock + 1
    BY <2>2 DEF Scene
  <2>5. t.upd = clock + 1
    BY <2>1, <2>3, <2>4
  <2> QED BY <1>5, <2>5 DEF UpdateMany, ReadClock
<1> QED BY <1>1, <1>2, <1>3, <1>4, <1>5 DEF Editing

\* All other rows that appear are copies.
LEMMA OthersCopy ==
  ASSUME Consistent, [Next]_vars, \A h \in Handlers : ~Editing(h), NEW t \in scenes', t \notin scenes
  PROVE  isDraft' # isDraft /\ \E s \in scenes : t.upd = s.upd
<1> USE DEF Consistent
<1>0. ASSUME NEW src, NEW dst, NEW c \in Clone(src, dst) PROVE \E s \in scenes : c.upd = s.upd
  <2>1. PICK s \in scenes : c = [s EXCEPT !.rev = dst]
    BY <1>0 DEF Clone, ScenesOf
  <2>2. s \in Scene
    BY DEF TypeOK
  <2> QED BY <2>1, <2>2 DEF Scene
<1>1. PICK h \in Handlers : Publish(h) \/ Rollback(h) \/ DiscardDraft(h)
  <2>1. ASSUME NEW h \in Handlers, PruneAfterPublish(h) \/ NotifyPlaylist(h) PROVE FALSE
    BY <2>1 DEF PruneAfterPublish, NotifyPlaylist, PruneRevisions, WithoutScenesOf, sceneVars
  <2>2. ASSUME NEW q, SetKeep(q) \/ LookUpLive(q) \/ ListLive(q) PROVE FALSE
    BY <2>2 DEF SetKeep, LookUpLive, ListLive, sceneVars
  <2>3. ~Housekeeping /\ ~Restart /\ ~UNCHANGED vars
    BY DEF Housekeeping, PruneRevisions, WithoutScenesOf, Restart, vars, sceneVars
  <2> QED BY <2>1, <2>2, <2>3 DEF Next, Publishing
<1>2. lastRevision \in Nat /\ \A r \in revisions : r <= lastRevision
  BY PlaylistAssumption DEF TypeOK, Revision, IdsFit
<1>3. isDraft' # isDraft
  <2>1. lastRevision + 1 \in isDraft' \/ lastRevision + 2 \in isDraft'
    BY <1>1 DEF Publish, Rollback, DiscardDraft, ReplaceDraft
  <2>2. \A d \in isDraft : d <= lastRevision
    BY <1>2 DEF TypeOK
  <2> QED BY <1>2, <2>1, <2>2
<1>4. \E s \in scenes : t.upd = s.upd
  BY <1>0, <1>1 DEF Publish, Rollback, DiscardDraft, WithoutScenesOf
<1> QED BY <1>3, <1>4

\* No row was updated in the future.
UpdatesPast == \A s \in scenes : s.upd <= clock

\* What an editor is about to stamp is younger than all that is published.
SaverIsLater ==
  \A h \in Handlers : req[h].pc = "saving" =>
    /\ req[h].now <= clock
    /\ \A s \in scenes : s.rev \in Published => s.upd < req[h].now

\* What the draft has that the live revision has not is younger than all of that.
DraftYounger ==
  Live # 0 => \A d \in isDraft : \A i \in Content(d) :
                i \in Content(Live) \/ \A j \in Content(Live) : i.upd > j.upd

\* The inductive invariant behind UnpublishedFlagged.
FlagInv == UpdatesPast /\ SaverIsLater /\ DraftYounger

\* Times are numbers.
LEMMA StampTypes ==
  ASSUME Consistent
  PROVE  /\ clock \in Nat
         /\ \A s \in scenes : s \in Scene /\ s.upd \in Nat
         /\ \A h \in Handlers : req[h].now \in Nat
  BY PlaylistAssumption DEF Consistent, TypeOK, Scene, Stamp, Request

\* Rows are stamped with a time that was read, or copied.
LEMMA UpdatesPastStep ==
  ASSUME RTC, Consistent, Consistent', UpdatesPast, SaverIsLater, [Next]_vars
  PROVE  UpdatesPast'
<1> SUFFICES ASSUME NEW t \in scenes' PROVE t.upd <= clock'
  BY DEF UpdatesPast
<1>1. clock \in Nat /\ clock' \in Nat /\ clock <= clock'
  BY ClockGoesOn
<1>2. CASE t \in scenes
  BY <1>1, <1>2, StampTypes DEF UpdatesPast
<1>3. CASE t \notin scenes /\ \A h \in Handlers : ~Editing(h)
  <2>1. PICK s \in scenes : t.upd = s.upd
    BY <1>3, OthersCopy
  <2> QED BY <1>1, <2>1, StampTypes DEF UpdatesPast
<1>4. ASSUME t \notin scenes, NEW h \in Handlers, Editing(h) PROVE t.upd <= clock'
  BY <1>1, <1>4, EditStamps, StampTypes DEF SaverIsLater
<1> QED BY <1>2, <1>3, <1>4

\* A handler's step is into or out of its place, and no other handler is there.
LEMMA SaverStays ==
  ASSUME OneAtATime, Consistent, [Next]_vars, NEW h \in Handlers, req'[h].pc = "saving"
  PROVE  \/ StartSaving(h) /\ req'[h].now = clock + 1
         \/ req'[h] = req[h] /\ Published' \subseteq Published /\ scenes' \subseteq scenes
<1> USE DEF Consistent
<1>1. \A g \in Handlers : g = h
  BY DEF OneAtATime
<1>2. CASE Editing(h)
  <2>1. CASE StartSaving(h)
    <3>1. PICK d \in isDraft : Begin(h, "saving", d, clock + 1)
      BY <2>1 DEF StartSaving
    <3> QED BY <2>1, <3>1 DEF Begin, TypeOK
  <2>2. CASE StartUpdating(h)
    <3>1. PICK d \in isDraft : Begin(h, "updating", d, 0)
      BY <2>2 DEF StartUpdating
    <3>2. req'[h].pc = "updating"
      BY <3>1 DEF Begin, TypeOK
    <3> QED BY <3>2
  <2>3. CASE req' = [req EXCEPT ![h] = Idle]
    BY <2>3 DEF Idle, TypeOK
  <2> QED BY <1>2, <2>1, <2>2, <2>3 DEF Editing, InsertScene, UpdateScene, Reorder,
                                     UpdateMany, DeleteScene, GiveUp, Done
<1>3. CASE Publishing(h)
  <2>1. CASE Publish(h)
    <3>1. PICK d \in isDraft : Begin(h, "prune", d, 0)
      BY <2>1 DEF Publish
    <3>2. req'[h].pc = "prune"
      BY <3>1 DEF Begin, TypeOK
    <3> QED BY <3>2
  <2>2. CASE Rollback(h)
    <3>1. Begin(h, "notify", lastRevision + 1, 0)
      BY <2>2 DEF Rollback
    <3>2. req'[h].pc = "notify"
      BY <3>1 DEF Begin, TypeOK
    <3> QED BY <3>2
  <2>3. CASE DiscardDraft(h)
    BY <2>3 DEF DiscardDraft, Idle
  <2>4. CASE PruneAfterPublish(h)
    BY <2>4 DEF PruneAfterPublish, Continue, TypeOK, Request
  <2>5. CASE NotifyPlaylist(h)
    BY <2>5 DEF NotifyPlaylist, Done, Idle, TypeOK
  <2> QED BY <1>3, <2>1, <2>2, <2>3, <2>4, <2>5 DEF Publishing
<1>4. ASSUME NEW r, SetKeep(r) PROVE req' = req /\ Published' = Published /\ scenes' = scenes
  BY <1>4 DEF SetKeep, sceneVars, Published
<1>5. ASSUME NEW p, LookUpLive(p) \/ ListLive(p)
      PROVE  req' = req /\ Published' = Published /\ scenes' = scenes
  BY <1>5 DEF LookUpLive, ListLive, revisionVars, sceneVars, Published
<1>6. Housekeeping => req' = req /\ Published' \subseteq Published /\ scenes' \subseteq scenes
  BY DEF Housekeeping, PruneRevisions, WithoutScenesOf, Published, Reset, TypeOK
<1>7. ~Restart
  BY DEF Restart, Idle
<1>8. UNCHANGED vars => req' = req /\ Published' = Published /\ scenes' = scenes
  BY DEF vars, revisionVars, sceneVars, Published
<1> QED BY <1>1, <1>2, <1>3, <1>4, <1>5, <1>6, <1>7, <1>8 DEF Next

\* Nothing is released while an editor is between its clock and its write.
LEMMA SaverIsLaterStep ==
  ASSUME OneAtATime, RTC, Consistent, Consistent', UpdatesPast, SaverIsLater, [Next]_vars
  PROVE  SaverIsLater'
<1> SUFFICES ASSUME NEW h \in Handlers, req'[h].pc = "saving"
             PROVE  /\ req'[h].now <= clock'
                    /\ \A s \in scenes' : s.rev \in Published' => s.upd < req'[h].now
  BY DEF SaverIsLater
<1>1. clock \in Nat /\ clock' \in Nat /\ clock <= clock'
  BY ClockGoesOn
<1>2. CASE StartSaving(h) /\ req'[h].now = clock + 1
  <2>1. clock' = clock + 1 /\ scenes' = scenes
    BY <1>2 DEF StartSaving, ReadClock, sceneVars
  <2> QED BY <1>1, <1>2, <2>1, StampTypes DEF UpdatesPast
<1>3. CASE req'[h] = req[h] /\ Published' \subseteq Published /\ scenes' \subseteq scenes
  BY <1>1, <1>3, StampTypes DEF SaverIsLater
<1> QED BY <1>2, <1>3, SaverStays

\* A new draft is a copy of what is live, and an edit stamps what it changes.
LEMMA DraftYoungerStep ==
  ASSUME OneAtATime, RTC, Consistent, Consistent', PastStamps, HoldsDraft, FlagInv, [Next]_vars
  PROVE  DraftYounger'
<1> USE DEF Consistent, FlagInv
<1>1. CASE isDraft' # isDraft
  BY <1>1, FreshDraftIsCopy DEF DraftYounger
<1>2. CASE isDraft' = isDraft
  <2> SUFFICES ASSUME Live' # 0, NEW d \in isDraft, NEW i \in Content(d)'
               PROVE  i \in Content(Live)' \/ \A j \in Content(Live)' : i.upd > j.upd
    BY <1>2 DEF DraftYounger
  <2>1. ~\E r : Releases(r)
    <3> SUFFICES ASSUME NEW r, Releases(r) PROVE FALSE
      OBVIOUS
    <3>1. PICK h \in Handlers : Publish(h) \/ Rollback(h)
      BY OnlyReleasesPublish DEF Releases
    <3>2. lastRevision + 1 \in isDraft' \/ lastRevision + 2 \in isDraft'
      BY <3>1 DEF Publish, Rollback, ReplaceDraft
    <3>3. lastRevision \in Nat /\ \A e \in isDraft : e <= lastRevision
      BY PlaylistAssumption DEF TypeOK, Revision, IdsFit
    <3> QED BY <1>2, <3>2, <3>3
  <2>2. Live' = Live
    BY <2>1, HistoryStep, PruneKeepsLive, LiveSame
  <2>3. PICK l : l = Live
    OBVIOUS
  <2>4. l \in Published /\ l \in Published' /\ l # 0
    <3>1. Published # {} /\ l \in Published
      BY <2>2, <2>3, LiveIsPublished DEF Live
    <3>2. PruneRevisions => l \in Published'
      <4>1. Cardinality({q \in Published : Newer(q, l)}) < 2
        <5>1. \A q \in Published \ {l} : Newer(l, q)
          BY <2>3, <3>1, LiveIsPublished
        <5>2. \A q \in Published : ~Newer(q, l)
          BY <3>1, <5>1, PublishedType DEF Newer
        <5>3. {q \in Published : Newer(q, l)} = {}
          BY <5>2
        <5> QED BY <5>3, FS_EmptySet
      <4> QED BY <3>1, <4>1, PruneKeeps, PruneKeepsLive
    <3>3. SameTimes => l \in Published'
      BY <3>1 DEF SameTimes
    <3> QED BY <2>1, <2>2, <2>3, <3>1, <3>2, <3>3, HistoryStep
  <2>5. ScenesOf(l)' = ScenesOf(l)
    BY <2>4, PublishedRowsKept
  <2>6. Content(l)' = Content(l)
    BY <2>5 DEF Content
  <2>7. PICK t \in scenes' : t.rev = d /\ i = ItemOf(t)
    BY ContentNext DEF ScenesOf
  <2>8. CASE t \in scenes
    <3>1. i \in Content(d)
      BY <2>7, <2>8 DEF Content, ItemOf, ScenesOf
    <3> QED BY <2>2, <2>3, <2>4, <2>6, <3>1 DEF DraftYounger
  <2>9. CASE t \notin scenes
    <3>1. PICK h \in Handlers : Editing(h)
      BY <1>2, <2>9, OthersCopy
    <3>2. \A s \in ScenesOf(l) : t.upd > s.upd
      <4> TAKE s \in ScenesOf(l)
      <4>1. s \in scenes /\ s.rev \in Published /\ s.upd <= clock /\ s.upd \in Nat /\ clock \in Nat
        BY <2>4, StampTypes DEF ScenesOf, UpdatesPast
      <4>2. CASE req[h].pc = "saving" /\ t.upd = req[h].now
        BY <4>1, <4>2, StampTypes DEF SaverIsLater
      <4>3. CASE t.upd = clock + 1
        BY <4>1, <4>3
      <4> QED BY <2>9, <3>1, <4>2, <4>3, EditStamps
    <3>3. \A j \in Content(l) : i.upd > j.upd
      BY <2>7, <3>2 DEF Content, ItemOf
    <3> QED BY <2>2, <2>3, <2>6, <3>3
  <2> QED BY <2>8, <2>9
<1> QED BY <1>1, <1>2

\* UnpublishedFlagged: while the dashboard says that nothing is unpublished
\* (HasUnpublishedChanges, which compares counts and the times of rows of equal
\* rank), the draft is what the display shows.  A release between an editor's
\* clock and its write hides the edit, so requests must come one at a time, and
\* the clock must not step back over a restart.
THEOREM UnpublishedIsFlagged ==
  ASSUME OneAtATime, RTC
  PROVE  Spec => []UnpublishedFlagged
<1>1. Init => PastStamps /\ HoldsDraft /\ FlagInv
  <2> SUFFICES ASSUME Init PROVE PastStamps /\ HoldsDraft /\ FlagInv
    OBVIOUS
  <2>1. Published = {}
    BY PlaylistAssumption DEF Init, Published, Revision
  <2>2. Live = 0
    BY <2>1 DEF Live
  <2> QED BY <2>2 DEF Init, PastStamps, HoldsDraft, Idle, FlagInv, UpdatesPast, SaverIsLater, DraftYounger
<1>2. Consistent /\ Consistent' /\ PastStamps /\ [Next]_vars => PastStamps'
  BY PastStampsStep
<1>3. Consistent /\ HoldsDraft /\ [Next]_vars => HoldsDraft'
  BY HoldsDraftStep
<1>4. Consistent /\ Consistent' /\ PastStamps /\ HoldsDraft /\ FlagInv /\ [Next]_vars => FlagInv'
  BY UpdatesPastStep, SaverIsLaterStep, DraftYoungerStep DEF FlagInv
<1>5. Consistent /\ FlagInv => UnpublishedFlagged
  <2> SUFFICES ASSUME Consistent, FlagInv, ~HasUnpublished, NEW d \in isDraft
               PROVE  Content(d) = Content(Live)
    BY DEF UnpublishedFlagged
  <2>1. Live # 0
    BY DEF HasUnpublished
  <2> QED BY <2>1, CleanIsSameContent DEF FlagInv, DraftYounger
<1> QED BY StoreConsistent, <1>1, <1>2, <1>3, <1>4, <1>5, PTL DEF Spec

-----------------------------------------------------------------------------
(* Refinement: the tables implement the publishing log.                      *)

\* The state of the publishing log that the tables stand for.
DraftContent == UNION {Content(d) : d \in isDraft}
LiveContent == IF Live = 0 THEN {} ELSE {Content(Live)}
History == {Content(r) : r \in Published}

\* There is one draft, now and after a step.
LEMMA DraftContentIs == ASSUME Consistent, NEW d \in isDraft PROVE DraftContent = Content(d)
<1>1. isDraft = {d}
  BY DraftIsUnpublished
<1>2. {Content(e) : e \in isDraft} = {Content(d)}
  BY <1>1
<1> QED BY <1>2 DEF DraftContent

\* The same of the state a step leads to.
LEMMA DraftContentNext ==
  ASSUME Consistent', NEW C, \A e \in isDraft' : Content(e)' = C
  PROVE  DraftContent' = C
<1>1. PICK d : isDraft' = {d}
  BY DEF Consistent, SingleDraft
<1>2. {Content(e)' : e \in isDraft'} = {C}
  BY <1>1
<1> QED BY <1>2 DEF DraftContent

\* What the log takes for live.
LEMMA LiveContentNext ==
  ASSUME NEW r, Live' = r, r # 0
  PROVE  LiveContent' = {Content(r)'}
  BY DEF LiveContent, Content, ScenesOf

\* The contents of the history that a step leaves.
LEMMA HistoryNext ==
  ASSUME Consistent, TypeOK', HoldsDraft, [Next]_vars
  PROVE  History' = {Content(r) : r \in Published \cap Published'}
                      \cup {Content(r)' : r \in Published' \ Published}
<1>1. \A r \in Published \cap Published' : Content(r)' = Content(r)
  <2> TAKE r \in Published \cap Published'
  <2>1. ScenesOf(r)' = ScenesOf(r)
    BY PublishedRowsKept
  <2> QED BY <2>1 DEF Content
<1> QED BY <1>1 DEF History

\* A publish is a publish of the log.
LEMMA PublishImplements ==
  ASSUME Consistent, Consistent', PastStamps, HoldsDraft, [Next]_vars, NEW h \in Handlers, Publish(h)
  PROVE  Log!Publish
<1> USE DEF Consistent
<1>1. PICK d \in isDraft :
           /\ Publishable(d) /\ Releases(d) /\ Live' = d
           /\ Content(d)' = Content(d) /\ \A e \in isDraft' : Content(e)' = Content(d)
  BY PublishCopies
<1>2. DraftContent = Content(d) /\ DraftContent' = Content(d)
  BY <1>1, DraftContentIs, DraftContentNext
<1>3. LiveContent' = {Content(d)}
  <2>1. d # 0
    BY PlaylistAssumption DEF TypeOK, Revision
  <2> QED BY <1>1, <2>1, LiveContentNext
<1>4. History' = History \cup {Content(d)}
  <2>1. Published' \ Published = {d} /\ Published \cap Published' = Published
    BY <1>1 DEF Releases
  <2> QED BY <1>1, <2>1, HistoryNext DEF History
<1>5. Log!Fit(Content(d))
  <2>1. \A i \in Content(d) : i.enabled => i.valid
    BY <1>1 DEF Publishable, Content
  <2>2. PICK s \in ScenesOf(d) : s.enabled
    BY <1>1 DEF Publishable
  <2>3. s.valid
    BY <1>1, <2>2 DEF Publishable
  <2>4. ItemOf(s) \in Content(d) /\ ItemOf(s).enabled /\ ItemOf(s).valid
    BY <2>2, <2>3 DEF Content, ItemOf
  <2> QED BY <2>1, <2>4 DEF Log!Fit, Log!Playable
<1> QED BY <1>2, <1>3, <1>4, <1>5 DEF Log!Publish, DraftContent, LiveContent, History

\* A rollback, which releases a copy, is a rollback of the log.
LEMMA RollbackImplements ==
  ASSUME Consistent, Consistent', PastStamps, HoldsDraft, [Next]_vars, NEW h \in Handlers, Rollback(h)
  PROVE  Log!Rollback
<1> USE DEF Consistent
<1>1. PICK target \in Published, r \in Revision :
           /\ Releases(r) /\ Live' = r
           /\ Content(r)' = Content(target) /\ \A e \in isDraft' : Content(e)' = Content(target)
  BY RollbackCopies
<1>2. DraftContent' = Content(target) /\ Content(target) \in History
  BY <1>1, DraftContentNext DEF History
<1>3. LiveContent' = {Content(target)}
  <2>1. r # 0
    BY PlaylistAssumption DEF Revision
  <2> QED BY <1>1, <2>1, LiveContentNext
<1>4. History' = History
  <2>1. Published' \ Published = {r} /\ Published \cap Published' = Published
    BY <1>1 DEF Releases
  <2>2. History' = History \cup {Content(target)}
    BY <1>1, <2>1, HistoryNext DEF History
  <2> QED BY <1>2, <2>2
<1> QED BY <1>2, <1>3, <1>4 DEF Log!Rollback, DraftContent, LiveContent, History

\* What is live is not deleted.
LEMMA LiveStays ==
  ASSUME Consistent, TypeOK', Live # 0, PruneRevisions \/ SameTimes
  PROVE  Live \in Published'
<1> USE DEF Consistent
<1>1. Published # {}
  BY DEF Live
<1>2. PICK l : l = Live
  OBVIOUS
<1>3. l \in Published /\ \A q \in Published \ {l} : Newer(l, q)
  BY <1>1, <1>2, LiveIsPublished
<1>4. \A q \in Published : ~Newer(q, l)
  BY <1>3, PublishedType DEF Newer
<1>5. {q \in Published : Newer(q, l)} = {}
  BY <1>4
<1>6. l \notin Prunable
  BY <1>3, <1>5, PruneKeeps, FS_EmptySet
<1> QED BY <1>2, <1>3, <1>6, PruneKeepsLive DEF SameTimes

\* A step that releases nothing keeps what is live and may only forget history.
LEMMA OtherImplements ==
  ASSUME Consistent, Consistent', PastStamps, HoldsDraft, [Next]_vars, ~\E r : Releases(r)
  PROVE  /\ LiveContent' = LiveContent /\ History' \subseteq History /\ LiveContent \subseteq History'
         /\ SameTimes => History' = History
<1> USE DEF Consistent
<1>1. (PruneRevisions \/ SameTimes) /\ Live' = Live /\ Published' \subseteq Published
  BY HistoryStep, PruneKeepsLive, LiveSame DEF SameTimes
<1>2. History' = {Content(r) : r \in Published'}
  BY <1>1, HistoryNext
<1>3. CASE Live = 0
  BY <1>1, <1>2, <1>3 DEF LiveContent, History, SameTimes
<1>4. CASE Live # 0
  <2>1. PICK l : l = Live
    OBVIOUS
  <2>2. l \in Published
    BY <1>4, <2>1, LiveIsPublished DEF Live
  <2>3. l \in Published'
    BY <1>1, <1>4, <2>1, LiveStays
  <2>4. Content(l)' = Content(l)
    <3>1. ScenesOf(l)' = ScenesOf(l)
      BY <2>2, <2>3, PublishedRowsKept
    <3> QED BY <3>1 DEF Content
  <2>5. LiveContent' = {Content(l)} /\ LiveContent = {Content(l)}
    BY <1>1, <1>4, <2>1, <2>4, LiveContentNext DEF LiveContent
  <2> QED BY <1>1, <1>2, <2>3, <2>5 DEF History, SameTimes
<1> QED BY <1>3, <1>4

\* An edit leaves the revisions alone.
LEMMA EditsKeepTimes ==
  ASSUME NEW h \in Handlers, Editing(h)
  PROVE  SameTimes /\ isDraft' = isDraft
<1>1. UNCHANGED <<revisions, publishedAt, isDraft>> => SameTimes /\ isDraft' = isDraft
  BY DEF SameTimes, Published
<1> QED BY <1>1 DEF Editing, StartSaving, StartUpdating, InsertScene, UpdateScene, Reorder,
                   UpdateMany, DeleteScene, GiveUp, revisionVars

\* Short of replacing it, only an edit changes the draft.
LEMMA EditorsChangeDraft ==
  ASSUME Consistent, [Next]_vars, DraftContent' # DraftContent,
         \A h \in Handlers : ~Publish(h) /\ ~Rollback(h) /\ ~DiscardDraft(h)
  PROVE  \E h \in Handlers : Editing(h)
<1> USE DEF Consistent
<1>1. UNCHANGED <<isDraft, scenes>> => FALSE
  BY DEF DraftContent, Content, ScenesOf
<1>2. ~PruneRevisions
  <2> SUFFICES ASSUME PruneRevisions PROVE FALSE
    OBVIOUS
  <2>1. isDraft' = isDraft /\ \A d \in isDraft : d \notin Prunable
    BY DEF PruneRevisions, Prunable
  <2>2. \A d \in isDraft : ScenesOf(d)' = ScenesOf(d)
    BY <2>1 DEF PruneRevisions, WithoutScenesOf, ScenesOf
  <2>3. \A d \in isDraft : Content(d)' = Content(d)
    BY <2>2 DEF Content
  <2> QED BY <2>1, <2>3 DEF DraftContent
<1>3. ASSUME NEW h \in Handlers, PruneAfterPublish(h) \/ NotifyPlaylist(h) PROVE FALSE
  BY <1>1, <1>2, <1>3 DEF PruneAfterPublish, NotifyPlaylist, revisionVars, sceneVars
<1>4. ASSUME NEW q, SetKeep(q) \/ LookUpLive(q) \/ ListLive(q) PROVE FALSE
  BY <1>1, <1>4 DEF SetKeep, LookUpLive, ListLive, revisionVars, sceneVars
<1>5. ~Housekeeping /\ ~Restart /\ ~UNCHANGED vars
  BY <1>1, <1>2 DEF Housekeeping, Restart, vars, revisionVars, sceneVars
<1> QED BY <1>3, <1>4, <1>5 DEF Next, Publishing

\* Every step is one of the log, or invisible to it.
LEMMA StepImplements ==
  ASSUME Consistent, Consistent', PastStamps, HoldsDraft, [Next]_vars
  PROVE  Log!Next \/ UNCHANGED <<DraftContent, LiveContent, History>>
<1> USE DEF Consistent
<1>1. ASSUME NEW h \in Handlers, Publish(h) PROVE Log!Next
  BY <1>1, PublishImplements DEF Log!Next
<1>2. ASSUME NEW h \in Handlers, Rollback(h) PROVE Log!Next
  BY <1>2, RollbackImplements DEF Log!Next
<1>3. ASSUME NEW h \in Handlers, DiscardDraft(h) PROVE Log!Next
  <2>1. /\ SameTimes /\ Live # 0
        /\ \A e \in isDraft' : Content(e)' = Content(Live)
    BY <1>3, DiscardCopies
  <2>2. DraftContent' = Content(Live) /\ Content(Live) \in LiveContent
    BY <2>1, DraftContentNext DEF LiveContent
  <2>3. ~\E r : Releases(r)
    BY <2>1 DEF SameTimes, Releases
  <2>4. LiveContent' = LiveContent /\ History' = History
    BY <2>1, <2>3, OtherImplements
  <2> QED BY <2>2, <2>4 DEF Log!Next, Log!Discard, DraftContent, LiveContent, History
<1>4. ASSUME \A h \in Handlers : ~Publish(h) /\ ~Rollback(h) /\ ~DiscardDraft(h)
      PROVE  Log!Next \/ UNCHANGED <<DraftContent, LiveContent, History>>
  <2>1. ~\E r : Releases(r)
    <3> SUFFICES ASSUME NEW r, Releases(r) PROVE FALSE
      OBVIOUS
    <3>1. \E h \in Handlers : Publish(h) \/ Rollback(h)
      BY OnlyReleasesPublish DEF Releases
    <3> QED BY <1>4, <3>1
  <2>2. /\ LiveContent' = LiveContent /\ History' \subseteq History /\ LiveContent \subseteq History'
        /\ SameTimes => History' = History
    BY <2>1, OtherImplements
  <2>3. CASE DraftContent' = DraftContent
    BY <2>2, <2>3 DEF Log!Next, Log!Forget, DraftContent, LiveContent, History
  <2>4. CASE DraftContent' # DraftContent
    <3>1. PICK h \in Handlers : Editing(h)
      BY <1>4, <2>4, EditorsChangeDraft
    <3>2. SameTimes
      BY <3>1, EditsKeepTimes
    <3> QED BY <2>2, <2>4, <3>2 DEF Log!Next, Log!Edit, DraftContent, LiveContent, History
  <2> QED BY <2>3, <2>4
<1> QED BY <1>1, <1>2, <1>3, <1>4

\* ImplementsLog: the tables implement PublishLog: one working copy, one live
\* snapshot that only a publish or a rollback replaces, and a history of snapshots
\* to go back to.  Requests come one at a time, and the clock does not step back
\* over a restart.
THEOREM StoreImplementsLog ==
  ASSUME OneAtATime, RTC
  PROVE  Spec => ImplementsLog
<1>1. Init => PastStamps /\ HoldsDraft /\ Log!Init
  <2> SUFFICES ASSUME Init PROVE PastStamps /\ HoldsDraft /\ Log!Init
    OBVIOUS
  <2>1. Published = {}
    BY PlaylistAssumption DEF Init, Published, Revision
  <2>2. Live = 0
    BY <2>1 DEF Live
  <2>3. \A d \in isDraft : Content(d) = {}
    BY DEF Init, Content, ScenesOf
  <2> QED BY <2>1, <2>2, <2>3 DEF Init, PastStamps, HoldsDraft, Idle, Log!Init
<1>2. Consistent /\ Consistent' /\ PastStamps /\ [Next]_vars => PastStamps'
  BY PastStampsStep
<1>3. Consistent /\ HoldsDraft /\ [Next]_vars => HoldsDraft'
  BY HoldsDraftStep
<1>4. Consistent /\ Consistent' /\ PastStamps /\ HoldsDraft /\ [Next]_vars
        => [Log!Next]_<<UNION {Content(d) : d \in isDraft}, IF Live = 0 THEN {} ELSE {Content(Live)},
                        {Content(r) : r \in Published}>>
  BY StepImplements DEF DraftContent, LiveContent, History
<1> QED BY StoreConsistent, <1>1, <1>2, <1>3, <1>4, PTL DEF Spec, ImplementsLog, Log!Spec
=============================================================================
