------------------------------ MODULE Playlist ------------------------------
(***************************************************************************)
(* The playlist store (internal/store/playlist.go) together with the HTTP  *)
(* handlers that drive it (internal/api/handlers_content.go).              *)
(*                                                                         *)
(* A playlist is a chain of revisions.  One of them is the draft, which    *)
(* every editing request writes; a published revision is what the display  *)
(* shows.  Editing requests first SELECT the draft's id and only later     *)
(* write with that id, in a statement or transaction of its own, so a      *)
(* publish, a rollback or a discard of another request can fall between.   *)
(*                                                                         *)
(* SQLite runs in WAL mode: a transaction whose snapshot is overtaken by   *)
(* another commit fails when it writes, so the body of a dbx.Tx takes      *)
(* effect in one step or not at all, and so does a single statement.       *)
(***************************************************************************)
EXTENDS Naturals, FiniteSets

CONSTANTS
  Handlers,      \* the request goroutines that may run at the same time
  Readers,       \* the GET /player/state requests that may
  Pinnable,      \* the revisions an operator may pin
  Retention,     \* Config.RevisionRetention
  RTC,           \* TRUE when the board's clock survives a restart
  MaxRevisions,  \* bound on the ids playlist_revisions hands out
  MaxScenes,     \* bound on the stable ids NewStableID hands out
  MaxClock       \* bound on the readings of the wall clock

ASSUME PlaylistAssumption ==
  /\ RTC \in BOOLEAN
  /\ Pinnable \subseteq Nat
  /\ Retention \in Nat
  /\ MaxRevisions \in Nat \ {0}
  /\ MaxScenes \in Nat \ {0}
  /\ MaxClock \in Nat \ {0}

VARIABLES
  revisions,     \* ids of the rows of playlist_revisions
  isDraft,       \* the ids whose is_draft is 1
  publishedAt,   \* published_at of each id, 0 for NULL
  kept,          \* the ids whose keep is 1
  lastRevision,  \* the AUTOINCREMENT counter of playlist_revisions
  scenes,        \* the rows of the scenes table
  lastStable,    \* stable ids handed out so far
  clock,         \* the last reading of time.Now
  req,           \* what each request goroutine is in the middle of
  hubRevision,   \* realtime.Hub.revision
  fetch,         \* the revision a reader has looked up and not yet listed, or 0
  shown          \* the last answer a reader got

revisionVars == <<revisions, isDraft, publishedAt, kept, lastRevision>>
sceneVars    == <<scenes, lastStable>>
displayVars  == <<hubRevision, fetch, shown>>
vars == <<revisionVars, sceneVars, clock, req, displayVars>>

Revision == 1..MaxRevisions
StableId == 1..MaxScenes
Position == 1..MaxScenes
Stamp    == 1..MaxClock

\* A scene row.  What an operator types into a scene (zones, layout, duration)
\* is told apart by updated_at alone; a row is named by its revision and its
\* stable id, which the table keeps unique.
Scene == [rev: Revision, stable: StableId, pos: Position,
          enabled: BOOLEAN, valid: BOOLEAN, upd: Stamp]

\* The stages of a request: an editor between DraftRevision and its write
\* ("saving" has already read the clock for updated_at, "updating" has not),
\* and a publisher between its commit and the prune, or the broadcast.
Request == [pc: {"idle", "saving", "updating", "prune", "notify"},
            rev: Revision \cup {0}, now: Stamp \cup {0}]

Idle == [pc |-> "idle", rev |-> 0, now |-> 0]

TypeOK ==
  /\ revisions \in SUBSET Revision
  /\ isDraft \in SUBSET revisions
  /\ publishedAt \in [Revision -> Stamp \cup {0}]
  /\ kept \in SUBSET revisions
  /\ lastRevision \in Revision
  /\ scenes \in SUBSET Scene
  /\ lastStable \in StableId \cup {0}
  /\ clock \in Stamp \cup {0}
  /\ req \in [Handlers -> Request]
  /\ hubRevision \in Revision \cup {0}
  /\ fetch \in [Readers -> Revision \cup {0}]
  /\ shown \in [Readers -> [rev: Revision \cup {0}, blank: BOOLEAN]]

-----------------------------------------------------------------------------
(* Queries                                                                 *)

Published == {r \in revisions : publishedAt[r] # 0}

\* Mutant: the order without its DESC.
OldestFirst(q, r) == \/ publishedAt[q] < publishedAt[r]
                     \/ publishedAt[q] = publishedAt[r] /\ q < r

\* ORDER BY published_at DESC, id DESC.
Newer(q, r) == \/ publishedAt[q] > publishedAt[r]
               \/ publishedAt[q] = publishedAt[r] /\ q > r

\* The revision PublishedRevision returns, 0 for ErrNotFound.
Live == IF Published = {} THEN 0
        ELSE CHOOSE r \in Published : \A q \in Published \ {r} : Newer(r, q)

ScenesOf(r) == {s \in scenes : s.rev = r}

\* What the player keeps of a revision's scenes.
Playable(r) == {s \in ScenesOf(r) : s.enabled /\ s.valid}

\* Where a row stands in ORDER BY position, id.  Row ids follow stable ids
\* among rows of equal position that were inserted one after the other.
Rank(s) == Cardinality({t \in ScenesOf(s.rev) :
                          t.pos < s.pos \/ (t.pos = s.pos /\ t.stable <= s.stable)})

\* handleOverview's has_unpublished: the lists differ in length, or a draft
\* scene is younger than the live scene in the same place.
HasUnpublished ==
  \/ Live = 0
  \/ \E d \in isDraft :
       \/ Cardinality(ScenesOf(d)) # Cardinality(ScenesOf(Live))
       \/ \E s \in ScenesOf(d), t \in ScenesOf(Live) :
            Rank(s) = Rank(t) /\ s.upd > t.upd

\* What a revision shows, whichever rows hold it.
Content(r) == {[stable |-> s.stable, pos |-> s.pos, enabled |-> s.enabled,
                valid |-> s.valid, upd |-> s.upd] : s \in ScenesOf(r)}

-----------------------------------------------------------------------------
(* Helpers of the write path                                               *)

\* Mutant: only what is enabled is copied.
CloneEnabled(src, dst) == {[s EXCEPT !.rev = dst] : s \in Playable(src)}

\* Mutant: the copy is stamped with the time it was made.
CloneStamping(src, dst) == {[s EXCEPT !.rev = dst, !.upd = clock + 1] : s \in ScenesOf(src)}

\* cloneRevision copies rows as they are, updated_at included.
Clone(src, dst) == {[s EXCEPT !.rev = dst] : s \in ScenesOf(src)}

\* DELETE FROM playlist_revisions cascades to scenes and zones.
WithoutScenesOf(gone) == {s \in scenes : s.rev \notin gone}

Reset(gone) == [r \in Revision |-> IF r \in gone THEN 0 ELSE publishedAt[r]]

\* Mutant: WHERE id = ? alone.
AnyRow(h) == scenes

\* WHERE id = ? AND revision_id = ?, with the revision that was looked up.
Addressed(h) == ScenesOf(req[h].rev)

Begin(h, pc, rev, now) ==
  /\ req[h] = Idle
  /\ req' = [req EXCEPT ![h] = [pc |-> pc, rev |-> rev, now |-> now]]

Continue(h, from, pc) ==
  /\ req[h].pc = from
  /\ req' = [req EXCEPT ![h].pc = pc]

Done(h, from) ==
  /\ req[h].pc = from
  /\ req' = [req EXCEPT ![h] = Idle]

ReadClock == clock < MaxClock /\ clock' = clock + 1

-----------------------------------------------------------------------------
(* Editing requests                                                        *)

\* SaveScene and Reorder: DraftRevision, then the clock is read for updated_at.
\* (DraftRevision's self-healing insert needs a missing draft: SingleDraft.)
StartSaving(h) ==
  /\ ReadClock
  /\ \E d \in isDraft : Begin(h, "saving", d, clock + 1)
  /\ UNCHANGED <<revisionVars, sceneVars, displayVars>>

\* SetEnabled, BulkSetEnabled, BulkSetDuration and DeleteScene: DraftRevision.
StartUpdating(h) ==
  /\ \E d \in isDraft : Begin(h, "updating", d, 0)
  /\ UNCHANGED <<revisionVars, sceneVars, clock, displayVars>>

\* SaveScene with ID 0, the tail of a create and of DuplicateScene.  The row is
\* appended after the highest position of the revision that was looked up; an
\* invalid scene is saved too.  The foreign key refuses a revision that is gone.
InsertScene(h) ==
  LET r == req[h].rev
      occupied == {s.pos : s \in ScenesOf(r)} \cup {0}
  IN /\ Done(h, "saving")
     /\ r \in revisions
     /\ lastStable < MaxScenes
     /\ lastStable' = lastStable + 1
     /\ \E last \in occupied, e, v \in BOOLEAN :
          /\ \A p \in occupied : p <= last
          /\ last < MaxScenes
          /\ scenes' = scenes \cup {[rev |-> r, stable |-> lastStable + 1, pos |-> last + 1,
                                     enabled |-> e, valid |-> v, upd |-> req[h].now]}
     /\ UNCHANGED <<revisionVars, clock, displayVars>>

\* SaveScene with an ID: UPDATE ... WHERE id = ? AND revision_id = ?.  The body
\* carries every field, the position included.
UpdateScene(h) ==
  /\ Done(h, "saving")
  /\ \E s \in Addressed(h), p \in Position, e, v \in BOOLEAN :
       scenes' = (scenes \ {s}) \cup
                   {[s EXCEPT !.pos = p, !.enabled = e, !.valid = v, !.upd = req[h].now]}
  /\ UNCHANGED <<revisionVars, lastStable, clock, displayVars>>

\* The places of a row in a list of stable ids, and its last one.
Places(list, s) == {i \in DOMAIN list : list[i] = s.stable}

LastPlace(list, s) ==
  IF Places(list, s) = {} THEN s.pos
  ELSE CHOOSE i \in Places(list, s) : \A j \in Places(list, s) : j <= i

\* Mutant: the timestamps are left alone.
ReorderedUnstamped(rows, list, now) == {[s EXCEPT !.pos = LastPlace(list, s)] : s \in rows}

\* Entry i of the list sets position i; a row it moves is stamped.
Reordered(rows, list, now) ==
  {[s EXCEPT !.pos = LastPlace(list, s),
             !.upd = IF Places(list, s) \subseteq {s.pos} THEN @ ELSE now] : s \in rows}

\* Reorder: the list has as many entries as the revision has scenes and names
\* scenes of that revision.
Reorder(h) ==
  LET rows == ScenesOf(req[h].rev)
  IN /\ Done(h, "saving")
     /\ \E list \in [1..Cardinality(rows) -> {s.stable : s \in rows}] :
          scenes' = (scenes \ rows) \cup Reordered(rows, list, req[h].now)
     /\ UNCHANGED <<revisionVars, lastStable, clock, displayVars>>

\* SetEnabled, BulkSetEnabled and BulkSetDuration: the named rows of the
\* revision that was looked up; ids of other revisions are passed over.
UpdateMany(h) ==
  /\ ReadClock
  /\ Done(h, "updating")
  /\ \E rows \in SUBSET Addressed(h) \ {{}} :
       \/ \E e \in BOOLEAN :
            scenes' = (scenes \ rows) \cup
                        {[s EXCEPT !.enabled = e, !.upd = clock + 1] : s \in rows}
       \/ scenes' = (scenes \ rows) \cup {[s EXCEPT !.upd = clock + 1] : s \in rows}
  /\ UNCHANGED <<revisionVars, lastStable, displayVars>>

\* DeleteScene.
DeleteScene(h) ==
  /\ Done(h, "updating")
  /\ \E s \in Addressed(h) : scenes' = scenes \ {s}
  /\ UNCHANGED <<revisionVars, lastStable, clock, displayVars>>

\* No row matched (ErrNotFound), the foreign key failed, the transaction was
\* overtaken, or the client went away: nothing was written.
GiveUp(h) ==
  /\ req[h].pc \in {"saving", "updating"}
  /\ req' = [req EXCEPT ![h] = Idle]
  /\ UNCHANGED <<revisionVars, sceneVars, clock, displayVars>>

-----------------------------------------------------------------------------
(* Publishing requests                                                     *)

\* Mutant: an empty or all-disabled draft is let through.
PublishableEvenBlank(d) == \A s \in ScenesOf(d) : s.enabled => s.valid

\* What Publish insists on: something enabled, nothing enabled that is invalid.
Publishable(d) ==
  /\ \E s \in ScenesOf(d) : s.enabled
  /\ \A s \in ScenesOf(d) : s.enabled => s.valid

\* Publish: the draft is stamped and a fresh draft is cloned from it, in one
\* transaction.
Publish(h) ==
  \E d \in isDraft :
    LET fresh == lastRevision + 1
    IN /\ Publishable(d)
       /\ fresh \in Revision
       /\ ReadClock
       /\ Begin(h, "prune", d, 0)
       /\ revisions' = revisions \cup {fresh}
       /\ isDraft' = (isDraft \ {d}) \cup {fresh}
       /\ publishedAt' = [publishedAt EXCEPT ![d] = clock + 1]
       /\ lastRevision' = fresh
       /\ scenes' = scenes \cup Clone(d, fresh)
       /\ UNCHANGED <<kept, lastStable, displayVars>>

\* Mutant: the draft's row is left behind.
ReplaceDraftAdding(fresh, added) ==
  /\ revisions' = revisions \cup added
  /\ isDraft' = isDraft \cup {fresh}
  /\ lastRevision' = fresh
  /\ UNCHANGED kept

\* Mutant: the pins of deleted rows are remembered.
ReplaceDraftKeepingPins(fresh, added) ==
  /\ revisions' = (revisions \ isDraft) \cup added
  /\ isDraft' = {fresh}
  /\ lastRevision' = fresh
  /\ UNCHANGED kept

\* DELETE FROM playlist_revisions WHERE is_draft = 1, then the inserts of clones.
ReplaceDraft(fresh, added) ==
  /\ revisions' = (revisions \ isDraft) \cup added
  /\ isDraft' = {fresh}
  /\ kept' = kept \ isDraft
  /\ lastRevision' = fresh

\* Rollback: the draft is dropped, the target is cloned into a revision that is
\* published at once, and that one is cloned into the fresh draft.
Rollback(h) ==
  \E target \in Published :
    LET again == lastRevision + 1
        fresh == lastRevision + 2
    IN /\ fresh \in Revision
       /\ ReadClock
       /\ Begin(h, "notify", again, 0)
       /\ ReplaceDraft(fresh, {again, fresh})
       /\ publishedAt' = [publishedAt EXCEPT ![again] = clock + 1]
       /\ scenes' = WithoutScenesOf(isDraft) \cup Clone(target, again) \cup Clone(target, fresh)
       /\ UNCHANGED <<lastStable, displayVars>>

\* DiscardDraft: the draft is replaced by a clone of the live revision.
DiscardDraft(h) ==
  LET fresh == lastRevision + 1
  IN /\ req[h] = Idle
     /\ Live # 0
     /\ fresh \in Revision
     /\ ReplaceDraft(fresh, {fresh})
     /\ scenes' = WithoutScenesOf(isDraft) \cup Clone(Live, fresh)
     /\ UNCHANGED <<publishedAt, lastStable, clock, req, displayVars>>

\* SetKeep, on any row.
SetKeep(r) ==
  /\ r \in revisions
  /\ \/ kept' = kept \cup {r}
     \/ kept' = kept \ {r}
  /\ UNCHANGED <<revisions, isDraft, publishedAt, lastRevision, sceneVars, clock, req,
                 displayVars>>

\* Mutant: one too few.
KeepOneLess == Retention - 1

\* PruneRevisions never keeps fewer than two.
KeepN == IF Retention < 2 THEN 2 ELSE Retention

\* Mutant: the oldest are protected.
OldestKept == {r \in Published : Cardinality({q \in Published : Newer(r, q)}) < KeepN}

\* The ids the subquery of PruneRevisions protects.
Newest == {r \in Published : Cardinality({q \in Published : Newer(q, r)}) < KeepN}

Prunable == {r \in Published : r \notin isDraft /\ r \notin kept /\ r \notin Newest}

\* PruneRevisions deletes what the limit no longer covers.
PruneRevisions ==
  /\ revisions' = revisions \ Prunable
  /\ publishedAt' = Reset(Prunable)
  /\ scenes' = WithoutScenesOf(Prunable)
  /\ UNCHANGED <<isDraft, kept, lastRevision, lastStable>>

\* handlePublish prunes after its commit.
PruneAfterPublish(h) ==
  /\ Continue(h, "prune", "notify")
  /\ PruneRevisions
  /\ UNCHANGED <<clock, displayVars>>

\* The housekeeping worker prunes on its own timer.
Housekeeping ==
  /\ Prunable # {}
  /\ PruneRevisions
  /\ UNCHANGED <<clock, req, displayVars>>

\* Mutant: the event is broadcast and the revision not recorded.
NotifyWithoutRevision(h) ==
  /\ Done(h, "notify")
  /\ UNCHANGED <<revisionVars, sceneVars, clock, displayVars>>

\* Hub.NotifyPlaylist stores the revision the request published.
NotifyPlaylist(h) ==
  /\ Done(h, "notify")
  /\ hubRevision' = req[h].rev
  /\ UNCHANGED <<revisionVars, sceneVars, clock, fetch, shown>>

-----------------------------------------------------------------------------
(* GET /player/state, and the process itself                               *)

\* handlePlayerState looks the live revision up ...
LookUpLive(p) ==
  /\ fetch[p] = 0
  /\ Live # 0
  /\ fetch' = [fetch EXCEPT ![p] = Live]
  /\ UNCHANGED <<revisionVars, sceneVars, clock, req, hubRevision, shown>>

\* ... and lists its scenes in a second query.
ListLive(p) ==
  /\ fetch[p] # 0
  /\ fetch' = [fetch EXCEPT ![p] = 0]
  /\ shown' = [shown EXCEPT ![p] = [rev |-> fetch[p], blank |-> Playable(fetch[p]) = {}]]
  /\ UNCHANGED <<revisionVars, sceneVars, clock, req, hubRevision>>

\* The process dies and comes back: requests are gone, the database is not, and
\* start-up records the live revision with SetRevision.  A board without a
\* battery may come up with an earlier time.
Restart ==
  /\ req' = [h \in Handlers |-> Idle]
  /\ fetch' = [p \in Readers |-> 0]
  /\ hubRevision' = Live
  /\ clock' \in IF RTC THEN {clock} ELSE 0..clock
  /\ UNCHANGED <<revisionVars, sceneVars, shown>>

Init ==
  /\ revisions = {1}
  /\ isDraft = {1}
  /\ publishedAt = [r \in Revision |-> 0]
  /\ kept = {}
  /\ lastRevision = 1
  /\ scenes = {}
  /\ lastStable = 0
  /\ clock = 0
  /\ req = [h \in Handlers |-> Idle]
  /\ hubRevision = 0
  /\ fetch = [p \in Readers |-> 0]
  /\ shown = [p \in Readers |-> [rev |-> 0, blank |-> TRUE]]

Editing(h) ==
  \/ StartSaving(h) \/ StartUpdating(h)
  \/ InsertScene(h) \/ UpdateScene(h) \/ Reorder(h)
  \/ UpdateMany(h) \/ DeleteScene(h) \/ GiveUp(h)

Publishing(h) ==
  \/ Publish(h) \/ Rollback(h) \/ DiscardDraft(h)
  \/ PruneAfterPublish(h) \/ NotifyPlaylist(h)

Next ==
  \/ \E h \in Handlers : Editing(h) \/ Publishing(h)
  \/ \E r \in Pinnable : SetKeep(r)
  \/ Housekeeping
  \/ \E p \in Readers : LookUpLive(p) \/ ListLive(p)
  \/ Restart

Spec == Init /\ [][Next]_vars

\* A goroutine that has committed goes on to prune and to broadcast, and one
\* that has looked the draft up writes or fails; nobody has to send a request.
Fairness ==
  \A h \in Handlers : /\ WF_vars(PruneAfterPublish(h))
                      /\ WF_vars(NotifyPlaylist(h))

FairSpec == Spec /\ Fairness

-----------------------------------------------------------------------------
(* Properties that hold however requests overlap                           *)

\* There is one draft at any time, it has never been published, and its row is
\* there: the repair in DraftRevision never has to act, whichever requests race
\* in Publish, Rollback and DiscardDraft.
SingleDraft ==
  \E d \in revisions : isDraft = {d} /\ publishedAt[d] = 0

\* A publish or a rollback makes what it published live, and nothing else moves
\* the display: pruning, discarding and pinning never change or lose the live
\* revision.
PublishGoesLive ==
  [][/\ Published' \ Published # {} => Live' \in Published' \ Published
     /\ Published' \ Published = {} => Live' = Live]_vars

\* Retention keeps the live revision and one to roll back to: until something
\* newer is published, neither of the two newest revisions is deleted.
RollbackPointKept ==
  [][\A r \in Published :
        (Live' = Live /\ Cardinality({q \in Published : Newer(q, r)}) < 2)
          => r \in Published']_vars

\* A new draft, whichever operation created it, reads as having nothing to
\* publish on the dashboard.
FreshDraftIsClean == [][isDraft' # isDraft => ~HasUnpublished']_vars

-----------------------------------------------------------------------------
(* Properties of requests that do not overlap (one handler at a time)      *)

\* A published revision's scenes never change (the comment in SaveScene).
PublishedImmutable ==
  [][\A r \in Published \cap Published' : Content(r)' = Content(r)]_vars

\* The live revision has something to show and shows nothing known to be
\* broken, a revision that a rollback brought back included.
LiveFit ==
  Live # 0 => /\ Playable(Live) # {}
              /\ \A s \in ScenesOf(Live) : s.enabled => s.valid

\* A reader between its two queries survives one publish: the revision it looked
\* up still has its scenes as long as at most one newer revision exists.
ReadSurvivesPublish ==
  \A p \in Readers :
    (fetch[p] # 0 /\ Cardinality({q \in Published : Newer(q, fetch[p])}) < 2)
      => Playable(fetch[p]) # {}

\* Successive answers to a reader never go back to an older revision.
ReaderMovesForward ==
  [][\A p \in Readers : shown'[p].rev >= shown[p].rev]_vars

\* While the dashboard says nothing is unpublished, the draft is what the
\* display shows.
UnpublishedFlagged ==
  ~HasUnpublished => \A d \in isDraft : Content(d) = Content(Live)

\* The store implements the abstract publishing log.
Log == INSTANCE PublishLog WITH
         draft   <- UNION {Content(d) : d \in isDraft},
         live    <- IF Live = 0 THEN {} ELSE {Content(Live)},
         history <- {Content(r) : r \in Published}

ImplementsLog == Log!Spec

\* Whatever becomes live is what the hub ends up announcing.
HubCatchesUp ==
  \A r \in Revision : (Live = r) ~> (hubRevision = r \/ Live # r)
=============================================================================
