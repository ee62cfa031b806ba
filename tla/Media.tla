------------------------------- MODULE Media --------------------------------
(***************************************************************************)
(* The media library (internal/media): files in a directory and rows that  *)
(* name them, written one after the other and in no transaction; the       *)
(* upload and deletion handlers; and the sweep of files without a row.     *)
(*                                                                         *)
(* An item is identified by its stored name, which is UNIQUE.  Names are   *)
(* random: here the least one that nothing mentions is taken.  A thumbnail *)
(* is a file of its own.                                                   *)
(***************************************************************************)
EXTENDS Integers, FiniteSets

CONSTANTS
  Handlers,  \* requests served at the same time
  Names,     \* names of files
  MaxPages,  \* pages of a PDF
  MinAge,    \* age from which the sweep takes a file
  MaxRestarts,  \* bound on restarts
  Patience,  \* age that a file reaches at most before its row is written
  Workloads  \* what comes together: kinds of file, thumbnails, use by scenes, sweeps

ASSUME MediaAssumption ==
  /\ Names \subseteq Nat \ {0}
  /\ IsFiniteSet(Names)
  /\ MaxPages \in Nat
  /\ MinAge \in Nat
  /\ Patience \in Nat
  /\ Patience < MinAge
  /\ MaxRestarts \in Nat
  /\ Workloads # {}

VARIABLES
  rows,    \* the media table
  disk,    \* names of the files there are
  age,     \* since each was last written, up to MinAge
  scenes,  \* items that a scene of some revision uses, as ReferencedMediaIDs finds them
  req,     \* where each request is
  sweep,   \* where CleanOrphans is
  restarts,
  kinds    \* the workload

fixed == <<restarts, kinds>>
vars == <<rows, disk, age, scenes, req, sweep, fixed>>

None == 0
NoRow == [kind |-> "none", thumb |-> None, parent |-> None]
Row == [kind: {"image", "video", "pdf", "page", "none"}, thumb: Names \cup {None}, parent: Names \cup {None}]

Idle == [pc |-> "idle", kind |-> "none", file |-> None, thumb |-> None, parent |-> None, pages |-> 0,
         force |-> FALSE, late |-> FALSE, todo |-> {}]
Request == [pc: {"idle", "copy", "thumb", "insert", "convert", "mark", "check", "list", "delete", "remove"},
            kind: {"image", "video", "pdf", "none"},  \* of the file it saves
            file: Names \cup {None},     \* that it saves, or is to delete
            thumb: Names \cup {None},
            parent: Names \cup {None},   \* the PDF whose pages it saves
            pages: 0..MaxPages,          \* saved so far
            force: BOOLEAN,
            late: BOOLEAN,               \* history: a scene took it or a page up after the check
            todo: SUBSET Names]          \* files to remove

NoSweep == [pc |-> "idle", known |-> {}, old |-> {}]
Sweep == [pc: {"idle", "thumbs", "cutoff", "remove"}, known: SUBSET Names, old: SUBSET Names]

Has(n) == rows[n] # NoRow
Pages(n) == {c \in Names : Has(c) /\ rows[c].parent = n}
Files(S) == S \cup ({rows[n].thumb : n \in S} \ {None})

TypeOK ==
  /\ rows \in [Names -> Row]
  /\ \A n \in Names : /\ rows[n].kind = "none" => rows[n] = NoRow
                      /\ rows[n].kind = "page" <=> rows[n].parent # None
                      /\ rows[n].parent # None => Has(rows[n].parent)
  /\ disk \in SUBSET Names
  /\ age \in [Names -> 0..MinAge]
  /\ scenes \in SUBSET Names
  /\ req \in [Handlers -> Request]
  /\ sweep \in Sweep
  /\ restarts \in 0..MaxRestarts
  /\ kinds \in Workloads

At(h, pc) == req[h].pc = pc
Become(h, r) == req' = [req EXCEPT ![h] = r]
Uploading(h) == req[h].pc \in {"copy", "thumb", "insert"}

\* Names that nothing mentions.
Mentioned == disk \cup scenes \cup Files({n \in Names : Has(n)}) \cup sweep.known \cup sweep.old
             \cup UNION {{req[h].file, req[h].thumb, req[h].parent} \cup req[h].todo : h \in Handlers}
Free == Names \ Mentioned
StoredName == CHOOSE n \in Free : \A m \in Free : n <= m

Written(n) ==
  /\ disk' = disk \cup {n}
  /\ age' = [age EXCEPT ![n] = 0]
Removed(S) ==
  /\ disk' = disk \ S
  /\ age' = [n \in Names |-> IF n \in S THEN 0 ELSE age[n]]

-----------------------------------------------------------------------------
(* Upload                                                                  *)

\* A request whose file is saved, or could not be, goes on with the next page if it
\* is converting a PDF.
Saved(h) == IF req[h].parent = None THEN Idle
            ELSE [Idle EXCEPT !.pc = "convert", !.parent = req[h].parent, !.pages = req[h].pages]

\* Save creates the file before it reads the body.
CreateFile(h, kind) ==
  /\ Free # {}
  /\ \/ At(h, "idle") /\ kind \in kinds
     \/ At(h, "convert") /\ kind = "image" /\ req[h].pages < MaxPages
  /\ Become(h, [req[h] EXCEPT !.pc = "copy", !.kind = kind, !.file = StoredName,
                              !.pages = IF At(h, "convert") THEN @ + 1 ELSE 0])
  /\ Written(StoredName)
  /\ UNCHANGED <<rows, scenes, sweep, fixed>>

CopyMore(h) ==
  /\ At(h, "copy")
  /\ Written(req[h].file)
  /\ UNCHANGED <<rows, scenes, req, sweep, fixed>>

\* The body ends, and the file is written out.
EndCopy(h) ==
  /\ At(h, "copy")
  /\ Become(h, [req[h] EXCEPT !.pc = IF req[h].kind = "image" THEN "thumb" ELSE "insert"])
  /\ Written(req[h].file)
  /\ UNCHANGED <<rows, scenes, sweep, fixed>>

\* The body breaks off or is too large.
FailCopy(h) ==
  /\ At(h, "copy")
  /\ Removed({req[h].file})
  /\ Become(h, Saved(h))
  /\ UNCHANGED <<rows, scenes, sweep, fixed>>

MakeThumbnail(h) ==
  /\ At(h, "thumb")
  /\ "thumb" \in kinds
  /\ Free # {}
  /\ Written(StoredName)
  /\ Become(h, [req[h] EXCEPT !.pc = "insert", !.thumb = StoredName])
  /\ UNCHANGED <<rows, scenes, sweep, fixed>>

\* An image that cannot be decoded is kept without one.
NoThumbnail(h) ==
  /\ At(h, "thumb")
  /\ Become(h, [req[h] EXCEPT !.pc = "insert"])
  /\ UNCHANGED <<rows, disk, age, scenes, sweep, fixed>>

Insert(h) ==
  LET r == req[h] IN
  /\ At(h, "insert")
  /\ rows' = [rows EXCEPT ![r.file] = [kind |-> r.kind, thumb |-> r.thumb, parent |-> None]]
  /\ Become(h, IF r.kind = "pdf" THEN [Idle EXCEPT !.pc = "convert", !.parent = r.file]
               ELSE IF r.parent # None THEN [r EXCEPT !.pc = "mark", !.kind = "none", !.thumb = None]
               ELSE Idle)
  /\ UNCHANGED <<disk, age, scenes, sweep, fixed>>

FailInsert(h) ==
  /\ At(h, "insert")
  /\ Removed({req[h].file, req[h].thumb})
  /\ Become(h, Saved(h))
  /\ UNCHANGED <<rows, scenes, sweep, fixed>>

\* markAsPDFPage: the foreign key refuses a PDF that was deleted, and the page stays
\* as an image; a page that was deleted stays so.
MarkAsPDFPage(h) ==
  LET r == req[h] IN
  /\ At(h, "mark")
  /\ rows' = IF Has(r.file) /\ Has(r.parent)
             THEN [rows EXCEPT ![r.file].kind = "page", ![r.file].parent = r.parent] ELSE rows
  /\ Become(h, Saved(h))
  /\ UNCHANGED <<disk, age, scenes, sweep, fixed>>

FailMark(h) ==
  /\ At(h, "mark")
  /\ Become(h, Saved(h))
  /\ UNCHANGED <<rows, disk, age, scenes, sweep, fixed>>

\* No further page, no tool to render them, or no time.
EndConvert(h) ==
  /\ At(h, "convert")
  /\ Become(h, Idle)
  /\ UNCHANGED <<rows, disk, age, scenes, sweep, fixed>>

-----------------------------------------------------------------------------
(* Deletion                                                                *)

StartDelete(h, n, force) ==
  /\ At(h, "idle")
  /\ Has(n)
  /\ Become(h, [Idle EXCEPT !.pc = "check", !.file = n, !.force = force])
  /\ UNCHANGED <<rows, disk, age, scenes, sweep, fixed>>

\* Mutant: use by a scene is not looked at.
CheckNothing(h) ==
  /\ At(h, "check")
  /\ Become(h, [req[h] EXCEPT !.pc = "list"])
  /\ UNCHANGED <<rows, disk, age, scenes, sweep, fixed>>

\* IsMediaReferenced, unless forced.
CheckUse(h) ==
  /\ At(h, "check")
  /\ Become(h, IF req[h].file \in scenes /\ ~req[h].force THEN Idle ELSE [req[h] EXCEPT !.pc = "list"])
  /\ UNCHANGED <<rows, disk, age, scenes, sweep, fixed>>

\* Delete reads the item and its pages, whose names it keeps.
ListFiles(h) ==
  LET n == req[h].file IN
  /\ At(h, "list")
  /\ Become(h, IF Has(n) THEN [req[h] EXCEPT !.pc = "delete", !.todo = Files({n} \cup Pages(n))] ELSE Idle)
  /\ UNCHANGED <<rows, disk, age, scenes, sweep, fixed>>

\* Mutant: pages outlive their PDF.
DeleteAlone(h) ==
  LET n == req[h].file IN
  /\ At(h, "delete")
  /\ rows' = [rows EXCEPT ![n] = NoRow]
  /\ Become(h, IF Has(n) THEN [Idle EXCEPT !.pc = "remove", !.todo = req[h].todo] ELSE Idle)
  /\ UNCHANGED <<disk, age, scenes, sweep, fixed>>

\* The row goes, and with it those of its pages.
DeleteRow(h) ==
  LET n == req[h].file IN
  /\ At(h, "delete")
  /\ rows' = [m \in Names |-> IF m = n \/ rows[m].parent = n THEN NoRow ELSE rows[m]]
  /\ Become(h, IF Has(n) THEN [Idle EXCEPT !.pc = "remove", !.todo = req[h].todo] ELSE Idle)
  /\ UNCHANGED <<disk, age, scenes, sweep, fixed>>

\* A statement fails or is cancelled.
FailDelete(h) ==
  /\ req[h].pc \in {"check", "list", "delete"}
  /\ Become(h, Idle)
  /\ UNCHANGED <<rows, disk, age, scenes, sweep, fixed>>

\* The files go one by one; those that cannot be removed are left, with a warning.
RemoveFile(h, n) ==
  /\ At(h, "remove")
  /\ n \in req[h].todo
  /\ Removed({n}) \/ UNCHANGED <<disk, age>>
  /\ Become(h, IF req[h].todo = {n} THEN Idle ELSE [req[h] EXCEPT !.todo = @ \ {n}])
  /\ UNCHANGED <<rows, scenes, sweep, fixed>>

-----------------------------------------------------------------------------
(* Scenes                                                                  *)

\* SaveScene checks in its transaction that the item exists.
UseInScene(n) ==
  /\ "scenes" \in kinds
  /\ Has(n)
  /\ n \notin scenes
  /\ scenes' = scenes \cup {n}
  /\ req' = [h \in Handlers |-> IF req[h].pc \in {"list", "delete"} /\ req[h].file \in {n, rows[n].parent}
                                THEN [req[h] EXCEPT !.late = TRUE] ELSE req[h]]
  /\ UNCHANGED <<rows, disk, age, sweep, fixed>>

\* The last revision with such a scene goes.
DropFromScenes(n) ==
  /\ n \in scenes
  /\ scenes' = scenes \ {n}
  /\ UNCHANGED <<rows, disk, age, req, sweep, fixed>>

-----------------------------------------------------------------------------
(* CleanOrphans                                                            *)

Advance(s) == sweep' = s /\ UNCHANGED <<rows, scenes, req, fixed>>

ReadStored ==
  /\ "sweep" \in kinds
  /\ sweep.pc = "idle"
  /\ Advance([pc |-> "thumbs", known |-> {n \in Names : Has(n)}, old |-> {}])
  /\ UNCHANGED <<disk, age>>

ReadThumbs ==
  /\ sweep.pc = "thumbs"
  /\ Advance([sweep EXCEPT !.pc = "cutoff", !.known = @ \cup ({rows[n].thumb : n \in Names} \ {None})])
  /\ UNCHANGED <<disk, age>>

\* Mutant: files of any age are taken.
CutoffNow ==
  /\ sweep.pc = "cutoff"
  /\ Advance([pc |-> "remove", known |-> {}, old |-> disk \ sweep.known])
  /\ UNCHANGED <<disk, age>>

\* Mutant: no file is old enough.
CutoffNever ==
  /\ sweep.pc = "cutoff"
  /\ Advance([pc |-> "remove", known |-> {}, old |-> {}])
  /\ UNCHANGED <<disk, age>>

\* The directories are read after the table; a file written since the cutoff is left.
Cutoff ==
  /\ sweep.pc = "cutoff"
  /\ Advance([pc |-> "remove", known |-> {}, old |-> {n \in disk \ sweep.known : age[n] = MinAge}])
  /\ UNCHANGED <<disk, age>>

RemoveOrphan(n) ==
  /\ sweep.pc = "remove"
  /\ n \in sweep.old
  /\ Removed({n})
  /\ Advance([sweep EXCEPT !.old = @ \ {n}])

EndSweep ==
  /\ sweep.pc = "remove"
  /\ sweep.old = {}
  /\ Advance(NoSweep)
  /\ UNCHANGED <<disk, age>>

-----------------------------------------------------------------------------
\* Time passes, but no upload takes longer than Patience from the last write to its row,
\* and the queries of the sweep take none.
Tick ==
  /\ "sweep" \in kinds
  /\ \A h \in Handlers : Uploading(h) => age[req[h].file] < Patience
                                         /\ (req[h].thumb # None => age[req[h].thumb] < Patience)
  /\ sweep.pc \notin {"thumbs", "cutoff"}
  /\ \E n \in disk : age[n] < MinAge
  /\ age' = [n \in Names |-> IF n \in disk /\ age[n] < MinAge THEN age[n] + 1 ELSE age[n]]
  /\ UNCHANGED <<rows, disk, scenes, req, sweep, fixed>>

\* The process stops and starts again.
Restart ==
  /\ req' = [h \in Handlers |-> Idle]
  /\ sweep' = NoSweep
  /\ restarts < MaxRestarts
  /\ restarts' = restarts + 1
  /\ UNCHANGED <<rows, disk, age, scenes, kinds>>

Init ==
  /\ rows = [n \in Names |-> NoRow]
  /\ disk = {}
  /\ age = [n \in Names |-> 0]
  /\ scenes = {}
  /\ req = [h \in Handlers |-> Idle]
  /\ sweep = NoSweep
  /\ restarts = 0
  /\ kinds \in Workloads

Upload(h) ==
  \/ CopyMore(h) \/ EndCopy(h) \/ FailCopy(h) \/ MakeThumbnail(h) \/ NoThumbnail(h)
  \/ Insert(h) \/ FailInsert(h) \/ MarkAsPDFPage(h) \/ FailMark(h) \/ EndConvert(h)

Delete(h) ==
  \/ CheckUse(h) \/ ListFiles(h) \/ DeleteRow(h) \/ FailDelete(h)
  \/ \E n \in Names : RemoveFile(h, n)

CleanOrphans == ReadStored \/ ReadThumbs \/ Cutoff \/ EndSweep \/ (\E n \in Names : RemoveOrphan(n))

Next ==
  \/ \E h \in Handlers : \/ \E kind \in {"image", "video", "pdf"} : CreateFile(h, kind)
                         \/ Upload(h)
                         \/ \E n \in Names, force \in BOOLEAN : StartDelete(h, n, force)
                         \/ Delete(h)
  \/ \E n \in Names : UseInScene(n) \/ DropFromScenes(n)
  \/ CleanOrphans
  \/ Tick
  \/ Restart

Spec == Init /\ [][Next]_vars

\* Requests end, time passes, and a worker sweeps again and again.
FairSpec ==
  /\ Spec
  /\ \A h \in Handlers : WF_vars(Upload(h) \/ Delete(h))
  /\ WF_vars(CleanOrphans)
  /\ SF_vars(Tick)
-----------------------------------------------------------------------------
(* Properties                                                              *)

\* A row has its file and its thumbnail: no crash, deletion or sweep between the steps
\* of an upload leaves a row that names a missing file.
RowHasFile ==
  \A n \in Names : Has(n) => Files({n}) \subseteq disk

\* An item that a scene uses goes only by force, because a scene took it up after the
\* deletion had looked, or as a page of a PDF that goes.
DeletionGuarded ==
  [][\A n \in Names : n \in scenes /\ Has(n) /\ rows'[n] = NoRow =>
       \/ \E h \in Handlers : At(h, "delete") /\ req[h].file = n /\ (req[h].force \/ req[h].late)
       \/ rows[n].parent # None /\ rows'[rows[n].parent] = NoRow]_vars

\* A file that no row names and no request holds does not stay for ever.
Orphan(n) == n \in disk /\ n \notin Files({m \in Names : Has(m)})
             /\ \A h \in Handlers : n \notin {req[h].file, req[h].thumb}
DiskReclaimed == \A n \in Names : ("sweep" \in kinds /\ Orphan(n)) ~> n \notin disk
=============================================================================
