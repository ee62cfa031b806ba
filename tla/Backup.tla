------------------------------- MODULE Backup -------------------------------
(***************************************************************************)
(* Backups (internal/store/backup.go): archives of the database, their     *)
(* rows in a table of that same database, and a restore that puts another  *)
(* file under the path of the open one.                                    *)
(*                                                                         *)
(* The process goes on with the file it has open after a restore, except   *)
(* that a connection the pool opens later finds the new one: `db` is what  *)
(* each of the two views holds, and they are one until a restore.          *)
(***************************************************************************)
EXTENDS Naturals, FiniteSets

CONSTANTS
  Handlers,      \* requests served at the same time
  Requests,      \* what they may ask: a subset of {"create", "restore", "delete"}
  Retention,     \* BackupStore.retention
  RTC,           \* FALSE if the clock may be behind after a start
  SlowReaders,   \* TRUE if a read may outlast the checkpoint's busy timeout
  MaxArchives,   \* bound on the archives ever started
  MaxWrites,     \* bound on the other writes to the database
  MaxRestarts    \* bound on the times the process stops and starts

ASSUME BackupAssumption ==
  /\ Requests \subseteq {"create", "restore", "delete"}
  /\ Retention \in Nat \ {0}
  /\ RTC \in BOOLEAN
  /\ SlowReaders \in BOOLEAN
  /\ MaxArchives \in Nat
  /\ MaxWrites \in Nat \ {0}
  /\ MaxRestarts \in Nat

VARIABLES
  db,         \* what a connection sees, by the file it has open
  main,       \* the database file at dbPath without its WAL
  foreign,    \* a WAL of the replaced database lies beside that file
  swapped,    \* the file at dbPath is not the one the process opened
  tmp,        \* what dbPath + ".restore-tmp" holds, if it is there
  files,      \* complete archives in the backup directory
  partial,    \* archives whose writing has not ended
  held,       \* what each archive holds
  stamp,      \* created_at of each archive's row
  last,       \* archives started so far
  written,    \* writes so far
  clock,      \* the wall clock
  restarts,   \* starts so far
  req         \* where each request is

diskVars == <<main, foreign, swapped, tmp>>
archiveVars == <<files, partial, held, last>>
countVars == <<written, clock, restarts>>
vars == <<db, diskVars, archiveVars, stamp, countVars, req>>

Archives == 1..MaxArchives
Side == {"open", "path"}

\* A database: the number of the last write it holds, and its backups table.
\* Pages of two databases in one file give Damaged.
Content == [data: 0..MaxWrites, listed: SUBSET Archives]
Damaged(c) == c.data = 0
Damage(c) == [c EXCEPT !.data = 0]

Request == [pc: {"idle", "checkpoint", "open", "copy", "record", "list", "remove", "unlist",
                 "extract", "swap", "unwal", "answer"},
            target: 0..MaxArchives,    \* the archive to restore
            mine: 0..MaxArchives,      \* the archive being created
            copy: Content,             \* the database file when its copy began
            seen: 0..MaxWrites,        \* the database when the request arrived
            doomed: SUBSET Archives,   \* archives left to delete
            victim: 0..MaxArchives]    \* the one being deleted

Empty == [data |-> 1, listed |-> {}]

Idle == [pc |-> "idle", target |-> 0, mine |-> 0, copy |-> Empty, seen |-> 1, doomed |-> {},
         victim |-> 0]

TypeOK ==
  /\ db \in [Side -> Content]
  /\ main \in Content
  /\ foreign \in BOOLEAN
  /\ swapped \in BOOLEAN
  /\ tmp \in SUBSET Content
  /\ files \in SUBSET Archives
  /\ partial \in SUBSET Archives
  /\ files \cap partial = {}
  /\ held \in [Archives -> Content]
  /\ stamp \in [Archives -> 0..MaxArchives]
  /\ last \in 0..MaxArchives
  /\ written \in 1..MaxWrites
  /\ clock \in 0..MaxArchives
  /\ restarts \in 0..MaxRestarts
  /\ req \in [Handlers -> Request]

At(h, pc) == req[h].pc = pc
Become(h, r) == req' = [req EXCEPT ![h] = r]
Goto(h, pc) == Become(h, [req[h] EXCEPT !.pc = pc])
Finish(h) == Become(h, Idle)

\* The views that one statement reads or writes.
Reached == IF swapped THEN {{s} : s \in Side} ELSE {Side}

\* A statement that replaces the data, the table, or both, of the database it reaches.
Commit(on, data, added, removed) ==
  db' = [s \in Side |->
           IF s \in on
           THEN [data |-> IF data = 0 \/ Damaged(db[s]) THEN db[s].data ELSE data,
                 listed |-> (db[s].listed \cup added) \ removed]
           ELSE db[s]]

-----------------------------------------------------------------------------
(* Create                                                                  *)

StartCreate(h) ==
  /\ "create" \in Requests
  /\ At(h, "idle")
  /\ last < MaxArchives
  /\ Become(h, [req[h] EXCEPT !.pc = "checkpoint", !.seen = db["open"].data])
  /\ UNCHANGED <<db, diskVars, archiveVars, stamp, countVars>>

\* Mutant: the WAL is not flushed.
NoCheckpoint(h) ==
  /\ At(h, "checkpoint")
  /\ Goto(h, "open")
  /\ UNCHANGED <<db, diskVars, archiveVars, stamp, countVars>>

\* The WAL goes into the main file.  SQLite reports a checkpoint that a reader cut
\* short in a row that Checkpoint does not read, and after a restore it may run
\* on the other file.
Checkpoint(h) ==
  /\ At(h, "checkpoint")
  /\ Goto(h, "open")
  /\ main' \in {db["path"]} \cup (IF SlowReaders \/ swapped THEN {main} ELSE {})
  /\ UNCHANGED <<db, foreign, swapped, tmp, archiveVars, stamp, countVars>>

\* The archive's file is created and the database file begins to be copied.
OpenArchive(h) ==
  /\ At(h, "open")
  /\ last < MaxArchives
  /\ last' = last + 1
  /\ partial' = partial \cup {last'}
  /\ Become(h, [req[h] EXCEPT !.pc = "copy", !.mine = last', !.copy = main])
  /\ UNCHANGED <<db, diskVars, files, held, stamp, countVars>>

\* Mutant: the archive is recorded before its writers are closed.
CloseLate(h) ==
  /\ At(h, "copy")
  /\ Goto(h, "record")
  /\ files' = files \cup {req[h].mine}
  /\ held' = [held EXCEPT ![req[h].mine] = main]
  /\ UNCHANGED <<db, diskVars, partial, last, stamp, countVars>>

\* The copy ends.  If the file was checkpointed meanwhile it has pages of both.
CloseArchive(h) ==
  /\ At(h, "copy")
  /\ Goto(h, "record")
  /\ files' = files \cup {req[h].mine}
  /\ partial' = partial \ {req[h].mine}
  /\ held' = [held EXCEPT ![req[h].mine] =
                IF main = req[h].copy THEN main ELSE Damage(req[h].copy)]
  /\ UNCHANGED <<db, diskVars, last, stamp, countVars>>

\* The checkpoint, the file or the INSERT fails; what was written is removed.
GiveUp(h) ==
  /\ req[h].pc \in {"checkpoint", "open", "copy", "record"}
  /\ Finish(h)
  /\ files' = files \ {req[h].mine}
  /\ partial' = partial \ {req[h].mine}
  /\ UNCHANGED <<db, diskVars, held, last, stamp, countVars>>

\* The row is inserted.
Record(h) ==
  /\ At(h, "record")
  /\ Goto(h, "list")
  /\ \E on \in Reached : Commit(on, 0, {req[h].mine}, {})
  /\ clock < MaxArchives
  /\ clock' = clock + 1
  /\ stamp' = [stamp EXCEPT ![req[h].mine] = clock']
  /\ UNCHANGED <<diskVars, archiveVars, written, restarts>>

-----------------------------------------------------------------------------
(* prune and Delete                                                        *)

\* Mutant: the oldest are kept.
ExcessNewest(rows) ==
  {d \in SUBSET rows :
     /\ Cardinality(rows \ d) = IF Cardinality(rows) < Retention THEN Cardinality(rows) ELSE Retention
     /\ \A a \in d, b \in rows \ d : stamp[a] >= stamp[b]}

\* The rows beyond the newest Retention; which of those with one stamp is open.
Excess(rows) ==
  {d \in SUBSET rows :
     /\ Cardinality(rows \ d) = IF Cardinality(rows) < Retention THEN Cardinality(rows) ELSE Retention
     /\ \A a \in d, b \in rows \ d : stamp[a] <= stamp[b]}

List(h) ==
  /\ At(h, "list")
  /\ \E s \in UNION Reached : \E d \in Excess(db[s].listed) :
       Become(h, [req[h] EXCEPT !.pc = "remove", !.doomed = d])
  /\ UNCHANGED <<db, diskVars, archiveVars, stamp, countVars>>

\* Delete of a listed archive.
StartDelete(h) ==
  /\ "delete" \in Requests
  /\ At(h, "idle")
  /\ \E a \in UNION {db[s].listed : s \in UNION Reached} :
       Become(h, [req[h] EXCEPT !.pc = "remove", !.doomed = {a}])
  /\ UNCHANGED <<db, diskVars, archiveVars, stamp, countVars>>

\* Mutant: only the row is deleted.
LeaveFile(h) ==
  /\ At(h, "remove")
  /\ \E a \in req[h].doomed : Become(h, [req[h] EXCEPT !.pc = "unlist", !.victim = a])
  /\ UNCHANGED <<db, diskVars, archiveVars, stamp, countVars>>

\* The file goes first.
RemoveFile(h) ==
  /\ At(h, "remove")
  /\ \E a \in req[h].doomed :
       /\ Become(h, [req[h] EXCEPT !.pc = "unlist", !.victim = a])
       /\ files' = files \ {a}
  /\ UNCHANGED <<db, diskVars, partial, held, last, stamp, countVars>>

\* Mutant: the row stays.
LeaveRow(h) ==
  /\ At(h, "unlist")
  /\ Become(h, [req[h] EXCEPT !.pc = "remove", !.doomed = @ \ {req[h].victim}, !.victim = 0])
  /\ UNCHANGED <<db, diskVars, archiveVars, stamp, countVars>>

\* Then the row.
RemoveRow(h) ==
  /\ At(h, "unlist")
  /\ Become(h, [req[h] EXCEPT !.pc = "remove", !.doomed = @ \ {req[h].victim}, !.victim = 0])
  /\ \E on \in Reached : Commit(on, 0, {}, {req[h].victim})
  /\ UNCHANGED <<diskVars, archiveVars, stamp, countVars>>

\* Create returns, to a restore or to its handler; or Delete does.
EndPrune(h) ==
  /\ At(h, "remove")
  /\ req[h].doomed = {}
  /\ Goto(h, IF req[h].target # 0 THEN "extract" ELSE "answer")
  /\ UNCHANGED <<db, diskVars, archiveVars, stamp, countVars>>

-----------------------------------------------------------------------------
(* Restore                                                                 *)

\* Verify has read the whole archive and found the recorded checksum.
StartRestore(h) ==
  /\ "restore" \in Requests
  /\ At(h, "idle")
  /\ last < MaxArchives
  /\ \E a \in files \cap UNION {db[s].listed : s \in UNION Reached} :
       Become(h, [req[h] EXCEPT !.pc = "checkpoint", !.target = a, !.seen = db["open"].data])
  /\ UNCHANGED <<db, diskVars, archiveVars, stamp, countVars>>

\* Mutant: the newest archive is restored.
ExtractNewest(h) ==
  /\ At(h, "extract")
  /\ Goto(h, "swap")
  /\ tmp' = {held[last]}
  /\ UNCHANGED <<db, main, foreign, swapped, archiveVars, stamp, countVars>>

\* extractDB.  A damaged database may pass the integrity check or not.
Extract(h) ==
  /\ At(h, "extract")
  /\ req[h].target \in files
  /\ Goto(h, "swap")
  /\ tmp' = {held[req[h].target]}
  /\ UNCHANGED <<db, main, foreign, swapped, archiveVars, stamp, countVars>>

\* The archive is gone, the check fails, or the temporary file is: all restores
\* use the same one.
Abandon(h) ==
  /\ \/ At(h, "extract") /\ req[h].target \notin files
     \/ At(h, "swap") /\ \A c \in tmp : Damaged(c)
  /\ Finish(h)
  /\ tmp' = {}
  /\ UNCHANGED <<db, main, foreign, swapped, archiveVars, stamp, countVars>>

\* The rename.  The WAL beside the path is the old database's.
Swap(h) ==
  /\ At(h, "swap")
  /\ Goto(h, "unwal")
  /\ \E c \in tmp : db' = [db EXCEPT !["path"] = c] /\ main' = c
  /\ tmp' = {}
  /\ foreign' = TRUE
  /\ swapped' = TRUE
  /\ UNCHANGED <<archiveVars, stamp, countVars>>

RemoveWal(h) ==
  /\ At(h, "unwal")
  /\ Goto(h, "answer")
  /\ foreign' = FALSE
  /\ UNCHANGED <<db, main, swapped, tmp, archiveVars, stamp, countVars>>

-----------------------------------------------------------------------------
(* The rest of the process                                                 *)

\* The handlers of create and restore record an audit entry, and ignore its error.
Answer(h) ==
  /\ At(h, "answer")
  /\ Finish(h)
  /\ \/ /\ req[h].mine # 0
        /\ written < MaxWrites
        /\ written' = written + 1
        /\ \E on \in Reached : Commit(on, written', {}, {})
     \/ UNCHANGED <<db, written>>
  /\ UNCHANGED <<diskVars, archiveVars, stamp, clock, restarts>>

\* Any other request that writes.
Write ==
  /\ written < MaxWrites
  /\ written' = written + 1
  /\ \E on \in Reached : Commit(on, written', {}, {})
  /\ UNCHANGED <<diskVars, archiveVars, stamp, clock, restarts, req>>

\* The process stops, at any point, and starts: SQLite recovers the WAL it finds.
Restart ==
  /\ restarts < MaxRestarts
  /\ restarts' = restarts + 1
  /\ LET found == IF foreign THEN Damage(db["path"]) ELSE db["path"]
     IN  db' = [s \in Side |-> found] /\ main' = found
  /\ foreign' = FALSE
  /\ swapped' = FALSE
  /\ req' = [h \in Handlers |-> Idle]
  /\ clock' \in IF RTC THEN {clock} ELSE 0..clock
  /\ UNCHANGED <<tmp, archiveVars, stamp, written>>

-----------------------------------------------------------------------------

Init ==
  /\ db = [s \in Side |-> Empty]
  /\ main = Empty
  /\ foreign = FALSE
  /\ swapped = FALSE
  /\ tmp = {}
  /\ files = {}
  /\ partial = {}
  /\ held = [a \in Archives |-> Empty]
  /\ stamp = [a \in Archives |-> 0]
  /\ last = 0
  /\ written = 1
  /\ clock = 0
  /\ restarts = 0
  /\ req = [h \in Handlers |-> Idle]

Creating(h) ==
  StartCreate(h) \/ Checkpoint(h) \/ OpenArchive(h) \/ CloseArchive(h) \/ GiveUp(h) \/ Record(h)

Pruning(h) ==
  List(h) \/ StartDelete(h) \/ RemoveFile(h) \/ RemoveRow(h) \/ EndPrune(h)

Restoring(h) ==
  StartRestore(h) \/ Extract(h) \/ Abandon(h) \/ Swap(h) \/ RemoveWal(h) \/ Answer(h)

Next ==
  \/ \E h \in Handlers : Creating(h) \/ Pruning(h) \/ Restoring(h)
  \/ Write
  \/ Restart

Spec == Init /\ [][Next]_vars

-----------------------------------------------------------------------------
(* Properties                                                              *)

\* An archive that Create has recorded holds the database as it was when the
\* request arrived or later, although only the main file is copied.
ArchiveIsCurrent ==
  \A h \in Handlers :
    (At(h, "list") /\ ~swapped) => held[req[h].mine].data >= req[h].seen

\* A restore replaces the database only while the snapshot it took of it is still
\* there: the prune that follows the snapshot has not removed it.
SnapshotBeforeSwap ==
  [][\A h \in Handlers : (At(h, "swap") /\ req'[h].pc = "unwal") => req[h].mine \in files]_vars

\* What a restore puts in place is the archive it was asked for.
RestoreDelivers ==
  [][\A h \in Handlers :
       (At(h, "swap") /\ req'[h].pc = "unwal") => db'["path"] = held[req[h].target]]_vars

\* The backup directory does not outgrow the retention limit by more than the
\* archives that requests are just making.
DiskBounded == Cardinality(files \cup partial) <= Retention + Cardinality(Handlers)

\* Every row has its file, or a request is about to delete the row.
ListedHasFile ==
  \A a \in db["open"].listed :
    a \in files \/ \E h \in Handlers : At(h, "unlist") /\ req[h].victim = a

-----------------------------------------------------------------------------
(* What comments, tests and messages say, and the code does not do         *)

\* A restore does not remove the archive that it restores.
TargetSurvives ==
  [][\A h \in Handlers :
       (At(h, "remove") /\ req[h].target # 0 /\ req[h].target \in files)
         => req[h].target \in files']_vars

\* "A stale WAL cannot be replayed over the restored file on next open."
NoForeignReplay == \A s \in Side : ~Damaged(db[s])
=============================================================================
