---------------------------- MODULE BackupProofs ----------------------------
(***************************************************************************)
(* The backup store, proved for any number of archives, writes and         *)
(* handlers: types, whatever requests overlap and however often the        *)
(* process stops; that a restore, when it swaps the database, still has    *)
(* the snapshot it took and puts in place the archive it was asked for;    *)
(* that archives are current; and, when nothing is restored, that rows     *)
(* have files and that the directory stays within its bound.               *)
(*                                                                         *)
(* The snapshot needs that nothing else prunes or deletes meanwhile and    *)
(* that the clock never steps back: then it has the greatest stamp, and a  *)
(* prune that keeps anything keeps it.                                     *)
(***************************************************************************)
EXTENDS Backup, FiniteSetTheorems, TLAPS

\* Archives are numbered as they are started.
Numbered ==
  /\ files \cup partial \subseteq 1..last
  /\ \A h \in Handlers : req[h].pc \in {"copy", "record"} => req[h].mine \in 1..last

TypeInv == TypeOK /\ Numbered

LEMMA Commits ==
  ASSUME TypeOK, NEW on \in Reached, NEW data \in 0..MaxWrites,
         NEW added \in SUBSET Archives, NEW removed, Commit(on, data, added, removed)
  PROVE  db' \in [Side -> Content]
<1>1. ASSUME NEW s \in Side
      PROVE  [data |-> IF data = 0 \/ Damaged(db[s]) THEN db[s].data ELSE data,
              listed |-> (db[s].listed \cup added) \ removed] \in Content
  <2>1. db[s] \in Content
    BY DEF TypeOK
  <2> QED BY <2>1 DEF Content
<1> QED BY <1>1 DEF Commit, TypeOK

LEMMA DamageIsContent == ASSUME NEW c \in Content PROVE Damage(c) \in Content
  BY BackupAssumption DEF Damage, Content

LEMMA IdleIsRequest == Empty \in Content /\ Idle \in Request
<1>1. Empty \in Content
  BY BackupAssumption DEF Empty, Content
<1> QED BY <1>1, BackupAssumption DEF Idle, Request

\* A request that changes stays a request.
LEMMA Becomes ==
  ASSUME TypeOK, NEW h \in Handlers, NEW r \in Request, Become(h, r)
  PROVE  /\ req' \in [Handlers -> Request]
         /\ req'[h] = r
         /\ \A g \in Handlers \ {h} : req'[g] = req[g]
  BY DEF Become, TypeOK

LEMMA InitTypes == Init => TypeInv
<1> SUFFICES ASSUME Init PROVE TypeInv
  OBVIOUS
<1> USE IdleIsRequest, BackupAssumption DEF Init
<1>1. TypeOK
  <2>1. db \in [Side -> Content] /\ held \in [Archives -> Content]
    OBVIOUS
  <2>2. stamp \in [Archives -> 0..MaxArchives] /\ req \in [Handlers -> Request]
    OBVIOUS
  <2>3. last \in 0..MaxArchives /\ written \in 1..MaxWrites /\ clock \in 0..MaxArchives
    OBVIOUS
  <2>4. main \in Content /\ restarts \in 0..MaxRestarts
    OBVIOUS
  <2> QED BY <2>1, <2>2, <2>3, <2>4 DEF TypeOK
<1>2. Numbered
  BY DEF Numbered, Idle
<1> QED BY <1>1, <1>2 DEF TypeInv

LEMMA CreatingTypes ==
  ASSUME TypeInv, NEW h \in Handlers, Creating(h)
  PROVE  TypeInv'
<1> USE BackupAssumption DEF TypeInv
<1>0. req[h] \in Request
  BY DEF TypeOK
<1>1. CASE StartCreate(h)
  <2> DEFINE r == [req[h] EXCEPT !.pc = "checkpoint", !.seen = db["open"].data]
  <2>1. r \in Request
    BY <1>0 DEF TypeOK, Request, Content, Side
  <2>2. Become(h, r)
    BY <1>1 DEF StartCreate
  <2>3. TypeOK'
    BY <1>1, <2>1, <2>2, Becomes
       DEF StartCreate, TypeOK, diskVars, archiveVars, countVars
  <2>4. r.pc = "checkpoint"
    BY <1>0 DEF Request
  <2> HIDE DEF r
  <2>5. Numbered'
    BY <1>1, <2>1, <2>2, <2>4, Becomes DEF StartCreate, Numbered, archiveVars
  <2> QED BY <2>3, <2>5
<1>2. CASE Checkpoint(h)
  <2> DEFINE r == [req[h] EXCEPT !.pc = "open"]
  <2>1. r \in Request /\ r.pc = "open"
    BY <1>0 DEF Request
  <2>2. Become(h, r)
    BY <1>2 DEF Checkpoint, Goto
  <2> HIDE DEF r
  <2>3. main' \in Content
    BY <1>2 DEF Checkpoint, TypeOK, Side
  <2>4. TypeOK'
    BY <1>2, <2>1, <2>2, <2>3, Becomes DEF Checkpoint, TypeOK, archiveVars, countVars
  <2>5. Numbered'
    BY <1>2, <2>1, <2>2, Becomes DEF Checkpoint, Numbered, archiveVars
  <2> QED BY <2>4, <2>5
<1>3. CASE OpenArchive(h)
  <2> DEFINE r == [req[h] EXCEPT !.pc = "copy", !.mine = last', !.copy = main]
  <2>1. last' = last + 1 /\ last' \in Archives /\ last \in Nat
    BY <1>3 DEF OpenArchive, TypeOK, Archives
  <2>2. r \in Request /\ r.pc = "copy" /\ r.mine = last'
    <3>1. main \in Content /\ last' \in 0..MaxArchives
      BY <2>1 DEF TypeOK, Archives
    <3> QED BY <1>0, <3>1 DEF Request
  <2>3. Become(h, r)
    BY <1>3 DEF OpenArchive
  <2> HIDE DEF r
  <2>4. last' \notin files /\ partial' = partial \cup {last'}
    BY <1>3, <2>1 DEF OpenArchive, Numbered
  <2>5. TypeOK'
    BY <1>3, <2>1, <2>2, <2>3, <2>4, Becomes
       DEF OpenArchive, TypeOK, diskVars, countVars, Archives
  <2>6. Numbered'
    BY <1>3, <2>1, <2>2, <2>3, <2>4, Becomes DEF OpenArchive, Numbered, Archives
  <2> QED BY <2>5, <2>6
<1>4. CASE CloseArchive(h)
  <2> DEFINE r == [req[h] EXCEPT !.pc = "record"]
  <2>1. r \in Request /\ r.pc = "record" /\ r.mine = req[h].mine
    BY <1>0 DEF Request
  <2>2. Become(h, r)
    BY <1>4 DEF CloseArchive, Goto
  <2> HIDE DEF r
  <2>3. req[h].mine \in 1..last /\ req[h].mine \in Archives
    BY <1>4 DEF CloseArchive, At, Numbered, TypeOK, Archives
  <2>4. held' \in [Archives -> Content]
    <3>1. req[h].copy \in Content /\ main \in Content
      BY <1>0 DEF Request, TypeOK
    <3> QED BY <1>4, <2>3, <3>1, DamageIsContent DEF CloseArchive, TypeOK
  <2>5. TypeOK'
    BY <1>4, <2>1, <2>2, <2>3, <2>4, Becomes DEF CloseArchive, TypeOK, diskVars, countVars
  <2>6. Numbered'
    BY <1>4, <2>1, <2>2, <2>3, Becomes DEF CloseArchive, Numbered
  <2> QED BY <2>5, <2>6
<1>5. CASE GiveUp(h)
  <2>1. Become(h, Idle) /\ Idle.pc = "idle"
    BY <1>5 DEF GiveUp, Finish, Idle
  <2>2. TypeOK'
    BY <1>5, <2>1, IdleIsRequest, Becomes DEF GiveUp, TypeOK, diskVars, countVars
  <2>3. Numbered'
    BY <1>5, <2>1, IdleIsRequest, Becomes DEF GiveUp, Numbered
  <2> QED BY <2>2, <2>3
<1>6. CASE Record(h)
  <2> DEFINE r == [req[h] EXCEPT !.pc = "list"]
  <2>1. r \in Request /\ r.pc = "list"
    BY <1>0 DEF Request
  <2>2. Become(h, r)
    BY <1>6 DEF Record, Goto
  <2> HIDE DEF r
  <2>3. req[h].mine \in Archives
    BY <1>6 DEF Record, At, Numbered, TypeOK, Archives
  <2>4. db' \in [Side -> Content]
    BY <1>6, <2>3, Commits DEF Record
  <2>5. clock' \in 0..MaxArchives /\ stamp' \in [Archives -> 0..MaxArchives]
    BY <1>6, <2>3 DEF Record, TypeOK
  <2>6. TypeOK'
    BY <1>6, <2>1, <2>2, <2>4, <2>5, Becomes DEF Record, TypeOK, diskVars, archiveVars
  <2>7. Numbered'
    BY <1>6, <2>1, <2>2, Becomes DEF Record, Numbered, archiveVars
  <2> QED BY <2>6, <2>7
<1> QED BY <1>1, <1>2, <1>3, <1>4, <1>5, <1>6 DEF Creating

LEMMA PruningTypes ==
  ASSUME TypeInv, NEW h \in Handlers, Pruning(h)
  PROVE  TypeInv'
<1> USE BackupAssumption DEF TypeInv
<1>0. req[h] \in Request
  BY DEF TypeOK
<1>1. \A s \in UNION Reached : db[s].listed \subseteq Archives
  BY DEF Reached, TypeOK, Content
<1>2. ASSUME NEW r \in Request, Become(h, r), r.pc \notin {"copy", "record"},
             UNCHANGED <<db, diskVars, archiveVars, stamp, countVars>>
      PROVE  TypeInv'
  <2>1. TypeOK'
    BY <1>2, Becomes DEF TypeOK, diskVars, archiveVars, countVars
  <2>2. Numbered'
    BY <1>2, Becomes DEF Numbered, archiveVars
  <2> QED BY <2>1, <2>2
<1>3. CASE List(h)
  <2>0. PICK s \in UNION Reached : \E d \in Excess(db[s].listed) :
          Become(h, [req[h] EXCEPT !.pc = "remove", !.doomed = d])
    BY <1>3 DEF List
  <2>1. PICK d \in Excess(db[s].listed) :
          Become(h, [req[h] EXCEPT !.pc = "remove", !.doomed = d])
    BY <2>0
  <2>2. d \subseteq Archives
    BY <1>1 DEF Excess
  <2>3. [req[h] EXCEPT !.pc = "remove", !.doomed = d] \in Request
    BY <1>0, <2>2 DEF Request
  <2>4. [req[h] EXCEPT !.pc = "remove", !.doomed = d].pc = "remove"
    BY <1>0 DEF Request
  <2> QED BY <1>2, <1>3, <2>1, <2>3, <2>4 DEF List
<1>4. CASE StartDelete(h)
  <2>1. PICK a \in UNION {db[s].listed : s \in UNION Reached} :
          Become(h, [req[h] EXCEPT !.pc = "remove", !.doomed = {a}])
    BY <1>4 DEF StartDelete
  <2>2. a \in Archives
    BY <1>1
  <2>3. [req[h] EXCEPT !.pc = "remove", !.doomed = {a}] \in Request
    BY <1>0, <2>2 DEF Request
  <2>4. [req[h] EXCEPT !.pc = "remove", !.doomed = {a}].pc = "remove"
    BY <1>0 DEF Request
  <2> QED BY <1>2, <1>4, <2>1, <2>3, <2>4 DEF StartDelete
<1>5. CASE RemoveFile(h)
  <2>1. PICK a \in req[h].doomed :
          /\ Become(h, [req[h] EXCEPT !.pc = "unlist", !.victim = a])
          /\ files' = files \ {a}
    BY <1>5 DEF RemoveFile
  <2> DEFINE r == [req[h] EXCEPT !.pc = "unlist", !.victim = a]
  <2>2. r \in Request /\ r.pc = "unlist"
    <3>1. req[h].doomed \subseteq Archives
      BY <1>0 DEF Request
    <3>2. a \in 0..MaxArchives
      BY <2>1, <3>1 DEF Archives
    <3> QED BY <1>0, <3>2 DEF Request
  <2>3. Become(h, r)
    BY <2>1
  <2> HIDE DEF r
  <2>4. TypeOK'
    BY <1>5, <2>1, <2>2, <2>3, Becomes DEF RemoveFile, TypeOK, diskVars, countVars
  <2>5. Numbered'
    BY <1>5, <2>1, <2>2, <2>3, Becomes DEF RemoveFile, Numbered
  <2> QED BY <2>4, <2>5
<1>6. CASE RemoveRow(h)
  <2> DEFINE r == [req[h] EXCEPT !.pc = "remove", !.doomed = @ \ {req[h].victim}, !.victim = 0]
  <2>1. r \in Request /\ r.pc = "remove"
    <3>1. ASSUME NEW d \in SUBSET Archives
          PROVE  /\ [req[h] EXCEPT !.pc = "remove", !.doomed = d, !.victim = 0] \in Request
                 /\ [req[h] EXCEPT !.pc = "remove", !.doomed = d, !.victim = 0].pc = "remove"
      <4>1. 0 \in 0..MaxArchives
        OBVIOUS
      <4> QED BY <1>0, <3>1, <4>1 DEF Request
    <3>2. req[h].doomed \ {req[h].victim} \in SUBSET Archives
      BY <1>0 DEF Request
    <3> QED BY <3>1, <3>2, Zenon
  <2>2. Become(h, r)
    BY <1>6 DEF RemoveRow
  <2> HIDE DEF r
  <2>3. db' \in [Side -> Content]
    BY <1>6, Commits DEF RemoveRow
  <2>4. TypeOK'
    BY <1>6, <2>1, <2>2, <2>3, Becomes DEF RemoveRow, TypeOK, diskVars, archiveVars, countVars
  <2>5. Numbered'
    BY <1>6, <2>1, <2>2, Becomes DEF RemoveRow, Numbered, archiveVars
  <2> QED BY <2>4, <2>5
<1>7. CASE EndPrune(h)
  <2> DEFINE r == [req[h] EXCEPT !.pc = IF req[h].target # 0 THEN "extract" ELSE "answer"]
  <2>1. r \in Request /\ r.pc \notin {"copy", "record"}
    BY <1>0 DEF Request
  <2>2. Become(h, r)
    BY <1>7 DEF EndPrune, Goto
  <2> HIDE DEF r
  <2> QED BY <1>2, <1>7, <2>1, <2>2 DEF EndPrune
<1> QED BY <1>3, <1>4, <1>5, <1>6, <1>7 DEF Pruning

LEMMA RestoringTypes ==
  ASSUME TypeInv, NEW h \in Handlers, Restoring(h)
  PROVE  TypeInv'
<1> USE BackupAssumption DEF TypeInv
<1>0. req[h] \in Request
  BY DEF TypeOK
<1>1. CASE StartRestore(h)
  <2>1. PICK a \in files :
          Become(h, [req[h] EXCEPT !.pc = "checkpoint", !.target = a,
                                   !.seen = db["open"].data])
    BY <1>1 DEF StartRestore
  <2> DEFINE r == [req[h] EXCEPT !.pc = "checkpoint", !.target = a, !.seen = db["open"].data]
  <2>2. a \in 0..MaxArchives /\ db["open"].data \in 0..MaxWrites
    BY DEF TypeOK, Archives, Content, Side
  <2>3. r \in Request /\ r.pc = "checkpoint"
    BY <1>0, <2>2 DEF Request
  <2>4. Become(h, r)
    BY <2>1
  <2> HIDE DEF r
  <2>5. TypeOK'
    BY <1>1, <2>3, <2>4, Becomes DEF StartRestore, TypeOK, diskVars, archiveVars, countVars
  <2>6. Numbered'
    BY <1>1, <2>3, <2>4, Becomes DEF StartRestore, Numbered, archiveVars
  <2> QED BY <2>5, <2>6
<1>2. CASE Extract(h)
  <2> DEFINE r == [req[h] EXCEPT !.pc = "swap"]
  <2>1. r \in Request /\ r.pc = "swap"
    BY <1>0 DEF Request
  <2>2. Become(h, r)
    BY <1>2 DEF Extract, Goto
  <2> HIDE DEF r
  <2>3. tmp' \in SUBSET Content
    BY <1>2 DEF Extract, TypeOK
  <2>4. TypeOK'
    BY <1>2, <2>1, <2>2, <2>3, Becomes DEF Extract, TypeOK, archiveVars, countVars
  <2>5. Numbered'
    BY <1>2, <2>1, <2>2, Becomes DEF Extract, Numbered, archiveVars
  <2> QED BY <2>4, <2>5
<1>3. CASE Abandon(h)
  <2>1. Become(h, Idle) /\ Idle.pc = "idle"
    BY <1>3 DEF Abandon, Finish, Idle
  <2>2. TypeOK'
    BY <1>3, <2>1, IdleIsRequest, Becomes DEF Abandon, TypeOK, archiveVars, countVars
  <2>3. Numbered'
    BY <1>3, <2>1, IdleIsRequest, Becomes DEF Abandon, Numbered, archiveVars
  <2> QED BY <2>2, <2>3
<1>4. CASE Swap(h)
  <2> DEFINE r == [req[h] EXCEPT !.pc = "unwal"]
  <2>1. r \in Request /\ r.pc = "unwal"
    BY <1>0 DEF Request
  <2>2. Become(h, r)
    BY <1>4 DEF Swap, Goto
  <2> HIDE DEF r
  <2>3. db' \in [Side -> Content] /\ main' \in Content
    BY <1>4 DEF Swap, TypeOK
  <2>4. TypeOK'
    BY <1>4, <2>1, <2>2, <2>3, Becomes DEF Swap, TypeOK, archiveVars, countVars
  <2>5. Numbered'
    BY <1>4, <2>1, <2>2, Becomes DEF Swap, Numbered, archiveVars
  <2> QED BY <2>4, <2>5
<1>5. CASE RemoveWal(h)
  <2> DEFINE r == [req[h] EXCEPT !.pc = "answer"]
  <2>1. r \in Request /\ r.pc = "answer"
    BY <1>0 DEF Request
  <2>2. Become(h, r)
    BY <1>5 DEF RemoveWal, Goto
  <2> HIDE DEF r
  <2>3. TypeOK'
    BY <1>5, <2>1, <2>2, Becomes DEF RemoveWal, TypeOK, archiveVars, countVars
  <2>4. Numbered'
    BY <1>5, <2>1, <2>2, Becomes DEF RemoveWal, Numbered, archiveVars
  <2> QED BY <2>3, <2>4
<1>6. CASE Answer(h)
  <2>1. Become(h, Idle) /\ Idle.pc = "idle"
    BY <1>6 DEF Answer, Finish, Idle
  <2>2. written' \in 1..MaxWrites /\ db' \in [Side -> Content]
    <3>1. CASE UNCHANGED <<db, written>>
      BY <3>1 DEF TypeOK
    <3>2. CASE /\ written < MaxWrites
               /\ written' = written + 1
               /\ \E on \in Reached : Commit(on, written', {}, {})
      <4>1. written' \in 1..MaxWrites
        BY <3>2 DEF TypeOK
      <4>2. PICK on \in Reached : Commit(on, written', {}, {})
        BY <3>2
      <4>3. db' \in [Side -> Content]
        BY <4>1, <4>2, Commits
      <4> QED BY <4>1, <4>3
    <3> QED BY <1>6, <3>1, <3>2 DEF Answer
  <2>3. TypeOK'
    BY <1>6, <2>1, <2>2, IdleIsRequest, Becomes DEF Answer, TypeOK, diskVars, archiveVars
  <2>4. Numbered'
    BY <1>6, <2>1, IdleIsRequest, Becomes DEF Answer, Numbered, archiveVars
  <2> QED BY <2>3, <2>4
<1> QED BY <1>1, <1>2, <1>3, <1>4, <1>5, <1>6 DEF Restoring

LEMMA ProcessTypes ==
  ASSUME TypeInv, Write \/ Restart
  PROVE  TypeInv'
<1> USE BackupAssumption DEF TypeInv
<1>1. CASE Write
  <2>1. written' \in 1..MaxWrites
    BY <1>1 DEF Write, TypeOK
  <2>2. PICK on \in Reached : Commit(on, written', {}, {})
    BY <1>1 DEF Write
  <2>3. db' \in [Side -> Content]
    BY <2>1, <2>2, Commits
  <2>4. TypeOK'
    BY <1>1, <2>1, <2>3 DEF Write, TypeOK, diskVars, archiveVars
  <2> QED BY <1>1, <2>4 DEF Write, Numbered, archiveVars
<1>2. CASE Restart
  <2> DEFINE found == IF foreign THEN Damage(db["path"]) ELSE db["path"]
  <2>1. found \in Content
    BY DamageIsContent DEF TypeOK, Side
  <2>2. db' = [s \in Side |-> found] /\ main' = found
    BY <1>2 DEF Restart
  <2> HIDE DEF found
  <2>3. clock' \in 0..MaxArchives /\ restarts' \in 0..MaxRestarts
    BY <1>2 DEF Restart, TypeOK
  <2>4. req' \in [Handlers -> Request]
    BY <1>2, IdleIsRequest DEF Restart
  <2>5. TypeOK'
    BY <1>2, <2>1, <2>2, <2>3, <2>4 DEF Restart, TypeOK, archiveVars
  <2>6. Numbered'
    BY <1>2 DEF Restart, Numbered, archiveVars, Idle
  <2> QED BY <2>5, <2>6
<1> QED BY <1>1, <1>2

LEMMA TypeStep == TypeInv /\ [Next]_vars => TypeInv'
<1> SUFFICES ASSUME TypeInv, [Next]_vars PROVE TypeInv'
  OBVIOUS
<1>1. CASE UNCHANGED vars
  BY <1>1 DEF TypeInv, TypeOK, Numbered, vars, diskVars, archiveVars, countVars
<1> QED BY <1>1, CreatingTypes, PruningTypes, RestoringTypes, ProcessTypes DEF Next

LEMMA TypeInvHolds == Spec => []TypeInv
  BY InitTypes, TypeStep, PTL DEF Spec

\* TypeOK: whatever requests overlap and wherever the process stops, every row,
\* file and request is one of this store's, and no archive is both complete and
\* being written.
THEOREM BackupTypes == Spec => []TypeOK
<1>1. TypeInv => TypeOK
  BY DEF TypeInv
<1> QED BY TypeInvHolds, <1>1, PTL

-----------------------------------------------------------------------------
(* The snapshot of a restore                                               *)

OneAtATime == \A g, h \in Handlers : g = h

\* Rows are stamped with a clock that only moves on.
Stamped == \A a \in Archives : stamp[a] <= clock

\* The archive that the request has just recorded is the newest row.
Newest(h) ==
  At(h, "list") => \A a \in Archives \ {req[h].mine} : stamp[a] < stamp[req[h].mine]

\* While a request makes its archive, and a restore after that, the file is there
\* and nothing is about to delete it.
Kept(h) ==
  /\ At(h, "idle") => req[h].target = 0
  /\ req[h].pc \in {"record", "list", "extract", "swap"} => req[h].mine \in files
  /\ (req[h].pc \in {"remove", "unlist"} /\ req[h].target # 0)
       => req[h].mine \in files \ req[h].doomed

SnapInv == Stamped /\ \A h \in Handlers : Newest(h) /\ Kept(h)

\* A prune keeps a row that is newer than all others.
LEMMA NewestIsNotExcess ==
  ASSUME TypeOK, NEW rows \in SUBSET Archives, NEW m \in Archives,
         \A a \in Archives \ {m} : stamp[a] < stamp[m],
         NEW d \in Excess(rows)
  PROVE  m \notin d
<1> SUFFICES ASSUME m \in d PROVE FALSE
  OBVIOUS
<1>1. d \subseteq rows /\ m \in rows
  BY DEF Excess
<1>2. IsFiniteSet(Archives)
  BY FS_Interval, BackupAssumption DEF Archives
<1>3. IsFiniteSet(rows) /\ IsFiniteSet(rows \ d)
  <2>1. rows \ d \in SUBSET Archives
    OBVIOUS
  <2> QED BY <1>2, <2>1, FS_Subset
<1>4. Cardinality(rows) \in Nat \ {0}
  BY <1>1, <1>3, FS_EmptySet, FS_CardinalityType
<1>5. Cardinality(rows \ d) # 0
  BY <1>4, BackupAssumption DEF Excess
<1>6. PICK b \in rows : b \notin d
  BY <1>3, <1>5, FS_EmptySet
<1>7. stamp[m] <= stamp[b]
  BY <1>6 DEF Excess
<1>8. b # m /\ b \in Archives
  BY <1>6
<1>9. stamp[b] < stamp[m] /\ stamp[b] \in Nat /\ stamp[m] \in Nat
  BY <1>8 DEF TypeOK
<1> QED BY <1>7, <1>9

\* The clock and the stamps move only when a row is inserted or, the clock, at a start.
LEMMA ClockMoves ==
  ASSUME [Next]_vars
  PROVE  \/ UNCHANGED <<clock, stamp>>
         \/ \E h \in Handlers : Record(h)
         \/ Restart
<1>1. CASE UNCHANGED vars
  BY <1>1 DEF vars, countVars
<1>2. ASSUME NEW h \in Handlers, Creating(h), ~Record(h) PROVE UNCHANGED <<clock, stamp>>
  BY <1>2 DEF Creating, StartCreate, Checkpoint, OpenArchive, CloseArchive, GiveUp, countVars
<1>3. ASSUME NEW h \in Handlers, Pruning(h) PROVE UNCHANGED <<clock, stamp>>
  BY <1>3 DEF Pruning, List, StartDelete, RemoveFile, RemoveRow, EndPrune, countVars
<1>4. ASSUME NEW h \in Handlers, Restoring(h) PROVE UNCHANGED <<clock, stamp>>
  BY <1>4 DEF Restoring, StartRestore, Extract, Abandon, Swap, RemoveWal, Answer, countVars
<1>5. ASSUME Write PROVE UNCHANGED <<clock, stamp>>
  BY <1>5 DEF Write
<1> QED BY <1>1, <1>2, <1>3, <1>4, <1>5 DEF Next

LEMMA StampedStep ==
  ASSUME RTC, TypeInv, Stamped, [Next]_vars
  PROVE  Stamped'
<1>1. CASE UNCHANGED <<clock, stamp>>
  BY <1>1 DEF Stamped
<1>2. ASSUME NEW h \in Handlers, Record(h) PROVE Stamped'
  <2>1. /\ clock' = clock + 1
        /\ stamp' = [stamp EXCEPT ![req[h].mine] = clock']
    BY <1>2 DEF Record
  <2>2. clock \in Nat /\ \A a \in Archives : stamp[a] \in Nat
    BY DEF TypeInv, TypeOK
  <2> QED BY <2>1, <2>2 DEF Stamped, TypeInv, TypeOK
<1>3. CASE Restart
  BY <1>3 DEF Restart, Stamped
<1> QED BY <1>1, <1>2, <1>3, ClockMoves

LEMMA CreatingKeeps ==
  ASSUME TypeInv, Stamped, NEW h \in Handlers, Newest(h), Kept(h), Creating(h)
  PROVE  (Newest(h) /\ Kept(h))'
<1> USE DEF TypeInv
<1>0. req[h] \in Request
  BY DEF TypeOK
<1>1. CASE StartCreate(h)
  <2>1. req'[h].pc = "checkpoint"
    BY <1>0, <1>1 DEF StartCreate, Become, Request, TypeOK
  <2> QED BY <2>1 DEF Newest, Kept, At
<1>2. CASE Checkpoint(h)
  <2>1. req'[h].pc = "open"
    BY <1>0, <1>2 DEF Checkpoint, Goto, Become, Request, TypeOK
  <2> QED BY <2>1 DEF Newest, Kept, At
<1>3. CASE OpenArchive(h)
  <2>1. req'[h].pc = "copy"
    BY <1>0, <1>3 DEF OpenArchive, Become, Request, TypeOK
  <2> QED BY <2>1 DEF Newest, Kept, At
<1>4. CASE CloseArchive(h)
  <2>1. req'[h].pc = "record" /\ req'[h].mine = req[h].mine
    BY <1>0, <1>4 DEF CloseArchive, Goto, Become, Request, TypeOK
  <2>2. req[h].mine \in files'
    BY <1>4 DEF CloseArchive
  <2> QED BY <2>1, <2>2 DEF Newest, Kept, At
<1>5. CASE GiveUp(h)
  <2>1. req'[h] = Idle
    BY <1>5 DEF GiveUp, Finish, Become, TypeOK
  <2> QED BY <2>1 DEF Newest, Kept, At, Idle
<1>6. CASE Record(h)
  <2>1. req'[h].pc = "list" /\ req'[h].mine = req[h].mine
    BY <1>0, <1>6 DEF Record, Goto, Become, Request, TypeOK
  <2>2. req[h].mine \in files /\ files' = files
    BY <1>6 DEF Record, Kept, At, archiveVars
  <2>3. ASSUME NEW a \in Archives \ {req[h].mine}
        PROVE  stamp'[a] < stamp'[req[h].mine]
    <3>1. stamp'[req[h].mine] = clock + 1 /\ stamp'[a] = stamp[a]
      BY <1>6, <2>2 DEF Record, TypeOK
    <3>2. stamp[a] \in Nat /\ clock \in Nat /\ stamp[a] <= clock
      BY DEF TypeOK, Stamped
    <3> QED BY <3>1, <3>2
  <2> QED BY <2>1, <2>2, <2>3 DEF Newest, Kept, At
<1> QED BY <1>1, <1>2, <1>3, <1>4, <1>5, <1>6 DEF Creating

LEMMA PruningKeeps ==
  ASSUME TypeInv, NEW h \in Handlers, Newest(h), Kept(h), Pruning(h)
  PROVE  (Newest(h) /\ Kept(h))'
<1> USE DEF TypeInv
<1>0. req[h] \in Request
  BY DEF TypeOK
<1>1. CASE List(h)
  <2>1. PICK s \in UNION Reached : \E d \in Excess(db[s].listed) :
          Become(h, [req[h] EXCEPT !.pc = "remove", !.doomed = d])
    BY <1>1 DEF List
  <2>2. PICK d \in Excess(db[s].listed) :
          Become(h, [req[h] EXCEPT !.pc = "remove", !.doomed = d])
    BY <2>1
  <2>3. /\ req'[h].pc = "remove" /\ req'[h].doomed = d
        /\ req'[h].mine = req[h].mine
    BY <1>0, <2>2 DEF Become, Request, TypeOK
  <2>4. req[h].mine \in files /\ files' = files /\ req[h].mine \in Archives
    BY <1>1 DEF List, Kept, At, archiveVars, TypeOK
  <2>5. db[s].listed \in SUBSET Archives
    BY DEF Reached, TypeOK, Content
  <2>6. req[h].mine \notin d
    <3>1. \A a \in Archives \ {req[h].mine} : stamp[a] < stamp[req[h].mine]
      BY <1>1 DEF List, Newest
    <3> QED BY <2>4, <2>5, <3>1, NewestIsNotExcess
  <2> QED BY <2>3, <2>4, <2>6 DEF Newest, Kept, At
<1>2. CASE StartDelete(h)
  <2>1. PICK a \in UNION {db[s].listed : s \in UNION Reached} :
          Become(h, [req[h] EXCEPT !.pc = "remove", !.doomed = {a}])
    BY <1>2 DEF StartDelete
  <2>2. req'[h].pc = "remove" /\ req'[h].target = 0
    BY <1>0, <1>2, <2>1 DEF StartDelete, Kept, Become, Request, TypeOK
  <2> QED BY <2>2 DEF Newest, Kept, At
<1>3. CASE RemoveFile(h)
  <2>1. PICK a \in req[h].doomed :
          /\ Become(h, [req[h] EXCEPT !.pc = "unlist", !.victim = a])
          /\ files' = files \ {a}
    BY <1>3 DEF RemoveFile
  <2>2. /\ req'[h].pc = "unlist" /\ req'[h].doomed = req[h].doomed
        /\ req'[h].mine = req[h].mine /\ req'[h].target = req[h].target
    BY <1>0, <2>1 DEF Become, Request, TypeOK
  <2> QED BY <1>3, <2>1, <2>2 DEF RemoveFile, Newest, Kept, At
<1>4. CASE RemoveRow(h)
  <2>1. /\ req'[h].pc = "remove" /\ req'[h].doomed \subseteq req[h].doomed
        /\ req'[h].mine = req[h].mine /\ req'[h].target = req[h].target
    BY <1>0, <1>4 DEF RemoveRow, Become, Request, TypeOK
  <2>2. files' = files
    BY <1>4 DEF RemoveRow, archiveVars
  <2> QED BY <1>4, <2>1, <2>2 DEF RemoveRow, Newest, Kept, At
<1>5. CASE EndPrune(h)
  <2>1. /\ req'[h].pc = IF req[h].target # 0 THEN "extract" ELSE "answer"
        /\ req'[h].mine = req[h].mine
    BY <1>0, <1>5 DEF EndPrune, Goto, Become, Request, TypeOK
  <2>2. files' = files
    BY <1>5 DEF EndPrune, archiveVars
  <2> QED BY <1>5, <2>1, <2>2 DEF EndPrune, Newest, Kept, At
<1> QED BY <1>1, <1>2, <1>3, <1>4, <1>5 DEF Pruning

LEMMA RestoringKeeps ==
  ASSUME TypeInv, NEW h \in Handlers, Newest(h), Kept(h), Restoring(h)
  PROVE  (Newest(h) /\ Kept(h))'
<1> USE DEF TypeInv
<1>0. req[h] \in Request
  BY DEF TypeOK
<1>1. CASE StartRestore(h)
  <2>1. req'[h].pc = "checkpoint"
    BY <1>0, <1>1 DEF StartRestore, Become, Request, TypeOK
  <2> QED BY <2>1 DEF Newest, Kept, At
<1>2. CASE Extract(h)
  <2>1. req'[h].pc = "swap" /\ req'[h].mine = req[h].mine
    BY <1>0, <1>2 DEF Extract, Goto, Become, Request, TypeOK
  <2> QED BY <1>2, <2>1 DEF Extract, Newest, Kept, At, archiveVars
<1>3. CASE Abandon(h)
  <2>1. req'[h] = Idle
    BY <1>3 DEF Abandon, Finish, Become, TypeOK
  <2> QED BY <2>1 DEF Newest, Kept, At, Idle
<1>4. CASE Swap(h)
  <2>1. req'[h].pc = "unwal"
    BY <1>0, <1>4 DEF Swap, Goto, Become, Request, TypeOK
  <2> QED BY <2>1 DEF Newest, Kept, At
<1>5. CASE RemoveWal(h)
  <2>1. req'[h].pc = "answer"
    BY <1>0, <1>5 DEF RemoveWal, Goto, Become, Request, TypeOK
  <2> QED BY <2>1 DEF Newest, Kept, At
<1>6. CASE Answer(h)
  <2>1. req'[h] = Idle
    BY <1>6 DEF Answer, Finish, Become, TypeOK
  <2> QED BY <2>1 DEF Newest, Kept, At, Idle
<1> QED BY <1>1, <1>2, <1>3, <1>4, <1>5, <1>6 DEF Restoring

LEMMA SnapStep ==
  ASSUME OneAtATime, RTC, TypeInv, SnapInv, [Next]_vars
  PROVE  SnapInv'
<1>1. Stamped'
  BY StampedStep DEF SnapInv
<1>2. ASSUME NEW h \in Handlers
      PROVE  (Newest(h) /\ Kept(h))'
  <2>1. Stamped /\ Newest(h) /\ Kept(h)
    BY DEF SnapInv
  <2>2. CASE UNCHANGED vars
    BY <2>1, <2>2 DEF vars, archiveVars, Newest, Kept, At
  <2>3. CASE \E g \in Handlers : Creating(g) \/ Pruning(g) \/ Restoring(g)
    <3>1. Creating(h) \/ Pruning(h) \/ Restoring(h)
      BY <2>3 DEF OneAtATime
    <3> QED BY <2>1, <3>1, CreatingKeeps, PruningKeeps, RestoringKeeps
  <2>4. CASE Write
    BY <2>1, <2>4 DEF Write, archiveVars, Newest, Kept, At
  <2>5. CASE Restart
    BY <2>5 DEF Restart, Newest, Kept, At, Idle
  <2> QED BY <2>2, <2>3, <2>4, <2>5 DEF Next
<1> QED BY <1>1, <1>2 DEF SnapInv

\* SnapshotBeforeSwap: if requests do not overlap and the clock does not step back
\* over a restart, a restore that swaps the database still has the snapshot that
\* it took before, whatever the retention limit.
THEOREM SnapshotOutlivesPrune ==
  ASSUME OneAtATime, RTC
  PROVE  Spec => SnapshotBeforeSwap
<1> DEFINE Snapped == \A h \in Handlers :
                        (At(h, "swap") /\ req'[h].pc = "unwal") => req[h].mine \in files
<1>1. Init => SnapInv
  BY BackupAssumption DEF Init, SnapInv, Stamped, Newest, Kept, At, Idle
<1>2. TypeInv /\ SnapInv /\ [Next]_vars => SnapInv'
  BY SnapStep
<1>3. SnapInv /\ [Next]_vars => [Snapped]_vars
  BY DEF SnapInv, Kept, At
<1> HIDE DEF Snapped
<1>4. Spec => [][Snapped]_vars
  BY TypeInvHolds, <1>1, <1>2, <1>3, PTL DEF Spec
<1> QED BY <1>4 DEF SnapshotBeforeSwap, Snapped

-----------------------------------------------------------------------------
(* Restores: the temporary file holds the archive that was asked for until   *)
(* it is renamed.                                                            *)

\* A request that only moves on keeps what it holds.
LEMMA Went ==
  ASSUME TypeOK, NEW h \in Handlers, NEW pc, Goto(h, pc)
  PROVE  /\ req'[h].pc = pc
         /\ req'[h].target = req[h].target /\ req'[h].mine = req[h].mine
         /\ req'[h].copy = req[h].copy /\ req'[h].seen = req[h].seen
         /\ req'[h].doomed = req[h].doomed /\ req'[h].victim = req[h].victim
         /\ \A g \in Handlers \ {h} : req'[g] = req[g]
<1>1. req[h] \in Request
  BY DEF TypeOK
<1>2. req'[h] = [req[h] EXCEPT !.pc = pc] /\ \A g \in Handlers \ {h} : req'[g] = req[g]
  BY DEF Goto, Become, TypeOK
<1> QED BY <1>1, <1>2 DEF Request

\* The temporary file holds the archive that is being restored.
Extracted(h) == At(h, "swap") => tmp = {held[req[h].target]}

\* Only an extraction leads to the swap, and it writes that file.
LEMMA ExtractedStep ==
  ASSUME OneAtATime, TypeInv, NEW h \in Handlers, Extracted(h), [Next]_vars
  PROVE  Extracted(h)'
<1> USE DEF TypeInv
<1>0. req[h] \in Request
  BY DEF TypeOK
<1>1. CASE UNCHANGED vars
  BY <1>1 DEF vars, diskVars, archiveVars, Extracted, At
<1>2. CASE Creating(h)
  <2>1. req'[h].pc # "swap"
    <3>1. CASE StartCreate(h)
      BY <1>0, <3>1 DEF StartCreate, Become, TypeOK, Request
    <3>2. CASE OpenArchive(h)
      BY <1>0, <3>2 DEF OpenArchive, Become, TypeOK, Request
    <3>3. CASE GiveUp(h)
      BY <3>3 DEF GiveUp, Finish, Become, TypeOK, Idle
    <3> QED BY <1>2, <3>1, <3>2, <3>3, Went DEF Creating, Checkpoint, CloseArchive, Record
  <2> QED BY <2>1 DEF Extracted, At
<1>3. CASE Pruning(h)
  <2>1. req'[h].pc # "swap"
    <3>1. CASE List(h)
      BY <1>0, <3>1 DEF List, Become, TypeOK, Request
    <3>2. CASE StartDelete(h)
      BY <1>0, <3>2 DEF StartDelete, Become, TypeOK, Request
    <3>3. CASE RemoveFile(h)
      BY <1>0, <3>3 DEF RemoveFile, Become, TypeOK, Request
    <3>4. CASE RemoveRow(h)
      BY <1>0, <3>4 DEF RemoveRow, Become, TypeOK, Request
    <3>5. CASE EndPrune(h)
      BY <3>5, Went DEF EndPrune
    <3> QED BY <1>3, <3>1, <3>2, <3>3, <3>4, <3>5 DEF Pruning
  <2> QED BY <2>1 DEF Extracted, At
<1>4. CASE Extract(h)
  <2>1. req'[h].target = req[h].target
    BY <1>4, Went DEF Extract
  <2> QED BY <1>4, <2>1 DEF Extract, archiveVars, Extracted
<1>5. CASE Restoring(h) /\ ~Extract(h)
  <2>1. req'[h].pc # "swap"
    <3>1. CASE StartRestore(h)
      BY <1>0, <3>1 DEF StartRestore, Become, TypeOK, Request
    <3>2. CASE Abandon(h) \/ Answer(h)
      BY <3>2 DEF Abandon, Answer, Finish, Become, TypeOK, Idle
    <3>3. CASE Swap(h) \/ RemoveWal(h)
      BY <3>3, Went DEF Swap, RemoveWal
    <3> QED BY <1>5, <3>1, <3>2, <3>3 DEF Restoring
  <2> QED BY <2>1 DEF Extracted, At
<1>6. CASE Write
  BY <1>6 DEF Write, diskVars, archiveVars, Extracted, At
<1>7. CASE Restart
  BY <1>7 DEF Restart, Extracted, At, Idle
<1> QED BY <1>1, <1>2, <1>3, <1>4, <1>5, <1>6, <1>7 DEF Next, OneAtATime

\* RestoreDelivers: what a restore renames over the database (Swap) is the archive
\* that it was asked for, although all restores extract to one temporary file, its
\* own snapshot and prune came in between and the process may have stopped in the
\* middle of an earlier one.  Requests must not overlap: two restores would swap in
\* each other's archive.
THEOREM RestoresDeliver ==
  ASSUME OneAtATime
  PROVE  Spec => RestoreDelivers
<1> DEFINE Delivers == \A h \in Handlers :
             (At(h, "swap") /\ req'[h].pc = "unwal") => db'["path"] = held[req[h].target]
           AllExtracted == \A h \in Handlers : Extracted(h)
<1>1. Init => AllExtracted
  BY DEF Init, Extracted, At, Idle
<1>2. TypeInv /\ AllExtracted /\ [Next]_vars => AllExtracted'
  BY ExtractedStep
<1>3. TypeInv /\ AllExtracted /\ [Next]_vars => [Delivers]_vars
  <2> SUFFICES ASSUME TypeInv, [Next]_vars, NEW h \in Handlers, Extracted(h),
                      At(h, "swap"), req'[h].pc = "unwal"
               PROVE  db'["path"] = held[req[h].target]
    OBVIOUS
  <2>1. Swap(h)
    <3>1. req[h] \in Request
      BY DEF TypeInv, TypeOK
    <3>2. ~UNCHANGED vars /\ ~Write /\ ~Restart
      BY DEF vars, At, Write, Restart, Idle
    <3>3. Creating(h) \/ Pruning(h) \/ Restoring(h)
      BY <3>2 DEF Next, OneAtATime
    <3>4. ~Creating(h) /\ ~Pruning(h)
      BY DEF At, Creating, StartCreate, Checkpoint, OpenArchive, CloseArchive, GiveUp, Record,
             Pruning, List, StartDelete, RemoveFile, RemoveRow, EndPrune
    <3>5. ~StartRestore(h) /\ ~Extract(h) /\ ~RemoveWal(h) /\ ~Answer(h)
      BY DEF At, StartRestore, Extract, RemoveWal, Answer
    <3>6. ~Abandon(h)
      BY DEF Abandon, Finish, Become, Idle, TypeInv, TypeOK
    <3> QED BY <3>3, <3>4, <3>5, <3>6 DEF Restoring
  <2>2. PICK c \in tmp : db' = [db EXCEPT !["path"] = c]
    BY <2>1 DEF Swap
  <2> QED BY <2>2 DEF Extracted, TypeInv, TypeOK, Side
<1> HIDE DEF Delivers, AllExtracted
<1>4. Spec => [][Delivers]_vars
  BY TypeInvHolds, <1>1, <1>2, <1>3, PTL DEF Spec
<1> QED BY <1>4 DEF RestoreDelivers, Delivers

-----------------------------------------------------------------------------
(* What a request saw when it arrived travels, while others write, from the  *)
(* database through the main file to the archive.                            *)

\* No database and no archive holds a write that has not been made.
DataPast ==
  /\ \A s \in Side : db[s].data <= written
  /\ main.data <= written
  /\ \A a \in Archives : held[a].data <= written
  /\ \A c \in tmp : c.data <= written

\* Before a restore all connections see one database.
OneView == ~swapped => ~foreign /\ db["open"] = db["path"]

\* What a commit does to the data of each view.
LEMMA CommitData ==
  ASSUME TypeOK, NEW on \in Reached, NEW data, NEW added, NEW removed,
         Commit(on, data, added, removed)
  PROVE  /\ \A s \in Side : \/ db'[s].data = db[s].data
                            \/ db'[s].data = data /\ data # 0
         /\ ~swapped /\ db["open"] = db["path"] => db'["open"] = db'["path"]
<1>1. \A s \in Side : db'[s] = IF s \in on
           THEN [data |-> IF data = 0 \/ Damaged(db[s]) THEN db[s].data ELSE data,
                 listed |-> (db[s].listed \cup added) \ removed]
           ELSE db[s]
  BY DEF Commit
<1>2. \A s \in Side : \/ db'[s].data = db[s].data
                      \/ db'[s].data = data /\ data # 0
  <2> TAKE s \in Side
  <2> DEFINE new == [data |-> IF data = 0 \/ Damaged(db[s]) THEN db[s].data ELSE data,
                     listed |-> (db[s].listed \cup added) \ removed]
  <2>1. new.data = db[s].data \/ (new.data = data /\ data # 0)
    OBVIOUS
  <2>2. db'[s] = new \/ db'[s] = db[s]
    BY <1>1
  <2> HIDE DEF new
  <2> QED BY <2>1, <2>2
<1>3. ~swapped => on = Side
  BY DEF Reached
<1> QED BY <1>1, <1>2, <1>3 DEF Side

\* How the data of databases and archives moves: nowhere but by a write, or from one
\* to another.
LEMMA DataStep ==
  ASSUME TypeInv, DataPast, [Next]_vars
  PROVE  DataPast'
<1> USE DEF TypeInv
<1>0. /\ written \in Nat /\ written' \in Nat /\ written <= written'
      /\ \A s \in Side : db[s] \in Content /\ db[s].data \in Nat
      /\ main.data \in Nat /\ \A a \in Archives : held[a].data \in Nat
      /\ \A c \in tmp : c.data \in Nat
  <2>1. \A c \in Content : c.data \in Nat
    BY BackupAssumption DEF Content
  <2>2. written \in Nat /\ (written' = written \/ written' = written + 1)
    <3>1. ASSUME NEW h \in Handlers, Creating(h) \/ Pruning(h) PROVE written' = written
      BY <3>1 DEF Creating, StartCreate, Checkpoint, OpenArchive, CloseArchive, GiveUp, Record,
                  Pruning, List, StartDelete, RemoveFile, RemoveRow, EndPrune, countVars
    <3>2. ASSUME NEW h \in Handlers, Restoring(h)
          PROVE  written' = written \/ written' = written + 1
      BY <3>2 DEF Restoring, StartRestore, Extract, Abandon, Swap, RemoveWal, Answer, countVars
    <3>3. Write \/ Restart \/ UNCHANGED vars => written' = written \/ written' = written + 1
      BY DEF Write, Restart, vars, countVars
    <3> QED BY <3>1, <3>2, <3>3 DEF Next, TypeOK
  <2> QED BY <2>1, <2>2 DEF TypeOK
<1>1. UNCHANGED <<db, diskVars, held>> => DataPast'
  BY <1>0 DEF diskVars, DataPast
<1>2. ASSUME NEW on \in Reached, NEW data \in {0, written'}, NEW added, NEW removed,
             Commit(on, data, added, removed), UNCHANGED <<diskVars, held>>
      PROVE  DataPast'
  <2>1. \A s \in Side : db'[s].data <= written'
    BY <1>0, <1>2, CommitData DEF DataPast
  <2> QED BY <1>0, <1>2, <2>1 DEF diskVars, DataPast
<1>3. ASSUME NEW h \in Handlers, Creating(h) PROVE DataPast'
  <2>1. CASE Checkpoint(h)
    <3>1. main' \in {db["path"], main} /\ UNCHANGED <<db, tmp, held>>
      BY <2>1 DEF Checkpoint, archiveVars
    <3> QED BY <1>0, <3>1 DEF DataPast, Side
  <2>2. CASE CloseArchive(h)
    <3>1. PICK a : a = req[h].mine
      OBVIOUS
    <3>2. UNCHANGED <<db, diskVars>> /\ held' = [held EXCEPT ![a] = IF main = req[h].copy THEN main ELSE Damage(req[h].copy)]
      BY <2>2, <3>1 DEF CloseArchive
    <3>3. req[h].copy \in Content
      BY DEF TypeOK, Request
    <3>4. Damage(req[h].copy).data = 0
      BY <3>3 DEF Damage, Content
    <3>5. \A b \in Archives : held'[b].data <= written'
      BY <1>0, <3>2, <3>4 DEF DataPast, TypeOK
    <3> QED BY <1>0, <3>2, <3>5 DEF DataPast, diskVars
  <2>3. CASE Record(h)
    BY <1>2, <2>3 DEF Record, archiveVars
  <2> QED BY <1>1, <1>3, <2>1, <2>2, <2>3 DEF Creating, StartCreate, OpenArchive, GiveUp, archiveVars
<1>4. ASSUME NEW h \in Handlers, Pruning(h) PROVE DataPast'
  <2>1. CASE RemoveRow(h)
    BY <1>2, <2>1 DEF RemoveRow, archiveVars
  <2> QED BY <1>1, <1>4, <2>1 DEF Pruning, List, StartDelete, RemoveFile, EndPrune, archiveVars
<1>5. ASSUME NEW h \in Handlers, Restoring(h) PROVE DataPast'
  <2>1. CASE Extract(h)
    <3>1. tmp' = {held[req[h].target]} /\ req[h].target \in Archives /\ UNCHANGED <<db, main, held>>
      BY <2>1 DEF Extract, TypeOK, archiveVars
    <3> QED BY <1>0, <3>1 DEF DataPast
  <2>2. CASE Abandon(h)
    BY <1>0, <2>2 DEF Abandon, DataPast, archiveVars
  <2>3. CASE Swap(h)
    <3>1. PICK c \in tmp : db' = [db EXCEPT !["path"] = c] /\ main' = c
      BY <2>3 DEF Swap
    <3>2. \A s \in Side : db'[s] \in {c, db[s]}
      BY <3>1 DEF TypeOK
    <3> QED BY <1>0, <2>3, <3>1, <3>2 DEF Swap, DataPast, archiveVars
  <2>4. CASE Answer(h)
    BY <1>1, <1>2, <2>4 DEF Answer, archiveVars
  <2>5. CASE StartRestore(h)
    BY <1>1, <2>5 DEF StartRestore, archiveVars
  <2>6. CASE RemoveWal(h)
    BY <1>0, <2>6 DEF RemoveWal, archiveVars, DataPast
  <2> QED BY <1>5, <2>1, <2>2, <2>3, <2>4, <2>5, <2>6 DEF Restoring
<1>6. CASE Write
  BY <1>2, <1>6 DEF Write, archiveVars
<1>7. CASE Restart
  <2>1. PICK found : found = IF foreign THEN Damage(db["path"]) ELSE db["path"]
    OBVIOUS
  <2>2. db' = [s \in Side |-> found] /\ main' = found /\ UNCHANGED <<tmp, held>>
    BY <1>7, <2>1 DEF Restart, archiveVars
  <2>3. found.data <= written'
    BY <1>0, <2>1 DEF Damage, DataPast, Content, Side
  <2> QED BY <1>0, <2>2, <2>3 DEF DataPast
<1> QED BY <1>1, <1>3, <1>4, <1>5, <1>6, <1>7 DEF Next, vars, archiveVars

\* The views part in a restore, and a start joins them.
LEMMA OneViewStep ==
  ASSUME TypeInv, OneView, [Next]_vars
  PROVE  OneView'
<1> USE DEF TypeInv
<1>1. UNCHANGED <<db, foreign, swapped>> => OneView'
  BY DEF OneView
<1>2. ASSUME NEW on \in Reached, NEW data, NEW added, NEW removed,
             Commit(on, data, added, removed), UNCHANGED diskVars
      PROVE  OneView'
  BY <1>2, CommitData DEF diskVars, OneView
<1>3. ASSUME NEW h \in Handlers, Creating(h) \/ Pruning(h) PROVE OneView'
  BY <1>1, <1>2, <1>3 DEF Creating, StartCreate, Checkpoint, OpenArchive, CloseArchive, GiveUp, Record,
              Pruning, List, StartDelete, RemoveFile, RemoveRow, EndPrune, diskVars
<1>4. ASSUME NEW h \in Handlers, Restoring(h) PROVE OneView'
  <2>1. CASE Swap(h)
    BY <2>1 DEF Swap, OneView
  <2>2. CASE RemoveWal(h)
    BY <2>2 DEF RemoveWal, OneView
  <2>3. CASE Answer(h)
    BY <1>1, <1>2, <2>3 DEF Answer, diskVars
  <2> QED BY <1>1, <1>4, <2>1, <2>2, <2>3 DEF Restoring, StartRestore, Extract, Abandon, diskVars
<1>5. CASE Write
  BY <1>2, <1>5 DEF Write
<1>6. CASE Restart
  BY <1>6 DEF Restart, OneView, Side
<1> QED BY <1>1, <1>3, <1>4, <1>5, <1>6 DEF Next, vars, diskVars

\* What a request saw when it arrived has come, at each place, to where the next statement
\* finds it.
Follows(h) ==
  /\ At(h, "copy") => req[h].copy = main
  /\ ~swapped =>
       /\ At(h, "checkpoint") => db["open"].data >= req[h].seen
       /\ req[h].pc \in {"open", "copy"} => main.data >= req[h].seen
       /\ req[h].pc \in {"record", "list"} => held[req[h].mine].data >= req[h].seen

\* Each statement takes it one place on, and what others write is newer.
LEMMA FollowsStep ==
  ASSUME OneAtATime, ~SlowReaders, TypeInv, DataPast, OneView, NEW h \in Handlers, Follows(h), [Next]_vars
  PROVE  Follows(h)'
<1> USE DEF TypeInv
<1>0. req[h] \in Request /\ db["open"].data \in Nat /\ written \in Nat
  BY BackupAssumption DEF TypeOK, Content, Side
<1>1. CASE UNCHANGED vars
  BY <1>1 DEF vars, diskVars, archiveVars, Follows, At
<1>2. ASSUME req'[h].pc \notin {"checkpoint", "open", "copy", "record", "list"} PROVE Follows(h)'
  BY <1>2 DEF Follows, At
<1>3. CASE Creating(h)
  <2>1. CASE StartCreate(h)
    <3>1. req'[h].pc = "checkpoint" /\ req'[h].seen = db["open"].data /\ UNCHANGED <<db, diskVars>>
      BY <1>0, <2>1 DEF StartCreate, Become, TypeOK, Request
    <3> QED BY <1>0, <3>1 DEF Follows, At
  <2>2. CASE Checkpoint(h)
    <3>1. req'[h].pc = "open" /\ req'[h].seen = req[h].seen
      BY <2>2, Went DEF Checkpoint
    <3>2. ~swapped => main' = db["open"] /\ swapped' = swapped
      BY <2>2 DEF Checkpoint, OneView
    <3>3. swapped' = swapped
      BY <2>2 DEF Checkpoint
    <3> QED BY <2>2, <3>1, <3>2, <3>3 DEF Checkpoint, Follows, At
  <2>3. CASE OpenArchive(h)
    <3>1. req'[h].pc = "copy" /\ req'[h].seen = req[h].seen /\ req'[h].copy = main /\ UNCHANGED diskVars
      BY <1>0, <2>3 DEF OpenArchive, Become, TypeOK, Request
    <3> QED BY <2>3, <3>1 DEF OpenArchive, diskVars, Follows, At
  <2>4. CASE CloseArchive(h)
    <3>1. req'[h].pc = "record" /\ req'[h].seen = req[h].seen /\ req'[h].mine = req[h].mine
      BY <2>4, Went DEF CloseArchive
    <3>2. main = req[h].copy /\ req[h].mine \in Archives
      BY <2>4, BackupAssumption DEF CloseArchive, Follows, At, Numbered, TypeOK, Archives
    <3>3. held'[req[h].mine] = main /\ UNCHANGED diskVars
      BY <2>4, <3>2 DEF CloseArchive, TypeOK
    <3> QED BY <2>4, <3>1, <3>3 DEF CloseArchive, diskVars, Follows, At
  <2>5. CASE GiveUp(h)
    BY <1>2, <2>5 DEF GiveUp, Finish, Become, TypeOK, Idle
  <2>6. CASE Record(h)
    <3>1. req'[h].pc = "list" /\ req'[h].seen = req[h].seen /\ req'[h].mine = req[h].mine
      BY <2>6, Went DEF Record
    <3> QED BY <2>6, <3>1 DEF Record, archiveVars, diskVars, Follows, At
  <2> QED BY <1>3, <2>1, <2>2, <2>3, <2>4, <2>5, <2>6 DEF Creating
<1>4. CASE Pruning(h)
  <2>1. CASE List(h)
    BY <1>0, <1>2, <2>1 DEF List, Become, TypeOK, Request
  <2>2. CASE StartDelete(h)
    BY <1>0, <1>2, <2>2 DEF StartDelete, Become, TypeOK, Request
  <2>3. CASE RemoveFile(h)
    BY <1>0, <1>2, <2>3 DEF RemoveFile, Become, TypeOK, Request
  <2>4. CASE RemoveRow(h)
    BY <1>0, <1>2, <2>4 DEF RemoveRow, Become, TypeOK, Request
  <2>5. CASE EndPrune(h)
    BY <1>2, <2>5, Went DEF EndPrune
  <2> QED BY <1>4, <2>1, <2>2, <2>3, <2>4, <2>5 DEF Pruning
<1>5. CASE Restoring(h)
  <2>1. CASE StartRestore(h)
    <3>1. req'[h].pc = "checkpoint" /\ req'[h].seen = db["open"].data /\ UNCHANGED <<db, diskVars>>
      BY <1>0, <2>1 DEF StartRestore, Become, TypeOK, Request
    <3> QED BY <1>0, <3>1 DEF Follows, At
  <2>2. CASE Abandon(h) \/ Answer(h)
    BY <1>2, <2>2 DEF Abandon, Answer, Finish, Become, TypeOK, Idle
  <2>3. CASE Extract(h) \/ Swap(h) \/ RemoveWal(h)
    BY <1>2, <2>3, Went DEF Extract, Swap, RemoveWal
  <2> QED BY <1>5, <2>1, <2>2, <2>3 DEF Restoring
<1>6. CASE Write
  <2>1. PICK on \in Reached : Commit(on, written + 1, {}, {})
    BY <1>6 DEF Write
  <2>2. db'["open"].data \in {db["open"].data, written + 1}
    BY <2>1, CommitData DEF Side
  <2>3. db'["open"].data >= db["open"].data
    BY <1>0, <2>2 DEF DataPast, Side
  <2>4. req[h].seen \in Nat /\ db'["open"].data \in Nat
    BY <1>0, <2>2 DEF Request
  <2> QED BY <1>0, <1>6, <2>3, <2>4 DEF Write, diskVars, archiveVars, Follows, At
<1>7. CASE Restart
  BY <1>2, <1>7 DEF Restart, Idle
<1> QED BY <1>1, <1>3, <1>4, <1>5, <1>6, <1>7 DEF Next, OneAtATime

\* ArchiveIsCurrent: an archive that Create records holds at least what the request
\* that asked for it could see, although only the main file is copied and others
\* write meanwhile.  Two creates at once would checkpoint under each other's copy,
\* and a reader that outlasts the busy timeout leaves the writes in the WAL.
THEOREM ArchivesAreCurrent ==
  ASSUME OneAtATime, ~SlowReaders
  PROVE  Spec => []ArchiveIsCurrent
<1> DEFINE AllFollow == \A h \in Handlers : Follows(h)
<1>1. Init => DataPast /\ OneView /\ AllFollow
  BY DEF Init, DataPast, OneView, Follows, At, Idle, Empty, Side
<1>2. TypeInv /\ DataPast /\ [Next]_vars => DataPast'
  BY DataStep
<1>3. TypeInv /\ OneView /\ [Next]_vars => OneView'
  BY OneViewStep
<1>4. TypeInv /\ DataPast /\ OneView /\ AllFollow /\ [Next]_vars => AllFollow'
  BY FollowsStep
<1>5. AllFollow => ArchiveIsCurrent
  BY DEF Follows, ArchiveIsCurrent, At
<1> HIDE DEF AllFollow
<1> QED BY TypeInvHolds, <1>1, <1>2, <1>3, <1>4, <1>5, PTL DEF Spec

-----------------------------------------------------------------------------
(* Without restores: what a step does to the table, to the directory and to  *)
(* one request.  The proofs that follow go by these effects.                 *)

\* The hypothesis of what follows: nothing is restored, and the process is not stopped.
NoRestores == "restore" \notin Requests /\ MaxRestarts = 0

\* Then there is one database all along.
Quiet ==
  /\ ~swapped /\ db["open"] = db["path"]
  /\ \A h \in Handlers : req[h].target = 0 /\ req[h].pc \notin {"extract", "swap", "unwal"}

\* Its table.
Listed == db["open"].listed

\* A step as the table, the directory and one request see it.
Tables(inFiles, inPartial, inTable, started) ==
  files' = inFiles /\ partial' = inPartial /\ Listed' = inTable /\ last' = started

Hands(h, pc, mine, doomed, victim) ==
  /\ req'[h].pc = pc /\ req'[h].mine = mine /\ req'[h].doomed = doomed /\ req'[h].victim = victim
  /\ req'[h].target = req[h].target \/ req'[h].target = 0
  /\ \A g \in Handlers \ {h} : req'[g] = req[g]

Waits(h) ==
  /\ req[h].pc \in {"idle", "checkpoint"}
  /\ \E pc \in {"checkpoint", "open"} : Hands(h, pc, req[h].mine, req[h].doomed, req[h].victim)
  /\ Tables(files, partial, Listed, last)

Opens(h) ==
  /\ At(h, "open")
  /\ Hands(h, "copy", last + 1, req[h].doomed, req[h].victim)
  /\ Tables(files, partial \cup {last + 1}, Listed, last + 1)

Closes(h) ==
  /\ At(h, "copy")
  /\ Hands(h, "record", req[h].mine, req[h].doomed, req[h].victim)
  /\ Tables(files \cup {req[h].mine}, partial \ {req[h].mine}, Listed, last)

Drops(h) ==
  /\ req[h].pc \in {"checkpoint", "open", "copy", "record"}
  /\ Hands(h, "idle", 0, {}, 0)
  /\ Tables(files \ {req[h].mine}, partial \ {req[h].mine}, Listed, last)

Records(h) ==
  /\ At(h, "record")
  /\ Hands(h, "list", req[h].mine, req[h].doomed, req[h].victim)
  /\ Tables(files, partial, Listed \cup {req[h].mine}, last)

Lists(h) ==
  /\ At(h, "list")
  /\ \E d \in Excess(Listed) : Hands(h, "remove", req[h].mine, d, req[h].victim)
  /\ Tables(files, partial, Listed, last)

Picks(h) ==
  /\ At(h, "idle")
  /\ \E a \in Listed : Hands(h, "remove", req[h].mine, {a}, req[h].victim)
  /\ Tables(files, partial, Listed, last)

Removes(h) ==
  /\ At(h, "remove")
  /\ \E a \in req[h].doomed :
       /\ Hands(h, "unlist", req[h].mine, req[h].doomed, a)
       /\ Tables(files \ {a}, partial, Listed, last)

Unlists(h) ==
  /\ At(h, "unlist")
  /\ Hands(h, "remove", req[h].mine, req[h].doomed \ {req[h].victim}, 0)
  /\ Tables(files, partial, Listed \ {req[h].victim}, last)

Ends(h) ==
  /\ At(h, "remove") /\ req[h].doomed = {}
  /\ Hands(h, "answer", req[h].mine, {}, req[h].victim)
  /\ Tables(files, partial, Listed, last)

Answers(h) ==
  /\ At(h, "answer")
  /\ Hands(h, "idle", 0, {}, 0)
  /\ Tables(files, partial, Listed, last)

Stays == req' = req /\ Tables(files, partial, Listed, last)

\* What a commit does to the table.
LEMMA CommitTable ==
  ASSUME TypeOK, Quiet, NEW on \in Reached, NEW data, NEW added, NEW removed,
         Commit(on, data, added, removed)
  PROVE  /\ db'["open"] = db'["path"]
         /\ Listed' = (Listed \cup added) \ removed
<1>1. on = Side
  BY DEF Reached, Quiet
<1>2. \A s \in Side : db'[s] =
         [data |-> IF data = 0 \/ Damaged(db[s]) THEN db[s].data ELSE data,
          listed |-> (db[s].listed \cup added) \ removed]
  BY <1>1 DEF Commit
<1>3. \A s \in Side : db'[s].listed = (db[s].listed \cup added) \ removed
  <2> TAKE s \in Side
  <2> DEFINE new == [data |-> IF data = 0 \/ Damaged(db[s]) THEN db[s].data ELSE data,
                     listed |-> (db[s].listed \cup added) \ removed]
  <2>1. new.listed = (db[s].listed \cup added) \ removed
    OBVIOUS
  <2>2. db'[s] = new
    BY <1>2
  <2> HIDE DEF new
  <2> QED BY <2>1, <2>2
<1> QED BY <1>2, <1>3 DEF Quiet, Side, Listed

\* Without restores a step is one of these.
LEMMA StepSeen ==
  ASSUME NoRestores, TypeInv, Quiet, [Next]_vars
  PROVE  /\ ~swapped' /\ db'["open"] = db'["path"]
         /\ \/ \E h \in Handlers :
                  \/ Waits(h) \/ Opens(h) \/ Closes(h) \/ Drops(h) \/ Records(h) \/ Lists(h)
                  \/ Picks(h) \/ Removes(h) \/ Unlists(h) \/ Ends(h) \/ Answers(h)
            \/ Stays
<1> USE DEF TypeInv
<1>0. \A h \in Handlers : req[h] \in Request
  BY DEF TypeOK
<1>1. UNCHANGED <<db, diskVars>> => ~swapped' /\ db'["open"] = db'["path"] /\ Listed' = Listed
  BY DEF diskVars, Quiet, Listed
<1>2. Reached = {Side} /\ UNION Reached = Side
  BY DEF Reached, Quiet
<1>3. \A s \in Side : db[s].listed = Listed
  BY DEF Side, Quiet, Listed
<1>4. ASSUME NEW h \in Handlers, Creating(h)
      PROVE  /\ ~swapped' /\ db'["open"] = db'["path"]
             /\ Waits(h) \/ Opens(h) \/ Closes(h) \/ Drops(h) \/ Records(h)
  <2>1. CASE StartCreate(h)
    <3>1. req' = [req EXCEPT ![h] = [req[h] EXCEPT !.pc = "checkpoint", !.seen = db["open"].data]]
      BY <2>1 DEF StartCreate, Become
    <3>2. Hands(h, "checkpoint", req[h].mine, req[h].doomed, req[h].victim)
      BY <1>0, <3>1 DEF Hands, TypeOK, Request
    <3> QED BY <1>1, <2>1, <3>2 DEF StartCreate, At, Waits, Tables, archiveVars
  <2>2. CASE Checkpoint(h)
    <3>1. Hands(h, "open", req[h].mine, req[h].doomed, req[h].victim)
      BY <2>2, Went DEF Checkpoint, Hands
    <3> QED BY <2>2, <3>1 DEF Checkpoint, At, Waits, Tables, archiveVars, Quiet, Listed
  <2>3. CASE OpenArchive(h)
    <3>1. req' = [req EXCEPT ![h] = [req[h] EXCEPT !.pc = "copy", !.mine = last', !.copy = main]]
          /\ last' = last + 1
      BY <2>3 DEF OpenArchive, Become
    <3>2. Hands(h, "copy", last + 1, req[h].doomed, req[h].victim)
      BY <1>0, <3>1 DEF Hands, TypeOK, Request
    <3> QED BY <1>1, <2>3, <3>1, <3>2 DEF OpenArchive, At, Opens, Tables
  <2>4. CASE CloseArchive(h)
    <3>1. Hands(h, "record", req[h].mine, req[h].doomed, req[h].victim)
      BY <2>4, Went DEF CloseArchive, Hands
    <3> QED BY <1>1, <2>4, <3>1 DEF CloseArchive, At, Closes, Tables
  <2>5. CASE GiveUp(h)
    <3>1. Hands(h, "idle", 0, {}, 0)
      BY <2>5 DEF GiveUp, Finish, Become, Idle, Hands, TypeOK
    <3> QED BY <1>1, <2>5, <3>1 DEF GiveUp, Drops, Tables
  <2>6. CASE Record(h)
    <3>1. Hands(h, "list", req[h].mine, req[h].doomed, req[h].victim)
      BY <2>6, Went DEF Record, Hands
    <3>2. db'["open"] = db'["path"] /\ Listed' = Listed \cup {req[h].mine}
      BY <2>6, CommitTable DEF Record
    <3> QED BY <2>6, <3>1, <3>2 DEF Record, At, Records, Tables, archiveVars, diskVars, Quiet
  <2> QED BY <1>4, <2>1, <2>2, <2>3, <2>4, <2>5, <2>6 DEF Creating
<1>5. ASSUME NEW h \in Handlers, Pruning(h)
      PROVE  /\ ~swapped' /\ db'["open"] = db'["path"]
             /\ Lists(h) \/ Picks(h) \/ Removes(h) \/ Unlists(h) \/ Ends(h)
  <2>1. CASE List(h)
    <3>1. PICK d \in Excess(Listed) :
            req' = [req EXCEPT ![h] = [req[h] EXCEPT !.pc = "remove", !.doomed = d]]
      BY <1>2, <1>3, <2>1 DEF List, Become
    <3>2. Hands(h, "remove", req[h].mine, d, req[h].victim)
      BY <1>0, <3>1 DEF Hands, TypeOK, Request
    <3> QED BY <1>1, <2>1, <3>2 DEF List, At, Lists, Tables, archiveVars
  <2>2. CASE StartDelete(h)
    <3>1. PICK a \in Listed :
            req' = [req EXCEPT ![h] = [req[h] EXCEPT !.pc = "remove", !.doomed = {a}]]
      BY <1>2, <1>3, <2>2 DEF StartDelete, Become
    <3>2. Hands(h, "remove", req[h].mine, {a}, req[h].victim)
      BY <1>0, <3>1 DEF Hands, TypeOK, Request
    <3> QED BY <1>1, <2>2, <3>2 DEF StartDelete, At, Picks, Tables, archiveVars
  <2>3. CASE RemoveFile(h)
    <3>1. PICK a \in req[h].doomed :
            /\ req' = [req EXCEPT ![h] = [req[h] EXCEPT !.pc = "unlist", !.victim = a]]
            /\ files' = files \ {a}
      BY <2>3 DEF RemoveFile, Become
    <3>2. Hands(h, "unlist", req[h].mine, req[h].doomed, a)
      BY <1>0, <3>1 DEF Hands, TypeOK, Request
    <3> QED BY <1>1, <2>3, <3>1, <3>2 DEF RemoveFile, At, Removes, Tables
  <2>4. CASE RemoveRow(h)
    <3>1. PICK d : d = req[h].doomed \ {req[h].victim}
      OBVIOUS
    <3>2. req' = [req EXCEPT ![h] = [req[h] EXCEPT !.pc = "remove", !.doomed = d, !.victim = 0]]
      BY <2>4, <3>1 DEF RemoveRow, Become
    <3>3. Hands(h, "remove", req[h].mine, d, 0)
      BY <1>0, <3>2 DEF Hands, TypeOK, Request
    <3>4. db'["open"] = db'["path"] /\ Listed' = Listed \ {req[h].victim}
      BY <2>4, CommitTable DEF RemoveRow
    <3> QED BY <2>4, <3>1, <3>3, <3>4 DEF RemoveRow, At, Unlists, Tables, archiveVars, diskVars, Quiet
  <2>5. CASE EndPrune(h)
    <3>1. req[h].target = 0 /\ req[h].doomed = {}
      BY <2>5 DEF EndPrune, Quiet
    <3>2. Hands(h, "answer", req[h].mine, {}, req[h].victim)
      BY <2>5, <3>1, Went DEF EndPrune, Hands
    <3> QED BY <1>1, <2>5, <3>2 DEF EndPrune, At, Ends, Tables, archiveVars
  <2> QED BY <1>5, <2>1, <2>2, <2>3, <2>4, <2>5 DEF Pruning
<1>6. ASSUME NEW h \in Handlers, Restoring(h)
      PROVE  /\ ~swapped' /\ db'["open"] = db'["path"]
             /\ Answers(h)
  <2>1. Answer(h)
    BY <1>6 DEF Restoring, StartRestore, NoRestores, Extract, Abandon, Swap, RemoveWal, Quiet, At
  <2>2. Hands(h, "idle", 0, {}, 0)
    BY <2>1 DEF Answer, Finish, Become, Idle, Hands, TypeOK
  <2>3. db'["open"] = db'["path"] /\ Listed' = Listed
    <3>1. CASE UNCHANGED <<db, written>>
      BY <1>1, <2>1, <3>1 DEF Answer
    <3>2. ASSUME NEW on \in Reached, Commit(on, written', {}, {})
          PROVE  db'["open"] = db'["path"] /\ Listed' = Listed
      <4>1. db'["open"] = db'["path"] /\ Listed' = (Listed \cup {}) \ {}
        BY <3>2, CommitTable
      <4> QED BY <4>1
    <3> QED BY <2>1, <3>1, <3>2 DEF Answer
  <2> QED BY <2>1, <2>2, <2>3 DEF Answer, At, Answers, Tables, archiveVars, diskVars, Quiet
<1>7. ASSUME Write \/ UNCHANGED vars
      PROVE  ~swapped' /\ db'["open"] = db'["path"] /\ Stays
  <2>1. CASE Write
    <3>1. db'["open"] = db'["path"] /\ Listed' = Listed
      <4>1. PICK on \in Reached : Commit(on, written', {}, {})
        BY <2>1 DEF Write
      <4>2. db'["open"] = db'["path"] /\ Listed' = (Listed \cup {}) \ {}
        BY <4>1, CommitTable
      <4> QED BY <4>2
    <3> QED BY <2>1, <3>1 DEF Write, Stays, Tables, archiveVars, diskVars, Quiet
  <2>2. CASE UNCHANGED vars
    BY <1>1, <2>2 DEF vars, Stays, Tables, archiveVars
  <2> QED BY <1>7, <2>1, <2>2
<1>8. ~Restart
  BY DEF Restart, NoRestores, TypeOK
<1> QED BY <1>4, <1>5, <1>6, <1>7, <1>8 DEF Next

\* So there stays one database.
LEMMA QuietStep ==
  ASSUME NoRestores, TypeInv, Quiet, [Next]_vars
  PROVE  Quiet'
<1>1. ASSUME NEW h \in Handlers, NEW pc, pc \notin {"extract", "swap", "unwal"},
             NEW mine, NEW doomed, NEW victim, Hands(h, pc, mine, doomed, victim)
      PROVE  \A g \in Handlers : req'[g].target = 0 /\ req'[g].pc \notin {"extract", "swap", "unwal"}
  BY <1>1 DEF Hands, Quiet
<1>2. Stays => \A g \in Handlers : req'[g].target = 0 /\ req'[g].pc \notin {"extract", "swap", "unwal"}
  BY DEF Stays, Quiet
<1>3. \A g \in Handlers : req'[g].target = 0 /\ req'[g].pc \notin {"extract", "swap", "unwal"}
  BY <1>1, <1>2, StepSeen DEF Waits, Opens, Closes, Drops, Records, Lists, Picks, Removes, Unlists, Ends,
                            Answers
<1> QED BY <1>3, StepSeen DEF Quiet

-----------------------------------------------------------------------------
(* Every file has a row or a maker, and every row a file.                    *)

\* The archive of the request is being written, or written and not recorded.
Underway(h) == req[h].pc \in {"copy", "record"}

\* Numbers are of archives that were started, and a request has one from its start on.
InRange(h) ==
  /\ req[h].mine \in 0..last /\ req[h].doomed \subseteq 1..last
  /\ req[h].pc \in {"idle", "checkpoint", "open"} => req[h].mine = 0
  /\ Underway(h) \/ At(h, "list") => req[h].mine # 0

\* Two requests make two archives.
Apart(g, h) == req[g].mine # 0 => req[g].mine # req[h].mine

\* The archive that h makes has no row yet, so g is not deleting it.
Unlisted(h) == Underway(h) => req[h].mine \notin Listed

NotDoomed(g, h) ==
  Underway(h) => /\ req[h].mine \notin req[g].doomed
                 /\ At(g, "unlist") => req[g].victim # req[h].mine

\* The file of a row to be deleted is gone.
VictimGone(h) == At(h, "unlist") => req[h].victim \in (1..last) \ (files \cup partial)

\* Every file has a row or its maker.
FilesKnown ==
  /\ Listed \subseteq 1..last
  /\ \A h \in Handlers : At(h, "record") => req[h].mine \in files
  /\ \A a \in partial : \E h \in Handlers : At(h, "copy") /\ req[h].mine = a
  /\ \A a \in files : a \in Listed \/ \E h \in Handlers : Underway(h) /\ req[h].mine = a

\* Every archive has a row, or a maker that is its only one and whose archive nobody deletes.
Owned ==
  /\ \A h \in Handlers : InRange(h) /\ Unlisted(h) /\ VictimGone(h)
  /\ \A g, h \in Handlers : NotDoomed(g, h)
  /\ \A g \in Handlers : \A h \in Handlers \ {g} : Apart(g, h)
  /\ FilesKnown

\* Archives and requests by number.
LEMMA OwnedFacts ==
  ASSUME TypeInv
  PROVE  /\ last \in Nat /\ files \cup partial \subseteq 1..last
         /\ \A h \in Handlers : req[h].mine \in Nat /\ req[h].victim \in Nat
<1>1. \A h \in Handlers : req[h] \in Request
  BY DEF TypeInv, TypeOK
<1> QED BY <1>1, BackupAssumption DEF TypeInv, TypeOK, Numbered, Request

\* A new archive has a number no one has.
LEMMA OpensOwned ==
  ASSUME TypeInv, Owned, NEW h \in Handlers, Opens(h)
  PROVE  Owned'
<1>0. /\ last \in Nat /\ files \cup partial \subseteq 1..last
      /\ \A g \in Handlers : req[g].mine \in Nat /\ req[g].victim \in Nat
  BY OwnedFacts
<1>1. PICK n : n = last + 1
  OBVIOUS
<1>2. /\ last' = n /\ n \in Nat /\ n \notin 1..last /\ 1..n = (1..last) \cup {n} /\ n # 0 /\ 0..last \subseteq 0..n
      /\ files' = files /\ partial' = partial \cup {n} /\ Listed' = Listed
      /\ req'[h].pc = "copy" /\ req'[h].mine = n /\ req'[h].doomed = req[h].doomed
      /\ \A g \in Handlers \ {h} : req'[g] = req[g]
  BY <1>0, <1>1 DEF Opens, Hands, Tables
<1>3. \A g \in Handlers : InRange(g) /\ Unlisted(g) /\ VictimGone(g)
  BY DEF Owned
<1>4. \A g \in Handlers : n # req[g].mine /\ n \notin req[g].doomed /\ (At(g, "unlist") => req[g].victim # n)
  BY <1>0, <1>1, <1>2, <1>3 DEF InRange, VictimGone
<1>5. ASSUME NEW g \in Handlers PROVE (InRange(g) /\ Unlisted(g) /\ VictimGone(g))'
  <2>1. InRange(g)'
    BY <1>2, <1>3 DEF InRange, Underway, At
  <2>2. Unlisted(g)'
    BY <1>2, <1>3 DEF Unlisted, Underway, Owned, FilesKnown
  <2>3. VictimGone(g)'
    BY <1>2, <1>3, <1>4 DEF VictimGone, At
  <2> QED BY <2>1, <2>2, <2>3
<1>6. ASSUME NEW g \in Handlers, NEW k \in Handlers PROVE NotDoomed(g, k)'
  <2>1. NotDoomed(g, k)
    BY DEF Owned
  <2> QED BY <1>2, <1>4, <2>1 DEF NotDoomed, Underway, At
<1>7. ASSUME NEW g \in Handlers, NEW k \in Handlers \ {g} PROVE Apart(g, k)'
  <2>1. Apart(g, k)
    BY DEF Owned
  <2> QED BY <1>2, <1>4, <2>1 DEF Apart
<1>8. FilesKnown'
  <2>1. FilesKnown /\ ~At(h, "record") /\ ~At(h, "copy")
    BY DEF Owned, Opens, At
  <2>2. \A g \in Handlers : At(g, "record")' => g # h
    BY <1>2 DEF At
  <2>3. \A g \in Handlers \ {h} : At(g, "record")' = At(g, "record") /\ At(g, "copy")' = At(g, "copy")
                                   /\ Underway(g)' = Underway(g)
    BY <1>2 DEF At, Underway
  <2>4. At(h, "copy")'
    BY <1>2 DEF At
  <2>5. ~Underway(h)
    BY <2>1 DEF At, Underway
  <2> QED BY <1>2, <2>1, <2>2, <2>3, <2>4, <2>5 DEF FilesKnown
<1> QED BY <1>5, <1>6, <1>7, <1>8 DEF Owned

\* A finished archive is still its maker's.
LEMMA ClosesOwned ==
  ASSUME TypeInv, Owned, NEW h \in Handlers, Closes(h)
  PROVE  Owned'
<1>1. PICK m : m = req[h].mine
  OBVIOUS
<1>2. /\ last' = last /\ files' = files \cup {m} /\ partial' = partial \ {m} /\ Listed' = Listed
      /\ req[h].pc = "copy" /\ req'[h].pc = "record" /\ req'[h].mine = m /\ req'[h].doomed = req[h].doomed
      /\ \A g \in Handlers \ {h} : req'[g] = req[g]
  BY <1>1 DEF Closes, Hands, Tables, At
<1>3. \A g \in Handlers : InRange(g) /\ Unlisted(g) /\ VictimGone(g) /\ NotDoomed(g, h)
  BY DEF Owned
<1>4. m \in 1..last
  BY <1>1, <1>2 DEF TypeInv, Numbered
<1>5. ASSUME NEW g \in Handlers PROVE (InRange(g) /\ Unlisted(g) /\ VictimGone(g))'
  <2>1. InRange(g)' /\ Unlisted(g)'
    BY <1>1, <1>2, <1>3 DEF InRange, Unlisted, Underway, At
  <2>2. VictimGone(g)'
    BY <1>1, <1>2, <1>3 DEF VictimGone, NotDoomed, Underway, At
  <2> QED BY <2>1, <2>2
<1>6. ASSUME NEW g \in Handlers, NEW k \in Handlers PROVE NotDoomed(g, k)'
  <2>1. NotDoomed(g, k)
    BY DEF Owned
  <2> QED BY <1>1, <1>2, <2>1 DEF NotDoomed, Underway, At
<1>7. ASSUME NEW g \in Handlers, NEW k \in Handlers \ {g} PROVE Apart(g, k)'
  <2>1. Apart(g, k)
    BY DEF Owned
  <2> QED BY <1>1, <1>2, <2>1 DEF Apart
<1>8. FilesKnown'
  <2>1. FilesKnown
    BY DEF Owned
  <2>2. \A g \in Handlers \ {h} : /\ At(g, "record")' = At(g, "record") /\ At(g, "copy")' = At(g, "copy")
                                  /\ Underway(g)' = Underway(g)
    BY <1>2 DEF At, Underway
  <2>3. Underway(h)' /\ Underway(h)
    BY <1>2 DEF Underway
  <2>4. \A g \in Handlers : At(g, "record")' => req'[g].mine \in files'
    BY <1>2, <2>1, <2>2 DEF FilesKnown
  <2>5. \A a \in partial' : \E g \in Handlers : At(g, "copy")' /\ req'[g].mine = a
    BY <1>1, <1>2, <2>1, <2>2 DEF FilesKnown
  <2>6. \A a \in files' : a \in Listed' \/ \E g \in Handlers : Underway(g)' /\ req'[g].mine = a
    BY <1>1, <1>2, <2>1, <2>2, <2>3 DEF FilesKnown
  <2> QED BY <1>2, <2>1, <2>4, <2>5, <2>6 DEF FilesKnown
<1> QED BY <1>5, <1>6, <1>7, <1>8 DEF Owned

\* A request that is cut short takes its archive with it.
\* What is given up is removed.
LEMMA DropsOwned ==
  ASSUME TypeInv, Owned, NEW h \in Handlers, Drops(h)
  PROVE  Owned'
<1>0. last \in Nat
  BY OwnedFacts
<1>1. PICK m : m = req[h].mine
  OBVIOUS
<1>2. /\ last' = last /\ files' = files \ {m} /\ partial' = partial \ {m} /\ Listed' = Listed
      /\ req'[h].pc = "idle" /\ req'[h].mine = 0 /\ req'[h].doomed = {}
      /\ \A g \in Handlers \ {h} : req'[g] = req[g]
  BY <1>1 DEF Drops, Hands, Tables
<1>3. \A g \in Handlers : InRange(g) /\ Unlisted(g) /\ VictimGone(g)
  BY DEF Owned
<1>5. ASSUME NEW g \in Handlers PROVE (InRange(g) /\ Unlisted(g) /\ VictimGone(g))'
  BY <1>0, <1>2, <1>3 DEF InRange, Unlisted, VictimGone, Underway, At
<1>6. ASSUME NEW g \in Handlers, NEW k \in Handlers PROVE NotDoomed(g, k)'
  <2>1. NotDoomed(g, k)
    BY DEF Owned
  <2> QED BY <1>2, <2>1 DEF NotDoomed, Underway, At
<1>7. ASSUME NEW g \in Handlers, NEW k \in Handlers \ {g} PROVE Apart(g, k)'
  <2>1. Apart(g, k)
    BY DEF Owned
  <2> QED BY <1>2, <2>1 DEF Apart
<1>8. FilesKnown'
  <2>1. FilesKnown
    BY DEF Owned
  <2>2. \A g \in Handlers \ {h} : /\ At(g, "record")' = At(g, "record") /\ At(g, "copy")' = At(g, "copy")
                                  /\ Underway(g)' = Underway(g)
    BY <1>2 DEF At, Underway
  <2>3. ~At(h, "record")'
    BY <1>2 DEF At
  <2>4. \A g \in Handlers \ {h} : At(g, "record") => req[g].mine # m
    <3> SUFFICES ASSUME NEW g \in Handlers \ {h}, At(g, "record") PROVE req[g].mine # m
      OBVIOUS
    <3>1. Apart(g, h) /\ InRange(g)
      BY DEF Owned
    <3> QED BY <1>1, <3>1 DEF Apart, InRange, Underway, At
  <2>5. \A g \in Handlers : At(g, "record")' => req'[g].mine \in files'
    BY <1>2, <2>1, <2>2, <2>3, <2>4 DEF FilesKnown
  <2>6. \A a \in partial' : \E g \in Handlers : At(g, "copy")' /\ req'[g].mine = a
    BY <1>1, <1>2, <2>1, <2>2 DEF FilesKnown
  <2>7. \A a \in files' : a \in Listed' \/ \E g \in Handlers : Underway(g)' /\ req'[g].mine = a
    BY <1>1, <1>2, <2>1, <2>2 DEF FilesKnown
  <2> QED BY <1>2, <2>1, <2>5, <2>6, <2>7 DEF FilesKnown
<1> QED BY <1>5, <1>6, <1>7, <1>8 DEF Owned

\* An archive passes from its maker to its row.
LEMMA RecordsOwned ==
  ASSUME TypeInv, Owned, NEW h \in Handlers, Records(h)
  PROVE  Owned'
<1>1. PICK m : m = req[h].mine
  OBVIOUS
<1>2. /\ last' = last /\ files' = files /\ partial' = partial /\ Listed' = Listed \cup {m}
      /\ req[h].pc = "record" /\ req'[h].pc = "list" /\ req'[h].mine = m /\ req'[h].doomed = req[h].doomed
      /\ \A g \in Handlers \ {h} : req'[g] = req[g]
  BY <1>1 DEF Records, Hands, Tables, At
<1>3. \A g \in Handlers : InRange(g) /\ Unlisted(g) /\ VictimGone(g)
  BY DEF Owned
<1>4. m \in 1..last /\ \A g \in Handlers \ {h} : Underway(g) => req[g].mine # m
  <2>1. \A g \in Handlers \ {h} : Apart(g, h)
    BY DEF Owned
  <2> QED BY <1>1, <1>2, <1>3, <2>1 DEF TypeInv, Numbered, Apart, InRange
<1>5. ASSUME NEW g \in Handlers PROVE (InRange(g) /\ Unlisted(g) /\ VictimGone(g))'
  <2>1. InRange(g)' /\ VictimGone(g)'
    BY <1>1, <1>2, <1>3 DEF InRange, VictimGone, Underway, At
  <2>2. Unlisted(g)'
    BY <1>2, <1>3, <1>4 DEF Unlisted, Underway
  <2> QED BY <2>1, <2>2
<1>6. ASSUME NEW g \in Handlers, NEW k \in Handlers PROVE NotDoomed(g, k)'
  <2>1. NotDoomed(g, k)
    BY DEF Owned
  <2> QED BY <1>1, <1>2, <2>1 DEF NotDoomed, Underway, At
<1>7. ASSUME NEW g \in Handlers, NEW k \in Handlers \ {g} PROVE Apart(g, k)'
  <2>1. Apart(g, k)
    BY DEF Owned
  <2> QED BY <1>1, <1>2, <2>1 DEF Apart
<1>8. FilesKnown'
  <2>1. FilesKnown
    BY DEF Owned
  <2>2. \A g \in Handlers \ {h} : /\ At(g, "record")' = At(g, "record") /\ At(g, "copy")' = At(g, "copy")
                                  /\ Underway(g)' = Underway(g)
    BY <1>2 DEF At, Underway
  <2>3. ~At(h, "record")' /\ ~At(h, "copy")
    BY <1>2 DEF At
  <2>5. \A g \in Handlers : At(g, "record")' => req'[g].mine \in files'
    BY <1>2, <2>1, <2>2, <2>3 DEF FilesKnown
  <2>6. \A a \in partial' : \E g \in Handlers : At(g, "copy")' /\ req'[g].mine = a
    BY <1>1, <1>2, <2>1, <2>2, <2>3 DEF FilesKnown
  <2>7. \A a \in files' : a \in Listed' \/ \E g \in Handlers : Underway(g)' /\ req'[g].mine = a
    BY <1>1, <1>2, <2>1, <2>2 DEF FilesKnown
  <2> QED BY <1>2, <1>4, <2>1, <2>5, <2>6, <2>7 DEF FilesKnown
<1> QED BY <1>5, <1>6, <1>7, <1>8 DEF Owned

\* What a prune or a deletion does: it names rows, and removes first a file and then its row.
LEMMA DeletesOwned ==
  ASSUME TypeInv, Owned, NEW h \in Handlers,
         Lists(h) \/ Picks(h) \/ Removes(h) \/ Unlists(h) \/ Ends(h)
  PROVE  Owned'
<1>0. FilesKnown /\ \A g \in Handlers : InRange(g) /\ Unlisted(g) /\ VictimGone(g)
  BY DEF Owned
<1>1. PICK mine, doomed, victim, pc :
        /\ Hands(h, pc, mine, doomed, victim)
        /\ mine = req[h].mine /\ pc \in {"remove", "unlist", "answer"} /\ ~Underway(h)
        /\ \A a \in doomed : a \in req[h].doomed \/ a \in Listed
        /\ pc = "unlist" => victim \in req[h].doomed
  <2>1. CASE Lists(h)
    <3>1. PICK d \in Excess(Listed) : Hands(h, "remove", req[h].mine, d, req[h].victim)
      BY <2>1 DEF Lists
    <3>2. d \subseteq Listed
      BY DEF Excess
    <3> QED BY <2>1, <3>1, <3>2 DEF Lists, At, Underway
  <2>2. CASE Picks(h)
    <3>1. PICK a \in Listed : Hands(h, "remove", req[h].mine, {a}, req[h].victim)
      BY <2>2 DEF Picks
    <3> QED BY <2>2, <3>1 DEF Picks, At, Underway
  <2>3. CASE Removes(h)
    <3>1. PICK a \in req[h].doomed : Hands(h, "unlist", req[h].mine, req[h].doomed, a)
      BY <2>3 DEF Removes
    <3> QED BY <2>3, <3>1 DEF Removes, At, Underway
  <2>4. CASE Unlists(h)
    <3>1. Hands(h, "remove", req[h].mine, req[h].doomed \ {req[h].victim}, 0)
      BY <2>4 DEF Unlists
    <3> QED BY <2>4, <3>1 DEF Unlists, At, Underway
  <2>5. CASE Ends(h)
    <3>1. Hands(h, "answer", req[h].mine, {}, req[h].victim)
      BY <2>5 DEF Ends
    <3> QED BY <2>5, <3>1 DEF Ends, At, Underway
  <2> QED BY <2>1, <2>2, <2>3, <2>4, <2>5
<1>2. /\ req'[h].pc = pc /\ req'[h].mine = req[h].mine /\ req'[h].doomed = doomed /\ req'[h].victim = victim
      /\ \A g \in Handlers \ {h} : req'[g] = req[g]
  BY <1>1 DEF Hands
<1>3. /\ last' = last /\ partial' = partial /\ Listed' \subseteq Listed /\ files' \subseteq files
  BY DEF Lists, Picks, Removes, Unlists, Ends, Tables
<1>4. At(h, "unlist")' => victim \notin files'
  <2>1. CASE Removes(h)
    <3>1. PICK a \in req[h].doomed : Hands(h, "unlist", req[h].mine, req[h].doomed, a) /\ files' = files \ {a}
      BY <2>1 DEF Removes, Tables
    <3> QED BY <1>2, <3>1 DEF Hands
  <2>2. CASE ~Removes(h)
    BY <2>2 DEF Lists, Picks, Unlists, Ends, Hands, At
  <2> QED BY <2>1, <2>2
<1>5. \A k \in Handlers : Underway(k) => /\ req[k].mine \notin doomed
                                         /\ pc = "unlist" => req[k].mine # victim
  <2> SUFFICES ASSUME NEW k \in Handlers, Underway(k)
               PROVE  req[k].mine \notin doomed /\ (pc = "unlist" => req[k].mine # victim)
    OBVIOUS
  <2>1. NotDoomed(h, k) /\ Unlisted(k)
    BY DEF Owned
  <2> QED BY <1>1, <2>1 DEF NotDoomed, Unlisted
<1>6. ASSUME NEW g \in Handlers PROVE (InRange(g) /\ Unlisted(g) /\ VictimGone(g))'
  <2>1. InRange(g)'
    <3>1. CASE g = h
      <4>1. doomed \subseteq 1..last /\ req[h].mine \in 0..last
        BY <1>0, <1>1 DEF InRange, FilesKnown
      <4> QED BY <1>1, <1>2, <1>3, <3>1, <4>1 DEF InRange, Underway, At
    <3>2. CASE g # h
      BY <1>0, <1>2, <1>3, <3>2 DEF InRange, Underway, At
    <3> QED BY <3>1, <3>2
  <2>2. Unlisted(g)'
    BY <1>0, <1>1, <1>2, <1>3 DEF Unlisted, Underway
  <2>3. CASE g = h
    <3>1. At(h, "unlist")' => victim \in 1..last
      BY <1>0, <1>1, <1>2 DEF At, InRange
    <3>2. At(h, "unlist")' => victim \notin partial
      BY <1>0, <1>1, <1>2, <1>5 DEF At, FilesKnown, Underway
    <3> QED BY <1>2, <1>3, <1>4, <2>1, <2>2, <2>3, <3>1, <3>2 DEF VictimGone
  <2>4. CASE g # h
    BY <1>0, <1>2, <1>3, <2>1, <2>2, <2>4 DEF VictimGone, At
  <2> QED BY <2>3, <2>4
<1>7. ASSUME NEW g \in Handlers, NEW k \in Handlers PROVE NotDoomed(g, k)'
  <2>1. NotDoomed(g, k)
    BY DEF Owned
  <2>2. Underway(k)' => k # h /\ Underway(k)
    BY <1>1, <1>2 DEF Underway
  <2> QED BY <1>2, <1>5, <2>1, <2>2 DEF NotDoomed, At
<1>8. ASSUME NEW g \in Handlers, NEW k \in Handlers \ {g} PROVE Apart(g, k)'
  <2>1. Apart(g, k)
    BY DEF Owned
  <2> QED BY <1>2, <2>1 DEF Apart
<1>9. FilesKnown'
  <2>1. \A g \in Handlers : /\ At(g, "record")' <=> At(g, "record")
                            /\ At(g, "copy")' <=> At(g, "copy")
                            /\ Underway(g)' <=> Underway(g)
                            /\ req'[g].mine = req[g].mine
    BY <1>1, <1>2 DEF At, Underway
  <2>2. \A g \in Handlers : At(g, "record") => req[g].mine \in files'
    <3> SUFFICES ASSUME NEW g \in Handlers, At(g, "record") PROVE req[g].mine \in files'
      OBVIOUS
    <3>1. req[g].mine \in files /\ req[g].mine \notin req[h].doomed
      <4>1. NotDoomed(h, g)
        BY DEF Owned
      <4> QED BY <1>0, <4>1 DEF FilesKnown, NotDoomed, Underway, At
    <3> QED BY <3>1 DEF Lists, Picks, Removes, Unlists, Ends, Tables
  <2>3. \A a \in files' : a \in Listed' \/ \E g \in Handlers : Underway(g) /\ req[g].mine = a
    <3> SUFFICES ASSUME NEW a \in files', a \in Listed PROVE a \in Listed'
      BY <1>0, <1>3 DEF FilesKnown
    <3>1. CASE Unlists(h)
      <4>1. req[h].victim \notin files
        BY <1>0, <3>1 DEF Unlists, VictimGone
      <4> QED BY <1>3, <3>1, <4>1 DEF Unlists, Tables
    <3>2. CASE ~Unlists(h)
      BY <3>2 DEF Lists, Picks, Removes, Ends, Tables
    <3> QED BY <3>1, <3>2
  <2> QED BY <1>0, <1>3, <2>1, <2>2, <2>3 DEF FilesKnown
<1> QED BY <1>6, <1>7, <1>8, <1>9 DEF Owned

\* The other steps leave tables, files and archives as they are.
LEMMA RestOwned ==
  ASSUME TypeInv, Owned, (\E h \in Handlers : Waits(h) \/ Answers(h)) \/ Stays
  PROVE  Owned'
<1>1. Tables(files, partial, Listed, last)
  BY DEF Waits, Answers, Stays
<1>2. \A g \in Handlers : \/ req'[g] = req[g]
                          \/ /\ req[g].pc \in {"idle", "checkpoint"} /\ req'[g].pc \in {"checkpoint", "open"}
                             /\ req'[g].mine = req[g].mine /\ req'[g].doomed = req[g].doomed
                             /\ req'[g].victim = req[g].victim
                          \/ /\ req[g].pc = "answer" /\ req'[g].pc = "idle"
                             /\ req'[g].mine = 0 /\ req'[g].doomed = {}
  BY DEF Waits, Answers, Stays, Hands, At
<1>3. \A g \in Handlers : /\ At(g, "record")' <=> At(g, "record")
                          /\ At(g, "copy")' <=> At(g, "copy")
                          /\ At(g, "unlist")' <=> At(g, "unlist")
                          /\ At(g, "list")' <=> At(g, "list")
                          /\ Underway(g)' <=> Underway(g)
                          /\ Underway(g) \/ At(g, "list") \/ At(g, "unlist") => req'[g] = req[g]
  BY <1>2 DEF At, Underway
<1>4. ASSUME NEW g \in Handlers PROVE (InRange(g) /\ Unlisted(g) /\ VictimGone(g))'
  <2>1. InRange(g) /\ Unlisted(g) /\ VictimGone(g)
    BY DEF Owned
  <2>2. 0 \in 0..last
    BY OwnedFacts
  <2>3. InRange(g)'
    BY <1>1, <1>2, <1>3, <2>1, <2>2 DEF InRange, Tables
  <2> QED BY <1>1, <1>3, <2>1, <2>3 DEF Unlisted, VictimGone, Tables
<1>5. ASSUME NEW g \in Handlers, NEW k \in Handlers PROVE NotDoomed(g, k)'
  <2>1. NotDoomed(g, k)
    BY DEF Owned
  <2>2. req'[g].doomed \subseteq req[g].doomed
    BY <1>2
  <2> QED BY <1>3, <2>1, <2>2 DEF NotDoomed
<1>6. ASSUME NEW g \in Handlers, NEW k \in Handlers \ {g} PROVE Apart(g, k)'
  <2>1. Apart(g, k)
    BY DEF Owned
  <2> QED BY <1>2, <2>1 DEF Apart
<1>7. FilesKnown'
  <2>1. FilesKnown
    BY DEF Owned
  <2>2. files' = files /\ partial' = partial /\ Listed' = Listed /\ last' = last
    BY <1>1 DEF Tables
  <2>3. \A g \in Handlers : At(g, "record") \/ At(g, "copy") => req'[g].mine = req[g].mine
    BY <1>3 DEF Underway, At
  <2> QED BY <1>3, <2>1, <2>2, <2>3 DEF FilesKnown
<1> QED BY <1>4, <1>5, <1>6, <1>7 DEF Owned

\* No step, then, leaves a file that nothing knows of.
LEMMA OwnedStep ==
  ASSUME NoRestores, TypeInv, Quiet, Owned, [Next]_vars
  PROVE  Owned'
BY StepSeen, OpensOwned, ClosesOwned, DropsOwned, RecordsOwned, DeletesOwned, RestOwned

\* At first there is nothing to own.
LEMMA InitOwned == Init => Quiet /\ Owned
<1> SUFFICES ASSUME Init PROVE Quiet /\ Owned
  OBVIOUS
<1>1. /\ db = [s \in Side |-> Empty] /\ ~swapped /\ files = {} /\ partial = {} /\ last = 0
      /\ \A h \in Handlers : req[h] = Idle
  BY DEF Init
<1>2. Quiet /\ Listed = {}
  BY <1>1 DEF Quiet, Listed, Side, Empty, Idle
<1>3. \A h \in Handlers : InRange(h) /\ Unlisted(h) /\ VictimGone(h)
  BY <1>1 DEF InRange, Unlisted, VictimGone, Underway, At, Idle
<1>4. \A g, h \in Handlers : NotDoomed(g, h) /\ Apart(g, h)
  BY <1>1 DEF NotDoomed, Apart, Underway, At, Idle
<1>5. FilesKnown
  BY <1>1, <1>2 DEF FilesKnown, At, Idle
<1> QED BY <1>2, <1>3, <1>4, <1>5 DEF Owned

\* The inductive invariant of archives and their makers.
LEMMA OwnedHolds ==
  ASSUME NoRestores
  PROVE  Spec => [](TypeInv /\ Quiet /\ Owned)
<1>1. TypeInv /\ Quiet /\ [Next]_vars => Quiet'
  BY QuietStep
<1>2. TypeInv /\ Quiet /\ Owned /\ [Next]_vars => Owned'
  BY OwnedStep
<1> QED BY TypeInvHolds, InitOwned, <1>1, <1>2, PTL DEF Spec

\* A row without its file is about to go.
LEMMA ListedStep ==
  ASSUME NoRestores, TypeInv, Quiet, Owned, ListedHasFile, [Next]_vars
  PROVE  ListedHasFile'
<1> SUFFICES ASSUME NEW a \in Listed'
             PROVE  a \in files' \/ \E h \in Handlers : At(h, "unlist")' /\ req'[h].victim = a
  BY DEF ListedHasFile, Listed
<1>0. \A b \in Listed : b \in files \/ \E h \in Handlers : At(h, "unlist") /\ req[h].victim = b
  BY DEF ListedHasFile, Listed
<1>1. ASSUME NEW h \in Handlers, Waits(h) \/ Opens(h) \/ Lists(h) \/ Picks(h) \/ Ends(h) \/ Answers(h)
      PROVE  a \in files' \/ \E g \in Handlers : At(g, "unlist")' /\ req'[g].victim = a
  <2>1. Listed' = Listed /\ files' = files /\ ~At(h, "unlist") /\ \A g \in Handlers \ {h} : req'[g] = req[g]
    BY <1>1 DEF Waits, Opens, Lists, Picks, Ends, Answers, Tables, Hands, At
  <2> QED BY <1>0, <2>1 DEF At
<1>2. ASSUME NEW h \in Handlers, Closes(h) \/ Records(h)
      PROVE  a \in files' \/ \E g \in Handlers : At(g, "unlist")' /\ req'[g].victim = a
  <2>1. /\ ~At(h, "unlist") /\ files \subseteq files'
        /\ a \in Listed \/ (Records(h) /\ a = req[h].mine)
        /\ \A g \in Handlers \ {h} : req'[g] = req[g]
    BY <1>2 DEF Closes, Records, Tables, Hands, At
  <2>2. Records(h) => req[h].mine \in files
    BY DEF Records, Owned, FilesKnown
  <2> QED BY <1>0, <2>1, <2>2 DEF At
<1>3. ASSUME NEW h \in Handlers, Drops(h)
      PROVE  a \in files' \/ \E g \in Handlers : At(g, "unlist")' /\ req'[g].victim = a
  <2>1. /\ ~At(h, "unlist") /\ files' = files \ {req[h].mine} /\ Listed' = Listed
        /\ \A g \in Handlers \ {h} : req'[g] = req[g]
    BY <1>3 DEF Drops, Tables, Hands, At
  <2>2. req[h].mine \notin Listed
    <3>1. Unlisted(h) /\ InRange(h) /\ Listed \subseteq 1..last
      BY DEF Owned, FilesKnown
    <3>2. Underway(h) \/ req[h].mine = 0
      BY <1>3, <3>1 DEF Drops, Underway, InRange
    <3> QED BY <3>1, <3>2 DEF Unlisted
  <2> QED BY <1>0, <2>1, <2>2 DEF At
<1>4. ASSUME NEW h \in Handlers, Removes(h)
      PROVE  a \in files' \/ \E g \in Handlers : At(g, "unlist")' /\ req'[g].victim = a
  <2>1. PICK b \in req[h].doomed :
          /\ ~At(h, "unlist") /\ files' = files \ {b} /\ Listed' = Listed
          /\ req'[h].pc = "unlist" /\ req'[h].victim = b
          /\ \A g \in Handlers \ {h} : req'[g] = req[g]
    BY <1>4 DEF Removes, Tables, Hands, At
  <2> QED BY <1>0, <2>1 DEF At
<1>5. ASSUME NEW h \in Handlers, Unlists(h)
      PROVE  a \in files' \/ \E g \in Handlers : At(g, "unlist")' /\ req'[g].victim = a
  <2>1. /\ files' = files /\ Listed' = Listed \ {req[h].victim}
        /\ \A g \in Handlers \ {h} : req'[g] = req[g]
    BY <1>5 DEF Unlists, Tables, Hands
  <2> QED BY <1>0, <2>1 DEF At
<1>6. CASE Stays
  BY <1>0, <1>6 DEF Stays, Tables, At
<1> QED BY <1>1, <1>2, <1>3, <1>4, <1>5, <1>6, StepSeen

\* ListedHasFile: a row in the table has its file, or a request that has just removed
\* the file is about to delete the row, however many creates, prunes and deletes
\* overlap (Create records after it closes the file, prune and Delete remove the
\* file before the row).  A restore brings back an old table, and a stop between file
\* and row leaves one without the other.
THEOREM ListedHaveFiles ==
  ASSUME NoRestores
  PROVE  Spec => []ListedHasFile
<1>1. Init => ListedHasFile
  BY DEF Init, ListedHasFile, Side, Empty
<1>2. TypeInv /\ Quiet /\ Owned /\ ListedHasFile /\ [Next]_vars => ListedHasFile'
  BY ListedStep
<1> QED BY OwnedHolds, <1>1, <1>2, PTL DEF Spec

-----------------------------------------------------------------------------
(* Overlapping prunes.  Each spares at most Retention of the archives it     *)
(* listed, but others finish archives meanwhile: those belong to requests    *)
(* that have yet to prune, and when the last of these ends, what is there is *)
(* what it spared.  So prunes are ordered by when they listed the table, and *)
(* the account that Paid keeps says who pays for each file.                  *)

\* All there is in the backup directory.
Disk == files \cup partial

\* The archives a prune may keep.
Small == {K \in SUBSET Archives : Cardinality(K) <= Retention}

\* A request is at work on an archive of its own, or on the prune that follows.
Makes(h, a) == req[h].pc \in {"copy", "record", "list", "remove", "unlist"} /\ req[h].mine = a

Prunes(h) == req[h].mine # 0 /\ req[h].pc \in {"remove", "unlist"}

\* Who pays for each file.  keep[h] is what the prune of h spares; the prunes are ordered by
\* when they listed the table, and the later one listed the archive of the earlier.
Paid(keep, all, order, next) ==
  /\ keep \in [Handlers -> Small] /\ all \in Small
  /\ next \in Nat /\ order \in [Handlers -> Nat] /\ \A h \in Handlers : order[h] < next
  /\ \A a \in Disk : a \in all \/ \E g \in Handlers : Makes(g, a)
  /\ \A h \in Handlers : Prunes(h) =>
       \A a \in Disk \ req[h].doomed : a \in keep[h] \/ \E g \in Handlers \ {h} : Makes(g, a)
  /\ \A g, h \in Handlers : g # h /\ Prunes(g) /\ Prunes(h) =>
       /\ order[g] # order[h]
       /\ order[g] < order[h] /\ req[g].mine \in Disk => req[g].mine \in keep[h] \cup req[h].doomed

\* There is such an account, over all prunes that have run.
DiskPaid == \E keep, all, order, next : Paid(keep, all, order, next)

\* A step that adds no file, finishes no archive and begins no prune.
LEMMA PaidStays ==
  ASSUME NEW keep, NEW all, NEW order, NEW next, Paid(keep, all, order, next),
         Disk' \subseteq Disk,
         \A g \in Handlers : \A a \in Disk' : Makes(g, a) => Makes(g, a)',
         \A g \in Handlers : Prunes(g)' => /\ Prunes(g) /\ req'[g].mine = req[g].mine
                                           /\ Disk' \cap req[g].doomed \subseteq req'[g].doomed
  PROVE  DiskPaid'
<1>1. \A a \in Disk' : a \in all \/ \E g \in Handlers : Makes(g, a)'
  BY DEF Paid
<1>2. \A h \in Handlers : Prunes(h)' =>
        \A a \in Disk' \ req'[h].doomed : a \in keep[h] \/ \E g \in Handlers \ {h} : Makes(g, a)'
  BY DEF Paid
<1>3. \A g, h \in Handlers : g # h /\ Prunes(g)' /\ Prunes(h)' =>
        /\ order[g] # order[h]
        /\ order[g] < order[h] /\ req'[g].mine \in Disk' => req'[g].mine \in keep[h] \cup req'[h].doomed
  BY DEF Paid
<1>4. Paid(keep, all, order, next)'
  BY <1>1, <1>2, <1>3 DEF Paid
<1> QED BY <1>4 DEF DiskPaid

\* A new archive is its maker's.
LEMMA MakersPay ==
  ASSUME TypeInv, Owned, NEW keep, NEW all, NEW order, NEW next, Paid(keep, all, order, next),
         NEW h \in Handlers, Opens(h) \/ Closes(h)
  PROVE  DiskPaid'
<1>0. /\ last \in Nat /\ \A g \in Handlers : InRange(g)
      /\ \A g \in Handlers \ {h} : Apart(h, g)
  BY OwnedFacts DEF Owned
<1>1. PICK m : m = IF Opens(h) THEN last + 1 ELSE req[h].mine
  OBVIOUS
<1>2. /\ Disk' \subseteq Disk \cup {m}
      /\ req'[h].pc \in {"copy", "record"} /\ req'[h].mine = m
      /\ \A g \in Handlers \ {h} : req'[g] = req[g]
      /\ At(h, "open") \/ (At(h, "copy") /\ m = req[h].mine)
  BY <1>1 DEF Opens, Closes, Hands, Tables, Disk, At
<1>3. Makes(h, m)' /\ ~Prunes(h)' /\ \A a : Makes(h, a) => a = m
  BY <1>2 DEF Makes, Prunes, At
<1>4. \A g \in Handlers \ {h} : /\ \A a : Makes(g, a) <=> Makes(g, a)'
                                /\ Prunes(g)' <=> Prunes(g)
                                /\ req[g].mine # m
  <2>1. ASSUME NEW g \in Handlers \ {h} PROVE req[g].mine # m
    <3>1. CASE Opens(h)
      BY <1>0, <1>1, <3>1 DEF InRange
    <3>2. CASE ~Opens(h)
      <4>1. At(h, "copy") /\ m = req[h].mine
        BY <1>1, <3>2 DEF Closes
      <4> QED BY <1>0, <4>1 DEF Apart, InRange, Underway, At
    <3> QED BY <3>1, <3>2
  <2> QED BY <1>2, <2>1 DEF Makes, Prunes
<1>5. \A a \in Disk' : a \in all \/ \E g \in Handlers : Makes(g, a)'
  BY <1>2, <1>3, <1>4 DEF Paid
<1>6. \A k \in Handlers : Prunes(k)' =>
        \A a \in Disk' \ req'[k].doomed : a \in keep[k] \/ \E g \in Handlers \ {k} : Makes(g, a)'
  <2> SUFFICES ASSUME NEW k \in Handlers, Prunes(k)', NEW a \in Disk' \ req'[k].doomed
               PROVE  a \in keep[k] \/ \E g \in Handlers \ {k} : Makes(g, a)'
    OBVIOUS
  <2>1. k # h /\ Prunes(k) /\ req'[k] = req[k]
    BY <1>2, <1>3, <1>4
  <2>2. CASE a = m
    BY <1>3, <2>1, <2>2
  <2>3. CASE a # m
    <3>1. a \in keep[k] \/ \E g \in Handlers \ {k} : Makes(g, a)
      BY <1>2, <2>1, <2>3 DEF Paid
    <3> QED BY <1>3, <1>4, <2>3, <3>1
  <2> QED BY <2>2, <2>3
<1>7. \A g, k \in Handlers : g # k /\ Prunes(g)' /\ Prunes(k)' =>
        /\ order[g] # order[k]
        /\ order[g] < order[k] /\ req'[g].mine \in Disk' => req'[g].mine \in keep[k] \cup req'[k].doomed
  BY <1>2, <1>3, <1>4 DEF Paid
<1>8. Paid(keep, all, order, next)'
  BY <1>5, <1>6, <1>7 DEF Paid
<1> QED BY <1>8 DEF DiskPaid

\* A prune that lists the table spares what a small set can hold, and condemns the rest; it is
\* the latest.
LEMMA ListersPay ==
  ASSUME TypeInv, Owned, NEW keep, NEW all, NEW order, NEW next, Paid(keep, all, order, next),
         NEW h \in Handlers, Lists(h)
  PROVE  DiskPaid'
<1>0. FilesKnown /\ InRange(h) /\ next \in Nat
  BY DEF Owned, Paid
<1>1. PICK d \in Excess(Listed) : Hands(h, "remove", req[h].mine, d, req[h].victim)
  BY DEF Lists
<1>2. /\ Disk' = Disk /\ At(h, "list")
      /\ req'[h].pc = "remove" /\ req'[h].mine = req[h].mine /\ req'[h].doomed = d
      /\ \A g \in Handlers \ {h} : req'[g] = req[g]
  BY <1>1 DEF Lists, Hands, Tables, Disk
<1>3. \A g \in Handlers : \A a : Makes(g, a) <=> Makes(g, a)'
  BY <1>2 DEF Makes, At
<1>4. \A g \in Handlers \ {h} : Prunes(g)' <=> Prunes(g)
  BY <1>2 DEF Prunes
<1>5. PICK spared : spared = Listed \ d
  OBVIOUS
<1>6. spared \in Small
  <2>1. Listed \in SUBSET Archives
    BY DEF Listed, TypeInv, TypeOK, Content, Side
  <2>2. IsFiniteSet(Archives)
    BY FS_Interval, BackupAssumption DEF Archives
  <2>3. Cardinality(Listed) \in Nat
    BY <2>1, <2>2, FS_Subset, FS_CardinalityType
  <2>4. Cardinality(Listed \ d) <= Retention
    BY <2>3, BackupAssumption DEF Excess
  <2> QED BY <1>5, <2>1, <2>4 DEF Small
<1>7. \A a \in Disk : a \in Listed \/ \E g \in Handlers \ {h} : Underway(g) /\ req[g].mine = a
  BY <1>0, <1>2 DEF Disk, FilesKnown, Underway, At
<1> DEFINE keeps == [keep EXCEPT ![h] = spared]
           orders == [order EXCEPT ![h] = next]
<1>8. /\ keeps \in [Handlers -> Small] /\ keeps[h] = spared /\ \A g \in Handlers \ {h} : keeps[g] = keep[g]
      /\ orders \in [Handlers -> Nat] /\ orders[h] = next /\ \A g \in Handlers \ {h} : orders[g] = order[g]
  BY <1>6 DEF Paid
<1>9. next + 1 \in Nat /\ \A g \in Handlers : orders[g] < next + 1
  BY <1>0, <1>8 DEF Paid
<1> HIDE DEF keeps, orders
<1>10. \A a \in Disk' : a \in all \/ \E g \in Handlers : Makes(g, a)'
  BY <1>2, <1>3 DEF Paid
<1>11. \A k \in Handlers : Prunes(k)' =>
         \A a \in Disk' \ req'[k].doomed : a \in keeps[k] \/ \E g \in Handlers \ {k} : Makes(g, a)'
  <2> SUFFICES ASSUME NEW k \in Handlers, Prunes(k)', NEW a \in Disk' \ req'[k].doomed
               PROVE  a \in keeps[k] \/ \E g \in Handlers \ {k} : Makes(g, a)'
    OBVIOUS
  <2>1. CASE k = h
    <3>1. a \in Disk /\ a \notin d
      BY <1>2, <2>1
    <3>2. CASE a \in Listed
      BY <1>5, <1>8, <2>1, <3>1, <3>2
    <3>3. CASE \E g \in Handlers \ {h} : Underway(g) /\ req[g].mine = a
      BY <1>3, <2>1, <3>3 DEF Makes, Underway
    <3> QED BY <1>7, <3>1, <3>2, <3>3
  <2>2. CASE k # h
    <3>1. a \in keep[k] \/ \E g \in Handlers \ {k} : Makes(g, a)
      BY <1>2, <1>4, <2>2 DEF Paid
    <3> QED BY <1>3, <1>8, <2>2, <3>1
  <2> QED BY <2>1, <2>2
<1>12. ASSUME NEW g \in Handlers, NEW k \in Handlers, g # k, Prunes(g)', Prunes(k)'
       PROVE  /\ orders[g] # orders[k]
              /\ orders[g] < orders[k] /\ req'[g].mine \in Disk'
                   => req'[g].mine \in keeps[k] \cup req'[k].doomed
  <2>1. CASE k = h
    <3>1. Prunes(g) /\ req'[g] = req[g] /\ order[g] < next /\ order[g] \in Nat
      BY <1>2, <1>4, <1>12, <2>1 DEF Paid
    <3>2. req[g].mine \in Disk => req[g].mine \in Listed
      <4> SUFFICES ASSUME req[g].mine \in Disk, NEW j \in Handlers, Underway(j), req[j].mine = req[g].mine
                   PROVE  FALSE
        BY <1>7
      <4>1. j # g /\ req[g].mine # 0
        BY <3>1 DEF Prunes, Underway
      <4> QED BY <4>1 DEF Owned, Apart
    <3> QED BY <1>0, <1>2, <1>5, <1>8, <1>12, <2>1, <3>1, <3>2
  <2>2. CASE g = h
    <3>1. order[k] < next /\ order[k] \in Nat /\ orders[k] = order[k] /\ orders[g] = next
      BY <1>8, <1>12, <2>2 DEF Paid
    <3> QED BY <1>0, <3>1
  <2>3. CASE g # h /\ k # h
    BY <1>2, <1>4, <1>8, <1>12, <2>3 DEF Paid
  <2> QED BY <2>1, <2>2, <2>3
<1>13. Paid(keeps, all, orders, next + 1)'
  <2>1. all \in Small
    BY DEF Paid
  <2> QED BY <1>8, <1>9, <1>10, <1>11, <1>12, <2>1 DEF Paid
<1> QED BY <1>13 DEF DiskPaid

\* A prune that ends leaves what it spared and what others make; those that listed before it are
\* covered by that.
LEMMA EndersPay ==
  ASSUME TypeInv, Owned, NEW keep, NEW all, NEW order, NEW next, Paid(keep, all, order, next),
         NEW h \in Handlers, Ends(h), req[h].mine # 0
  PROVE  DiskPaid'
<1>1. /\ Disk' = Disk /\ Prunes(h) /\ req[h].doomed = {}
      /\ req'[h].pc = "answer" /\ req'[h].mine = req[h].mine
      /\ \A g \in Handlers \ {h} : req'[g] = req[g]
  BY DEF Ends, Hands, Tables, Disk, Prunes, At
<1>2. \A g \in Handlers : Prunes(g)' => g # h /\ Prunes(g) /\ req'[g] = req[g]
  BY <1>1 DEF Prunes
<1>3. \A g \in Handlers \ {h} : \A a : Makes(g, a) => Makes(g, a)'
  BY <1>1 DEF Makes
<1>4. /\ \A g \in Handlers : order[g] \in Nat
      /\ \A g, k \in Handlers : g # k /\ Prunes(g) /\ Prunes(k) =>
           /\ order[g] # order[k]
           /\ order[g] < order[k] /\ req[g].mine \in Disk => req[g].mine \in keep[k] \cup req[k].doomed
  BY DEF Paid
<1> DEFINE keeps == [g \in Handlers |-> IF order[g] < order[h] THEN keep[h] ELSE keep[g]]
<1>5. /\ keeps \in [Handlers -> Small] /\ keep[h] \in Small
      /\ \A g \in Handlers : keeps[g] = IF order[g] < order[h] THEN keep[h] ELSE keep[g]
  BY DEF Paid
<1> HIDE DEF keeps
<1>6. \A a \in Disk : a \in keep[h] \/ \E g \in Handlers \ {h} : Makes(g, a)
  BY <1>1 DEF Paid
<1>7. \A a \in Disk' : a \in keep[h] \/ \E g \in Handlers : Makes(g, a)'
  BY <1>1, <1>3, <1>6
<1>8. \A k \in Handlers : Prunes(k)' =>
        \A a \in Disk' \ req'[k].doomed : a \in keeps[k] \/ \E g \in Handlers \ {k} : Makes(g, a)'
  <2> SUFFICES ASSUME NEW k \in Handlers, Prunes(k)', NEW a \in Disk' \ req'[k].doomed
               PROVE  a \in keeps[k] \/ \E g \in Handlers \ {k} : Makes(g, a)'
    OBVIOUS
  <2>0. /\ k # h /\ Prunes(k) /\ req'[k] = req[k] /\ a \in Disk /\ a \notin req[k].doomed
        /\ order[k] # order[h] /\ order[k] \in Nat /\ order[h] \in Nat
    BY <1>1, <1>2, <1>4
  <2>1. CASE order[k] < order[h]
    <3>1. keeps[k] = keep[h]
      BY <1>5, <2>1
    <3>2. req[k].mine \in Disk => req[k].mine \in keep[h]
      BY <1>1, <1>4, <2>0, <2>1
    <3>3. Makes(k, a) => a \in keep[h]
      BY <2>0, <3>2 DEF Makes
    <3> QED BY <1>3, <1>6, <2>0, <3>1, <3>3
  <2>2. CASE order[h] < order[k]
    <3>1. keeps[k] = keep[k]
      BY <1>5, <2>0, <2>2
    <3>2. req[h].mine \in Disk => req[h].mine \in keep[k] \cup req[k].doomed
      BY <1>1, <1>4, <2>0, <2>2
    <3>3. a \in keep[k] \/ \E g \in Handlers \ {k} : Makes(g, a)
      BY <2>0 DEF Paid
    <3>4. Makes(h, a) => a \in keep[k]
      BY <2>0, <3>2 DEF Makes
    <3> QED BY <1>3, <2>0, <3>1, <3>3, <3>4
  <2> QED BY <2>0, <2>1, <2>2
<1>9. ASSUME NEW g \in Handlers, NEW k \in Handlers, g # k, Prunes(g)', Prunes(k)'
      PROVE  /\ order[g] # order[k]
             /\ order[g] < order[k] /\ req'[g].mine \in Disk'
                  => req'[g].mine \in keeps[k] \cup req'[k].doomed
  <2>0. /\ g # h /\ k # h /\ Prunes(g) /\ Prunes(k) /\ req'[g] = req[g] /\ req'[k] = req[k]
        /\ order[g] \in Nat /\ order[k] \in Nat /\ order[h] \in Nat
    BY <1>2, <1>9, <1>4
  <2>1. /\ order[g] # order[k]
        /\ order[g] < order[k] /\ req[g].mine \in Disk => req[g].mine \in keep[k] \cup req[k].doomed
        /\ order[g] < order[h] /\ req[g].mine \in Disk => req[g].mine \in keep[h]
    BY <1>1, <1>9, <1>4, <2>0
  <2>2. order[g] < order[k] /\ order[k] < order[h] => order[g] < order[h]
    BY <2>0
  <2> QED BY <1>1, <1>5, <2>0, <2>1, <2>2
<1>10. Paid(keeps, keep[h], order, next)'
  <2>1. next \in Nat /\ order \in [Handlers -> Nat] /\ \A g \in Handlers : order[g] < next
    BY DEF Paid
  <2> QED BY <1>5, <1>7, <1>8, <1>9, <2>1 DEF Paid
<1> QED BY <1>10 DEF DiskPaid

\* All other steps.
LEMMA OthersPay ==
  ASSUME TypeInv, Owned, NEW keep, NEW all, NEW order, NEW next, Paid(keep, all, order, next),
         NEW h \in Handlers,
         \/ Waits(h) \/ Drops(h) \/ Records(h) \/ Picks(h) \/ Removes(h) \/ Unlists(h) \/ Answers(h)
         \/ Ends(h) /\ req[h].mine = 0
  PROVE  DiskPaid'
<1>0. InRange(h) /\ VictimGone(h) /\ 0 \notin Disk
  BY OwnedFacts DEF Owned, Disk
<1>1. Disk' \subseteq Disk /\ \A g \in Handlers \ {h} : req'[g] = req[g]
  BY DEF Waits, Drops, Records, Picks, Removes, Unlists, Answers, Ends, Tables, Hands, Disk
<1>2. \A a \in Disk' : Makes(h, a) => Makes(h, a)'
  <2>1. CASE Drops(h)
    <3>1. req[h].mine \notin Disk'
      BY <2>1 DEF Drops, Tables, Disk
    <3> QED BY <3>1 DEF Makes
  <2>2. CASE Ends(h) /\ req[h].mine = 0
    BY <1>0, <1>1, <2>2 DEF Makes
  <2>3. CASE Waits(h) \/ Picks(h) \/ Answers(h)
    BY <2>3 DEF Waits, Picks, Answers, At, Makes
  <2>4. CASE Records(h) \/ Removes(h) \/ Unlists(h)
    BY <2>4 DEF Records, Removes, Unlists, At, Hands, Makes
  <2> QED BY <2>1, <2>2, <2>3, <2>4
<1>3. Prunes(h)' => /\ Prunes(h) /\ req'[h].mine = req[h].mine
                    /\ Disk' \cap req[h].doomed \subseteq req'[h].doomed
  <2>1. CASE Picks(h)
    BY <1>0, <2>1 DEF Picks, Hands, At, InRange, Prunes
  <2>2. CASE Unlists(h)
    <3>1. req[h].victim \notin Disk
      BY <1>0, <2>2 DEF Unlists, VictimGone, Disk
    <3> QED BY <1>1, <2>2, <3>1 DEF Unlists, Hands, At, Prunes
  <2>3. CASE Removes(h)
    BY <2>3 DEF Removes, Hands, At, Prunes
  <2>4. CASE Waits(h) \/ Drops(h) \/ Records(h) \/ Answers(h) \/ Ends(h)
    BY <2>4 DEF Waits, Drops, Records, Answers, Ends, Hands, Prunes
  <2> QED BY <2>1, <2>2, <2>3, <2>4
<1>4. \A g \in Handlers : \A a \in Disk' : Makes(g, a) => Makes(g, a)'
  BY <1>1, <1>2 DEF Makes
<1>5. \A g \in Handlers : Prunes(g)' => /\ Prunes(g) /\ req'[g].mine = req[g].mine
                                        /\ Disk' \cap req[g].doomed \subseteq req'[g].doomed
  BY <1>1, <1>3 DEF Prunes
<1> QED BY <1>1, <1>4, <1>5, PaidStays

\* So no step leaves a file that nobody pays for.
LEMMA DiskPaidStep ==
  ASSUME NoRestores, TypeInv, Quiet, Owned, DiskPaid, [Next]_vars
  PROVE  DiskPaid'
<1>1. PICK keep, all, order, next : Paid(keep, all, order, next)
  BY DEF DiskPaid
<1>2. ASSUME NEW h \in Handlers, Opens(h) \/ Closes(h) PROVE DiskPaid'
  BY <1>1, <1>2, MakersPay
<1>3. ASSUME NEW h \in Handlers, Lists(h) PROVE DiskPaid'
  BY <1>1, <1>3, ListersPay
<1>4. ASSUME NEW h \in Handlers, Ends(h), req[h].mine # 0 PROVE DiskPaid'
  BY <1>1, <1>4, EndersPay
<1>5. ASSUME NEW h \in Handlers,
             \/ Waits(h) \/ Drops(h) \/ Records(h) \/ Picks(h) \/ Removes(h) \/ Unlists(h) \/ Answers(h)
             \/ Ends(h) /\ req[h].mine = 0
      PROVE  DiskPaid'
  BY <1>1, <1>5, OthersPay
<1>6. CASE Stays
  BY <1>1, <1>6, PaidStays DEF Stays, Tables, Disk, Makes, Prunes
<1> QED BY <1>2, <1>3, <1>4, <1>5, <1>6, StepSeen

\* An empty directory costs nothing.
LEMMA InitPaid == Init => DiskPaid
<1> SUFFICES ASSUME Init PROVE DiskPaid
  OBVIOUS
<1>1. {} \in Small
  BY FS_EmptySet, BackupAssumption DEF Small
<1>2. Disk = {} /\ \A h \in Handlers : ~Prunes(h)
  BY DEF Init, Disk, Prunes, Idle
<1> DEFINE keep == [h \in Handlers |-> {}]
           order == [h \in Handlers |-> 0]
<1>3. keep \in [Handlers -> Small] /\ order \in [Handlers -> Nat] /\ \A h \in Handlers : order[h] < 1
  BY <1>1
<1> HIDE DEF keep, order
<1>4. Paid(keep, {}, order, 1)
  BY <1>1, <1>2, <1>3 DEF Paid
<1> QED BY <1>4 DEF DiskPaid

\* Then all files are those the latest prune kept, and at most one per request.
LEMMA PaidIsBounded ==
  ASSUME IsFiniteSet(Handlers), DiskPaid
  PROVE  DiskBounded
<1>1. PICK keep, all, order, next : Paid(keep, all, order, next)
  BY DEF DiskPaid
<1> DEFINE own == [h \in Handlers |-> req[h].mine]
           owned == {req[h].mine : h \in Handlers}
<1>2. own \in Surjection(Handlers, owned)
  BY DEF Surjection
<1>3. IsFiniteSet(owned) /\ Cardinality(owned) <= Cardinality(Handlers)
  <2> HIDE DEF own, owned
  <2> QED BY <1>2, FS_Surjection
<1>4. IsFiniteSet(all) /\ Cardinality(all) <= Retention
  <2>1. IsFiniteSet(Archives)
    BY FS_Interval, BackupAssumption DEF Archives
  <2> QED BY <1>1, <2>1, FS_Subset DEF Paid, Small
<1>5. Disk \subseteq all \cup owned
  BY <1>1 DEF Paid, Makes
<1> HIDE DEF own, owned
<1>6. IsFiniteSet(all \cup owned) /\ Cardinality(all \cup owned) <= Cardinality(all) + Cardinality(owned)
  <2>1. /\ IsFiniteSet(all \cup owned)
        /\ Cardinality(all \cup owned) = Cardinality(all) + Cardinality(owned) - Cardinality(all \cap owned)
    BY <1>3, <1>4, FS_Union
  <2>2. IsFiniteSet(all \cap owned)
    BY <1>4, FS_Subset
  <2>3. Cardinality(all) \in Nat /\ Cardinality(owned) \in Nat /\ Cardinality(all \cap owned) \in Nat
    BY <1>3, <1>4, <2>2, FS_CardinalityType
  <2> QED BY <2>1, <2>3
<1>7. Cardinality(Disk) <= Cardinality(all \cup owned)
  BY <1>5, <1>6, FS_Subset
<1>8. /\ Cardinality(Disk) \in Nat /\ Cardinality(all) \in Nat /\ Cardinality(owned) \in Nat
      /\ Cardinality(Handlers) \in Nat /\ Retention \in Nat /\ Cardinality(all \cup owned) \in Nat
  BY <1>3, <1>4, <1>5, <1>6, FS_Subset, FS_CardinalityType, BackupAssumption
<1> QED BY <1>3, <1>4, <1>6, <1>7, <1>8 DEF DiskBounded, Disk

\* DiskBounded: the backup directory never holds more than the retention limit and
\* one archive per request, however many creates, prunes and deletes overlap, each
\* pruning by a table that others have changed since (List, then RemoveFile one by
\* one).  A stop between file and row would leave files that no prune ever finds.
THEOREM DiskIsBounded ==
  ASSUME NoRestores, IsFiniteSet(Handlers)
  PROVE  Spec => []DiskBounded
<1>1. TypeInv /\ Quiet /\ Owned /\ DiskPaid /\ [Next]_vars => DiskPaid'
  BY DiskPaidStep
<1>2. DiskPaid => DiskBounded
  BY PaidIsBounded
<1> QED BY OwnedHolds, InitPaid, <1>1, <1>2, PTL DEF Spec
=============================================================================
