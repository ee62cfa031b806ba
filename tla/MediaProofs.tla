---------------------------- MODULE MediaProofs -----------------------------
(***************************************************************************)
(* Theorems about the files and rows of the media library, for any number  *)
(* of overlapping uploads, deletions, sweeps and restarts.                 *)
(***************************************************************************)
EXTENDS Media, WellFoundedInduction, TLAPS

\* File x belongs to item n; upload h holds it.
Uses(n, x) == Has(n) /\ (x = n \/ x = rows[n].thumb)
Holds(h, x) == Uploading(h) /\ (x = req[h].file \/ x = req[h].thumb)

\* Two items share no file, and every file is there.
RowsApart ==
  /\ \A m, n, x \in Names : Uses(m, x) /\ Uses(n, x) => m = n
  /\ \A n, x \in Names : Uses(n, x) => x \in disk

\* What an upload holds is on disk, young, and nobody else's.
UploadsApart ==
  \A h \in Handlers, x \in Names : Holds(h, x) =>
    /\ x \in disk /\ age[x] <= Patience
    /\ \A n \in Names : ~Uses(n, x)
    /\ \A g \in Handlers \ {h} : x # req[g].file /\ x # req[g].thumb
    /\ \A g \in Handlers : x # req[g].parent /\ x \notin req[g].todo
    /\ x \notin sweep.old

\* Where a request is, and what it then knows: the parent of a page is a PDF, what a PDF
\* is converted to are images, and an idle request remembers nothing.
Shaped(r) ==
  /\ r.parent # None /\ Has(r.parent) => rows[r.parent].kind = "pdf"
  /\ r.pc \in {"copy", "thumb", "insert"} => /\ r.file \in Names /\ r.kind # "none"
                                             /\ r.parent # None => r.kind = "image"
  /\ r.pc = "mark" => /\ r.file \in Names /\ r.parent \in Names
                      /\ Has(r.file) => rows[r.file].kind = "image"
  /\ r.pc \in {"check", "list", "delete"} => r.file \in Names
  /\ r.pc = "idle" => r = Idle
  /\ r.pc # "insert" => r.thumb = None
  /\ r.pc = "convert" => r.todo = {}

PagesOfPdfs ==
  /\ \A n \in Names : rows[n].parent # None => rows[rows[n].parent].kind = "pdf"
  /\ \A h \in Handlers : Shaped(req[h])
  /\ \A g, h \in Handlers : At(g, "mark") /\ At(h, "mark") /\ req[g].file = req[h].file => g = h

\* The files that a deletion listed are those of rows that it deletes.
ListsClear ==
  \A h \in Handlers : \A x \in req[h].todo :
    /\ req[h].pc \in {"delete", "remove"}
    /\ \A n \in Names : Uses(n, x) => At(h, "delete") /\ (n = req[h].file \/ rows[n].parent = req[h].file)

\* What a sweep is going to remove belongs to no item: the sweep knows every file of an
\* item, or the file is too young.
SweepClear ==
  /\ \A n, x \in Names : Uses(n, x) => x \notin sweep.old
  /\ sweep.pc = "thumbs" => \A n \in Names : Has(n) => n \in sweep.known \/ age[n] <= Patience
  /\ sweep.pc = "cutoff" => \A n, x \in Names : Uses(n, x) => x \in sweep.known \/ age[x] <= Patience

MediaInv == TypeOK /\ RowsApart /\ UploadsApart /\ PagesOfPdfs /\ ListsClear /\ SweepClear
-----------------------------------------------------------------------------
(* What the operators do                                                   *)

\* What nothing mentions.
LEMMA FreeApart ==
  ASSUME NEW x \in Free
  PROVE  /\ x \in Names /\ x \notin disk /\ x \notin sweep.old
         /\ \A n \in Names : ~Uses(n, x)
         /\ \A h \in Handlers : /\ x # req[h].file /\ x # req[h].thumb /\ x # req[h].parent
                                /\ x \notin req[h].todo
<1>1. x \in Names /\ x \notin Mentioned
  BY DEF Free
<1>2. x # None
  BY <1>1, MediaAssumption DEF None
<1> QED BY <1>1, <1>2 DEF Mentioned, Files, Uses

\* A name is found as long as there is one.
LEMMA StoredNameFree == Free # {} => StoredName \in Free
<1> SUFFICES ASSUME Free # {} PROVE StoredName \in Free
  OBVIOUS
<1>1. Free \subseteq Nat
  BY MediaAssumption DEF Free
<1> DEFINE R == OpToRel(<, Nat)
<1>2. IsWellFoundedOn(R, Nat)
  BY NatLessThanWellFounded
<1> HIDE DEF R
<1>3. \E m \in Free : \A y \in Free : ~(<<y, m>> \in R)
  BY <1>1, <1>2, WFMin
<1>4. PICK m \in Free : \A y \in Free : ~(<<y, m>> \in R)
  BY <1>3
<1>5. \A y \in Free : y < m => <<y, m>> \in R
  BY <1>1 DEF R, OpToRel
<1>6. \A y \in Free : m <= y
  <2> TAKE y \in Free
  <2>1. y \in Nat /\ m \in Nat /\ ~(y < m)
    BY <1>1, <1>4, <1>5
  <2> QED BY <2>1
<1> QED BY <1>6 DEF StoredName

LEMMA WrittenFile ==
  ASSUME TypeOK, NEW n \in Names, Written(n)
  PROVE  /\ disk' \in SUBSET Names /\ age' \in [Names -> 0..MinAge]
         /\ n \in disk' /\ age'[n] <= Patience
         /\ \A x \in Names : (x \in disk => x \in disk') /\ age'[x] <= age[x]
<1>1. /\ disk' = disk \cup {n} /\ age' = [age EXCEPT ![n] = 0]
      /\ disk \in SUBSET Names /\ age \in [Names -> 0..MinAge]
  BY DEF TypeOK, Written
<1> QED BY <1>1, MediaAssumption

LEMMA RemovedFiles ==
  ASSUME TypeOK, NEW S, Removed(S)
  PROVE  /\ disk' \in SUBSET Names /\ age' \in [Names -> 0..MinAge]
         /\ \A x \in Names : (x \in disk \ S => x \in disk') /\ age'[x] <= age[x]
<1>1. /\ disk' = disk \ S /\ age' = [n \in Names |-> IF n \in S THEN 0 ELSE age[n]]
      /\ disk \in SUBSET Names /\ age \in [Names -> 0..MinAge]
  BY DEF TypeOK, Removed
<1>2. \A n \in Names : age'[n] \in 0..MinAge /\ age'[n] <= age[n]
  BY <1>1, MediaAssumption
<1>3. age' \in [Names -> 0..MinAge]
  BY <1>1, <1>2
<1> QED BY <1>1, <1>2, <1>3

\* The next place of a request.
LEMMA MovedRequest ==
  ASSUME TypeOK, NEW h \in Handlers, NEW r \in Request, Become(h, r)
  PROVE  req' \in [Handlers -> Request] /\ req'[h] = r /\ \A g \in Handlers \ {h} : req'[g] = req[g]
BY DEF TypeOK, Become

LEMMA IdleShaped == Idle \in Request /\ Shaped(Idle) /\ Idle.todo = {} /\ Idle.file = None /\ Idle.parent = None
                    /\ Idle.thumb = None /\ Idle.pc = "idle"
BY MediaAssumption DEF Idle, Request, Shaped, None

-----------------------------------------------------------------------------
(* Steps of one request that change no row                                 *)

\* A request may take a name that nothing mentions and remove what belongs to nobody
\* else, and the rest of the invariant is none of its business.
LEMMA RequestStep ==
  ASSUME MediaInv, NEW h \in Handlers, NEW r \in Request, Become(h, r),
         UNCHANGED <<rows, scenes, sweep, fixed>>,
         disk' \in SUBSET Names, age' \in [Names -> 0..MinAge],
         Shaped(r), r.pc # "mark",
         r.file \in {req[h].file, None} \cup Free \/ Has(r.file),
         r.thumb \in {req[h].thumb, None} \cup Free,
         r.parent \in {req[h].parent, None},
         \A x \in Names :
           /\ r.pc \in {"copy", "thumb", "insert"} /\ x \in {r.file, r.thumb} =>
                (Holds(h, x) \/ x \in Free) /\ x \in disk' /\ age'[x] <= Patience
           /\ x \in disk /\ x \notin disk' =>
                (\A n \in Names : ~Uses(n, x)) /\ \A g \in Handlers \ {h} : ~Holds(g, x)
           /\ age'[x] <= age[x],
         \A x \in r.todo :
           /\ x \in req[h].todo \/ \E n \in Names : Uses(n, x)
           /\ r.pc \in {"delete", "remove"}
           /\ \A n \in Names : Uses(n, x) => r.pc = "delete" /\ (n = r.file \/ rows[n].parent = r.file)
  PROVE  MediaInv'
<1>1. /\ req' \in [Handlers -> Request] /\ req'[h] = r /\ \A g \in Handlers \ {h} : req'[g] = req[g]
      /\ \A x, n : Uses(n, x)' <=> Uses(n, x)
      /\ \A g \in Handlers \ {h} : \A x : Holds(g, x)' <=> Holds(g, x)
      /\ \A x : Holds(h, x)' <=> r.pc \in {"copy", "thumb", "insert"} /\ x \in {r.file, r.thumb}
  <2>1. req' \in [Handlers -> Request] /\ req'[h] = r /\ \A g \in Handlers \ {h} : req'[g] = req[g]
    BY MovedRequest DEF MediaInv
  <2> QED BY <2>1 DEF Uses, Has, Holds, Uploading
<1>2. TypeOK'
  BY <1>1 DEF MediaInv, TypeOK, Has, fixed
<1>3. RowsApart'
  BY <1>1 DEF MediaInv, RowsApart
<1>4. UploadsApart'
  <2> SUFFICES ASSUME NEW k \in Handlers, NEW x \in Names, Holds(k, x)'
               PROVE  /\ x \in disk' /\ age'[x] <= Patience
                      /\ \A n \in Names : ~Uses(n, x)'
                      /\ \A g \in Handlers \ {k} : x # req'[g].file /\ x # req'[g].thumb
                      /\ \A g \in Handlers : x # req'[g].parent /\ x \notin req'[g].todo
                      /\ x \notin sweep.old
    BY DEF UploadsApart
  <2>1. x # None
    BY MediaAssumption DEF None
  <2>2. CASE k # h
    <3>1. Holds(k, x) /\ x \in disk /\ x \notin Free
      BY <1>1, <2>2, FreeApart DEF MediaInv, UploadsApart
    <3>2. /\ x \in disk' /\ age[x] <= Patience /\ age'[x] <= age[x] /\ age[x] \in Int /\ age'[x] \in Int
          /\ \A n \in Names : ~Uses(n, x)
          /\ \A g \in Handlers \ {k} : x # req[g].file /\ x # req[g].thumb
          /\ \A g \in Handlers : x # req[g].parent /\ x \notin req[g].todo
          /\ x \notin sweep.old
      BY <2>2, <3>1 DEF MediaInv, UploadsApart, TypeOK
    <3>3. age'[x] <= Patience
      BY <3>2, MediaAssumption
    <3>4. x # r.file /\ x # r.thumb /\ x # r.parent /\ x \notin r.todo
      BY <2>1, <2>2, <3>1, <3>2 DEF Uses
    <3> QED BY <1>1, <3>2, <3>3, <3>4
  <2>3. CASE k = h
    <3>1. (Holds(h, x) \/ x \in Free) /\ x \in disk' /\ age'[x] <= Patience /\ r.pc \notin {"delete", "remove"}
      BY <1>1, <2>3
    <3>2. /\ \A n \in Names : ~Uses(n, x)
          /\ \A g \in Handlers \ {k} : x # req[g].file /\ x # req[g].thumb
          /\ \A g \in Handlers : x # req[g].parent /\ x \notin req[g].todo
          /\ x \notin sweep.old
      BY <2>3, <3>1, FreeApart DEF MediaInv, UploadsApart
    <3> QED BY <1>1, <2>1, <2>3, <3>1, <3>2
  <2> QED BY <2>2, <2>3
<1>5. PagesOfPdfs'
  <2>1. \A g \in Handlers : Shaped(req'[g])
    BY <1>1 DEF MediaInv, PagesOfPdfs
  <2>2. \A g, k \in Handlers : At(g, "mark")' /\ At(k, "mark")' /\ req'[g].file = req'[k].file => g = k
    BY <1>1 DEF MediaInv, PagesOfPdfs, At
  <2> QED BY <2>1, <2>2 DEF MediaInv, PagesOfPdfs, Shaped, Has
<1>6. ListsClear'
  <2> SUFFICES ASSUME NEW k \in Handlers, NEW x \in req'[k].todo
               PROVE  /\ req'[k].pc \in {"delete", "remove"}
                      /\ \A n \in Names : Uses(n, x) => req'[k].pc = "delete" /\ (n = req'[k].file \/ rows[n].parent = req'[k].file)
    BY <1>1 DEF ListsClear, At
  <2> QED BY <1>1 DEF MediaInv, ListsClear, At
<1>7. SweepClear'
  <2>1. \A x \in Names : age[x] <= Patience => age'[x] <= Patience
    BY MediaAssumption DEF MediaInv, TypeOK
  <2> QED BY <1>1, <2>1 DEF MediaInv, SweepClear, Has, Uses
<1> QED BY <1>2, <1>3, <1>4, <1>5, <1>6, <1>7 DEF MediaInv

LEMMA Place ==
  ASSUME MediaInv, NEW h \in Handlers
  PROVE  /\ req[h] \in Request /\ Shaped(req[h])
         /\ req[h].file \in Names \cup {None} /\ req[h].thumb \in Names \cup {None}
         /\ req[h].parent \in Names \cup {None} /\ req[h].pages \in 0..MaxPages
         /\ req[h].todo \in SUBSET Names
         /\ req[h].pc \notin {"delete", "remove"} => req[h].todo = {}
<1>1. req[h] \in Request /\ Shaped(req[h])
  BY DEF MediaInv, TypeOK, PagesOfPdfs
<1>2. req[h].pc \notin {"delete", "remove"} => req[h].todo = {}
  BY DEF MediaInv, ListsClear
<1> QED BY <1>1, <1>2 DEF Request

\* The place of a request that has saved its file, or could not.
LEMMA SavedPlace ==
  ASSUME MediaInv, NEW h \in Handlers
  PROVE  /\ Saved(h) \in Request /\ Shaped(Saved(h)) /\ Saved(h).pc \in {"idle", "convert"}
         /\ Saved(h).file = None /\ Saved(h).thumb = None /\ Saved(h).todo = {}
         /\ Saved(h).parent \in {req[h].parent, None}
<1>1. CASE req[h].parent = None
  BY <1>1, IdleShaped DEF Saved
<1>2. CASE req[h].parent # None
  <2> DEFINE r == [Idle EXCEPT !.pc = "convert", !.parent = req[h].parent, !.pages = req[h].pages]
  <2>1. /\ r \in Request /\ r.pc = "convert" /\ r.file = None /\ r.thumb = None /\ r.todo = {} /\ r.parent = req[h].parent
    BY Place, MediaAssumption DEF Idle, Request
  <2>2. Shaped(req[h])
    BY Place
  <2>3. Shaped(r)
    <3> HIDE DEF r
    <3> QED BY <2>1, <2>2 DEF Shaped
  <2>4. Saved(h) = r
    BY <1>2 DEF Saved
  <2> HIDE DEF r
  <2> QED BY <2>1, <2>3, <2>4
<1> QED BY <1>1, <1>2

\* The disk as it is, and less what only this upload held.
LEMMA SameDisk ==
  ASSUME MediaInv, UNCHANGED <<disk, age>>
  PROVE  /\ disk' \in SUBSET Names /\ age' \in [Names -> 0..MinAge]
         /\ \A x \in Names : (x \in disk => x \in disk') /\ age'[x] <= age[x]
<1>1. disk \in SUBSET Names /\ age \in [Names -> 0..MinAge]
  BY DEF MediaInv, TypeOK
<1> QED BY <1>1, MediaAssumption

LEMMA DroppedHeld ==
  ASSUME MediaInv, NEW h \in Handlers, NEW S, Removed(S), \A x \in S \cap Names : Holds(h, x)
  PROVE  /\ disk' \in SUBSET Names /\ age' \in [Names -> 0..MinAge]
         /\ \A x \in Names : /\ x \in disk /\ x \notin disk' =>
                                  (\A n \in Names : ~Uses(n, x)) /\ \A g \in Handlers \ {h} : ~Holds(g, x)
                             /\ age'[x] <= age[x]
<1>1. /\ disk' \in SUBSET Names /\ age' \in [Names -> 0..MinAge]
      /\ \A x \in Names : (x \in disk \ S => x \in disk') /\ age'[x] <= age[x]
  BY RemovedFiles DEF MediaInv
<1>2. \A x \in Names : Holds(h, x) => (\A n \in Names : ~Uses(n, x)) /\ \A g \in Handlers \ {h} : ~Holds(g, x)
  BY DEF MediaInv, UploadsApart, Holds
<1> QED BY <1>1, <1>2

LEMMA CreateStep ==
  ASSUME MediaInv, NEW h \in Handlers, NEW kind \in {"image", "video", "pdf"}, CreateFile(h, kind)
  PROVE  MediaInv'
<1> DEFINE r == [req[h] EXCEPT !.pc = "copy", !.kind = kind, !.file = StoredName,
                               !.pages = IF At(h, "convert") THEN @ + 1 ELSE 0]
<1>1. /\ Become(h, r) /\ Written(StoredName) /\ UNCHANGED <<rows, scenes, sweep, fixed>>
      /\ StoredName \in Free /\ StoredName \in Names
      /\ At(h, "idle") \/ (At(h, "convert") /\ kind = "image" /\ req[h].pages < MaxPages)
  BY StoredNameFree DEF CreateFile, Free
<1>2. /\ req[h] \in Request /\ Shaped(req[h]) /\ req[h].pages \in 0..MaxPages
      /\ req[h].pc \in {"idle", "convert"} /\ req[h].todo = {} /\ req[h].thumb = None
  BY <1>1, Place DEF At, Shaped
<1>3. (IF At(h, "convert") THEN req[h].pages + 1 ELSE 0) \in 0..MaxPages
  BY <1>1, <1>2, MediaAssumption DEF At
<1>4. /\ r \in Request /\ r.pc = "copy" /\ r.kind = kind /\ r.file = StoredName /\ r.parent = req[h].parent
      /\ r.thumb = None /\ r.todo = {}
  BY <1>1, <1>2, <1>3 DEF Request
<1> HIDE DEF r
<1>5. At(h, "idle") => req[h].parent = None
  BY <1>2, IdleShaped DEF At, Shaped
<1>6. Shaped(r)
  BY <1>1, <1>2, <1>4, <1>5 DEF Shaped
<1>7. /\ disk' \in SUBSET Names /\ age' \in [Names -> 0..MinAge]
      /\ StoredName \in disk' /\ age'[StoredName] <= Patience
      /\ \A x \in Names : (x \in disk => x \in disk') /\ age'[x] <= age[x]
  BY <1>1, WrittenFile DEF MediaInv
<1>8. \A x \in Names : x # None
  BY MediaAssumption DEF None
<1> QED BY <1>1, <1>4, <1>6, <1>7, <1>8, RequestStep

LEMMA CopyStep ==
  ASSUME MediaInv, NEW h \in Handlers, CopyMore(h) \/ EndCopy(h)
  PROVE  MediaInv'
<1>1. At(h, "copy") /\ Written(req[h].file) /\ UNCHANGED <<rows, scenes, sweep, fixed>>
  BY DEF CopyMore, EndCopy
<1>2. /\ req[h] \in Request /\ Shaped(req[h]) /\ req[h].todo = {} /\ req[h].thumb = None /\ req[h].file \in Names
  BY <1>1, Place DEF At, Shaped
<1>3. PICK pc \in {"copy", "thumb", "insert"} : Become(h, [req[h] EXCEPT !.pc = pc])
  <2>1. CASE CopyMore(h)
    <3>1. req' = req /\ req[h] = [req[h] EXCEPT !.pc = "copy"]
      BY <1>1, <1>2, <2>1 DEF CopyMore, At, Request
    <3>2. Become(h, req[h])
      BY <3>1 DEF Become, MediaInv, TypeOK
    <3> QED BY <3>1, <3>2
  <2>2. CASE EndCopy(h)
    BY <2>2 DEF EndCopy
  <2> QED BY <2>1, <2>2
<1> DEFINE r == [req[h] EXCEPT !.pc = pc]
<1>4. /\ r \in Request /\ r.pc = pc /\ r.kind = req[h].kind /\ r.file = req[h].file /\ r.parent = req[h].parent
      /\ r.thumb = None /\ r.todo = {}
  BY <1>2 DEF Request
<1> HIDE DEF r
<1>5. Shaped(r)
  BY <1>1, <1>2, <1>4 DEF Shaped, At
<1>6. /\ disk' \in SUBSET Names /\ age' \in [Names -> 0..MinAge]
      /\ req[h].file \in disk' /\ age'[req[h].file] <= Patience
      /\ \A x \in Names : (x \in disk => x \in disk') /\ age'[x] <= age[x]
  BY <1>1, <1>2, WrittenFile DEF MediaInv
<1>7. Holds(h, req[h].file) /\ \A x \in Names : x # None
  BY <1>1, MediaAssumption DEF Holds, Uploading, At, None
<1>8. Become(h, r)
  BY <1>3 DEF r
<1> QED BY <1>1, <1>4, <1>5, <1>6, <1>7, <1>8, RequestStep

LEMMA FailSaveStep ==
  ASSUME MediaInv, NEW h \in Handlers, FailCopy(h) \/ FailInsert(h)
  PROVE  MediaInv'
<1>1. Become(h, Saved(h)) /\ UNCHANGED <<rows, scenes, sweep, fixed>> /\ Uploading(h)
  BY DEF FailCopy, FailInsert, At, Uploading
<1>2. PICK S : Removed(S) /\ \A x \in S \cap Names : Holds(h, x)
  <2>1. CASE FailCopy(h)
    <3>1. Removed({req[h].file})
      BY <2>1 DEF FailCopy
    <3> QED BY <1>1, <3>1 DEF Holds
  <2>2. CASE FailInsert(h)
    <3>1. Removed({req[h].file, req[h].thumb})
      BY <2>2 DEF FailInsert
    <3> QED BY <1>1, <3>1 DEF Holds
  <2> QED BY <2>1, <2>2
<1>3. /\ disk' \in SUBSET Names /\ age' \in [Names -> 0..MinAge]
      /\ \A x \in Names : /\ x \in disk /\ x \notin disk' =>
                               (\A n \in Names : ~Uses(n, x)) /\ \A g \in Handlers \ {h} : ~Holds(g, x)
                          /\ age'[x] <= age[x]
  BY <1>2, DroppedHeld
<1> QED BY <1>1, <1>3, SavedPlace, RequestStep

LEMMA ThumbnailStep ==
  ASSUME MediaInv, NEW h \in Handlers, MakeThumbnail(h) \/ NoThumbnail(h)
  PROVE  MediaInv'
<1>1. At(h, "thumb") /\ UNCHANGED <<rows, scenes, sweep, fixed>>
  BY DEF MakeThumbnail, NoThumbnail
<1>2. /\ req[h] \in Request /\ Shaped(req[h]) /\ req[h].todo = {} /\ req[h].thumb = None /\ req[h].file \in Names
  BY <1>1, Place DEF At, Shaped
<1>3. /\ Holds(h, req[h].file) /\ req[h].file \in disk /\ age[req[h].file] <= Patience
      /\ \A x \in Names : x # None
  BY <1>1, <1>2, MediaAssumption DEF Holds, Uploading, At, None, MediaInv, UploadsApart
<1>4. \A x \in Names : age[x] \in Int
  BY DEF MediaInv, TypeOK
<1>5. CASE MakeThumbnail(h)
  <2> DEFINE r == [req[h] EXCEPT !.pc = "insert", !.thumb = StoredName]
  <2>1. StoredName \in Free /\ StoredName \in Names /\ Written(StoredName) /\ Become(h, r)
    BY <1>5, StoredNameFree DEF MakeThumbnail, Free
  <2>2. /\ r \in Request /\ r.pc = "insert" /\ r.kind = req[h].kind /\ r.file = req[h].file /\ r.parent = req[h].parent
        /\ r.thumb = StoredName /\ r.todo = {}
    BY <1>2, <2>1 DEF Request
  <2> HIDE DEF r
  <2>3. Shaped(r)
    BY <1>1, <1>2, <2>2 DEF Shaped, At
  <2>4. /\ disk' \in SUBSET Names /\ age' \in [Names -> 0..MinAge]
        /\ StoredName \in disk' /\ age'[StoredName] <= Patience
        /\ \A x \in Names : (x \in disk => x \in disk') /\ age'[x] <= age[x]
    BY <2>1, WrittenFile DEF MediaInv
  <2>5. req[h].file \in disk' /\ age'[req[h].file] <= Patience
    <3>1. ASSUME NEW x \in Names, x \in disk, age[x] <= Patience PROVE x \in disk' /\ age'[x] <= Patience
      <4>1. age'[x] \in Int /\ age[x] \in Int /\ age'[x] <= age[x] /\ x \in disk'
        BY <1>4, <2>4, <3>1
      <4> QED BY <3>1, <4>1, MediaAssumption
    <3> QED BY <1>2, <1>3, <3>1
  <2> QED BY <1>1, <1>3, <2>1, <2>2, <2>3, <2>4, <2>5, RequestStep
<1>6. CASE NoThumbnail(h)
  <2> DEFINE r == [req[h] EXCEPT !.pc = "insert"]
  <2>1. Become(h, r) /\ UNCHANGED <<disk, age>>
    BY <1>6 DEF NoThumbnail
  <2>2. /\ r \in Request /\ r.pc = "insert" /\ r.kind = req[h].kind /\ r.file = req[h].file /\ r.parent = req[h].parent
        /\ r.thumb = None /\ r.todo = {}
    BY <1>2 DEF Request
  <2> HIDE DEF r
  <2>3. Shaped(r)
    BY <1>1, <1>2, <2>2 DEF Shaped, At
  <2> QED BY <1>1, <1>3, <2>1, <2>2, <2>3, SameDisk, RequestStep
<1> QED BY <1>5, <1>6

\* Requests that go back to where they wait, or to where they begin.
LEMMA EndStep ==
  ASSUME MediaInv, NEW h \in Handlers, FailMark(h) \/ EndConvert(h) \/ FailDelete(h)
  PROVE  MediaInv'
<1>1. UNCHANGED <<rows, disk, age, scenes, sweep, fixed>>
  BY DEF FailMark, EndConvert, FailDelete
<1>2. CASE FailMark(h)
  BY <1>1, <1>2, SavedPlace, SameDisk, RequestStep DEF FailMark
<1>3. CASE EndConvert(h) \/ FailDelete(h)
  <2>1. Become(h, Idle)
    BY <1>3 DEF EndConvert, FailDelete
  <2> QED BY <1>1, <2>1, IdleShaped, SameDisk, RequestStep
<1> QED BY <1>2, <1>3

LEMMA StartDeleteStep ==
  ASSUME MediaInv, NEW h \in Handlers, NEW n \in Names, NEW force \in BOOLEAN, StartDelete(h, n, force)
  PROVE  MediaInv'
<1> DEFINE r == [Idle EXCEPT !.pc = "check", !.file = n, !.force = force]
<1>1. Become(h, r) /\ Has(n) /\ UNCHANGED <<rows, disk, age, scenes, sweep, fixed>>
  BY DEF StartDelete
<1>2. r \in Request /\ r.pc = "check" /\ r.file = n /\ r.parent = None /\ r.thumb = None /\ r.todo = {}
  BY IdleShaped, MediaAssumption DEF Idle, Request
<1> HIDE DEF r
<1>3. Shaped(r)
  BY <1>2 DEF Shaped
<1> QED BY <1>1, <1>2, <1>3, SameDisk, RequestStep

LEMMA CheckStep ==
  ASSUME MediaInv, NEW h \in Handlers, CheckUse(h)
  PROVE  MediaInv'
<1>1. At(h, "check") /\ UNCHANGED <<rows, disk, age, scenes, sweep, fixed>>
      /\ (Become(h, Idle) \/ Become(h, [req[h] EXCEPT !.pc = "list"]))
  BY DEF CheckUse
<1>2. /\ req[h] \in Request /\ Shaped(req[h]) /\ req[h].todo = {} /\ req[h].thumb = None /\ req[h].file \in Names
  BY <1>1, Place DEF At, Shaped
<1> DEFINE r == [req[h] EXCEPT !.pc = "list"]
<1>3. /\ r \in Request /\ r.pc = "list" /\ r.file = req[h].file /\ r.parent = req[h].parent /\ r.thumb = None /\ r.todo = {}
  BY <1>2 DEF Request
<1> HIDE DEF r
<1>4. Shaped(r)
  BY <1>2, <1>3 DEF Shaped
<1>5. CASE Become(h, Idle)
  BY <1>1, <1>5, IdleShaped, SameDisk, RequestStep
<1>6. CASE Become(h, r)
  BY <1>1, <1>3, <1>4, <1>6, SameDisk, RequestStep
<1> QED BY <1>1, <1>5, <1>6 DEF r

\* The files that are listed are those of the item and of its pages, which no upload holds.
LEMMA ListStep ==
  ASSUME MediaInv, NEW h \in Handlers, ListFiles(h)
  PROVE  MediaInv'
<1> DEFINE n == req[h].file
           S == Files({n} \cup Pages(n))
           r == [req[h] EXCEPT !.pc = "delete", !.todo = S]
<1>1. At(h, "list") /\ UNCHANGED <<rows, disk, age, scenes, sweep, fixed>>
      /\ Become(h, IF Has(n) THEN r ELSE Idle)
  BY DEF ListFiles
<1>2. /\ req[h] \in Request /\ Shaped(req[h]) /\ req[h].thumb = None /\ n \in Names
  BY <1>1, Place DEF At, Shaped
<1>3. CASE ~Has(n)
  BY <1>1, <1>3, IdleShaped, SameDisk, RequestStep
<1>4. CASE Has(n)
  <2>1. \A x \in S : x \in Names /\ \E m \in Names : Uses(m, x) /\ (m = n \/ rows[m].parent = n)
    <3> TAKE x \in S
    <3>1. PICK m \in {n} \cup Pages(n) : x = m \/ (x = rows[m].thumb /\ x # None)
      BY DEF Files
    <3>2. m \in Names /\ Has(m) /\ (m = n \/ rows[m].parent = n)
      BY <1>2, <1>4, <3>1 DEF Pages
    <3>3. rows[m].thumb \in Names \cup {None}
      BY <3>2 DEF MediaInv, TypeOK, Row
    <3> QED BY <3>1, <3>2, <3>3 DEF Uses
  <2> HIDE DEF S
  <2>2. /\ r \in Request /\ r.pc = "delete" /\ r.file = n /\ r.parent = req[h].parent /\ r.thumb = None /\ r.todo = S
    BY <1>2, <2>1 DEF Request
  <2>3. Become(h, r)
    BY <1>1, <1>4
  <2> HIDE DEF r
  <2>4. Shaped(r)
    BY <1>2, <2>2 DEF Shaped
  <2>5. \A x \in r.todo : (\E m \in Names : Uses(m, x)) /\ r.pc \in {"delete", "remove"}
                          /\ \A m \in Names : Uses(m, x) => r.pc = "delete" /\ (m = r.file \/ rows[m].parent = r.file)
    BY <2>1, <2>2 DEF MediaInv, RowsApart
  <2> QED BY <1>1, <1>2, <2>2, <2>3, <2>4, <2>5, SameDisk, RequestStep
<1> QED BY <1>3, <1>4

LEMMA RemoveStep ==
  ASSUME MediaInv, NEW h \in Handlers, NEW n \in Names, RemoveFile(h, n)
  PROVE  MediaInv'
<1>1. /\ At(h, "remove") /\ n \in req[h].todo /\ (Removed({n}) \/ UNCHANGED <<disk, age>>)
      /\ UNCHANGED <<rows, scenes, sweep, fixed>>
      /\ Become(h, IF req[h].todo = {n} THEN Idle ELSE [req[h] EXCEPT !.todo = @ \ {n}])
  BY DEF RemoveFile
<1>2. /\ req[h] \in Request /\ Shaped(req[h]) /\ req[h].thumb = None /\ req[h].todo \in SUBSET Names
  BY <1>1, Place DEF At, Shaped
<1>3. (\A m \in Names : ~Uses(m, n)) /\ \A g \in Handlers : ~Holds(g, n)
  BY <1>1 DEF MediaInv, ListsClear, UploadsApart, At
<1>4. /\ disk' \in SUBSET Names /\ age' \in [Names -> 0..MinAge]
      /\ \A x \in Names : ((x \in disk /\ x # n) => x \in disk') /\ age'[x] <= age[x]
  <2>1. CASE Removed({n})
    BY <2>1, RemovedFiles DEF MediaInv
  <2>2. CASE UNCHANGED <<disk, age>>
    BY <2>2, SameDisk
  <2> QED BY <1>1, <2>1, <2>2
<1>5. CASE req[h].todo = {n}
  BY <1>1, <1>3, <1>4, <1>5, IdleShaped, RequestStep
<1>6. CASE req[h].todo # {n}
  <2> DEFINE r == [req[h] EXCEPT !.todo = @ \ {n}]
  <2>1. Become(h, r)
    BY <1>1, <1>6
  <2>2. /\ r \in Request /\ r.pc = "remove" /\ r.file = req[h].file /\ r.parent = req[h].parent /\ r.thumb = None
        /\ r.todo = req[h].todo \ {n}
    BY <1>1, <1>2 DEF Request, At
  <2> HIDE DEF r
  <2>3. Shaped(r)
    BY <1>1, <1>2, <2>2 DEF Shaped, At
  <2>4. \A x \in r.todo : x \in req[h].todo /\ r.pc \in {"delete", "remove"}
                          /\ \A m \in Names : Uses(m, x) => r.pc = "delete" /\ (m = r.file \/ rows[m].parent = r.file)
    BY <1>1, <2>2 DEF MediaInv, ListsClear, At
  <2> QED BY <1>1, <1>2, <1>3, <1>4, <2>1, <2>2, <2>3, <2>4, RequestStep
<1> QED BY <1>5, <1>6

-----------------------------------------------------------------------------
(* Steps that change rows                                                  *)

\* The row takes over what the upload held.
LEMMA InsertStep ==
  ASSUME MediaInv, NEW h \in Handlers, Insert(h)
  PROVE  MediaInv'
<1> DEFINE f == req[h].file
           q == [kind |-> req[h].kind, thumb |-> req[h].thumb, parent |-> None]
<1>1. /\ At(h, "insert") /\ rows' = [rows EXCEPT ![f] = q] /\ UNCHANGED <<disk, age, scenes, sweep, fixed>>
      /\ Become(h, IF req[h].kind = "pdf" THEN [Idle EXCEPT !.pc = "convert", !.parent = f]
                   ELSE IF req[h].parent # None THEN [req[h] EXCEPT !.pc = "mark", !.kind = "none", !.thumb = None]
                   ELSE Idle)
  BY DEF Insert
<1>2. /\ req[h] \in Request /\ Shaped(req[h]) /\ req[h].todo = {} /\ f \in Names
      /\ req[h].kind \in {"image", "video", "pdf"} /\ (req[h].parent # None => req[h].kind = "image")
      /\ req[h].thumb \in Names \cup {None} /\ req[h].parent \in Names \cup {None}
  <2>1. req[h] \in Request /\ Shaped(req[h]) /\ req[h].todo = {} /\ f \in Names
        /\ req[h].kind # "none" /\ (req[h].parent # None => req[h].kind = "image")
    BY <1>1, Place DEF At, Shaped
  <2> QED BY <2>1, Place DEF Request
<1>3. /\ \A x \in Names : Holds(h, x) <=> x = f \/ x = req[h].thumb
      /\ Holds(h, f) /\ \A x \in Names : x # None
  BY <1>1, <1>2, MediaAssumption DEF Holds, Uploading, At, None
<1>4. q \in Row /\ q.kind = req[h].kind /\ q.thumb = req[h].thumb /\ q.parent = None /\ q # NoRow
  <2>1. NoRow.kind = "none"
    BY DEF NoRow
  <2> QED BY <1>2, <2>1 DEF Row
<1>5. ~Has(f) /\ \A n \in Names : rows[n].parent # f
  <2>1. ~Uses(f, f)
    BY <1>2, <1>3 DEF MediaInv, UploadsApart
  <2>2. ~Has(f)
    BY <2>1 DEF Uses
  <2> QED BY <1>2, <1>3, <2>2 DEF MediaInv, TypeOK
<1> HIDE DEF q
<1>6. /\ rows' \in [Names -> Row] /\ rows'[f] = q /\ \A n \in Names \ {f} : rows'[n] = rows[n]
  BY <1>1, <1>2, <1>4 DEF MediaInv, TypeOK
<1>7. PICK r \in Request :
        /\ Become(h, r) /\ r.todo = {} /\ r.thumb = None
        /\ r.pc \in {"convert", "mark", "idle"} /\ (r.pc = "idle" => r = Idle)
        /\ r.file \in {f, None} /\ (r.pc = "mark" => r.file = f /\ r.parent \in Names)
        /\ \/ r.parent \in {req[h].parent, None}
           \/ r.parent = f /\ req[h].kind = "pdf"
        /\ r.pc = "mark" => req[h].kind = "image"
  <2>1. CASE req[h].kind = "pdf"
    <3> DEFINE r == [Idle EXCEPT !.pc = "convert", !.parent = f]
    <3>1. r \in Request /\ r.pc = "convert" /\ r.parent = f /\ r.file = None /\ r.thumb = None /\ r.todo = {}
      BY <1>2, IdleShaped DEF Request
    <3> QED BY <1>1, <2>1, <3>1
  <2>2. CASE req[h].kind # "pdf" /\ req[h].parent # None
    <3> DEFINE r == [req[h] EXCEPT !.pc = "mark", !.kind = "none", !.thumb = None]
    <3>1. r \in Request /\ r.pc = "mark" /\ r.parent = req[h].parent /\ r.file = f /\ r.thumb = None /\ r.todo = {}
      BY <1>2 DEF Request
    <3> QED BY <1>1, <1>2, <2>2, <3>1
  <2>3. CASE req[h].kind # "pdf" /\ req[h].parent = None
    BY <1>1, <2>3, IdleShaped
  <2> QED BY <2>1, <2>2, <2>3
<1>8. /\ req' \in [Handlers -> Request] /\ req'[h] = r /\ \A g \in Handlers \ {h} : req'[g] = req[g]
  BY <1>7, MovedRequest DEF MediaInv
<1> HIDE DEF f
<1>9. /\ \A n, x \in Names : Uses(n, x)' <=> (n = f /\ Holds(h, x)) \/ (n # f /\ Uses(n, x))
      /\ \A n \in Names : rows'[n] # NoRow <=> n = f \/ Has(n)
  BY <1>3, <1>4, <1>5, <1>6 DEF Uses, Has
<1>10. \A g \in Handlers, x \in Names : Holds(g, x)' <=> g # h /\ Holds(g, x)
  BY <1>7, <1>8 DEF Holds, Uploading
<1>11. \A x \in Names : Holds(h, x) =>
         /\ x \in disk /\ age[x] <= Patience /\ (\A n \in Names : ~Uses(n, x))
         /\ (\A g \in Handlers \ {h} : x # req[g].file /\ x # req[g].thumb /\ ~Holds(g, x))
         /\ (\A g \in Handlers : x # req[g].parent /\ x \notin req[g].todo)
         /\ x \notin sweep.old
  BY DEF MediaInv, UploadsApart, Holds
<1>12. TypeOK'
  <2>1. \A n \in Names : /\ rows'[n].kind = "none" => rows'[n] = NoRow
                         /\ rows'[n].kind = "page" <=> rows'[n].parent # None
                         /\ rows'[n].parent # None => rows'[rows'[n].parent] # NoRow
    <3> TAKE n \in Names
    <3>1. CASE n = f
      BY <1>2, <1>4, <1>6, <3>1
    <3>2. CASE n # f
      <4>1. rows'[n] = rows[n] /\ rows[n].parent \in Names \cup {None}
        BY <1>6, <3>2 DEF MediaInv, TypeOK, Row
      <4> QED BY <1>9, <4>1 DEF MediaInv, TypeOK, Has
    <3> QED BY <3>1, <3>2
  <2> QED BY <1>1, <1>6, <1>8, <2>1 DEF MediaInv, TypeOK, Has, fixed
<1>13. RowsApart'
  BY <1>1, <1>9, <1>11 DEF MediaInv, RowsApart
<1>14. UploadsApart'
  <2> SUFFICES ASSUME NEW k \in Handlers, NEW x \in Names, k # h, Holds(k, x)
               PROVE  /\ x \in disk' /\ age'[x] <= Patience
                      /\ \A n \in Names : ~Uses(n, x)'
                      /\ \A g \in Handlers \ {k} : x # req'[g].file /\ x # req'[g].thumb
                      /\ \A g \in Handlers : x # req'[g].parent /\ x \notin req'[g].todo
                      /\ x \notin sweep'.old
    BY <1>10 DEF UploadsApart
  <2>1. /\ x \in disk /\ age[x] <= Patience
        /\ \A n \in Names : ~Uses(n, x)
        /\ \A g \in Handlers \ {k} : x # req[g].file /\ x # req[g].thumb
        /\ \A g \in Handlers : x # req[g].parent /\ x \notin req[g].todo
        /\ x \notin sweep.old
    BY DEF MediaInv, UploadsApart
  <2>2. x # f /\ ~Holds(h, x) /\ x # None
    BY <1>3, <1>11, <2>1
  <2>3. x # r.file /\ x # r.thumb /\ x # r.parent /\ x \notin r.todo
    BY <1>7, <2>1, <2>2
  <2> QED BY <1>1, <1>8, <1>9, <2>1, <2>2, <2>3
<1>15. PagesOfPdfs'
  <2>1. \A n \in Names : rows'[n].parent # None => rows'[rows'[n].parent].kind = "pdf"
    <3> TAKE n \in Names
    <3>1. CASE n = f
      BY <1>4, <1>6, <3>1
    <3>2. CASE n # f
      <4>1. rows'[n] = rows[n] /\ rows[n].parent \in Names \cup {None} /\ rows[n].parent # f
        BY <1>5, <1>6, <3>2 DEF MediaInv, TypeOK, Row
      <4> QED BY <1>6, <4>1 DEF MediaInv, PagesOfPdfs
    <3> QED BY <3>1, <3>2
  <2>2. ASSUME NEW g \in Handlers, g # h PROVE Shaped(req[g])'
    <3>1. Shaped(req[g]) /\ req'[g] = req[g] /\ req[g].parent \in Names \cup {None} /\ req[g].file \in Names \cup {None}
      BY <1>8, <2>2, Place
    <3>2. req[g].file # f /\ req[g].parent # f
      BY <1>2, <1>3, <1>11, <2>2
    <3> QED BY <1>6, <1>9, <3>1, <3>2 DEF Shaped, Has
  <2>3. Shaped(req[h])'
    <3>1. r.parent \in Names /\ rows'[r.parent] # NoRow => rows'[r.parent].kind = "pdf"
      <4>1. CASE r.parent = f /\ req[h].kind = "pdf"
        BY <1>4, <1>6, <4>1
      <4>2. CASE r.parent = req[h].parent
        BY <1>2, <1>3, <1>6, <1>9, <1>11, <4>2 DEF Shaped, Has
      <4>3. CASE r.parent = None
        BY <1>3, <4>3
      <4> QED BY <1>7, <4>1, <4>2, <4>3
    <3>2. r.pc = "mark" => r.file \in Names /\ r.parent \in Names /\ rows'[r.file].kind = "image"
      BY <1>2, <1>4, <1>6, <1>7 DEF f
    <3>3. r.parent \in Names \cup {None}
      BY DEF Request
    <3> QED BY <1>7, <1>8, <3>1, <3>2, <3>3 DEF Shaped, Has
  <2>4. \A g, k \in Handlers : At(g, "mark")' /\ At(k, "mark")' /\ req'[g].file = req'[k].file => g = k
    BY <1>2, <1>3, <1>7, <1>8, <1>11 DEF MediaInv, PagesOfPdfs, At
  <2> QED BY <2>1, <2>2, <2>3, <2>4 DEF PagesOfPdfs
<1>16. ListsClear'
  <2> SUFFICES ASSUME NEW k \in Handlers, NEW x \in req'[k].todo
               PROVE  /\ req'[k].pc \in {"delete", "remove"}
                      /\ \A n \in Names : Uses(n, x)' => req'[k].pc = "delete" /\ (n = req'[k].file \/ rows'[n].parent = req'[k].file)
    BY DEF ListsClear, At
  <2>1. k # h /\ req'[k] = req[k] /\ x \in Names
    BY <1>7, <1>8, Place
  <2>2. ~Holds(h, x)
    BY <1>11, <2>1
  <2> QED BY <1>6, <1>9, <2>1, <2>2 DEF MediaInv, ListsClear, At
<1>17. SweepClear'
  BY <1>1, <1>3, <1>9, <1>11, <1>2 DEF MediaInv, SweepClear, Has, f
<1> QED BY <1>12, <1>13, <1>14, <1>15, <1>16, <1>17 DEF MediaInv

\* An image becomes a page of a PDF that is still there.
LEMMA MarkStep ==
  ASSUME MediaInv, NEW h \in Handlers, MarkAsPDFPage(h)
  PROVE  MediaInv'
<1> DEFINE f == req[h].file
           p == req[h].parent
<1>1. /\ At(h, "mark") /\ UNCHANGED <<disk, age, scenes, sweep, fixed>> /\ Become(h, Saved(h))
      /\ rows' = IF Has(f) /\ Has(p) THEN [rows EXCEPT ![f].kind = "page", ![f].parent = p] ELSE rows
  BY DEF MarkAsPDFPage
<1>2. CASE ~(Has(f) /\ Has(p))
  BY <1>1, <1>2, SavedPlace, SameDisk, RequestStep
<1>3. CASE Has(f) /\ Has(p)
  <2> DEFINE q == [rows[f] EXCEPT !.kind = "page", !.parent = p]
             r == Saved(h)
  <2>1. /\ f \in Names /\ p \in Names /\ rows[p].kind = "pdf" /\ rows[f].kind = "image"
        /\ \A x \in Names : x # None
    <3>1. Shaped(req[h]) /\ \A x \in Names : x # None
      BY Place, MediaAssumption DEF None
    <3> QED BY <1>1, <1>3, <3>1 DEF Shaped, At
  <2>2. q \in Row /\ q.kind = "page" /\ q.parent = p /\ q.thumb = rows[f].thumb /\ q # NoRow
    <3>1. rows[f] \in Row /\ NoRow.kind = "none"
      BY <2>1 DEF MediaInv, TypeOK, NoRow
    <3> QED BY <2>1, <3>1 DEF Row
  <2>3. rows' = [rows EXCEPT ![f] = q]
    BY <1>1, <1>3
  <2> HIDE DEF q
  <2>4. rows' \in [Names -> Row] /\ rows'[f] = q /\ \A n \in Names \ {f} : rows'[n] = rows[n]
    BY <2>1, <2>2, <2>3 DEF MediaInv, TypeOK
  <2>5. /\ r \in Request /\ r.pc \in {"idle", "convert"} /\ r.todo = {} /\ r.file = None /\ r.thumb = None
        /\ r.parent \in {p, None} /\ Become(h, r) /\ (r.pc = "idle" => r = Idle)
    BY <1>1, SavedPlace DEF Shaped
  <2> HIDE DEF r
  <2>6. /\ req' \in [Handlers -> Request] /\ req'[h] = r /\ \A g \in Handlers \ {h} : req'[g] = req[g]
    BY <2>5, MovedRequest DEF MediaInv
  <2> HIDE DEF f, p
  <2>7. /\ \A n \in Names : rows'[n] # NoRow <=> rows[n] # NoRow
        /\ \A n, x \in Names : Uses(n, x)' <=> Uses(n, x)
        /\ \A n \in Names : rows[n].kind = "pdf" => rows'[n].kind = "pdf"
    BY <1>3, <2>1, <2>2, <2>4 DEF Uses, Has
  <2>8. \A g \in Handlers, x \in Names : Holds(g, x)' <=> g # h /\ Holds(g, x)
    BY <1>1, <2>5, <2>6 DEF Holds, Uploading, At
  <2>9. TypeOK'
    <3>1. \A n \in Names : /\ rows'[n].kind = "none" => rows'[n] = NoRow
                           /\ rows'[n].kind = "page" <=> rows'[n].parent # None
                           /\ rows'[n].parent # None => rows'[rows'[n].parent] # NoRow
      <4> TAKE n \in Names
      <4>1. CASE n = f
        BY <1>3, <2>1, <2>2, <2>4, <2>7, <4>1 DEF Has
      <4>2. CASE n # f
        <5>1. rows'[n] = rows[n] /\ rows[n].parent \in Names \cup {None}
          BY <2>4, <4>2 DEF MediaInv, TypeOK, Row
        <5> QED BY <2>7, <5>1 DEF MediaInv, TypeOK, Has
      <4> QED BY <4>1, <4>2
    <3> QED BY <1>1, <2>4, <2>6, <3>1 DEF MediaInv, TypeOK, Has, fixed
  <2>10. RowsApart'
    BY <1>1, <2>7 DEF MediaInv, RowsApart
  <2>11. UploadsApart'
    <3> SUFFICES ASSUME NEW k \in Handlers, NEW x \in Names, k # h, Holds(k, x)
                 PROVE  /\ x \in disk' /\ age'[x] <= Patience
                        /\ \A n \in Names : ~Uses(n, x)'
                        /\ \A g \in Handlers \ {k} : x # req'[g].file /\ x # req'[g].thumb
                        /\ \A g \in Handlers : x # req'[g].parent /\ x \notin req'[g].todo
                        /\ x \notin sweep'.old
      BY <2>8 DEF UploadsApart
    <3>1. /\ x \in disk /\ age[x] <= Patience
          /\ \A n \in Names : ~Uses(n, x)
          /\ \A g \in Handlers \ {k} : x # req[g].file /\ x # req[g].thumb
          /\ \A g \in Handlers : x # req[g].parent /\ x \notin req[g].todo
          /\ x \notin sweep.old
      BY DEF MediaInv, UploadsApart
    <3>2. x # r.file /\ x # r.thumb /\ x # r.parent /\ x \notin r.todo
      BY <2>1, <2>5, <3>1 DEF p
    <3> QED BY <1>1, <2>6, <2>7, <3>1, <3>2
  <2>12. PagesOfPdfs'
    <3>1. \A n \in Names : rows'[n].parent # None => rows'[rows'[n].parent].kind = "pdf"
      <4> TAKE n \in Names
      <4>1. CASE n = f
        BY <2>1, <2>2, <2>4, <2>7, <4>1
      <4>2. CASE n # f
        <5>1. rows'[n] = rows[n] /\ rows[n].parent \in Names \cup {None}
          BY <2>4, <4>2 DEF MediaInv, TypeOK, Row
        <5> QED BY <2>7, <5>1 DEF MediaInv, PagesOfPdfs
      <4> QED BY <4>1, <4>2
    <3>2. ASSUME NEW g \in Handlers, g # h PROVE Shaped(req[g])'
      <4>1. Shaped(req[g]) /\ req'[g] = req[g] /\ req[g].parent \in Names \cup {None} /\ req[g].file \in Names \cup {None}
        BY <2>6, <3>2, Place
      <4>2. At(g, "mark") => req[g].file # f
        BY <1>1, <3>2 DEF MediaInv, PagesOfPdfs, f
      <4>3. At(g, "mark") /\ req[g].file \in Names => rows'[req[g].file] = rows[req[g].file]
        BY <2>4, <4>2
      <4> QED BY <2>7, <4>1, <4>3 DEF Shaped, Has, At
    <3>3. Shaped(req[h])'
      BY <2>1, <2>5, <2>6, <2>7 DEF Shaped, Has
    <3>4. \A g, k \in Handlers : At(g, "mark")' /\ At(k, "mark")' /\ req'[g].file = req'[k].file => g = k
      BY <2>5, <2>6 DEF MediaInv, PagesOfPdfs, At
    <3> QED BY <3>1, <3>2, <3>3, <3>4 DEF PagesOfPdfs
  <2>13. ListsClear'
    <3> SUFFICES ASSUME NEW k \in Handlers, NEW x \in req'[k].todo
                 PROVE  /\ req'[k].pc \in {"delete", "remove"}
                        /\ \A n \in Names : Uses(n, x)' => req'[k].pc = "delete" /\ (n = req'[k].file \/ rows'[n].parent = req'[k].file)
      BY DEF ListsClear, At
    <3>1. k # h /\ req'[k] = req[k] /\ x \in Names /\ x \in req[k].todo
      BY <2>5, <2>6, Place
    <3>2. rows[f].parent # None => rows[f].kind = "page"
      BY <2>1 DEF MediaInv, TypeOK
    <3>3. \A n \in Names : rows[n].parent # None => rows'[n].parent = rows[n].parent
      BY <2>1, <2>4, <3>2
    <3>4. \A n \in Names : Uses(n, x) => At(k, "delete") /\ (n = req[k].file \/ rows[n].parent = req[k].file)
      BY <3>1 DEF MediaInv, ListsClear
    <3>5. At(k, "delete") => req[k].file # None
      BY <2>1, Place DEF Shaped, At
    <3> QED BY <2>7, <3>1, <3>3, <3>4, <3>5 DEF MediaInv, ListsClear, At
  <2>14. SweepClear'
    BY <1>1, <2>7 DEF MediaInv, SweepClear, Has
  <2> QED BY <2>9, <2>10, <2>11, <2>12, <2>13, <2>14 DEF MediaInv
<1> QED BY <1>2, <1>3

\* The item goes with its pages, and its deletion has their files listed.
LEMMA DeleteStep ==
  ASSUME MediaInv, NEW h \in Handlers, DeleteRow(h)
  PROVE  MediaInv'
<1> DEFINE n == req[h].file
           Gone(m) == m = n \/ rows[m].parent = n
<1>1. /\ At(h, "delete") /\ rows' = [m \in Names |-> IF Gone(m) THEN NoRow ELSE rows[m]]
      /\ Become(h, IF Has(n) THEN [Idle EXCEPT !.pc = "remove", !.todo = req[h].todo] ELSE Idle)
      /\ UNCHANGED <<disk, age, scenes, sweep, fixed>>
  BY DEF DeleteRow
<1>2. /\ req[h] \in Request /\ Shaped(req[h]) /\ n \in Names /\ n # None
      /\ req[h].todo \in SUBSET Names /\ \A x \in Names : x # None
  BY <1>1, Place, MediaAssumption DEF At, Shaped, None
<1>3. PICK r \in Request :
        /\ Become(h, r) /\ r.pc \in {"remove", "idle"} /\ (r.pc = "idle" => r = Idle)
        /\ r.file = None /\ r.thumb = None /\ r.parent = None
        /\ r.todo \subseteq req[h].todo /\ (r.pc = "idle" => r.todo = {})
  <2> DEFINE q == [Idle EXCEPT !.pc = "remove", !.todo = req[h].todo]
  <2>1. q \in Request /\ q.pc = "remove" /\ q.todo = req[h].todo /\ q.file = None /\ q.thumb = None /\ q.parent = None
    BY <1>2, IdleShaped, MediaAssumption DEF Idle, Request
  <2> HIDE DEF q
  <2>2. Become(h, q) \/ Become(h, Idle)
    BY <1>1 DEF q
  <2> QED BY <2>1, <2>2, IdleShaped
<1>4. /\ req' \in [Handlers -> Request] /\ req'[h] = r /\ \A g \in Handlers \ {h} : req'[g] = req[g]
  BY <1>3, MovedRequest DEF MediaInv
<1>5. /\ NoRow \in Row /\ NoRow.kind = "none" /\ NoRow.parent = None
      /\ \A m \in Names : rows[m] \in Row /\ rows[m].parent \in Names \cup {None}
  BY DEF MediaInv, TypeOK, NoRow, Row, None
<1>6. \A m \in Names : rows'[m] \in Row /\ rows'[m] = IF Gone(m) THEN NoRow ELSE rows[m]
  BY <1>1, <1>5
<1>7. rows' \in [Names -> Row]
  BY <1>1, <1>5
<1>8. \A m \in Names : rows'[m] # NoRow <=> rows[m] # NoRow /\ ~Gone(m)
  BY <1>6
<1>9. \A m, x \in Names : Uses(m, x)' <=> Uses(m, x) /\ ~Gone(m)
  BY <1>6, <1>8 DEF Uses, Has
<1>10. \A g \in Handlers, x \in Names : Holds(g, x)' <=> Holds(g, x)
  BY <1>1, <1>3, <1>4 DEF Holds, Uploading, At
\* The parent of a page that stays, stays.
<1>11. \A m \in Names : ~Gone(m) /\ rows[m].parent # None =>
         rows[m].parent \in Names /\ ~Gone(rows[m].parent) /\ rows[rows[m].parent].kind = "pdf"
  <2> SUFFICES ASSUME NEW m \in Names, ~Gone(m), rows[m].parent # None
               PROVE  rows[m].parent \in Names /\ ~Gone(rows[m].parent) /\ rows[rows[m].parent].kind = "pdf"
    OBVIOUS
  <2>1. rows[m].parent \in Names /\ rows[rows[m].parent].kind = "pdf"
    BY <1>5 DEF MediaInv, PagesOfPdfs
  <2>2. rows[rows[m].parent].parent = None
    BY <2>1 DEF MediaInv, TypeOK
  <2> QED BY <1>2, <2>1, <2>2
<1> HIDE DEF n
<1>12. TypeOK'
  <2>1. \A m \in Names : /\ rows'[m].kind = "none" => rows'[m] = NoRow
                         /\ rows'[m].kind = "page" <=> rows'[m].parent # None
                         /\ rows'[m].parent # None => rows'[rows'[m].parent] # NoRow
    <3> TAKE m \in Names
    <3>1. CASE Gone(m)
      BY <1>5, <1>6, <3>1
    <3>2. CASE ~Gone(m)
      <4>1. rows'[m] = rows[m]
        BY <1>6, <3>2
      <4>2. /\ rows[m].kind = "none" => rows[m] = NoRow
            /\ rows[m].kind = "page" <=> rows[m].parent # None
            /\ rows[m].parent # None => Has(rows[m].parent)
        BY DEF MediaInv, TypeOK
      <4> QED BY <1>8, <1>11, <3>2, <4>1, <4>2 DEF Has
    <3> QED BY <3>1, <3>2
  <2> QED BY <1>1, <1>4, <1>7, <2>1 DEF MediaInv, TypeOK, Has, fixed
<1>13. RowsApart'
  BY <1>1, <1>9 DEF MediaInv, RowsApart
<1>14. UploadsApart'
  <2> SUFFICES ASSUME NEW k \in Handlers, NEW x \in Names, Holds(k, x)
               PROVE  /\ x \in disk' /\ age'[x] <= Patience
                      /\ \A m \in Names : ~Uses(m, x)'
                      /\ \A g \in Handlers \ {k} : x # req'[g].file /\ x # req'[g].thumb
                      /\ \A g \in Handlers : x # req'[g].parent /\ x \notin req'[g].todo
                      /\ x \notin sweep'.old
    BY <1>10 DEF UploadsApart
  <2>1. /\ x \in disk /\ age[x] <= Patience
        /\ \A m \in Names : ~Uses(m, x)
        /\ \A g \in Handlers \ {k} : x # req[g].file /\ x # req[g].thumb
        /\ \A g \in Handlers : x # req[g].parent /\ x \notin req[g].todo
        /\ x \notin sweep.old
    BY DEF MediaInv, UploadsApart
  <2>2. x # r.file /\ x # r.thumb /\ x # r.parent /\ x \notin r.todo
    BY <1>2, <1>3, <2>1
  <2> QED BY <1>1, <1>4, <1>9, <2>1, <2>2
<1>15. PagesOfPdfs'
  <2>1. \A m \in Names : rows'[m].parent # None => rows'[rows'[m].parent].kind = "pdf"
    BY <1>5, <1>6, <1>11
  <2>2. ASSUME NEW g \in Handlers, g # h PROVE Shaped(req[g])'
    <3>1. Shaped(req[g]) /\ req'[g] = req[g] /\ req[g].parent \in Names \cup {None} /\ req[g].file \in Names \cup {None}
      BY <1>4, <2>2, Place
    <3>2. \A m \in Names : rows'[m] # NoRow => rows[m] # NoRow /\ rows'[m] = rows[m]
      BY <1>6, <1>8
    <3> QED BY <3>1, <3>2 DEF Shaped, Has
  <2>3. Shaped(req[h])'
    BY <1>3, <1>4 DEF Shaped
  <2>4. \A g, k \in Handlers : At(g, "mark")' /\ At(k, "mark")' /\ req'[g].file = req'[k].file => g = k
    BY <1>3, <1>4 DEF MediaInv, PagesOfPdfs, At
  <2> QED BY <2>1, <2>2, <2>3, <2>4 DEF PagesOfPdfs
<1>16. ListsClear'
  <2> SUFFICES ASSUME NEW k \in Handlers, NEW x \in req'[k].todo
               PROVE  /\ req'[k].pc \in {"delete", "remove"}
                      /\ \A m \in Names : Uses(m, x)' => req'[k].pc = "delete" /\ (m = req'[k].file \/ rows'[m].parent = req'[k].file)
    BY DEF ListsClear, At
  <2>1. x \in req[k].todo /\ x \in Names
    BY <1>3, <1>4, Place
  <2>2. \A m \in Names : Uses(m, x) => At(k, "delete") /\ (m = req[k].file \/ rows[m].parent = req[k].file)
    BY <2>1 DEF MediaInv, ListsClear
  <2>3. CASE k = h
    <3>1. \A m \in Names : ~Uses(m, x)'
      BY <1>9, <2>1, <2>2, <2>3 DEF n
    <3> QED BY <1>3, <1>4, <2>3, <3>1
  <2>4. CASE k # h
    <3>1. \A m \in Names : Uses(m, x)' => Uses(m, x) /\ rows'[m] = rows[m]
      BY <1>6, <1>9, <2>1
    <3> QED BY <1>4, <2>1, <2>2, <2>4, <3>1 DEF MediaInv, ListsClear, At
  <2> QED BY <2>3, <2>4
<1>17. SweepClear'
  BY <1>1, <1>8, <1>9 DEF MediaInv, SweepClear, Has
<1> QED BY <1>12, <1>13, <1>14, <1>15, <1>16, <1>17 DEF MediaInv

-----------------------------------------------------------------------------
(* Scenes, the sweep, time and restarts                                    *)

LEMMA SceneStep ==
  ASSUME MediaInv, NEW n \in Names, UseInScene(n) \/ DropFromScenes(n)
  PROVE  MediaInv'
<1>1. UNCHANGED <<rows, disk, age, sweep, fixed>> /\ scenes' \in SUBSET Names
  BY DEF UseInScene, DropFromScenes, MediaInv, TypeOK
<1>2. /\ req' \in [Handlers -> Request]
      /\ \A h \in Handlers : /\ req'[h].pc = req[h].pc /\ req'[h].kind = req[h].kind /\ req'[h].file = req[h].file
                             /\ req'[h].thumb = req[h].thumb /\ req'[h].parent = req[h].parent
                             /\ req'[h].todo = req[h].todo
                             /\ req[h].pc = "idle" => req'[h] = req[h]
  <2>1. ASSUME NEW h \in Handlers
        PROVE  /\ [req[h] EXCEPT !.late = TRUE] \in Request
               /\ [req[h] EXCEPT !.late = TRUE].pc = req[h].pc /\ [req[h] EXCEPT !.late = TRUE].kind = req[h].kind
               /\ [req[h] EXCEPT !.late = TRUE].file = req[h].file /\ [req[h] EXCEPT !.late = TRUE].thumb = req[h].thumb
               /\ [req[h] EXCEPT !.late = TRUE].parent = req[h].parent /\ [req[h] EXCEPT !.late = TRUE].todo = req[h].todo
    <3>1. req[h] \in Request
      BY Place
    <3> QED BY <3>1 DEF Request
  <2>2. CASE UseInScene(n)
    <3>1. req' = [h \in Handlers |-> IF req[h].pc \in {"list", "delete"} /\ req[h].file \in {n, rows[n].parent}
                                     THEN [req[h] EXCEPT !.late = TRUE] ELSE req[h]]
      BY <2>2 DEF UseInScene
    <3>2. \A h \in Handlers : req'[h] = req[h] \/ (req[h].pc # "idle" /\ req'[h] = [req[h] EXCEPT !.late = TRUE])
      BY <3>1
    <3>3. \A h \in Handlers : req[h] \in Request
      BY Place
    <3> HIDE <3>1
    <3> QED BY <2>1, <3>1, <3>2, <3>3
  <2>3. CASE DropFromScenes(n)
    BY <2>3 DEF DropFromScenes, MediaInv, TypeOK
  <2> QED BY <2>2, <2>3
<1>3. /\ \A m, x : Uses(m, x)' <=> Uses(m, x)
      /\ \A h \in Handlers : \A x : Holds(h, x)' <=> Holds(h, x)
      /\ \A h \in Handlers : \A pc : At(h, pc)' <=> At(h, pc)
  BY <1>1, <1>2 DEF Uses, Has, Holds, Uploading, At
<1>4. TypeOK'
  BY <1>1, <1>2 DEF MediaInv, TypeOK, Has, fixed
<1>5. RowsApart'
  BY <1>1, <1>3 DEF MediaInv, RowsApart
<1>6. UploadsApart'
  BY <1>1, <1>2, <1>3 DEF MediaInv, UploadsApart
<1>7. PagesOfPdfs'
  <2>1. \A h \in Handlers : Shaped(req[h])'
    BY <1>1, <1>2, Place DEF Shaped, Has
  <2> QED BY <1>1, <1>2, <1>3, <2>1 DEF MediaInv, PagesOfPdfs
<1>8. ListsClear'
  BY <1>1, <1>2, <1>3 DEF MediaInv, ListsClear
<1>9. SweepClear'
  BY <1>1, <1>3 DEF MediaInv, SweepClear, Has
<1> QED BY <1>4, <1>5, <1>6, <1>7, <1>8, <1>9 DEF MediaInv

\* A sweep removes only what it was clear of.
LEMMA SweepStep ==
  ASSUME MediaInv, CleanOrphans
  PROVE  MediaInv'
<1>1. UNCHANGED <<rows, scenes, req, fixed>>
  BY DEF CleanOrphans, ReadStored, ReadThumbs, Cutoff, RemoveOrphan, EndSweep, Advance
<1>2. \A x \in Names : age[x] \in 0..MinAge
  BY DEF MediaInv, TypeOK
<1>3. /\ sweep \in Sweep /\ sweep.pc \in {"idle", "thumbs", "cutoff", "remove"}
      /\ sweep.known \in SUBSET Names /\ sweep.old \in SUBSET Names
  BY DEF MediaInv, TypeOK, Sweep
<1>4. /\ sweep' \in Sweep /\ disk' \in SUBSET Names /\ age' \in [Names -> 0..MinAge]
      /\ \A x \in Names : (x \in disk \ sweep.old => x \in disk') /\ age'[x] <= age[x]
      /\ \A x \in sweep'.old : x \in sweep.old \/ (sweep.pc = "cutoff" /\ x \notin sweep.known /\ age[x] = MinAge)
      /\ sweep'.pc = "thumbs" => \A n \in Names : Has(n) => n \in sweep'.known
      /\ sweep'.pc = "cutoff" => /\ sweep.pc = "thumbs" /\ sweep.known \subseteq sweep'.known
                                 /\ \A n \in Names : rows[n].thumb # None => rows[n].thumb \in sweep'.known
  <2>1. CASE ReadStored
    <3>1. sweep' = [pc |-> "thumbs", known |-> {n \in Names : Has(n)}, old |-> {}] /\ UNCHANGED <<disk, age>>
      BY <2>1 DEF ReadStored, Advance
    <3>2. sweep' \in Sweep
      BY <3>1 DEF Sweep
    <3> QED BY <3>1, <3>2, SameDisk
  <2>2. CASE ReadThumbs
    <3> DEFINE K == sweep.known \cup ({rows[n].thumb : n \in Names} \ {None})
    <3>1. K \in SUBSET Names
      BY <1>3 DEF MediaInv, TypeOK, Row
    <3>2. sweep' = [sweep EXCEPT !.pc = "cutoff", !.known = K] /\ sweep.pc = "thumbs" /\ UNCHANGED <<disk, age>>
      BY <2>2 DEF ReadThumbs, Advance
    <3>3. sweep.known \subseteq K /\ \A n \in Names : rows[n].thumb # None => rows[n].thumb \in K
      OBVIOUS
    <3> HIDE DEF K
    <3>4. sweep' \in Sweep /\ sweep'.pc = "cutoff" /\ sweep'.known = K /\ sweep'.old = sweep.old
      BY <1>3, <3>1, <3>2 DEF Sweep
    <3> QED BY <3>2, <3>3, <3>4, SameDisk
  <2>3. CASE Cutoff
    <3> DEFINE O == {n \in disk \ sweep.known : age[n] = MinAge}
    <3>1. sweep' = [pc |-> "remove", known |-> {}, old |-> O] /\ sweep.pc = "cutoff" /\ UNCHANGED <<disk, age>>
      BY <2>3 DEF Cutoff, Advance
    <3>2. O \in SUBSET Names
      BY DEF MediaInv, TypeOK
    <3>3. sweep' \in Sweep
      BY <3>1, <3>2 DEF Sweep
    <3> QED BY <3>1, <3>3, SameDisk
  <2>4. CASE \E n \in Names : RemoveOrphan(n)
    <3>1. PICK n \in Names : sweep.pc = "remove" /\ n \in sweep.old /\ Removed({n}) /\ sweep' = [sweep EXCEPT !.old = @ \ {n}]
      BY <2>4 DEF RemoveOrphan, Advance
    <3>2. sweep' \in Sweep /\ sweep'.pc = "remove" /\ sweep'.old = sweep.old \ {n}
      BY <1>3, <3>1 DEF Sweep
    <3>3. /\ disk' \in SUBSET Names /\ age' \in [Names -> 0..MinAge]
          /\ \A x \in Names : (x \in disk \ {n} => x \in disk') /\ age'[x] <= age[x]
      BY <3>1, RemovedFiles DEF MediaInv
    <3> QED BY <3>1, <3>2, <3>3
  <2>5. CASE EndSweep
    <3>1. sweep' = NoSweep /\ UNCHANGED <<disk, age>>
      BY <2>5 DEF EndSweep, Advance
    <3> QED BY <3>1, SameDisk DEF NoSweep, Sweep
  <2> QED BY <2>1, <2>2, <2>3, <2>4, <2>5 DEF CleanOrphans
<1>5. /\ \A m, x : Uses(m, x)' <=> Uses(m, x)
      /\ \A h \in Handlers : \A x : Holds(h, x)' <=> Holds(h, x)
  BY <1>1 DEF Uses, Has, Holds, Uploading
<1>6. \A x \in Names : /\ age[x] <= Patience => age'[x] <= Patience
                       /\ age[x] = MinAge => ~(age[x] <= Patience)
  <2> TAKE x \in Names
  <2>1. age'[x] \in Int /\ age[x] \in Int /\ age'[x] <= age[x]
    BY <1>2, <1>4
  <2> QED BY <2>1, MediaAssumption
<1>7. TypeOK'
  BY <1>1, <1>4 DEF MediaInv, TypeOK, Has, fixed
<1>8. RowsApart'
  BY <1>4, <1>5 DEF MediaInv, RowsApart, SweepClear
<1>9. UploadsApart'
  <2> SUFFICES ASSUME NEW h \in Handlers, NEW x \in Names, Holds(h, x)
               PROVE  /\ x \in disk' /\ age'[x] <= Patience
                      /\ \A m \in Names : ~Uses(m, x)
                      /\ \A g \in Handlers \ {h} : x # req[g].file /\ x # req[g].thumb
                      /\ \A g \in Handlers : x # req[g].parent /\ x \notin req[g].todo
                      /\ x \notin sweep'.old
    BY <1>1, <1>5 DEF UploadsApart
  <2> QED BY <1>4, <1>6 DEF MediaInv, UploadsApart
<1>10. PagesOfPdfs'
  BY <1>1 DEF MediaInv, PagesOfPdfs, Shaped, Has, At
<1>11. ListsClear'
  BY <1>1, <1>5 DEF MediaInv, ListsClear, At
<1>12. SweepClear'
  <2>1. \A n, x \in Names : Uses(n, x) => x \notin sweep'.old
    BY <1>4, <1>6 DEF MediaInv, SweepClear
  <2>2. sweep'.pc = "thumbs" => \A n \in Names : Has(n) => n \in sweep'.known \/ age'[n] <= Patience
    BY <1>4
  <2>3. sweep'.pc = "cutoff" => \A n, x \in Names : Uses(n, x) => x \in sweep'.known \/ age'[x] <= Patience
    <3> SUFFICES ASSUME sweep'.pc = "cutoff", NEW n \in Names, NEW x \in Names, Uses(n, x)
                 PROVE  x \in sweep'.known \/ age'[x] <= Patience
      OBVIOUS
    <3>1. x # None
      BY MediaAssumption DEF None
    <3>2. CASE x = n
      BY <1>4, <1>6, <3>2 DEF MediaInv, SweepClear, Uses
    <3>3. CASE x = rows[n].thumb
      BY <1>4, <3>1, <3>3
    <3> QED BY <3>2, <3>3 DEF Uses
  <2> QED BY <1>1, <1>5, <2>1, <2>2, <2>3 DEF SweepClear, Has
<1> QED BY <1>7, <1>8, <1>9, <1>10, <1>11, <1>12 DEF MediaInv

\* What a sweep knows would age under it, but its queries take no time; an upload does
\* not outlast its files' youth.
LEMMA TickStep ==
  ASSUME MediaInv, Tick
  PROVE  MediaInv'
<1>1. /\ UNCHANGED <<rows, disk, scenes, req, sweep, fixed>> /\ sweep.pc \notin {"thumbs", "cutoff"}
      /\ age' = [n \in Names |-> IF n \in disk /\ age[n] < MinAge THEN age[n] + 1 ELSE age[n]]
      /\ \A h \in Handlers : Uploading(h) => age[req[h].file] < Patience
                                             /\ (req[h].thumb # None => age[req[h].thumb] < Patience)
  BY DEF Tick
<1>2. age \in [Names -> 0..MinAge]
  BY DEF MediaInv, TypeOK
<1>3. age' \in [Names -> 0..MinAge]
  BY <1>1, <1>2, MediaAssumption
<1>4. /\ \A m, x : Uses(m, x)' <=> Uses(m, x)
      /\ \A h \in Handlers : \A x : Holds(h, x)' <=> Holds(h, x)
  BY <1>1 DEF Uses, Has, Holds, Uploading
<1>5. \A h \in Handlers, x \in Names : Holds(h, x) => age'[x] <= Patience
  <2> SUFFICES ASSUME NEW h \in Handlers, NEW x \in Names, Holds(h, x) PROVE age'[x] <= Patience
    OBVIOUS
  <2>1. x # None
    BY MediaAssumption DEF None
  <2>2. age[x] < Patience
    BY <1>1, <2>1 DEF Holds
  <2>3. age'[x] = IF x \in disk /\ age[x] < MinAge THEN age[x] + 1 ELSE age[x]
    BY <1>1
  <2>4. age[x] \in Int
    BY <1>2
  <2> QED BY <2>2, <2>3, <2>4, MediaAssumption
<1>6. TypeOK'
  BY <1>1, <1>3 DEF MediaInv, TypeOK, Has, fixed
<1>7. RowsApart'
  BY <1>1, <1>4 DEF MediaInv, RowsApart
<1>8. UploadsApart'
  BY <1>1, <1>4, <1>5 DEF MediaInv, UploadsApart
<1>9. PagesOfPdfs'
  BY <1>1 DEF MediaInv, PagesOfPdfs, Shaped, Has, At
<1>10. ListsClear'
  BY <1>1, <1>4 DEF MediaInv, ListsClear, At
<1>11. SweepClear'
  BY <1>1, <1>4 DEF MediaInv, SweepClear
<1> QED BY <1>6, <1>7, <1>8, <1>9, <1>10, <1>11 DEF MediaInv

\* A restart forgets the requests and the sweep, and leaves every row with its files.
LEMMA RestartStep ==
  ASSUME MediaInv, Restart
  PROVE  MediaInv'
<1>1. /\ req' = [h \in Handlers |-> Idle] /\ sweep' = NoSweep /\ restarts' = restarts + 1 /\ restarts < MaxRestarts
      /\ UNCHANGED <<rows, disk, age, scenes, kinds>>
  BY DEF Restart
<1>2. /\ \A h \in Handlers : req'[h] = Idle
      /\ \A m, x : Uses(m, x)' <=> Uses(m, x)
  BY <1>1 DEF Uses, Has
<1>3. \A h \in Handlers : \A x : ~Holds(h, x)'
  BY <1>2, IdleShaped DEF Holds, Uploading
<1>4. TypeOK'
  <2>1. req' \in [Handlers -> Request] /\ restarts' \in 0..MaxRestarts
    BY <1>1, IdleShaped, MediaAssumption DEF MediaInv, TypeOK
  <2>2. sweep' \in Sweep
    BY <1>1 DEF NoSweep, Sweep
  <2> QED BY <1>1, <2>1, <2>2 DEF MediaInv, TypeOK, Has
<1>5. RowsApart'
  BY <1>1, <1>2 DEF MediaInv, RowsApart
<1>6. UploadsApart'
  BY <1>3 DEF UploadsApart
<1>7. PagesOfPdfs'
  BY <1>1, <1>2, IdleShaped DEF MediaInv, PagesOfPdfs, Shaped, Has, At
<1>8. ListsClear'
  BY <1>2, IdleShaped DEF ListsClear
<1>9. SweepClear'
  BY <1>1 DEF SweepClear, NoSweep
<1> QED BY <1>4, <1>5, <1>6, <1>7, <1>8, <1>9 DEF MediaInv

LEMMA MediaStutter ==
  ASSUME MediaInv, UNCHANGED vars
  PROVE  MediaInv'
<1>1. UNCHANGED <<rows, disk, age, scenes, req, sweep, restarts, kinds>>
  BY DEF vars, fixed
<1>2. TypeOK' /\ RowsApart' /\ UploadsApart'
  BY <1>1 DEF MediaInv, TypeOK, RowsApart, UploadsApart, Uses, Holds, Has, Uploading
<1>3. PagesOfPdfs' /\ ListsClear' /\ SweepClear'
  BY <1>1 DEF MediaInv, PagesOfPdfs, Shaped, ListsClear, SweepClear, Uses, Has, At
<1> QED BY <1>2, <1>3 DEF MediaInv

-----------------------------------------------------------------------------
(* The theorems                                                            *)

LEMMA MediaInit == Init => MediaInv
<1> SUFFICES ASSUME Init PROVE MediaInv
  OBVIOUS
<1>1. /\ \A n \in Names : rows[n] = NoRow
      /\ \A h \in Handlers : req[h] = Idle
      /\ disk = {} /\ scenes = {} /\ sweep = NoSweep
  BY DEF Init
<1>2. NoRow \in Row /\ NoRow.kind = "none" /\ NoRow.parent = None
  BY DEF NoRow, Row, None
<1>3. (\A n, x \in Names : ~Uses(n, x)) /\ \A h \in Handlers : \A x : ~Holds(h, x)
  BY <1>1, IdleShaped DEF Uses, Has, Holds, Uploading
<1>4. TypeOK
  <2>1. rows \in [Names -> Row] /\ req \in [Handlers -> Request]
    BY <1>2, IdleShaped DEF Init
  <2>2. sweep \in Sweep
    BY <1>1 DEF NoSweep, Sweep
  <2>3. age \in [Names -> 0..MinAge] /\ restarts \in 0..MaxRestarts
    BY MediaAssumption DEF Init
  <2> QED BY <1>1, <1>2, <2>1, <2>2, <2>3 DEF Init, TypeOK
<1>5. RowsApart /\ UploadsApart
  BY <1>3 DEF RowsApart, UploadsApart
<1>6. PagesOfPdfs
  BY <1>1, <1>2, IdleShaped DEF PagesOfPdfs, At
<1>7. ListsClear
  BY <1>1, IdleShaped DEF ListsClear
<1>8. SweepClear
  BY <1>1, <1>3 DEF SweepClear, NoSweep
<1> QED BY <1>4, <1>5, <1>6, <1>7, <1>8 DEF MediaInv

LEMMA MediaStep == MediaInv /\ [Next]_vars => MediaInv'
<1> SUFFICES ASSUME MediaInv, [Next]_vars PROVE MediaInv'
  OBVIOUS
<1>1. ASSUME NEW h \in Handlers, \E kind \in {"image", "video", "pdf"} : CreateFile(h, kind)
      PROVE  MediaInv'
  BY <1>1, CreateStep
<1>2. ASSUME NEW h \in Handlers, Upload(h) PROVE MediaInv'
  BY <1>2, CopyStep, FailSaveStep, ThumbnailStep, InsertStep, MarkStep, EndStep DEF Upload
<1>3. ASSUME NEW h \in Handlers, \E n \in Names, force \in BOOLEAN : StartDelete(h, n, force)
      PROVE  MediaInv'
  BY <1>3, StartDeleteStep
<1>4. ASSUME NEW h \in Handlers, Delete(h) PROVE MediaInv'
  BY <1>4, CheckStep, ListStep, DeleteStep, EndStep, RemoveStep DEF Delete
<1>5. CASE Next
  BY <1>1, <1>2, <1>3, <1>4, <1>5, SceneStep, SweepStep, TickStep, RestartStep DEF Next
<1>6. CASE UNCHANGED vars
  BY <1>6, MediaStutter
<1> QED BY <1>5, <1>6

\* Whatever overlaps and whenever the process restarts, the invariant holds.
THEOREM MediaIsSound == Spec => []MediaInv
BY MediaInit, MediaStep, PTL DEF Spec

\* The table, the directory, the requests and the sweep keep their types, and a page has
\* its PDF.
THEOREM MediaTypes == Spec => []TypeOK
BY MediaIsSound, PTL DEF MediaInv

\* No upload, deletion, sweep or restart leaves a row that names a missing file.
THEOREM RowsHaveFiles == Spec => []RowHasFile
<1>1. MediaInv => RowHasFile
  <2> SUFFICES ASSUME MediaInv, NEW n \in Names, Has(n), NEW x \in Files({n}) PROVE x \in disk
    BY DEF RowHasFile
  <2>1. x = n \/ (x = rows[n].thumb /\ x # None)
    BY DEF Files
  <2>2. rows[n].thumb \in Names \cup {None}
    BY DEF MediaInv, TypeOK, Row
  <2> QED BY <2>1, <2>2 DEF MediaInv, RowsApart, Uses
<1> QED BY <1>1, MediaIsSound, PTL

-----------------------------------------------------------------------------
(* Items that scenes use                                                   *)

\* A deletion that goes on found its item unused, was forced, or knows of a later use.
DeletionsChecked ==
  \A h \in Handlers : req[h].pc \in {"list", "delete"} /\ req[h].file \in scenes => req[h].force \/ req[h].late

\* Only a check takes a request to the deletion.
LEMMA OtherPlace ==
  ASSUME MediaInv, NEW h \in Handlers,
         \/ \E kind \in {"image", "video", "pdf"} : CreateFile(h, kind)
         \/ Upload(h)
         \/ \E n \in Names, force \in BOOLEAN : StartDelete(h, n, force)
         \/ DeleteRow(h) \/ FailDelete(h) \/ \E n \in Names : RemoveFile(h, n)
  PROVE  /\ UNCHANGED scenes /\ \A g \in Handlers \ {h} : req'[g] = req[g]
         /\ req'[h].pc \notin {"list", "delete"}
<1> DEFINE Elsewhere == {"idle", "copy", "thumb", "insert", "convert", "mark", "check", "remove"}
<1>1. req[h] \in Request /\ req \in [Handlers -> Request]
  BY DEF MediaInv, TypeOK
<1>2. \A pc \in Elsewhere : /\ [req[h] EXCEPT !.pc = pc].pc = pc
                            /\ [Idle EXCEPT !.pc = pc].pc = pc
  BY <1>1 DEF Request, Idle
<1>3. Idle.pc \in Elsewhere /\ Saved(h).pc \in Elsewhere
  BY IdleShaped, SavedPlace
<1>4. SUFFICES UNCHANGED scenes /\ \E r : Become(h, r) /\ r.pc \in Elsewhere
  BY <1>1 DEF Become
<1>5. ASSUME NEW kind \in {"image", "video", "pdf"}, CreateFile(h, kind)
      PROVE  UNCHANGED scenes /\ \E r : Become(h, r) /\ r.pc \in Elsewhere
  <2> DEFINE r == [req[h] EXCEPT !.pc = "copy", !.kind = kind, !.file = StoredName,
                                 !.pages = IF At(h, "convert") THEN @ + 1 ELSE 0]
  <2>1. r.pc = "copy"
    BY <1>1 DEF Request
  <2>2. Become(h, r) /\ UNCHANGED scenes
    BY <1>5 DEF CreateFile
  <2> QED BY <2>1, <2>2
<1>6. CASE Upload(h)
  <2>1. CASE CopyMore(h)
    <3>1. Become(h, req[h]) /\ req[h].pc = "copy" /\ UNCHANGED scenes
      BY <1>1, <2>1 DEF CopyMore, Become, At
    <3> QED BY <3>1
  <2>2. CASE EndCopy(h) \/ NoThumbnail(h)
    <3>1. PICK pc \in {"thumb", "insert"} : Become(h, [req[h] EXCEPT !.pc = pc]) /\ UNCHANGED scenes
      BY <2>2 DEF EndCopy, NoThumbnail
    <3> QED BY <1>2, <3>1
  <2>3. CASE FailCopy(h) \/ FailInsert(h) \/ MarkAsPDFPage(h) \/ FailMark(h)
    BY <1>3, <2>3 DEF FailCopy, FailInsert, MarkAsPDFPage, FailMark
  <2>4. CASE MakeThumbnail(h)
    <3> DEFINE r == [req[h] EXCEPT !.pc = "insert", !.thumb = StoredName]
    <3>1. r.pc = "insert"
      BY <1>1 DEF Request
    <3>2. Become(h, r) /\ UNCHANGED scenes
      BY <2>4 DEF MakeThumbnail
    <3> QED BY <3>1, <3>2
  <2>5. CASE Insert(h)
    <3> DEFINE a == [Idle EXCEPT !.pc = "convert", !.parent = req[h].file]
               b == [req[h] EXCEPT !.pc = "mark", !.kind = "none", !.thumb = None]
    <3>1. a.pc = "convert" /\ b.pc = "mark"
      BY <1>1 DEF Request, Idle
    <3>2. UNCHANGED scenes /\ Become(h, IF req[h].kind = "pdf" THEN a ELSE IF req[h].parent # None THEN b ELSE Idle)
      BY <2>5 DEF Insert
    <3> HIDE DEF a, b
    <3> QED BY <1>3, <3>1, <3>2
  <2>6. CASE EndConvert(h)
    BY <1>3, <2>6 DEF EndConvert
  <2> QED BY <1>6, <2>1, <2>2, <2>3, <2>4, <2>5, <2>6 DEF Upload
<1>7. ASSUME NEW n \in Names, NEW force \in BOOLEAN, StartDelete(h, n, force)
      PROVE  UNCHANGED scenes /\ \E r : Become(h, r) /\ r.pc \in Elsewhere
  <2> DEFINE r == [Idle EXCEPT !.pc = "check", !.file = n, !.force = force]
  <2>1. r.pc = "check"
    BY DEF Idle
  <2>2. Become(h, r) /\ UNCHANGED scenes
    BY <1>7 DEF StartDelete
  <2> QED BY <2>1, <2>2
<1>8. CASE DeleteRow(h)
  <2> DEFINE r == [Idle EXCEPT !.pc = "remove", !.todo = req[h].todo]
  <2>1. r.pc = "remove"
    BY DEF Idle
  <2>2. UNCHANGED scenes /\ Become(h, IF Has(req[h].file) THEN r ELSE Idle)
    BY <1>8 DEF DeleteRow
  <2> HIDE DEF r
  <2> QED BY <1>3, <2>1, <2>2
<1>9. CASE FailDelete(h)
  BY <1>3, <1>9 DEF FailDelete
<1>10. ASSUME NEW n \in Names, RemoveFile(h, n)
       PROVE  UNCHANGED scenes /\ \E r : Become(h, r) /\ r.pc \in Elsewhere
  <2> DEFINE r == [req[h] EXCEPT !.todo = @ \ {n}]
  <2>1. r.pc = "remove"
    BY <1>1, <1>10 DEF Request, RemoveFile, At
  <2>2. UNCHANGED scenes /\ Become(h, IF req[h].todo = {n} THEN Idle ELSE r)
    BY <1>10 DEF RemoveFile
  <2> HIDE DEF r
  <2> QED BY <1>3, <2>1, <2>2
<1> HIDE DEF Elsewhere
<1> QED BY <1>5, <1>6, <1>7, <1>8, <1>9, <1>10

LEMMA CheckedStep == MediaInv /\ DeletionsChecked /\ [Next]_vars => DeletionsChecked'
<1> SUFFICES ASSUME MediaInv, DeletionsChecked, [Next]_vars PROVE DeletionsChecked'
  OBVIOUS
<1>1. req \in [Handlers -> Request]
  BY DEF MediaInv, TypeOK
<1>2. ASSUME NEW h \in Handlers, UNCHANGED scenes, \A g \in Handlers \ {h} : req'[g] = req[g],
             req'[h].pc \notin {"list", "delete"}
      PROVE  DeletionsChecked'
  BY <1>2 DEF DeletionsChecked
<1>3. ASSUME NEW h \in Handlers, CheckUse(h) PROVE DeletionsChecked'
  <2> DEFINE r == [req[h] EXCEPT !.pc = "list"]
  <2>1. r.file = req[h].file /\ r.force = req[h].force
    BY <1>1 DEF Request
  <2>2. /\ UNCHANGED scenes
        /\ Become(h, IF req[h].file \in scenes /\ ~req[h].force THEN Idle ELSE r)
    BY <1>3 DEF CheckUse
  <2> HIDE DEF r
  <2> QED BY <1>1, <2>1, <2>2, IdleShaped DEF DeletionsChecked, Become
<1>4. ASSUME NEW h \in Handlers, ListFiles(h) PROVE DeletionsChecked'
  <2> DEFINE r == [req[h] EXCEPT !.pc = "delete", !.todo = Files({req[h].file} \cup Pages(req[h].file))]
  <2>1. r.file = req[h].file /\ r.force = req[h].force /\ r.late = req[h].late
    BY <1>1 DEF Request
  <2>2. /\ UNCHANGED scenes /\ req[h].pc = "list"
        /\ Become(h, IF Has(req[h].file) THEN r ELSE Idle)
    BY <1>4 DEF ListFiles, At
  <2> HIDE DEF r
  <2> QED BY <1>1, <2>1, <2>2, IdleShaped DEF DeletionsChecked, Become
<1>5. ASSUME NEW n \in Names, UseInScene(n) PROVE DeletionsChecked'
  <2> SUFFICES ASSUME NEW h \in Handlers, req'[h].pc \in {"list", "delete"}, req'[h].file \in scenes'
               PROVE  req'[h].force \/ req'[h].late
    BY DEF DeletionsChecked
  <2> DEFINE r == [req[h] EXCEPT !.late = TRUE]
  <2>1. r.late /\ r.file = req[h].file /\ r.pc = req[h].pc
    BY <1>1 DEF Request
  <2>2. /\ scenes' = scenes \cup {n}
        /\ req'[h] = IF req[h].pc \in {"list", "delete"} /\ req[h].file \in {n, rows[n].parent} THEN r ELSE req[h]
    BY <1>5 DEF UseInScene
  <2> HIDE DEF r
  <2> QED BY <2>1, <2>2 DEF DeletionsChecked
<1>6. CASE (\E n \in Names : DropFromScenes(n)) \/ CleanOrphans \/ Tick \/ UNCHANGED vars
  <2>1. UNCHANGED req /\ scenes' \subseteq scenes
    BY <1>6 DEF DropFromScenes, CleanOrphans, ReadStored, ReadThumbs, Cutoff, RemoveOrphan, EndSweep, Advance, Tick, vars
  <2> QED BY <2>1 DEF DeletionsChecked
<1>7. CASE Restart
  BY <1>7, IdleShaped DEF Restart, DeletionsChecked
<1>8. CASE Next
  BY <1>2, <1>3, <1>4, <1>5, <1>6, <1>7, <1>8, OtherPlace DEF Next, Delete
<1> QED BY <1>6, <1>8

\* No item that a scene uses goes unseen: by force, by a use after the check, or with its PDF.
LEMMA GuardedStep ==
  ASSUME MediaInv, DeletionsChecked, [Next]_vars, NEW n \in Names, n \in scenes, Has(n), rows'[n] = NoRow
  PROVE  \/ \E h \in Handlers : At(h, "delete") /\ req[h].file = n /\ (req[h].force \/ req[h].late)
         \/ rows[n].parent # None /\ rows'[rows[n].parent] = NoRow
<1>1. rows \in [Names -> Row] /\ \A m \in Names : rows[m].parent \in Names \cup {None}
  BY DEF MediaInv, TypeOK, Row
<1>2. NoRow.kind = "none" /\ NoRow.parent = None
  BY DEF NoRow
<1>3. CASE \E h \in Handlers : DeleteRow(h)
  <2>1. PICK h \in Handlers : DeleteRow(h)
    BY <1>3
  <2>2. /\ req[h].pc = "delete" /\ req[h].file \in Names
        /\ rows' = [m \in Names |-> IF m = req[h].file \/ rows[m].parent = req[h].file THEN NoRow ELSE rows[m]]
    <3>1. At(h, "delete") /\ Shaped(req[h])
      BY <2>1, Place DEF DeleteRow
    <3> QED BY <2>1, <3>1 DEF DeleteRow, At, Shaped
  <2>3. req[h].file # None
    BY <2>2, MediaAssumption DEF None
  <2>4. n = req[h].file \/ rows[n].parent = req[h].file
    BY <2>2 DEF Has
  <2>5. CASE n = req[h].file
    BY <2>2, <2>5 DEF DeletionsChecked, At
  <2>6. CASE rows[n].parent = req[h].file
    BY <2>2, <2>3, <2>6
  <2> QED BY <2>4, <2>5, <2>6
<1>4. CASE \E h \in Handlers : Insert(h)
  <2>1. PICK h \in Handlers : Insert(h)
    BY <1>4
  <2> DEFINE q == [kind |-> req[h].kind, thumb |-> req[h].thumb, parent |-> None]
  <2>2. rows' = [rows EXCEPT ![req[h].file] = q] /\ req[h].kind # "none"
    <3>1. Shaped(req[h])
      BY Place
    <3> QED BY <2>1, <3>1 DEF Insert, At, Shaped
  <2>3. q.kind = req[h].kind
    OBVIOUS
  <2> HIDE DEF q
  <2> QED BY <1>1, <1>2, <2>2, <2>3 DEF Has
<1>5. CASE \E h \in Handlers : MarkAsPDFPage(h)
  <2>1. PICK h \in Handlers : MarkAsPDFPage(h)
    BY <1>5
  <2> DEFINE q == [rows[req[h].file] EXCEPT !.kind = "page", !.parent = req[h].parent]
  <2>2. rows' = IF Has(req[h].file) /\ Has(req[h].parent) THEN [rows EXCEPT ![req[h].file] = q] ELSE rows
    BY <2>1 DEF MarkAsPDFPage
  <2>3. req[h].file \in Names => q.kind = "page"
    BY <1>1 DEF Row
  <2>4. req[h].file \in Names
    <3>1. Shaped(req[h])
      BY Place
    <3> QED BY <2>1, <3>1 DEF MarkAsPDFPage, At, Shaped
  <2> HIDE DEF q
  <2> QED BY <1>1, <1>2, <2>2, <2>3, <2>4 DEF Has
<1>6. CASE rows' = rows
  BY <1>6 DEF Has
<1>7. (\E h \in Handlers : DeleteRow(h) \/ Insert(h) \/ MarkAsPDFPage(h)) \/ rows' = rows
  <2>1. ASSUME NEW h \in Handlers, \E kind \in {"image", "video", "pdf"} : CreateFile(h, kind) PROVE rows' = rows
    BY <2>1 DEF CreateFile
  <2>2. ASSUME NEW h \in Handlers, Upload(h) PROVE Insert(h) \/ MarkAsPDFPage(h) \/ rows' = rows
    BY <2>2 DEF Upload, CopyMore, EndCopy, FailCopy, MakeThumbnail, NoThumbnail, FailInsert, FailMark, EndConvert
  <2>3. ASSUME NEW h \in Handlers, (\E m \in Names, force \in BOOLEAN : StartDelete(h, m, force)) \/ Delete(h)
        PROVE  DeleteRow(h) \/ rows' = rows
    BY <2>3 DEF StartDelete, Delete, CheckUse, ListFiles, FailDelete, RemoveFile
  <2>4. ASSUME \/ \E m \in Names : UseInScene(m) \/ DropFromScenes(m)
               \/ CleanOrphans \/ Tick \/ Restart \/ UNCHANGED vars
        PROVE  rows' = rows
    BY <2>4 DEF UseInScene, DropFromScenes, CleanOrphans, ReadStored, ReadThumbs, Cutoff, RemoveOrphan, EndSweep,
                Advance, Tick, Restart, vars
  <2> QED BY <2>1, <2>2, <2>3, <2>4 DEF Next
<1> QED BY <1>3, <1>4, <1>5, <1>6, <1>7

\* An item that a scene uses is deleted only by force, for a use that came after the
\* check, or with the PDF it is a page of.
THEOREM DeletionsGuarded == Spec => DeletionGuarded
<1>1. Init => MediaInv /\ DeletionsChecked
  BY MediaInit, IdleShaped DEF Init, DeletionsChecked
<1>2. MediaInv /\ DeletionsChecked /\ [Next]_vars => (MediaInv /\ DeletionsChecked)'
  BY MediaStep, CheckedStep
<1>3. MediaInv /\ DeletionsChecked /\ [Next]_vars =>
        \A n \in Names : n \in scenes /\ Has(n) /\ rows'[n] = NoRow =>
          \/ \E h \in Handlers : At(h, "delete") /\ req[h].file = n /\ (req[h].force \/ req[h].late)
          \/ rows[n].parent # None /\ rows'[rows[n].parent] = NoRow
  BY GuardedStep
<1> QED BY <1>1, <1>2, <1>3, PTL DEF Spec, DeletionGuarded
=============================================================================
