--------------------------- MODULE ScannerProofs ----------------------------
(***************************************************************************)
(* The tables of the scanner stay sound whatever is scanned, added, purged *)
(* or changed on disk at the same time, for any tree of folders; and when  *)
(* the thread rests, they agree with the disk.                             *)
(***************************************************************************)
EXTENDS Scanner, FiniteSetTheorems, WellFoundedInduction, TLAPS

ScanPlaces == {"dropphotos", "dropfolders", "addfolders", "queuefolders", "queuephotos"}

\* No two rows are of one folder.
PathsDiffer == \A i, j \in Present : folders[i].path = folders[j].path => i = j

\* What the thread and the interface have at hand where they are.
AtHand ==
  /\ thread.at \in ScanPlaces => thread.scan.id \in Ids
  /\ thread.at \in {"read", "update"} => thread.photo \in Ids
  /\ ui.at = "find" => ui.goal \in Paths
  /\ ui.at = "add" => ui.path \in Paths /\ ui.goal \in Within(ui.path)

TablesInv == TypeOK /\ PathsDiffer /\ AtHand

\* The types of the thread's and the interface's records.
Photos == [there : BOOLEAN, data : Times, lastscan : Times]
Threads ==
  [at : Places, ids : SUBSET Ids, scan : Scans, photo : Ids \cup {0}, data : Times,
   busy : BOOLEAN, count : BOOLEAN]
Uis ==
  [at : {"idle", "find", "add", "rescan", "wake"}, path : Paths \cup {None},
   goal : Paths \cup {None}, parent : Ids \cup {0}, roots : SUBSET Paths]

-----------------------------------------------------------------------------
(* The tree of paths *)

LEMMA NoneIsNoPath == None \notin Paths
  BY ScannerAssumption

\* Above[p] is a closed set of paths with p's parent, and the least one.
LEMMA AboveIsClosed ==
  ASSUME NEW p \in Paths
  PROVE  /\ Above[p] \subseteq Paths
         /\ Parent[p] \in Above[p] \cup {None}
         /\ UpClosed(Above[p])
<1>1. Parent[p] \in Paths \cup {None}
  BY ScannerAssumption
<1>2. ASSUME NEW q \in Above[p] PROVE Parent[q] \in Above[p] \cup {None}
  <2>1. q \in Paths /\ Parent[q] \in Paths \cup {None}
    BY ScannerAssumption DEF Above
  <2>2. ASSUME NEW S \in SUBSET Paths, Parent[p] \in S \cup {None}, UpClosed(S), Parent[q] # None
        PROVE  Parent[q] \in S
    <3>1. q \in S
      BY <2>2 DEF Above
    <3> QED
      BY <3>1, <2>2 DEF UpClosed
  <2> QED
    BY <2>1, <2>2 DEF Above
<1> QED
  BY <1>1, <1>2 DEF Above, UpClosed

LEMMA AboveIsLeast ==
  ASSUME NEW p \in Paths, NEW S, S \subseteq Paths, Parent[p] \in S \cup {None}, UpClosed(S)
  PROVE  Above[p] \subseteq S
  BY DEF Above

\* The folders above p are its parent and those above that.
LEMMA AboveStep ==
  ASSUME NEW p \in Paths, Parent[p] # None
  PROVE  Parent[p] \in Paths /\ Above[p] = {Parent[p]} \cup Above[Parent[p]]
<1> DEFINE q == Parent[p]
<1>1. q \in Paths
  BY ScannerAssumption
<1>2. {q} \cup Above[q] \subseteq Above[p]
  <2>1. q \in Above[p] /\ Above[p] \subseteq Paths /\ UpClosed(Above[p])
    BY AboveIsClosed
  <2>2. Parent[q] \in Above[p] \cup {None}
    BY <2>1 DEF UpClosed
  <2>3. Above[q] \subseteq Above[p]
    BY <1>1, <2>1, <2>2, AboveIsLeast
  <2> QED
    BY <2>1, <2>3
<1>3. Above[p] \subseteq {q} \cup Above[q]
  <2>1. UpClosed({q} \cup Above[q])
    BY <1>1, AboveIsClosed DEF UpClosed
  <2>2. {q} \cup Above[q] \subseteq Paths
    BY <1>1, AboveIsClosed
  <2> QED
    BY <2>1, <2>2, AboveIsLeast
<1> QED
  BY <1>1, <1>2, <1>3

\* From a folder above p the way down to p begins with a child.
LEMMA WayDown ==
  ASSUME NEW p \in Paths, NEW a \in Above[p]
  PROVE  \E q \in Within(a) \ {a} : Parent[q] = a /\ p \in Within(q)
<1> DEFINE V == {r \in Paths : a # r /\ a \in Above[r] /\ (r = p \/ r \in Above[p])}
<1>0. a \in Paths /\ Above[p] \subseteq Paths /\ UpClosed(Above[p])
      /\ Parent[p] \in Above[p] \cup {None}
  BY AboveIsClosed
<1> SUFFICES ASSUME \A r \in V : Parent[r] # a
             PROVE  FALSE
  <2>1. ASSUME NEW r \in V PROVE r \in Within(a) \ {a} /\ p \in Within(r)
    BY DEF Within, Below
  <2> QED
    BY <2>1
<1>1. p \in V
  BY <1>0, TreeAssumption
<1>2. ASSUME NEW r \in V PROVE Parent[r] \in V \cup {None}
  <2>1. CASE Parent[r] # None
    <3>1. Parent[r] \in Paths /\ a \in Above[Parent[r]]
      BY <2>1, AboveStep
    <3>2. Parent[r] \in Above[p]
      BY <2>1, <1>0 DEF UpClosed
    <3> QED
      BY <3>1, <3>2
  <2> QED
    BY <2>1
<1>3. Above[p] \subseteq V
  BY <1>1, <1>2, AboveIsLeast DEF UpClosed
<1> QED
  BY <1>3

LEMMA TowardsIsBetween ==
  ASSUME NEW p \in Paths, NEW a \in Above[p]
  PROVE  Towards(a, p) \in Paths /\ Parent[Towards(a, p)] = a /\ p \in Within(Towards(a, p))
<1>1. PICK q \in Within(a) \ {a} : Parent[q] = a /\ p \in Within(q)
  BY WayDown
<1>2. /\ Towards(a, p) \in Within(a) \ {a}
      /\ Parent[Towards(a, p)] = a /\ p \in Within(Towards(a, p))
  BY <1>1 DEF Towards
<1> QED
  BY <1>2 DEF Within, Below

\* Of any folders above p one is the nearest.
LEMMA NearestAbove ==
  ASSUME NEW p \in Paths, NEW F, F \subseteq Above[p], F # {}
  PROVE  \E a \in F : F \subseteq {a} \cup Above[a]
<1> DEFINE W == {r \in Paths : F \subseteq {r} \cup Above[r]}
<1>0. Above[p] \subseteq Paths
  BY AboveIsClosed
<1> SUFFICES ASSUME \A r \in W : r \notin F
             PROVE  FALSE
  BY <1>0
<1>1. p \in W
  OBVIOUS
<1>2. ASSUME NEW r \in W PROVE Parent[r] \in W
  <2>1. F \subseteq Above[r]
    OBVIOUS
  <2>2. Parent[r] # None
    <3> SUFFICES ASSUME Parent[r] = None PROVE FALSE
      OBVIOUS
    <3>1. UpClosed({}) /\ {} \subseteq Paths /\ Parent[r] \in {} \cup {None}
      BY DEF UpClosed
    <3>2. Above[r] \subseteq {}
      BY <3>1, AboveIsLeast
    <3> QED
      BY <2>1, <3>2
  <2> QED
    BY <2>1, <2>2, AboveStep
<1>3. Above[p] \subseteq W
  <2>1. UpClosed(W) /\ W \subseteq Paths
    BY <1>2 DEF UpClosed
  <2>2. Parent[p] \in W
    BY <1>1, <1>2
  <2> HIDE DEF W
  <2> QED
    BY <2>1, <2>2, AboveIsLeast
<1> QED
  BY <1>0, <1>3

-----------------------------------------------------------------------------
(* The tree of rows *)

\* A folder and what is below it go together.
LEMMA UnderIsClosed ==
  ASSUME NEW i \in Ids
  PROVE  Under[i] \subseteq Ids /\ i \in Under[i] /\ DownClosed(Under[i])
<1>1. ASSUME NEW j \in Under[i], NEW k \in SubFolders(j) PROVE k \in Under[i]
  <2>1. k \in Ids
    BY DEF SubFolders, Present
  <2>2. ASSUME NEW S \in SUBSET Ids, i \in S, DownClosed(S) PROVE k \in S
    <3>1. j \in S
      BY <2>2 DEF Under
    <3> QED
      BY <3>1, <2>2 DEF DownClosed
  <2> QED
    BY <2>1, <2>2 DEF Under
<1> QED
  BY <1>1 DEF Under, DownClosed

LEMMA UnionIsClosed ==
  ASSUME NEW I, I \subseteq Ids
  PROVE  LET ids == UNION {Under[i] : i \in I}
         IN  ids \subseteq Ids /\ DownClosed(ids)
<1>1. \A i \in I : Under[i] \subseteq Ids /\ DownClosed(Under[i])
  BY UnderIsClosed
<1>2. \A X : \A j \in UNION {Under[i] : i \in X} : \E i \in X : j \in Under[i]
  OBVIOUS
<1> QED
  BY <1>1, <1>2 DEF DownClosed
-----------------------------------------------------------------------------
(* Ids *)

LEMMA CardinalityOfPaths == Cardinality(Paths) \in Nat
  BY ScannerAssumption, FS_CardinalityType

LEMMA LeastOf ==
  ASSUME NEW S \in SUBSET Nat, S # {}
  PROVE  \E n \in S : \A m \in S : n <= m
<1> DEFINE R == {ss \in Nat \X Nat : ss[1] < ss[2]}
<1>1. IsWellFoundedOn(R, Nat)
  BY NatLessThanWellFounded, Zenon DEF OpToRel
<1>2. PICK n \in S : \A m \in S : ~ (<<m, n>> \in R)
  <2>1. S \subseteq Nat
    OBVIOUS
  <2> HIDE DEF R
  <2> QED
    BY <2>1, <1>1, WFMin
<1>3. ASSUME NEW m \in S PROVE n <= m
  <2>1. m \in Nat /\ n \in Nat
    OBVIOUS
  <2>2. m < n => <<m, n>> \in R
    BY <2>1
  <2> QED
    BY <1>2, <2>1, <2>2
<1> QED
  BY <1>3

\* While a folder has no row an id is free, for there is an id for each.
LEMMA SomeIdIsFree ==
  ASSUME folders \in [Ids -> Rows \cup {None}], PathsDiffer,
         NEW p \in Paths, IdsOf(p) = {}
  PROVE  Ids \ Present # {}
<1> SUFFICES ASSUME Present = Ids PROVE FALSE
  BY DEF Present
<1> DEFINE f == [i \in Ids |-> folders[i].path]
<1>1. \A i \in Ids : folders[i] \in Rows
  BY DEF Present
<1>2. f \in [Ids -> Paths \ {p}]
  BY <1>1 DEF Rows, IdsOf
<1>3. f \in Injection(Ids, Paths \ {p})
  BY <1>2 DEF Injection, PathsDiffer, IsInjective
<1>4. IsFiniteSet(Paths \ {p}) /\ Cardinality(Paths \ {p}) = Cardinality(Paths) - 1
  BY ScannerAssumption, FS_RemoveElement
<1>5. IsFiniteSet(Ids) /\ Cardinality(Ids) = Cardinality(Paths)
  BY CardinalityOfPaths, FS_Interval DEF Ids
<1>6. Cardinality(Ids) <= Cardinality(Paths \ {p})
  BY <1>3, <1>4, FS_Injection
<1> QED
  BY <1>4, <1>5, <1>6, CardinalityOfPaths

LEMMA NewIdIsFree ==
  ASSUME folders \in [Ids -> Rows \cup {None}], PathsDiffer,
         NEW p \in Paths, IdsOf(p) = {}
  PROVE  NewId \in Ids /\ folders[NewId] = None
<1> DEFINE next == {i \in Ids : \A j \in Present : j < i}
           free == IF next = {} THEN Ids \ Present ELSE next
<1>1. next \subseteq Ids \ Present
  <2>1. \A i \in Ids : ~ (i < i)
    BY CardinalityOfPaths DEF Ids
  <2> QED
    BY <2>1
<1>2. free # {} /\ free \subseteq Ids \ Present
  BY <1>1, SomeIdIsFree
<1>3. Ids \subseteq Nat
  BY CardinalityOfPaths DEF Ids
<1>4. \E i \in free : \A j \in free : i <= j
  BY <1>2, <1>3, LeastOf
<1>5. NewId \in free
  BY <1>4 DEF NewId
<1> QED
  BY <1>2, <1>5 DEF Present
-----------------------------------------------------------------------------
(* How a step changes the rows *)

\* Only the queues are changed, or nothing.
QueueStep ==
  /\ UNCHANGED folders
  /\ folderstoscan' \subseteq Present /\ photostoscan' \subseteq {i \in Present : HasPhoto(i)}

\* A photo's row is changed, added or deleted.
PhotoStep ==
  /\ folderstoscan' \subseteq folderstoscan /\ photostoscan' = photostoscan
  /\ \E i \in Present, row \in Rows :
       /\ row.path = folders[i].path /\ row.parent = folders[i].parent
       /\ i \in photostoscan => row.photo.there
       /\ folders' = [folders EXCEPT ![i] = row]

\* Rows of folders are deleted with all below them.
DeleteStep ==
  \E ids \in SUBSET Ids :
    /\ DownClosed(ids) /\ folders' = Deleted(ids)
    /\ folderstoscan' = folderstoscan \ ids /\ photostoscan' = photostoscan \ ids

\* A row is added for a folder.
AddStep(p, parent) ==
  Addable(p, parent) /\ folders' = Added(p, parent) /\ UNCHANGED <<folderstoscan, photostoscan>>

LEMMA NumbersTyped == 0 \in Times /\ Times \subseteq Int /\ Ids \subseteq Nat \ {0}
  BY CardinalityOfPaths, ScannerAssumption DEF Times, Ids

LEMMA PhotoTyped ==
  ASSUME NEW row \in Rows, NEW photo \in Photos
  PROVE  /\ [row EXCEPT !.photo = photo] \in Rows
         /\ [row EXCEPT !.photo = photo].path = row.path
         /\ [row EXCEPT !.photo = photo].parent = row.parent
         /\ [row EXCEPT !.photo = photo].photo = photo
  BY DEF Rows, Photos

LEMMA PhotosTyped == NoPhoto \in Photos /\ NewPhoto \in Photos
  BY NumbersTyped DEF NoPhoto, NewPhoto, Photos

\* Giving the photo of one row is such a change.
LEMMA PhotoOfRow ==
  ASSUME folders \in [Ids -> Rows \cup {None}], NEW i \in Present, NEW photo \in Photos,
         i \in photostoscan => photo.there,
         folderstoscan' \subseteq folderstoscan, photostoscan' = photostoscan,
         folders' = [folders EXCEPT ![i].photo = photo]
  PROVE  PhotoStep
<1>1. folders[i] \in Rows
  BY DEF Present
<1>2. folders' = [folders EXCEPT ![i] = [folders[i] EXCEPT !.photo = photo]]
  OBVIOUS
<1> QED
  BY <1>1, <1>2, PhotoTyped DEF PhotoStep

LEMMA PhotoActions ==
  ASSUME TablesInv, DropPhotos \/ AddPhotos \/ UpdatePhoto \/ \E i \in Ids : DeletePhoto(i)
  PROVE  QueueStep \/ PhotoStep
<1>t. /\ folders \in [Ids -> Rows \cup {None}] /\ thread.data \in Times /\ clock \in Times
      /\ folderstoscan \subseteq Present /\ photostoscan \subseteq {i \in Present : HasPhoto(i)}
  BY DEF TablesInv, TypeOK
<1>p. ASSUME NEW i, i \in Ids, HasPhoto(i)
      PROVE  i \in Present /\ folders[i] \in Rows /\ folders[i].photo \in Photos
  BY <1>t, <1>p DEF Present, HasPhoto, Rows, Photos
<1>1. CASE DropPhotos
  <2> DEFINE i == thread.scan.id
             drop == thread.scan.oldphoto /\ thread.scan.newphoto = 0
  <2>1. CASE drop /\ HasPhoto(i) /\ ~(drop /\ i \in photostoscan)
    <3>1. i \in Ids
      BY <1>1 DEF DropPhotos, TablesInv, AtHand, ScanPlaces
    <3>2. /\ folders' = [folders EXCEPT ![i].photo = NoPhoto]
          /\ UNCHANGED <<folderstoscan, photostoscan>>
      BY <1>1, <2>1 DEF DropPhotos
    <3> QED
      BY <3>1, <3>2, <2>1, <1>p, <1>t, PhotosTyped, PhotoOfRow
  <2>2. CASE ~(drop /\ HasPhoto(i)) \/ (drop /\ i \in photostoscan)
    BY <1>1, <1>t, <2>2 DEF DropPhotos, Abort, dbVars, QueueStep
  <2> QED
    BY <2>1, <2>2
<1>2. CASE AddPhotos
  <2> DEFINE i == thread.scan.id
             new == thread.scan.newphoto # 0 /\ ~thread.scan.oldphoto
  <2>1. CASE new /\ i \in Present
    <3>1. /\ folders' = [folders EXCEPT ![i].photo = NewPhoto]
          /\ folderstoscan' = folderstoscan \ {i} /\ photostoscan' = photostoscan
      BY <1>2, <2>1 DEF AddPhotos
    <3> QED
      BY <3>1, <2>1, <1>t, PhotosTyped, PhotoOfRow DEF NewPhoto
  <2>2. CASE ~(new /\ i \in Present)
    BY <1>2, <1>t, <2>2 DEF AddPhotos, Abort, dbVars, QueueStep
  <2> QED
    BY <2>1, <2>2
<1>3. CASE UpdatePhoto
  <2> DEFINE i == thread.photo
             photo == [folders[i].photo EXCEPT !.data = thread.data, !.lastscan = clock]
  <2>1. CASE HasPhoto(i)
    <3>1. i \in Ids
      BY <1>3 DEF UpdatePhoto, TablesInv, AtHand
    <3>2. i \in Present /\ folders[i] \in Rows /\ folders[i].photo \in Photos
      BY <3>1, <2>1, <1>p
    <3>3. photo \in Photos /\ photo.there = folders[i].photo.there
      BY <3>2, <1>t DEF Photos
    <3>4. folders' = [folders EXCEPT ![i].photo = photo] /\ UNCHANGED <<folderstoscan, photostoscan>>
      BY <1>3, <2>1 DEF UpdatePhoto, Scanned
    <3> QED
      BY <3>2, <3>3, <3>4, <2>1, <1>t, PhotoOfRow DEF HasPhoto
  <2>2. CASE ~HasPhoto(i)
    BY <1>3, <1>t, <2>2 DEF UpdatePhoto, QueueStep
  <2> QED
    BY <2>1, <2>2
<1>4. ASSUME NEW i \in Ids, DeletePhoto(i)
      PROVE  QueueStep \/ PhotoStep
  <2>1. CASE i \in photostoscan
    BY <1>4, <1>t, <2>1 DEF DeletePhoto, Abort, dbVars, QueueStep
  <2>2. CASE i \notin photostoscan
    <3>1. /\ folders' = [folders EXCEPT ![i].photo = NoPhoto] /\ HasPhoto(i)
          /\ UNCHANGED <<folderstoscan, photostoscan>>
      BY <1>4, <2>2 DEF DeletePhoto
    <3> QED
      BY <3>1, <2>2, <1>p, <1>t, PhotosTyped, PhotoOfRow
  <2> QED
    BY <2>1, <2>2
<1> QED
  BY <1>1, <1>2, <1>3, <1>4

LEMMA DeleteActions ==
  ASSUME TablesInv, DropFolders \/ \E p \in Paths, e \in Paths \cup {None} : AddTree(p, e)
  PROVE  QueueStep \/ DeleteStep
<1>t. folderstoscan \subseteq Present /\ photostoscan \subseteq {i \in Present : HasPhoto(i)}
  BY DEF TablesInv, TypeOK
<1>1. CASE DropFolders
  <2>1. PICK ids \in Levels :
          /\ \A i \in ids : SubFolders(i) = {}
          /\ IF ids \cap photostoscan # {} THEN Abort /\ UNCHANGED counters
             ELSE /\ folders' = Deleted(ids) /\ folderstoscan' = folderstoscan \ ids
                  /\ UNCHANGED photostoscan
    BY <1>1 DEF DropFolders
  <2>2. Vanished \subseteq Ids
    BY DEF Vanished, TablesInv, TypeOK, Scans
  <2>3. \A i : SubFolders(i) \subseteq Ids
    BY DEF SubFolders, Present
  <2>4. ids \subseteq Ids /\ DownClosed(ids)
    BY <2>1, <2>2, <2>3 DEF Levels, DownClosed
  <2>5. CASE ids \cap photostoscan # {}
    BY <1>t, <2>1, <2>5 DEF Abort, dbVars, QueueStep
  <2>6. CASE ids \cap photostoscan = {}
    BY <2>1, <2>4, <2>6 DEF DeleteStep
  <2> QED
    BY <2>5, <2>6
<1>2. ASSUME NEW p \in Paths, NEW e, AddTree(p, e)
      PROVE  QueueStep \/ DeleteStep
  <2> DEFINE ids == UNION {Under[i] : i \in IdsOf(e)}
  <2>1. ids \subseteq Ids /\ DownClosed(ids)
    <3>1. IdsOf(e) \subseteq Ids
      BY DEF IdsOf, Present
    <3> QED
      BY <3>1, UnionIsClosed
  <2>2. CASE ~Deletable(ids)
    BY <1>2, <1>t, <2>2 DEF AddTree, Abort, dbVars, QueueStep
  <2>3. CASE Deletable(ids)
    <3>1. folders' = Deleted(ids) /\ UNCHANGED <<folderstoscan, photostoscan>>
      BY <1>2, <2>3 DEF AddTree
    <3> HIDE DEF ids
    <3> QED
      BY <3>1, <2>1, <2>3 DEF DeleteStep, Deletable
  <2> QED
    BY <2>2, <2>3
<1> QED
  BY <1>1, <1>2

LEMMA RowsStep ==
  ASSUME TablesInv, [Next]_vars
  PROVE  \/ QueueStep
         \/ PhotoStep
         \/ DeleteStep
         \/ \E q \in Paths : AddSubFolder(q) /\ AddStep(q, thread.scan.id)
         \/ AddDir /\ AddStep(ui.path, ui.parent)
<1>t. folderstoscan \subseteq Present /\ photostoscan \subseteq {i \in Present : HasPhoto(i)}
  BY DEF TablesInv, TypeOK
<1>1. ASSUME NEW q \in Paths, AddSubFolder(q)
      PROVE  QueueStep \/ AddStep(q, thread.scan.id)
  BY <1>1, <1>t DEF AddSubFolder, AddStep, Abort, dbVars, QueueStep
<1>2. CASE AddDir
  BY <1>2, <1>t DEF AddDir, AddStep, Abort, dbVars, QueueStep
<1>3. CASE QueueFolders
  BY <1>3, <1>t DEF QueueFolders, Abort, dbVars, QueueStep
<1>4. CASE QueuePhotos
  <2> DEFINE i == thread.scan.id
             found == thread.scan.newphoto # 0
  <2>1. CASE found /\ ~HasPhoto(i)
    BY <1>4, <1>t, <2>1 DEF QueuePhotos, Abort, dbVars, QueueStep
  <2>2. CASE ~(found /\ ~HasPhoto(i))
    <3>1. i \in Ids
      BY <1>4 DEF QueuePhotos, TablesInv, AtHand, ScanPlaces
    <3>2. HasPhoto(i) => i \in Present
      BY <3>1 DEF HasPhoto, Present
    <3>3. /\ photostoscan' = photostoscan \cup {j \in {i} : found /\ NeedsScan(j)}
          /\ UNCHANGED <<folders, folderstoscan>>
      BY <1>4, <2>2 DEF QueuePhotos
    <3> QED
      BY <3>2, <3>3, <2>2, <1>t DEF QueueStep
  <2> QED
    BY <2>1, <2>2
<1>5. ASSUME NEW i \in Ids, ListFolder(i) \/ TakePhoto(i) PROVE QueueStep
  BY <1>5, <1>t DEF ListFolder, TakePhoto, Abort, dbVars, QueueStep
<1>6. CASE FindFoldersToScan \/ FoldersDone
  BY <1>6, <1>t DEF FindFoldersToScan, FoldersDone, dbVars, QueueStep
<1>7. CASE FindPhotosToScan \/ ReportScanDone \/ ReadExif \/ PhotosDone
  BY <1>7, <1>t DEF FindPhotosToScan, ReportScanDone, ReadExif, PhotosDone, Abort, dbVars,
     QueueStep
<1>8. CASE ThreadStep
  BY <1>1, <1>3, <1>4, <1>5, <1>6, <1>7, <1>8, PhotoActions, DeleteActions DEF ThreadStep
<1>9. ASSUME NEW p \in Paths, FindFolder(p) \/ Rescan(p) PROVE QueueStep
  BY <1>9, <1>t DEF FindFolder, Rescan, dbVars, IdsOf, QueueStep
<1>10. CASE FindDir \/ RescanAll \/ WakeOne
  BY <1>10, <1>t DEF FindDir, RescanAll, WakeOne, dbVars, QueueStep
<1>11. CASE UiStep
  BY <1>2, <1>9, <1>10, <1>11, PhotoActions, DeleteActions DEF UiStep
<1>12. CASE WorldStep \/ Leave \/ Start \/ UNCHANGED vars
  BY <1>12, <1>t DEF WorldStep, WritePhoto, RemovePhoto, MakeFolder, RemoveFolder, Changes,
     Leave, Start, vars, dbVars, QueueStep
<1> QED
  BY <1>8, <1>11, <1>12 DEF Next

\* Which rows there are after each change.
LEMMA PhotoStepRows ==
  ASSUME folders \in [Ids -> Rows \cup {None}], PhotoStep
  PROVE  /\ folders' \in [Ids -> Rows \cup {None}] /\ Present' = Present
         /\ \A j \in Present : /\ folders'[j].path = folders[j].path
                               /\ folders'[j].parent = folders[j].parent
<1>1. PICK i \in Present, row \in Rows :
        /\ row.path = folders[i].path /\ row.parent = folders[i].parent
        /\ folders' = [folders EXCEPT ![i] = row]
  BY DEF PhotoStep
<1>2. i \in Ids /\ folders[i] # None /\ row # None
  BY RowAssumption DEF Present
<1>3. \A j \in Ids : folders'[j] = IF j = i THEN row ELSE folders[j]
  BY <1>1, <1>2
<1>4. Present' = Present
  BY <1>2, <1>3 DEF Present
<1> QED
  BY <1>1, <1>2, <1>3, <1>4 DEF Present

LEMMA DeletedRows ==
  ASSUME folders \in [Ids -> Rows \cup {None}], NEW ids \in SUBSET Ids,
         folders' = Deleted(ids)
  PROVE  /\ folders' \in [Ids -> Rows \cup {None}] /\ Present' = Present \ ids
         /\ \A j \in Present' : folders'[j] = folders[j]
  BY DEF Deleted, Present

LEMMA AddedRows ==
  ASSUME folders \in [Ids -> Rows \cup {None}], PathsDiffer,
         NEW p \in Paths, NEW parent \in Ids \cup {0}, AddStep(p, parent)
  PROVE  /\ folders' \in [Ids -> Rows \cup {None}]
         /\ NewId \in Ids \ Present /\ Present' = Present \cup {NewId}
         /\ folders'[NewId].path = p /\ folders'[NewId].parent = parent
         /\ \A j \in Present :
              /\ folders'[j].path = folders[j].path /\ folders'[j].photo = folders[j].photo
              /\ folders'[j].parent = IF folders[j].parent = 0 /\ Parent[folders[j].path] = p
                                      THEN NewId ELSE folders[j].parent
<1> DEFINE new == [path |-> p, parent |-> parent, photo |-> NoPhoto]
<1>1. NewId \in Ids /\ folders[NewId] = None
  BY NewIdIsFree DEF AddStep, Addable
<1>2. new \in Rows
  BY PhotosTyped DEF Rows, Photos
<1>3. folders'[NewId] = new
  BY <1>1 DEF AddStep, Added
<1>4. ASSUME NEW j \in Present
      PROVE  /\ folders'[j] \in Rows
             /\ folders'[j].path = folders[j].path /\ folders'[j].photo = folders[j].photo
             /\ folders'[j].parent = IF folders[j].parent = 0 /\ Parent[folders[j].path] = p
                                     THEN NewId ELSE folders[j].parent
  <2>1. j \in Ids /\ folders[j] \in Rows /\ folders[j] # None /\ j # NewId
    BY <1>1 DEF Present
  <2>2. folders'[j] = IF folders[j].parent = 0 /\ Parent[folders[j].path] = p
                      THEN [folders[j] EXCEPT !.parent = NewId] ELSE folders[j]
    BY <2>1 DEF AddStep, Added
  <2> QED
    BY <1>1, <2>1, <2>2 DEF Rows
<1>5. \A j \in Ids \ (Present \cup {NewId}) : folders'[j] = None
  BY DEF AddStep, Added, Present
<1>6. folders' = [j \in Ids |-> folders'[j]]
  BY DEF AddStep, Added
<1>7. folders' \in [Ids -> Rows \cup {None}]
  BY <1>2, <1>3, <1>4, <1>5, <1>6
<1>8. Present' = Present \cup {NewId}
  BY <1>1, <1>2, <1>3, <1>4, <1>5, RowAssumption DEF Present
<1> QED
  BY <1>1, <1>3, <1>4, <1>7, <1>8 DEF Present

LEMMA RowsStaySound ==
  ASSUME TablesInv, [Next]_vars
  PROVE  /\ folders' \in [Ids -> Rows \cup {None}] /\ PathsDiffer'
         /\ folderstoscan' \subseteq Present'
         /\ photostoscan' \subseteq {i \in Present' : HasPhoto(i)'}
<1>t. /\ folders \in [Ids -> Rows \cup {None}] /\ PathsDiffer
      /\ folderstoscan \subseteq Present /\ photostoscan \subseteq {i \in Present : HasPhoto(i)}
  BY DEF TablesInv, TypeOK
<1>1. CASE QueueStep
  BY <1>1, <1>t DEF QueueStep, PathsDiffer, Present, HasPhoto
<1>2. CASE PhotoStep
  <2>1. photostoscan' = photostoscan /\ \A j \in photostoscan : HasPhoto(j)'
    <3>1. PICK i \in Present, row \in Rows :
            /\ i \in photostoscan => row.photo.there
            /\ folders' = [folders EXCEPT ![i] = row]
      BY <1>2 DEF PhotoStep
    <3>2. ASSUME NEW j \in photostoscan PROVE HasPhoto(j)'
      <4>1. i \in Ids /\ j \in Ids /\ HasPhoto(j) /\ row # None
        BY <1>t, RowAssumption DEF Present
      <4> QED
        BY <3>1, <4>1, <1>t DEF HasPhoto
    <3> QED
      BY <3>2, <1>2 DEF PhotoStep
  <2>2. folders' \in [Ids -> Rows \cup {None}] /\ Present' = Present
        /\ \A j \in Present : folders'[j].path = folders[j].path
    BY <1>2, <1>t, PhotoStepRows
  <2>3. PathsDiffer'
    BY <2>2, <1>t DEF PathsDiffer
  <2>4. folderstoscan' \subseteq folderstoscan
    BY <1>2 DEF PhotoStep
  <2> QED
    BY <2>1, <2>2, <2>3, <2>4, <1>t
<1>3. CASE DeleteStep
  <2>1. PICK ids \in SUBSET Ids :
          /\ folders' = Deleted(ids)
          /\ folderstoscan' = folderstoscan \ ids /\ photostoscan' = photostoscan \ ids
    BY <1>3 DEF DeleteStep
  <2>2. /\ folders' \in [Ids -> Rows \cup {None}] /\ Present' = Present \ ids
        /\ \A j \in Present' : folders'[j] = folders[j]
    BY <2>1, <1>t, DeletedRows
  <2>3. PathsDiffer'
    BY <2>2, <1>t DEF PathsDiffer
  <2>4. \A j \in Present' : HasPhoto(j) => HasPhoto(j)'
    BY <2>2 DEF HasPhoto
  <2> QED
    BY <2>1, <2>2, <2>3, <2>4, <1>t
<1>4. ASSUME NEW p \in Paths, NEW parent \in Ids \cup {0}, AddStep(p, parent)
      PROVE  /\ folders' \in [Ids -> Rows \cup {None}] /\ PathsDiffer'
             /\ folderstoscan' \subseteq Present'
             /\ photostoscan' \subseteq {i \in Present' : HasPhoto(i)'}
  <2>1. \A j \in Present : folders[j].path # p
    BY <1>4 DEF AddStep, Addable, IdsOf
  <2>2. PathsDiffer' /\ folders' \in [Ids -> Rows \cup {None}]
    BY <2>1, <1>4, <1>t, AddedRows DEF PathsDiffer
  <2>3. \A j \in Present : j \in Present' /\ folders'[j] # None /\ folders'[j].photo = folders[j].photo
    BY <1>4, <1>t, AddedRows DEF Present
  <2> QED
    BY <2>2, <2>3, <1>4, <1>t DEF AddStep, HasPhoto
<1>5. thread.scan.id \in Ids \cup {0} /\ ui.parent \in Ids \cup {0}
  BY DEF TablesInv, TypeOK, Scans
<1>6. AddDir => ui.path \in Paths
  BY DEF AddDir, TablesInv, AtHand
<1> QED
  BY <1>1, <1>2, <1>3, <1>4, <1>5, <1>6, RowsStep
-----------------------------------------------------------------------------
(* The thread *)

ThreadOK == thread \in Threads
            /\ (thread.at \in ScanPlaces => thread.scan.id \in Ids)
            /\ (thread.at \in {"read", "update"} => thread.photo \in Ids)

LEMMA AsleepTyped ==
  /\ Asleep \in Threads
  /\ \A at \in {"woken", "off"} : [Asleep EXCEPT !.at = at] \in Threads
  /\ \A at \in {"woken", "off"}, count \in BOOLEAN :
       [Asleep EXCEPT !.at = at, !.count = count] \in Threads
<1>1. NoScan \in Scans
  BY NumbersTyped DEF NoScan, Scans
<1> QED
  BY <1>1, NumbersTyped DEF Asleep, Threads, Places

\* A step to a place that needs nothing at hand.
LEMMA RestingThread ==
  ASSUME thread' \in Threads, thread'.at \notin ScanPlaces \cup {"read", "update"}
  PROVE  ThreadOK'
  BY DEF ThreadOK

LEMMA OffThread ==
  ASSUME thread' = [Asleep EXCEPT !.at = "off"]
  PROVE  ThreadOK'
<1>1. thread' \in Threads /\ thread'.at = "off"
  BY AsleepTyped DEF Asleep
<1> QED
  BY <1>1, RestingThread DEF ScanPlaces

LEMMA GotoTyped ==
  ASSUME thread \in Threads, NEW place \in Places, Goto(place)
  PROVE  thread' \in Threads /\ thread'.at = place /\ thread'.scan = thread.scan
         /\ thread'.photo = thread.photo
  BY DEF Goto, Threads

LEMMA ThreadStaysSound ==
  ASSUME TablesInv, [Next]_vars
  PROVE  ThreadOK'
<1>t. /\ thread \in Threads /\ folderstoscan \subseteq Ids /\ photostoscan \subseteq Ids
      /\ folders \in [Ids -> Rows \cup {None}] /\ PathsDiffer
      /\ known \in [Ids -> Paths \cup {None}] /\ disk \in [Paths -> Times \cup {Absent, Gone}]
      /\ ThreadOK
  BY DEF TablesInv, TypeOK, AtHand, Threads, Present, ThreadOK
<1>f. /\ thread.ids \subseteq Ids /\ thread.scan \in Scans /\ thread.photo \in Ids \cup {0}
      /\ thread.data \in Times /\ thread.busy \in BOOLEAN /\ thread.count \in BOOLEAN
  BY <1>t DEF Threads
<1>a. Abort => ThreadOK'
  BY OffThread DEF Abort, Off
<1>g. ASSUME NEW place \in Places, Goto(place),
             place \in {"read", "update"} => FALSE,
             place \in ScanPlaces => thread.at \in ScanPlaces
      PROVE  ThreadOK'
  BY <1>g, <1>t, GotoTyped DEF ThreadOK
<1>1. CASE FindFoldersToScan
  <2>1. PICK ids \in SUBSET Ids, busy \in BOOLEAN, at \in {"folders", "findphotos"} :
          \/ thread' = [thread EXCEPT !.at = at, !.busy = busy]
          \/ thread' = [thread EXCEPT !.at = at, !.ids = ids, !.busy = busy]
    BY <1>1, <1>t DEF FindFoldersToScan
  <2>2. thread' \in Threads /\ thread'.at = at
    BY <2>1, <1>t DEF Threads, Places
  <2> QED
    BY <2>2, RestingThread DEF ScanPlaces
<1>2. ASSUME NEW i \in Ids, ListFolder(i) PROVE ThreadOK'
  <2>1. CASE known[i] = None /\ folders[i] = None
    BY <1>2, <2>1, <1>a DEF ListFolder
  <2>2. CASE ~(known[i] = None /\ folders[i] = None)
    <3> DEFINE p == IF known[i] # None THEN known[i] ELSE folders[i].path
    <3>1. p \in Paths
      BY <2>2, <1>t DEF Rows
    <3> DEFINE old == [q \in Paths |-> LET js == {j \in SubFolders(i) : folders[j].path = q}
                                       IN  IF js = {} THEN 0 ELSE CHOOSE j \in js : TRUE]
               new == NewSubdirs(p)
               op == HasPhoto(i)
               np == IF Exists(p) THEN disk[p] ELSE 0
    <3>2. thread' = [thread EXCEPT !.at = "dropphotos",
                       !.scan = [id |-> i, oldsubdirs |-> old, newsubdirs |-> new,
                                 oldphoto |-> op, newphoto |-> np]]
      BY <1>2, <2>2 DEF ListFolder
    <3>3. old \in [Paths -> Ids \cup {0}]
      <4>1. \A js : js # {} => (CHOOSE j \in js : TRUE) \in js
        OBVIOUS
      <4>2. \A j \in SubFolders(i) : j \in Ids
        BY DEF SubFolders, Present
      <4> QED
        BY <4>1, <4>2
    <3>4. new \subseteq Paths /\ op \in BOOLEAN
      <4>1. op \in BOOLEAN
        BY <1>t DEF HasPhoto, Rows
      <4> QED
        BY <4>1 DEF NewSubdirs, Children
    <3>5. np \in Times
      <4>1. disk[p] \in Times \cup {Absent, Gone}
        BY <3>1, <1>t
      <4> QED
        BY <4>1, NumbersTyped DEF Exists, Absent, Gone
    <3>6. [id |-> i, oldsubdirs |-> old, newsubdirs |-> new, oldphoto |-> op,
           newphoto |-> np] \in Scans
      BY <3>3, <3>4, <3>5 DEF Scans
    <3> HIDE DEF old, new, op, np
    <3> QED
      BY <3>2, <3>6, <1>t DEF ThreadOK, Threads, Places
  <2> QED
    BY <2>1, <2>2
<1>3. CASE DropPhotos \/ DropFolders \/ AddPhotos
  BY <1>3, <1>a, <1>g DEF DropPhotos, DropFolders, AddPhotos, Places, ScanPlaces
<1>4. ASSUME NEW q \in Paths, AddSubFolder(q) PROVE ThreadOK'
  <2>1. CASE Addable(q, thread.scan.id)
    <3>1. NewId \in Ids
      BY <2>1, <1>t, NewIdIsFree DEF Addable
    <3>2. thread' = [thread EXCEPT !.scan = [thread.scan EXCEPT
                       !.oldsubdirs = [thread.scan.oldsubdirs EXCEPT ![q] = NewId]]]
      BY <1>4, <2>1 DEF AddSubFolder
    <3>3. [thread.scan.oldsubdirs EXCEPT ![q] = NewId] \in [Paths -> Ids \cup {0}]
      BY <3>1, <1>f DEF Scans
    <3>4. PICK s : s = [thread.scan EXCEPT
                          !.oldsubdirs = [thread.scan.oldsubdirs EXCEPT ![q] = NewId]]
      OBVIOUS
    <3>5. s \in Scans /\ s.id = thread.scan.id
      BY <3>3, <3>4, <1>f DEF Scans
    <3>6. thread' = [thread EXCEPT !.scan = s]
      BY <3>2, <3>4
    <3> QED
      BY <3>5, <3>6, <1>t DEF ThreadOK, Threads
  <2>2. CASE ~Addable(q, thread.scan.id)
    BY <1>4, <2>2, <1>a DEF AddSubFolder
  <2> QED
    BY <2>1, <2>2
<1>5. CASE QueueFolders
  <2>1. CASE ~Abort
    <3>1. PICK b \in BOOLEAN : thread' = [thread EXCEPT !.at = "queuephotos", !.count = b]
      <4>1. \A S : (thread.count \/ S # {}) \in BOOLEAN
        BY <1>f
      <4> QED
        BY <1>5, <2>1, <4>1 DEF QueueFolders
    <3>2. thread.at \in ScanPlaces
      BY <1>5 DEF QueueFolders, ScanPlaces
    <3> QED
      BY <3>1, <3>2, <1>t DEF ThreadOK, Threads, Places
  <2> QED
    BY <2>1, <1>a
<1>6. CASE QueuePhotos
  <2>1. CASE ~Abort
    <3> DEFINE i == thread.scan.id
    <3>1. PICK b \in BOOLEAN :
            thread' = [thread EXCEPT !.at = "folders", !.ids = @ \ {i}, !.scan = NoScan,
                                     !.count = b]
      <4>1. \A S : (thread.count \/ S # {}) \in BOOLEAN
        BY <1>f
      <4> QED
        BY <1>6, <2>1, <4>1 DEF QueuePhotos
    <3>2. NoScan \in Scans
      BY NumbersTyped DEF NoScan, Scans
    <3>3. thread' \in Threads /\ thread'.at = "folders"
      BY <3>1, <3>2, <1>t DEF Threads, Places
    <3> QED
      BY <3>3, RestingThread DEF ScanPlaces
  <2> QED
    BY <2>1, <1>a
<1>7. CASE FoldersDone \/ PhotosDone
  BY <1>7, <1>g DEF FoldersDone, PhotosDone, Places, ScanPlaces
<1>8. CASE FindPhotosToScan
  <2>1. CASE photostoscan # {}
    <3>1. PICK ids \in SUBSET Ids :
            thread' = [thread EXCEPT !.at = "photos", !.ids = ids, !.busy = TRUE]
      BY <1>8, <2>1, <1>t DEF FindPhotosToScan
    <3>2. thread' \in Threads /\ thread'.at = "photos"
      BY <3>1, <1>t DEF Threads, Places
    <3> QED
      BY <3>2, RestingThread DEF ScanPlaces
  <2>2. CASE photostoscan = {}
    <3>1. PICK place \in {"woken", "report", "wait"} : Goto(place)
      BY <1>8, <2>2, <1>f DEF FindPhotosToScan
    <3> QED
      BY <3>1, <1>g DEF Places, ScanPlaces
  <2> QED
    BY <2>1, <2>2
<1>9. CASE ReportScanDone
  <2>1. thread' \in Threads /\ thread'.at = "wait"
    BY <1>9, AsleepTyped DEF ReportScanDone, Asleep
  <2> QED
    BY <2>1, RestingThread DEF ScanPlaces
<1>10. ASSUME NEW i \in Ids, TakePhoto(i) PROVE ThreadOK'
  <2>1. thread' = [thread EXCEPT !.at = "read", !.ids = @ \ {i}, !.photo = i]
    BY <1>10 DEF TakePhoto
  <2> QED
    BY <2>1, <1>t DEF ThreadOK, Threads, Places, ScanPlaces
<1>11. CASE ReadExif
  <2>1. CASE HasPhoto(thread.photo)
    <3>1. thread.photo \in Ids
      BY <1>11, <1>t DEF ReadExif, ThreadOK
    <3>2. folders[thread.photo].path \in Paths
      BY <3>1, <2>1, <1>t DEF HasPhoto, Rows
    <3>3. disk[folders[thread.photo].path] \in Times \cup {Absent, Gone}
      BY <3>2, <1>t
    <3>4. disk[folders[thread.photo].path] > 0 => disk[folders[thread.photo].path] \in Times
      BY <3>3, NumbersTyped DEF Absent, Gone
    <3>5. \/ \E t \in Times : thread' = [thread EXCEPT !.at = "update", !.data = t]
          \/ thread' = [thread EXCEPT !.at = "photos", !.photo = 0]
      BY <1>11, <2>1, <3>4 DEF ReadExif
    <3> QED
      BY <3>1, <3>5, <1>t DEF ThreadOK, Threads, Places, ScanPlaces
  <2> QED
    BY <1>11, <2>1, <1>a DEF ReadExif
<1>12. CASE UpdatePhoto
  <2>1. thread' = [thread EXCEPT !.at = "photos", !.photo = 0, !.data = 0]
    BY <1>12 DEF UpdatePhoto
  <2> QED
    BY <2>1, <1>t, NumbersTyped DEF ThreadOK, Threads, Places, ScanPlaces
<1>13. CASE WakeOne
  <2>1. CASE thread.at = "wait"
    <3>1. Goto("woken")
      BY <1>13, <2>1 DEF WakeOne, Goto
    <3> QED
      BY <3>1, <1>g DEF Places, ScanPlaces
  <2>2. CASE thread.at # "wait"
    BY <1>13, <2>2, <1>t DEF WakeOne, ThreadOK
  <2> QED
    BY <2>1, <2>2
<1>14. CASE Start
  <2>1. \E count \in BOOLEAN : thread' = [Asleep EXCEPT !.at = "woken", !.count = count]
    BY <1>14 DEF Start
  <2>2. thread' \in Threads /\ thread'.at = "woken"
    BY <2>1, AsleepTyped DEF Asleep
  <2> QED
    BY <2>2, RestingThread DEF ScanPlaces
<1>15. UNCHANGED thread => ThreadOK'
  BY <1>t DEF ThreadOK
<1>16. CASE ThreadStep
  BY <1>1, <1>2, <1>3, <1>4, <1>5, <1>6, <1>7, <1>8, <1>9, <1>10, <1>11, <1>12, <1>16
     DEF ThreadStep
<1>17. CASE UiStep
  <2>1. ASSUME NEW p \in Paths, NEW e, FindFolder(p) \/ AddTree(p, e) \/ Rescan(p)
        PROVE  ThreadOK'
    BY <2>1, <1>a, <1>15 DEF FindFolder, AddTree, Rescan
  <2>2. ASSUME NEW i \in Ids, DeletePhoto(i) PROVE ThreadOK'
    BY <2>2, <1>a, <1>15 DEF DeletePhoto
  <2>3. CASE FindDir \/ AddDir \/ RescanAll
    BY <2>3, <1>a, <1>15 DEF FindDir, AddDir, RescanAll
  <2> QED
    BY <1>13, <1>17, <2>1, <2>2, <2>3 DEF UiStep
<1>18. CASE WorldStep
  BY <1>15, <1>18 DEF WorldStep, WritePhoto, RemovePhoto, MakeFolder, RemoveFolder, Changes
<1>19. CASE Leave
  BY <1>19, OffThread DEF Leave, Off
<1> QED
  BY <1>14, <1>15, <1>16, <1>17, <1>18, <1>19 DEF Next, vars
-----------------------------------------------------------------------------
(* The interface *)

UiOK == /\ ui \in Uis
        /\ ui.at = "find" => ui.goal \in Paths
        /\ ui.at = "add" => ui.path \in Paths /\ ui.goal \in Within(ui.path)

LEMMA RestingUi ==
  ASSUME NEW at \in {"idle", "rescan", "wake"}, NEW roots \in SUBSET Paths,
         ui' = [AtRest EXCEPT !.at = at, !.roots = roots]
  PROVE  UiOK'
  BY DEF UiOK, Uis, AtRest

LEMMA FoundTyped ==
  ASSUME rev \in [Paths -> Ids \cup {0}], NEW p \in Paths
  PROVE  /\ FoundId(p) \in Ids \cup {0}
         /\ rev[p] = 0 => FoundId(p) \in IdsOf(p) \/ (FoundId(p) = 0 /\ IdsOf(p) = {})
         /\ rev[p] # 0 => FoundId(p) = rev[p]
<1>1. IdsOf(p) # {} => (CHOOSE i \in IdsOf(p) : TRUE) \in IdsOf(p)
  OBVIOUS
<1> QED
  BY <1>1 DEF FoundId, IdsOf, Present

\* What findDirOrAdd does: the goal is known, or becomes a root, or the way to
\* it begins at the nearest folder that is known.
FindGoal ==
  /\ rev' = [rev EXCEPT ![ui.goal] = FoundId(ui.goal)]
  /\ ui' = [AtRest EXCEPT !.at = "rescan", !.roots = {ui.goal}]
FindNone ==
  /\ \/ \A a \in Above[ui.goal] : FoundId(a) = 0
     \/ excludedtrees # {}
  /\ ui' = [ui EXCEPT !.at = "add", !.path = ui.goal] /\ UNCHANGED rev
FindNearest(a) ==
  /\ FoundId(a) # 0
  /\ rev' = [rev EXCEPT ![a] = FoundId(a)]
  /\ ui' = [ui EXCEPT !.at = "add", !.path = Towards(a, ui.goal), !.parent = FoundId(a)]

LEMMA FindDirStep ==
  ASSUME FindDir, ui.goal \in Paths
  PROVE  FindGoal \/ FindNone \/ \E a \in Above[ui.goal] : FindNearest(a)
<1> DEFINE p == ui.goal
           found == {a \in Above[p] : FoundId(a) # 0}
           a == CHOOSE b \in found : found \subseteq {b} \cup Above[b]
           between == Above[p] \cap Below(a)
<1>1. CASE FoundId(p) # 0
  BY <1>1 DEF FindDir, FindGoal
<1>2. CASE FoundId(p) = 0 /\ (found = {} \/ between \cap excludedtrees # {})
  <2>1. (\A b \in Above[p] : FoundId(b) = 0) \/ excludedtrees # {}
    BY <1>2
  <2>2. ui' = [ui EXCEPT !.at = "add", !.path = ui.goal] /\ UNCHANGED rev
    BY <1>2 DEF FindDir
  <2> QED
    BY <2>1, <2>2 DEF FindNone
<1>3. CASE FoundId(p) = 0 /\ ~(found = {} \/ between \cap excludedtrees # {})
  <2>1. \E b \in found : found \subseteq {b} \cup Above[b]
    <3>1. found \subseteq Above[p] /\ found # {} /\ p \in Paths
      BY <1>3
    <3> HIDE DEF found, p
    <3> QED
      BY <3>1, NearestAbove
  <2>2. a \in found
    BY <2>1
  <2>3. /\ rev' = [rev EXCEPT ![a] = FoundId(a)]
        /\ ui' = [ui EXCEPT !.at = "add", !.path = Towards(a, p), !.parent = FoundId(a)]
    BY <1>3 DEF FindDir
  <2> HIDE DEF a
  <2> QED
    BY <2>2, <2>3 DEF FindNearest
<1> QED
  BY <1>1, <1>2, <1>3

LEMMA UiStaysSound ==
  ASSUME TablesInv, [Next]_vars
  PROVE  UiOK'
<1>t. /\ folders \in [Ids -> Rows \cup {None}] /\ PathsDiffer
      /\ rev \in [Paths -> Ids \cup {0}] /\ UiOK /\ ui \in Uis
  BY DEF TablesInv, TypeOK, AtHand, Uis, UiOK
<1>r. ASSUME ui' = AtRest PROVE UiOK'
  BY <1>r DEF UiOK, Uis, AtRest
<1>a. Abort => UiOK'
  BY <1>r DEF Abort, Off
<1>u. UNCHANGED ui => UiOK'
  BY <1>t DEF UiOK
<1>1. ASSUME NEW p \in Paths, NEW e, AddTree(p, e) PROVE UiOK'
  <2>1. Abort \/ ui' = [AtRest EXCEPT !.at = "find", !.goal = p]
    BY <1>1 DEF AddTree
  <2> QED
    BY <2>1, <1>a DEF UiOK, Uis, AtRest
<1>2. CASE FindDir
  <2>g. ui.goal \in Paths
    BY <1>2, <1>t DEF FindDir, UiOK
  <2>1. CASE FindGoal
    BY <2>1, <2>g, RestingUi DEF FindGoal
  <2>2. CASE FindNone
    BY <2>2, <2>g, <1>t DEF FindNone, UiOK, Uis, Within
  <2>3. ASSUME NEW a \in Above[ui.goal], FindNearest(a) PROVE UiOK'
    <3>1. a \in Paths
      BY <2>g, AboveIsClosed
    <3>2. FoundId(a) \in Ids \cup {0}
      BY <3>1, <1>t, FoundTyped
    <3>3. /\ Towards(a, ui.goal) \in Paths
          /\ ui.goal \in Within(Towards(a, ui.goal))
      BY <2>g, TowardsIsBetween
    <3>4. ui' = [ui EXCEPT !.at = "add", !.path = Towards(a, ui.goal), !.parent = FoundId(a)]
      BY <2>3 DEF FindNearest
    <3>5. ui' \in Uis /\ ui'.path = Towards(a, ui.goal) /\ ui'.goal = ui.goal /\ ui'.at = "add"
      BY <3>2, <3>3, <3>4, <1>t DEF Uis
    <3>6. ui'.goal \in Within(ui'.path)
      BY <3>3, <3>5
    <3> QED
      BY <3>3, <3>5, <3>6 DEF UiOK, Within, Below
  <2> QED
    BY <1>2, <2>g, <2>1, <2>2, <2>3, FindDirStep
<1>3. CASE AddDir
  <2>0. ui.path \in Paths /\ ui.goal \in Within(ui.path)
    BY <1>3, <1>t DEF AddDir, UiOK
  <2>1. CASE ~Addable(ui.path, ui.parent)
    BY <1>3, <2>1, <1>a DEF AddDir
  <2>2. CASE Addable(ui.path, ui.parent) /\ ui.path = ui.goal
    <3>1. ui' = [AtRest EXCEPT !.at = "rescan", !.roots = {ui.goal}]
      BY <1>3, <2>2 DEF AddDir
    <3> QED
      BY <3>1, <2>0, <2>2, RestingUi
  <2>3. CASE Addable(ui.path, ui.parent) /\ ui.path # ui.goal
    <3>1. ui' = [ui EXCEPT !.path = Towards(ui.path, ui.goal), !.parent = NewId]
      BY <1>3, <2>3 DEF AddDir
    <3>2. NewId \in Ids
      BY <2>0, <2>3, <1>t, NewIdIsFree DEF Addable
    <3>3. ui.goal \in Paths /\ ui.path \in Above[ui.goal]
      BY <2>0, <2>3 DEF Within, Below
    <3>4. /\ Towards(ui.path, ui.goal) \in Paths
          /\ ui.goal \in Within(Towards(ui.path, ui.goal))
      BY <3>3, TowardsIsBetween
    <3>5. /\ ui' \in Uis /\ ui'.path = Towards(ui.path, ui.goal)
          /\ ui'.goal = ui.goal /\ ui'.at = ui.at
      BY <3>1, <3>2, <3>4, <1>t DEF Uis
    <3>6. ui'.goal \in Within(ui'.path)
      BY <3>4, <3>5
    <3> QED
      BY <3>3, <3>4, <3>5, <3>6 DEF UiOK
  <2> QED
    BY <2>1, <2>2, <2>3
<1>4. CASE RescanAll
  <2> DEFINE roots == {folders[i].path : i \in SubFolders(0)}
  <2>1. roots \subseteq Paths
    BY <1>t DEF SubFolders, Present, Rows
  <2>2. ui' = [AtRest EXCEPT !.at = "rescan", !.roots = roots]
    BY <1>4 DEF RescanAll
  <2> HIDE DEF roots
  <2> QED
    BY <2>1, <2>2, RestingUi
<1>5. ASSUME NEW p \in Paths, Rescan(p) PROVE UiOK'
  BY <1>5, <1>t DEF Rescan, UiOK, Uis
<1>6. CASE WakeOne
  BY <1>6, <1>t, <1>r DEF WakeOne, UiOK, Uis
<1>7. ASSUME NEW i \in Ids, DeletePhoto(i) PROVE UiOK'
  BY <1>7, <1>a, <1>u DEF DeletePhoto
<1>8. CASE UiStep
  <2>1. ASSUME NEW p \in Paths, FindFolder(p) PROVE UiOK'
    BY <2>1, <1>u DEF FindFolder
  <2> QED
    BY <1>1, <1>2, <1>3, <1>4, <1>5, <1>6, <1>7, <1>8, <2>1 DEF UiStep
<1>9. CASE ThreadStep
  <2>1. ASSUME NEW q \in Paths, AddSubFolder(q) PROVE UiOK'
    BY <2>1, <1>a, <1>u DEF AddSubFolder
  <2>2. ASSUME NEW i \in Ids, ListFolder(i) \/ TakePhoto(i) PROVE UiOK'
    BY <2>2, <1>a, <1>u DEF ListFolder, TakePhoto
  <2>3. CASE DropPhotos \/ DropFolders \/ AddPhotos \/ QueueFolders \/ QueuePhotos \/ ReadExif
    BY <2>3, <1>a, <1>u DEF DropPhotos, DropFolders, AddPhotos, QueueFolders, QueuePhotos, ReadExif
  <2>4. CASE FindFoldersToScan \/ FoldersDone \/ FindPhotosToScan \/ ReportScanDone
             \/ UpdatePhoto \/ PhotosDone
    BY <2>4, <1>u DEF FindFoldersToScan, FoldersDone, FindPhotosToScan, ReportScanDone,
       UpdatePhoto, PhotosDone
  <2> QED
    BY <1>9, <2>1, <2>2, <2>3, <2>4 DEF ThreadStep
<1>10. CASE WorldStep \/ Start \/ UNCHANGED vars
  BY <1>10, <1>u DEF WorldStep, WritePhoto, RemovePhoto, MakeFolder, RemoveFolder, Changes,
     Start, vars
<1>11. CASE Leave
  BY <1>11, <1>r DEF Leave, Off
<1> QED
  BY <1>8, <1>9, <1>10, <1>11 DEF Next
-----------------------------------------------------------------------------
(* The rest of the state *)

CachesOK == known \in [Ids -> Paths \cup {None}] /\ rev \in [Paths -> Ids \cup {0}]
WorldOK == clock \in Times /\ disk \in [Paths -> Times \cup {Absent, Gone}]
HistoryOK == seen \in [Paths -> BOOLEAN] /\ starts \in 1..MaxStarts /\ asks \in 0..MaxAsks

\* The caches are filled from the rows, which stay, and emptied at a start.
NowKnown(i) ==
  /\ known[i] # None \/ i \in Present
  /\ known' = [known EXCEPT ![i] = IF known[i] # None THEN known[i] ELSE folders[i].path]
  /\ UNCHANGED rev
NowFound(p) == rev' = [rev EXCEPT ![p] = FoundId(p)] /\ UNCHANGED known
Emptied == known' = [i \in Ids |-> None] /\ rev' = [p \in Paths |-> 0]

LEMMA CachesStep ==
  ASSUME TablesInv, [Next]_vars
  PROVE  \/ UNCHANGED caches
         \/ UNCHANGED folders /\ \E i \in Ids : NowKnown(i)
         \/ UNCHANGED folders /\ \E p \in Paths : NowFound(p)
         \/ UNCHANGED folders /\ Emptied
<1>t. ui.at = "find" => ui.goal \in Paths
  BY DEF TablesInv, AtHand
<1>a. Abort => UNCHANGED caches
  BY DEF Abort
<1>1. ASSUME NEW i \in Ids, ListFolder(i)
      PROVE  UNCHANGED caches \/ (UNCHANGED folders /\ NowKnown(i))
  <2>1. CASE known[i] = None /\ folders[i] = None
    BY <1>1, <2>1, <1>a DEF ListFolder
  <2>2. CASE ~(known[i] = None /\ folders[i] = None)
    BY <1>1, <2>2 DEF ListFolder, NowKnown, Present, dbVars
  <2> QED
    BY <2>1, <2>2
<1>2. CASE FindDir
  <2>1. ui.goal \in Paths /\ UNCHANGED <<folders, known>>
    BY <1>2, <1>t DEF FindDir, dbVars
  <2>2. CASE FindGoal
    BY <2>1, <2>2 DEF FindGoal, NowFound
  <2>3. CASE FindNone
    BY <2>1, <2>3 DEF FindNone, caches
  <2>4. ASSUME NEW a \in Above[ui.goal], FindNearest(a)
        PROVE  UNCHANGED folders /\ \E p \in Paths : NowFound(p)
    BY <2>1, <2>4, AboveIsClosed DEF FindNearest, NowFound
  <2> QED
    BY <1>2, <2>1, <2>2, <2>3, <2>4, FindDirStep
<1>3. CASE ThreadStep
  <2>1. ASSUME NEW q \in Paths, AddSubFolder(q) PROVE UNCHANGED caches
    BY <2>1, <1>a DEF AddSubFolder
  <2>2. ASSUME NEW i \in Ids, TakePhoto(i) PROVE UNCHANGED caches
    BY <2>2 DEF TakePhoto
  <2>3. CASE DropPhotos \/ DropFolders \/ AddPhotos \/ QueueFolders \/ QueuePhotos \/ ReadExif
    BY <2>3, <1>a DEF DropPhotos, DropFolders, AddPhotos, QueueFolders, QueuePhotos, ReadExif
  <2>4. CASE FindFoldersToScan \/ FoldersDone \/ FindPhotosToScan \/ ReportScanDone
             \/ UpdatePhoto \/ PhotosDone
    BY <2>4 DEF FindFoldersToScan, FoldersDone, FindPhotosToScan, ReportScanDone,
       UpdatePhoto, PhotosDone
  <2> QED
    BY <1>1, <1>3, <2>1, <2>2, <2>3, <2>4 DEF ThreadStep
<1>4. CASE UiStep
  <2>1. ASSUME NEW p \in Paths, FindFolder(p) PROVE UNCHANGED folders /\ NowFound(p)
    BY <2>1 DEF FindFolder, NowFound, dbVars
  <2>2. ASSUME NEW p \in Paths, NEW e, AddTree(p, e) \/ Rescan(p) PROVE UNCHANGED caches
    BY <2>2, <1>a DEF AddTree, Rescan
  <2>3. ASSUME NEW i \in Ids, DeletePhoto(i) PROVE UNCHANGED caches
    BY <2>3, <1>a DEF DeletePhoto
  <2>4. CASE AddDir \/ RescanAll \/ WakeOne
    BY <2>4, <1>a DEF AddDir, RescanAll, WakeOne
  <2> QED
    BY <1>2, <1>4, <2>1, <2>2, <2>3, <2>4 DEF UiStep
<1>5. CASE Start
  BY <1>5 DEF Start, Emptied, dbVars
<1>6. CASE WorldStep \/ Leave \/ UNCHANGED vars
  BY <1>6 DEF WorldStep, WritePhoto, RemovePhoto, MakeFolder, RemoveFolder, Changes,
     Leave, vars
<1> QED
  BY <1>3, <1>4, <1>5, <1>6 DEF Next

LEMMA CachesStayTyped ==
  ASSUME TablesInv, [Next]_vars
  PROVE  CachesOK'
<1>t. CachesOK /\ folders \in [Ids -> Rows \cup {None}]
  BY DEF TablesInv, TypeOK, CachesOK
<1>1. ASSUME NEW i \in Ids, NowKnown(i) PROVE CachesOK'
  <2> DEFINE p == IF known[i] # None THEN known[i] ELSE folders[i].path
  <2>1. p \in Paths
    BY <1>1, <1>t DEF NowKnown, CachesOK, Present, Rows
  <2>2. known' = [known EXCEPT ![i] = p] /\ rev' = rev
    BY <1>1 DEF NowKnown
  <2> HIDE DEF p
  <2> QED
    BY <2>1, <2>2, <1>t DEF CachesOK
<1>2. ASSUME NEW p \in Paths, NowFound(p) PROVE CachesOK'
  BY <1>2, <1>t, FoundTyped DEF CachesOK, NowFound
<1> QED
  BY <1>1, <1>2, <1>t, CachesStep DEF CachesOK, Emptied, caches

LEMMA WorldStaysTyped ==
  ASSUME TablesInv, [Next]_vars
  PROVE  WorldOK'
<1>t. WorldOK
  BY DEF TablesInv, TypeOK, WorldOK
<1>u. UNCHANGED world => WorldOK'
  BY <1>t DEF WorldOK, world
<1>1. ASSUME NEW ps, Changes(ps) PROVE clock' \in Times
  BY <1>1, <1>t, ScannerAssumption DEF Changes, WorldOK, Times
<1>2. ASSUME NEW p \in Paths, WritePhoto(p) \/ RemovePhoto(p) PROVE WorldOK'
  BY <1>1, <1>2, <1>t, NumbersTyped DEF WritePhoto, RemovePhoto, WorldOK
<1>3. ASSUME NEW p \in Paths, MakeFolder(p) PROVE WorldOK'
  BY <1>1, <1>3, <1>t, NumbersTyped DEF MakeFolder, WorldOK
<1>4. ASSUME NEW p \in Paths, RemoveFolder(p) PROVE WorldOK'
  BY <1>1, <1>4, <1>t DEF RemoveFolder, WorldOK
<1>5. CASE ThreadStep
  <2>1. ASSUME NEW q \in Paths, AddSubFolder(q) PROVE UNCHANGED world
    BY <2>1 DEF AddSubFolder, Abort
  <2>2. ASSUME NEW i \in Ids, ListFolder(i) \/ TakePhoto(i) PROVE UNCHANGED world
    BY <2>2 DEF ListFolder, TakePhoto, Abort
  <2>3. CASE DropPhotos \/ DropFolders \/ AddPhotos \/ QueueFolders \/ QueuePhotos \/ ReadExif
    BY <2>3, <1>u DEF DropPhotos, DropFolders, AddPhotos, QueueFolders, QueuePhotos, ReadExif, Abort
  <2>4. CASE FindFoldersToScan \/ FoldersDone \/ FindPhotosToScan \/ ReportScanDone
             \/ UpdatePhoto \/ PhotosDone
    BY <2>4, <1>u DEF FindFoldersToScan, FoldersDone, FindPhotosToScan, ReportScanDone,
       UpdatePhoto, PhotosDone
  <2> QED
    BY <1>5, <1>u, <2>1, <2>2, <2>3, <2>4 DEF ThreadStep
<1>6. CASE UiStep
  <2>1. ASSUME NEW p \in Paths, NEW e, FindFolder(p) \/ AddTree(p, e) \/ Rescan(p)
        PROVE  UNCHANGED world
    BY <2>1 DEF FindFolder, AddTree, Rescan, Abort
  <2>2. ASSUME NEW i \in Ids, DeletePhoto(i) PROVE UNCHANGED world
    BY <2>2 DEF DeletePhoto, Abort
  <2>3. CASE FindDir \/ AddDir \/ RescanAll \/ WakeOne
    BY <2>3, <1>u DEF FindDir, AddDir, RescanAll, WakeOne, Abort
  <2> QED
    BY <1>6, <1>u, <2>1, <2>2, <2>3 DEF UiStep
<1>7. CASE Leave \/ Start \/ UNCHANGED vars
  BY <1>7, <1>u DEF Leave, Start, vars
<1> QED
  BY <1>2, <1>3, <1>4, <1>5, <1>6, <1>7 DEF Next, WorldStep

LEMMA HistoryStaysTyped ==
  ASSUME TablesInv, [Next]_vars
  PROVE  HistoryOK'
<1>t. HistoryOK
  BY DEF TablesInv, TypeOK, HistoryOK
<1>b. ASSUME NEW S \in SUBSET Paths PROVE [p \in Paths |-> seen[p] /\ p \in S] \in [Paths -> BOOLEAN]
  BY <1>t DEF HistoryOK
<1>c. ASSUME NEW S \in SUBSET Paths, seen' = [p \in Paths |-> seen[p] /\ p \in S]
      PROVE  seen' \in [Paths -> BOOLEAN]
  BY <1>c, <1>b
<1>off. Off => seen' \in [Paths -> BOOLEAN]
  <2> DEFINE busy == {thread.scan.id, thread.photo} \cap Ids
             gone == {known[i] : i \in busy} \cup {folders[i].path : i \in busy \cap Present}
  <2>1. Off => seen' = [p \in Paths |-> seen[p] /\ p \notin gone]
    BY DEF Off
  <2>2. [p \in Paths |-> seen[p] /\ p \notin gone] = [p \in Paths |-> seen[p] /\ p \in Paths \ gone]
    OBVIOUS
  <2> HIDE DEF gone
  <2> QED
    BY <2>1, <2>2, <1>c
<1>1. ASSUME NEW S, seen' = [p \in Paths |-> seen[p] /\ p \notin S]
      PROVE  seen' \in [Paths -> BOOLEAN]
  <2>1. seen' = [p \in Paths |-> seen[p] /\ p \in Paths \ S]
    BY <1>1
  <2> QED
    BY <2>1, <1>c
<1>2. ASSUME NEW ids, seen' = Forgotten(ids) PROVE seen' \in [Paths -> BOOLEAN]
  <2>1. seen' = [p \in Paths |-> seen[p] /\ p \notin {folders[i].path : i \in ids \cap Present}]
    BY <1>2, Zenon DEF Forgotten
  <2> QED
    BY <2>1, <1>1
<1>u. UNCHANGED seen => seen' \in [Paths -> BOOLEAN]
  BY <1>t DEF HistoryOK
<1>3. seen' \in [Paths -> BOOLEAN]
  <2>1. CASE ThreadStep
    <3>1. ASSUME NEW q \in Paths, AddSubFolder(q) PROVE seen' \in [Paths -> BOOLEAN]
      BY <3>1, <1>u, <1>off DEF AddSubFolder, Abort
    <3>2. ASSUME NEW i \in Ids, ListFolder(i) PROVE seen' \in [Paths -> BOOLEAN]
      <4>1. Off \/ \E p : seen' = [seen EXCEPT ![p] = @ \/ i \in Present]
        BY <3>2 DEF ListFolder, Abort
      <4> QED
        BY <4>1, <1>off, <1>t DEF HistoryOK
    <3>3. CASE DropPhotos \/ AddPhotos \/ QueueFolders \/ QueuePhotos \/ ReadExif
      BY <3>3, <1>u, <1>off DEF DropPhotos, AddPhotos, QueueFolders, QueuePhotos, ReadExif, Abort
    <3>4. CASE DropFolders
      BY <3>4, <1>2, <1>off DEF DropFolders, Abort
    <3>5. CASE FindFoldersToScan \/ FoldersDone \/ FindPhotosToScan \/ ReportScanDone
               \/ UpdatePhoto \/ PhotosDone \/ \E i \in Ids : TakePhoto(i)
      BY <3>5, <1>u DEF FindFoldersToScan, FoldersDone, FindPhotosToScan, ReportScanDone,
         UpdatePhoto, PhotosDone, TakePhoto
    <3> QED
      BY <2>1, <3>1, <3>2, <3>3, <3>4, <3>5 DEF ThreadStep
  <2>2. CASE UiStep
    <3>1. ASSUME NEW p \in Paths, NEW e, AddTree(p, e) PROVE seen' \in [Paths -> BOOLEAN]
      BY <3>1, <1>2, <1>off DEF AddTree, Abort
    <3>2. CASE AddDir
      BY <3>2, <1>1, <1>off DEF AddDir, Abort
    <3>3. ASSUME NEW i \in Ids, DeletePhoto(i) PROVE seen' \in [Paths -> BOOLEAN]
      <4>1. Off \/ \E p : seen' = [seen EXCEPT ![p] = FALSE]
        BY <3>3 DEF DeletePhoto, Abort
      <4> QED
        BY <4>1, <1>off, <1>t DEF HistoryOK
    <3>4. ASSUME NEW p \in Paths, FindFolder(p) \/ Rescan(p) PROVE UNCHANGED seen
      BY <3>4 DEF FindFolder, Rescan
    <3>5. CASE FindDir \/ RescanAll \/ WakeOne
      BY <3>5, <1>u DEF FindDir, RescanAll, WakeOne
    <3> QED
      BY <2>2, <1>u, <3>1, <3>2, <3>3, <3>4, <3>5 DEF UiStep
  <2>3. CASE WorldStep
    <3>1. \E S : Changes(S)
      BY <2>3 DEF WorldStep, WritePhoto, RemovePhoto, MakeFolder, RemoveFolder
    <3> QED
      BY <3>1, <1>1 DEF Changes
  <2>4. CASE Leave \/ Start \/ UNCHANGED vars
    BY <2>4, <1>u, <1>off DEF Leave, Start, vars
  <2> QED
    BY <2>1, <2>2, <2>3, <2>4 DEF Next
<1>4. \/ UNCHANGED counters
      \/ asks < MaxAsks /\ asks' = asks + 1 /\ UNCHANGED starts
      \/ starts < MaxStarts /\ starts' = starts + 1 /\ UNCHANGED asks
  <2>1. CASE ThreadStep
    <3>1. ASSUME NEW i \in Ids, ListFolder(i) \/ TakePhoto(i) PROVE UNCHANGED counters
      BY <3>1 DEF ListFolder, TakePhoto
    <3>2. ASSUME NEW q \in Paths, AddSubFolder(q) PROVE UNCHANGED counters
      BY <3>2 DEF AddSubFolder
    <3>3. CASE DropPhotos \/ DropFolders \/ AddPhotos \/ QueueFolders \/ QueuePhotos
               \/ ReadExif
      BY <3>3 DEF DropPhotos, DropFolders, AddPhotos, QueueFolders, QueuePhotos, ReadExif
    <3>4. CASE FindFoldersToScan \/ FoldersDone \/ FindPhotosToScan \/ ReportScanDone
               \/ UpdatePhoto \/ PhotosDone
      BY <3>4 DEF FindFoldersToScan, FoldersDone, FindPhotosToScan, ReportScanDone,
         UpdatePhoto, PhotosDone
    <3> QED
      BY <2>1, <3>1, <3>2, <3>3, <3>4 DEF ThreadStep
  <2>2. CASE UiStep
    <3>1. ASSUME NEW p \in Paths, NEW e, FindFolder(p) \/ AddTree(p, e)
          PROVE  MayAsk /\ Asks
      BY <3>1 DEF FindFolder, AddTree
    <3>2. ASSUME NEW i \in Ids, DeletePhoto(i) PROVE MayAsk /\ Asks
      BY <3>2 DEF DeletePhoto
    <3>3. RescanAll => MayAsk /\ Asks
      BY DEF RescanAll
    <3>4. ASSUME NEW p \in Paths, Rescan(p) PROVE UNCHANGED counters
      BY <3>4 DEF Rescan
    <3>5. FindDir \/ AddDir \/ WakeOne => UNCHANGED counters
      BY DEF FindDir, AddDir, WakeOne
    <3> QED
      BY <2>2, <3>1, <3>2, <3>3, <3>4, <3>5 DEF UiStep, MayAsk, Asks
  <2>3. CASE WorldStep \/ Leave \/ UNCHANGED vars
    BY <2>3 DEF WorldStep, WritePhoto, RemovePhoto, MakeFolder, RemoveFolder, Changes, Leave, vars
  <2>4. CASE Start
    BY <2>4 DEF Start
  <2> QED
    BY <2>1, <2>2, <2>3, <2>4 DEF Next
<1>5. starts' \in 1..MaxStarts /\ asks' \in 0..MaxAsks
  BY <1>4, <1>t, ScannerAssumption DEF HistoryOK, counters
<1> QED
  BY <1>3, <1>5 DEF HistoryOK

\* addTree alone changes what is excluded.
LEMMA ExcludedStep ==
  ASSUME [Next]_vars
  PROVE  \/ UNCHANGED excludedtrees
         \/ \E p \in Paths, e \in Paths \cup {None} : AddTree(p, e)
<1>1. CASE ThreadStep
  <2>1. ASSUME NEW i \in Ids, ListFolder(i) \/ TakePhoto(i) PROVE UNCHANGED excludedtrees
    BY <2>1 DEF ListFolder, TakePhoto, Abort, dbVars
  <2>2. ASSUME NEW q \in Paths, AddSubFolder(q) PROVE UNCHANGED excludedtrees
    BY <2>2 DEF AddSubFolder, Abort, dbVars
  <2>3. CASE DropPhotos \/ DropFolders \/ AddPhotos \/ QueueFolders \/ QueuePhotos \/ ReadExif
    BY <2>3 DEF DropPhotos, DropFolders, AddPhotos, QueueFolders, QueuePhotos, ReadExif, Abort,
       dbVars
  <2>4. CASE FindFoldersToScan \/ FoldersDone \/ FindPhotosToScan \/ ReportScanDone
             \/ UpdatePhoto \/ PhotosDone
    BY <2>4 DEF FindFoldersToScan, FoldersDone, FindPhotosToScan, ReportScanDone,
       UpdatePhoto, PhotosDone, dbVars
  <2> QED
    BY <1>1, <2>1, <2>2, <2>3, <2>4 DEF ThreadStep
<1>2. CASE UiStep
  <2>1. ASSUME NEW p \in Paths, FindFolder(p) \/ Rescan(p) PROVE UNCHANGED excludedtrees
    BY <2>1 DEF FindFolder, Rescan, dbVars
  <2>2. ASSUME NEW i \in Ids, DeletePhoto(i) PROVE UNCHANGED excludedtrees
    BY <2>2 DEF DeletePhoto, Abort, dbVars
  <2>3. CASE FindDir \/ AddDir \/ RescanAll \/ WakeOne
    BY <2>3 DEF FindDir, AddDir, RescanAll, WakeOne, Abort, dbVars
  <2> QED
    BY <1>2, <2>1, <2>2, <2>3 DEF UiStep
<1>3. CASE WorldStep \/ Leave \/ Start \/ UNCHANGED vars
  BY <1>3 DEF WorldStep, WritePhoto, RemovePhoto, MakeFolder, RemoveFolder, Changes, Leave,
     Start, vars, dbVars
<1> QED
  BY <1>1, <1>2, <1>3 DEF Next

-----------------------------------------------------------------------------

LEMMA InitTables == Init => TablesInv
<1> SUFFICES ASSUME Init PROVE TablesInv
  OBVIOUS
<1>1. Present = {}
  BY DEF Init, Present
<1>2. thread \in Threads /\ thread.at = "woken"
  BY AsleepTyped DEF Init, Asleep
<1>3. ui \in Uis /\ ui.at = "idle"
  BY DEF Init, AtRest, Uis
<1>4. WorldOK /\ HistoryOK /\ CachesOK
  BY ScannerAssumption, NumbersTyped DEF Init, WorldOK, HistoryOK, CachesOK, Times
<1>5. folders \in [Ids -> Rows \cup {None}]
  BY DEF Init
<1>6. TypeOK
  BY <1>1, <1>2, <1>3, <1>4, <1>5 DEF Init, TypeOK, WorldOK, HistoryOK, CachesOK, Threads, Uis
<1> QED
  BY <1>1, <1>2, <1>3, <1>6 DEF TablesInv, PathsDiffer, AtHand, ScanPlaces

LEMMA NextTables ==
  ASSUME TablesInv, [Next]_vars
  PROVE  TablesInv'
<1>1. excludedtrees' \subseteq Paths
  <2>1. excludedtrees \subseteq Paths
    BY DEF TablesInv, TypeOK
  <2>2. ASSUME NEW p \in Paths, NEW e \in Paths \cup {None}, AddTree(p, e)
        PROVE  excludedtrees' \subseteq Paths
    BY <2>1, <2>2 DEF AddTree, Abort, dbVars
  <2> QED
    BY <2>1, <2>2, ExcludedStep
<1>2. ThreadOK' /\ UiOK' /\ WorldOK' /\ HistoryOK' /\ CachesOK'
  BY ThreadStaysSound, UiStaysSound, WorldStaysTyped, HistoryStaysTyped, CachesStayTyped
<1>3. AtHand'
  BY <1>2 DEF AtHand, ThreadOK, UiOK
<1>4. /\ folders' \in [Ids -> Rows \cup {None}] /\ PathsDiffer'
      /\ folderstoscan' \subseteq Present'
      /\ photostoscan' \subseteq {i \in Present' : HasPhoto(i)'}
  BY RowsStaySound
<1>5. TypeOK'
  BY <1>1, <1>2, <1>4 DEF TypeOK, ThreadOK, UiOK, WorldOK, HistoryOK, CachesOK, Threads, Uis
<1> QED
  BY <1>3, <1>4, <1>5 DEF TablesInv

(* No two rows are of one folder, and what is queued has a row, with a photo if
   it is a photo's: the foreign keys hold through every scan, addition, purge and
   exclusion, every end of the program and every change on disk. *)
THEOREM TablesAreSound == Spec => []TablesInv
<1> QED
  BY InitTables, NextTables, PTL DEF Spec

(* TablesAreSound, as far as the types go. *)
THEOREM TypeCorrect == Spec => []TypeOK
<1>1. TablesInv => TypeOK
  BY DEF TablesInv
<1> QED
  BY <1>1, TablesAreSound, PTL
-----------------------------------------------------------------------------
(* The tree of rows is that of the folders, if no id is taken for another *)

\* A row hangs from the row of its folder's parent, and from no other.
HangsFromParent ==
  \A i, j \in Present : folders[j].path = Parent[folders[i].path] => folders[i].parent = j
HangsFromNoOther ==
  \A i \in Present : folders[i].parent # 0 =>
    folders[i].parent \in Present /\ folders[folders[i].parent].path = Parent[folders[i].path]

\* The caches are right about rows that exist.
CachesAreRight ==
  \A i \in Present :
    /\ known[i] # None => known[i] = folders[i].path
    /\ \A p \in Paths : rev[p] = i => folders[i].path = p

\* What the thread lists and the interface is about to add hang where they go.
ListedHangs ==
  \A q \in thread.scan.newsubdirs :
    /\ thread.scan.id \in Ids
    /\ Parent[q] # None /\ known[thread.scan.id] = Parent[q]
AddedHangs ==
  /\ ui.at = "find" => ui.parent = 0
  /\ ui.at = "add" =>
       /\ ui.parent = 0 => \A q \in Above[ui.path] : IdsOf(q) = {}
       /\ ui.parent \in Present => folders[ui.parent].path = Parent[ui.path]

TreeInv ==
  /\ HangsFromParent /\ HangsFromNoOther /\ CachesAreRight /\ ListedHangs /\ AddedHangs
  /\ excludedtrees = {}

\* No new row gets an id that a cache or the interface still remembers, as the
\* id of the row that was deleted last may.
IdsAreNew ==
  \A i \in Ids : folders[i] = None /\ folders'[i] # None =>
    known[i] = None /\ ui.parent # i /\ \A p \in Paths : rev[p] # i

FreshSpec == Spec /\ [][IdsAreNew]_vars

\* What the thread adds hangs from the row of the folder it scans.
LEMMA SubFolderHangs ==
  ASSUME TablesInv, CachesAreRight, ListedHangs, NEW q \in Paths, AddSubFolder(q),
         AddStep(q, thread.scan.id)
  PROVE  thread.scan.id \in Present /\ folders[thread.scan.id].path = Parent[q]
<1>1. q \in thread.scan.newsubdirs
  BY DEF AddSubFolder, Unknown
<1>2. thread.scan.id \in Ids /\ Parent[q] # None /\ known[thread.scan.id] = Parent[q]
  BY <1>1 DEF ListedHangs
<1>3. thread.scan.id \in Present
  BY <1>2, NumbersTyped DEF AddStep, Addable
<1> QED
  BY <1>2, <1>3 DEF CachesAreRight

LEMMA AddedStaysTree ==
  ASSUME TablesInv, HangsFromParent, HangsFromNoOther,
         NEW p \in Paths, NEW parent \in Ids \cup {0}, AddStep(p, parent),
         IF parent = 0 THEN \A j \in Present : folders[j].path # Parent[p]
                       ELSE parent \in Present /\ folders[parent].path = Parent[p]
  PROVE  HangsFromParent' /\ HangsFromNoOther'
<1>t. folders \in [Ids -> Rows \cup {None}] /\ PathsDiffer
  BY DEF TablesInv, TypeOK
<1>r. /\ NewId \in Ids \ Present /\ Present' = Present \cup {NewId}
      /\ folders'[NewId].path = p /\ folders'[NewId].parent = parent
      /\ \A j \in Present :
           /\ folders'[j].path = folders[j].path
           /\ folders'[j].parent = IF folders[j].parent = 0 /\ Parent[folders[j].path] = p
                                   THEN NewId ELSE folders[j].parent
  BY <1>t, AddedRows
<1>p. (\A j \in Present : folders[j].path # p) /\ Parent[p] # p
  <2>1. \A j \in Present : folders[j].path # p
    BY DEF AddStep, Addable, IdsOf
  <2> QED
    BY <2>1, AboveIsClosed, TreeAssumption, NoneIsNoPath
<1>0. 0 \notin Ids /\ Present \subseteq Ids
  BY NumbersTyped DEF Present
<1>1. ASSUME NEW i \in Present', NEW j \in Present', folders'[j].path = Parent[folders'[i].path]
      PROVE  folders'[i].parent = j
  <2>1. CASE i = NewId
    BY <2>1, <1>1, <1>r, <1>p, <1>t DEF PathsDiffer
  <2>2. CASE i # NewId /\ j = NewId
    <3>1. i \in Present /\ Parent[folders[i].path] = p
      BY <2>2, <1>1, <1>r
    <3>2. folders[i].parent = 0
      BY <3>1, <1>p DEF HangsFromNoOther
    <3> QED
      BY <3>1, <3>2, <2>2, <1>r
  <2>3. CASE i # NewId /\ j # NewId
    BY <2>3, <1>1, <1>r, <1>0 DEF HangsFromParent
  <2> QED
    BY <2>1, <2>2, <2>3
<1>2. ASSUME NEW i \in Present', folders'[i].parent # 0
      PROVE  /\ folders'[i].parent \in Present'
             /\ folders'[folders'[i].parent].path = Parent[folders'[i].path]
  <2>1. CASE i = NewId
    BY <2>1, <1>2, <1>r
  <2>2. CASE i # NewId /\ folders[i].parent = 0
    BY <2>2, <1>2, <1>r
  <2>3. CASE i # NewId /\ folders[i].parent # 0
    BY <2>3, <1>2, <1>r DEF HangsFromNoOther
  <2> QED
    BY <2>1, <2>2, <2>3
<1> QED
  BY <1>1, <1>2 DEF HangsFromParent, HangsFromNoOther

LEMMA TreeStays ==
  ASSUME TablesInv, TreeInv, [Next]_vars
  PROVE  HangsFromParent' /\ HangsFromNoOther'
<1>t. folders \in [Ids -> Rows \cup {None}] /\ HangsFromParent /\ HangsFromNoOther
  BY DEF TablesInv, TypeOK, TreeInv
<1>1. CASE QueueStep
  BY <1>1, <1>t DEF QueueStep, HangsFromParent, HangsFromNoOther, Present
<1>2. CASE PhotoStep
  <2>1. /\ Present' = Present
        /\ \A j \in Present : /\ folders'[j].path = folders[j].path
                              /\ folders'[j].parent = folders[j].parent
    BY <1>2, <1>t, PhotoStepRows
  <2> QED
    BY <2>1, <1>t DEF HangsFromParent, HangsFromNoOther
<1>3. CASE DeleteStep
  <2>1. PICK ids \in SUBSET Ids : DownClosed(ids) /\ folders' = Deleted(ids)
    BY <1>3 DEF DeleteStep
  <2>2. /\ Present' = Present \ ids
        /\ \A j \in Present' : folders'[j] = folders[j]
    BY <2>1, <1>t, DeletedRows
  <2>3. \A i \in Present' : folders[i].parent \notin ids
    BY <2>1, <2>2 DEF DownClosed, SubFolders
  <2>4. HangsFromParent'
    BY <2>2, <1>t DEF HangsFromParent
  <2>5. HangsFromNoOther'
    BY <2>2, <2>3, <1>t DEF HangsFromNoOther
  <2> QED
    BY <2>4, <2>5
<1>4. ASSUME NEW q \in Paths, AddSubFolder(q), AddStep(q, thread.scan.id)
      PROVE  HangsFromParent' /\ HangsFromNoOther'
  <2>1. thread.scan.id \in Present /\ folders[thread.scan.id].path = Parent[q]
    BY <1>4, SubFolderHangs DEF TreeInv
  <2>2. thread.scan.id \in Ids /\ thread.scan.id # 0
    BY <2>1, NumbersTyped DEF Present
  <2> QED
    BY <2>1, <2>2, <1>4, <1>t, AddedStaysTree
<1>5. CASE AddDir /\ AddStep(ui.path, ui.parent)
  <2>1. ui.path \in Paths /\ ui.parent \in Ids \cup {0} /\ ui.at = "add"
    BY <1>5 DEF AddDir, TablesInv, TypeOK, AtHand
  <2>2. CASE ui.parent = 0
    <3>1. \A a \in Above[ui.path] : IdsOf(a) = {}
      BY <2>1, <2>2 DEF TreeInv, AddedHangs
    <3>2. \A j \in Present : folders[j].path \in Paths
      BY <1>t DEF Present, Rows
    <3>3. \A j \in Present : folders[j].path # Parent[ui.path]
      BY <3>1, <3>2, <2>1, AboveIsClosed, NoneIsNoPath DEF IdsOf
    <3> QED
      BY <3>3, <2>1, <2>2, <1>5, <1>t, AddedStaysTree
  <2>3. CASE ui.parent # 0
    <3>1. ui.parent \in Present /\ folders[ui.parent].path = Parent[ui.path]
      BY <2>1, <2>3, <1>5 DEF AddStep, Addable, TreeInv, AddedHangs
    <3> QED
      BY <3>1, <2>1, <2>3, <1>5, <1>t, AddedStaysTree
  <2> QED
    BY <2>2, <2>3
<1> QED
  BY <1>1, <1>2, <1>3, <1>4, <1>5, RowsStep

\* A row that is there after a step was there before, of the same folder, or is new.
LEMMA RowsAreOldOrNew ==
  ASSUME TablesInv, [Next]_vars, IdsAreNew, NEW i \in Present'
  PROVE  \/ i \in Present /\ folders'[i].path = folders[i].path
         \/ known[i] = None /\ ui.parent # i /\ \A p \in Paths : rev[p] # i
<1>t. folders \in [Ids -> Rows \cup {None}] /\ PathsDiffer
  BY DEF TablesInv, TypeOK
<1>i. i \in Ids /\ folders'[i] # None
  BY DEF Present
<1>1. CASE i \notin Present
  BY <1>1, <1>i DEF Present, IdsAreNew
<1>2. CASE i \in Present
  <2>1. CASE QueueStep
    BY <2>1, <1>2 DEF QueueStep
  <2>2. CASE PhotoStep
    BY <2>2, <1>2, <1>t, PhotoStepRows
  <2>3. CASE DeleteStep
    BY <2>3, <1>2, <1>t, DeletedRows DEF DeleteStep
  <2>4. ASSUME NEW p \in Paths, NEW parent \in Ids \cup {0}, AddStep(p, parent)
        PROVE  folders'[i].path = folders[i].path
    BY <2>4, <1>2, <1>t, AddedRows
  <2>5. thread.scan.id \in Ids \cup {0} /\ ui.parent \in Ids \cup {0}
    BY DEF TablesInv, TypeOK, Scans
  <2>6. AddDir => ui.path \in Paths
    BY DEF AddDir, TablesInv, AtHand
  <2> QED
    BY <1>2, <2>1, <2>2, <2>3, <2>4, <2>5, <2>6, RowsStep
<1> QED
  BY <1>1, <1>2

LEMMA CachesStayRight ==
  ASSUME TablesInv, CachesAreRight, [Next]_vars, IdsAreNew
  PROVE  CachesAreRight'
<1>t. /\ known \in [Ids -> Paths \cup {None}] /\ rev \in [Paths -> Ids \cup {0}]
      /\ Present \subseteq Ids /\ 0 \notin Ids
  BY NumbersTyped DEF TablesInv, TypeOK, Present
<1>1. CASE UNCHANGED caches
  BY <1>1, RowsAreOldOrNew DEF CachesAreRight, caches
<1>2. ASSUME UNCHANGED folders, NEW i \in Ids, NowKnown(i) PROVE CachesAreRight'
  <2>1. Present' = Present
    BY <1>2 DEF Present
  <2> QED
    BY <2>1, <1>2, <1>t DEF CachesAreRight, NowKnown
<1>3. ASSUME UNCHANGED folders, NEW p \in Paths, NowFound(p) PROVE CachesAreRight'
  <2>1. Present' = Present
    BY <1>3 DEF Present
  <2>2. \A i \in Present : FoundId(p) = i => folders[i].path = p
    BY <1>t, FoundTyped DEF CachesAreRight, IdsOf
  <2> QED
    BY <2>1, <2>2, <1>3, <1>t DEF CachesAreRight, NowFound
<1>4. CASE UNCHANGED folders /\ Emptied
  BY <1>4, <1>t, NumbersTyped DEF CachesAreRight, Emptied, Present
<1> QED
  BY <1>1, <1>2, <1>3, <1>4, CachesStep

\* What a step does to the list of subfolders at hand: drops it, keeps it, or reads it.
ListDropped == thread'.scan.newsubdirs = {}
ListKept ==
  /\ thread'.scan.id = thread.scan.id /\ thread'.scan.newsubdirs = thread.scan.newsubdirs
  /\ UNCHANGED known
ListRead(i) ==
  /\ thread'.scan.id = i
  /\ \A q \in thread'.scan.newsubdirs : Parent[q] # None /\ known'[i] = Parent[q]

LEMMA ListStep ==
  ASSUME TablesInv, [Next]_vars
  PROVE  ListDropped \/ ListKept \/ \E i \in Ids : ListRead(i)
<1>t. /\ thread \in Threads /\ thread.scan \in Scans
      /\ known \in [Ids -> Paths \cup {None}] /\ folders \in [Ids -> Rows \cup {None}]
  BY DEF TablesInv, TypeOK, Threads
<1>k. UNCHANGED <<thread, known>> => ListKept
  BY DEF ListKept
<1>s. Asleep.scan.newsubdirs = {}
  BY DEF Asleep, NoScan
<1>a. Abort \/ Leave \/ Start \/ ReportScanDone => ListDropped
  <2>1. CASE Abort \/ Leave
    <3>1. thread' = [Asleep EXCEPT !.at = "off"]
      BY <2>1 DEF Abort, Leave, Off
    <3> QED
      BY <3>1, <1>s DEF Asleep, ListDropped
  <2>2. CASE Start
    <3>1. PICK count : thread' = [Asleep EXCEPT !.at = "woken", !.count = count]
      BY <2>2 DEF Start
    <3> QED
      BY <3>1, <1>s DEF Asleep, ListDropped
  <2>3. CASE ReportScanDone
    BY <2>3, <1>s DEF ReportScanDone, ListDropped
  <2> QED
    BY <2>1, <2>2, <2>3
<1>g. ASSUME NEW place, Goto(place), UNCHANGED known PROVE ListKept
  BY <1>g, <1>t DEF Goto, Threads, ListKept
<1>1. ASSUME NEW i \in Ids, ListFolder(i) PROVE ListDropped \/ ListRead(i)
  <2>1. CASE known[i] = None /\ folders[i] = None
    BY <1>1, <2>1, <1>a DEF ListFolder
  <2>2. CASE ~(known[i] = None /\ folders[i] = None)
    <3> DEFINE p == IF known[i] # None THEN known[i] ELSE folders[i].path
    <3>1. p \in Paths
      BY <2>2, <1>t DEF Rows
    <3>2. known' = [known EXCEPT ![i] = p]
      BY <1>1, <2>2 DEF ListFolder
    <3> DEFINE old == [q \in Paths |-> LET js == {j \in SubFolders(i) : folders[j].path = q}
                                       IN  IF js = {} THEN 0 ELSE CHOOSE j \in js : TRUE]
               op == HasPhoto(i)
               np == IF Exists(p) THEN disk[p] ELSE 0
    <3> DEFINE scan == [id |-> i, oldsubdirs |-> old, newsubdirs |-> NewSubdirs(p),
                        oldphoto |-> op, newphoto |-> np]
    <3>3. thread' = [thread EXCEPT !.at = "dropphotos", !.scan = scan]
      BY <1>1, <2>2 DEF ListFolder
    <3>7. scan.id = i /\ scan.newsubdirs = NewSubdirs(p)
      OBVIOUS
    <3> HIDE DEF p, scan
    <3>6. thread'.scan = scan
      BY <3>3, <1>t DEF Threads
    <3>4. known'[i] = p
      BY <3>2, <1>t
    <3>5. \A q \in NewSubdirs(p) : Parent[q] = p
      BY DEF NewSubdirs, Children
    <3> QED
      BY <3>1, <3>4, <3>5, <3>6, <3>7, NoneIsNoPath DEF ListRead
  <2> QED
    BY <2>1, <2>2
<1>2. ASSUME NEW q \in Paths, AddSubFolder(q) PROVE ListDropped \/ ListKept
  BY <1>2, <1>a, <1>t DEF AddSubFolder, Threads, Scans, ListKept, caches
<1>3. CASE DropPhotos \/ DropFolders \/ AddPhotos
  BY <1>3, <1>a, <1>g DEF DropPhotos, DropFolders, AddPhotos, caches
<1>4. CASE QueueFolders \/ ReadExif
  <2>1. CASE ~Abort
    <3>1. PICK at, count, data, photo :
            \/ thread' = [thread EXCEPT !.at = at, !.count = count]
            \/ thread' = [thread EXCEPT !.at = at, !.data = data]
            \/ thread' = [thread EXCEPT !.at = at, !.photo = photo]
      BY <1>4, <2>1 DEF QueueFolders, ReadExif
    <3>2. UNCHANGED known
      BY <1>4, <2>1 DEF QueueFolders, ReadExif, caches
    <3> QED
      BY <3>1, <3>2, <1>t DEF Threads, ListKept
  <2> QED
    BY <2>1, <1>a
<1>5. CASE QueuePhotos
  <2>1. CASE ~Abort
    <3>1. PICK ids, count :
            thread' = [thread EXCEPT !.at = "folders", !.ids = ids, !.scan = NoScan,
                                     !.count = count]
      BY <1>5, <2>1 DEF QueuePhotos
    <3> QED
      BY <3>1, <1>t DEF Threads, NoScan, ListDropped
  <2> QED
    BY <2>1, <1>a
<1>6. CASE FoldersDone \/ PhotosDone
  BY <1>6, <1>g DEF FoldersDone, PhotosDone, caches
<1>7. CASE FindFoldersToScan \/ FindPhotosToScan \/ UpdatePhoto
  BY <1>7, <1>g, <1>t DEF FindFoldersToScan, FindPhotosToScan, UpdatePhoto, Threads, ListKept, caches
<1>8. ASSUME NEW i \in Ids, TakePhoto(i) PROVE ListKept
  BY <1>8, <1>t DEF TakePhoto, Threads, ListKept, caches
<1>9. CASE ThreadStep
  BY <1>1, <1>2, <1>3, <1>4, <1>5, <1>6, <1>7, <1>8, <1>9, <1>a DEF ThreadStep
<1>10. CASE UiStep
  <2>1. ASSUME NEW p \in Paths, FindFolder(p) \/ Rescan(p) PROVE ListKept
    BY <2>1, <1>k DEF FindFolder, Rescan, caches
  <2>2. ASSUME NEW p \in Paths, NEW e, AddTree(p, e) PROVE ListDropped \/ ListKept
    BY <2>2, <1>a, <1>k DEF AddTree, caches
  <2>3. ASSUME NEW i \in Ids, DeletePhoto(i) PROVE ListDropped \/ ListKept
    BY <2>3, <1>a, <1>k DEF DeletePhoto, caches
  <2>4. CASE FindDir \/ AddDir \/ RescanAll
    BY <2>4, <1>a, <1>k DEF FindDir, AddDir, RescanAll, caches
  <2>5. CASE WakeOne
    BY <2>5, <1>t DEF WakeOne, Threads, ListKept, caches
  <2> QED
    BY <1>10, <2>1, <2>2, <2>3, <2>4, <2>5 DEF UiStep
<1>11. CASE WorldStep \/ UNCHANGED vars
  BY <1>11, <1>k DEF WorldStep, WritePhoto, RemovePhoto, MakeFolder, RemoveFolder, Changes,
     vars, caches
<1> QED
  BY <1>9, <1>10, <1>11, <1>a DEF Next

LEMMA ListStaysRight ==
  ASSUME TablesInv, ListedHangs, [Next]_vars
  PROVE  ListedHangs'
<1>1. CASE ListDropped
  BY <1>1 DEF ListDropped, ListedHangs
<1>2. CASE ListKept
  BY <1>2 DEF ListKept, ListedHangs
<1>3. ASSUME NEW i \in Ids, ListRead(i) PROVE ListedHangs'
  BY <1>3 DEF ListRead, ListedHangs
<1> QED
  BY <1>1, <1>2, <1>3, ListStep

\* What a step does to what the interface is about to add.
NotAdding == ui'.at \notin {"find", "add"}
Asked == ui'.at = "find" /\ ui'.parent = 0
NextAdded ==
  /\ AddDir /\ Addable(ui.path, ui.parent) /\ ui.path # ui.goal
  /\ ui' = [ui EXCEPT !.path = Towards(ui.path, ui.goal), !.parent = NewId]

LEMMA UiMoves ==
  ASSUME TablesInv, [Next]_vars
  PROVE  UNCHANGED ui \/ NotAdding \/ Asked \/ FindDir \/ NextAdded
<1>t. ui \in Uis
  BY DEF TablesInv, TypeOK, Uis
<1>a. Abort \/ Leave => NotAdding
  BY DEF Abort, Leave, Off, AtRest, NotAdding
<1>1. ASSUME NEW p \in Paths, NEW e, AddTree(p, e) PROVE NotAdding \/ Asked
  BY <1>1, <1>a DEF AddTree, AtRest, Asked
<1>2. CASE AddDir
  BY <1>2, <1>a DEF AddDir, AtRest, NotAdding, NextAdded
<1>3. CASE UiStep
  <2>1. ASSUME NEW p \in Paths, FindFolder(p) \/ Rescan(p) PROVE UNCHANGED ui \/ NotAdding
    BY <2>1, <1>t DEF FindFolder, Rescan, Uis, NotAdding
  <2>2. ASSUME NEW i \in Ids, DeletePhoto(i) PROVE UNCHANGED ui \/ NotAdding
    BY <2>2, <1>a DEF DeletePhoto
  <2>3. CASE RescanAll \/ WakeOne
    <3>1. \A roots : [AtRest EXCEPT !.at = "rescan", !.roots = roots].at = "rescan"
      BY DEF AtRest
    <3>2. CASE RescanAll
      BY <3>1, <3>2 DEF RescanAll, NotAdding
    <3>3. CASE WakeOne
      BY <3>3, <1>t DEF WakeOne, AtRest, Uis, NotAdding
    <3> QED
      BY <2>3, <3>2, <3>3
  <2> QED
    BY <1>1, <1>2, <1>3, <2>1, <2>2, <2>3 DEF UiStep
<1>4. CASE ThreadStep
  <2>1. ASSUME NEW q \in Paths, AddSubFolder(q) PROVE UNCHANGED ui \/ NotAdding
    BY <2>1, <1>a DEF AddSubFolder
  <2>2. ASSUME NEW i \in Ids, ListFolder(i) \/ TakePhoto(i) PROVE UNCHANGED ui \/ NotAdding
    BY <2>2, <1>a DEF ListFolder, TakePhoto
  <2>3. CASE DropPhotos \/ DropFolders \/ AddPhotos \/ QueueFolders \/ QueuePhotos \/ ReadExif
    BY <2>3, <1>a DEF DropPhotos, DropFolders, AddPhotos, QueueFolders, QueuePhotos, ReadExif
  <2>4. CASE FindFoldersToScan \/ FoldersDone \/ FindPhotosToScan \/ ReportScanDone
             \/ UpdatePhoto \/ PhotosDone
    BY <2>4 DEF FindFoldersToScan, FoldersDone, FindPhotosToScan, ReportScanDone,
       UpdatePhoto, PhotosDone
  <2> QED
    BY <1>4, <2>1, <2>2, <2>3, <2>4 DEF ThreadStep
<1>5. CASE WorldStep \/ Start \/ UNCHANGED vars
  BY <1>5 DEF WorldStep, WritePhoto, RemovePhoto, MakeFolder, RemoveFolder, Changes, Start, vars
<1> QED
  BY <1>3, <1>4, <1>5, <1>a DEF Next

\* What is about to be added goes on hanging where it goes: a row that is added
\* meanwhile is not above it, because the row above that one would be, too.
LEMMA NothingAboveAppears ==
  ASSUME TablesInv, TreeInv, [Next]_vars, UNCHANGED ui, ui.at = "add",
         NEW a \in Above[ui.path], \A q \in Above[ui.path] : IdsOf(q) = {}
  PROVE  IdsOf(a)' = {}
<1>t. /\ folders \in [Ids -> Rows \cup {None}] /\ PathsDiffer /\ ui \in Uis
      /\ ui.path \in Paths /\ ui.goal \in Within(ui.path)
  BY DEF TablesInv, TypeOK, Uis, AtHand
<1>u. Above[ui.path] \subseteq Paths /\ UpClosed(Above[ui.path])
  BY <1>t, AboveIsClosed
<1>n. \A j \in Present : folders[j].path # a
  BY DEF IdsOf
<1>g. (\A j \in Present' : j \in Present /\ folders'[j].path = folders[j].path) => IdsOf(a)' = {}
  BY <1>n DEF IdsOf
<1>1. CASE QueueStep
  BY <1>1, <1>g DEF QueueStep, Present
<1>2. CASE PhotoStep
  BY <1>2, <1>t, <1>g, PhotoStepRows
<1>3. CASE DeleteStep
  BY <1>3, <1>t, <1>g, DeletedRows DEF DeleteStep
<1>4. ASSUME NEW q \in Paths, AddSubFolder(q), AddStep(q, thread.scan.id)
      PROVE  IdsOf(a)' = {}
  <2>1. thread.scan.id \in Present /\ folders[thread.scan.id].path = Parent[q]
    BY <1>4, SubFolderHangs DEF TreeInv
  <2>2. Parent[q] \in Paths
    BY <2>1, <1>t DEF Present, Rows
  <2>3. Parent[q] \notin Above[ui.path]
    BY <2>1 DEF IdsOf
  <2>4. q # a
    BY <2>2, <2>3, <1>u, NoneIsNoPath DEF UpClosed
  <2>5. thread.scan.id \in Ids \cup {0}
    BY <2>1 DEF Present
  <2>6. /\ Present' = Present \cup {NewId} /\ folders'[NewId].path = q
        /\ \A j \in Present : folders'[j].path = folders[j].path
    BY <2>5, <1>4, <1>t, AddedRows
  <2> QED
    BY <2>4, <2>6, <1>n DEF IdsOf
<1>5. CASE AddDir /\ AddStep(ui.path, ui.parent)
  <2>1. CASE ui.path = ui.goal
    <3>1. ui' = [AtRest EXCEPT !.at = "rescan", !.roots = {ui.goal}]
      BY <1>5, <2>1 DEF AddDir, AddStep
    <3> QED
      BY <3>1 DEF AtRest
  <2>2. CASE ui.path # ui.goal
    <3>1. ui' = [ui EXCEPT !.path = Towards(ui.path, ui.goal), !.parent = NewId]
      BY <1>5, <2>2 DEF AddDir, AddStep
    <3>2. ui.goal \in Paths /\ ui.path \in Above[ui.goal]
      BY <2>2, <1>t DEF Within, Below
    <3>3. Parent[Towards(ui.path, ui.goal)] = ui.path
      BY <3>2, TowardsIsBetween
    <3>4. ui.path = Towards(ui.path, ui.goal)
      BY <3>1, <1>t DEF Uis
    <3> QED
      BY <3>3, <3>4, <1>t, AboveIsClosed, TreeAssumption, NoneIsNoPath
  <2> QED
    BY <2>1, <2>2
<1> QED
  BY <1>1, <1>2, <1>3, <1>4, <1>5, RowsStep

\* What findDirOrAdd finds is the row of the folder, or nothing.
LEMMA FoundIsRight ==
  ASSUME TablesInv, CachesAreRight, NEW p \in Paths
  PROVE  /\ FoundId(p) = 0 => IdsOf(p) = {}
         /\ FoundId(p) \in Present => folders[FoundId(p)].path = p
<1>1. /\ FoundId(p) \in Ids \cup {0}
      /\ rev[p] = 0 => FoundId(p) \in IdsOf(p) \/ (FoundId(p) = 0 /\ IdsOf(p) = {})
      /\ rev[p] # 0 => FoundId(p) = rev[p]
  BY FoundTyped DEF TablesInv, TypeOK
<1>2. \A i \in IdsOf(p) : i # 0 /\ folders[i].path = p
  BY NumbersTyped DEF IdsOf, Present
<1> QED
  BY <1>1, <1>2 DEF CachesAreRight

LEMMA AddedStaysRight ==
  ASSUME TablesInv, TreeInv, [Next]_vars, IdsAreNew
  PROVE  AddedHangs'
<1>t. /\ folders \in [Ids -> Rows \cup {None}] /\ PathsDiffer /\ ui \in Uis
      /\ ui.at = "find" => ui.goal \in Paths
      /\ ui.at = "add" => ui.path \in Paths /\ ui.goal \in Within(ui.path)
      /\ AddedHangs /\ CachesAreRight /\ excludedtrees = {}
  BY DEF TablesInv, TypeOK, Uis, AtHand, TreeInv
<1>1. CASE UNCHANGED ui
  <2>1. ui.at = "find" => ui.parent = 0
    BY <1>t DEF AddedHangs
  <2>2. ASSUME ui.at = "add", ui.parent = 0, NEW a \in Above[ui.path] PROVE IdsOf(a)' = {}
    BY <2>2, <1>1, <1>t, NothingAboveAppears DEF AddedHangs
  <2>3. ASSUME ui.at = "add", ui.parent \in Present'
        PROVE  folders'[ui.parent].path = Parent[ui.path]
    BY <2>3, <1>t, RowsAreOldOrNew DEF AddedHangs
  <2> QED
    BY <2>1, <2>2, <2>3, <1>1 DEF AddedHangs
<1>2. CASE NotAdding \/ Asked
  BY <1>2 DEF NotAdding, Asked, AddedHangs
<1>3. CASE FindDir
  <2>1. ui.at = "find" /\ ui.goal \in Paths /\ ui.parent = 0 /\ UNCHANGED folders
    BY <1>3, <1>t DEF FindDir, AddedHangs, dbVars
  <2>2. Above[ui.goal] \subseteq Paths
    BY <2>1, AboveIsClosed
  <2>3. Present' = Present /\ \A q \in Paths : IdsOf(q)' = IdsOf(q)
    BY <2>1 DEF Present, IdsOf
  <2>4. CASE FindGoal
    <3>1. ui'.at = "rescan"
      BY <2>4 DEF FindGoal, AtRest
    <3> QED
      BY <3>1 DEF AddedHangs
  <2>5. CASE FindNone
    <3>1. ui'.at = "add" /\ ui'.path = ui.goal /\ ui'.parent = 0
      BY <2>1, <2>5, <1>t DEF FindNone, Uis
    <3>2. \A a \in Above[ui.goal] : IdsOf(a) = {}
      BY <2>2, <2>5, <1>t, FoundIsRight DEF FindNone
    <3>3. 0 \notin Present'
      BY NumbersTyped DEF Present
    <3> QED
      BY <3>1, <3>2, <3>3, <2>2, <2>3 DEF AddedHangs
  <2>6. ASSUME NEW a \in Above[ui.goal], FindNearest(a) PROVE AddedHangs'
    <3>1. a \in Paths /\ FoundId(a) # 0
      BY <2>2, <2>6 DEF FindNearest
    <3>2. ui'.at = "add" /\ ui'.path = Towards(a, ui.goal) /\ ui'.parent = FoundId(a)
      BY <2>6, <1>t DEF FindNearest, Uis
    <3>3. Parent[Towards(a, ui.goal)] = a
      BY <2>1, TowardsIsBetween
    <3>4. FoundId(a) \in Present => folders[FoundId(a)].path = a
      BY <3>1, <1>t, FoundIsRight
    <3> QED
      BY <3>1, <3>2, <3>3, <3>4, <2>1, <2>3 DEF AddedHangs
  <2> QED
    BY <1>3, <2>1, <2>4, <2>5, <2>6, FindDirStep
<1>4. CASE NextAdded
  <2>1. /\ ui.at = "add" /\ ui.path \in Paths /\ ui.goal \in Paths
        /\ ui.path \in Above[ui.goal] /\ ui.parent \in Ids \cup {0}
    BY <1>4, <1>t DEF NextAdded, AddDir, Within, Below, Uis
  <2>2. folders' = Added(ui.path, ui.parent) /\ IdsOf(ui.path) = {}
    BY <1>4 DEF NextAdded, AddDir, Addable
  <2>3. NewId \in Ids /\ NewId # 0
    BY <2>1, <2>2, <1>t, NewIdIsFree, NumbersTyped
  <2>4. folders'[NewId].path = ui.path
    BY <2>2, <2>3 DEF Added
  <2>5. ui'.at = "add" /\ ui'.path = Towards(ui.path, ui.goal) /\ ui'.parent = NewId
    BY <2>1, <1>4, <1>t DEF NextAdded, Uis
  <2>6. Parent[Towards(ui.path, ui.goal)] = ui.path
    BY <2>1, TowardsIsBetween
  <2> QED
    BY <2>3, <2>4, <2>5, <2>6 DEF AddedHangs
<1> QED
  BY <1>1, <1>2, <1>3, <1>4, UiMoves

LEMMA NothingExcluded ==
  ASSUME "exclude" \notin Hasty, excludedtrees = {}, [Next]_vars
  PROVE  excludedtrees' = {}
<1>1. ASSUME NEW p \in Paths, NEW e \in Paths \cup {None}, AddTree(p, e)
      PROVE  excludedtrees' = {}
  BY <1>1 DEF AddTree, Abort, dbVars
<1> QED
  BY <1>1, ExcludedStep

LEMMA NextTree ==
  ASSUME "exclude" \notin Hasty, TablesInv, TreeInv, [Next]_vars, [IdsAreNew]_vars
  PROVE  TreeInv'
<1>1. IdsAreNew
  <2>1. UNCHANGED vars => folders' = folders
    BY DEF vars, dbVars
  <2>2. folders' = folders => IdsAreNew
    BY DEF IdsAreNew
  <2> QED
    BY <2>1, <2>2
<1>2. HangsFromParent' /\ HangsFromNoOther'
  BY TreeStays
<1>3. CachesAreRight'
  BY <1>1, CachesStayRight DEF TreeInv
<1>4. ListedHangs'
  BY ListStaysRight DEF TreeInv
<1>5. AddedHangs'
  BY <1>1, AddedStaysRight
<1>6. excludedtrees' = {}
  BY NothingExcluded DEF TreeInv
<1> QED
  BY <1>2, <1>3, <1>4, <1>5, <1>6 DEF TreeInv

LEMMA InitTree == Init => TreeInv
<1> SUFFICES ASSUME Init PROVE TreeInv
  OBVIOUS
<1>1. Present = {}
  BY DEF Init, Present
<1>2. thread.scan.newsubdirs = {}
  BY DEF Init, Asleep, NoScan
<1>3. ui.at = "idle"
  BY DEF Init, AtRest
<1> QED
  BY <1>1, <1>2, <1>3 DEF Init, TreeInv, HangsFromParent, HangsFromNoOther, CachesAreRight,
     ListedHangs, AddedHangs

\* The rows are one tree, like the folders.
LEMMA TreeIsOne == TablesInv /\ TreeInv => OneTree
<1> SUFFICES ASSUME TablesInv, TreeInv, NEW i \in Present
             PROVE  /\ IdsOf(folders[i].path) = {i}
                    /\ folders[i].parent =
                         (LET above == {j \in Present : folders[j].path = Parent[folders[i].path]}
                          IN  IF above = {} THEN 0 ELSE CHOOSE j \in above : TRUE)
  BY DEF OneTree
<1> DEFINE above == {j \in Present : folders[j].path = Parent[folders[i].path]}
<1>1. IdsOf(folders[i].path) = {i}
  BY DEF TablesInv, PathsDiffer, IdsOf
<1>2. CASE above = {}
  <2>1. folders[i].parent = 0
    BY <1>2 DEF TreeInv, HangsFromNoOther
  <2> QED
    BY <1>1, <1>2, <2>1
<1>3. CASE above # {}
  <2>1. PICK j : j = CHOOSE k \in above : TRUE
    OBVIOUS
  <2>2. j \in above
    BY <2>1, <1>3
  <2>3. folders[i].parent = j
    BY <2>2 DEF TreeInv, HangsFromParent
  <2> QED
    BY <1>1, <1>3, <2>1, <2>3
<1> QED
  BY <1>1, <1>2, <1>3

(* When no tree is excluded, the rows of the folders are one tree, like the
   folders, whatever the thread scans and the interface adds, in any order: no
   step makes two rows of a folder or leaves one apart from its parent's.  The
   theorem is about behaviours where no new row gets an id that is remembered:
   SQLite gives the id of the row deleted last again, which the caches of
   PhotoDB then take for the old one's. *)
THEOREM RowsFollowFolders ==
  ASSUME "exclude" \notin Hasty
  PROVE  FreshSpec => []OneTree
<1>1. Init => TablesInv /\ TreeInv
  BY InitTables, InitTree
<1>2. TablesInv /\ TreeInv /\ [Next]_vars /\ [IdsAreNew]_vars => (TablesInv /\ TreeInv)'
  BY NextTables, NextTree
<1> QED
  BY <1>1, <1>2, TreeIsOne, PTL DEF FreshSpec, Spec

-----------------------------------------------------------------------------
(* At rest the tables agree with the disk *)

\* What was listed has a row.
SeenHasRow == \A p \in Paths : seen[p] => IdsOf(p) # {}

\* No time of a file or of a scan is yet to come.
ClocksRight ==
  /\ \A p \in Paths : disk[p] <= clock
  /\ \A i \in Present : folders[i].photo.lastscan <= clock

\* A photo that counts as scanned has the metadata of its present content.
DataRight ==
  \A i \in Present :
    HasPhoto(i) /\ disk[folders[i].path] > 0 /\ folders[i].photo.lastscan >= disk[folders[i].path]
      => folders[i].photo.data = disk[folders[i].path]

\* The metadata that was just read is that of the file.
ReadRight == \A p \in Paths : BeingRead(p) /\ disk[p] > 0 => thread.data = disk[p]

\* The thread has a folder or a photo at hand only while it scans one.
AtHandOnly ==
  /\ thread.at \notin ScanPlaces => thread.scan.id = 0
  /\ thread.at \notin {"read", "update"} => thread.photo = 0

\* What a scan found in the table hangs from its folder until it is dropped.
FoundHangs ==
  thread.at \in {"dropphotos", "dropfolders"} =>
    \A q \in Paths : LET id == thread.scan.oldsubdirs[q]
                     IN  id # 0 => id \in SubFolders(thread.scan.id) /\ folders[id].path = q

\* The row of a folder that has not changed since it was listed, when the scan is over:
Settled(i) ==
  /\ HasPhoto(i) <=> disk[folders[i].path] > 0
  /\ HasPhoto(i) => \/ i \in photostoscan \/ i = thread.photo
                    \/ folders[i].photo.lastscan >= disk[folders[i].path]
  /\ \A q \in Children(folders[i].path) : Exists(q) <=> IdsOf(q) # {}

\* and while it goes on, for its photo and for each subfolder.
PhotoListed(i) ==
  LET s == thread.scan
      p == folders[i].path
  IN  /\ s.newphoto = (IF Exists(p) THEN disk[p] ELSE 0)
      /\ thread.at = "dropphotos" => (HasPhoto(i) <=> s.oldphoto)
      /\ thread.at \in {"dropfolders", "addfolders"} =>
           (HasPhoto(i) <=> s.oldphoto /\ s.newphoto # 0)
      /\ thread.at \in {"queuefolders", "queuephotos"} => (HasPhoto(i) <=> s.newphoto # 0)
SubdirListed(q) ==
  LET new == q \in thread.scan.newsubdirs
      id  == thread.scan.oldsubdirs[q]
  IN  /\ new <=> Exists(q)
      /\ thread.at \in {"dropphotos", "dropfolders"} => IdsOf(q) = {id} \ {0}
      /\ thread.at = "addfolders" => IdsOf(q) = IF new THEN {id} \ {0} ELSE {}
      /\ thread.at \in {"queuefolders", "queuephotos"} => (new <=> IdsOf(q) # {})
Listed(i) == PhotoListed(i) /\ \A q \in Children(folders[i].path) : SubdirListed(q)

RowRight(i) ==
  seen[folders[i].path] => IF i = thread.scan.id THEN Listed(i) ELSE Settled(i)

\* The inductive invariant of CaughtUp.
SeenRight ==
  /\ SeenHasRow /\ ClocksRight /\ DataRight /\ ReadRight /\ AtHandOnly /\ FoundHangs
  /\ \A i \in Present : RowRight(i)

\* What is known of the types.
Typed ==
  /\ folders \in [Ids -> Rows \cup {None}] /\ PathsDiffer
  /\ thread \in Threads /\ seen \in [Paths -> BOOLEAN]
  /\ clock \in Times /\ disk \in [Paths -> Times \cup {Absent, Gone}]
  /\ \A i \in Present : /\ i \in Ids /\ folders[i] \in Rows /\ folders[i].path \in Paths
                        /\ folders[i].photo \in Photos

LEMMA TablesTyped ==
  ASSUME TablesInv
  PROVE  Typed /\ 0 \notin Ids /\ \A i \in Present : i # 0
<1>1. 0 \notin Ids BY NumbersTyped
<1>2. \A i \in Present : /\ i \in Ids /\ folders[i] \in Rows /\ folders[i].path \in Paths
                         /\ folders[i].photo \in Photos
  BY DEF TablesInv, TypeOK, Present, Rows, Photos
<1> QED BY <1>1, <1>2 DEF Typed, TablesInv, TypeOK, Threads

LEMMA TablesTypedNext ==
  ASSUME TablesInv'
  PROVE  Typed'
<1>2. \A i \in Present' : /\ i \in Ids /\ folders'[i] \in Rows /\ folders'[i].path \in Paths
                          /\ folders'[i].photo \in Photos
  BY DEF TablesInv, TypeOK, Present, Rows, Photos
<1> QED BY <1>2 DEF Typed, TablesInv, TypeOK, Threads

\* No folder counts as listed that did not; the thread is at no row and no photo.
Less == \A p \in Paths : seen'[p] => seen[p]
Resting == thread.at \notin ScanPlaces \cup {"read", "update"}

\* A step that leaves the rows and the disk alone and keeps at hand what is there.
LEMMA SteadySeen ==
  ASSUME TablesInv, TablesInv', SeenRight, Less,
         UNCHANGED <<folders, disk, clock, photostoscan>>,
         \/ UNCHANGED thread
         \/ Resting /\ Resting' /\ thread'.scan.id = 0 /\ thread'.photo = 0
  PROVE  SeenRight'
<1>t. Typed /\ Typed' /\ Present' = Present /\ \A i \in Present : i # 0
  BY TablesTyped, TablesTypedNext DEF Present
<1>1. SeenHasRow' BY <1>t DEF SeenRight, SeenHasRow, Less, IdsOf, Typed
<1>2. ClocksRight' /\ DataRight'
  BY <1>t DEF SeenRight, ClocksRight, DataRight, HasPhoto
<1>3. (ReadRight /\ AtHandOnly /\ FoundHangs)'
  BY <1>t DEF SeenRight, ReadRight, AtHandOnly, FoundHangs, BeingRead, HasPhoto, SubFolders, Resting,
     ScanPlaces
<1>4. ASSUME NEW i \in Present, seen'[folders[i].path]
      PROVE  IF i = thread'.scan.id THEN Listed(i)' ELSE Settled(i)'
  <2>1. seen[folders[i].path] BY <1>4, <1>t DEF Less, Typed
  <2>2. RowRight(i) BY DEF SeenRight
  <2>3. CASE UNCHANGED thread
    <3>1. i = thread.scan.id => Listed(i)'
      BY <2>1, <2>2, <2>3, <1>t DEF RowRight, Listed, PhotoListed, SubdirListed, HasPhoto, Exists,
         Children, IdsOf
    <3>2. i # thread.scan.id => Settled(i)'
      BY <2>1, <2>2, <2>3, <1>t DEF RowRight, Settled, HasPhoto, Exists, Children, IdsOf
    <3> QED BY <3>1, <3>2, <2>3
  <2>4. CASE Resting /\ Resting' /\ thread'.scan.id = 0 /\ thread'.photo = 0
    <3>1. thread.scan.id = 0 /\ thread.photo = 0
      BY <2>4 DEF SeenRight, AtHandOnly, Resting
    <3>2. i # 0 /\ Settled(i) BY <2>1, <2>2, <3>1, <1>t DEF RowRight
    <3>3. Settled(i)'
      BY <3>1, <3>2, <2>4, <1>t DEF Settled, HasPhoto, Exists, Children, IdsOf
    <3> QED BY <3>2, <3>3, <2>4
  <2> QED BY <2>3, <2>4
<1>5. \A i \in Present' : RowRight(i)' BY <1>4, <1>t DEF RowRight
<1> QED BY <1>1, <1>2, <1>3, <1>5 DEF SeenRight

\* The program ends: what was at hand is not taken for listed any more.
LEMMA OffSeen ==
  ASSUME TablesInv, TablesInv', SeenRight, Off, UNCHANGED <<world, dbVars>>
  PROVE  SeenRight'
<1>t. Typed /\ Typed' /\ Present' = Present /\ \A i \in Present : i # 0
  BY TablesTyped, TablesTypedNext DEF Present, dbVars
<1>u. UNCHANGED <<folders, disk, clock, photostoscan>> BY DEF world, dbVars
<1>o. thread'.at = "off" /\ thread'.scan.id = 0 /\ thread'.photo = 0
  BY DEF Off, Asleep, NoScan
<1>l. Less /\ \A i \in {thread.scan.id, thread.photo} \cap Ids \cap Present : ~seen'[folders[i].path]
  <2> DEFINE busy == {thread.scan.id, thread.photo} \cap Ids
             paths == {known[i] : i \in busy} \cup {folders[i].path : i \in busy \cap Present}
  <2>1. seen' = [p \in Paths |-> seen[p] /\ p \notin paths] BY DEF Off
  <2>2. \A i \in busy \cap Present : folders[i].path \in paths /\ folders[i].path \in Paths
    BY <1>t DEF Typed
  <2> HIDE DEF paths
  <2> QED BY <2>1, <2>2, <1>t DEF Less, Typed
<1>1. SeenHasRow' BY <1>t, <1>u, <1>l DEF SeenRight, SeenHasRow, Less, IdsOf, Typed
<1>2. ClocksRight' /\ DataRight'
  BY <1>t, <1>u DEF SeenRight, ClocksRight, DataRight, HasPhoto
<1>3. (ReadRight /\ AtHandOnly /\ FoundHangs)'
  BY <1>o DEF ReadRight, AtHandOnly, FoundHangs, BeingRead
<1>4. ASSUME NEW i \in Present, seen'[folders[i].path]
      PROVE  i # thread'.scan.id /\ Settled(i)'
  <2>1. seen[folders[i].path] /\ i # thread.scan.id /\ i # thread.photo /\ i # 0
    BY <1>4, <1>t, <1>l DEF Less, Typed
  <2>2. Settled(i) BY <2>1 DEF SeenRight, RowRight
  <2>3. Settled(i)'
    BY <2>1, <2>2, <1>t, <1>u DEF Settled, HasPhoto, Exists, Children, IdsOf
  <2> QED BY <2>1, <2>3, <1>o
<1>5. \A i \in Present' : RowRight(i)' BY <1>4, <1>t, <1>u DEF RowRight
<1> QED BY <1>1, <1>2, <1>3, <1>5 DEF SeenRight

\* The disk changes under a folder that is not listed after.
LEMMA ChangedSeen ==
  ASSUME TablesInv, TablesInv', SeenRight, Less, UNCHANGED <<folders, thread, photostoscan>>,
         clock' = clock + 1,
         \A p \in Paths : disk'[p] # disk[p] =>
           /\ ~seen'[p]
           /\ disk'[p] <= 0 \/ (disk'[p] = clock' /\ ~BeingRead(p)),
         \A q \in Paths : Parent[q] \in Paths /\ Exists(q)' # Exists(q) => ~seen'[Parent[q]]
  PROVE  SeenRight'
<1>t. Typed /\ Typed' /\ Present' = Present
  BY TablesTyped, TablesTypedNext DEF Present
<1>n. clock \in Int /\ \A p \in Paths : disk[p] \in Int /\ disk'[p] \in Int
  <2>1. \A n \in Times \cup {Absent, Gone} : n \in Int
    BY NumbersTyped DEF Absent, Gone, Times
  <2>2. clock \in Int /\ \A p \in Paths : disk[p] \in Int
    BY <1>t, <2>1 DEF Typed
  <2>3. \A p \in Paths : disk'[p] \in Int
    BY <1>t, <2>1 DEF Typed
  <2> QED BY <2>2, <2>3
<1>1. SeenHasRow' BY <1>t DEF SeenRight, SeenHasRow, Less, IdsOf, Typed
<1>p. \A i \in Present : folders[i].photo.lastscan \in Int
  BY <1>t, NumbersTyped DEF Typed, Photos
<1>c. 0 <= clock
  BY <1>t DEF Typed, Times
<1>2. ClocksRight'
  BY <1>t, <1>n, <1>p, <1>c DEF SeenRight, ClocksRight
<1>3. DataRight'
  <2> SUFFICES ASSUME NEW i \in Present, HasPhoto(i), disk'[folders[i].path] > 0,
                      folders[i].photo.lastscan >= disk'[folders[i].path]
               PROVE  folders[i].photo.data = disk'[folders[i].path]
    BY <1>t DEF DataRight, HasPhoto
  <2>1. folders[i].path \in Paths /\ folders[i].photo.lastscan <= clock /\ folders[i].photo.lastscan \in Int
    BY <1>t, <1>p DEF Typed, SeenRight, ClocksRight
  <2>2. disk'[folders[i].path] = disk[folders[i].path]
    BY <2>1, <1>n
  <2> QED BY <2>2 DEF SeenRight, DataRight
<1>4. ReadRight' /\ AtHandOnly' /\ FoundHangs'
  <2>1. \A p \in Paths : BeingRead(p)' => BeingRead(p) BY DEF BeingRead, HasPhoto
  <2>2. ReadRight' BY <2>1, <1>n DEF SeenRight, ReadRight
  <2>3. AtHandOnly' /\ FoundHangs'
    BY <1>t DEF SeenRight, AtHandOnly, FoundHangs, SubFolders
  <2> QED BY <2>2, <2>3
<1>5. ASSUME NEW i \in Present, seen'[folders[i].path]
      PROVE  IF i = thread'.scan.id THEN Listed(i)' ELSE Settled(i)'
  <2> DEFINE p == folders[i].path
  <2>1. seen[p] /\ p \in Paths /\ disk'[p] = disk[p] BY <1>5, <1>t DEF Less, Typed
  <2>2. \A q \in Children(p) : q \in Paths /\ (Exists(q)' <=> Exists(q)) /\ IdsOf(q)' = IdsOf(q)
    BY <2>1, <1>5, <1>t DEF Children, IdsOf, Exists
  <2>3. RowRight(i) BY DEF SeenRight
  <2>4. i = thread.scan.id => Listed(i)'
    BY <2>1, <2>2, <2>3 DEF RowRight, Listed, PhotoListed, SubdirListed, HasPhoto, Exists, Children
  <2>5. i # thread.scan.id => Settled(i)'
    BY <2>1, <2>2, <2>3 DEF RowRight, Settled, HasPhoto, Children
  <2> QED BY <2>4, <2>5
<1>6. \A i \in Present' : RowRight(i)' BY <1>5, <1>t DEF RowRight
<1> QED BY <1>1, <1>2, <1>3, <1>4, <1>6 DEF SeenRight

\* A folder is listed: from here on it is right up to what the scan will do.
LEMMA ListSeen ==
  ASSUME TablesInv, TablesInv', TreeInv, SeenRight, NEW i \in Ids, ListFolder(i)
  PROVE  SeenRight'
<1>t. Typed /\ Typed' /\ 0 \notin Ids /\ \A j \in Present : j # 0
  BY TablesTyped, TablesTypedNext
<1>a. CASE known[i] = None /\ folders[i] = None
  <2>1. Off /\ UNCHANGED <<world, dbVars>> BY <1>a DEF ListFolder, Abort
  <2> QED BY <2>1, OffSeen
<1>b. CASE known[i] # None \/ folders[i] # None
  <2> DEFINE p == IF known[i] # None THEN known[i] ELSE folders[i].path
             found(q) == {j \in SubFolders(i) : folders[j].path = q}
             old == [q \in Paths |-> IF found(q) = {} THEN 0 ELSE CHOOSE j \in found(q) : TRUE]
             scan == [id |-> i, oldsubdirs |-> old, newsubdirs |-> NewSubdirs(p),
                      oldphoto |-> HasPhoto(i),
                      newphoto |-> IF Exists(p) THEN disk[p] ELSE 0]
  <2>1. /\ thread.at = "folders"
        /\ thread' = [thread EXCEPT !.at = "dropphotos", !.scan = scan]
        /\ seen' = [seen EXCEPT ![p] = @ \/ i \in Present]
        /\ UNCHANGED <<folders, disk, clock, photostoscan>>
    BY <1>b DEF ListFolder, world, dbVars
  <2>2. Present' = Present BY <2>1 DEF Present
  <2>3. thread'.at = "dropphotos" /\ thread'.scan = scan /\ thread'.photo = 0
    BY <2>1, <1>t DEF Threads, Typed, SeenRight, AtHandOnly, ScanPlaces
  <2>4. thread.scan.id = 0 /\ thread.photo = 0
    BY <2>1 DEF SeenRight, AtHandOnly, ScanPlaces
  <2>5. i \in Present => p = folders[i].path
    BY DEF TreeInv, CachesAreRight
  <2>6. \A q \in Paths : old[q] # 0 => old[q] \in found(q)
    OBVIOUS
  <2>7. \A q \in Paths, j \in Present : seen'[q] => seen[q] \/ (i \in Present /\ q = folders[i].path)
    BY <2>1, <2>5, <1>t DEF Typed
  <2>s. /\ thread'.scan.id = i /\ thread'.scan.oldsubdirs = old
        /\ thread'.scan.newsubdirs = NewSubdirs(p) /\ thread'.scan.oldphoto = HasPhoto(i)
        /\ thread'.scan.newphoto = IF Exists(p) THEN disk[p] ELSE 0
    BY <2>3
  <2> HIDE DEF p, old, scan
  <2>8. SeenHasRow'
    <3> SUFFICES ASSUME NEW q \in Paths, seen'[q] PROVE IdsOf(q) # {}
      BY <2>1, <2>2 DEF SeenHasRow, IdsOf
    <3>1. CASE seen[q] BY <3>1 DEF SeenRight, SeenHasRow
    <3>2. CASE ~seen[q]
      <4>1. i \in Present /\ q = p BY <2>1, <3>2, <1>t DEF Typed
      <4> QED BY <4>1, <2>5 DEF IdsOf
    <3> QED BY <3>1, <3>2
  <2>9. ClocksRight' /\ DataRight'
    BY <2>1, <2>2 DEF SeenRight, ClocksRight, DataRight, HasPhoto
  <2>10. ReadRight' /\ AtHandOnly' BY <2>3 DEF ReadRight, AtHandOnly, BeingRead, ScanPlaces
  <2>11. FoundHangs'
    <3>1. \A q \in Paths : old[q] # 0 => old[q] \in SubFolders(i) /\ folders[old[q]].path = q
      BY <2>6
    <3>2. SubFolders(i)' = SubFolders(i) BY <2>1, <2>2 DEF SubFolders
    <3> QED BY <3>1, <3>2, <2>s, <2>1 DEF FoundHangs
  <2>12. ASSUME NEW j \in Present, seen'[folders[j].path], j # i PROVE Settled(j)'
    <3>1. folders[j].path \in Paths BY <1>t DEF Typed
    <3>2. seen[folders[j].path]
      BY <3>1, <2>7, <2>12, <1>t DEF Typed, PathsDiffer
    <3>3. Settled(j) BY <3>2, <2>4, <1>t DEF SeenRight, RowRight
    <3> QED BY <3>3, <2>1, <2>2, <2>3, <2>4 DEF Settled, HasPhoto, Exists, Children, IdsOf
  <2>13. ASSUME i \in Present PROVE Listed(i)'
    <3>0. p = folders[i].path /\ i # 0 BY <2>5, <2>13, <1>t
    <3>1. PhotoListed(i)'
      <4>0. HasPhoto(i)' <=> HasPhoto(i) BY <2>1 DEF HasPhoto
      <4>1. HasPhoto(i)' <=> thread'.scan.oldphoto BY <4>0, <2>s, Zenon
      <4>2. thread'.scan.newphoto = (IF Exists(folders[i].path) THEN disk[folders[i].path] ELSE 0)'
        BY <3>0, <2>1, <2>s DEF Exists
      <4> QED BY <4>1, <4>2, <2>3 DEF PhotoListed
    <3>2. ASSUME NEW q \in Children(p) PROVE SubdirListed(q)'
      <4>1. q \in Paths /\ Parent[q] = p BY DEF Children
      <4>2. q \in NewSubdirs(p) <=> Exists(q)
        BY <4>1 DEF NewSubdirs, Children, TreeInv
      <4>3. IdsOf(q) = found(q)
        BY <2>13, <3>0, <4>1 DEF IdsOf, SubFolders, TreeInv, HangsFromParent
      <4>4. IdsOf(q) = {old[q]} \ {0}
        <5>1. CASE found(q) = {}
          BY <5>1, <4>1, <4>3 DEF old
        <5>2. CASE found(q) # {}
          <6>1. old[q] \in found(q) BY <5>2, <4>1 DEF old
          <6>2. \A j \in found(q) : j = old[q] /\ j # 0
            BY <6>1, <1>t DEF SubFolders, Typed, PathsDiffer
          <6> QED BY <6>1, <6>2, <4>3
        <5> QED BY <5>1, <5>2
      <4>5. IdsOf(q)' = IdsOf(q) /\ Exists(q)' = Exists(q)
        BY <2>1, <2>2 DEF IdsOf, Exists
      <4> QED BY <4>2, <4>4, <4>5, <2>s, <2>3 DEF SubdirListed
    <3>3. Children(folders'[i].path) = Children(p) BY <2>1, <3>0
    <3> QED BY <3>1, <3>2, <3>3 DEF Listed
  <2>14. \A j \in Present' : RowRight(j)'
    BY <2>12, <2>13, <2>s, <2>1, <2>2 DEF RowRight
  <2> QED BY <2>8, <2>9, <2>10, <2>11, <2>14 DEF SeenRight
<1> QED BY <1>a, <1>b

-----------------------------------------------------------------------------
(* One photo's row changes *)

PhotoSet(i, photo) == folders' = [folders EXCEPT ![i].photo = photo]

LEMMA OnePhoto ==
  ASSUME Typed, NEW i \in Present, NEW photo \in Photos,
         PhotoSet(i, photo)
  PROVE  /\ Present' = Present
         /\ \A j \in Present : folders'[j].path = folders[j].path /\ folders'[j].parent = folders[j].parent
         /\ \A j \in Present \ {i} : folders'[j] = folders[j] /\ (HasPhoto(j)' <=> HasPhoto(j))
         /\ folders'[i].photo = photo /\ (HasPhoto(i)' <=> photo.there)
         /\ \A q : IdsOf(q)' = IdsOf(q)
         /\ \A j : SubFolders(j)' = SubFolders(j)
<1>1. /\ i \in Ids /\ folders[i] \in Rows /\ folders[i] # None BY DEF Typed, Present
<1>2. folders' = [folders EXCEPT ![i] = [folders[i] EXCEPT !.photo = photo]]
  BY DEF PhotoSet
<1>3. /\ [folders[i] EXCEPT !.photo = photo] \in Rows
      /\ [folders[i] EXCEPT !.photo = photo].path = folders[i].path
      /\ [folders[i] EXCEPT !.photo = photo].parent = folders[i].parent
      /\ [folders[i] EXCEPT !.photo = photo].photo = photo
  BY <1>1, PhotoTyped
<1>4. \A j \in Ids : folders'[j] = IF j = i THEN [folders[i] EXCEPT !.photo = photo] ELSE folders[j]
  BY <1>1, <1>2 DEF Typed
<1>5. Present' = Present BY <1>1, <1>3, <1>4, RowAssumption DEF Present
<1>6. \A j \in Present : folders'[j].path = folders[j].path /\ folders'[j].parent = folders[j].parent
  BY <1>3, <1>4 DEF Present
<1>7. \A j \in Present \ {i} : folders'[j] = folders[j] BY <1>4 DEF Present
<1>8. folders'[i].photo = photo /\ folders'[i] # None BY <1>1, <1>3, <1>4, RowAssumption
<1>9. \A q : IdsOf(q)' = IdsOf(q) BY <1>5, <1>6 DEF IdsOf
<1>10. \A j : SubFolders(j)' = SubFolders(j) BY <1>5, <1>6 DEF SubFolders
<1> QED BY <1>5, <1>6, <1>7, <1>8, <1>9, <1>10 DEF HasPhoto

\* A photo's row that may stand for the photo in i's folder.
PhotoFits(i, photo) ==
  /\ photo.lastscan <= clock
  /\ photo.there /\ disk[folders[i].path] > 0 /\ photo.lastscan >= disk[folders[i].path]
       => photo.data = disk[folders[i].path]

\* The photo of one row changes; the rows of others go on as they were.
LEMMA PhotoSeen ==
  ASSUME TablesInv, TablesInv', SeenRight, Less, NEW i \in Present, NEW photo \in Photos,
         PhotoSet(i, photo),
         UNCHANGED <<disk, clock, photostoscan>>,
         thread'.scan = thread.scan, thread'.photo = thread.photo \/ (thread'.photo = 0 /\ thread.photo = i),
         thread.at = thread'.at \/ i = thread.scan.id \/ thread.scan.id = 0,
         PhotoFits(i, photo), AtHandOnly', ReadRight',
         thread'.at \in {"dropphotos", "dropfolders"} => thread.at \in {"dropphotos", "dropfolders"},
         RowRight(i)'
  PROVE  SeenRight'
<1>t. Typed /\ Typed' /\ 0 \notin Ids /\ \A j \in Present : j # 0
  BY TablesTyped, TablesTypedNext
<1>r. /\ Present' = Present
      /\ \A j \in Present : folders'[j].path = folders[j].path /\ folders'[j].parent = folders[j].parent
      /\ \A j \in Present \ {i} : folders'[j] = folders[j] /\ (HasPhoto(j)' <=> HasPhoto(j))
      /\ folders'[i].photo = photo /\ (HasPhoto(i)' <=> photo.there)
      /\ \A q : IdsOf(q)' = IdsOf(q)
      /\ \A j : SubFolders(j)' = SubFolders(j)
  BY <1>t, OnePhoto
<1>1. SeenHasRow' BY <1>r, <1>t DEF SeenRight, SeenHasRow, Less, Typed
<1>2. ClocksRight' BY <1>r DEF SeenRight, ClocksRight, PhotoFits
<1>3. DataRight'
  <2>1. \A j \in Present \ {i} :
          HasPhoto(j)' /\ disk'[folders'[j].path] > 0 /\ folders'[j].photo.lastscan >= disk'[folders'[j].path]
            => folders'[j].photo.data = disk'[folders'[j].path]
    BY <1>r DEF SeenRight, DataRight
  <2> QED BY <2>1, <1>r DEF DataRight, PhotoFits
<1>4. FoundHangs'
  <2> SUFFICES ASSUME thread'.at \in {"dropphotos", "dropfolders"}, NEW q \in Paths,
                      thread.scan.oldsubdirs[q] # 0
               PROVE  /\ thread.scan.oldsubdirs[q] \in SubFolders(thread.scan.id)
                      /\ folders'[thread.scan.oldsubdirs[q]].path = q
    BY <1>r DEF FoundHangs
  <2> QED BY <1>r DEF SeenRight, FoundHangs, SubFolders
<1>5. ASSUME NEW j \in Present \ {i}, seen'[folders'[j].path] PROVE RowRight(j)'
  <2>1. seen[folders[j].path] /\ RowRight(j) /\ folders'[j] = folders[j]
    BY <1>5, <1>r, <1>t DEF SeenRight, Less, Typed
  <2>2. CASE j = thread.scan.id
    <3>1. thread'.at = thread.at BY <2>2, <1>t
    <3>2. Listed(j) BY <2>1, <2>2 DEF RowRight
    <3>3. Listed(j)'
      BY <3>1, <3>2, <2>1, <1>r DEF Listed, PhotoListed, SubdirListed, Exists, Children
    <3> QED BY <3>3, <2>2 DEF RowRight
  <2>3. CASE j # thread.scan.id
    <3>1. Settled(j) BY <2>1, <2>3 DEF RowRight
    <3>2. Settled(j)' BY <3>1, <2>1, <1>r, <1>t DEF Settled, Exists, Children
    <3> QED BY <3>2, <2>3 DEF RowRight
  <2> QED BY <2>2, <2>3
<1>6. \A j \in Present' : RowRight(j)' BY <1>5, <1>r DEF RowRight
<1> QED BY <1>1, <1>2, <1>3, <1>4, <1>6 DEF SeenRight

\* The scan goes on to its next place and changes no row.
LEMMA MoveSeen ==
  ASSUME TablesInv, TablesInv', SeenRight, UNCHANGED <<folders, disk, clock, photostoscan, seen>>,
         thread.at \in ScanPlaces, thread'.at \in ScanPlaces,
         thread'.scan = thread.scan, thread'.photo = thread.photo,
         thread'.at \in {"dropphotos", "dropfolders"} => thread.at \in {"dropphotos", "dropfolders"},
         thread.scan.id \in Present => RowRight(thread.scan.id)'
  PROVE  SeenRight'
<1>t. Typed /\ Typed' /\ Present' = Present
  BY TablesTyped, TablesTypedNext DEF Present
<1>1. SeenHasRow' BY <1>t DEF SeenRight, SeenHasRow, IdsOf
<1>2. ClocksRight' /\ DataRight'
  BY <1>t DEF SeenRight, ClocksRight, DataRight, HasPhoto
<1>3. ReadRight' /\ AtHandOnly'
  BY DEF SeenRight, ReadRight, AtHandOnly, BeingRead, ScanPlaces
<1>4. FoundHangs' BY <1>t DEF SeenRight, FoundHangs, SubFolders
<1>5. ASSUME NEW j \in Present, j # thread.scan.id PROVE RowRight(j)'
  <2>1. RowRight(j) BY DEF SeenRight
  <2>2. seen[folders[j].path] => Settled(j) BY <2>1, <1>5 DEF RowRight
  <2>3. Settled(j) => Settled(j)' BY <1>t DEF Settled, HasPhoto, Exists, Children, IdsOf
  <2> QED BY <2>2, <2>3, <1>5 DEF RowRight
<1>6. \A j \in Present' : RowRight(j)' BY <1>5, <1>t
<1> QED BY <1>1, <1>2, <1>3, <1>4, <1>6 DEF SeenRight

\* What is listed of the subfolders does not depend on photos.
LEMMA ListedMoves ==
  ASSUME SeenRight, UNCHANGED <<disk, seen>>, NEW i \in Present, i = thread.scan.id,
         thread'.scan = thread.scan, folders'[i].path = folders[i].path,
         \A q : IdsOf(q)' = IdsOf(q),
         seen[folders[i].path] => PhotoListed(i)',
         seen[folders[i].path] => \A q \in Children(folders[i].path) : SubdirListed(q) => SubdirListed(q)'
  PROVE  RowRight(i)'
<1> SUFFICES ASSUME seen[folders[i].path] PROVE Listed(i)'
  BY DEF RowRight
<1>1. Listed(i) BY DEF SeenRight, RowRight
<1>2. Children(folders'[i].path) = Children(folders[i].path) OBVIOUS
<1> QED BY <1>1, <1>2 DEF Listed

\* A photo that is gone from the folder loses its row.
LEMMA DropPhotosSeen ==
  ASSUME TablesInv, TablesInv', SeenRight, DropPhotos
  PROVE  SeenRight'
<1>t. Typed /\ Typed' /\ 0 \notin Ids /\ \A j \in Present : j # 0
  BY TablesTyped, TablesTypedNext
<1>i. thread.at = "dropphotos" => thread.scan.id \in Ids
  BY DEF TablesInv, AtHand, ScanPlaces
<1>p. PICK i \in Ids : i = thread.scan.id
  BY <1>i DEF DropPhotos
<1> DEFINE drop == thread.scan.oldphoto /\ thread.scan.newphoto = 0
<1>a. CASE drop /\ i \in photostoscan
  <2>1. Off /\ UNCHANGED <<world, dbVars>> BY <1>a, <1>p DEF DropPhotos, Abort
  <2> QED BY <2>1, OffSeen
<1>b. CASE ~(drop /\ i \in photostoscan)
  <2>1. /\ thread.at = "dropphotos" /\ Goto("dropfolders")
        /\ folders' = IF drop /\ HasPhoto(i) THEN [folders EXCEPT ![i].photo = NoPhoto] ELSE folders
        /\ UNCHANGED <<disk, clock, photostoscan, seen>>
    BY <1>b, <1>p DEF DropPhotos, world, dbVars
  <2>2. /\ thread'.at = "dropfolders" /\ thread'.scan = thread.scan /\ thread'.photo = thread.photo
    BY <2>1, <1>t DEF Goto, Typed, Threads
  <2>4. i \in Present /\ seen[folders[i].path] => (HasPhoto(i) <=> thread.scan.oldphoto)
    BY <2>1, <1>p DEF SeenRight, RowRight, Listed, PhotoListed
  <2>5. ASSUME i \in Present, seen[folders[i].path],
               HasPhoto(i)' <=> HasPhoto(i) /\ ~(drop /\ HasPhoto(i)),
               folders'[i].path = folders[i].path
        PROVE  PhotoListed(i)'
    <3>1. thread.scan.newphoto = IF Exists(folders[i].path) THEN disk[folders[i].path] ELSE 0
      BY <2>5, <1>p DEF SeenRight, RowRight, Listed, PhotoListed
    <3>2. thread'.scan.newphoto = (IF Exists(folders[i].path) THEN disk[folders[i].path] ELSE 0)'
      BY <3>1, <2>1, <2>2, <2>5 DEF Exists
    <3>3. HasPhoto(i)' <=> thread'.scan.oldphoto /\ thread'.scan.newphoto # 0
      BY <2>2, <2>4, <2>5
    <3> QED BY <3>2, <3>3, <2>2 DEF PhotoListed
  <2>6. ASSUME \A q : IdsOf(q)' = IdsOf(q)
        PROVE  \A q : SubdirListed(q) => SubdirListed(q)'
    BY <2>1, <2>2, <2>6 DEF SubdirListed, Exists
  <2>c. CASE drop /\ HasPhoto(i)
    <3>1. i \in Present BY <2>c DEF HasPhoto, Present
    <3>2. PhotoSet(i, NoPhoto) BY <2>1, <2>c DEF PhotoSet
    <3>3. NoPhoto \in Photos /\ NoPhoto.there = FALSE /\ NoPhoto.lastscan = 0
      BY PhotosTyped DEF NoPhoto
    <3>4. /\ \A j \in Present : folders'[j].path = folders[j].path
          /\ ~HasPhoto(i)' /\ \A q : IdsOf(q)' = IdsOf(q)
      BY <3>1, <3>2, <3>3, <1>t, OnePhoto
    <3>5. RowRight(i)'
      BY <3>1, <3>4, <2>1, <2>2, <2>5, <2>6, <2>c, <1>p, ListedMoves
    <3>6. 0 <= clock BY <1>t DEF Typed, Times
    <3>7. AtHandOnly' /\ ReadRight'
      BY <2>1, <2>2 DEF SeenRight, AtHandOnly, ReadRight, BeingRead, ScanPlaces
    <3>8. PhotoFits(i, NoPhoto) BY <3>3, <3>6 DEF PhotoFits
    <3>9. /\ UNCHANGED <<disk, clock, photostoscan>>
          /\ thread'.scan = thread.scan
          /\ thread'.photo = thread.photo \/ (thread'.photo = 0 /\ thread.photo = i)
          /\ thread'.at \in {"dropphotos", "dropfolders"} => thread.at \in {"dropphotos", "dropfolders"}
          /\ thread.at = thread'.at \/ i = thread.scan.id \/ thread.scan.id = 0
      BY <2>1, <2>2, <1>p
    <3>l. Less BY <2>1 DEF Less
    <3> QED BY <3>1, <3>2, <3>3, <3>5, <3>7, <3>8, <3>9, <3>l, PhotoSeen
  <2>d. CASE ~(drop /\ HasPhoto(i))
    <3>1. UNCHANGED folders BY <2>1, <2>d
    <3>2. (\A q : IdsOf(q)' = IdsOf(q)) /\ (HasPhoto(i)' <=> HasPhoto(i))
      BY <3>1 DEF IdsOf, Present, HasPhoto
    <3>3. i \in Present => RowRight(i)'
      BY <3>1, <3>2, <2>1, <2>2, <2>5, <2>6, <2>d, <1>p, ListedMoves
    <3> QED BY <3>1, <3>3, <2>1, <2>2, <1>p, MoveSeen DEF ScanPlaces
  <2> QED BY <2>c, <2>d
<1> QED BY <1>a, <1>b

\* A photo that is new in the folder gets its row.
LEMMA AddPhotosSeen ==
  ASSUME TablesInv, TablesInv', SeenRight, AddPhotos
  PROVE  SeenRight'
<1>t. Typed /\ Typed' /\ 0 \notin Ids /\ \A j \in Present : j # 0
  BY TablesTyped, TablesTypedNext
<1>i. thread.at = "addfolders" => thread.scan.id \in Ids
  BY DEF TablesInv, AtHand, ScanPlaces
<1>p. PICK i \in Ids : i = thread.scan.id
  BY <1>i DEF AddPhotos
<1> DEFINE new == thread.scan.newphoto # 0 /\ ~thread.scan.oldphoto
<1>a. CASE new /\ i \notin Present
  <2>1. Off /\ UNCHANGED <<world, dbVars>> BY <1>a, <1>p DEF AddPhotos, Abort
  <2> QED BY <2>1, OffSeen
<1>b. CASE ~(new /\ i \notin Present)
  <2>1. /\ thread.at = "addfolders" /\ Goto("queuefolders") /\ Unknown = {}
        /\ folders' = IF new THEN [folders EXCEPT ![i].photo = NewPhoto] ELSE folders
        /\ UNCHANGED <<disk, clock, photostoscan, seen>>
    BY <1>b, <1>p DEF AddPhotos, world, dbVars
  <2>2. /\ thread'.at = "queuefolders" /\ thread'.scan = thread.scan /\ thread'.photo = thread.photo
    BY <2>1, <1>t DEF Goto, Typed, Threads
  <2>4. i \in Present /\ seen[folders[i].path] =>
          (HasPhoto(i) <=> thread.scan.oldphoto /\ thread.scan.newphoto # 0)
    BY <2>1, <1>p DEF SeenRight, RowRight, Listed, PhotoListed
  <2>5. ASSUME i \in Present, seen[folders[i].path],
               HasPhoto(i)' <=> HasPhoto(i) \/ new,
               folders'[i].path = folders[i].path
        PROVE  PhotoListed(i)'
    <3>1. thread.scan.newphoto = IF Exists(folders[i].path) THEN disk[folders[i].path] ELSE 0
      BY <2>5, <1>p DEF SeenRight, RowRight, Listed, PhotoListed
    <3>2. thread'.scan.newphoto = (IF Exists(folders[i].path) THEN disk[folders[i].path] ELSE 0)'
      BY <3>1, <2>1, <2>2, <2>5 DEF Exists
    <3>3. HasPhoto(i)' <=> thread'.scan.newphoto # 0
      BY <2>2, <2>4, <2>5
    <3> QED BY <3>2, <3>3, <2>2 DEF PhotoListed
  <2>6. ASSUME \A q : IdsOf(q)' = IdsOf(q)
        PROVE  \A q \in Paths : SubdirListed(q) => SubdirListed(q)'
    <3> SUFFICES ASSUME NEW q \in Paths, SubdirListed(q) PROVE SubdirListed(q)'
      OBVIOUS
    <3>1. q \in thread.scan.newsubdirs => thread.scan.oldsubdirs[q] # 0
      BY <2>1 DEF Unknown
    <3>2. q \in thread.scan.newsubdirs <=> IdsOf(q) # {}
      BY <3>1, <2>1 DEF SubdirListed
    <3> QED BY <3>2, <2>1, <2>2, <2>6 DEF SubdirListed, Exists
  <2>7. \A p : Children(p) \subseteq Paths BY DEF Children
  <2>c. CASE new
    <3>1. i \in Present BY <1>b, <2>c
    <3>2. PhotoSet(i, NewPhoto) BY <2>1, <2>c DEF PhotoSet
    <3>3. NewPhoto \in Photos /\ NewPhoto.there = TRUE /\ NewPhoto.lastscan = 0
      BY PhotosTyped DEF NewPhoto
    <3>4. /\ \A j \in Present : folders'[j].path = folders[j].path
          /\ HasPhoto(i)' /\ \A q : IdsOf(q)' = IdsOf(q)
      BY <3>1, <3>2, <3>3, <1>t, OnePhoto
    <3>5. RowRight(i)'
      BY <3>1, <3>4, <2>1, <2>2, <2>5, <2>6, <2>7, <2>c, <1>p, ListedMoves
    <3>6. 0 <= clock BY <1>t DEF Typed, Times
    <3>7. AtHandOnly' /\ ReadRight'
      BY <2>1, <2>2 DEF SeenRight, AtHandOnly, ReadRight, BeingRead, ScanPlaces
    <3>8. \A d \in Times \cup {Absent, Gone} : ~(d > 0 /\ 0 >= d)
      BY NumbersTyped DEF Absent, Gone
    <3>9. disk[folders[i].path] \in Times \cup {Absent, Gone}
      BY <3>1, <1>t DEF Typed
    <3>10. PhotoFits(i, NewPhoto) BY <3>3, <3>6, <3>8, <3>9 DEF PhotoFits
    <3>11. /\ UNCHANGED <<disk, clock, photostoscan>>
           /\ thread'.scan = thread.scan
           /\ thread'.photo = thread.photo \/ (thread'.photo = 0 /\ thread.photo = i)
           /\ thread'.at \in {"dropphotos", "dropfolders"} => thread.at \in {"dropphotos", "dropfolders"}
           /\ thread.at = thread'.at \/ i = thread.scan.id \/ thread.scan.id = 0
      BY <2>1, <2>2, <1>p
    <3>l. Less BY <2>1 DEF Less
    <3> QED BY <3>1, <3>2, <3>3, <3>5, <3>7, <3>10, <3>11, <3>l, PhotoSeen
  <2>d. CASE ~new
    <3>1. UNCHANGED folders BY <2>1, <2>d
    <3>2. (\A q : IdsOf(q)' = IdsOf(q)) /\ (HasPhoto(i)' <=> HasPhoto(i))
      BY <3>1 DEF IdsOf, Present, HasPhoto
    <3>3. i \in Present => RowRight(i)'
      BY <3>1, <3>2, <2>1, <2>2, <2>5, <2>6, <2>7, <2>d, <1>p, ListedMoves
    <3> QED BY <3>1, <3>3, <2>1, <2>2, <1>p, MoveSeen DEF ScanPlaces
  <2> QED BY <2>c, <2>d
<1> QED BY <1>a, <1>b

\* Every subfolder has its row by now, and no other has.
LEMMA QueueFoldersSeen ==
  ASSUME TablesInv, TablesInv', SeenRight, QueueFolders
  PROVE  SeenRight'
<1>t. Typed BY TablesTyped
<1> DEFINE i == thread.scan.id
           ids == {thread.scan.oldsubdirs[q] : q \in thread.scan.newsubdirs}
<1>a. CASE ~(ids \subseteq Present)
  <2>1. Off /\ UNCHANGED <<world, dbVars>> BY <1>a DEF QueueFolders, Abort
  <2> QED BY <2>1, OffSeen
<1>b. CASE ids \subseteq Present
  <2>1. /\ thread.at = "queuefolders"
        /\ thread' = [thread EXCEPT !.at = "queuephotos", !.count = @ \/ ids # {}]
        /\ UNCHANGED <<folders, disk, clock, photostoscan, seen>>
    BY <1>b DEF QueueFolders, world, dbVars
  <2> HIDE DEF ids
  <2>2. /\ thread'.at = "queuephotos" /\ thread'.scan = thread.scan /\ thread'.photo = thread.photo
    BY <2>1, <1>t DEF Typed, Threads
  <2>3. (\A q : IdsOf(q)' = IdsOf(q)) /\ (HasPhoto(i)' <=> HasPhoto(i))
    BY <2>1 DEF IdsOf, Present, HasPhoto
  <2>4. \A q : SubdirListed(q) => SubdirListed(q)'
    BY <2>1, <2>2, <2>3 DEF SubdirListed, Exists
  <2>5. PhotoListed(i) => PhotoListed(i)'
    BY <2>1, <2>2, <2>3 DEF PhotoListed, Exists
  <2>6. i \in Present /\ seen[folders[i].path] => PhotoListed(i)'
    BY <2>5 DEF SeenRight, RowRight, Listed
  <2>7. i \in Present => RowRight(i)'
    BY <2>1, <2>2, <2>3, <2>4, <2>6, ListedMoves
  <2> QED BY <2>1, <2>2, <2>7, MoveSeen DEF ScanPlaces
<1> QED BY <1>a, <1>b

LEMMA DiskTyped ==
  ASSUME Typed, NEW p \in Paths
  PROVE  disk[p] \in Int /\ (disk[p] >= 0 \/ disk[p] \in {Absent, Gone}) /\ clock \in Int /\ 0 <= clock
BY NumbersTyped DEF Typed, Absent, Gone, Times

\* The scan of a folder ends: what it listed is settled, or queued.
LEMMA QueuePhotosSeen ==
  ASSUME TablesInv, TablesInv', SeenRight, QueuePhotos
  PROVE  SeenRight'
<1>t. Typed /\ Typed' /\ 0 \notin Ids /\ \A j \in Present : j # 0
  BY TablesTyped, TablesTypedNext
<1>i. thread.at = "queuephotos" => thread.scan.id \in Ids
  BY DEF TablesInv, AtHand, ScanPlaces
<1>p. PICK i \in Ids : i = thread.scan.id
  BY <1>i DEF QueuePhotos
<1> DEFINE found == thread.scan.newphoto # 0
           queue == {j \in {i} : found /\ NeedsScan(j)}
<1>a. CASE found /\ ~HasPhoto(i)
  <2>1. Off /\ UNCHANGED <<world, dbVars>> BY <1>a, <1>p DEF QueuePhotos, Abort
  <2> QED BY <2>1, OffSeen
<1>b. CASE ~(found /\ ~HasPhoto(i))
  <2>1. /\ thread.at = "queuephotos"
        /\ photostoscan' = photostoscan \cup queue
        /\ UNCHANGED <<folders, disk, clock, seen>>
        /\ thread' = [thread EXCEPT !.at = "folders", !.ids = @ \ {i}, !.scan = NoScan,
                                    !.count = @ \/ queue # {}]
    BY <1>b, <1>p DEF QueuePhotos, world, dbVars
  <2>2. /\ thread'.at = "folders" /\ thread'.scan.id = 0 /\ thread'.photo = thread.photo
    <3> HIDE DEF queue
    <3> QED BY <2>1, <1>t DEF Typed, Threads, NoScan
  <2>3. thread'.photo = 0 BY <2>1, <2>2 DEF SeenRight, AtHandOnly
  <2>4. Present' = Present BY <2>1 DEF Present
  <2>5. SeenHasRow' BY <2>1, <2>4 DEF SeenRight, SeenHasRow, IdsOf
  <2>6. ClocksRight' /\ DataRight'
    BY <2>1, <2>4 DEF SeenRight, ClocksRight, DataRight, HasPhoto
  <2>7. (ReadRight /\ AtHandOnly /\ FoundHangs)'
    BY <2>2, <2>3 DEF ReadRight, AtHandOnly, FoundHangs, BeingRead, ScanPlaces
  <2>8. ASSUME NEW j \in Present, seen[folders[j].path], j # i PROVE Settled(j)'
    <3>1. Settled(j) BY <2>8, <1>p DEF SeenRight, RowRight
    <3>2. photostoscan \subseteq photostoscan' BY <2>1
    <3>3. thread.photo = 0 BY <2>2, <2>3
    <3> QED BY <3>1, <3>2, <3>3, <2>1, <2>4, <1>t DEF Settled, HasPhoto, Exists, Children, IdsOf
  <2>9. ASSUME i \in Present, seen[folders[i].path] PROVE Settled(i)'
    <3> DEFINE p == folders[i].path
    <3>1. PhotoListed(i) /\ \A q \in Children(p) : SubdirListed(q)
      BY <2>9, <1>p DEF SeenRight, RowRight, Listed
    <3>2. p \in Paths BY <2>9, <1>t DEF Typed
    <3>3. thread.scan.newphoto = (IF disk[p] >= 0 THEN disk[p] ELSE 0)
          /\ (HasPhoto(i) <=> thread.scan.newphoto # 0)
      BY <3>1, <2>1 DEF PhotoListed, Exists
    <3>4. /\ HasPhoto(i) <=> disk[p] > 0
          /\ HasPhoto(i) => thread.scan.newphoto = disk[p]
      BY <3>3, <3>2, <1>t, DiskTyped
    <3>5. HasPhoto(i) => i \in photostoscan' \/ folders[i].photo.lastscan >= disk[p]
      <4> SUFFICES ASSUME HasPhoto(i), ~NeedsScan(i) PROVE folders[i].photo.lastscan >= disk[p]
        BY <2>1, <3>3
      <4>1. ~(disk[p] > folders[i].photo.lastscan) BY <3>4 DEF NeedsScan
      <4>2. folders[i].photo.lastscan \in Int BY <2>9, <1>t, NumbersTyped DEF Typed, Photos
      <4> QED BY <4>1, <4>2, <3>2, <1>t, DiskTyped
    <3>6. \A q \in Children(p) : Exists(q) <=> IdsOf(q) # {}
      BY <3>1, <2>1 DEF SubdirListed
    <3> QED BY <3>4, <3>5, <3>6, <2>1, <2>4 DEF Settled, HasPhoto, Exists, Children, IdsOf
  <2>10. \A j \in Present' : RowRight(j)'
    BY <2>8, <2>9, <2>1, <2>2, <2>4, <1>t DEF RowRight
  <2> QED BY <2>5, <2>6, <2>7, <2>10 DEF SeenRight
<1> QED BY <1>a, <1>b

-----------------------------------------------------------------------------
(* Photos *)

\* A photo leaves the queue and is at hand.
LEMMA TakePhotoSeen ==
  ASSUME TablesInv, TablesInv', SeenRight, NEW i \in Ids, TakePhoto(i)
  PROVE  SeenRight'
<1>t. Typed /\ Typed' /\ \A j \in Present : j # 0
  BY TablesTyped, TablesTypedNext
<1>1. /\ thread.at = "photos" /\ photostoscan' = photostoscan \ {i}
      /\ thread' = [thread EXCEPT !.at = "read", !.ids = @ \ {i}, !.photo = i]
      /\ UNCHANGED <<folders, disk, clock, seen>>
  BY DEF TakePhoto, world
<1>2. thread'.at = "read" /\ thread'.scan = thread.scan /\ thread'.photo = i
  BY <1>1, <1>t DEF Typed, Threads
<1>3. thread.scan.id = 0 /\ thread.photo = 0
  BY <1>1 DEF SeenRight, AtHandOnly, ScanPlaces
<1>4. Present' = Present BY <1>1 DEF Present
<1>5. SeenHasRow' BY <1>1, <1>4 DEF SeenRight, SeenHasRow, IdsOf
<1>6. ClocksRight' /\ DataRight'
  BY <1>1, <1>4 DEF SeenRight, ClocksRight, DataRight, HasPhoto
<1>7. (ReadRight /\ AtHandOnly /\ FoundHangs)'
  BY <1>2, <1>3 DEF ReadRight, AtHandOnly, FoundHangs, BeingRead, ScanPlaces
<1>8. ASSUME NEW j \in Present, seen[folders[j].path] PROVE Settled(j)'
  <2>1. Settled(j) /\ j # 0 BY <1>8, <1>3, <1>t DEF SeenRight, RowRight
  <2> QED BY <2>1, <1>1, <1>2, <1>3, <1>4 DEF Settled, HasPhoto, Exists, Children, IdsOf
<1>9. \A j \in Present' : RowRight(j)' BY <1>8, <1>1, <1>2, <1>3, <1>4, <1>t DEF RowRight
<1> QED BY <1>5, <1>6, <1>7, <1>9 DEF SeenRight

\* Its metadata is read as the file is now.
LEMMA ReadExifSeen ==
  ASSUME TablesInv, TablesInv', SeenRight, ReadExif
  PROVE  SeenRight'
<1>t. Typed /\ Typed' /\ \A j \in Present : j # 0
  BY TablesTyped, TablesTypedNext
<1>i. thread.at = "read" => thread.photo \in Ids BY DEF TablesInv, AtHand
<1>p. PICK i \in Ids : i = thread.photo BY <1>i DEF ReadExif
<1>a. CASE ~HasPhoto(i)
  <2>1. Off /\ UNCHANGED <<world, dbVars>> BY <1>a, <1>p DEF ReadExif, Abort
  <2> QED BY <2>1, OffSeen
<1>b. CASE HasPhoto(i)
  <2> DEFINE p == folders[i].path
  <2>1. /\ thread.at = "read" /\ UNCHANGED <<folders, disk, clock, seen, photostoscan>>
        /\ thread' = IF disk[p] > 0 THEN [thread EXCEPT !.at = "update", !.data = disk[p]]
                     ELSE [thread EXCEPT !.at = "photos", !.photo = 0]
    BY <1>b, <1>p DEF ReadExif, world, dbVars
  <2>2. /\ thread'.scan = thread.scan
        /\ disk[p] > 0 => thread'.at = "update" /\ thread'.data = disk[p] /\ thread'.photo = i
        /\ ~(disk[p] > 0) => thread'.at = "photos" /\ thread'.photo = 0
    BY <2>1, <1>t, <1>p DEF Typed, Threads
  <2>3. thread.scan.id = 0 BY <2>1 DEF SeenRight, AtHandOnly, ScanPlaces
  <2>4. Present' = Present /\ i \in Present BY <2>1, <1>b DEF Present, HasPhoto
  <2>5. SeenHasRow' BY <2>1, <2>4 DEF SeenRight, SeenHasRow, IdsOf
  <2>6. ClocksRight' /\ DataRight'
    BY <2>1, <2>4 DEF SeenRight, ClocksRight, DataRight, HasPhoto
  <2>7. ReadRight'
    <3> SUFFICES ASSUME NEW q \in Paths, BeingRead(q)' PROVE thread'.data = disk'[q]
      BY DEF ReadRight
    <3>1. disk[p] > 0 BY <2>2 DEF BeingRead
    <3>2. folders'[i].path = q BY <3>1, <2>2 DEF BeingRead
    <3> QED BY <3>1, <3>2, <2>1, <2>2
  <2>8. AtHandOnly' /\ FoundHangs'
    BY <2>2, <2>3 DEF AtHandOnly, FoundHangs, ScanPlaces
  <2>9. ASSUME NEW j \in Present, seen[folders[j].path] PROVE Settled(j)'
    <3>1. Settled(j) /\ j # 0 BY <2>9, <2>3, <1>t DEF SeenRight, RowRight
    <3>2. j = thread.photo => j = thread'.photo
      <4>1. j = i => HasPhoto(j) /\ disk[p] > 0 BY <3>1, <1>b DEF Settled
      <4> QED BY <4>1, <2>2, <1>p
    <3> QED BY <3>1, <3>2, <2>1, <2>4 DEF Settled, HasPhoto, Exists, Children, IdsOf
  <2>10. \A j \in Present' : RowRight(j)' BY <2>9, <2>1, <2>2, <2>3, <2>4, <1>t DEF RowRight
  <2> QED BY <2>5, <2>6, <2>7, <2>8, <2>10 DEF SeenRight
<1> QED BY <1>a, <1>b

\* It is recorded with the time of the scan; the file is not written meanwhile.
LEMMA UpdatePhotoSeen ==
  ASSUME TablesInv, TablesInv', SeenRight, UpdatePhoto
  PROVE  SeenRight'
<1>t. Typed /\ Typed' /\ \A j \in Present : j # 0
  BY TablesTyped, TablesTypedNext
<1>i. thread.at = "update" => thread.photo \in Ids BY DEF TablesInv, AtHand
<1>p. PICK i \in Ids : i = thread.photo BY <1>i DEF UpdatePhoto
<1>1. /\ thread.at = "update" /\ UNCHANGED <<disk, clock, seen, photostoscan>>
      /\ thread' = [thread EXCEPT !.at = "photos", !.photo = 0, !.data = 0]
      /\ folders' = IF HasPhoto(i) THEN Scanned(i) ELSE folders
  BY <1>p DEF UpdatePhoto, world
<1>2. thread'.at = "photos" /\ thread'.scan = thread.scan /\ thread'.photo = 0
  BY <1>1, <1>t DEF Typed, Threads
<1>3. thread.scan.id = 0 BY <1>1 DEF SeenRight, AtHandOnly, ScanPlaces
<1>4. (AtHandOnly /\ ReadRight /\ FoundHangs)'
  BY <1>2, <1>3 DEF AtHandOnly, ReadRight, FoundHangs, BeingRead, ScanPlaces
<1>a. CASE ~HasPhoto(i)
  <2>1. UNCHANGED folders /\ Present' = Present BY <1>1, <1>a DEF Present
  <2>2. SeenHasRow' BY <2>1, <1>1 DEF SeenRight, SeenHasRow, IdsOf
  <2>3. ClocksRight' /\ DataRight'
    BY <2>1, <1>1 DEF SeenRight, ClocksRight, DataRight, HasPhoto
  <2>4. ASSUME NEW j \in Present, seen[folders[j].path] PROVE Settled(j)'
    <3>1. Settled(j) /\ (j = thread.photo => ~HasPhoto(j))
      BY <2>4, <1>3, <1>t, <1>p, <1>a DEF SeenRight, RowRight
    <3> QED BY <3>1, <2>1, <1>1 DEF Settled, HasPhoto, Exists, Children, IdsOf
  <2>5. \A j \in Present' : RowRight(j)' BY <2>4, <2>1, <1>1, <1>2, <1>3, <1>t DEF RowRight
  <2> QED BY <2>2, <2>3, <2>5, <1>4 DEF SeenRight
<1>b. CASE HasPhoto(i)
  <2> DEFINE photo == [folders[i].photo EXCEPT !.data = thread.data, !.lastscan = clock]
             p == folders[i].path
  <2>1. i \in Present BY <1>b DEF HasPhoto, Present
  <2>2. /\ folders[i].photo \in Photos /\ p \in Paths /\ thread.data \in Times /\ clock \in Times
    BY <2>1, <1>t DEF Typed, Threads
  <2>3. photo \in Photos /\ photo.there /\ photo.lastscan = clock /\ photo.data = thread.data
    BY <2>2, <1>b DEF Photos, HasPhoto
  <2>4. folders' = [folders EXCEPT ![i].photo = photo] BY <1>1, <1>b DEF Scanned
  <2> HIDE DEF photo
  <2>5. PhotoSet(i, photo) BY <2>4 DEF PhotoSet
  <2>6. disk[p] > 0 => thread.data = disk[p]
    BY <2>2, <1>b, <1>p, <1>1 DEF SeenRight, ReadRight, BeingRead
  <2>7. PhotoFits(i, photo) BY <2>3, <2>6, <2>2, <1>t, DiskTyped DEF PhotoFits
  <2>8. /\ folders'[i].path = p /\ folders'[i].photo = photo /\ HasPhoto(i)'
        /\ \A q : IdsOf(q)' = IdsOf(q)
    BY <2>1, <2>3, <2>5, <1>t, OnePhoto
  <2>9. RowRight(i)'
    <3> SUFFICES ASSUME seen[p] PROVE Settled(i)'
      BY <2>1, <2>8, <1>1, <1>2, <1>3, <1>t DEF RowRight
    <3>1. Settled(i) BY <2>1, <1>3, <1>t DEF SeenRight, RowRight
    <3>2. disk[p] > 0 /\ \A q \in Children(p) : Exists(q) <=> IdsOf(q) # {}
      BY <3>1, <1>b DEF Settled
    <3>3. clock >= disk[p] BY <2>2, <1>t, DiskTyped DEF SeenRight, ClocksRight
    <3> QED BY <3>2, <3>3, <2>3, <2>8, <1>1 DEF Settled, Exists, Children
  <2>10. /\ Less /\ UNCHANGED <<disk, clock, photostoscan>>
         /\ thread'.scan = thread.scan
         /\ thread'.photo = thread.photo \/ (thread'.photo = 0 /\ thread.photo = i)
         /\ thread.at = thread'.at \/ i = thread.scan.id \/ thread.scan.id = 0
         /\ thread'.at = "photos"
    BY <1>1, <1>2, <1>3, <1>p DEF Less
  <2> QED BY <2>1, <2>3, <2>5, <2>7, <2>9, <2>10, <1>4, PhotoSeen
<1> QED BY <1>a, <1>b

-----------------------------------------------------------------------------
(* Rows of folders go and come *)

\* A folder is not below one of its own subfolders.
LEMMA NotBelowOwnChild ==
  ASSUME TablesInv, TreeInv, NEW i \in Present, NEW k \in SubFolders(i)
  PROVE  i \notin Under[k]
<1>t. Typed BY TablesTyped
<1> DEFINE S == {j \in Ids : j \in Present => folders[i].path \in Above[folders[j].path]}
<1>1. ASSUME NEW j \in Present, NEW l \in SubFolders(j)
      PROVE  /\ l \in Present /\ folders[l].path \in Paths
             /\ Parent[folders[l].path] = folders[j].path
             /\ Above[folders[l].path] = {folders[j].path} \cup Above[folders[j].path]
  <2>1. l \in Present /\ folders[l].parent = j /\ folders[l].path \in Paths /\ j # 0
    BY <1>t, TablesTyped DEF SubFolders, Typed
  <2>2. Parent[folders[l].path] = folders[j].path
    BY <2>1 DEF TreeInv, HangsFromNoOther
  <2>3. folders[j].path # None BY <1>t, NoneIsNoPath DEF Typed
  <2> QED BY <2>1, <2>2, <2>3, AboveStep
<1>2. k \in S BY <1>1 DEF Present
<1>3. DownClosed(S)
  <2> SUFFICES ASSUME NEW j \in S, NEW l \in SubFolders(j) PROVE l \in S
    BY DEF DownClosed
  <2>1. l \in Present /\ folders[l].parent = j BY DEF SubFolders
  <2>2. j # 0 BY TablesTyped
  <2>3. j \in Present BY <2>1, <2>2 DEF TreeInv, HangsFromNoOther
  <2> QED BY <1>1, <2>1, <2>3 DEF Present
<1>4. i \notin S
  <2>1. folders[i].path \notin Above[folders[i].path] BY <1>t, TreeAssumption DEF Typed
  <2> QED BY <2>1
<1>5. S \in SUBSET Ids /\ k \in Ids BY <1>2
<1> HIDE DEF S
<1> QED BY <1>2, <1>3, <1>4, <1>5 DEF Under

\* Which rows a step drops, and what hangs from a row that stays and is still
\* taken for listed: only what the scan found in the folder's row.
LEMMA DroppedAre ==
  ASSUME TablesInv, TreeInv, SeenRight, thread.at = "dropfolders",
         NEW ids \in Levels, ids # {} \/ ids = Vanished, \A r \in ids : SubFolders(r) = {}
  PROVE  /\ ids \subseteq Ids /\ ids \subseteq Doomed /\ Doomed \subseteq Ids
         /\ \A q \in Paths \ thread.scan.newsubdirs :
              thread.scan.oldsubdirs[q] # 0 => thread.scan.oldsubdirs[q] \in Vanished
         /\ IF ids = Vanished
            THEN \A r \in ids : \E q \in Paths \ thread.scan.newsubdirs :
                   /\ r = thread.scan.oldsubdirs[q] /\ folders[r].path = q
                   /\ folders[r].parent = thread.scan.id
            ELSE \A r \in ids : folders[r].parent \in Doomed /\ folders[r].parent # thread.scan.id
<1> DEFINE old == thread.scan.oldsubdirs
           i == thread.scan.id
<1>t. Typed /\ 0 \notin Ids BY TablesTyped
<1>1. \A r \in Vanished : \E q \in Paths \ thread.scan.newsubdirs :
        r = old[q] /\ r \in SubFolders(i) /\ folders[r].path = q
  BY DEF Vanished, SeenRight, FoundHangs
<1>2. Vanished \subseteq Ids BY <1>1 DEF SubFolders, Present
<1>3. Doomed \subseteq Ids /\ DownClosed(Doomed)
  BY <1>2, UnionIsClosed DEF Doomed
<1>4. Vanished \subseteq Doomed
  BY <1>2, UnderIsClosed DEF Doomed
<1>5. \A q \in Paths \ thread.scan.newsubdirs : old[q] # 0 => old[q] \in Vanished
  BY DEF Vanished
<1>6. CASE ids = Vanished
  <2>1. \A r \in ids : \E q \in Paths \ thread.scan.newsubdirs :
          r = old[q] /\ folders[r].path = q /\ folders[r].parent = i
    BY <1>1, <1>6 DEF SubFolders
  <2> QED BY <1>2, <1>3, <1>4, <1>5, <1>6, <2>1
<1>7. CASE ids # Vanished
  <2>1. PICK k \in Doomed : ids = SubFolders(k) BY <1>7 DEF Levels, Doomed
  <2>2. k # i
    <3>1. i \in Ids BY DEF TablesInv, AtHand, ScanPlaces
    <3>2. PICK v \in Vanished : k \in Under[v] BY DEF Doomed
    <3>3. v \in SubFolders(i) BY <1>1
    <3>4. i \in Present
      <4>1. v \in Present /\ folders[v].parent = i BY <3>3 DEF SubFolders
      <4> QED BY <4>1, <3>1, <1>t DEF TreeInv, HangsFromNoOther
    <3> QED BY <3>2, <3>3, <3>4, NotBelowOwnChild
  <2>3. \A r \in ids : folders[r].parent = k BY <2>1 DEF SubFolders
  <2>4. ids \subseteq Doomed BY <2>1, <1>3 DEF DownClosed
  <2> QED BY <1>3, <1>5, <1>7, <2>2, <2>3, <2>4
<1> QED BY <1>6, <1>7

\* Subfolders that are gone lose their rows, level by level.
LEMMA DropFoldersSeen ==
  ASSUME TablesInv, TablesInv', TreeInv, SeenRight, DropFolders
  PROVE  SeenRight'
<1>t. Typed /\ Typed' /\ 0 \notin Ids /\ \A j \in Present : j # 0
  BY TablesTyped, TablesTypedNext
<1>0. thread.at = "dropfolders" BY DEF DropFolders
<1>p. PICK i \in Ids : i = thread.scan.id
  BY <1>0 DEF TablesInv, AtHand, ScanPlaces
<1> DEFINE old == thread.scan.oldsubdirs
           new == thread.scan.newsubdirs
<1>l. PICK ids \in Levels :
        /\ ids # {} \/ ids = Vanished
        /\ \A r \in ids : SubFolders(r) = {}
        /\ IF ids \cap photostoscan # {} THEN Abort /\ UNCHANGED counters
           ELSE /\ folders' = Deleted(ids)
                /\ folderstoscan' = folderstoscan \ ids
                /\ seen' = Forgotten(Doomed)
                /\ Goto(IF ids = Vanished THEN "addfolders" ELSE "dropfolders")
                /\ UNCHANGED <<world, excludedtrees, photostoscan, caches, ui, counters>>
  BY DEF DropFolders
<1>d. /\ ids \subseteq Ids /\ ids \subseteq Doomed /\ Doomed \subseteq Ids
      /\ \A q \in Paths \ new : old[q] # 0 => old[q] \in Vanished
      /\ ids = Vanished => \A r \in ids : \E q \in Paths \ new :
                             r = old[q] /\ folders[r].path = q /\ folders[r].parent = i
      /\ ids # Vanished => \A r \in ids : folders[r].parent \in Doomed /\ folders[r].parent # i
  BY <1>0, <1>l, <1>p, DroppedAre
<1>a. CASE ids \cap photostoscan # {}
  <2>1. Off /\ UNCHANGED <<world, dbVars>> BY <1>a, <1>l DEF Abort
  <2> QED BY <2>1, OffSeen
<1>b. CASE ids \cap photostoscan = {}
  <2>1. /\ folders' = Deleted(ids) /\ seen' = Forgotten(Doomed)
        /\ UNCHANGED <<disk, clock, photostoscan>>
        /\ Goto(IF ids = Vanished THEN "addfolders" ELSE "dropfolders")
    BY <1>b, <1>l DEF world
  <2>2. /\ thread'.at = IF ids = Vanished THEN "addfolders" ELSE "dropfolders"
        /\ thread'.scan = thread.scan /\ thread'.photo = thread.photo
    BY <2>1, <1>t DEF Goto, Typed, Threads
  <2>8. /\ Present' = Present \ ids /\ \A j \in Present' : folders'[j] = folders[j]
    BY <2>1, <1>d, <1>t, DeletedRows DEF Typed
  <2>9. /\ Less /\ \A r \in Doomed \cap Present : ~seen'[folders[r].path]
    <3>1. \A q \in Paths : seen'[q] <=> seen[q] /\ ~\E r \in Doomed \cap Present : folders[r].path = q
      BY <2>1 DEF Forgotten
    <3> QED BY <3>1, <1>t DEF Less, Typed
  \* A row that hangs from one that is still taken for listed stays.
  <2>10. ASSUME NEW j \in Present', seen'[folders[j].path], NEW r \in Present,
                folders[r].parent = j, r \in ids
         PROVE  j = i /\ ids = Vanished /\ \E q \in Paths \ new : r = old[q] /\ folders[r].path = q
    <3>1. j \in Present BY <2>8
    <3>2. j \notin Doomed BY <2>9, <2>10, <3>1
    <3> QED BY <3>2, <2>10, <1>d
  <2>11. SeenHasRow'
    <3> SUFFICES ASSUME NEW q \in Paths, seen'[q] PROVE \E j \in Present' : folders'[j].path = q
      BY DEF SeenHasRow, IdsOf
    <3>1. PICK j \in Present : folders[j].path = q BY <2>9 DEF Less, SeenRight, SeenHasRow, IdsOf
    <3>2. j \in Present' BY <3>1, <2>8, <2>9, <1>d
    <3> QED BY <3>1, <3>2, <2>8
  <2>12. ClocksRight' /\ DataRight'
    BY <2>1, <2>8 DEF SeenRight, ClocksRight, DataRight, HasPhoto
  <2>13. (ReadRight /\ AtHandOnly)'
    BY <2>1, <2>2, <1>0 DEF SeenRight, ReadRight, AtHandOnly, BeingRead, ScanPlaces
  <2>17. FoundHangs'
    <3> SUFFICES ASSUME ids # Vanished, NEW q \in Paths, old[q] # 0
                 PROVE  old[q] \in Present' /\ folders'[old[q]].parent = i /\ folders'[old[q]].path = q
      BY <2>2, <1>p DEF FoundHangs, SubFolders
    <3>1. old[q] \in Present /\ folders[old[q]].parent = i /\ folders[old[q]].path = q
      BY <1>0, <1>p DEF SeenRight, FoundHangs, SubFolders
    <3> QED BY <3>1, <2>8, <1>d
  <2>14. ASSUME NEW j \in Present', j # i, seen'[folders[j].path]
         PROVE  Settled(j)'
    <3> DEFINE p == folders[j].path
    <3>0. j \in Present /\ p \in Paths /\ folders'[j] = folders[j] BY <2>8, <1>t DEF Typed
    <3>1. Settled(j) BY <2>9, <2>14, <3>0, <1>p DEF Less, SeenRight, RowRight
    <3>2. ASSUME NEW q \in Children(p) PROVE IdsOf(q)' = IdsOf(q)
      <4>1. ASSUME NEW r \in IdsOf(q) PROVE r \notin ids
        <5>1. r \in Present /\ folders[r].path = q /\ Parent[q] = p BY DEF IdsOf, Children
        <5>2. folders[r].parent = j
          BY <5>1, <3>0 DEF TreeInv, HangsFromParent
        <5> QED BY <5>1, <5>2, <2>10, <2>14
      <4> QED BY <4>1, <2>8 DEF IdsOf
    <3> QED BY <3>0, <3>1, <3>2, <2>1, <2>2 DEF Settled, HasPhoto, Exists, Children
  <2>15. ASSUME i \in Present', seen'[folders[i].path]
         PROVE  Listed(i)'
    <3> DEFINE p == folders[i].path
    <3>0. i \in Present /\ p \in Paths /\ folders'[i] = folders[i] BY <2>15, <2>8, <1>t DEF Typed
    <3>1. Listed(i) BY <2>9, <2>15, <3>0, <1>p DEF Less, SeenRight, RowRight
    <3>2. PhotoListed(i)'
      <4>1. HasPhoto(i)' <=> HasPhoto(i) BY <3>0 DEF HasPhoto
      <4> QED BY <4>1, <3>0, <3>1, <2>1, <2>2, <1>0 DEF Listed, PhotoListed, Exists
    <3>3. ASSUME NEW q \in Children(p) PROVE SubdirListed(q)'
      <4>1. q \in Paths /\ Parent[q] = p BY DEF Children
      <4>2. /\ q \in new <=> Exists(q)
            /\ IdsOf(q) = {old[q]} \ {0}
        BY <3>1, <1>0 DEF Listed, SubdirListed
      <4>3. IdsOf(q)' = IdsOf(q) \ ids BY <2>8 DEF IdsOf
      <4>4. CASE q \notin new /\ ids = Vanished
        <5>1. old[q] # 0 => old[q] \in ids BY <4>1, <4>4, <1>d
        <5>2. IdsOf(q)' = {} BY <5>1, <4>2, <4>3
        <5> QED BY <5>2, <4>2, <4>4, <2>1, <2>2 DEF SubdirListed, Exists
      <4>5. CASE q \in new \/ ids # Vanished
        <5>1. ASSUME NEW r \in IdsOf(q), r \in ids PROVE FALSE
          <6>1. r \in Present /\ folders[r].path = q /\ folders[r].parent = i
            BY <3>0, <4>1 DEF IdsOf, TreeInv, HangsFromParent
          <6> QED BY <6>1, <5>1, <4>5, <2>10, <2>15
        <5>2. IdsOf(q)' = IdsOf(q) BY <5>1, <4>3
        <5> QED BY <5>2, <4>2, <4>5, <2>1, <2>2 DEF SubdirListed, Exists
      <4> QED BY <4>4, <4>5
    <3> QED BY <3>0, <3>2, <3>3 DEF Listed
  <2>16. \A j \in Present' : RowRight(j)'
    BY <2>14, <2>15, <2>8, <2>2, <1>p DEF RowRight
  <2> QED BY <2>11, <2>12, <2>13, <2>16, <2>17 DEF SeenRight
<1> QED BY <1>a, <1>b

\* What the row that is added changes, and what it does not.
LEMMA RowAdded ==
  ASSUME TablesInv, NEW p \in Paths, NEW parent \in Ids \cup {0}, AddStep(p, parent)
  PROVE  /\ NewId \in Ids \ Present /\ Present' = Present \cup {NewId}
         /\ folders'[NewId].path = p /\ folders'[NewId].photo = NoPhoto
         /\ \A j \in Present : /\ folders'[j].path = folders[j].path
                               /\ folders'[j].photo = folders[j].photo
                               /\ HasPhoto(j)' <=> HasPhoto(j)
                               /\ folders[j].parent # 0 => folders'[j].parent = folders[j].parent
         /\ IdsOf(p) = {} /\ IdsOf(p)' = {NewId}
         /\ \A q : q # p => IdsOf(q)' = IdsOf(q)
         /\ \A j \in Ids \ {0} : SubFolders(j) \subseteq SubFolders(j)'
<1>t. Typed BY TablesTyped
<1>1. /\ NewId \in Ids \ Present /\ Present' = Present \cup {NewId}
      /\ folders'[NewId].path = p
      /\ \A j \in Present :
           /\ folders'[j].path = folders[j].path /\ folders'[j].photo = folders[j].photo
           /\ folders[j].parent # 0 => folders'[j].parent = folders[j].parent
  BY <1>t, AddedRows DEF Typed
<1>2. folders'[NewId].photo = NoPhoto
  BY <1>1 DEF AddStep, Added
<1>3. \A j \in Present : HasPhoto(j)' <=> HasPhoto(j)
  BY <1>1 DEF HasPhoto, Present
<1>4. IdsOf(p) = {} BY DEF AddStep, Addable
<1>5. IdsOf(p)' = {NewId} BY <1>1, <1>4 DEF IdsOf
<1>6. \A q : q # p => IdsOf(q)' = IdsOf(q) BY <1>1 DEF IdsOf
<1>7. \A j \in Ids \ {0} : SubFolders(j) \subseteq SubFolders(j)' BY <1>1 DEF SubFolders
<1> QED BY <1>1, <1>2, <1>3, <1>4, <1>5, <1>6, <1>7

\* A row is added, of a folder in none that is still taken for listed, unless
\* the scan of that one adds it.
LEMMA AddedSeen ==
  ASSUME TablesInv, TablesInv', SeenRight, Less,
         NEW p \in Paths, NEW parent \in Ids \cup {0}, AddStep(p, parent),
         UNCHANGED <<disk, clock, photostoscan>>,
         thread'.at = thread.at, thread'.scan.id = thread.scan.id, thread'.photo = thread.photo,
         thread'.data = thread.data,
         \/ thread'.scan = thread.scan /\ (Parent[p] \in Paths => ~seen'[Parent[p]])
         \/ /\ thread.at = "addfolders"
            /\ thread.scan.id \in Present /\ folders[thread.scan.id].path = Parent[p]
            /\ RowRight(thread.scan.id)'
  PROVE  SeenRight'
<1>t. Typed /\ Typed' /\ 0 \notin Ids /\ \A j \in Present : j # 0
  BY TablesTyped, TablesTypedNext
<1>f. NewId \in Ids \ Present BY RowAdded
<1>d. PICK n \in Ids \ Present : n = NewId BY <1>f
<1>r. /\ n \in Ids \ Present /\ Present' = Present \cup {n}
      /\ folders'[n].path = p /\ folders'[n].photo = NoPhoto
      /\ \A j \in Present : /\ folders'[j].path = folders[j].path
                            /\ folders'[j].photo = folders[j].photo
                            /\ HasPhoto(j)' <=> HasPhoto(j)
      /\ IdsOf(p) = {} /\ IdsOf(p)' = {n}
      /\ \A q : q # p => IdsOf(q)' = IdsOf(q)
      /\ \A j \in Ids \ {0} : SubFolders(j) \subseteq SubFolders(j)'
  BY <1>d, RowAdded
<1>n. /\ ~HasPhoto(n)' /\ NoPhoto.lastscan = 0 /\ 0 <= clock
  BY <1>r, <1>t DEF HasPhoto, NoPhoto, Typed, Times
<1>1. ~seen'[p] BY <1>r DEF Less, SeenRight, SeenHasRow
<1>2. SeenHasRow' BY <1>r, <1>1 DEF SeenRight, SeenHasRow, Less
<1>3. ClocksRight' BY <1>r, <1>n DEF SeenRight, ClocksRight
<1>4. DataRight' BY <1>r, <1>n DEF SeenRight, DataRight
<1>5. ReadRight'
  <2>1. thread.at = "update" => thread.photo \in Ids BY DEF TablesInv, AtHand
  <2>2. ASSUME NEW q \in Paths, BeingRead(q)' PROVE BeingRead(q)
    <3>1. thread.at = "update" /\ HasPhoto(thread.photo)' /\ folders'[thread.photo].path = q
      BY <2>2 DEF BeingRead, HasPhoto
    <3>2. thread.photo \in Present'
      BY <3>1, <2>1 DEF HasPhoto, Present
    <3>3. thread.photo # n
      <4> SUFFICES ASSUME thread.photo = n PROVE FALSE OBVIOUS
      <4>1. folders'[n] # None /\ folders'[n].photo.there BY <2>2 DEF BeingRead, HasPhoto
      <4> QED BY <4>1, <1>r DEF NoPhoto
    <3>4. thread.photo \in Present BY <3>2, <3>3, <1>r
    <3>5. folders[thread.photo] # None /\ folders'[thread.photo].photo = folders[thread.photo].photo
          /\ folders'[thread.photo].path = folders[thread.photo].path
      BY <3>4, <1>r DEF Present
    <3> QED BY <3>1, <3>5, <2>2 DEF BeingRead, HasPhoto
  <2> QED BY <2>2 DEF SeenRight, ReadRight
<1>6. AtHandOnly' BY DEF SeenRight, AtHandOnly
<1>7. FoundHangs'
  <2> SUFFICES ASSUME thread.at \in {"dropphotos", "dropfolders"}, NEW q \in Paths,
                      thread.scan.oldsubdirs[q] # 0
               PROVE  /\ thread.scan.oldsubdirs[q] \in SubFolders(thread.scan.id)'
                      /\ folders'[thread.scan.oldsubdirs[q]].path = q
    BY DEF FoundHangs
  <2>1. /\ thread.scan.oldsubdirs[q] \in SubFolders(thread.scan.id)
        /\ folders[thread.scan.oldsubdirs[q]].path = q
    BY DEF SeenRight, FoundHangs
  <2>2. thread.scan.id \in Ids \ {0} BY <1>t DEF TablesInv, AtHand, ScanPlaces
  <2>3. thread.scan.id' = thread.scan.id
    <3>1. thread'.scan.id = thread.scan.id OBVIOUS
    <3> QED BY <3>1
  <2>4. PICK i \in Ids \ {0} : i = thread.scan.id BY <2>2
  <2>5. thread.scan.oldsubdirs[q] \in SubFolders(i)' BY <2>1, <2>4, <1>r
  <2>6. thread.scan.oldsubdirs[q] \in Present BY <2>1 DEF SubFolders
  <2> QED BY <2>1, <2>3, <2>4, <2>5, <2>6, <1>r DEF SubFolders
\* The rows of folders that do not hold the new one go on as they were.
<1>8. ASSUME NEW j \in Present, seen'[folders[j].path], folders[j].path # Parent[p],
             j = thread.scan.id => thread'.scan = thread.scan
      PROVE  RowRight(j)'
  <2> DEFINE pj == folders[j].path
  <2>1. pj \in Paths /\ seen[pj] /\ RowRight(j) BY <1>8, <1>t DEF Typed, Less, SeenRight
  <2>2. \A q \in Children(pj) : IdsOf(q)' = IdsOf(q) BY <1>8, <1>r DEF Children
  <2>3. CASE j = thread.scan.id
    <3>1. Listed(j) BY <2>1, <2>3 DEF RowRight
    <3>2. PhotoListed(j)' BY <3>1, <2>3, <1>8, <1>r DEF Listed, PhotoListed, Exists
    <3>3. \A q \in Children(pj) : SubdirListed(q)'
      BY <3>1, <2>2, <2>3, <1>8 DEF Listed, SubdirListed, Exists
    <3> QED BY <3>2, <3>3, <2>3, <1>r DEF RowRight, Listed
  <2>4. CASE j # thread.scan.id
    <3>1. Settled(j) BY <2>1, <2>4 DEF RowRight
    <3>2. Settled(j)' BY <3>1, <2>2, <1>r DEF Settled, Exists, Children
    <3> QED BY <3>2, <2>4 DEF RowRight
  <2> QED BY <2>3, <2>4
<1>9. ASSUME NEW j \in Present' PROVE RowRight(j)'
  <2>1. CASE j = n BY <2>1, <1>1, <1>r DEF RowRight
  <2>2. CASE j \in Present /\ ~seen'[folders[j].path] BY <2>2, <1>r DEF RowRight
  <2>3. CASE j \in Present /\ seen'[folders[j].path]
    <3>1. folders[j].path \in Paths BY <2>3, <1>t DEF Typed
    <3>2. CASE thread'.scan = thread.scan /\ (Parent[p] \in Paths => ~seen'[Parent[p]])
      BY <3>1, <3>2, <2>3, <1>8
    <3>3. CASE /\ thread.scan.id \in Present /\ folders[thread.scan.id].path = Parent[p]
               /\ RowRight(thread.scan.id)'
      <4>1. CASE j = thread.scan.id BY <3>3, <4>1
      <4>2. CASE j # thread.scan.id
        <5>1. folders[j].path # Parent[p] BY <3>3, <4>2, <2>3, <1>t DEF Typed, PathsDiffer
        <5> QED BY <5>1, <4>2, <2>3, <1>8
      <4> QED BY <4>1, <4>2
    <3> QED BY <3>2, <3>3
  <2> QED BY <2>1, <2>2, <2>3, <1>r
<1> QED BY <1>2, <1>3, <1>4, <1>5, <1>6, <1>7, <1>9 DEF SeenRight

\* The scan adds the row of a subfolder.
LEMMA AddSubFolderSeen ==
  ASSUME TablesInv, TablesInv', TreeInv, SeenRight, NEW q \in Paths, AddSubFolder(q)
  PROVE  SeenRight'
<1>t. Typed /\ Typed' /\ 0 \notin Ids /\ \A j \in Present : j # 0
  BY TablesTyped, TablesTypedNext
<1>i. thread.at = "addfolders" => thread.scan.id \in Ids
  BY DEF TablesInv, AtHand, ScanPlaces
<1>p. PICK i \in Ids : i = thread.scan.id
  BY <1>i DEF AddSubFolder
<1>a. CASE ~Addable(q, i)
  <2>1. Off /\ UNCHANGED <<world, dbVars>> BY <1>a, <1>p DEF AddSubFolder, Abort
  <2> QED BY <2>1, OffSeen
<1>b. CASE Addable(q, i)
  <2>1. /\ thread.at = "addfolders" /\ q \in Unknown /\ AddStep(q, i)
        /\ thread' = [thread EXCEPT !.scan.oldsubdirs[q] = NewId]
        /\ UNCHANGED <<disk, clock, photostoscan, seen>>
    BY <1>b, <1>p DEF AddSubFolder, AddStep, world
  <2>2. /\ thread'.at = thread.at /\ thread'.photo = thread.photo /\ thread'.data = thread.data
        /\ thread'.scan = [thread.scan EXCEPT !.oldsubdirs[q] = NewId]
    BY <2>1, <1>t DEF Typed, Threads
  <2>s. thread.scan \in Scans BY <1>t DEF Typed, Threads
  <2>3. /\ thread'.scan.id = i /\ thread'.scan.newsubdirs = thread.scan.newsubdirs
        /\ thread'.scan.oldphoto = thread.scan.oldphoto
        /\ thread'.scan.newphoto = thread.scan.newphoto
        /\ \A r \in Paths : thread'.scan.oldsubdirs[r] =
                              IF r = q THEN NewId ELSE thread.scan.oldsubdirs[r]
    BY <2>2, <2>s, <1>p DEF Scans
  <2>4. i \in Present /\ folders[i].path = Parent[q]
    BY <2>1, <1>p, SubFolderHangs DEF TreeInv
  <2>r. /\ NewId \in Ids \ Present /\ Present' = Present \cup {NewId}
        /\ \A j \in Present : /\ folders'[j].path = folders[j].path
                              /\ HasPhoto(j)' <=> HasPhoto(j)
        /\ IdsOf(q)' = {NewId}
        /\ \A r : r # q => IdsOf(r)' = IdsOf(r)
    BY <2>1, RowAdded
  <2>5. ASSUME seen[folders[i].path] PROVE Listed(i)'
    <3>1. Listed(i) BY <2>4, <2>5, <1>p DEF SeenRight, RowRight
    <3>2. PhotoListed(i)' BY <3>1, <2>1, <2>2, <2>3, <2>4, <2>r DEF Listed, PhotoListed, Exists
    <3>3. ASSUME NEW r \in Children(folders[i].path) PROVE SubdirListed(r)'
      <4>0. r \in Paths BY DEF Children
      <4>1. SubdirListed(r) BY <3>1 DEF Listed
      <4>2. CASE r = q
        <5>1. q \in thread.scan.newsubdirs BY <2>1 DEF Unknown
        <5>2. NewId # 0 BY <2>r, <1>t
        <5> QED BY <4>0, <4>1, <4>2, <5>1, <5>2, <2>1, <2>2, <2>3, <2>r DEF SubdirListed, Exists
      <4>3. CASE r # q
        BY <4>0, <4>1, <4>3, <2>1, <2>2, <2>3, <2>r DEF SubdirListed, Exists
      <4> QED BY <4>2, <4>3
    <3> QED BY <3>2, <3>3, <2>4, <2>r DEF Listed
  <2>6. RowRight(i)' BY <2>5, <2>1, <2>3, <2>4, <2>r DEF RowRight
  <2>7. thread'.scan.id = thread.scan.id /\ Less BY <2>1, <2>3, <1>p DEF Less
  <2>8. /\ thread.scan.id \in Present /\ folders[thread.scan.id].path = Parent[q]
        /\ RowRight(thread.scan.id)'
    <3>1. thread.scan.id' = i BY <2>3
    <3> QED BY <3>1, <2>4, <2>6, <1>p
  <2> QED BY <2>1, <2>2, <2>7, <2>8, AddedSeen
<1> QED BY <1>a, <1>b

\* The interface adds a row on the way to a tree's root.
LEMMA AddDirSeen ==
  ASSUME TablesInv, TablesInv', SeenRight, AddDir
  PROVE  SeenRight'
<1>t. Typed /\ ui.path \in Paths /\ ui.parent \in Ids \cup {0}
  BY TablesTyped DEF AddDir, TablesInv, TypeOK, AtHand
<1>a. CASE ~Addable(ui.path, ui.parent)
  <2>1. Off /\ UNCHANGED <<world, dbVars>> BY <1>a DEF AddDir, Abort
  <2> QED BY <2>1, OffSeen
<1>b. CASE Addable(ui.path, ui.parent)
  <2>1. /\ AddStep(ui.path, ui.parent) /\ UNCHANGED <<disk, clock, photostoscan, thread>>
        /\ seen' = [p \in Paths |-> seen[p] /\ p \notin {ui.path, Parent[ui.path]}]
    BY <1>b DEF AddDir, AddStep, world
  <2>2. Less /\ (Parent[ui.path] \in Paths => ~seen'[Parent[ui.path]])
    BY <2>1, <1>t DEF Less, Typed
  <2> QED BY <2>1, <2>2, <1>t, AddedSeen
<1> QED BY <1>a, <1>b

\* A tree is asked for, with nothing excluded.
LEMMA AddTreeSeen ==
  ASSUME TablesInv, TablesInv', SeenRight, "exclude" \notin Hasty,
         NEW p \in Paths, NEW e \in Paths \cup {None}, AddTree(p, e)
  PROVE  SeenRight'
<1>t. Typed BY TablesTyped
<1>1. e = None BY DEF AddTree
<1>2. IdsOf(e) = {} BY <1>1, <1>t, NoneIsNoPath DEF IdsOf, Typed
<1> DEFINE ids == UNION {Under[i] : i \in IdsOf(e)}
<1>3. ids = {} BY <1>2
<1>4. Deletable(ids) BY <1>3 DEF Deletable
<1>5. /\ folders' = Deleted(ids) /\ seen' = Forgotten(ids)
      /\ UNCHANGED <<disk, clock, photostoscan, thread>>
  BY <1>4 DEF AddTree, world
<1> HIDE DEF ids
<1>6. UNCHANGED folders BY <1>3, <1>5, <1>t DEF Deleted, Typed
<1>7. Less BY <1>3, <1>5 DEF Less, Forgotten
<1> QED BY <1>5, <1>6, <1>7, SteadySeen

\* A photo is purged, and its file with it.
LEMMA DeletePhotoSeen ==
  ASSUME TablesInv, TablesInv', SeenRight, NEW i \in Ids, DeletePhoto(i)
  PROVE  SeenRight'
<1>t. Typed /\ Typed' BY TablesTyped, TablesTypedNext
<1>a. CASE i \in photostoscan
  <2>1. Off /\ UNCHANGED <<world, dbVars>> BY <1>a DEF DeletePhoto, Abort
  <2> QED BY <2>1, OffSeen
<1>b. CASE i \notin photostoscan
  <2>1. /\ HasPhoto(i) /\ folders' = [folders EXCEPT ![i].photo = NoPhoto]
        /\ seen' = [seen EXCEPT ![folders[i].path] = FALSE]
        /\ UNCHANGED <<disk, clock, photostoscan, thread>>
    BY <1>b DEF DeletePhoto, world
  <2>2. i \in Present /\ PhotoSet(i, NoPhoto) BY <2>1 DEF HasPhoto, Present, PhotoSet
  <2>3. NoPhoto \in Photos /\ NoPhoto.there = FALSE /\ NoPhoto.lastscan = 0
    BY PhotosTyped DEF NoPhoto
  <2>4. /\ \A j \in Present : folders'[j].path = folders[j].path
        /\ \A j \in Present \ {i} : HasPhoto(j)' <=> HasPhoto(j)
        /\ ~HasPhoto(i)'
    BY <2>2, <2>3, <1>t, OnePhoto
  <2>5. Less /\ ~seen'[folders[i].path]
    <3>1. folders[i].path \in Paths BY <2>2, <1>t DEF Typed
    <3> QED BY <3>1, <2>1, <1>t DEF Less, Typed
  <2>6. RowRight(i)' BY <2>2, <2>4, <2>5 DEF RowRight
  <2>7. PhotoFits(i, NoPhoto)
    <3>1. 0 <= clock BY <1>t DEF Typed, Times
    <3> QED BY <3>1, <2>3 DEF PhotoFits
  <2>8. AtHandOnly' BY <2>1 DEF SeenRight, AtHandOnly
  <2>9. ReadRight'
    <3> SUFFICES ASSUME NEW q \in Paths, BeingRead(q)' PROVE BeingRead(q)
      BY <2>1 DEF SeenRight, ReadRight
    <3>1. thread.at = "update" /\ HasPhoto(thread.photo)' /\ folders'[thread.photo].path = q
      BY <2>1 DEF BeingRead, HasPhoto
    <3>2. thread.photo # i
      <4> SUFFICES ASSUME thread.photo = i PROVE FALSE OBVIOUS
      <4> QED BY <3>1, <2>1, <2>4 DEF HasPhoto
    <3>3. thread.photo \in Ids BY <3>1 DEF TablesInv, AtHand
    <3>4. folders'[thread.photo] = folders[thread.photo] BY <2>1, <3>2, <3>3, <1>t DEF Typed
    <3> QED BY <3>1, <3>4, <2>1 DEF BeingRead, HasPhoto
  <2>10. /\ UNCHANGED <<disk, clock, photostoscan>> /\ thread'.scan = thread.scan
         /\ thread'.photo = thread.photo \/ (thread'.photo = 0 /\ thread.photo = i)
         /\ thread.at = thread'.at \/ i = thread.scan.id \/ thread.scan.id = 0
         /\ thread'.at \in {"dropphotos", "dropfolders"} => thread.at \in {"dropphotos", "dropfolders"}
    BY <2>1
  <2> QED BY <2>2, <2>3, <2>5, <2>6, <2>7, <2>8, <2>9, <2>10, PhotoSeen
<1> QED BY <1>a, <1>b

\* The disk changes under the program.
LEMMA WorldSeen ==
  ASSUME TablesInv, TablesInv', SeenRight, "modify" \notin Hasty, WorldStep
  PROVE  SeenRight'
<1>t. Typed BY TablesTyped
<1>d. \A q \in Paths : disk[q] \in Int /\ clock \in Int /\ 0 <= clock
  BY <1>t, DiskTyped
<1>c. ASSUME NEW ps, Changes(ps)
      PROVE  /\ clock' = clock + 1 /\ UNCHANGED <<folders, thread, photostoscan>> /\ Less
             /\ \A q \in ps \cap Paths : ~seen'[q]
  BY <1>c DEF Changes, dbVars, Less
<1>1. ASSUME NEW p \in Paths, WritePhoto(p) PROVE SeenRight'
  <2>1. /\ Exists(p) /\ Changes({p}) /\ ~BeingRead(p) /\ disk' = [disk EXCEPT ![p] = clock']
    BY <1>1 DEF WritePhoto
  <2>2. clock' = clock + 1 /\ UNCHANGED <<folders, thread, photostoscan>> /\ Less /\ ~seen'[p]
    BY <2>1, <1>c
  <2>3. \A q \in Paths : disk'[q] = IF q = p THEN clock' ELSE disk[q]
    BY <2>1, <1>t DEF Typed
  <2>4. \A q \in Paths : Exists(q)' = Exists(q)
    BY <2>1, <2>2, <2>3, <1>d DEF Exists
  <2>5. \A q \in Paths : disk'[q] # disk[q] =>
          ~seen'[q] /\ (disk'[q] <= 0 \/ (disk'[q] = clock' /\ ~BeingRead(q)))
    BY <2>1, <2>2, <2>3
  <2>6. \A q \in Paths : Parent[q] \in Paths /\ Exists(q)' # Exists(q) => ~seen'[Parent[q]]
    BY <2>4
  <2> QED BY <2>2, <2>5, <2>6, ChangedSeen
<1>2. ASSUME NEW p \in Paths, RemovePhoto(p) PROVE SeenRight'
  <2>1. /\ Exists(p) /\ Changes({p}) /\ disk' = [disk EXCEPT ![p] = 0]
    BY <1>2 DEF RemovePhoto
  <2>2. clock' = clock + 1 /\ UNCHANGED <<folders, thread, photostoscan>> /\ Less /\ ~seen'[p]
    BY <2>1, <1>c
  <2>3. \A q \in Paths : disk'[q] = IF q = p THEN 0 ELSE disk[q]
    BY <2>1, <1>t DEF Typed
  <2>4. \A q \in Paths : Exists(q)' = Exists(q)
    BY <2>1, <2>2, <2>3, <1>d DEF Exists
  <2>5. \A q \in Paths : disk'[q] # disk[q] =>
          ~seen'[q] /\ (disk'[q] <= 0 \/ (disk'[q] = clock' /\ ~BeingRead(q)))
    BY <2>1, <2>2, <2>3
  <2>6. \A q \in Paths : Parent[q] \in Paths /\ Exists(q)' # Exists(q) => ~seen'[Parent[q]]
    BY <2>4
  <2> QED BY <2>2, <2>5, <2>6, ChangedSeen
<1>3. ASSUME NEW p \in Paths, MakeFolder(p) PROVE SeenRight'
  <2>1. PICK t \in {0, clock'} :
          /\ t # 0 => ~BeingRead(p)
          /\ disk' = [disk EXCEPT ![p] = t]
    BY <1>3 DEF MakeFolder
  <2>2. /\ clock' = clock + 1 /\ UNCHANGED <<folders, thread, photostoscan>> /\ Less /\ ~seen'[p]
        /\ Parent[p] \in Paths => ~seen'[Parent[p]]
    <3>1. Changes({p, Parent[p]}) BY <1>3 DEF MakeFolder
    <3> QED BY <3>1, <1>c
  <2>3. \A q \in Paths : disk'[q] = IF q = p THEN t ELSE disk[q]
    BY <2>1, <1>t DEF Typed
  <2>4. \A q \in Paths : Exists(q)' # Exists(q) => q = p
    BY <2>3 DEF Exists
  <2>5. \A q \in Paths : disk'[q] # disk[q] =>
          ~seen'[q] /\ (disk'[q] <= 0 \/ (disk'[q] = clock' /\ ~BeingRead(q)))
    BY <2>1, <2>2, <2>3
  <2> QED BY <2>2, <2>4, <2>5, ChangedSeen
<1>4. ASSUME NEW p \in Paths, RemoveFolder(p) PROVE SeenRight'
  <2>1. /\ Changes(Within(p) \cup {Parent[p]})
        /\ disk' = [q \in Paths |-> IF q \in Within(p) /\ Exists(q) THEN Gone ELSE disk[q]]
    BY <1>4 DEF RemoveFolder
  <2>2. /\ clock' = clock + 1 /\ UNCHANGED <<folders, thread, photostoscan>> /\ Less
        /\ \A q \in Within(p) \cap Paths : ~seen'[q]
        /\ Parent[p] \in Paths => ~seen'[Parent[p]]
    BY <2>1, <1>c
  <2>3. \A q \in Paths : disk'[q] # disk[q] => q \in Within(p) /\ disk'[q] <= 0
    BY <2>1 DEF Gone
  <2>4. ASSUME NEW q \in Within(p) \cap Paths, Parent[q] \in Paths
        PROVE  ~seen'[Parent[q]]
    <3>1. CASE q = p BY <3>1, <2>2, <2>4
    <3>2. CASE q # p
      <4>1. p \in Above[q] BY <3>2 DEF Within, Below
      <4>0. Parent[q] # None BY <2>4, ScannerAssumption
      <4>2. Parent[q] = p \/ p \in Above[Parent[q]] BY <4>0, <4>1, AboveStep
      <4>3. Parent[q] \in Within(p) BY <4>2, <2>4 DEF Within, Below
      <4> QED BY <4>3, <2>2, <2>4
    <3> QED BY <3>1, <3>2
  <2>5. \A q \in Paths : Exists(q)' # Exists(q) => q \in Within(p)
    BY <2>3 DEF Exists
  <2>6. \A q \in Paths : Parent[q] \in Paths /\ Exists(q)' # Exists(q) => ~seen'[Parent[q]]
    BY <2>4, <2>5
  <2>7. \A q \in Paths : disk'[q] # disk[q] =>
          ~seen'[q] /\ (disk'[q] <= 0 \/ (disk'[q] = clock' /\ ~BeingRead(q)))
    BY <2>2, <2>3
  <2> QED BY <2>2, <2>6, <2>7, ChangedSeen
<1> QED BY <1>1, <1>2, <1>3, <1>4 DEF WorldStep

\* The steps that leave the rows and the disk alone.
LEMMA RestSeen ==
  ASSUME TablesInv, TablesInv', SeenRight,
         \/ FindFoldersToScan \/ FoldersDone \/ FindPhotosToScan \/ ReportScanDone \/ PhotosDone
         \/ FindDir \/ RescanAll \/ WakeOne \/ Leave \/ Start \/ UNCHANGED vars
         \/ \E p \in Paths : FindFolder(p) \/ Rescan(p)
  PROVE  SeenRight'
<1>t. Typed BY TablesTyped
<1>h. Resting => thread.scan.id = 0 /\ thread.photo = 0
  BY DEF SeenRight, AtHandOnly, Resting
<1>r. ASSUME UNCHANGED <<folders, disk, clock, photostoscan, seen>>,
             \/ UNCHANGED thread
             \/ Resting /\ Resting' /\ thread'.scan.id = 0 /\ thread'.photo = 0
      PROVE  SeenRight'
  <2>1. Less BY <1>r DEF Less
  <2> QED BY <2>1, <1>r, SteadySeen
<1>1. CASE FindFoldersToScan
  <2>1. UNCHANGED <<folders, disk, clock, photostoscan, seen>> /\ thread.at = "woken"
    BY <1>1 DEF FindFoldersToScan, world, dbVars
  <2>2. thread'.at \in {"findphotos", "folders"} /\ thread'.scan = thread.scan /\ thread'.photo = thread.photo
    BY <1>1, <1>t DEF FindFoldersToScan, Typed, Threads
  <2> QED BY <2>1, <2>2, <1>h, <1>r DEF Resting, ScanPlaces
<1>2. CASE FoldersDone \/ PhotosDone
  <2>1. UNCHANGED <<folders, disk, clock, photostoscan, seen>> /\ thread.at \in {"folders", "photos"}
    BY <1>2 DEF FoldersDone, PhotosDone, world, dbVars
  <2>2. thread'.at \in {"findphotos", "woken"} /\ thread'.scan = thread.scan /\ thread'.photo = thread.photo
    BY <1>2, <1>t DEF FoldersDone, PhotosDone, Goto, Typed, Threads
  <2> QED BY <2>1, <2>2, <1>h, <1>r DEF Resting, ScanPlaces
<1>3. CASE FindPhotosToScan
  <2>1. UNCHANGED <<folders, disk, clock, photostoscan, seen>> /\ thread.at = "findphotos"
    BY <1>3 DEF FindPhotosToScan, world, dbVars
  <2>2. thread'.at \in {"photos", "woken", "report", "wait"} /\ thread'.scan = thread.scan
        /\ thread'.photo = thread.photo
    BY <1>3, <1>t DEF FindPhotosToScan, Goto, Typed, Threads
  <2> QED BY <2>1, <2>2, <1>h, <1>r DEF Resting, ScanPlaces
<1>4. CASE ReportScanDone
  <2>1. UNCHANGED <<folders, disk, clock, photostoscan, seen>> /\ thread.at = "report"
    BY <1>4 DEF ReportScanDone, world, dbVars
  <2>2. thread'.at = "wait" /\ thread'.scan.id = 0 /\ thread'.photo = 0
    BY <1>4 DEF ReportScanDone, Asleep, NoScan
  <2> QED BY <2>1, <2>2, <1>r DEF Resting, ScanPlaces
<1>5. CASE FindDir \/ RescanAll \/ UNCHANGED vars \/ \E p \in Paths : FindFolder(p) \/ Rescan(p)
  <2>1. UNCHANGED <<folders, disk, clock, photostoscan, seen, thread>>
    BY <1>5 DEF FindDir, RescanAll, FindFolder, Rescan, vars, world, dbVars
  <2> QED BY <2>1, <1>r
<1>6. CASE WakeOne
  <2>1. UNCHANGED <<folders, disk, clock, photostoscan, seen>>
    BY <1>6 DEF WakeOne, world, dbVars
  <2>2. CASE thread.at = "wait"
    <3>1. thread'.at = "woken" /\ thread'.scan = thread.scan /\ thread'.photo = thread.photo
      BY <1>6, <2>2, <1>t DEF WakeOne, Typed, Threads
    <3> QED BY <2>1, <2>2, <3>1, <1>h, <1>r DEF Resting, ScanPlaces
  <2>3. CASE thread.at # "wait" BY <2>1, <2>3, <1>6, <1>r DEF WakeOne
  <2> QED BY <2>2, <2>3
<1>7. CASE Leave BY <1>7, OffSeen DEF Leave
<1>8. CASE Start
  <2>1. UNCHANGED <<folders, disk, clock, photostoscan, seen>> /\ thread.at = "off"
    BY <1>8 DEF Start, Running, world, dbVars
  <2>2. thread'.at = "woken" /\ thread'.scan.id = 0 /\ thread'.photo = 0
    BY <1>8 DEF Start, Asleep, NoScan
  <2> QED BY <2>1, <2>2, <1>r DEF Resting, ScanPlaces
<1> QED BY <1>1, <1>2, <1>3, <1>4, <1>5, <1>6, <1>7, <1>8

\* So every step keeps it.
LEMMA NextSeen ==
  ASSUME "exclude" \notin Hasty, "modify" \notin Hasty,
         TablesInv, TablesInv', TreeInv, SeenRight, [Next]_vars
  PROVE  SeenRight'
<1>1. CASE ThreadStep
  <2>1. ASSUME NEW i \in Ids, ListFolder(i) \/ TakePhoto(i) PROVE SeenRight'
    BY <2>1, ListSeen, TakePhotoSeen
  <2>2. ASSUME NEW q \in Paths, AddSubFolder(q) PROVE SeenRight'
    BY <2>2, AddSubFolderSeen
  <2> QED BY <1>1, <2>1, <2>2, RestSeen, DropPhotosSeen, DropFoldersSeen, AddPhotosSeen,
       QueueFoldersSeen, QueuePhotosSeen, ReadExifSeen, UpdatePhotoSeen DEF ThreadStep
<1>2. CASE UiStep
  <2>1. ASSUME NEW p \in Paths, NEW e \in Paths \cup {None}, AddTree(p, e) PROVE SeenRight'
    BY <2>1, AddTreeSeen
  <2>2. ASSUME NEW i \in Ids, DeletePhoto(i) PROVE SeenRight'
    BY <2>2, DeletePhotoSeen
  <2> QED BY <1>2, <2>1, <2>2, RestSeen, AddDirSeen DEF UiStep
<1> QED BY <1>1, <1>2, RestSeen, WorldSeen DEF Next

LEMMA InitSeen == Init => SeenRight
<1> SUFFICES ASSUME Init PROVE SeenRight
  OBVIOUS
<1>1. Present = {} /\ \A p \in Paths : ~seen[p] BY DEF Init, Present
<1>2. thread.at = "woken" /\ thread.scan.id = 0 /\ thread.photo = 0 BY DEF Init, Asleep, NoScan
<1>3. \A p \in Paths : disk[p] <= clock BY DEF Init, Absent
<1> QED BY <1>1, <1>2, <1>3 DEF SeenRight, SeenHasRow, ClocksRight, DataRight, ReadRight, AtHandOnly,
     FoundHangs, BeingRead, ScanPlaces

\* When the thread rests, the tables agree with the disk about every folder that
\* has not changed since scanFolder last listed it: a photo has a row iff its file
\* is there, with the metadata of the present file, and every subfolder has a row
\* iff it is there. For any tree, any batches, purges, renames and ends of the
\* program; if nothing is excluded, no photo is written between the reading of its
\* metadata and the record of its scan, and no id is used again while remembered.
THEOREM RestAgreesWithDisk ==
  ASSUME "exclude" \notin Hasty, "modify" \notin Hasty
  PROVE  FreshSpec => []CaughtUp
<1>1. Init => TablesInv /\ TreeInv /\ SeenRight
  BY InitTables, InitTree, InitSeen
<1>2. TablesInv /\ TreeInv /\ SeenRight /\ [Next]_vars /\ [IdsAreNew]_vars
        => (TablesInv /\ TreeInv /\ SeenRight)'
  BY NextTables, NextTree, NextSeen
<1>3. ASSUME TablesInv, SeenRight PROVE CaughtUp
  <2> SUFFICES ASSUME Idle, NEW i \in Present, seen[folders[i].path]
               PROVE  LET p == folders[i].path
                          photo == folders[i].photo
                      IN  /\ photo.there <=> disk[p] > 0
                          /\ photo.there => photo.lastscan >= disk[p] /\ photo.data = disk[p]
                          /\ \A q \in Children(p) : Exists(q) <=> IdsOf(q) # {}
    BY DEF CaughtUp
  <2>1. thread.scan.id = 0 /\ thread.photo = 0 /\ photostoscan = {}
    BY <1>3 DEF Idle, SeenRight, AtHandOnly, ScanPlaces
  <2>2. i # 0 BY <1>3, TablesTyped
  <2>3. Settled(i) BY <1>3, <2>1, <2>2 DEF SeenRight, RowRight
  <2>4. HasPhoto(i) <=> folders[i].photo.there BY DEF HasPhoto, Present
  <2> QED BY <1>3, <2>1, <2>2, <2>3, <2>4 DEF Settled, SeenRight, DataRight
<1> QED BY <1>1, <1>2, <1>3, PTL DEF FreshSpec, Spec
=============================================================================
