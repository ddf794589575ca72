------------------------------- MODULE Scanner -------------------------------
(***************************************************************************)
(* Scanner: a thread that brings the tables folders and photos into accord *)
(* with folder trees on disk.  What is to be scanned is kept in the tables *)
(* folderstoscan and photostoscan, so that it outlives the program.        *)
(* Meanwhile the user changes files, adds trees, asks for rescans, purges  *)
(* photos and leaves the program.                                          *)
(*                                                                         *)
(* A folder holds at most one photo, so the folder's row stands for the    *)
(* photo's too.  The clock ticks at every change on disk; the content of a *)
(* photo is the time of its last modification.                             *)
(***************************************************************************)
EXTENDS Integers, FiniteSets

CONSTANTS
  Paths,         \* pathnames of folders
  Parent,        \* Parent[p]: the folder that p is in, or None
  None,
  Limit,         \* how many folders or photos are taken from a queue at a time
  MaxClock,      \* bound on changes on disk
  MaxStarts,     \* bound on starts of the program
  MaxAsks,       \* bound on what the user asks of the program
  Hasty          \* what the user does: "rename": new folders may appear after
                 \* old ones vanished; "exclude": trees are excluded; "purge":
                 \* purge while the thread works; "modify": write a photo that
                 \* is being read; "report": ask while the end is reported

ASSUME ScannerAssumption ==
  /\ IsFiniteSet(Paths)
  /\ Parent \in [Paths -> Paths \cup {None}] /\ None \notin Paths
  /\ Limit \in Nat \ {0} /\ MaxClock \in Nat \ {0} /\ MaxStarts \in Nat \ {0}
  /\ MaxAsks \in Nat
  /\ Hasty \subseteq {"rename", "exclude", "purge", "modify", "report"}

VARIABLES
  clock,
  disk,          \* disk[p]: when the photo in p was modified, 0: no photo;
                 \* Absent: no such folder yet; Gone: not any more
  folders,       \* the tables folders and photos, by id
  excludedtrees,
  folderstoscan,
  photostoscan,
  known,         \* the thread's cache PhotoDB::folders: pathnames by id
  rev,           \* the user interface's PhotoDB::revFolders: ids by pathname
  thread,
  ui,            \* what the user interface is doing
  seen,          \* history: p was listed after its last change
  starts, asks   \* counters, for the bounds

dbVars == <<folders, excludedtrees, folderstoscan, photostoscan>>
caches == <<known, rev>>
counters == <<starts, asks>>
world == <<clock, disk>>
vars == <<world, dbVars, caches, thread, ui, seen, counters>>

-----------------------------------------------------------------------------
Absent == -1
Gone == -2
Times == 0..MaxClock
Ids == 1..Cardinality(Paths)

NoPhoto == [there |-> FALSE, data |-> 0, lastscan |-> 0]
NewPhoto == [there |-> TRUE, data |-> 0, lastscan |-> 0]  \* lastscan 0: null
Rows == [path : Paths, parent : Ids \cup {0},
         photo : [there : BOOLEAN, data : Times, lastscan : Times]]

ASSUME RowAssumption == None \notin Rows

\* What scanFolder keeps while it writes to the database.
Scans == [id : Ids \cup {0}, oldsubdirs : [Paths -> Ids \cup {0}],
          newsubdirs : SUBSET Paths, oldphoto : BOOLEAN, newphoto : Times]
NoScan == [id |-> 0, oldsubdirs |-> [p \in Paths |-> 0], newsubdirs |-> {},
           oldphoto |-> FALSE, newphoto |-> 0]

Places == {"woken", "folders", "dropphotos", "dropfolders", "addfolders",
           "queuefolders", "queuephotos", "findphotos", "photos", "read", "update",
           "report", "wait", "off"}

Asleep == [at |-> "wait", ids |-> {}, scan |-> NoScan, photo |-> 0, data |-> 0,
           busy |-> FALSE, count |-> FALSE]
AtRest == [at |-> "idle", path |-> None, goal |-> None, parent |-> 0, roots |-> {}]

-----------------------------------------------------------------------------
\* The tree of paths, and the tables.

Exists(p) == disk[p] >= 0
Children(p) == {q \in Paths : Parent[q] = p}

\* Above[p]: the folders that p is in, which are in every set that has its parent
\* and the parents of its members.
UpClosed(S) == \A q \in S : Parent[q] \in S \cup {None}
Above ==
  [p \in Paths |->
     {q \in Paths : \A S \in SUBSET Paths : Parent[p] \in S \cup {None} /\ UpClosed(S) => q \in S}]

ASSUME TreeAssumption == \A p \in Paths : p \notin Above[p]

\* Below(p): the paths below p; Within(p): p and those.
Below(p) == {q \in Paths : p \in Above[q]}
Within(p) == {p} \cup Below(p)

Present == {i \in Ids : folders[i] # None}
IdsOf(p) == {i \in Present : folders[i].path = p}
SubFolders(i) == {j \in Present : folders[j].parent = i}

\* The ids of a folder and of all below it.
DownClosed(S) == \A i \in S : SubFolders(i) \subseteq S
Under ==
  [i \in Ids |-> {j \in Ids : \A S \in SUBSET Ids : i \in S /\ DownClosed(S) => j \in S}]

HasPhoto(i) == folders[i] # None /\ folders[i].photo.there

\* "integer primary key": one more than the largest in use, so that the id of
\* a deleted row may be used again; at the bound any that is free.
NewId ==
  LET next == {i \in Ids : \A j \in Present : j < i}
      free == IF next = {} THEN Ids \ Present ELSE next
  IN  CHOOSE i \in free : \A j \in free : i <= j

\* The foreign keys of folderstoscan and photostoscan do not cascade.
Deletable(ids) == ids \cap (folderstoscan \cup photostoscan) = {}

Deleted(ids) == [i \in Ids |-> IF i \in ids THEN None ELSE folders[i]]
Forgotten(ids) ==
  [p \in Paths |-> seen[p] /\ ~\E i \in ids \cap Present : folders[i].path = p]

\* Mutant: what were roots stay roots.
AddedOnly(p, parent) ==
  [folders EXCEPT ![NewId] = [path |-> p, parent |-> parent, photo |-> NoPhoto]]

\* addFolder: hitherto roots that are children of the new folder move there.
Added(p, parent) ==
  [i \in Ids |->
     IF i = NewId THEN [path |-> p, parent |-> parent, photo |-> NoPhoto]
     ELSE IF folders[i] # None /\ folders[i].parent = 0 /\ Parent[folders[i].path] = p
          THEN [folders[i] EXCEPT !.parent = NewId]
          ELSE folders[i]]

Addable(p, parent) == IdsOf(p) = {} /\ (parent # 0 => parent \in Present)

Running == thread.at # "off"

\* The program ends: what the thread had taken from a queue is left undone.
Off ==
  /\ thread' = [Asleep EXCEPT !.at = "off"] /\ ui' = AtRest
  /\ seen' = LET busy == {thread.scan.id, thread.photo} \cap Ids
                 paths == {known[i] : i \in busy} \cup {folders[i].path : i \in busy \cap Present}
             IN  [p \in Paths |-> seen[p] /\ p \notin paths]

\* A failed statement or assertion ends it; the transaction is rolled back.
Abort == Off /\ UNCHANGED <<world, dbVars, caches>>

Goto(place) == thread' = [thread EXCEPT !.at = place]

-----------------------------------------------------------------------------
\* The thread: folders.  It holds the mutex in "woken" and "findphotos".

HoldsMutex == thread.at \in {"woken", "findphotos"}

\* scanFolders may leave a batch early, when it found many photos; hence any
\* number of folders up to the limit.
FindFoldersToScan ==
  /\ thread.at = "woken"
  /\ \/ folderstoscan = {} /\ thread' = [thread EXCEPT !.at = "findphotos", !.busy = FALSE]
     \/ \E ids \in SUBSET folderstoscan :
          /\ ids # {} /\ Cardinality(ids) <= Limit
          /\ thread' = [thread EXCEPT !.at = "folders", !.ids = ids, !.busy = TRUE]
  /\ UNCHANGED <<world, dbVars, caches, ui, seen, counters>>

\* excludedtrees holds pathnames; it is the file names that are looked up in it.
FileName(p) == <<p>>
NewSubdirs(p) == {q \in Children(p) : Exists(q) /\ FileName(q) \notin excludedtrees}

\* scanFolder reads the tables and lists the directory.
ListFolder(i) ==
  /\ thread.at = "folders" /\ i \in thread.ids
  /\ IF known[i] = None /\ folders[i] = None
     THEN Abort /\ UNCHANGED counters
     ELSE LET p == IF known[i] # None THEN known[i] ELSE folders[i].path
          IN  /\ known' = [known EXCEPT ![i] = p]
              /\ thread' = [thread EXCEPT
                   !.at = "dropphotos",
                   !.scan = [id |-> i,
                             oldsubdirs |-> [q \in Paths |->
                               LET js == {j \in SubFolders(i) : folders[j].path = q}
                               IN  IF js = {} THEN 0 ELSE CHOOSE j \in js : TRUE],
                             newsubdirs |-> NewSubdirs(p),
                             oldphoto |-> HasPhoto(i),
                             newphoto |-> IF Exists(p) THEN disk[p] ELSE 0]]
              /\ seen' = [seen EXCEPT ![p] = @ \/ i \in Present]
              /\ UNCHANGED <<world, dbVars, rev, ui, counters>>

DropPhotos ==
  LET i == thread.scan.id
      drop == thread.scan.oldphoto /\ thread.scan.newphoto = 0
  IN  /\ thread.at = "dropphotos"
      /\ IF drop /\ i \in photostoscan
         THEN Abort /\ UNCHANGED counters
         ELSE /\ folders' = IF drop /\ HasPhoto(i) THEN [folders EXCEPT ![i].photo = NoPhoto]
                            ELSE folders
              /\ Goto("dropfolders")
              /\ UNCHANGED <<world, excludedtrees, folderstoscan, photostoscan, caches, ui,
                             seen, counters>>

\* Subfolders that vanished, and all below them, count as seen no longer.  A
\* transaction drops the subfolders of one folder, when nothing is left below them.
Vanished == {thread.scan.oldsubdirs[q] : q \in Paths \ thread.scan.newsubdirs} \ {0}
Doomed == UNION {Under[i] : i \in Vanished}
Levels == {Vanished} \cup {SubFolders(i) : i \in Doomed}

DropFolders ==
  \E ids \in Levels :
    /\ thread.at = "dropfolders"
    /\ ids # {} \/ ids = Vanished
    /\ \A i \in ids : SubFolders(i) = {}
    /\ IF ids \cap photostoscan # {}
       THEN Abort /\ UNCHANGED counters
       ELSE /\ folders' = Deleted(ids)
            /\ folderstoscan' = folderstoscan \ ids
            /\ seen' = Forgotten(Doomed)
            /\ Goto(IF ids = Vanished THEN "addfolders" ELSE "dropfolders")
            /\ UNCHANGED <<world, excludedtrees, photostoscan, caches, ui, counters>>

Unknown == {q \in thread.scan.newsubdirs : thread.scan.oldsubdirs[q] = 0}

AddSubFolder(q) ==
  /\ thread.at = "addfolders" /\ q \in Unknown
  /\ IF Addable(q, thread.scan.id)
     THEN /\ folders' = Added(q, thread.scan.id)
          /\ thread' = [thread EXCEPT !.scan.oldsubdirs[q] = NewId]
          /\ UNCHANGED <<world, excludedtrees, folderstoscan, photostoscan, caches, ui, seen,
                         counters>>
     ELSE Abort /\ UNCHANGED counters

\* One transaction adds the photos and takes the folder off the list.
AddPhotos ==
  LET i == thread.scan.id
      new == thread.scan.newphoto # 0 /\ ~thread.scan.oldphoto
  IN  /\ thread.at = "addfolders" /\ Unknown = {}
      /\ IF new /\ i \notin Present
         THEN Abort /\ UNCHANGED counters
         ELSE /\ folders' = IF new THEN [folders EXCEPT ![i].photo = NewPhoto] ELSE folders
              /\ folderstoscan' = folderstoscan \ {i}
              /\ Goto("queuefolders")
              /\ UNCHANGED <<world, excludedtrees, photostoscan, caches, ui, seen, counters>>

QueueFolders ==
  LET ids == {thread.scan.oldsubdirs[q] : q \in thread.scan.newsubdirs}
  IN  /\ thread.at = "queuefolders"
      /\ IF ids \subseteq Present
         THEN /\ folderstoscan' = folderstoscan \cup ids
              /\ thread' = [thread EXCEPT !.at = "queuephotos",
                                          !.count = @ \/ ids # {}]
              /\ UNCHANGED <<world, folders, excludedtrees, photostoscan, caches, ui, seen,
                             counters>>
         ELSE Abort /\ UNCHANGED counters

\* Mutant: what was scanned once is never scanned again.
NeedsFirstScan(i) == folders[i].photo.lastscan = 0

NeedsScan(i) ==
  thread.scan.newphoto > folders[i].photo.lastscan \/ folders[i].photo.lastscan = 0

QueuePhotos ==
  LET i == thread.scan.id
      found == thread.scan.newphoto # 0
      queue == {j \in {i} : found /\ NeedsScan(j)}
  IN  /\ thread.at = "queuephotos"
      /\ IF found /\ ~HasPhoto(i)
         THEN Abort /\ UNCHANGED counters
         ELSE /\ photostoscan' = photostoscan \cup queue
              /\ thread' = [thread EXCEPT !.at = "folders", !.ids = @ \ {i}, !.scan = NoScan,
                                          !.count = @ \/ queue # {}]
              /\ UNCHANGED <<world, folders, excludedtrees, folderstoscan, caches, ui, seen,
                             counters>>

FoldersDone ==
  /\ thread.at = "folders" /\ thread.ids = {}
  /\ Goto("findphotos")
  /\ UNCHANGED <<world, dbVars, caches, ui, seen, counters>>

-----------------------------------------------------------------------------
\* The thread: photos.

FindPhotosToScan ==
  /\ thread.at = "findphotos"
  /\ IF photostoscan # {}
     THEN \E ids \in SUBSET photostoscan :
            /\ \/ Cardinality(ids) = Limit
               \/ ids = photostoscan /\ Cardinality(ids) < Limit
            /\ thread' = [thread EXCEPT !.at = "photos", !.ids = ids, !.busy = TRUE]
     ELSE Goto(CASE thread.busy -> "woken"
                 [] ~thread.busy /\ thread.count -> "report"
                 [] OTHER -> "wait")
  /\ UNCHANGED <<world, dbVars, caches, ui, seen, counters>>

\* reportScanDone, without the mutex.
ReportScanDone ==
  /\ thread.at = "report"
  /\ thread' = Asleep
  /\ UNCHANGED <<world, dbVars, caches, ui, seen, counters>>

\* Mutant: the photo is not taken off the queue.
TakePhotoQueued(i) ==
  /\ thread.at = "photos" /\ i \in thread.ids
  /\ thread' = [thread EXCEPT !.at = "read", !.ids = @ \ {i}, !.photo = i]
  /\ UNCHANGED <<world, dbVars, caches, ui, seen, counters>>

TakePhoto(i) ==
  /\ thread.at = "photos" /\ i \in thread.ids
  /\ photostoscan' = photostoscan \ {i}
  /\ thread' = [thread EXCEPT !.at = "read", !.ids = @ \ {i}, !.photo = i]
  /\ UNCHANGED <<world, folders, excludedtrees, folderstoscan, caches, ui, seen, counters>>

\* The row is read and then the file; a file that is not there is left alone.
ReadExif ==
  LET i == thread.photo
  IN  /\ thread.at = "read"
      /\ IF ~HasPhoto(i)
         THEN Abort /\ UNCHANGED counters
         ELSE /\ LET p == folders[i].path
                 IN  thread' = IF disk[p] > 0
                               THEN [thread EXCEPT !.at = "update", !.data = disk[p]]
                               ELSE [thread EXCEPT !.at = "photos", !.photo = 0]
              /\ UNCHANGED <<world, dbVars, caches, ui, seen, counters>>

Scanned(i) == [folders EXCEPT ![i].photo.data = thread.data, ![i].photo.lastscan = clock]

UpdatePhoto ==
  LET i == thread.photo
  IN  /\ thread.at = "update"
      /\ folders' = IF HasPhoto(i) THEN Scanned(i) ELSE folders
      /\ thread' = [thread EXCEPT !.at = "photos", !.photo = 0, !.data = 0]
      /\ UNCHANGED <<world, excludedtrees, folderstoscan, photostoscan, caches, ui, seen, counters>>

PhotosDone ==
  /\ thread.at = "photos" /\ thread.ids = {}
  /\ Goto("woken")
  /\ UNCHANGED <<world, dbVars, caches, ui, seen, counters>>

ThreadStep ==
  \/ FindFoldersToScan \/ FoldersDone
  \/ \E i \in Ids : ListFolder(i) \/ TakePhoto(i)
  \/ DropPhotos \/ DropFolders \/ AddPhotos \/ QueueFolders \/ QueuePhotos
  \/ \E q \in Paths : AddSubFolder(q)
  \/ FindPhotosToScan \/ ReportScanDone \/ ReadExif \/ UpdatePhoto \/ PhotosDone

-----------------------------------------------------------------------------
\* The user interface.  db0->findFolder consults a cache that only grows.

FoundId(p) == IF rev[p] # 0 THEN rev[p]
              ELSE IF IdsOf(p) = {} THEN 0 ELSE CHOOSE i \in IdsOf(p) : TRUE

MayAsk == Running /\ ui.at = "idle" /\ asks < MaxAsks
Asks == asks' = asks + 1 /\ UNCHANGED starts

\* Any part of the interface may look a folder up.
FindFolder(p) ==
  /\ MayAsk /\ rev[p] # FoundId(p) /\ Asks
  /\ rev' = [rev EXCEPT ![p] = FoundId(p)]
  /\ UNCHANGED <<world, dbVars, known, thread, ui, seen>>

\* addTree, of a folder that is there, with at most one exclusion.
AddTree(p, e) ==
  LET ids == UNION {Under[i] : i \in IdsOf(e)}
  IN  /\ MayAsk /\ Exists(p) /\ Asks
      /\ e # None => e \in Below(p) /\ "exclude" \in Hasty
      /\ IF Deletable(ids)
         THEN /\ folders' = Deleted(ids)
              /\ seen' = Forgotten(ids)
              /\ excludedtrees' = IF e = None THEN excludedtrees \ {p}
                                  ELSE (excludedtrees \ ({p} \cup Below(e))) \cup {e}
              /\ ui' = [AtRest EXCEPT !.at = "find", !.goal = p]
              /\ UNCHANGED <<world, folderstoscan, photostoscan, caches, thread>>
         ELSE Abort

Towards(a, p) == CHOOSE q \in Within(a) \ {a} : Parent[q] = a /\ p \in Within(q)

\* findDirOrAdd: from the nearest folder that the database has downwards, if no
\* folder between is excluded; otherwise the goal becomes a root.
FindDir ==
  LET p == ui.goal
      found == {a \in Above[p] : FoundId(a) # 0}
      a == CHOOSE b \in found : found \subseteq {b} \cup Above[b]
      between == Above[p] \cap Below(a)
  IN  /\ ui.at = "find"
      /\ IF FoundId(p) # 0
         THEN /\ rev' = [rev EXCEPT ![p] = FoundId(p)]
              /\ ui' = [AtRest EXCEPT !.at = "rescan", !.roots = {p}]
         ELSE IF found = {} \/ between \cap excludedtrees # {}
         THEN ui' = [ui EXCEPT !.at = "add", !.path = p] /\ UNCHANGED rev
         ELSE /\ rev' = [rev EXCEPT ![a] = FoundId(a)]
              /\ ui' = [ui EXCEPT !.at = "add", !.path = Towards(a, p), !.parent = FoundId(a)]
      /\ UNCHANGED <<world, dbVars, known, thread, seen, counters>>

AddDir ==
  /\ ui.at = "add"
  /\ IF Addable(ui.path, ui.parent)
     THEN /\ folders' = Added(ui.path, ui.parent)
          /\ seen' = [p \in Paths |-> seen[p] /\ p \notin {ui.path, Parent[ui.path]}]
          /\ ui' = IF ui.path = ui.goal
                   THEN [AtRest EXCEPT !.at = "rescan", !.roots = {ui.goal}]
                   ELSE [ui EXCEPT !.path = Towards(ui.path, ui.goal), !.parent = NewId]
          /\ UNCHANGED <<world, excludedtrees, folderstoscan, photostoscan, caches, thread, counters>>
     ELSE Abort /\ UNCHANGED counters

RescanAll ==
  /\ MayAsk /\ Asks
  /\ ui' = [AtRest EXCEPT !.at = "rescan",
                          !.roots = {folders[i].path : i \in SubFolders(0)}]
  /\ ui'.roots # {}
  /\ UNCHANGED <<world, dbVars, caches, thread, seen>>

Rescan(p) ==
  /\ ui.at = "rescan" /\ p \in ui.roots
  /\ folderstoscan' = folderstoscan \cup IdsOf(p)
  /\ ui' = [ui EXCEPT !.at = "wake", !.roots = @ \ {p}]
  /\ UNCHANGED <<world, folders, excludedtrees, photostoscan, caches, thread, seen, counters>>

WakeOne ==
  /\ ui.at = "wake" /\ ~HoldsMutex
  /\ thread.at = "report" => "report" \in Hasty
  /\ thread' = IF thread.at = "wait" THEN [thread EXCEPT !.at = "woken"] ELSE thread
  /\ ui' = IF ui.roots = {} THEN AtRest ELSE [ui EXCEPT !.at = "rescan"]
  /\ UNCHANGED <<world, dbVars, caches, seen, counters>>

\* PurgeDialog: deletePhoto.  (It removes the file before.)
DeletePhoto(i) ==
  /\ MayAsk /\ HasPhoto(i) /\ Asks
  /\ "purge" \in Hasty \/ (thread.at = "wait" /\ photostoscan = {})
  /\ IF i \in photostoscan
     THEN Abort
     ELSE /\ folders' = [folders EXCEPT ![i].photo = NoPhoto]
          /\ seen' = [seen EXCEPT ![folders[i].path] = FALSE]
          /\ UNCHANGED <<world, excludedtrees, folderstoscan, photostoscan, caches, thread,
                         ui>>

UiStep ==
  \/ \E p \in Paths : FindFolder(p) \/ AddTree(p, None) \/ \E e \in Paths : AddTree(p, e)
  \/ FindDir \/ AddDir \/ RescanAll \/ WakeOne
  \/ \E p \in Paths : Rescan(p)
  \/ \E i \in Ids : DeletePhoto(i)

-----------------------------------------------------------------------------
\* The disk, and the program's life.

Changes(ps) ==
  /\ clock < MaxClock /\ clock' = clock + 1
  /\ seen' = [p \in Paths |-> seen[p] /\ p \notin ps]
  /\ UNCHANGED <<dbVars, caches, thread, ui, counters>>

\* The photo in p is being read.
BeingRead(p) ==
  thread.at = "update" /\ HasPhoto(thread.photo) /\ folders[thread.photo].path = p

WritePhoto(p) ==
  /\ Exists(p) /\ Changes({p})
  /\ BeingRead(p) => "modify" \in Hasty
  /\ disk' = [disk EXCEPT ![p] = clock']

RemovePhoto(p) ==
  /\ Exists(p) /\ disk[p] > 0 /\ Changes({p})
  /\ disk' = [disk EXCEPT ![p] = 0]

MakeFolder(p) ==
  /\ ~Exists(p) /\ (Parent[p] # None => Exists(Parent[p]))
  /\ "rename" \in Hasty \/ \A q \in Paths : disk[q] # Gone
  /\ Changes({p, Parent[p]})
  /\ \E t \in {0, clock'} :
       /\ t # 0 /\ BeingRead(p) => "modify" \in Hasty
       /\ disk' = [disk EXCEPT ![p] = t]

RemoveFolder(p) ==
  /\ Exists(p) /\ Changes(Within(p) \cup {Parent[p]})
  /\ disk' = [q \in Paths |-> IF q \in Within(p) /\ Exists(q) THEN Gone ELSE disk[q]]

\* The program is left, or killed, at any moment; stopAndWait has a time limit.
Leave == Running /\ starts < MaxStarts /\ Off /\ UNCHANGED <<world, dbVars, caches, counters>>

Start ==
  /\ ~Running /\ starts < MaxStarts /\ starts' = starts + 1 /\ UNCHANGED asks
  /\ known' = [i \in Ids |-> None] /\ rev' = [p \in Paths |-> 0]
  /\ thread' = [Asleep EXCEPT !.at = "woken",
                              !.count = folderstoscan \cup photostoscan # {}]
  /\ UNCHANGED <<world, dbVars, ui, seen>>

Init ==
  /\ clock = 1
  /\ disk \in [Paths -> {Absent, clock}]
  /\ \A p \in Paths : Exists(p) /\ Parent[p] # None => Exists(Parent[p])
  /\ folders = [i \in Ids |-> None]
  /\ excludedtrees = {} /\ folderstoscan = {} /\ photostoscan = {}
  /\ known = [i \in Ids |-> None] /\ rev = [p \in Paths |-> 0]
  /\ thread = [Asleep EXCEPT !.at = "woken"]
  /\ ui = AtRest
  /\ seen = [p \in Paths |-> FALSE]
  /\ starts = 1 /\ asks = 0

WorldStep ==
  \E p \in Paths : WritePhoto(p) \/ RemovePhoto(p) \/ MakeFolder(p) \/ RemoveFolder(p)

Next == ThreadStep \/ UiStep \/ WorldStep \/ Leave \/ Start

Spec == Init /\ [][Next]_vars

\* The thread goes on, and the interface finishes what it began.
FairSpec == Spec /\ WF_vars(ThreadStep)
                 /\ WF_vars(FindDir \/ AddDir \/ WakeOne \/ \E p \in Paths : Rescan(p))

-----------------------------------------------------------------------------
\* Properties.

\* Types; and the queues refer to rows that exist, as their foreign keys say.
TypeOK ==
  /\ clock \in Times /\ disk \in [Paths -> Times \cup {Absent, Gone}]
  /\ folders \in [Ids -> Rows \cup {None}]
  /\ excludedtrees \subseteq Paths
  /\ folderstoscan \subseteq Present /\ photostoscan \subseteq {i \in Present : HasPhoto(i)}
  /\ known \in [Ids -> Paths \cup {None}] /\ rev \in [Paths -> Ids \cup {0}]
  /\ thread \in [at : Places, ids : SUBSET Ids, scan : Scans, photo : Ids \cup {0},
                 data : Times, busy : BOOLEAN, count : BOOLEAN]
  /\ ui \in [at : {"idle", "find", "add", "rescan", "wake"}, path : Paths \cup {None},
             goal : Paths \cup {None}, parent : Ids \cup {0}, roots : SUBSET Paths]
  /\ seen \in [Paths -> BOOLEAN]
  /\ starts \in 1..MaxStarts /\ asks \in 0..MaxAsks

\* Every folder's row hangs from the row of the folder it is in, whenever that
\* has one, and no two rows are of the same folder: addFolder adopts what were
\* roots, and deletion cascades.
OneTree ==
  \A i \in Present :
    /\ IdsOf(folders[i].path) = {i}
    /\ folders[i].parent = (LET above == {j \in Present : folders[j].path = Parent[folders[i].path]}
                            IN  IF above = {} THEN 0 ELSE CHOOSE j \in above : TRUE)

Idle == thread.at = "wait" /\ folderstoscan = {} /\ photostoscan = {}

\* When the thread has nothing to do, the database is right about every folder
\* that was listed after its last change: it has the photo just if the disk has,
\* scanned no earlier than it was written and with the metadata of its present
\* content; and it has just the subfolders that are there.
CaughtUp ==
  Idle => \A i \in Present :
    LET p == folders[i].path
        photo == folders[i].photo
    IN  seen[p] =>
          /\ photo.there <=> disk[p] > 0
          /\ photo.there => photo.lastscan >= disk[p] /\ photo.data = disk[p]
          /\ \A q \in Children(p) : Exists(q) <=> IdsOf(q) # {}

\* What is put into the queues is taken off them again, to the last, unless the
\* program ends.
QueuedIsScanned ==
  folderstoscan \cup photostoscan # {} ~> Idle \/ ~Running

=============================================================================
