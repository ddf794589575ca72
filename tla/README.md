# Photohoard in TLA+

Photohoard is a Qt program that keeps a collection of photos: it scans folder
trees into an SQLite database, caches developed images, lets the user edit them
without touching the files, and imports and exports files. It has no tests. Two
kinds of things are hard in it. Six kinds of threads share databases, queues and
images with an event loop, and are interrupted, restarted and told to stop at any
moment; and the user interface keeps many copies of one truth — lists, strips,
sliders, kept stages of a computation — that long sequences of actions have to
leave in step with the database. This directory models both, checks the models
with TLC, and proves the main invariants for instances of any size with TLAPS.

    tlc -config acRecache.cfg MCAutoCache      # a run
    tlapm ThreadProofs.tla                     # a proof

`PROJECT.json` lists the runs, the source lines of every definition, the mutants
(a plausible bug for each property, which the property must catch), the hazards
and the theorems.

## 1. Inventory

### Threads and their protocols

| component | state | operations | talks to |
|---|---|---|---|
| Image cache: `AutoCache`, `AC_Worker`, `IF_Bank`, `IF_Worker`, `BasicCache`, `AC_ImageHolder` | tables `cache` and `queue`; the worker's sets `readyToLoad`, `mustCache`, `beingLoaded`, `invalidated`, `loaded`, `requests`, `hushup`; the bank's jobs | `request`, `requestIfEasy`, `recache`, `cacheModified`, `purge`, `cachePreview` | the strips and `LightTable` (requests, `available`), `Scanner` (`updated`), `LiveAdjuster` (offers), `PurgeDialog` |
| Original readers: `InterruptableReader`, its file and raw kinds, `OriginalFinder` | the request in hand and the next, flags `running`, `canceling`, `stopsoon` | `request`, `cancel`, `stop`, `ready` | `LiveAdjuster` |
| Live adjustment: `InterruptableAdjuster`, `LiveAdjuster`, `SlideView` | the original, the settings and size wanted, the flags of the computation; what the slide shows | `markVersionAndSize`, `reloadSliders`, `requestAdjusted`, `provideScaledOriginal`, `provideAdjusted` | `OriginalFinder`, `AutoCache`, the slide |
| `Scanner` | tables `folders`, `photos`, `folderstoscan`, `photostoscan`, `excludedtrees`; two caches of folder names | `addTree`, `excludeTree`, `rescan`, `rescanAll`, the thread's loop | `FileBar`, `Session`, `PurgeDialog` (all in the main thread), the disk |
| `Exporter` | a list of jobs, the settings last set up | `setup`, `add`, `addSelection`, `stop` | `FileBar`, `DragOut` |
| Import: `Collector`, `CopyIn`, `ImportJob`, `ImportGUI` | the folders still to list, the files found; per copy the files copied and failed; the files themselves | `authorize`, `cancel`, collecting, copying, disposing | `Scanner::addTree` |
| Database access: `Database`, `Transaction`, `DBWriteLock` | one mutex for all clones; per thread a connection, its open selects, its transaction | `query`, `constQuery`, `lockForWriting`, `begin`, `commit` | all of them |

### The user interface and what it keeps

| component | state | operations | talks to |
|---|---|---|---|
| Catalogue and session: `PhotoDB`, `SessionDB`, `Selection`, `Purge` | tables `versions`, `photos`, M.`filter`, `selection`, `currentvsn`, `expanded`, `expandedfolders`, `starting` | counts and ranges of the filter, new version, status, purge | strips, light table, scanner |
| Strips: `Strip`, `Datestrip`, `Slidestrip`, `StripView` | a tree of open and closed strips over epochs or folders, with lists put off until seen (`latent`) | expand, collapse, rescan, convert, paint, arrows | catalogue, `AutoCache` |
| `LightTable`, `Slide`, the bars | current version, selection, layout, organization, the main slide | slide and header presses, filter, purge, duplicate, start and stop | strips, `SlideView` |
| Tags: `Tags`, `AppliedTagList`, `TagList`, the editor, `TagDialog` | the tree of tags; what is applied; the list and the text in the editor | find, define, apply, remove, browse | `Filter`, selection |
| `Filter`, `FilterDialog` | the clauses; the rows of `filtersettings`; the boxes of the dialogue | every control, OK, Reset, Cancel | light table, tags |
| Adjustments: `Adjustments`, `ControlSliders`, `GentleJog`, `SliderClipboard`, `AllControls`, `CropControls`, `CropCalc` | the adjustments taken to be stored, those of the sliders, the crop rectangle, the clipboard | keys, wheel, drags, double clicks, crop corners, copy, apply | database, `LiveAdjuster` |
| Layers: `Layers`, `LayerDialog` | the rows of `layers` and their adjustments; those listed and selected | add, raise, lower, delete, activate, slide | the same |
| `Adjuster`, `AllAdjuster` | a stack of images, each with the settings it was made by; one stack per layer | `setReduced`, `retrieveReduced`, `applySettings`, cancel | `InterruptableAdjuster` |

The rest has little state of its own: metadata (`Exif`, `MetaInfo`), images
(`Image16`, `PhotoOps`, colour spaces), colour management, overlays, the main
window, dialogues that only gather parameters, `ThreadedTransform` (made by
`SlideView`, and asked for something only if the monitor has a profile), and the
tools. `PROJECT.json` names them all, with the reason where one is not modelled.

### How they interact

The main thread calls into the others in three ways. *Queued signals*: `AC_Worker`
lives in a thread with an event queue, whose handlers run one at a time, in the
order of posting. *A mutex and a condition*: readers, adjuster, scanner and
exporter have a loop of their own that waits when there is nothing to do, and
releases the mutex around long work. *The database*: all threads read through
connections of their own and write under one mutex; a statement that fails ends
the program, and a crash rolls back the open transaction only. That statements and
transactions are atomic, and that a write under the mutex does not fail, is what
the other modules assume and `Database` shows.

### What is hard, and what makes a component correct

* **Image cache.** A version may be requested, recached, edited live and purged
  while one of the finders computes it from old settings; answers for two requests
  for a version could not be told apart. Correct: one computation per version at a
  time; no stale image is taken for fresh; every request is answered; the queue
  survives a crash and is worked off.
* **Readers.** The mutex is released for opening, reading, closing and decoding;
  requests and cancels arrive in between. Correct: only complete images of the file
  wanted are announced, cancels stick, requests are answered, threads stop.
* **Live adjustment.** A computation is interrupted, its order replaced and its
  original dropped while it runs; results wait in the event loop. Correct: the
  slide shows the version it says, and nothing interrupted is shown.
* **Scanner.** Each folder takes several transactions, between which the user
  adds, rescans and purges, the disk changes and the program may end. Correct: it
  never sleeps on work, the tree stays one tree, and at rest it agrees with the disk.
* **Exporter.** The list of jobs changes while an image is computed without the
  mutex, and a version may be added again while it is exported or after. Correct: each
  version is written by the settings it was asked with, none is forgotten, reports are
  complete.
* **Import.** The list is read while it is made, copies fail or are canceled, the
  job is deleted while its threads run. Correct: no file is lost or passed over.
* **Database.** Nobody takes a lock to read, and SQLite refuses a write of a
  connection that has read something others have since replaced. Correct: such a
  write never happens.
* **Light table.** The filter changes, the scanner adds and removes, strips are
  opened, closed and converted by signals that arrive later, and the program may
  crash while it builds them. Correct: what is shown is what the filter lets pass,
  the current version is the one in the main slide, arrows go to the neighbour, a
  purge spares what is wanted.
* **Tags and filter.** A text finds tags by abbreviation or defines them; lists and
  dialogues were made from an earlier state. Correct: what the colour of the editor
  promises is what Enter does; a stored filter comes back as it was.
* **Darkroom.** The same settings live in six copies, and the stages of earlier
  pictures are reused. Correct: all copies agree with the database, and the picture
  at rest is what the database's settings make of the photo.

## 2. Plan

Most important first. All of it is done but for the last point.

1. `AutoCache`, `AutoCacheProps` — the worker, its bank and its database;
   `CacheLedger` — the abstract promise of the cache database, which `AutoCache`
   implements; `AutoCacheProofs`.
2. `InterruptableReader`, and `OriginalFinder`, which composes two of them;
   `OriginalFinderProofs`.
3. `InterruptableAdjuster`, and `LiveAdjuster`, which composes it with the slide;
   `ThreadProofs`.
4. `Scanner`; `ScannerProofs`.
5. `Exporter`; `ExporterProofs`.
6. `CopyIn`, and `ImportJob`, which composes several of them with the collector;
   `ImportJobProofs`.
7. `Catalogue` (the queries), `Strips` (the tree over them) and `LightTable`, which
   composes both with the user, the scanner, starts and crashes.
8. `Tags`, `Filter`, and `Tagging`, which composes them with their dialogues;
   `TaggingProofs`.
9. `Adjustments`, `CropCalc`, `Geometry`, `Layers` (pure operators), `Adjuster` and
   `AllAdjuster` (the stages), `Controls` (the panel), and `Darkroom`, which composes
   them with `LiveAdjuster`'s event loop and the thread; `DarkroomProofs`.
10. `Database` — what all the others assume of the database; also in
    `ThreadProofs`.
11. Open: `Session` — the claim of a database by two processes; proofs of
    what the light table shows.

## 3. The modules

An action stands for the whole of what the code does between two points where
another thread can get in: a handler of an event loop, a stretch under a mutex, a
transaction. Operators whose comment starts with *Mutant of* are not part of the
model; they are the bugs that show that the properties can fail.

**AutoCache** (AutoCache.cpp, AC_Worker.cpp, IF_Bank.cpp, BasicCache.cpp). An image
is the generation of the settings it was computed from; a version's settings in the
database are `gen[v]`. `events` is the worker's event queue; `HandleRequest`,
`HandleEasy`, `HandleRecache`, `HandleModified`, `HandleFinder` and `HandleFound`
are its slots. `activateBank` loops over database reads that other threads'
writes may come between, so each iteration is a step (`SendToBank`, `SkipEntry`,
`SendDeleted`, …) and `pc` says whether the worker is inside. A `BasicCache` write
is part of the handler that makes it. `Quit`, `Kill` and `Boot` end and start the
process, and keep only the tables. `PurgeFromCache` and `DeleteVersion` are the two
steps of the purge in the main thread. `Poor` versions are those whose image is
smaller than wanted or cannot be read. **CacheLedger** says in four actions what the
tables do: edits, calls for new images, stores of images no older than the last
call, removals.

**InterruptableReader** (and its file and raw kinds). `rd[r]` holds the members of
one reader; the places of its thread are the stretches between releases of the
mutex. A file yields `Chunks` pieces; a raw reader's process may be killed with its
output incomplete (`cut`). **OriginalFinder** owns one of each kind and filters
their answers by the file it wants; `Provide` is its slot for their queued signals.

**InterruptableAdjuster** has an original, an order and a thread; `outbox` holds
what it has emitted and the event loop has not delivered. **LiveAdjuster** adds the
user (another version, an edit, a zoom, a visit to the grid), `SlideView::paintEvent`
and the offers to the cache. Images are tokens here: who may overtake whom.

**Scanner** has at most one photo per folder, a disk that changes by its own clock,
and both of the name caches of the code (`known` of the thread, `rev` of the
interface). Each transaction of `scanFolder` and `scanPhoto` is an action (`dropFolders` takes one
for the subfolders of each folder, the deepest first, and may be interrupted between
them); a statement that would violate a constraint is `Abort`, the end of the program, and
`Start` comes back with the tables as they are. The history `seen` says which
folders were listed since their last change; a listing for a row that was deleted
while its id waited in the thread's batch is not counted, since nothing is recorded
of it. `Above` and `Under`, what a path is in and what a row's deletion takes along,
are least closed sets. The constants are a finite tree (`TreeAssumption`), and
`None` is no row (`RowAssumption`).

**Exporter** has the thread's loop with its release of the mutex in `doExport`, and
the interface's calls at any moment. The thread holds a reference into the list;
once the list has grown under it (`moved`), what it records may be lost or crash.
Any export may fail, the same version's later too. `asked` and `owed` are histories of
requests; `dropped` are those that the end of an export drops though they were made
after it began, and `again`, in a job, the versions added once more after they had been
counted.

**CopyIn** has files as their contents: `dst[t]` is the source a file in the folder
came from. **ImportJob** adds the collector with both of its loops, over what it was
given (`Gather`) and over folders (`Collect`), the movies, which are copied only if
there is a place for them and of which the scanner is not told, the dialogue, the queued signals and
the deletion of the job and its threads. A copy may be started twice, by `authorize`
and by the collector's signal that is still queued; both run.

**Database** (Database.cpp) names each connection after its thread. `seen` are the
connections that have to go on seeing what they have read, because a select is open
(`open`) or a transaction under way (`begun`); `stale` are those of them to which
something newer was committed. A write on a stale connection fails whatever
`execWithRetry` does, and ends the program. `AddTree` and `ApplyClipboard` are the
two uses of transactions in the code that are out of line: the one begins it on the
scanner's connection and writes on another, the other asks for the mutex twice.
`MarkAllSeen` writes without it; `meddled` remembers that it did so in the middle of
another thread's scope. SQLite (`Writes`, `Ends`) is modelled from how the code uses
it.

**Catalogue** has the filter as a set of rows and the queries of `PhotoDB` over it.
**Strips** has every strip as an entry of `d.strips` under its key: an epoch, a
folder, or the slides of a folder itself. Its state is what the strip keeps: whether
it is open, what it holds, what it put off until it is seen (`latent`), and whether
it has asked to be converted. The rebuild after a filter change visits the strips in
the order of the code, since early returns make it matter. **LightTable** has the
tables and the strips in `desk`, the program's state in `app`, the signal for
conversions in `signal`, the lists of an open purge dialogue in `purge`. The actions
are the user's (`Press`, `HeaderPress`, `Arrow`, `ChangeFilter`, `SetLayout`,
`NewVersion`, …), the scanner's, and `Start`, `Stop`, `Crash`.

**Tags** has the tree, a function from ids to names and parents that its operators
take as an argument; what is applied; and the finding of a text, which is a list of
names, of which each is exact or a beginning. Names have a case, which the searches of
a text ignore and the searches under a given parent do not. What the code does by recursion over
a text or up the tree is a recursive function over the words or the ids. **Filter** the clauses, what they let
pass, their rows, and the dialogue as the values its boxes show and offer (models and lenses
only while they are few, `MaxListed`; no lens that is a number, `Numbers`);
**Tagging** the panel, its editor, the tag manager and both dialogues. It begins with
any of `Catalogues`, which `CataloguesAssumption` takes to be as the program leaves
them (`IsSound`): a tag is newer than its parent, siblings have different names (which may
differ in case only), the
root of collections is there, and rows refer to tags that are there.

**Adjustments** has the settings and their rows, and how sliders that share settings
make them of each other. **CropCalc** is the crop rectangle in whole pixels, with
the clamping, shifting and rounding of the code. **Layers** are the two tables.
**Adjuster** makes a picture of a history: the sequence of steps made so far, with
what went into each, so that two pictures are the same just if they were made in the
same way; its tiles are the stages it keeps. **AllAdjuster** has one adjuster per
layer and the members that say which of their inputs are valid. **Controls** are the
panel and the layer dialogue with what they take to be stored. The databases to
begin with are any whose layers are of the types of the code and stacked
(`IsDatabase`). **Darkroom** composes
all of these with `LiveAdjuster`, the thread, the outbox and the slide; `Reference`
is the picture made from the database's settings from scratch.

The `MC` modules give values to constants that a `.cfg` cannot express, and those of
the light table, tags and darkroom the databases that an earlier session has left.

## 4. The runs

| run | what it asks | bounds | kind |
|---|---|---|---|
| ac_recache | requests, batch edits and small offers against the finders: `SingleFlight`, `FreshOrPending` | 2 versions, 2 finders, batch 1, 1 image in memory, 1 edit per version, 2 events posted | safety |
| ac_crash | live edits, large offers, purges, quit and kill: `OutdatedIffQueued`, `ImplementsLedger` | the same, 1 event posted | safety, refinement |
| ac_browse | browsing over a backlog: `RequestAnswered`, `QueueDrains` | the same, no edits, one unreadable version | fair |
| original_finder | three versions over two readers: `ReadyIsGenuine`, `ProvidedIsOwn`, `CanceledIsNotAnnounced`, `EachRequestAnswered`, `StopsWhenTold` | 1 chunk, 1 queued answer, no return to a version | fair |
| live | `InterruptedIsDiscarded`, `SlideShowsOwn`, `RequestTakenUp` | 2 versions, 2 sizes, 1 edit each, returns and visits to the grid | fair |
| scanner | `OneTree`, `CaughtUp`, `QueuedIsScanned` | 3 nested folders, 1 row at a time, 1 change of the disk, 2 calls, 2 starts | fair |
| exporter | `ExportedAsAsked`, `OwedIsListed`, `ReportIsWhole`, `RestsOnlyWhenDone` | 2 versions, 2 settings, 2 jobs; any export may fail, and the list may move under the thread | safety |
| import | `DisposedIsCopied`, `CopiedIsScanned`, `EveryFileIsTried`, `AuthorizedEnds` | an image and two nested folders are given, with an image of the same name and a movie; any disposition, movies or not, 2 copies | fair |
| database | `StatementsSucceed` | 4 threads, nothing else | safety |
| lighttable | `ShowsFilter`, `MainSlideIsCurrent`, `ExpandedIsRecorded`, `NextIsNext`, `FilterKeepsCurrent`, `PurgeSparesTheKept` | 4 photos, 3 folders, 3 epochs, strips converted at 2 versions, 10 sessions to start from, 4 edits | safety |
| tagging | `NamesFindTags`, `EnterApplies`, `ReopensAsLeft` | 2 versions, 2 trees of tags with a name at two places and a collection that comes in two cases, 5 texts, 12 turns of controls, 6 steps | safety |
| darkroom | `EveryoneKnowsTheDatabase`, `PictureIsAsStored`, `LayersStacked`, `CropStaysInside` | 2 versions of one photo, 3 databases, up to 3 layers, 2 zooms, 2 actions of the user | safety |

All hold. Each run fires every action of its next-state relation or leaves it to
another run of the same module.

Some runs leave out what the code is known to get wrong, and some properties except it;
section 6 lists each case with what it breaks. To see one fail:

| change | what TLC finds violated |
|---|---|
| `"recache"` as the only member of `Ops` and `MaxGen = 1` in ac_browse | `QueueDrains` (AC_Worker.cpp:120) |
| `"back"` in the `Hasty` of original_finder | `EachRequestAnswered` (InterruptableReader.cpp:43) |
| `"report"`, or `"modify"`, in the `Hasty` of scanner | `QueuedIsScanned` (Scanner.cpp:199), or `CaughtUp` (:523) |
| `RestsOnlyWhenDone`, or `OwedIsListed`, without its exception | itself (Exporter.cpp:124, or :141) |
| `NamesFindTags` without `Respelt` | itself (Tags.cpp:423) |
| `StatementsSucceed` without its exception | itself (PhotoDB.cpp:748) |
| `PictureIsAsStored` without its exception | itself (AllAdjuster.cpp:125) |

**Why the bounds are enough for the cases meant.** In the cache two versions and
two finders let a version be recached while it, or the other, is in flight, and a
batch and a memory of one make every queue overflow; one edit gives each image an
older rival. Three folders in a line have a root, an inner folder and a leaf,
with cascades over two levels; two starts give a crash inside any step. Two jobs are
the least with one behind another. Two of three import files have one target, so a
second copy meets the first; nested folders make the collector lengthen its list
after it has shortened it. Two versions are enough for the exporter: one in hand and
one waiting, or the same one once more. `MaxEvents`, `MaxInbox`, `MaxOutbox`, `MaxAsks`,
`MaxEdits` and `MaxSteps` bound what the user does ahead of the program, never what
the program does. The database's state is finite without a bound; four threads
are the interface, the scanner and two more, so that two can meet while a third
holds the mutex.

In the light table four photos make an epoch of more than `Threshold` versions, which
has to be converted, beside one of fewer; one folder holds another, and photos of its
own. Four edits reach a crash, a restart, a change of the filter and a purge in one
behaviour. The viewport shows all strips, so lists are put off only by closed
parents. The scanner does not remove the photo that was added last or that of the
last version, since SQLite would give their numbers out again (section 6), and
removes nothing while the purge dialogue is open; capture dates do not change.
In the tag run one name is the beginning of another and one is at two places; a text
has at most one dot at its end. In the darkroom two actions of the user are
enough for each pair of handlers with a computation interrupted between them; the
user acts when the window has been painted, no image waits to be delivered, and the
thread waits or computes, and not (`"early"`, section 6) between the arrival of the
first original of a version and the moment when the thread takes it up; a
computation is cut short at most once. The original arrives at full or half size;
the crop sliders move by up to 5 of 60 by 40 pixels.

**Fairness.** Weak fairness of threads (the operating system schedules them) and of
slots for queued signals (the event loop delivers them) — nothing more; the scanner's
run also lets the interface thread finish a call it has begun, such as the lookups
of `addTree` and the wake-up after it. No fairness of a mutex is assumed: who
waits longest need not get it. The user, the disk and crashes are never fair. A step that releases a mutex and takes
it again is a step of its own. `CHECK_DEADLOCK FALSE` is set everywhere since all of
these programs may come to rest: the user does nothing, the program has ended, or
the bounds are used up.

**Exceptions.** Some behaviours of the code are known to break a property. Most are
actions or guards of the model like others, switched by the constant `Hasty` (`Ops`
in AutoCache), so that a run can ask what holds without them; in the modules of the
interface and in `Database` the property names its exception instead (`Darkroom` has
one of each). Each is listed
in section 6.

## 5. What is proved

TLAPS checks these for every value of the constants that satisfies the named
assumption of the module (finite sets where the code has finitely many rows or
threads; marks such as `None` that are not data).

| theorem | says | argument |
|---|---|---|
| `AutoCacheProofs!OutdatedIsQueued` | `Spec => []OutdatedIffQueued`, through every crash and restart | inductive as it stands: `Recache` marks and queues, `StoreLoaded` clears both, nothing else touches either |
| `AutoCacheProofs!TypeCorrect` | `Spec => []TypeOK` | part of `FlightInv` |
| `AutoCacheProofs!OneFlight` | `Spec => []SingleFlight` | `FlightInv`, below |
| `AutoCacheProofs!NothingStalePassesForFresh` | `Spec => []FreshOrPending`, under the same hypothesis as the next and if the process does not end (`Lasting`) | `FreshInv`, below |
| `AutoCacheProofs!WorkerKeepsTheLedger` | `Spec => ImplementsLedger`, if no large image is offered and every original is large enough (`Restricted`) | `LedgerInv`, below |
| `OriginalFinderProofs!OnlyGenuineIsReady` | `FinderSpec => []ReadyIsGenuine`, if no reader is destroyed while it works (`"quit" \notin Hasty`) | `FinderInv`, below |
| `OriginalFinderProofs!OnlyOwnIsProvided` | `FinderSpec => []ProvidedIsOwn`, under the same hypothesis | `FinderInv` |
| `OriginalFinderProofs!CanceledStaysSilent` | `FinderSpec => CanceledIsNotAnnounced`, under the same hypothesis | `FinderInv` |
| `ThreadProofs!NothingInterruptedIsShown` | `LiveSpec => []InterruptedIsDiscarded` | `LiveInv`, below |
| `ThreadProofs!EachSlideIsItsOwn` | `LiveSpec => []SlideShowsOwn` | `LiveInv` |
| `ScannerProofs!TablesAreSound`, `TypeCorrect` | `Spec => []TablesInv`: the foreign keys and the unique paths hold through every crash | `TablesInv` is inductive |
| `ScannerProofs!RowsFollowFolders` | `FreshSpec => []OneTree`, if nothing is excluded (`"exclude" \notin Hasty`) | `TreeInv`, below |
| `ScannerProofs!RestAgreesWithDisk` | `FreshSpec => []CaughtUp`, if moreover no photo is written while its metadata are read (`"modify" \notin Hasty`) | `SeenRight`, below |
| `ExporterProofs!SettingsAreKept` | `Spec => []ExportedAsAsked` | `ExportInv`, below |
| `ExporterProofs!RequestsStayListed` | `Spec => []OwedIsListed` | `ExportInv` |
| `ExporterProofs!JobsAreAccountedFor` | `Spec => ReportIsWhole`, with any export failing at any time | `ExportInv` with `ReportInv`, below |
| `ExporterProofs!WaitsOnlyForWork` | `Spec => []RestsOnlyWhenDone` | the same |
| `ImportJobProofs!NoSourceIsLost` | `Spec => []DisposedIsCopied` | `ImportInv`, below |
| `ImportJobProofs!NoFileIsPassedOver` | `Spec => []EveryFileIsTried` | `ListInv` and `TriedInv` with `JobInv`, below |
| `ImportJobProofs!CopiesAreAnnounced` | `Spec => []CopiedIsScanned` | `ImportInv` with `JobInv`, below |
| `DarkroomProofs!LayersStayStacked` | `Spec => []LayersStacked` | part of `KnownInv` |
| `DarkroomProofs!EveryoneIsTold` | `Spec => []EveryoneKnowsTheDatabase` | `KnownInv`, below |
| `DarkroomProofs!PlainPictureIsAsStored` | `Spec => [](~Layered => PictureIsAsStored)`, if `None` is no image and no original (`NoneIsNoData`) and the user does not act before the thread has taken up the first original (`"early" \notin Hasty`) | `PicInv`, below |
| `DarkroomProofs!LayeredPictureIsAsStored` | `Spec /\ []SizesAgree => []PictureIsAsStored`, under the same hypotheses, for any number of layers | `PicInv` |
| `ThreadProofs!NoStatementFails` | `Spec => []StatementsSucceed` of `Database`, for any number of threads | `IInv`, below |
| `TaggingProofs!TaggingInvariant` | `Spec => []Inv`: the tables stay sound, and panel, manager and dialogue list tags that are there | `Inv` is inductive, below |
| `TaggingProofs!EveryNameFindsItsTag` | `Spec => []NamesFindTags` | `Inv`; by descent from the qualified name's first word |
| `TaggingProofs!EnterAppliesWhatIsFound` | `Spec => EnterApplies`, for any texts | `Inv`; a new text makes a branch, below |
| `TaggingProofs!FilterReopensAsLeft` | `Spec => ReopensAsLeft`, for any controls and values | `Inv`; the rows stored have one value for each key |

**FlightInv.** `SingleFlight` says that a version is with at most one finder or in
one answer on its way, and that `beingLoaded` is exactly that. It is not inductive:
`SendToBank` sends what is ready and not invalidated, so one needs that a version
that is ready *again* while in flight is in `invalidated` (`ReadyAgainIsInvalidated`);
and that a finder's answer is handled before it gets another job, so that the
versions of two answers cannot coincide (`FindersAnswerOnce`). With the types of the
queue these three carry each other. The proof has one lemma per handler, and needs
one fact by induction on a finite set, `AutoCacheProofs!SetInduction`.

**LedgerInv.** The ledger lets the worker store only what is no older than the last
recache and than what is stored. So that must hold of whatever the worker has in
memory (`LoadedSound`) and of whatever a finder has or has answered, unless it is in
`invalidated` (`FlightSound`): a recache drops what is in memory or marks what is in
flight, and `storeLoaded` writes no other. It needs that a version is not in memory
and on its way at once, and this is where the two hypotheses come in: an image that
was offered, or one that is smaller than wanted, is kept while another is computed,
and a recache then does not drop it (section 6).

**FreshInv.** Of a version that is not deleted: what is stored and not outdated, what
is in memory, and what is in flight and not invalidated is fresh, which means that
it is of the present settings or that the worker is still to hear of the edit
(`Owing`: the recache or the offer is in the queue of events, or `LiveAdjuster` still
owes an image of the edit). When the worker hears of it, `Recache` and `HandleModified`
mark the row, drop what is in memory and invalidate what is in flight. `LedgerInv`
supplies that a version is not in memory and in flight at once, hence its hypothesis;
`Lasting` is needed since what the worker is yet to hear of dies with the process
(section 6).

**TreeInv.** A row whose path has a parent hangs from the row of that parent, if the
parent has one, and from no other; the thread's and the interface's caches give a
row its own path; what the thread has listed, or the interface is about to add, hangs
from the folder in hand. `Deleted` takes along all that is `Under` a row, and
induction over the finite tree of paths shows that this is every row of a path below
it. `FreshSpec` is `Spec` without the steps by which a new row gets an id that a
cache or a pending `addTree` still remembers. The code cannot promise that: SQLite
gives the id of the row deleted last to the next one, and the caches outlive rows.
If, say, a row is deleted and its id given to another folder while `addTree` of a subfolder
holds the id, that subfolder hangs from the wrong row (section 6); this needs four
folders, more than the run has.

**SeenRight.** What a listing found can only be compared with the tables place by
place in `scanFolder`. `RowRight` says of each folder that is `seen`: if it is the
one in hand, how far its rows are — photo dropped or not, subfolders dropped, added
— at this place of the scan (`Listed`); if not, that its rows are those of the disk
and its photo is recorded, queued or in hand (`Settled`). A row that was found and
vanished hangs from the folder until it is dropped (`FoundHangs`), so that dropping
it takes along nothing that was listed elsewhere and is still there. A photo whose
scan is no older than its file has that file's metadata (`DataRight`), which needs
that what was read is still the file when it is recorded: the hypothesis on
`"modify"`. The proof is where it was found that a folder's listing counts for
nothing when its row has gone.

**FinderInv.** Each reader is `Good`: a process is killed, and its output cut short,
only when the thread has a cancel or a new request to notice before it takes the
output (`CutIsUnwanted`); what it works on, and keeps, is the request in hand
(`WorksOnCurrent`); and its place tells whether it runs and whether a signal is due.
Each call and each section of the thread has a lemma. The hypothesis is needed since the destructor of the derived class deletes
the source under the thread.

**LiveInv.** Nothing but the thread resets what interrupts it, and whatever
interrupts it, or gives it another original, leaves an order or a cancel behind
(`InterruptionIsNoticed`), so that what it computed is discarded then. The id by
which the client knows the adjuster is that of the original it will use next
(`KnownByOriginal`); at the end of a computation that is not discarded this is the
original it has used. Every signal in the event loop therefore names the version its
image is of, and the slide takes those that name its own.

**ExportInv.** `ExportedAsAsked` needs that the thread's version is still listed in
the first job and that this job still has the settings the thread took (`InHand`):
`setup` renames only an empty last job, so never the one in hand. `ListOK` collects
what holds of a list of jobs — what is listed was asked for, what is owed is
listed, the last job has the current settings — and there is one lemma per
operation on a list: appending, renaming, replacing, dropping the head. `ReportInv`
adds that every version of a job is listed or counted, that one which is both listed and
counted, or counted as a success and as a failure, was added again after it had been
counted, and that there is one job only unless one was queued behind
another; a thread that waits has then left an empty list.

**ImportInv.** A source is disposed of only if it was copied, but its copy must
still be there then, and later. `CopiedIsThere` says that what any copier counts as
copied is in the folder; it survives because a name once taken is never written
again, by any copier, which is also why two copies of one job do no harm.

**JobInv.** A copier's signal is posted after it is done (`SignalsAreTrue`), the job
is complete only when it has taken that signal and told the scanner of the folder
(`OverIsTold`), and the collector posts its own once (`CollectedOnce`), so that at
most two copies are started (`StartsAreFew`).

**ListInv and TriedInv.** While the collector works, a folder that was given or is in one
that was listed has been listed itself or is still to be, and of each listed folder all
files are on the list (`FoundSoFar`). `CompleteIsTrue`: `complete_` is set only when
nothing is left to list, so whoever reads it, or hears the signal, has the whole list
(`Chosen`, the closure of what was given). `JobInv` supplies that a copy is started only
then, and `Tried` that a copier which has got past a file has copied it or counts it
as failed.

**KnownInv.** The controls, the dialogue and `LiveAdjuster` have what the database has
*of the version that they think is shown*, and all three think of the same one. It
needs that the layers stored are numbered without gaps (`IsSound`): deleting one
renumbers those above it, swapping two exchanges their rows, and what a copy finds
under its number afterwards is the row it had. `PhotosAssumption` says that the
databases to begin with are of this kind; nothing is assumed of sliders and sizes.
What the thread computes meanwhile does not matter.

**PicInv.** It has two halves. The first is about `Adjuster` and `AllAdjuster`, as
operators. The tiles of an adjuster are `TilesRight` for a content: each tile's image is
what its own settings make of the content, it has not been through the stages after its
own, and of two tiles the later comes from a later stage and agrees with the earlier in
all that the stages before the next tile's look at. `ApplyStage` then keeps or makes
right tiles, whether it reuses one, skips the stage or is interrupted before it
(`Done`, `AgreeUpTo`): hence what `RetrieveReduced` returns is what the settings asked for make of
the content, or nothing (`RetrievedRight`). Layers are climbed by induction
(`ClimbedTo`): as far as sizes agree, the image below the f-th layer is `UpTo` of f - 1.
`Reference`, `Climbed` and `UpTo` are recursive functions and are first shown to be
defined. The second half is about the thread, `LiveAdjuster` and the slide: the
AllAdjuster has right tiles for the original that the thread holds (`HeldRight`); what is
asked of the thread, and what it computes without its being discarded, is the version
shown with the settings it has now (`OrderRight`); what is announced for that version is
right (`SigsRight`); and the slide has the right picture or something is `Coming` to it:
an original is being read, or an order, a computation or a signal is under way while
`LiveAdjuster` still means to show it (`SlideIsRight`). Each action is a step on these with
states as parameters (`EditKeeps`, `DeliverKeeps`, …). `KnownInv` supplies that the settings
`LiveAdjuster` has are those of the database. The hypotheses are the two places where
the code falls short (section 6). `SizesAgree` holds in the instance of the run darkroom: TLC
confirms it when it is added to the invariants of `darkroom.cfg`, so that the
second theorem applies to all that this run visits.

**IInv of the database.** A write fails only on a connection that is bound to what
it has read. `ReadingInv` says when a connection is bound: while a select is open or
in a transaction; a thread that waits for the mutex has no select open.
`TransactionInv` says that a transaction is under way only for the holder of the
mutex. So when the mutex is free nobody who waits for it is bound (`FreeMutex`), and
while somebody holds it nobody else commits: the holder sees what is newest
(`FreshInv`), until something is written without the mutex. That `addTree` begins
its transaction on the connection of another thread does no harm since it only
writes on its own.

**Inv of the tags.** It says that the tables are sound (`IsSound`), and that what the
panel, the tag manager and the dialogue have listed are tags that are there: no action
undefines a tag, so lists that are out of date do no harm here. Siblings may differ in
case only: the searches under a parent compare names as they are, so what
`ensureCollection` inserts is new in that sense, and so is what `define` makes of a text,
which no name has in any case. That siblings have
different names is kept although `define` looks for `Paris.` as it is typed and stores
`Paris`, since it only comes to define what the text, without its dot, has not found.
The rest is about recursive functions. `Ancestors`, `Qualified`, `ChainFound` and
`Made` are first shown to be defined, by induction on the ids, of which a parent's is
the smaller, or on the length of the text (`SetInduction`, from the well-foundedness
of `<`). A qualified name begins with a name that one tag has, and each further word
is a child's, so the chain finds what it began with (`QualifiedBy`), as long as none of
its words is the name of a tag in another spelling too (`Respelt`), which
`NamesFindTags` excepts. What is made of a
new text is a `Branch`: each tag is new, under the one before, with a name that no
sibling has. Hence the chain finds exactly the branch, once no word before it has
come to find something else, which is what `TakesAway` is about (section 6).

**Only model-checked.** Liveness (`RequestAnswered`, `QueueDrains`,
`EachRequestAnswered`, `StopsWhenTold`, `RequestTakenUp`, `QueuedIsScanned`,
`AuthorizedEnds`), which is out of the prover's reach;
`ImplementsLedger` with large offers (run ac_crash). `ShowsFilter`,
`MainSlideIsCurrent`, `ExpandedIsRecorded` and the three action properties of the light
table: `Strips` rebuilds the tree of strips with recursive operators, which the prover
does not take. `PictureIsAsStored` with layers where sizes do not agree, where it is
false (section 6); with a base at its defaults the property does not ask it. `CropStaysInside` is not proved because it does
not hold for every picture: each click on an aspect ratio rounds down, and enough of
them shrink the rectangle to nothing; it is checked for the sizes of the run.
`FreshOrPending` is neither proved nor checked with large
offers, small originals or restarts, with which it may fail; `OneTree` and `CaughtUp`
neither with exclusions. That no id is used again while remembered is assumed by
their proofs; their run has no renames. `CaughtUp` is not about a folder that is scanned
under another's name, so it says nothing of what comes of such an id (section 6).

## 6. What is left out, and what was seen

### Not modelled

Pixels, colours, metadata and wording; file formats; time (timeouts are choices: a
thread told to stop stops, though the code gives up after 1 to 30 seconds); data
races on plain variables, except where they are a choice of outcomes in the model
(`Exporter`'s moved list, the static list of sizes of `AllAdjuster`); layout in
pixels, scrolling, drag and drop; the overlays on the slide, by which the points of
a layer are edited; rotation and perspective; the Heal button, which is hidden; the
claim of a database by one process; upgrades of old databases. Undo steps are left
out because `addUndoStep` does nothing in this version.

### Where the code does not do what it says

Each of these was met in a model; it is excluded from the passing runs, or excepted
by the property, as said.

* An image offered by the live adjuster for a version that is in flight is kept
  (AC_Worker.cpp:163). If the version was recached in flight (:86) the offered image
  is stored as up to date and leaves the queue, and the strip shows old settings
  until the next edit; AutoCache.h:38-40 promises otherwise. Large offers and
  recaches are never together in the `Ops` of a run. The same happens to an image in memory that
  is smaller than wanted: a request sends its version to a finder again, and a
  recache while that is in flight keeps the image (:78-84). ac_recache has no `Poor`
  versions.
* `InterruptableReader::request` compares the new request with the one in hand even
  if that is being canceled (InterruptableReader.cpp:43, against
  InterruptableReader.h:41-42): a user who leaves a version and comes back at once
  gets no image (`"back"`).
* `provideAdjusted` takes the first image that arrives after an edit for the edited
  one (LiveAdjuster.cpp:127, against LiveAdjuster.h:29-32). With the first original of a
  version this also leaves the slide with an old picture: the original arrives, and is
  requested with the settings of that moment; before the thread takes it up the user
  edits, and `forceUpdate`, to which the adjuster still looks empty (:93), only asks for
  the original once more; the image of the old request arrives, is shown, and resets
  `mustshowupdate`, so that the image of the edited settings is not shown when it comes. TLC finds
  this in `Darkroom` with `Hasty = {"early"}` and three actions of the user.
* A layer over a base can lose the base: `applyNeedBasedScaling` scales an original if that
  makes it smaller than 4/5 (Adjuster.cpp:90-119), and it may do so for the input of a layer though
  not for the base; `applyMask` then finds two sizes, complains, and returns the layer alone
  (AllAdjuster.cpp:194-209). Found by TLC with a window of 47 by 31 and a crop by 2 and 1
  pixels; the run darkroom has sizes that agree, and the theorem has the
  hypothesis `SizesAgree`.
* `scanFolder` looks up leaf names in a set of full pathnames (Scanner.cpp:355,
  against Scanner.h:36-38): nothing is ever excluded (`"exclude"`).
* When all that is ready in the image cache is in flight and invalidated, `activateBank`
  forgets it (AC_Worker.cpp:120-122, against AC_Worker.cpp:106), and it waits for the
  next call or start: `QueueDrains` is asked without recaches in ac_browse.
* A rescan that is asked for during `reportScanDone` is lost until the next
  (Scanner.cpp:199, against Scanner.h:56; `"report"`).
* A photo written while its metadata are read counts as scanned (Scanner.cpp:523, against
  Scanner.h:56; `"modify"`).
* `AllAdjuster` compares the settings of a request with those of the last one to find
  the layers whose input it can keep, but only `retrieveFull` stores them
  (AllAdjuster.cpp:90, 125, against AllAdjuster.h:54 and Adjuster.h:69-70). With a
  layer over a base at its defaults, the slide shows a picture that is not of the
  database's settings: `PictureIsAsStored` excepts this. With two layers the list of
  the last request is read beyond its end, which ends the program.
* The tag `:Name`, which `smartName` gives for a root whose name occurs elsewhere, is
  found as the others and never as the root (Tags.cpp:260, against Tags.h:28).
* `findCollection` compares tags with case (Tags.cpp:423-425, against Tags.h:16), since
  `collate nocase` binds to the last operand only; so do `find`, `findRoot` and the test for a name
  that is unique (:175-186, :265-270). Scanning with the collection `work` beside `Work`
  makes a second one, and the name under which the one is shown finds
  both; `NamesFindTags` excepts names that another tag has in another
  spelling (`Respelt`).
* `markAllSeen` writes without the mutex (PhotoDB.cpp:748): if another thread's
  transaction has read but not written, its next write fails and ends the program.
  `StatementsSucceed` excepts this; without the exception TLC finds it in six steps.
  organization.rst:12 has photos become undecided when they are first viewed; the
  code does it for all of them at an import.
* `SliderClipboard::apply` holds a transaction and calls `writeToDB`, which asks for
  the same mutex, which is not recursive (SliderClipboard.cpp:184-188): applying the
  clipboard to any selection hangs the program, in `Database` with the thread waiting for itself for ever;
  in `Darkroom` the program ends there.
* `addTree` begins a transaction on the scanner's connection and writes on the
  interface's (Scanner.cpp:62-65): its two statements are not one transaction.
* `bestSize` (BasicCache.cpp:241-275) may return a size larger than the smallest
  that suffices, which BasicCache.h:60-67 promises.
* `cancel` of a copy removes nothing (CopyIn.cpp:86 captures the list while it is
  empty; CopyIn.h:65 says that it deletes what was copied).
* Sources are moved away or deleted although other files failed (CopyIn.cpp:141, against
  CopyIn.h:45).

### What else was seen

* Image cache: a version once hushed is never
  unhushed (:172), so a later request stays unanswered; a version purged while
  queued fails an assertion (:268); a purge may be undone by an image that is still
  in memory (AutoCache.cpp:79); an edit whose image has not been offered when
  the program ends leaves the old image in the tables, marked up to date; `boot` runs in the main thread on an object that
  lives in another (:39); `loadedmemsize` is decreased for what was never added.
* Readers: the derived destructor deletes the source before the base class stops
  the thread (InterruptableFileReader.cpp:13); `provide` filters by file, not by
  size.
* Live adjustment: after `clear` the dropped original's size is still reported
  (InterruptableAdjuster.cpp:91), so that a return to the same version may yield a
  null image, which `LightTable` does not show (LightTable.cpp:394; `UpdateAdjusted`); a visit
  to the grid leaves `LiveAdjuster.version` at 0. `Darkroom` leaves the check for a null image
  out: there is one only before the first image of a version.
* Scanner: the thread's name cache outlives rows whose ids SQLite gives out again (`"rename"`), and
  so does the id of the parent that `addTree` has looked up; a folder whose row is
  deleted while its id waits in the thread's batch is listed for nothing; a queued
  photo that vanished, or is purged (`"purge"`), ends the program at a foreign key,
  and again at the next start.
* Exporter: after each job the thread waits without looking for the next (:124), so
  a job listed behind another stays until the next call, which `RestsOnlyWhenDone`
  excepts; a version that is added again while it is exported is taken off the list at
  the end of that export, which read the adjustments before (:141, :162), and
  `OwedIsListed` excepts this request (`dropped`); one that is added again after it was
  exported and fails this time, or the other way round, is reported as both (:131-141),
  which `ReportIsWhole` allows of such versions only (`again`); the reference into the list outlives the mutex (:119); a version purged
  while it is listed ends the program (:160).
* Import: the destructor aborts
  the program if a copy takes more than ten seconds to notice (CopyIn.cpp:20); the scanner
  is never told of the folder for movies; folders that link to each other in a circle keep
  the collector busy for ever (the model has a finite tree).
* Strips: a strip rebuilt out of view keeps its old list if it is closed again before
  it is seen (Slidestrip.cpp:180); a folder's own strip is built once and shares its
  row in `expandedfolders` with the folder; rows of strips that are gone stay; arrows
  move among the hidden slides of a closed strip; `addDateRange` by scale reaches two
  seconds too far; `countInTree("/")` counts the root only.
* Light table: the constructor selects the current version even if the filter does
  not pass it (LightTable.cpp:103); a rescan may leave it outside; toggling a folder
  that is wholly selected is a statement SQLite refuses (Selection.cpp:177), which
  ends the program; purging the current version tells nobody, and a version that
  later gets its number becomes current silently, with the main slide empty —
  `MainSlideIsCurrent` excepts an unselected current version; `newVersion` without a
  current version fails an assertion; it copies adjustments and tags but not layers;
  a change of dates does not rebuild the strips.
* Tags and filter: the tag manager is always read-only, since a window is passed for
  the flag (AppliedTagList.cpp:22), so tags are never undefined; a text that ends in two dots defines a new tag each
  time, and one that ends in a colon defines an empty name; a text such as `Pa:Pa`, where
  the first word abbreviates an existing `Paris`, defines a tag whose own name takes the
  abbreviation away, so that the same text finds nothing afterwards — `EnterApplies`
  excepts this (`TakesAway`), and TLC finds it without the exception; the bounds of the star
  filter are exclusive (Filter.cpp:196); a filter by a subfolder is not shown when
  the dialogue reopens, and OK then widens it; a space at the end of a tag in the dialogue, which would make it exact, is lost
  (Filter.cpp:108-113), so such texts are left out; names are compared without case by SQLite
  for ASCII only, and names with other letters are left out; Reset stores the default without
  telling the light table; the header of a strip, select-all and a press on the
  background do not refresh the list of tags.
* Darkroom: with a free aspect the sliders of the corners still use the calculator's;
  a slider that keeps an aspect may push the other edge out of the picture when the
  length that follows is clamped (CropCalc.cpp:194-206) — `CropStaysInside` excepts
  both; `flipIfNeeded` compares a height with itself; `startJog` out of range leaves
  `jogging` set; clone layers ignore adjustments, and are applied even if hidden;
  `AllAdjustments::isDefault` and `writeToDB` leave out layers; the local-contrast
  sliders are never pasted.
* Elsewhere: the claim of a database by process id is a race (Session.cpp:88, which
  says so); the statement of `PhotoDB::hasSiblings`, which nothing calls, is not
  valid SQL.
