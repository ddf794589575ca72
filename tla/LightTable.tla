----------------------------- MODULE LightTable -----------------------------
(* The light table in the main thread: what the user does to the strips, the  *)
(* selection, the filter and the layout, what the scanner thread adds to the  *)
(* catalogue behind its back, and starting, stopping and crashing.            *)
EXTENDS Strips

CONSTANTS
    Photos,         \* photos that the scanner may find
    Statuses,       \* values of acceptreject
    Wanted,         \* the sets of statuses the user filters by
    Default,        \* the filter that an empty table of settings stands for
    Layouts,        \* layouts the user chooses
    MaxEdits        \* bound on what the user and the scanner do

VARIABLES
    desk,           \* the tables of catalogue and session, and the strips
    app,            \* "off", "starting" (in the constructor) or "on"
    signal,         \* updatedBatch has been emitted and not been delivered
    purge,          \* what the dialogue to purge rejects has on its lists
    edits           \* actions taken, bounded by MaxEdits

vars == <<desk, app, signal, purge, edits>>

-----------------------------------------------------------------------------
(* The current version and the selection.                                     *)
HasSlide(d) == d.layout # "FullGrid"
UpdateMainSlide(d) == [d EXCEPT !.shown = IF HasSlide(d) THEN Current(d) ELSE 0]

\* The slides of the old and the new version are looked up to be repainted.
MakeCurrent(d, i) ==
    IF i = Current(d) THEN d
    ELSE UpdateMainSlide(FoldLeft(Touch, [d EXCEPT !.current = i], <<Current(d), i>>))

\* Up to ten slides are looked up one by one.
TouchAll(d, vs) == FoldLeft(Touch, d, SetToSeq(vs))
SimpleSelection(d, i, keep) ==
    LET kept == i = 0 \/ (keep /\ i \in d.selection)
    IN IF keep /\ i = Current(d) THEN d
       ELSE MakeCurrent(IF kept THEN d
                        ELSE [TouchAll(d, d.selection) EXCEPT !.selection = {i}], i)
ClearSelection(d) ==
    IF Current(d) # 0 THEN SimpleSelection(d, Current(d), FALSE)
    ELSE [TouchAll(d, d.selection) EXCEPT !.selection = {}]

ToggleSelection(d, i) ==
    CASE i \notin d.selection -> MakeCurrent(Select(d, {i}), i)
      [] i \in d.selection /\ i = Current(d) -> MakeCurrent(Deselect(d, {i}), 0)
      [] OTHER -> Touch(Deselect(d, {i}), i)

\* From the former current version to the one pressed, by date or by folder.
Between(d, u, v) ==
    LET a == DateOfVersion(d, u)  f == FolderOfVersion(d, u)
        b == DateOfVersion(d, v)  g == FolderOfVersion(d, v)
    IN CASE ~d.byFolder \/ f = g -> DateRange(d, Min({a, b}), Max({a, b}))
         [] d.byFolder /\ Rank(f) < Rank(g) -> FolderRange(d, f, a, g, b)
         [] d.byFolder /\ Rank(g) < Rank(f) -> FolderRange(d, g, b, f, a)
ExtendSelection(d, i) ==
    LET from == IF Current(d) = 0 THEN i ELSE Current(d)
    IN Select(MakeCurrent(d, i), Between(d, from, i))

SlidePress(d, i, modifier) ==
    CASE modifier = "ctrl"  -> ToggleSelection(d, i)
      [] modifier = "shift" -> ExtendSelection(d, i)
      [] modifier = "none"  -> SimpleSelection(d, i, TRUE)

\* Control and a press on the header of a strip; the range of an epoch ends two
\* seconds late.  All of a folder cannot be deselected: see DropTree.
InStrip(d, key) == VersionsOf(IF key[1] = "date" THEN Listed(d, key) ELSE InTree(d, key[2]))
AllSelected(d, key) == InStrip(d, key) \subseteq d.selection
Reach(d, key) ==
    IF key[1] = "date" THEN DateRange(d, key[2], EndFor(key[2], key[3]) + 1)
    ELSE InStrip(d, key)
ToggleStrip(d, key) ==
    CASE InStrip(d, key) = {} -> d
      [] InStrip(d, key) # {} /\ AllSelected(d, key) -> Deselect(d, Reach(d, key))
      [] OTHER -> Select(d, Reach(d, key))

HeaderPress(d, key, modifier) ==
    CASE modifier = "none"  -> IF d.strips[key].open THEN Collapse(d, key) ELSE Expand(d, key)
      [] modifier = "shift" -> ExpandAll(d, key)
      [] modifier = "ctrl"  -> ToggleStrip(d, key)

-----------------------------------------------------------------------------
(* The filter, the organization and the layout.                               *)
Row(d, v) == [version |-> v, photo |-> d.versions[v].photo]
ApplyFilterSettings(d) ==
    LET rows == {Row(d, v) : v \in {u \in DOMAIN d.versions : d.versions[u].status \in d.wanted}}
    IN [d EXCEPT !.filter = rows, !.selection = @ \cap VersionsOf(rows)]
RescanStrips(d) == Rebuild(d, Top(d))
Rescan(d) == RescanStrips(ApplyFilterSettings(d))
ScrollToCurrent(d) == Touch(d, Current(d))

Distance(u, v) == IF u < v THEN v - u ELSE u - v
\* Mutant of Nearest: the first of the filter, whatever was current.
NearestFirst(d, v) ==
    {IF d.filter = {} THEN 0 ELSE Min(VersionsOf(d.filter))}
Nearest(d, v) ==
    LET shown == VersionsOf(d.filter)
    IN IF shown = {} THEN {0}
       ELSE {u \in shown : \A w \in shown : Distance(u, v) <= Distance(w, v)}
\* Settings come from the dialogue or from a click on a datum of the image.
NewFilter(d, wanted) == Rescan(SlidePress([d EXCEPT !.wanted = wanted], 0, "none"))
SelectInFilter(d, v) == ScrollToCurrent(SlidePress(d, v, "none"))

ArrangementOf(layout) ==
    CASE layout = "HLine" -> "Horizontal"
      [] layout = "VLine" -> "Vertical"
      [] layout \in {"FullGrid", "HGrid", "VGrid"} -> "Grid"
\* Mutant of EnsureSlideShown: the slide is shown as it was when it was hidden.
EnsureSlideStale(d) == d
EnsureSlideShown(d) ==
    IF HasSlide(d) /\ d.shown # Current(d) THEN UpdateMainSlide(d) ELSE d
SetLayout(d, layout) ==
    LET full == layout = "FullPhoto"
        d1 == IF full THEN d ELSE Arrange(d, ArrangementOf(layout))
        d2 == EnsureSlideShown([d1 EXCEPT !.layout = layout])
    IN IF full THEN d2 ELSE ScrollToCurrent(d2)
ToggleOrganization(d) ==
    ScrollToCurrent(RescanStrips(Arrange([d EXCEPT !.byFolder = ~@], d.arr)))

-----------------------------------------------------------------------------
(* Starting and stopping.                                                     *)
\* A row of the table starting was left by a constructor that never returned.
Forget(d) == [d EXCEPT !.current = 0, !.expanded = {}, !.wanted = Default]
Start(d) ==
    LET d1 == IF d.starting THEN Forget(d) ELSE d
        d2 == ApplyFilterSettings([d1 EXCEPT !.starting = TRUE, !.arr = "Grid"])
    IN SetLayout(BuildStrips(d2), "VGrid")

BootBegin ==
    /\ app = "off" /\ app' = "starting"
    /\ desk' = Start(desk)
    /\ UNCHANGED <<signal, purge, edits>>

\* The version that was current is selected even if the filter has lost it.
BootEnd ==
    /\ app = "starting" /\ app' = "on"
    /\ LET c == Current(desk)
           done == [desk EXCEPT !.starting = FALSE]
       IN \/ c = 0 /\ desk' = done
          \/ c # 0 /\ \E u \in Nearest(desk, c) : desk' = Select(SlidePress(done, u, "none"), {c})
    /\ UNCHANGED <<signal, purge, edits>>

\* What is not in a table of the databases is gone; M.filter is in memory.
Off(d) ==
    [d EXCEPT !.strips = <<>>, !.overfilled = <<>>, !.filter = {}, !.shown = 0,
              !.byFolder = FALSE, !.layout = "VGrid", !.arr = "Grid"]
Stop ==
    /\ app # "off" /\ app' = "off"
    /\ edits < MaxEdits /\ edits' = edits + 1
    /\ desk' = Off(desk) /\ signal' = FALSE /\ purge' = <<>>

-----------------------------------------------------------------------------
(* Events of the main loop.  A strip is painted and converted before the user *)
(* acts on it: the view shows all of them and the user waits for it.          *)
Repaint ==
    /\ app = "on" /\ Unpainted(desk) # {}
    /\ desk' = FoldLeft(Paint, desk, SetToSeq(Unpainted(desk)))
    /\ UNCHANGED <<app, signal, purge, edits>>

Convert ==
    /\ app = "on" /\ desk.overfilled # <<>>
    /\ desk' = ConvertStrip([desk EXCEPT !.overfilled = Tail(@)], Head(desk.overfilled))
    /\ UNCHANGED <<app, signal, purge, edits>>

Seen == app = "on" /\ desk.overfilled = <<>> /\ Unpainted(desk) = {}
Acts(d) ==
    /\ edits < MaxEdits /\ edits' = edits + 1
    /\ desk' = d
    /\ UNCHANGED <<app, signal, purge>>

ShownSlides(d) ==
    UNION {Range(d.strips[k].slides) : k \in {j \in Visible(d, Top(d)) : d.strips[j].open}}
Headers(d) == Visible(d, Top(d)) \ {Top(d)}

\* A slide may be left of a version that is gone; no range is taken to it.
PressSlide ==
    \E v \in ShownSlides(desk), m \in {"none", "ctrl", "shift"} :
        /\ m = "shift" => v \in DOMAIN desk.versions
        /\ Acts(SlidePress(desk, v, m))
PressBackground == Acts(ClearSelection(desk))
SelectAll == Acts(Select(desk, VersionsOf(desk.filter)))
PressHeader ==
    \E key \in Headers(desk), m \in {"none", "shift", "ctrl"} :
        /\ m = "ctrl" => key[1] = "date" \/ ~AllSelected(desk, key)
        /\ Acts(HeaderPress(desk, key, m))

Moved(dir) == VersionAt(desk, Top(desk), Current(desk), dir)
Arrow(dir) ==
    /\ Current(desk) # 0
    /\ \E v \in {Moved(dir)} \ {0} : Acts(SlidePress(desk, v, "none"))
\* The current version is forgotten to make select scroll to it.
Center ==
    /\ Current(desk) # 0
    /\ Acts(SlidePress([desk EXCEPT !.current = 0], Current(desk), "none"))

ChangeFilter ==
    \E w \in Wanted :
        LET d == NewFilter(desk, w)
        IN \E u \in Nearest(d, Current(desk)) : Acts(SelectInFilter(d, u))
ChangeLayout == \E l \in Layouts : Acts(SetLayout(desk, l))
ToggleOrg == Acts(ToggleOrganization(desk))

-----------------------------------------------------------------------------
(* Edits of versions.                                                         *)
\* The bar of labels marks all that is selected; the filter is left alone.
Mark ==
    \E status \in Statuses :
        Acts(TouchAll(SetStatus(desk, desk.selection, status), desk.selection))

\* The slides turn; the main slide is emptied and asked for anew.
Rotate ==
    LET away == IF Current(desk) \in desk.selection THEN MakeCurrent(desk, 0) ELSE desk
    IN Acts(MakeCurrent(away, Current(desk)))

Duplicate ==
    /\ Current(desk) # 0
    /\ Acts(Rescan(NewVersion(desk, Current(desk))))
\* Without a current version an assertion fails; a folder of which all is
\* selected is deselected by a statement that SQLite refuses.
Abort ==
    /\ edits < MaxEdits
    /\ \/ Current(desk) = 0
       \/ \E key \in Headers(desk) :
              key[1] # "date" /\ InStrip(desk, key) # {} /\ AllSelected(desk, key)
    /\ Stop

\* The lists are made when the dialogue opens and used when it is closed.
PurgeOpen ==
    /\ edits < MaxEdits /\ edits' = edits + 1
    /\ \E lists \in {PurgeLists(desk)} :
          /\ lists.photos \cup lists.orphans \cup lists.withSiblings # {}
          /\ purge' = <<lists>>
    /\ UNCHANGED <<desk, app, signal>>
\* What may be ticked: to purge photos too, to delete their files, and the
\* files of photos without versions.  The files are those that can be deleted.
Ticks == SUBSET {"photos", "files", "old"}
Purged(d, lists, ticked) ==
    LET d1 == DeleteVersions(d, lists.withSiblings)
        d2 == DeleteVersions(d1, lists.withoutSiblings)
        d3 == IF "files" \in ticked THEN DeletePhotos(d2, lists.photos) ELSE d2
    IN CASE "photos" \notin ticked -> d1
         [] "photos" \in ticked /\ "old" \notin ticked -> d3
         [] {"photos", "old"} \subseteq ticked -> DeletePhotos(d3, lists.orphans)
Restored(d, photos, status) ==
    LET add(e, p) == AddVersion(e, p, status) IN FoldLeft(add, d, SetToSortSeq(photos, <))
\* The user purges, restores what has no versions, or cancels.
Decided(d, lists, choice) ==
    CASE choice \in Ticks -> Purged(d, lists, choice)
      [] choice = {"restore"} -> Restored(d, lists.orphans, "undecided")
      [] choice = {"restore as rejected"} -> Restored(d, lists.orphans, "rejected")
      [] choice = {"cancel"} -> d
PurgeClose ==
    /\ app = "on" /\ purge # <<>> /\ purge' = <<>>
    /\ \E choice \in Ticks \cup {{"restore"}, {"restore as rejected"}, {"cancel"}} :
          desk' = Rescan(Decided(desk, purge[1], choice))
    /\ UNCHANGED <<app, signal, edits>>

-----------------------------------------------------------------------------
(* The scanner thread commits a batch and then emits updatedBatch, which the  *)
(* main loop delivers later; a photo that has gone is not reported.  The last *)
(* photo and the last version do not go: SQLite would reuse their numbers.    *)
LastOnes(d) == {Max({0} \cup d.photos), d.versions[Max(DOMAIN d.versions)].photo}
Scan ==
    /\ app = "on" /\ edits < MaxEdits /\ edits' = edits + 1
    /\ \/ /\ \E p \in {q \in Photos : q > Max({0} \cup desk.photos)} :
                desk' = AddVersion([desk EXCEPT !.photos = @ \cup {p}], p, "undecided")
          /\ signal' = TRUE
       \/ /\ purge = <<>> /\ DOMAIN desk.versions # {}
          /\ \E p \in desk.photos \ LastOnes(desk) : desk' = DeletePhotos(desk, {p})
          /\ UNCHANGED signal
    /\ UNCHANGED <<app, purge>>

UpdatedBatch ==
    /\ app = "on" /\ signal /\ signal' = FALSE
    /\ desk' = Rescan(desk)
    /\ UNCHANGED <<app, purge, edits>>

-----------------------------------------------------------------------------
NewDesk(photos, versions, byDefault) ==
    [photos |-> photos, versions |-> versions, filter |-> {}, wanted |-> byDefault,
     selection |-> {}, current |-> 0, expanded |-> {}, strips |-> <<>>, overfilled |-> <<>>,
     arr |-> "Grid", byFolder |-> FALSE, layout |-> "VGrid", shown |-> 0, starting |-> FALSE]

UserActs ==
    \/ PressSlide \/ PressBackground \/ SelectAll \/ PressHeader \/ Center
    \/ \E dir \in {"left", "right", "up", "down"} : Arrow(dir)
    \/ ChangeFilter \/ ChangeLayout \/ ToggleOrg
    \/ Mark \/ Rotate \/ Duplicate \/ Abort \/ PurgeOpen
Next ==
    \/ BootBegin \/ BootEnd \/ Stop \/ Repaint \/ Convert
    \/ Seen /\ purge = <<>> /\ UserActs
    \/ PurgeClose \/ Scan \/ UpdatedBatch

-----------------------------------------------------------------------------
(* Properties.                                                                *)
Contents(s) == IF s.latent THEN s.coming ELSE s.slides
ByDate == app = "on" /\ ~desk.byFolder /\ desk.overfilled = <<>>
Open(d) == {k \in Visible(d, Top(d)) : d.strips[k].open}
Closed(d) == Visible(d, Top(d)) \ Open(d)
Lists(d) == {k \in Open(d) : d.strips[k].list}
OfEpoch(d, key) == {row \in d.filter : Covers(key, Date(row))}

\* What the strips show by date is the filter: every open strip of slides has
\* the versions of its epoch in order of date, with none that the filter lacks
\* and all of it that exist; a version in no such strip is of an epoch that is
\* collapsed; and the image of a collapsed strip is a version of that epoch.
ShowsFilter ==
    ByDate =>
        /\ \A k \in Lists(desk) :
              LET c == Contents(desk.strips[k]) IN
              /\ VersionsOf(Listed(desk, k)) \subseteq Range(c)
              /\ \E rows \in SUBSET OfEpoch(desk, k) : c = VersionsInOrder(rows)
        /\ \A row \in JoinedRows(desk) :
              \E k \in Lists(desk) \cup Closed(desk) : Covers(k, Date(row))
        /\ \A k \in Closed(desk) :
              desk.strips[k].header \in {0} \cup VersionsOf(OfEpoch(desk, k))

\* From a slide that is shown, an arrow along the arrangement goes to its
\* neighbour among all slides that are shown, whatever strips lie between.
RECURSIVE InOrder(_, _)
InOrder(d, key) ==
    LET s == d.strips[key] IN
    CASE ~s.open -> <<>>
      [] s.open /\ s.list -> s.slides
      [] s.open /\ ~s.list -> FlattenSeq([i \in DOMAIN s.kids |-> InOrder(d, s.kids[i])])
NextIsNext ==
    [][\A dir \in Along(desk) :
          desk'.current # desk.current /\ Seen /\ Arrow(dir)
              /\ Current(desk) \in ShownSlides(desk) =>
              LET s == InOrder(desk, Top(desk))
                  i == IndexOf(s, Current(desk))
              IN desk'.current = s[IF Back(dir) THEN i - 1 ELSE i + 1]]_vars

\* The main slide, and with it the sliders' live adjuster, is of the current
\* version whenever it can be seen and there is one.  (One that is not selected
\* may have got the number of a current one that was purged: none is shown.)
MainSlideIsCurrent ==
    app = "on" /\ HasSlide(desk) =>
        \/ desk.shown = Current(desk)
        \/ Current(desk) \notin desk.selection /\ desk.shown \notin DOMAIN desk.versions

\* A change of the filter keeps the current version and the rest of a selection
\* it is part of if the new filter has it, and else goes to one that it has.
FilterKeepsCurrent ==
    [][app' = "on" /\ desk'.wanted # desk.wanted =>
          LET kept == VersionsOf(desk'.filter)
              cur == Current(desk)
          IN /\ Current(desk') \in kept \/ kept = {}
             /\ cur \in kept => Current(desk') = cur
             /\ cur \in kept \cap desk.selection => desk'.selection = desk.selection \cap kept]_vars

\* Every epoch that is open is recorded, so that a restart opens it again.
ExpandedIsRecorded ==
    app = "on" => \A k \in DOMAIN desk.strips :
        k[1] = "date" /\ desk.strips[k].open => k \in desk.expanded

\* Purging takes no version that is not a reject, whatever was scanned while
\* the dialogue was open, and leaves every other version its photo.
PurgeSparesTheKept ==
    [][app' = "on" /\ purge' # purge => \A v \in DOMAIN desk.versions :
          desk.versions[v].status # "rejected" =>
              /\ v \in DOMAIN desk'.versions /\ desk'.versions[v] = desk.versions[v]
              /\ desk.versions[v].photo \in desk'.photos]_vars
=============================================================================
