---------------------------- MODULE LiveAdjuster ----------------------------
(***************************************************************************)
(* LiveAdjuster and the slide it serves: SlideView asks for the image of   *)
(* the version shown; LiveAdjuster finds the original through              *)
(* OriginalFinder, lets InterruptableAdjuster apply the current settings,  *)
(* and passes the result on to the slide and, after an edit, to the cache. *)
(*                                                                         *)
(* OriginalFinder is abstracted to what it promises its client: the        *)
(* original last asked for arrives, unless its file cannot be read.  What  *)
(* the cache has for the slide is left out.                                *)
(***************************************************************************)
EXTENDS InterruptableAdjuster

CONSTANTS
  Readable,    \* the versions whose file can be read
  Hasty,       \* what else the user does: "back" to a version whose original
               \* was dropped, "grid" to hide the slide and show it again
  MaxOutbox    \* bound on the ready signals that wait when the user acts

ASSUME LiveAssumption ==
  Readable \subseteq Versions /\ Hasty \subseteq {"back", "grid"} /\ MaxOutbox \in Nat

VARIABLES
  gen,         \* gen[v]: generation of v's settings in the database
  live,        \* the members of LiveAdjuster
  wanted,      \* the original last asked of the OriginalFinder
  slide,       \* the members of SlideView
  offered      \* history: the last image offered to the cache since the last
               \* edit or change of version

liveVars == <<gen, live, wanted, slide, offered>>
allVars == <<adjVars, liveVars>>

LiveStates ==
  [version : Versions \cup {None}, target : Sizes \cup {None}, known : Gens,
   mustshow : BOOLEAN, mustoffer : BOOLEAN, edited : BOOLEAN]

SlideStates ==
  [vsn : Versions \cup {None}, img : Images \cup {None}, desired : Sizes,
   lastSize : Sizes \cup {None}, visible : BOOLEAN]

LiveInit ==
  /\ AdjusterInit
  /\ gen = [v \in Versions |-> 0]
  /\ live = [version |-> None, target |-> None, known |-> 0, mustshow |-> FALSE,
             mustoffer |-> FALSE, edited |-> FALSE]
  /\ wanted = None
  /\ slide = [vsn |-> None, img |-> None, desired |-> 1, lastSize |-> None,
              visible |-> TRUE]
  /\ offered = None

Order(l, size) == [id |-> l.version, gen |-> l.known, size |-> size]
Want(v, size) == wanted' = [v |-> v, size |-> size]

\* The user acts while the event loop is not too far behind.
UserActs == Len(outbox) <= MaxOutbox

-----------------------------------------------------------------------------
(* The user *)

\* LightTable::updateMainSlide: markVersionAndSize and SlideView::newImage.
ShowVersion(v) ==
  /\ UserActs /\ slide.visible /\ v # slide.vsn
  /\ "back" \in Hasty \/ adj.oId # v
  /\ live' = [live EXCEPT !.version = v, !.target = Full, !.known = gen[v],
                          !.mustshow = TRUE, !.edited = FALSE]
  /\ adj' = IF v = live.version THEN adj ELSE Cleared(adj)
  /\ slide' = [slide EXCEPT !.vsn = v, !.img = None, !.lastSize = None]
  /\ offered' = None
  /\ UNCHANGED <<outbox, gen, wanted>>

\* forceUpdate, given the new settings.
ForcedUpdate(l) ==
  /\ live' = [l EXCEPT !.mustshow = TRUE, !.mustoffer = TRUE, !.edited = TRUE]
  /\ \/ adj.empty /\ Want(l.version, l.target) /\ UNCHANGED adj
     \/ ~adj.empty /\ adj' = Ordered(adj, Order(l, l.target)) /\ UNCHANGED wanted

\* A slider or a layer changes: the database is written, then reloadSliders or
\* reloadLayers is called.
Edit ==
  /\ UserActs /\ slide.vsn # None /\ gen[slide.vsn] < MaxGen
  /\ gen' = [gen EXCEPT ![slide.vsn] = @ + 1]
  /\ \/ /\ live.version = slide.vsn
        /\ ForcedUpdate([live EXCEPT !.known = gen'[slide.vsn]])
        /\ offered' = None
     \/ /\ live.version # slide.vsn
        /\ UNCHANGED <<live, adj, wanted, offered>>
  /\ UNCHANGED <<outbox, slide>>

\* The user zooms, or resizes the window.
Zoom(size) ==
  /\ UserActs /\ slide.visible /\ size # slide.desired
  /\ slide' = [slide EXCEPT !.desired = size]
  /\ UNCHANGED <<adjVars, gen, live, wanted, offered>>

\* In the full grid another version is chosen, then the first again; the slide
\* keeps its version and is shown as it was left.
VisitGrid ==
  /\ "grid" \in Hasty /\ UserActs /\ live.version # None
  /\ live' = [live EXCEPT !.version = None]
  /\ adj' = Cleared(adj)
  /\ slide' = [slide EXCEPT !.img = None]
  /\ UNCHANGED <<outbox, gen, wanted, offered>>

-----------------------------------------------------------------------------
(* The event loop *)

\* SlideView::paintEvent asks for a larger image, once for each size.
NeedsLarger(s) ==
  /\ s.vsn # None /\ s.visible
  /\ (IF s.img = None THEN 0 ELSE s.img.size) < s.desired
  /\ s.desired # s.lastSize

\* requestAdjusted, in answer to the slide.
Paint ==
  /\ NeedsLarger(slide)
  /\ slide' = [slide EXCEPT !.lastSize = slide.desired]
  /\ LET v == slide.vsn
         new == v # live.version
         l == [live EXCEPT !.version = v, !.target = slide.desired, !.mustshow = TRUE,
                           !.known = IF new THEN gen[v] ELSE @]
         a == IF new THEN Cleared(adj) ELSE adj
         available == MaxAvailable(a, v)
         bigger == available < slide.desired /\ available < Full
     IN /\ live' = l
        /\ \/ /\ new \/ bigger
              /\ adj' = IF new THEN Cleared(a) ELSE Withdrawn(a)
              /\ Want(v, slide.desired)
           \/ /\ ~new /\ ~bigger
              /\ adj' = Ordered(a, Order(l, slide.desired))
              /\ UNCHANGED wanted
  /\ UNCHANGED <<outbox, gen, offered>>

\* provideScaledOriginal: a file is read at its full size, a raw file at half
\* of it if that is enough.
ProvideScaledOriginal(size) ==
  /\ wanted # None /\ wanted.v \in Readable /\ size \in wanted.size..Full
  /\ wanted' = None
  /\ adj' = IF wanted.v = live.version
            THEN Ordered(Supplied(adj, [v |-> wanted.v, size |-> size]),
                         Order(live, live.target))
            ELSE adj
  /\ UNCHANGED <<outbox, gen, live, slide, offered>>

\* Mutant of IsCurrent: any version's image is taken.
IsAnything(id) == TRUE

IsCurrent(id) == id = live.version

\* What LightTable makes of an image: a null one is not shown, and any other
\* replaces whatever the slide shows of its version.
UpdateAdjusted(img) ==
  IF img # None /\ slide.vsn = live.version THEN [slide EXCEPT !.img = img] ELSE slide

\* provideAdjusted
ProvideAdjusted ==
  /\ outbox # <<>>
  /\ outbox' = Tail(outbox)
  /\ LET img == Head(outbox)[1]
         taken == IsCurrent(Head(outbox)[2])
         shown == taken /\ live.mustshow
     IN /\ live' = IF taken THEN [live EXCEPT !.mustoffer = FALSE, !.mustshow = FALSE]
                   ELSE live
        /\ offered' = IF taken /\ live.mustoffer THEN img ELSE offered
        /\ slide' = IF shown THEN UpdateAdjusted(img) ELSE slide
  /\ UNCHANGED <<adj, gen, wanted>>

EventStep == Paint \/ (\E size \in Sizes : ProvideScaledOriginal(size)) \/ ProvideAdjusted

ThreadStep == AdjusterStep /\ UNCHANGED liveVars

LiveNext ==
  \/ \E v \in Versions : ShowVersion(v)
  \/ Edit \/ (\E size \in Sizes : Zoom(size)) \/ VisitGrid
  \/ EventStep
  \/ ThreadStep

LiveSpec == LiveInit /\ [][LiveNext]_allVars

\* The event loop delivers signals and paints what needs painting, the thread
\* runs, and readable files are read.
LiveFairness ==
  /\ WF_allVars(Paint)
  /\ WF_allVars(\E size \in Sizes : ProvideScaledOriginal(size))
  /\ WF_allVars(ProvideAdjusted)
  /\ WF_allVars(ThreadStep)

FairLiveSpec == LiveSpec /\ LiveFairness

-----------------------------------------------------------------------------
(* Properties *)

(* The picture on the slide was computed from the original of the version that
   the slide shows, however the user flips and edits. *)
SlideShowsOwn == slide.img # None => slide.img.v = slide.vsn

(* A request does not stay with the adjuster for ever: the thread takes it up,
   unless it is canceled first. *)
RequestTakenUp == adj.newreq ~> ~adj.newreq
=============================================================================
