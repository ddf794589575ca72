------------------------------ MODULE Darkroom ------------------------------
(***************************************************************************)
(* The darkroom: the controls, the layer dialogue and the clipboard of     *)
(* adjustments; the database in which they store what the user does;       *)
(* LiveAdjuster, which follows them; the thread of InterruptableAdjuster   *)
(* with the AllAdjuster that it runs; and the slide on which the outcome   *)
(* is shown.  Where LiveAdjuster.tla looks at who may overtake whom with   *)
(* images that are mere tokens, this module looks at what the images are.  *)
(*                                                                         *)
(* The user acts when the slide has been painted and the thread has either *)
(* nothing to do or is computing.                                          *)
(***************************************************************************)
EXTENDS Controls, AllAdjuster

CONSTANTS
    Versions,
    Raw,            \* the versions whose file can be read at half its size
    Window,         \* the size of the slide's widget
    Zooms,          \* the factors that the user asks for
    Aspects,        \* the ratios on the buttons
    UserSliders, UserLayerSliders, UserCrop,    \* the sliders that the user moves
    Photos,         \* the databases that the user starts with
    Copied,         \* what was copied to the clipboard before: sets of values, if any
    Hasty,          \* what else the user does: "early", acts before the thread has
                    \* taken up the first original of a version
    MaxLayers, MaxSteps     \* bounds: layers of a version, actions of the user

ASSUME DarkroomAssumption ==
    /\ UserSliders \subseteq Sliders /\ UserLayerSliders \subseteq LayerSliders
    /\ UserCrop \subseteq CropSliders /\ Raw \subseteq Versions
    /\ Hasty \subseteq {"early"} /\ MaxLayers \in Nat /\ MaxSteps \in Nat

\* The layers of a version are stacked without gaps and without doubles, and no
\* layer has adjustments that its type cannot have.
Stacked(d) ==
    /\ DOMAIN d.ladj = DOMAIN d.layers
    /\ \A v \in Versions :
         {d.layers[i].stacking : i \in LayerIds(d, v)} = 1 .. Count(d, v)
    /\ \A i \in DOMAIN d.ladj : d.layers[i].typ = "Clone" => DOMAIN d.ladj[i] = {}

\* What the tables hold: a database that the user starts with is an empty one or
\* one that the program has made.
LayerRows == [version : Versions, stacking : Nat, active : BOOLEAN, typ : LayerTypes]
IsDatabase(d) ==
    /\ d = [adj |-> d.adj, layers |-> d.layers, ladj |-> d.ladj]
    /\ DOMAIN d.adj = Versions
    /\ IsFiniteSet(DOMAIN d.layers) /\ DOMAIN d.layers \subseteq Nat
    /\ d.layers \in [DOMAIN d.layers -> LayerRows]

ASSUME PhotosAssumption == \A d \in Photos : IsDatabase(d) /\ Stacked(d)

VARIABLES
    db, ctl, dlg, clip,
    adj, outbox,    \* the thread, as in InterruptableAdjuster.tla
    aa, mas,        \* its AllAdjuster, and the sizes once on offer
    live,           \* [version, all, target, mustshow]
    wanted,         \* the original that is being read
    slide,          \* [vsn, img, fit, zoom, natural, lastSize]
    up,             \* the program runs
    steps           \* of the user

panel == <<ctl, dlg, clip>>
thread == <<adj, outbox, aa, mas>>
shown == <<live, wanted, slide>>
vars == <<db, panel, thread, shown, up, steps>>

Thread == INSTANCE InterruptableAdjuster WITH Full <- 1, MaxGen <- 0

OSize == [w |-> OWidth, h |-> OHeight]
Half == [w |-> OWidth \div 2, h |-> OHeight \div 2]

-----------------------------------------------------------------------------
(* The slide.                                                                 *)
DesiredSize(s) == IF s.fit \/ s.img = None THEN Window ELSE Times(s.natural, s.zoom)
FittingZoom(s) == ScaleFactorToSnuglyFitIn(s.natural, Window)
NewImage(s, v, natural) ==
    [s EXCEPT !.vsn = v, !.img = None, !.fit = TRUE, !.zoom = <<1, 1>>, !.natural = natural,
              !.lastSize = Empty]
UpdateImage(s, img, natural) ==
    [s EXCEPT !.img = img, !.natural = IF IsEmpty(natural) THEN @ ELSE natural]

ScaleToFit(s) == [s EXCEPT !.fit = TRUE]
SetZoom(s, z) ==
    LET z0 == FittingZoom(s)
        reduced == Below(z0, <<1, 1>>)
    IN IF reduced /\ Below(z, z0) THEN ScaleToFit(s)
       ELSE [s EXCEPT !.fit = FALSE,
                      !.zoom = IF ~reduced /\ Below(z, <<1, 1>>) THEN <<1, 1>> ELSE z]

\* What paintEvent finds out about the image that it has.
TooSmall(s) ==
    IF s.img = None THEN TRUE
    ELSE LET size == s.img.size
             fits == ScaledToFitSnuglyIn(size, Window)
             show == Times(s.natural, s.zoom)
         IN IF s.fit
            THEN /\ size.w < s.natural.w /\ fits.w > size.w
                 /\ size.h < s.natural.h /\ fits.h > size.h
            ELSE ~IsLargeEnoughFor(size, show) /\ Exceeds(s.natural, size)
NeedLargerImage(s) == TooSmall(s) /\ DesiredSize(s) # s.lastSize

-----------------------------------------------------------------------------
(* LiveAdjuster.                                                              *)
Want(size) == wanted' = [v |-> live.version, size |-> size]
OrderFor(l, size) == [id |-> l.version, all |-> l.all, size |-> size]
MaxAvailable(l) ==
    IF adj.clear \/ adj.oId # l.version THEN Empty
    ELSE ScaledCroppedSize(OSize, l.all.base, adj.oSize)

\* forceUpdate, given what is to be shown
ForceUpdate(l) ==
    /\ live' = [l EXCEPT !.mustshow = TRUE]
    /\ \/ adj.empty /\ Want(l.target) /\ UNCHANGED adj
       \/ ~adj.empty /\ adj' = Thread!Ordered(adj, OrderFor(l, l.target)) /\ UNCHANGED wanted
ReloadLayers(newdb, lowest) ==
    ForceUpdate([live EXCEPT !.all = RereadFromDB(@, newdb, live.version, lowest)])
\* reloadSliders, for the base and for a layer
ReloadBase(a) ==
    IF a = live.all.base THEN UNCHANGED <<live, wanted, adj>>
    ELSE ForceUpdate([live EXCEPT !.all.base = a])
ReloadLayer(n, a) ==
    IF a = live.all.layers[n].adj THEN UNCHANGED <<live, wanted, adj>>
    ELSE ForceUpdate([live EXCEPT !.all.layers[n].adj = a])

-----------------------------------------------------------------------------
(* The user.                                                                  *)
UserStarts ==
    /\ up /\ steps < MaxSteps /\ steps' = steps + 1
    /\ outbox = <<>> /\ adj.at \in {"wait", "compute"} /\ ~NeedLargerImage(slide)
    /\ "early" \in Hasty \/ ~adj.empty \/ adj.newOriginal = None
UserActs == UserStarts /\ UNCHANGED <<up, outbox, aa, mas>>

\* makeCurrent, for another version; reloadVersion, for the same once more
MakeCurrent(newdb, v) ==
    LET natural == CroppedSize(OSize, ReadRows(newdb.adj[v]))
    IN /\ ctl' = ControlsFor(newdb, v)
       /\ dlg' = DialogFor(newdb, dlg, v)
       /\ live' = [version |-> v, all |-> AllFromDB(newdb, v), target |-> natural, mustshow |-> TRUE]
       /\ adj' = Thread!Cleared(adj)
       /\ slide' = NewImage(slide, v, natural)
       /\ UNCHANGED wanted
ShowVersion(v) ==
    /\ UserActs /\ v # ctl.vsn
    /\ MakeCurrent(db, v) /\ UNCHANGED <<db, clip>>

MoveSlider(s, v) ==
    LET a == SliderChange(ctl.sliders, s, v) IN
    /\ UserActs
    /\ db' = StoreInDatabase(db, ctl, a)
    /\ ctl' = ChangeFromSliders(ctl, a)
    /\ ReloadBase(a)
    /\ UNCHANGED <<dlg, clip, slide>>

\* What becomes of the crop rectangle, by a slider or a button of the crop tab
Recrop(crop) ==
    /\ UserActs
    /\ ctl' = ChangeFromCropper(ctl, crop)
    /\ db' = StoreInDatabase(db, ctl, ctl'.adjs)
    /\ ReloadBase(ctl'.adjs)
    /\ UNCHANGED <<dlg, clip, slide>>
CropStep == 10
CropPage == 100
CropTargets(s) ==
    LET v == CropValue(ctl.crop, ctl.sliders, s)
    IN {Clip(w, 0, CropMax(ctl.crop, s)) : w \in StepsFrom(v, CropStep, CropPage) \cup {0}} \ {v}
MoveCropSlider(s) == \E v \in CropTargets(s) : Recrop(Slid(ctl.crop, ctl.sliders, s, v))
PressMode(mode) == mode # ctl.crop.mode /\ Recrop(ToggleMode(ctl.crop, mode))
\* A rectangle that has the orientation already is left as it is, and nothing stored.
PressOrient(o) ==
    /\ o # ctl.crop.orient
    /\ IF Turns(ctl.crop, o) THEN Recrop(ToggleOrient(ctl.crop, o))
       ELSE /\ UserActs /\ ctl' = [ctl EXCEPT !.crop.orient = o]
            /\ UNCHANGED <<db, dlg, clip, adj, live, wanted, slide>>
PressAspect(p) == Recrop(ClickAspect(ctl.crop, p))
PressOptimize == Recrop(Optimize(ctl.crop))

\* The layer dialogue
ClickLayer(n) ==
    /\ UserActs /\ n # dlg.selected
    /\ dlg' = SelectLayer(db, dlg, n)
    /\ UNCHANGED <<db, ctl, clip, adj, live, wanted, slide>>
PressLayer(p) ==
    /\ UserActs
    /\ db' = p.db /\ dlg' = p.dlg
    /\ ReloadLayers(p.db, p.lowest)
    /\ UNCHANGED <<ctl, clip, slide>>
PressAdd == dlg.rows < MaxLayers /\
    \E press \in {AddLinearLayer(db, dlg), AddShapeLayer(db, dlg), AddCloneLayer(db, dlg)} :
        PressLayer(press)
PressDelete == LayerEnabled(dlg) /\ PressLayer(DeleteSelected(db, dlg))
PressRaise == RaiseEnabled(dlg) /\ PressLayer(RaiseSelected(db, dlg))
PressLower == LowerEnabled(dlg) /\ PressLayer(LowerSelected(db, dlg))
PressShowHide == LayerEnabled(dlg) /\ PressLayer(ShowHideLayer(db, dlg))
MoveLayerSlider(s, v) ==
    LET a == SliderChange(dlg.sliders, s, v) IN
    /\ SlidersEnabled(db, dlg) /\ UserActs
    /\ db' = StoreLayer(db, dlg, a)
    /\ dlg' = LayerChanged(dlg, a)
    /\ ReloadLayer(dlg.selected, a)
    /\ UNCHANGED <<ctl, clip, slide>>

\* The clipboard
UseClipboard(c) == UserActs /\ c # clip /\ clip' = c /\ UNCHANGED <<db, ctl, dlg, adj, shown>>
PressCopy == UseClipboard(CopyInto(clip, ReadRows(db.adj[ctl.vsn])))
Check ==
    \/ \E g \in DOMAIN Groups : UseClipboard(PressGroup(clip, g))
    \/ \E s \in UserSliders : UseClipboard(PressSlider(clip, s))
    \/ \E on \in BOOLEAN : UseClipboard(EnableAll(clip, on))
\* Apply takes the lock of the database for a transaction, and writeToDB takes
\* it once more for the first version selected: the main thread waits for itself.
\* (With none selected it does nothing.)
PressApply ==
    /\ UserStarts /\ clip.valok
    /\ up' = FALSE
    /\ UNCHANGED <<db, panel, thread, shown>>

\* The slide
Zoom(s) == UserActs /\ s # slide /\ slide' = s /\ UNCHANGED <<db, panel, adj, live, wanted>>
PressZoom == Zoom(ScaleToFit(slide)) \/ \E z \in Zooms : Zoom(SetZoom(slide, z))

-----------------------------------------------------------------------------
(* The event loop.                                                            *)
\* requestAdjusted, in answer to needLargerImage
Paint ==
    /\ up /\ NeedLargerImage(slide)
    /\ LET size == DesiredSize(slide)
           l == [live EXCEPT !.target = size, !.mustshow = TRUE]
           have == MaxAvailable(l)
           bigger == Exceeds(size, have) /\ Exceeds(CroppedSize(OSize, l.all.base), have)
       IN /\ slide' = [slide EXCEPT !.lastSize = size]
          /\ live' = l
          /\ \/ /\ bigger
                /\ adj' = Thread!Withdrawn(adj)
                /\ Want(NeededScaledOriginalSize(OSize, l.all.base, size))
             \/ /\ ~bigger
                /\ adj' = Thread!Ordered(adj, OrderFor(l, size))
                /\ UNCHANGED wanted
    /\ UNCHANGED <<db, panel, outbox, aa, mas, up, steps>>

\* The original is there, at the size at which its file is read.
ProvideScaledOriginal ==
    /\ up /\ wanted # None
    /\ wanted' = None
    /\ LET size == IF wanted.v \in Raw /\ ContainsSize(Half, wanted.size) THEN Half ELSE OSize
       IN adj' = IF wanted.v # live.version THEN adj
                 ELSE Thread!Ordered(Thread!Supplied(adj, [v |-> wanted.v, size |-> size]),
                                     OrderFor(live, live.target))
    /\ UNCHANGED <<db, panel, outbox, aa, mas, live, slide, up, steps>>

\* provideAdjusted
ProvideAdjusted ==
    /\ up /\ outbox # <<>>
    /\ outbox' = Tail(outbox)
    /\ LET sig == Head(outbox) IN
       IF sig[2] # live.version \/ ~live.mustshow THEN UNCHANGED <<live, slide>>
       ELSE /\ live' = [live EXCEPT !.mustshow = FALSE]
            /\ slide' = UpdateImage(slide, sig[1].img, sig[1].natural)
    /\ UNCHANGED <<db, panel, adj, aa, mas, wanted, up, steps>>

-----------------------------------------------------------------------------
(* The thread.                                                                *)
\* What taking up a clear and a new original makes of the AllAdjuster
TakenUp(all, a) ==
    IF a.newOriginal # None
    THEN SetReducedAll(all, [content |-> <<<<"Photo", a.newOriginal.v>>>>, size |-> a.newOriginal.size], OSize)
    ELSE IF a.clear THEN ClearAll(all) ELSE all
Wakeup ==
    /\ up /\ adj.at = "woken"
    /\ aa' = TakenUp(aa, adj)
    /\ adj' = Thread!RunLoop(adj)
    /\ UNCHANGED <<db, panel, outbox, mas, shown, up, steps>>

\* The end of a computation; what it discards it makes up for at once.
Finished(after, img) ==
    /\ adj' = Thread!Completed(adj, [img |-> img,
                                     natural |-> CroppedSize(OSize, adj.job.order.all.base)])
    /\ aa' = IF adj'.at = "emit" THEN after ELSE TakenUp(after, adj)
Retrieve(ready, order, start) ==
    \E cut \in {NoCut} \cup IF adj.interrupted THEN Cuts(order.all) ELSE {} :
    \E did \in {RetrieveAll(ready, order.all, order.size, start, cut)} : Finished(did.aa, did.img)
Compute(ready, order) ==
    /\ mas' = MasAfter(mas, ready, order.all)
    /\ \E start \in Starts(mas', ready, order.all, order.size) :
         \/ start = 0 /\ up' = FALSE /\ UNCHANGED <<adj, aa>>
         \/ start # 0 /\ Retrieve(ready, order, start) /\ UNCHANGED up
ComputeImage ==
    /\ up /\ adj.at = "compute" /\ adj.job.can
    /\ Compute(IF aa.valid < 0 THEN aa ELSE EnsureAdjusters(aa, Len(adj.job.order.all.layers)),
               adj.job.order)
    /\ UNCHANGED <<db, panel, outbox, shown, steps>>
\* A request for a version of which the adjuster does not have the original
CannotDo ==
    /\ up /\ adj.at = "compute" /\ ~adj.job.can
    /\ Finished(aa, None)
    /\ UNCHANGED <<db, panel, outbox, mas, shown, up, steps>>
Emit ==
    /\ up /\ adj.at = "emit"
    /\ outbox' = Append(outbox, adj.sig)
    /\ adj' = [adj EXCEPT !.sig = <<>>, !.at = "woken"]
    /\ UNCHANGED <<db, panel, aa, mas, shown, up, steps>>

-----------------------------------------------------------------------------
Idle ==
    [newreq |-> FALSE, cancel |-> FALSE, clear |-> FALSE, empty |-> TRUE, rq |-> None,
     newOriginal |-> None, oId |-> None, oSize |-> Empty, held |-> None, interrupted |-> FALSE,
     job |-> None, sig |-> <<>>, at |-> "wait"]
\* A version is shown, for the first time since the program was started.
Init ==
    /\ db \in Photos
    /\ \E v \in Versions :
         LET natural == CroppedSize(OSize, ReadRows(db.adj[v])) IN
         /\ ctl = ControlsFor(db, v)
         /\ dlg = DialogFor(db, NoneSelected(db, v), v)
         /\ live = [version |-> v, all |-> AllFromDB(db, v), target |-> natural, mustshow |-> TRUE]
         /\ slide = [vsn |-> v, img |-> None, fit |-> TRUE, zoom |-> <<1, 1>>, natural |-> natural,
                     lastSize |-> Empty]
    /\ clip \in {EmptyClipboard} \cup {CopyInto(EmptyClipboard, ReadRows(r)) : r \in Copied}
    /\ adj = Idle /\ outbox = <<>> /\ aa = NoInput /\ mas = Unknown
    /\ wanted = None /\ up = TRUE /\ steps = 0

UserStep ==
    \/ \E v \in Versions : ShowVersion(v)
    \/ \E s \in UserSliders : \E v \in Targets(s, JogValue(ctl.sliders, s)) : MoveSlider(s, v)
    \/ \E s \in UserCrop : MoveCropSlider(s)
    \/ \E mode \in {"Free", "Aspect"} : PressMode(mode)
    \/ \E o \in {"Auto", "Landscape", "Portrait"} : PressOrient(o)
    \/ \E p \in Aspects : PressAspect(p)
    \/ PressOptimize
    \/ \E n \in 1 .. dlg.rows : ClickLayer(n)
    \/ PressAdd \/ PressDelete \/ PressRaise \/ PressLower \/ PressShowHide
    \/ \E s \in UserLayerSliders :
         \E v \in Targets(s, JogValue(dlg.sliders, s)) : MoveLayerSlider(s, v)
    \/ PressCopy \/ Check \/ PressApply \/ PressZoom
LoopStep == Paint \/ ProvideScaledOriginal \/ ProvideAdjusted
ThreadStep == Wakeup \/ ComputeImage \/ CannotDo \/ Emit
Next == UserStep \/ LoopStep \/ ThreadStep
Spec == Init /\ [][Next]_vars

-----------------------------------------------------------------------------
(* Properties.                                                                *)

(* What the controls, the layer dialogue and LiveAdjuster keep of the version that
   is shown is what the database has: no slider or button leaves one of them
   behind, so that the next change stores no more than what the user changes. *)
EveryoneKnowsTheDatabase ==
    /\ ctl.adjs = ReadRows(db.adj[ctl.vsn]) /\ ctl.sliders = ctl.adjs
    /\ dlg.rows = Count(db, ctl.vsn)
    /\ \A n \in DOMAIN dlg.adjs : n <= dlg.rows /\ dlg.adjs[n] = LayerAdjustments(db, ctl.vsn, n)
    /\ dlg.selected > 0 => dlg.sliders = dlg.adjs[dlg.selected]
    /\ live.all = AllFromDB(db, ctl.vsn)

AtRest ==
    /\ up /\ wanted = None /\ outbox = <<>> /\ adj.at = "wait" /\ ~NeedLargerImage(slide)
    /\ ~adj.newreq /\ adj.newOriginal = None /\ ~adj.clear
AsStored == slide.img # None => slide.img.content = Reference(slide.vsn, AllFromDB(db, slide.vsn))
Layered == Count(db, slide.vsn) > 0

\* The images that the layers have made have the sizes of their inputs: only then does
\* applyMask put the one on the other.
Agree(tiles) == SizeOf(Last(tiles).image) = SizeOf(tiles[1].image)
SizesAgree ==
    adj.at = "emit" /\ adj.sig[1].img # None /\ ~IsDefault(live.all.base) =>
        \A n \in 1 .. Len(live.all.layers) : Agree(aa.layers[n])

(* Once everything is at rest, the picture on the slide is what the settings in the
   database make of the photo, whichever stages were reused or interrupted on the way:
   for pictures without layers, and for those whose base is adjusted. *)
PictureIsAsStored ==
    AtRest /\ ~(Layered /\ IsDefault(live.all.base)) => AsStored

(* The layers of a version are stacked without gaps and without doubles, and no layer
   comes with the adjustments of one that was deleted. *)
LayersStacked == Stacked(db)

Inside(e) ==
    /\ 0 <= e.l /\ e.l < e.r /\ e.r <= OWidth + 1
    /\ 0 <= e.t /\ e.t < e.b /\ e.b <= OHeight + 1
InProportion(c) == HeightOf(c.edges) - DownFor(c, WidthOf(c.edges)) \in -1 .. 1
MovesMany(e, f) == Cardinality({k \in DOMAIN e : e[k] # f[k]}) > 1
AtMinimum(e) == WidthOf(e) <= MinCrop \/ HeightOf(e) <= MinCrop
(* A slider or a button of the crop tab that finds the crop rectangle inside the
   picture (but for the row that a reset counts too many) leaves it there, whatever
   the ratio that it keeps.  The two exceptions, for which see the documentation: a
   slider that moves several sides of a rectangle that does not have the calculator's
   proportions, or to where one of them is as short as a slider leaves it. *)
CropStaysInside ==
    [][LET c == ctl.crop
           d == ctl'.crop
           slidInStep == c.mode = d.mode /\ c.aspect = d.aspect /\ MovesMany(c.edges, d.edges)
       IN Inside(c.edges) /\ (slidInStep => InProportion(c) /\ ~AtMinimum(d.edges))
          => Inside(d.edges)]_ctl
=============================================================================
