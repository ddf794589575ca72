------------------------------ MODULE Controls ------------------------------
(***************************************************************************)
(* What the user handles to adjust a picture: the panel of controls        *)
(* (AllControls: sliders and crop), the layer dialogue, and what each of   *)
(* them keeps of the database.                                             *)
(*                                                                         *)
(* ctl is [vsn, adjs, sliders, crop]: the version, the adjustments taken   *)
(* to be stored, those of the sliders, and the crop calculator.  dlg is    *)
(* [vsn, rows, selected, adjs, sliders]: the layers listed, which one is   *)
(* selected, and the adjustments of those that have been looked at.        *)
(***************************************************************************)
EXTENDS CropCalc, Layers

ControlsFor(db, v) ==
    LET a == ReadRows(db.adj[v])
    IN [vsn |-> v, adjs |-> a, sliders |-> a, crop |-> ResetCrop(a)]

\* What a change makes of the controls: a is what is stored next.
StoreInDatabase(db, ctl, a) == [db EXCEPT !.adj[ctl.vsn] = StoreDiff(@, a, ctl.adjs)]
ChangeFromSliders(ctl, a) == [ctl EXCEPT !.adjs = a, !.sliders = a, !.crop = ResetCrop(a)]
ChangeFromCropper(ctl, crop) ==
    LET a == UpdateAdj(crop, ctl.sliders)
    IN [ctl EXCEPT !.adjs = a, !.sliders = a, !.crop = crop]

-----------------------------------------------------------------------------
(* The layer dialogue.                                                        *)
NoneSelected(db, v) ==
    [vsn |-> v, rows |-> Count(db, v), selected |-> 0, adjs |-> [n \in {} |-> Defaults],
     sliders |-> Defaults]
\* newSelection
SelectLayer(db, dlg, n) ==
    IF n = 0 THEN [dlg EXCEPT !.selected = 0, !.sliders = Defaults]
    ELSE LET a == IF n \in DOMAIN dlg.adjs THEN dlg.adjs[n] ELSE LayerAdjustments(db, dlg.vsn, n)
         IN [dlg EXCEPT !.selected = n, !.adjs = With(@, n, a), !.sliders = a]

\* setVersion, which also rebuilds the list
DialogFor(db, dlg, v) == SelectLayer(db, NoneSelected(db, v), Count(db, v))

\* What a button does: to the database, to the dialogue, and from which layer
\* on the layers are to be read again.
Pressed(db, dlg, lowest) == [db |-> db, dlg |-> dlg, lowest |-> lowest]
AddLinearLayer(db, dlg) ==
    LET new == AddLayer(db, dlg.vsn, NewLayer("LinearGradient"))
    IN Pressed(new, DialogFor(new, dlg, dlg.vsn), Count(new, dlg.vsn))
AddShapeLayer(db, dlg) ==
    LET new == AddLayer(db, dlg.vsn, NewLayer("Area"))
    IN Pressed(new, DialogFor(new, dlg, dlg.vsn), Count(new, dlg.vsn))
AddCloneLayer(db, dlg) ==
    LET new == AddLayer(db, dlg.vsn, NewLayer("Clone"))
    IN Pressed(new, DialogFor(new, dlg, dlg.vsn), Count(new, dlg.vsn))
DeleteSelected(db, dlg) ==
    LET new == DeleteLayer(db, dlg.vsn, dlg.selected)
    IN Pressed(new, DialogFor(new, dlg, dlg.vsn), dlg.selected)
RaiseSelected(db, dlg) ==
    LET new == RaiseLayer(db, dlg.vsn, dlg.selected)
    IN Pressed(new, SelectLayer(new, DialogFor(new, dlg, dlg.vsn), dlg.selected + 1), dlg.selected)
LowerSelected(db, dlg) ==
    LET new == LowerLayer(db, dlg.vsn, dlg.selected)
    IN Pressed(new, SelectLayer(new, DialogFor(new, dlg, dlg.vsn), dlg.selected - 1), dlg.selected - 1)
ShowHideLayer(db, dlg) ==
    LET n == dlg.selected
        layer == LayerAt(db, dlg.vsn, n)
    IN Pressed(SetLayer(db, dlg.vsn, n, [layer EXCEPT !.active = ~@]), dlg, n)

\* Which buttons and sliders are enabled, for the layer selected.
LayerEnabled(dlg) == dlg.selected > 0
RaiseEnabled(dlg) == dlg.selected > 0 /\ dlg.selected < dlg.rows
LowerEnabled(dlg) == dlg.selected > 1
SlidersEnabled(db, dlg) ==
    dlg.selected > 0 /\ LayerAt(db, dlg.vsn, dlg.selected).typ # "Clone"

StoreLayer(db, dlg, a) ==
    LET n == dlg.selected
        id == LayerId(db, dlg.vsn, n)
    IN [db EXCEPT !.ladj[id] = StoreDiff(@, a, dlg.adjs[n])]
LayerChanged(dlg, a) == [dlg EXCEPT !.adjs[dlg.selected] = a, !.sliders = a]
=============================================================================
