----------------------------- MODULE Adjustments -----------------------------
(* Adjustments and the rows they are stored as; the sliders that set them,    *)
(* some of which share adjustments; and the clipboard of adjustments.         *)
(* Values are in tenths; the sliders that are linked to others move in whole  *)
(* steps, for which the linear and the power maps of the code are tabulated.  *)
EXTENDS Integers, SequencesExt

CONSTANTS
    Keys,           \* the adjustments
    Groups,         \* the groups of the sliders: sets of sliders
    Limits          \* of each slider: [min, max, step, page]

-----------------------------------------------------------------------------
DefaultFor(k) == IF k = "umaskr" THEN 1 ELSE 0
Defaults == [k \in Keys |-> DefaultFor(k)]
IsDefault(a) == a = Defaults
DefaultIn(a, fields) == \A k \in fields \cap Keys : a[k] = DefaultFor(k)
Equivalent(a, b, fields) == \A k \in fields \cap Keys : a[k] = b[k]

\* A row for each adjustment that is not at its default.
ReadRows(rows) == [k \in Keys |-> IF k \in DOMAIN rows THEN rows[k] ELSE DefaultFor(k)]
StoreKeys(rows, a, keys) ==
    [k \in (DOMAIN rows \ keys) \cup {j \in keys : a[j] # DefaultFor(j)} |->
        IF k \in keys THEN a[k] ELSE rows[k]]

\* Mutant of StoreDiff: what has returned to its default is not seen to differ.
StoreNonDefault(rows, a, a0) ==
    StoreKeys(rows, a, {k \in Keys : a[k] # a0[k] /\ a[k] # DefaultFor(k)})

\* Only what differs from what the panel takes to be stored.
StoreDiff(rows, a, a0) == StoreKeys(rows, a, {k \in Keys : a[k] # a0[k]})

-----------------------------------------------------------------------------
(* The sliders.  White balance also moves the exposure that is stored, and    *)
(* the strength of local contrast is stored in proportion to its localness.   *)
WbScale == 46
Localness(a) == IF a["nlcontrastscale"] = 0 THEN 0 ELSE 1
StrengthScale(loc) == IF loc = 0 THEN 10 ELSE 56
LocalScale == 9

SliderValue(a, s) ==
    CASE s = "expose" -> a["expose"] + a["wb"] \div WbScale
      [] s = "wb" -> a["wb"] \div WbScale
      [] s = "nlc_strength" -> a["nlcontrast"] \div StrengthScale(Localness(a))
      [] s = "nlc_localness" -> Localness(a)
      [] OTHER -> a[s]

Clip(v, lo, hi) == IF v < lo THEN lo ELSE IF v > hi THEN hi ELSE v
ClampTo(s, v) == Clip(v, Limits[s].min, Limits[s].max)
\* The jog of a slider shows as much of it as its limits allow.
JogValue(a, s) == ClampTo(s, SliderValue(a, s))

SliderChange(a, s, v) ==
    LET J(t) == IF t = s THEN v ELSE JogValue(a, t) IN
    CASE s \in {"expose", "wb"} ->
           [a EXCEPT !["expose"] = J("expose") - J("wb"), !["wb"] = WbScale * J("wb")]
      [] s \in {"nlc_strength", "nlc_localness"} ->
           [a EXCEPT !["nlcontrastscale"] = LocalScale * J("nlc_localness"),
                     !["nlcontrast"] = StrengthScale(J("nlc_localness")) * J("nlc_strength")]
      [] OTHER -> [a EXCEPT ![s] = v]

\* Where a key, the wheel, a drag or a double click takes a jog from value v.
StepsFrom(v, step, page) == {v - step, v + step, v - page, v + page}
KeyTargets(s, v) == StepsFrom(v, Limits[s].step, Limits[s].page)
WheelTargets(s, v) == {v + n * Limits[s].step : n \in {-1, 1}}
\* How far a drag takes it at most.
MaxDelta(s) == 2 * Limits[s].page
DragTargets(s, v) == {v - MaxDelta(s), v + MaxDelta(s)}
DoubleClick(s) == IF s \in Keys THEN DefaultFor(s) ELSE 0
SetValue(s, v) == {ClampTo(s, v)}
Targets(s, v) ==
    UNION {SetValue(s, w) :
        w \in KeyTargets(s, v) \cup WheelTargets(s, v) \cup DragTargets(s, v) \cup {DoubleClick(s)}}
    \ {v}

Sliders == UNION {Groups[g] : g \in DOMAIN Groups}
\* What layers do not have.
LayerSliders == UNION {Groups[g] : g \in DOMAIN Groups \ {"recompose"}}

-----------------------------------------------------------------------------
(* The clipboard: values, and which sliders are checked.                      *)
EmptyClipboard == [valok |-> FALSE, val |-> Defaults, checked |-> Sliders]
\* A slider that stands for no adjustment of its own is not copied.
Mask(c) == c.checked \cap Keys
CopyInto(c, a) ==
    [c EXCEPT !.valok = TRUE,
              !.val = IF c.valok THEN [k \in Keys |-> IF k \in Mask(c) THEN a[k] ELSE @[k]] ELSE a]

GroupState(c, g) ==
    IF Groups[g] \subseteq c.checked THEN "On"
    ELSE IF Groups[g] \cap c.checked = {} THEN "Off" ELSE "Undef"
PressGroup(c, g) ==
    [c EXCEPT !.checked = IF GroupState(c, g) = "On" THEN @ \ Groups[g] ELSE @ \cup Groups[g]]
PressSlider(c, s) ==
    [c EXCEPT !.checked = IF s \in @ THEN @ \ {s} ELSE @ \cup {s}]
EnableAll(c, on) == [c EXCEPT !.checked = IF on THEN Sliders ELSE {}]
=============================================================================
