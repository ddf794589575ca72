------------------------------ MODULE CropCalc ------------------------------
(* The crop rectangle and what the sliders and buttons of the crop tab make   *)
(* of it.  Lengths are whole pixels, and so are the results of the divisions  *)
(* and roots that an aspect ratio calls for; the sliders of the corners count *)
(* pixels along the width.                                                    *)
EXTENDS Adjustments

CONSTANTS
    OWidth, OHeight,    \* the size of the original
    MinCrop             \* what a slider leaves of either length

\* edges: [l, r, t, b]; aspect: [w, h]
-----------------------------------------------------------------------------
WidthOf(e) == e.r - e.l
HeightOf(e) == e.b - e.t
\* What a conversion to a whole number makes of x and a half.
Rounded(x) == IF x < 0 THEN x + 1 ELSE x

UpdateAdj(c, a) ==
    [a EXCEPT !["cropl"] = Rounded(c.edges.l), !["cropr"] = Rounded(OWidth - c.edges.r),
              !["cropt"] = Rounded(c.edges.t), !["cropb"] = Rounded(OHeight - c.edges.b)]

\* A rectangle made from its corners counts the last row and column, so that
\* right and bottom are one beyond where they were.
RectOf(a) ==
    [l |-> a["cropl"], r |-> OWidth - a["cropr"] + 1,
     t |-> a["cropt"], b |-> OHeight - a["cropb"] + 1]
WholePicture == [l |-> 0, r |-> OWidth, t |-> 0, b |-> OHeight]
ResetCrop(a) ==
    [edges |-> RectOf(a), mode |-> "Free", aspect |-> [w |-> OWidth, h |-> OHeight], orient |-> "Auto"]

-----------------------------------------------------------------------------
(* How far the sliders go, and where they are.                                *)
AcrossFor(c, down) == (down * c.aspect.w) \div c.aspect.h
DownFor(c, across) == (across * c.aspect.h) \div c.aspect.w
MaxLeft(c) == c.edges.r - MinCrop
MaxRight(c) == OWidth - c.edges.l - MinCrop
MaxTop(c) == c.edges.b - MinCrop
MaxBottom(c) == OHeight - c.edges.t - MinCrop
\* Each corner: the sliders of its sides.
SidesOf == [TL |-> <<"Left", "Top">>, TR |-> <<"Right", "Top">>,
            BL |-> <<"Left", "Bottom">>, BR |-> <<"Right", "Bottom">>]
SideMax(c, s) ==
    CASE s = "Left" -> MaxLeft(c) [] s = "Right" -> MaxRight(c)
      [] s = "Top" -> MaxTop(c) [] s = "Bottom" -> MaxBottom(c)
SideKey == [Left |-> "cropl", Right |-> "cropr", Top |-> "cropt", Bottom |-> "cropb"]
CornerMax(c, s) == Clip(SideMax(c, SidesOf[s][1]), 0, AcrossFor(c, SideMax(c, SidesOf[s][2])))
CornerValue(c, a, s) ==
    Clip(a[SideKey[SidesOf[s][1]]], 0, AcrossFor(c, a[SideKey[SidesOf[s][2]]]))
CropSliders == DOMAIN SideKey \cup DOMAIN SidesOf
CropMax(c, s) == IF s \in DOMAIN SideKey THEN SideMax(c, s) ELSE CornerMax(c, s)
CropValue(c, a, s) == IF s \in DOMAIN SideKey THEN a[SideKey[s]] ELSE CornerValue(c, a, s)

-----------------------------------------------------------------------------
(* The sliders.                                                               *)
ExpandLeft(e, d) == [e EXCEPT !.l = Clip(e.l - d, 0, e.r - MinCrop)]
ExpandRight(e, d) == [e EXCEPT !.r = Clip(e.r + d, e.l + MinCrop, OWidth)]
ExpandTop(e, d) == [e EXCEPT !.t = Clip(e.t - d, 0, e.b - MinCrop)]
ExpandBottom(e, d) == [e EXCEPT !.b = Clip(e.b + d, e.t + MinCrop, OHeight)]

\* Half above, then below, then above what is left of it; and likewise aside.
FitHeight(e, h) ==
    LET e1 == ExpandTop(e, (h - HeightOf(e)) \div 2)
        e2 == ExpandBottom(e1, h - HeightOf(e1))
    IN ExpandTop(e2, h - HeightOf(e2))
FitWidth(e, w) ==
    LET e1 == ExpandLeft(e, (w - WidthOf(e)) \div 2)
        e2 == ExpandRight(e1, w - WidthOf(e1))
    IN ExpandLeft(e2, w - WidthOf(e2))

Keeps(c) == c.mode = "Aspect"
SlideLeft(c, v) ==
    LET e == [c.edges EXCEPT !.l = Clip(v, 0, MaxLeft(c))]
        f == FitHeight(e, DownFor(c, WidthOf(e)))
    IN IF Keeps(c) THEN [f EXCEPT !.r = f.l + AcrossFor(c, HeightOf(f))] ELSE e
SlideRight(c, v) ==
    LET e == [c.edges EXCEPT !.r = OWidth - Clip(v, 0, MaxRight(c))]
        f == FitHeight(e, DownFor(c, WidthOf(e)))
    IN IF Keeps(c) THEN [f EXCEPT !.l = f.r - AcrossFor(c, HeightOf(f))] ELSE e

SlideTop(c, v) ==
    LET e == [c.edges EXCEPT !.t = Clip(v, 0, MaxTop(c))]
        f == FitWidth(e, AcrossFor(c, HeightOf(e)))
    IN IF Keeps(c) THEN [f EXCEPT !.b = f.t + DownFor(c, WidthOf(f))] ELSE e
SlideBottom(c, v) ==
    LET e == [c.edges EXCEPT !.b = OHeight - Clip(v, 0, MaxBottom(c))]
        f == FitWidth(e, AcrossFor(c, HeightOf(e)))
    IN IF Keeps(c) THEN [f EXCEPT !.t = f.b - DownFor(c, WidthOf(f))] ELSE e

CornerMove(c, a, s, v) == Clip(v, 0, CornerMax(c, s)) - CornerValue(c, a, s)
SlideTL(c, a, v) ==
    LET e == ExpandLeft(c.edges, -CornerMove(c, a, "TL", v))
    IN [e EXCEPT !.t = e.b - DownFor(c, WidthOf(e))]
SlideTR(c, a, v) ==
    LET e == ExpandRight(c.edges, -CornerMove(c, a, "TR", v))
    IN [e EXCEPT !.t = e.b - DownFor(c, WidthOf(e))]
SlideBL(c, a, v) ==
    LET e == ExpandLeft(c.edges, -CornerMove(c, a, "BL", v))
    IN [e EXCEPT !.b = e.t + DownFor(c, WidthOf(e))]
SlideBR(c, a, v) ==
    LET e == ExpandRight(c.edges, -CornerMove(c, a, "BR", v))
    IN [e EXCEPT !.b = e.t + DownFor(c, WidthOf(e))]

Slid(c, a, s, v) ==
    [c EXCEPT !.edges =
        CASE s = "Left" -> SlideLeft(c, v) [] s = "Right" -> SlideRight(c, v)
          [] s = "Top" -> SlideTop(c, v) [] s = "Bottom" -> SlideBottom(c, v)
          [] s = "TL" -> SlideTL(c, a, v) [] s = "TR" -> SlideTR(c, a, v)
          [] s = "BL" -> SlideBL(c, a, v) [] s = "BR" -> SlideBR(c, a, v)]

-----------------------------------------------------------------------------
(* Aspect ratio and orientation.                                              *)
Root(n) == CHOOSE k \in 0 .. n : k * k <= n /\ (k + 1) * (k + 1) > n
Flipped(p) == [w |-> p.h, h |-> p.w]
\* "Auto" compares the height with itself, and so takes any picture for one
\* that is wide.
Oriented(p, orient) ==
    IF orient = "Portrait" THEN (IF p.w > p.h THEN Flipped(p) ELSE p)
    ELSE IF p.w < p.h THEN Flipped(p) ELSE p
AspectOf(c) == [w |-> WidthOf(c.edges), h |-> HeightOf(c.edges)]

\* Mutant of ShiftInto: only from beyond the left or the top.
ShiftFromBefore(x, len, size) == IF x < 0 THEN 0 ELSE x

ShiftInto(x, len, size) == IF x < 0 THEN 0 ELSE IF x + len > size THEN size - len ELSE x
SetAspect(c, p) ==
    LET e == c.edges
        area == WidthOf(e) * HeightOf(e)
        w0 == Root((area * p.w) \div p.h)
        h0 == Root((area * p.h) \div p.w)
        tooWide == w0 > OWidth
        tooHigh == ~tooWide /\ h0 > OHeight
        w == IF tooWide THEN OWidth ELSE IF tooHigh THEN (OHeight * p.w) \div p.h ELSE w0
        h == IF tooWide THEN (OWidth * p.h) \div p.w ELSE IF tooHigh THEN OHeight ELSE h0
        l == ShiftInto((e.l + e.r - w) \div 2, w, OWidth)
        t == ShiftInto((e.t + e.b - h) \div 2, h, OHeight)
    IN [c EXCEPT !.mode = "Aspect", !.aspect = p,
                 !.edges = [l |-> l, r |-> l + w, t |-> t, b |-> t + h]]
SetOrient(c, orient) ==
    [SetAspect(c, Oriented(AspectOf(c), orient)) EXCEPT !.mode = c.mode]
Optimize(c) ==
    LET whole == [c EXCEPT !.edges = WholePicture]
    IN IF Keeps(c) THEN SetAspect(whole, c.aspect) ELSE whole

\* The buttons.
ToggleMode(c, mode) ==
    IF mode = c.mode THEN c
    ELSE IF mode = "Free" THEN [c EXCEPT !.mode = "Free"] ELSE SetAspect(c, AspectOf(c))
Turns(c, orient) ==
    \/ orient = "Landscape" /\ WidthOf(c.edges) < HeightOf(c.edges)
    \/ orient = "Portrait" /\ WidthOf(c.edges) > HeightOf(c.edges)
ToggleOrient(c, orient) == SetOrient([c EXCEPT !.orient = orient], orient)
ClickAspect(c, p) == SetAspect(c, Oriented(p, c.orient))
=============================================================================
