------------------------------ MODULE Geometry ------------------------------
(* Sizes of images, and what cropping and scaling make of them.  A factor is  *)
(* a fraction <<num, den>>; lengths are rounded as a conversion of x + 1/2 to *)
(* a whole number does.                                                       *)
EXTENDS Adjustments

Empty == [w |-> 0, h |-> 0]
IsEmpty(s) == s.w <= 0 \/ s.h <= 0

ContainsSize(s, t) == s.w >= t.w /\ s.h >= t.h
Exceeds(s, t) == ~ContainsSize(t, s)
IsLargeEnoughFor(s, t) == s.w >= t.w \/ s.h >= t.h

Length(len, f) ==
    LET n == 2 * len * f[1] + f[2] IN IF n < 0 THEN -((-n) \div (2 * f[2])) ELSE n \div (2 * f[2])
Times(s, f) == [w |-> Length(s.w, f), h |-> Length(s.h, f)]
Below(f, g) == f[1] * g[2] < g[1] * f[2]

ScaleFactorToSnuglyFitIn(s, t) ==
    IF IsEmpty(s) THEN <<1, 1>> ELSE IF IsEmpty(t) THEN <<0, 1>>
    ELSE IF t.w * s.h < t.h * s.w THEN <<t.w, s.w>> ELSE <<t.h, s.h>>
ScaledToFitSnuglyIn(s, t) ==
    IF IsEmpty(s) \/ IsEmpty(t) THEN s ELSE Times(s, ScaleFactorToSnuglyFitIn(s, t))

-----------------------------------------------------------------------------
(* Of an original of size osize, of which a copy of size scaled is at hand.   *)
CroppedSize(osize, a) ==
    [w |-> osize.w - a["cropl"] - a["cropr"], h |-> osize.h - a["cropt"] - a["cropb"]]
ScaledCroppedSize(osize, a, scaled) ==
    IF IsEmpty(osize) THEN Empty
    ELSE [w |-> Length(CroppedSize(osize, a).w, <<scaled.w, osize.w>>),
          h |-> Length(CroppedSize(osize, a).h, <<scaled.h, osize.h>>)]
NeededScaledOriginalSize(osize, a, desired) ==
    LET fac == ScaleFactorToSnuglyFitIn(CroppedSize(osize, a), desired)
    IN IF Below(<<1, 1>>, fac) THEN osize ELSE Times(osize, fac)
=============================================================================
