------------------------------ MODULE Adjuster ------------------------------
(***************************************************************************)
(* Adjuster: applies the adjustments of one layer in stages, and keeps the *)
(* outcome of each stage for the next time.                                *)
(*                                                                         *)
(* An image is its content and its size.  The content is the history of    *)
(* the picture: a sequence of steps <<name, what went into it>>, in which  *)
(* scaling does not count.  A tile is a stage, its image, the adjustments  *)
(* made so far, and the size of the original that it stems from.           *)
(***************************************************************************)
EXTENDS Geometry

CONSTANT None       \* the null image

\* The adjustments of which a value, not a set of them, decides on a step.
ASSUME KeysAssumption == {"nlcontrast", "umask"} \subseteq Keys

SizeOf(img) == IF img = None THEN Empty ELSE img.size

-----------------------------------------------------------------------------
(* The stages.                                                                *)
Stages == <<"Original", "Reduced", "XYZ", "Equalize", "IPT", "UMask", "Geometry">>
Place(stage) == CHOOSE i \in DOMAIN Stages : Stages[i] = stage
FieldsXYZ == {"expose", "black", "blackyb", "blackrg", "wb", "wbg"}
FieldsEqualize == {"nlcontrast", "nlcontrastscale"}
FieldsIPT == {"shadows", "midtones", "highlights", "saturation", "vibrance"}
FieldsUMask == {"umask", "umaskr"}
FieldsGeometry == {"rotate", "cropl", "cropr", "cropt", "cropb",
                   "perspv", "persph", "shearv", "shearh"}
Fields(stage) ==
    CASE stage = "XYZ" -> FieldsXYZ [] stage = "Equalize" -> FieldsEqualize
      [] stage = "IPT" -> FieldsIPT [] stage = "UMask" -> FieldsUMask
      [] stage = "Geometry" -> FieldsGeometry

Step(stage, a) == <<stage, [k \in Fields(stage) \cap Keys |-> a[k]]>>
XYZ(content, a) == Append(content, Step("XYZ", a))
Equalize(content, a) == IF a["nlcontrast"] = 0 THEN content ELSE Append(content, Step("Equalize", a))
IPT(content, a) == Append(content, Step("IPT", a))
UMask(content, a) == IF a["umask"] = 0 THEN content ELSE Append(content, Step("UMask", a))
Effect(stage, content, a) ==
    CASE stage = "XYZ" -> XYZ(content, a) [] stage = "Equalize" -> Equalize(content, a)
      [] stage = "IPT" -> IPT(content, a) [] stage = "UMask" -> UMask(content, a)
      [] stage = "Geometry" -> Append(content, Step("Geometry", a))

\* A crop that leaves nothing makes a single grey point.
Cropped(size, osize, a) ==
    LET s == ScaledCroppedSize(osize, a, size) IN IF IsEmpty(s) THEN [w |-> 1, h |-> 1] ELSE s

Applied(stage, tile, a) ==
    [tile EXCEPT !.stage = stage, !.image.content = Effect(stage, @, a),
                 !.image.size = IF stage = "Geometry" THEN Cropped(@, tile.osize, a) ELSE @,
                 !.settings = [k \in Keys |-> IF k \in Fields(stage) THEN a[k] ELSE @[k]]]

\* Without an adjuster: what the adjustments make of a content.
After(stage, content, a) ==
    IF DefaultIn(a, Fields(stage)) THEN content ELSE Effect(stage, content, a)
Adjusted(content, a) ==
    After("Geometry",
          After("UMask", After("IPT", After("Equalize", After("XYZ", content, a), a), a), a), a)

-----------------------------------------------------------------------------
(* The state of an adjuster: its tiles.                                       *)
Tile(img, stage, osize) == [stage |-> stage, image |-> img, settings |-> Defaults, osize |-> osize]
SetOriginal(img) == <<Tile(img, "Original", SizeOf(img))>>
SetReduced(img, osize) == <<Tile(img, "Reduced", osize)>>

InputSize(tiles) == IF tiles = <<>> THEN Empty ELSE SizeOf(tiles[1].image)
MaxAvailableSize(tiles, a) ==
    IF tiles = <<>> THEN Empty ELSE ScaledCroppedSize(tiles[1].osize, a, SizeOf(tiles[1].image))

DropFrom(tiles, k) == SubSeq(tiles, 1, k - 1)
ScaledTile(tile, size) ==
    [tile EXCEPT !.stage = "Reduced", !.image.size = ScaledToFitSnuglyIn(@, size)]
WorthScaling == <<4, 5>>
\* The smallest of the scaled originals that will do is kept, and scaled again
\* where that is worth it.
ApplyNeedBasedScaling(tiles, a, size) ==
    LET needed == NeededScaledOriginalSize(tiles[1].osize, a, size)
        Small(i) == Place(tiles[i].stage) <= 2
        Good(i) == Small(i) /\ IsLargeEnoughFor(tiles[i].image.size, needed)
        ends == {i \in 1 .. Len(tiles) : i = Len(tiles) \/ ~Good(i + 1)}
        k == CHOOSE i \in ends : \A j \in ends : i <= j
        kept == IF k < Len(tiles) /\ Small(k + 1) THEN DropFrom(tiles, k + 1) ELSE tiles
    IN IF Below(ScaleFactorToSnuglyFitIn(tiles[k].image.size, needed), WorthScaling)
       THEN Append(DropFrom(kept, k + 1), ScaledTile(tiles[k], needed))
       ELSE kept

FindParentStage(tiles, stage) ==
    LET later == {i \in DOMAIN tiles : Place(tiles[i].stage) >= Place(stage)}
    IN IF later = {} THEN Len(tiles) ELSE (CHOOSE i \in later : \A j \in later : i <= j) - 1

\* Mutant of AlreadyGood: a stage that is not needed is taken to be good.
AlreadyGoodIfDefault(tiles, p, stage, a) ==
    \/ DefaultIn(a, Fields(stage))
    \/ Len(tiles) > p /\ Equivalent(tiles[p + 1].settings, a, Fields(stage))

AlreadyGood(tiles, p, stage, a) ==
    Len(tiles) > p /\ Equivalent(tiles[p + 1].settings, a, Fields(stage))

\* cut is the stage at which the computation is interrupted, if it gets there; p the
\* last tile that does not depend on the stage.
ApplyStageTo(did, p, stage, a, cut) ==
    LET kept == SubSeq(did.tiles, 1, p)
    IN IF ~did.ok \/ AlreadyGood(did.tiles, p, stage, a) THEN did
       ELSE IF DefaultIn(a, Fields(stage)) THEN [did EXCEPT !.tiles = kept]
       ELSE IF stage = cut THEN [tiles |-> kept, ok |-> FALSE]
       ELSE [did EXCEPT !.tiles = Append(kept, Applied(stage, Last(kept), a))]
ApplyStage(did, stage, a, cut) ==
    ApplyStageTo(did, FindParentStage(did.tiles, stage), stage, a, cut)
ApplySettings(tiles, a, cut) ==
    LET did == [tiles |-> tiles, ok |-> TRUE]
        xyz == ApplyStage(did, "XYZ", a, cut)
        equalize == ApplyStage(xyz, "Equalize", a, cut)
        ipt == ApplyStage(equalize, "IPT", a, cut)
        umask == ApplyStage(ipt, "UMask", a, cut)
    IN ApplyStage(umask, "Geometry", a, cut)

\* The image, and the tiles it leaves.
Outcome(scaled, did, a) ==
    IF Last(scaled).settings = a THEN [tiles |-> scaled, img |-> Last(scaled).image]
    ELSE [tiles |-> did.tiles, img |-> IF did.ok THEN Last(did.tiles).image ELSE None]
FromScaled(scaled, a, cut) == Outcome(scaled, ApplySettings(scaled, a, cut), a)
RetrieveReduced(tiles, a, size, cut) ==
    IF InputSize(tiles) = Empty THEN [tiles |-> tiles, img |-> None]
    ELSE FromScaled(ApplyNeedBasedScaling(tiles, a, size), a, cut)
=============================================================================
