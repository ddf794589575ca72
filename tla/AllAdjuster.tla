---------------------------- MODULE AllAdjuster ----------------------------
(***************************************************************************)
(* AllAdjuster: an adjuster for the base and one for each layer, of which  *)
(* the input is the image of everything below.  aa is [base, layers,       *)
(* valid]: the tiles of each, and the last layer whose input is said to be *)
(* valid (0 for the base).                                                 *)
(*                                                                         *)
(* The settings of the last request are compared with, but never stored:   *)
(* they remain those of an AllAdjuster without a request.  The sizes that  *)
(* the layers have to offer are determined once in the life of the         *)
(* program, by the first request that asks for them.                       *)
(***************************************************************************)
EXTENDS Adjuster, Layers

CONSTANT Unknown    \* the sizes on offer, before they are determined

NoInput == [base |-> <<>>, layers |-> <<>>, valid |-> -1]
ClearAll(aa) ==
    [base |-> <<>>, layers |-> [n \in DOMAIN aa.layers |-> <<>>], valid |-> -1]
SetReducedAll(aa, img, osize) ==
    [ClearAll(aa) EXCEPT !.base = SetReduced(img, osize), !.valid = 0]
EnsureAdjusters(aa, count) ==
    [aa EXCEPT !.layers = [n \in 1 .. Max({count, Len(@)}) |-> IF n <= Len(@) THEN @[n] ELSE <<>>]]

-----------------------------------------------------------------------------
(* Where to start.                                                            *)
PrepMAS(aa, all) ==
    <<MaxAvailableSize(aa.base, all.base)>> \o [n \in DOMAIN all.layers |-> InputSize(aa.layers[n])]
\* f counts from one, for the layer above the base; beyond the list anything
\* may be read.
NoSizeLimit(mas, f, size) ==
    IF f < Len(mas) THEN {ContainsSize(mas[f + 1], size) \/ mas[f + 1] = mas[f]} ELSE BOOLEAN

AsksForSizes(aa, all) == all.layers # <<>> /\ aa.valid >= 1
MasAfter(mas, aa, all) ==
    IF mas = Unknown /\ AsksForSizes(aa, all) THEN PrepMAS(aa, all) ELSE mas
\* Beyond the first layer the last request, which has no layers, is looked into
\* where it has nothing: 0 stands for the end of the program.
Starts(mas, aa, all, size) ==
    LET first == IF AsksForSizes(aa, all) THEN NoSizeLimit(mas, 1, size) ELSE {FALSE}
        second == IF Len(all.layers) > 1 /\ aa.valid > 1 THEN NoSizeLimit(mas, 2, size) ELSE {FALSE}
        goOn == first # {FALSE} /\ all.base = Defaults
    IN {f \in {0, 1, 2} :
          \/ f = 1 /\ (FALSE \in first \/ all.base # Defaults)
          \/ f = 2 /\ goOn /\ FALSE \in second
          \/ f = 0 /\ goOn /\ TRUE \in second}

-----------------------------------------------------------------------------
(* Layer upon layer.  did is [aa, img, cut]; cut is [level, stage]: where the *)
(* computation will be interrupted.                                           *)
TilesOf(aa, level) == IF level = 0 THEN aa.base ELSE aa.layers[level]
SettingsOf(all, level) == IF level = 0 THEN all.base ELSE all.layers[level].adj
Retrieved(did, level, r) ==
    [aa |-> IF level = 0 THEN [did.aa EXCEPT !.base = r.tiles]
            ELSE [did.aa EXCEPT !.layers[level] = r.tiles],
     img |-> r.img,
     cut |-> IF did.cut.level = level THEN [level |-> -1, stage |-> ""] ELSE did.cut]
GetImageAt(did, all, level, size) ==
    Retrieved(did, level,
              RetrieveReduced(TilesOf(did.aa, level), SettingsOf(all, level), size,
                              IF did.cut.level = level THEN did.cut.stage ELSE ""))

ApplyClone(img) ==
    IF img = None THEN None ELSE [img EXCEPT !.content = Append(@, <<"Clone", "">>)]
\* What the layer covers; the area of a layer that is hidden is empty.
MaskOf(layer) == IF layer.active THEN layer.typ ELSE "Nothing"
AlphaBlended(content, top, mask) ==
    IF mask = "Nothing" THEN content ELSE Append(content, <<"Over", <<top, mask>>>>)
Over(content, top, layer) == AlphaBlended(content, top, MaskOf(layer))
\* Of images whose sizes differ, the one on top is taken.
ApplyMask(below, top, layer) ==
    IF SizeOf(below) # SizeOf(top) \/ top = None THEN top
    ELSE [below EXCEPT !.content = Over(@, top.content, layer)]

WithMask(top, below, layer) == [top EXCEPT !.img = ApplyMask(below.img, @, layer)]
ApplyLayer(below, all, n, size) ==
    IF all.layers[n].layer.typ = "Clone"
    THEN [below EXCEPT !.img = ApplyClone(@)]
    ELSE WithMask(GetImageAt(below, all, n, size), below, all.layers[n].layer)
LayerOver(did, all, n, size) ==
    ApplyLayer(IF did.img = None THEN GetImageAt(did, all, n - 1, size) ELSE did, all, n, size)

FeedLayer(did, all, f) ==
    IF f > Len(all.layers) THEN did
    ELSE [did EXCEPT !.aa.layers[f] = SetOriginal(did.img), !.aa.valid = f]

Climb(did, all, f, size) ==
    FeedLayer(IF f = 1 THEN GetImageAt(did, all, 0, size) ELSE LayerOver(did, all, f - 1, size), all, f)
Climbed(aa, all, size, start, cut) ==
    LET did == [aa |-> EnsureAdjusters(aa, Len(all.layers)), img |-> None, cut |-> cut]
        climbed[f \in start - 1 .. Len(all.layers) + 1] ==
            IF f = start - 1 THEN did ELSE Climb(climbed[f - 1], all, f, size)
    IN climbed
RetrieveAll(aa, all, size, start, cut) ==
    IF aa.valid < 0 THEN [aa |-> aa, img |-> None]
    ELSE Climbed(aa, all, size, start, cut)[Len(all.layers) + 1]

\* Where it may be interrupted, if not nowhere.
Cuts(all) == {[level |-> l, stage |-> Stages[i]] : l \in 0 .. Len(all.layers), i \in 3 .. 7}
NoCut == [level |-> -1, stage |-> ""]

-----------------------------------------------------------------------------
(* What the settings say the picture is.                                      *)
Covered(content, l) ==
    IF l.layer.typ = "Clone" THEN Append(content, <<"Clone", "">>)
    ELSE Over(content, Adjusted(content, l.adj), l.layer)
UpTo(v, all) ==
    LET upTo[n \in 0 .. Len(all.layers)] ==
            IF n = 0 THEN Adjusted(<<<<"Photo", v>>>>, all.base) ELSE Covered(upTo[n - 1], all.layers[n])
    IN upTo
Reference(v, all) == UpTo(v, all)[Len(all.layers)]
=============================================================================
