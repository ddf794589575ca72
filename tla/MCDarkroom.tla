----------------------------- MODULE MCDarkroom -----------------------------
(* Two versions of a photo of 60 by 40: one with a layer, one without.        *)
EXTENDS Darkroom

CONSTANTS v1, v2

MCKeys == {"expose", "wb", "saturation", "nlcontrast", "nlcontrastscale", "umask", "umaskr",
           "cropl", "cropr", "cropt", "cropb"}
MCGroups == [exposure |-> {"expose", "wb"}, saturation |-> {"saturation"},
             detail |-> {"nlc_strength", "nlc_localness", "umask", "umaskr"},
             recompose |-> {"cropl", "cropr", "cropt", "cropb"}]
OneStep(lo, hi) == [min |-> lo, max |-> hi, step |-> 1, page |-> 1]
MCLimits ==
    [expose |-> OneStep(0, 2), wb |-> OneStep(0, 1), saturation |-> OneStep(0, 1),
     nlc_strength |-> OneStep(0, 1), nlc_localness |-> OneStep(0, 1),
     umask |-> OneStep(0, 1), umaskr |-> OneStep(0, 1)] @@
    [s \in {"cropl", "cropr", "cropt", "cropb"} |-> [min |-> 0, max |-> 5, step |-> 5, page |-> 5]]

MCWindow == [w |-> 30, h |-> 20]
MCZooms == {<<1, 4>>, <<1, 1>>}
MCAspects == {[w |-> 1, h |-> 1], [w |-> 3, h |-> 2]}

Rows(k, x) == [j \in {k} |-> x]
Database(base, layers, ladj) ==
    [adj |-> (v1 :> base) @@ (v2 :> Rows("umask", 1)), layers |-> layers, ladj |-> ladj]
OneLayer(base) ==
    Database(base, (1 :> Row(v1, 1, NewLayer("Area"))), (1 :> Rows("saturation", 1)))
TwoLayers(base) ==
    Database(base, (1 :> Row(v1, 2, NewLayer("Area"))) @@ (2 :> Row(v1, 1, NewLayer("LinearGradient"))),
             (1 :> Rows("saturation", 1)) @@ (2 :> NoRows))
MCPhotos == {OneLayer(Rows("expose", 1)), OneLayer(NoRows), TwoLayers(Rows("expose", 1))}
MCCopied == {Rows("cropl", 5)}
MCRaw == {v2}
=============================================================================
