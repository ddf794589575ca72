------------------------------- MODULE Layers -------------------------------
(* The layers of a version and their adjustments, in the database: the table  *)
(* layers, which maps a row's id to the row, and the adjustments of each row. *)
(* What a layer covers is told by its type.                                   *)
EXTENDS Adjustments

\* db: [adj: version -> rows, layers: id -> row, ladj: id -> rows]
-----------------------------------------------------------------------------
LayerIds(db, v) == {i \in DOMAIN db.layers : db.layers[i].version = v}
Count(db, v) == Cardinality(LayerIds(db, v))
HasLayer(db, v, n) == \E i \in LayerIds(db, v) : db.layers[i].stacking = n
LayerId(db, v, n) == CHOOSE i \in LayerIds(db, v) : db.layers[i].stacking = n
LayerAt(db, v, n) == [active |-> db.layers[LayerId(db, v, n)].active, typ |-> db.layers[LayerId(db, v, n)].typ]
LayerTypes == {"LinearGradient", "Curve", "Area", "Clone", "Inpaint"}
NoRows == [k \in {} |-> 0]
With(f, x, y) == [z \in DOMAIN f \cup {x} |-> IF z = x THEN y ELSE f[z]]
NewLayer(typ) == [active |-> TRUE, typ |-> typ]
\* The id of a row that is deleted is used again if it was the last.
NextId(db) == 1 + Max({0} \cup DOMAIN db.layers)

Row(v, n, layer) == [version |-> v, stacking |-> n, active |-> layer.active, typ |-> layer.typ]
WriteLayer(db, v, n, layer) ==
    LET id == IF HasLayer(db, v, n) THEN LayerId(db, v, n) ELSE NextId(db)
    IN [db EXCEPT !.layers = With(@, id, Row(v, n, layer)),
                  !.ladj = IF id \in DOMAIN @ THEN @ ELSE With(@, id, NoRows)]

AddLayer(db, v, layer) == WriteLayer(db, v, Count(db, v) + 1, layer)
Restacked(db, v, where) ==
    [db EXCEPT !.layers =
        [i \in DOMAIN db.layers |->
            LET row == db.layers[i]
            IN IF row.version = v THEN [row EXCEPT !.stacking = where[row.stacking]] ELSE row]]
Swapped(db, v, n, m) ==
    Restacked(db, v, [k \in 1 .. Count(db, v) |-> IF k = n THEN m ELSE IF k = m THEN n ELSE k])
RaiseLayer(db, v, n) == IF n = Count(db, v) THEN db ELSE Swapped(db, v, n, n + 1)
LowerLayer(db, v, n) == IF n = 1 THEN db ELSE Swapped(db, v, n, n - 1)

\* Mutant of DropLayer: the adjustments are left behind.
DropLayerOnly(db, v, n) ==
    LET id == LayerId(db, v, n) IN [db EXCEPT !.layers = [i \in DOMAIN @ \ {id} |-> @[i]]]

\* The adjustments of the row go with it.
DropLayer(db, v, n) ==
    LET id == LayerId(db, v, n)
    IN [db EXCEPT !.layers = [i \in DOMAIN @ \ {id} |-> @[i]], !.ladj = [i \in DOMAIN @ \ {id} |-> @[i]]]

DeleteLayer(db, v, n) ==
    Restacked(DropLayer(db, v, n), v, [k \in 1 .. Count(db, v) |-> IF k > n THEN k - 1 ELSE k])
SetLayer(db, v, n, layer) == WriteLayer(db, v, n, layer)

-----------------------------------------------------------------------------
(* AllAdjustments: those of the base, the layers, and those of the layers.    *)
LayerAdjustments(db, v, n) == ReadRows(db.ladj[LayerId(db, v, n)])
Blank == [layer |-> NewLayer("Invalid"), adj |-> Defaults]
RereadFromDB(all, db, v, n0) ==
    LET Kept(n) == n < n0 /\ n <= Len(all.layers)
        From(n) == IF n >= n0 THEN [layer |-> LayerAt(db, v, n), adj |-> LayerAdjustments(db, v, n)]
                   ELSE IF Kept(n) THEN all.layers[n] ELSE Blank
    IN [base |-> IF n0 = 0 THEN ReadRows(db.adj[v]) ELSE all.base,
        layers |-> [n \in 1 .. Count(db, v) |-> From(n)]]
NoAdjustments == [base |-> Defaults, layers |-> <<>>]
AllFromDB(db, v) == RereadFromDB(NoAdjustments, db, v, 0)
=============================================================================
