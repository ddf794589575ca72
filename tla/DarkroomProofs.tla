--------------------------- MODULE DarkroomProofs ---------------------------
(***************************************************************************)
(* The layers of a version stay stacked, and the controls, the dialogue    *)
(* and LiveAdjuster keep what the database has, for any adjustments,       *)
(* sliders, versions, sizes and databases to begin with.  Then: the        *)
(* picture on the slide is what the settings make of the photo.  Adjuster  *)
(* and AllAdjuster are treated as operators; PicInv is the invariant of    *)
(* the thread, LiveAdjuster and the slide.                                 *)
(***************************************************************************)
EXTENDS Darkroom, FiniteSetTheorems, WellFoundedInduction, TLAPS

IsSound(d) == IsDatabase(d) /\ Stacked(d)

\* The dialogue shows the layers of v as d has them, and has the one selected
\* at hand.
DialogRight(g, d, v) ==
  /\ g = [vsn |-> v, rows |-> Count(d, v), selected |-> g.selected, adjs |-> g.adjs,
          sliders |-> g.sliders]
  /\ g.selected \in 0 .. Count(d, v)
  /\ DOMAIN g.adjs \subseteq 1 .. Count(d, v)
  /\ \A n \in DOMAIN g.adjs : g.adjs[n] = LayerAdjustments(d, v, n)
  /\ g.selected > 0 => g.selected \in DOMAIN g.adjs /\ g.sliders = g.adjs[g.selected]

\* The controls have the adjustments of v as d has them.
ControlsRight(c, d, v) ==
  /\ c = [vsn |-> v, adjs |-> c.adjs, sliders |-> c.sliders, crop |-> c.crop]
  /\ c.adjs = ReadRows(d.adj[v]) /\ c.sliders = c.adjs

LiveRight(l, d, v) ==
  l = [version |-> v, all |-> AllFromDB(d, v), target |-> l.target, mustshow |-> l.mustshow]

KnownInv ==
  /\ IsSound(db) /\ ctl.vsn \in Versions
  /\ ControlsRight(ctl, db, ctl.vsn)
  /\ DialogRight(dlg, db, ctl.vsn)
  /\ LiveRight(live, db, ctl.vsn)

-----------------------------------------------------------------------------
(* Finite sets of numbers *)

LEMMA LeastNumber ==
  ASSUME NEW S \in SUBSET Nat, S # {}
  PROVE  \E n \in S : \A m \in S : n <= m
<1> DEFINE R == {ss \in Nat \X Nat : ss[1] < ss[2]}
<1>1. IsWellFoundedOn(R, Nat)
  BY NatLessThanWellFounded, Zenon DEF OpToRel
<1>2. PICK n \in S : \A m \in S : ~ (<<m, n>> \in R)
  <2>1. S \subseteq Nat
    OBVIOUS
  <2> HIDE DEF R
  <2> QED
    BY <2>1, <1>1, WFMin
<1>3. ASSUME NEW m \in S PROVE n <= m
  <2>1. m \in Nat /\ n \in Nat
    OBVIOUS
  <2>2. m < n => <<m, n>> \in R
    BY <2>1
  <2> QED
    BY <1>2, <2>1, <2>2
<1> QED
  BY <1>3

\* A finite set of numbers has a bound: a smallest set without one would have
\* one but for one of its members.
LEMMA FiniteIsBounded ==
  ASSUME NEW S \in SUBSET Nat, IsFiniteSet(S)
  PROVE  \E b \in Nat : \A x \in S : x <= b
<1> DEFINE Bounded(T) == \E b \in Nat : \A x \in T : x <= b
           Sizes == {Cardinality(T) : T \in {U \in SUBSET S : ~Bounded(U)}}
<1>1. \A T \in SUBSET S : T \subseteq Nat /\ IsFiniteSet(T) /\ Cardinality(T) \in Nat
  BY FS_Subset, FS_CardinalityType
<1> SUFFICES ASSUME ~Bounded(S) PROVE FALSE
  OBVIOUS
<1>2. Sizes # {} /\ Sizes \subseteq Nat
  BY <1>1
<1>3. PICK n \in Sizes : \A m \in Sizes : n <= m
  <2> HIDE DEF Sizes
  <2> QED
    BY <1>2, LeastNumber
<1>4. PICK T \in SUBSET S : ~Bounded(T) /\ Cardinality(T) = n
  BY <1>3
<1>5. PICK x \in T : TRUE
  BY <1>4
<1>6. Cardinality(T \ {x}) = Cardinality(T) - 1 /\ Cardinality(T) \in Nat
  BY <1>1, FS_RemoveElement
<1>7. Bounded(T \ {x})
  <2>1. T \ {x} \in SUBSET S
    OBVIOUS
  <2>2. ~Bounded(T \ {x}) => Cardinality(T \ {x}) \in Sizes
    BY <2>1
  <2>3. Cardinality(T \ {x}) \notin Sizes
    <3> HIDE DEF Sizes
    <3> QED
      BY <1>3, <1>4, <1>6
  <2> HIDE DEF Sizes, Bounded
  <2> QED
    BY <2>2, <2>3
<1>8. PICK b \in Nat : \A y \in T \ {x} : y <= b
  BY <1>7
<1>9. x \in Nat /\ \A y \in T : y \in Nat
  OBVIOUS
<1>10. PICK c \in Nat : b <= c /\ x <= c
  BY <1>9
<1>11. \A y \in T : y <= c
  BY <1>8, <1>9, <1>10
<1> QED
  BY <1>4, <1>11

LEMMA GreatestNumber ==
  ASSUME NEW S \in SUBSET Nat, IsFiniteSet(S), S # {}
  PROVE  Max(S) \in S /\ \A x \in S : Max(S) >= x
<1> DEFINE Bounds == {b \in Nat : \A x \in S : x <= b}
<1>1. Bounds # {} /\ Bounds \subseteq Nat
  BY FiniteIsBounded
<1>2. PICK b \in Bounds : \A c \in Bounds : b <= c
  <2> HIDE DEF Bounds
  <2> QED
    BY <1>1, LeastNumber
<1>3. b \in S
  <2> SUFFICES ASSUME b \notin S PROVE FALSE
    OBVIOUS
  <2>1. \A x \in S : x \in Nat /\ x < b
    BY <1>2
  <2>2. b - 1 \in Nat
    <3>1. PICK x \in S : TRUE
      OBVIOUS
    <3>2. x \in Nat /\ x < b /\ b \in Nat
      BY <2>1, <1>2
    <3> QED
      BY <3>2
  <2>3. b - 1 \in Bounds
    BY <2>1, <2>2, <1>2
  <2> QED
    BY <1>2, <2>3
<1>4. \E x \in S : \A y \in S : x >= y
  BY <1>2, <1>3
<1> QED
  BY <1>4 DEF Max

-----------------------------------------------------------------------------
(* The layers in the database *)

LEMMA LayersAreFinite ==
  ASSUME NEW d, IsSound(d), NEW v \in Versions
  PROVE  IsFiniteSet(LayerIds(d, v)) /\ Count(d, v) \in Nat
<1>1. LayerIds(d, v) \subseteq DOMAIN d.layers /\ IsFiniteSet(DOMAIN d.layers)
  BY DEF LayerIds, IsSound, IsDatabase
<1> QED
  BY <1>1, FS_Subset, FS_CardinalityType DEF Count

\* As many layers as places: no two are at one place.
LEMMA PlacesDiffer ==
  ASSUME NEW d, IsSound(d), NEW v \in Versions
  PROVE  \A i, j \in LayerIds(d, v) : d.layers[i].stacking = d.layers[j].stacking => i = j
<1> DEFINE S == LayerIds(d, v)
           f == [i \in S |-> d.layers[i].stacking]
<1>1. IsFiniteSet(S) /\ Count(d, v) \in Nat /\ Count(d, v) = Cardinality(S)
  BY LayersAreFinite DEF Count
<1>2. {d.layers[i].stacking : i \in S} = 1 .. Count(d, v)
  BY DEF IsSound, Stacked
<1>3. Cardinality(1 .. Count(d, v)) = Cardinality(S)
  BY <1>1, FS_Interval
<1>4. f \in Surjection(S, 1 .. Count(d, v))
  <2> HIDE DEF S
  <2>1. \A n \in 1 .. Count(d, v) : \E i \in S : f[i] = n
    BY <1>2
  <2>2. f \in [S -> 1 .. Count(d, v)]
    BY <1>2
  <2> QED
    BY <2>1, <2>2 DEF Surjection
<1>5. f \in Injection(S, 1 .. Count(d, v))
  <2> HIDE DEF S, f
  <2> QED
    BY <1>1, <1>3, <1>4, FS_SurjSameCardinalityImpliesInj
<1> QED
  BY <1>5 DEF Injection, IsInjective

LEMMA LayerIdRight ==
  ASSUME NEW d, IsSound(d), NEW v \in Versions, NEW n \in 1 .. Count(d, v)
  PROVE  /\ LayerId(d, v, n) \in LayerIds(d, v)
         /\ d.layers[LayerId(d, v, n)].stacking = n
         /\ HasLayer(d, v, n)
         /\ \A i \in LayerIds(d, v) : d.layers[i].stacking = n => LayerId(d, v, n) = i
<1>1. n \in {d.layers[i].stacking : i \in LayerIds(d, v)}
  BY DEF IsSound, Stacked
<1>2. \E i \in LayerIds(d, v) : d.layers[i].stacking = n
  BY <1>1
<1>3. LayerId(d, v, n) \in LayerIds(d, v) /\ d.layers[LayerId(d, v, n)].stacking = n
  BY <1>2 DEF LayerId
<1> QED
  BY <1>2, <1>3, PlacesDiffer DEF HasLayer

LEMMA NextIdIsNew ==
  ASSUME NEW d, IsDatabase(d)
  PROVE  NextId(d) \in Nat /\ NextId(d) \notin DOMAIN d.layers
<1> DEFINE S == {0} \cup DOMAIN d.layers
<1>1. IsFiniteSet(S) /\ S \subseteq Nat /\ S # {}
  BY FS_AddElement DEF IsDatabase
<1>2. Max(S) \in Nat /\ \A x \in S : x \in Nat /\ Max(S) >= x
  <2> HIDE DEF S
  <2> QED
    BY <1>1, GreatestNumber
<1>3. NextId(d) = 1 + Max(S)
  BY DEF NextId
<1> HIDE DEF S
<1>4. NextId(d) \in Nat /\ NextId(d) \notin S
  BY <1>2, <1>3
<1> QED
  BY <1>4 DEF S

\* A layer that keeps its row's id is found again at its place.
LEMMA SameLayer ==
  ASSUME NEW d, IsSound(d), NEW e, IsSound(e), NEW v \in Versions,
         NEW n \in 1 .. Count(d, v), n \in 1 .. Count(e, v),
         NEW m \in 1 .. Count(e, v),
         LayerId(d, v, n) \in DOMAIN e.layers,
         e.layers[LayerId(d, v, n)].version = v, e.layers[LayerId(d, v, n)].stacking = m
  PROVE  LayerId(e, v, m) = LayerId(d, v, n)
  BY LayerIdRight DEF LayerIds


LEMMA RowTyped ==
  ASSUME NEW v \in Versions, NEW n \in Nat, NEW layer \in [active : BOOLEAN, typ : LayerTypes]
  PROVE  /\ Row(v, n, layer) \in LayerRows
         /\ Row(v, n, layer).version = v /\ Row(v, n, layer).stacking = n
         /\ Row(v, n, layer).active = layer.active /\ Row(v, n, layer).typ = layer.typ
  BY DEF Row, LayerRows

\* Writing a layer that is there changes its row.
LEMMA SetLayerRight ==
  ASSUME NEW d, IsSound(d), NEW v \in Versions, NEW n \in 1 .. Count(d, v),
         NEW layer \in [active : BOOLEAN, typ : LayerTypes], layer.typ = LayerAt(d, v, n).typ
  PROVE  LET e == SetLayer(d, v, n, layer)
         IN  /\ IsSound(e) /\ e.adj = d.adj /\ Count(e, v) = Count(d, v)
             /\ \A m \in 1 .. Count(d, v) :
                  /\ LayerAdjustments(e, v, m) = LayerAdjustments(d, v, m)
                  /\ m # n => LayerAt(e, v, m) = LayerAt(d, v, m)
<1> DEFINE e == SetLayer(d, v, n, layer)
           id == LayerId(d, v, n)
<1>d. IsDatabase(d) /\ DOMAIN d.ladj = DOMAIN d.layers /\ n \in Nat
  BY LayersAreFinite DEF IsSound, Stacked
<1>i. /\ id \in LayerIds(d, v) /\ id \in DOMAIN d.layers /\ HasLayer(d, v, n)
      /\ d.layers[id].stacking = n /\ d.layers[id].version = v /\ d.layers[id].typ = layer.typ
  BY LayerIdRight DEF LayerIds, LayerAt
<1>1. e = [d EXCEPT !.layers = With(d.layers, id, Row(v, n, layer))]
  BY <1>d, <1>i DEF SetLayer, WriteLayer, IsDatabase
<1>2. /\ e = [adj |-> d.adj, layers |-> e.layers, ladj |-> d.ladj]
      /\ e.layers = With(d.layers, id, Row(v, n, layer))
  BY <1>1, <1>d DEF IsDatabase
<1> HIDE DEF e
<1>3. /\ DOMAIN e.layers = DOMAIN d.layers /\ e.layers[id] = Row(v, n, layer)
      /\ \A i \in DOMAIN d.layers : i # id => e.layers[i] = d.layers[i]
  BY <1>2, <1>i DEF With
<1>4. e.layers \in [DOMAIN e.layers -> LayerRows]
  <2>1. e.layers = [i \in DOMAIN e.layers |-> e.layers[i]]
    BY <1>2 DEF With
  <2>2. \A i \in DOMAIN e.layers : e.layers[i] \in LayerRows
    BY <1>3, <1>d, RowTyped DEF IsDatabase
  <2> QED
    BY <2>1, <2>2
<1>5. IsDatabase(e)
  BY <1>2, <1>3, <1>4, <1>d DEF IsDatabase
<1>6. \A i \in DOMAIN d.layers : /\ e.layers[i].version = d.layers[i].version
                                 /\ e.layers[i].stacking = d.layers[i].stacking
                                 /\ e.layers[i].typ = d.layers[i].typ
  BY <1>3, <1>i, <1>d, RowTyped
<1>7. \A w : LayerIds(e, w) = LayerIds(d, w) /\ Count(e, w) = Count(d, w)
  BY <1>3, <1>6 DEF LayerIds, Count
<1>8. Stacked(e)
  <2>1. \A w : {e.layers[i].stacking : i \in LayerIds(e, w)}
               = {d.layers[i].stacking : i \in LayerIds(d, w)}
    BY <1>6, <1>7 DEF LayerIds
  <2> QED
    BY <2>1, <1>2, <1>3, <1>6, <1>7, <1>d DEF Stacked, IsSound
<1>9. IsSound(e)
  BY <1>5, <1>8 DEF IsSound
<1>10. ASSUME NEW m \in 1 .. Count(d, v)
       PROVE  /\ LayerAdjustments(e, v, m) = LayerAdjustments(d, v, m)
              /\ m # n => LayerAt(e, v, m) = LayerAt(d, v, m)
  <2>1. /\ LayerId(d, v, m) \in DOMAIN d.layers /\ d.layers[LayerId(d, v, m)].version = v
        /\ d.layers[LayerId(d, v, m)].stacking = m
    BY LayerIdRight DEF LayerIds
  <2>2. LayerId(e, v, m) = LayerId(d, v, m)
    BY <2>1, <1>3, <1>6, <1>7, <1>9, SameLayer
  <2>3. m # n => LayerId(d, v, m) # id
    BY <2>1, <1>i
  <2> QED
    BY <2>1, <2>2, <2>3, <1>2, <1>3 DEF LayerAdjustments, LayerAt
<1> QED
  BY <1>2, <1>7, <1>9, <1>10 DEF e

\* A layer that is added is a new row, without adjustments.
LEMMA AddLayerRight ==
  ASSUME NEW d, IsSound(d), NEW v \in Versions, NEW layer \in [active : BOOLEAN, typ : LayerTypes]
  PROVE  LET e == AddLayer(d, v, layer)
         IN  /\ IsSound(e) /\ e.adj = d.adj /\ Count(e, v) = Count(d, v) + 1
             /\ \A m \in 1 .. Count(d, v) :
                  /\ LayerAdjustments(e, v, m) = LayerAdjustments(d, v, m)
                  /\ LayerAt(e, v, m) = LayerAt(d, v, m)
<1> DEFINE e == AddLayer(d, v, layer)
           n == Count(d, v) + 1
           id == NextId(d)
           row == Row(v, n, layer)
<1>d. IsDatabase(d) /\ Stacked(d) /\ DOMAIN d.ladj = DOMAIN d.layers /\ n \in Nat /\ Count(d, v) \in Nat
  BY LayersAreFinite DEF IsSound, Stacked
<1>h. ~HasLayer(d, v, n)
  <2> SUFFICES ASSUME NEW i \in LayerIds(d, v), d.layers[i].stacking = n PROVE FALSE
    BY DEF HasLayer
  <2>1. n \in {d.layers[j].stacking : j \in LayerIds(d, v)}
    OBVIOUS
  <2>2. n \in 1 .. Count(d, v)
    BY <2>1, <1>d DEF Stacked
  <2> QED
    BY <2>2, <1>d
<1>i. id \in Nat /\ id \notin DOMAIN d.layers
  BY <1>d, NextIdIsNew
<1>r. /\ row \in LayerRows /\ row.version = v /\ row.stacking = n
  BY <1>d, RowTyped
<1>1. e = [d EXCEPT !.layers = With(d.layers, id, row), !.ladj = With(d.ladj, id, NoRows)]
  BY <1>d, <1>h, <1>i DEF AddLayer, WriteLayer, IsDatabase
<1>2. /\ e = [adj |-> d.adj, layers |-> e.layers, ladj |-> e.ladj]
      /\ e.layers = With(d.layers, id, row) /\ e.ladj = With(d.ladj, id, NoRows)
  BY <1>1, <1>d DEF IsDatabase
<1> HIDE DEF e, row, id, n
<1>3. /\ DOMAIN e.layers = DOMAIN d.layers \cup {id} /\ e.layers[id] = row
      /\ \A i \in DOMAIN d.layers : e.layers[i] = d.layers[i]
      /\ DOMAIN e.ladj = DOMAIN d.layers \cup {id} /\ DOMAIN e.ladj[id] = {}
      /\ \A i \in DOMAIN d.layers : e.ladj[i] = d.ladj[i]
  BY <1>2, <1>i, <1>d DEF With, NoRows
<1>5. IsDatabase(e)
  <2>1. e.layers = [i \in DOMAIN e.layers |-> e.layers[i]]
    BY <1>2 DEF With
  <2>2. \A i \in DOMAIN e.layers : e.layers[i] \in LayerRows
    BY <1>3, <1>d, <1>r DEF IsDatabase
  <2>3. e.layers \in [DOMAIN e.layers -> LayerRows]
    BY <2>1, <2>2
  <2>4. IsFiniteSet(DOMAIN e.layers)
    BY <1>3, <1>d, FS_AddElement DEF IsDatabase
  <2> QED
    BY <2>3, <2>4, <1>2, <1>3, <1>i, <1>d DEF IsDatabase
<1>6. /\ LayerIds(e, v) = LayerIds(d, v) \cup {id} /\ id \notin LayerIds(d, v)
      /\ \A w : w # v => LayerIds(e, w) = LayerIds(d, w)
  BY <1>3, <1>i, <1>r DEF LayerIds
<1>7. Count(e, v) = n /\ \A w : w # v => Count(e, w) = Count(d, w)
  <2>1. IsFiniteSet(LayerIds(d, v))
    BY LayersAreFinite
  <2>2. Cardinality(LayerIds(d, v) \cup {id}) = Cardinality(LayerIds(d, v)) + 1
    BY <2>1, <1>6, FS_AddElement
  <2> QED
    BY <2>2, <1>6 DEF Count, n
<1>8. Stacked(e)
  <2>1. ASSUME NEW w \in Versions
        PROVE  {e.layers[i].stacking : i \in LayerIds(e, w)} = 1 .. Count(e, w)
    <3>1. \A i \in LayerIds(d, w) : e.layers[i].stacking = d.layers[i].stacking
      BY <1>3 DEF LayerIds
    <3>2. {d.layers[i].stacking : i \in LayerIds(d, w)} = 1 .. Count(d, w)
      BY <1>d DEF Stacked
    <3>3. CASE w = v
      <4>1. {e.layers[i].stacking : i \in LayerIds(d, v) \cup {id}} = (1 .. Count(d, v)) \cup {n}
        BY <3>1, <3>2, <3>3, <1>3, <1>r
      <4>2. (1 .. Count(d, v)) \cup {n} = 1 .. n
        BY <1>d DEF n
      <4> QED
        BY <4>1, <4>2, <3>3, <1>6, <1>7
    <3>4. CASE w # v
      BY <3>1, <3>2, <3>4, <1>6, <1>7
    <3> QED
      BY <3>3, <3>4
  <2>2. \A i \in DOMAIN e.ladj : e.layers[i].typ = "Clone" => DOMAIN e.ladj[i] = {}
    BY <1>3, <1>d DEF Stacked
  <2> QED
    BY <2>1, <2>2, <1>3 DEF Stacked
<1>9. IsSound(e)
  BY <1>5, <1>8 DEF IsSound
<1>10. ASSUME NEW m \in 1 .. Count(d, v)
       PROVE  /\ LayerAdjustments(e, v, m) = LayerAdjustments(d, v, m)
              /\ LayerAt(e, v, m) = LayerAt(d, v, m)
  <2>1. /\ LayerId(d, v, m) \in DOMAIN d.layers /\ d.layers[LayerId(d, v, m)].version = v
        /\ d.layers[LayerId(d, v, m)].stacking = m
    BY LayerIdRight DEF LayerIds
  <2>2. m \in 1 .. Count(e, v)
    BY <1>7, <1>d DEF n
  <2>3. LayerId(e, v, m) = LayerId(d, v, m)
    BY <2>1, <2>2, <1>3, <1>9, SameLayer
  <2> QED
    BY <2>1, <2>3, <1>3 DEF LayerAdjustments, LayerAt
<1> QED
  BY <1>2, <1>7, <1>9, <1>10 DEF e, n

\* Restacking changes where the layers of a version are, and nothing else.
LEMMA RestackedRight ==
  ASSUME NEW d, IsDatabase(d), DOMAIN d.ladj = DOMAIN d.layers, NEW v \in Versions, NEW where,
         \A i \in LayerIds(d, v) : where[d.layers[i].stacking] \in Nat
  PROVE  LET e == Restacked(d, v, where)
         IN  /\ IsDatabase(e) /\ e.adj = d.adj /\ e.ladj = d.ladj
             /\ DOMAIN e.layers = DOMAIN d.layers
             /\ \A w : LayerIds(e, w) = LayerIds(d, w) /\ Count(e, w) = Count(d, w)
             /\ \A i \in DOMAIN d.layers :
                  /\ e.layers[i].active = d.layers[i].active /\ e.layers[i].typ = d.layers[i].typ
                  /\ e.layers[i].version = d.layers[i].version
                  /\ e.layers[i].stacking = IF i \in LayerIds(d, v) THEN where[d.layers[i].stacking]
                                            ELSE d.layers[i].stacking
<1> DEFINE e == Restacked(d, v, where)
<1>1. /\ e = [adj |-> d.adj, layers |-> e.layers, ladj |-> d.ladj]
      /\ e.layers = [i \in DOMAIN d.layers |->
           IF d.layers[i].version = v
           THEN [d.layers[i] EXCEPT !.stacking = where[d.layers[i].stacking]] ELSE d.layers[i]]
  <2> DEFINE layers == [i \in DOMAIN d.layers |->
                IF d.layers[i].version = v
                THEN [d.layers[i] EXCEPT !.stacking = where[d.layers[i].stacking]]
                ELSE d.layers[i]]
  <2>1. e = [d EXCEPT !.layers = layers]
    BY DEF Restacked
  <2> HIDE DEF e, layers
  <2>2. e = [adj |-> d.adj, layers |-> layers, ladj |-> d.ladj]
    BY <2>1 DEF IsDatabase
  <2>3. e.layers = layers
    BY <2>2
  <2> QED
    BY <2>2, <2>3 DEF layers
<1> HIDE DEF e
<1>2. \A i \in DOMAIN d.layers : d.layers[i] \in LayerRows
  BY DEF IsDatabase
<1>3. ASSUME NEW i \in DOMAIN d.layers
      PROVE  /\ e.layers[i].active = d.layers[i].active /\ e.layers[i].typ = d.layers[i].typ
             /\ e.layers[i].version = d.layers[i].version
             /\ e.layers[i].stacking = IF i \in LayerIds(d, v) THEN where[d.layers[i].stacking]
                                       ELSE d.layers[i].stacking
             /\ e.layers[i] \in LayerRows
  <2>1. CASE d.layers[i].version = v
    <3>1. i \in LayerIds(d, v)
      BY <2>1 DEF LayerIds
    <3>2. e.layers[i] = [d.layers[i] EXCEPT !.stacking = where[d.layers[i].stacking]]
      BY <2>1, <1>1
    <3> QED
      BY <3>1, <3>2, <1>2 DEF LayerRows
  <2>2. CASE d.layers[i].version # v
    BY <2>2, <1>1, <1>2 DEF LayerIds
  <2> QED
    BY <2>1, <2>2
<1>4. \A w : LayerIds(e, w) = LayerIds(d, w) /\ Count(e, w) = Count(d, w)
  BY <1>1, <1>3 DEF LayerIds, Count
<1>5. e.layers \in [DOMAIN d.layers -> LayerRows] /\ DOMAIN e.layers = DOMAIN d.layers
  <2>1. e.layers = [i \in DOMAIN d.layers |-> e.layers[i]]
    BY <1>1
  <2> QED
    BY <2>1, <1>3
<1>6. IsDatabase(e)
  BY <1>1, <1>5 DEF IsDatabase
<1>7. e.adj = d.adj /\ e.ladj = d.ladj
  BY <1>1
<1> QED
  BY <1>3, <1>4, <1>5, <1>6, <1>7 DEF e

\* Two layers change places.
LEMMA SwappedRight ==
  ASSUME NEW d, IsSound(d), NEW v \in Versions, NEW n \in 1 .. Count(d, v), NEW m \in 1 .. Count(d, v)
  PROVE  LET e == Swapped(d, v, n, m)
         IN  /\ IsSound(e) /\ e.adj = d.adj /\ Count(e, v) = Count(d, v)
             /\ \A k \in 1 .. Count(d, v) : k # n /\ k # m =>
                  /\ LayerAdjustments(e, v, k) = LayerAdjustments(d, v, k)
                  /\ LayerAt(e, v, k) = LayerAt(d, v, k)
<1> DEFINE C == Count(d, v)
           where == [k \in 1 .. C |-> IF k = n THEN m ELSE IF k = m THEN n ELSE k]
           e == Restacked(d, v, where)
<1>d. IsDatabase(d) /\ Stacked(d) /\ DOMAIN d.ladj = DOMAIN d.layers /\ C \in Nat
  BY LayersAreFinite DEF IsSound, Stacked
<1>w. \A k \in 1 .. C : where[k] \in 1 .. C /\ where[where[k]] = k
  OBVIOUS
<1>o. \A k \in 1 .. C : k # n /\ k # m => where[k] = k
  OBVIOUS
<1>s. Swapped(d, v, n, m) = e
  BY DEF Swapped
<1> HIDE DEF where
<1>1. \A i \in LayerIds(d, v) : d.layers[i].stacking \in 1 .. C
  BY <1>d DEF Stacked
<1>2. /\ IsDatabase(e) /\ e.adj = d.adj /\ e.ladj = d.ladj
      /\ DOMAIN e.layers = DOMAIN d.layers
      /\ \A w : LayerIds(e, w) = LayerIds(d, w) /\ Count(e, w) = Count(d, w)
      /\ \A i \in DOMAIN d.layers :
           /\ e.layers[i].active = d.layers[i].active /\ e.layers[i].typ = d.layers[i].typ
           /\ e.layers[i].version = d.layers[i].version
           /\ e.layers[i].stacking = IF i \in LayerIds(d, v) THEN where[d.layers[i].stacking]
                                     ELSE d.layers[i].stacking
  <2>1. \A i \in LayerIds(d, v) : where[d.layers[i].stacking] \in Nat
    BY <1>1, <1>w, <1>d
  <2> QED
    BY <2>1, <1>d, RestackedRight
<1> HIDE DEF e
<1>3. Stacked(e)
  <2>1. ASSUME NEW w \in Versions
        PROVE  {e.layers[i].stacking : i \in LayerIds(e, w)} = 1 .. Count(e, w)
    <3>1. CASE w = v
      <4>1. \A i \in LayerIds(d, v) : e.layers[i].stacking = where[d.layers[i].stacking]
        BY <1>2 DEF LayerIds
      <4>2. ASSUME NEW k \in 1 .. C PROVE \E i \in LayerIds(d, v) : e.layers[i].stacking = k
        <5>1. where[k] \in 1 .. C /\ where[where[k]] = k
          BY <1>w
        <5>2. /\ LayerId(d, v, where[k]) \in LayerIds(d, v)
              /\ d.layers[LayerId(d, v, where[k])].stacking = where[k]
          BY <5>1, LayerIdRight
        <5> QED
          BY <5>1, <5>2, <4>1
      <4>3. \A i \in LayerIds(d, v) : e.layers[i].stacking \in 1 .. C
        BY <4>1, <1>1, <1>w
      <4>4. {e.layers[i].stacking : i \in LayerIds(d, v)} = 1 .. C
        BY <4>2, <4>3
      <4> QED
        BY <4>4, <3>1, <1>2
    <3>2. CASE w # v
      <4>1. \A i \in LayerIds(d, w) : e.layers[i].stacking = d.layers[i].stacking
        BY <3>2, <1>2 DEF LayerIds
      <4>2. {d.layers[i].stacking : i \in LayerIds(d, w)} = 1 .. Count(d, w)
        BY <1>d DEF Stacked
      <4> QED
        BY <4>1, <4>2, <1>2
    <3> QED
      BY <3>1, <3>2
  <2> QED
    BY <2>1, <1>2, <1>d DEF Stacked
<1>4. IsSound(e)
  BY <1>2, <1>3 DEF IsSound
<1>5. ASSUME NEW k \in 1 .. C, k # n, k # m
      PROVE  /\ LayerAdjustments(e, v, k) = LayerAdjustments(d, v, k)
             /\ LayerAt(e, v, k) = LayerAt(d, v, k)
  <2>1. /\ LayerId(d, v, k) \in DOMAIN d.layers /\ d.layers[LayerId(d, v, k)].version = v
        /\ d.layers[LayerId(d, v, k)].stacking = k /\ LayerId(d, v, k) \in LayerIds(d, v)
    BY LayerIdRight DEF LayerIds
  <2>2. e.layers[LayerId(d, v, k)].stacking = k
    BY <2>1, <1>2, <1>o, <1>5
  <2>3. LayerId(e, v, k) = LayerId(d, v, k)
    BY <2>1, <2>2, <1>2, <1>4, SameLayer
  <2> QED
    BY <2>1, <2>3, <1>2 DEF LayerAdjustments, LayerAt
<1> QED
  BY <1>s, <1>2, <1>4, <1>5

\* A layer's row goes, with its adjustments.
LEMMA DropLayerRight ==
  ASSUME NEW d, IsSound(d), NEW v \in Versions, NEW n \in 1 .. Count(d, v)
  PROVE  LET e == DropLayer(d, v, n)
             id == LayerId(d, v, n)
         IN  /\ IsDatabase(e) /\ e.adj = d.adj /\ DOMAIN e.ladj = DOMAIN e.layers
             /\ DOMAIN e.layers = DOMAIN d.layers \ {id}
             /\ LayerIds(e, v) = LayerIds(d, v) \ {id} /\ Count(e, v) = Count(d, v) - 1
             /\ \A w \in Versions : w # v => LayerIds(e, w) = LayerIds(d, w)
             /\ \A i \in DOMAIN e.layers : e.layers[i] = d.layers[i] /\ e.ladj[i] = d.ladj[i]
<1> DEFINE e == DropLayer(d, v, n)
           id == LayerId(d, v, n)
<1>d. IsDatabase(d) /\ DOMAIN d.ladj = DOMAIN d.layers
  BY DEF IsSound, Stacked
<1>i. id \in LayerIds(d, v) /\ id \in DOMAIN d.layers /\ d.layers[id].version = v
  BY LayerIdRight DEF LayerIds
<1>1. e = [d EXCEPT !.layers = [i \in DOMAIN d.layers \ {id} |-> d.layers[i]],
                    !.ladj = [i \in DOMAIN d.ladj \ {id} |-> d.ladj[i]]]
  BY DEF DropLayer
<1>2. /\ e = [adj |-> d.adj, layers |-> e.layers, ladj |-> e.ladj]
      /\ e.layers = [i \in DOMAIN d.layers \ {id} |-> d.layers[i]]
      /\ e.ladj = [i \in DOMAIN d.layers \ {id} |-> d.ladj[i]]
  BY <1>1, <1>d DEF IsDatabase
<1> HIDE DEF e, id
<1>3. /\ DOMAIN e.layers = DOMAIN d.layers \ {id} /\ DOMAIN e.ladj = DOMAIN e.layers
      /\ \A i \in DOMAIN e.layers : e.layers[i] = d.layers[i] /\ e.ladj[i] = d.ladj[i]
      /\ e.adj = d.adj
  BY <1>2
<1>4. IsDatabase(e)
  <2>1. IsFiniteSet(DOMAIN e.layers)
    BY <1>3, <1>d, FS_RemoveElement DEF IsDatabase
  <2>2. e.layers \in [DOMAIN e.layers -> LayerRows]
    BY <1>2, <1>3, <1>d DEF IsDatabase
  <2> QED
    BY <2>1, <2>2, <1>2, <1>3, <1>d DEF IsDatabase
<1>5. LayerIds(e, v) = LayerIds(d, v) \ {id}
  BY <1>3 DEF LayerIds
<1>6. \A w \in Versions : w # v => LayerIds(e, w) = LayerIds(d, w)
  BY <1>3, <1>i DEF LayerIds
<1>7. Count(e, v) = Count(d, v) - 1
  <2>1. IsFiniteSet(LayerIds(d, v))
    BY LayersAreFinite
  <2>2. Cardinality(LayerIds(d, v) \ {id}) = Cardinality(LayerIds(d, v)) - 1
    BY <2>1, <1>i, FS_RemoveElement
  <2> QED
    BY <2>2, <1>5 DEF Count
<1> QED
  BY <1>3, <1>4, <1>5, <1>6, <1>7 DEF e, id

\* When a layer is deleted those above it move down.
LEMMA DeleteLayerRight ==
  ASSUME NEW d, IsSound(d), NEW v \in Versions, NEW n \in 1 .. Count(d, v)
  PROVE  LET e == DeleteLayer(d, v, n)
         IN  /\ IsSound(e) /\ e.adj = d.adj /\ Count(e, v) = Count(d, v) - 1
             /\ \A k \in 1 .. n - 1 :
                  /\ LayerAdjustments(e, v, k) = LayerAdjustments(d, v, k)
                  /\ LayerAt(e, v, k) = LayerAt(d, v, k)
<1> DEFINE C == Count(d, v)
           where == [k \in 1 .. C |-> IF k > n THEN k - 1 ELSE k]
           id == LayerId(d, v, n)
           c == DropLayer(d, v, n)
           e == Restacked(c, v, where)
<1>d. IsDatabase(d) /\ Stacked(d) /\ DOMAIN d.ladj = DOMAIN d.layers /\ C \in Nat
  BY LayersAreFinite DEF IsSound, Stacked
<1>i. id \in LayerIds(d, v) /\ d.layers[id].stacking = n
  BY LayerIdRight
<1>w. /\ \A k \in 1 .. C : where[k] = IF k > n THEN k - 1 ELSE k
      /\ \A k \in 1 .. C : k # n => where[k] \in 1 .. C - 1
  <2>1. \A k \in 1 .. C : where[k] = IF k > n THEN k - 1 ELSE k
    BY <1>d
  <2> HIDE DEF where
  <2> QED
    BY <2>1, <1>d
<1>s. DeleteLayer(d, v, n) = e
  BY DEF DeleteLayer
<1>c. /\ IsDatabase(c) /\ c.adj = d.adj /\ DOMAIN c.ladj = DOMAIN c.layers
      /\ DOMAIN c.layers = DOMAIN d.layers \ {id}
      /\ LayerIds(c, v) = LayerIds(d, v) \ {id} /\ Count(c, v) = C - 1
      /\ \A w \in Versions : w # v => LayerIds(c, w) = LayerIds(d, w)
      /\ \A i \in DOMAIN c.layers : c.layers[i] = d.layers[i] /\ c.ladj[i] = d.ladj[i]
  BY DropLayerRight
<1> HIDE DEF where, c, id
<1>1. \A i \in LayerIds(c, v) : d.layers[i].stacking \in 1 .. C /\ d.layers[i].stacking # n
  <2>1. \A i \in LayerIds(d, v) : d.layers[i].stacking \in 1 .. C
    BY <1>d DEF Stacked
  <2> QED
    BY <2>1, <1>c, <1>i, PlacesDiffer
<1>l. \A w : \A i \in LayerIds(c, w) : i \in DOMAIN c.layers /\ i \in LayerIds(d, w)
  BY <1>c DEF LayerIds
<1>2. /\ IsDatabase(e) /\ e.adj = c.adj /\ e.ladj = c.ladj
      /\ DOMAIN e.layers = DOMAIN c.layers
      /\ \A w : LayerIds(e, w) = LayerIds(c, w) /\ Count(e, w) = Count(c, w)
      /\ \A i \in DOMAIN c.layers :
           /\ e.layers[i].active = c.layers[i].active /\ e.layers[i].typ = c.layers[i].typ
           /\ e.layers[i].version = c.layers[i].version
           /\ e.layers[i].stacking = IF i \in LayerIds(c, v) THEN where[c.layers[i].stacking]
                                     ELSE c.layers[i].stacking
  <2>1. \A i \in LayerIds(c, v) : where[c.layers[i].stacking] \in Nat
    BY <1>1, <1>w, <1>c, <1>l
  <2>2. IsDatabase(c) /\ DOMAIN c.ladj = DOMAIN c.layers
    BY <1>c
  <2> QED
    BY <2>1, <2>2, RestackedRight
<1> HIDE DEF e
<1>3. Stacked(e)
  <2>1. ASSUME NEW w \in Versions
        PROVE  {e.layers[i].stacking : i \in LayerIds(e, w)} = 1 .. Count(e, w)
    <3>1. CASE w = v
      <4>1. \A i \in LayerIds(c, v) : e.layers[i].stacking = where[d.layers[i].stacking]
        BY <1>2, <1>c, <1>l
      <4>2. ASSUME NEW k \in 1 .. C - 1 PROVE \E i \in LayerIds(c, v) : e.layers[i].stacking = k
        <5>1. PICK j \in 1 .. C : j # n /\ where[j] = k
          <6>1. k \in 1 .. C /\ k + 1 \in 1 .. C /\ k \in Nat /\ n \in Nat
            BY <1>d
          <6>2. CASE k < n
            BY <6>1, <6>2, <1>w
          <6>3. CASE k >= n
            BY <6>1, <6>3, <1>w
          <6> QED
            BY <6>1, <6>2, <6>3
        <5>2. /\ LayerId(d, v, j) \in LayerIds(d, v)
              /\ d.layers[LayerId(d, v, j)].stacking = j
          BY <5>1, LayerIdRight
        <5>3. LayerId(d, v, j) \in LayerIds(c, v)
          BY <5>1, <5>2, <1>c, <1>i
        <5> QED
          BY <5>1, <5>2, <5>3, <4>1
      <4>3. \A i \in LayerIds(c, v) : e.layers[i].stacking \in 1 .. C - 1
        BY <4>1, <1>1, <1>w
      <4>4. {e.layers[i].stacking : i \in LayerIds(c, v)} = 1 .. C - 1
        BY <4>2, <4>3
      <4> QED
        BY <4>4, <3>1, <1>2, <1>c
    <3>2. CASE w # v
      <4>1. \A i \in LayerIds(c, w) : e.layers[i].stacking = d.layers[i].stacking
        BY <3>2, <1>2, <1>c, <1>l DEF LayerIds
      <4>2. {d.layers[i].stacking : i \in LayerIds(d, w)} = 1 .. Count(d, w)
        BY <1>d DEF Stacked
      <4>3. LayerIds(e, w) = LayerIds(d, w) /\ LayerIds(c, w) = LayerIds(d, w)
        BY <3>2, <1>2, <1>c
      <4>4. Count(e, w) = Count(d, w)
        BY <4>3 DEF Count
      <4> QED
        BY <4>1, <4>2, <4>3, <4>4
    <3> QED
      BY <3>1, <3>2
  <2>2. \A i \in DOMAIN e.ladj : e.layers[i].typ = "Clone" => DOMAIN e.ladj[i] = {}
    BY <1>2, <1>c, <1>d DEF Stacked
  <2> QED
    BY <2>1, <2>2, <1>2, <1>c DEF Stacked
<1>4. IsSound(e)
  BY <1>2, <1>3 DEF IsSound
<1>5. ASSUME NEW k \in 1 .. n - 1
      PROVE  /\ LayerAdjustments(e, v, k) = LayerAdjustments(d, v, k)
             /\ LayerAt(e, v, k) = LayerAt(d, v, k)
  <2>k. k \in 1 .. C /\ k # n /\ ~(k > n) /\ k \in 1 .. C - 1
    BY <1>d
  <2>1. /\ LayerId(d, v, k) \in DOMAIN d.layers /\ d.layers[LayerId(d, v, k)].version = v
        /\ d.layers[LayerId(d, v, k)].stacking = k /\ LayerId(d, v, k) \in LayerIds(d, v)
    BY <2>k, LayerIdRight DEF LayerIds
  <2>2. LayerId(d, v, k) \in LayerIds(c, v) /\ LayerId(d, v, k) \in DOMAIN c.layers
    BY <2>1, <2>k, <1>c, <1>i
  <2>3. e.layers[LayerId(d, v, k)].stacking = k /\ e.layers[LayerId(d, v, k)].version = v
    BY <2>1, <2>2, <2>k, <1>2, <1>c, <1>w
  <2>4. LayerId(e, v, k) = LayerId(d, v, k)
    BY <2>2, <2>3, <2>k, <1>2, <1>c, <1>4, SameLayer
  <2> QED
    BY <2>2, <2>4, <1>2, <1>c DEF LayerAdjustments, LayerAt
<1> QED
  BY <1>s, <1>2, <1>4, <1>5, <1>c

-----------------------------------------------------------------------------
(* Adjustments *)

IsAdj(a) == a = [k \in Keys |-> a[k]]

\* What is stored is what is read, if what was taken to be stored was right.
LEMMA StoredIsRead ==
  ASSUME NEW rows, NEW a, IsAdj(a)
  PROVE  ReadRows(StoreDiff(rows, a, ReadRows(rows))) = a
<1> DEFINE keys == {k \in Keys : a[k] # ReadRows(rows)[k]}
           dom == (DOMAIN rows \ keys) \cup {j \in keys : a[j] # DefaultFor(j)}
           new == StoreDiff(rows, a, ReadRows(rows))
<1>1. new = [k \in dom |-> IF k \in keys THEN a[k] ELSE rows[k]]
  BY DEF StoreDiff, StoreKeys
<1>2. \A k \in Keys : ReadRows(rows)[k] = IF k \in DOMAIN rows THEN rows[k] ELSE DefaultFor(k)
  BY DEF ReadRows
<1>3. ASSUME NEW k \in Keys
      PROVE  (IF k \in DOMAIN new THEN new[k] ELSE DefaultFor(k)) = a[k]
  <2>1. CASE k \in keys
    BY <2>1, <1>1
  <2>2. CASE k \notin keys
    <3>1. a[k] = IF k \in DOMAIN rows THEN rows[k] ELSE DefaultFor(k)
      BY <2>2, <1>2
    <3> HIDE DEF keys, new
    <3>2. k \in dom <=> k \in DOMAIN rows
      BY <2>2
    <3> QED
      BY <3>1, <3>2, <2>2, <1>1
  <2> QED
    BY <2>1, <2>2
<1>4. ReadRows(new) = [k \in Keys |-> IF k \in DOMAIN new THEN new[k] ELSE DefaultFor(k)]
  BY DEF ReadRows
<1> HIDE DEF new
<1>5. ReadRows(new) = [k \in Keys |-> a[k]]
  BY <1>3, <1>4
<1> QED
  BY <1>5 DEF new, IsAdj

LEMMA ReadRowsIsAdj == \A rows : IsAdj(ReadRows(rows))
  BY DEF ReadRows, IsAdj

LEMMA SliderChangeIsAdj ==
  ASSUME NEW a, IsAdj(a), NEW s, NEW v
  PROVE  IsAdj(SliderChange(a, s, v))
<1> DEFINE J(t) == IF t = s THEN v ELSE JogValue(a, t)
<1>2. CASE s \in {"expose", "wb"}
  <2>1. SliderChange(a, s, v) =
          [a EXCEPT !["expose"] = J("expose") - J("wb"), !["wb"] = WbScale * J("wb")]
    BY <1>2 DEF SliderChange
  <2> HIDE DEF J
  <2>2. PICK x, y : SliderChange(a, s, v) = [a EXCEPT !["expose"] = x, !["wb"] = y]
    BY <2>1
  <2> QED
    BY <2>2 DEF IsAdj
<1>3. CASE s \in {"nlc_strength", "nlc_localness"}
  <2>1. SliderChange(a, s, v) =
          [a EXCEPT !["nlcontrastscale"] = LocalScale * J("nlc_localness"),
                    !["nlcontrast"] = StrengthScale(J("nlc_localness")) * J("nlc_strength")]
    BY <1>3 DEF SliderChange
  <2> HIDE DEF J
  <2>2. PICK x, y : SliderChange(a, s, v) = [a EXCEPT !["nlcontrastscale"] = x, !["nlcontrast"] = y]
    BY <2>1
  <2> QED
    BY <2>2 DEF IsAdj
<1>4. CASE s \notin {"expose", "wb", "nlc_strength", "nlc_localness"}
  <2>1. SliderChange(a, s, v) = [a EXCEPT ![s] = v]
    BY <1>4 DEF SliderChange
  <2> QED
    BY <2>1 DEF IsAdj
<1> QED
  BY <1>2, <1>3, <1>4

LEMMA UpdateAdjIsAdj ==
  ASSUME NEW a, IsAdj(a), NEW c
  PROVE  IsAdj(UpdateAdj(c, a))
<1>1. PICK l, r, t, b : UpdateAdj(c, a) = [a EXCEPT !["cropl"] = l, !["cropr"] = r,
                                                    !["cropt"] = t, !["cropb"] = b]
  BY DEF UpdateAdj
<1> QED
  BY <1>1 DEF IsAdj

-----------------------------------------------------------------------------
(* AllAdjustments *)

LEMMA AllFromDBIs ==
  ASSUME NEW d, IsSound(d), NEW v \in Versions
  PROVE  AllFromDB(d, v) =
           [base |-> ReadRows(d.adj[v]),
            layers |-> [n \in 1 .. Count(d, v) |->
                          [layer |-> LayerAt(d, v, n), adj |-> LayerAdjustments(d, v, n)]]]
<1>1. \A n \in 1 .. Count(d, v) : n >= 0
  BY LayersAreFinite
<1> QED
  BY <1>1 DEF AllFromDB, RereadFromDB

\* Reading the layers again from the lowest that has changed is enough.
LEMMA RereadRight ==
  ASSUME NEW d, IsSound(d), NEW e, IsSound(e), NEW v \in Versions, NEW lowest \in Nat \ {0},
         e.adj = d.adj,
         \A n \in 1 .. Count(e, v) : n < lowest =>
           /\ n <= Count(d, v)
           /\ LayerAdjustments(e, v, n) = LayerAdjustments(d, v, n)
           /\ LayerAt(e, v, n) = LayerAt(d, v, n)
  PROVE  RereadFromDB(AllFromDB(d, v), e, v, lowest) = AllFromDB(e, v)
<1> DEFINE all == AllFromDB(d, v)
           new == RereadFromDB(all, e, v, lowest)
           Entry(f, n) == [layer |-> LayerAt(f, v, n), adj |-> LayerAdjustments(f, v, n)]
<1>0. Count(d, v) \in Nat /\ Count(e, v) \in Nat
  BY LayersAreFinite
<1>1. /\ all.base = ReadRows(d.adj[v])
      /\ all.layers = [n \in 1 .. Count(d, v) |-> Entry(d, n)]
  <2>1. all = [base |-> ReadRows(d.adj[v]), layers |-> [n \in 1 .. Count(d, v) |-> Entry(d, n)]]
    BY AllFromDBIs
  <2> HIDE DEF all, Entry
  <2> QED
    BY <2>1
<1>2. Len(all.layers) = Count(d, v)
  BY <1>0, <1>1
<1> HIDE DEF all
<1>3. new = [base |-> all.base,
             layers |-> [n \in 1 .. Count(e, v) |->
                           IF n >= lowest THEN Entry(e, n)
                           ELSE IF n < lowest /\ n <= Len(all.layers) THEN all.layers[n] ELSE Blank]]
  BY DEF RereadFromDB
<1>4. ASSUME NEW n \in 1 .. Count(e, v)
      PROVE  (IF n >= lowest THEN Entry(e, n)
              ELSE IF n < lowest /\ n <= Len(all.layers) THEN all.layers[n] ELSE Blank) = Entry(e, n)
  <2>1. CASE n >= lowest
    BY <2>1
  <2>2. CASE ~(n >= lowest)
    <3>1. n < lowest /\ n \in 1 .. Count(d, v) /\ Entry(d, n) = Entry(e, n)
      BY <2>2, <1>0
    <3> HIDE DEF Entry
    <3> QED
      BY <3>1, <2>2, <1>0, <1>1, <1>2
  <2> QED
    BY <2>1, <2>2
<1>5. new = [base |-> all.base, layers |-> [n \in 1 .. Count(e, v) |-> Entry(e, n)]]
  <2> HIDE DEF Entry, new
  <2> QED
    BY <1>3, <1>4
<1>6. AllFromDB(e, v) = [base |-> ReadRows(e.adj[v]), layers |-> [n \in 1 .. Count(e, v) |-> Entry(e, n)]]
  BY AllFromDBIs
<1> HIDE DEF new, Entry
<1>7. new = AllFromDB(e, v)
  BY <1>1, <1>5, <1>6
<1> QED
  BY <1>7 DEF new, all

-----------------------------------------------------------------------------
(* The layer dialogue *)

LEMMA SelectLayerRight ==
  ASSUME NEW d, IsSound(d), NEW v \in Versions, NEW g, DialogRight(g, d, v),
         NEW n \in 0 .. Count(d, v)
  PROVE  DialogRight(SelectLayer(d, g, n), d, v)
<1>0. Count(d, v) \in Nat
  BY LayersAreFinite
<1>g. PICK sel, adjs, sliders :
        g = [vsn |-> v, rows |-> Count(d, v), selected |-> sel, adjs |-> adjs, sliders |-> sliders]
  BY DEF DialogRight
<1>a. adjs = g.adjs /\ g.vsn = v
  BY <1>g
<1>1. CASE n = 0
  <2>1. SelectLayer(d, g, n) = [g EXCEPT !.selected = 0, !.sliders = Defaults]
    BY <1>1 DEF SelectLayer
  <2>2. SelectLayer(d, g, n) = [vsn |-> v, rows |-> Count(d, v), selected |-> 0, adjs |-> adjs,
                                sliders |-> Defaults]
    BY <2>1, <1>g
  <2> QED
    BY <2>2, <1>0, <1>a DEF DialogRight
<1>2. CASE n # 0
  <2> DEFINE a == IF n \in DOMAIN g.adjs THEN g.adjs[n] ELSE LayerAdjustments(d, g.vsn, n)
  <2>1. a = LayerAdjustments(d, v, n)
    BY <1>a, <1>2 DEF DialogRight
  <2>2. SelectLayer(d, g, n) = [g EXCEPT !.selected = n, !.adjs = With(g.adjs, n, a), !.sliders = a]
    BY <1>2 DEF SelectLayer
  <2> HIDE DEF a
  <2>3. SelectLayer(d, g, n) = [vsn |-> v, rows |-> Count(d, v), selected |-> n,
                                adjs |-> With(g.adjs, n, a), sliders |-> a]
    BY <2>2, <1>g
  <2>4. /\ DOMAIN With(g.adjs, n, a) = DOMAIN g.adjs \cup {n} /\ With(g.adjs, n, a)[n] = a
        /\ \A m \in DOMAIN g.adjs : m # n => With(g.adjs, n, a)[m] = g.adjs[m]
    BY DEF With
  <2>5. n \in 1 .. Count(d, v)
    BY <1>0, <1>2
  <2>6. \A m \in DOMAIN With(g.adjs, n, a) :
           m \in 1 .. Count(d, v) /\ With(g.adjs, n, a)[m] = LayerAdjustments(d, v, m)
    BY <2>1, <2>4, <2>5 DEF DialogRight
  <2> QED
    BY <2>3, <2>4, <2>5, <2>6, <1>0 DEF DialogRight
<1> QED
  BY <1>1, <1>2

LEMMA DialogForRight ==
  ASSUME NEW d, IsSound(d), NEW v \in Versions, NEW g
  PROVE  DialogRight(DialogFor(d, g, v), d, v)
<1>1. Count(d, v) \in Nat
  BY LayersAreFinite
<1>2. DialogRight(NoneSelected(d, v), d, v)
  BY <1>1 DEF DialogRight, NoneSelected
<1> QED
  BY <1>1, <1>2, SelectLayerRight DEF DialogFor

-----------------------------------------------------------------------------
(* The buttons of the layer dialogue *)

\* A button leaves a sound database, of which the dialogue shows the layers, and
\* has not touched the layers below the lowest that is to be read again.
PressRight(p, d, v) ==
  /\ IsSound(p.db) /\ p.db.adj = d.adj /\ DialogRight(p.dlg, p.db, v) /\ p.lowest \in Nat \ {0}
  /\ \A n \in 1 .. Count(p.db, v) : n < p.lowest =>
       /\ n <= Count(d, v)
       /\ LayerAdjustments(p.db, v, n) = LayerAdjustments(d, v, n)
       /\ LayerAt(p.db, v, n) = LayerAt(d, v, n)

LEMMA DialogFields ==
  ASSUME NEW d, NEW v, NEW g, DialogRight(g, d, v)
  PROVE  g.vsn = v /\ g.rows = Count(d, v) /\ g.selected \in 0 .. Count(d, v)
<1>1. PICK sel, adjs, sliders :
        g = [vsn |-> v, rows |-> Count(d, v), selected |-> sel, adjs |-> adjs, sliders |-> sliders]
  BY DEF DialogRight
<1>2. g.vsn = v /\ g.rows = Count(d, v)
  BY <1>1
<1> QED
  BY <1>2 DEF DialogRight

LEMMA AddRight ==
  ASSUME NEW d, IsSound(d), NEW v \in Versions, NEW g,
         NEW layer \in [active : BOOLEAN, typ : LayerTypes]
  PROVE  LET new == AddLayer(d, v, layer)
         IN  PressRight(Pressed(new, DialogFor(new, g, v), Count(new, v)), d, v)
<1> DEFINE new == AddLayer(d, v, layer)
           p == Pressed(new, DialogFor(new, g, v), Count(new, v))
<1>0. Count(d, v) \in Nat
  BY LayersAreFinite
<1>1. /\ IsSound(new) /\ new.adj = d.adj /\ Count(new, v) = Count(d, v) + 1
      /\ \A m \in 1 .. Count(d, v) :
           /\ LayerAdjustments(new, v, m) = LayerAdjustments(d, v, m)
           /\ LayerAt(new, v, m) = LayerAt(d, v, m)
  BY AddLayerRight
<1> HIDE DEF new
<1>2. DialogRight(DialogFor(new, g, v), new, v)
  BY <1>1, DialogForRight
<1>3. p.db = new /\ p.dlg = DialogFor(new, g, v) /\ p.lowest = Count(new, v)
  BY DEF Pressed
<1> HIDE DEF p
<1> QED
  BY <1>0, <1>1, <1>2, <1>3 DEF PressRight, p, new

LEMMA DeleteRight ==
  ASSUME NEW d, IsSound(d), NEW v \in Versions, NEW g, DialogRight(g, d, v), LayerEnabled(g)
  PROVE  PressRight(DeleteSelected(d, g), d, v)
<1> DEFINE n == g.selected
           new == DeleteLayer(d, v, n)
           p == DeleteSelected(d, g)
<1>0. Count(d, v) \in Nat /\ n \in 1 .. Count(d, v) /\ g.vsn = v
  BY LayersAreFinite, DialogFields DEF LayerEnabled
<1>1. /\ IsSound(new) /\ new.adj = d.adj /\ Count(new, v) = Count(d, v) - 1
      /\ \A k \in 1 .. n - 1 :
           /\ LayerAdjustments(new, v, k) = LayerAdjustments(d, v, k)
           /\ LayerAt(new, v, k) = LayerAt(d, v, k)
  BY <1>0, DeleteLayerRight
<1>3. p.db = new /\ p.dlg = DialogFor(new, g, v) /\ p.lowest = n
  BY <1>0 DEF Pressed, DeleteSelected
<1> HIDE DEF new, p
<1>2. DialogRight(DialogFor(new, g, v), new, v)
  BY <1>1, DialogForRight
<1>4. \A k \in 1 .. Count(new, v) : k < n => k \in 1 .. n - 1 /\ k <= Count(d, v)
  BY <1>0, <1>1
<1> HIDE DEF n
<1>5. p.lowest \in Nat \ {0}
  BY <1>0, <1>3
<1>6. PressRight(p, d, v)
  BY <1>1, <1>2, <1>3, <1>4, <1>5 DEF PressRight
<1> QED
  BY <1>6 DEF p

\* A layer changes places with the one above it.
LEMMA SwapRight ==
  ASSUME NEW d, IsSound(d), NEW v \in Versions, NEW g,
         NEW n \in 1 .. Count(d, v), NEW m \in 1 .. Count(d, v), NEW to \in 0 .. Count(d, v),
         NEW low \in 1 .. Count(d, v), low <= n, low <= m
  PROVE  LET new == Swapped(d, v, n, m)
         IN  PressRight(Pressed(new, SelectLayer(new, DialogFor(new, g, v), to), low), d, v)
<1> DEFINE new == Swapped(d, v, n, m)
           p == Pressed(new, SelectLayer(new, DialogFor(new, g, v), to), low)
<1>0. Count(d, v) \in Nat
  BY LayersAreFinite
<1>1. /\ IsSound(new) /\ new.adj = d.adj /\ Count(new, v) = Count(d, v)
      /\ \A k \in 1 .. Count(d, v) : k # n /\ k # m =>
           /\ LayerAdjustments(new, v, k) = LayerAdjustments(d, v, k)
           /\ LayerAt(new, v, k) = LayerAt(d, v, k)
  BY SwappedRight
<1> HIDE DEF new
<1>2. DialogRight(SelectLayer(new, DialogFor(new, g, v), to), new, v)
  <2>1. DialogRight(DialogFor(new, g, v), new, v)
    BY <1>1, DialogForRight
  <2> QED
    BY <2>1, <1>1, SelectLayerRight
<1>3. p.db = new /\ p.dlg = SelectLayer(new, DialogFor(new, g, v), to) /\ p.lowest = low
  BY DEF Pressed
<1>4. \A k \in 1 .. Count(d, v) : k < low => k # n /\ k # m /\ k <= Count(d, v)
  BY <1>0
<1>5. low \in Nat \ {0}
  BY <1>0
<1> HIDE DEF p
<1>6. PressRight(p, d, v)
  BY <1>1, <1>2, <1>3, <1>4, <1>5 DEF PressRight
<1> QED
  BY <1>6 DEF p, new

LEMMA RaiseRight ==
  ASSUME NEW d, IsSound(d), NEW v \in Versions, NEW g, DialogRight(g, d, v), RaiseEnabled(g)
  PROVE  PressRight(RaiseSelected(d, g), d, v)
<1> DEFINE n == g.selected
<1>0. /\ Count(d, v) \in Nat /\ g.vsn = v /\ n \in 1 .. Count(d, v) /\ n # Count(d, v)
      /\ n + 1 \in 1 .. Count(d, v) /\ n + 1 \in 0 .. Count(d, v) /\ n <= n + 1
  BY LayersAreFinite, DialogFields DEF RaiseEnabled
<1>1. RaiseSelected(d, g) =
        LET new == Swapped(d, v, n, n + 1)
        IN  Pressed(new, SelectLayer(new, DialogFor(new, g, v), n + 1), n)
  BY <1>0 DEF RaiseSelected, RaiseLayer
<1> HIDE DEF n
<1> QED
  BY <1>0, <1>1, SwapRight

LEMMA LowerRight ==
  ASSUME NEW d, IsSound(d), NEW v \in Versions, NEW g, DialogRight(g, d, v), LowerEnabled(g)
  PROVE  PressRight(LowerSelected(d, g), d, v)
<1> DEFINE n == g.selected
<1>0. /\ Count(d, v) \in Nat /\ g.vsn = v /\ n \in 1 .. Count(d, v) /\ n # 1
      /\ n - 1 \in 1 .. Count(d, v) /\ n - 1 \in 0 .. Count(d, v) /\ n - 1 <= n
  BY LayersAreFinite, DialogFields DEF LowerEnabled
<1>1. LowerSelected(d, g) =
        LET new == Swapped(d, v, n, n - 1)
        IN  Pressed(new, SelectLayer(new, DialogFor(new, g, v), n - 1), n - 1)
  BY <1>0 DEF LowerSelected, LowerLayer
<1> HIDE DEF n
<1> QED
  BY <1>0, <1>1, SwapRight

LEMMA LayerAtTyped ==
  ASSUME NEW d, IsSound(d), NEW v \in Versions, NEW n \in 1 .. Count(d, v)
  PROVE  LayerAt(d, v, n) \in [active : BOOLEAN, typ : LayerTypes]
<1>1. LayerId(d, v, n) \in DOMAIN d.layers
  BY LayerIdRight DEF LayerIds
<1>2. d.layers[LayerId(d, v, n)] \in LayerRows
  BY <1>1 DEF IsSound, IsDatabase
<1> QED
  BY <1>2 DEF LayerRows, LayerAt

\* The dialogue stays right as long as the layers and their adjustments do.
LEMMA SameDialog ==
  ASSUME NEW d, NEW e, NEW v, NEW g, DialogRight(g, d, v), Count(e, v) = Count(d, v),
         \A n \in 1 .. Count(d, v) : LayerAdjustments(e, v, n) = LayerAdjustments(d, v, n)
  PROVE  DialogRight(g, e, v)
<1>1. \A n \in DOMAIN g.adjs : n \in 1 .. Count(d, v)
  BY DEF DialogRight
<1> QED
  BY <1>1 DEF DialogRight

LEMMA ShowHideRight ==
  ASSUME NEW d, IsSound(d), NEW v \in Versions, NEW g, DialogRight(g, d, v), LayerEnabled(g)
  PROVE  PressRight(ShowHideLayer(d, g), d, v)
<1> DEFINE n == g.selected
           layer == LayerAt(d, v, n)
           other == [layer EXCEPT !.active = ~layer.active]
           new == SetLayer(d, v, n, other)
           p == ShowHideLayer(d, g)
<1>0. Count(d, v) \in Nat /\ n \in 1 .. Count(d, v) /\ g.vsn = v
  BY LayersAreFinite, DialogFields DEF LayerEnabled
<1>1. layer \in [active : BOOLEAN, typ : LayerTypes]
  BY <1>0, LayerAtTyped
<1>3. p.db = new /\ p.dlg = g /\ p.lowest = n
  BY <1>0 DEF Pressed, ShowHideLayer
<1> HIDE DEF layer, n
<1>2. other \in [active : BOOLEAN, typ : LayerTypes] /\ other.typ = layer.typ
  BY <1>1
<1> HIDE DEF other
<1>4. /\ IsSound(new) /\ new.adj = d.adj /\ Count(new, v) = Count(d, v)
      /\ \A m \in 1 .. Count(d, v) :
           /\ LayerAdjustments(new, v, m) = LayerAdjustments(d, v, m)
           /\ m # n => LayerAt(new, v, m) = LayerAt(d, v, m)
  BY <1>0, <1>2, SetLayerRight DEF layer
<1> HIDE DEF new, p
<1>5. DialogRight(g, new, v)
  BY <1>4, SameDialog
<1>6. n \in Nat \ {0} /\ \A k \in 1 .. Count(d, v) : k <= Count(d, v) /\ (k < n => k # n)
  BY <1>0
<1>7. PressRight(p, d, v)
  BY <1>3, <1>4, <1>5, <1>6 DEF PressRight
<1> QED
  BY <1>7 DEF p

-----------------------------------------------------------------------------
(* What is stored by the sliders *)

\* The adjustments of a version do not touch its layers.
LEMMA StoreBaseRight ==
  ASSUME NEW d, IsSound(d), NEW v \in Versions, NEW c, ControlsRight(c, d, v), NEW a, IsAdj(a)
  PROVE  LET e == StoreInDatabase(d, c, a)
         IN  /\ IsSound(e) /\ ReadRows(e.adj[v]) = a /\ Count(e, v) = Count(d, v)
             /\ \A n : /\ LayerAdjustments(e, v, n) = LayerAdjustments(d, v, n)
                       /\ LayerAt(e, v, n) = LayerAt(d, v, n)
<1> DEFINE e == StoreInDatabase(d, c, a)
           rows == StoreDiff(d.adj[v], a, c.adjs)
<1>c. PICK adjs, sliders, crop : c = [vsn |-> v, adjs |-> adjs, sliders |-> sliders, crop |-> crop]
  BY DEF ControlsRight
<1>d. c.vsn = v /\ c.adjs = ReadRows(d.adj[v])
  BY <1>c DEF ControlsRight
<1>1. PICK badj, layers, ladj : d = [adj |-> badj, layers |-> layers, ladj |-> ladj]
  BY DEF IsSound, IsDatabase
<1>2. d.adj = badj /\ d.layers = layers /\ d.ladj = ladj /\ v \in DOMAIN badj /\ DOMAIN badj = Versions
  BY <1>1 DEF IsSound, IsDatabase
<1>3. e = [d EXCEPT !.adj[v] = rows]
  BY <1>d DEF StoreInDatabase
<1> HIDE DEF e, rows
<1>4. e = [adj |-> [badj EXCEPT ![v] = rows], layers |-> layers, ladj |-> ladj]
  BY <1>1, <1>3
<1>5. /\ e.layers = d.layers /\ e.ladj = d.ladj /\ e.adj[v] = rows /\ DOMAIN e.adj = Versions
      /\ e = [adj |-> e.adj, layers |-> e.layers, ladj |-> e.ladj]
  BY <1>2, <1>4
<1>6. /\ \A w : LayerIds(e, w) = LayerIds(d, w) /\ Count(e, w) = Count(d, w)
      /\ \A w, n : LayerId(e, w, n) = LayerId(d, w, n)
  BY <1>5 DEF LayerIds, Count, LayerId
<1>7. IsSound(e)
  BY <1>5, <1>6 DEF IsSound, IsDatabase, Stacked
<1>8. \A n : /\ LayerAdjustments(e, v, n) = LayerAdjustments(d, v, n)
             /\ LayerAt(e, v, n) = LayerAt(d, v, n)
  BY <1>5, <1>6 DEF LayerAdjustments, LayerAt
<1>9. ReadRows(e.adj[v]) = a
  BY <1>5, <1>d, StoredIsRead DEF rows
<1> QED
  BY <1>6, <1>7, <1>8, <1>9 DEF e

\* The adjustments of one layer do not touch those of the others.
LEMMA StoreLayerRight ==
  ASSUME NEW d, IsSound(d), NEW v \in Versions, NEW g, DialogRight(g, d, v),
         SlidersEnabled(d, g), NEW a, IsAdj(a)
  PROVE  LET e == StoreLayer(d, g, a)
             n == g.selected
         IN  /\ IsSound(e) /\ e.adj = d.adj /\ Count(e, v) = Count(d, v)
             /\ n \in 1 .. Count(d, v) /\ LayerAdjustments(e, v, n) = a
             /\ \A m \in 1 .. Count(d, v) :
                  /\ LayerAt(e, v, m) = LayerAt(d, v, m)
                  /\ m # n => LayerAdjustments(e, v, m) = LayerAdjustments(d, v, m)
<1> DEFINE e == StoreLayer(d, g, a)
           n == g.selected
           id == LayerId(d, v, n)
           rows == StoreDiff(d.ladj[id], a, g.adjs[n])
<1>0. /\ Count(d, v) \in Nat /\ n \in 1 .. Count(d, v) /\ g.vsn = v
      /\ LayerAt(d, v, n).typ # "Clone"
  BY LayersAreFinite, DialogFields DEF SlidersEnabled
<1>d. g.adjs[n] = ReadRows(d.ladj[id])
  BY <1>0 DEF DialogRight, LayerAdjustments
<1>i. id \in LayerIds(d, v) /\ id \in DOMAIN d.ladj /\ d.layers[id].typ # "Clone"
  BY <1>0, LayerIdRight DEF LayerIds, IsSound, Stacked, LayerAt
<1>1. PICK badj, layers, ladj : d = [adj |-> badj, layers |-> layers, ladj |-> ladj]
  BY DEF IsSound, IsDatabase
<1>2. d.adj = badj /\ d.layers = layers /\ d.ladj = ladj
  BY <1>1
<1>3. e = [d EXCEPT !.ladj[id] = rows]
  BY <1>0 DEF StoreLayer
<1> HIDE DEF e, rows, n, id
<1>4. e = [adj |-> badj, layers |-> layers, ladj |-> [ladj EXCEPT ![id] = rows]]
  BY <1>1, <1>3
<1>5. /\ e.layers = d.layers /\ e.adj = d.adj /\ e.ladj[id] = rows /\ DOMAIN e.ladj = DOMAIN d.ladj
      /\ \A i \in DOMAIN d.ladj : i # id => e.ladj[i] = d.ladj[i]
      /\ e = [adj |-> e.adj, layers |-> e.layers, ladj |-> e.ladj]
  BY <1>2, <1>4, <1>i
<1>6. /\ \A w : LayerIds(e, w) = LayerIds(d, w) /\ Count(e, w) = Count(d, w)
      /\ \A w, m : LayerId(e, w, m) = LayerId(d, w, m)
  BY <1>5 DEF LayerIds, Count, LayerId
<1>7. IsSound(e)
  BY <1>5, <1>6, <1>i DEF IsSound, IsDatabase, Stacked
<1>8. ASSUME NEW m \in 1 .. Count(d, v)
      PROVE  /\ LayerAt(e, v, m) = LayerAt(d, v, m)
             /\ m # n => LayerAdjustments(e, v, m) = LayerAdjustments(d, v, m)
  <2>1. LayerAt(e, v, m) = LayerAt(d, v, m)
    BY <1>5, <1>6 DEF LayerAt
  <2>2. LayerId(d, v, m) \in DOMAIN d.ladj /\ d.layers[LayerId(d, v, m)].stacking = m
    BY LayerIdRight DEF LayerIds, IsSound, Stacked
  <2>3. d.layers[id].stacking = n
    BY <1>0, LayerIdRight DEF id
  <2>4. m # n => LayerAdjustments(e, v, m) = LayerAdjustments(d, v, m)
    BY <2>2, <2>3, <1>5, <1>6 DEF LayerAdjustments
  <2> QED
    BY <2>1, <2>4
<1>9. LayerAdjustments(e, v, n) = a
  <2>1. ReadRows(rows) = a
    BY <1>d, StoredIsRead DEF rows
  <2> QED
    BY <2>1, <1>5, <1>6 DEF LayerAdjustments, id
<1> QED
  BY <1>0, <1>5, <1>6, <1>7, <1>8, <1>9 DEF e, n

LEMMA LayerChangedRight ==
  ASSUME NEW d, NEW e, NEW v, NEW g, DialogRight(g, d, v), Count(d, v) \in Nat,
         g.selected \in 1 .. Count(d, v), Count(e, v) = Count(d, v),
         NEW a, LayerAdjustments(e, v, g.selected) = a,
         \A m \in 1 .. Count(d, v) :
           m # g.selected => LayerAdjustments(e, v, m) = LayerAdjustments(d, v, m)
  PROVE  DialogRight(LayerChanged(g, a), e, v)
<1>1. PICK n, adjs, sliders :
        g = [vsn |-> v, rows |-> Count(d, v), selected |-> n, adjs |-> adjs, sliders |-> sliders]
  BY DEF DialogRight
<1>2. n = g.selected /\ adjs = g.adjs
  BY <1>1
<1>3. n \in DOMAIN adjs /\ n \in 1 .. Count(d, v)
  BY <1>2 DEF DialogRight
<1>4. LayerChanged(g, a) = [vsn |-> v, rows |-> Count(d, v), selected |-> n,
                            adjs |-> [adjs EXCEPT ![n] = a], sliders |-> a]
  <2>1. LayerChanged(g, a) = [g EXCEPT !.adjs[n] = a, !.sliders = a]
    BY <1>2 DEF LayerChanged
  <2> QED
    BY <1>1, <2>1
<1>5. \A m \in DOMAIN adjs : m \in 1 .. Count(d, v) /\ adjs[m] = LayerAdjustments(d, v, m)
  BY <1>2 DEF DialogRight
<1>6. /\ DOMAIN [adjs EXCEPT ![n] = a] = DOMAIN adjs /\ [adjs EXCEPT ![n] = a][n] = a
      /\ \A m \in DOMAIN adjs : [adjs EXCEPT ![n] = a][m] = LayerAdjustments(e, v, m)
  BY <1>2, <1>3, <1>5
<1> QED
  BY <1>3, <1>4, <1>5, <1>6 DEF DialogRight

-----------------------------------------------------------------------------
(* LiveAdjuster *)

LEMMA ForceUpdateRight ==
  ASSUME NEW d, NEW v, NEW l, LiveRight(l, d, v), ForceUpdate(l)
  PROVE  LiveRight(live', d, v)
<1>1. PICK all, target, mustshow :
        l = [version |-> v, all |-> AllFromDB(d, v), target |-> target, mustshow |-> mustshow]
  BY DEF LiveRight
<1>2. live' = [l EXCEPT !.mustshow = TRUE]
  BY DEF ForceUpdate
<1>3. live' = [version |-> v, all |-> AllFromDB(d, v), target |-> target, mustshow |-> TRUE]
  BY <1>1, <1>2
<1> QED
  BY <1>3 DEF LiveRight

LEMMA ReloadLayersRight ==
  ASSUME NEW d, IsSound(d), NEW v \in Versions, LiveRight(live, d, v),
         NEW p, PressRight(p, d, v), ReloadLayers(p.db, p.lowest)
  PROVE  LiveRight(live', p.db, v)
<1>1. PICK target, mustshow :
        live = [version |-> v, all |-> AllFromDB(d, v), target |-> target, mustshow |-> mustshow]
  BY DEF LiveRight
<1>2. RereadFromDB(AllFromDB(d, v), p.db, v, p.lowest) = AllFromDB(p.db, v)
  BY RereadRight DEF PressRight
<1> DEFINE l == [live EXCEPT !.all = RereadFromDB(live.all, p.db, live.version, p.lowest)]
<1>3. ForceUpdate(l)
  BY DEF ReloadLayers
<1>4. l = [version |-> v, all |-> AllFromDB(p.db, v), target |-> target, mustshow |-> mustshow]
  BY <1>1, <1>2
<1> HIDE DEF l
<1>5. LiveRight(l, p.db, v)
  BY <1>4 DEF LiveRight
<1> QED
  BY <1>3, <1>5, ForceUpdateRight

\* LiveAdjuster takes the base from the controls, which have stored it.
LEMMA ReloadBaseRight ==
  ASSUME NEW d, IsSound(d), NEW v \in Versions, LiveRight(live, d, v),
         NEW e, IsSound(e), NEW a, ReloadBase(a), ReadRows(e.adj[v]) = a, Count(e, v) = Count(d, v),
         \A n : /\ LayerAdjustments(e, v, n) = LayerAdjustments(d, v, n)
                /\ LayerAt(e, v, n) = LayerAt(d, v, n)
  PROVE  LiveRight(live', e, v)
<1>1. PICK target, mustshow :
        live = [version |-> v, all |-> AllFromDB(d, v), target |-> target, mustshow |-> mustshow]
  BY DEF LiveRight
<1> DEFINE layers == [n \in 1 .. Count(d, v) |->
                        [layer |-> LayerAt(d, v, n), adj |-> LayerAdjustments(d, v, n)]]
<1>2. AllFromDB(d, v) = [base |-> ReadRows(d.adj[v]), layers |-> layers]
  BY AllFromDBIs
<1>3. AllFromDB(e, v) = [base |-> a, layers |-> layers]
  BY AllFromDBIs
<1> HIDE DEF layers
<1>4. CASE a = live.all.base
  <2>1. live' = live
    BY <1>4 DEF ReloadBase
  <2>2. AllFromDB(e, v) = AllFromDB(d, v)
    BY <1>1, <1>2, <1>3, <1>4
  <2> QED
    BY <2>1, <2>2, <1>1 DEF LiveRight
<1>5. CASE a # live.all.base
  <2> DEFINE l == [live EXCEPT !.all.base = a]
  <2>1. ForceUpdate(l)
    BY <1>5 DEF ReloadBase
  <2>2. l = [version |-> v, all |-> AllFromDB(e, v), target |-> target, mustshow |-> mustshow]
    BY <1>1, <1>2, <1>3
  <2> HIDE DEF l
  <2>3. LiveRight(l, e, v)
    BY <2>2 DEF LiveRight
  <2> QED
    BY <2>1, <2>3, ForceUpdateRight
<1> QED
  BY <1>4, <1>5

\* The same of the adjustments of a layer.
LEMMA ReloadLayerRight ==
  ASSUME NEW d, IsSound(d), NEW v \in Versions, LiveRight(live, d, v),
         NEW e, IsSound(e), e.adj = d.adj, Count(e, v) = Count(d, v),
         NEW n \in 1 .. Count(d, v), NEW a, ReloadLayer(n, a), LayerAdjustments(e, v, n) = a,
         \A m \in 1 .. Count(d, v) :
           /\ LayerAt(e, v, m) = LayerAt(d, v, m)
           /\ m # n => LayerAdjustments(e, v, m) = LayerAdjustments(d, v, m)
  PROVE  LiveRight(live', e, v)
<1>1. PICK target, mustshow :
        live = [version |-> v, all |-> AllFromDB(d, v), target |-> target, mustshow |-> mustshow]
  BY DEF LiveRight
<1> DEFINE old(m) == [layer |-> LayerAt(d, v, m), adj |-> LayerAdjustments(d, v, m)]
           new(m) == [layer |-> LayerAt(e, v, m), adj |-> LayerAdjustments(e, v, m)]
           base == ReadRows(d.adj[v])
           layers == [m \in 1 .. Count(d, v) |-> old(m)]
<1>2. AllFromDB(d, v) = [base |-> base, layers |-> layers]
  BY AllFromDBIs
<1>3. AllFromDB(e, v) = [base |-> base, layers |-> [m \in 1 .. Count(d, v) |-> new(m)]]
  BY AllFromDBIs
<1>4. \A m \in 1 .. Count(d, v) : m # n => new(m) = old(m)
  OBVIOUS
<1>5. /\ old(n) = [layer |-> LayerAt(d, v, n), adj |-> old(n).adj]
      /\ new(n) = [layer |-> LayerAt(d, v, n), adj |-> a]
  OBVIOUS
<1> HIDE DEF base
<1> HIDE DEF old, new
<1>6. live.all.layers = layers /\ layers[n] = old(n)
  <2>1. layers[n] = old(n)
    OBVIOUS
  <2> HIDE DEF layers
  <2> QED
    BY <1>1, <1>2, <2>1
<1>7. CASE a = live.all.layers[n].adj
  <2>1. live' = live
    BY <1>7 DEF ReloadLayer
  <2>2. new(n) = old(n)
    <3>1. old(n).adj = a
      BY <1>6, <1>7
    <3> QED
      BY <3>1, <1>5
  <2>3. AllFromDB(e, v) = AllFromDB(d, v)
    BY <2>2, <1>2, <1>3, <1>4
  <2> QED
    BY <2>1, <2>3, <1>1 DEF LiveRight
<1>8. CASE a # live.all.layers[n].adj
  <2> DEFINE l == [live EXCEPT !.all.layers[n].adj = a]
  <2>1. ForceUpdate(l)
    BY <1>8 DEF ReloadLayer
  <2>2. l = [version |-> v, all |-> [base |-> base, layers |-> [layers EXCEPT ![n].adj = a]],
             target |-> target, mustshow |-> mustshow]
    <3> HIDE DEF layers
    <3> QED
      BY <1>1, <1>2
  <2>3. [layers EXCEPT ![n].adj = a] = [m \in 1 .. Count(d, v) |-> new(m)]
    <3>1. [old(n) EXCEPT !.adj = a] = new(n)
      BY <1>5
    <3>2. [layers EXCEPT ![n].adj = a] = [layers EXCEPT ![n] = new(n)]
      BY <3>1, <1>6
    <3> QED
      BY <3>2, <1>4
  <2> HIDE DEF l, layers
  <2>4. l = [version |-> v, all |-> AllFromDB(e, v), target |-> target, mustshow |-> mustshow]
    BY <2>2, <2>3, <1>3
  <2>5. LiveRight(l, e, v)
    BY <2>4 DEF LiveRight
  <2> QED
    BY <2>1, <2>5, ForceUpdateRight
<1> QED
  BY <1>7, <1>8

-----------------------------------------------------------------------------
(* The steps *)

LEMMA ControlsForRight ==
  ASSUME NEW d, NEW v
  PROVE  ControlsRight(ControlsFor(d, v), d, v)
<1> DEFINE a == ReadRows(d.adj[v])
<1>1. ControlsFor(d, v) = [vsn |-> v, adjs |-> a, sliders |-> a, crop |-> ResetCrop(a)]
  BY DEF ControlsFor
<1> HIDE DEF a
<1> QED
  BY <1>1 DEF ControlsRight, a

LEMMA LiveForRight ==
  ASSUME NEW d, NEW v, NEW target,
         NEW l, l = [version |-> v, all |-> AllFromDB(d, v), target |-> target, mustshow |-> TRUE]
  PROVE  LiveRight(l, d, v)
  BY DEF LiveRight

\* What the controls make of an adjustment that they store.
ChangedTo(c, a, crop) == [c EXCEPT !.adjs = a, !.sliders = a, !.crop = crop]

LEMMA ChangedControls ==
  ASSUME NEW d, NEW v, NEW c, ControlsRight(c, d, v), NEW a, NEW crop
  PROVE  LET new == ChangedTo(c, a, crop)
         IN  /\ new.adjs = a /\ new.vsn = v
             /\ \A e : ReadRows(e.adj[v]) = a => ControlsRight(new, e, v)
<1>1. PICK adjs, sliders, crop0 :
        c = [vsn |-> v, adjs |-> adjs, sliders |-> sliders, crop |-> crop0]
  BY DEF ControlsRight
<1>2. PICK new : new = ChangedTo(c, a, crop)
  OBVIOUS
<1>3. new = [c EXCEPT !.adjs = a, !.sliders = a, !.crop = crop]
  BY <1>2 DEF ChangedTo
<1>4. new = [vsn |-> v, adjs |-> a, sliders |-> a, crop |-> crop]
  BY <1>1, <1>3
<1> QED
  BY <1>2, <1>4 DEF ControlsRight

LEMMA InitIsKnown == Init => KnownInv
<1> SUFFICES ASSUME Init PROVE KnownInv
  OBVIOUS
<1>1. PICK v \in Versions :
        /\ ctl = ControlsFor(db, v)
        /\ dlg = DialogFor(db, NoneSelected(db, v), v)
        /\ live = [version |-> v, all |-> AllFromDB(db, v),
                   target |-> CroppedSize(OSize, ReadRows(db.adj[v])), mustshow |-> TRUE]
  BY DEF Init
<1>2. IsSound(db)
  BY PhotosAssumption DEF Init, IsSound
<1>3. ctl.vsn = v
  BY <1>1 DEF ControlsFor
<1>4. ControlsRight(ctl, db, v) /\ LiveRight(live, db, v)
  BY <1>1, ControlsForRight, LiveForRight
<1>5. DialogRight(dlg, db, v)
  BY <1>1, <1>2, DialogForRight
<1> QED
  BY <1>2, <1>3, <1>4, <1>5 DEF KnownInv

LEMMA ShowVersionKnown ==
  ASSUME KnownInv, NEW v \in Versions, ShowVersion(v)
  PROVE  KnownInv'
<1>1. /\ db' = db /\ ctl' = ControlsFor(db, v) /\ dlg' = DialogFor(db, dlg, v)
      /\ live' = [version |-> v, all |-> AllFromDB(db, v),
                  target |-> CroppedSize(OSize, ReadRows(db.adj[v])), mustshow |-> TRUE]
  BY DEF ShowVersion, MakeCurrent
<1>2. IsSound(db)
  BY DEF KnownInv
<1>3. ctl'.vsn = v
  BY <1>1 DEF ControlsFor
<1>4. ControlsRight(ctl', db, v) /\ LiveRight(live', db, v)
  BY <1>1, ControlsForRight, LiveForRight
<1>5. DialogRight(dlg', db, v)
  BY <1>1, <1>2, DialogForRight
<1>6. IsSound(db') /\ ControlsRight(ctl', db', v) /\ LiveRight(live', db', v) /\ DialogRight(dlg', db', v)
  BY <1>1, <1>2, <1>4, <1>5
<1> QED
  BY <1>3, <1>6 DEF KnownInv

\* A change of the base, by the sliders or the crop tab.
LEMMA BaseChangeKnown ==
  ASSUME KnownInv, NEW a, IsAdj(a), NEW crop,
         ctl' = ChangedTo(ctl, a, crop),
         db' = StoreInDatabase(db, ctl, a), ReloadBase(a), dlg' = dlg
  PROVE  KnownInv'
<1> DEFINE v == ctl.vsn
<1>0. /\ IsSound(db) /\ v \in Versions /\ ControlsRight(ctl, db, v) /\ DialogRight(dlg, db, v)
      /\ LiveRight(live, db, v)
  BY DEF KnownInv
<1> HIDE DEF v
<1>1. /\ IsSound(db') /\ ReadRows(db'.adj[v]) = a /\ Count(db', v) = Count(db, v)
      /\ \A n : /\ LayerAdjustments(db', v, n) = LayerAdjustments(db, v, n)
                /\ LayerAt(db', v, n) = LayerAt(db, v, n)
  BY <1>0, StoreBaseRight
<1>2. ControlsRight(ctl', db', v)
  BY <1>0, <1>1, ChangedControls
<1>3. DialogRight(dlg', db', v)
  BY <1>0, <1>1, SameDialog
<1>4. LiveRight(live', db', v)
  BY <1>0, <1>1, ReloadBaseRight
<1>5. ctl'.vsn = v
  BY <1>0, ChangedControls
<1> QED
  BY <1>0, <1>1, <1>2, <1>3, <1>4, <1>5 DEF KnownInv

LEMMA ControlsFields ==
  ASSUME KnownInv
  PROVE  ctl.vsn \in Versions /\ IsAdj(ctl.sliders) /\ ctl.sliders = ctl.adjs
  BY ReadRowsIsAdj DEF KnownInv, ControlsRight

LEMMA MoveSliderKnown ==
  ASSUME KnownInv, NEW s, NEW v, MoveSlider(s, v)
  PROVE  KnownInv'
<1> DEFINE a == SliderChange(ctl.sliders, s, v)
<1>1. IsAdj(a)
  BY ControlsFields, SliderChangeIsAdj
<1>2. /\ db' = StoreInDatabase(db, ctl, a) /\ ctl' = ChangeFromSliders(ctl, a)
      /\ ReloadBase(a) /\ dlg' = dlg
  BY DEF MoveSlider
<1> HIDE DEF a
<1>3. ctl' = ChangedTo(ctl, a, ResetCrop(a))
  BY <1>2 DEF ChangeFromSliders, ChangedTo
<1> QED
  BY <1>1, <1>2, <1>3, BaseChangeKnown

LEMMA RecropKnown ==
  ASSUME KnownInv, NEW crop, Recrop(crop)
  PROVE  KnownInv'
<1> DEFINE a == UpdateAdj(crop, ctl.sliders)
<1>1. IsAdj(a)
  BY ControlsFields, UpdateAdjIsAdj
<1>2. /\ ctl' = ChangeFromCropper(ctl, crop) /\ db' = StoreInDatabase(db, ctl, ctl'.adjs)
      /\ ReloadBase(ctl'.adjs) /\ dlg' = dlg
  BY DEF Recrop
<1>3. ctl' = ChangedTo(ctl, a, crop)
  BY <1>2 DEF ChangeFromCropper, ChangedTo
<1> HIDE DEF a
<1>4. ctl'.adjs = a
  BY <1>3, ChangedControls DEF KnownInv
<1> QED
  BY <1>1, <1>2, <1>3, <1>4, BaseChangeKnown

LEMMA ClickLayerKnown ==
  ASSUME KnownInv, NEW n \in 1 .. dlg.rows, ClickLayer(n)
  PROVE  KnownInv'
<1> DEFINE v == ctl.vsn
<1>0. /\ IsSound(db) /\ v \in Versions /\ DialogRight(dlg, db, v) /\ Count(db, v) \in Nat
  BY LayersAreFinite DEF KnownInv
<1>1. dlg' = SelectLayer(db, dlg, n) /\ db' = db /\ ctl' = ctl /\ live' = live
  BY DEF ClickLayer
<1> HIDE DEF v
<1>2. n \in 0 .. Count(db, v)
  BY <1>0, DialogFields
<1>3. DialogRight(dlg', db, v)
  BY <1>0, <1>1, <1>2, SelectLayerRight
<1> QED
  BY <1>1, <1>3 DEF KnownInv, v

\* A button of the layer dialogue.
LEMMA PressLayerKnown ==
  ASSUME KnownInv, NEW p, PressRight(p, db, ctl.vsn), PressLayer(p)
  PROVE  KnownInv'
<1> DEFINE v == ctl.vsn
<1>0. /\ IsSound(db) /\ v \in Versions /\ ControlsRight(ctl, db, v) /\ LiveRight(live, db, v)
  BY DEF KnownInv
<1>1. db' = p.db /\ dlg' = p.dlg /\ ctl' = ctl /\ ReloadLayers(p.db, p.lowest)
  BY DEF PressLayer
<1>2. LiveRight(live', p.db, v)
  BY <1>0, <1>1, ReloadLayersRight
<1>3. IsSound(p.db) /\ p.db.adj = db.adj /\ DialogRight(p.dlg, p.db, v)
  BY DEF PressRight
<1>4. ControlsRight(ctl, p.db, v)
  BY <1>0, <1>3 DEF ControlsRight
<1> QED
  BY <1>0, <1>1, <1>2, <1>3, <1>4 DEF KnownInv

LEMMA ButtonsKnown ==
  ASSUME KnownInv,
         PressAdd \/ PressDelete \/ PressRaise \/ PressLower \/ PressShowHide
  PROVE  KnownInv'
<1> DEFINE v == ctl.vsn
<1>0. /\ IsSound(db) /\ v \in Versions /\ DialogRight(dlg, db, v) /\ dlg.vsn = v
  BY DialogFields DEF KnownInv
<1> DEFINE Adding(layer) == LET new == AddLayer(db, v, layer)
                            IN  Pressed(new, DialogFor(new, dlg, v), Count(new, v))
<1>1. ASSUME NEW layer \in {NewLayer("LinearGradient"), NewLayer("Area"), NewLayer("Clone")}
      PROVE  PressRight(Adding(layer), db, v)
  <2>0. PICK typ \in LayerTypes : layer = [active |-> TRUE, typ |-> typ]
    BY DEF NewLayer, LayerTypes
  <2>1. layer \in [active : BOOLEAN, typ : LayerTypes]
    BY <2>0
  <2> QED
    BY <2>1, <1>0, AddRight
<1>2. CASE PressAdd
  <2>1. PICK press \in {AddLinearLayer(db, dlg), AddShapeLayer(db, dlg), AddCloneLayer(db, dlg)} :
          PressLayer(press)
    BY <1>2 DEF PressAdd
  <2>2. AddLinearLayer(db, dlg) = Adding(NewLayer("LinearGradient"))
    BY <1>0 DEF AddLinearLayer
  <2>3. AddShapeLayer(db, dlg) = Adding(NewLayer("Area"))
    BY <1>0 DEF AddShapeLayer
  <2>4. AddCloneLayer(db, dlg) = Adding(NewLayer("Clone"))
    BY <1>0 DEF AddCloneLayer
  <2>5. PressRight(press, db, v)
    <3> HIDE DEF Adding
    <3>1. PICK layer \in {NewLayer("LinearGradient"), NewLayer("Area"), NewLayer("Clone")} :
            press = Adding(layer)
      BY <2>1, <2>2, <2>3, <2>4
    <3> QED
      BY <3>1, <1>1
  <2> QED
    BY <2>1, <2>5, PressLayerKnown
<1>3. CASE PressDelete
  BY <1>3, <1>0, DeleteRight, PressLayerKnown DEF PressDelete
<1>4. CASE PressRaise
  BY <1>4, <1>0, RaiseRight, PressLayerKnown DEF PressRaise
<1>5. CASE PressLower
  BY <1>5, <1>0, LowerRight, PressLayerKnown DEF PressLower
<1>6. CASE PressShowHide
  BY <1>6, <1>0, ShowHideRight, PressLayerKnown DEF PressShowHide
<1> QED
  BY <1>2, <1>3, <1>4, <1>5, <1>6

LEMMA MoveLayerSliderKnown ==
  ASSUME KnownInv, NEW s, NEW w, MoveLayerSlider(s, w)
  PROVE  KnownInv'
<1> DEFINE v == ctl.vsn
           n == dlg.selected
           a == SliderChange(dlg.sliders, s, w)
<1>0. /\ IsSound(db) /\ v \in Versions /\ ControlsRight(ctl, db, v) /\ DialogRight(dlg, db, v)
      /\ LiveRight(live, db, v) /\ Count(db, v) \in Nat
  BY LayersAreFinite DEF KnownInv
<1>1. /\ SlidersEnabled(db, dlg) /\ db' = StoreLayer(db, dlg, a) /\ dlg' = LayerChanged(dlg, a)
      /\ ReloadLayer(n, a) /\ ctl' = ctl
  BY DEF MoveLayerSlider
<1> HIDE DEF v
<1>2. IsAdj(dlg.sliders)
  <2>1. dlg.selected > 0
    BY <1>1 DEF SlidersEnabled
  <2>2. dlg.sliders = LayerAdjustments(db, v, dlg.selected)
    BY <2>1, <1>0 DEF DialogRight
  <2> QED
    BY <2>2, ReadRowsIsAdj DEF LayerAdjustments
<1>3. IsAdj(a)
  BY <1>2, SliderChangeIsAdj
<1> HIDE DEF a
<1>4. /\ IsSound(db') /\ db'.adj = db.adj /\ Count(db', v) = Count(db, v)
      /\ n \in 1 .. Count(db, v) /\ LayerAdjustments(db', v, n) = a
      /\ \A m \in 1 .. Count(db, v) :
           /\ LayerAt(db', v, m) = LayerAt(db, v, m)
           /\ m # n => LayerAdjustments(db', v, m) = LayerAdjustments(db, v, m)
  BY <1>0, <1>1, <1>3, StoreLayerRight
<1>5. DialogRight(dlg', db', v)
  BY <1>0, <1>1, <1>4, LayerChangedRight
<1>6. LiveRight(live', db', v)
  BY <1>0, <1>1, <1>4, ReloadLayerRight
<1>7. ControlsRight(ctl, db', v)
  BY <1>0, <1>4 DEF ControlsRight
<1> QED
  BY <1>0, <1>1, <1>4, <1>5, <1>6, <1>7 DEF KnownInv, v

\* Paint and provideAdjusted change what LiveAdjuster is to show, and how big.
LEMMA LiveIsRight ==
  ASSUME KnownInv, db' = db, ctl' = ctl, dlg' = dlg, LiveRight(live', db, ctl.vsn)
  PROVE  KnownInv'
  BY DEF KnownInv

LEMMA LiveIsKept ==
  ASSUME KnownInv, db' = db, ctl' = ctl, dlg' = dlg, live' = live
  PROVE  KnownInv'
  BY DEF KnownInv

LEMMA PaintKnown ==
  ASSUME KnownInv, Paint
  PROVE  KnownInv'
<1> DEFINE size == DesiredSize(slide)
<1>1. live' = [live EXCEPT !.target = size, !.mustshow = TRUE] /\ UNCHANGED <<db, panel>>
  BY DEF Paint
<1> HIDE DEF size
<1>2. PICK t, m, v, all : /\ v = ctl.vsn /\ all = AllFromDB(db, ctl.vsn)
                          /\ live = [version |-> v, all |-> all, target |-> t, mustshow |-> m]
  BY DEF KnownInv, LiveRight
<1>3. live' = [version |-> v, all |-> all, target |-> size, mustshow |-> TRUE]
  BY <1>1, <1>2
<1>4. LiveRight(live', db, ctl.vsn)
  BY <1>2, <1>3 DEF LiveRight
<1> QED
  BY <1>1, <1>4, LiveIsRight DEF panel

LEMMA ProvideAdjustedKnown ==
  ASSUME KnownInv, ProvideAdjusted
  PROVE  KnownInv'
<1>1. UNCHANGED <<db, panel>> /\ (live' = live \/ live' = [live EXCEPT !.mustshow = FALSE])
  BY DEF ProvideAdjusted
<1>2. PICK t, m, v, all : /\ v = ctl.vsn /\ all = AllFromDB(db, ctl.vsn)
                          /\ live = [version |-> v, all |-> all, target |-> t, mustshow |-> m]
  BY DEF KnownInv, LiveRight
<1>3. CASE live' = [live EXCEPT !.mustshow = FALSE]
  <2>1. live' = [version |-> v, all |-> all, target |-> t, mustshow |-> FALSE]
    BY <1>2, <1>3
  <2>2. LiveRight(live', db, ctl.vsn)
    BY <1>2, <2>1 DEF LiveRight
  <2> QED
    BY <1>1, <2>2, LiveIsRight DEF panel
<1>4. CASE live' = live
  BY <1>1, <1>4, LiveIsKept DEF panel
<1> QED
  BY <1>1, <1>3, <1>4

LEMMA NextIsKnown ==
  ASSUME KnownInv, [Next]_vars
  PROVE  KnownInv'
<1>1. CASE \E v \in Versions : ShowVersion(v)
  BY <1>1, ShowVersionKnown
<1>2. CASE \E s \in UserSliders : \E v \in Targets(s, JogValue(ctl.sliders, s)) : MoveSlider(s, v)
  BY <1>2, MoveSliderKnown
<1>3. CASE \/ \E s \in UserCrop : MoveCropSlider(s)
           \/ \E mode \in {"Free", "Aspect"} : PressMode(mode)
           \/ \E o \in {"Auto", "Landscape", "Portrait"} : PressOrient(o)
           \/ \E p \in Aspects : PressAspect(p)
           \/ PressOptimize
  <2>1. \/ \E crop : Recrop(crop)
        \/ \E crop : ctl' = [ctl EXCEPT !.crop = crop] /\ UNCHANGED <<db, dlg, live>>
    BY <1>3 DEF MoveCropSlider, PressMode, PressOrient, PressAspect, PressOptimize
  <2>2. ASSUME NEW crop, ctl' = [ctl EXCEPT !.crop = crop], UNCHANGED <<db, dlg, live>>
        PROVE  KnownInv'
    <3>1. ctl'.vsn = ctl.vsn /\ ControlsRight(ctl', db, ctl.vsn)
      BY <2>2 DEF KnownInv, ControlsRight
    <3> QED
      BY <2>2, <3>1 DEF KnownInv
  <2> QED
    BY <2>1, <2>2, RecropKnown
<1>4. CASE \E n \in 1 .. dlg.rows : ClickLayer(n)
  BY <1>4, ClickLayerKnown
<1>5. CASE PressAdd \/ PressDelete \/ PressRaise \/ PressLower \/ PressShowHide
  BY <1>5, ButtonsKnown
<1>6. CASE \E s \in UserLayerSliders :
             \E v \in Targets(s, JogValue(dlg.sliders, s)) : MoveLayerSlider(s, v)
  BY <1>6, MoveLayerSliderKnown
<1>7. CASE PressCopy \/ Check \/ PressApply \/ PressZoom
  <2>1. UNCHANGED <<db, ctl, dlg, live>>
    <3>1. CASE PressCopy \/ Check
      BY <3>1 DEF PressCopy, Check, UseClipboard, shown
    <3>2. CASE PressApply
      BY <3>2 DEF PressApply, panel, shown
    <3>3. CASE PressZoom
      BY <3>3 DEF PressZoom, Zoom, panel
    <3> QED
      BY <1>7, <3>1, <3>2, <3>3
  <2> QED
    BY <2>1, LiveIsKept
<1>8. CASE Paint
  BY <1>8, PaintKnown
<1>9. CASE ProvideAdjusted
  BY <1>9, ProvideAdjustedKnown
<1>10. CASE ProvideScaledOriginal \/ ThreadStep
  <2>1. UNCHANGED <<db, panel, live>>
    BY <1>10 DEF ProvideScaledOriginal, ThreadStep, Wakeup, ComputeImage, CannotDo, Emit, shown
  <2> QED
    BY <2>1, LiveIsKept DEF panel
<1>11. CASE UNCHANGED vars
  BY <1>11, LiveIsKept DEF vars, panel, shown
<1> QED
  BY <1>1, <1>2, <1>3, <1>4, <1>5, <1>6, <1>7, <1>8, <1>9, <1>10, <1>11
     DEF Next, UserStep, LoopStep

-----------------------------------------------------------------------------
(* The picture.  Sequences of anything *)

IsSeq(s) == Len(s) \in Nat /\ DOMAIN s = 1 .. Len(s)

LEMMA FirstOnes ==
  ASSUME NEW s, IsSeq(s), NEW p \in 1 .. Len(s)
  PROVE  /\ IsSeq(SubSeq(s, 1, p)) /\ Len(SubSeq(s, 1, p)) = p
         /\ \A i \in 1 .. p : SubSeq(s, 1, p)[i] = s[i]
  BY DEF IsSeq

LEMMA Appended ==
  ASSUME NEW s, IsSeq(s), NEW x
  PROVE  /\ IsSeq(Append(s, x)) /\ Len(Append(s, x)) = Len(s) + 1
         /\ Append(s, x)[Len(s) + 1] = x
         /\ \A i \in 1 .. Len(s) : Append(s, x)[i] = s[i]
  BY DEF IsSeq

LEMMA LastOfAppended ==
  ASSUME NEW s, IsSeq(s), NEW x
  PROVE  Last(Append(s, x)) = x
  BY Appended DEF Last

-----------------------------------------------------------------------------
(* The stages *)

LEMMA StagesAre ==
  /\ DOMAIN Stages = 1 .. 7
  /\ Stages[1] = "Original" /\ Stages[2] = "Reduced" /\ Stages[3] = "XYZ" /\ Stages[4] = "Equalize"
  /\ Stages[5] = "IPT" /\ Stages[6] = "UMask" /\ Stages[7] = "Geometry"
  BY DEF Stages

LEMMA PlaceOf == \A i \in 1 .. 7 : Place(Stages[i]) = i
<1>1. ASSUME NEW i \in 1 .. 7, NEW j \in 1 .. 7, Stages[i] = Stages[j]
      PROVE  i = j
  BY <1>1, StagesAre
<1>2. QED
  <2>1. SUFFICES ASSUME NEW i \in 1 .. 7
                 PROVE  Place(Stages[i]) = i
    OBVIOUS
  <2>2. \E j \in DOMAIN Stages : Stages[j] = Stages[i]
    BY StagesAre
  <2>3. Place(Stages[i]) \in DOMAIN Stages /\ Stages[Place(Stages[i])] = Stages[i]
    BY <2>2 DEF Place
  <2>4. QED  BY <2>3, <1>1, StagesAre

\* The adjustments that the stage at place i looks at.
FieldsAt(i) == Fields(Stages[i]) \cap Keys

LEMMA FieldsDiffer ==
  ASSUME NEW i \in 3 .. 7, NEW j \in 3 .. 7, i # j
  PROVE  FieldsAt(i) \cap FieldsAt(j) = {}
<1>1. /\ Fields("XYZ") = FieldsXYZ /\ Fields("Equalize") = FieldsEqualize /\ Fields("IPT") = FieldsIPT
      /\ Fields("UMask") = FieldsUMask /\ Fields("Geometry") = FieldsGeometry
  BY DEF Fields
<1>2. /\ FieldsXYZ \cap FieldsEqualize = {} /\ FieldsXYZ \cap FieldsIPT = {}
      /\ FieldsXYZ \cap FieldsUMask = {} /\ FieldsXYZ \cap FieldsGeometry = {}
  BY DEF FieldsXYZ, FieldsEqualize, FieldsIPT, FieldsUMask, FieldsGeometry
<1>3. /\ FieldsEqualize \cap FieldsIPT = {} /\ FieldsEqualize \cap FieldsUMask = {}
      /\ FieldsEqualize \cap FieldsGeometry = {}
  BY DEF FieldsEqualize, FieldsIPT, FieldsUMask, FieldsGeometry
<1>4. /\ FieldsIPT \cap FieldsUMask = {} /\ FieldsIPT \cap FieldsGeometry = {}
      /\ FieldsUMask \cap FieldsGeometry = {}
  BY DEF FieldsIPT, FieldsUMask, FieldsGeometry
<1>5. Fields(Stages[i]) \cap Fields(Stages[j]) = {}
  <2>1. i \in {3, 4, 5, 6, 7} /\ j \in {3, 4, 5, 6, 7}
    OBVIOUS
  <2>2. QED  BY <1>1, <1>2, <1>3, <1>4, <2>1, StagesAre
<1>6. QED  BY <1>5 DEF FieldsAt

\* Settings that agree on what a stage looks at make the same of a content.
LEMMA SameStep ==
  ASSUME NEW i \in 3 .. 7, NEW a, NEW b, Equivalent(a, b, Fields(Stages[i])), NEW content
  PROVE  After(Stages[i], content, a) = After(Stages[i], content, b)
<1>1. \A k \in FieldsAt(i) : a[k] = b[k]
  BY DEF Equivalent, FieldsAt
<1>2. DefaultIn(a, Fields(Stages[i])) <=> DefaultIn(b, Fields(Stages[i]))
  BY <1>1 DEF DefaultIn, FieldsAt
<1>3. Step(Stages[i], a) = Step(Stages[i], b)
  <2>1. [k \in FieldsAt(i) |-> a[k]] = [k \in FieldsAt(i) |-> b[k]]
    BY <1>1
  <2>2. QED  BY <2>1 DEF Step, FieldsAt
<1>4. i = 4 => a["nlcontrast"] = b["nlcontrast"]
  <2>1. "nlcontrast" \in FieldsEqualize \cap Keys
    BY KeysAssumption DEF FieldsEqualize
  <2>2. i = 4 => "nlcontrast" \in FieldsAt(i)
    BY <2>1, StagesAre DEF FieldsAt, Fields
  <2>3. QED  BY <2>2, <1>1
<1>5. i = 6 => a["umask"] = b["umask"]
  <2>1. "umask" \in FieldsUMask \cap Keys
    BY KeysAssumption DEF FieldsUMask
  <2>2. i = 6 => "umask" \in FieldsAt(i)
    BY <2>1, StagesAre DEF FieldsAt, Fields
  <2>3. QED  BY <2>2, <1>1
<1>6. Effect(Stages[i], content, a) = Effect(Stages[i], content, b)
  <2>1. i \in {3, 4, 5, 6, 7}
    OBVIOUS
  <2>2. CASE i = 3
    BY <2>2, <1>3, StagesAre DEF Effect, XYZ
  <2>3. CASE i = 4
    BY <2>3, <1>3, <1>4, StagesAre DEF Effect, Equalize
  <2>4. CASE i = 5
    BY <2>4, <1>3, StagesAre DEF Effect, IPT
  <2>5. CASE i = 6
    BY <2>5, <1>3, <1>5, StagesAre DEF Effect, UMask
  <2>6. CASE i = 7
    BY <2>6, <1>3, StagesAre DEF Effect
  <2>7. QED  BY <2>1, <2>2, <2>3, <2>4, <2>5, <2>6
<1>7. QED  BY <1>2, <1>6 DEF After

\* What the stages up to place i make of a content.
Through3(c, a) == After("XYZ", c, a)
Through4(c, a) == After("Equalize", Through3(c, a), a)
Through5(c, a) == After("IPT", Through4(c, a), a)
Through6(c, a) == After("UMask", Through5(c, a), a)
Through(i, c, a) ==
  IF i = 7 THEN Adjusted(c, a) ELSE IF i = 6 THEN Through6(c, a) ELSE IF i = 5 THEN Through5(c, a)
  ELSE IF i = 4 THEN Through4(c, a) ELSE IF i = 3 THEN Through3(c, a) ELSE c

LEMMA ThroughStep ==
  ASSUME NEW i \in 3 .. 7, NEW c, NEW a
  PROVE  Through(i, c, a) = After(Stages[i], Through(i - 1, c, a), a)
<1>1. i \in {3, 4, 5, 6, 7}
  OBVIOUS
<1>2. CASE i = 3
  BY <1>2, StagesAre DEF Through, Through3
<1>3. CASE i = 4
  BY <1>3, StagesAre DEF Through, Through4
<1>4. CASE i = 5
  BY <1>4, StagesAre DEF Through, Through5
<1>5. CASE i = 6
  BY <1>5, StagesAre DEF Through, Through6
<1>6. CASE i = 7
  BY <1>6, StagesAre DEF Through, Adjusted, Through6, Through5, Through4, Through3
<1>7. QED  BY <1>1, <1>2, <1>3, <1>4, <1>5, <1>6

DefaultAfter(i, a) == \A s \in 3 .. 7 : s > i => DefaultIn(a, Fields(Stages[s]))
AgreeUpTo(i, a, b) == \A s \in 3 .. 7 : s <= i => Equivalent(a, b, Fields(Stages[s]))

LEMMA ThroughIsAll ==
  ASSUME NEW i \in 1 .. 7, NEW c, NEW a, DefaultAfter(i, a)
  PROVE  Adjusted(c, a) = Through(i, c, a)
<1>1. \A s \in 3 .. 7 : s > i => Through(s, c, a) = Through(s - 1, c, a)
  BY ThroughStep DEF After, DefaultAfter
<1>2. Through(7, c, a) = Adjusted(c, a)
  BY DEF Through
<1>3. Through(1, c, a) = Through(2, c, a)
  BY DEF Through
<1>4. i \in {1, 2, 3, 4, 5, 6, 7}
  OBVIOUS
<1>5. QED  BY <1>1, <1>2, <1>3, <1>4

LEMMA SameThrough ==
  ASSUME NEW i \in 1 .. 7, NEW c, NEW a, NEW b, AgreeUpTo(i, a, b)
  PROVE  Through(i, c, a) = Through(i, c, b)
<1>1. ASSUME NEW s \in 3 .. 7, s <= i, Through(s - 1, c, a) = Through(s - 1, c, b)
      PROVE  Through(s, c, a) = Through(s, c, b)
  <2>1. Equivalent(a, b, Fields(Stages[s]))
    BY <1>1 DEF AgreeUpTo
  <2>2. PICK x : x = Through(s - 1, c, a)
    OBVIOUS
  <2>3. After(Stages[s], x, a) = After(Stages[s], x, b)
    BY <2>1, SameStep
  <2>4. QED  BY <2>2, <2>3, <1>1, ThroughStep
<1>2. Through(1, c, a) = Through(1, c, b) /\ Through(2, c, a) = Through(2, c, b)
  BY DEF Through
<1>3. 3 <= i => Through(3, c, a) = Through(3, c, b)
  BY <1>1, <1>2
<1>4. 4 <= i => Through(4, c, a) = Through(4, c, b)
  BY <1>1, <1>3
<1>5. 5 <= i => Through(5, c, a) = Through(5, c, b)
  BY <1>1, <1>4
<1>6. 6 <= i => Through(6, c, a) = Through(6, c, b)
  BY <1>1, <1>5
<1>7. 7 <= i => Through(7, c, a) = Through(7, c, b)
  BY <1>1, <1>6
<1>8. QED  BY <1>2, <1>3, <1>4, <1>5, <1>6, <1>7

-----------------------------------------------------------------------------
(* The tiles of an adjuster *)

IsImage(img) == img = [content |-> img.content, size |-> img.size]

PlaceOfTile(t) == Place(t.stage)
SmallTile(t) == Place(t.stage) <= 2

\* The image of a tile is what its settings make of the content c, and it has not
\* been through the stages after its own.
TileRight(t, c) ==
  /\ t = [stage |-> t.stage, image |-> t.image, settings |-> t.settings, osize |-> t.osize]
  /\ IsImage(t.image) /\ t.settings = [k \in Keys |-> t.settings[k]]
  /\ \E i \in 1 .. 7 : t.stage = Stages[i]
  /\ t.image.content = Adjusted(c, t.settings)
  /\ DefaultAfter(PlaceOfTile(t), t.settings)

\* Of two tiles the later one has been through a later stage, or both are mere
\* originals; and it was made from the earlier one: their settings differ in nothing
\* that a stage before the next tile's looks at.
TilesOrdered(t, u) == PlaceOfTile(t) < PlaceOfTile(u) \/ (SmallTile(t) /\ SmallTile(u))
TilesRight(tiles, c) ==
  /\ IsSeq(tiles) /\ Len(tiles) >= 1
  /\ SmallTile(tiles[1])
  /\ \A j \in 1 .. Len(tiles) : TileRight(tiles[j], c)
  /\ \A j, l \in 1 .. Len(tiles) : j < l =>
       /\ TilesOrdered(tiles[j], tiles[l])
       /\ AgreeUpTo(PlaceOfTile(tiles[j + 1]) - 1, tiles[j].settings, tiles[l].settings)

LEMMA TilePlace ==
  ASSUME NEW t, NEW c, TileRight(t, c)
  PROVE  PlaceOfTile(t) \in 1 .. 7 /\ t.stage = Stages[PlaceOfTile(t)]
  BY PlaceOf DEF TileRight, PlaceOfTile

LEMMA FirstTilesRight ==
  ASSUME NEW tiles, NEW c, TilesRight(tiles, c), NEW p \in 1 .. Len(tiles)
  PROVE  TilesRight(SubSeq(tiles, 1, p), c)
<1> DEFINE first == SubSeq(tiles, 1, p)
<1>1. IsSeq(first) /\ Len(first) = p /\ \A i \in 1 .. p : first[i] = tiles[i]
  BY FirstOnes DEF TilesRight
<1>2. Len(tiles) \in Nat
  BY DEF TilesRight, IsSeq
<1> HIDE DEF first
<1>3. Len(first) >= 1 /\ SmallTile(first[1])
  BY <1>1, <1>2 DEF TilesRight
<1>4. \A j \in 1 .. p : TileRight(first[j], c)
  BY <1>1, <1>2 DEF TilesRight
<1>5. ASSUME NEW j \in 1 .. p, NEW l \in 1 .. p, j < l
      PROVE  /\ TilesOrdered(first[j], first[l])
             /\ AgreeUpTo(PlaceOfTile(first[j + 1]) - 1, first[j].settings, first[l].settings)
  <2>1. first[j] = tiles[j] /\ first[l] = tiles[l] /\ first[j + 1] = tiles[j + 1]
    BY <1>1, <1>2, <1>5
  <2>2. QED  BY <2>1, <1>2, <1>5 DEF TilesRight
<1>6. QED  BY <1>1, <1>3, <1>4, <1>5 DEF TilesRight, first

\* A tile may be put on the last one if it comes later and agrees with it.
LEMMA OneTileMore ==
  ASSUME NEW tiles, NEW c, TilesRight(tiles, c), NEW t, TileRight(t, c),
         \A j \in 1 .. Len(tiles) : TilesOrdered(tiles[j], t),
         AgreeUpTo(PlaceOfTile(t) - 1, tiles[Len(tiles)].settings, t.settings)
  PROVE  TilesRight(Append(tiles, t), c) /\ Append(tiles, t)[1] = tiles[1]
<1> DEFINE more == Append(tiles, t)
           n == Len(tiles)
<1>1. n \in Nat /\ n >= 1
  BY DEF TilesRight, IsSeq
<1>2. IsSeq(more) /\ Len(more) = n + 1 /\ more[n + 1] = t /\ \A i \in 1 .. n : more[i] = tiles[i]
  BY Appended DEF TilesRight
<1>3. \A j \in 1 .. n : /\ PlaceOfTile(tiles[j]) \in 1 .. 7 /\ PlaceOfTile(t) \in 1 .. 7
  BY TilePlace DEF TilesRight
<1>4. ASSUME NEW j \in 1 .. n, NEW l \in 1 .. n + 1, j < l
      PROVE  /\ TilesOrdered(more[j], more[l])
             /\ AgreeUpTo(PlaceOfTile(more[j + 1]) - 1, more[j].settings, more[l].settings)
  <2> HIDE DEF more
  <2>1. CASE l \in 1 .. n
    <3>1. more[j] = tiles[j] /\ more[l] = tiles[l] /\ more[j + 1] = tiles[j + 1]
      BY <1>1, <1>2, <1>4, <2>1
    <3>2. QED  BY <3>1, <1>1, <1>4, <2>1 DEF TilesRight
  <2>2. CASE l = n + 1
    <3>1. more[j] = tiles[j] /\ more[l] = t
      BY <1>1, <1>2, <1>4, <2>2
    <3>2. CASE j = n
      BY <3>1, <3>2, <1>1, <1>2, <2>2
    <3>3. CASE j < n
      <4>1. more[j + 1] = tiles[j + 1]
        BY <1>1, <1>2, <3>3
      <4>2. AgreeUpTo(PlaceOfTile(tiles[j + 1]) - 1, tiles[j].settings, tiles[n].settings)
        BY <1>1, <3>3 DEF TilesRight
      <4>3. j + 1 \in 1 .. n /\ TilesOrdered(tiles[j + 1], t)
        BY <1>1, <3>3
      <4>4. AgreeUpTo(PlaceOfTile(tiles[j + 1]) - 1, tiles[n].settings, t.settings)
        <5>1. PlaceOfTile(tiles[j + 1]) \in 1 .. 7 /\ PlaceOfTile(t) \in 1 .. 7
          BY <1>3, <4>3
        <5>2. CASE PlaceOfTile(tiles[j + 1]) < PlaceOfTile(t)
          <6>1. \A s \in 3 .. 7 : s <= PlaceOfTile(tiles[j + 1]) - 1 => s <= PlaceOfTile(t) - 1
            BY <5>1, <5>2
          <6>2. QED  BY <6>1 DEF AgreeUpTo
        <5>3. CASE PlaceOfTile(tiles[j + 1]) <= 2
          <6>1. \A s \in 3 .. 7 : ~ (s <= PlaceOfTile(tiles[j + 1]) - 1)
            BY <5>1, <5>3
          <6>2. QED  BY <6>1 DEF AgreeUpTo
        <5>4. QED  BY <4>3, <5>2, <5>3 DEF TilesOrdered, SmallTile, PlaceOfTile
      <4>5. AgreeUpTo(PlaceOfTile(tiles[j + 1]) - 1, tiles[j].settings, t.settings)
        BY <4>2, <4>4 DEF AgreeUpTo, Equivalent
      <4>6. QED  BY <3>1, <4>1, <4>5
    <3>4. QED  BY <3>2, <3>3, <1>1
  <2>3. QED  BY <2>1, <2>2, <1>1
<1> HIDE DEF more
<1>5. \A j \in 1 .. n + 1 : TileRight(more[j], c)
  BY <1>1, <1>2 DEF TilesRight
<1>6. Len(more) >= 1 /\ SmallTile(more[1]) /\ more[1] = tiles[1]
  BY <1>1, <1>2 DEF TilesRight
<1>7. \A j, l \in 1 .. n + 1 : j < l => j \in 1 .. n
  BY <1>1
<1>8. TilesRight(more, c)
  BY <1>2, <1>4, <1>5, <1>6, <1>7 DEF TilesRight
<1>9. QED  BY <1>6, <1>8 DEF more

\* What is put in as an original is right.
LEMMA OriginalRight ==
  ASSUME NEW img, IsImage(img), NEW stage \in {"Original", "Reduced"}, NEW osize
  PROVE  TilesRight(<<Tile(img, stage, osize)>>, img.content)
<1> DEFINE t == Tile(img, stage, osize)
<1>1. t = [stage |-> stage, image |-> img, settings |-> Defaults, osize |-> osize]
  BY DEF Tile
<1>2. PICK i \in 1 .. 2 : stage = Stages[i]
  BY StagesAre
<1> HIDE DEF t
<1>3. t.stage = Stages[i] /\ PlaceOfTile(t) = i /\ i \in 1 .. 7
  BY <1>1, <1>2, PlaceOf DEF PlaceOfTile
<1>4. DefaultAfter(i, Defaults)
  BY DEF DefaultAfter, DefaultIn, Defaults
<1>5. Adjusted(img.content, Defaults) = img.content
  BY <1>4, <1>3, ThroughIsAll DEF Through
<1>6. Defaults = [k \in Keys |-> Defaults[k]]
  BY DEF Defaults
<1>7. TileRight(t, img.content)
  BY <1>1, <1>3, <1>4, <1>5, <1>6 DEF TileRight
<1>8. IsSeq(<<t>>) /\ Len(<<t>>) = 1 /\ <<t>>[1] = t
  BY DEF IsSeq
<1>9. SmallTile(t)
  BY <1>3 DEF SmallTile, PlaceOfTile
<1>10. \A j \in 1 .. 1 : <<t>>[j] = t
  BY <1>8
<1>11. TilesRight(<<t>>, img.content)
  <2> DEFINE tiles == <<t>>
  <2>1. IsSeq(tiles) /\ Len(tiles) = 1 /\ \A j \in 1 .. 1 : tiles[j] = t
    BY <1>8, <1>10
  <2> HIDE DEF tiles
  <2>2. TilesRight(tiles, img.content)
    BY <2>1, <1>7, <1>9 DEF TilesRight
  <2>3. QED  BY <2>2 DEF tiles
<1>12. QED  BY <1>11 DEF t

-----------------------------------------------------------------------------
(* What an adjuster retrieves *)

\* A scaled copy of a small tile is put on small tiles.
LEMMA ScaledTileRight ==
  ASSUME NEW t, NEW c, TileRight(t, c), SmallTile(t), NEW size
  PROVE  TileRight(ScaledTile(t, size), c) /\ PlaceOfTile(ScaledTile(t, size)) = 2
<1> DEFINE u == ScaledTile(t, size)
<1>1. PICK stage, content, s, a, osize :
        /\ t = [stage |-> stage, image |-> [content |-> content, size |-> s], settings |-> a,
                osize |-> osize]
  BY DEF TileRight, IsImage
<1>2. PICK z : u = [stage |-> "Reduced", image |-> [content |-> content, size |-> z],
                    settings |-> a, osize |-> osize]
  <2>1. PICK z : z = ScaledToFitSnuglyIn(t.image.size, size)
    OBVIOUS
  <2>2. u = [t EXCEPT !.stage = "Reduced", !.image.size = z]
    BY <2>1 DEF ScaledTile
  <2>3. QED  BY <2>2, <1>1
<1> HIDE DEF u
<1>3. u.stage = Stages[2] /\ PlaceOfTile(u) = 2
  <2>1. u.stage = Stages[2]
    BY <1>2, StagesAre
  <2>2. QED  BY <2>1, PlaceOf DEF PlaceOfTile
<1>4. content = Adjusted(c, a) /\ a = [k \in Keys |-> a[k]]
  BY <1>1 DEF TileRight
<1>5. DefaultAfter(2, a)
  <2>1. DefaultAfter(PlaceOfTile(t), a) /\ PlaceOfTile(t) \in 1 .. 7 /\ PlaceOfTile(t) <= 2
    BY <1>1, TilePlace DEF TileRight, SmallTile, PlaceOfTile
  <2>2. QED  BY <2>1 DEF DefaultAfter
<1>6. TileRight(u, c)
  BY <1>2, <1>3, <1>4, <1>5 DEF TileRight, IsImage
<1>7. QED  BY <1>3, <1>6 DEF u

LEMMA ScalingRight ==
  ASSUME NEW tiles, NEW c, TilesRight(tiles, c), NEW a, NEW size
  PROVE  LET scaled == ApplyNeedBasedScaling(tiles, a, size)
         IN TilesRight(scaled, c) /\ scaled[1] = tiles[1]
<1> DEFINE needed == NeededScaledOriginalSize(tiles[1].osize, a, size)
           n == Len(tiles)
           Good(i) == Place(tiles[i].stage) <= 2 /\ IsLargeEnoughFor(tiles[i].image.size, needed)
           ends == {i \in 1 .. n : i = n \/ ~Good(i + 1)}
           k == CHOOSE i \in ends : \A j \in ends : i <= j
           kept == IF k < n /\ Place(tiles[k + 1].stage) <= 2 THEN DropFrom(tiles, k + 1) ELSE tiles
           scaled == ApplyNeedBasedScaling(tiles, a, size)
<1>1. \/ scaled = Append(DropFrom(kept, k + 1), ScaledTile(tiles[k], needed))
      \/ scaled = kept
  BY DEF ApplyNeedBasedScaling
<1> HIDE DEF needed, scaled
<1>2. n \in Nat /\ n >= 1
  BY DEF TilesRight, IsSeq
<1>3. k \in ends /\ \A j \in ends : k <= j
  <2>1. ends \in SUBSET Nat /\ n \in ends
    BY <1>2
  <2> HIDE DEF ends
  <2>2. \E i \in ends : \A j \in ends : i <= j
    BY <2>1, LeastNumber
  <2>3. QED  BY <2>2
<1> HIDE DEF k
<1>4. k \in 1 .. n
  BY <1>3
<1>5. SmallTile(tiles[k])
  <2>1. CASE k = 1
    BY <2>1 DEF TilesRight
  <2>2. CASE k # 1
    <3>1. k - 1 \in 1 .. n /\ ~ (k <= k - 1)
      BY <2>2, <1>2, <1>4
    <3>2. k - 1 \notin ends
      <4> HIDE DEF ends
      <4>1. QED  BY <3>1, <1>3
    <3>3. Good((k - 1) + 1) /\ (k - 1) + 1 = k
      BY <3>1, <3>2, <1>4
    <3>4. QED  BY <3>3 DEF SmallTile
  <2>3. QED  BY <2>1, <2>2
<1> HIDE DEF ends
<1> DEFINE first == SubSeq(tiles, 1, k)
<1>6. TilesRight(first, c) /\ IsSeq(first) /\ Len(first) = k /\ \A i \in 1 .. k : first[i] = tiles[i]
  BY <1>4, FirstTilesRight, FirstOnes DEF TilesRight
<1>7. kept = first \/ kept = tiles
  BY <1>2, <1>4 DEF DropFrom
<1>8. DropFrom(kept, k + 1) = first
  <2>1. DropFrom(tiles, k + 1) = first
    BY <1>2, <1>4 DEF DropFrom
  <2>2. DropFrom(first, k + 1) = first
    <3>1. (k + 1) - 1 = k
      BY <1>4
    <3>2. DropFrom(first, k + 1) = SubSeq(first, 1, k)
      BY <3>1 DEF DropFrom
    <3>3. SubSeq(first, 1, k) = first
      BY <1>4
    <3>4. QED  BY <3>2, <3>3
  <2>3. QED  BY <1>7, <2>1, <2>2
<1>9. kept[1] = tiles[1] /\ TilesRight(kept, c) /\ first[1] = tiles[1]
  <2>1. first[1] = tiles[1]
    BY <1>6, <1>4
  <2> HIDE DEF first, kept
  <2>2. QED  BY <1>6, <1>7, <2>1
<1> HIDE DEF kept
<1>10. CASE scaled = kept
  BY <1>9, <1>10 DEF scaled
<1>11. CASE scaled = Append(first, ScaledTile(tiles[k], needed))
  <2>1. TileRight(tiles[k], c)
    BY <1>4 DEF TilesRight
  <2>2. PICK t : t = ScaledTile(tiles[k], needed)
    OBVIOUS
  <2>3. TileRight(t, c) /\ PlaceOfTile(t) = 2
    BY <2>1, <2>2, <1>5, ScaledTileRight
  <2>4. ASSUME NEW j \in 1 .. k
        PROVE  SmallTile(tiles[j])
    <3>1. j = k \/ (j < k /\ j \in 1 .. n)
      BY <1>2, <1>4
    <3>2. CASE j < k
      <4>1. TilesOrdered(tiles[j], tiles[k])
        BY <3>1, <3>2, <1>4 DEF TilesRight
      <4>2. TileRight(tiles[j], c) /\ TileRight(tiles[k], c)
        BY <3>1, <3>2, <1>4 DEF TilesRight
      <4>3. PlaceOfTile(tiles[j]) \in 1 .. 7 /\ PlaceOfTile(tiles[k]) \in 1 .. 7
        BY <4>2, TilePlace
      <4>4. QED  BY <4>1, <4>3, <1>5 DEF TilesOrdered, SmallTile, PlaceOfTile
    <3>3. QED  BY <3>1, <3>2, <1>5
  <2>5. \A j \in 1 .. Len(first) : TilesOrdered(first[j], t)
    <3>1. \A j \in 1 .. k : SmallTile(first[j])
      BY <2>4, <1>6
    <3>2. SmallTile(t)
      BY <2>3 DEF SmallTile, PlaceOfTile
    <3>3. QED  BY <3>1, <3>2, <1>6 DEF TilesOrdered
  <2>6. AgreeUpTo(PlaceOfTile(t) - 1, first[Len(first)].settings, t.settings)
    BY <2>3 DEF AgreeUpTo
  <2> HIDE DEF first
  <2>7. TilesRight(Append(first, t), c) /\ Append(first, t)[1] = first[1]
    BY <1>6, <2>3, <2>5, <2>6, OneTileMore
  <2>8. QED  BY <2>7, <2>2, <1>9, <1>11 DEF scaled
<1>12. QED  BY <1>1, <1>8, <1>10, <1>11

\* A stage makes a right tile of one that has not come to it.
LEMMA AppliedRight ==
  ASSUME NEW t, NEW c, TileRight(t, c), NEW i \in 3 .. 7, PlaceOfTile(t) < i, NEW a,
         ~DefaultIn(a, Fields(Stages[i]))
  PROVE  LET u == Applied(Stages[i], t, a)
         IN /\ TileRight(u, c) /\ PlaceOfTile(u) = i
            /\ Equivalent(u.settings, a, Fields(Stages[i]))
            /\ AgreeUpTo(i - 1, t.settings, u.settings)
<1> DEFINE u == Applied(Stages[i], t, a)
<1>1. PICK stage, content, size, b, osize :
        t = [stage |-> stage, image |-> [content |-> content, size |-> size], settings |-> b,
             osize |-> osize]
  BY DEF TileRight, IsImage
<1> DEFINE new == [k \in Keys |-> IF k \in Fields(Stages[i]) THEN a[k] ELSE b[k]]
<1>2. PICK z : u = [stage |-> Stages[i],
                    image |-> [content |-> Effect(Stages[i], content, a), size |-> z],
                    settings |-> new, osize |-> osize]
  <2> DEFINE z == IF Stages[i] = "Geometry" THEN Cropped(size, osize, a) ELSE size
  <2>1. t.image = [content |-> content, size |-> size] /\ t.settings = b /\ t.osize = osize
    BY <1>1
  <2>2. u = [t EXCEPT !.stage = Stages[i], !.image.content = Effect(Stages[i], content, a),
                      !.image.size = z, !.settings = new]
    BY <2>1 DEF Applied
  <2> HIDE DEF z, new, u
  <2>3. u = [stage |-> Stages[i],
             image |-> [content |-> Effect(Stages[i], content, a), size |-> z],
             settings |-> new, osize |-> osize]
    <3>1. PICK st, x : st = Stages[i] /\ x = Effect(Stages[i], content, a)
      OBVIOUS
    <3>2. u = [t EXCEPT !.stage = st, !.image.content = x, !.image.size = z, !.settings = new]
      BY <2>2, <3>1
    <3>3. u = [stage |-> st, image |-> [content |-> x, size |-> z], settings |-> new, osize |-> osize]
      BY <3>2, <1>1
    <3>4. QED  BY <3>1, <3>3
  <2>4. QED  BY <2>3
<1> HIDE DEF u
<1>3. u.stage = Stages[i] /\ PlaceOfTile(u) = i
  BY <1>2, PlaceOf DEF PlaceOfTile
<1>4. \A k \in FieldsAt(i) : new[k] = a[k]
  BY DEF FieldsAt
<1>5. \A s \in 3 .. 7 : s # i => \A k \in FieldsAt(s) : new[k] = b[k]
  <2>1. ASSUME NEW s \in 3 .. 7, s # i, NEW k \in FieldsAt(s)
        PROVE  new[k] = b[k]
    <3>1. k \notin FieldsAt(i) /\ k \in Keys
      BY <2>1, FieldsDiffer DEF FieldsAt
    <3>2. k \notin Fields(Stages[i])
      BY <3>1 DEF FieldsAt
    <3>3. QED  BY <3>1, <3>2
  <2>2. QED  BY <2>1
<1>6. new = [k \in Keys |-> new[k]]
  OBVIOUS
<1> HIDE DEF new
<1>7. PlaceOfTile(t) \in 1 .. 7 /\ content = Adjusted(c, b) /\ DefaultAfter(PlaceOfTile(t), b)
  BY <1>1, TilePlace DEF TileRight
<1>8. DefaultAfter(i, new)
  BY <1>5, <1>7 DEF DefaultAfter, DefaultIn, FieldsAt
<1>9. AgreeUpTo(i - 1, b, new)
  BY <1>5 DEF AgreeUpTo, Equivalent, FieldsAt
<1>10. Effect(Stages[i], content, a) = Adjusted(c, new)
  <2>1. DefaultAfter(i - 1, b)
    BY <1>7 DEF DefaultAfter
  <2>2. content = Through(i - 1, c, b)
    BY <2>1, <1>7, ThroughIsAll
  <2>3. Through(i - 1, c, b) = Through(i - 1, c, new)
    BY <1>9, SameThrough
  <2>4. Adjusted(c, new) = Through(i, c, new)
    BY <1>8, ThroughIsAll
  <2>5. Through(i, c, new) = After(Stages[i], Through(i - 1, c, new), new)
    BY ThroughStep
  <2>6. Equivalent(new, a, Fields(Stages[i]))
    BY <1>4 DEF Equivalent, FieldsAt
  <2>7. After(Stages[i], content, new) = After(Stages[i], content, a)
    BY <2>6, SameStep
  <2>8. After(Stages[i], content, a) = Effect(Stages[i], content, a)
    BY DEF After
  <2>9. QED  BY <2>2, <2>3, <2>4, <2>5, <2>7, <2>8
<1>11. TileRight(u, c)
  BY <1>2, <1>3, <1>6, <1>8, <1>10 DEF TileRight, IsImage
<1>12. Equivalent(u.settings, a, Fields(Stages[i]))
  BY <1>2, <1>4 DEF Equivalent, FieldsAt
<1>13. AgreeUpTo(i - 1, t.settings, u.settings)
  <2>1. t.settings = b /\ u.settings = new
    BY <1>1, <1>2
  <2>2. QED  BY <2>1, <1>9
<1>14. QED  BY <1>3, <1>11, <1>12, <1>13 DEF u

LEMMA ParentRight ==
  ASSUME NEW tiles, NEW c, TilesRight(tiles, c), NEW i \in 3 .. 7
  PROVE  LET p == FindParentStage(tiles, Stages[i])
         IN /\ p \in 1 .. Len(tiles)
            /\ \A j \in 1 .. p : PlaceOfTile(tiles[j]) < i
            /\ p < Len(tiles) => PlaceOfTile(tiles[p + 1]) >= i
<1> DEFINE n == Len(tiles)
           later == {j \in DOMAIN tiles : Place(tiles[j].stage) >= Place(Stages[i])}
           p == FindParentStage(tiles, Stages[i])
<1>1. n \in Nat /\ n >= 1 /\ DOMAIN tiles = 1 .. n
  BY DEF TilesRight, IsSeq
<1>2. Place(Stages[i]) = i
  BY PlaceOf
<1>3. \A j \in 1 .. n : PlaceOfTile(tiles[j]) \in 1 .. 7
  BY TilePlace DEF TilesRight
<1>4. later = {j \in 1 .. n : PlaceOfTile(tiles[j]) >= i}
  BY <1>1, <1>2 DEF PlaceOfTile
<1>5. p = IF later = {} THEN n ELSE (CHOOSE j \in later : \A l \in later : j <= l) - 1
  BY DEF FindParentStage
<1> HIDE DEF p, later
<1>6. CASE later = {}
  BY <1>1, <1>3, <1>4, <1>5, <1>6 DEF p
<1>7. CASE later # {}
  <2> DEFINE k == CHOOSE j \in later : \A l \in later : j <= l
  <2>1. later \in SUBSET Nat
    BY <1>1, <1>4
  <2>2. \E j \in later : \A l \in later : j <= l
    BY <2>1, <1>7, LeastNumber
  <2>3. k \in later /\ \A l \in later : k <= l
    BY <2>2
  <2>4. p = k - 1
    BY <1>5, <1>7
  <2> HIDE DEF k
  <2>5. k \in 1 .. n /\ PlaceOfTile(tiles[k]) >= i
    BY <1>4, <2>3
  <2>6. k # 1
    <3>1. PlaceOfTile(tiles[1]) <= 2
      BY DEF TilesRight, SmallTile, PlaceOfTile
    <3>2. QED  BY <3>1, <2>5, <1>1, <1>3
  <2>7. p \in 1 .. n /\ p + 1 = k
    BY <2>4, <2>5, <2>6, <1>1
  <2>8. ASSUME NEW j \in 1 .. p
        PROVE  PlaceOfTile(tiles[j]) < i
    <3>1. j \in 1 .. n /\ ~ (k <= j)
      BY <2>5, <2>7, <1>1
    <3>2. j \notin later
      BY <3>1, <2>3
    <3>3. ~ (PlaceOfTile(tiles[j]) >= i) /\ PlaceOfTile(tiles[j]) \in 1 .. 7
      BY <3>1, <3>2, <1>3, <1>4
    <3>4. QED  BY <3>3
  <2>9. PlaceOfTile(tiles[p + 1]) >= i
    BY <2>5, <2>7
  <2>10. QED  BY <2>7, <2>8, <2>9 DEF p
<1>8. QED  BY <1>6, <1>7

\* The settings of the last tile agree with a in what the stages up to place i look at.
Done(tiles, a, i) == AgreeUpTo(i, Last(tiles).settings, a)
DidRight(did, c) ==
  did = [tiles |-> did.tiles, ok |-> did.ok] /\ did.ok \in BOOLEAN /\ TilesRight(did.tiles, c)
NotCut(cut) == \A i \in 3 .. 7 : cut # Stages[i]

LEMMA StageRight ==
  ASSUME NEW did, NEW c, DidRight(did, c), NEW i \in 3 .. 7, NEW a, NEW cut,
         did.ok => Done(did.tiles, a, i - 1)
  PROVE  LET r == ApplyStage(did, Stages[i], a, cut)
         IN /\ DidRight(r, c) /\ r.tiles[1] = did.tiles[1]
            /\ r.ok => Done(r.tiles, a, i)
            /\ did.ok /\ NotCut(cut) => r.ok
<1> DEFINE p == FindParentStage(did.tiles, Stages[i])
           kept == SubSeq(did.tiles, 1, p)
           n == Len(did.tiles)
           r == ApplyStage(did, Stages[i], a, cut)
<1>1. PICK tiles, ok : did = [tiles |-> tiles, ok |-> ok] /\ ok \in BOOLEAN /\ TilesRight(tiles, c)
  BY DEF DidRight
<1>2. n \in Nat /\ n >= 1 /\ did.tiles = tiles /\ did.ok = ok /\ IsSeq(tiles)
  BY <1>1 DEF TilesRight, IsSeq
<1>3. /\ p \in 1 .. n /\ (\A j \in 1 .. p : PlaceOfTile(tiles[j]) < i)
      /\ (p < n => PlaceOfTile(tiles[p + 1]) >= i)
  <2>1. p = FindParentStage(tiles, Stages[i]) /\ n = Len(tiles)
    BY <1>2
  <2>2. QED  BY <2>1, <1>1, ParentRight
<1>4. r = IF ~did.ok \/ AlreadyGood(did.tiles, p, Stages[i], a) THEN did
          ELSE IF DefaultIn(a, Fields(Stages[i])) THEN [did EXCEPT !.tiles = kept]
          ELSE IF Stages[i] = cut THEN [tiles |-> kept, ok |-> FALSE]
          ELSE [did EXCEPT !.tiles = Append(kept, Applied(Stages[i], Last(kept), a))]
  <2>1. r = ApplyStageTo(did, p, Stages[i], a, cut)
    BY DEF ApplyStage
  <2> HIDE DEF p, r
  <2>2. QED  BY <2>1 DEF ApplyStageTo
<1> HIDE DEF r, p
<1>5. /\ TilesRight(kept, c) /\ IsSeq(kept) /\ Len(kept) = p
      /\ \A j \in 1 .. p : kept[j] = tiles[j]
  <2>1. kept = SubSeq(tiles, 1, p) /\ n = Len(tiles)
    BY <1>2
  <2>2. p \in 1 .. Len(tiles) /\ TilesRight(tiles, c) /\ IsSeq(tiles)
    BY <2>1, <1>1, <1>2, <1>3
  <2> HIDE DEF kept, n
  <2>3. TilesRight(SubSeq(tiles, 1, p), c)
    BY <2>2, FirstTilesRight
  <2>4. QED  BY <2>1, <2>2, <2>3, FirstOnes
<1> HIDE DEF kept
<1>6. kept[1] = tiles[1] /\ Last(kept) = tiles[p]
  BY <1>3, <1>5 DEF Last
<1>7. TileRight(tiles[p], c) /\ TileRight(tiles[n], c)
  BY <1>1, <1>2, <1>3 DEF TilesRight
<1>8. PlaceOfTile(tiles[p]) \in 1 .. 7 /\ PlaceOfTile(tiles[p]) < i
  BY <1>3, <1>7, TilePlace
\* What the last of the tiles agrees in, the last of those that are kept does.
<1>9. ok => AgreeUpTo(i - 1, tiles[p].settings, a)
  <2>1. ok => AgreeUpTo(i - 1, tiles[n].settings, a)
    BY <1>2 DEF Done, Last
  <2>2. CASE p = n
    BY <2>1, <2>2
  <2>3. CASE p < n
    <3>1. AgreeUpTo(PlaceOfTile(tiles[p + 1]) - 1, tiles[p].settings, tiles[n].settings)
      BY <1>1, <1>2, <1>3, <2>3 DEF TilesRight
    <3>2. TileRight(tiles[p + 1], c)
      BY <1>1, <1>2, <1>3, <2>3 DEF TilesRight
    <3>3. PlaceOfTile(tiles[p + 1]) \in 1 .. 7 /\ PlaceOfTile(tiles[p + 1]) >= i
      BY <3>2, <1>3, <2>3, TilePlace
    <3>4. AgreeUpTo(i - 1, tiles[p].settings, tiles[n].settings)
      <4>1. \A s \in 3 .. 7 : s <= i - 1 => s <= PlaceOfTile(tiles[p + 1]) - 1
        BY <3>3
      <4>2. QED  BY <3>1, <4>1 DEF AgreeUpTo
    <3>5. QED  BY <2>1, <3>4 DEF AgreeUpTo, Equivalent
  <2>4. QED  BY <2>2, <2>3, <1>2, <1>3
<1>10. CASE ~did.ok
  <2>1. r = did
    BY <1>4, <1>10
  <2>2. QED  BY <2>1, <1>10 DEF r
<1>11. CASE did.ok /\ AlreadyGood(did.tiles, p, Stages[i], a)
  <2>1. r = did
    BY <1>4, <1>11
  <2>2. p < n /\ Equivalent(tiles[p + 1].settings, a, Fields(Stages[i]))
    BY <1>2, <1>3, <1>11 DEF AlreadyGood
  <2>3. Equivalent(tiles[n].settings, a, Fields(Stages[i]))
    <3>1. CASE p + 1 = n
      BY <2>2, <3>1
    <3>2. CASE p + 1 < n
      <4>1. /\ TilesOrdered(tiles[p + 1], tiles[(p + 1) + 1])
            /\ AgreeUpTo(PlaceOfTile(tiles[(p + 1) + 1]) - 1, tiles[p + 1].settings, tiles[n].settings)
            /\ TileRight(tiles[p + 1], c) /\ TileRight(tiles[(p + 1) + 1], c)
        BY <1>1, <1>2, <1>3, <3>2 DEF TilesRight
      <4>2. PlaceOfTile(tiles[p + 1]) \in 1 .. 7 /\ PlaceOfTile(tiles[(p + 1) + 1]) \in 1 .. 7
        BY <4>1, TilePlace
      <4>3. i <= PlaceOfTile(tiles[(p + 1) + 1]) - 1
        BY <4>1, <4>2, <1>3, <2>2 DEF TilesOrdered, SmallTile, PlaceOfTile
      <4>4. Equivalent(tiles[p + 1].settings, tiles[n].settings, Fields(Stages[i]))
        BY <4>1, <4>3 DEF AgreeUpTo
      <4>5. QED  BY <2>2, <4>4 DEF Equivalent
    <3>3. QED  BY <2>2, <3>1, <3>2, <1>2, <1>3
  <2>4. AgreeUpTo(i - 1, tiles[n].settings, a)
    BY <1>2, <1>11 DEF Done, Last
  <2>5. AgreeUpTo(i, tiles[n].settings, a)
    <3>1. \A s \in 3 .. 7 : s <= i => s = i \/ s <= i - 1
      OBVIOUS
    <3>2. QED  BY <2>3, <2>4, <3>1 DEF AgreeUpTo
  <2>6. Done(r.tiles, a, i)
    BY <2>1, <2>5, <1>2 DEF Done, Last
  <2>7. QED  BY <2>1, <2>6, <1>11 DEF r
<1>12. CASE did.ok /\ ~AlreadyGood(did.tiles, p, Stages[i], a) /\ DefaultIn(a, Fields(Stages[i]))
  <2>1. r = [tiles |-> kept, ok |-> ok]
    BY <1>1, <1>4, <1>12
  <2>2. DefaultIn(tiles[p].settings, Fields(Stages[i]))
    BY <1>7, <1>8 DEF TileRight, DefaultAfter
  <2>3. Equivalent(tiles[p].settings, a, Fields(Stages[i]))
    BY <2>2, <1>12 DEF DefaultIn, Equivalent
  <2>4. AgreeUpTo(i, tiles[p].settings, a)
    <3>1. \A s \in 3 .. 7 : s <= i => s = i \/ s <= i - 1
      OBVIOUS
    <3>2. QED  BY <2>3, <3>1, <1>2, <1>9, <1>12 DEF AgreeUpTo
  <2>5. Done(r.tiles, a, i)
    BY <2>1, <2>4, <1>6 DEF Done
  <2>6. DidRight(r, c) /\ r.ok = ok /\ r.tiles = kept
    BY <2>1, <1>1, <1>5 DEF DidRight
  <2>7. QED  BY <2>5, <2>6, <1>2, <1>6 DEF r
<1>13. CASE did.ok /\ ~AlreadyGood(did.tiles, p, Stages[i], a) /\ ~DefaultIn(a, Fields(Stages[i]))
            /\ Stages[i] = cut
  <2>1. r = [tiles |-> kept, ok |-> FALSE]
    BY <1>4, <1>13
  <2>2. DidRight(r, c) /\ r.ok = FALSE /\ r.tiles = kept
    BY <2>1, <1>5 DEF DidRight
  <2>3. ~NotCut(cut)
    BY <1>13 DEF NotCut
  <2>4. QED  BY <2>2, <2>3, <1>2, <1>6 DEF r
<1>14. CASE did.ok /\ ~AlreadyGood(did.tiles, p, Stages[i], a) /\ ~DefaultIn(a, Fields(Stages[i]))
            /\ Stages[i] # cut
  <2>1. PICK t : t = Applied(Stages[i], tiles[p], a)
    OBVIOUS
  <2>2. r = [tiles |-> Append(kept, t), ok |-> ok]
    BY <2>1, <1>1, <1>4, <1>6, <1>14
  <2>3. /\ TileRight(t, c) /\ PlaceOfTile(t) = i
        /\ Equivalent(t.settings, a, Fields(Stages[i]))
        /\ AgreeUpTo(i - 1, tiles[p].settings, t.settings)
    BY <2>1, <1>7, <1>8, <1>14, AppliedRight
  <2>4. \A j \in 1 .. Len(kept) : TilesOrdered(kept[j], t)
    BY <2>3, <1>3, <1>5 DEF TilesOrdered
  <2>5. AgreeUpTo(PlaceOfTile(t) - 1, kept[Len(kept)].settings, t.settings)
    BY <2>3, <1>3, <1>5
  <2>6. TilesRight(Append(kept, t), c) /\ Append(kept, t)[1] = kept[1]
    BY <2>3, <2>4, <2>5, <1>5, OneTileMore
  <2>7. Last(Append(kept, t)) = t
    BY <1>5, LastOfAppended
  <2>8. AgreeUpTo(i - 1, t.settings, a)
    BY <2>3, <1>2, <1>9, <1>14 DEF AgreeUpTo, Equivalent
  <2>9. AgreeUpTo(i, t.settings, a)
    <3>1. \A s \in 3 .. 7 : s <= i => s = i \/ s <= i - 1
      OBVIOUS
    <3>2. QED  BY <2>3, <2>8, <3>1 DEF AgreeUpTo
  <2>10. PICK new : new = Append(kept, t)
    OBVIOUS
  <2>11. r.tiles = new /\ r.ok = ok /\ r = [tiles |-> new, ok |-> ok]
    BY <2>2, <2>10
  <2>12. Done(r.tiles, a, i) /\ DidRight(r, c)
    BY <2>6, <2>7, <2>9, <2>10, <2>11, <1>1 DEF Done, DidRight
  <2>13. QED  BY <2>6, <2>10, <2>11, <2>12, <1>2, <1>6 DEF r
<1>15. QED  BY <1>10, <1>11, <1>12, <1>13, <1>14

LEMMA SettingsRight ==
  ASSUME NEW tiles, NEW c, TilesRight(tiles, c), NEW a, NEW cut
  PROVE  LET did == ApplySettings(tiles, a, cut)
         IN /\ DidRight(did, c) /\ did.tiles[1] = tiles[1]
            /\ did.ok => Done(did.tiles, a, 7)
            /\ NotCut(cut) => did.ok
<1>1. PICK d2 : d2 = [tiles |-> tiles, ok |-> TRUE]
  OBVIOUS
<1>2. PICK d3 : d3 = ApplyStage(d2, Stages[3], a, cut)
  OBVIOUS
<1>3. PICK d4 : d4 = ApplyStage(d3, Stages[4], a, cut)
  OBVIOUS
<1>4. PICK d5 : d5 = ApplyStage(d4, Stages[5], a, cut)
  OBVIOUS
<1>5. PICK d6 : d6 = ApplyStage(d5, Stages[6], a, cut)
  OBVIOUS
<1>6. PICK d7 : d7 = ApplyStage(d6, Stages[7], a, cut)
  OBVIOUS
<1>7. ApplySettings(tiles, a, cut) = d7
  BY <1>1, <1>2, <1>3, <1>4, <1>5, <1>6, StagesAre DEF ApplySettings
<1>8. DidRight(d2, c) /\ d2.tiles = tiles /\ d2.ok = TRUE /\ Done(d2.tiles, a, 2)
  BY <1>1 DEF DidRight, Done, AgreeUpTo
<1>9. /\ DidRight(d3, c) /\ d3.tiles[1] = tiles[1] /\ (d3.ok => Done(d3.tiles, a, 3))
      /\ (NotCut(cut) => d3.ok)
  <2>1. 3 \in 3 .. 7 /\ 3 - 1 = 2
    OBVIOUS
  <2>2. QED  BY <2>1, <1>2, <1>8, StageRight
<1>10. /\ DidRight(d4, c) /\ d4.tiles[1] = tiles[1] /\ (d4.ok => Done(d4.tiles, a, 4))
       /\ (NotCut(cut) => d4.ok)
  <2>1. 4 \in 3 .. 7 /\ 4 - 1 = 3
    OBVIOUS
  <2>2. QED  BY <2>1, <1>3, <1>9, StageRight
<1>11. /\ DidRight(d5, c) /\ d5.tiles[1] = tiles[1] /\ (d5.ok => Done(d5.tiles, a, 5))
       /\ (NotCut(cut) => d5.ok)
  <2>1. 5 \in 3 .. 7 /\ 5 - 1 = 4
    OBVIOUS
  <2>2. QED  BY <2>1, <1>4, <1>10, StageRight
<1>12. /\ DidRight(d6, c) /\ d6.tiles[1] = tiles[1] /\ (d6.ok => Done(d6.tiles, a, 6))
       /\ (NotCut(cut) => d6.ok)
  <2>1. 6 \in 3 .. 7 /\ 6 - 1 = 5
    OBVIOUS
  <2>2. QED  BY <2>1, <1>5, <1>11, StageRight
<1>13. /\ DidRight(d7, c) /\ d7.tiles[1] = tiles[1] /\ (d7.ok => Done(d7.tiles, a, 7))
       /\ (NotCut(cut) => d7.ok)
  <2>1. 7 \in 3 .. 7 /\ 7 - 1 = 6
    OBVIOUS
  <2>2. QED  BY <2>1, <1>6, <1>12, StageRight
<1>14. QED  BY <1>7, <1>13

LEMMA LastRight ==
  ASSUME NEW tiles, NEW c, TilesRight(tiles, c)
  PROVE  TileRight(Last(tiles), c) /\ IsImage(Last(tiles).image)
         /\ Last(tiles).image.content = Adjusted(c, Last(tiles).settings)
<1>1. Len(tiles) \in Nat /\ Len(tiles) >= 1
  BY DEF TilesRight, IsSeq
<1>2. TileRight(tiles[Len(tiles)], c)
  BY <1>1 DEF TilesRight
<1>3. QED  BY <1>2 DEF Last, TileRight

\* Without None nothing that is meant to be something can be told from nothing.
NoneIsNoData ==
  \A x, y : [content |-> x, size |-> y] # None /\ [v |-> x, size |-> y] # None

LEMMA ImageIsNotNone ==
  ASSUME NoneIsNoData, NEW img, IsImage(img)
  PROVE  img # None /\ SizeOf(img) = img.size
<1>1. img # None
  BY DEF NoneIsNoData, IsImage
<1>2. QED  BY <1>1 DEF SizeOf

\* What an adjuster retrieves from right tiles is what the settings make of the
\* content, or nothing; the tiles it leaves are right, and their original is the same.
LEMMA RetrievedRight ==
  ASSUME NoneIsNoData, NEW tiles, NEW c, TilesRight(tiles, c), NEW a, NEW size, NEW cut
  PROVE  LET r == RetrieveReduced(tiles, a, size, cut)
         IN /\ TilesRight(r.tiles, c) /\ r.tiles[1] = tiles[1]
            /\ r.img # None => /\ IsImage(r.img) /\ r.img.content = Adjusted(c, a)
                               /\ r.img = Last(r.tiles).image
            /\ NotCut(cut) /\ InputSize(tiles) # Empty => r.img # None
            /\ InputSize(tiles) = Empty => r.tiles = tiles /\ r.img = None
<1> DEFINE r == RetrieveReduced(tiles, a, size, cut)
<1>1. CASE InputSize(tiles) = Empty
  BY <1>1 DEF RetrieveReduced
<1>2. CASE InputSize(tiles) # Empty
  <2>1. PICK scaled : scaled = ApplyNeedBasedScaling(tiles, a, size)
    OBVIOUS
  <2>2. TilesRight(scaled, c) /\ scaled[1] = tiles[1]
    BY <2>1, ScalingRight
  <2>3. PICK did : did = ApplySettings(scaled, a, cut)
    OBVIOUS
  <2>4. /\ DidRight(did, c) /\ did.tiles[1] = tiles[1] /\ (did.ok => Done(did.tiles, a, 7))
        /\ (NotCut(cut) => did.ok)
    BY <2>2, <2>3, SettingsRight
  <2>5. r = Outcome(scaled, did, a)
    BY <2>1, <2>3, <1>2 DEF RetrieveReduced, FromScaled
  <2> HIDE DEF r
  <2>6. CASE Last(scaled).settings = a
    <3>1. r = [tiles |-> scaled, img |-> Last(scaled).image]
      BY <2>5, <2>6 DEF Outcome
    <3>2. IsImage(Last(scaled).image) /\ Last(scaled).image.content = Adjusted(c, a)
      BY <2>2, <2>6, LastRight
    <3>3. Last(scaled).image # None
      BY <3>2, ImageIsNotNone
    <3>4. r.tiles = scaled /\ r.img = Last(scaled).image
      BY <3>1
    <3>5. QED  BY <3>2, <3>3, <3>4, <2>2, <1>2 DEF r
  <2>7. CASE Last(scaled).settings # a
    <3>1. r = [tiles |-> did.tiles, img |-> IF did.ok THEN Last(did.tiles).image ELSE None]
      BY <2>5, <2>7 DEF Outcome
    <3>2. IsImage(Last(did.tiles).image) /\ TilesRight(did.tiles, c)
          /\ Last(did.tiles).image.content = Adjusted(c, Last(did.tiles).settings)
      BY <2>4, LastRight DEF DidRight
    <3>3. Last(did.tiles).image # None
      BY <3>2, ImageIsNotNone
    <3>4. did.ok => Adjusted(c, Last(did.tiles).settings) = Adjusted(c, a)
      <4>1. did.ok => AgreeUpTo(7, Last(did.tiles).settings, a)
        BY <2>4 DEF Done
      <4>2. did.ok => Through(7, c, Last(did.tiles).settings) = Through(7, c, a)
        BY <4>1, SameThrough
      <4>3. \A b : Through(7, c, b) = Adjusted(c, b)
        BY DEF Through
      <4>4. QED  BY <4>2, <4>3
    <3>5. r.tiles = did.tiles /\ r.img = IF did.ok THEN Last(did.tiles).image ELSE None
      BY <3>1
    <3>6. QED  BY <3>2, <3>3, <3>4, <3>5, <2>4, <1>2 DEF r
  <2>8. QED  BY <2>6, <2>7
<1>3. QED  BY <1>1, <1>2

-----------------------------------------------------------------------------
(* Induction, and the recursive functions that need it to be defined *)

\* A set of natural numbers that holds 0 and is closed under successor is Nat.
LEMMA SetInduction ==
  ASSUME NEW S \in SUBSET Nat, 0 \in S, \A n \in S : n + 1 \in S
  PROVE  S = Nat
<1>1. ASSUME Nat \ S # {}
      PROVE  FALSE
  <2>1. PICK x \in Nat \ S : \A y \in Nat \ S : x <= y
    <3>1. Nat \ S \in SUBSET Nat
      OBVIOUS
    <3>2. QED  BY <3>1, <1>1, LeastNumber
  <2>2. x - 1 \in S
    BY <2>1
  <2>3. x - 1 + 1 \in S
    BY <2>2
  <2>4. QED  BY <2>1, <2>3
<1>2. QED  BY <1>1

Begun(all0, all, cut) == [aa |-> EnsureAdjusters(all0, Len(all.layers)), img |-> None, cut |-> cut]

\* One climb after another.
ClimbsTo(g, all0, all, size, cut, k, T) ==
  g = [f \in k .. T |-> IF f = k THEN Begun(all0, all, cut) ELSE Climb(g[f - 1], all, f, size)]

LEMMA ClimbedDef ==
  ASSUME NEW aa0, NEW all, NEW size, NEW cut, NEW k \in Nat, NEW L \in Nat, k <= L, NEW start,
         L = Len(all.layers) + 1, k = start - 1
  PROVE  ClimbsTo(Climbed(aa0, all, size, start, cut), aa0, all, size, cut, k, L)
<1> DEFINE Rung(g, i) == IF i = k THEN Begun(aa0, all, cut) ELSE Climb(g[i - 1], all, i, size)
           P(n) == \E g : g = [i \in k .. (k + n) |-> Rung(g, i)]
           Works == {n \in Nat : P(n)}
           F == CHOOSE g : g = [i \in k .. L |-> Rung(g, i)]
<1>1. 0 \in Works
  <2> DEFINE g == [i \in k .. (k + 0) |-> Begun(aa0, all, cut)]
  <2>1. \A i \in k .. (k + 0) : i = k
    OBVIOUS
  <2>2. g = [i \in k .. (k + 0) |-> Rung(g, i)]
    <3>1. \A i \in k .. (k + 0) : Rung(g, i) = Begun(aa0, all, cut)
      <4> HIDE DEF g
      <4>1. QED  BY <2>1
    <3> HIDE DEF Rung
    <3>2. QED  BY <3>1
  <2> HIDE DEF g, Rung
  <2>3. QED  BY <2>2
<1>2. ASSUME NEW n \in Works
      PROVE  n + 1 \in Works
  <2>1. n \in Nat /\ P(n)
    OBVIOUS
  <2>2. PICK g : g = [i \in k .. (k + n) |-> Rung(g, i)]
    BY <2>1
  <2> DEFINE h == [i \in k .. (k + (n + 1)) |-> IF i = k + (n + 1) THEN Rung(g, i) ELSE g[i]]
  <2>3. ASSUME NEW i \in k .. (k + (n + 1))
        PROVE  h[i] = Rung(h, i)
    <3>1. i = k \/ h[i - 1] = g[i - 1]
      <4> HIDE DEF Rung
      <4>1. QED  BY <2>1
    <3>2. Rung(h, i) = Rung(g, i)
      <4> HIDE DEF h
      <4>1. QED  BY <3>1
    <3> HIDE DEF Rung
    <3>3. h[i] = Rung(g, i)
      <4>1. CASE i = k + (n + 1)
        BY <4>1
      <4>2. CASE i # k + (n + 1)
        <5>1. i \in k .. (k + n)
          BY <2>1, <4>2
        <5>2. g[i] = Rung(g, i)
          BY <2>2, <5>1
        <5>3. QED  BY <4>2, <5>2
      <4>3. QED  BY <4>1, <4>2
    <3>4. QED  BY <3>2, <3>3
  <2>4. h = [i \in k .. (k + (n + 1)) |-> Rung(h, i)]
    <3>1. h = [i \in k .. (k + (n + 1)) |-> h[i]]
      <4> HIDE DEF Rung
      <4>1. QED  OBVIOUS
    <3> HIDE DEF h, Rung
    <3>2. QED  BY <2>3, <3>1
  <2> HIDE DEF h, Rung
  <2>5. P(n + 1)
    BY <2>4
  <2>6. QED  BY <2>1, <2>5
<1> HIDE DEF Rung
<1>3. Works = Nat
  <2>1. Works \in SUBSET Nat
    OBVIOUS
  <2> HIDE DEF Works
  <2>2. QED  BY <1>1, <1>2, <2>1, SetInduction
<1>4. \E g : g = [i \in k .. L |-> Rung(g, i)]
  <2>1. L - k \in Works /\ k + (L - k) = L
    <3> HIDE DEF Works
    <3>1. QED  BY <1>3
  <2>2. P(L - k)
    BY <2>1
  <2>3. QED  BY <2>1, <2>2
<1>5. F = [i \in k .. L |-> Rung(F, i)]
  BY <1>4, Zenon DEF F
<1>6. F = Climbed(aa0, all, size, start, cut)
  <2>1. Climbed(aa0, all, size, start, cut) =
          CHOOSE g : g = [f \in start - 1 .. Len(all.layers) + 1 |->
                            IF f = start - 1 THEN Begun(aa0, all, cut) ELSE Climb(g[f - 1], all, f, size)]
    BY Zenon DEF Climbed, Begun
  <2>2. QED  BY <2>1, Zenon DEF Rung
<1>7. QED  BY <1>5, <1>6, Zenon DEF Rung, ClimbsTo

LEMMA UpToDef ==
  ASSUME NEW v, NEW all, NEW L \in Nat, L = Len(all.layers)
  PROVE  /\ UpTo(v, all)[0] = Adjusted(<<<<"Photo", v>>>>, all.base)
         /\ \A n \in 1 .. L : UpTo(v, all)[n] = Covered(UpTo(v, all)[n - 1], all.layers[n])
<1> DEFINE Rung(g, i) == IF i = 0 THEN Adjusted(<<<<"Photo", v>>>>, all.base)
                         ELSE Covered(g[i - 1], all.layers[i])
           P(n) == \E g : g = [i \in 0 .. n |-> Rung(g, i)]
           Works == {n \in Nat : P(n)}
           F == CHOOSE g : g = [i \in 0 .. L |-> Rung(g, i)]
<1>1. 0 \in Works
  <2> DEFINE g == [i \in 0 .. 0 |-> Adjusted(<<<<"Photo", v>>>>, all.base)]
  <2>1. \A i \in 0 .. 0 : i = 0
    OBVIOUS
  <2>2. g = [i \in 0 .. 0 |-> Rung(g, i)]
    <3>1. \A i \in 0 .. 0 : Rung(g, i) = Adjusted(<<<<"Photo", v>>>>, all.base)
      <4> HIDE DEF g
      <4>1. QED  BY <2>1
    <3> HIDE DEF Rung
    <3>2. QED  BY <3>1
  <2> HIDE DEF g, Rung
  <2>3. QED  BY <2>2
<1>2. ASSUME NEW n \in Works
      PROVE  n + 1 \in Works
  <2>1. n \in Nat /\ P(n)
    OBVIOUS
  <2>2. PICK g : g = [i \in 0 .. n |-> Rung(g, i)]
    BY <2>1
  <2> DEFINE h == [i \in 0 .. (n + 1) |-> IF i = n + 1 THEN Rung(g, i) ELSE g[i]]
  <2>3. ASSUME NEW i \in 0 .. (n + 1)
        PROVE  h[i] = Rung(h, i)
    <3>1. i = 0 \/ h[i - 1] = g[i - 1]
      <4> HIDE DEF Rung
      <4>1. QED  BY <2>1
    <3>2. Rung(h, i) = Rung(g, i)
      <4> HIDE DEF h
      <4>1. QED  BY <3>1
    <3> HIDE DEF Rung
    <3>3. h[i] = Rung(g, i)
      <4>1. CASE i = n + 1
        BY <4>1
      <4>2. CASE i # n + 1
        <5>1. i \in 0 .. n
          BY <2>1, <4>2
        <5>2. g[i] = Rung(g, i)
          BY <2>2, <5>1
        <5>3. QED  BY <4>2, <5>2
      <4>3. QED  BY <4>1, <4>2
    <3>4. QED  BY <3>2, <3>3
  <2>4. h = [i \in 0 .. (n + 1) |-> Rung(h, i)]
    <3>1. h = [i \in 0 .. (n + 1) |-> h[i]]
      <4> HIDE DEF Rung
      <4>1. QED  OBVIOUS
    <3> HIDE DEF h, Rung
    <3>2. QED  BY <2>3, <3>1
  <2> HIDE DEF h, Rung
  <2>5. P(n + 1)
    BY <2>4
  <2>6. QED  BY <2>1, <2>5
<1> HIDE DEF Rung
<1>3. L \in Works
  <2>1. Works \in SUBSET Nat
    OBVIOUS
  <2> HIDE DEF Works
  <2>2. QED  BY <1>1, <1>2, <2>1, SetInduction
<1>4. \E g : g = [i \in 0 .. L |-> Rung(g, i)]
  BY <1>3
<1>5. F = [i \in 0 .. L |-> Rung(F, i)]
  BY <1>4, Zenon DEF F
<1>6. F = UpTo(v, all)
  BY Zenon DEF Rung, UpTo
<1>7. PICK upTo : upTo = UpTo(v, all)
  OBVIOUS
<1>8. upTo = [i \in 0 .. L |-> Rung(upTo, i)]
  BY <1>5, <1>6, <1>7
<1>9. upTo[0] = Rung(upTo, 0)
  BY <1>8
<1>10. \A n \in 1 .. L : upTo[n] = Rung(upTo, n) /\ n # 0
  BY <1>8
<1>11. QED  BY <1>7, <1>9, <1>10, Zenon DEF Rung

-----------------------------------------------------------------------------
(* Layer upon layer *)

AllShape(x) ==
  x = [base |-> x.base, layers |-> x.layers, valid |-> x.valid] /\ IsSeq(x.layers) /\ x.valid \in Int

\* Whatever became of it, the tiles of the base are right, and there is an adjuster
\* for each of n layers.
DidSound(did, c, n) ==
  /\ did = [aa |-> did.aa, img |-> did.img, cut |-> did.cut]
  /\ AllShape(did.aa) /\ did.aa.valid >= 0
  /\ TilesRight(did.aa.base, c) /\ n <= Len(did.aa.layers)

NoStage == ""

LEMMA NoStageIsNone == NotCut(NoStage)
<1>1. /\ NoStage # "XYZ" /\ NoStage # "Equalize" /\ NoStage # "IPT" /\ NoStage # "UMask"
      /\ NoStage # "Geometry"
  BY Zenon DEF NoStage
<1>2. \A i \in 3 .. 7 : i = 3 \/ i = 4 \/ i = 5 \/ i = 6 \/ i = 7
  OBVIOUS
<1>3. QED  BY <1>1, <1>2, StagesAre DEF NotCut

LEMMA RetrievedIs ==
  ASSUME NEW did, NEW level, NEW r
  PROVE  \E cut : /\ did.cut = NoCut => cut = NoCut
                  /\ Retrieved(did, level, r) =
                       [aa |-> IF level = 0 THEN [did.aa EXCEPT !.base = r.tiles]
                               ELSE [did.aa EXCEPT !.layers[level] = r.tiles],
                        img |-> r.img, cut |-> cut]
<1> DEFINE cut == IF did.cut.level = level THEN NoCut ELSE did.cut
<1>1. Retrieved(did, level, r) =
        [aa |-> IF level = 0 THEN [did.aa EXCEPT !.base = r.tiles]
                ELSE [did.aa EXCEPT !.layers[level] = r.tiles],
         img |-> r.img, cut |-> cut]
  BY Zenon DEF Retrieved, NoCut
<1>2. did.cut = NoCut => cut = NoCut
  BY Zenon
<1> HIDE DEF cut
<1>3. QED  BY <1>1, <1>2, Zenon

\* How the image at a level comes about: r is what the adjuster retrieves.
IsImageAt(did, all, level, size, stage, r, cut) ==
  /\ did.cut = NoCut => cut = NoCut /\ NotCut(stage)
  /\ r = RetrieveReduced(TilesOf(did.aa, level), SettingsOf(all, level), size, stage)
  /\ GetImageAt(did, all, level, size) =
       [aa |-> IF level = 0 THEN [did.aa EXCEPT !.base = r.tiles]
               ELSE [did.aa EXCEPT !.layers[level] = r.tiles],
        img |-> r.img, cut |-> cut]

LEMMA GetImageAtIs ==
  ASSUME NEW did, NEW all, NEW level \in Nat, NEW size
  PROVE  \E stage, r, cut : IsImageAt(did, all, level, size, stage, r, cut)
<1> DEFINE stage == IF did.cut.level = level THEN did.cut.stage ELSE NoStage
           r == RetrieveReduced(TilesOf(did.aa, level), SettingsOf(all, level), size, stage)
<1>1. GetImageAt(did, all, level, size) = Retrieved(did, level, r)
  BY Zenon DEF GetImageAt, NoStage
<1>2. did.cut = NoCut => NotCut(stage)
  <2>1. did.cut = NoCut => did.cut.level = -1
    <3>1. NoCut = [level |-> -1, stage |-> NoStage]
      BY Zenon DEF NoCut, NoStage
    <3>2. QED  BY <3>1
  <2>2. did.cut = NoCut => did.cut.level # level
    BY <2>1
  <2>3. QED  BY <2>2, NoStageIsNone, Zenon
<1> HIDE DEF stage
<1>3. PICK r0 : r0 = r
  OBVIOUS
<1>4. PICK cut : /\ did.cut = NoCut => cut = NoCut
                 /\ Retrieved(did, level, r0) =
                      [aa |-> IF level = 0 THEN [did.aa EXCEPT !.base = r0.tiles]
                              ELSE [did.aa EXCEPT !.layers[level] = r0.tiles],
                       img |-> r0.img, cut |-> cut]
  BY RetrievedIs
<1>5. /\ did.cut = NoCut => cut = NoCut /\ NotCut(stage)
      /\ r0 = RetrieveReduced(TilesOf(did.aa, level), SettingsOf(all, level), size, stage)
      /\ GetImageAt(did, all, level, size) =
           [aa |-> IF level = 0 THEN [did.aa EXCEPT !.base = r0.tiles]
                   ELSE [did.aa EXCEPT !.layers[level] = r0.tiles],
            img |-> r0.img, cut |-> cut]
  BY <1>1, <1>2, <1>3, <1>4, Zenon
<1>6. IsImageAt(did, all, level, size, stage, r0, cut)
  BY <1>5, Zenon DEF IsImageAt
<1>7. QED  BY <1>6, Zenon

\* The image at a level is what the adjuster of the level retrieves; nothing is lost.
ImageGot(did, c, n, all, level, size, g, r, stage) ==
  /\ g = GetImageAt(did, all, level, size)
  /\ r = RetrieveReduced(TilesOf(did.aa, level), SettingsOf(all, level), size, stage)
  /\ DidSound(g, c, n)
  /\ did.cut = NoCut => g.cut = NoCut /\ NotCut(stage)
  /\ TilesOf(g.aa, level) = r.tiles /\ g.img = r.img
  /\ \A m \in 1 .. n : m # level => g.aa.layers[m] = did.aa.layers[m]
  /\ level # 0 => g.aa.base = did.aa.base

LEMMA GetImageRight ==
  ASSUME NoneIsNoData, NEW did, NEW c, NEW n \in Nat, DidSound(did, c, n), NEW all,
         NEW level \in 0 .. n, NEW size
  PROVE  \E g, r, stage : ImageGot(did, c, n, all, level, size, g, r, stage)
<1>1. PICK stage, r, cut :
        /\ did.cut = NoCut => cut = NoCut /\ NotCut(stage)
        /\ r = RetrieveReduced(TilesOf(did.aa, level), SettingsOf(all, level), size, stage)
        /\ GetImageAt(did, all, level, size) =
             [aa |-> IF level = 0 THEN [did.aa EXCEPT !.base = r.tiles]
                     ELSE [did.aa EXCEPT !.layers[level] = r.tiles],
              img |-> r.img, cut |-> cut]
  <2>1. level \in Nat
    OBVIOUS
  <2>2. PICK stage, r, cut : IsImageAt(did, all, level, size, stage, r, cut)
    BY <2>1, GetImageAtIs, Zenon
  <2>3. QED  BY <2>2, Zenon DEF IsImageAt
<1>2. PICK base, layers, valid : did.aa = [base |-> base, layers |-> layers, valid |-> valid]
  BY DEF DidSound, AllShape
<1>3. /\ IsSeq(layers) /\ valid \in Int /\ valid >= 0 /\ TilesRight(base, c) /\ n <= Len(layers)
  BY <1>2 DEF DidSound, AllShape
<1>4. PICK tiles, img : tiles = r.tiles /\ img = r.img
  OBVIOUS
<1> DEFINE g == GetImageAt(did, all, level, size)
<1>5. CASE level = 0
  <2>1. g = [aa |-> [base |-> tiles, layers |-> layers, valid |-> valid], img |-> img, cut |-> cut]
    BY <1>1, <1>2, <1>4, <1>5
  <2>2. TilesRight(tiles, c)
    <3>1. TilesOf(did.aa, level) = base
      BY <1>2, <1>5 DEF TilesOf
    <3>2. QED  BY <3>1, <1>1, <1>3, <1>4, RetrievedRight
  <2> HIDE DEF g
  <2>3. DidSound(g, c, n)
    BY <2>1, <2>2, <1>3 DEF DidSound, AllShape
  <2>4. TilesOf(g.aa, level) = tiles /\ g.img = img /\ g.cut = cut /\ g.aa.layers = layers
    BY <2>1, <1>5 DEF TilesOf
  <2>5. \A m \in 1 .. n : g.aa.layers[m] = did.aa.layers[m]
    BY <2>4, <1>2
  <2>6. ImageGot(did, c, n, all, level, size, g, r, stage)
    BY <2>3, <2>4, <2>5, <1>1, <1>4, <1>5 DEF g, ImageGot
  <2>7. QED  BY <2>6
<1>6. CASE level # 0
  <2>1. PICK new : new = [layers EXCEPT ![level] = tiles]
    OBVIOUS
  <2>2. g = [aa |-> [base |-> base, layers |-> new, valid |-> valid], img |-> img, cut |-> cut]
    BY <2>1, <1>1, <1>2, <1>4, <1>6
  <2>3. level \in 1 .. Len(layers) /\ \A m \in 1 .. n : m \in 1 .. Len(layers)
    BY <1>3, <1>6 DEF IsSeq
  <2>4. IsSeq(new) /\ Len(new) = Len(layers)
    BY <2>1, <2>3, <1>3 DEF IsSeq
  <2>5. new[level] = tiles /\ \A m \in 1 .. n : m # level => new[m] = layers[m]
    BY <2>1, <2>3, <1>3 DEF IsSeq
  <2> HIDE DEF g
  <2>6. DidSound(g, c, n)
    BY <2>2, <2>4, <1>3 DEF DidSound, AllShape
  <2>7. TilesOf(g.aa, level) = tiles /\ g.img = img /\ g.cut = cut /\ g.aa.layers = new /\ g.aa.base = base
    BY <2>2, <2>5, <1>6 DEF TilesOf
  <2>8. \A m \in 1 .. n : m # level => g.aa.layers[m] = did.aa.layers[m]
    BY <2>5, <2>7, <1>2
  <2>9. ImageGot(did, c, n, all, level, size, g, r, stage)
    BY <2>6, <2>7, <2>8, <1>1, <1>2, <1>4 DEF g, ImageGot
  <2>10. QED  BY <2>9
<1>7. QED  BY <1>5, <1>6

\* An adjuster without an input retrieves nothing and keeps what it has.
LEMMA NothingIn ==
  ASSUME NEW tiles, InputSize(tiles) = Empty, NEW a, NEW size, NEW stage
  PROVE  RetrieveReduced(tiles, a, size, stage) = [tiles |-> tiles, img |-> None]
BY DEF RetrieveReduced

Fed(g, did, c, n, f) ==
  /\ DidSound(g, c, n) /\ g.img = did.img /\ g.cut = did.cut
  /\ g.aa.base = did.aa.base
  /\ \A m \in 1 .. n : m # f => g.aa.layers[m] = did.aa.layers[m]
  /\ f <= n => g.aa.layers[f] = SetOriginal(did.img)

LEMMA FeedRight ==
  ASSUME NEW did, NEW c, NEW all, NEW n \in Nat, n = Len(all.layers), DidSound(did, c, n),
         NEW f \in 1 .. n + 1
  PROVE  Fed(FeedLayer(did, all, f), did, c, n, f)
<1>1. CASE f > n
  <2>1. FeedLayer(did, all, f) = did /\ ~ (f <= n)
    BY <1>1 DEF FeedLayer
  <2>2. QED  BY <2>1 DEF Fed
<1>2. CASE f <= n
  <2>1. PICK base, layers, valid, img, cut :
          did = [aa |-> [base |-> base, layers |-> layers, valid |-> valid], img |-> img, cut |-> cut]
    BY DEF DidSound, AllShape
  <2>2. IsSeq(layers) /\ valid \in Int /\ TilesRight(base, c) /\ n <= Len(layers)
    BY <2>1 DEF DidSound, AllShape
  <2>3. PICK input : input = SetOriginal(did.img)
    OBVIOUS
  <2>4. PICK new : new = [layers EXCEPT ![f] = input]
    OBVIOUS
  <2>5. PICK g : g = [aa |-> [base |-> base, layers |-> new, valid |-> f], img |-> img, cut |-> cut]
    OBVIOUS
  <2>6. g = FeedLayer(did, all, f)
    <3>1. FeedLayer(did, all, f) = [did EXCEPT !.aa.layers[f] = input, !.aa.valid = f]
      BY <2>3, <1>2 DEF FeedLayer
    <3>2. QED  BY <3>1, <2>1, <2>4, <2>5
  <2>7. f \in 1 .. Len(layers) /\ \A m \in 1 .. n : m \in 1 .. Len(layers)
    BY <2>2, <1>2 DEF IsSeq
  <2>8. IsSeq(new) /\ Len(new) = Len(layers)
    BY <2>2, <2>4, <2>7 DEF IsSeq
  <2>9. new[f] = input /\ \A m \in 1 .. n : m # f => new[m] = layers[m]
    BY <2>2, <2>4, <2>7 DEF IsSeq
  <2>10. DidSound(g, c, n)
    BY <2>2, <2>5, <2>8 DEF DidSound, AllShape
  <2>11. g.img = did.img /\ g.cut = did.cut /\ g.aa.base = did.aa.base /\ g.aa.layers = new
         /\ did.aa.layers = layers
    BY <2>1, <2>5
  <2>12. QED  BY <2>3, <2>6, <2>9, <2>10, <2>11 DEF Fed
<1>3. QED  BY <1>1, <1>2

LEMMA EnsuredRight ==
  ASSUME NEW x, AllShape(x), NEW n \in Nat
  PROVE  LET y == EnsureAdjusters(x, n)
         IN AllShape(y) /\ y.base = x.base /\ y.valid = x.valid /\ n <= Len(y.layers)
<1>1. PICK base, layers, valid : x = [base |-> base, layers |-> layers, valid |-> valid]
  BY DEF AllShape
<1>2. IsSeq(layers) /\ valid \in Int
  BY <1>1 DEF AllShape
<1>3. PICK m : m = Max({n, Len(layers)})
  OBVIOUS
<1>4. m \in Nat /\ m >= n
  <2>1. n \in Nat /\ Len(layers) \in Nat
    BY <1>2 DEF IsSeq
  <2>2. \E z \in {n, Len(layers)} : \A w \in {n, Len(layers)} : z >= w
    <3>1. n >= Len(layers) \/ Len(layers) >= n
      BY <2>1
    <3>2. QED  BY <2>1, <3>1
  <2>3. m \in {n, Len(layers)} /\ \A w \in {n, Len(layers)} : m >= w
    BY <2>2, <1>3 DEF Max
  <2>4. QED  BY <2>1, <2>3
<1>5. PICK new : new = [i \in 1 .. m |-> IF i <= Len(layers) THEN layers[i] ELSE <<>>]
  OBVIOUS
<1>6. IsSeq(new) /\ Len(new) = m
  BY <1>4, <1>5 DEF IsSeq
<1>7. EnsureAdjusters(x, n) = [base |-> base, layers |-> new, valid |-> valid]
  <2>1. EnsureAdjusters(x, n) =
          [x EXCEPT !.layers = [i \in 1 .. Max({n, Len(x.layers)}) |->
                                  IF i <= Len(x.layers) THEN x.layers[i] ELSE <<>>]]
    BY Zenon DEF EnsureAdjusters
  <2>2. x.layers = layers
    BY <1>1
  <2>3. EnsureAdjusters(x, n) = [x EXCEPT !.layers = new]
    BY <2>1, <2>2, <1>3, <1>5, Zenon
  <2>4. QED  BY <2>3, <1>1
<1>8. QED  BY <1>1, <1>2, <1>4, <1>6, <1>7 DEF AllShape

CloneMark == <<"Clone", "">>

LEMMA ClonedIs ==
  /\ \A img : ApplyClone(img) = IF img = None THEN None ELSE [img EXCEPT !.content = Append(@, CloneMark)]
  /\ \A content, l : Covered(content, l) =
       IF l.layer.typ = "Clone" THEN Append(content, CloneMark)
       ELSE Over(content, Adjusted(content, l.adj), l.layer)
BY Zenon DEF ApplyClone, Covered, CloneMark

LEMMA ClonedRight ==
  ASSUME NoneIsNoData, NEW img, IsImage(img), NEW l, l.layer.typ = "Clone"
  PROVE  /\ IsImage(ApplyClone(img)) /\ ApplyClone(img).content = Covered(img.content, l)
         /\ ApplyClone(None) = None
<1>1. PICK content, size : img = [content |-> content, size |-> size]
  BY DEF IsImage
<1>2. ApplyClone(img) = [content |-> Append(content, CloneMark), size |-> size]
  BY <1>1, ImageIsNotNone, ClonedIs
<1>3. Covered(img.content, l) = Append(content, CloneMark)
  BY <1>1, ClonedIs
<1>4. ApplyClone(None) = None
  BY ClonedIs
<1>5. QED  BY <1>2, <1>3, <1>4 DEF IsImage

\* Images of one size are blended.
LEMMA MaskedRight ==
  ASSUME NoneIsNoData, NEW img, IsImage(img), NEW top, IsImage(top), NEW l, l.layer.typ # "Clone",
         top.content = Adjusted(img.content, l.adj)
  PROVE  LET masked == ApplyMask(img, top, l.layer)
         IN IsImage(masked) /\ (SizeOf(img) = SizeOf(top) => masked.content = Covered(img.content, l))
<1>1. top # None
  BY ImageIsNotNone
<1>2. CASE SizeOf(img) = SizeOf(top)
  <2>1. PICK content, size : img = [content |-> content, size |-> size]
    BY DEF IsImage
  <2>2. PICK over : over = Over(content, top.content, l.layer)
    OBVIOUS
  <2>3. ApplyMask(img, top, l.layer) = [content |-> over, size |-> size]
    BY <2>1, <2>2, <1>1, <1>2 DEF ApplyMask
  <2>4. Covered(img.content, l) = over
    BY <2>1, <2>2, ClonedIs
  <2>5. QED  BY <2>3, <2>4 DEF IsImage
<1>3. CASE SizeOf(img) # SizeOf(top)
  BY <1>3 DEF ApplyMask
<1>4. QED  BY <1>2, <1>3

Imaged(did, x) == [did EXCEPT !.img = x]
LEMMA ImgChanged ==
  ASSUME NEW did, NEW c, NEW n, DidSound(did, c, n), NEW x
  PROVE  /\ DidSound(Imaged(did, x), c, n) /\ Imaged(did, x).aa = did.aa
         /\ Imaged(did, x).cut = did.cut /\ Imaged(did, x).img = x
<1>1. PICK all, img, cut : did = [aa |-> all, img |-> img, cut |-> cut]
  BY DEF DidSound
<1>2. Imaged(did, x) = [aa |-> all, img |-> x, cut |-> cut]
  BY <1>1 DEF Imaged
<1>3. QED  BY <1>1, <1>2 DEF DidSound

LEMMA GetImageSound ==
  ASSUME NoneIsNoData, NEW did, NEW c, NEW n \in Nat, DidSound(did, c, n), NEW all,
         NEW level \in 0 .. n, NEW size
  PROVE  DidSound(GetImageAt(did, all, level, size), c, n)
<1>1. PICK g, r, stage : ImageGot(did, c, n, all, level, size, g, r, stage)
  BY GetImageRight
<1>2. QED  BY <1>1, Zenon DEF ImageGot

\* A layer leaves the tiles of the base right, whatever it does.
LEMMA LayerOverSound ==
  ASSUME NoneIsNoData, NEW did, NEW c, NEW L \in Nat, DidSound(did, c, L), NEW all,
         NEW n \in 1 .. L, NEW size
  PROVE  DidSound(LayerOver(did, all, n, size), c, L)
<1>1. PICK below : below = IF did.img = None THEN GetImageAt(did, all, n - 1, size) ELSE did
  OBVIOUS
<1>2. DidSound(below, c, L)
  <2>1. n - 1 \in 0 .. L
    OBVIOUS
  <2>2. DidSound(GetImageAt(did, all, n - 1, size), c, L)
    BY <2>1, GetImageSound
  <2>3. QED  BY <2>2, <1>1
<1>3. LayerOver(did, all, n, size) = ApplyLayer(below, all, n, size)
  BY <1>1 DEF LayerOver
<1>4. CASE all.layers[n].layer.typ = "Clone"
  <2>1. ApplyLayer(below, all, n, size) = Imaged(below, ApplyClone(below.img))
    BY <1>4 DEF ApplyLayer, Imaged
  <2>2. QED  BY <2>1, <1>2, <1>3, ImgChanged
<1>5. CASE all.layers[n].layer.typ # "Clone"
  <2>1. PICK top : top = GetImageAt(below, all, n, size)
    OBVIOUS
  <2>2. DidSound(top, c, L)
    <3>1. n \in 0 .. L
      OBVIOUS
    <3>2. QED  BY <3>1, <2>1, <1>2, GetImageSound
  <2>3. PICK x : x = ApplyMask(below.img, top.img, all.layers[n].layer)
    OBVIOUS
  <2>4. ApplyLayer(below, all, n, size) = Imaged(top, x)
    BY <2>1, <2>3, <1>5 DEF ApplyLayer, WithMask, Imaged
  <2>5. QED  BY <2>2, <2>4, <1>3, ImgChanged
<1>6. QED  BY <1>4, <1>5

LEMMA ClimbSound ==
  ASSUME NoneIsNoData, NEW did, NEW c, NEW all, NEW L \in Nat, L = Len(all.layers),
         DidSound(did, c, L), NEW f \in 1 .. L + 1, NEW size
  PROVE  DidSound(Climb(did, all, f, size), c, L)
<1>1. PICK g : g = IF f = 1 THEN GetImageAt(did, all, 0, size) ELSE LayerOver(did, all, f - 1, size)
  OBVIOUS
<1>2. DidSound(g, c, L)
  <2>1. CASE f = 1
    <3>1. 0 \in 0 .. L
      OBVIOUS
    <3>2. QED  BY <3>1, <2>1, <1>1, GetImageSound
  <2>2. CASE f # 1
    <3>1. f - 1 \in 1 .. L
      BY <2>2
    <3>2. QED  BY <3>1, <2>2, <1>1, LayerOverSound
  <2>3. QED  BY <2>1, <2>2
<1>3. DidSound(FeedLayer(g, all, f), c, L)
  BY <1>2, FeedRight DEF Fed
<1>4. QED  BY <1>1, <1>3 DEF Climb

\* An image to go on with, or there is no input for one.
ImageOrNothing(img, tiles) ==
  (img # None => IsImage(img)) /\ (img = None => InputSize(tiles) = Empty)

LEMMA OriginalSize == \A img : InputSize(SetOriginal(img)) = SizeOf(img) /\ SetOriginal(img)[1].image = img
  BY DEF InputSize, SetOriginal, Tile

LEMMA EmptyOfNone == SizeOf(None) = Empty
  BY DEF SizeOf

\* The image below is asked for again if there is none; nothing comes of it.
BelowIs(did, all, n, size) == IF did.img = None THEN GetImageAt(did, all, n - 1, size) ELSE did

BelowKept(b, did, c, L) ==
  /\ DidSound(b, c, L) /\ b.cut = NoCut /\ b.img = did.img
  /\ \A m \in 1 .. L : b.aa.layers[m] = did.aa.layers[m]

LEMMA BelowRight ==
  ASSUME NoneIsNoData, NEW did, NEW c, NEW L \in Nat, DidSound(did, c, L), NEW all,
         NEW n \in 1 .. L, NEW size, did.cut = NoCut, ImageOrNothing(did.img, TilesOf(did.aa, n - 1))
  PROVE  BelowKept(BelowIs(did, all, n, size), did, c, L)
<1>1. CASE did.img # None
  BY <1>1 DEF BelowIs, BelowKept
<1>2. CASE did.img = None
  <2>1. n - 1 \in 0 .. L
    OBVIOUS
  <2>2. PICK level : level = n - 1
    OBVIOUS
  <2>3. PICK g, r, stage : ImageGot(did, c, L, all, level, size, g, r, stage)
    BY <2>1, <2>2, GetImageRight
  <2>4. InputSize(TilesOf(did.aa, level)) = Empty
    BY <1>2, <2>2 DEF ImageOrNothing
  <2>5. r = [tiles |-> TilesOf(did.aa, level), img |-> None]
    BY <2>3, <2>4, NothingIn DEF ImageGot
  <2>6. TilesOf(g.aa, level) = TilesOf(did.aa, level) /\ g.img = None
    BY <2>3, <2>5 DEF ImageGot
  <2>7. \A m \in 1 .. L : g.aa.layers[m] = did.aa.layers[m]
    <3>1. ASSUME NEW m \in 1 .. L
          PROVE  g.aa.layers[m] = did.aa.layers[m]
      <4>1. CASE m = level
        BY <4>1, <2>6 DEF TilesOf
      <4>2. CASE m # level
        BY <4>2, <2>3 DEF ImageGot
      <4>3. QED  BY <4>1, <4>2
    <3>2. QED  BY <3>1
  <2>8. BelowIs(did, all, n, size) = g
    BY <1>2, <2>2, <2>3 DEF BelowIs, ImageGot
  <2>9. DidSound(g, c, L) /\ g.cut = NoCut
    BY <2>3 DEF ImageGot
  <2>10. QED  BY <1>2, <2>6, <2>7, <2>8, <2>9 DEF BelowKept
<1>3. QED  BY <1>1, <1>2

\* What becomes of a layer whose input is the image below: an image, if there is one
\* below, and if the sizes agree the one that the settings ask for.
LayerDone(g, did, c, L, all, n) ==
  /\ DidSound(g, c, L) /\ g.cut = NoCut
  /\ \A m \in 1 .. L : m # n => g.aa.layers[m] = did.aa.layers[m]
  /\ ImageOrNothing(g.img, g.aa.layers[n])
  /\ g.img # None => /\ did.img # None
                     /\ Agree(g.aa.layers[n]) => g.img.content = Covered(did.img.content, all.layers[n])

LEMMA CloneDone ==
  ASSUME NoneIsNoData, NEW b, NEW c, NEW L \in Nat, DidSound(b, c, L), NEW all,
         NEW n \in 1 .. L, NEW size, b.cut = NoCut, b.img # None => IsImage(b.img),
         b.aa.layers[n] = SetOriginal(b.img), all.layers[n].layer.typ = "Clone"
  PROVE  LayerDone(ApplyLayer(b, all, n, size), b, c, L, all, n)
<1>1. PICK x : x = ApplyClone(b.img)
  OBVIOUS
<1>2. PICK g : g = Imaged(b, x)
  OBVIOUS
<1>3. ApplyLayer(b, all, n, size) = g
  BY <1>1, <1>2 DEF ApplyLayer, Imaged
<1>4. DidSound(g, c, L) /\ g.aa = b.aa /\ g.cut = NoCut /\ g.img = x
  BY <1>2, ImgChanged
<1>5. CASE b.img = None
  <2>1. x = None
    BY <1>1, <1>5, ClonedIs
  <2>2. InputSize(g.aa.layers[n]) = Empty
    BY <1>4, <1>5, OriginalSize, EmptyOfNone
  <2>3. QED  BY <2>1, <2>2, <1>3, <1>4 DEF LayerDone, ImageOrNothing
<1>6. CASE b.img # None
  <2>1. PICK img : img = b.img
    OBVIOUS
  <2>2. IsImage(x) /\ x.content = Covered(img.content, all.layers[n])
    BY <2>1, <1>1, <1>6, ClonedRight
  <2>3. x # None
    BY <2>2, ImageIsNotNone
  <2>4. QED  BY <2>1, <2>2, <2>3, <1>3, <1>4, <1>6 DEF LayerDone, ImageOrNothing
<1>7. QED  BY <1>5, <1>6

LEMMA AdjustedDone ==
  ASSUME NoneIsNoData, NEW b, NEW c, NEW L \in Nat, DidSound(b, c, L), NEW all,
         NEW n \in 1 .. L, NEW size, b.cut = NoCut, b.img # None => IsImage(b.img),
         b.aa.layers[n] = SetOriginal(b.img), all.layers[n].layer.typ # "Clone"
  PROVE  LayerDone(ApplyLayer(b, all, n, size), b, c, L, all, n)
<1>1. PICK img, l : img = b.img /\ l = all.layers[n]
  OBVIOUS
<1>2. PICK top, r, stage : ImageGot(b, c, L, all, n, size, top, r, stage)
  <2>1. n \in 0 .. L
    OBVIOUS
  <2>2. QED  BY <2>1, GetImageRight
<1>3. /\ DidSound(top, c, L) /\ top.cut = NoCut /\ NotCut(stage)
      /\ \A m \in 1 .. L : m # n => top.aa.layers[m] = b.aa.layers[m]
      /\ top.img = r.img /\ top.aa.layers[n] = r.tiles
      /\ r = RetrieveReduced(SetOriginal(img), l.adj, size, stage)
      /\ top = GetImageAt(b, all, n, size)
  <2>1. n # 0
    OBVIOUS
  <2>2. QED  BY <2>1, <1>1, <1>2 DEF ImageGot, TilesOf, SettingsOf
<1>4. PICK x : x = ApplyMask(img, top.img, l.layer)
  OBVIOUS
<1>5. PICK g : g = Imaged(top, x)
  OBVIOUS
<1>6. ApplyLayer(b, all, n, size) = g
  BY <1>1, <1>3, <1>4, <1>5 DEF ApplyLayer, WithMask, Imaged
<1>7. DidSound(g, c, L) /\ g.aa = top.aa /\ g.cut = NoCut /\ g.img = x
  BY <1>3, <1>5, ImgChanged
<1>8. InputSize(SetOriginal(img)) = SizeOf(img)
  BY OriginalSize
<1>9. CASE img = None
  <2>1. r = [tiles |-> SetOriginal(img), img |-> None]
    BY <1>3, <1>8, <1>9, EmptyOfNone, NothingIn
  <2>2. top.img = None /\ top.aa.layers[n] = SetOriginal(img)
    BY <2>1, <1>3
  <2>3. x = None
    BY <2>2, <1>4 DEF ApplyMask
  <2>4. InputSize(g.aa.layers[n]) = Empty
    BY <2>2, <1>7, <1>8, <1>9, EmptyOfNone
  <2>5. QED  BY <2>3, <2>4, <1>3, <1>6, <1>7 DEF LayerDone, ImageOrNothing
<1>10. CASE img # None
  <2>1. IsImage(img)
    BY <1>1, <1>10
  <2>2. TilesRight(SetOriginal(img), img.content)
    BY <2>1, OriginalRight DEF SetOriginal
  <2>3. /\ r.tiles[1] = SetOriginal(img)[1]
        /\ r.img # None => /\ IsImage(r.img) /\ r.img.content = Adjusted(img.content, l.adj)
                           /\ r.img = Last(r.tiles).image
        /\ InputSize(SetOriginal(img)) # Empty => r.img # None
        /\ InputSize(SetOriginal(img)) = Empty => r.tiles = SetOriginal(img)
    BY <2>2, <1>3, RetrievedRight
  <2>4. CASE r.img = None
    <3>1. x = None
      BY <2>4, <1>3, <1>4 DEF ApplyMask
    <3>2. InputSize(g.aa.layers[n]) = Empty
      BY <2>3, <2>4, <1>3, <1>7
    <3>3. QED  BY <3>1, <3>2, <1>3, <1>6, <1>7 DEF LayerDone, ImageOrNothing
  <2>5. CASE r.img # None
    <3>1. PICK t : t = top.img
      OBVIOUS
    <3>2. IsImage(t) /\ t.content = Adjusted(img.content, l.adj) /\ t = Last(r.tiles).image
      <4>1. t = r.img
        BY <3>1, <1>3
      <4>2. /\ IsImage(r.img) /\ r.img.content = Adjusted(img.content, l.adj)
            /\ r.img = Last(r.tiles).image
        BY <2>3, <2>5
      <4>3. QED  BY <4>1, <4>2
    <3>3. IsImage(x) /\ (SizeOf(img) = SizeOf(t) => x.content = Covered(img.content, l))
      <4>1. x = ApplyMask(img, t, l.layer) /\ l.layer.typ # "Clone"
        BY <3>1, <1>1, <1>4
      <4>2. QED  BY <4>1, <3>2, <2>1, MaskedRight
    <3>4. x # None
      BY <3>3, ImageIsNotNone
    <3>5. Agree(g.aa.layers[n]) => SizeOf(img) = SizeOf(t)
      BY <3>2, <2>3, <1>3, <1>7, OriginalSize DEF Agree
    <3>6. QED  BY <3>3, <3>4, <3>5, <1>1, <1>3, <1>6, <1>7, <1>10 DEF LayerDone, ImageOrNothing
  <2>6. QED  BY <2>4, <2>5
<1>11. QED  BY <1>9, <1>10

LEMMA LayerOverRight ==
  ASSUME NoneIsNoData, NEW did, NEW c, NEW L \in Nat, DidSound(did, c, L), NEW all,
         NEW n \in 1 .. L, NEW size, did.cut = NoCut, ImageOrNothing(did.img, TilesOf(did.aa, n - 1)),
         did.aa.layers[n] = SetOriginal(did.img)
  PROVE  LayerDone(LayerOver(did, all, n, size), did, c, L, all, n)
<1>1. PICK b : b = BelowIs(did, all, n, size)
  OBVIOUS
<1>2. /\ DidSound(b, c, L) /\ b.cut = NoCut /\ b.img = did.img
      /\ \A m \in 1 .. L : b.aa.layers[m] = did.aa.layers[m]
  <2>1. BelowKept(BelowIs(did, all, n, size), did, c, L)
    BY BelowRight
  <2>2. QED  BY <2>1, <1>1, Zenon DEF BelowKept
<1>3. LayerOver(did, all, n, size) = ApplyLayer(b, all, n, size)
  BY <1>1 DEF LayerOver, BelowIs
<1>4. b.aa.layers[n] = SetOriginal(b.img) /\ (b.img # None => IsImage(b.img))
  BY <1>2 DEF ImageOrNothing
<1>5. PICK g : g = ApplyLayer(b, all, n, size)
  OBVIOUS
<1>6. LayerDone(g, b, c, L, all, n)
  BY <1>2, <1>4, <1>5, CloneDone, AdjustedDone
<1>7. QED  BY <1>2, <1>3, <1>5, <1>6 DEF LayerDone

Photo(v) == <<<<"Photo", v>>>>

\* How it stands when the input of the f-th layer has been made: of the image the
\* content is what the settings say, as far as sizes agree.
ClimbedTo(did, v, all, L, f) ==
  /\ DidSound(did, Photo(v), L) /\ did.cut = NoCut
  /\ f <= L => did.aa.layers[f] = SetOriginal(did.img)
  /\ ImageOrNothing(did.img, TilesOf(did.aa, f - 1))
  /\ did.img # None /\ (\A m \in 1 .. f - 1 : Agree(did.aa.layers[m])) => did.img.content = UpTo(v, all)[f - 1]

LEMMA FirstClimb ==
  ASSUME NoneIsNoData, NEW did, NEW v, NEW all, NEW L \in Nat, L = Len(all.layers),
         DidSound(did, Photo(v), L), did.cut = NoCut, NEW size
  PROVE  ClimbedTo(Climb(did, all, 1, size), v, all, L, 1)
<1>1. PICK g, r, stage : ImageGot(did, Photo(v), L, all, 0, size, g, r, stage)
  <2>1. 0 \in 0 .. L
    OBVIOUS
  <2>2. QED  BY <2>1, GetImageRight
<1>2. /\ g = GetImageAt(did, all, 0, size) /\ DidSound(g, Photo(v), L) /\ g.cut = NoCut /\ NotCut(stage)
      /\ g.aa.base = r.tiles /\ g.img = r.img
      /\ r = RetrieveReduced(did.aa.base, all.base, size, stage)
  BY <1>1 DEF ImageGot, TilesOf, SettingsOf
<1>3. /\ r.img # None => IsImage(r.img) /\ r.img.content = Adjusted(Photo(v), all.base)
      /\ r.img = None => InputSize(r.tiles) = Empty
  <2>1. TilesRight(did.aa.base, Photo(v))
    BY DEF DidSound
  <2>2. QED  BY <2>1, <1>2, RetrievedRight
<1>4. PICK h : h = FeedLayer(g, all, 1)
  OBVIOUS
<1>5. /\ DidSound(h, Photo(v), L) /\ h.img = g.img /\ h.cut = g.cut /\ h.aa.base = g.aa.base
      /\ 1 <= L => h.aa.layers[1] = SetOriginal(g.img)
  <2>1. 1 \in 1 .. L + 1
    OBVIOUS
  <2>2. Fed(h, g, Photo(v), L, 1)
    BY <2>1, <1>2, <1>4, FeedRight
  <2>3. QED  BY <2>2 DEF Fed
<1>6. Climb(did, all, 1, size) = h
  BY <1>2, <1>4 DEF Climb
<1>7. UpTo(v, all)[0] = Adjusted(Photo(v), all.base)
  <2>1. 0 \in 0 .. L
    OBVIOUS
  <2>2. UpTo(v, all)[0] = Adjusted(<<<<"Photo", v>>>>, all.base)
    BY <2>1, UpToDef
  <2>3. QED  BY <2>2 DEF Photo
<1>8. ImageOrNothing(h.img, TilesOf(h.aa, 1 - 1))
  <2>1. TilesOf(h.aa, 1 - 1) = r.tiles
    BY <1>2, <1>5 DEF TilesOf
  <2>2. QED  BY <2>1, <1>2, <1>3, <1>5 DEF ImageOrNothing
<1>9. h.img # None => h.img.content = UpTo(v, all)[1 - 1]
  BY <1>2, <1>3, <1>5, <1>7
<1>10. QED  BY <1>2, <1>5, <1>6, <1>8, <1>9 DEF ClimbedTo

LEMMA NextClimb ==
  ASSUME NoneIsNoData, NEW did, NEW v, NEW all, NEW L \in Nat, L = Len(all.layers),
         NEW n \in 1 .. L, ClimbedTo(did, v, all, L, n), NEW size
  PROVE  ClimbedTo(Climb(did, all, n + 1, size), v, all, L, n + 1)
<1>1. DidSound(did, Photo(v), L) /\ did.cut = NoCut /\ did.aa.layers[n] = SetOriginal(did.img)
      /\ ImageOrNothing(did.img, TilesOf(did.aa, n - 1))
  BY DEF ClimbedTo
<1>2. PICK g : g = LayerOver(did, all, n, size)
  OBVIOUS
<1>3. LayerDone(g, did, Photo(v), L, all, n)
  BY <1>1, <1>2, LayerOverRight
<1>4. /\ DidSound(g, Photo(v), L) /\ g.cut = NoCut
      /\ \A m \in 1 .. L : m # n => g.aa.layers[m] = did.aa.layers[m]
      /\ ImageOrNothing(g.img, g.aa.layers[n])
      /\ g.img # None => /\ did.img # None
                         /\ Agree(g.aa.layers[n]) => g.img.content = Covered(did.img.content, all.layers[n])
  BY <1>3 DEF LayerDone
<1>5. PICK f : f = n + 1
  OBVIOUS
<1>6. PICK h : h = FeedLayer(g, all, f)
  OBVIOUS
<1>7. /\ DidSound(h, Photo(v), L) /\ h.img = g.img /\ h.cut = g.cut
      /\ \A m \in 1 .. L : m # f => h.aa.layers[m] = g.aa.layers[m]
      /\ f <= L => h.aa.layers[f] = SetOriginal(g.img)
  <2>1. f \in 1 .. L + 1
    BY <1>5
  <2>2. Fed(h, g, Photo(v), L, f)
    BY <2>1, <1>4, <1>6, FeedRight
  <2>3. QED  BY <2>2 DEF Fed
<1>8. Climb(did, all, f, size) = h
  <2>1. f # 1 /\ f - 1 = n
    BY <1>5
  <2>2. QED  BY <2>1, <1>2, <1>6 DEF Climb
<1>9. ImageOrNothing(h.img, TilesOf(h.aa, f - 1))
  <2>1. f - 1 = n /\ n # 0 /\ n # f
    BY <1>5
  <2>2. TilesOf(h.aa, f - 1) = g.aa.layers[n]
    BY <2>1, <1>7 DEF TilesOf
  <2>3. QED  BY <2>2, <1>4, <1>7
<1>10. ASSUME h.img # None, \A m \in 1 .. f - 1 : Agree(h.aa.layers[m])
       PROVE  h.img.content = UpTo(v, all)[f - 1]
  <2>1. f - 1 = n /\ n \in 1 .. L /\ n # f /\ \A m \in 1 .. n : m \in 1 .. L /\ m \in 1 .. f - 1 /\ m # f
    BY <1>5
  <2>2. Agree(g.aa.layers[n])
    BY <2>1, <1>7, <1>10
  <2>3. did.img # None /\ g.img.content = Covered(did.img.content, all.layers[n])
    BY <2>2, <1>4, <1>7, <1>10
  <2>4. ASSUME NEW m \in 1 .. n - 1
        PROVE  Agree(did.aa.layers[m])
    <3>1. m \in 1 .. L /\ m \in 1 .. f - 1 /\ m # f /\ m # n
      BY <1>5
    <3>2. h.aa.layers[m] = did.aa.layers[m]
      BY <3>1, <1>4, <1>7
    <3>3. QED  BY <3>1, <3>2, <1>10
  <2>5. did.img.content = UpTo(v, all)[n - 1]
    BY <2>3, <2>4 DEF ClimbedTo
  <2>6. UpTo(v, all)[n] = Covered(UpTo(v, all)[n - 1], all.layers[n])
    <3>1. n \in 0 .. L /\ n # 0
      OBVIOUS
    <3>2. QED  BY <3>1, UpToDef
  <2>7. QED  BY <2>1, <2>3, <2>5, <2>6, <1>7
<1>11. ClimbedTo(h, v, all, L, f)
  BY <1>4, <1>7, <1>9, <1>10 DEF ClimbedTo
<1>12. QED  BY <1>5, <1>8, <1>11

\* What all adjusters together retrieve, from a given start; the place where they are
\* interrupted, if at all, is cut.
LEMMA BegunSound ==
  ASSUME NEW x, AllShape(x), x.valid >= 0, NEW c, TilesRight(x.base, c), NEW all, NEW L \in Nat,
         L = Len(all.layers), NEW cut
  PROVE  DidSound(Begun(x, all, cut), c, L) /\ Begun(x, all, cut).cut = cut
<1>1. PICK y : y = EnsureAdjusters(x, L)
  OBVIOUS
<1>2. AllShape(y) /\ y.base = x.base /\ y.valid = x.valid /\ L <= Len(y.layers)
  BY <1>1, EnsuredRight
<1>3. Begun(x, all, cut) = [aa |-> y, img |-> None, cut |-> cut]
  BY <1>1 DEF Begun
<1>4. QED  BY <1>2, <1>3 DEF DidSound

LEMMA AllSound ==
  ASSUME NoneIsNoData, NEW x, AllShape(x), x.valid >= 0, NEW c, TilesRight(x.base, c),
         NEW all, NEW L \in Nat, L = Len(all.layers), NEW size, NEW start \in 1 .. 2, start - 1 <= L, NEW cut
  PROVE  DidSound(RetrieveAll(x, all, size, start, cut), c, L)
<1>1. PICK k, T : k = start - 1 /\ T = L + 1
  OBVIOUS
<1>2. k \in Nat /\ k <= T /\ T \in Nat
  BY <1>1
<1>3. PICK climbed : climbed = Climbed(x, all, size, start, cut)
  OBVIOUS
<1>4. climbed = [f \in k .. T |-> IF f = k THEN Begun(x, all, cut) ELSE Climb(climbed[f - 1], all, f, size)]
  <2>1. ClimbsTo(climbed, x, all, size, cut, k, T)
    BY <1>1, <1>2, <1>3, ClimbedDef
  <2>2. QED  BY <2>1 DEF ClimbsTo
<1> DEFINE S == {i \in Nat : k + i <= T => DidSound(climbed[k + i], c, L)}
<1>5. 0 \in S
  <2>1. k + 0 = k /\ k \in k .. T
    BY <1>2
  <2>2. climbed[k + 0] = Begun(x, all, cut)
    BY <2>1, <1>4
  <2>3. QED  BY <2>2, BegunSound
<1>6. ASSUME NEW i \in S
      PROVE  i + 1 \in S
  <2>1. ASSUME k + (i + 1) <= T
        PROVE  DidSound(climbed[k + (i + 1)], c, L)
    <3>1. PICK f : f = k + (i + 1)
      OBVIOUS
    <3>2. f \in k .. T /\ f # k /\ f - 1 = k + i /\ f \in 1 .. L + 1 /\ k + i <= T
      BY <3>1, <2>1, <1>1, <1>2
    <3>3. DidSound(climbed[f - 1], c, L)
      BY <3>2
    <3>4. climbed[f] = Climb(climbed[f - 1], all, f, size)
      BY <3>2, <1>4
    <3>5. DidSound(Climb(climbed[f - 1], all, f, size), c, L)
      BY <3>2, <3>3, ClimbSound
    <3>6. QED  BY <3>1, <3>4, <3>5
  <2>2. i + 1 \in Nat
    OBVIOUS
  <2>3. QED  BY <2>1, <2>2
<1>7. S = Nat
  <2>1. S \in SUBSET Nat
    OBVIOUS
  <2> HIDE DEF S
  <2>2. QED  BY <2>1, <1>5, <1>6, SetInduction
<1>8. DidSound(climbed[T], c, L)
  <2>1. T - k \in S /\ k + (T - k) = T /\ T <= T
    <3> HIDE DEF S
    <3>1. QED  BY <1>7, <1>2
  <2>2. QED  BY <2>1
<1>9. RetrieveAll(x, all, size, start, cut) = climbed[T]
  <2>1. ~ (x.valid < 0)
    BY DEF AllShape
  <2>2. QED  BY <2>1, <1>1, <1>3 DEF RetrieveAll
<1>10. QED  BY <1>8, <1>9

\* Without interruption, and from the base on, the picture is the one that the
\* settings ask for, if sizes agree.
LEMMA AllRight ==
  ASSUME NoneIsNoData, NEW x, AllShape(x), x.valid >= 0, NEW v, TilesRight(x.base, Photo(v)),
         NEW all, NEW L \in Nat, L = Len(all.layers), NEW size
  PROVE  LET d == RetrieveAll(x, all, size, 1, NoCut)
         IN /\ d.img # None => IsImage(d.img)
            /\ d.img # None /\ (\A m \in 1 .. L : Agree(d.aa.layers[m])) => d.img.content = Reference(v, all)
<1>1. PICK k, T : k = 0 /\ T = L + 1
  OBVIOUS
<1>2. k \in Nat /\ k <= T /\ T \in Nat /\ k = 1 - 1
  BY <1>1
<1>3. PICK climbed : climbed = Climbed(x, all, size, 1, NoCut)
  OBVIOUS
<1>4. climbed = [f \in k .. T |-> IF f = k THEN Begun(x, all, NoCut) ELSE Climb(climbed[f - 1], all, f, size)]
  <2>1. ClimbsTo(climbed, x, all, size, NoCut, k, T)
    BY <1>1, <1>2, <1>3, ClimbedDef
  <2>2. QED  BY <2>1 DEF ClimbsTo
<1>5. climbed[0] = Begun(x, all, NoCut)
  <2>1. 0 \in k .. T /\ 0 = k
    BY <1>1
  <2>2. QED  BY <2>1, <1>4
<1>6. \A f \in 1 .. T : climbed[f] = Climb(climbed[f - 1], all, f, size)
  <2>1. \A f \in 1 .. T : f \in k .. T /\ f # k
    BY <1>1
  <2>2. QED  BY <2>1, <1>4
<1> DEFINE S == {i \in Nat : i + 1 <= T => ClimbedTo(climbed[i + 1], v, all, L, i + 1)}
<1>7. 0 \in S
  <2>1. DidSound(climbed[0], Photo(v), L) /\ climbed[0].cut = NoCut
    BY <1>5, BegunSound
  <2>2. ClimbedTo(Climb(climbed[0], all, 1, size), v, all, L, 1)
    BY <2>1, FirstClimb
  <2>3. climbed[1] = Climb(climbed[0], all, 1, size)
    <3>1. 1 \in 1 .. T /\ 1 - 1 = 0
      BY <1>1
    <3>2. QED  BY <3>1, <1>6
  <2>4. 0 + 1 = 1
    OBVIOUS
  <2>5. QED  BY <2>2, <2>3, <2>4
<1>8. ASSUME NEW i \in S
      PROVE  i + 1 \in S
  <2>1. ASSUME (i + 1) + 1 <= T
        PROVE  ClimbedTo(climbed[(i + 1) + 1], v, all, L, (i + 1) + 1)
    <3>1. PICK n : n = i + 1
      OBVIOUS
    <3>2. n \in 1 .. L /\ n + 1 \in 1 .. T /\ (n + 1) - 1 = n /\ n <= T
      BY <3>1, <2>1, <1>1
    <3>3. ClimbedTo(climbed[n], v, all, L, n)
      BY <3>1, <3>2
    <3>4. climbed[n + 1] = Climb(climbed[n], all, n + 1, size)
      BY <3>2, <1>6
    <3>5. ClimbedTo(Climb(climbed[n], all, n + 1, size), v, all, L, n + 1)
      BY <3>2, <3>3, NextClimb
    <3>6. QED  BY <3>1, <3>4, <3>5
  <2>2. i + 1 \in Nat
    OBVIOUS
  <2>3. QED  BY <2>1, <2>2
<1>9. S = Nat
  <2>1. S \in SUBSET Nat
    OBVIOUS
  <2> HIDE DEF S
  <2>2. QED  BY <2>1, <1>7, <1>8, SetInduction
<1>10. ClimbedTo(climbed[T], v, all, L, T)
  <2>1. L \in S /\ L + 1 = T /\ T <= T
    <3> HIDE DEF S
    <3>1. QED  BY <1>1, <1>9
  <2>2. QED  BY <2>1
<1>11. RetrieveAll(x, all, size, 1, NoCut) = climbed[T]
  <2>1. ~ (x.valid < 0)
    BY DEF AllShape
  <2>2. QED  BY <2>1, <1>1, <1>3 DEF RetrieveAll
<1>12. T - 1 = L
  BY <1>1
<1>13. PICK d : d = climbed[T]
  OBVIOUS
<1>14. /\ d.img # None => IsImage(d.img)
       /\ d.img # None /\ (\A m \in 1 .. L : Agree(d.aa.layers[m])) => d.img.content = UpTo(v, all)[L]
  BY <1>10, <1>12, <1>13 DEF ClimbedTo, ImageOrNothing
<1>15. QED  BY <1>11, <1>13, <1>14 DEF Reference

-----------------------------------------------------------------------------
(* The thread of the adjuster *)

IsAdjuster(a) ==
  DOMAIN a = {"newreq", "cancel", "clear", "empty", "rq", "newOriginal", "oId", "oSize", "held",
              "interrupted", "job", "sig", "at"}

\* What a call of the client leaves alone
SameOriginal(b, a) == b.newOriginal = a.newOriginal /\ b.oId = a.oId /\ b.oSize = a.oSize
SameWork(b, a) == b.empty = a.empty /\ b.held = a.held /\ b.job = a.job /\ b.sig = a.sig

IsOrdered(b, a, order) ==
  /\ IsAdjuster(b) /\ SameOriginal(b, a) /\ SameWork(b, a) /\ b.clear = a.clear
  /\ b.newreq = TRUE /\ b.cancel = FALSE /\ b.interrupted = TRUE /\ b.rq = order
  /\ b.at = IF a.at = "wait" THEN "woken" ELSE a.at

LEMMA OrderedIs ==
  ASSUME NEW a, IsAdjuster(a), NEW order
  PROVE  IsOrdered(Thread!Ordered(a, order), a, order)
BY DEF IsAdjuster, IsOrdered, SameOriginal, SameWork, Thread!Ordered

IsWithdrawn(b, a) ==
  /\ IsAdjuster(b) /\ SameOriginal(b, a) /\ SameWork(b, a) /\ b.rq = a.rq /\ b.at = a.at
  /\ b.newreq = FALSE /\ b.cancel = TRUE /\ b.interrupted = TRUE

LEMMA WithdrawnIs ==
  ASSUME NEW a, IsAdjuster(a)
  PROVE  /\ IsWithdrawn(Thread!Withdrawn(a), a) /\ Thread!Withdrawn(a).clear = a.clear
         /\ IsWithdrawn(Thread!Cleared(a), a) /\ Thread!Cleared(a).clear = TRUE
<1>1. IsWithdrawn(Thread!Withdrawn(a), a) /\ Thread!Withdrawn(a).clear = a.clear
  BY DEF IsAdjuster, IsWithdrawn, SameOriginal, SameWork, Thread!Withdrawn
<1>2. PICK b : b = Thread!Withdrawn(a)
  OBVIOUS
<1>3. PICK c : c = [b EXCEPT !.clear = TRUE]
  OBVIOUS
<1>4. IsWithdrawn(c, a) /\ c.clear = TRUE
  BY <1>1, <1>2, <1>3 DEF IsAdjuster, IsWithdrawn, SameOriginal, SameWork
<1>5. Thread!Cleared(a) = c
  BY <1>2, <1>3 DEF Thread!Cleared
<1>6. QED  BY <1>1, <1>4, <1>5

IsSupplied(b, a, original) ==
  /\ IsAdjuster(b) /\ SameWork(b, a) /\ b.rq = a.rq /\ b.at = a.at /\ b.clear = a.clear
  /\ b.newreq = a.newreq /\ b.cancel = a.cancel /\ b.interrupted = a.interrupted
  /\ b.newOriginal = original /\ b.oId = original.v

LEMMA SuppliedIs ==
  ASSUME NEW a, IsAdjuster(a), NEW original
  PROVE  IsSupplied(Thread!Supplied(a, original), a, original)
<1>1. PICK v, size : v = original.v /\ size = original.size
  OBVIOUS
<1>2. PICK b : b = [a EXCEPT !.newOriginal = original, !.oId = v, !.oSize = size]
  OBVIOUS
<1>3. Thread!Supplied(a, original) = b
  BY <1>1, <1>2 DEF Thread!Supplied
<1>4. IsSupplied(b, a, original)
  BY <1>1, <1>2 DEF IsAdjuster, IsSupplied, SameWork
<1>5. QED  BY <1>3, <1>4

\* The original that the thread has when it has taken up what it was given
Taken(a) == IF a.newOriginal # None THEN a.newOriginal ELSE IF a.clear THEN None ELSE a.held

IsLooped(b, a) ==
  /\ IsAdjuster(b) /\ b.rq = a.rq /\ b.oId = a.oId /\ b.sig = a.sig
  /\ b.held = Taken(a) /\ b.empty = (b.held = None)
  /\ b.newOriginal = None /\ b.clear = FALSE /\ b.cancel = FALSE /\ b.newreq = FALSE
  /\ a.newreq => /\ b.at = "compute" /\ b.interrupted = FALSE
                 /\ b.job = [order |-> a.rq, can |-> a.rq.id = a.oId]
  /\ ~a.newreq => b.at = "wait" /\ b.interrupted = a.interrupted

LEMMA LoopedIs ==
  ASSUME NEW a, IsAdjuster(a), a.newreq \in BOOLEAN
  PROVE  IsLooped(Thread!RunLoop(a), a)
<1>1. PICK has : has = Taken(a)
  OBVIOUS
<1>2. PICK b : b = [a EXCEPT !.held = has, !.newOriginal = None, !.clear = FALSE, !.cancel = FALSE]
  OBVIOUS
<1>3. Thread!TakeUp(a) = b
  BY <1>1, <1>2, Zenon DEF Thread!TakeUp, Taken
<1>4. /\ IsAdjuster(b) /\ b.held = has /\ b.newOriginal = None /\ b.clear = FALSE /\ b.cancel = FALSE
      /\ b.newreq = a.newreq /\ b.rq = a.rq /\ b.oId = a.oId /\ b.sig = a.sig
      /\ b.interrupted = a.interrupted
  BY <1>2 DEF IsAdjuster
<1>5. PICK isEmpty : isEmpty = (b.held = None)
  OBVIOUS
<1>6. PICK c : c = [b EXCEPT !.empty = isEmpty]
  OBVIOUS
<1>7. /\ IsAdjuster(c) /\ c.held = has /\ c.newOriginal = None /\ c.clear = FALSE /\ c.cancel = FALSE
      /\ c.newreq = a.newreq /\ c.rq = a.rq /\ c.oId = a.oId /\ c.sig = a.sig
      /\ c.interrupted = a.interrupted /\ c.empty = isEmpty
  BY <1>4, <1>6 DEF IsAdjuster
<1>8. Thread!RunLoop(a) =
        IF c.newreq
        THEN [c EXCEPT !.newreq = FALSE, !.interrupted = FALSE, !.at = "compute",
                       !.job = [order |-> c.rq, can |-> c.rq.id = c.oId]]
        ELSE [c EXCEPT !.at = "wait"]
  BY <1>3, <1>5, <1>6, Zenon DEF Thread!RunLoop
<1>9. CASE a.newreq = TRUE
  <2>1. PICK work : work = [order |-> a.rq, can |-> a.rq.id = a.oId]
    OBVIOUS
  <2>2. PICK d : d = [c EXCEPT !.newreq = FALSE, !.interrupted = FALSE, !.at = "compute", !.job = work]
    OBVIOUS
  <2>3. Thread!RunLoop(a) = d
    BY <2>1, <2>2, <1>7, <1>8, <1>9, Zenon
  <2>4. /\ IsAdjuster(d) /\ d.held = has /\ d.newOriginal = None /\ d.clear = FALSE /\ d.cancel = FALSE
        /\ d.newreq = FALSE /\ d.rq = a.rq /\ d.oId = a.oId /\ d.sig = a.sig
        /\ d.interrupted = FALSE /\ d.empty = isEmpty /\ d.at = "compute" /\ d.job = work
    BY <2>2, <1>7 DEF IsAdjuster
  <2>5. d.empty = (d.held = None)
    BY <2>4, <1>4, <1>5, Zenon
  <2>6. IsLooped(d, a)
    BY <2>1, <2>4, <2>5, <1>1, <1>9, Zenon DEF IsLooped
  <2>7. QED  BY <2>3, <2>6
<1>10. CASE a.newreq = FALSE
  <2>1. PICK d : d = [c EXCEPT !.at = "wait"]
    OBVIOUS
  <2>2. Thread!RunLoop(a) = d
    BY <2>1, <1>7, <1>8, <1>10, Zenon
  <2>3. /\ IsAdjuster(d) /\ d.held = has /\ d.newOriginal = None /\ d.clear = FALSE /\ d.cancel = FALSE
        /\ d.newreq = FALSE /\ d.rq = a.rq /\ d.oId = a.oId /\ d.sig = a.sig
        /\ d.interrupted = a.interrupted /\ d.empty = isEmpty /\ d.at = "wait"
    BY <2>1, <1>7, <1>10 DEF IsAdjuster
  <2>4. d.empty = (d.held = None)
    BY <2>3, <1>4, <1>5, Zenon
  <2>5. IsLooped(d, a)
    BY <2>3, <2>4, <1>1, <1>10, Zenon DEF IsLooped
  <2>6. QED  BY <2>2, <2>5
<1>11. QED  BY <1>9, <1>10

\* A computation that is discarded is followed by the loop, the others by a signal.
Discarded(a) == a.cancel \/ a.newreq \/ a.clear
IsSignalled(b, a, img) ==
  /\ IsAdjuster(b) /\ SameOriginal(b, a) /\ b.rq = a.rq /\ b.newreq = a.newreq /\ b.cancel = a.cancel
  /\ b.clear = a.clear /\ b.empty = a.empty /\ b.held = a.held /\ b.interrupted = a.interrupted
  /\ b.sig = <<img, a.oId>> /\ b.at = "emit"

LEMMA CompletedIs ==
  ASSUME NEW a, IsAdjuster(a), a.newreq \in BOOLEAN, NEW img
  PROVE  /\ ~a.job.can \/ Discarded(a) => IsLooped(Thread!Completed(a, img), a)
         /\ ~ (~a.job.can \/ Discarded(a)) => IsSignalled(Thread!Completed(a, img), a, img)
<1>1. PICK b : b = [a EXCEPT !.job = None]
  OBVIOUS
<1>2. /\ IsAdjuster(b) /\ SameOriginal(b, a) /\ b.rq = a.rq /\ b.newreq = a.newreq /\ b.cancel = a.cancel
      /\ b.clear = a.clear /\ b.empty = a.empty /\ b.held = a.held /\ b.interrupted = a.interrupted
      /\ b.sig = a.sig /\ b.at = a.at
  BY <1>1 DEF IsAdjuster, SameOriginal
<1>3. Thread!Completed(a, img) =
        IF ~a.job.can \/ Discarded(a) THEN Thread!RunLoop(b)
        ELSE [b EXCEPT !.sig = <<img, a.oId>>, !.at = "emit"]
  BY <1>1, Zenon DEF Thread!Completed, Thread!Discards, Discarded
<1>4. CASE ~a.job.can \/ Discarded(a)
  <2>1. IsLooped(Thread!RunLoop(b), b)
    BY <1>2, LoopedIs
  <2>2. PICK x : x = Thread!RunLoop(b)
    OBVIOUS
  <2>3. Taken(b) = Taken(a)
    BY <1>2 DEF Taken, SameOriginal
  <2>4. IsLooped(x, a)
    BY <2>1, <2>2, <2>3, <1>2, Zenon DEF IsLooped, SameOriginal
  <2>5. QED  BY <2>2, <2>4, <1>3, <1>4, Zenon
<1>5. CASE ~ (~a.job.can \/ Discarded(a))
  <2>1. PICK signal : signal = <<img, a.oId>>
    OBVIOUS
  <2>2. PICK x : x = [b EXCEPT !.sig = signal, !.at = "emit"]
    OBVIOUS
  <2>3. IsSignalled(x, a, img)
    BY <2>1, <2>2, <1>2 DEF IsAdjuster, IsSignalled, SameOriginal
  <2>4. QED  BY <2>1, <2>2, <2>3, <1>3, <1>5, Zenon
<1>6. QED  BY <1>4, <1>5

-----------------------------------------------------------------------------
(* What holds of the thread, the slide and all that is between them.  a stands  *)
(* for adj, x for aa, l for live, w for wanted, s for slide, and o for outbox;  *)
(* m says whether pictures with layers count.                                   *)

\* A picture that the adjusters make from the base on
Plain(all, m) == all.layers = <<>> \/ (m /\ ~IsDefault(all.base))
GoodImage(img, l, m) == img # None /\ Plain(l.all, m) => img.content = Reference(l.version, l.all)

IsStack(all) == Len(all.layers) \in Nat /\ (Len(all.layers) = 0 => all.layers = <<>>)
Current(order, l) == order.id = l.version /\ order.all = l.all

\* What the AllAdjuster has is made of the original that the thread holds.
HeldRight(held, x) ==
  /\ AllShape(x)
  /\ IF held = None THEN x.valid < 0 ELSE x.valid >= 0 /\ TilesRight(x.base, Photo(held.v))

ThreadRight(a, x) ==
  /\ IsAdjuster(a)
  /\ a.newreq \in BOOLEAN /\ a.cancel \in BOOLEAN /\ a.clear \in BOOLEAN /\ a.interrupted \in BOOLEAN
  /\ a.at \in {"woken", "wait", "compute", "emit"}
  /\ a.empty = (a.held = None)
  /\ a.at = "compute" /\ (a.interrupted \/ a.newOriginal # None) => a.newreq \/ a.cancel
  /\ a.newOriginal # None => a.newOriginal.v = a.oId
  /\ a.newOriginal = None /\ a.held # None => a.held.v = a.oId
  /\ a.newreq => IsStack(a.rq.all)
  /\ a.at = "compute" => IsStack(a.job.order.all)
  /\ HeldRight(a.held, x)

\* What is asked of the thread, and what it works on in earnest, is the version that is
\* shown as it is now, unless there is no original to make it from.
OrderRight(a, l) ==
  /\ a.newreq => Current(a.rq, l) \/ (a.held = None /\ a.newOriginal = None)
  /\ a.at = "compute" /\ ~Discarded(a) => Current(a.job.order, l) \/ a.held = None

\* What is announced for the version that is shown is right.
SigRight(sig, a, l, m) ==
  sig[2] = l.version => GoodImage(sig[1].img, l, m) /\ a.oId = l.version
SigsRight(a, l, o, m) ==
  /\ IsSeq(o)
  /\ a.at = "emit" => SigRight(a.sig, a, l, m)
  /\ \A i \in 1 .. Len(o) : SigRight(o[i], a, l, m)

\* Something is on its way to the slide.
Announced(l, o) == \E i \in 1 .. Len(o) : o[i][2] = l.version
Coming(a, l, w, o) ==
  /\ l.mustshow
  /\ \/ w # None /\ w.v = l.version
     \/ a.newreq /\ Current(a.rq, l)
     \/ a.at = "compute" /\ ~Discarded(a) /\ a.job.can
     \/ a.at = "emit" /\ a.sig[2] = l.version
     \/ Announced(l, o)

IsSlide(s) == DOMAIN s = {"vsn", "img", "fit", "zoom", "natural", "lastSize"}
SlideIsRight(a, l, w, s, o, m) ==
  /\ IsSlide(s) /\ s.vsn = l.version
  /\ s.img # None => a.oId = l.version
  /\ GoodImage(s.img, l, m) \/ Coming(a, l, w, o)

Inv(m, a, x, l, w, s, o) ==
  /\ ThreadRight(a, x) /\ OrderRight(a, l) /\ SigsRight(a, l, o, m)
  /\ SlideIsRight(a, l, w, s, o, m)
PicInv(m) == Inv(m, adj, aa, live, wanted, slide, outbox)

-----------------------------------------------------------------------------
(* Calls of the client *)

LEMMA OrderedRight ==
  ASSUME NEW a, NEW x, ThreadRight(a, x), NEW order, IsStack(order.all), NEW l
  PROVE  LET b == Thread!Ordered(a, order)
         IN ThreadRight(b, x) /\ (Current(order, l) => OrderRight(b, l))
<1>1. PICK b : b = Thread!Ordered(a, order)
  OBVIOUS
<1>2. IsOrdered(b, a, order)
  BY <1>1, OrderedIs DEF ThreadRight
<1>3. ThreadRight(b, x)
  <2>1. /\ IsAdjuster(b) /\ b.newreq \in BOOLEAN /\ b.cancel \in BOOLEAN /\ b.clear \in BOOLEAN
        /\ b.interrupted \in BOOLEAN /\ b.empty = (b.held = None) /\ HeldRight(b.held, x)
    BY <1>2, Zenon DEF ThreadRight, IsOrdered, SameWork
  <2>2. b.at \in {"woken", "wait", "compute", "emit"} /\ (b.at = "compute" => a.at = "compute")
    BY <1>2 DEF ThreadRight, IsOrdered
  <2>3. /\ b.newOriginal # None => b.newOriginal.v = b.oId
        /\ b.newOriginal = None /\ b.held # None => b.held.v = b.oId
        /\ b.newreq /\ IsStack(b.rq.all)
        /\ b.at = "compute" => IsStack(b.job.order.all)
    BY <1>2, <2>2, Zenon DEF ThreadRight, IsOrdered, SameOriginal, SameWork
  <2>4. QED  BY <2>1, <2>2, <2>3, Zenon DEF ThreadRight
<1>4. Current(order, l) => OrderRight(b, l)
  BY <1>2 DEF IsOrdered, OrderRight, Discarded
<1>5. QED  BY <1>1, <1>3, <1>4

LEMMA WithdrawnRight ==
  ASSUME NEW a, NEW x, ThreadRight(a, x), NEW b, IsWithdrawn(b, a), b.clear \in BOOLEAN, NEW l
  PROVE  ThreadRight(b, x) /\ OrderRight(b, l)
<1>1. ThreadRight(b, x)
  <2>1. /\ IsAdjuster(b) /\ b.newreq \in BOOLEAN /\ b.cancel \in BOOLEAN /\ b.clear \in BOOLEAN
        /\ b.interrupted \in BOOLEAN /\ b.empty = (b.held = None) /\ HeldRight(b.held, x)
        /\ b.at \in {"woken", "wait", "compute", "emit"}
    BY Zenon DEF ThreadRight, IsWithdrawn, SameWork
  <2>2. /\ b.newOriginal # None => b.newOriginal.v = b.oId
        /\ b.newOriginal = None /\ b.held # None => b.held.v = b.oId
        /\ b.cancel /\ ~b.newreq
        /\ b.at = "compute" => IsStack(b.job.order.all)
    BY Zenon DEF ThreadRight, IsWithdrawn, SameOriginal, SameWork
  <2>3. QED  BY <2>1, <2>2, Zenon DEF ThreadRight
<1>2. OrderRight(b, l)
  BY DEF IsWithdrawn, OrderRight, Discarded
<1>3. QED  BY <1>1, <1>2

LEMMA SuppliedRight ==
  ASSUME NEW a, NEW x, ThreadRight(a, x), NEW original, original # None, NEW order, IsStack(order.all),
         NEW l, Current(order, l)
  PROVE  LET b == Thread!Ordered(Thread!Supplied(a, original), order)
         IN /\ ThreadRight(b, x) /\ OrderRight(b, l) /\ b.oId = original.v
            /\ b.newreq /\ b.rq = order /\ b.sig = a.sig /\ (b.at = "emit" => a.at = "emit")
<1>1. PICK c : c = Thread!Supplied(a, original)
  OBVIOUS
<1>2. IsSupplied(c, a, original)
  BY <1>1, SuppliedIs DEF ThreadRight
<1>3. PICK b : b = Thread!Ordered(c, order)
  OBVIOUS
<1>4. IsOrdered(b, c, order)
  BY <1>2, <1>3, OrderedIs DEF IsSupplied
<1>5. ThreadRight(b, x)
  <2>1. /\ IsAdjuster(b) /\ b.newreq \in BOOLEAN /\ b.cancel \in BOOLEAN /\ b.clear \in BOOLEAN
        /\ b.interrupted \in BOOLEAN /\ b.empty = (b.held = None) /\ HeldRight(b.held, x)
    BY <1>2, <1>4, Zenon DEF ThreadRight, IsSupplied, IsOrdered, SameWork
  <2>2. b.at \in {"woken", "wait", "compute", "emit"} /\ (b.at = "compute" => a.at = "compute")
    BY <1>2, <1>4 DEF ThreadRight, IsSupplied, IsOrdered
  <2>3. /\ b.newOriginal = original /\ b.newOriginal.v = b.oId
        /\ b.newreq /\ IsStack(b.rq.all)
        /\ b.at = "compute" => IsStack(b.job.order.all)
    BY <1>2, <1>4, <2>2, Zenon DEF ThreadRight, IsSupplied, IsOrdered, SameOriginal, SameWork
  <2>4. QED  BY <2>1, <2>2, <2>3, Zenon DEF ThreadRight
<1>6. OrderRight(b, l)
  BY <1>4 DEF IsOrdered, OrderRight, Discarded
<1>7. /\ b.oId = original.v /\ b.newreq /\ b.rq = order /\ b.sig = a.sig
      /\ b.at = "emit" => a.at = "emit"
  BY <1>2, <1>4 DEF IsSupplied, IsOrdered, SameOriginal, SameWork
<1>8. QED  BY <1>1, <1>3, <1>5, <1>6, <1>7

-----------------------------------------------------------------------------
(* The thread *)

LEMMA ClearedAll ==
  ASSUME NEW x, AllShape(x)
  PROVE  AllShape(ClearAll(x)) /\ ClearAll(x).valid < 0
<1>1. PICK layers : layers = [n \in DOMAIN x.layers |-> <<>>]
  OBVIOUS
<1>2. ClearAll(x) = [base |-> <<>>, layers |-> layers, valid |-> -1]
  BY <1>1 DEF ClearAll
<1>3. IsSeq(layers)
  BY <1>1 DEF AllShape, IsSeq
<1>4. QED  BY <1>2, <1>3 DEF AllShape

\* Taking up what was given makes the AllAdjuster hold what the thread then holds.
LEMMA TakenUpRight ==
  ASSUME NEW a, NEW x, HeldRight(a.held, x)
  PROVE  HeldRight(Taken(a), TakenUp(x, a))
<1>1. AllShape(x)
  BY DEF HeldRight
<1>2. CASE a.newOriginal # None
  <2>1. PICK v, size : v = a.newOriginal.v /\ size = a.newOriginal.size
    OBVIOUS
  <2>2. PICK img : img = [content |-> Photo(v), size |-> size]
    OBVIOUS
  <2>3. IsImage(img) /\ img.content = Photo(v)
    BY <2>2 DEF IsImage
  <2>4. PICK base : base = SetReduced(img, OSize)
    OBVIOUS
  <2>5. TilesRight(base, Photo(v))
    <3>1. TilesRight(<<Tile(img, "Reduced", OSize)>>, Photo(v))
      BY <2>3, OriginalRight
    <3>2. QED  BY <3>1, <2>4 DEF SetReduced
  <2>6. TakenUp(x, a) = SetReducedAll(x, img, OSize)
    BY <1>2, <2>1, <2>2 DEF TakenUp, Photo
  <2>7. PICK layers : layers = [n \in DOMAIN x.layers |-> <<>>]
    OBVIOUS
  <2>8. SetReducedAll(x, img, OSize) = [base |-> base, layers |-> layers, valid |-> 0]
    <3>1. PICK cleared : cleared = [base |-> <<>>, layers |-> layers, valid |-> -1]
      OBVIOUS
    <3>2. ClearAll(x) = cleared
      BY <3>1, <2>7 DEF ClearAll
    <3>3. SetReducedAll(x, img, OSize) = [cleared EXCEPT !.base = base, !.valid = 0]
      BY <3>2, <2>4, Zenon DEF SetReducedAll
    <3>4. QED  BY <3>1, <3>3
  <2>9. IsSeq(layers)
    BY <2>7, <1>1 DEF AllShape, IsSeq
  <2>10. Taken(a) = a.newOriginal
    BY <1>2 DEF Taken
  <2>11. QED  BY <2>1, <2>5, <2>6, <2>8, <2>9, <2>10, <1>2 DEF HeldRight, AllShape
<1>3. CASE a.newOriginal = None /\ a.clear
  <2>1. TakenUp(x, a) = ClearAll(x) /\ Taken(a) = None
    BY <1>3 DEF TakenUp, Taken
  <2>2. QED  BY <2>1, <1>1, ClearedAll DEF HeldRight
<1>4. CASE a.newOriginal = None /\ ~a.clear
  <2>1. TakenUp(x, a) = x /\ Taken(a) = a.held
    BY <1>4 DEF TakenUp, Taken
  <2>2. QED  BY <2>1
<1>5. QED  BY <1>2, <1>3, <1>4

LEMMA LoopRight ==
  ASSUME NEW a, NEW x, ThreadRight(a, x), NEW y, HeldRight(a.held, y), NEW b, IsLooped(b, a),
         NEW l, OrderRight(a, l)
  PROVE  ThreadRight(b, TakenUp(y, a)) /\ OrderRight(b, l) /\ b.oId = a.oId /\ b.at \in {"wait", "compute"}
<1>1. HeldRight(b.held, TakenUp(y, a))
  BY TakenUpRight DEF IsLooped
<1>2. b.newOriginal = None /\ (b.held # None => b.held.v = b.oId)
  BY DEF IsLooped, Taken, ThreadRight
<1>3. CASE a.newreq
  <2>1. PICK work : work = b.job
    OBVIOUS
  <2>2. b.at = "compute" /\ b.interrupted = FALSE /\ work.order = a.rq
    BY <1>3, <2>1 DEF IsLooped
  <2>3. IsStack(work.order.all)
    BY <1>3, <2>2 DEF ThreadRight
  <2>4. /\ IsAdjuster(b) /\ b.newreq = FALSE /\ b.cancel = FALSE /\ b.clear = FALSE
        /\ b.empty = (b.held = None)
    BY Zenon DEF IsLooped
  <2>5. ThreadRight(b, TakenUp(y, a))
    <3>1. b.at \in {"woken", "wait", "compute", "emit"} /\ b.newreq \in BOOLEAN /\ b.cancel \in BOOLEAN
          /\ b.clear \in BOOLEAN /\ b.interrupted \in BOOLEAN
      BY <2>2, <2>4
    <3>2. QED  BY <3>1, <2>1, <2>2, <2>3, <2>4, <1>1, <1>2, Zenon DEF ThreadRight
  <2>6. OrderRight(b, l)
    <3>1. Current(a.rq, l) \/ (a.held = None /\ a.newOriginal = None)
      BY <1>3 DEF OrderRight
    <3>2. Current(work.order, l) \/ b.held = None
      BY <3>1, <2>2 DEF IsLooped, Taken
    <3>3. QED  BY <3>2, <2>1, <2>4 DEF OrderRight
  <2>7. QED  BY <2>2, <2>5, <2>6 DEF IsLooped
<1>4. CASE ~a.newreq
  <2>1. /\ IsAdjuster(b) /\ b.newreq = FALSE /\ b.cancel = FALSE /\ b.clear = FALSE
        /\ b.empty = (b.held = None) /\ b.at = "wait" /\ b.interrupted = a.interrupted
    BY <1>4, Zenon DEF IsLooped
  <2>2. /\ b.at \in {"woken", "wait", "compute", "emit"} /\ b.newreq \in BOOLEAN /\ b.cancel \in BOOLEAN
        /\ b.clear \in BOOLEAN /\ b.interrupted \in BOOLEAN /\ b.at # "compute"
    BY <2>1 DEF ThreadRight
  <2>3. ThreadRight(b, TakenUp(y, a))
    BY <2>1, <2>2, <1>1, <1>2, Zenon DEF ThreadRight
  <2>4. OrderRight(b, l)
    BY <2>1 DEF OrderRight
  <2>5. QED  BY <2>1, <2>3, <2>4 DEF IsLooped
<1>5. QED  BY <1>3, <1>4

\* What was to come is still to come: the loop takes up the request for it.
LEMMA LoopComing ==
  ASSUME NEW a, NEW b, IsLooped(b, a), NEW l, a.oId = l.version, NEW w, NEW o, Coming(a, l, w, o),
         a.at # "emit", ~ (a.at = "compute" /\ ~Discarded(a) /\ a.job.can)
  PROVE  Coming(b, l, w, o)
<1>1. l.mustshow
  BY DEF Coming
<1>2. CASE (w # None /\ w.v = l.version) \/ Announced(l, o)
  BY <1>1, <1>2 DEF Coming
<1>3. CASE a.newreq /\ Current(a.rq, l)
  <2>1. b.at = "compute" /\ ~Discarded(b)
    BY <1>3 DEF IsLooped, Discarded
  <2>2. b.job.can
    <3>1. PICK work : work = b.job
      OBVIOUS
    <3>2. PICK can : can = (a.rq.id = a.oId)
      OBVIOUS
    <3>3. can = TRUE
      BY <3>2, <1>3 DEF Current
    <3>4. work = [order |-> a.rq, can |-> can]
      BY <3>1, <3>2, <1>3, Zenon DEF IsLooped
    <3>5. work.can = TRUE
      BY <3>3, <3>4
    <3>6. QED  BY <3>1, <3>5
  <2>3. QED  BY <1>1, <2>1, <2>2 DEF Coming
<1>4. QED  BY <1>2, <1>3 DEF Coming

LEMMA StartsAre ==
  ASSUME NEW x, NEW all, IsStack(all), NEW sizes, NEW size, NEW start \in Starts(sizes, x, all, size), start # 0
  PROVE  /\ start \in 1 .. 2 /\ start - 1 <= Len(all.layers)
         /\ start = 2 => all.base = Defaults /\ all.layers # <<>>
<1>1. start = 1 \/ start = 2
  <2>1. start \in {0, 1, 2}
    BY Zenon DEF Starts
  <2>2. QED  BY <2>1
<1>2. start = 2 => all.base = Defaults /\ AsksForSizes(x, all)
  <2> DEFINE first == IF AsksForSizes(x, all) THEN NoSizeLimit(sizes, 1, size) ELSE {FALSE}
             second == IF Len(all.layers) > 1 /\ x.valid > 1 THEN NoSizeLimit(sizes, 2, size) ELSE {FALSE}
  <2>1. \/ start = 1 /\ (FALSE \in first \/ all.base # Defaults)
        \/ start = 2 /\ (first # {FALSE} /\ all.base = Defaults) /\ FALSE \in second
        \/ start = 0 /\ (first # {FALSE} /\ all.base = Defaults) /\ TRUE \in second
    BY Zenon DEF Starts
  <2>2. first # {FALSE} => AsksForSizes(x, all)
    BY Zenon
  <2> HIDE DEF first, second
  <2>3. start = 2 => start # 1 /\ start # 0
    OBVIOUS
  <2>4. QED  BY <2>1, <2>2, <2>3, Zenon
<1>3. start = 2 => all.layers # <<>>
  BY <1>2 DEF AsksForSizes
<1>4. QED  BY <1>1, <1>2, <1>3 DEF IsStack

\* What a computation starts from and what it leaves
Ready(x, n) == IF x.valid < 0 THEN x ELSE EnsureAdjusters(x, n)

ComputedWell(held, d, all, start, cut) ==
  /\ HeldRight(held, d.aa)
  /\ held = None => d.img = None
  /\ /\ held # None /\ start = 1 /\ cut = NoCut /\ d.img # None
     /\ \A n \in 1 .. Len(all.layers) : Agree(d.aa.layers[n])
     => d.img.content = Reference(held.v, all)

LEMMA ComputedRight ==
  ASSUME NoneIsNoData, NEW held, NEW x, HeldRight(held, x), NEW all, IsStack(all), NEW size,
         NEW start \in 1 .. 2, start - 1 <= Len(all.layers), NEW cut,
         NEW L, L = Len(all.layers), NEW y, y = Ready(x, L),
         NEW d, d = RetrieveAll(y, all, size, start, cut)
  PROVE  ComputedWell(held, d, all, start, cut)
<1>2. L \in Nat
  BY DEF IsStack
<1>5. CASE held = None
  <2>1. x.valid < 0
    BY <1>5 DEF HeldRight
  <2>2. y = x
    BY <2>1 DEF Ready
  <2>3. d = [aa |-> x, img |-> None]
    BY <2>1, <2>2 DEF RetrieveAll
  <2>4. d.aa = x /\ d.img = None
    BY <2>3
  <2>5. QED  BY <2>4, <1>5 DEF ComputedWell
<1>6. CASE held # None
  <2>1. AllShape(x) /\ x.valid >= 0 /\ TilesRight(x.base, Photo(held.v))
    BY <1>6 DEF HeldRight
  <2>2. y = EnsureAdjusters(x, L)
    <3>1. ~ (x.valid < 0)
      BY <2>1 DEF AllShape
    <3>2. QED  BY <3>1 DEF Ready
  <2>3. AllShape(y) /\ y.valid >= 0 /\ TilesRight(y.base, Photo(held.v))
    BY <2>1, <2>2, <1>2, EnsuredRight
  <2>4. DidSound(d, Photo(held.v), L)
    BY <2>3, <1>2, AllSound
  <2>5. HeldRight(held, d.aa)
    BY <2>4, <1>6 DEF DidSound, HeldRight
  <2>6. ASSUME start = 1, cut = NoCut, d.img # None, \A n \in 1 .. L : Agree(d.aa.layers[n])
        PROVE  d.img.content = Reference(held.v, all)
    <3>1. d = RetrieveAll(y, all, size, 1, NoCut)
      BY <2>6
    <3>2. QED  BY <3>1, <2>3, <2>6, <1>2, AllRight
  <2>7. QED  BY <2>5, <2>6, <1>6 DEF ComputedWell
<1>7. QED  BY <1>5, <1>6

-----------------------------------------------------------------------------
(* The steps, with the state before and after as parameters *)

SameShown(k, l) == k.version = l.version /\ k.all = l.all
SamePicture(t, s) == IsSlide(t) /\ t.vsn = s.vsn /\ t.img = s.img

LEMMA SigsKept ==
  ASSUME NEW m, NEW a, NEW l, NEW o, SigsRight(a, l, o, m), NEW b, NEW k, SameShown(k, l),
         b.oId = a.oId \/ b.oId = l.version, b.at = "emit" => a.at = "emit" /\ b.sig = a.sig
  PROVE  SigsRight(b, k, o, m)
<1>1. \A sig : SigRight(sig, a, l, m) => SigRight(sig, b, k, m)
  BY DEF SigRight, GoodImage, SameShown
<1>2. QED  BY <1>1 DEF SigsRight

LEMMA NoSigs ==
  ASSUME NEW m, NEW a, NEW l, a.at # "emit"
  PROVE  SigsRight(a, l, <<>>, m)
BY DEF SigsRight, IsSeq

\* An edit asks for the version as it is then, or for its original.
LEMMA EditKeeps ==
  ASSUME NoneIsNoData, NEW m, NEW a, NEW x, NEW l, NEW w, NEW s, Inv(m, a, x, l, w, s, <<>>),
         a.at \in {"wait", "compute"}, a.empty => a.newOriginal = None,
         NEW k, k.version = l.version, k.mustshow = TRUE, IsStack(k.all), NEW b, NEW u, NEW size, NEW order,
         order.id = k.version, order.all = k.all,
         \/ a.empty /\ u = [v |-> l.version, size |-> size] /\ b = a
         \/ ~a.empty /\ b = Thread!Ordered(a, order) /\ u = w
  PROVE  Inv(m, b, x, k, u, s, <<>>)
<1>1. ThreadRight(a, x) /\ OrderRight(a, l) /\ SlideIsRight(a, l, w, s, <<>>, m) /\ IsAdjuster(a)
  BY DEF Inv, ThreadRight
<1>2. Current(order, k) /\ IsStack(order.all)
  BY DEF Current
<1>3. CASE a.empty
  <2>1. u = [v |-> l.version, size |-> size] /\ b = a /\ a.held = None /\ a.newOriginal = None
    BY <1>1, <1>3 DEF ThreadRight
  <2>2. OrderRight(b, k)
    BY <2>1 DEF OrderRight
  <2>3. SigsRight(b, k, <<>>, m)
    BY <2>1, NoSigs
  <2>4. u # None /\ u.v = k.version
    BY <2>1 DEF NoneIsNoData
  <2>5. SlideIsRight(b, k, u, s, <<>>, m)
    BY <2>1, <2>4, <1>1 DEF SlideIsRight, Coming
  <2>6. QED  BY <2>1, <2>2, <2>3, <2>5, <1>1 DEF Inv
<1>4. CASE ~a.empty
  <2>1. b = Thread!Ordered(a, order)
    BY <1>4
  <2>2. ThreadRight(b, x) /\ OrderRight(b, k)
    BY <2>1, <1>1, <1>2, OrderedRight
  <2>3. IsOrdered(b, a, order)
    BY <2>1, <1>1, OrderedIs
  <2>4. b.at # "emit" /\ b.newreq /\ b.rq = order /\ b.oId = a.oId
    BY <2>3 DEF IsOrdered, SameOriginal
  <2>5. SigsRight(b, k, <<>>, m)
    BY <2>4, NoSigs
  <2>6. SlideIsRight(b, k, u, s, <<>>, m)
    BY <2>4, <1>1, <1>2 DEF SlideIsRight, Coming
  <2>7. QED  BY <2>2, <2>5, <2>6 DEF Inv
<1>5. QED  BY <1>3, <1>4

LEMMA ShowKeeps ==
  ASSUME NEW m, NEW a, NEW x, NEW l, NEW w, NEW s, Inv(m, a, x, l, w, s, <<>>),
         a.at \in {"wait", "compute"}, NEW k, NEW t, IsSlide(t), t.vsn = k.version, t.img = None
  PROVE  Inv(m, Thread!Cleared(a), x, k, w, t, <<>>)
<1>1. PICK b : b = Thread!Cleared(a)
  OBVIOUS
<1>2. ThreadRight(a, x) /\ IsAdjuster(a)
  BY DEF Inv, ThreadRight
<1>3. IsWithdrawn(b, a) /\ b.clear = TRUE
  BY <1>1, <1>2, WithdrawnIs
<1>4. ThreadRight(b, x) /\ OrderRight(b, k)
  BY <1>2, <1>3, WithdrawnRight
<1>5. SigsRight(b, k, <<>>, m)
  BY <1>3, NoSigs DEF IsWithdrawn
<1>6. SlideIsRight(b, k, w, t, <<>>, m)
  BY DEF SlideIsRight, GoodImage
<1>7. QED  BY <1>1, <1>4, <1>5, <1>6 DEF Inv

\* The slide asks for a larger image.
LEMMA PaintKeeps ==
  ASSUME NoneIsNoData, NEW m, NEW a, NEW x, NEW l, NEW w, NEW s, NEW o, Inv(m, a, x, l, w, s, o),
         NEW k, SameShown(k, l), k.mustshow = TRUE, IsStack(k.all), NEW t, SamePicture(t, s),
         NEW b, NEW u, NEW size, NEW order, order.id = k.version, order.all = k.all,
         \/ b = Thread!Withdrawn(a) /\ u = [v |-> l.version, size |-> size]
         \/ b = Thread!Ordered(a, order) /\ u = w
  PROVE  Inv(m, b, x, k, u, t, o)
<1>1. /\ ThreadRight(a, x) /\ SigsRight(a, l, o, m) /\ SlideIsRight(a, l, w, s, o, m) /\ IsAdjuster(a)
      /\ a.clear \in BOOLEAN
  BY DEF Inv, ThreadRight
<1>2. Current(order, k) /\ IsStack(order.all) /\ k.version = l.version
  BY DEF Current, SameShown
<1>3. IsSlide(t) /\ t.vsn = k.version /\ (t.img # None => a.oId = k.version)
  BY <1>1, <1>2 DEF SamePicture, SlideIsRight
<1>4. CASE b = Thread!Withdrawn(a) /\ u = [v |-> l.version, size |-> size]
  <2>1. IsWithdrawn(b, a) /\ b.clear = a.clear
    BY <1>1, <1>4, WithdrawnIs
  <2>2. ThreadRight(b, x) /\ OrderRight(b, k)
    BY <2>1, <1>1, WithdrawnRight
  <2>3. b.oId = a.oId /\ b.at = a.at /\ b.sig = a.sig
    BY <2>1 DEF IsWithdrawn, SameOriginal, SameWork
  <2>4. SigsRight(b, k, o, m)
    BY <2>3, <1>1, SigsKept
  <2>5. u # None /\ u.v = k.version
    BY <1>2, <1>4 DEF NoneIsNoData
  <2>6. Coming(b, k, u, o)
    BY <2>5 DEF Coming
  <2>7. SlideIsRight(b, k, u, t, o, m)
    BY <2>3, <2>6, <1>3 DEF SlideIsRight
  <2>8. QED  BY <2>2, <2>4, <2>7 DEF Inv
<1>5. CASE b = Thread!Ordered(a, order)
  <2>1. ThreadRight(b, x) /\ OrderRight(b, k)
    BY <1>1, <1>2, <1>5, OrderedRight
  <2>2. IsOrdered(b, a, order)
    BY <1>1, <1>5, OrderedIs
  <2>3. b.oId = a.oId /\ (b.at = "emit" => a.at = "emit" /\ b.sig = a.sig) /\ b.newreq /\ b.rq = order
    BY <2>2 DEF IsOrdered, SameOriginal, SameWork
  <2>4. SigsRight(b, k, o, m)
    BY <2>3, <1>1, SigsKept
  <2>5. Coming(b, k, u, o)
    BY <2>3, <1>2 DEF Coming
  <2>6. SlideIsRight(b, k, u, t, o, m)
    BY <2>3, <2>5, <1>3 DEF SlideIsRight
  <2>7. QED  BY <2>1, <2>4, <2>6 DEF Inv
<1>6. QED  BY <1>4, <1>5

\* An original arrives, for the version that is shown or for another.
LEMMA ProvideKeeps ==
  ASSUME NoneIsNoData, NEW m, NEW a, NEW x, NEW l, NEW w, NEW s, NEW o, Inv(m, a, x, l, w, s, o),
         IsStack(l.all), NEW size, NEW order, order.id = l.version, order.all = l.all, NEW b,
         b = IF w.v # l.version THEN a
             ELSE Thread!Ordered(Thread!Supplied(a, [v |-> w.v, size |-> size]), order)
  PROVE  Inv(m, b, x, l, None, s, o)
<1>1. ThreadRight(a, x) /\ OrderRight(a, l) /\ SigsRight(a, l, o, m) /\ SlideIsRight(a, l, w, s, o, m)
  BY DEF Inv
<1>2. CASE w.v # l.version
  <2>1. b = a
    BY <1>2
  <2>2. SlideIsRight(a, l, None, s, o, m)
    BY <1>1, <1>2 DEF SlideIsRight, Coming
  <2>3. QED  BY <2>1, <2>2, <1>1 DEF Inv
<1>3. CASE w.v = l.version
  <2>1. PICK original : original = [v |-> w.v, size |-> size]
    OBVIOUS
  <2>2. original # None /\ original.v = l.version
    BY <2>1, <1>3 DEF NoneIsNoData
  <2>3. b = Thread!Ordered(Thread!Supplied(a, original), order)
    BY <2>1, <1>3
  <2>4. Current(order, l) /\ IsStack(order.all)
    BY DEF Current
  <2>5. /\ ThreadRight(b, x) /\ OrderRight(b, l) /\ b.oId = original.v
        /\ b.newreq /\ b.rq = order /\ b.sig = a.sig /\ (b.at = "emit" => a.at = "emit")
    BY <2>2, <2>3, <2>4, <1>1, SuppliedRight
  <2>6. SigsRight(b, l, o, m)
    BY <2>2, <2>5, <1>1, SigsKept DEF SameShown
  <2>7. Coming(a, l, w, o) => Coming(b, l, None, o)
    BY <2>4, <2>5 DEF Coming
  <2>8. SlideIsRight(b, l, None, s, o, m)
    BY <2>2, <2>5, <2>7, <1>1 DEF SlideIsRight
  <2>9. QED  BY <2>5, <2>6, <2>8 DEF Inv
<1>4. QED  BY <1>2, <1>3

\* An image arrives, and is shown if it is for the version shown and was asked for.
LEMMA DeliverKeeps ==
  ASSUME NEW m, NEW a, NEW x, NEW l, NEW w, NEW s, NEW o, Inv(m, a, x, l, w, s, o), o # <<>>,
         NEW k, SameShown(k, l), NEW t, IsSlide(t), t.vsn = s.vsn,
         \/ (o[1][2] # l.version \/ ~l.mustshow) /\ k = l /\ t = s
         \/ o[1][2] = l.version /\ t.img = o[1][1].img
  PROVE  Inv(m, a, x, k, w, t, Tail(o))
<1>1. ThreadRight(a, x) /\ OrderRight(a, l) /\ SigsRight(a, l, o, m) /\ SlideIsRight(a, l, w, s, o, m)
  BY DEF Inv
<1>2. OrderRight(a, k)
  BY <1>1 DEF OrderRight, Current, SameShown
<1>3. SigsRight(a, k, o, m)
  BY <1>1, SigsKept
<1>4. IsSeq(o) /\ Len(o) >= 1
  <2>1. IsSeq(o)
    BY <1>1 DEF SigsRight
  <2>2. Len(o) # 0
    BY <2>1 DEF IsSeq
  <2>3. QED  BY <2>1, <2>2 DEF IsSeq
<1>5. PICK rest : rest = Tail(o)
  OBVIOUS
<1>6. IsSeq(rest) /\ Len(rest) = Len(o) - 1 /\ \A i \in 1 .. Len(rest) : rest[i] = o[i + 1]
  BY <1>4, <1>5 DEF IsSeq
<1>7. \A i \in 1 .. Len(rest) : i + 1 \in 1 .. Len(o)
  BY <1>4, <1>6 DEF IsSeq
<1>8. SigsRight(a, k, rest, m)
  BY <1>3, <1>6, <1>7 DEF SigsRight
<1>9. SlideIsRight(a, k, w, t, rest, m)
  <2>1. CASE (o[1][2] # l.version \/ ~l.mustshow) /\ k = l /\ t = s
    <3>1. ASSUME Announced(l, o), l.mustshow
          PROVE  Announced(l, rest)
      <4>1. PICK i \in 1 .. Len(o) : o[i][2] = l.version
        BY <3>1 DEF Announced
      <4>2. i # 1
        BY <2>1, <3>1, <4>1
      <4>3. i - 1 \in 1 .. Len(rest) /\ (i - 1) + 1 = i
        BY <4>1, <4>2, <1>4, <1>6 DEF IsSeq
      <4>4. rest[i - 1][2] = l.version
        BY <4>1, <4>3, <1>6
      <4>5. QED  BY <4>3, <4>4 DEF Announced
    <3>2. Coming(a, l, w, o) => Coming(a, l, w, rest)
      BY <3>1 DEF Coming
    <3>3. QED  BY <2>1, <3>2, <1>1 DEF SlideIsRight
  <2>2. CASE o[1][2] = l.version /\ t.img = o[1][1].img
    <3>1. 1 \in 1 .. Len(o)
      BY <1>4 DEF IsSeq
    <3>2. SigRight(o[1], a, k, m)
      BY <3>1, <1>3 DEF SigsRight
    <3>3. GoodImage(t.img, k, m) /\ a.oId = k.version
      BY <2>2, <3>2 DEF SigRight, SameShown
    <3>4. t.vsn = k.version
      BY <1>1 DEF SlideIsRight, SameShown
    <3>5. QED  BY <3>3, <3>4 DEF SlideIsRight
  <2>3. QED  BY <2>1, <2>2
<1>10. QED  BY <1>1, <1>2, <1>5, <1>8, <1>9 DEF Inv

\* The loop of the thread, with what the AllAdjuster has by then
LEMMA LoopKeeps ==
  ASSUME NEW m, NEW a, NEW x, NEW l, NEW w, NEW s, NEW o, Inv(m, a, x, l, w, s, o),
         NEW y, HeldRight(a.held, y), NEW b, IsLooped(b, a),
         a.at # "emit", ~ (a.at = "compute" /\ ~Discarded(a) /\ a.job.can)
  PROVE  Inv(m, b, TakenUp(y, a), l, w, s, o)
<1>1. ThreadRight(a, x) /\ OrderRight(a, l) /\ SigsRight(a, l, o, m) /\ SlideIsRight(a, l, w, s, o, m)
  BY DEF Inv
<1>2. /\ ThreadRight(b, TakenUp(y, a)) /\ OrderRight(b, l) /\ b.oId = a.oId
      /\ b.at \in {"wait", "compute"}
  BY <1>1, LoopRight
<1>3. SigsRight(b, l, o, m)
  <2>1. b.at # "emit"
    BY <1>2
  <2>2. QED  BY <2>1, <1>1, <1>2, SigsKept DEF SameShown
<1>4. SlideIsRight(b, l, w, s, o, m)
  <2>1. CASE s.img = None
    BY <2>1, <1>1 DEF SlideIsRight, GoodImage
  <2>2. CASE s.img # None
    <3>1. a.oId = l.version
      BY <2>2, <1>1 DEF SlideIsRight
    <3>2. Coming(a, l, w, o) => Coming(b, l, w, o)
      BY <3>1, LoopComing
    <3>3. QED  BY <3>1, <3>2, <1>1, <1>2 DEF SlideIsRight
  <2>3. QED  BY <2>1, <2>2
<1>5. QED  BY <1>2, <1>3, <1>4 DEF Inv

\* A computation that is not discarded, and its image
LEMMA SignalKeeps ==
  ASSUME NEW m, NEW a, NEW x, NEW l, NEW w, NEW s, NEW o, Inv(m, a, x, l, w, s, o),
         NEW y, HeldRight(a.held, y), NEW img, NEW b, IsSignalled(b, a, img), a.at = "compute", ~Discarded(a),
         a.oId = l.version => GoodImage(img.img, l, m)
  PROVE  Inv(m, b, y, l, w, s, o)
<1>1. ThreadRight(a, x) /\ OrderRight(a, l) /\ SigsRight(a, l, o, m) /\ SlideIsRight(a, l, w, s, o, m)
  BY DEF Inv
<1>2. b.at = "emit" /\ b.oId = a.oId /\ b.held = a.held /\ b.newreq = a.newreq /\ ~b.newreq
  BY DEF IsSignalled, SameOriginal, Discarded
<1>3. ThreadRight(b, y)
  <2>1. /\ IsAdjuster(b) /\ b.newreq \in BOOLEAN /\ b.cancel \in BOOLEAN /\ b.clear \in BOOLEAN
        /\ b.interrupted \in BOOLEAN /\ b.empty = (b.held = None) /\ HeldRight(b.held, y)
    BY <1>1, Zenon DEF ThreadRight, IsSignalled
  <2>2. b.at \in {"woken", "wait", "compute", "emit"} /\ b.at # "compute"
    BY <1>2
  <2>3. /\ b.newOriginal # None => b.newOriginal.v = b.oId
        /\ b.newOriginal = None /\ b.held # None => b.held.v = b.oId
    BY <1>1, Zenon DEF ThreadRight, IsSignalled, SameOriginal
  <2>4. QED  BY <2>1, <2>2, <2>3, <1>2, Zenon DEF ThreadRight
<1>4. OrderRight(b, l)
  BY <1>2 DEF OrderRight
<1>5. PICK sig : sig = b.sig
  OBVIOUS
<1>6. sig[1] = img /\ sig[2] = a.oId
  BY <1>5 DEF IsSignalled
<1>7. SigsRight(b, l, o, m)
  <2>1. SigRight(sig, b, l, m)
    BY <1>2, <1>6 DEF SigRight
  <2>2. \A other : SigRight(other, a, l, m) => SigRight(other, b, l, m)
    BY <1>2 DEF SigRight
  <2>3. QED  BY <2>1, <2>2, <1>1, <1>5 DEF SigsRight
<1>8. SlideIsRight(b, l, w, s, o, m)
  <2>1. CASE s.img = None
    BY <2>1, <1>1 DEF SlideIsRight, GoodImage
  <2>2. CASE s.img # None
    <3>1. a.oId = l.version
      BY <2>2, <1>1 DEF SlideIsRight
    <3>2. Coming(a, l, w, o) => Coming(b, l, w, o)
      BY <3>1, <1>2, <1>5, <1>6 DEF Coming
    <3>3. QED  BY <3>1, <3>2, <1>1, <1>2 DEF SlideIsRight
  <2>3. QED  BY <2>1, <2>2
<1>9. QED  BY <1>3, <1>4, <1>7, <1>8 DEF Inv

\* The signal is queued.
LEMMA EmitKeeps ==
  ASSUME NEW m, NEW a, NEW x, NEW l, NEW w, NEW s, NEW o, Inv(m, a, x, l, w, s, o), a.at = "emit",
         NEW b, b = [a EXCEPT !.sig = <<>>, !.at = "woken"]
  PROVE  Inv(m, b, x, l, w, s, Append(o, a.sig))
<1>1. ThreadRight(a, x) /\ OrderRight(a, l) /\ SigsRight(a, l, o, m) /\ SlideIsRight(a, l, w, s, o, m)
  BY DEF Inv
<1>2. /\ IsAdjuster(b) /\ b.at = "woken" /\ b.newreq = a.newreq /\ b.cancel = a.cancel /\ b.clear = a.clear
      /\ b.interrupted = a.interrupted /\ b.empty = a.empty /\ b.held = a.held /\ b.rq = a.rq
      /\ b.newOriginal = a.newOriginal /\ b.oId = a.oId
  BY <1>1 DEF ThreadRight, IsAdjuster
<1>3. ThreadRight(b, x)
  <2>1. b.at \in {"woken", "wait", "compute", "emit"} /\ b.at # "compute"
    BY <1>2
  <2>2. QED  BY <2>1, <1>1, <1>2, Zenon DEF ThreadRight
<1>4. OrderRight(b, l)
  BY <1>1, <1>2 DEF OrderRight
<1>5. PICK more : more = Append(o, a.sig)
  OBVIOUS
<1>6. /\ IsSeq(more) /\ Len(more) = Len(o) + 1 /\ more[Len(o) + 1] = a.sig
      /\ \A i \in 1 .. Len(o) : more[i] = o[i]
  BY <1>1, <1>5, Appended DEF SigsRight
<1>7. Len(o) \in Nat
  BY <1>1 DEF SigsRight, IsSeq
<1>8. SigsRight(b, l, more, m)
  <2>1. \A sig : SigRight(sig, a, l, m) => SigRight(sig, b, l, m)
    BY <1>2 DEF SigRight
  <2>2. \A i \in 1 .. Len(more) : i \in 1 .. Len(o) \/ i = Len(o) + 1
    BY <1>6, <1>7
  <2>3. SigRight(a.sig, a, l, m) /\ \A i \in 1 .. Len(o) : SigRight(o[i], a, l, m)
    BY <1>1 DEF SigsRight
  <2>4. \A i \in 1 .. Len(more) : SigRight(more[i], b, l, m)
    BY <2>1, <2>2, <2>3, <1>6
  <2>5. b.at # "emit"
    BY <1>2
  <2>6. QED  BY <2>4, <2>5, <1>6 DEF SigsRight
<1>9. Coming(a, l, w, o) => Coming(b, l, w, more)
  <2>1. ASSUME Announced(l, o) \/ a.sig[2] = l.version
        PROVE  Announced(l, more)
    <3>1. Len(o) + 1 \in 1 .. Len(more) /\ \A i \in 1 .. Len(o) : i \in 1 .. Len(more)
      BY <1>6, <1>7
    <3>2. QED  BY <2>1, <3>1, <1>6 DEF Announced
  <2>2. QED  BY <2>1, <1>2 DEF Coming
<1>10. SlideIsRight(b, l, w, s, more, m)
  BY <1>1, <1>2, <1>9 DEF SlideIsRight
<1>11. QED  BY <1>3, <1>4, <1>5, <1>8, <1>10 DEF Inv

\* The slide is zoomed.
LEMMA ZoomKeeps ==
  ASSUME NEW m, NEW a, NEW x, NEW l, NEW w, NEW s, NEW o, Inv(m, a, x, l, w, s, o), NEW t, SamePicture(t, s)
  PROVE  Inv(m, a, x, l, w, t, o)
BY DEF Inv, SlideIsRight, SamePicture

-----------------------------------------------------------------------------
(* The actions *)

IsLive(l) == DOMAIN l = {"version", "all", "target", "mustshow"}

LEMMA StackOfKnown ==
  ASSUME NEW d, IsSound(d), NEW v \in Versions, NEW l, LiveRight(l, d, v)
  PROVE  /\ IsLive(l) /\ l.version = v /\ l.all = AllFromDB(d, v) /\ IsStack(l.all)
         /\ Count(d, v) = 0 => l.all.layers = <<>>
<1>1. IsLive(l) /\ l.version = v /\ l.all = AllFromDB(d, v)
  BY DEF LiveRight, IsLive
<1>2. PICK n, layers : n = Count(d, v) /\ layers = [i \in 1 .. n |->
                          [layer |-> LayerAt(d, v, i), adj |-> LayerAdjustments(d, v, i)]]
  OBVIOUS
<1>3. AllFromDB(d, v) = [base |-> ReadRows(d.adj[v]), layers |-> layers]
  BY <1>2, AllFromDBIs
<1>4. n \in Nat
  BY <1>2, LayersAreFinite
<1>5. Len(layers) = n /\ (n = 0 => layers = <<>>)
  BY <1>2, <1>4
<1>6. QED  BY <1>1, <1>2, <1>3, <1>4, <1>5 DEF IsStack

LEMMA ForceUpdateKeeps ==
  ASSUME NoneIsNoData, "early" \notin Hasty, NEW m, PicInv(m), UserStarts,
         NEW l, IsLive(l), l.version = live.version, ForceUpdate(l),
         IsStack(l.all), UNCHANGED <<outbox, aa, slide>>
  PROVE  PicInv(m)'
<1>1. outbox = <<>> /\ adj.at \in {"wait", "compute"} /\ (adj.empty => adj.newOriginal = None)
  BY DEF UserStarts
<1>2. PICK k : k = [l EXCEPT !.mustshow = TRUE]
  OBVIOUS
<1>3. k.version = live.version /\ k.mustshow = TRUE /\ k.all = l.all
  BY <1>2 DEF IsLive
<1>4. PICK order : order = OrderFor(l, l.target)
  OBVIOUS
<1>5. order.id = k.version /\ order.all = k.all
  BY <1>3, <1>4 DEF OrderFor
<1>6. PICK b, u : b = adj' /\ u = wanted'
  OBVIOUS
<1>7. \/ adj.empty /\ u = [v |-> live.version, size |-> l.target] /\ b = adj
      \/ ~adj.empty /\ b = Thread!Ordered(adj, order) /\ u = wanted
  BY <1>4, <1>6 DEF ForceUpdate, Want
<1>8. Inv(m, adj, aa, live, wanted, slide, <<>>)
  BY <1>1 DEF PicInv
<1>9. Inv(m, b, aa, k, u, slide, <<>>)
  BY <1>1, <1>3, <1>5, <1>7, <1>8, EditKeeps
<1>10. live' = k
  BY <1>2 DEF ForceUpdate
<1>11. QED  BY <1>1, <1>6, <1>9, <1>10 DEF PicInv

LEMMA NothingKeeps ==
  ASSUME NEW m, PicInv(m), UNCHANGED <<adj, aa, live, wanted, slide, outbox>>
  PROVE  PicInv(m)'
BY DEF PicInv

LEMMA ReloadBaseKeeps ==
  ASSUME NoneIsNoData, "early" \notin Hasty, NEW m, PicInv(m), UserStarts, IsLive(live),
         NEW a, ReloadBase(a), IsStack(live'.all),
         UNCHANGED <<outbox, aa, slide>>
  PROVE  PicInv(m)'
<1>1. CASE a = live.all.base
  <2>1. UNCHANGED <<live, wanted, adj>>
    BY <1>1 DEF ReloadBase
  <2>2. QED  BY <2>1, NothingKeeps
<1>2. CASE a # live.all.base
  <2>1. PICK l : l = [live EXCEPT !.all.base = a]
    OBVIOUS
  <2>2. ForceUpdate(l)
    BY <1>2, <2>1 DEF ReloadBase
  <2>3. IsLive(l) /\ l.version = live.version
    BY <2>1 DEF IsLive
  <2>4. live'.all = l.all
    BY <2>2, <2>3 DEF ForceUpdate, IsLive
  <2>5. QED  BY <2>2, <2>3, <2>4, ForceUpdateKeeps
<1>3. QED  BY <1>1, <1>2

LEMMA ReloadLayerKeeps ==
  ASSUME NoneIsNoData, "early" \notin Hasty, NEW m, PicInv(m), UserStarts, IsLive(live),
         NEW n, NEW a, ReloadLayer(n, a),
         IsStack(live'.all), UNCHANGED <<outbox, aa, slide>>
  PROVE  PicInv(m)'
<1>1. CASE a = live.all.layers[n].adj
  <2>1. UNCHANGED <<live, wanted, adj>>
    BY <1>1 DEF ReloadLayer
  <2>2. QED  BY <2>1, NothingKeeps
<1>2. CASE a # live.all.layers[n].adj
  <2>1. PICK l : l = [live EXCEPT !.all.layers[n].adj = a]
    OBVIOUS
  <2>2. ForceUpdate(l)
    BY <1>2, <2>1 DEF ReloadLayer
  <2>3. IsLive(l) /\ l.version = live.version
    BY <2>1 DEF IsLive
  <2>4. live'.all = l.all
    BY <2>2, <2>3 DEF ForceUpdate, IsLive
  <2>5. QED  BY <2>2, <2>3, <2>4, ForceUpdateKeeps
<1>3. QED  BY <1>1, <1>2

LEMMA ReloadLayersKeeps ==
  ASSUME NoneIsNoData, "early" \notin Hasty, NEW m, PicInv(m), UserStarts, IsLive(live),
         NEW d, NEW lowest, ReloadLayers(d, lowest),
         IsStack(live'.all), UNCHANGED <<outbox, aa, slide>>
  PROVE  PicInv(m)'
<1>1. PICK all : all = RereadFromDB(live.all, d, live.version, lowest)
  OBVIOUS
<1>2. PICK l : l = [live EXCEPT !.all = all]
  OBVIOUS
<1>3. ForceUpdate(l)
  BY <1>1, <1>2 DEF ReloadLayers
<1>4. IsLive(l) /\ l.version = live.version
  BY <1>2 DEF IsLive
<1>5. live'.all = l.all
  BY <1>3, <1>4 DEF ForceUpdate, IsLive
<1>6. QED  BY <1>3, <1>4, <1>5, ForceUpdateKeeps

LEMMA ShowVersionKeeps ==
  ASSUME NEW m, PicInv(m), NEW v, ShowVersion(v)
  PROVE  PicInv(m)'
<1>1. /\ outbox = <<>> /\ adj.at \in {"wait", "compute"} /\ aa' = aa /\ outbox' = outbox
      /\ MakeCurrent(db, v)
  BY DEF ShowVersion, UserActs, UserStarts
<1>2. PICK natural : natural = CroppedSize(OSize, ReadRows(db.adj[v]))
  OBVIOUS
<1>3. /\ live' = [version |-> v, all |-> AllFromDB(db, v), target |-> natural, mustshow |-> TRUE]
      /\ adj' = Thread!Cleared(adj)
      /\ slide' = NewImage(slide, v, natural)
      /\ wanted' = wanted
  BY <1>1, <1>2, Zenon DEF MakeCurrent
<1>4. PICK k, t : k = live' /\ t = slide'
  OBVIOUS
<1>5. IsSlide(slide)
  BY DEF PicInv, Inv, SlideIsRight
<1>6. IsSlide(t) /\ t.vsn = v /\ t.img = None
  BY <1>3, <1>4, <1>5 DEF NewImage, IsSlide
<1>7. k.version = v
  BY <1>3, <1>4
<1>8. Inv(m, adj, aa, live, wanted, slide, <<>>)
  BY <1>1 DEF PicInv
<1>9. Inv(m, Thread!Cleared(adj), aa, k, wanted, t, <<>>)
  BY <1>1, <1>6, <1>7, <1>8, ShowKeeps
<1>10. QED  BY <1>1, <1>3, <1>4, <1>9 DEF PicInv

LEMMA ZoomStepKeeps ==
  ASSUME NEW m, PicInv(m), PressZoom
  PROVE  PicInv(m)'
<1>1. IsSlide(slide)
  BY DEF PicInv, Inv, SlideIsRight
<1>2. PICK t : Zoom(t) /\ (t = ScaleToFit(slide) \/ \E z : t = SetZoom(slide, z))
  BY DEF PressZoom
<1>3. SamePicture(ScaleToFit(slide), slide)
  BY <1>1 DEF ScaleToFit, IsSlide, SamePicture
<1>4. ASSUME NEW z
      PROVE  SamePicture(SetZoom(slide, z), slide)
  <2>1. PICK y : y = IF ~Below(FittingZoom(slide), <<1, 1>>) /\ Below(z, <<1, 1>>) THEN <<1, 1>> ELSE z
    OBVIOUS
  <2>2. PICK u : u = [slide EXCEPT !.fit = FALSE, !.zoom = y]
    OBVIOUS
  <2>3. SetZoom(slide, z) = ScaleToFit(slide) \/ SetZoom(slide, z) = u
    BY <2>1, <2>2, Zenon DEF SetZoom
  <2>4. SamePicture(u, slide)
    BY <2>2, <1>1 DEF IsSlide, SamePicture
  <2>5. QED  BY <2>3, <2>4, <1>3
<1>5. slide' = t /\ UNCHANGED <<adj, live, wanted, outbox, aa>>
  BY <1>2 DEF Zoom, UserActs
<1>6. SamePicture(t, slide)
  BY <1>2, <1>3, <1>4
<1>7. Inv(m, adj, aa, live, wanted, t, outbox)
  BY <1>6, ZoomKeeps DEF PicInv
<1>8. QED  BY <1>5, <1>7 DEF PicInv

LEMMA PaintStepKeeps ==
  ASSUME NoneIsNoData, NEW m, PicInv(m), IsLive(live), IsStack(live.all), Paint
  PROVE  PicInv(m)'
<1>1. PICK size : size = DesiredSize(slide)
  OBVIOUS
<1>2. PICK k, t : /\ k = [live EXCEPT !.target = size, !.mustshow = TRUE]
                  /\ t = [slide EXCEPT !.lastSize = size]
  OBVIOUS
<1>3. SameShown(k, live) /\ k.mustshow = TRUE
  BY <1>2 DEF IsLive, SameShown
<1>4. IsSlide(slide)
  BY DEF PicInv, Inv, SlideIsRight
<1>5. SamePicture(t, slide)
  BY <1>2, <1>4 DEF IsSlide, SamePicture
<1>6. PICK order : order = OrderFor(k, size)
  OBVIOUS
<1>7. order.id = k.version /\ order.all = k.all /\ IsStack(k.all)
  BY <1>3, <1>6 DEF OrderFor, SameShown
<1>8. PICK b, u : b = adj' /\ u = wanted'
  OBVIOUS
<1>9. PICK needed : needed = NeededScaledOriginalSize(OSize, k.all.base, size)
  OBVIOUS
<1>10. /\ live' = k /\ slide' = t /\ aa' = aa /\ outbox' = outbox
       /\ \/ b = Thread!Withdrawn(adj) /\ u = [v |-> live.version, size |-> needed]
          \/ b = Thread!Ordered(adj, order) /\ u = wanted
  BY <1>1, <1>2, <1>6, <1>8, <1>9 DEF Paint, Want
<1>11. Inv(m, b, aa, k, u, t, outbox)
  BY <1>3, <1>5, <1>7, <1>10, PaintKeeps DEF PicInv
<1>12. QED  BY <1>8, <1>10, <1>11 DEF PicInv

LEMMA ProvideOriginalKeeps ==
  ASSUME NoneIsNoData, NEW m, PicInv(m), IsStack(live.all), ProvideScaledOriginal
  PROVE  PicInv(m)'
<1>1. PICK size : size = IF wanted.v \in Raw /\ ContainsSize(Half, wanted.size) THEN Half ELSE OSize
  OBVIOUS
<1>2. PICK order : order = OrderFor(live, live.target)
  OBVIOUS
<1>3. order.id = live.version /\ order.all = live.all
  BY <1>2 DEF OrderFor
<1>4. PICK b : b = adj'
  OBVIOUS
<1>5. /\ b = IF wanted.v # live.version THEN adj
             ELSE Thread!Ordered(Thread!Supplied(adj, [v |-> wanted.v, size |-> size]), order)
      /\ wanted' = None /\ UNCHANGED <<outbox, aa, live, slide>>
  BY <1>1, <1>2, <1>4, Zenon DEF ProvideScaledOriginal
<1>6. Inv(m, b, aa, live, None, slide, outbox)
  BY <1>3, <1>5, ProvideKeeps DEF PicInv
<1>7. QED  BY <1>4, <1>5, <1>6 DEF PicInv

LEMMA ProvideAdjustedKeeps ==
  ASSUME NEW m, PicInv(m), IsLive(live), ProvideAdjusted
  PROVE  PicInv(m)'
<1>1. outbox # <<>> /\ outbox' = Tail(outbox) /\ UNCHANGED <<adj, aa, wanted>>
  BY DEF ProvideAdjusted
<1>2. PICK sig : sig = Head(outbox)
  OBVIOUS
<1>3. sig = outbox[1]
  <2>1. IsSeq(outbox)
    BY DEF PicInv, Inv, SigsRight
  <2>2. QED  BY <2>1, <1>1, <1>2 DEF IsSeq
<1>4. IsSlide(slide)
  BY DEF PicInv, Inv, SlideIsRight
<1>5. PICK k, t : k = live' /\ t = slide'
  OBVIOUS
<1>6. SameShown(k, live) /\ IsSlide(t) /\ t.vsn = slide.vsn
      /\ \/ (outbox[1][2] # live.version \/ ~live.mustshow) /\ k = live /\ t = slide
         \/ outbox[1][2] = live.version /\ t.img = outbox[1][1].img
  <2>1. CASE sig[2] # live.version \/ ~live.mustshow
    <3>1. k = live /\ t = slide
      BY <2>1, <1>2, <1>5 DEF ProvideAdjusted
    <3>2. QED  BY <3>1, <2>1, <1>3, <1>4 DEF SameShown
  <2>2. CASE ~ (sig[2] # live.version \/ ~live.mustshow)
    <3>1. PICK img, natural : img = sig[1].img /\ natural = sig[1].natural
      OBVIOUS
    <3>2. k = [live EXCEPT !.mustshow = FALSE] /\ t = UpdateImage(slide, img, natural)
      BY <3>1, <2>2, <1>2, <1>5 DEF ProvideAdjusted
    <3>3. SameShown(k, live)
      BY <3>2 DEF IsLive, SameShown
    <3>4. IsSlide(t) /\ t.vsn = slide.vsn /\ t.img = img
      BY <3>2, <1>4 DEF UpdateImage, IsSlide
    <3>5. QED  BY <3>1, <3>3, <3>4, <2>2, <1>3
  <2>3. QED  BY <2>1, <2>2
<1>7. Inv(m, adj, aa, k, wanted, t, Tail(outbox))
  BY <1>1, <1>6, DeliverKeeps DEF PicInv
<1>8. QED  BY <1>1, <1>5, <1>7 DEF PicInv

LEMMA WakeupKeeps ==
  ASSUME NEW m, PicInv(m), Wakeup
  PROVE  PicInv(m)'
<1>1. adj.at = "woken" /\ aa' = TakenUp(aa, adj) /\ adj' = Thread!RunLoop(adj)
      /\ UNCHANGED <<outbox, live, wanted, slide>>
  BY DEF Wakeup, shown
<1>2. IsAdjuster(adj) /\ adj.newreq \in BOOLEAN /\ HeldRight(adj.held, aa)
  BY DEF PicInv, Inv, ThreadRight
<1>3. PICK b : b = adj'
  OBVIOUS
<1>4. IsLooped(b, adj)
  BY <1>1, <1>2, <1>3, LoopedIs
<1>5. Inv(m, b, TakenUp(aa, adj), live, wanted, slide, outbox)
  <2>1. adj.at # "emit" /\ adj.at # "compute"
    BY <1>1
  <2>2. QED  BY <2>1, <1>2, <1>4, LoopKeeps DEF PicInv
<1>6. QED  BY <1>1, <1>3, <1>5 DEF PicInv

\* The end of a computation that left the AllAdjuster as it should be
LEMMA FinishedKeeps ==
  ASSUME NEW m, PicInv(m), adj.at = "compute", NEW y, HeldRight(adj.held, y), NEW img, Finished(y, img),
         ~Discarded(adj) /\ adj.job.can /\ adj.oId = live.version /\ adj'.at = "emit" /\ adj'.sig[1].img = img
           /\ aa' = y
           => GoodImage(img, live, m),
         UNCHANGED <<outbox, live, wanted, slide>>
  PROVE  PicInv(m)'
<1>1. IsAdjuster(adj) /\ adj.newreq \in BOOLEAN
  BY DEF PicInv, Inv, ThreadRight
<1>2. PICK natural : natural = CroppedSize(OSize, adj.job.order.all.base)
  OBVIOUS
<1>3. PICK result : result = [img |-> img, natural |-> natural]
  OBVIOUS
<1>4. PICK b : b = adj'
  OBVIOUS
<1>5. /\ b = Thread!Completed(adj, result)
      /\ aa' = IF b.at = "emit" THEN y ELSE TakenUp(y, adj)
  BY <1>2, <1>3, <1>4, Zenon DEF Finished
<1>6. CASE ~adj.job.can \/ Discarded(adj)
  <2>1. IsLooped(b, adj)
    BY <1>1, <1>5, <1>6, CompletedIs
  <2>2. b.at # "emit"
    BY <2>1, <1>1 DEF IsLooped
  <2>3. ~ (adj.at = "compute" /\ ~Discarded(adj) /\ adj.job.can) /\ adj.at # "emit"
    BY <1>6
  <2>4. Inv(m, b, TakenUp(y, adj), live, wanted, slide, outbox)
    BY <2>1, <2>3, LoopKeeps DEF PicInv
  <2>5. QED  BY <2>2, <2>4, <1>4, <1>5 DEF PicInv
<1>7. CASE ~ (~adj.job.can \/ Discarded(adj))
  <2>1. IsSignalled(b, adj, result)
    BY <1>1, <1>5, <1>7, CompletedIs
  <2>2. b.at = "emit" /\ b.sig[1] = result
    BY <2>1 DEF IsSignalled
  <2>3. result.img = img
    BY <1>3
  <2>4. adj.oId = live.version => GoodImage(result.img, live, m)
    BY <2>2, <2>3, <1>4, <1>5, <1>7
  <2>5. Inv(m, b, y, live, wanted, slide, outbox)
    BY <2>1, <2>4, <1>7, SignalKeeps DEF PicInv
  <2>6. QED  BY <2>2, <2>5, <1>4, <1>5 DEF PicInv
<1>8. QED  BY <1>6, <1>7

LEMMA CannotDoKeeps ==
  ASSUME NEW m, PicInv(m), CannotDo
  PROVE  PicInv(m)'
<1>1. adj.at = "compute" /\ ~adj.job.can /\ Finished(aa, None) /\ UNCHANGED <<outbox, live, wanted, slide>>
  BY DEF CannotDo, shown
<1>2. HeldRight(adj.held, aa)
  BY DEF PicInv, Inv, ThreadRight
<1>3. QED  BY <1>1, <1>2, FinishedKeeps

LEMMA EmitStepKeeps ==
  ASSUME NEW m, PicInv(m), Emit
  PROVE  PicInv(m)'
<1>1. adj.at = "emit" /\ outbox' = Append(outbox, adj.sig) /\ adj' = [adj EXCEPT !.sig = <<>>, !.at = "woken"]
      /\ UNCHANGED <<aa, live, wanted, slide>>
  BY DEF Emit, shown
<1>2. PICK b : b = adj'
  OBVIOUS
<1>3. Inv(m, b, aa, live, wanted, slide, Append(outbox, adj.sig))
  BY <1>1, <1>2, EmitKeeps DEF PicInv
<1>4. QED  BY <1>1, <1>2, <1>3 DEF PicInv

\* What is computed in earnest is the picture that the settings ask for, if the
\* adjusters start from the base and the sizes of what they make agree.
LEMMA ComputeKeeps ==
  ASSUME NoneIsNoData, NEW m \in BOOLEAN, PicInv(m), ComputeImage, m => SizesAgree'
  PROVE  PicInv(m)'
<1>1. adj.at = "compute" /\ adj.job.can /\ UNCHANGED <<outbox, live, wanted, slide>>
  BY DEF ComputeImage, shown
<1>2. PICK order : order = adj.job.order
  OBVIOUS
<1>3. PICK L : L = Len(order.all.layers)
  OBVIOUS
<1>4. PICK ready : ready = Ready(aa, L)
  OBVIOUS
<1>5. Compute(ready, order)
  BY <1>2, <1>3, <1>4, Zenon DEF ComputeImage, Ready
<1>6. PICK sizes : sizes = mas'
  OBVIOUS
<1>7. PICK start \in Starts(sizes, ready, order.all, order.size) :
        \/ start = 0 /\ up' = FALSE /\ UNCHANGED <<adj, aa>>
        \/ start # 0 /\ Retrieve(ready, order, start) /\ UNCHANGED up
  BY <1>5, <1>6, Zenon DEF Compute
<1>8. ThreadRight(adj, aa) /\ OrderRight(adj, live)
  BY DEF PicInv, Inv
<1>9. IsStack(order.all) /\ HeldRight(adj.held, aa)
  BY <1>1, <1>2, <1>8 DEF ThreadRight
<1>10. CASE start = 0
  <2>1. UNCHANGED <<adj, aa>>
    BY <1>7, <1>10
  <2>2. QED  BY <2>1, <1>1, NothingKeeps
<1>11. CASE start # 0
  <2>1. start \in 1 .. 2 /\ start - 1 <= Len(order.all.layers)
        /\ (start = 2 => order.all.base = Defaults /\ order.all.layers # <<>>)
    BY <1>7, <1>9, <1>11, StartsAre
  <2>2. PICK cut \in {NoCut} \cup IF adj.interrupted THEN Cuts(order.all) ELSE {} :
          \E did \in {RetrieveAll(ready, order.all, order.size, start, cut)} : Finished(did.aa, did.img)
    BY <1>7, <1>11, Zenon DEF Retrieve
  <2>3. PICK did : did = RetrieveAll(ready, order.all, order.size, start, cut) /\ Finished(did.aa, did.img)
    BY <2>2
  <2>4. ~adj.interrupted => cut = NoCut
    BY <2>2
  <2>5. /\ HeldRight(adj.held, did.aa)
        /\ adj.held = None => did.img = None
        /\ /\ adj.held # None /\ start = 1 /\ cut = NoCut /\ did.img # None
           /\ \A n \in 1 .. Len(order.all.layers) : Agree(did.aa.layers[n])
           => did.img.content = Reference(adj.held.v, order.all)
    <3>1. PICK h, x, all, size : h = adj.held /\ x = aa /\ all = order.all /\ size = order.size
      OBVIOUS
    <3>2. L = Len(all.layers) /\ ready = Ready(x, L) /\ did = RetrieveAll(ready, all, size, start, cut)
      BY <3>1, <2>3, <1>3, <1>4
    <3>3. IsStack(all) /\ HeldRight(h, x) /\ start - 1 <= Len(all.layers)
      BY <3>1, <2>1, <1>9
    <3>4. ComputedWell(h, did, all, start, cut)
      BY <3>2, <3>3, <2>1, ComputedRight
    <3>5. QED  BY <3>1, <3>4 DEF ComputedWell
  <2>6. ASSUME ~Discarded(adj), adj.oId = live.version, adj'.at = "emit", adj'.sig[1].img = did.img,
               aa' = did.aa
        PROVE  GoodImage(did.img, live, m)
    <3>1. SUFFICES ASSUME did.img # None, Plain(live.all, m)
                   PROVE  did.img.content = Reference(live.version, live.all)
      BY DEF GoodImage
    <3>2. adj.held # None
      BY <3>1, <2>5
    <3>3. ~adj.interrupted /\ adj.newOriginal = None
      BY <2>6, <1>1, <1>8 DEF Discarded, ThreadRight
    <3>4. adj.held.v = live.version
      BY <3>2, <3>3, <2>6, <1>8 DEF ThreadRight
    <3>5. order.all = live.all
      BY <3>2, <2>6, <1>1, <1>2, <1>8 DEF OrderRight, Current
    <3>6. start = 1
      <4>1. start # 2
        BY <3>1, <3>5, <2>1 DEF Plain, IsDefault
      <4>2. QED  BY <4>1, <2>1
    <3>7. ASSUME NEW n \in 1 .. Len(live.all.layers)
          PROVE  Agree(did.aa.layers[n])
      <4>1. CASE live.all.layers = <<>>
        BY <4>1
      <4>2. CASE m /\ ~IsDefault(live.all.base)
        <5>1. SizesAgree'
          BY <4>2
        <5>2. \A i \in 1 .. Len(live.all.layers) : Agree(aa'.layers[i])
          BY <5>1, <4>2, <3>1, <2>6, <1>1 DEF SizesAgree, Agree
        <5>3. QED  BY <5>2, <2>6
      <4>3. QED  BY <4>1, <4>2, <3>1 DEF Plain
    <3>8. QED  BY <3>1, <3>2, <3>3, <3>4, <3>5, <3>6, <3>7, <2>4, <2>5
  <2>7. PICK y, img : y = did.aa /\ img = did.img
    OBVIOUS
  <2>8. QED  BY <2>3, <2>5, <2>6, <2>7, <1>1, FinishedKeeps
<1>12. QED  BY <1>10, <1>11

LEMMA InitIsRight ==
  ASSUME NEW m, Init
  PROVE  PicInv(m)
<1>1. PICK v, natural :
        /\ live = [version |-> v, all |-> AllFromDB(db, v), target |-> natural, mustshow |-> TRUE]
        /\ slide = [vsn |-> v, img |-> None, fit |-> TRUE, zoom |-> <<1, 1>>, natural |-> natural,
                    lastSize |-> Empty]
  BY Zenon DEF Init
<1>2. adj = Idle /\ outbox = <<>> /\ aa = NoInput /\ wanted = None
  BY DEF Init
<1>3. HeldRight(None, aa)
  BY <1>2 DEF NoInput, HeldRight, AllShape, IsSeq
<1>4. /\ IsAdjuster(adj) /\ adj.newreq = FALSE /\ adj.cancel = FALSE /\ adj.clear = FALSE /\ adj.empty = TRUE
      /\ adj.interrupted = FALSE /\ adj.newOriginal = None /\ adj.held = None /\ adj.at = "wait"
  BY <1>2 DEF Idle, IsAdjuster
<1>5. ThreadRight(adj, aa)
  BY <1>3, <1>4 DEF ThreadRight
<1>6. OrderRight(adj, live)
  BY <1>4 DEF OrderRight
<1>7. SigsRight(adj, live, outbox, m)
  BY <1>2, <1>4 DEF SigsRight, IsSeq
<1>8. SlideIsRight(adj, live, wanted, slide, outbox, m)
  <2>1. IsSlide(slide) /\ slide.vsn = live.version /\ slide.img = None
    BY <1>1 DEF IsSlide
  <2>2. GoodImage(slide.img, live, m)
    BY <2>1 DEF GoodImage
  <2>3. QED  BY <2>1, <2>2 DEF SlideIsRight
<1>9. QED  BY <1>5, <1>6, <1>7, <1>8 DEF PicInv, Inv

LEMMA NextIsRight ==
  ASSUME NoneIsNoData, "early" \notin Hasty, NEW m \in BOOLEAN, PicInv(m),
         KnownInv, KnownInv', [Next]_vars, m => SizesAgree'
  PROVE  PicInv(m)'
<1>1. IsLive(live) /\ IsStack(live.all)
  BY StackOfKnown DEF KnownInv
<1>2. IsStack(live'.all)
  <2>1. PICK d, v, l : d = db' /\ v = ctl'.vsn /\ l = live'
    OBVIOUS
  <2>2. IsSound(d) /\ v \in Versions /\ LiveRight(l, d, v)
    BY <2>1 DEF KnownInv
  <2>3. IsStack(l.all)
    BY <2>2, StackOfKnown
  <2>4. QED  BY <2>1, <2>3
<1>3. ASSUME UserActs PROVE UserStarts /\ UNCHANGED <<outbox, aa>>
  BY <1>3 DEF UserActs
<1>4. CASE \E v \in Versions : ShowVersion(v)
  BY <1>4, ShowVersionKeeps
<1>5. CASE \E s \in UserSliders : \E v \in Targets(s, JogValue(ctl.sliders, s)) : MoveSlider(s, v)
  <2>1. PICK s, v : MoveSlider(s, v)
    BY <1>5
  <2>2. PICK a : a = SliderChange(ctl.sliders, s, v)
    OBVIOUS
  <2>3. UserActs /\ ReloadBase(a) /\ UNCHANGED slide
    BY <2>1, <2>2, Zenon DEF MoveSlider
  <2>4. QED  BY <2>3, <1>1, <1>2, <1>3, ReloadBaseKeeps
<1>6. CASE \/ \E s \in UserCrop : MoveCropSlider(s)
           \/ \E mode \in {"Free", "Aspect"} : PressMode(mode)
           \/ \E o \in {"Auto", "Landscape", "Portrait"} : PressOrient(o)
           \/ \E p \in Aspects : PressAspect(p)
           \/ PressOptimize
  <2>1. \/ \E crop : Recrop(crop)
        \/ UserActs /\ UNCHANGED <<adj, live, wanted, slide>>
    BY <1>6 DEF MoveCropSlider, PressMode, PressOrient, PressAspect, PressOptimize
  <2>2. PICK a : a = ctl'.adjs
    OBVIOUS
  <2>3. UserActs /\ (ReloadBase(a) \/ UNCHANGED <<adj, live, wanted>>) /\ UNCHANGED slide
    BY <2>1, <2>2, Zenon DEF Recrop
  <2>4. CASE ReloadBase(a)
    BY <2>3, <2>4, <1>1, <1>2, <1>3, ReloadBaseKeeps
  <2>5. CASE UNCHANGED <<adj, live, wanted>>
    BY <2>3, <2>5, <1>3, NothingKeeps
  <2>6. QED  BY <2>3, <2>4, <2>5
<1>7. CASE \E n \in 1 .. dlg.rows : ClickLayer(n)
  <2>1. UserActs /\ UNCHANGED <<adj, live, wanted, slide>>
    BY <1>7 DEF ClickLayer
  <2>2. QED  BY <2>1, <1>3, NothingKeeps
<1>8. CASE PressAdd \/ PressDelete \/ PressRaise \/ PressLower \/ PressShowHide
  <2>1. PICK p : PressLayer(p)
    BY <1>8, Zenon DEF PressAdd, PressDelete, PressRaise, PressLower, PressShowHide
  <2>2. PICK d, lowest : d = p.db /\ lowest = p.lowest
    OBVIOUS
  <2>3. UserActs /\ ReloadLayers(d, lowest) /\ UNCHANGED slide
    BY <2>1, <2>2 DEF PressLayer
  <2>4. QED  BY <2>3, <1>1, <1>2, <1>3, ReloadLayersKeeps
<1>9. CASE \E s \in UserLayerSliders :
             \E v \in Targets(s, JogValue(dlg.sliders, s)) : MoveLayerSlider(s, v)
  <2>1. PICK s, v : MoveLayerSlider(s, v)
    BY <1>9
  <2>2. PICK a, n : a = SliderChange(dlg.sliders, s, v) /\ n = dlg.selected
    OBVIOUS
  <2>3. UserActs /\ ReloadLayer(n, a) /\ UNCHANGED slide
    BY <2>1, <2>2, Zenon DEF MoveLayerSlider
  <2>4. QED  BY <2>3, <1>1, <1>2, <1>3, ReloadLayerKeeps
<1>10. CASE PressCopy \/ Check
  <2>1. \E c : UseClipboard(c)
    BY <1>10, Zenon DEF PressCopy, Check
  <2>2. UserActs /\ UNCHANGED <<adj, live, wanted, slide>>
    BY <2>1 DEF UseClipboard, shown
  <2>3. QED  BY <2>2, <1>3, NothingKeeps
<1>11. CASE PressApply
  <2>1. UNCHANGED <<adj, aa, live, wanted, slide, outbox>>
    BY <1>11 DEF PressApply, thread, shown
  <2>2. QED  BY <2>1, NothingKeeps
<1>12. CASE PressZoom
  BY <1>12, ZoomStepKeeps
<1>13. CASE Paint
  BY <1>13, <1>1, PaintStepKeeps
<1>14. CASE ProvideScaledOriginal
  BY <1>14, <1>1, ProvideOriginalKeeps
<1>15. CASE ProvideAdjusted
  BY <1>15, <1>1, ProvideAdjustedKeeps
<1>16. CASE Wakeup
  BY <1>16, WakeupKeeps
<1>17. CASE ComputeImage
  BY <1>17, ComputeKeeps
<1>18. CASE CannotDo
  BY <1>18, CannotDoKeeps
<1>19. CASE Emit
  BY <1>19, EmitStepKeeps
<1>20. CASE UNCHANGED vars
  <2>1. UNCHANGED <<adj, aa, live, wanted, slide, outbox>>
    BY <1>20 DEF vars, thread, shown
  <2>2. QED  BY <2>1, NothingKeeps
<1>21. QED
  BY <1>4, <1>5, <1>6, <1>7, <1>8, <1>9, <1>10, <1>11, <1>12, <1>13, <1>14, <1>15, <1>16, <1>17, <1>18,
     <1>19, <1>20 DEF Next, UserStep, LoopStep, ThreadStep

LEMMA AtRestIsRight ==
  ASSUME NEW m \in BOOLEAN, PicInv(m), KnownInv, m \/ ~Layered
  PROVE  PictureIsAsStored
<1>1. SUFFICES ASSUME AtRest, ~(Layered /\ IsDefault(live.all.base)), slide.img # None
               PROVE  slide.img.content = Reference(slide.vsn, AllFromDB(db, slide.vsn))
  BY DEF PictureIsAsStored, AsStored
<1>2. PICK v : v = ctl.vsn /\ v \in Versions
  BY DEF KnownInv
<1>3. live.version = v /\ live.all = AllFromDB(db, v) /\ (Count(db, v) = 0 => live.all.layers = <<>>)
      /\ Count(db, v) \in Nat
  BY <1>2, StackOfKnown, LayersAreFinite DEF KnownInv
<1>4. SlideIsRight(adj, live, wanted, slide, outbox, m)
  BY DEF PicInv, Inv
<1>5. slide.vsn = v
  BY <1>3, <1>4 DEF SlideIsRight
<1>6. ~Coming(adj, live, wanted, outbox)
  BY <1>1 DEF Coming, Announced, AtRest
<1>7. GoodImage(slide.img, live, m)
  BY <1>4, <1>6 DEF SlideIsRight
<1>8. Plain(live.all, m)
  BY <1>1, <1>3, <1>5 DEF Plain, Layered
<1>9. QED  BY <1>1, <1>3, <1>5, <1>7, <1>8 DEF GoodImage

-----------------------------------------------------------------------------
(* The theorems *)

LEMMA Known == Spec => []KnownInv
<1>1. Init => KnownInv
  BY InitIsKnown
<1>2. KnownInv /\ [Next]_vars => KnownInv'
  BY NextIsKnown
<1> QED
  BY <1>1, <1>2, PTL DEF Spec

(* Whatever the user does with layers, those of every version stay stacked without gaps
   and without doubles, and none has the adjustments of one that was deleted (Layer.cpp):
   for any databases to begin with and any number of layers. *)
THEOREM LayersStayStacked == Spec => []LayersStacked
<1>1. KnownInv => LayersStacked
  BY DEF KnownInv, IsSound, LayersStacked
<1> QED
  BY <1>1, Known, PTL

(* No slider and no button leaves the controls, the layer dialogue or LiveAdjuster with
   other adjustments than those in the database (AllControls.cpp, LayerDialog.cpp,
   LiveAdjuster.cpp): for any sliders, values, versions and sizes. *)
THEOREM EveryoneIsTold == Spec => []EveryoneKnowsTheDatabase
<1>1. ASSUME KnownInv PROVE EveryoneKnowsTheDatabase
  <2> DEFINE v == ctl.vsn
  <2>0. /\ IsSound(db) /\ v \in Versions /\ ControlsRight(ctl, db, v) /\ DialogRight(dlg, db, v)
        /\ LiveRight(live, db, v) /\ Count(db, v) \in Nat
    BY <1>1, LayersAreFinite DEF KnownInv
  <2>1. ctl.adjs = ReadRows(db.adj[v]) /\ ctl.sliders = ctl.adjs
    BY <2>0 DEF ControlsRight
  <2>2. dlg.rows = Count(db, v)
    BY <2>0, DialogFields
  <2>3. \A n \in DOMAIN dlg.adjs : n <= Count(db, v) /\ dlg.adjs[n] = LayerAdjustments(db, v, n)
    BY <2>0 DEF DialogRight
  <2>4. dlg.selected > 0 => dlg.sliders = dlg.adjs[dlg.selected]
    BY <2>0 DEF DialogRight
  <2>5. live.all = AllFromDB(db, v)
    <3>1. PICK t, m : live = [version |-> v, all |-> AllFromDB(db, v), target |-> t, mustshow |-> m]
      BY <2>0 DEF LiveRight
    <3> QED
      BY <3>1
  <2> QED
    BY <2>1, <2>2, <2>3, <2>4, <2>5 DEF EveryoneKnowsTheDatabase
<1> QED
  BY <1>1, Known, PTL

(* When everything is at rest, the picture of a version that has no layers is what the
   settings in the database make of the photo (Adjuster.cpp, InterruptableAdjuster.cpp,
   LiveAdjuster.cpp, SlideView.cpp), whichever stages were reused, scaled or interrupted
   and whoever was overtaken on the way: for any photos, settings, sizes and versions.
   It assumes that None is no image and no original, and that the user does not edit
   before the thread has taken up the first original (forceUpdate would not ask it). *)
THEOREM PlainPictureIsAsStored ==
  ASSUME NoneIsNoData, "early" \notin Hasty
  PROVE  Spec => [](~Layered => PictureIsAsStored)
<1>1. Init => PicInv(FALSE)
  BY InitIsRight
<1>2. PicInv(FALSE) /\ KnownInv /\ KnownInv' /\ [Next]_vars => PicInv(FALSE)'
  BY NextIsRight
<1>3. PicInv(FALSE) /\ KnownInv => (~Layered => PictureIsAsStored)
  BY AtRestIsRight
<1>4. QED  BY <1>1, <1>2, <1>3, Known, PTL DEF Spec

(* The same for any number of layers over a base that is adjusted, as long as the image
   that a layer's adjuster makes has the size of its input: otherwise
   AllAdjuster::applyMask gives up and returns the layer alone. *)
THEOREM LayeredPictureIsAsStored ==
  ASSUME NoneIsNoData, "early" \notin Hasty
  PROVE  Spec /\ []SizesAgree => []PictureIsAsStored
<1>1. Init => PicInv(TRUE)
  BY InitIsRight
<1>2. PicInv(TRUE) /\ KnownInv /\ KnownInv' /\ SizesAgree' /\ [Next]_vars => PicInv(TRUE)'
  BY NextIsRight
<1>3. PicInv(TRUE) /\ KnownInv => PictureIsAsStored
  BY AtRestIsRight
<1>4. QED  BY <1>1, <1>2, <1>3, Known, PTL DEF Spec
=============================================================================
