------------------------------- MODULE Strips -------------------------------
(* The tree of strips in the light table: Datestrip (an epoch or a folder     *)
(* with substrips) and Slidestrip (one with slides).  d.strips maps the key   *)
(* of every strip that exists to its state.  Keys: <<"date", start, scale>>;  *)
(* <<"tree", path, 0>>; <<"own", path, 0>>, the slides of the folder itself.  *)
EXTENDS Catalogue

CONSTANTS
    Width,          \* scale |-> the seconds of an epoch; scale 0 is eternity
    MaxDirect,      \* with so many versions an epoch is made of substrips
    Threshold,      \* with more versions a strip of slides is converted
    PerRow,         \* slides in a row of the grid
    Forever         \* later than every capture date

-----------------------------------------------------------------------------
(* Keys and contents.                                                         *)
Finest == Len(Width)
StartFor(t, k) == IF k = 0 THEN 0 ELSE t - (t % Width[k])
EndFor(t, k) == IF k = 0 THEN Forever ELSE t + Width[k]
Top(d) == IF d.byFolder THEN <<"tree", "/", 0>> ELSE <<"date", 0, 0>>
Parent(key) == <<"date", StartFor(key[2], key[3] - 1), key[3] - 1>>
Covers(key, t) == key[2] <= t /\ t < EndFor(key[2], key[3])

Listed(d, key) ==
    CASE key[1] = "date" -> InDateRange(d, key[2], EndFor(key[2], key[3]))
      [] key[1] = "own"  -> InFolder(d, key[2])
      [] key[1] = "tree" -> InTree(d, key[2])

\* A strip and its own strip of slides share a row of expandedfolders.
RowOf(key) == IF key[1] = "own" THEN <<"tree", key[2], 0>> ELSE key

NewStrip(list) ==
    [list |-> list, open |-> FALSE, rebuild |-> FALSE, kids |-> <<>>,
     latent |-> FALSE, coming |-> <<>>, slides |-> <<>>, placed |-> TRUE, header |-> 0]
NewSubstrip(d, key) ==
    NewStrip(~(Cardinality(Listed(d, key)) >= MaxDirect /\ key[3] # Finest))
AddStrip(d, key, s) ==
    [d EXCEPT !.strips = [k \in DOMAIN @ \cup {key} |-> IF k = key THEN s ELSE @[k]]]

RECURSIVE Offspring(_, _)
Offspring(d, key) ==
    {key} \cup UNION {Offspring(d, k) : k \in Range(d.strips[key].kids)}
DropStrips(d, keys) ==
    [d EXCEPT !.strips = Restrict(@, DOMAIN @ \ UNION {Offspring(d, k) : k \in keys})]

\* Nobody is a singleton before it has been built.
IsSingleton(s) ==
    1 = IF ~s.list THEN Len(s.kids) ELSE IF s.latent THEN Len(s.coming) ELSE Len(s.slides)

-----------------------------------------------------------------------------
(* Building, expanding and collapsing.                                        *)
RebuildSlides(d, key) ==
    LET all == VersionsInOrder(Listed(d, key))
        over == key[1] = "date" /\ Len(all) > Threshold /\ key[3] # Finest
    IN [d EXCEPT !.strips[key].latent = TRUE,
                 !.strips[key].coming = IF over THEN SubSeq(all, 1, Threshold) ELSE all,
                 !.overfilled = IF over THEN Append(@, key) ELSE @]

\* The substrips an epoch is to have: those with a version in the filter.
Epochs(d, key) ==
    LET starts == {StartFor(Date(row), key[3] + 1) : row \in Listed(d, key)}
        s == SetToSortSeq(starts, <)
    IN [i \in DOMAIN s |-> <<"date", s[i], key[3] + 1>>]
\* Likewise for a folder: its own slides first, then its subfolders.
Parts(d, key) ==
    LET full(f) == InFolder(d, f) \cup InTreeBelow(d, f) # {}
        subs == SelectSeq(SubFolders[key[2]], full)
    IN (IF InFolder(d, key[2]) # {} THEN << <<"own", key[2], 0>> >> ELSE <<>>)
       \o [i \in DOMAIN subs |-> <<"tree", subs[i], 0>>]
SetKids(d, key, kids) ==
    [DropStrips(d, Range(d.strips[key].kids) \ Range(kids)) EXCEPT !.strips[key].kids = kids]

RECURSIVE Rebuild(_, _), Expand(_, _)
\* Mutant of RebuildByDate: a substrip that exists is not built anew.
RebuildByDateNew(d, key) ==
    LET kids == Epochs(d, key)
        build(e, k) == IF k \in DOMAIN e.strips THEN e
                       ELSE Rebuild(AddStrip(e, k, NewSubstrip(e, k)), k)
    IN FoldLeft(build, SetKids(d, key, kids), kids)
RebuildByDate(d, key) ==
    LET kids == Epochs(d, key)
        build(e, k) == Rebuild(IF k \in DOMAIN e.strips THEN e
                               ELSE AddStrip(e, k, NewSubstrip(e, k)), k)
    IN FoldLeft(build, SetKids(d, key, kids), kids)

\* A strip of the folder's own slides that exists is left as it is.
RebuildByFolder(d, key) ==
    LET kids == Parts(d, key)
        add(e, k) == IF k \in DOMAIN e.strips THEN e ELSE AddStrip(e, k, NewStrip(k[1] = "own"))
        build(e, k) ==
            LET own == k[1] = "own"
                e1 == IF own /\ k \in DOMAIN e.strips THEN e ELSE Rebuild(add(e, k), k)
            IN IF own /\ InTreeBelow(d, key[2]) = {} THEN Expand(e1, k) ELSE e1
    IN FoldLeft(build, SetKids(d, key, kids), kids)

SetHeaderID(d, key, v) == [d EXCEPT !.strips[key].header = v]
\* rebuildContents: a collapsed strip only notes that it has to be rebuilt.
Rebuild(d, key) ==
    LET s == d.strips[key]
        d1 == SetHeaderID([d EXCEPT !.strips[key].rebuild = ~s.open], key, 0)
    IN CASE ~s.open -> d1
         [] s.open /\ s.list -> RebuildSlides(d1, key)
         [] s.open /\ ~s.list /\ key[1] = "date" -> RebuildByDate(d1, key)
         [] s.open /\ ~s.list /\ key[1] = "tree" -> RebuildByFolder(d1, key)

\* A strip whose slides are yet to be made is not rebuilt.
ExpandSlides(d, key) ==
    IF d.strips[key].latent THEN d ELSE [d EXCEPT !.strips[key].placed = TRUE]
\* An only child is expanded too, as are children with one version or child.
ExpandSubstrips(d, key) ==
    LET kids == d.strips[key].kids
        opened == IF key[1] = "tree" THEN SelectSeq(kids, LAMBDA k : k[1] = "own")
                  ELSE IF Len(kids) = 1 THEN kids
                  ELSE SelectSeq(kids, LAMBDA k : IsSingleton(d.strips[k]))
    IN FoldLeft(Expand, d, opened)
Expand(d, key) ==
    LET s == d.strips[key]
        d1 == [d EXCEPT !.strips[key].open = TRUE, !.expanded = @ \cup {RowOf(key)}]
        d2 == IF s.rebuild /\ ~s.latent THEN Rebuild(d1, key) ELSE d1
    IN CASE s.open -> d
         [] ~s.open /\ s.list -> ExpandSlides(d2, key)
         [] ~s.open /\ ~s.list -> ExpandSubstrips(d2, key)

\* Mutant of Collapse: the rows of all epochs that start there are deleted.
RECURSIVE CollapseByStart(_, _)
CollapseByStart(d, key) ==
    IF ~d.strips[key].open THEN d
    ELSE FoldLeft(CollapseByStart,
                  [d EXCEPT !.strips[key].open = FALSE,
                            !.expanded = {r \in @ : r[1] # key[1] \/ r[2] # key[2]}],
                  d.strips[key].kids)
CollapseOne(d, key) ==
    [d EXCEPT !.strips[key].open = FALSE, !.expanded = @ \ {RowOf(key)}]
RECURSIVE Collapse(_, _)
Collapse(d, key) ==
    IF ~d.strips[key].open THEN d
    ELSE FoldLeft(Collapse, CollapseOne(d, key), d.strips[key].kids)

RECURSIVE ExpandAll(_, _)
ExpandAll(d, key) ==
    LET d1 == Expand(d, key) IN FoldLeft(ExpandAll, d1, d1.strips[key].kids)

\* Both trees are made when the program starts; rows are taken coarse first.
Tops == {<<"date", 0, 0>>, <<"tree", "/", 0>>}
Coarser(a, b) ==
    \/ a[1] = "date" /\ a[3] < b[3]
    \/ a[1] = "date" /\ a[3] = b[3] /\ a[2] < b[2]
    \/ a[1] = "tree" /\ Rank(a[2]) < Rank(b[2])
BuildTree(d, top) ==
    LET rows == SetToSortSeq({key \in d.expanded : key[1] = top[1]}, Coarser)
        restore(e, key) == IF key \in DOMAIN e.strips THEN Expand(e, key) ELSE e
    IN FoldLeft(restore, Rebuild(d, top), <<top>> \o rows)
BuildStrips(d) ==
    LET bare == [d EXCEPT !.strips = [top \in Tops |-> NewStrip(FALSE)], !.overfilled = <<>>]
    IN FoldLeft(BuildTree, bare, <<<<"date", 0, 0>>, <<"tree", "/", 0>>>>)

-----------------------------------------------------------------------------
(* Slides.                                                                    *)
\* The latent versions become slides; those of a collapsed strip get no place.
Instantiate(d, key) ==
    IF ~d.strips[key].latent THEN d
    ELSE [d EXCEPT !.strips[key].latent = FALSE, !.strips[key].coming = <<>>,
                   !.strips[key].slides = d.strips[key].coming,
                   !.strips[key].placed = d.strips[key].open]

\* slideByVersion: the first strip that has, or is to have, a slide for v.
RECURSIVE Holders(_, _, _)
Holders(d, key, v) ==
    LET s == d.strips[key]
        has == SelectSeq(s.kids, LAMBDA k : Holders(d, k, v) # {})
    IN CASE s.list -> IF v \in Range(s.coming) \cup Range(s.slides) THEN {key} ELSE {}
         [] ~s.list /\ (s.rebuild \/ ~s.open \/ has = <<>>) -> {}
         [] OTHER -> Holders(d, Head(has), v)
TouchIn(d, key, v) ==
    LET h == {k \in Holders(d, key, v) : v \in Range(d.strips[k].coming)}
    IN IF h = {} THEN d ELSE Instantiate(d, CHOOSE k \in h : TRUE)
Touch(d, v) == TouchIn(d, Top(d), v)

RECURSIVE Visible(_, _)
Visible(d, key) ==
    {key} \cup IF d.strips[key].open
               THEN UNION {Visible(d, k) : k \in Range(d.strips[key].kids)} ELSE {}

HeaderFor(d, key) ==
    IF key[1] = "date" THEN FirstVersion(Listed(d, key)) ELSE FirstVersionInTree(d, key[2])
\* Painting a strip makes its slides, or finds the image of a collapsed one.
Paint(d, key) ==
    LET s == d.strips[key]
        d1 == IF ~s.open /\ s.header = 0 THEN SetHeaderID(d, key, HeaderFor(d, key)) ELSE d
    IN IF s.list THEN Instantiate(d1, key) ELSE d1
Unpainted(d) == {k \in Visible(d, Top(d)) : Paint(d, k) # d}

\* setArrangement lays the strips of the view out anew; a collapsed one loses
\* the places of its slides.
Arrange(d, arr) ==
    LET own == Offspring(d, Top(d))
    IN [d EXCEPT !.arr = arr,
                 !.strips = [k \in DOMAIN @ |->
                     [@[k] EXCEPT !.placed = @ /\ (k \notin own \/ d.strips[k].open)]]]

-----------------------------------------------------------------------------
(* Moving from slide to slide.                                                *)
IndexOf(s, v) == CHOOSE i \in DOMAIN s : s[i] = v
Columns(d, n) ==
    CASE d.arr = "Horizontal" -> n
      [] d.arr = "Vertical" -> 1
      [] d.arr = "Grid" -> IF n < PerRow THEN n ELSE PerRow
Back(dir) == dir \in {"left", "up"}
Along(d) == IF d.arr = "Vertical" THEN {"up", "down"} ELSE {"left", "right"}

\* Mutant of Neighbour: the last of a row of the grid has none to its right.
NeighbourInRow(d, s, v, dir) ==
    LET i == IndexOf(s.slides, v)
        c == Columns(d, Len(s.slides))
    IN CASE ~s.placed \/ v \notin Range(s.slides) -> 0
         [] OTHER -> IF Back(dir) THEN IF i % c = 1 \/ c = 1 THEN 0 ELSE s.slides[i - 1]
                     ELSE IF i % c = 0 \/ i = Len(s.slides) THEN 0 ELSE s.slides[i + 1]
\* The neighbour in one strip; going down may end in a shorter last row.
Neighbour(d, s, v, dir) ==
    LET i == IndexOf(s.slides, v)
        n == Len(s.slides)
        c == Columns(d, n)
        step == IF dir \in {"left", "right"} THEN 1 ELSE c
        rowBelow == ((i - 1) \div c + 1) * c < n
    IN CASE ~s.placed \/ v \notin Range(s.slides) -> 0
         [] s.placed /\ v \in Range(s.slides) /\ Back(dir) -> IF i > step THEN s.slides[i - step] ELSE 0
         [] s.placed /\ v \in Range(s.slides) /\ ~Back(dir) ->
              IF i + step <= n THEN s.slides[i + step]
              ELSE IF d.arr = "Grid" /\ dir = "down" /\ rowBelow THEN Last(s.slides) ELSE 0

FirstNonzero(s) == LET t == SelectSeq(s, LAMBDA v : v # 0) IN IF t = <<>> THEN 0 ELSE Head(t)
EndSlide(s, back) ==
    IF s.slides = <<>> THEN 0 ELSE IF back THEN Last(s.slides) ELSE Head(s.slides)
\* firstExpandedVersion and lastExpandedVersion: of slides that have been made.
RECURSIVE EndVersion(_, _, _)
EndVersion(d, key, back) ==
    LET s == d.strips[key]
        kids == IF back THEN Reverse(s.kids) ELSE s.kids
    IN CASE ~s.open -> 0
         [] s.open /\ s.list -> EndSlide(s, back)
         [] s.open /\ ~s.list -> FirstNonzero([i \in DOMAIN kids |-> EndVersion(d, kids[i], back)])

\* The slide of the target's row in the column of v, or the last before it.
InColumn(d, v, target) ==
    LET slidesOf(u) == d.strips[CHOOSE k \in Holders(d, Top(d), u) : TRUE].slides
        col == (IndexOf(slidesOf(v), v) - 1) % Columns(d, Len(slidesOf(v)))
        s == slidesOf(target)
        c == Columns(d, Len(s))
        row == (IndexOf(s, target) - 1) \div c
    IN s[Min({row * c + col + 1, row * c + c, Len(s)})]

RECURSIVE VersionAt(_, _, _, _)
VersionAt(d, key, v, dir) ==
    LET s == d.strips[key]
        in == {i \in DOMAIN s.kids : Holders(d, s.kids[i], v) # {}}
        k == Min(in)
        inside == VersionAt(d, s.kids[k], v, dir)
        others == IF Back(dir) THEN Reverse(SubSeq(s.kids, 1, k - 1))
                  ELSE SubSeq(s.kids, k + 1, Len(s.kids))
        next == FirstNonzero([i \in DOMAIN others |-> EndVersion(d, others[i], Back(dir))])
    IN CASE s.list -> Neighbour(d, s, v, dir)
         [] ~s.list /\ (s.rebuild \/ ~s.open \/ in = {}) -> 0
         [] OTHER -> IF inside # 0 THEN inside
                     ELSE IF dir \in Along(d) THEN next
                     ELSE IF d.arr = "Grid" /\ next # 0 THEN InColumn(d, v, next) ELSE 0

-----------------------------------------------------------------------------
(* A strip of slides with too many of them becomes one of substrips.          *)
RECURSIVE Deepest(_, _, _)
Deepest(d, key, t) ==
    LET kids == {k \in Range(d.strips[key].kids) : Covers(k, t)}
    IN IF ~Covers(key, t) THEN {}
       ELSE IF kids = {} THEN {key} ELSE Deepest(d, CHOOSE k \in kids : TRUE, t)
RECURSIVE ExpandWithParents(_, _)
ExpandWithParents(d, key) ==
    LET d1 == Expand(d, key) IN IF key = Top(d) THEN d1 ELSE ExpandWithParents(d1, Parent(key))

\* Afterwards the current version is made visible if this strip had it.
ConvertStrip(d, key) ==
    LET parent == Parent(key)
        d1 == Rebuild(AddStrip(DropStrips(d, {key}), key, NewSubstrip(d, key)), key)
        d2 == IF d.strips[key].open THEN Expand(d1, key) ELSE d1
        v == Current(d)
        there == Deepest(d2, parent, DateOfVersion(d2, v))
        d3 == IF Holders(d2, parent, v) # {} \/ there = {} THEN d2
              ELSE ExpandWithParents(d2, CHOOSE k \in there : TRUE)
    IN CASE parent \notin DOMAIN d.strips \/ key \notin DOMAIN d.strips -> d
         [] OTHER -> IF v = 0 THEN d2 ELSE TouchIn(d3, parent, v)
=============================================================================
