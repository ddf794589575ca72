------------------------------- MODULE Filter -------------------------------
(* The filter: its members, the versions that its clauses let pass, the rows  *)
(* it is stored as, and the dialogue that edits it.                           *)
EXTENDS Tags

CONSTANTS
    Inside,         \* pairs of folders of which the first lies below the second
    Roots,          \* folders without a parent
    Cameras,        \* [make, model] of the cameras of the catalogue
    Lenses,         \* names of its lenses
    Numbers,        \* those of them that are numbers
    MaxListed,      \* how many models or lenses are listed without a make or model
    Statuses,       \* values of acceptreject
    LastDay         \* the end of this year

\* The members; statuses and labels are the sets of those that are on.
Default ==
    [hascol |-> FALSE, col |-> "", hascl |-> FALSE, cl |-> {},
     hassr |-> FALSE, minsr |-> 0, maxsr |-> 5, hasst |-> TRUE, st |-> Statuses \ {"rejected"},
     hascam |-> FALSE, cammake |-> "", cammodel |-> "", camlens |-> "",
     hasdr |-> FALSE, startdate |-> 0, enddate |-> LastDay,
     hasfl |-> FALSE, fl |-> "", hastags |-> FALSE, tags |-> <<>>]

-----------------------------------------------------------------------------
(* The clauses, each of a version with its attributes.                        *)
CollectionClause(d, f, v) ==
    IF f.col = "" THEN Applied(d, v) \cap Children(d.tags, CollectionRoot(d.tags)) = {}
    ELSE Applied(d, v) \cap FindCollection(d.tags, f.col) # {}
ColorLabelClause(d, f, v) == d.versions[v].label \in f.cl
\* The bounds themselves are left out, unless they are the least and the most.
StarRatingClause(d, f, v) ==
    /\ f.minsr > 0 => d.versions[v].stars > f.minsr
    /\ f.maxsr < 5 => d.versions[v].stars < f.maxsr
StatusClause(d, f, v) == d.versions[v].status \in f.st
CameraClause(d, f, v) ==
    LET cam == d.versions[v].camera IN
    /\ f.cammake = "" \/ cam.make = f.cammake
    /\ f.cammodel = "" \/ cam.model = f.cammodel
    /\ f.camlens = "" \/ d.versions[v].lens = f.camlens
DateRangeClause(d, f, v) == d.versions[v].day \in f.startdate .. f.enddate
FileLocationClause(d, f, v) ==
    LET folder == d.versions[v].folder IN folder = f.fl \/ <<folder, f.fl>> \in Inside
\* One of the tags that each text may mean.
TagsClause(d, f, v) ==
    \A i \in DOMAIN f.tags : Applied(d, v) \cap SmartFindAll(d.tags, f.tags[i]) # {}

Passes(d, f, v) ==
    /\ f.hascol => CollectionClause(d, f, v)
    /\ f.hascl => ColorLabelClause(d, f, v)
    /\ f.hassr => StarRatingClause(d, f, v)
    /\ f.hasst => StatusClause(d, f, v)
    /\ f.hascam => CameraClause(d, f, v)
    /\ f.hasdr => DateRangeClause(d, f, v)
    /\ f.hasfl => FileLocationClause(d, f, v)
    /\ f.hastags => TagsClause(d, f, v)
Passing(d, f) == {v \in DOMAIN d.versions : Passes(d, f, v)}

-----------------------------------------------------------------------------
(* Rows of filtersettings: a key may have several, and what has none keeps    *)
(* its default.                                                               *)
SingleKeys == DOMAIN Default \ {"cl", "st", "tags"}
SaveToDb(f) ==
    [single |-> {<<k, f[k]>> : k \in SingleKeys},
     labels |-> f.cl,
     statuses |-> [s \in Statuses |-> s \in f.st],
     tags |-> f.tags]
NoRows == [single |-> {}, labels |-> {}, statuses |-> <<>>, tags |-> <<>>]
RowOf(rows, k) == (CHOOSE row \in rows.single : row[1] = k)[2]
StatusesOf(rows) ==
    {s \in Statuses : IF rows.statuses = <<>> THEN s \in Default.st ELSE rows.statuses[s]}
\* Mutant of LoadFromDb: the labels are not read.
LoadUnlabelled(rows) ==
    [k \in DOMAIN Default |->
        CASE k \in {row[1] : row \in rows.single} -> RowOf(rows, k)
          [] k = "st" -> StatusesOf(rows)
          [] k = "tags" -> rows.tags
          [] OTHER -> Default[k]]
LoadFromDb(rows) ==
    [k \in DOMAIN Default |->
        CASE k \in {row[1] : row \in rows.single} -> RowOf(rows, k)
          [] k = "cl" -> rows.labels
          [] k = "st" -> StatusesOf(rows)
          [] k = "tags" -> rows.tags
          [] OTHER -> Default[k]]

-----------------------------------------------------------------------------
(* The dialogue: what its boxes offer, what they show and what is read back.  *)
Makes == {c.make : c \in Cameras} \ {""}
Models(make) ==
    LET models == {c.model : c \in {b \in Cameras : make = "" \/ b.make = make}} \ {""}
    IN IF make = "" /\ Cardinality(models) > MaxListed THEN {} ELSE models
\* Without make and model all lenses; else those photos were taken with.
LensesOf(d, make, model) ==
    LET taken == {d.versions[v].lens : v \in {u \in DOMAIN d.versions :
                     /\ make = "" \/ d.versions[u].camera.make = make
                     /\ model = "" \/ d.versions[u].camera.model = model}} \ {""}
        lenses == (IF make = "" /\ model = "" THEN Lenses ELSE taken) \ Numbers
    IN IF model = "" /\ Cardinality(lenses) > MaxListed THEN {} ELSE lenses
Offered(x, offers) == IF x \in offers THEN x ELSE ""

\* The location is looked for among the roots only.
Populate(d, f) ==
    [f EXCEPT !.col = Offered(@, Collections(d.tags)),
              !.cammake = Offered(@, Makes),
              !.cammodel = Offered(@, Models(f.cammake)),
              !.camlens = Offered(@, LensesOf(d, f.cammake, f.cammodel)),
              !.fl = Offered(@, Roots)]
\* A clause is set, with all that its boxes say, and unset if it is not checked.
Composed(boxes, located) == [boxes EXCEPT !.hasfl = @ /\ located]
\* Without a folder chosen the location is off.  What is typed as a tag gets a
\* capital if it has none; the dot of an exact word stays.
Located(boxes) == Composed(boxes, boxes.fl # "")
NormalText(text) ==
    IF \A n \in DOMAIN text.words : Lower[text.words[n].name] = text.words[n].name
    THEN [text EXCEPT !.words[1].name = Capital[@]] ELSE text
NormalTexts(texts) == [n \in DOMAIN texts |-> NormalText(texts[n])]
Extract(boxes) == [Located(boxes) EXCEPT !.tags = NormalTexts(@)]

\* A make leaves of model and lens what it has, and a model of the lens.
SetCamera(d, boxes) == [boxes EXCEPT !.camlens = Offered(@, LensesOf(d, boxes.cammake, boxes.cammodel))]
SetMaker(d, boxes) == SetCamera(d, [boxes EXCEPT !.cammodel = Offered(@, Models(boxes.cammake))])
SelectAllLabels(boxes) ==
    LET colours == 1 .. 5 IN [boxes EXCEPT !.cl = IF colours \subseteq @ THEN {} ELSE colours]
=============================================================================
