------------------------------ MODULE Tagging ------------------------------
(* What the user does to tags: the panel with the tags of the selection and   *)
(* its editor, the tag manager, and the dialogue of the filter with the tag   *)
(* manager it opens; and the scanner, which adds and removes versions.        *)
EXTENDS Filter

CONSTANTS
    Catalogues,     \* tables as the program may find them
    Texts,          \* texts the user types as a tag
    Turns,          \* controls of the filter dialogue and values they are given
    Found,          \* attributes of a photo that the scanner may find
    MaxSteps        \* bound on the actions taken

TagTexts == [deep : BOOLEAN, words : Seq([name : Names, exact : BOOLEAN]) \ {<<>>}]

\* The tables as the program leaves them: a tree of tags, rows that apply tags
\* that are there, and rows of the filter under the keys it has.
IsTree(tags) ==
    /\ IsFiniteSet(Ids(tags)) /\ Ids(tags) \subseteq Nat \ {0}
    /\ \A t \in Ids(tags) :
          /\ Name(tags, t) \in Names
          /\ Parent(tags, t) \in Ids(tags) \cup {0} /\ Parent(tags, t) < t
    /\ \A t, u \in Ids(tags) :
          Name(tags, t) = Name(tags, u) /\ Parent(tags, t) = Parent(tags, u) => t = u
    /\ \E t \in Ids(tags) : Name(tags, t) = RootName /\ Parent(tags, t) = 0
IsDesk(d) ==
    d = [tags |-> d.tags, applied |-> d.applied, versions |-> d.versions,
         selection |-> d.selection, current |-> d.current, rows |-> d.rows, filter |-> d.filter]
IsSound(d) ==
    /\ IsDesk(d) /\ IsTree(d.tags)
    /\ \A a \in d.applied : a[2] \in Ids(d.tags)
    /\ \A row \in d.rows.single : row[1] \in SingleKeys
    /\ d.rows.tags \in Seq(TagTexts)

ASSUME CataloguesAssumption == \A d \in Catalogues : IsSound(d)
ASSUME TextsAssumption == Texts \subseteq TagTexts
ASSUME FoundAssumption == \A photo \in Found : photo.collection \in Names
ASSUME TurnsAssumption ==
    \A turn \in Turns : /\ "tags" \notin DOMAIN turn
                        /\ "st" \in DOMAIN turn => turn.st \subseteq Statuses

VARIABLES
    desk,           \* tables of the catalogue and the session
    panel,          \* the list of applied tags and its editor
    manager,        \* the tag manager of the panel, <<>> while it is hidden
    dialog,         \* the filter dialogue, <<>> while it is hidden
    up,             \* the program has not been aborted
    steps           \* actions taken, bounded by MaxSteps

vars == <<desk, panel, manager, dialog, up, steps>>

-----------------------------------------------------------------------------
(* The tag manager: lists side by side, each of the children of the tag that  *)
(* is chosen in the one before.  Lists beyond the level are hidden.           *)
Chosen(b, i) == IF i \in DOMAIN b.lists THEN b.lists[i].chosen ELSE 0
LoadList(tags, root) == [items |-> Children(tags, root), chosen |-> 0]
Rebuild(tags, b, lvl) ==
    LET level == Max({0} \cup {l \in 1 .. lvl : Chosen(b, l) # 0})
        list == LoadList(tags, IF level = 0 THEN 0 ELSE Chosen(b, level))
    IN [level |-> level,
        lists |-> IF level + 1 \in DOMAIN b.lists THEN [b.lists EXCEPT ![level + 1] = list]
                  ELSE Append(b.lists, list)]
NewManager(tags) == Rebuild(tags, [level |-> 0, lists |-> <<>>], 0)
UpdateSelection(tags, b, i, t) == Rebuild(tags, [b EXCEPT !.lists[i].chosen = t], i)
\* A tag is offered if the list to its right has come up empty.
TerminalTag(b) ==
    IF b.level > 0 /\ b.lists[b.level + 1].items = {} THEN Chosen(b, b.level) ELSE 0
Items(b) ==
    UNION {{<<i, t>> : t \in b.lists[i].items} : i \in 1 .. b.level + 1}

-----------------------------------------------------------------------------
(* The panel of applied tags.                                                 *)
Relist(d) == [tags |-> AppliedToAny(d), all |-> AppliedToAll(d), text |-> <<>>]
Tick == steps < MaxSteps /\ steps' = steps + 1
Idle == up /\ dialog = <<>>
\* The panel is disabled without a current version; the manager is not.
ListEnabled == Idle /\ desk.current # 0

Commit(d) ==
    /\ desk' = d /\ panel' = Relist(d)
    /\ UNCHANGED up

\* A row for a version that is gone is refused for its foreign key: the program
\* stops, with the rows before it stored unless they are of one transaction.
Abort(d) ==
    /\ desk' = d /\ up' = FALSE
    /\ UNCHANGED panel
Gone(d) == d.selection \ DOMAIN d.versions
ApplyToSelection(t) ==
    \/ Gone(desk) = {} /\ Commit(ApplyTag(desk, desk.selection, t))
    \/ Gone(desk) # {} /\ Abort(desk)

Type ==
    /\ Tick /\ ListEnabled /\ \E text \in Texts : panel' = [panel EXCEPT !.text = <<text>>]
    /\ UNCHANGED <<desk, manager, dialog, up>>
Escape ==
    /\ Tick /\ ListEnabled /\ panel.text # <<>> /\ panel' = [panel EXCEPT !.text = <<>>]
    /\ UNCHANGED <<desk, manager, dialog, up>>

\* What the colour of the text tells: green, dark red, or neither.
IsUnique(tags, text) == Cardinality(SmartFindAll(tags, text)) = 1
IsNew(tags, text) == SmartFindAll(tags, text) = {} /\ CouldBeNew(tags, text)
TagFor(tags, text) ==
    CASE SmartFindAll(tags, text) = {} -> Define(tags, text)
      [] IsUnique(tags, text) -> [tags |-> tags, tag |-> SmartFind(tags, text)]
      [] OTHER -> [tags |-> tags, tag |-> 0]

\* Each version has a transaction of its own: some may be done before one fails.
EditorAction ==
    /\ Tick /\ ListEnabled /\ panel.text # <<>>
    /\ LET made == TagFor(desk.tags, panel.text[1])
           grown == [desk EXCEPT !.tags = made.tags]
       IN /\ made.tag # 0
          /\ \/ Gone(desk) = {} /\ Commit(ApplyTag(grown, desk.selection, made.tag))
             \/ /\ Gone(desk) # {}
                /\ \E some \in SUBSET (desk.selection \ Gone(desk)) :
                      Abort(ApplyTag(grown, some, made.tag))
    /\ UNCHANGED <<manager, dialog>>

\* A plus is there only on a tag that is shown as not applied to all.
PressAdd ==
    /\ Tick /\ ListEnabled /\ \E t \in panel.tags \ panel.all : ApplyToSelection(t)
    /\ UNCHANGED <<manager, dialog>>
PressRemove ==
    /\ Tick /\ ListEnabled /\ \E t \in panel.tags : Commit(RemoveTag(desk, desk.selection, t))
    /\ UNCHANGED <<manager, dialog>>

\* The manager the panel opens is one that only selects: it is given a window
\* where it asks whether it is to be read-only.
ClickBrowse ==
    /\ Tick /\ ListEnabled /\ manager' = <<NewManager(desk.tags)>>
    /\ UNCHANGED <<desk, panel, dialog, up>>
Choose ==
    /\ Tick /\ Idle /\ manager # <<>>
    /\ \E c \in Items(manager[1]) :
          manager' = <<UpdateSelection(desk.tags, manager[1], c[1], c[2])>>
    /\ UNCHANGED <<desk, panel, dialog, up>>
ClickApply ==
    /\ Tick /\ Idle /\ manager # <<>> /\ TerminalTag(manager[1]) # 0
    /\ ApplyToSelection(TerminalTag(manager[1])) /\ manager' = <<>>
    /\ UNCHANGED dialog
ClickClose ==
    /\ Tick /\ Idle /\ manager # <<>> /\ manager' = <<>>
    /\ UNCHANGED <<desk, panel, dialog, up>>

-----------------------------------------------------------------------------
(* The selection, as the light table changes it.                              *)
\* Slides tell the panel; the headers of strips and the background do not.
SelectSlides ==
    /\ Tick /\ Idle
    /\ \E vs \in SUBSET desk.filter, cur \in desk.filter \cup {0} :
          /\ cur \in vs \/ cur = 0
          /\ desk' = [desk EXCEPT !.selection = vs, !.current = cur]
          /\ panel' = Relist(desk')
    /\ UNCHANGED <<manager, dialog, up>>
SelectAll ==
    /\ Tick /\ Idle /\ desk.selection # desk.filter
    /\ desk' = [desk EXCEPT !.selection = @ \cup desk.filter]
    /\ UNCHANGED <<panel, manager, dialog, up>>

ApplyFilterSettings(d) ==
    LET vs == Passing(d, LoadFromDb(d.rows))
    IN [d EXCEPT !.filter = vs, !.selection = @ \cap vs]
\* The current version, or none, for a filter that has lost it goes on to one
\* that is near, which becomes the selection unless it is part of it.
SelectNearest(d) ==
    {[d EXCEPT !.current = v, !.selection = IF v \in @ \cup {0} THEN @ ELSE {v}] :
        v \in IF d.current \in d.filter THEN {d.current}
              ELSE IF d.filter = {} THEN {0} ELSE d.filter}

-----------------------------------------------------------------------------
(* The dialogue of the filter blocks the window; its own tag manager blocks   *)
(* the dialogue.                                                              *)
ShowDialog ==
    /\ Tick /\ Idle /\ dialog' = <<[boxes |-> Populate(desk, LoadFromDb(desk.rows)), browser |-> <<>>]>>
    /\ UNCHANGED <<desk, panel, manager, up>>
InDialog == up /\ dialog # <<>> /\ dialog[1].browser = <<>>
SetBoxes(boxes) == dialog' = <<[dialog[1] EXCEPT !.boxes = boxes]>>

Turned(boxes, turn) ==
    LET turned == [k \in DOMAIN boxes |-> IF k \in DOMAIN turn THEN turn[k] ELSE boxes[k]]
    IN CASE "cammake" \in DOMAIN turn -> SetMaker(desk, turned)
         [] "cammodel" \in DOMAIN turn -> SetCamera(desk, turned)
         [] OTHER -> turned
\* Boxes have a list of what there is; the tree of locations has all folders.
Offers(d, boxes) == [Populate(d, boxes) EXCEPT !.fl = boxes.fl] = boxes
Turn ==
    /\ Tick /\ InDialog
    /\ LET boxes == dialog[1].boxes IN
       \/ \E turn \in Turns :
             Offers(desk, Turned(boxes, turn)) /\ SetBoxes(Turned(boxes, turn))
       \/ SetBoxes(SelectAllLabels(boxes))
       \/ \E text \in Texts : SetBoxes([boxes EXCEPT !.hastags = TRUE, !.tags = Append(@, text)])
    /\ UNCHANGED <<desk, panel, manager, up>>

BrowseTags ==
    /\ Tick /\ InDialog /\ dialog' = <<[dialog[1] EXCEPT !.browser = <<NewManager(desk.tags)>>]>>
    /\ UNCHANGED <<desk, panel, manager, up>>
Browsing == up /\ dialog # <<>> /\ dialog[1].browser # <<>>
ChooseInDialog ==
    /\ Tick /\ Browsing
    /\ \E c \in Items(dialog[1].browser[1]) :
          dialog' = <<[dialog[1] EXCEPT !.browser =
                         <<UpdateSelection(desk.tags, dialog[1].browser[1], c[1], c[2])>>]>>
    /\ UNCHANGED <<desk, panel, manager, up>>
Accept ==
    /\ Tick /\ Browsing
    /\ LET t == TerminalTag(dialog[1].browser[1]) IN
       /\ t # 0
       /\ dialog' = <<[boxes |-> [dialog[1].boxes EXCEPT !.tags = Append(@, SmartName(desk.tags, t))],
                       browser |-> <<>>]>>
    /\ UNCHANGED <<desk, panel, manager, up>>

ClickOK ==
    /\ Tick /\ InDialog /\ dialog' = <<>>
    /\ \E d \in SelectNearest(ApplyFilterSettings(
                   [desk EXCEPT !.rows = SaveToDb(Extract(dialog[1].boxes))])) :
          desk' = d /\ panel' = Relist(d)
    /\ UNCHANGED <<manager, up>>
\* Reset stores the default and shows it; the light table is not told.
ClickReset ==
    /\ Tick /\ InDialog
    /\ desk' = [desk EXCEPT !.rows = SaveToDb(Default)]
    /\ SetBoxes(Populate(desk, LoadFromDb(desk'.rows)))
    /\ UNCHANGED <<panel, manager, up>>
ClickCancel ==
    /\ Tick /\ up /\ dialog # <<>>
    /\ dialog' = IF dialog[1].browser = <<>> THEN <<>> ELSE <<[dialog[1] EXCEPT !.browser = <<>>]>>
    /\ UNCHANGED <<desk, panel, manager, up>>

-----------------------------------------------------------------------------
(* The scanner adds a photo with the default tag of its tree, for which the   *)
(* dialogue that adds the tree has made sure that there is a collection, or   *)
(* finds that one has gone.  The strips are rebuilt when it has told of it.   *)
Scan ==
    /\ Tick /\ up
    /\ \/ \E photo \in Found :
             LET made == EnsureCollection(desk.tags, photo.collection)
                 v == Max({0} \cup DOMAIN desk.versions) + 1
                 versions == [u \in DOMAIN desk.versions \cup {v} |->
                                IF u = v THEN photo ELSE desk.versions[u]]
             IN desk' = ApplyTag([desk EXCEPT !.tags = made.tags, !.versions = versions], {v}, made.tag)
       \/ \E v \in DOMAIN desk.versions :
             /\ v # Max(DOMAIN desk.versions)
             /\ desk' = [desk EXCEPT !.versions = Restrict(@, DOMAIN @ \ {v}),
                                     !.applied = {a \in @ : a[1] # v},
                                     !.current = IF @ = v THEN 0 ELSE @]
    /\ UNCHANGED <<panel, manager, dialog, up>>
UpdatedBatch ==
    /\ Tick /\ up /\ desk # ApplyFilterSettings(desk)
    /\ desk' = ApplyFilterSettings(desk)
    /\ UNCHANGED <<panel, manager, dialog, up>>

Init ==
    /\ desk \in Catalogues /\ panel = Relist(desk)
    /\ manager = <<>> /\ dialog = <<>> /\ up = TRUE /\ steps = 0
Next ==
    \/ Type \/ Escape \/ EditorAction \/ PressAdd \/ PressRemove
    \/ ClickBrowse \/ Choose \/ ClickApply \/ ClickClose
    \/ SelectSlides \/ SelectAll
    \/ ShowDialog \/ Turn \/ BrowseTags \/ ChooseInDialog \/ Accept
    \/ ClickOK \/ ClickReset \/ ClickCancel
    \/ Scan \/ UpdatedBatch
Spec == Init /\ [][Next]_vars

-----------------------------------------------------------------------------
(* Properties.                                                                *)
\* A word that finds what it begins and is, further on, the name of a tag that
\* is to be defined: from then on it finds that tag and nothing longer.
TakesAway(tags, words) ==
    \E i \in 1 .. Known(tags, words), n \in Known(tags, words) + 1 .. Len(words) :
        /\ ~words[i].exact /\ Lower[words[i].name] = Lower[words[n].name]
        /\ FindAll(tags, words[i].name) = {}

\* Enter does what the colour of the text says: a text that is unique or truly
\* new ends up applied to every version selected, as a tag that the same text
\* then finds, unless it takes away its own abbreviation; any other text leaves
\* tags and versions alone.
EnterApplies ==
    [][EditorAction /\ up' =>
          LET text == panel.text[1]
              found == SmartFindAll(desk'.tags, text)
          IN /\ IsUnique(desk.tags, text) \/ IsNew(desk.tags, text)
             /\ IsUnique(desk.tags, text) => desk'.tags = desk.tags /\ found = SmartFindAll(desk.tags, text)
             /\ IsUnique(desk.tags, text) \/ ~TakesAway(desk.tags, text.words) =>
                   /\ Cardinality(found) = 1
                   /\ \A v \in desk.selection : found \subseteq Applied(desk', v)
                   /\ \A v \in DOMAIN desk.versions :
                         Applied(desk', v) \ Applied(desk, v) \subseteq found]_vars

\* The name under which a tag is shown, and under which the filter is asked for
\* it, finds that tag and no other, unless it is or lies below a root tag whose
\* name occurs elsewhere too, or a word of it is the name of a tag in another
\* spelling: a collection is made beside one that differs in case only.
Respelt(tags, words) ==
    \E i \in DOMAIN words, t \in Ids(tags) :
        Lower[Name(tags, t)] = Lower[words[i].name] /\ Name(tags, t) # words[i].name
NameFinds(tags, t) == SmartFindAll(tags, SmartName(tags, t)) = {t}
NamesFindTags ==
    \A t \in Ids(desk.tags) :
        LET words == SmartName(desk.tags, t).words
        IN words[1].name = EmptyWord.name \/ Respelt(desk.tags, words) \/ NameFinds(desk.tags, t)

\* What OK stores is what the dialogue showed, and what it will show when it is
\* opened again, except for a location below a root, which it cannot show, and
\* capitals in tags; and the versions found are those that have what the boxes
\* say, the tags as they were typed.  This is as long as the catalogue still has
\* what the boxes offered.
ReopensAsLeft ==
    [][ClickOK /\ Offers(desk, dialog[1].boxes) =>
          LET boxes == dialog[1].boxes
              again == Populate(desk', LoadFromDb(desk'.rows))
          IN /\ again = [Extract(boxes) EXCEPT !.fl = Offered(@, Roots)]
             /\ desk'.filter = Passing(desk', Located(boxes))]_vars
=============================================================================
