-------------------------------- MODULE Tags --------------------------------
(* The tree of tags, what is applied to versions, and how a typed text finds  *)
(* or defines a tag.  What is typed finds a name in any case; what is looked  *)
(* for under a given parent is compared as it is.  A word of a text is a      *)
(* name, and is exact if a dot or a space ends it.                            *)
EXTENDS Integers, Sequences, FiniteSets, FiniteSetsExt, Functions

CONSTANTS
    Names,          \* of tags, as they are stored or typed
    Lower,          \* a name in lower case
    Capital,        \* a name with its first letter in upper case
    Abbreviates     \* pairs of names in lower case of which the first begins the second

\* Collections are the children of the root "{}".
RootName == "{}"

ASSUME NamesAssumption ==
    /\ {"", RootName} \subseteq Names
    /\ Lower \in [Names -> Names] /\ Capital \in [Names -> Names]
    /\ \A n \in Names : Lower[Capital[n]] = Lower[n]

Ids(tags) == DOMAIN tags
Name(tags, t) == tags[t].name
Parent(tags, t) == tags[t].parent

FindAll(tags, name) == {t \in Ids(tags) : Lower[Name(tags, t)] = Lower[name]}
FindAbbreviated(tags, name) ==
    FindAll(tags, name) \cup {t \in Ids(tags) : <<Lower[name], Lower[Name(tags, t)]>> \in Abbreviates}
FindAllOrAbbreviated(tags, word) ==
    LET same == FindAll(tags, word.name)
    IN IF word.exact \/ same # {} THEN same ELSE FindAbbreviated(tags, word.name)

Children(tags, t) == {c \in Ids(tags) : Parent(tags, c) = t}
Ancestors(tags) ==
    LET above[t \in Ids(tags)] ==
            IF Parent(tags, t) = 0 THEN {} ELSE {Parent(tags, t)} \cup above[Parent(tags, t)]
    IN above
Descendants(tags, t) == {c \in Ids(tags) : t \in Ancestors(tags)[c]}

\* A text is words joined by ":", or an ancestor and a descendant with "::".
\* ChainFound(tags, words)[n] is what the first n words find.
ChainFound(tags, words) ==
    LET found[n \in DOMAIN words] ==
            {t \in FindAllOrAbbreviated(tags, words[n]) : n = 1 \/ Parent(tags, t) \in found[n - 1]}
    IN found
\* Mutant of ChainFind: the parents are not looked at.
ChainFindAnywhere(tags, words) == FindAllOrAbbreviated(tags, words[Len(words)])
ChainFind(tags, words) == ChainFound(tags, words)[Len(words)]
AncestorFind(tags, ancestor, descendant) ==
    UNION {Descendants(tags, t) \cap FindAllOrAbbreviated(tags, descendant) :
             t \in FindAllOrAbbreviated(tags, ancestor)}
SmartFindAll(tags, text) ==
    CASE ~text.deep -> ChainFind(tags, text.words)
      [] text.deep /\ Len(text.words) = 2 -> AncestorFind(tags, text.words[1], text.words[2])
      [] OTHER -> {}
SmartFind(tags, text) ==
    LET found == SmartFindAll(tags, text)
    IN CASE found = {} -> 0
         [] Cardinality(found) = 1 -> CHOOSE t \in found : TRUE
         [] OTHER -> -1

\* A name that is not unique is qualified by those of its parents until one of
\* them has no other tag that is spelt the same; past a root, the text gets an
\* empty first word.
Word(name) == [name |-> name, exact |-> FALSE]
EmptyWord == Word("")
IsUniqueName(tags, name) == Cardinality(FindAll(tags, name)) = 1
IsAlone(tags, t) == \A u \in Ids(tags) : Name(tags, u) = Name(tags, t) => u = t
Qualified(tags) ==
    LET words[t \in Ids(tags)] ==
            CASE Parent(tags, t) = 0 -> <<EmptyWord, Word(Name(tags, t))>>
              [] Parent(tags, t) # 0 /\ IsAlone(tags, Parent(tags, t)) ->
                    <<Word(Name(tags, Parent(tags, t))), Word(Name(tags, t))>>
              [] OTHER -> Append(words[Parent(tags, t)], Word(Name(tags, t)))
    IN words
SmartName(tags, t) ==
    [deep |-> FALSE,
     words |-> IF IsUniqueName(tags, Name(tags, t)) THEN <<Word(Name(tags, t))>> ELSE Qualified(tags)[t]]

\* How many words before the last find something; a text could be new if they
\* find one tag, under which the others are to be defined.
Known(tags, words) ==
    Max({0} \cup {n \in 1 .. Len(words) - 1 : ChainFound(tags, words)[n] # {}})
CouldBeNew(tags, text) ==
    LET known == Known(tags, text.words) IN
    /\ ~text.deep
    /\ known = 0 \/ Cardinality(ChainFound(tags, text.words)[known]) = 1

\* A name without capitals gets one.
NormalCase(name) == IF Lower[name] = name THEN Capital[name] ELSE name

\* Defining answers with the tags there are then, and the tag.  A name is looked
\* for with the dot at its end and kept without.
NextTag(tags) == Max({0} \cup Ids(tags)) + 1
InsertTag(tags, name, parent) ==
    LET tag == NextTag(tags)
    IN [tags |-> [t \in Ids(tags) \cup {tag} |->
                     IF t = tag THEN [name |-> name, parent |-> parent] ELSE tags[t]],
        tag |-> tag]
Find(tags, name, parent) == {t \in Ids(tags) : Name(tags, t) = name /\ Parent(tags, t) = parent}
\* Mutant of DefineChild: the tag is put at the root.
DefineChildAtRoot(tags, word, parent) == InsertTag(tags, NormalCase(word.name), 0)
DefineChild(tags, word, parent) ==
    LET name == NormalCase(word.name)
        same == IF word.exact THEN {} ELSE Find(tags, name, parent)
    IN IF same # {} THEN [tags |-> tags, tag |-> Min(same)] ELSE InsertTag(tags, name, parent)

\* Made(tags, words)[n] is what there is when the first n words are defined.
Made(tags, words) ==
    LET known == Known(tags, words)
        made[n \in known .. Len(words)] ==
            IF n = known
            THEN [tags |-> tags,
                  tag |-> IF n = 0 THEN 0 ELSE CHOOSE t \in ChainFound(tags, words)[n] : TRUE]
            ELSE DefineChild(made[n - 1].tags, words[n], made[n - 1].tag)
    IN made
Define(tags, text) ==
    IF CouldBeNew(tags, text) THEN Made(tags, text.words)[Len(text.words)] ELSE [tags |-> tags, tag |-> 0]

CollectionRoot(tags) == Min(Find(tags, RootName, 0))
Collections(tags) == {Name(tags, t) : t \in Children(tags, CollectionRoot(tags))}
\* In the comparison "tag==:a and parent==:b collate nocase" it is the parent
\* that is compared in any case.
FindCollection(tags, name) == Find(tags, name, CollectionRoot(tags))
EnsureCollection(tags, name) ==
    IF FindCollection(tags, name) # {} THEN [tags |-> tags, tag |-> Min(FindCollection(tags, name))]
    ELSE InsertTag(tags, name, CollectionRoot(tags))

-----------------------------------------------------------------------------
(* What is applied.                                                           *)
Applied(d, v) == {t \in Ids(d.tags) : <<v, t>> \in d.applied}
Having(d, t, vs) == {v \in vs : <<v, t>> \in d.applied}
AppliedToAny(d) == {t \in Ids(d.tags) : Having(d, t, d.selection) # {}}
\* Rows of the selection are counted, those of versions that are gone too.
AppliedToAll(d) ==
    {t \in AppliedToAny(d) : Cardinality(Having(d, t, d.selection)) = Cardinality(d.selection)}

ApplyTag(d, vs, t) == [d EXCEPT !.applied = @ \cup (vs \X {t})]
RemoveTag(d, vs, t) == [d EXCEPT !.applied = @ \ (vs \X {t})]
=============================================================================
