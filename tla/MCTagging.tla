----------------------------- MODULE MCTagging -----------------------------
(* An instance of Tagging: two versions, a name at two places, texts that       *)
(* begin a name or define one at two places, and a collection in two cases.   *)
EXTENDS Tagging

MCNames == {"", "{}", "[]", "pa", "Pa", "paris", "Paris", "Ohio", "ohio", "Work", "work"}
MCLower ==
    [n \in MCNames |->
        CASE n = "Pa" -> "pa" [] n = "Paris" -> "paris" [] n = "Ohio" -> "ohio"
          [] n = "Work" -> "work" [] OTHER -> n]
MCCapital ==
    [n \in MCNames |->
        CASE n = "pa" -> "Pa" [] n = "paris" -> "Paris" [] n = "ohio" -> "Ohio"
          [] n = "work" -> "Work" [] OTHER -> n]
MCAbbreviates ==
    {<<"pa", "paris">>} \cup {<<"", n>> : n \in {MCLower[m] : m \in MCNames}}
MCInside == {<<"/a/b", "/a">>}
MCCameras == {[make |-> "M", model |-> "m1"], [make |-> "N", model |-> "n1"]}

Text(words) == [deep |-> FALSE, words |-> words]
MCTexts ==
    {Text(<<Word("pa")>>), Text(<<[name |-> "Pa", exact |-> TRUE]>>),
     Text(<<Word("ohio"), [name |-> "pa", exact |-> TRUE]>>), Text(<<Word("Paris"), Word("")>>),
     [deep |-> TRUE, words |-> <<Word("Ohio"), Word("Pa")>>]}
MCTurns ==
    {[hascol |-> TRUE, col |-> ""], [hascol |-> TRUE, col |-> "work"],
     [hascl |-> TRUE, cl |-> {0, 2}], [hassr |-> TRUE, minsr |-> 1, maxsr |-> 4],
     [hasst |-> FALSE], [st |-> {"new"}],
     [hascam |-> TRUE, cammake |-> "M"], [cammodel |-> "m1"], [camlens |-> "wide"],
     [hasdr |-> TRUE, startdate |-> 1], [hasfl |-> TRUE, fl |-> "/a"], [hasfl |-> TRUE, fl |-> "/a/b"]}
MCFound ==
    {[label |-> 0, stars |-> 0, status |-> "new", camera |-> [make |-> "N", model |-> "n1"],
      lens |-> "35", day |-> 2, folder |-> "/a/b", collection |-> "Work"]}

MCVersions ==
    << [label |-> 2, stars |-> 4, status |-> "accepted", camera |-> [make |-> "M", model |-> "m1"],
        lens |-> "wide", day |-> 1, folder |-> "/a", collection |-> ""],
       [label |-> 0, stars |-> 0, status |-> "undecided", camera |-> [make |-> "N", model |-> "n1"],
        lens |-> "35", day |-> 0, folder |-> "/a/b", collection |-> ""] >>
Tag(name, parent) == [name |-> name, parent |-> parent]
MCTags ==
    { <<Tag("{}", 0), Tag("[]", 0), Tag("Ohio", 0)>>,
      <<Tag("{}", 0), Tag("[]", 0), Tag("Ohio", 0), Tag("Paris", 3), Tag("work", 1), Tag("Paris", 5)>> }

MCCatalogues ==
    { [tags |-> tags, applied |-> {<<1, 3>>}, versions |-> MCVersions,
       selection |-> {1, 2}, current |-> 1, rows |-> NoRows, filter |-> {1, 2}] : tags \in MCTags }
=============================================================================
