---------------------------- MODULE MCLightTable ----------------------------
(* An instance of LightTable: four photos in three folders and three epochs.  *)
EXTENDS LightTable

MCCaptureDate == <<0, 4, 12, 45>>
MCFolderOf == <<"/a", "/a/b", "/a/b", "/c">>
MCSubFolders == [f \in {"/", "/a", "/a/b", "/c"} |->
    CASE f = "/" -> <<"/a", "/c">> [] f = "/a" -> <<"/a/b">> [] OTHER -> <<>>]
MCFolders == <<"/", "/a", "/a/b", "/c">>
MCWidth == <<40, 10>>
MCWanted == {{"undecided"}, {"undecided", "rejected"}}
MCDefault == {"undecided", "rejected"}

\* What an earlier session left: the filter, the current version, the strips
\* that were open and whether it crashed while it started.
MCRows == {{}, {<<"date", 0, 1>>, <<"date", 0, 2>>, <<"tree", "/a", 0>>}}
MCVersions == [v \in 1 .. 3 |-> [photo |-> v, status |-> IF v = 2 THEN "undecided" ELSE "rejected"]]
MCInit ==
    /\ \E wanted \in MCWanted, v \in {0, 1}, rows \in MCRows,
          crashed \in BOOLEAN :
          /\ crashed => v = 1 /\ rows # {}
          /\ desk = [NewDesk(1 .. 3, MCVersions, wanted) EXCEPT
                        !.current = v, !.expanded = rows, !.starting = crashed]
    /\ app = "off" /\ signal = FALSE /\ purge = <<>> /\ edits = 0
Spec == MCInit /\ [][Next]_vars
=============================================================================
