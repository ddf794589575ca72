----------------------------- MODULE MCScanner ------------------------------
(* Scanner on a folder, one in it and one in that.                          *)
EXTENDS Scanner
CONSTANTS root, sub, leaf
MCPaths == {root, sub, leaf}
MCParent == [p \in MCPaths |-> CASE p = root -> None [] p = sub -> root [] p = leaf -> sub]
=============================================================================
