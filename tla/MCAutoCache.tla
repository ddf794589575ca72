---------------------------- MODULE MCAutoCache ----------------------------
(* Small instances of AutoCache for TLC. *)
EXTENDS AutoCacheProps, TLC

BrowseOps == {"request", "easy"}
RecacheOps == {"request", "recache", "edit", "offerSmall"}
CrashOps == {"edit", "offerBig", "purge", "quit", "kill"}

Symmetry == Permutations(Versions) \cup Permutations(Finders)
FinderSymmetry == Permutations(Finders)
=============================================================================
