------------------------------ MODULE MCFinder ------------------------------
(* A small instance of OriginalFinder for TLC: two ordinary files and a
   raw one. *)
EXTENDS OriginalFinder, TLC

CONSTANTS a, b, c, v1, v2, v3, file, raw

ThreeVersions == (v1 :> a @@ v2 :> b @@ v3 :> c)
ByType == (a :> file @@ b :> file @@ c :> raw)
Unhurried == {}
=============================================================================
