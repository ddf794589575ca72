------------------------------ MODULE MCImport ------------------------------
(* A small instance of ImportJob for TLC: an image on its own and a folder, in which there
   is an image of the same name but for the case, and a folder with a movie. *)
EXTENDS ImportJob, TLC

CONSTANTS f1, f2, f3, d0, d1

ImageAndFolder == <<f1, d0>>
ThreeTargets == f1 :> "a.jpg" @@ f2 :> "a.jpg" @@ f3 :> "b.mp4"
ImagesListed == d0 :> <<f2>> @@ d1 :> <<>>
MoviesListed == d0 :> <<>> @@ d1 :> <<f3>>
Nested == d0 :> <<d1>> @@ d1 :> <<>>
=============================================================================
