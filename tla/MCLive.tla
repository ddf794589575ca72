------------------------------- MODULE MCLive -------------------------------
(* Small instances of LiveAdjuster for TLC. *)
EXTENDS LiveAdjuster

BackAndGrid == {"back", "grid"}
=============================================================================
