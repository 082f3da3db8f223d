---------------------------- MODULE MCPtsUpdates ----------------------------
(* Instances of PtsUpdates for TLC; the bounds are given in the cfg files. *)
EXTENDS PtsUpdates
=============================================================================
