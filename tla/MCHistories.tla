---------------------------- MODULE MCHistories ----------------------------
(* Instances of Histories for TLC; the bounds are given in the cfg files.  *)
EXTENDS Histories
=============================================================================
