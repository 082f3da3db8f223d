---------------------------- MODULE MCTdfStorage ----------------------------
(* Instances of TdfStorage for TLC; the bounds are given in the cfg files. *)
EXTENDS TdfStorage
=============================================================================
