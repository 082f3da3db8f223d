------------------------------ MODULE MCDcKeys ------------------------------
(* Instances of DcKeys for TLC. *)
EXTENDS DcKeys

(* Each fault alone, and the pairs of which the second follows from, or    *)
(* races with, the first.                                                  *)
MCFaultPlans ==
  {{"revoke", "young"}, {"creation", "forget"},
   {"disconnect", "options"}, {"bind"}, {"kill"}}
=============================================================================
