------------------------------ MODULE MCNt5Burn ------------------------------
(* Nt5Burn with two runs of the tool, each with any configuration, on a      *)
(* device that may drop any write it acknowledges.                           *)
EXTENDS Nt5Burn

MCLossy == {"front", "file"}
=============================================================================
