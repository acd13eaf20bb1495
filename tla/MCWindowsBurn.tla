---------------------------- MODULE MCWindowsBurn ----------------------------
(* WindowsBurn with two files on the ISO and two runs of the tool, on a      *)
(* device that may drop any write it acknowledges.                           *)
EXTENDS WindowsBurn

MCLossy == {"front", "file", "mbr7", "pbr"}
=============================================================================
