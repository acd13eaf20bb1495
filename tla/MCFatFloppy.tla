----------------------------- MODULE MCFatFloppy -----------------------------
(* FatFloppy with three clusters, an odd number, so that table entries share *)
(* bytes both ways; two slots for three names; files of one to three         *)
(* clusters, with and without padding, and one call too many for either.     *)
EXTENDS FatFloppy
=============================================================================
