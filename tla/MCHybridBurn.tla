---------------------------- MODULE MCHybridBurn ----------------------------
(* HybridBurn on a device of eight bytes in blocks of two and chunks of      *)
(* four: ISOs that end on a chunk, on a block and inside a block, one that   *)
(* fills the device and one that does not fit.                               *)
EXTENDS HybridBurn

MCIsoSizes == {0, 3, 4, 6, 8, 9}
=============================================================================
