------------------------------ MODULE MCIsoImage ------------------------------
(* IsoImage with records of two lengths in two small sectors: which records  *)
(* fit depends on their order, and the set may or may not have room for one  *)
(* more.                                                                     *)
EXTENDS IsoImage

MCRecordLen == [n \in 1..4 |-> IF n = 2 THEN 4 ELSE 3]
=============================================================================
