---------------------------- MODULE MCTitanTier ----------------------------
(* Small instances of the Titan Arena tier loop.                           *)
EXTENDS TitanTier, TLC
CONSTANTS r1, r2

Symmetry == Permutations(Rivals)
=============================================================================
