------------------------------ MODULE MCDigest ------------------------------
(* Digest with interchangeable villages and runs.                          *)
EXTENDS Digest, TLC

Symmetry == Permutations(Villages) \cup Permutations(Crons)
=============================================================================
