----------------------------- MODULE MCFileStore -----------------------------
(* FileStore with interchangeable calls.                                    *)
EXTENDS FileStore, TLC

Symmetry == Permutations(Jobs)
=============================================================================
