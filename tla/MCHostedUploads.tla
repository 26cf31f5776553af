-------------------------- MODULE MCHostedUploads --------------------------
(* HostedUploads with interchangeable requests.                            *)
EXTENDS HostedUploads, TLC

Symmetry == Permutations(Requests)
=============================================================================
