---------------------------- MODULE MCPoolCertificate ----------------------------
(* PoolCertificate with the allocator free to return any released address. *)
EXTENDS PoolCertificate, TLC

Interchangeable == Permutations(Addresses)
=============================================================================
