----------------------------- MODULE MCSampler -----------------------------
(* Sampler on small instances: the clients are interchangeable. *)
EXTENDS Sampler, TLC

ClientSymmetry == Permutations(Clients)
=============================================================================
