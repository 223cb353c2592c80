---------------------------- MODULE MCDurability ----------------------------
(* Durability on small instances: the clients are interchangeable model     *)
(* values, and instants are kept only by the run whose property reads them. *)
EXTENDS Durability, TLC

ClientSymmetry == Permutations(Clients)
=============================================================================
