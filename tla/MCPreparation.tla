--------------------------- MODULE MCPreparation ---------------------------
(* Preparation on small instances. *)
EXTENDS Preparation
=============================================================================
