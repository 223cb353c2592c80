---------------------------- MODULE MCClosedLoop ----------------------------
(* ClosedLoop, with the rows of its APIs, on small instances. *)
EXTENDS Rows

(* Rows are made alike: one API of a kind of operation is enough. *)
OneEach == {"get", "scan", "transaction.commit"}
ShortToOverlong == {0, 2, 4, 9}
OneOrTwo == {1, 2}
=============================================================================
