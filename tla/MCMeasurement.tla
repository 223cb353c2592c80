-------------------------- MODULE MCMeasurement ---------------------------
(* Measurement on a small instance: the idle task, tasks of one kind of   *)
(* operation, of two kinds, and of transactions.                          *)
EXTENDS Measurement

CatalogMixes == {{}, {"get"}, {"get", "put"}, {"transaction"}}
=============================================================================
