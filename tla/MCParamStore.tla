---------------------------- MODULE MCParamStore ----------------------------
(* Instances of ParamStore.  The intervals are 1 for the settings, as in the *)
(* code, and 3 instead of 720 for the run times.                             *)
EXTENDS ParamStore

Intervals == [t \in Types |-> IF t = "runtime" THEN 3 ELSE 1]
=============================================================================
