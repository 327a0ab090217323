---------------------------- MODULE MCGroupAlarm ----------------------------
(* Instances of GroupAlarm.  The fault flags of the outdoor and of the       *)
(* indoor sensors are alike here: one of them stands for both.               *)
EXTENDS GroupAlarm, TLC

UnitSymmetry == Permutations(Units)
=============================================================================
