---------------------------- MODULE MCGroupMode ----------------------------
(* Instances of GroupMode.  The committed firmware registers only the units' *)
(* variables (fan.c:234 and bms.c:747 have the others commented out): the    *)
(* runs use every kind, which is what the handlers are written for.          *)
EXTENDS GroupMode

AllKinds == Kinds
=============================================================================
