---------------------------- MODULE MCEventPump ----------------------------
(* Three variables of a unit (the supply air temperature and the two fault   *)
(* flags, of which the second is registered too wide), one averaged sensor   *)
(* reading and the BMS's mode command, in the order of their registration;    *)
(* a run names the ones it takes.                                            *)
EXTENDS EventPump

CONSTANTS sSupAir_T, xStopErrFlag, xCommErr, sAvgTemp, eSystemMode

MCScanOrder == SelectSeq(<<sSupAir_T, xStopErrFlag, xCommErr, sAvgTemp, eSystemMode>>,
                         LAMBDA v : v \in Vars)

MCCell == [v \in Vars |-> IF v = xCommErr THEN {xCommErr, xStopErrFlag} ELSE {v}]

(* vSystem_UnitErr is bound to both fault flags and reads both.              *)
MCHandlerReads == [v \in Vars |-> IF v \in {xCommErr, xStopErrFlag}
                                  THEN {xCommErr, xStopErrFlag} ELSE {v}]
=============================================================================
