---------------------------- MODULE MCMasterPort ----------------------------
(* Requests to two devices, for as many registers: only its address tells    *)
(* the answer of one from that of the other.                                 *)
EXTENDS MasterPort

CONSTANTS a, b

MCDev  == [r \in Requests |-> r]
MCSize == [r \in Requests |-> 1]
=============================================================================
