---------------------------- MODULE MCFanStaging ----------------------------
(* Two fans, the first with the longer running time.  No handler reads the   *)
(* frequency that the last one set, so states that differ in it alone have   *)
(* the same future and count as one.                                         *)
EXTENDS FanStaging

MCHours == <<7, 4>>
ButFreq == <<[sys EXCEPT !.freq = 0], usable, runs>>
=============================================================================
