------------------------------ MODULE LinkSpec ------------------------------
(***************************************************************************)
(* What the users of a slave device's xOnLine flag may rely on: a device   *)
(* comes on line by an accepted test, and it is dropped only after Misses  *)
(* unanswered tries since the last accepted one, with Pauses delay periods *)
(* among them.  How the bus master counts is left open.                    *)
(***************************************************************************)
EXTENDS Naturals

CONSTANTS
    Devs,       \* the slave devices
    Misses,     \* unanswered tries that a drop needs
    Pauses      \* delay periods that a drop needs

VARIABLES
    up,         \* the device counts as on line
    silent,     \* unanswered tries since the last accepted test, at most Misses
    pauses      \* delay periods since then, at most Pauses

vars == <<up, silent, pauses>>

(* k, or the bound b if k is larger.                                         *)
AtMost(k, b) == IF k <= b THEN k ELSE b

Init ==
    /\ up = [d \in Devs |-> FALSE]
    /\ silent = [d \in Devs |-> 0]
    /\ pauses = [d \in Devs |-> 0]

(* A test of the device is accepted: it is on line.                          *)
Accept(d) ==
    /\ up' = [up EXCEPT ![d] = TRUE]
    /\ silent' = [silent EXCEPT ![d] = 0]
    /\ pauses' = [pauses EXCEPT ![d] = 0]

(* A try goes unanswered.                                                    *)
Miss(d) ==
    /\ silent' = [silent EXCEPT ![d] = AtMost(@ + 1, Misses)]
    /\ UNCHANGED <<up, pauses>>

(* A delay period ends.                                                      *)
Pause(d) ==
    /\ pauses' = [pauses EXCEPT ![d] = AtMost(@ + 1, Pauses)]
    /\ UNCHANGED <<up, silent>>

(* The last of the unanswered tries drops the device.                        *)
Drop(d) ==
    /\ up[d]
    /\ silent[d] + 1 >= Misses
    /\ pauses[d] >= Pauses
    /\ up' = [up EXCEPT ![d] = FALSE]
    /\ silent' = [silent EXCEPT ![d] = AtMost(@ + 1, Misses)]
    /\ UNCHANGED pauses

Next == \E d \in Devs : Accept(d) \/ Miss(d) \/ Pause(d) \/ Drop(d)

Spec == Init /\ [][Next]_vars
=============================================================================
