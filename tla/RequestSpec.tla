----------------------------- MODULE RequestSpec -----------------------------
(***************************************************************************)
(* What the scan may rely on when it asks a device for registers: requests *)
(* come one after the other, only an answer that fits the last request is  *)
(* stored, and a request ends without an error only after one was stored   *)
(* for it.  An answer may still be stored when its request was given up.   *)
(* How frames, timers and interrupts bring it about is left open.          *)
(***************************************************************************)
CONSTANTS
    Requests,   \* a device and a range of registers each
    Dev,        \* the device of a request
    Size,       \* its number of registers
    Codes,      \* what a request can end with
    None        \* no answer

VARIABLES
    pending,    \* a request is under way
    asked,      \* the last request
    stored,     \* the answer last stored for it, or None
    code        \* what it ended with, "none" while it is under way

vars == <<pending, asked, stored, code>>

Answers == [r : Requests, ok : BOOLEAN]

(* An answer is not told from one to another range of the same size.         *)
Fits(a, r) == a # None /\ a.ok /\ Dev[a.r] = Dev[r] /\ Size[a.r] = Size[r]

Init ==
    /\ pending = FALSE /\ asked \in Requests
    /\ stored = None /\ code = "none"

Ask(r) ==
    /\ ~pending
    /\ pending' = TRUE /\ asked' = r /\ stored' = None /\ code' = "none"

Store(a) ==
    /\ Fits(a, asked)
    /\ stored' = a
    /\ UNCHANGED <<pending, asked, code>>

End(c) ==
    /\ pending
    /\ c = "NO_ERR" => stored # None
    /\ pending' = FALSE /\ code' = c
    /\ UNCHANGED <<asked, stored>>

Next ==
    \/ \E r \in Requests : Ask(r)
    \/ \E a \in Answers : Store(a)
    \/ \E c \in Codes : End(c)

Spec == Init /\ [][Next]_vars
=============================================================================
