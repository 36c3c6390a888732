--------------------------- MODULE BookingPromise ----------------------------
(***************************************************************************)
(* What a booking promises the two people in it, without requests, copies  *)
(* or retries: it is open, then agreed, then over, and never goes back;    *)
(* and the advance leaves Evently only once the booking is over, one time. *)
(***************************************************************************)

VARIABLES
    phase,      \* "open", "agreed" or "over"
    advance     \* "held", "returning" or "returned"

promiseVars == <<phase, advance>>

Init ==
    /\ phase = "open"
    /\ advance = "held"

Agree ==
    /\ phase = "open"
    /\ phase' = "agreed"
    /\ UNCHANGED advance

End ==
    /\ phase # "over"
    /\ phase' = "over"
    /\ UNCHANGED advance

BeginReturn ==
    /\ phase = "over"
    /\ advance = "held"
    /\ advance' = "returning"
    /\ UNCHANGED phase

\* The gateway answers: the money went back, or it stays where it was.
Answer ==
    /\ advance = "returning"
    /\ advance' \in {"returned", "held"}
    /\ UNCHANGED phase

Next == Agree \/ End \/ BeginReturn \/ Answer

Spec == Init /\ [][Next]_promiseVars
=============================================================================
