----------------------------- MODULE MessageSource -----------------------------
(***************************************************************************)
(* What the ingest loop may rely on from a BgpSource that knows about the  *)
(* stop flag: a call of next_message returns a message or ends the source, *)
(* a call that has noticed the stop starts no network call any more and    *)
(* ends the source, and with the stop requested every call returns.        *)
(* RisLiveSource implements this, Ingest is built on it.                   *)
(***************************************************************************)

VARIABLES
    phase,   \* "idle": the caller is not inside next_message; "asked": the call
             \* runs; "barred": it runs and has noticed the stop; "ended"
    stop

vars == <<phase, stop>>

Init == phase = "idle" /\ stop = FALSE

\* A stop may come while the call is about to look at it anyway.
Barring == phase' = phase \/ (phase = "asked" /\ phase' = "barred")

Stop ==
    /\ ~stop
    /\ stop' = TRUE
    /\ Barring

\* while (... && source->next_message(message))
Ask ==
    /\ phase = "idle"
    /\ phase' = IF stop THEN "barred" ELSE "asked"
    /\ UNCHANGED stop

Bar ==
    /\ phase = "asked"
    /\ stop
    /\ phase' = "barred"
    /\ UNCHANGED stop

Deliver ==
    /\ phase = "asked"
    /\ phase' = "idle"
    /\ UNCHANGED stop

End ==
    /\ phase \in {"asked", "barred"}
    /\ phase' = "ended"
    /\ UNCHANGED stop

Answer == Bar \/ Deliver \/ End

Next == Stop \/ Ask \/ Answer

Spec == Init /\ [][Next]_vars

\* Without a stop next_message may take as long as the outage it sits out.
Fairness == WF_vars(stop /\ Answer)

=============================================================================
