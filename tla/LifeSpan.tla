------------------------------ MODULE LifeSpan ------------------------------
(***************************************************************************)
(* What a client is promised of the life of its browsers                    *)
(* (include/cef_life_span_handler.h), whatever windows, threads and pages   *)
(* do: OnAfterCreated comes first and once; DoClose, maybe several times,    *)
(* while the browser is alive; then OnBeforeClose, once; a popup is created  *)
(* by a browser that is alive; and the application ends when no browser is   *)
(* left.  One exception is the code's and not the promise's, DoCloseTooLate. *)
(***************************************************************************)
CONSTANTS
  Browsers,  \* browsers
  Popups,    \* those of them opened by another
  Opener     \* of a popup: the browser that opens it

VARIABLES
  phase,  \* of a browser: "none", "open", "closing" after DoClose, "closed"
          \* after OnBeforeClose, "late" after a DoClose that came after that
  ended   \* the application ended

vars == <<phase, ended>>

Init == phase = [b \in Browsers |-> "none"] /\ ended = FALSE

Alive(b) == phase[b] \in {"open", "closing"}

OnAfterCreated(b) ==
  /\ phase[b] = "none" /\ ~ended
  /\ b \in Popups => Alive(Opener[b])
  /\ phase' = [phase EXCEPT ![b] = "open"]
  /\ UNCHANGED ended

\* A repeated DoClose changes nothing here.
DoClose(b) ==
  /\ Alive(b)
  /\ phase' = [phase EXCEPT ![b] = "closing"]
  /\ UNCHANGED ended

\* The promise is that OnBeforeClose comes after DoClose.  It does not hold of a
\* popup whose contents ended with its opener's: the popup's browser, still
\* undestroyed, is closed only then, and asks the client.
DoCloseTooLate(p) ==
  /\ phase[p] = "closed" /\ phase[Opener[p]] \in {"closed", "late"}
  /\ phase' = [phase EXCEPT ![p] = "late"]
  /\ UNCHANGED ended

\* A browser without windows is closed right after DoClose, and the popups
\* whose page it still owns are closed with it.
OnBeforeClose(closed) ==
  /\ closed # {} /\ \A b \in closed : Alive(b)
  /\ \E b \in closed : closed \ {b} \subseteq {p \in Popups : Opener[p] \in closed}
  /\ phase' = [b \in Browsers |-> IF b \in closed THEN "closed" ELSE phase[b]]
  /\ UNCHANGED ended

End ==
  /\ ~\E b \in Browsers : Alive(b)
  /\ ended' = TRUE
  /\ UNCHANGED phase

Next ==
  \/ \E b \in Browsers : OnAfterCreated(b) \/ DoClose(b)
  \/ \E p \in Popups : DoCloseTooLate(p)
  \/ \E closed \in SUBSET Browsers : OnBeforeClose(closed)
  \/ End

Spec == Init /\ [][Next]_vars
=============================================================================
