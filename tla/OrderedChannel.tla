--------------------------- MODULE OrderedChannel ---------------------------
(***************************************************************************)
(* What a frame promises of the commands and messages it carries: they are  *)
(* numbered as they are issued, any of them may be lost, and those that are *)
(* carried out are carried out in order and once.                           *)
(***************************************************************************)
EXTENDS Naturals

VARIABLES
  issued,   \* items handed to the channel so far
  done      \* the latest item that came out, 0 for none

Init == issued = 0 /\ done = 0

Issue == issued' = issued + 1 /\ UNCHANGED done

Deliver == /\ done' \in done + 1 .. issued
           /\ UNCHANGED issued

Next == Issue \/ Deliver

Spec == Init /\ [][Next]_<<issued, done>>
=============================================================================
