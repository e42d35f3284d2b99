---------------------------- MODULE MCLifeCycle ----------------------------
(* One window and a popup of its page, for LifeCycle.                         *)
EXTENDS LifeCycle, TLC

CONSTANTS m1, p1

MCOpener == [p \in Popups |-> m1]
=============================================================================
