-------------------------- MODULE MCBrowserFrames --------------------------
(* Small instances of BrowserFrames for TLC. *)
EXTENDS BrowserFrames

CONSTANTS m1, m2, m3, s1
=============================================================================
