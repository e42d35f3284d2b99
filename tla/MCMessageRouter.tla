--------------------------- MODULE MCMessageRouter ---------------------------
(* Pages, sub-frames and processes for MessageRouter.                        *)
EXTENDS MessageRouter, TLC

CONSTANTS m1, s1, n1, h1, p1, p2, b1, b2

\* One browser whose page and sub-frame share a process.
OnePage     == {m1, s1}
OnePageOf   == (m1 :> m1) @@ (s1 :> m1)
OneBrowser  == [c \in OnePage |-> b1]
OneProc     == [c \in OnePage |-> p1]

\* A page whose sub-frame has the process of another browser's page: every
\* process hands out the same ids.
Isolated    == {m1, s1, n1}
IsolatedOf  == (m1 :> m1) @@ (s1 :> m1) @@ (n1 :> n1)
IsolatedBrowserOf == (m1 :> b1) @@ (s1 :> b1) @@ (n1 :> b2)
IsolatedProc == (m1 :> p1) @@ (s1 :> p2) @@ (n1 :> p2)
=============================================================================
