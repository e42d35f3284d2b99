-------------------------- MODULE MCBrowserRegistry --------------------------
(* Browsers, frames and processes for BrowserRegistry.                       *)
EXTENDS BrowserRegistry, TLC

CONSTANTS m1, m2, x1, p1, p2, b1, b2, b3

\* A browser with a PDF viewer in a process of its own, and
\* two popups of its page: one with Alloy style and one with Chrome style.
SiteBrowser == (m1 :> b1) @@ (x1 :> b1) @@ (m2 :> b2)
SiteProc    == (m1 :> p1) @@ (x1 :> p2) @@ (m2 :> p1)
MCBrowserOf == [f \in Frames |-> SiteBrowser[f]]
MCProcOf    == [f \in Frames |-> SiteProc[f]]
=============================================================================
