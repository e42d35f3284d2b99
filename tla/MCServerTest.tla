---------------------------- MODULE MCServerTest ----------------------------
EXTENDS ServerTest

\* The client accepts every WebSocket; another handler may do all of these.
MCReplies == {"continue", "cancel", "both", "release"}
=============================================================================
