--------------------------- MODULE ServerPromise ---------------------------
(***************************************************************************)
(* What a CefServerHandler is promised of its server (include/cef_server.h):  *)
(* created, or failed, comes first; each client that connects disconnects,   *)
(* with its request and what its WebSocket does in between; destroyed comes  *)
(* last, when every client has disconnected.                                 *)
(***************************************************************************)
EXTENDS Naturals, Sequences

CONSTANTS
  Servers,      \* servers, each with a handler of its own
  Connections,  \* connection ids
  NoConnection  \* of what concerns the server

VARIABLE told  \* the calls of each server's handler so far

Init == told = [i \in Servers |-> <<>>]

Call(op, c) == [op |-> op, c |-> c]

\* The last call that concerns a connection, or the server.
Last(i, c) ==
  LET own == {k \in DOMAIN told[i] : told[i][k].c = c}
  IN IF own = {} THEN "none" ELSE told[i][CHOOSE k \in own : \A j \in own : j <= k].op

Told(i, c, before, op) ==
  Last(i, c) \in before /\ told' = [told EXCEPT ![i] = Append(@, Call(op, c))]

OnServerCreated(i) ==
  \E op \in {"created", "failed"} : Told(i, NoConnection, {"none"}, op)
OnServerDestroyed(i) ==
  /\ \A c \in Connections : Last(i, c) \in {"none", "disconnected"}
  /\ Told(i, NoConnection, {"created", "failed"}, "destroyed")

OnClientConnected(i, c)    == Told(i, c, {"none"}, "connected")
OnHttpRequest(i, c)        == Told(i, c, {"connected"}, "request")
OnWebSocketRequest(i, c)   == Told(i, c, {"connected"}, "webSocketRequest")
OnWebSocketConnected(i, c) == Told(i, c, {"webSocketRequest"}, "webSocketConnected")
OnWebSocketMessage(i, c)   == Told(i, c, {"webSocketConnected"}, "webSocketMessage")
OnClientDisconnected(i, c) ==
  Told(i, c, {"connected", "request", "webSocketRequest", "webSocketConnected",
              "webSocketMessage"}, "disconnected")

Next == \E i \in Servers :
  \/ OnServerCreated(i) \/ OnServerDestroyed(i)
  \/ /\ Last(i, NoConnection) = "created"
     /\ \E c \in Connections :
          \/ OnClientConnected(i, c) \/ OnClientDisconnected(i, c) \/ OnHttpRequest(i, c)
          \/ OnWebSocketRequest(i, c) \/ OnWebSocketConnected(i, c)
          \/ OnWebSocketMessage(i, c)

Spec == Init /\ [][Next]_told
============================================================================
