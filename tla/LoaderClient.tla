---------------------------- MODULE LoaderClient ----------------------------
(***************************************************************************)
(* What the client of a URL loader is told (network::mojom::URLLoaderClient *)
(* as InterceptedRequest uses and serves it): any number of redirects, each *)
(* followed before anything but a failure is told, at most one response, a  *)
(* success only after a response, and nothing after success or failure.     *)
(***************************************************************************)
EXTENDS Sequences

VARIABLE told  \* notifications so far, and the redirects followed

Said(what) == told # <<>> /\ told[Len(told)] = what
Ended      == Said("success") \/ Said("failure")
Waits      == told = <<>> \/ Said("follow")

Init == told = <<>>

Tell(what) == told' = Append(told, what)

OnReceiveRedirect == Waits /\ Tell("redirect")
\* The client follows; the next redirect or the failure may come in return.
FollowRedirect    == /\ Said("redirect")
                     /\ \E answer \in {<<>>, <<"redirect">>, <<"failure">>} :
                          told' = told \o <<"follow">> \o answer
OnReceiveResponse == Waits /\ Tell("response")
OnComplete        == Said("response") /\ Tell("success")
OnFailure         == ~Ended /\ Tell("failure")

Next == OnReceiveRedirect \/ FollowRedirect \/ OnReceiveResponse
          \/ OnComplete \/ OnFailure

Spec == Init /\ [][Next]_told
=============================================================================
