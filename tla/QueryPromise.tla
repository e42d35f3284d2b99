---------------------------- MODULE QueryPromise ----------------------------
(***************************************************************************)
(* What a JavaScript query (window.cefQuery) is promised, whatever the      *)
(* processes, messages and tasks in between do:                             *)
(*   - the answers of the native handler reach the page in the order they   *)
(*     were given, each at most once and none skipped;                      *)
(*   - a query that is not persistent is answered at most once;             *)
(*   - the failure the handler reports is the last thing the page hears,    *)
(*     and comes after every answer given before it;                        *)
(*   - nothing is heard of a query that was canceled.                       *)
(***************************************************************************)
EXTENDS Integers

CONSTANTS
  Queries,    \* names of queries
  MaxAnswers  \* bound: answers the handler gives to one query

VARIABLES
  phase,    \* "new", waiting as "once" or "persistent", "ended"
  given,    \* answers the handler gave
  failing,  \* the handler reported a failure
  got,      \* answers the page was given
  failed    \* the page was told of the failure

vars == <<phase, given, failing, got, failed>>

Open(q) == phase[q] \in {"once", "persistent"}

Init ==
  /\ phase = [q \in Queries |-> "new"]
  /\ given = [q \in Queries |-> 0]
  /\ failing = [q \in Queries |-> FALSE]
  /\ got = [q \in Queries |-> 0]
  /\ failed = [q \in Queries |-> FALSE]

Ask(q, kind) ==
  /\ phase[q] = "new"
  /\ phase' = [phase EXCEPT ![q] = kind]
  /\ UNCHANGED <<given, failing, got, failed>>

\* The handler does not know yet that the query ended.
Answer(q) ==
  /\ phase[q] # "new"
  /\ ~failing[q]
  /\ given[q] < MaxAnswers
  /\ given' = [given EXCEPT ![q] = @ + 1]
  /\ UNCHANGED <<phase, failing, got, failed>>

Fail(q) ==
  /\ phase[q] # "new"
  /\ ~failing[q]
  /\ failing' = [failing EXCEPT ![q] = TRUE]
  /\ UNCHANGED <<phase, given, got, failed>>

Deliver(q) ==
  /\ Open(q)
  /\ got[q] < given[q]
  /\ got' = [got EXCEPT ![q] = @ + 1]
  /\ phase' = [phase EXCEPT ![q] = IF @ = "once" THEN "ended" ELSE @]
  /\ UNCHANGED <<given, failing, failed>>

DeliverFailure(q) ==
  /\ Open(q)
  /\ failing[q]
  /\ got[q] = given[q]
  /\ failed' = [failed EXCEPT ![q] = TRUE]
  /\ phase' = [phase EXCEPT ![q] = "ended"]
  /\ UNCHANGED <<given, failing, got>>

Cancel(gone) ==
  /\ \A q \in gone : Open(q)
  /\ phase' = [q \in Queries |-> IF q \in gone THEN "ended" ELSE phase[q]]
  /\ UNCHANGED <<given, failing, got, failed>>

Next ==
  \/ \E q \in Queries :
       \/ \E kind \in {"once", "persistent"} : Ask(q, kind)
       \/ Answer(q)
       \/ Fail(q)
       \/ Deliver(q)
       \/ DeliverFailure(q)
  \/ \E gone \in SUBSET Queries : Cancel(gone)

Spec == Init /\ [][Next]_vars
=============================================================================
