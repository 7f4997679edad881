------------------------------- MODULE Retry -------------------------------
(***************************************************************************)
(* What a caller of BattleNetService may rely on: it sends at most so many *)
(* requests for one query, and ends, with an answer to a request or with   *)
(* an error.                                                               *)
(***************************************************************************)
EXTENDS Naturals

CONSTANTS Callers, MaxRequests

VARIABLES asked, outcome

retryVars == <<asked, outcome>>

Init ==
  /\ asked = [c \in Callers |-> 0]
  /\ outcome = [c \in Callers |-> "open"]

Ask(c) ==
  /\ outcome[c] = "open" /\ asked[c] < MaxRequests
  /\ asked' = [asked EXCEPT ![c] = @ + 1]
  /\ UNCHANGED outcome

Answer(c) ==
  /\ outcome[c] = "open" /\ asked[c] > 0
  /\ outcome' = [outcome EXCEPT ![c] = "answered"]
  /\ UNCHANGED asked

Fail(c) ==
  /\ outcome[c] = "open"
  /\ outcome' = [outcome EXCEPT ![c] = "failed"]
  /\ UNCHANGED asked

Next == \E c \in Callers : Ask(c) \/ Answer(c) \/ Fail(c)

Safety == Init /\ [][Next]_retryVars

(* A query ends, however its requests fare. *)
Spec == Safety /\ \A c \in Callers : WF_retryVars(Answer(c) \/ Fail(c))
=============================================================================
