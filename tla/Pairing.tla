------------------------------ MODULE Pairing ------------------------------
(***************************************************************************)
(* What a two-party barrier promises to however many threads share it:     *)
(* they leave it in pairs, each released together with one other that was  *)
(* in it at the same time.                                                 *)
(***************************************************************************)
CONSTANT Parties

VARIABLE st  \* per party: "out", "in" or "met"

vars == <<st>>

Init == st = [p \in Parties |-> "out"]

Arrive(p) ==
  /\ st[p] = "out"
  /\ st' = [st EXCEPT ![p] = "in"]

Meet(p, q) ==
  /\ p # q
  /\ st[p] = "in"
  /\ st[q] = "in"
  /\ st' = [st EXCEPT ![p] = "met", ![q] = "met"]

Leave(p) ==
  /\ st[p] = "met"
  /\ st' = [st EXCEPT ![p] = "out"]

MeetSome == \E p, q \in Parties : Meet(p, q)

Next == MeetSome \/ \E p \in Parties : Arrive(p) \/ Leave(p)

(* Nobody has to come; two that are in do not wait for a third; whoever    *)
(* has met leaves.                                                         *)
Fairness == WF_vars(MeetSome) /\ \A p \in Parties : WF_vars(Leave(p))

SafeSpec == Init /\ [][Next]_vars

Spec == SafeSpec /\ Fairness
=============================================================================
