--------------------------- MODULE ExternalChoice ---------------------------
(***************************************************************************)
(* What channels, barriers and alternatives promise together (the external *)
(* choice of CSP): a thread offers to meet at one guard or at any of       *)
(* several; a choice settles on one at which a partner is; and threads     *)
(* leave in pairs, each released together with the partner it met: the     *)
(* reader and one writer of a channel, or two parties of a barrier.        *)
(***************************************************************************)
CONSTANTS Threads, Guards,
          Menus,  \* per thread, the sets of offers it may make at once
          Prompt  \* the guards at which no choice sleeps over a partner

VARIABLES st,     \* per thread: "out", "in" or "met"
          offers, \* per thread: pairs of a guard and "read", "write" or "sync"
          got     \* per thread: the writer its read has met, or "null"

vars == <<st, offers, got>>

Init ==
  /\ st = [t \in Threads |-> "out"]
  /\ offers = [t \in Threads |-> {}]
  /\ got = [t \in Threads |-> "null"]

Match(x, y) ==
  x[1] = y[1] /\ <<x[2], y[2]>> \in {<<"read", "write">>, <<"sync", "sync">>}

Arrive(t) ==
  /\ st[t] = "out"
  /\ st' = [st EXCEPT ![t] = "in"]
  /\ \E S \in Menus[t] : offers' = [offers EXCEPT ![t] = S]
  /\ UNCHANGED got

(* t's choice settles on x, and so does u's if u chooses too. *)
Settle(t, u, x, y) ==
  /\ t # u
  /\ st[t] = "in" /\ st[u] = "in"
  /\ Match(x, y)
  /\ offers[t] # {x}
  /\ offers' = [offers EXCEPT ![t] = {x}, ![u] = {y}]
  /\ UNCHANGED <<st, got>>

Meet(t, u, x, y) ==
  /\ t # u
  /\ st[t] = "in" /\ st[u] = "in"
  /\ Match(x, y)
  /\ offers[t] = {x} /\ offers[u] = {y}
  /\ st' = [st EXCEPT ![t] = "met", ![u] = "met"]
  /\ offers' = [offers EXCEPT ![t] = {}, ![u] = {}]
  /\ got' = IF x[2] = "read" THEN [got EXCEPT ![t] = u] ELSE got

Leave(t) ==
  /\ st[t] = "met"
  /\ st' = [st EXCEPT ![t] = "out"]
  /\ got' = [got EXCEPT ![t] = "null"]
  /\ UNCHANGED offers

SettleAt(g) ==
  \E t, u \in Threads : \E x \in offers[t], y \in offers[u] :
    x[1] = g /\ Settle(t, u, x, y)

MeetAt(g) ==
  \E t, u \in Threads : \E x \in offers[t], y \in offers[u] :
    x[1] = g /\ Meet(t, u, x, y)

Next ==
  \/ \E t \in Threads : Arrive(t) \/ Leave(t)
  \/ \E g \in Guards : SettleAt(g) \/ MeetAt(g)

(* Two threads that could meet do not both stay: some choice settles, some *)
(* pair meets.                                                             *)
Fairness ==
  /\ WF_vars(\E g \in Prompt : SettleAt(g) \/ MeetAt(g))
  /\ \A g \in Guards : WF_vars(MeetAt(g))
  /\ \A t \in Threads : WF_vars(Leave(t))

SafeSpec == Init /\ [][Next]_vars

Spec == SafeSpec /\ Fairness
=============================================================================
