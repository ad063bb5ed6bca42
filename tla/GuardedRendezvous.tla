-------------------------- MODULE GuardedRendezvous --------------------------
(***************************************************************************)
(* What a many-to-one channel promises: every writer offers a value and    *)
(* blocks, the reader asks for a value its guard accepts and blocks, and   *)
(* the reader meets exactly one writer whose value is accepted; only those *)
(* two return.  The value is copied from that writer, but maybe only after *)
(* it has returned: what it then offers next may be copied instead.        *)
(***************************************************************************)
CONSTANTS Writers, Values, NoValue,
          Guards,  \* what a reader may insist on: sets of values
          Refill   \* may a writer offer again before it is copied from?

VARIABLES wst,    \* per writer: "idle", "offering" or "done"
          rst,    \* the reader: "idle", "asking", "met" or "done"
          guard,  \* what the reader's current, or latest, read accepts
          from,   \* the writer met but not yet copied from, or "null"
          offer,  \* per writer: the value of its current, or latest, write
          got     \* the value copied by the reader's latest exchange

vars == <<wst, rst, guard, from, offer, got>>

Init ==
  /\ wst = [w \in Writers |-> "idle"]
  /\ rst = "idle"
  /\ guard = Values
  /\ from = "null"
  /\ offer = [w \in Writers |-> NoValue]
  /\ got = NoValue

Offer(w, v) ==
  /\ wst[w] = "idle"
  /\ Refill \/ from # w
  /\ wst' = [wst EXCEPT ![w] = "offering"]
  /\ offer' = [offer EXCEPT ![w] = v]
  /\ UNCHANGED <<rst, guard, from, got>>

Ask(g) ==
  /\ rst = "idle"
  /\ rst' = "asking"
  /\ guard' = g
  /\ UNCHANGED <<wst, from, offer, got>>

Exchange(w) ==
  /\ wst[w] = "offering"
  /\ rst = "asking"
  /\ offer[w] \in guard
  /\ wst' = [wst EXCEPT ![w] = "done"]
  /\ rst' = "met"
  /\ from' = w
  /\ UNCHANGED <<guard, offer, got>>

Copy ==
  /\ rst = "met"
  /\ rst' = "done"
  /\ from' = "null"
  /\ got' = offer[from]
  /\ UNCHANGED <<wst, guard, offer>>

LeaveWrite(w) ==
  /\ wst[w] = "done"
  /\ wst' = [wst EXCEPT ![w] = "idle"]
  /\ UNCHANGED <<rst, guard, from, offer, got>>

LeaveRead ==
  /\ rst = "done"
  /\ rst' = "idle"
  /\ UNCHANGED <<wst, guard, from, offer, got>>

Next ==
  \/ \E w \in Writers : \/ \E v \in Values : Offer(w, v)
                        \/ Exchange(w)
                        \/ LeaveWrite(w)
  \/ \E g \in Guards : Ask(g)
  \/ Copy
  \/ LeaveRead

SafeSpec == Init /\ [][Next]_vars
=============================================================================
