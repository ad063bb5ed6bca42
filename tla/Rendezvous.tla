----------------------------- MODULE Rendezvous -----------------------------
(***************************************************************************)
(* What a synchronous channel promises its two users: a write offers one   *)
(* value and blocks; a read asks for one value and blocks; the two meet in *)
(* a single exchange, after which, and only after which, both return.      *)
(***************************************************************************)
CONSTANTS Values, NoValue

VARIABLES wst,    \* the writer: "idle", "offering" or "done"
          rst,    \* the reader: "idle", "asking" or "done"
          offer,  \* the value of the writer's current, or latest, write
          got     \* the value the reader's latest exchange delivered

vars == <<wst, rst, offer, got>>

Init ==
  /\ wst = "idle"
  /\ rst = "idle"
  /\ offer = NoValue
  /\ got = NoValue

Offer(v) ==
  /\ wst = "idle"
  /\ wst' = "offering"
  /\ offer' = v
  /\ UNCHANGED <<rst, got>>

Ask ==
  /\ rst = "idle"
  /\ rst' = "asking"
  /\ UNCHANGED <<wst, offer, got>>

Exchange ==
  /\ wst = "offering"
  /\ rst = "asking"
  /\ wst' = "done"
  /\ rst' = "done"
  /\ got' = offer
  /\ UNCHANGED offer

LeaveWrite ==
  /\ wst = "done"
  /\ wst' = "idle"
  /\ UNCHANGED <<rst, offer, got>>

LeaveRead ==
  /\ rst = "done"
  /\ rst' = "idle"
  /\ UNCHANGED <<wst, offer, got>>

Next ==
  \/ \E v \in Values : Offer(v)
  \/ Ask
  \/ Exchange
  \/ LeaveWrite
  \/ LeaveRead

(* Nobody is obliged to call; whoever has met its partner is let go. *)
Fairness ==
  /\ WF_vars(Exchange)
  /\ WF_vars(LeaveWrite)
  /\ WF_vars(LeaveRead)

SafeSpec == Init /\ [][Next]_vars

Spec == SafeSpec /\ Fairness
=============================================================================
