------------------------------ MODULE FifoServer ------------------------------
(***************************************************************************)
(* What a disk server promises: each client asks once; requests are served *)
(* one at a time in the order in which they are accepted; a client is told *)
(* that its request is done only after the disk has performed it.          *)
(***************************************************************************)
EXTENDS Sequences

CONSTANTS Clients, None

VARIABLES
  st,        \* per client: "new", "asking", "accepted" or "done"
  queue,     \* requests accepted and not begun
  serving,   \* the request in service, or None
  performed  \* the disk has performed the request in service

vars == <<st, queue, serving, performed>>

Init ==
  /\ st = [i \in Clients |-> "new"]
  /\ queue = <<>>
  /\ serving = None
  /\ performed = FALSE

Ask(i) ==
  /\ st[i] = "new"
  /\ st' = [st EXCEPT ![i] = "asking"]
  /\ UNCHANGED <<queue, serving, performed>>

Start(i) ==
  /\ st[i] = "asking"
  /\ serving = None
  /\ queue = <<>>
  /\ st' = [st EXCEPT ![i] = "accepted"]
  /\ serving' = i
  /\ UNCHANGED <<queue, performed>>

Enqueue(i) ==
  /\ st[i] = "asking"
  /\ serving # None
  /\ st' = [st EXCEPT ![i] = "accepted"]
  /\ queue' = Append(queue, i)
  /\ UNCHANGED <<serving, performed>>

Perform ==
  /\ serving # None
  /\ ~performed
  /\ performed' = TRUE
  /\ UNCHANGED <<st, queue, serving>>

Acknowledge ==
  /\ serving # None
  /\ performed
  /\ st[serving] = "accepted"
  /\ st' = [st EXCEPT ![serving] = "done"]
  /\ serving' = None
  /\ performed' = FALSE
  /\ UNCHANGED queue

Dequeue ==
  /\ serving = None
  /\ queue # <<>>
  /\ serving' = Head(queue)
  /\ queue' = Tail(queue)
  /\ UNCHANGED <<st, performed>>

Next ==
  \/ \E i \in Clients : Ask(i) \/ Start(i) \/ Enqueue(i)
  \/ Perform \/ Acknowledge \/ Dequeue

SafeSpec == Init /\ [][Next]_vars
=============================================================================
