--------------------------------- MODULE DSS ---------------------------------
(***************************************************************************)
(* The disk server of test/DSS.dats: clients C(i), the scheduler DSched,   *)
(* the queue DQueue (DQ and two CELLs in a row), the controller DCtrl and  *)
(* the Disk, run in parallel.                                              *)
(*                                                                         *)
(* The processes meet in the channels and barriers of the library, taken   *)
(* here at the level of what they promise: a rendezvous (Rendezvous), a    *)
(* meeting of any two (Pairing), an external choice (ExternalChoice,       *)
(* BarrierChoice).  The many-to-one channels ds and ack promise less, and  *)
(* that is kept: a choice with ds as a guard takes it only when a write    *)
(* begins while it waits (AltMany2One), and cond_read on ack wakes a       *)
(* single sleeping writer, which sleeps on if its content is refused       *)
(* (Many2One).                                                             *)
(*                                                                         *)
(* A request is named by the client that made it.                          *)
(***************************************************************************)
EXTENDS Naturals, FiniteSets, Sequences

CONSTANTS Clients, None

ASSUME DSSAssumption ==
  /\ IsFiniteSet(Clients)
  /\ None \notin Clients

VARIABLES
  cst,    \* per client, where it is: "new", "ds" (blocked in that write),
          \* "ready", "ack" (blocked in that write) or "end"
  woken,  \* clients blocked in the write to ack that will test again
  dsp,    \* what DSched does next, or is blocked in
  dsreq,  \* the request DSched holds
  dqp,    \* what DQ does next, or is blocked in
  dqi,    \* DQ's i
  dqreq,  \* the request DQ holds
  cell,   \* per CELL, the channel or barrier it is at
  creq,   \* per CELL, the request it holds
  dcp,    \* the channel or barrier DCtrl is at
  dcreq,  \* the request DCtrl holds
  disk    \* the channel or barrier Disk is at

clientVars == <<cst, woken>>
schedVars == <<dsp, dsreq>>
dqVars == <<dqp, dqi, dqreq>>
cellVars == <<cell, creq>>
diskVars == <<dcp, dcreq, disk>>
vars == <<clientVars, schedVars, dqVars, cellVars, diskVars>>

Init ==
  /\ cst = [i \in Clients |-> "new"]
  /\ woken = {}
  /\ dsp = "idle" /\ dsreq = None
  /\ dqp = "choose" /\ dqi = 0 /\ dqreq = None
  /\ cell = [k \in {1, 2} |-> "left"]
  /\ creq = [k \in {1, 2} |-> None]
  /\ dcp = "dci" /\ dcreq = None
  /\ disk = "dio"
-----------------------------------------------------------------------------
(* ds: the clients write, DSched reads. *)

(* A client's write begins.  It ends a choice that waits with ds enabled.  *)
DsWrite(i) ==
  /\ cst[i] = "new"
  /\ cst' = [cst EXCEPT ![i] = "ds"]
  /\ dsp' = IF dsp = "choosing" THEN "dsread" ELSE dsp
  /\ UNCHANGED <<woken, dsreq, dqVars, cellVars, diskVars>>

(* DSched reads a request, in DS_idle or as the outcome of DS_busy's       *)
(* choice: it is to go to the controller, or into the queue.               *)
DsRead(i) ==
  /\ cst[i] = "ds"
  /\ \/ dsp = "idle" /\ dsp' = "dci"
     \/ dsp = "dsread" /\ dsp' = "enq"
  /\ dsreq' = i
  /\ cst' = [cst EXCEPT ![i] = "ready"]
  /\ UNCHANGED <<woken, dqVars, cellVars, diskVars>>
-----------------------------------------------------------------------------
(* dci, dio, dint, dco: DSched, DCtrl and Disk. *)
Dci ==
  /\ dsp = "dci" /\ dcp = "dci"
  /\ dsp' = "busy"
  /\ dcp' = "dio" /\ dcreq' = dsreq
  /\ UNCHANGED <<clientVars, dsreq, dqVars, cellVars, disk>>

Dio ==
  /\ dcp = "dio" /\ disk = "dio"
  /\ dcp' = "dint" /\ disk' = "dint"
  /\ UNCHANGED <<clientVars, schedVars, dqVars, cellVars, dcreq>>

Dint ==
  /\ dcp = "dint" /\ disk = "dint"
  /\ dcp' = "dco" /\ disk' = "dio"
  /\ UNCHANGED <<clientVars, schedVars, dqVars, cellVars, dcreq>>

(* DS_busy's choice has enabled dco, to which nobody is writing, and ds.   *)
Enable ==
  /\ dsp = "busy"
  /\ dsp' = "choosing"
  /\ UNCHANGED <<clientVars, dsreq, dqVars, cellVars, diskVars>>

(* It takes dco: DCtrl was there before, or comes while it waits. *)
Dco ==
  /\ dsp \in {"busy", "choosing"} /\ dcp = "dco"
  /\ dsp' = "reply" /\ dsreq' = dcreq
  /\ dcp' = "dci"
  /\ UNCHANGED <<clientVars, dqVars, cellVars, dcreq, disk>>
-----------------------------------------------------------------------------
(* ack: the clients write, DSched calls cond_read for the one it served. *)
AckAsleep == {i \in Clients : cst[i] = "ack" /\ i \notin woken}

(* cond_read begins: it signals one writer, if there is one asleep. *)
AckRead ==
  /\ dsp = "reply"
  /\ dsp' = "ack"
  /\ IF AckAsleep = {} THEN UNCHANGED woken
     ELSE \E i \in AckAsleep : woken' = woken \cup {i}
  /\ UNCHANGED <<cst, dsreq, dqVars, cellVars, diskVars>>

(* Mutant of Accepted: any client is acknowledged. *)
AcceptedAny(i) == dsp = "ack"

(* cond_read's condition takes the content of i's write. *)
Accepted(i) == dsp = "ack" /\ dsreq = i

(* A client that begins its write, or is woken in it, tests: the reader    *)
(* takes its content, or it sleeps.                                        *)

AckWrite(i) ==
  /\ cst[i] = "ready" \/ i \in woken
  /\ \/ /\ Accepted(i)
        /\ cst' = [cst EXCEPT ![i] = "end"]
        /\ dsp' = "deq"
     \/ /\ ~Accepted(i)
        /\ cst' = [cst EXCEPT ![i] = "ack"]
        /\ UNCHANGED dsp
  /\ woken' = woken \ {i}
  /\ UNCHANGED <<dsreq, dqVars, cellVars, diskVars>>
-----------------------------------------------------------------------------
(* enq, deq, empty, next: DSched and DQ. *)
Enq ==
  /\ dsp = "enq" /\ dqp = "choose"
  /\ dsp' = "busy"
  /\ dqp' = "left" /\ dqreq' = dsreq
  /\ UNCHANGED <<clientVars, dsreq, dqi, cellVars, diskVars>>

(* DQ(i) with i < 2 chooses between enq and deq; DQ(2) waits for deq.      *)
Deq ==
  /\ dsp = "deq"
  /\ dsp' = "next"
  /\ \/ dqp = "choose" /\ dqi = 0 /\ dqp' = "empty"
     \/ dqp = "choose" /\ dqi > 0 /\ dqp' = "X"
     \/ dqp = "deq2" /\ dqp' = "shift2"
  /\ UNCHANGED <<clientVars, dsreq, dqi, dqreq, cellVars, diskVars>>

Empty ==
  /\ dsp = "next" /\ dqp = "empty"
  /\ dsp' = "idle" /\ dqp' = "choose"
  /\ UNCHANGED <<clientVars, dsreq, dqi, dqreq, cellVars, diskVars>>

(* Mutant of NextReq: DQ's i is not decremented. *)
NextReqKeepsI ==
  /\ dsp = "next" /\ dqp = "next"
  /\ dsp' = "dci" /\ dsreq' = dqreq
  /\ dqp' = "choose"
  /\ UNCHANGED <<clientVars, dqi, dqreq, cellVars, diskVars>>

(* Mutant of NextReq: DQ(0) answers deq with a next, as if it had one. *)
NextReqOfNone ==
  /\ dsp = "next" /\ dqp \in {"next", "empty"}
  /\ dsp' = "dci" /\ dsreq' = dqreq
  /\ dqp' = "choose" /\ dqi' = dqi - 1
  /\ UNCHANGED <<clientVars, dqreq, cellVars, diskVars>>

NextReq ==
  /\ dsp = "next" /\ dqp = "next"
  /\ dsp' = "dci" /\ dsreq' = dqreq
  /\ dqp' = "choose" /\ dqi' = dqi - 1
  /\ UNCHANGED <<clientVars, dqreq, cellVars, diskVars>>
-----------------------------------------------------------------------------
(* left, comm, right, shift: DQ and the CELLs. *)
Left ==
  /\ dqp = "left" /\ cell[1] = "left"
  /\ dqp' = "shift"
  /\ cell' = [cell EXCEPT ![1] = "shift"]
  /\ creq' = [creq EXCEPT ![1] = dqreq]
  /\ UNCHANGED <<clientVars, schedVars, dqi, dqreq, diskVars>>

Comm ==
  /\ cell[1] = "right" /\ cell[2] = "left"
  /\ cell' = <<"left", "shift">>
  /\ creq' = [creq EXCEPT ![2] = creq[1]]
  /\ UNCHANGED <<clientVars, schedVars, dqVars, diskVars>>

Right ==
  /\ cell[2] = "right" /\ dqp = "X"
  /\ cell' = [cell EXCEPT ![2] = "left"]
  /\ dqp' = "next" /\ dqreq' = creq[2]
  /\ UNCHANGED <<clientVars, schedVars, dqi, creq, diskVars>>

CellsAtShift == {k \in {1, 2} : cell[k] = "shift"}

(* Where DQ goes from shift: DQ(i) on to DQ(i + 1), DQ(2) and X(i) to X(i). *)
DqShifts ==
  \/ dqp = "shift" /\ dqi = 0 /\ dqp' = "choose" /\ dqi' = 1
  \/ dqp = "shift" /\ dqi = 1 /\ dqp' = "deq2" /\ dqi' = 2
  \/ dqp \in {"shift2", "X"} /\ dqp' = "X" /\ UNCHANGED dqi

ShiftWithCell(k) ==
  /\ k \in CellsAtShift
  /\ DqShifts
  /\ cell' = [cell EXCEPT ![k] = "right"]
  /\ UNCHANGED <<clientVars, schedVars, dqreq, creq, diskVars>>

(* Nothing keeps the two CELLs from meeting each other. *)
ShiftCells ==
  /\ CellsAtShift = {1, 2}
  /\ cell' = <<"right", "right">>
  /\ UNCHANGED <<clientVars, schedVars, dqVars, creq, diskVars>>
-----------------------------------------------------------------------------
Next ==
  \/ \E i \in Clients : DsWrite(i) \/ DsRead(i) \/ AckWrite(i)
  \/ Dci \/ Dio \/ Dint \/ Enable \/ Dco \/ AckRead
  \/ Enq \/ Deq \/ Empty \/ NextReq
  \/ Left \/ Comm \/ Right
  \/ \E k \in {1, 2} : ShiftWithCell(k)
  \/ ShiftCells

SafeSpec == Init /\ [][Next]_vars

(* As long as some process can go on, one does. *)
Spec == SafeSpec /\ WF_vars(Next)
-----------------------------------------------------------------------------
TypeOK ==
  /\ cst \in [Clients -> {"new", "ds", "ready", "ack", "end"}]
  /\ woken \subseteq Clients
  /\ dsp \in {"idle", "dci", "busy", "choosing", "dsread", "enq", "reply", "ack",
              "deq", "next"}
  /\ dsreq \in Clients \cup {None}
  /\ dqp \in {"choose", "left", "shift", "deq2", "shift2", "empty", "X", "next"}
  /\ dqi \in 0 .. 2
  /\ dqreq \in Clients \cup {None}
  /\ cell \in [{1, 2} -> {"left", "shift", "right"}]
  /\ creq \in [{1, 2} -> Clients \cup {None}]
  /\ dcp \in {"dci", "dio", "dint", "dco"}
  /\ dcreq \in Clients \cup {None}
  /\ disk \in {"dio", "dint"}

(* The CELLs that hold a request. *)
Full == {k \in {1, 2} : cell[k] # "left"}

(* DQ knows by its i alone how many requests the CELLs hold: it says       *)
(* "empty" only when there is none, and offers enq only when a CELL is     *)
(* free, though it does not see them move.                                 *)
CountsQueued ==
  Cardinality(Full) = CASE dqp = "shift" -> dqi + 1
                        [] dqp = "next" -> dqi - 1
                        [] OTHER -> dqi

(* DSched, DCtrl and DQ keep in step without seeing each other's state:    *)
(* DCtrl is at work exactly while DSched is busy, DQ answers a deq exactly *)
(* while DSched waits for that answer, DSched is idle only when DQ has     *)
(* nothing, what they serve or pass on is a request, and whom cond_read    *)
(* woke is still in its write to ack.                                      *)
InStep ==
  /\ (dcp # "dci") <=> dsp \in {"busy", "choosing", "dsread", "enq"}
  /\ dqp \in {"shift2", "empty", "X", "next"} <=> dsp = "next"
  /\ dsp = "idle" => dqp = "choose" /\ dqi = 0
  /\ dqp = "empty" => dqi = 0
  /\ dsp \in {"dci", "enq", "reply", "ack"} => dsreq # None
  /\ dcp # "dci" => dcreq # None
  /\ dqp \in {"left", "next"} => dqreq # None
  /\ \A k \in Full : creq[k] # None
  /\ \A i \in woken : cst[i] = "ack"

(* The server's requests, the one in service apart, oldest first: in DQ on *)
(* its way out, in the second CELL, in the first, in DQ on its way in, in  *)
(* DSched's hands.                                                         *)
One(holds, i) == IF holds THEN <<i>> ELSE <<>>

Queued ==
  One(dqp = "next", dqreq) \o One(cell[2] # "left", creq[2])
    \o One(cell[1] # "left", creq[1]) \o One(dqp = "left", dqreq)
    \o One(dsp = "enq", dsreq)

Serving == CASE dsp \in {"dci", "reply", "ack"} -> dsreq
             [] dsp \in {"busy", "choosing", "dsread", "enq"} -> dcreq
             [] OTHER -> None

Performed == dsp \in {"reply", "ack"} \/ dcp = "dco"

Stage(where) == CASE where = "ds" -> "asking"
                  [] where \in {"ready", "ack"} -> "accepted"
                  [] where = "end" -> "done"
                  [] OTHER -> "new"

Abstract == INSTANCE FifoServer WITH
  st <- [i \in Clients |-> Stage(cst[i])],
  queue <- Queued,
  serving <- Serving,
  performed <- Performed

(* Whatever way the requests take through DQ and the CELLs, they are       *)
(* served in the order DSched read them, one at a time, and a client's     *)
(* write to ack ends only after the disk has performed its own request.    *)
RefinesFifoServer == Abstract!SafeSpec

(* cond_read waits for a client that sleeps in its write. *)
AckLost == dsp = "ack" /\ dsreq \in AckAsleep

(* The CELLs have met each other at shift and DQ waits there for ever.     *)
ShiftTaken == dqp \in {"shift", "shift2"} /\ cell = <<"right", "right">>

(* Every client ends ("-> SKIP"), unless the server stops in one of two    *)
(* ways: a wakeup of cond_read's went to the wrong client, or the CELLs    *)
(* used up a shift meant for DQ and one of them.                           *)
EveryClientEnds ==
  \/ \A i \in Clients : <>(cst[i] = "end")
  \/ <>[]AckLost
  \/ <>[]ShiftTaken
=============================================================================
