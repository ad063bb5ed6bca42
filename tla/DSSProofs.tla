------------------------------ MODULE DSSProofs ------------------------------
(***************************************************************************)
(* The disk server for every finite set of clients: it counts its queue    *)
(* right and serves its requests in the order in which it read them.       *)
(***************************************************************************)
EXTENDS DSS, FiniteSetTheorems, SequenceTheorems, TLAPS

Inv == TypeOK /\ CountsQueued /\ InStep

IsFull(c, k) == IF c[k] # "left" THEN 1 ELSE 0

(* The full CELLs are counted one by one.                                  *)
LEMMA FullCount ==
  ASSUME NEW c
  PROVE  Cardinality({k \in {1, 2} : c[k] # "left"}) = IsFull(c, 1) + IsFull(c, 2)
  <1> DEFINE F == {k \in {1, 2} : c[k] # "left"}
  <1>1. Cardinality({}) = 0
    BY FS_EmptySet
  <1>2. Cardinality({1}) = 1 /\ Cardinality({2}) = 1 /\ IsFiniteSet({1})
    BY FS_Singleton
  <1>3. Cardinality({1, 2}) = 2
    <2>1. {1} \cup {2} = {1, 2} /\ 2 \notin {1}
      OBVIOUS
    <2>2. Cardinality({1} \cup {2}) = Cardinality({1}) + 1
      BY <1>2, <2>1, FS_AddElement
    <2>3. QED
      BY <1>2, <2>1, <2>2
  <1>4. CASE c[1] # "left" /\ c[2] # "left"
    BY <1>3, <1>4, F = {1, 2} DEF IsFull
  <1>5. CASE c[1] # "left" /\ c[2] = "left"
    BY <1>2, <1>5, F = {1} DEF IsFull
  <1>6. CASE c[1] = "left" /\ c[2] # "left"
    BY <1>2, <1>6, F = {2} DEF IsFull
  <1>7. CASE c[1] = "left" /\ c[2] = "left"
    BY <1>1, <1>7, F = {} DEF IsFull
  <1>8. QED
    BY <1>4, <1>5, <1>6, <1>7

(* Both states of a step. *)
LEMMA Counted ==
  /\ Cardinality(Full) = IsFull(cell, 1) + IsFull(cell, 2)
  /\ Cardinality(Full') = IsFull(cell', 1) + IsFull(cell', 2)
  BY FullCount DEF Full

(* The system as SYS sets it up satisfies the invariant. *)
LEMMA InitInv == Init => Inv
  BY Counted DEF Init, Inv, TypeOK, CountsQueued, InStep, IsFull, Full
  
(* No step of the disk server breaks the invariant.                        *)
LEMMA NextInv == Inv /\ [Next]_vars => Inv'
  <1> SUFFICES ASSUME Inv, [Next]_vars
               PROVE  Inv'
    OBVIOUS
  <1> USE Counted
      DEF Inv, TypeOK, CountsQueued, InStep, Full, IsFull, clientVars,
          schedVars, dqVars, cellVars, diskVars
  <1>1. ASSUME NEW i \in Clients, DsWrite(i)
        PROVE  Inv'
    BY <1>1 DEF DsWrite
  <1>2. ASSUME NEW i \in Clients, DsRead(i)
        PROVE  Inv'
    BY <1>2, DSSAssumption DEF DsRead
  <1>3. ASSUME NEW i \in Clients, AckWrite(i)
        PROVE  Inv'
    BY <1>3 DEF AckWrite, Accepted
  <1>4. CASE Dci \/ Dio \/ Dint
    BY <1>4 DEF Dci, Dio, Dint
  <1>5. CASE Enable \/ Dco
    BY <1>5 DEF Enable, Dco
  <1>6. CASE AckRead
    BY <1>6 DEF AckRead, AckAsleep
  <1>7. CASE Enq \/ Deq \/ Empty
    BY <1>7 DEF Enq, Deq, Empty
  <1>8. CASE NextReq
    BY <1>8 DEF NextReq
  <1>9. CASE Left
    BY <1>9 DEF Left
  <1>10. CASE Comm
    BY <1>10 DEF Comm
  <1>11. CASE Right
    BY <1>11 DEF Right
  <1>12. ASSUME NEW k \in {1, 2}, ShiftWithCell(k)
         PROVE  Inv'
    BY <1>12 DEF ShiftWithCell, DqShifts, CellsAtShift
  <1>13. CASE ShiftCells
    BY <1>13 DEF ShiftCells, CellsAtShift
  <1>14. CASE UNCHANGED vars
    BY <1>14 DEF vars
  <1>15. QED
    BY <1>1, <1>2, <1>3, <1>4, <1>5, <1>6, <1>7, <1>8, <1>9, <1>10, <1>11,
       <1>12, <1>13, <1>14
    DEF Next

(* The invariant holds in every reachable state. *)
LEMMA Invariance == SafeSpec => []Inv
  BY InitInv, NextInv, PTL DEF SafeSpec
-----------------------------------------------------------------------------
(* A place of the queue that moves its request to an empty place behind or *)
(* before it leaves the queue as it was.                                   *)
LEMMA Moved ==
  ASSUME NEW S, NEW s \in Seq(S), NEW t \in Seq(S)
  PROVE  (s \o t) \o <<>> = (s \o <<>>) \o t
  BY ConcatEmptySeq, ConcatProperties

HeadIs(q, x, rest) == q # <<>> /\ Head(q) = x /\ Tail(q) = rest

(* A request in the first place is the head of the queue. *)
LEMMA First ==
  ASSUME NEW x \in Clients, NEW s \in Seq(Clients), NEW t \in Seq(Clients),
         NEW u \in Seq(Clients), NEW v \in Seq(Clients)
  PROVE  HeadIs(<<x>> \o s \o t \o u \o v, x, <<>> \o s \o t \o u \o v)
  <1>1. <<x>> \in Seq(Clients)
    OBVIOUS
  <1>2. /\ s \o t \in Seq(Clients)
        /\ (s \o t) \o u \in Seq(Clients)
        /\ ((s \o t) \o u) \o v \in Seq(Clients)
    BY ConcatProperties
  <1>3. <<>> \o s = s
    BY ConcatEmptySeq
  <1>4. <<x>> \o s \o t \o u \o v = <<x>> \o (((s \o t) \o u) \o v)
    <2>1. (<<x>> \o s) \o t = <<x>> \o (s \o t)
      BY <1>1, ConcatAssociative
    <2>2. (<<x>> \o (s \o t)) \o u = <<x>> \o ((s \o t) \o u)
      BY <1>1, <1>2, ConcatAssociative
    <2>3. (<<x>> \o ((s \o t) \o u)) \o v = <<x>> \o (((s \o t) \o u) \o v)
      BY <1>1, <1>2, ConcatAssociative
    <2>4. QED
      BY <2>1, <2>2, <2>3
  <1>5. ASSUME NEW r \in Seq(Clients)
        PROVE  HeadIs(<<x>> \o r, x, r)
    <2>1. /\ <<x>> \o r \in Seq(Clients)
          /\ Len(<<x>> \o r) = 1 + Len(r)
          /\ \A i \in 1 .. 1 + Len(r) :
               (<<x>> \o r)[i] = IF i <= 1 THEN <<x>>[i] ELSE r[i - 1]
      BY <1>1, ConcatProperties
    <2>2. Len(r) \in Nat /\ <<x>>[1] = x
      BY LenProperties
    <2>3. <<x>> \o r # <<>>
      BY <2>1, <2>2, EmptySeq
    <2>4. Head(<<x>> \o r) = x
      BY <2>1, <2>2
    <2>5. /\ Tail(<<x>> \o r) \in Seq(Clients)
          /\ Len(Tail(<<x>> \o r)) = Len(r)
          /\ \A i \in 1 .. Len(r) : Tail(<<x>> \o r)[i] = (<<x>> \o r)[i + 1]
      BY <2>1, <2>2, <2>3, HeadTailProperties
    <2>6. \A i \in 1 .. Len(r) : Tail(<<x>> \o r)[i] = r[i]
      BY <2>1, <2>2, <2>5
    <2>7. Tail(<<x>> \o r) = r
      BY <2>5, <2>6, SeqEqual
    <2>8. QED
      BY <2>3, <2>4, <2>7 DEF HeadIs
  <1>6. QED
    BY <1>2, <1>3, <1>4, <1>5
-----------------------------------------------------------------------------
(* The five places of the queue. *)
Leaving == One(dqp = "next", dqreq)
InCell(k) == One(cell[k] # "left", creq[k])
Entering == One(dqp = "left", dqreq)
InHand == One(dsp = "enq", dsreq)

(* The queue is its places in a row. *)
LEMMA QueuedIs == Queued = Leaving \o InCell(2) \o InCell(1) \o Entering \o InHand
  BY DEF Queued, Leaving, InCell, Entering, InHand

(* Each place holds at most one request of a client. *)
LEMMA PlacesType ==
  ASSUME Inv
  PROVE  /\ Leaving \in Seq(Clients) /\ Entering \in Seq(Clients)
         /\ InHand \in Seq(Clients)
         /\ \A k \in {1, 2} : InCell(k) \in Seq(Clients)
         /\ Leaving \o InCell(2) \in Seq(Clients)
         /\ Leaving \o InCell(2) \o InCell(1) \in Seq(Clients)
         /\ Leaving \o InCell(2) \o InCell(1) \o Entering \in Seq(Clients)
  <1>1. \A i \in Clients : <<i>> \in Seq(Clients)
    OBVIOUS
  <1>2. <<>> \in Seq(Clients)
    OBVIOUS
  <1>3. /\ Leaving \in Seq(Clients) /\ Entering \in Seq(Clients)
        /\ InHand \in Seq(Clients)
    BY <1>1, <1>2
    DEF Inv, TypeOK, InStep, Leaving, Entering, InHand, One
  <1>4. \A k \in {1, 2} : InCell(k) \in Seq(Clients)
    BY <1>1, <1>2 DEF Inv, TypeOK, InStep, Full, InCell, One
  <1>5. Leaving \o InCell(2) \in Seq(Clients)
    BY <1>3, <1>4, ConcatProperties
  <1>6. Leaving \o InCell(2) \o InCell(1) \in Seq(Clients)
    BY <1>4, <1>5, ConcatProperties
  <1>7. Leaving \o InCell(2) \o InCell(1) \o Entering \in Seq(Clients)
    BY <1>3, <1>6, ConcatProperties
  <1>8. QED
    BY <1>3, <1>4, <1>5, <1>6, <1>7

(* A step that leaves the places alone leaves the queue alone. *)
LEMMA PlacesKept ==
  ASSUME UNCHANGED <<Leaving, InCell(1), InCell(2), Entering, InHand>>
  PROVE  UNCHANGED Queued
  BY DEF Queued, Leaving, InCell, Entering, InHand

(* The server begins with no request. *)
LEMMA InitRefines == Init => Abstract!Init
  <1> SUFFICES ASSUME Init
               PROVE  Abstract!Init
    OBVIOUS
  <1>1. [i \in Clients |-> Stage(cst[i])] = [i \in Clients |-> "new"]
    BY DEF Init, Stage
  <1>2. Queued = <<>>
    BY ConcatEmptySeq, EmptySeq DEF Init, Queued, One
  <1>3. Serving = None /\ Performed = FALSE
    BY DEF Init, Serving, Performed
  <1>4. QED
    BY <1>1, <1>2, <1>3 DEF Abstract!Init

(* A client's request enters the server's hands: it joins the queue, or is *)
(* served at once if there is none.                                        *)
LEMMA DsReadRefines ==
  ASSUME Inv, NEW i \in Clients, DsRead(i)
  PROVE  Abstract!Start(i) \/ Abstract!Enqueue(i)
  <1> USE DEF Inv, TypeOK, InStep
  <1>1. /\ Stage(cst[i]) = "asking"
        /\ [j \in Clients |-> Stage(cst'[j])]
             = [[j \in Clients |-> Stage(cst[j])] EXCEPT ![i] = "accepted"]
    BY DEF DsRead, Stage
  <1>2. UNCHANGED <<Performed, Leaving, InCell(1), InCell(2), Entering>>
    BY DEF DsRead, Performed, Leaving, InCell, Entering, dqVars, cellVars, diskVars
  <1>3. CASE dsp = "idle"
    <2>1. /\ InHand = <<>> /\ InHand' = <<>>
          /\ Leaving = <<>> /\ Entering = <<>>
      BY <1>3 DEF DsRead, InHand, Leaving, Entering, One
    <2>2. InCell(1) = <<>> /\ InCell(2) = <<>>
      BY <1>3, Counted DEF CountsQueued, IsFull, InCell, One
    <2>3. Queued = <<>>
      BY <2>1, <2>2, EmptySeq, ConcatEmptySeq, QueuedIs
    <2>4. UNCHANGED Queued
      BY <1>2, <2>1, PlacesKept
    <2>5. Serving = None /\ Serving' = i
      BY <1>3 DEF DsRead, Serving
    <2>6. QED
      BY <1>1, <1>2, <2>3, <2>4, <2>5 DEF Abstract!Start
  <1>4. CASE dsp = "dsread"
    <2>1. InHand = <<>> /\ InHand' = <<i>>
      BY <1>4 DEF DsRead, InHand, One
    <2>2. Queued' = Append(Queued, i)
      <3> DEFINE before == Leaving \o InCell(2) \o InCell(1) \o Entering
      <3>1. before \in Seq(Clients)
        BY PlacesType
      <3>2. Queued = before
        BY <2>1, <3>1, QueuedIs, ConcatEmptySeq
      <3>3. Queued' = before \o <<i>>
        BY <1>2, <2>1 DEF Queued, Leaving, InCell, Entering, InHand
      <3>4. before \o <<i>> = Append(before, i)
        BY <3>1
      <3>5. QED
        BY <3>2, <3>3, <3>4
    <2>3. Serving # None /\ Serving' = Serving
      BY <1>4, DSSAssumption DEF DsRead, Serving, diskVars
    <2>4. QED
      BY <1>1, <1>2, <2>2, <2>3 DEF Abstract!Enqueue
  <1>5. QED
    BY <1>3, <1>4 DEF DsRead

(* The clients' other steps: a request is made, an acknowledgement taken.  *)
LEMMA ClientRefines ==
  ASSUME Inv, NEW i \in Clients
  PROVE  /\ DsWrite(i) => Abstract!Ask(i)
         /\ AckWrite(i) => Abstract!Acknowledge \/ UNCHANGED Abstract!vars
  <1> USE DEF Inv, TypeOK, InStep, schedVars, dqVars, cellVars, diskVars
  <1>1. ASSUME DsWrite(i)
        PROVE  Abstract!Ask(i)
    <2>1. /\ Stage(cst[i]) = "new"
          /\ [j \in Clients |-> Stage(cst'[j])]
               = [[j \in Clients |-> Stage(cst[j])] EXCEPT ![i] = "asking"]
      BY <1>1 DEF DsWrite, Stage
    <2>2. UNCHANGED <<Serving, Performed>>
      BY <1>1 DEF DsWrite, Serving, Performed
    <2>3. UNCHANGED Queued
      BY <1>1 DEF DsWrite, Queued
    <2>4. QED
      BY <2>1, <2>2, <2>3 DEF Abstract!Ask
  <1>2. ASSUME AckWrite(i), ~Accepted(i)
        PROVE  UNCHANGED Abstract!vars
    <2>1. cst' = [cst EXCEPT ![i] = "ack"] /\ cst[i] \in {"ready", "ack"}
      BY <1>2 DEF AckWrite
    <2>2. [j \in Clients |-> Stage(cst'[j])] = [j \in Clients |-> Stage(cst[j])]
      BY <2>1 DEF Stage
    <2>3. UNCHANGED <<Queued, Serving, Performed>>
      BY <1>2 DEF AckWrite, Queued, Serving, Performed
    <2>4. QED
      BY <2>2, <2>3 DEF Abstract!vars
  <1>3. ASSUME AckWrite(i), Accepted(i)
        PROVE  Abstract!Acknowledge
    <2>1. cst' = [cst EXCEPT ![i] = "end"] /\ cst[i] \in {"ready", "ack"}
      BY <1>3 DEF AckWrite
    <2>2. /\ Stage(cst[i]) = "accepted"
          /\ [j \in Clients |-> Stage(cst'[j])]
               = [[j \in Clients |-> Stage(cst[j])] EXCEPT ![i] = "done"]
      BY <2>1 DEF Stage
    <2>3. Serving = i /\ Performed /\ i # None
      BY <1>3, DSSAssumption DEF Accepted, Serving, Performed
    <2>4. Serving' = None /\ Performed' = FALSE
      BY <1>3 DEF AckWrite, Accepted, Serving, Performed
    <2>5. UNCHANGED Queued
      BY <1>3 DEF AckWrite, Accepted, Queued, One
    <2>6. QED
      BY <2>2, <2>3, <2>4, <2>5 DEF Abstract!Acknowledge
  <1>4. QED
    BY <1>1, <1>2, <1>3

(* The steps of DSched, DCtrl and Disk with each other. *)
LEMMA ServiceRefines ==
  ASSUME Inv
  PROVE  /\ Dci \/ Dio \/ Enable \/ Dco \/ AckRead => UNCHANGED Abstract!vars
         /\ Dint => Abstract!Perform
  <1> USE DEF Inv, TypeOK, InStep, clientVars, schedVars, dqVars, cellVars, diskVars
  <1>1. ASSUME Dci \/ Dio \/ Enable \/ Dco \/ AckRead
        PROVE  UNCHANGED Abstract!vars
    <2>1. UNCHANGED <<cst, dqVars, cellVars>>
      BY <1>1 DEF Dci, Dio, Enable, Dco, AckRead
    <2>2. UNCHANGED InHand
      BY <1>1 DEF Dci, Dio, Enable, Dco, AckRead, InHand, One
    <2>3. UNCHANGED Queued
      <3>1. UNCHANGED <<Leaving, InCell(1), InCell(2), Entering>>
        BY <2>1 DEF Leaving, InCell, Entering
      <3>2. QED
        BY <2>2, <3>1, PlacesKept
    <2>4. UNCHANGED <<Serving, Performed>>
      BY <1>1 DEF Dci, Dio, Enable, Dco, AckRead, Serving, Performed
    <2>5. QED
      BY <2>1, <2>3, <2>4 DEF Abstract!vars
  <1>2. ASSUME Dint
        PROVE  Abstract!Perform
    <2>1. UNCHANGED <<cst, Queued, Serving>>
      BY <1>2 DEF Dint, Queued, Serving
    <2>2. Serving # None /\ ~Performed /\ Performed'
      BY <1>2 DEF Dint, Serving, Performed
    <2>3. QED
      BY <2>1, <2>2 DEF Abstract!Perform
  <1>3. QED
    BY <1>1, <1>2

(* Requests on their way through DQ and the CELLs keep their order.        *)
LEMMA QueueRefines ==
  ASSUME Inv, Enq \/ Deq \/ Empty \/ Left \/ Comm \/ Right \/ ShiftCells
                \/ \E k \in {1, 2} : ShiftWithCell(k)
  PROVE  UNCHANGED Abstract!vars
  <1> USE DEF Inv, TypeOK, InStep, clientVars, schedVars, dqVars, cellVars, diskVars
  <1>1. UNCHANGED <<cst, Serving, Performed>>
    BY DEF Enq, Deq, Empty, Left, Comm, Right, ShiftCells, ShiftWithCell,
           CellsAtShift, Serving, Performed
  <1>2. CASE Enq
    <2>1. UNCHANGED <<Leaving, InCell(1), InCell(2)>>
      BY <1>2 DEF Enq, Leaving, InCell, One
    <2>2. Entering = <<>> /\ InHand = Entering' /\ InHand' = <<>>
      BY <1>2 DEF Enq, Entering, InHand, One
    <2>3. UNCHANGED Queued
      <3> DEFINE before == Leaving \o InCell(2) \o InCell(1)
      <3>1. Queued = (before \o <<>>) \o InHand
        BY <2>2, QueuedIs
      <3>2. Queued' = (before \o InHand) \o <<>>
        BY <2>1, <2>2 DEF Queued, Leaving, InCell, Entering, InHand
      <3>3. before \in Seq(Clients) /\ InHand \in Seq(Clients)
        BY PlacesType
      <3> HIDE DEF before
      <3>4. QED
        BY <3>1, <3>2, <3>3, Moved
    <2>4. QED
      BY <1>1, <2>3 DEF Abstract!vars
  <1>3. CASE Left
    <2>1. UNCHANGED <<Leaving, InCell(2), InHand>>
      BY <1>3 DEF Left, Leaving, InCell, InHand, One
    <2>2. InCell(1) = <<>> /\ Entering = InCell(1)' /\ Entering' = <<>>
      BY <1>3 DEF Left, Entering, InCell, One
    <2>3. UNCHANGED Queued
      BY <2>1, <2>2, PlacesType, Moved
      DEF Queued, Leaving, InCell, Entering, InHand
    <2>4. QED
      BY <1>1, <2>3 DEF Abstract!vars
  <1>4. CASE Comm
    <2>1. UNCHANGED <<Leaving, Entering, InHand>>
      BY <1>4 DEF Comm, Leaving, Entering, InHand, One
    <2>2. InCell(2) = <<>> /\ InCell(1) = InCell(2)' /\ InCell(1)' = <<>>
      BY <1>4 DEF Comm, InCell, One
    <2>3. UNCHANGED Queued
      BY <2>1, <2>2, PlacesType, Moved
      DEF Queued, Leaving, InCell, Entering, InHand
    <2>4. QED
      BY <1>1, <2>3 DEF Abstract!vars
  <1>5. CASE Right
    <2>1. UNCHANGED <<InCell(1), Entering, InHand>>
      BY <1>5 DEF Right, InCell, Entering, InHand, One
    <2>2. Leaving = <<>> /\ InCell(2) = Leaving' /\ InCell(2)' = <<>>
      BY <1>5 DEF Right, Leaving, InCell, One
    <2>3. <<>> \o InCell(2) = InCell(2) \o <<>>
      BY PlacesType, ConcatEmptySeq
    <2>4. UNCHANGED Queued
      BY <2>1, <2>2, <2>3 DEF Queued, Leaving, InCell, Entering, InHand
    <2>5. QED
      BY <1>1, <2>4 DEF Abstract!vars
  <1>6. CASE Deq \/ Empty \/ ShiftCells \/ \E k \in {1, 2} : ShiftWithCell(k)
    <2>1. UNCHANGED <<Leaving, Entering, InHand>>
      BY <1>6
      DEF Deq, Empty, ShiftCells, ShiftWithCell, DqShifts, Leaving, Entering,
          InHand, One
    <2>2. UNCHANGED <<InCell(1), InCell(2)>>
      BY <1>6
      DEF Deq, Empty, ShiftCells, ShiftWithCell, CellsAtShift, InCell, One
    <2>3. QED
      BY <1>1, <2>1, <2>2, PlacesKept DEF Abstract!vars
  <1>7. QED
    BY <1>2, <1>3, <1>4, <1>5, <1>6

(* What next delivers is the oldest request. *)
LEMMA NextReqRefines ==
  ASSUME Inv, NextReq
  PROVE  Abstract!Dequeue
  <1> USE DEF Inv, TypeOK, InStep, clientVars, cellVars, diskVars
  <1>1. UNCHANGED <<cst, Performed, InCell(1), InCell(2)>>
    BY DEF NextReq, Performed, InCell
  <1>2. UNCHANGED <<Entering, InHand>>
    BY DEF NextReq, Entering, InHand, One
  <1>3. Leaving = <<dqreq>> /\ Leaving' = <<>> /\ dqreq \in Clients
    BY DEF NextReq, Leaving, One
  <1>4. HeadIs(Queued, dqreq, <<>> \o InCell(2) \o InCell(1) \o Entering \o InHand)
    <2>1. Queued = <<dqreq>> \o InCell(2) \o InCell(1) \o Entering \o InHand
      BY <1>3, QueuedIs
    <2>2. /\ InCell(2) \in Seq(Clients) /\ InCell(1) \in Seq(Clients)
          /\ Entering \in Seq(Clients) /\ InHand \in Seq(Clients)
      BY PlacesType
    <2> HIDE DEF Inv, TypeOK, InStep
    <2>3. QED
      BY <1>3, <2>1, <2>2, First
  <1>5. Queued' = Tail(Queued)
    BY <1>1, <1>2, <1>3, <1>4
    DEF HeadIs, Queued, Leaving, InCell, Entering, InHand
  <1>6. Serving = None /\ Serving' = dqreq
    BY DEF NextReq, Serving
  <1>7. QED
    BY <1>1, <1>4, <1>5, <1>6 DEF HeadIs, Abstract!Dequeue

(* Every step of the system is a step of the server, or none. *)
LEMMA NextRefines == Inv /\ [Next]_vars => [Abstract!Next]_(Abstract!vars)
  <1> SUFFICES ASSUME Inv, [Next]_vars
               PROVE  [Abstract!Next]_(Abstract!vars)
    OBVIOUS
  <1>1. CASE UNCHANGED vars
    BY <1>1
    DEF vars, clientVars, schedVars, dqVars, cellVars, diskVars, Abstract!vars,
        Queued, Serving, Performed
  <1>2. CASE Next
    BY <1>2, DsReadRefines, ClientRefines, ServiceRefines, QueueRefines,
       NextReqRefines
    DEF Next, Abstract!Next
  <1>3. QED
    BY <1>1, <1>2

(* Every variable keeps its range; DQ's i stays between 0 and 2.           *)
THEOREM TypeCorrect == SafeSpec => []TypeOK
  <1>1. Inv => TypeOK
    BY DEF Inv
  <1>2. QED
    BY <1>1, Invariance, PTL

(* DQ's i is the number of requests in the CELLs, but for one on its way.  *)
THEOREM QueueCounted == SafeSpec => []CountsQueued
  <1>1. Inv => CountsQueued
    BY DEF Inv
  <1>2. QED
    BY <1>1, Invariance, PTL

(* DSched, DCtrl and DQ keep in step.                                      *)
THEOREM KeepInStep == SafeSpec => []InStep
  <1>1. Inv => InStep
    BY DEF Inv
  <1>2. QED
    BY <1>1, Invariance, PTL

(* For any number of clients, requests are served one at a time in the     *)
(* order DSched read them, and a client's write to ack ends only after the *)
(* disk has performed its own request.                                     *)
THEOREM ServesInOrder == SafeSpec => RefinesFifoServer
  BY Invariance, InitRefines, NextRefines, PTL
  DEF SafeSpec, RefinesFifoServer, Abstract!SafeSpec
=============================================================================
