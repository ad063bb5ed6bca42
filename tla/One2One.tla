------------------------------- MODULE One2One -------------------------------
(***************************************************************************)
(* One2OneChannel::read and One2OneChannel::write, one thread at each end  *)
(* (the ends are linear types, so there is never a second reader or        *)
(* writer), no alternative registered: m_pAlt = NULL (AltOne2One has the   *)
(* registered case).                                                       *)
(*                                                                         *)
(* Both threads block on the one condition variable m_cond.  m_sync is     *)
(* never held between two of the actions below: each is one hold of it,    *)
(* from the lock, or from the return of pthread_cond_wait, to the next     *)
(* wait or to the end of the scope of aLock.                               *)
(***************************************************************************)
CONSTANTS Values,   \* what a caller may write
          NoValue   \* contents of a buffer nothing was put into

ASSUME NoValueAssumption == NoValue \notin Values

VARIABLES
  m_bEmpty,  \* TRUE: neither thread has arrived
  m_pBuff,   \* "null" or "wbuf": the writer's buffer, by address
  waiting,   \* threads blocked in pthread_cond_wait(&m_cond, &m_sync)
  rpc,       \* where the reader's thread is
  wpc,       \* where the writer's thread is
  wbuf,      \* contents of the buffer the writer passed to write
  got        \* contents of the buffer the reader passed to read

vars == <<m_bEmpty, m_pBuff, waiting, rpc, wpc, wbuf, got>>

Threads == {"reader", "writer"}

(* idle: outside; lock: called, m_sync not yet held; wait: inside          *)
(* pthread_cond_wait; return: m_sync released for good.                    *)
Places == {"idle", "lock", "wait", "return"}

Init ==
  /\ m_bEmpty = TRUE
  /\ m_pBuff = "null"
  /\ waiting = {}
  /\ rpc = "idle"
  /\ wpc = "idle"
  /\ wbuf = NoValue
  /\ got = NoValue

(* memcpy(buffer, m_pBuff, len): what is in memory at that address now. *)
Deref == IF m_pBuff = "null" THEN "null" ELSE wbuf

(* pthread_cond_signal: wakes some blocked thread, if there is one.  What  *)
(* is left of the blocked threads: *)
Signalled == IF waiting = {} THEN {{}} ELSE {waiting \ {t} : t \in waiting}
-----------------------------------------------------------------------------
ReadCall ==
  /\ rpc = "idle"
  /\ rpc' = "lock"
  /\ UNCHANGED <<m_bEmpty, m_pBuff, waiting, wpc, wbuf, got>>

ReadFirst ==
  /\ rpc = "lock"
  /\ m_bEmpty
  /\ m_bEmpty' = FALSE
  /\ waiting' = waiting \cup {"reader"}
  /\ rpc' = "wait"
  /\ UNCHANGED <<m_pBuff, wpc, wbuf, got>>

(* Mutant of ReadSecond: the channel is not returned to its initial state. *)
ReadSecondNoReset ==
  /\ rpc = "lock"
  /\ ~m_bEmpty
  /\ got' = Deref
  /\ waiting' \in Signalled
  /\ rpc' = "return"
  /\ UNCHANGED <<m_bEmpty, m_pBuff, wpc, wbuf>>

ReadSecond ==
  /\ rpc = "lock"
  /\ ~m_bEmpty
  /\ m_bEmpty' = TRUE
  /\ got' = Deref
  /\ waiting' \in Signalled
  /\ rpc' = "return"
  /\ UNCHANGED <<m_pBuff, wpc, wbuf>>

ReadWake ==
  /\ rpc = "wait"
  /\ "reader" \notin waiting
  /\ got' = Deref
  /\ waiting' \in Signalled
  /\ rpc' = "return"
  /\ UNCHANGED <<m_bEmpty, m_pBuff, wpc, wbuf>>

ReadReturn ==
  /\ rpc = "return"
  /\ rpc' = "idle"
  /\ UNCHANGED <<m_bEmpty, m_pBuff, waiting, wpc, wbuf, got>>
-----------------------------------------------------------------------------
(* The caller fills its buffer, on its stack, and calls write with its     *)
(* address: the previous contents are gone from here on.                   *)
WriteCall(v) ==
  /\ wpc = "idle"
  /\ wpc' = "lock"
  /\ wbuf' = v
  /\ UNCHANGED <<m_bEmpty, m_pBuff, waiting, rpc, got>>

WriteFirst ==
  /\ wpc = "lock"
  /\ m_bEmpty
  /\ m_pBuff' = "wbuf"
  /\ m_bEmpty' = FALSE
  /\ waiting' = waiting \cup {"writer"}
  /\ wpc' = "wait"
  /\ UNCHANGED <<rpc, wbuf, got>>

(* Mutant of WriteSecond: write returns without waiting for the copy. *)
WriteSecondNoWait ==
  /\ wpc = "lock"
  /\ ~m_bEmpty
  /\ m_pBuff' = "wbuf"
  /\ m_bEmpty' = TRUE
  /\ waiting' \in Signalled
  /\ wpc' = "return"
  /\ UNCHANGED <<rpc, wbuf, got>>

WriteSecond ==
  /\ wpc = "lock"
  /\ ~m_bEmpty
  /\ m_pBuff' = "wbuf"
  /\ m_bEmpty' = TRUE
  /\ \E rest \in Signalled : waiting' = rest \cup {"writer"}
  /\ wpc' = "wait"
  /\ UNCHANGED <<rpc, wbuf, got>>

WriteWake ==
  /\ wpc = "wait"
  /\ "writer" \notin waiting
  /\ wpc' = "return"
  /\ UNCHANGED <<m_bEmpty, m_pBuff, waiting, rpc, wbuf, got>>

WriteReturn ==
  /\ wpc = "return"
  /\ wpc' = "idle"
  /\ UNCHANGED <<m_bEmpty, m_pBuff, waiting, rpc, wbuf, got>>
-----------------------------------------------------------------------------
Read == ReadFirst \/ ReadSecond \/ ReadWake \/ ReadReturn

Write == WriteFirst \/ WriteSecond \/ WriteWake \/ WriteReturn

Next ==
  \/ ReadCall
  \/ Read
  \/ \E v \in Values : WriteCall(v)
  \/ Write

(* A thread that can run is eventually run.  No one has to call. *)
Fairness == WF_vars(Read) /\ WF_vars(Write)

SafeSpec == Init /\ [][Next]_vars

Spec == SafeSpec /\ Fairness
-----------------------------------------------------------------------------
(* Every variable keeps its range; in particular no copy is ever made from *)
(* the null address m_pBuff starts with.                                   *)
TypeOK ==
  /\ m_bEmpty \in BOOLEAN
  /\ m_pBuff \in {"null", "wbuf"}
  /\ waiting \subseteq Threads
  /\ rpc \in Places
  /\ wpc \in Places
  /\ wbuf \in Values \cup {NoValue}
  /\ got \in Values \cup {NoValue}

(* The two threads share one condition variable and neither re-tests       *)
(* anything after its wait, so each signal has to find exactly its partner *)
(* asleep, and a thread past its wait has to find what the other left:     *)
(*  - nobody arrived: either nobody sleeps, or a reader was woken by a     *)
(*    writer that sleeps until the copy is made;                           *)
(*  - one arrived: it alone sleeps, and the other is not inside.           *)
Handshake ==
  /\ "reader" \in waiting => rpc = "wait"
  /\ "writer" \in waiting => wpc = "wait" /\ m_pBuff = "wbuf" /\ wbuf \in Values
  /\ wpc = "lock" => wbuf \in Values
  /\ m_bEmpty =>
       \/ waiting = {} /\ rpc # "wait"
       \/ waiting = {"writer"} /\ rpc = "wait"
  /\ ~m_bEmpty =>
       \/ waiting = {"reader"}
       \/ waiting = {"writer"} /\ rpc # "wait"

(* The channel is a rendezvous.  A write is over as soon as the reader has *)
(* signalled it, though its thread may not have run since.                 *)
Abstract == INSTANCE Rendezvous WITH
  wst <- IF wpc = "idle" THEN "idle"
         ELSE IF wpc = "lock" \/ "writer" \in waiting THEN "offering"
         ELSE "done",
  rst <- IF rpc = "idle" THEN "idle"
         ELSE IF rpc = "return" THEN "done"
         ELSE "asking",
  offer <- wbuf

(* read and write synchronize: a value is delivered once, to a read in     *)
(* progress, while the write that offers it is still blocked, and both     *)
(* return when they have met.                                              *)
RefinesRendezvous == Abstract!Spec
=============================================================================
