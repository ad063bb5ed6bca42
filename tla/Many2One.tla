------------------------------ MODULE Many2One ------------------------------
(***************************************************************************)
(* Many2OneChannel::read, cond_read and write: one reader (its end is a    *)
(* linear type) and the writers that share the other end.  No alternative  *)
(* is registered: m_pAlt = NULL.                                           *)
(*                                                                         *)
(* The channel has two mutexes and two condition variables.  A writer      *)
(* keeps m_sync while it waits for m_mxReader ("handoff" below), and the   *)
(* reader keeps m_mxReader, without m_sync, from the end of its first      *)
(* critical section to its wait ("mx" below); every other hold of a mutex  *)
(* begins and ends inside one action.  Hence the owners of the mutexes are *)
(* functions of the program counters.                                      *)
(***************************************************************************)
EXTENDS Naturals, FiniteSets

CONSTANTS
  Writers,
  Values,
  NoValue,
  Guards,   \* the checking functions cond_read is called with, as the sets
            \* of values they accept
  Refill    \* TRUE: a caller of write may reuse its buffer as soon as write
            \* has returned, as its type "data: &a >> a?" lets it;
            \* FALSE: only after the reader has copied from it

ASSUME ConstantsAssumption ==
  /\ IsFiniteSet(Writers)
  /\ NoValue \notin Values
  /\ Guards \subseteq SUBSET Values
  /\ Refill \in BOOLEAN
  /\ "null" \notin Writers

VARIABLES
  m_bReader,   \* a reader has arrived
  m_ulWriter,  \* writers in write
  m_pBuff,     \* "null", or the writer whose buffer it is the address of
  m_func,      \* the checking function; Values when it is NULL
  cond,        \* writers blocked in pthread_cond_wait(&m_cond, &m_sync)
  cdReader,    \* the reader is blocked in pthread_cond_wait(&m_cdReader, ..)
  rpc,         \* where the reader's thread is
  func,        \* what the reader's current, or latest, call accepts
  got,         \* contents of the buffer the reader passed in
  wpc,         \* where each writer's thread is
  buf          \* contents of the buffer each writer passed to write

vars == <<m_bReader, m_ulWriter, m_pBuff, m_func, cond, cdReader,
          rpc, func, got, wpc, buf>>

Init ==
  /\ m_bReader = FALSE
  /\ m_ulWriter = 0
  /\ m_pBuff = "null"
  /\ m_func = Values
  /\ cond = {}
  /\ cdReader = FALSE
  /\ rpc = "idle"
  /\ func = Values
  /\ got = NoValue
  /\ wpc = [w \in Writers |-> "idle"]
  /\ buf = [w \in Writers |-> NoValue]

m_syncFree == \A w \in Writers : wpc[w] # "handoff"

(* Mutant of m_mxReaderFree: write signals without taking m_mxReader. *)
mxReaderIgnored == TRUE

m_mxReaderFree == rpc # "mx"

(* Mutants of MustWait: the loop does not test m_bReader, or m_pBuff. *)
MustWaitAnyTime(w) == m_pBuff # "null" \/ buf[w] \notin m_func

MustWaitAnyBuffer(w) == ~m_bReader \/ buf[w] \notin m_func

(* The condition of write's while loop. *)
MustWait(w) == ~m_bReader \/ m_pBuff # "null" \/ buf[w] \notin m_func

(* memcpy(buffer, m_pBuff, len): what is in memory at that address now. *)
Deref == IF m_pBuff = "null" THEN "null" ELSE buf[m_pBuff]

(* pthread_cond_signal(&m_cond): what it may leave of the blocked writers. *)
Signalled == IF cond = {} THEN {{}} ELSE {cond \ {w} : w \in cond}
-----------------------------------------------------------------------------
(* The reader calls read (the guard is Values) or cond_read. *)
ReadCall(g) ==
  /\ rpc = "idle"
  /\ rpc' = "lock"
  /\ func' = g
  /\ UNCHANGED <<m_bReader, m_ulWriter, m_pBuff, m_func, cond, cdReader,
                 got, wpc, buf>>

(* Mutant of ReadEnter: no writer is signalled. *)
ReadEnterNoSignal ==
  /\ rpc = "lock"
  /\ m_syncFree
  /\ m_func' = func
  /\ m_bReader' = TRUE
  /\ rpc' = "mx"
  /\ UNCHANGED <<m_ulWriter, m_pBuff, cond, cdReader, func, got, wpc, buf>>

(* Mutant of ReadEnter: the checking function is not installed. *)
ReadEnterKeepsFunc ==
  /\ rpc = "lock"
  /\ m_syncFree
  /\ m_bReader' = TRUE
  /\ cond' \in IF m_ulWriter > 0 THEN Signalled ELSE {cond}
  /\ rpc' = "mx"
  /\ UNCHANGED <<m_ulWriter, m_pBuff, m_func, cdReader, func, got, wpc, buf>>

ReadEnter ==
  /\ rpc = "lock"
  /\ m_syncFree
  /\ m_func' = func
  /\ m_bReader' = TRUE
  /\ cond' \in IF m_ulWriter > 0 THEN Signalled ELSE {cond}
  /\ rpc' = "mx"
  /\ UNCHANGED <<m_ulWriter, m_pBuff, cdReader, func, got, wpc, buf>>

ReadWait ==
  /\ rpc = "mx"
  /\ cdReader' = TRUE
  /\ rpc' = "wait"
  /\ UNCHANGED <<m_bReader, m_ulWriter, m_pBuff, m_func, cond, func, got,
                 wpc, buf>>

(* Woken: m_mxReader is taken and given back, then m_sync is taken.  read  *)
(* leaves m_func as it is, which is NULL already.                          *)
ReadCopy ==
  /\ rpc = "wait"
  /\ ~cdReader
  /\ m_syncFree
  /\ got' = Deref
  /\ m_pBuff' = "null"
  /\ m_bReader' = FALSE
  /\ m_func' = Values
  /\ rpc' = "return"
  /\ UNCHANGED <<m_ulWriter, cond, cdReader, func, wpc, buf>>

ReadReturn ==
  /\ rpc = "return"
  /\ rpc' = "idle"
  /\ UNCHANGED <<m_bReader, m_ulWriter, m_pBuff, m_func, cond, cdReader,
                 func, got, wpc, buf>>
-----------------------------------------------------------------------------
(* The caller begins to fill its buffer, then calls write with its         *)
(* address: what was in it is gone from here on, whoever still holds that  *)
(* address.  The buffer is one word: it is seen filled or not filled.      *)
WriteCall(w, v) ==
  /\ wpc[w] = "idle"
  /\ Refill \/ m_pBuff # w
  /\ wpc' = [wpc EXCEPT ![w] = "lock"]
  /\ buf' = [buf EXCEPT ![w] = v]
  /\ UNCHANGED <<m_bReader, m_ulWriter, m_pBuff, m_func, cond, cdReader,
                 rpc, func, got>>

(* One evaluation of the loop condition, m_sync held. *)
Test(w) ==
  \/ /\ MustWait(w)
     /\ cond' = cond \cup {w}
     /\ wpc' = [wpc EXCEPT ![w] = "wait"]
     /\ UNCHANGED m_pBuff
  \/ /\ ~MustWait(w)
     /\ m_pBuff' = w
     /\ wpc' = [wpc EXCEPT ![w] = "handoff"]
     /\ UNCHANGED cond

WriteEnter(w) ==
  /\ wpc[w] = "lock"
  /\ m_syncFree
  /\ m_ulWriter' = m_ulWriter + 1
  /\ Test(w)
  /\ UNCHANGED <<m_bReader, m_func, cdReader, rpc, func, got, buf>>

WriteRetry(w) ==
  /\ wpc[w] = "wait"
  /\ w \notin cond
  /\ m_syncFree
  /\ Test(w)
  /\ UNCHANGED <<m_bReader, m_ulWriter, m_func, cdReader, rpc, func, got, buf>>

(* Signal the reader under m_mxReader, count the writer out, release       *)
(* m_sync and return.                                                      *)
WriteSignal(w) ==
  /\ wpc[w] = "handoff"
  /\ m_mxReaderFree
  /\ cdReader' = FALSE
  /\ m_ulWriter' = m_ulWriter - 1
  /\ wpc' = [wpc EXCEPT ![w] = "idle"]
  /\ UNCHANGED <<m_bReader, m_pBuff, m_func, cond, rpc, func, got, buf>>

(* POSIX lets pthread_cond_wait return unsignalled; write tests again. *)
SpuriousWake(w) ==
  /\ w \in cond
  /\ cond' = cond \ {w}
  /\ UNCHANGED <<m_bReader, m_ulWriter, m_pBuff, m_func, cdReader, rpc, func,
                 got, wpc, buf>>
-----------------------------------------------------------------------------
Read == ReadEnter \/ ReadWait \/ ReadCopy \/ ReadReturn

Write(w) == WriteEnter(w) \/ WriteRetry(w) \/ WriteSignal(w)

Next ==
  \/ \E g \in Guards \cup {Values} : ReadCall(g)
  \/ Read
  \/ \E w \in Writers : \/ \E v \in Values : WriteCall(w, v)
                        \/ Write(w)
                        \/ SpuriousWake(w)

(* A thread that can run is eventually run.  No one has to call, and the   *)
(* mutexes need not be fair: none is taken and released again and again    *)
(* in the way of a thread that has to move.                                *)
Fairness ==
  /\ WF_vars(Read)
  /\ \A w \in Writers : WF_vars(Write(w))

SafeSpec == Init /\ [][Next]_vars

Spec == SafeSpec /\ Fairness
-----------------------------------------------------------------------------
(* Every variable keeps its range; in particular no copy is ever made from *)
(* the null address.                                                       *)
TypeOK ==
  /\ m_bReader \in BOOLEAN
  /\ m_ulWriter \in Nat
  /\ m_pBuff \in Writers \cup {"null"}
  /\ m_func \in SUBSET Values
  /\ cond \subseteq Writers
  /\ cdReader \in BOOLEAN
  /\ rpc \in {"idle", "lock", "mx", "wait", "return"}
  /\ func \in SUBSET Values
  /\ got \in Values \cup {NoValue}
  /\ wpc \in [Writers -> {"idle", "lock", "wait", "handoff"}]
  /\ buf \in [Writers -> Values \cup {NoValue}]

(* The reader and the writers hand over between two monitors: a writer     *)
(* that has stored its address signals m_cdReader only once the reader is  *)
(* blocked there, so the signal is never lost: a reader that has not been  *)
(* woken for an address stored still has that writer's signal to come, and *)
(* is awake only with an address to copy from.                             *)
HandoverNotLost ==
  /\ \A w \in Writers : wpc[w] = "handoff" =>
       m_pBuff = w /\ (rpc = "mx" \/ (rpc = "wait" /\ cdReader))
  /\ m_pBuff # "null" /\ (rpc = "mx" \/ cdReader) => wpc[m_pBuff] = "handoff"
  /\ cdReader => rpc = "wait"
  /\ rpc = "wait" /\ ~cdReader => m_pBuff # "null" /\ m_syncFree

(* An address is in m_pBuff only while the read it was stored for is in    *)
(* progress, and that read's own checking function is the one installed:   *)
(* a late writer can serve neither a finished read nor the next one.       *)
OneReadOneBuffer ==
  /\ m_bReader <=> rpc \in {"mx", "wait"}
  /\ m_bReader => m_func = func
  /\ ~m_bReader => m_pBuff = "null" /\ m_func = Values

(* The writers write has counted in. *)
InWrite == {w \in Writers : wpc[w] \in {"wait", "handoff"}}

(* m_ulWriter is what the reader decides by whether to signal: it counts   *)
(* the writers in write, so no sleeping writer goes unseen.                *)
CountsWriters ==
  /\ m_ulWriter = Cardinality(InWrite)
  /\ \A w \in cond : wpc[w] = "wait"

(* A plain read and the writers never all sleep at once: while it waits    *)
(* unserved, some writer that is in write is awake and will test again.    *)
NoStrandedReader ==
  /\ rpc \in {"mx", "wait"}
  /\ m_pBuff = "null"
  /\ m_func = Values
  /\ cond # {}
  => \E w \in Writers \ cond : wpc[w] = "wait"

(* A plain read with a writer in write returns; which writer it serves is  *)
(* left open.                                                              *)
ReadServed ==
  (/\ rpc = "wait"
   /\ func = Values
   /\ \E w \in Writers : wpc[w] # "idle") ~> rpc = "return"

(* What a read with a checking function copies is accepted by it, even if  *)
(* the writer has returned meanwhile, unless that writer has begun to fill *)
(* its buffer for its next write.                                          *)
CopiesAccepted ==
  [][/\ rpc = "wait" /\ rpc' = "return"
     /\ wpc[m_pBuff] \notin {"lock", "wait"}
     => got' \in func]_vars

(* The channel is a guarded rendezvous.  The reader meets the writer that  *)
(* stores its address.                                                     *)
Abstract == INSTANCE GuardedRendezvous WITH
  Guards <- Guards \cup {Values},
  wst <- [w \in Writers |-> IF wpc[w] \in {"lock", "wait"} THEN "offering"
                            ELSE IF wpc[w] = "handoff" THEN "done"
                            ELSE "idle"],
  rst <- IF rpc = "idle" THEN "idle"
         ELSE IF rpc = "return" THEN "done"
         ELSE IF m_pBuff # "null" THEN "met"
         ELSE "asking",
  guard <- func,
  from <- m_pBuff,
  offer <- buf

(* Each read meets exactly one blocked write, of a value its condition     *)
(* accepts, and copies that writer's value; only those two calls return.   *)
RefinesGuardedRendezvous == Abstract!SafeSpec
=============================================================================
