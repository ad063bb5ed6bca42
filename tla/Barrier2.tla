------------------------------ MODULE Barrier2 ------------------------------
(***************************************************************************)
(* Barrier2::sync and sync_sem, called by any number of threads, no        *)
(* alternative registered: m_pAlt = NULL.                                  *)
(*                                                                         *)
(* The semaphore lets two threads in at a time.  Each action is one        *)
(* sem_wait, or one hold of m_sync, from the lock or from the return of    *)
(* pthread_cond_wait to the next wait or to the end of the scope of aLock. *)
(***************************************************************************)
EXTENDS Naturals, FiniteSets

CONSTANT Parties  \* the threads that share the barrier

ASSUME PartiesAssumption == IsFiniteSet(Parties)

VARIABLES
  m_sem,    \* value of the semaphore
  m_parts,  \* parties that have arrived and not met
  cond,     \* parties blocked in pthread_cond_wait(&m_cond, &m_sync)
  pc        \* where each party's thread is

vars == <<m_sem, m_parts, cond, pc>>

Init ==
  /\ m_sem = 2
  /\ m_parts = 0
  /\ cond = {}
  /\ pc = [p \in Parties |-> "idle"]

(* pthread_cond_signal: what it may leave of the blocked parties. *)
Signalled == IF cond = {} THEN {{}} ELSE {cond \ {q} : q \in cond}

SyncCall(p) ==
  /\ pc[p] = "idle"
  /\ pc' = [pc EXCEPT ![p] = "sem"]
  /\ UNCHANGED <<m_sem, m_parts, cond>>

SemWait(p) ==
  /\ pc[p] = "sem"
  /\ m_sem > 0
  /\ m_sem' = m_sem - 1
  /\ pc' = [pc EXCEPT ![p] = "lock"]
  /\ UNCHANGED <<m_parts, cond>>

(* sync_sem up to its wait, by a party that makes m_parts differ from 2. *)
SyncFirst(p) ==
  /\ pc[p] = "lock"
  /\ m_parts + 1 # 2
  /\ m_parts' = m_parts + 1
  /\ cond' = cond \cup {p}
  /\ pc' = [pc EXCEPT ![p] = "wait"]
  /\ UNCHANGED m_sem

(* Mutants of SyncSecond: m_parts is not reset; nobody is signalled. *)
SyncSecondNoReset(p) ==
  /\ pc[p] = "lock"
  /\ m_parts + 1 = 2
  /\ m_parts' = m_parts + 1
  /\ cond' \in Signalled
  /\ m_sem' = m_sem + 1
  /\ pc' = [pc EXCEPT ![p] = "return"]

SyncSecondNoSignal(p) ==
  /\ pc[p] = "lock"
  /\ m_parts + 1 = 2
  /\ m_parts' = m_parts + 1 - 2
  /\ m_sem' = m_sem + 1
  /\ pc' = [pc EXCEPT ![p] = "return"]
  /\ UNCHANGED cond

(* sync_sem by the party that makes m_parts 2. *)
SyncSecond(p) ==
  /\ pc[p] = "lock"
  /\ m_parts + 1 = 2
  /\ m_parts' = m_parts + 1 - 2
  /\ cond' \in Signalled
  /\ m_sem' = m_sem + 1
  /\ pc' = [pc EXCEPT ![p] = "return"]

(* Mutant of Wake: the place is not given back. *)
WakeNoPost(p) ==
  /\ pc[p] = "wait"
  /\ p \notin cond
  /\ pc' = [pc EXCEPT ![p] = "return"]
  /\ UNCHANGED <<m_sem, m_parts, cond>>

(* sync_sem from the return of its wait. *)
Wake(p) ==
  /\ pc[p] = "wait"
  /\ p \notin cond
  /\ m_sem' = m_sem + 1
  /\ pc' = [pc EXCEPT ![p] = "return"]
  /\ UNCHANGED <<m_parts, cond>>

SyncReturn(p) ==
  /\ pc[p] = "return"
  /\ pc' = [pc EXCEPT ![p] = "idle"]
  /\ UNCHANGED <<m_sem, m_parts, cond>>
-----------------------------------------------------------------------------
Sync(p) ==
  SemWait(p) \/ SyncFirst(p) \/ SyncSecond(p) \/ Wake(p) \/ SyncReturn(p)

Next == \E p \in Parties : SyncCall(p) \/ Sync(p)

(* A thread that can run is eventually run.  No one has to call. *)
Fairness == \A p \in Parties : WF_vars(Sync(p))

SafeSpec == Init /\ [][Next]_vars

Spec == SafeSpec /\ Fairness
-----------------------------------------------------------------------------
TypeOK ==
  /\ m_sem \in Nat
  /\ m_parts \in Nat
  /\ cond \subseteq Parties
  /\ pc \in [Parties -> {"idle", "sem", "lock", "wait", "return"}]

(* The parties the semaphore has let in and not yet out. *)
Inside == {p \in Parties : pc[p] \in {"lock", "wait"}}

(* The semaphore's value plus the parties past it is two: every party that *)
(* was let in gives back exactly the one place it took.                    *)
TwoPlaces == m_sem + Cardinality(Inside) = 2

(* m_parts is the number of parties asleep, 0 or 1 ("maybe 1 or 3" never   *)
(* is 3): a party past its sleep is counted no more, though it still keeps *)
(* its place, so the next pair cannot mistake it for a partner.            *)
PartsAsleep ==
  /\ \A p \in cond : pc[p] = "wait"
  /\ m_parts = Cardinality(cond)
  /\ m_parts \in {0, 1}

(* The barrier releases its parties in pairs. *)
Abstract == INSTANCE Pairing WITH
  st <- [p \in Parties |-> IF pc[p] = "idle" THEN "out"
                           ELSE IF pc[p] \in {"sem", "lock"} \/ p \in cond
                                THEN "in"
                           ELSE "met"]

(* A thread returns from sync only together with one other that was in it  *)
(* at the same time, and of two threads that are in it some pair is let    *)
(* go, however many others pass through.                                   *)
RefinesPairing == Abstract!Spec
=============================================================================
