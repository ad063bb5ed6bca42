----------------------------- MODULE AltBarrier2 -----------------------------
(***************************************************************************)
(* The methods of a Barrier2 that may be a guard of any number of          *)
(* alternatives.  enable waits for a place (sem_wait) and then for the     *)
(* barrier's m_sync, and select holds its alternative's m_sync meanwhile.  *)
(***************************************************************************)
EXTENDS Alternative

NewBarrier2 == [m_sem |-> 2, m_parts |-> 0, m_pAlt |-> "null", cond |-> {}]

SemWait(t) ==
  /\ At(t, "sync", Barriers)
  /\ obj[on[t]].m_sem > 0
  /\ obj' = [obj EXCEPT ![on[t]].m_sem = @ - 1]
  /\ Goto(t, "sync_sem", on[t])
  /\ UNCHANGED <<alt, got>>

(* Mutant of SyncFirst: the alternative is not told. *)
SyncFirstUntold(t) ==
  LET b == on[t] IN
  /\ Locks(t, "sync_sem", Barriers)
  /\ obj[b].m_parts + 1 # 2
  /\ obj' = [obj EXCEPT ![b].m_parts = @ + 1, ![b].cond = @ \cup {t}]
  /\ Goto(t, "wait", b)
  /\ UNCHANGED <<alt, got>>

(* The party that does not make m_parts 2 tells the alternative, if one is *)
(* registered, and waits.                                                  *)
SyncFirst(t) ==
  LET b == on[t] IN
  /\ Locks(t, "sync_sem", Barriers)
  /\ obj[b].m_parts + 1 # 2
  /\ \/ /\ obj[b].m_pAlt # "null"
        /\ obj' = [obj EXCEPT ![b].m_parts = @ + 1]
        /\ Goto(t, "sched", b)
     \/ /\ obj[b].m_pAlt = "null"
        /\ obj' = [obj EXCEPT ![b].m_parts = @ + 1, ![b].cond = @ \cup {t}]
        /\ Goto(t, "wait", b)
  /\ UNCHANGED <<alt, got>>

SyncSchedule(t) ==
  /\ At(t, "sched", Barriers)
  /\ CallSchedule(t)
  /\ obj' = [obj EXCEPT ![on[t]].cond = @ \cup {t}]
  /\ Goto(t, "wait", on[t])
  /\ UNCHANGED got

SyncSecond(t) ==
  LET b == on[t] IN
  /\ Locks(t, "sync_sem", Barriers)
  /\ obj[b].m_parts + 1 = 2
  /\ \E rest \in Signalled(b) :
       obj' = [obj EXCEPT ![b].m_parts = @ + 1 - 2, ![b].m_sem = @ + 1,
                          ![b].cond = rest]
  /\ Goto(t, "return", b)
  /\ UNCHANGED <<alt, got>>

SyncWake(t) ==
  /\ Resumes(t, "wait", Barriers)
  /\ obj' = [obj EXCEPT ![on[t]].m_sem = @ + 1]
  /\ Goto(t, "return", on[t])
  /\ UNCHANGED <<alt, got>>
-----------------------------------------------------------------------------
(* Mutant of EnableSemWait: no place is taken. *)
EnableNoSemWait(a) ==
  /\ At(a, "enable", Barriers)
  /\ Goto(a, "entered", on[a])
  /\ UNCHANGED <<alt, obj, got>>

(* enable takes a place in the barrier ... *)
EnableSemWait(a) ==
  /\ At(a, "enable", Barriers)
  /\ obj[on[a]].m_sem > 0
  /\ obj' = [obj EXCEPT ![on[a]].m_sem = @ - 1]
  /\ Goto(a, "entered", on[a])
  /\ UNCHANGED <<alt, got>>

(* ... and finds nobody there: it registers. *)
EnableRegister(a) ==
  LET b == on[a] IN
  /\ Locks(a, "entered", Barriers)
  /\ obj[b].m_parts = 0
  /\ obj[b].m_pAlt = "null"
  /\ obj' = [obj EXCEPT ![b].m_pAlt = a]
  /\ EnableDone(a, FALSE)

(* ... or finds another alternative, whom it is to schedule. *)
EnableOther(a) ==
  LET b == on[a] IN
  /\ Locks(a, "entered", Barriers)
  /\ obj[b].m_parts = 0
  /\ obj[b].m_pAlt # "null"
  /\ Goto(a, "resched", b)
  /\ UNCHANGED <<alt, obj, got>>

(* Mutant of EnableSchedule: enable returns true whatever schedule did. *)
EnableScheduleAlwaysTrue(a) ==
  LET o == obj[on[a]].m_pAlt IN
  /\ At(a, "resched", Barriers)
  /\ AltFree(o)
  /\ alt' = [alt EXCEPT ![o] = schedule(@, on[a]), ![a] = AfterEnable(@, TRUE)]
  /\ LeaveEnable(a, TRUE)
  /\ UNCHANGED <<obj, got>>

(* schedule's result is enable's. *)
EnableSchedule(a) ==
  LET o == obj[on[a]].m_pAlt
      ready == ScheduleResult(alt[o])
  IN
  /\ At(a, "resched", Barriers)
  /\ AltFree(o)
  /\ alt' = [alt EXCEPT ![o] = schedule(@, on[a]), ![a] = AfterEnable(@, ready)]
  /\ LeaveEnable(a, ready)
  /\ UNCHANGED <<obj, got>>

(* Mutant of EnableReady: enable says that the barrier is not ready. *)
EnableReadyFalse(a) ==
  LET b == on[a] IN
  /\ Locks(a, "entered", Barriers)
  /\ obj[b].m_parts # 0
  /\ obj' = [obj EXCEPT ![b].m_pAlt = "null"]
  /\ EnableDone(a, FALSE)

(* ... or finds a party waiting: the barrier is ready. *)
EnableReady(a) ==
  LET b == on[a] IN
  /\ Locks(a, "entered", Barriers)
  /\ obj[b].m_parts # 0
  /\ obj' = [obj EXCEPT ![b].m_pAlt = "null"]
  /\ EnableDone(a, TRUE)

(* Mutant of DisableBarrier2: the place is never given back. *)
DisableNeverPosts(a) ==
  /\ Locks(a, "disable", Barriers)
  /\ obj' = [obj EXCEPT ![on[a]].m_pAlt = "null"]
  /\ DisableDone(a)

(* The place is given back unless it is the selected guard's. *)
DisableBarrier2(a) ==
  /\ Locks(a, "disable", Barriers)
  /\ obj' = [obj EXCEPT ![on[a]].m_pAlt = "null",
                        ![on[a]].m_sem = IF Cares(a) THEN @ ELSE @ + 1]
  /\ DisableDone(a)

Barrier2Step(t) ==
  \/ SemWait(t) \/ SyncFirst(t) \/ SyncSchedule(t) \/ SyncSecond(t) \/ SyncWake(t)
  \/ EnableSemWait(t) \/ EnableRegister(t) \/ EnableOther(t) \/ EnableSchedule(t)
  \/ EnableReady(t) \/ DisableBarrier2(t)
=============================================================================
