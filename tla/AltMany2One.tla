----------------------------- MODULE AltMany2One -----------------------------
(***************************************************************************)
(* The methods of a Many2OneChannel whose read end may be a guard of an    *)
(* alternative.  The contents of the buffers and cond_read are Many2One's  *)
(* subject: here a buffer is known by the writer it belongs to, and m_func *)
(* stays NULL.                                                             *)
(***************************************************************************)
EXTENDS Alternative

NewMany2One ==
  [m_bReader |-> FALSE, m_ulWriter |-> 0, m_pBuff |-> "null", m_pAlt |-> "null",
   cond |-> {},           \* writers blocked on m_cond
   m_cdReader |-> FALSE]  \* the reader is blocked on m_cdReader

(* Mutant of MustWait: the loop does not test m_pBuff. *)
MustWaitAnyBuffer(o) == ~o.m_bReader

MustWait(o) == ~o.m_bReader \/ o.m_pBuff # "null"

ReadEnter(t) ==
  LET c == on[t] IN
  /\ Locks(t, "read", Many2Ones)
  /\ \E rest \in IF obj[c].m_ulWriter > 0 THEN Signalled(c) ELSE {obj[c].cond} :
       obj' = [obj EXCEPT ![c].m_bReader = TRUE, ![c].cond = rest]
  /\ Goto(t, "read_mx", c)
  /\ UNCHANGED <<alt, got>>

(* The reader holds m_mxReader in "read_mx"; pthread_cond_wait leaves it.  *)
ReadWait(t) ==
  /\ At(t, "read_mx", Many2Ones)
  /\ obj' = [obj EXCEPT ![on[t]].m_cdReader = TRUE]
  /\ Goto(t, "read_wait", on[t])
  /\ UNCHANGED <<alt, got>>

ReadCopy(t) ==
  LET c == on[t] IN
  /\ Locks(t, "read_wait", Many2Ones)
  /\ ~obj[c].m_cdReader
  /\ got' = [got EXCEPT ![t] = obj[c].m_pBuff]
  /\ obj' = [obj EXCEPT ![c].m_pBuff = "null", ![c].m_bReader = FALSE]
  /\ Goto(t, "return", c)
  /\ UNCHANGED alt

(* One evaluation of write's loop condition, m_sync held, the object being *)
(* as in o.                                                                *)
LoopTest(t, o) ==
  \/ /\ MustWait(o)
     /\ obj' = [obj EXCEPT ![on[t]] = [o EXCEPT !.cond = @ \cup {t}]]
     /\ Goto(t, "wait", on[t])
  \/ /\ ~MustWait(o)
     /\ obj' = [obj EXCEPT ![on[t]] = [o EXCEPT !.m_pBuff = t]]
     /\ Goto(t, "handoff", on[t])

WriteEnter(t) ==
  LET o == [obj[on[t]] EXCEPT !.m_ulWriter = @ + 1] IN
  /\ Locks(t, "write", Many2Ones)
  /\ \/ /\ o.m_pAlt # "null"
        /\ obj' = [obj EXCEPT ![on[t]] = o]
        /\ Goto(t, "sched", on[t])
     \/ /\ o.m_pAlt = "null"
        /\ LoopTest(t, o)
  /\ UNCHANGED <<alt, got>>

WriteScheduleAll(t) ==
  /\ At(t, "sched", Many2Ones)
  /\ CallSchedule(t)
  /\ LoopTest(t, obj[on[t]])
  /\ UNCHANGED got

WriteRetry(t) ==
  /\ Resumes(t, "wait", Many2Ones)
  /\ LoopTest(t, obj[on[t]])
  /\ UNCHANGED <<alt, got>>

WriteSignal(t) ==
  LET c == on[t] IN
  /\ At(t, "handoff", Many2Ones)
  /\ \A r \in Threads : on[r] = c => pc[r] # "read_mx"
  /\ obj' = [obj EXCEPT ![c].m_cdReader = FALSE, ![c].m_ulWriter = @ - 1]
  /\ Goto(t, "return", c)
  /\ UNCHANGED <<alt, got>>

(* Wakes every writer that is in write, registers the alternative, and     *)
(* never says that the channel is ready.                                   *)
EnableMany2One(a) ==
  LET c == on[a] IN
  /\ Locks(a, "enable", Many2Ones)
  /\ obj' = [obj EXCEPT ![c].cond = IF obj[c].m_ulWriter > 0 THEN {} ELSE @,
                        ![c].m_pAlt = a]
  /\ EnableDone(a, FALSE)

DisableMany2One(a) ==
  /\ Locks(a, "disable", Many2Ones)
  /\ obj' = [obj EXCEPT ![on[a]].m_pAlt = "null"]
  /\ DisableDone(a)

Many2OneStep(t) ==
  \/ ReadEnter(t) \/ ReadWait(t) \/ ReadCopy(t)
  \/ WriteEnter(t) \/ WriteScheduleAll(t) \/ WriteRetry(t) \/ WriteSignal(t)
  \/ EnableMany2One(t) \/ DisableMany2One(t)
=============================================================================
