----------------------------- MODULE AltOne2One -----------------------------
(***************************************************************************)
(* The methods of a One2OneChannel whose read end may be a guard of an     *)
(* alternative.  The contents of buffers are One2One's subject: here a     *)
(* buffer is known by the thread it belongs to.                            *)
(***************************************************************************)
EXTENDS Alternative

NewOne2One == [m_bEmpty |-> TRUE, m_pBuff |-> "null", m_pAlt |-> "null", cond |-> {}]

ReadFirst(t) ==
  LET c == on[t] IN
  /\ Locks(t, "read", One2Ones)
  /\ obj[c].m_bEmpty
  /\ obj' = [obj EXCEPT ![c].m_bEmpty = FALSE, ![c].cond = @ \cup {t}]
  /\ Goto(t, "read_wait", c)
  /\ UNCHANGED <<alt, got>>

ReadSecond(t) ==
  LET c == on[t] IN
  /\ Locks(t, "read", One2Ones)
  /\ ~obj[c].m_bEmpty
  /\ got' = [got EXCEPT ![t] = obj[c].m_pBuff]
  /\ \E rest \in Signalled(c) :
       obj' = [obj EXCEPT ![c].m_bEmpty = TRUE, ![c].cond = rest]
  /\ Goto(t, "return", c)
  /\ UNCHANGED alt

ReadWake(t) ==
  LET c == on[t] IN
  /\ Resumes(t, "read_wait", One2Ones)
  /\ got' = [got EXCEPT ![t] = obj[c].m_pBuff]
  /\ \E rest \in Signalled(c) : obj' = [obj EXCEPT ![c].cond = rest]
  /\ Goto(t, "return", c)
  /\ UNCHANGED alt

WriteFirst(t) ==
  LET c == on[t] IN
  /\ Locks(t, "write", One2Ones)
  /\ obj[c].m_bEmpty
  /\ \/ /\ obj[c].m_pAlt # "null"
        /\ obj' = [obj EXCEPT ![c].m_pBuff = t, ![c].m_bEmpty = FALSE]
        /\ Goto(t, "sched", c)
     \/ /\ obj[c].m_pAlt = "null"
        /\ obj' = [obj EXCEPT ![c].m_pBuff = t, ![c].m_bEmpty = FALSE,
                              ![c].cond = @ \cup {t}]
        /\ Goto(t, "wait", c)
  /\ UNCHANGED <<alt, got>>

WriteSchedule(t) ==
  /\ At(t, "sched", One2Ones)
  /\ CallSchedule(t)
  /\ obj' = [obj EXCEPT ![on[t]].cond = @ \cup {t}]
  /\ Goto(t, "wait", on[t])
  /\ UNCHANGED got

WriteSecond(t) ==
  LET c == on[t] IN
  /\ Locks(t, "write", One2Ones)
  /\ ~obj[c].m_bEmpty
  /\ \E rest \in Signalled(c) :
       obj' = [obj EXCEPT ![c].m_pBuff = t, ![c].m_bEmpty = TRUE,
                          ![c].cond = rest \cup {t}]
  /\ Goto(t, "wait", c)
  /\ UNCHANGED <<alt, got>>

WriteWake(t) ==
  /\ Resumes(t, "wait", One2Ones)
  /\ Goto(t, "return", on[t])
  /\ UNCHANGED <<alt, obj, got>>

(* Registers the alternative if nobody has arrived, and says that the      *)
(* channel is ready otherwise.                                             *)
EnableOne2One(a) ==
  LET c == on[a] IN
  /\ Locks(a, "enable", One2Ones)
  /\ obj' = IF obj[c].m_bEmpty THEN [obj EXCEPT ![c].m_pAlt = a] ELSE obj
  /\ EnableDone(a, ~obj[c].m_bEmpty)

(* Mutant of DisableOne2One: the channel keeps its m_pAlt. *)
DisableOne2OneKeepsAlt(a) ==
  /\ Locks(a, "disable", One2Ones)
  /\ DisableDone(a)
  /\ UNCHANGED obj

DisableOne2One(a) ==
  /\ Locks(a, "disable", One2Ones)
  /\ obj' = [obj EXCEPT ![on[a]].m_pAlt = "null"]
  /\ DisableDone(a)

One2OneStep(t) ==
  \/ ReadFirst(t) \/ ReadSecond(t) \/ ReadWake(t)
  \/ WriteFirst(t) \/ WriteSchedule(t) \/ WriteSecond(t) \/ WriteWake(t)
  \/ EnableOne2One(t) \/ DisableOne2One(t)
=============================================================================
