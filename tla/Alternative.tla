----------------------------- MODULE Alternative -----------------------------
(***************************************************************************)
(* Threads, the objects they meet at, and Alternative::select and schedule *)
(* for any number of alternatives over guards of any kind in any order.    *)
(* What enable and disable do is the guards' business: AltOne2One,         *)
(* AltMany2One and AltBarrier2 add the methods of the three classes, and   *)
(* Choice composes them.                                                   *)
(*                                                                         *)
(* A thread is in one method of one object at a time (pc, on).  Who owns a *)
(* mutex between two actions follows from where the threads are:           *)
(*   - select holds its alternative's m_sync while it is in a guard's      *)
(*     enable ("enable", "entered", "resched");                            *)
(*   - write, sync_sem and enable hold the object's m_sync while they wait *)
(*     for that of the alternative to schedule ("sched", "resched"), and   *)
(*     write of a many2one channel while it waits for m_mxReader           *)
(*     ("handoff").                                                        *)
(* Every other hold begins and ends inside one action.                     *)
(***************************************************************************)
EXTENDS Naturals, Sequences, FiniteSets

CONSTANTS
  Threads,
  One2Ones, Many2Ones, Barriers,  \* the objects of each class
  Reads,   \* per thread, the channels whose read end it holds
  Writes,  \* per thread, the channels it holds a write end of
  Syncs,   \* per thread, the barriers it holds
  Choices  \* per thread, the lists of guards it may pass to alternative_2

Channels == One2Ones \cup Many2Ones

Guards == Channels \cup Barriers

ASSUME AlternativeAssumption ==
  /\ IsFiniteSet(Threads)
  /\ Reads \in [Threads -> SUBSET Channels]
  /\ Writes \in [Threads -> SUBSET Channels]
  /\ Syncs \in [Threads -> SUBSET Barriers]
  /\ Choices \in [Threads -> SUBSET (Seq(Guards) \ {<<>>})]
  /\ \A t \in Threads : \A s \in Choices[t] : \A i, j \in DOMAIN s :
       /\ s[i] \in Reads[t] \cup Syncs[t]
       /\ s[i] = s[j] => i = j
  /\ \A t, u \in Threads : t # u =>
       /\ Reads[t] \cap Reads[u] = {}
       /\ Writes[t] \cap Writes[u] \cap One2Ones = {}
  /\ One2Ones \cap Many2Ones = {}
  /\ Channels \cap Barriers = {}
  /\ "null" \notin Threads
  /\ {"none", "undef"} \cap Guards = {}

VARIABLES
  alt,  \* per thread: the Alternative it made last, and select's variables
  obj,  \* per guard: its fields, and the threads blocked on its m_cond
  pc,   \* per thread: where it is
  on,   \* per thread: the object a method of which it is in, or "none"
  got   \* per thread: whose buffer its read has copied, or "null"

vars == <<alt, obj, pc, on, got>>

(* The object after new and in select; out of reach after select. *)
NewAlternative(s) ==
  [m_c |-> s, m_state |-> "eEnabling", m_selector |-> "undef",
   asleep |-> FALSE,  \* in pthread_cond_wait(&m_cond, &m_sync)
   bound |-> 0, pos |-> 0, selected |-> 0]

NoAlternative == [NewAlternative(<<>>) EXCEPT !.m_state = "eInactive"]

Goto(t, place, g) ==
  /\ pc' = [pc EXCEPT ![t] = place]
  /\ on' = [on EXCEPT ![t] = g]

Free(g) ==
  \A t \in Threads : on[t] = g => pc[t] \notin {"sched", "resched", "handoff"}

AltFree(a) == pc[a] \notin {"enable", "entered", "resched"}

At(t, place, class) == pc[t] = place /\ on[t] \in class

(* t takes the mutex of the object it is in. *)
Locks(t, place, class) == At(t, place, class) /\ Free(on[t])

(* t is back in pthread_cond_wait with the mutex. *)
Resumes(t, place, class) == Locks(t, place, class) /\ t \notin obj[on[t]].cond

(* pthread_cond_signal: what it may leave of the threads blocked at g. *)
Signalled(g) ==
  LET S == obj[g].cond IN IF S = {} THEN {{}} ELSE {S \ {t} : t \in S}
-----------------------------------------------------------------------------
Call(t, place, g) ==
  /\ pc[t] = "idle"
  /\ Goto(t, place, g)
  /\ UNCHANGED <<alt, obj, got>>

Return(t) ==
  /\ pc[t] = "return"
  /\ Goto(t, "idle", "none")
  /\ got' = [got EXCEPT ![t] = "null"]
  /\ UNCHANGED <<alt, obj>>
-----------------------------------------------------------------------------
(* alternative_2 makes a new Alternative for every choice. *)
SelectCall(a) ==
  /\ pc[a] = "idle"
  /\ \E s \in Choices[a] : alt' = [alt EXCEPT ![a] = NewAlternative(s)]
  /\ Goto(a, "test", "none")
  /\ UNCHANGED <<obj, got>>

SelectTest(a) ==
  LET r == alt[a] IN
  /\ pc[a] = "test"
  /\ \/ /\ r.m_state # "eReady"
        /\ Goto(a, "enable", r.m_c[r.bound + 1])
        /\ UNCHANGED alt
     \/ /\ r.m_state = "eReady"
        /\ alt' = [alt EXCEPT ![a].bound = @ - 1]
        /\ Goto(a, "check", "none")
  /\ UNCHANGED <<obj, got>>

(* Mutant of AfterEnable: "bound = bound - 1" is left out after the loop. *)
AfterEnablePastEnd(r, ready) ==
  IF ready THEN [r EXCEPT !.m_selector = r.m_c[r.bound + 1], !.m_state = "eReady"]
  ELSE [r EXCEPT !.bound = @ + 1]

(* The round of the loop in which enable returned `ready`. *)
AfterEnable(r, ready) ==
  IF ready THEN [r EXCEPT !.m_selector = r.m_c[r.bound + 1], !.m_state = "eReady"]
  ELSE [r EXCEPT !.bound = IF @ + 1 < Len(r.m_c) THEN @ + 1 ELSE @]

LeaveEnable(a, ready) ==
  Goto(a, IF ~ready /\ alt[a].bound + 1 < Len(alt[a].m_c) THEN "test" ELSE "check",
       "none")

EnableDone(a, ready) ==
  /\ alt' = [alt EXCEPT ![a] = AfterEnable(@, ready)]
  /\ LeaveEnable(a, ready)
  /\ UNCHANGED got

StartDisabling(a) ==
  /\ alt' = [alt EXCEPT ![a].pos = 0, ![a].selected = Len(alt[a].m_c)]
  /\ Goto(a, "disable", alt[a].m_c[1])

(* Mutant of SelectCheck: select waits without testing m_state. *)
SelectCheckAlwaysWaits(a) ==
  /\ pc[a] = "check"
  /\ alt' = [alt EXCEPT ![a].m_state = "eWaiting", ![a].asleep = TRUE]
  /\ Goto(a, "asleep", "none")
  /\ UNCHANGED <<obj, got>>

SelectCheck(a) ==
  /\ pc[a] = "check"
  /\ IF alt[a].m_state = "eEnabling"
     THEN /\ alt' = [alt EXCEPT ![a].m_state = "eWaiting", ![a].asleep = TRUE]
          /\ Goto(a, "asleep", "none")
     ELSE StartDisabling(a)
  /\ UNCHANGED <<obj, got>>

SelectWake(a) ==
  /\ pc[a] = "asleep"
  /\ ~alt[a].asleep
  /\ StartDisabling(a)
  /\ UNCHANGED <<obj, got>>

(* disable is told whether the guard is the selected one. *)
Cares(a) == alt[a].m_selector = on[a]

DisableDone(a) ==
  LET r == alt[a]
      more == r.pos < r.bound
  IN
  /\ alt' = [alt EXCEPT ![a].selected = IF Cares(a) THEN r.pos ELSE @,
                        ![a].pos = IF more THEN @ + 1 ELSE @]
  /\ IF more THEN Goto(a, "disable", r.m_c[r.pos + 2]) ELSE Goto(a, "selected", "none")
  /\ UNCHANGED got

(* The caller has to read from, or sync on, one guard and is to take the   *)
(* one returned (alternative_2's contract).  A barrier is then entered     *)
(* with the place that enable took.                                        *)
SelectReturn(a) ==
  LET r == alt[a]
      g == IF r.selected < Len(r.m_c) THEN r.m_c[r.selected + 1] ELSE "undef"
  IN
  /\ pc[a] = "selected"
  /\ alt' = [alt EXCEPT ![a] = NoAlternative]
  /\ Goto(a, IF g \in Barriers THEN "sync_sem" ELSE "read", g)
  /\ UNCHANGED <<obj, got>>

Select(a) == SelectTest(a) \/ SelectCheck(a) \/ SelectWake(a) \/ SelectReturn(a)
-----------------------------------------------------------------------------
ScheduleResult(r) == r.m_state \in {"eEnabling", "eWaiting"}

(* Mutants of schedule: the selector is not recorded; nobody is signalled. *)
scheduleNoSelector(r, g) ==
  IF ScheduleResult(r) THEN [r EXCEPT !.m_state = "eReady", !.asleep = FALSE] ELSE r

scheduleNoSignal(r, g) ==
  IF ScheduleResult(r) THEN [r EXCEPT !.m_state = "eReady", !.m_selector = g] ELSE r

(* What schedule makes of an alternative, called by whoever makes guard g  *)
(* ready, in its own thread.                                               *)
schedule(r, g) ==
  IF ScheduleResult(r)
  THEN [r EXCEPT !.m_state = "eReady", !.m_selector = g,
                 !.asleep = IF r.m_state = "eWaiting" THEN FALSE ELSE @]
  ELSE r

(* t calls schedule of the alternative registered with the object it is in. *)
CallSchedule(t) ==
  LET o == obj[on[t]].m_pAlt IN
  /\ AltFree(o)
  /\ alt' = [alt EXCEPT ![o] = schedule(@, on[t])]
=============================================================================
