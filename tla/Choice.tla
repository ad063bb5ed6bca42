------------------------------- MODULE Choice -------------------------------
(***************************************************************************)
(* Threads that read, write, sync and choose, with alternatives over       *)
(* one2one channels, many2one channels and barriers in any mixture.        *)
(***************************************************************************)
EXTENDS AltOne2One, AltMany2One, AltBarrier2

Init ==
  /\ alt = [t \in Threads |-> NoAlternative]
  /\ obj = [g \in Guards |-> CASE g \in One2Ones -> NewOne2One
                               [] g \in Many2Ones -> NewMany2One
                               [] OTHER -> NewBarrier2]
  /\ pc = [t \in Threads |-> "idle"]
  /\ on = [t \in Threads |-> "none"]
  /\ got = [t \in Threads |-> "null"]

ReadCall(t) == \E c \in Reads[t] : Call(t, "read", c)

WriteCall(t) == \E c \in Writes[t] : Call(t, "write", c)

SyncCall(t) == \E b \in Syncs[t] : Call(t, "sync", b)

Step(t) ==
  One2OneStep(t) \/ Many2OneStep(t) \/ Barrier2Step(t) \/ Select(t) \/ Return(t)

Next ==
  \E t \in Threads :
    Step(t) \/ ReadCall(t) \/ WriteCall(t) \/ SyncCall(t) \/ SelectCall(t)

(* A thread that can run is eventually run.  No one has to call. *)
Fairness == \A t \in Threads : WF_vars(Step(t))

SafeSpec == Init /\ [][Next]_vars

Spec == SafeSpec /\ Fairness
-----------------------------------------------------------------------------
Places ==
  {"idle", "return", "test", "enable", "entered", "resched", "check", "asleep",
   "disable", "selected", "read", "read_mx", "read_wait", "write", "sched", "wait",
   "handoff", "sync", "sync_sem"}

GuardsOf(a) == {alt[a].m_c[i] : i \in DOMAIN alt[a].m_c}

Choosing(a) == alt[a].m_state # "eInactive"

Ready(a) == alt[a].m_state = "eReady"

AltTypeOK(a) ==
  LET r == alt[a] IN
  /\ r.m_c \in Choices[a] \cup {<<>>}
  /\ r.m_state \in {"eEnabling", "eWaiting", "eReady", "eInactive"}
  /\ r.m_selector \in {"undef"} \cup GuardsOf(a)
  /\ r.asleep \in BOOLEAN
  /\ {r.bound, r.pos} \subseteq 0 .. (IF Choosing(a) THEN Len(r.m_c) - 1 ELSE 0)
  /\ r.selected \in 0 .. Len(r.m_c)

OrNull(S) == S \cup {"null"}

(* Every variable keeps its range: select never returns the position past  *)
(* its guards, its counter never goes below zero, nothing is copied from   *)
(* the null address by a one2one read.                                     *)
TypeOK ==
  /\ \A a \in Threads : AltTypeOK(a)
  /\ \A c \in One2Ones :
       obj[c] \in [m_bEmpty : BOOLEAN, m_pBuff : OrNull(Threads),
                   m_pAlt : OrNull(Threads), cond : SUBSET Threads]
  /\ \A c \in Many2Ones :
       obj[c] \in [m_bReader : BOOLEAN, m_ulWriter : Nat, m_pBuff : OrNull(Threads),
                   m_pAlt : OrNull(Threads), cond : SUBSET Threads,
                   m_cdReader : BOOLEAN]
  /\ \A b \in Barriers :
       obj[b] \in [m_sem : 0 .. 2, m_parts : 0 .. 3, m_pAlt : OrNull(Threads),
                   cond : SUBSET Threads]
  /\ pc \in [Threads -> Places]
  /\ on \in [Threads -> Guards \cup {"none"}]
  /\ got \in [Threads -> OrNull(Threads)]

(* A thread about to call schedule holds a pointer to an alternative that  *)
(* its select still uses: the caller may free it after select returns.     *)
NoStaleAlternative ==
  \A g \in Guards : \A a \in Threads :
    obj[g].m_pAlt = a => Choosing(a) /\ pc[a] # "selected"

(* A thread that will not leave g before it has met somebody there.        *)
Committed(t, g) ==
  \/ on[t] = g /\ \/ pc[t] = "sched"
                  \/ pc[t] = "wait" /\ (g \in Many2Ones \/ t \in obj[g].cond)
                  \/ pc[t] = "sync_sem"
  \/ Ready(t) /\ alt[t].m_selector = g

(* From the moment an alternative is ready, its selector names a guard to  *)
(* which another thread is committed, and where no third can get in        *)
(* between: "When enable returns true, it knows that it will be selected". *)
(* The read or sync that follows will not block for ever.                  *)
SelectedHasPartner ==
  \A a \in Threads : Ready(a) =>
    LET g == alt[a].m_selector IN
    /\ \E t \in Threads \ {a} : Committed(t, g)
    /\ g \in One2Ones => ~obj[g].m_bEmpty
    /\ g \in Barriers => obj[g].m_sem = 0

(* Another thread may choose among guards of which g is one. *)
Shared(a, g) ==
  \E u \in Threads \ {a} : \E s \in Choices[u] : \E i \in DOMAIN s : s[i] = g

(* A select that sleeps is registered with every guard that no other       *)
(* thread chooses, and wherever it is registered nobody is blocked but     *)
(* writers of a many2one channel (see ArrivalWakes).  At a barrier others  *)
(* choose, enable passes it over when the alternative registered there is  *)
(* already taken by another guard.                                         *)
NoSleepOverReady ==
  \A a \in Threads : alt[a].asleep =>
    \A g \in GuardsOf(a) :
      /\ Shared(a, g) \/ obj[g].m_pAlt = a
      /\ obj[g].m_pAlt = a /\ g \notin Many2Ones => obj[g].cond = {}

(* A write or sync that begins while a select sleeps on its guard wakes it. *)
ArrivalWakes ==
  \A a \in Threads :
    (/\ alt[a].asleep
     /\ \E t \in Threads : pc[t] \in {"write", "sync_sem"} /\ on[t] \in GuardsOf(a))
    ~> ~alt[a].asleep

(* a sleeps although a writer of one of its many2one channels is blocked in *)
(* pthread_cond_wait and nobody has signalled it.                          *)
SleepsOverWriter(a) ==
  /\ alt[a].asleep
  /\ \E t \in Threads :
       /\ At(t, "wait", Many2Ones) /\ t \in obj[on[t]].cond
       /\ on[t] \in GuardsOf(a)

(* A select does not sleep on while a writer of one of its many2one        *)
(* channels is blocked, unsignalled: it is an external choice,             *)
(* "dco?cl.blk -> ... [] ds?cl.blk -> ...".                                *)
NoSleepOverWriter ==
  \A a \in Threads : SleepsOverWriter(a) ~> ~alt[a].asleep
-----------------------------------------------------------------------------
(* Threads that hold one of b's two places because of sync ... *)
Inside(b) == {t \in Threads : on[t] = b /\ pc[t] \in {"sync_sem", "sched", "wait"}}

(* ... or because of an enable that no disable has undone yet: the indexes *)
(* of the guards whose place alternative a holds.                          *)
Enabled(a) ==
  LET r == alt[a] IN
  CASE pc[a] \in {"test", "enable"} -> 0 .. r.bound - 1
    [] pc[a] \in {"entered", "resched", "check", "asleep"} -> 0 .. r.bound
    [] pc[a] = "disable" -> {i \in 0 .. r.bound : i >= r.pos \/ i = r.selected}
    [] pc[a] = "selected" -> {r.selected}
    [] OTHER -> {}

Holders(b) ==
  Inside(b) \cup {a \in Threads : \E i \in Enabled(a) : alt[a].m_c[i + 1] = b}

(* No place is lost or made up, however enable, disable, sync and sync_sem *)
(* of several threads interleave: enable takes a place that either disable *)
(* gives back or sync_sem does.  m_parts counts the threads that wait, or  *)
(* are about to, and is never 3 ("maybe 1 or 3").                          *)
TwoPlaces ==
  \A b \in Barriers :
    /\ obj[b].m_sem + Cardinality(Holders(b)) = 2
    /\ obj[b].m_parts = Cardinality({t \in Threads :
         on[t] = b /\ (pc[t] = "sched" \/ t \in obj[b].cond)})
    /\ obj[b].m_parts \in {0, 1}

(* enable clears m_pAlt when it finds a party waiting, without a look at   *)
(* who is registered there: nobody is, another alternative's place and the *)
(* party's would leave none for this one.  So no other alternative misses  *)
(* the schedule that it is registered for.                                 *)
ClearsNobody ==
  \A a \in Threads :
    At(a, "entered", Barriers) /\ obj[on[a]].m_parts # 0 => obj[on[a]].m_pAlt = "null"

(* t is to take the mutex of the object it is in. *)
AsksForMutex(t) ==
  \/ pc[t] \in {"read", "write", "sync_sem", "entered", "disable"}
  \/ pc[t] = "enable" /\ on[t] \in Channels
  \/ pc[t] \in {"wait", "read_wait"} /\ t \notin obj[on[t]].cond

(* The threads one of which has to move before t can: the owner of a mutex *)
(* it asks for, the holders of the places it waits for, the partner it is  *)
(* to meet.  {"null"} if t can move or may yet be joined by anyone.        *)
WaitsFor(t) ==
  LET g == on[t] IN
  CASE pc[t] \in {"sched", "resched"} /\ ~AltFree(obj[g].m_pAlt) -> {obj[g].m_pAlt}
    [] AsksForMutex(t) /\ ~Free(g) ->
         {u \in Threads : on[u] = g /\ pc[u] \in {"sched", "resched", "handoff"}}
    [] g \in Barriers /\ pc[t] \in {"sync", "enable"} /\ obj[g].m_sem = 0 -> Holders(g)
    [] g \in Barriers /\ pc[t] = "wait" /\ t \in obj[g].cond /\ obj[g].m_sem = 0 ->
         Holders(g) \ {t}
    [] OTHER -> {"null"}

Stuck(S) == S # {} /\ \A t \in S : WaitsFor(t) \subseteq S

(* The lists of S's alternatives order some barriers in a circle. *)
Crossed(S) ==
  \E B \in (SUBSET Barriers) \ {{}} : \A g \in B :
    \E h \in B, a \in S : \E i, j \in DOMAIN alt[a].m_c :
      i < j /\ alt[a].m_c[i] = g /\ alt[a].m_c[j] = h

(* Mutexes of alternatives and objects are taken in both orders, and       *)
(* semaphores are waited for with a mutex held; still no set of threads    *)
(* waits only for one another unless the lists that some of them choose    *)
(* from put barriers in a circle, as <<b1, b2>> and <<b2, b1>> do.         *)
OnlyCrossingDeadlocks ==
  \A S \in SUBSET Threads : Stuck(S) => Crossed(S)
-----------------------------------------------------------------------------
(* What one thread offers in the abstract specification. *)
Offer(t, g) ==
  <<g, IF g \in Barriers THEN "sync" ELSE IF g \in Reads[t] THEN "read" ELSE "write">>

Menus ==
  [t \in Threads |-> {{Offer(t, g)} : g \in Reads[t] \cup Writes[t] \cup Syncs[t]}
                       \cup {{Offer(t, s[i]) : i \in DOMAIN s} : s \in Choices[t]}]

MetWriter(t) ==
  /\ on[t] \in Many2Ones /\ pc[t] \in {"read_mx", "read_wait"}
  /\ obj[on[t]].m_pBuff # "null"

Met(t) ==
  \/ pc[t] \in {"return", "handoff"}
  \/ pc[t] = "wait" /\ on[t] \notin Many2Ones /\ t \notin obj[on[t]].cond
  \/ MetWriter(t)

Abstract == INSTANCE ExternalChoice WITH
  Prompt <- One2Ones \cup Barriers,
  st <- [t \in Threads |-> IF pc[t] = "idle" THEN "out" ELSE IF Met(t) THEN "met"
                           ELSE "in"],
  offers <- [t \in Threads |->
               IF pc[t] = "idle" \/ Met(t) THEN {}
               ELSE IF Ready(t) THEN {Offer(t, alt[t].m_selector)}
               ELSE IF Choosing(t) THEN {Offer(t, g) : g \in GuardsOf(t)}
               ELSE {Offer(t, on[t])}],
  got <- [t \in Threads |-> IF MetWriter(t) THEN obj[on[t]].m_pBuff ELSE got[t]]

(* Threads leave a guard in pairs; a select settles on one guard where     *)
(* another thread is, or settles too, and meets there: the read that       *)
(* follows meets exactly one of the channel's writers.                     *)
RefinesSafely == Abstract!SafeSpec

(* ... and nobody sleeps over a meeting that could take place, but over    *)
(* writers that were blocked on a many2one channel before it.              *)
RefinesExternalChoice == Abstract!Spec
=============================================================================
