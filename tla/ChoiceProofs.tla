---------------------------- MODULE ChoiceProofs ----------------------------
(***************************************************************************)
(* Proofs about Choice, for any threads, objects and lists of guards.  The *)
(* invariants build on one another:                                        *)
(*   - Shape: types; how far select has gone agrees with its alternative,  *)
(*     and only live alternatives are registered;                          *)
(*   - BarrierShape, Permits: who holds the places of a barrier;           *)
(*   - Fits: threads are only in methods of objects whose ends they hold;  *)
(*   - Handshakes, Queues: what the fields of a channel tell of who is     *)
(*     there;                                                              *)
(*   - Addressed, Partners: who schedules whom, and whom a ready           *)
(*     alternative is to meet (all of these together: Meetings);           *)
(*   - AllRest, Copies, Watched: select's variables, read's buffers, and   *)
(*     where an alternative that is not ready is registered;               *)
(*   - Buffers: whose buffer a channel holds.  With Meetings and Copies it *)
(*     is Viewed, on which the refinement of ExternalChoice rests.         *)
(***************************************************************************)
EXTENDS Choice, Integers, FiniteSetTheorems, TLAPS

AltPlaces ==
  {"test", "enable", "entered", "resched", "check", "asleep", "disable", "selected"}

AltType ==
  [m_c : Seq(Guards), m_state : {"eEnabling", "eWaiting", "eReady", "eInactive"},
   m_selector : Guards \cup {"undef"}, asleep : BOOLEAN,
   bound : Nat, pos : Nat, selected : Nat]

One2OneType ==
  [m_bEmpty : BOOLEAN, m_pBuff : OrNull(Threads), m_pAlt : OrNull(Threads),
   cond : SUBSET Threads]

Many2OneType ==
  [m_bReader : BOOLEAN, m_ulWriter : Int, m_pBuff : OrNull(Threads),
   m_pAlt : OrNull(Threads), cond : SUBSET Threads, m_cdReader : BOOLEAN]

Barrier2Type ==
  [m_sem : Int, m_parts : Int, m_pAlt : OrNull(Threads), cond : SUBSET Threads]

ObjTypes ==
  /\ obj = [g \in Guards |-> obj[g]]
  /\ \A c \in One2Ones : obj[c] \in One2OneType
  /\ \A c \in Many2Ones : obj[c] \in Many2OneType
  /\ \A b \in Barriers : obj[b] \in Barrier2Type

ThreadTypes ==
  /\ pc \in [Threads -> Places]
  /\ on \in [Threads -> Guards \cup {"none"}]

(* The indexes up to which a has gone through its guards ... *)
UpTo(a) ==
  IF pc[a] \in {"test", "enable", "entered", "resched"} THEN 0 .. alt[a].bound - 1
  ELSE 0 .. alt[a].bound

(* ... and those it has not disabled yet. *)
Undone(a) ==
  {i \in UpTo(a) : /\ pc[a] \in AltPlaces \ {"selected"}
                   /\ pc[a] = "disable" => alt[a].pos <= i}

(* How far the thread is in select agrees with its alternative's fields. *)
AltShape(a) ==
  LET r == alt[a] IN
  /\ pc[a] \in AltPlaces <=> r.m_state # "eInactive"
  /\ pc[a] \in AltPlaces => r.m_c \in Choices[a] /\ r.bound < Len(r.m_c)
  /\ r.asleep <=> r.m_state = "eWaiting"
  /\ r.m_state = "eWaiting" => pc[a] = "asleep"
  /\ pc[a] = "asleep" => r.m_state # "eEnabling"
  /\ pc[a] \in {"enable", "entered", "resched"} =>
       r.m_state = "eEnabling" /\ on[a] = r.m_c[r.bound + 1]
  /\ pc[a] = "disable" => r.pos <= r.bound /\ on[a] = r.m_c[r.pos + 1]
  /\ pc[a] \in {"disable", "selected"} => r.m_state = "eReady"
  /\ r.m_state = "eReady" => \E i \in UpTo(a) : r.m_selector = r.m_c[i + 1]
  /\ pc[a] \in {"disable", "selected"} =>
       \A i \in 0 .. r.bound : r.m_selector = r.m_c[i + 1] =>
         r.selected = IF pc[a] = "selected" \/ i < r.pos THEN i ELSE Len(r.m_c)

(* An object knows an alternative only while one of its guards is this     *)
(* object and is not disabled yet.                                         *)
Registered(a) ==
  \A g \in Guards : obj[g].m_pAlt = a => \E i \in Undone(a) : alt[a].m_c[i + 1] = g

Shape ==
  /\ alt \in [Threads -> AltType]
  /\ ObjTypes
  /\ ThreadTypes
  /\ \A a \in Threads : AltShape(a) /\ Registered(a)
-----------------------------------------------------------------------------
(* What AlternativeAssumption says of a list of guards. *)
LEMMA ChoiceList ==
  ASSUME NEW t \in Threads, NEW s \in Choices[t]
  PROVE  /\ s \in Seq(Guards)
         /\ Len(s) \in Nat \ {0}
         /\ \A i \in 0 .. Len(s) - 1 : s[i + 1] \in Guards
         /\ \A i, j \in 0 .. Len(s) - 1 : s[i + 1] = s[j + 1] => i = j
<1>1. s \in Seq(Guards) /\ s # <<>>
  BY AlternativeAssumption
<1>2. Len(s) \in Nat \ {0} /\ DOMAIN s = 1 .. Len(s)
  BY <1>1
<1>3. \A i \in 0 .. Len(s) - 1 : i + 1 \in DOMAIN s /\ s[i + 1] \in Guards
  BY <1>1, <1>2
<1>4. \A i, j \in DOMAIN s : s[i] = s[j] => i = j
  BY AlternativeAssumption
<1> QED
  BY <1>1, <1>2, <1>3, <1>4

LEMMA Classes ==
  /\ One2Ones \cap Many2Ones = {}
  /\ One2Ones \cap Barriers = {}
  /\ Many2Ones \cap Barriers = {}
  /\ Guards = One2Ones \cup Many2Ones \cup Barriers
  /\ "none" \notin Guards
  /\ "undef" \notin Guards
  /\ "null" \notin Threads
BY AlternativeAssumption DEF Guards, Channels

(* What the step of a thread does to pc and on. *)
Moved(t) ==
  /\ ThreadTypes'
  /\ \A u \in Threads \ {t} : pc'[u] = pc[u] /\ on'[u] = on[u]

LEMMA GotoMoves ==
  ASSUME ThreadTypes, NEW t \in Threads, NEW place \in Places,
         NEW g \in Guards \cup {"none"}, Goto(t, place, g)
  PROVE  Moved(t) /\ pc'[t] = place /\ on'[t] = g
BY DEF ThreadTypes, Goto, Moved

(* A thread keeps its shape when others move ... *)
LEMMA Undisturbed ==
  ASSUME NEW a \in Threads, AltShape(a), Registered(a),
         alt'[a] = alt[a], pc'[a] = pc[a], on'[a] = on[a],
         \A g \in Guards : obj'[g].m_pAlt = a => obj[g].m_pAlt = a
  PROVE  AltShape(a)' /\ Registered(a)'
<1>1. AltShape(a)' /\ UpTo(a)' = UpTo(a)
  BY DEF AltShape, UpTo
<1>2. Undone(a)' = Undone(a)
  BY <1>1 DEF Undone
<1> QED
  BY <1>1, <1>2 DEF Registered

(* ... and when it moves outside select. *)
LEMMA Outside ==
  ASSUME NEW a \in Threads, AltShape(a), Registered(a),
         alt'[a] = alt[a], pc[a] \notin AltPlaces, pc'[a] \notin AltPlaces,
         \A g \in Guards : obj'[g].m_pAlt = a => obj[g].m_pAlt = a
  PROVE  AltShape(a)' /\ Registered(a)'
<1>1. Undone(a) = {}
  BY DEF Undone
<1>2. AltShape(a)'
  BY DEF AltShape, AltPlaces, UpTo
<1> QED
  BY <1>1, <1>2 DEF Registered

(* schedule of an alternative, called for an object that knows it. *)
LEMMA Scheduled ==
  ASSUME NEW a \in Threads, alt[a] \in AltType, AltShape(a), Registered(a),
         NEW c \in Guards, obj[c].m_pAlt = a, AltFree(a),
         alt'[a] = schedule(alt[a], c), pc'[a] = pc[a], on'[a] = on[a],
         \A g \in Guards : obj'[g].m_pAlt = a => obj[g].m_pAlt = a
  PROVE  alt'[a] \in AltType /\ AltShape(a)' /\ Registered(a)'
<1>1. PICK i \in Undone(a) : alt[a].m_c[i + 1] = c
  BY DEF Registered
<1>2. /\ alt'[a] \in AltType
      /\ alt'[a].m_c = alt[a].m_c /\ alt'[a].bound = alt[a].bound
      /\ alt'[a].pos = alt[a].pos
  BY Zenon DEF schedule, AltType
<1>3. Undone(a)' = Undone(a) /\ UpTo(a)' = UpTo(a) /\ i \in UpTo(a)
  BY <1>1, <1>2 DEF Undone, UpTo
<1>4. CASE ScheduleResult(alt[a])
  <2>1. /\ alt'[a].m_state = "eReady" /\ alt'[a].m_selector = c
        /\ ~alt'[a].asleep
    BY <1>4 DEF schedule, ScheduleResult, AltType, AltShape
  <2> QED
    BY <1>1, <1>2, <1>3, <1>4, <2>1
    DEF AltShape, Registered, AltFree, ScheduleResult, AltPlaces
<1>5. CASE ~ScheduleResult(alt[a])
  BY <1>2, <1>3, <1>5, Undisturbed DEF schedule
<1> QED
  BY <1>4, <1>5
-----------------------------------------------------------------------------
(* A round of the enabling loop ends. *)
LEMMA Enabled1 ==
  ASSUME NEW a \in Threads, alt[a] \in AltType, AltShape(a), Registered(a),
         pc[a] \in {"enable", "entered", "resched"}, NEW ready \in BOOLEAN,
         alt'[a] = AfterEnable(alt[a], ready),
         pc'[a] = IF ~ready /\ alt[a].bound + 1 < Len(alt[a].m_c)
                  THEN "test" ELSE "check",
         \A g \in Guards : obj'[g].m_pAlt = a => obj[g].m_pAlt = a \/ g = on[a]
  PROVE  alt'[a] \in AltType /\ AltShape(a)' /\ Registered(a)'
<1> DEFINE r == alt[a]
<1>1. /\ r.m_c \in Choices[a] /\ r.bound \in Nat /\ r.bound < Len(r.m_c)
      /\ r.m_state = "eEnabling" /\ on[a] = r.m_c[r.bound + 1]
      /\ ~r.asleep
  BY DEF AltShape, AltPlaces, AltType
<1>2. Len(r.m_c) \in Nat /\ r.m_c[r.bound + 1] \in Guards
  BY <1>1, ChoiceList
<1>3. /\ alt'[a] \in AltType
      /\ alt'[a].m_c = r.m_c /\ alt'[a].asleep = r.asleep
      /\ ready => /\ alt'[a].m_state = "eReady"
                  /\ alt'[a].m_selector = r.m_c[r.bound + 1]
                  /\ alt'[a].bound = r.bound
      /\ ~ready => /\ alt'[a].m_state = "eEnabling"
                   /\ alt'[a].bound = IF r.bound + 1 < Len(r.m_c) THEN r.bound + 1
                                      ELSE r.bound
  <2>1. CASE ready
    BY <1>1, <1>2, <2>1, Zenon DEF AfterEnable, AltType
  <2>2. CASE ~ready
    BY <1>1, <1>2, <2>2 DEF AfterEnable, AltType
  <2> QED
    BY <2>1, <2>2
<1>4. UpTo(a)' = 0 .. r.bound /\ Undone(a)' = 0 .. r.bound
  BY <1>1, <1>2, <1>3 DEF UpTo, Undone, AltPlaces
<1>5. Undone(a) \subseteq 0 .. r.bound /\ r.bound \in 0 .. r.bound
  BY <1>1 DEF UpTo, Undone
<1>6. AltShape(a)'
  BY <1>1, <1>2, <1>3, <1>4, <1>5 DEF AltShape, AltPlaces
<1>7. Registered(a)'
  BY <1>1, <1>3, <1>4, <1>5 DEF Registered
<1> QED
  BY <1>3, <1>6, <1>7

(* What the end of a round of the disabling loop does. *)
LEMMA DisableDoneMoves ==
  ASSUME NEW a \in Threads, ThreadTypes, alt \in [Threads -> AltType], AltShape(a),
         pc[a] = "disable", DisableDone(a)
  PROVE  LET r == alt[a] IN
         /\ alt' \in [Threads -> AltType]
         /\ \A u \in Threads \ {a} : alt'[u] = alt[u]
         /\ alt'[a].m_c = r.m_c /\ alt'[a].asleep = r.asleep
         /\ alt'[a].bound = r.bound /\ alt'[a].m_state = r.m_state
         /\ alt'[a].m_selector = r.m_selector
         /\ alt'[a].pos = IF r.pos < r.bound THEN r.pos + 1 ELSE r.pos
         /\ alt'[a].selected = IF Cares(a) THEN r.pos ELSE r.selected
         /\ Moved(a)
         /\ r.pos < r.bound => pc'[a] = "disable" /\ on'[a] = r.m_c[r.pos + 2]
         /\ ~(r.pos < r.bound) => pc'[a] = "selected" /\ on'[a] = "none"
<1> DEFINE r == alt[a]
<1>1. /\ r.m_c \in Choices[a] /\ r.bound \in Nat /\ r.bound < Len(r.m_c)
      /\ r.pos \in Nat /\ r.pos <= r.bound /\ on[a] = r.m_c[r.pos + 1]
      /\ r.m_state = "eReady" /\ ~r.asleep
      /\ r.selected \in Nat
  BY DEF AltShape, AltPlaces, AltType
<1>2. /\ Len(r.m_c) \in Nat
      /\ \A i \in 0 .. r.bound : r.m_c[i + 1] \in Guards
  BY <1>1, ChoiceList
<1>3. /\ alt' \in [Threads -> AltType]
      /\ \A u \in Threads \ {a} : alt'[u] = alt[u]
      /\ alt'[a].m_c = r.m_c /\ alt'[a].asleep = r.asleep
      /\ alt'[a].bound = r.bound /\ alt'[a].m_state = r.m_state
      /\ alt'[a].m_selector = r.m_selector
      /\ alt'[a].pos = IF r.pos < r.bound THEN r.pos + 1 ELSE r.pos
      /\ alt'[a].selected = IF Cares(a) THEN r.pos ELSE r.selected
  <2> DEFINE s == IF Cares(a) THEN r.pos ELSE r.selected
             p == IF r.pos < r.bound THEN r.pos + 1 ELSE r.pos
  <2>1. alt' = [alt EXCEPT ![a].selected = s, ![a].pos = p]
    BY DEF DisableDone
  <2>2. s \in Nat /\ p \in Nat
    BY <1>1
  <2> HIDE DEF s, p
  <2>3. /\ alt' \in [Threads -> AltType]
        /\ \A u \in Threads \ {a} : alt'[u] = alt[u]
        /\ alt'[a].m_c = r.m_c /\ alt'[a].asleep = r.asleep
        /\ alt'[a].bound = r.bound /\ alt'[a].m_state = r.m_state
        /\ alt'[a].m_selector = r.m_selector /\ alt'[a].pos = p
        /\ alt'[a].selected = s
    BY <2>1, <2>2, Zenon DEF AltType
  <2> QED
    BY <2>3 DEF p, s
<1>4. /\ Moved(a)
      /\ r.pos < r.bound => pc'[a] = "disable" /\ on'[a] = r.m_c[r.pos + 2]
      /\ ~(r.pos < r.bound) => pc'[a] = "selected" /\ on'[a] = "none"
  <2>1. CASE r.pos < r.bound
    <3>1. r.m_c[r.pos + 2] \in Guards
      BY <1>1, <1>2, <2>1, r.pos + 1 \in 0 .. r.bound, (r.pos + 1) + 1 = r.pos + 2
    <3> QED
      BY <2>1, <3>1, GotoMoves DEF DisableDone, Places
  <2>2. CASE ~(r.pos < r.bound)
    BY <2>2, GotoMoves DEF DisableDone, Places
  <2> QED
    BY <2>1, <2>2
<1> QED
  BY <1>3, <1>4

(* disable has cleared the object's m_pAlt. *)
LEMMA Disabled ==
  ASSUME NEW a \in Threads, ThreadTypes, alt \in [Threads -> AltType], AltShape(a),
         Registered(a), pc[a] = "disable", DisableDone(a),
         \A g \in Guards : obj'[g].m_pAlt = a => obj[g].m_pAlt = a /\ g # on[a]
  PROVE  /\ alt' \in [Threads -> AltType]
         /\ \A u \in Threads \ {a} : alt'[u] = alt[u]
         /\ Moved(a) /\ AltShape(a)' /\ Registered(a)'
<1> DEFINE r == alt[a]
<1>1. /\ r.m_c \in Choices[a] /\ r.bound \in Nat /\ r.bound < Len(r.m_c)
      /\ r.pos \in Nat /\ r.pos <= r.bound /\ on[a] = r.m_c[r.pos + 1]
      /\ r.m_state = "eReady" /\ ~r.asleep
      /\ r.selected \in Nat
  BY DEF AltShape, AltPlaces, AltType
<1>2. /\ Len(r.m_c) \in Nat
      /\ \A i \in 0 .. r.bound : r.m_c[i + 1] \in Guards
  BY <1>1, ChoiceList
<1>3. /\ alt' \in [Threads -> AltType]
      /\ \A u \in Threads \ {a} : alt'[u] = alt[u]
      /\ alt'[a].m_c = r.m_c /\ alt'[a].asleep = r.asleep
      /\ alt'[a].bound = r.bound /\ alt'[a].m_state = r.m_state
      /\ alt'[a].m_selector = r.m_selector
      /\ alt'[a].pos = IF r.pos < r.bound THEN r.pos + 1 ELSE r.pos
      /\ alt'[a].selected = IF Cares(a) THEN r.pos ELSE r.selected
  BY DisableDoneMoves
<1>4. /\ Moved(a)
      /\ r.pos < r.bound => pc'[a] = "disable" /\ on'[a] = r.m_c[r.pos + 2]
      /\ ~(r.pos < r.bound) => pc'[a] = "selected" /\ on'[a] = "none"
  BY DisableDoneMoves
<1>5. UpTo(a) = 0 .. r.bound /\ UpTo(a)' = 0 .. r.bound
  BY <1>3, <1>4 DEF UpTo
<1>6. AltShape(a)'
  <2>1. r.pos < r.bound => r.pos + 2 = alt'[a].pos + 1
    BY <1>1, <1>3
  <2>2. \E i \in UpTo(a)' : alt'[a].m_selector = alt'[a].m_c[i + 1]
    BY <1>1, <1>3, <1>5 DEF AltShape
  <2>3. ASSUME NEW i \in 0 .. r.bound, r.m_selector = r.m_c[i + 1]
        PROVE  alt'[a].selected = IF pc'[a] = "selected" \/ i < alt'[a].pos THEN i
                                  ELSE Len(r.m_c)
    <3>1. Cares(a) <=> i = r.pos
      <4>1. i \in 0 .. Len(r.m_c) - 1 /\ r.pos \in 0 .. Len(r.m_c) - 1
        BY <1>1, <1>2, <2>3
      <4>2. r.m_c[i + 1] = r.m_c[r.pos + 1] => i = r.pos
        BY <1>1, <4>1, ChoiceList, Zenon
      <4> QED
        BY <1>1, <2>3, <4>2 DEF Cares
    <3>2. r.selected = IF i < r.pos THEN i ELSE Len(r.m_c)
      BY <2>3 DEF AltShape
    <3>3. CASE r.pos < r.bound
      BY <1>1, <1>3, <1>4, <2>3, <3>1, <3>2, <3>3
    <3>4. CASE ~(r.pos < r.bound)
      BY <1>1, <1>3, <1>4, <2>3, <3>1, <3>2, <3>4
    <3> QED
      BY <3>3, <3>4
  <2> QED
    BY <1>1, <1>3, <1>4, <2>1, <2>2, <2>3 DEF AltShape, AltPlaces
<1>7. Registered(a)'
  <2> SUFFICES ASSUME NEW g \in Guards, obj'[g].m_pAlt = a
               PROVE  \E i \in Undone(a)' : alt'[a].m_c[i + 1] = g
    BY DEF Registered
  <2>1. PICK i \in Undone(a) : r.m_c[i + 1] = g
    BY DEF Registered
  <2>2. i \in 0 .. r.bound /\ r.pos <= i /\ i # r.pos
    BY <1>1, <1>5, <2>1 DEF Undone
  <2>3. i \in Undone(a)'
    BY <1>1, <1>3, <1>4, <1>5, <2>2 DEF Undone, AltPlaces
  <2> QED
    BY <1>3, <2>1, <2>3
<1> QED
  BY <1>3, <1>4, <1>6, <1>7
-----------------------------------------------------------------------------
(* t moves, outside select before and after. *)
MovedOutside(t) == Moved(t) /\ pc[t] \notin AltPlaces /\ pc'[t] \notin AltPlaces

(* Of all objects only g changes ... *)
Changed(g, r) ==
  /\ obj' = [h \in Guards |-> obj'[h]]
  /\ obj'[g] = r
  /\ \A h \in Guards \ {g} : obj'[h] = obj[h]

(* ... and stays in its class, knowing the same alternative or another. *)
ChangedIn(g, Type, a) == \E r \in Type : Changed(g, r) /\ r.m_pAlt = a

LEMMA MovesOutside ==
  ASSUME ThreadTypes, NEW t \in Threads, pc[t] \in Places \ AltPlaces,
         NEW place \in Places \ AltPlaces, NEW g \in Guards \cup {"none"},
         Goto(t, place, g)
  PROVE  MovedOutside(t)
BY GotoMoves DEF MovedOutside

(* Outside select a channel keeps what it knows of alternatives. *)
LEMMA PlainOne2One ==
  ASSUME ThreadTypes, ObjTypes, NEW t \in Threads,
         \/ ReadFirst(t) \/ ReadSecond(t) \/ ReadWake(t) \/ WriteFirst(t)
              \/ WriteSecond(t) \/ WriteWake(t) \/ WriteSchedule(t)
  PROVE  on[t] \in One2Ones /\ ChangedIn(on[t], One2OneType, obj[on[t]].m_pAlt)
<1> DEFINE c == on[t]
           o == obj[c]
<1>1. CASE ReadFirst(t)
  <2>1. c \in One2Ones /\ c \in Guards /\ o \in One2OneType
    BY <1>1, Classes DEF ReadFirst, Locks, At, ObjTypes
  <2> DEFINE r == [o EXCEPT !.m_bEmpty = FALSE, !.cond = @ \cup {t}]
  <2>4. r \in One2OneType /\ r.m_pAlt = o.m_pAlt
    <3>1. \A x \in One2OneType :
             LET y == [x EXCEPT !.m_bEmpty = FALSE, !.cond = @ \cup {t}]
             IN  y \in One2OneType /\ y.m_pAlt = x.m_pAlt
      BY <2>1, Zenon DEF One2OneType
    <3> QED
      BY <2>1, <3>1, Zenon
  <2>5. Changed(c, r)
    BY <1>1, <2>1, Zenon DEF ReadFirst, Changed, ObjTypes
  <2> HIDE DEF r
  <2> QED
    BY <2>1, <2>4, <2>5 DEF ChangedIn
<1>2. CASE ReadSecond(t)
  <2>1. c \in One2Ones /\ c \in Guards /\ o \in One2OneType
    BY <1>2, Classes DEF ReadSecond, Locks, At, ObjTypes
  <2>2. PICK rest \in Signalled(c) :
         obj' = [obj EXCEPT ![c].m_bEmpty = TRUE, ![c].cond = rest]
    BY <1>2, Zenon DEF ReadSecond
  <2>3. rest \in SUBSET Threads
    BY <2>1, <2>2 DEF Signalled, One2OneType
  <2> DEFINE r == [o EXCEPT !.m_bEmpty = TRUE, !.cond = rest]
  <2>4. r \in One2OneType /\ r.m_pAlt = o.m_pAlt
    <3>1. \A x \in One2OneType :
             LET y == [x EXCEPT !.m_bEmpty = TRUE, !.cond = rest]
             IN  y \in One2OneType /\ y.m_pAlt = x.m_pAlt
      BY <2>1, <2>3, Zenon DEF One2OneType
    <3> QED
      BY <2>1, <3>1, Zenon
  <2>5. Changed(c, r)
    BY <2>1, <2>2, Zenon DEF Changed, ObjTypes
  <2> HIDE DEF r
  <2> QED
    BY <2>1, <2>4, <2>5 DEF ChangedIn
<1>3. CASE ReadWake(t)
  <2>1. c \in One2Ones /\ c \in Guards /\ o \in One2OneType
    BY <1>3, Classes DEF ReadWake, Resumes, Locks, At, ObjTypes
  <2>2. PICK rest \in Signalled(c) :
         obj' = [obj EXCEPT ![c].cond = rest]
    BY <1>3, Zenon DEF ReadWake
  <2>3. rest \in SUBSET Threads
    BY <2>1, <2>2 DEF Signalled, One2OneType
  <2> DEFINE r == [o EXCEPT !.cond = rest]
  <2>4. r \in One2OneType /\ r.m_pAlt = o.m_pAlt
    <3>1. \A x \in One2OneType :
             LET y == [x EXCEPT !.cond = rest]
             IN  y \in One2OneType /\ y.m_pAlt = x.m_pAlt
      BY <2>1, <2>3 DEF One2OneType
    <3> QED
      BY <2>1, <3>1, Zenon
  <2>5. Changed(c, r)
    BY <2>1, <2>2 DEF Changed, ObjTypes
  <2> HIDE DEF r
  <2> QED
    BY <2>1, <2>4, <2>5 DEF ChangedIn
<1>4. CASE WriteFirst(t) /\ o.m_pAlt # "null"
  <2>1. c \in One2Ones /\ c \in Guards /\ o \in One2OneType
    BY <1>4, Classes, Zenon DEF WriteFirst, Locks, At, ObjTypes
  <2> DEFINE r == [o EXCEPT !.m_pBuff = t, !.m_bEmpty = FALSE]
  <2>4. r \in One2OneType /\ r.m_pAlt = o.m_pAlt
    <3>1. \A x \in One2OneType :
             LET y == [x EXCEPT !.m_pBuff = t, !.m_bEmpty = FALSE]
             IN  y \in One2OneType /\ y.m_pAlt = x.m_pAlt
      BY <2>1, Zenon DEF One2OneType, OrNull
    <3> QED
      BY <2>1, <3>1, Zenon
  <2>5. Changed(c, r)
    BY <1>4, <2>1, Zenon DEF WriteFirst, Changed, ObjTypes
  <2> HIDE DEF r
  <2> QED
    BY <2>1, <2>4, <2>5 DEF ChangedIn
<1>5. CASE WriteFirst(t) /\ o.m_pAlt = "null"
  <2>1. c \in One2Ones /\ c \in Guards /\ o \in One2OneType
    BY <1>5, Classes, Zenon DEF WriteFirst, Locks, At, ObjTypes
  <2> DEFINE r == [o EXCEPT !.m_pBuff = t, !.m_bEmpty = FALSE, !.cond = @ \cup {t}]
  <2>4. r \in One2OneType /\ r.m_pAlt = o.m_pAlt
    <3>1. \A x \in One2OneType :
             LET y == [x EXCEPT !.m_pBuff = t, !.m_bEmpty = FALSE, !.cond = @ \cup {t}]
             IN  y \in One2OneType /\ y.m_pAlt = x.m_pAlt
      BY <2>1, Zenon DEF One2OneType, OrNull
    <3> QED
      BY <2>1, <3>1, Zenon
  <2>5. Changed(c, r)
    BY <1>5, <2>1 DEF WriteFirst, Changed, ObjTypes
  <2> HIDE DEF r
  <2> QED
    BY <2>1, <2>4, <2>5 DEF ChangedIn
<1>6. CASE WriteSecond(t)
  <2>1. c \in One2Ones /\ c \in Guards /\ o \in One2OneType
    BY <1>6, Classes, Zenon DEF WriteSecond, Locks, At, ObjTypes
  <2>2. PICK rest \in Signalled(c) :
         obj' = [obj EXCEPT ![c].m_pBuff = t, ![c].m_bEmpty = TRUE,
                            ![c].cond = rest \cup {t}]
    BY <1>6, Zenon DEF WriteSecond
  <2>3. rest \in SUBSET Threads
    BY <2>1, <2>2 DEF Signalled, One2OneType
  <2> DEFINE r == [o EXCEPT !.m_pBuff = t, !.m_bEmpty = TRUE, !.cond = rest \cup {t}]
  <2>4. r \in One2OneType /\ r.m_pAlt = o.m_pAlt
    <3>1. \A x \in One2OneType :
             LET y == [x EXCEPT !.m_pBuff = t, !.m_bEmpty = TRUE,
                                !.cond = rest \cup {t}]
             IN  y \in One2OneType /\ y.m_pAlt = x.m_pAlt
      BY <2>1, <2>3, Zenon DEF One2OneType, OrNull
    <3> QED
      BY <2>1, <3>1, Zenon
  <2>5. Changed(c, r)
    BY <2>1, <2>2, Zenon DEF Changed, ObjTypes
  <2> HIDE DEF r
  <2> QED
    BY <2>1, <2>4, <2>5 DEF ChangedIn
<1>7. CASE WriteWake(t)
  <2>1. c \in One2Ones /\ c \in Guards /\ o \in One2OneType
    BY <1>7, Classes DEF WriteWake, Resumes, Locks, At, ObjTypes
  <2> QED
    BY <1>7, <2>1 DEF WriteWake, Changed, ChangedIn, ObjTypes
<1>8. CASE WriteSchedule(t)
  <2>1. c \in One2Ones /\ c \in Guards /\ o \in One2OneType
    BY <1>8, Classes DEF WriteSchedule, At, ObjTypes
  <2> DEFINE r == [o EXCEPT !.cond = @ \cup {t}]
  <2>4. r \in One2OneType /\ r.m_pAlt = o.m_pAlt
    <3>1. \A x \in One2OneType :
             LET y == [x EXCEPT !.cond = @ \cup {t}]
             IN  y \in One2OneType /\ y.m_pAlt = x.m_pAlt
      BY <2>1 DEF One2OneType
    <3> QED
      BY <2>1, <3>1, Zenon
  <2>5. Changed(c, r)
    BY <1>8, <2>1, Zenon DEF WriteSchedule, Changed, ObjTypes
  <2> HIDE DEF r
  <2> QED
    BY <2>1, <2>4, <2>5 DEF ChangedIn
<1> QED
  BY <1>1, <1>2, <1>3, <1>4, <1>5, <1>6, <1>7, <1>8 DEF WriteFirst

(* disable clears it. *)
LEMMA DisableOne2OneClears ==
  ASSUME ThreadTypes, ObjTypes, NEW t \in Threads,
         \/ DisableOne2One(t)
  PROVE  on[t] \in One2Ones /\ ChangedIn(on[t], One2OneType, "null")
<1> DEFINE c == on[t]
           o == obj[c]
<1>1. CASE DisableOne2One(t)
  <2>1. c \in One2Ones /\ c \in Guards /\ o \in One2OneType
    BY <1>1, Classes DEF DisableOne2One, Locks, At, ObjTypes
  <2> DEFINE r == [o EXCEPT !.m_pAlt = "null"]
  <2>4. r \in One2OneType /\ r.m_pAlt = "null"
    <3>1. \A x \in One2OneType :
             LET y == [x EXCEPT !.m_pAlt = "null"]
             IN  y \in One2OneType /\ y.m_pAlt = "null"
      BY <2>1 DEF One2OneType, OrNull
    <3> QED
      BY <2>1, <3>1, Zenon
  <2>5. Changed(c, r)
    BY <1>1, <2>1 DEF DisableOne2One, Changed, ObjTypes
  <2> HIDE DEF r
  <2> QED
    BY <2>1, <2>4, <2>5 DEF ChangedIn
<1> QED
  BY <1>1

(* One round of write's loop. *)
LEMMA LoopTestKeeps ==
  ASSUME ThreadTypes, ObjTypes, NEW t \in Threads, on[t] \in Many2Ones,
         NEW m \in Many2OneType, LoopTest(t, m)
  PROVE  ChangedIn(on[t], Many2OneType, m.m_pAlt)
<1> DEFINE c == on[t]
<1>1. c \in Guards
  BY Classes
<1>2. CASE obj' = [obj EXCEPT ![c] = [m EXCEPT !.cond = @ \cup {t}]]
  <2> DEFINE r == [m EXCEPT !.cond = @ \cup {t}]
  <2>1. r \in Many2OneType /\ r.m_pAlt = m.m_pAlt
    BY DEF Many2OneType
  <2>2. Changed(c, r)
    BY <1>1, <1>2, Zenon DEF Changed, ObjTypes
  <2> QED
    BY <2>1, <2>2, Zenon DEF ChangedIn
<1>3. CASE obj' = [obj EXCEPT ![c] = [m EXCEPT !.m_pBuff = t]]
  <2> DEFINE r == [m EXCEPT !.m_pBuff = t]
  <2>1. r \in Many2OneType /\ r.m_pAlt = m.m_pAlt
    BY DEF Many2OneType, OrNull
  <2>2. Changed(c, r)
    BY <1>1, <1>3 DEF Changed, ObjTypes
  <2> QED
    BY <2>1, <2>2, Zenon DEF ChangedIn
<1> QED
  BY <1>2, <1>3 DEF LoopTest

(* The many2one channel does the same. *)
LEMMA PlainMany2One ==
  ASSUME ThreadTypes, ObjTypes, NEW t \in Threads,
         \/ ReadEnter(t) \/ ReadWait(t) \/ ReadCopy(t) \/ WriteSignal(t)
  PROVE  on[t] \in Many2Ones /\ ChangedIn(on[t], Many2OneType, obj[on[t]].m_pAlt)
<1> DEFINE c == on[t]
           o == obj[c]
<1>1. CASE ReadEnter(t)
  <2>1. c \in Many2Ones /\ c \in Guards /\ o \in Many2OneType
    BY <1>1, Classes DEF ReadEnter, Locks, At, ObjTypes
  <2>2. PICK rest \in IF o.m_ulWriter > 0 THEN Signalled(c) ELSE {o.cond} :
         obj' = [obj EXCEPT ![c].m_bReader = TRUE, ![c].cond = rest]
    BY <1>1, Zenon DEF ReadEnter
  <2>3. rest \in SUBSET Threads
    BY <2>1, <2>2 DEF Signalled, Many2OneType
  <2> DEFINE r == [o EXCEPT !.m_bReader = TRUE, !.cond = rest]
  <2>4. r \in Many2OneType /\ r.m_pAlt = o.m_pAlt
    <3>1. \A x \in Many2OneType :
             LET y == [x EXCEPT !.m_bReader = TRUE, !.cond = rest]
             IN  y \in Many2OneType /\ y.m_pAlt = x.m_pAlt
      BY <2>1, <2>3, Zenon DEF Many2OneType
    <3> QED
      BY <2>1, <3>1, Zenon
  <2>5. Changed(c, r)
    BY <2>1, <2>2, Zenon DEF Changed, ObjTypes
  <2> HIDE DEF r
  <2> QED
    BY <2>1, <2>4, <2>5 DEF ChangedIn
<1>2. CASE ReadWait(t)
  <2>1. c \in Many2Ones /\ c \in Guards /\ o \in Many2OneType
    BY <1>2, Classes DEF ReadWait, At, ObjTypes
  <2> DEFINE r == [o EXCEPT !.m_cdReader = TRUE]
  <2>4. r \in Many2OneType /\ r.m_pAlt = o.m_pAlt
    <3>1. \A x \in Many2OneType :
             LET y == [x EXCEPT !.m_cdReader = TRUE]
             IN  y \in Many2OneType /\ y.m_pAlt = x.m_pAlt
      BY <2>1, Zenon DEF Many2OneType
    <3> QED
      BY <2>1, <3>1, Zenon
  <2>5. Changed(c, r)
    BY <1>2, <2>1, Zenon DEF ReadWait, Changed, ObjTypes
  <2> HIDE DEF r
  <2> QED
    BY <2>1, <2>4, <2>5 DEF ChangedIn
<1>3. CASE ReadCopy(t)
  <2>1. c \in Many2Ones /\ c \in Guards /\ o \in Many2OneType
    BY <1>3, Classes DEF ReadCopy, Locks, At, ObjTypes
  <2> DEFINE r == [o EXCEPT !.m_pBuff = "null", !.m_bReader = FALSE]
  <2>4. r \in Many2OneType /\ r.m_pAlt = o.m_pAlt
    <3>1. \A x \in Many2OneType :
             LET y == [x EXCEPT !.m_pBuff = "null", !.m_bReader = FALSE]
             IN  y \in Many2OneType /\ y.m_pAlt = x.m_pAlt
      BY <2>1, Zenon DEF Many2OneType, OrNull
    <3> QED
      BY <2>1, <3>1, Zenon
  <2>5. Changed(c, r)
    BY <1>3, <2>1, Zenon DEF ReadCopy, Changed, ObjTypes
  <2> HIDE DEF r
  <2> QED
    BY <2>1, <2>4, <2>5 DEF ChangedIn
<1>4. CASE WriteSignal(t)
  <2>1. c \in Many2Ones /\ c \in Guards /\ o \in Many2OneType
    BY <1>4, Classes DEF WriteSignal, At, ObjTypes
  <2> DEFINE r == [o EXCEPT !.m_cdReader = FALSE, !.m_ulWriter = o.m_ulWriter - 1]
  <2>4. r \in Many2OneType /\ r.m_pAlt = o.m_pAlt
    <3>1. \A x \in Many2OneType, n \in Int :
             LET y == [x EXCEPT !.m_cdReader = FALSE, !.m_ulWriter = n]
             IN  y \in Many2OneType /\ y.m_pAlt = x.m_pAlt
      BY <2>1, Zenon DEF Many2OneType
    <3>2. o.m_ulWriter - 1 \in Int
      BY <2>1 DEF Many2OneType
    <3> QED
      BY <2>1, <3>1, <3>2, Zenon
  <2>5. Changed(c, r)
    BY <1>4, <2>1, Zenon DEF WriteSignal, Changed, ObjTypes
  <2> HIDE DEF r
  <2> QED
    BY <2>1, <2>4, <2>5 DEF ChangedIn
<1> QED
  BY <1>1, <1>2, <1>3, <1>4

(* disable clears it. *)
LEMMA DisableMany2OneClears ==
  ASSUME ThreadTypes, ObjTypes, NEW t \in Threads,
         \/ DisableMany2One(t)
  PROVE  on[t] \in Many2Ones /\ ChangedIn(on[t], Many2OneType, "null")
<1> DEFINE c == on[t]
           o == obj[c]
<1>1. CASE DisableMany2One(t)
  <2>1. c \in Many2Ones /\ c \in Guards /\ o \in Many2OneType
    BY <1>1, Classes DEF DisableMany2One, Locks, At, ObjTypes
  <2> DEFINE r == [o EXCEPT !.m_pAlt = "null"]
  <2>4. r \in Many2OneType /\ r.m_pAlt = "null"
    <3>1. \A x \in Many2OneType :
             LET y == [x EXCEPT !.m_pAlt = "null"]
             IN  y \in Many2OneType /\ y.m_pAlt = "null"
      BY <2>1 DEF Many2OneType, OrNull
    <3> QED
      BY <2>1, <3>1, Zenon
  <2>5. Changed(c, r)
    BY <1>1, <2>1 DEF DisableMany2One, Changed, ObjTypes
  <2> HIDE DEF r
  <2> QED
    BY <2>1, <2>4, <2>5 DEF ChangedIn
<1> QED
  BY <1>1

LEMMA LoopMany2One ==
  ASSUME ThreadTypes, ObjTypes, NEW t \in Threads,
         WriteEnter(t) \/ WriteScheduleAll(t) \/ WriteRetry(t)
  PROVE  on[t] \in Many2Ones /\ ChangedIn(on[t], Many2OneType, obj[on[t]].m_pAlt)
<1> DEFINE c == on[t]
           o == obj[c]
           n == [o EXCEPT !.m_ulWriter = @ + 1]
<1>1. c \in Many2Ones /\ c \in Guards /\ o \in Many2OneType
  BY Classes
  DEF WriteEnter, WriteScheduleAll, WriteRetry, Resumes, Locks, At, ObjTypes
<1>2. n \in Many2OneType /\ n.m_pAlt = o.m_pAlt
  <2>1. \A x \in Many2OneType, k \in Int :
           LET y == [x EXCEPT !.m_ulWriter = k]
           IN  y \in Many2OneType /\ y.m_pAlt = x.m_pAlt
    BY DEF Many2OneType
  <2>2. o.m_ulWriter + 1 \in Int
    BY <1>1 DEF Many2OneType
  <2> QED
    BY <1>1, <2>1, <2>2, Zenon
<1>3. CASE WriteEnter(t)
  <2>1. CASE obj' = [obj EXCEPT ![c] = n]
    <3>1. Changed(c, n)
      BY <1>1, <2>1 DEF Changed, ObjTypes
    <3> HIDE DEF n
    <3> QED
      BY <1>1, <1>2, <3>1 DEF ChangedIn
  <2>2. CASE LoopTest(t, n)
    <3> HIDE DEF n
    <3>1. ChangedIn(c, Many2OneType, n.m_pAlt)
      BY <1>1, <1>2, <2>2, LoopTestKeeps
    <3> QED
      BY <1>1, <1>2, <3>1
  <2> QED
    BY <1>3, <2>1, <2>2 DEF WriteEnter
<1>4. CASE WriteScheduleAll(t) \/ WriteRetry(t)
  <2>1. LoopTest(t, o)
    BY <1>4 DEF WriteScheduleAll, WriteRetry
  <2> QED
    BY <1>1, <2>1, LoopTestKeeps
<1> QED
  BY <1>3, <1>4

(* enable registers the alternative, unless it finds a one2one channel ready. *)
LEMMA EnableChannelRegisters ==
  ASSUME ThreadTypes, ObjTypes, NEW t \in Threads,
         EnableOne2One(t) \/ EnableMany2One(t)
  PROVE  \/ /\ on[t] \in One2Ones
            /\ \/ ChangedIn(on[t], One2OneType, t)
               \/ ChangedIn(on[t], One2OneType, obj[on[t]].m_pAlt)
         \/ on[t] \in Many2Ones /\ ChangedIn(on[t], Many2OneType, t)
<1> DEFINE c == on[t]
           o == obj[c]
<1>1. CASE EnableOne2One(t) /\ o.m_bEmpty
  <2>1. c \in One2Ones /\ c \in Guards /\ o \in One2OneType
    BY <1>1, Classes DEF EnableOne2One, Locks, At, ObjTypes
  <2> DEFINE r == [o EXCEPT !.m_pAlt = t]
  <2>4. r \in One2OneType /\ r.m_pAlt = t
    <3>1. \A x \in One2OneType :
             LET y == [x EXCEPT !.m_pAlt = t]
             IN  y \in One2OneType /\ y.m_pAlt = t
      BY <2>1 DEF One2OneType, OrNull
    <3> QED
      BY <2>1, <3>1, Zenon
  <2>5. Changed(c, r)
    BY <1>1, <2>1 DEF EnableOne2One, Changed, ObjTypes
  <2> HIDE DEF r
  <2> QED
    BY <2>1, <2>4, <2>5 DEF ChangedIn
<1>2. CASE EnableOne2One(t) /\ ~o.m_bEmpty
  <2>1. c \in One2Ones /\ c \in Guards /\ o \in One2OneType
    BY <1>2, Classes DEF EnableOne2One, Locks, At, ObjTypes
  <2> QED
    BY <1>2, <2>1, Zenon DEF EnableOne2One, Changed, ChangedIn, ObjTypes
<1>3. CASE EnableMany2One(t)
  <2>1. c \in Many2Ones /\ c \in Guards /\ o \in Many2OneType
    BY <1>3, Classes DEF EnableMany2One, Locks, At, ObjTypes
  <2> DEFINE w == IF o.m_ulWriter > 0 THEN {} ELSE o.cond
             r == [o EXCEPT !.cond = w, !.m_pAlt = t]
  <2>2. w \in SUBSET Threads
    BY <2>1 DEF Many2OneType
  <2>3. Changed(c, r)
    BY <1>3, <2>1, Zenon DEF EnableMany2One, Changed, ObjTypes
  <2> HIDE DEF w
  <2>4. r \in Many2OneType /\ r.m_pAlt = t
    <3>1. \A x \in Many2OneType :
             LET y == [x EXCEPT !.cond = w, !.m_pAlt = t]
             IN  y \in Many2OneType /\ y.m_pAlt = t
      BY <2>2, Zenon DEF Many2OneType, OrNull
    <3> QED
      BY <2>1, <3>1, Zenon
  <2> HIDE DEF r
  <2> QED
    BY <2>1, <2>3, <2>4 DEF ChangedIn
<1> QED
  BY <1>1, <1>2, <1>3
-----------------------------------------------------------------------------
(* Of all objects only barrier b changes, and its fields become these. *)
Becomes(b, sem, parts, a, w) ==
  \E r \in Barrier2Type :
    /\ Changed(b, r)
    /\ r.m_sem = sem /\ r.m_parts = parts /\ r.m_pAlt = a /\ r.cond = w

LEMMA BecomesChanged ==
  ASSUME NEW b, NEW sem, NEW parts, NEW a, NEW w, Becomes(b, sem, parts, a, w)
  PROVE  ChangedIn(b, Barrier2Type, a)
BY DEF Becomes, ChangedIn

(* What each action of a barrier does to it. *)
LEMMA BarrierEffects ==
  ASSUME ThreadTypes, ObjTypes, NEW t \in Threads
  PROVE  LET c == on[t]
             o == obj[c]
         IN
         /\ SemWait(t) =>
              c \in Barriers /\ Becomes(c, o.m_sem - 1, o.m_parts, o.m_pAlt, o.cond)
         /\ SyncFirst(t) /\ o.m_pAlt # "null" =>
              c \in Barriers /\ Becomes(c, o.m_sem, o.m_parts + 1, o.m_pAlt, o.cond)
         /\ SyncFirst(t) /\ o.m_pAlt = "null" =>
              c \in Barriers
                /\ Becomes(c, o.m_sem, o.m_parts + 1, o.m_pAlt, o.cond \cup {t})
         /\ SyncSchedule(t) =>
              c \in Barriers
                /\ Becomes(c, o.m_sem, o.m_parts, o.m_pAlt, o.cond \cup {t})
         /\ SyncSecond(t) =>
              c \in Barriers /\ \E rest \in Signalled(c) :
                                  Becomes(c, o.m_sem + 1, o.m_parts + 1 - 2, o.m_pAlt, rest)
         /\ SyncWake(t) =>
              c \in Barriers /\ Becomes(c, o.m_sem + 1, o.m_parts, o.m_pAlt, o.cond)
         /\ EnableSemWait(t) =>
              c \in Barriers /\ Becomes(c, o.m_sem - 1, o.m_parts, o.m_pAlt, o.cond)
         /\ EnableRegister(t) =>
              c \in Barriers /\ Becomes(c, o.m_sem, o.m_parts, t, o.cond)
         /\ EnableReady(t) =>
              c \in Barriers /\ Becomes(c, o.m_sem, o.m_parts, "null", o.cond)
         /\ DisableBarrier2(t) /\ Cares(t) =>
              c \in Barriers /\ Becomes(c, o.m_sem, o.m_parts, "null", o.cond)
         /\ DisableBarrier2(t) /\ ~Cares(t) =>
              c \in Barriers /\ Becomes(c, o.m_sem + 1, o.m_parts, "null", o.cond)
<1> DEFINE c == on[t]
           o == obj[c]
<1>1. ASSUME SemWait(t)
      PROVE  c \in Barriers /\ Becomes(c, o.m_sem - 1, o.m_parts, o.m_pAlt, o.cond)
  <2>1. c \in Barriers /\ c \in Guards /\ o \in Barrier2Type
    BY <1>1, Classes DEF SemWait, At, ObjTypes
  <2> DEFINE r == [o EXCEPT !.m_sem = o.m_sem - 1]
  <2>4. r \in Barrier2Type /\ r.m_sem = o.m_sem - 1 /\ r.m_parts = o.m_parts
          /\ r.m_pAlt = o.m_pAlt /\ r.cond = o.cond
    <3>1. \A x \in Barrier2Type, n \in Int :
             LET y == [x EXCEPT !.m_sem = n]
             IN  y \in Barrier2Type /\ y.m_sem = n /\ y.m_parts = x.m_parts
                   /\ y.m_pAlt = x.m_pAlt /\ y.cond = x.cond
      BY <2>1 DEF Barrier2Type
    <3>2. o.m_sem - 1 \in Int
      BY <2>1 DEF Barrier2Type
    <3> QED
      BY <2>1, <3>1, <3>2, Zenon
  <2>5. Changed(c, r)
    BY <1>1, <2>1 DEF SemWait, Changed, ObjTypes
  <2> HIDE DEF r
  <2> QED
    BY <2>1, <2>4, <2>5 DEF Becomes
<1>2. ASSUME SyncFirst(t), o.m_pAlt # "null"
      PROVE  c \in Barriers /\ Becomes(c, o.m_sem, o.m_parts + 1, o.m_pAlt, o.cond)
  <2>1. c \in Barriers /\ c \in Guards /\ o \in Barrier2Type
    BY <1>2, Classes DEF SyncFirst, Locks, At, ObjTypes
  <2> DEFINE r == [o EXCEPT !.m_parts = o.m_parts + 1]
  <2>4. r \in Barrier2Type /\ r.m_sem = o.m_sem /\ r.m_parts = o.m_parts + 1
          /\ r.m_pAlt = o.m_pAlt /\ r.cond = o.cond
    <3>1. \A x \in Barrier2Type, n \in Int :
             LET y == [x EXCEPT !.m_parts = n]
             IN  y \in Barrier2Type /\ y.m_sem = x.m_sem /\ y.m_parts = n
                   /\ y.m_pAlt = x.m_pAlt /\ y.cond = x.cond
      BY <2>1 DEF Barrier2Type
    <3>2. o.m_parts + 1 \in Int
      BY <2>1 DEF Barrier2Type
    <3> QED
      BY <2>1, <3>1, <3>2, Zenon
  <2>5. Changed(c, r)
    BY <1>2, <2>1 DEF SyncFirst, Changed, ObjTypes
  <2> HIDE DEF r
  <2> QED
    BY <2>1, <2>4, <2>5 DEF Becomes
<1>3. ASSUME SyncFirst(t), o.m_pAlt = "null"
      PROVE  c \in Barriers
               /\ Becomes(c, o.m_sem, o.m_parts + 1, o.m_pAlt, o.cond \cup {t})
  <2>1. c \in Barriers /\ c \in Guards /\ o \in Barrier2Type
    BY <1>3, Classes DEF SyncFirst, Locks, At, ObjTypes
  <2> DEFINE r == [o EXCEPT !.m_parts = o.m_parts + 1, !.cond = o.cond \cup {t}]
  <2>4. r \in Barrier2Type /\ r.m_sem = o.m_sem /\ r.m_parts = o.m_parts + 1
          /\ r.m_pAlt = o.m_pAlt /\ r.cond = o.cond \cup {t}
    <3>1. \A x \in Barrier2Type, n \in Int :
             LET y == [x EXCEPT !.m_parts = n, !.cond = x.cond \cup {t}]
             IN  y \in Barrier2Type /\ y.m_sem = x.m_sem /\ y.m_parts = n
                   /\ y.m_pAlt = x.m_pAlt /\ y.cond = x.cond \cup {t}
      BY <2>1, Zenon DEF Barrier2Type
    <3>2. o.m_parts + 1 \in Int
      BY <2>1 DEF Barrier2Type
    <3> QED
      BY <2>1, <3>1, <3>2, Zenon
  <2>5. Changed(c, r)
    BY <1>3, <2>1, Zenon DEF SyncFirst, Changed, ObjTypes
  <2> HIDE DEF r
  <2> QED
    BY <2>1, <2>4, <2>5 DEF Becomes
<1>4. ASSUME SyncSchedule(t)
      PROVE  c \in Barriers /\ Becomes(c, o.m_sem, o.m_parts, o.m_pAlt, o.cond \cup {t})
  <2>1. c \in Barriers /\ c \in Guards /\ o \in Barrier2Type
    BY <1>4, Classes DEF SyncSchedule, At, ObjTypes
  <2> DEFINE r == [o EXCEPT !.cond = o.cond \cup {t}]
  <2>4. r \in Barrier2Type /\ r.m_sem = o.m_sem /\ r.m_parts = o.m_parts
          /\ r.m_pAlt = o.m_pAlt /\ r.cond = o.cond \cup {t}
    <3>1. \A x \in Barrier2Type :
             LET y == [x EXCEPT !.cond = x.cond \cup {t}]
             IN  y \in Barrier2Type /\ y.m_sem = x.m_sem
                   /\ y.m_parts = x.m_parts /\ y.m_pAlt = x.m_pAlt
                   /\ y.cond = x.cond \cup {t}
      BY <2>1 DEF Barrier2Type
    <3> QED
      BY <2>1, <3>1, Zenon
  <2>5. Changed(c, r)
    BY <1>4, <2>1 DEF SyncSchedule, Changed, ObjTypes
  <2> HIDE DEF r
  <2> QED
    BY <2>1, <2>4, <2>5 DEF Becomes
<1>5. ASSUME SyncSecond(t)
      PROVE  c \in Barriers /\ \E rest \in Signalled(c) :
                                 Becomes(c, o.m_sem + 1, o.m_parts + 1 - 2, o.m_pAlt, rest)
  <2>1. c \in Barriers /\ c \in Guards /\ o \in Barrier2Type
    BY <1>5, Classes, Zenon DEF SyncSecond, Locks, At, ObjTypes
  <2>2. PICK rest \in Signalled(c) :
         obj' = [obj EXCEPT ![c].m_parts = o.m_parts + 1 - 2,
                            ![c].m_sem = o.m_sem + 1, ![c].cond = rest]
    BY <1>5 DEF SyncSecond
  <2>3. rest \in SUBSET Threads
    BY <2>1, <2>2 DEF Signalled, Barrier2Type
  <2> DEFINE m == o.m_parts + 1 - 2
             n == o.m_sem + 1
             r == [o EXCEPT !.m_parts = m, !.m_sem = n, !.cond = rest]
  <2>4. m \in Int /\ n \in Int
    BY <2>1 DEF Barrier2Type
  <2>5. Changed(c, r)
    BY <2>1, <2>2, Zenon DEF Changed, ObjTypes
  <2> HIDE DEF m, n
  <2>6. r \in Barrier2Type /\ r.m_sem = n /\ r.m_parts = m
          /\ r.m_pAlt = o.m_pAlt /\ r.cond = rest
    <3>1. \A x \in Barrier2Type :
             LET y == [x EXCEPT !.m_parts = m, !.m_sem = n, !.cond = rest]
             IN  y \in Barrier2Type /\ y.m_sem = n /\ y.m_parts = m
                   /\ y.m_pAlt = x.m_pAlt /\ y.cond = rest
      BY <2>3, <2>4, Zenon DEF Barrier2Type
    <3> QED
      BY <2>1, <3>1, Zenon
  <2> HIDE DEF r
  <2>7. Becomes(c, n, m, o.m_pAlt, rest)
    BY <2>5, <2>6 DEF Becomes
  <2> QED
    BY <2>1, <2>2, <2>7 DEF m, n
<1>6. ASSUME SyncWake(t)
      PROVE  c \in Barriers /\ Becomes(c, o.m_sem + 1, o.m_parts, o.m_pAlt, o.cond)
  <2>1. c \in Barriers /\ c \in Guards /\ o \in Barrier2Type
    BY <1>6, Classes DEF SyncWake, Resumes, Locks, At, ObjTypes
  <2> DEFINE r == [o EXCEPT !.m_sem = o.m_sem + 1]
  <2>4. r \in Barrier2Type /\ r.m_sem = o.m_sem + 1 /\ r.m_parts = o.m_parts
          /\ r.m_pAlt = o.m_pAlt /\ r.cond = o.cond
    <3>1. \A x \in Barrier2Type, n \in Int :
             LET y == [x EXCEPT !.m_sem = n]
             IN  y \in Barrier2Type /\ y.m_sem = n /\ y.m_parts = x.m_parts
                   /\ y.m_pAlt = x.m_pAlt /\ y.cond = x.cond
      BY <2>1 DEF Barrier2Type
    <3>2. o.m_sem + 1 \in Int
      BY <2>1 DEF Barrier2Type
    <3> QED
      BY <2>1, <3>1, <3>2, Zenon
  <2>5. Changed(c, r)
    BY <1>6, <2>1 DEF SyncWake, Changed, ObjTypes
  <2> HIDE DEF r
  <2> QED
    BY <2>1, <2>4, <2>5 DEF Becomes
<1>7. ASSUME EnableSemWait(t)
      PROVE  c \in Barriers /\ Becomes(c, o.m_sem - 1, o.m_parts, o.m_pAlt, o.cond)
  <2>1. c \in Barriers /\ c \in Guards /\ o \in Barrier2Type
    BY <1>7, Classes DEF EnableSemWait, At, ObjTypes
  <2> DEFINE r == [o EXCEPT !.m_sem = o.m_sem - 1]
  <2>4. r \in Barrier2Type /\ r.m_sem = o.m_sem - 1 /\ r.m_parts = o.m_parts
          /\ r.m_pAlt = o.m_pAlt /\ r.cond = o.cond
    <3>1. \A x \in Barrier2Type, n \in Int :
             LET y == [x EXCEPT !.m_sem = n]
             IN  y \in Barrier2Type /\ y.m_sem = n /\ y.m_parts = x.m_parts
                   /\ y.m_pAlt = x.m_pAlt /\ y.cond = x.cond
      BY <2>1 DEF Barrier2Type
    <3>2. o.m_sem - 1 \in Int
      BY <2>1 DEF Barrier2Type
    <3> QED
      BY <2>1, <3>1, <3>2, Zenon
  <2>5. Changed(c, r)
    BY <1>7, <2>1 DEF EnableSemWait, Changed, ObjTypes
  <2> HIDE DEF r
  <2> QED
    BY <2>1, <2>4, <2>5 DEF Becomes
<1>8. ASSUME EnableRegister(t)
      PROVE  c \in Barriers /\ Becomes(c, o.m_sem, o.m_parts, t, o.cond)
  <2>1. c \in Barriers /\ c \in Guards /\ o \in Barrier2Type
    BY <1>8, Classes DEF EnableRegister, Locks, At, ObjTypes
  <2> DEFINE r == [o EXCEPT !.m_pAlt = t]
  <2>4. r \in Barrier2Type /\ r.m_sem = o.m_sem /\ r.m_parts = o.m_parts
          /\ r.m_pAlt = t /\ r.cond = o.cond
    <3>1. \A x \in Barrier2Type :
             LET y == [x EXCEPT !.m_pAlt = t]
             IN  y \in Barrier2Type /\ y.m_sem = x.m_sem
                   /\ y.m_parts = x.m_parts /\ y.m_pAlt = t /\ y.cond = x.cond
      BY <2>1 DEF Barrier2Type, OrNull
    <3> QED
      BY <2>1, <3>1, Zenon
  <2>5. Changed(c, r)
    BY <1>8, <2>1 DEF EnableRegister, Changed, ObjTypes
  <2> HIDE DEF r
  <2> QED
    BY <2>1, <2>4, <2>5 DEF Becomes
<1>9. ASSUME EnableReady(t)
      PROVE  c \in Barriers /\ Becomes(c, o.m_sem, o.m_parts, "null", o.cond)
  <2>1. c \in Barriers /\ c \in Guards /\ o \in Barrier2Type
    BY <1>9, Classes DEF EnableReady, Locks, At, ObjTypes
  <2> DEFINE r == [o EXCEPT !.m_pAlt = "null"]
  <2>4. r \in Barrier2Type /\ r.m_sem = o.m_sem /\ r.m_parts = o.m_parts
          /\ r.m_pAlt = "null" /\ r.cond = o.cond
    <3>1. \A x \in Barrier2Type :
             LET y == [x EXCEPT !.m_pAlt = "null"]
             IN  y \in Barrier2Type /\ y.m_sem = x.m_sem
                   /\ y.m_parts = x.m_parts /\ y.m_pAlt = "null" /\ y.cond = x.cond
      BY <2>1 DEF Barrier2Type, OrNull
    <3> QED
      BY <2>1, <3>1, Zenon
  <2>5. Changed(c, r)
    BY <1>9, <2>1 DEF EnableReady, Changed, ObjTypes
  <2> HIDE DEF r
  <2> QED
    BY <2>1, <2>4, <2>5 DEF Becomes
<1>10. ASSUME DisableBarrier2(t), Cares(t)
      PROVE  c \in Barriers /\ Becomes(c, o.m_sem, o.m_parts, "null", o.cond)
  <2>1. c \in Barriers /\ c \in Guards /\ o \in Barrier2Type
    BY <1>10, Classes DEF DisableBarrier2, Locks, At, ObjTypes
  <2> DEFINE r == [o EXCEPT !.m_pAlt = "null", !.m_sem = o.m_sem]
  <2>4. r \in Barrier2Type /\ r.m_sem = o.m_sem /\ r.m_parts = o.m_parts
          /\ r.m_pAlt = "null" /\ r.cond = o.cond
    <3>1. \A x \in Barrier2Type :
             LET y == [x EXCEPT !.m_pAlt = "null", !.m_sem = x.m_sem]
             IN  y \in Barrier2Type /\ y.m_sem = x.m_sem
                   /\ y.m_parts = x.m_parts /\ y.m_pAlt = "null" /\ y.cond = x.cond
      BY <2>1, Zenon DEF Barrier2Type, OrNull
    <3> QED
      BY <2>1, <3>1, Zenon
  <2>5. Changed(c, r)
    BY <1>10, <2>1, Zenon DEF DisableBarrier2, Changed, ObjTypes
  <2> HIDE DEF r
  <2> QED
    BY <2>1, <2>4, <2>5 DEF Becomes
<1>11. ASSUME DisableBarrier2(t), ~Cares(t)
      PROVE  c \in Barriers /\ Becomes(c, o.m_sem + 1, o.m_parts, "null", o.cond)
  <2>1. c \in Barriers /\ c \in Guards /\ o \in Barrier2Type
    BY <1>11, Classes DEF DisableBarrier2, Locks, At, ObjTypes
  <2> DEFINE r == [o EXCEPT !.m_pAlt = "null", !.m_sem = o.m_sem + 1]
  <2>4. r \in Barrier2Type /\ r.m_sem = o.m_sem + 1 /\ r.m_parts = o.m_parts
          /\ r.m_pAlt = "null" /\ r.cond = o.cond
    <3>1. \A x \in Barrier2Type, n \in Int :
             LET y == [x EXCEPT !.m_pAlt = "null", !.m_sem = n]
             IN  y \in Barrier2Type /\ y.m_sem = n /\ y.m_parts = x.m_parts
                   /\ y.m_pAlt = "null" /\ y.cond = x.cond
      BY <2>1, Zenon DEF Barrier2Type, OrNull
    <3>2. o.m_sem + 1 \in Int
      BY <2>1 DEF Barrier2Type
    <3> QED
      BY <2>1, <3>1, <3>2, Zenon
  <2>5. Changed(c, r)
    BY <1>11, <2>1, Zenon DEF DisableBarrier2, Changed, ObjTypes
  <2> HIDE DEF r
  <2> QED
    BY <2>1, <2>4, <2>5 DEF Becomes
<1> QED
  BY <1>1, <1>2, <1>3, <1>4, <1>5, <1>6, <1>7, <1>8, <1>9, <1>10, <1>11
-----------------------------------------------------------------------------
LEMMA ObjStep ==
  ASSUME ObjTypes, NEW c, NEW a,
         \/ c \in One2Ones /\ ChangedIn(c, One2OneType, a)
         \/ c \in Many2Ones /\ ChangedIn(c, Many2OneType, a)
         \/ c \in Barriers /\ ChangedIn(c, Barrier2Type, a)
  PROVE  /\ ObjTypes'
         /\ \A g \in Guards : obj'[g].m_pAlt = IF g = c THEN a ELSE obj[g].m_pAlt
<1>1. CASE c \in One2Ones /\ ChangedIn(c, One2OneType, a)
  BY <1>1, Classes, Zenon DEF ObjTypes, ChangedIn, Changed
<1>2. CASE c \in Many2Ones /\ ChangedIn(c, Many2OneType, a)
  BY <1>2, Classes, Zenon DEF ObjTypes, ChangedIn, Changed
<1>3. CASE c \in Barriers /\ ChangedIn(c, Barrier2Type, a)
  BY <1>3, Classes DEF ObjTypes, ChangedIn, Changed
<1> QED
  BY <1>1, <1>2, <1>3

(* The actions outside select, but for those that schedule ... *)
PlainStep(t) ==
  \/ ReadFirst(t) \/ ReadSecond(t) \/ ReadWake(t)
  \/ WriteFirst(t) \/ WriteSecond(t) \/ WriteWake(t)
  \/ ReadEnter(t) \/ ReadWait(t) \/ ReadCopy(t)
  \/ WriteEnter(t) \/ WriteRetry(t) \/ WriteSignal(t)
  \/ SemWait(t) \/ SyncFirst(t) \/ SyncSecond(t) \/ SyncWake(t)

(* ... and these. *)
SchedulingStep(t) == WriteSchedule(t) \/ WriteScheduleAll(t) \/ SyncSchedule(t)

LEMMA OutsideMoves ==
  ASSUME ThreadTypes, NEW t \in Threads, PlainStep(t) \/ SchedulingStep(t)
  PROVE  MovedOutside(t)
<1>1. CASE pc[t] \in {"read", "read_wait", "write", "wait", "sched", "read_mx",
                      "handoff", "sync", "sync_sem"} /\ on[t] \in Guards
  <2>1. PICK place \in Places \ AltPlaces : Goto(t, place, on[t])
    BY <1>1, Zenon
    DEF PlainStep, SchedulingStep, ReadFirst, ReadSecond, ReadWake, WriteFirst,
        WriteSecond, WriteWake, WriteSchedule, ReadEnter, ReadWait, ReadCopy,
        WriteEnter, WriteRetry, WriteScheduleAll, LoopTest, WriteSignal, SemWait,
        SyncFirst, SyncSecond, SyncWake, SyncSchedule, Places, AltPlaces
  <2>2. pc[t] \in Places \ AltPlaces
    BY <1>1 DEF Places, AltPlaces
  <2> QED
    BY <1>1, <2>1, <2>2, MovesOutside
<1> QED
  BY <1>1, Classes, Zenon
  DEF PlainStep, SchedulingStep, ReadFirst, ReadSecond, ReadWake, WriteFirst,
      WriteSecond, WriteWake, WriteSchedule, ReadEnter, ReadWait, ReadCopy,
      WriteEnter, WriteRetry, WriteScheduleAll, WriteSignal, SemWait,
      SyncFirst, SyncSecond, SyncWake, SyncSchedule, Resumes, Locks, At

LEMMA OutsideObjects ==
  ASSUME ThreadTypes, ObjTypes, NEW t \in Threads, PlainStep(t) \/ SchedulingStep(t)
  PROVE  /\ on[t] \in Guards /\ ObjTypes'
         /\ \A g \in Guards : obj'[g].m_pAlt = obj[g].m_pAlt
<1> DEFINE c == on[t]
           o == obj[c]
<1>1. CASE \/ ReadFirst(t) \/ ReadSecond(t) \/ ReadWake(t)
           \/ WriteFirst(t) \/ WriteSecond(t) \/ WriteWake(t) \/ WriteSchedule(t)
  BY <1>1, PlainOne2One, ObjStep, Classes
<1>2. CASE ReadEnter(t) \/ ReadWait(t) \/ ReadCopy(t) \/ WriteSignal(t)
  BY <1>2, PlainMany2One, ObjStep, Classes
<1>3. CASE WriteEnter(t) \/ WriteScheduleAll(t) \/ WriteRetry(t)
  BY <1>3, LoopMany2One, ObjStep, Classes
<1>4. CASE SemWait(t) \/ SyncFirst(t) \/ SyncSchedule(t) \/ SyncSecond(t) \/ SyncWake(t)
  <2>1. c \in Barriers /\ ChangedIn(c, Barrier2Type, o.m_pAlt)
    BY <1>4, BarrierEffects, BecomesChanged
  <2> QED
    BY <2>1, ObjStep, Classes
<1> QED
  BY <1>1, <1>2, <1>3, <1>4 DEF PlainStep, SchedulingStep

LEMMA PlainShape ==
  ASSUME Shape, NEW t \in Threads, PlainStep(t)
  PROVE  Shape'
<1>1. ThreadTypes /\ ObjTypes /\ UNCHANGED alt
  BY Zenon DEF Shape, PlainStep, ReadFirst, ReadSecond, ReadWake, WriteFirst,
         WriteSecond, WriteWake, ReadEnter, ReadWait, ReadCopy, WriteEnter,
         WriteRetry, WriteSignal, SemWait, SyncFirst, SyncSecond, SyncWake
<1>2. MovedOutside(t) /\ ObjTypes' /\ \A g \in Guards : obj'[g].m_pAlt = obj[g].m_pAlt
  BY <1>1, OutsideMoves, OutsideObjects
<1>3. AltShape(t)' /\ Registered(t)'
  BY <1>1, <1>2, Outside DEF Shape, MovedOutside
<1>4. \A u \in Threads \ {t} : AltShape(u)' /\ Registered(u)'
  BY <1>1, <1>2, Undisturbed DEF Shape, MovedOutside, Moved
<1> QED
  BY <1>1, <1>2, <1>3, <1>4 DEF Shape, MovedOutside, Moved

LEMMA SchedulingShape ==
  ASSUME Shape, NEW t \in Threads, SchedulingStep(t)
  PROVE  Shape'
<1> DEFINE c == on[t]
           o == obj[c].m_pAlt
<1>1. ThreadTypes /\ ObjTypes /\ alt \in [Threads -> AltType]
  BY DEF Shape
<1>2. MovedOutside(t) /\ ObjTypes' /\ c \in Guards
      /\ \A g \in Guards : obj'[g].m_pAlt = obj[g].m_pAlt
  BY <1>1, OutsideMoves, OutsideObjects
<1>3. AltFree(o) /\ alt' = [alt EXCEPT ![o] = schedule(@, c)] /\ pc[t] = "sched"
  BY DEF SchedulingStep, WriteSchedule, WriteScheduleAll, SyncSchedule, CallSchedule, At
<1>4. DOMAIN alt' = Threads /\ alt' = [u \in Threads |-> alt'[u]]
  BY <1>1, <1>3, Zenon
<1>5. \A u \in Threads : u # o =>
        alt'[u] \in AltType /\ (u # t => AltShape(u)' /\ Registered(u)')
  BY <1>1, <1>2, <1>3, Undisturbed DEF Shape, MovedOutside, Moved
<1>6. t = o => alt'[t] = alt[t]
  <2>1. t = o => alt[t].m_state = "eInactive"
    BY <1>3 DEF Shape, AltShape, AltPlaces
  <2> QED
    BY <1>1, <1>3, <2>1 DEF schedule, ScheduleResult
<1>7. AltShape(t)' /\ Registered(t)' /\ alt'[t] \in AltType
  <2>1. alt'[t] = alt[t]
    BY <1>1, <1>3, <1>6
  <2> QED
    BY <1>1, <1>2, <2>1, Outside DEF Shape, MovedOutside
<1>8. \A u \in Threads \ {t} : u = o =>
                                   alt'[u] \in AltType /\ AltShape(u)' /\ Registered(u)'
  BY <1>1, <1>2, <1>3, Scheduled DEF Shape, MovedOutside, Moved
<1> QED
  BY <1>2, <1>4, <1>5, <1>7, <1>8 DEF Shape, MovedOutside, Moved
-----------------------------------------------------------------------------
(* A step of select that concerns t's own alternative only. *)
LEMMA OwnShape ==
  ASSUME Shape, NEW t \in Threads, Moved(t), ObjTypes',
         alt' \in [Threads -> AltType], \A u \in Threads \ {t} : alt'[u] = alt[u],
         AltShape(t)', Registered(t)',
         \A g \in Guards, u \in Threads \ {t} :
           obj'[g].m_pAlt = u => obj[g].m_pAlt = u
  PROVE  Shape'
<1>1. \A u \in Threads \ {t} : AltShape(u)' /\ Registered(u)'
  BY Undisturbed DEF Shape, Moved
<1> QED
  BY <1>1 DEF Shape, Moved

LEMMA EnableDoneMoves ==
  ASSUME ThreadTypes, alt \in [Threads -> AltType], NEW a \in Threads,
         NEW ready \in BOOLEAN, EnableDone(a, ready)
  PROVE  /\ Moved(a)
         /\ pc'[a] = IF ~ready /\ alt[a].bound + 1 < Len(alt[a].m_c)
                     THEN "test" ELSE "check"
         /\ alt'[a] = AfterEnable(alt[a], ready)
         /\ alt' = [u \in Threads |-> alt'[u]]
         /\ \A u \in Threads \ {a} : alt'[u] = alt[u]
<1>1. Moved(a) /\ pc'[a] = IF ~ready /\ alt[a].bound + 1 < Len(alt[a].m_c)
                           THEN "test" ELSE "check"
  BY GotoMoves DEF EnableDone, LeaveEnable, Places
<1> QED
  BY <1>1, Zenon DEF EnableDone

LEMMA EnableShape ==
  ASSUME Shape, NEW a \in Threads, NEW ready \in BOOLEAN, EnableDone(a, ready),
         pc[a] \in {"enable", "entered", "resched"}, ObjTypes',
         \A g \in Guards, u \in Threads :
           obj'[g].m_pAlt = u => obj[g].m_pAlt = u \/ (u = a /\ g = on[a])
  PROVE  Shape'
<1>1. ThreadTypes /\ alt \in [Threads -> AltType] /\ AltShape(a) /\ Registered(a)
  BY DEF Shape
<1>2. /\ Moved(a)
      /\ alt' = [u \in Threads |-> alt'[u]]
      /\ \A u \in Threads \ {a} : alt'[u] = alt[u]
  BY <1>1, EnableDoneMoves
<1>3. alt'[a] \in AltType /\ AltShape(a)' /\ Registered(a)'
  BY <1>1, EnableDoneMoves, Enabled1
<1>4. alt' \in [Threads -> AltType]
  BY <1>1, <1>2, <1>3
<1> QED
  BY <1>2, <1>3, <1>4, OwnShape

EnablingStep(a) ==
  EnableOne2One(a) \/ EnableMany2One(a) \/ EnableRegister(a) \/ EnableReady(a)

LEMMA EnablingShape ==
  ASSUME Shape, NEW a \in Threads, EnablingStep(a)
  PROVE  Shape'
<1> DEFINE c == on[a]
<1>1. ThreadTypes /\ ObjTypes
  BY DEF Shape
<1>2. ObjTypes' /\ \A g \in Guards, u \in Threads :
        obj'[g].m_pAlt = u => obj[g].m_pAlt = u \/ (u = a /\ g = on[a])
  <2>1. PICK p \in {a, "null", obj[c].m_pAlt} :
          \/ c \in One2Ones /\ ChangedIn(c, One2OneType, p)
          \/ c \in Many2Ones /\ ChangedIn(c, Many2OneType, p)
          \/ c \in Barriers /\ ChangedIn(c, Barrier2Type, p)
    <3>1. CASE EnableOne2One(a) \/ EnableMany2One(a)
      BY <1>1, <3>1, EnableChannelRegisters
    <3>2. CASE EnableRegister(a)
      BY <1>1, <3>2, BarrierEffects, BecomesChanged, Zenon
    <3>3. CASE EnableReady(a)
      BY <1>1, <3>3, BarrierEffects, BecomesChanged, Zenon
    <3> QED
      BY <3>1, <3>2, <3>3 DEF EnablingStep
  <2>2. ObjTypes' /\ \A g \in Guards :
          obj'[g].m_pAlt = IF g = c THEN p ELSE obj[g].m_pAlt
    BY <1>1, <2>1, ObjStep
  <2>3. ASSUME NEW g \in Guards, NEW u \in Threads, obj'[g].m_pAlt = u
        PROVE  obj[g].m_pAlt = u \/ (u = a /\ g = on[a])
    <3>1. CASE g = c
      BY <2>1, <2>2, <2>3, <3>1, Classes
    <3>2. CASE g # c
      BY <2>2, <2>3, <3>2
    <3> QED
      BY <3>1, <3>2
  <2> QED
    BY <2>2, <2>3
<1>3. PICK ready \in BOOLEAN : EnableDone(a, ready)
  BY Zenon DEF EnablingStep, EnableOne2One, EnableMany2One, EnableRegister, EnableReady
<1>4. pc[a] \in {"enable", "entered", "resched"}
  BY Zenon DEF EnablingStep, EnableOne2One, EnableMany2One, EnableRegister, EnableReady,
         Locks, At
<1> QED
  BY <1>2, <1>3, <1>4, EnableShape

DisablingStep(a) == DisableOne2One(a) \/ DisableMany2One(a) \/ DisableBarrier2(a)

LEMMA DisablingShape ==
  ASSUME Shape, NEW a \in Threads, DisablingStep(a)
  PROVE  Shape'
<1> DEFINE c == on[a]
<1>1. ThreadTypes /\ ObjTypes
  BY DEF Shape
<1>2. ObjTypes' /\ \A g \in Guards, u \in Threads :
        obj'[g].m_pAlt = u => obj[g].m_pAlt = u /\ g # on[a]
  <2>1. CASE DisableOne2One(a) \/ DisableMany2One(a)
    BY <1>1, <2>1, DisableOne2OneClears, DisableMany2OneClears, ObjStep, Classes
  <2>2. CASE DisableBarrier2(a)
    <3>1. c \in Barriers /\ ChangedIn(c, Barrier2Type, "null")
      BY <1>1, <2>2, BarrierEffects, BecomesChanged, Zenon
    <3> QED
      BY <1>1, <3>1, ObjStep, Classes
  <2> QED
    BY <2>1, <2>2 DEF DisablingStep
<1>3. pc[a] = "disable" /\ DisableDone(a)
  BY DEF DisablingStep, DisableOne2One, DisableMany2One, DisableBarrier2, Locks, At
<1>4. /\ alt' \in [Threads -> AltType]
      /\ \A u \in Threads \ {a} : alt'[u] = alt[u]
      /\ Moved(a) /\ AltShape(a)' /\ Registered(a)'
  BY <1>2, <1>3, Disabled DEF Shape
<1> QED
  BY <1>2, <1>4, OwnShape

(* Two alternatives change: the one scheduled and the caller's own. *)
LEMMA EnableScheduleShape ==
  ASSUME Shape, NEW a \in Threads, EnableSchedule(a)
  PROVE  Shape'
<1> DEFINE c == on[a]
           o == obj[c].m_pAlt
           ready == ScheduleResult(alt[o])
<1>1. /\ ThreadTypes /\ ObjTypes /\ alt \in [Threads -> AltType]
      /\ AltShape(a) /\ Registered(a)
  BY DEF Shape
<1>2. /\ pc[a] = "resched" /\ c \in Barriers /\ c \in Guards
      /\ AltFree(o) /\ ready \in BOOLEAN
      /\ ObjTypes' /\ \A g \in Guards : obj'[g].m_pAlt = obj[g].m_pAlt
      /\ o # a
  <2>1. ObjTypes'
    BY <1>1 DEF EnableSchedule, ObjTypes
  <2> QED
    BY <2>1, Classes DEF EnableSchedule, At, AltFree, ScheduleResult
<1>3. /\ alt' = [u \in Threads |-> alt'[u]]
      /\ \A u \in Threads \ {a, o} : alt'[u] = alt[u]
      /\ o \in Threads => alt'[o] = schedule(alt[o], c)
      /\ alt'[a] = AfterEnable(alt[a], ready)
  BY <1>1, <1>2, Zenon DEF EnableSchedule
<1>4. /\ Moved(a)
      /\ pc'[a] = IF ~ready /\ alt[a].bound + 1 < Len(alt[a].m_c)
                  THEN "test" ELSE "check"
  BY <1>1, GotoMoves DEF EnableSchedule, LeaveEnable, Places
<1>5. alt'[a] \in AltType /\ AltShape(a)' /\ Registered(a)'
  BY <1>1, <1>2, <1>3, <1>4, Enabled1
<1>6. ASSUME NEW u \in Threads, u = o
      PROVE  alt'[u] \in AltType /\ AltShape(u)' /\ Registered(u)'
  <2>1. /\ alt[u] \in AltType /\ AltShape(u) /\ Registered(u)
        /\ pc'[u] = pc[u] /\ on'[u] = on[u]
    BY <1>2, <1>4, <1>6 DEF Shape, Moved
  <2>2. /\ alt'[u] = schedule(alt[u], c) /\ AltFree(u) /\ obj[c].m_pAlt = u
        /\ \A g \in Guards : obj'[g].m_pAlt = u => obj[g].m_pAlt = u
    BY <1>2, <1>3, <1>6
  <2> QED
    BY <1>2, <2>1, <2>2, Scheduled
<1>7. \A u \in Threads \ {a, o} :
        alt'[u] \in AltType /\ AltShape(u)' /\ Registered(u)'
  BY <1>1, <1>2, <1>3, <1>4, Undisturbed DEF Shape, Moved
<1>8. \A u \in Threads : alt'[u] \in AltType /\ AltShape(u)' /\ Registered(u)'
  BY <1>5, <1>6, <1>7
<1> QED
  BY <1>2, <1>3, <1>4, <1>8 DEF Shape, Moved

(* enable of a barrier goes on: a place taken, another alternative found. *)
LEMMA EnteringShape ==
  ASSUME Shape, NEW a \in Threads, EnableSemWait(a) \/ EnableOther(a)
  PROVE  Shape'
<1> DEFINE c == on[a]
           o == obj[c]
<1>1. /\ ThreadTypes /\ ObjTypes /\ alt \in [Threads -> AltType]
      /\ AltShape(a) /\ Registered(a)
  BY DEF Shape
<1>2. c \in Barriers /\ c \in Guards /\ UNCHANGED alt
      /\ pc[a] \in {"enable", "entered"}
  BY Classes DEF EnableSemWait, EnableOther, Locks, At
<1>3. ObjTypes' /\ \A g \in Guards : obj'[g].m_pAlt = obj[g].m_pAlt
  <2>1. CASE EnableSemWait(a)
    <3>1. ChangedIn(c, Barrier2Type, o.m_pAlt)
      BY <1>1, <2>1, BarrierEffects, BecomesChanged, Zenon
    <3> QED
      BY <1>1, <1>2, <3>1, ObjStep
  <2>2. CASE EnableOther(a)
    BY <1>1, <2>2 DEF EnableOther, ObjTypes
  <2> QED
    BY <2>1, <2>2
<1>4. Moved(a) /\ pc'[a] \in {"entered", "resched"} /\ on'[a] = c
  BY <1>1, <1>2, GotoMoves DEF EnableSemWait, EnableOther, Places
<1>5. UpTo(a)' = UpTo(a)
  BY <1>2, <1>4 DEF UpTo
<1>6. Undone(a)' = Undone(a)
  BY <1>2, <1>4, <1>5 DEF Undone, AltPlaces
<1>7. AltShape(a)'
  BY <1>1, <1>2, <1>4, <1>5 DEF AltShape, AltPlaces
<1>8. Registered(a)'
  BY <1>1, <1>2, <1>3, <1>6 DEF Registered
<1> QED
  BY <1>1, <1>2, <1>3, <1>4, <1>7, <1>8, OwnShape
-----------------------------------------------------------------------------
LEMMA SelectCallShape ==
  ASSUME Shape, NEW a \in Threads, SelectCall(a)
  PROVE  Shape'
<1>1. /\ ThreadTypes /\ ObjTypes /\ alt \in [Threads -> AltType]
      /\ AltShape(a) /\ Registered(a)
  BY DEF Shape
<1>2. PICK s \in Choices[a] : alt' = [alt EXCEPT ![a] = NewAlternative(s)]
  BY Zenon DEF SelectCall
<1>3. s \in Seq(Guards) /\ Len(s) \in Nat \ {0}
  BY <1>2, ChoiceList
<1>4. NewAlternative(s) \in AltType
  BY <1>3 DEF NewAlternative, AltType
<1>5. /\ alt' \in [Threads -> AltType] /\ alt'[a] = NewAlternative(s)
      /\ \A u \in Threads \ {a} : alt'[u] = alt[u]
  BY <1>1, <1>2, <1>4
<1>6. Moved(a) /\ pc[a] = "idle" /\ pc'[a] = "test" /\ UNCHANGED obj /\ ObjTypes'
  BY <1>1, GotoMoves DEF SelectCall, Places, ObjTypes
<1>7. AltShape(a)'
  BY <1>2, <1>3, <1>5, <1>6 DEF NewAlternative, AltShape, AltPlaces
<1>8. Registered(a)'
  BY <1>1, <1>6 DEF Registered, Undone, AltPlaces
<1> QED
  BY <1>5, <1>6, <1>7, <1>8, OwnShape

LEMMA SelectTestShape ==
  ASSUME Shape, NEW a \in Threads, SelectTest(a)
  PROVE  Shape'
<1> DEFINE r == alt[a]
<1>1. /\ ThreadTypes /\ ObjTypes /\ alt \in [Threads -> AltType]
      /\ AltShape(a) /\ Registered(a) /\ r \in AltType
  BY DEF Shape
<1>2. pc[a] = "test" /\ UNCHANGED obj /\ ObjTypes'
  BY <1>1 DEF SelectTest, ObjTypes
<1>3. /\ r.m_c \in Choices[a] /\ r.bound \in Nat /\ r.bound < Len(r.m_c)
      /\ r.m_state # "eWaiting" /\ ~r.asleep /\ r.m_state # "eInactive"
      /\ r.m_state \in {"eEnabling", "eWaiting", "eReady", "eInactive"}
      /\ UpTo(a) = 0 .. r.bound - 1 /\ Undone(a) = UpTo(a)
  BY <1>1, <1>2 DEF AltShape, AltPlaces, AltType, UpTo, Undone
<1>4. Len(r.m_c) \in Nat /\ r.m_c[r.bound + 1] \in Guards
  BY <1>3, ChoiceList
<1>5. CASE r.m_state # "eReady"
  <2>1. /\ Moved(a) /\ pc'[a] = "enable" /\ on'[a] = r.m_c[r.bound + 1]
        /\ UNCHANGED alt
    BY <1>1, <1>4, <1>5, GotoMoves DEF SelectTest, Places
  <2>2. Undone(a)' = Undone(a)
    BY <1>2, <2>1 DEF Undone, UpTo, AltPlaces
  <2>3. AltShape(a)'
    BY <1>1, <1>2, <1>3, <1>5, <2>1 DEF AltShape, AltPlaces
  <2>4. Registered(a)'
    BY <1>1, <1>2, <2>1, <2>2 DEF Registered
  <2> QED
    BY <1>1, <1>2, <2>1, <2>3, <2>4, OwnShape
<1>6. CASE r.m_state = "eReady"
  <2>1. PICK i \in 0 .. r.bound - 1 : r.m_selector = r.m_c[i + 1]
    BY <1>1, <1>3, <1>6 DEF AltShape
  <2>2. r.bound - 1 \in Nat /\ r.bound - 1 < Len(r.m_c)
    BY <1>3, <1>4, <2>1
  <2>3. alt' = [alt EXCEPT ![a].bound = @ - 1] /\ Goto(a, "check", "none")
    BY <1>6 DEF SelectTest
  <2>4. /\ alt' \in [Threads -> AltType]
        /\ \A u \in Threads \ {a} : alt'[u] = alt[u]
        /\ alt'[a].bound = r.bound - 1 /\ alt'[a].m_c = r.m_c
        /\ alt'[a].m_state = r.m_state /\ alt'[a].m_selector = r.m_selector
        /\ alt'[a].asleep = r.asleep
    BY <1>1, <2>2, <2>3, Zenon DEF AltType
  <2>5. Moved(a) /\ pc'[a] = "check"
    BY <1>1, <2>3, GotoMoves DEF Places
  <2>6. UpTo(a)' = 0 .. r.bound - 1 /\ Undone(a)' = Undone(a)
    BY <1>3, <2>4, <2>5 DEF UpTo, Undone, AltPlaces
  <2>7. AltShape(a)'
    BY <1>3, <1>6, <2>1, <2>2, <2>4, <2>5, <2>6, Zenon DEF AltShape, AltPlaces
  <2>8. Registered(a)'
    BY <1>1, <1>2, <2>4, <2>6 DEF Registered
  <2> QED
    BY <1>2, <2>4, <2>5, <2>7, <2>8, OwnShape
<1> QED
  BY <1>5, <1>6

(* Whenever select starts disabling, some guard was selected. *)
LEMMA StartDisablingShape ==
  ASSUME Shape, NEW a \in Threads, pc[a] \in {"check", "asleep"},
         alt[a].m_state = "eReady", StartDisabling(a), UNCHANGED obj
  PROVE  Shape'
<1> DEFINE r == alt[a]
           n == Len(r.m_c)
<1>1. /\ ThreadTypes /\ ObjTypes /\ alt \in [Threads -> AltType]
      /\ AltShape(a) /\ Registered(a) /\ r \in AltType
  BY DEF Shape
<1>2. /\ r.m_c \in Choices[a] /\ r.bound \in Nat /\ r.bound < n /\ ~r.asleep
      /\ UpTo(a) = 0 .. r.bound /\ Undone(a) = UpTo(a)
  BY <1>1 DEF AltShape, AltPlaces, AltType, UpTo, Undone
<1>3. n \in Nat /\ r.m_c[1] \in Guards /\ r.m_c[1] = r.m_c[0 + 1]
  BY <1>2, ChoiceList
<1>4. alt' = [alt EXCEPT ![a].pos = 0, ![a].selected = n]
  BY DEF StartDisabling
<1> HIDE DEF n
<1>5. /\ alt' \in [Threads -> AltType]
      /\ \A u \in Threads \ {a} : alt'[u] = alt[u]
      /\ alt'[a].bound = r.bound /\ alt'[a].m_c = r.m_c
      /\ alt'[a].m_state = r.m_state /\ alt'[a].m_selector = r.m_selector
      /\ alt'[a].asleep = r.asleep /\ alt'[a].pos = 0 /\ alt'[a].selected = n
  BY <1>1, <1>3, <1>4, Zenon DEF AltType
<1>6. Moved(a) /\ pc'[a] = "disable" /\ on'[a] = r.m_c[1]
  BY <1>1, <1>3, GotoMoves DEF StartDisabling, Places
<1>7. ObjTypes' /\ UpTo(a)' = 0 .. r.bound /\ Undone(a)' = 0 .. r.bound
  BY <1>1, <1>2, <1>5, <1>6 DEF ObjTypes, UpTo, Undone, AltPlaces
<1>8. AltShape(a)'
  BY <1>1, <1>2, <1>3, <1>5, <1>6, <1>7 DEF AltShape, AltPlaces, n
<1>9. Registered(a)'
  BY <1>1, <1>2, <1>5, <1>7 DEF Registered
<1> QED
  BY <1>5, <1>6, <1>7, <1>8, <1>9, OwnShape

LEMMA SelectCheckShape ==
  ASSUME Shape, NEW a \in Threads, SelectCheck(a)
  PROVE  Shape'
<1> DEFINE r == alt[a]
<1>1. /\ ThreadTypes /\ ObjTypes /\ alt \in [Threads -> AltType]
      /\ AltShape(a) /\ Registered(a) /\ r \in AltType
      /\ pc[a] = "check" /\ UNCHANGED obj
  BY DEF Shape, SelectCheck
<1>2. CASE r.m_state = "eEnabling"
  <2>1. alt' = [alt EXCEPT ![a].m_state = "eWaiting", ![a].asleep = TRUE]
        /\ Goto(a, "asleep", "none")
    BY <1>2 DEF SelectCheck
  <2>2. /\ alt' \in [Threads -> AltType]
        /\ \A u \in Threads \ {a} : alt'[u] = alt[u]
        /\ alt'[a].bound = r.bound /\ alt'[a].m_c = r.m_c
        /\ alt'[a].m_state = "eWaiting" /\ alt'[a].asleep
    BY <1>1, <2>1, Zenon DEF AltType
  <2>3. Moved(a) /\ pc'[a] = "asleep"
    BY <1>1, <2>1, GotoMoves DEF Places
  <2>4. ObjTypes' /\ Undone(a)' = Undone(a)
    BY <1>1, <2>2, <2>3 DEF ObjTypes, UpTo, Undone, AltPlaces
  <2>5. AltShape(a)'
    BY <1>1, <2>2, <2>3 DEF AltShape, AltPlaces
  <2>6. Registered(a)'
    BY <1>1, <2>2, <2>4 DEF Registered
  <2> QED
    BY <1>1, <2>2, <2>3, <2>4, <2>5, <2>6, OwnShape
<1>3. CASE r.m_state # "eEnabling"
  <2>1. r.m_state = "eReady" /\ StartDisabling(a)
    BY <1>1, <1>3 DEF SelectCheck, AltShape, AltPlaces, AltType
  <2> QED
    BY <1>1, <2>1, StartDisablingShape
<1> QED
  BY <1>2, <1>3

LEMMA SelectWakeShape ==
  ASSUME Shape, NEW a \in Threads, SelectWake(a)
  PROVE  Shape'
<1>1. pc[a] = "asleep" /\ ~alt[a].asleep /\ StartDisabling(a) /\ UNCHANGED obj
      /\ AltShape(a) /\ alt[a] \in AltType
  BY DEF SelectWake, Shape
<1>2. alt[a].m_state = "eReady"
  BY <1>1 DEF AltShape, AltPlaces, AltType
<1> QED
  BY <1>1, <1>2, StartDisablingShape

LEMMA NoAlternativeType ==
  /\ NoAlternative \in AltType
  /\ NoAlternative.m_state = "eInactive" /\ ~NoAlternative.asleep
<1> DEFINE s == <<>>
           n == NewAlternative(s)
<1>1. s \in Seq(Guards)
  OBVIOUS
<1>2. n \in AltType /\ ~n.asleep
  BY <1>1 DEF NewAlternative, AltType
<1>3. \A x \in AltType :
        LET y == [x EXCEPT !.m_state = "eInactive"]
        IN  y \in AltType /\ y.m_state = "eInactive" /\ y.asleep = x.asleep
  BY DEF AltType
<1> QED
  BY <1>2, <1>3, Zenon DEF NoAlternative

LEMMA SelectReturnShape ==
  ASSUME Shape, NEW a \in Threads, SelectReturn(a)
  PROVE  Shape'
<1> DEFINE r == alt[a]
<1>1. /\ ThreadTypes /\ ObjTypes /\ alt \in [Threads -> AltType]
      /\ AltShape(a) /\ Registered(a) /\ r \in AltType
      /\ pc[a] = "selected" /\ UNCHANGED obj
  BY DEF Shape, SelectReturn
<1>2. NoAlternative \in AltType /\ NoAlternative.m_state = "eInactive"
      /\ ~NoAlternative.asleep
  BY NoAlternativeType
<1>3. /\ alt' \in [Threads -> AltType] /\ alt'[a] = NoAlternative
      /\ \A u \in Threads \ {a} : alt'[u] = alt[u]
  BY <1>1, <1>2 DEF SelectReturn
<1>4. PICK i \in 0 .. r.bound : r.m_selector = r.m_c[i + 1]
  BY <1>1 DEF AltShape, UpTo
<1>5. r.m_c[r.selected + 1] \in Guards /\ r.selected < Len(r.m_c)
  <2>1. r.selected = i /\ r.m_c \in Choices[a] /\ r.bound < Len(r.m_c)
        /\ r.bound \in Nat
    BY <1>1, <1>4 DEF AltShape, AltPlaces, AltType
  <2>2. i \in 0 .. Len(r.m_c) - 1 /\ i < Len(r.m_c)
    BY <1>4, <2>1, ChoiceList
  <2> QED
    BY <2>1, <2>2, ChoiceList
<1>6. Moved(a) /\ pc'[a] \in {"sync_sem", "read"}
  BY <1>1, <1>4, <1>5, GotoMoves DEF SelectReturn, Places
<1>7. ObjTypes' /\ AltShape(a)' /\ Registered(a)'
  BY <1>1, <1>2, <1>3, <1>6 DEF ObjTypes, AltShape, Registered, Undone, AltPlaces
<1> QED
  BY <1>1, <1>3, <1>6, <1>7, OwnShape

LEMMA CallShape ==
  ASSUME Shape, NEW t \in Threads,
         ReadCall(t) \/ WriteCall(t) \/ SyncCall(t) \/ Return(t)
  PROVE  Shape'
<1>1. /\ ThreadTypes /\ ObjTypes /\ alt \in [Threads -> AltType]
      /\ AltShape(t) /\ Registered(t) /\ UNCHANGED <<alt, obj>>
  BY DEF Shape, ReadCall, WriteCall, SyncCall, Return, Call
<1>2. PICK place \in Places \ AltPlaces, g \in Guards \cup {"none"} :
        Goto(t, place, g)
  BY AlternativeAssumption
  DEF ReadCall, WriteCall, SyncCall, Return, Call, Places, AltPlaces, Guards
<1>3. pc[t] \in Places \ AltPlaces
  BY DEF ReadCall, WriteCall, SyncCall, Return, Call, Places, AltPlaces
<1>4. MovedOutside(t)
  BY <1>1, <1>2, <1>3, MovesOutside
<1>5. ObjTypes' /\ AltShape(t)' /\ Registered(t)'
  BY <1>1, <1>4, Outside DEF ObjTypes, MovedOutside
<1> QED
  BY <1>1, <1>4, <1>5, OwnShape DEF MovedOutside

-----------------------------------------------------------------------------
LEMMA InitShape == Init => Shape
<1> SUFFICES ASSUME Init PROVE Shape
  OBVIOUS
<1>1. alt \in [Threads -> AltType] /\ ThreadTypes
  BY NoAlternativeType DEF Init, ThreadTypes, Places
<1>2. /\ NewOne2One \in One2OneType /\ NewMany2One \in Many2OneType
      /\ NewBarrier2 \in Barrier2Type
  BY DEF NewOne2One, One2OneType, NewMany2One, Many2OneType, NewBarrier2,
         Barrier2Type, OrNull
<1>3. /\ \A c \in One2Ones : obj[c] = NewOne2One
      /\ \A c \in Many2Ones : obj[c] = NewMany2One
      /\ \A b \in Barriers : obj[b] = NewBarrier2
      /\ obj = [g \in Guards |-> obj[g]]
  BY Classes DEF Init
<1>4. ObjTypes
  BY <1>2, <1>3 DEF ObjTypes
<1>5. \A g \in Guards : obj[g].m_pAlt = "null"
  BY <1>3, Classes DEF NewOne2One, NewMany2One, NewBarrier2
<1>6. \A a \in Threads : AltShape(a) /\ Registered(a)
  BY <1>5, Classes, NoAlternativeType DEF Init, AltShape, Registered, AltPlaces
<1> QED
  BY <1>1, <1>4, <1>6 DEF Shape

LEMMA NextShape == Shape /\ [Next]_vars => Shape'
<1> SUFFICES ASSUME Shape, [Next]_vars PROVE Shape'
  OBVIOUS
<1>1. CASE UNCHANGED vars
  BY <1>1 DEF Shape, vars, ObjTypes, ThreadTypes, AltShape, Registered, Undone, UpTo
<1>2. ASSUME NEW t \in Threads, One2OneStep(t) PROVE Shape'
  <2>1. PlainStep(t) \/ SchedulingStep(t) \/ EnablingStep(t) \/ DisablingStep(t)
    BY <1>2 DEF One2OneStep, PlainStep, SchedulingStep, EnablingStep, DisablingStep
  <2> QED
    BY <2>1, PlainShape, SchedulingShape, EnablingShape, DisablingShape
<1>3. ASSUME NEW t \in Threads, Many2OneStep(t) PROVE Shape'
  <2>1. PlainStep(t) \/ SchedulingStep(t) \/ EnablingStep(t) \/ DisablingStep(t)
    BY <1>3 DEF Many2OneStep, PlainStep, SchedulingStep, EnablingStep, DisablingStep
  <2> QED
    BY <2>1, PlainShape, SchedulingShape, EnablingShape, DisablingShape
<1>4. ASSUME NEW t \in Threads, Barrier2Step(t) PROVE Shape'
  <2>1. \/ PlainStep(t) \/ SchedulingStep(t) \/ EnablingStep(t) \/ DisablingStep(t)
        \/ EnableSemWait(t) \/ EnableOther(t) \/ EnableSchedule(t)
    BY <1>4 DEF Barrier2Step, PlainStep, SchedulingStep, EnablingStep, DisablingStep
  <2> QED
    BY <2>1, PlainShape, SchedulingShape, EnablingShape, DisablingShape,
       EnteringShape, EnableScheduleShape
<1>5. ASSUME NEW t \in Threads, Select(t) \/ SelectCall(t) PROVE Shape'
  BY <1>5, SelectTestShape, SelectCheckShape, SelectWakeShape, SelectReturnShape,
     SelectCallShape DEF Select
<1> QED
  BY <1>1, <1>2, <1>3, <1>4, <1>5, CallShape DEF Next, Step

(* However threads interleave in select, schedule, enable and disable, the *)
(* pointer an object keeps is to an alternative whose select still runs:   *)
(* schedule is never called on freed memory.                               *)
THEOREM AlternativesAreLive == SafeSpec => []NoStaleAlternative
<1>1. Shape => NoStaleAlternative
  BY DEF Shape, NoStaleAlternative, Registered, Undone, AltShape, Choosing, AltPlaces
<1> QED
  BY <1>1, InitShape, NextShape, PTL DEF SafeSpec

-----------------------------------------------------------------------------
(* t holds one of b's two places. *)
Holds(t, b) ==
  \/ on[t] = b /\ pc[t] \in {"sync_sem", "sched", "wait"}
  \/ \E i \in Enabled(t) : alt[t].m_c[i + 1] = b

(* t is counted in b's m_parts. *)
Counted(t, b) == on[t] = b /\ (pc[t] = "sched" \/ t \in obj[b].cond)

Account(b) == obj[b].m_sem + Cardinality({t \in Threads : Holds(t, b)}) = 2

Parties(b) ==
  /\ obj[b].m_parts = Cardinality({t \in Threads : Counted(t, b)})
  /\ obj[b].m_parts \in {0, 1}
  /\ \A t \in obj[b].cond : on[t] = b /\ pc[t] = "wait"

BarrierShape == \A b \in Barriers : Account(b) /\ Parties(b)

(* What a step of another thread leaves to u. *)
Stays(u) ==
  /\ pc'[u] = pc[u] /\ on'[u] = on[u]
  /\ alt'[u].m_c = alt[u].m_c /\ alt'[u].bound = alt[u].bound
  /\ alt'[u].pos = alt[u].pos /\ alt'[u].selected = alt[u].selected

LEMMA StaysHolds ==
  ASSUME NEW u, Stays(u), NEW b
  PROVE  Holds(u, b)' <=> Holds(u, b)
<1>1. Enabled(u)' = Enabled(u)
  BY DEF Stays, Enabled
<1> QED
  BY <1>1 DEF Stays, Holds

(* A place is taken or given back by one thread, or none. *)
LEMMA AccountKept ==
  ASSUME NEW b \in Barriers, obj[b].m_sem \in Int, Account(b), NEW t \in Threads,
         \A u \in Threads \ {t} : Stays(u),
         \/ obj'[b].m_sem = obj[b].m_sem /\ (Holds(t, b)' <=> Holds(t, b))
         \/ obj'[b].m_sem = obj[b].m_sem - 1 /\ ~Holds(t, b) /\ Holds(t, b)'
         \/ obj'[b].m_sem = obj[b].m_sem + 1 /\ Holds(t, b) /\ ~Holds(t, b)'
  PROVE  Account(b)'
<1> DEFINE S == {u \in Threads : Holds(u, b)}
           T == {u \in Threads : Holds(u, b)'}
<1>1. \A u \in Threads \ {t} : Holds(u, b)' <=> Holds(u, b)
  BY StaysHolds
<1>2. IsFiniteSet(S) /\ Cardinality(S) \in Nat
  BY AlternativeAssumption, FS_Subset, FS_CardinalityType
<1>3. CASE obj'[b].m_sem = obj[b].m_sem /\ (Holds(t, b)' <=> Holds(t, b))
  <2>1. S = T
    BY <1>1, <1>3
  <2> QED
    BY <1>3, <2>1 DEF Account
<1>4. CASE obj'[b].m_sem = obj[b].m_sem - 1 /\ ~Holds(t, b) /\ Holds(t, b)'
  <2>1. T = S \cup {t} /\ t \notin S
    BY <1>1, <1>4
  <2>2. Cardinality(T) = Cardinality(S) + 1
    BY <1>2, <2>1, FS_AddElement, Zenon
  <2> QED
    BY <1>2, <1>4, <2>2 DEF Account
<1>5. CASE obj'[b].m_sem = obj[b].m_sem + 1 /\ Holds(t, b) /\ ~Holds(t, b)'
  <2>1. T = S \ {t} /\ t \in S
    BY <1>1, <1>5
  <2>2. Cardinality(T) = Cardinality(S) - 1
    BY <1>2, <2>1, FS_RemoveElement, Zenon
  <2> QED
    BY <1>2, <1>5, <2>2 DEF Account
<1> QED
  BY <1>3, <1>4, <1>5

(* Nobody comes to wait or stops waiting. *)
LEMMA PartiesKept ==
  ASSUME NEW b \in Barriers, obj[b] \in Barrier2Type, Parties(b), NEW t \in Threads,
         \A u \in Threads \ {t} : Stays(u),
         obj'[b].m_parts = obj[b].m_parts, obj'[b].cond = obj[b].cond,
         ~Counted(t, b), on'[t] # b \/ pc'[t] # "sched"
  PROVE  Parties(b)'
<1>1. t \notin obj[b].cond
  BY DEF Parties, Counted
<1>2. \A u \in Threads : Counted(u, b)' <=> Counted(u, b)
  BY <1>1 DEF Counted, Stays
<1>3. {u \in Threads : Counted(u, b)'} = {u \in Threads : Counted(u, b)}
  BY <1>2
<1>4. \A u \in obj'[b].cond : on'[u] = b /\ pc'[u] = "wait"
  <2>1. \A u \in obj[b].cond : u \in Threads \ {t} /\ on[u] = b /\ pc[u] = "wait"
    BY <1>1 DEF Parties, Barrier2Type
  <2> QED
    BY <2>1 DEF Stays
<1> QED
  BY <1>3, <1>4, Zenon DEF Parties

EntryStep(t) == EnableSemWait(t) \/ EnableOther(t) \/ EnableSchedule(t)

CallStep(t) == ReadCall(t) \/ WriteCall(t) \/ SyncCall(t) \/ Return(t)

LEMMA StepCases ==
  Next => \E t \in Threads :
    \/ PlainStep(t) \/ SchedulingStep(t) \/ EnablingStep(t) \/ DisablingStep(t)
    \/ EntryStep(t) \/ Select(t) \/ SelectCall(t) \/ CallStep(t)
BY DEF Next, Step, One2OneStep, Many2OneStep, Barrier2Step, PlainStep, SchedulingStep,
       EnablingStep, DisablingStep, EntryStep, CallStep

LEMMA OthersStay ==
  ASSUME Shape, NEW t \in Threads,
         \/ PlainStep(t) \/ SchedulingStep(t) \/ EnablingStep(t) \/ DisablingStep(t)
         \/ EntryStep(t) \/ Select(t) \/ SelectCall(t) \/ CallStep(t)
  PROVE  \A u \in Threads \ {t} : Stays(u)
<1>1. ThreadTypes /\ ObjTypes /\ alt \in [Threads -> AltType]
  BY DEF Shape
<1>2. \E place, g : Goto(t, place, g)
  <2>1. CASE PlainStep(t)
    BY <2>1, Zenon
    DEF PlainStep, ReadFirst, ReadSecond, ReadWake, WriteFirst, WriteSecond, WriteWake,
        ReadEnter, ReadWait, ReadCopy, WriteEnter, WriteRetry, LoopTest, WriteSignal,
        SemWait, SyncFirst, SyncSecond, SyncWake
  <2>2. CASE SchedulingStep(t)
    BY <2>2 DEF SchedulingStep, WriteSchedule, WriteScheduleAll, LoopTest, SyncSchedule
  <2>3. CASE EnablingStep(t) \/ EntryStep(t)
    BY <2>3, Zenon
    DEF EnablingStep, EnableOne2One, EnableMany2One, EnableRegister, EnableReady,
        EnableDone, EntryStep, EnableSemWait, EnableOther, EnableSchedule, LeaveEnable
  <2>4. CASE DisablingStep(t)
    BY <2>4
    DEF DisablingStep, DisableOne2One, DisableMany2One, DisableBarrier2, DisableDone
  <2>5. CASE Select(t) \/ SelectCall(t) \/ CallStep(t)
    BY <2>5
    DEF Select, SelectTest, SelectCheck, SelectWake, SelectReturn, StartDisabling,
        SelectCall, CallStep, ReadCall, WriteCall, SyncCall, Return, Call
  <2> QED
    BY <2>1, <2>2, <2>3, <2>4, <2>5
<1>3. \A u \in Threads \ {t} : pc'[u] = pc[u] /\ on'[u] = on[u]
  BY <1>1, <1>2 DEF Goto, ThreadTypes
<1>4. \A u \in Threads \ {t} :
        alt'[u] = alt[u] \/ \E g : alt'[u] = schedule(alt[u], g)
  <2>1. CASE PlainStep(t) \/ CallStep(t)
    BY <2>1, Zenon
    DEF PlainStep, ReadFirst, ReadSecond, ReadWake, WriteFirst, WriteSecond, WriteWake,
        ReadEnter, ReadWait, ReadCopy, WriteEnter, WriteRetry, WriteSignal,
        SemWait, SyncFirst, SyncSecond, SyncWake,
        CallStep, ReadCall, WriteCall, SyncCall, Return, Call
  <2>2. CASE SchedulingStep(t)
    <3>1. \E o, g : alt' = [alt EXCEPT ![o] = schedule(@, g)]
      BY <2>2, Zenon
      DEF SchedulingStep, WriteSchedule, WriteScheduleAll, SyncSchedule, CallSchedule
    <3> QED
      BY <1>1, <3>1
  <2>3. CASE EnablingStep(t)
    BY <1>1, <2>3, Zenon
    DEF EnablingStep, EnableOne2One, EnableMany2One, EnableRegister, EnableReady,
        EnableDone
  <2>4. CASE EntryStep(t)
    <3>1. CASE EnableSchedule(t)
      BY <1>1, <3>1 DEF EnableSchedule
    <3> QED
      BY <2>4, <3>1 DEF EntryStep, EnableSemWait, EnableOther
  <2>5. CASE DisablingStep(t)
    BY <1>1, <2>5
    DEF DisablingStep, DisableOne2One, DisableMany2One, DisableBarrier2, DisableDone
  <2>6. CASE Select(t) \/ SelectCall(t)
    BY <1>1, <2>6
    DEF Select, SelectTest, SelectCheck, SelectWake, SelectReturn, StartDisabling,
        SelectCall
  <2> QED
    BY <2>1, <2>2, <2>3, <2>4, <2>5, <2>6
<1>5. \A u \in Threads : alt[u] \in AltType
  BY <1>1
<1>6. \A r \in AltType : \A g : LET n == schedule(r, g) IN
        /\ n.m_c = r.m_c /\ n.bound = r.bound
        /\ n.pos = r.pos /\ n.selected = r.selected
  BY DEF schedule, AltType
<1> QED
  BY <1>3, <1>4, <1>5, <1>6 DEF Stays

(* A step of a thread that has nothing to do with any barrier. *)
LEMMA Elsewhere ==
  ASSUME BarrierShape, ObjTypes, NEW t \in Threads,
         \A u \in Threads \ {t} : Stays(u),
         pc[t] \notin AltPlaces, pc'[t] \notin AltPlaces,
         on[t] \notin Barriers \/ pc[t] \notin {"sync_sem", "sched", "wait"},
         on'[t] \notin Barriers \/ pc'[t] \notin {"sync_sem", "sched", "wait"},
         \A b \in Barriers : obj'[b] = obj[b]
  PROVE  BarrierShape'
<1> SUFFICES ASSUME NEW b \in Barriers PROVE Account(b)' /\ Parties(b)'
  BY DEF BarrierShape
<1>1. obj[b] \in Barrier2Type /\ Account(b) /\ Parties(b) /\ obj'[b] = obj[b]
  BY DEF BarrierShape, ObjTypes
<1>2. Enabled(t) = {} /\ Enabled(t)' = {}
  BY DEF Enabled, AltPlaces
<1>3. ~Holds(t, b) /\ ~Holds(t, b)'
  BY <1>2 DEF Holds
<1>4. ~Counted(t, b)
  BY <1>1 DEF Counted, Parties
<1>5. Account(b)'
  BY <1>1, <1>3, AccountKept DEF Barrier2Type
<1> QED
  BY <1>1, <1>4, <1>5, PartiesKept

ChannelStep(t) ==
  \/ ReadFirst(t) \/ ReadSecond(t) \/ ReadWake(t)
  \/ WriteFirst(t) \/ WriteSchedule(t) \/ WriteSecond(t) \/ WriteWake(t)
  \/ ReadEnter(t) \/ ReadWait(t) \/ ReadCopy(t)
  \/ WriteEnter(t) \/ WriteScheduleAll(t) \/ WriteRetry(t) \/ WriteSignal(t)

LEMMA ChannelStepBarriers ==
  ASSUME Shape, BarrierShape, NEW t \in Threads, ChannelStep(t)
  PROVE  BarrierShape'
<1>1. ThreadTypes /\ ObjTypes /\ (PlainStep(t) \/ SchedulingStep(t))
  BY DEF Shape, ChannelStep, PlainStep, SchedulingStep
<1>2. on[t] \notin Barriers /\ \A b \in Barriers : obj'[b] = obj[b]
  <2>1. CASE \/ ReadFirst(t) \/ ReadSecond(t) \/ ReadWake(t)
             \/ WriteFirst(t) \/ WriteSchedule(t) \/ WriteSecond(t) \/ WriteWake(t)
    BY <1>1, <2>1, PlainOne2One, Classes DEF ChangedIn, Changed
  <2>2. CASE ReadEnter(t) \/ ReadWait(t) \/ ReadCopy(t) \/ WriteSignal(t)
    BY <1>1, <2>2, PlainMany2One, Classes DEF ChangedIn, Changed
  <2>3. CASE WriteEnter(t) \/ WriteScheduleAll(t) \/ WriteRetry(t)
    BY <1>1, <2>3, LoopMany2One, Classes DEF ChangedIn, Changed
  <2> QED
    BY <2>1, <2>2, <2>3 DEF ChannelStep
<1>3. on'[t] = on[t]
  <2>1. \E place : Goto(t, place, on[t])
    BY Zenon DEF ChannelStep, ReadFirst, ReadSecond, ReadWake, WriteFirst, WriteSecond,
           WriteWake, WriteSchedule, ReadEnter, ReadWait, ReadCopy, WriteEnter,
           WriteRetry, WriteScheduleAll, LoopTest, WriteSignal
  <2> QED
    BY <1>1, <2>1 DEF Goto, ThreadTypes
<1>4. pc[t] \notin AltPlaces /\ pc'[t] \notin AltPlaces
  BY <1>1, OutsideMoves DEF MovedOutside
<1> QED
  BY <1>1, <1>2, <1>3, <1>4, OthersStay, Elsewhere

LEMMA CallBarriers ==
  ASSUME Shape, BarrierShape, NEW t \in Threads, CallStep(t)
  PROVE  BarrierShape'
<1>1. ThreadTypes /\ ObjTypes
  BY DEF Shape
<1>2. /\ pc[t] \in {"idle", "return"} /\ UNCHANGED obj
      /\ pc'[t] \in {"idle", "read", "write", "sync"}
  BY <1>1
  DEF CallStep, ReadCall, WriteCall, SyncCall, Return, Call, Goto, ThreadTypes
<1> QED
  BY <1>1, <1>2, OthersStay, Elsewhere DEF AltPlaces
-----------------------------------------------------------------------------
(* The parties of a barrier do not change while t goes through select. *)
LEMMA PartiesOfSelect ==
  ASSUME NEW b \in Barriers, ObjTypes, Parties(b), NEW a \in Threads,
         \A u \in Threads \ {a} : Stays(u),
         pc[a] \in AltPlaces \cup {"idle"}, pc'[a] # "sched",
         obj'[b].m_parts = obj[b].m_parts, obj'[b].cond = obj[b].cond
  PROVE  Parties(b)'
<1>1. ~Counted(a, b)
  BY DEF Counted, Parties, AltPlaces
<1> QED
  BY <1>1, PartiesKept DEF ObjTypes

(* A step of select that leaves the barriers alone. *)
LEMMA SelectKeepsBarriers ==
  ASSUME BarrierShape, ObjTypes, NEW a \in Threads,
         \A u \in Threads \ {a} : Stays(u),
         pc[a] \in AltPlaces \cup {"idle"}, pc'[a] # "sched",
         \A b \in Barriers :
           /\ obj'[b].m_sem = obj[b].m_sem
           /\ obj'[b].m_parts = obj[b].m_parts /\ obj'[b].cond = obj[b].cond
           /\ Holds(a, b)' <=> Holds(a, b)
  PROVE  BarrierShape'
<1> SUFFICES ASSUME NEW b \in Barriers PROVE Account(b)' /\ Parties(b)'
  BY DEF BarrierShape
<1>1. obj[b].m_sem \in Int /\ Account(b) /\ Parties(b)
  BY DEF BarrierShape, ObjTypes, Barrier2Type
<1> QED
  BY <1>1, AccountKept, PartiesOfSelect

LEMMA InSelect ==
  ASSUME NEW a, pc[a] \in AltPlaces \cup {"idle"}, NEW b
  PROVE  Holds(a, b) <=> \E i \in Enabled(a) : alt[a].m_c[i + 1] = b
BY DEF Holds, AltPlaces

LEMMA StillInSelect ==
  ASSUME NEW a, pc'[a] \in AltPlaces \cup {"idle"}, NEW b
  PROVE  Holds(a, b)' <=> \E i \in Enabled(a)' : alt'[a].m_c[i + 1] = b
BY DEF Holds, AltPlaces

LEMMA SelectBarriers ==
  ASSUME Shape, BarrierShape, NEW a \in Threads,
         SelectCall(a) \/ SelectTest(a) \/ SelectCheck(a) \/ SelectWake(a)
  PROVE  BarrierShape'
<1> DEFINE r == alt[a]
<1>1. /\ ThreadTypes /\ ObjTypes /\ alt \in [Threads -> AltType]
      /\ AltShape(a) /\ r \in AltType
  BY DEF Shape
<1>2. \A u \in Threads \ {a} : Stays(u)
  BY OthersStay DEF Select
<1>3. pc[a] \in AltPlaces \cup {"idle"} /\ pc'[a] \in AltPlaces /\ UNCHANGED obj
  BY <1>1
  DEF SelectCall, SelectTest, SelectCheck, SelectWake, StartDisabling, Goto,
      ThreadTypes, AltPlaces
<1>4. \A b \in Barriers : Holds(a, b)' <=> Holds(a, b)
  <2>1. CASE SelectCall(a)
    <3>1. \E s \in Choices[a] : alt'[a] = NewAlternative(s)
      BY <1>1, <2>1 DEF SelectCall
    <3>2. pc[a] = "idle" /\ pc'[a] = "test" /\ alt'[a].bound = 0
      BY <1>1, <2>1, <3>1 DEF SelectCall, Goto, ThreadTypes, NewAlternative
    <3>3. Enabled(a) = {} /\ Enabled(a)' = {}
      BY <3>2 DEF Enabled
    <3> QED
      BY <1>3, <3>3, InSelect, StillInSelect DEF AltPlaces
  <2>2. CASE SelectTest(a) /\ r.m_state # "eReady"
    <3>1. pc[a] = "test" /\ pc'[a] = "enable" /\ UNCHANGED alt
      BY <1>1, <2>2 DEF SelectTest, Goto, ThreadTypes
    <3>2. Enabled(a)' = Enabled(a)
      BY <3>1 DEF Enabled
    <3> QED
      BY <1>3, <3>1, <3>2, InSelect, StillInSelect
  <2>3. CASE SelectTest(a) /\ r.m_state = "eReady"
    <3>1. /\ alt' = [alt EXCEPT ![a].bound = @ - 1]
          /\ pc[a] = "test" /\ pc'[a] = "check"
      BY <1>1, <2>3 DEF SelectTest, Goto, ThreadTypes
    <3>2. alt'[a].bound = r.bound - 1 /\ alt'[a].m_c = r.m_c /\ r.bound \in Nat
      BY <1>1, <3>1 DEF AltType
    <3>3. Enabled(a)' = Enabled(a)
      BY <3>1, <3>2 DEF Enabled
    <3> QED
      BY <1>3, <3>2, <3>3, InSelect, StillInSelect
  <2>4. CASE SelectCheck(a) /\ r.m_state = "eEnabling"
    <3>1. /\ alt' = [alt EXCEPT ![a].m_state = "eWaiting", ![a].asleep = TRUE]
          /\ pc[a] = "check" /\ pc'[a] = "asleep"
      BY <1>1, <2>4 DEF SelectCheck, Goto, ThreadTypes
    <3>2. alt'[a].bound = r.bound /\ alt'[a].m_c = r.m_c
      BY <1>1, <3>1 DEF AltType
    <3>3. Enabled(a)' = Enabled(a)
      BY <3>1, <3>2 DEF Enabled
    <3> QED
      BY <1>3, <3>2, <3>3, InSelect, StillInSelect
  <2>5. CASE (SelectCheck(a) /\ r.m_state # "eEnabling") \/ SelectWake(a)
    <3> DEFINE n == Len(r.m_c)
    <3>1. /\ StartDisabling(a)
          /\ pc[a] \in {"check", "asleep"} /\ pc'[a] = "disable"
      BY <1>1, <2>5 DEF SelectCheck, SelectWake, StartDisabling, Goto, ThreadTypes
    <3>2. alt' = [alt EXCEPT ![a].pos = 0, ![a].selected = n]
      BY <3>1 DEF StartDisabling
    <3> HIDE DEF n
    <3>3. /\ alt'[a].bound = r.bound /\ alt'[a].m_c = r.m_c /\ alt'[a].pos = 0
          /\ r.bound \in Nat
      BY <1>1, <3>2 DEF AltType
    <3>4. Enabled(a)' = Enabled(a)
      BY <3>1, <3>3 DEF Enabled
    <3> QED
      BY <1>3, <3>3, <3>4, InSelect, StillInSelect
  <2> QED
    BY <2>1, <2>2, <2>3, <2>4, <2>5
<1> QED
  BY <1>1, <1>2, <1>3, <1>4, SelectKeepsBarriers DEF AltPlaces

(* The place in the selected barrier goes over to the sync that follows. *)
LEMMA SelectReturnBarriers ==
  ASSUME Shape, BarrierShape, NEW a \in Threads, SelectReturn(a)
  PROVE  BarrierShape'
<1> DEFINE r == alt[a]
           g == r.m_c[r.selected + 1]
<1>1. /\ ThreadTypes /\ ObjTypes /\ alt \in [Threads -> AltType]
      /\ AltShape(a) /\ r \in AltType /\ pc[a] = "selected" /\ UNCHANGED obj
  BY DEF Shape, SelectReturn
<1>2. PICK i \in 0 .. r.bound : r.m_selector = r.m_c[i + 1]
  BY <1>1 DEF AltShape, UpTo
<1>3. r.selected < Len(r.m_c)
  BY <1>1, <1>2, ChoiceList DEF AltShape, AltPlaces, AltType
<1>4. /\ pc'[a] = IF g \in Barriers THEN "sync_sem" ELSE "read"
      /\ on'[a] = g
  BY <1>1, <1>3 DEF SelectReturn, Goto, ThreadTypes
<1>5. Enabled(a) = {r.selected} /\ Enabled(a)' = {}
  BY <1>1, <1>4 DEF Enabled
<1>6. \A b \in Barriers : Holds(a, b)' <=> Holds(a, b)
  BY <1>1, <1>4, <1>5 DEF Holds
<1> QED
  BY <1>1, <1>4, <1>6, OthersStay, SelectKeepsBarriers DEF Select, AltPlaces

LEMMA AfterEnableEnabled ==
  ASSUME NEW a \in Threads, alt[a] \in AltType, AltShape(a),
         pc[a] \in {"enable", "entered", "resched"}, NEW ready \in BOOLEAN,
         alt'[a] = AfterEnable(alt[a], ready),
         pc'[a] = IF ~ready /\ alt[a].bound + 1 < Len(alt[a].m_c)
                  THEN "test" ELSE "check"
  PROVE  Enabled(a)' = 0 .. alt[a].bound /\ alt'[a].m_c = alt[a].m_c
<1> DEFINE r == alt[a]
<1>1. r.m_c \in Choices[a] /\ r.bound \in Nat
  BY DEF AltShape, AltPlaces, AltType
<1>2. Len(r.m_c) \in Nat
  BY <1>1, ChoiceList
<1>3. CASE ready
  <2>1. alt'[a].m_c = r.m_c /\ alt'[a].bound = r.bound /\ pc'[a] = "check"
    BY <1>3 DEF AfterEnable, AltType
  <2> QED
    BY <2>1 DEF Enabled
<1>4. CASE ~ready
  <2>1. /\ alt'[a].m_c = r.m_c
        /\ alt'[a].bound = IF r.bound + 1 < Len(r.m_c) THEN r.bound + 1 ELSE r.bound
    BY <1>1, <1>2, <1>4 DEF AfterEnable, AltType
  <2> QED
    BY <1>1, <1>2, <1>4, <2>1 DEF Enabled
<1> QED
  BY <1>3, <1>4

(* A round of the enabling loop leaves the places as they are. *)
LEMMA EnablingBarriers ==
  ASSUME Shape, BarrierShape, NEW a \in Threads, EnablingStep(a) \/ EnableSchedule(a)
  PROVE  BarrierShape'
<1> DEFINE r == alt[a]
           c == on[a]
<1>1. /\ ThreadTypes /\ ObjTypes /\ alt \in [Threads -> AltType]
      /\ AltShape(a) /\ r \in AltType
  BY DEF Shape
<1>2. \A u \in Threads \ {a} : Stays(u)
  BY OthersStay DEF EntryStep
<1>3. \A b \in Barriers : obj'[b].m_sem = obj[b].m_sem
        /\ obj'[b].m_parts = obj[b].m_parts /\ obj'[b].cond = obj[b].cond
  <2>1. CASE EnableOne2One(a) \/ EnableMany2One(a)
    BY <1>1, <2>1, EnableChannelRegisters, Classes DEF ChangedIn, Changed
  <2>2. CASE EnableRegister(a)
    <3>1. Becomes(c, obj[c].m_sem, obj[c].m_parts, a, obj[c].cond)
      BY <1>1, <2>2, BarrierEffects, Zenon
    <3> QED
      BY <3>1, Classes DEF Becomes, Changed
  <2>3. CASE EnableReady(a)
    <3>1. Becomes(c, obj[c].m_sem, obj[c].m_parts, "null", obj[c].cond)
      BY <1>1, <2>3, BarrierEffects, Zenon
    <3> QED
      BY <3>1, Classes DEF Becomes, Changed
  <2> QED
    BY <2>1, <2>2, <2>3 DEF EnablingStep, EnableSchedule
<1>4. /\ pc[a] \in {"enable", "entered", "resched"} /\ c \in Guards
      /\ c \in Barriers => pc[a] # "enable"
  BY Classes, Zenon
  DEF EnablingStep, EnableOne2One, EnableMany2One, EnableRegister, EnableReady,
      EnableSchedule, Locks, At
<1>5. \E ready \in BOOLEAN :
        /\ alt'[a] = AfterEnable(r, ready)
        /\ pc'[a] = IF ~ready /\ r.bound + 1 < Len(r.m_c) THEN "test" ELSE "check"
  <2>1. CASE EnableSchedule(a)
    <3>1. obj[c].m_pAlt # a
      BY <2>1 DEF EnableSchedule, At, AltFree
    <3>2. ScheduleResult(alt[obj[c].m_pAlt]) \in BOOLEAN
      BY DEF ScheduleResult
    <3> QED
      BY <1>1, <2>1, <3>1, <3>2 DEF EnableSchedule, LeaveEnable, Goto, ThreadTypes
  <2>2. CASE EnablingStep(a)
    <3>1. \E ready \in BOOLEAN : EnableDone(a, ready)
      BY <2>2, Zenon
      DEF EnablingStep, EnableOne2One, EnableMany2One, EnableRegister, EnableReady
    <3> QED
      BY <1>1, <3>1, EnableDoneMoves
  <2> QED
    BY <2>1, <2>2
<1>6. Enabled(a)' = 0 .. r.bound /\ alt'[a].m_c = r.m_c
  BY <1>1, <1>4, <1>5, AfterEnableEnabled
<1>7. /\ r.bound \in Nat /\ on[a] = r.m_c[r.bound + 1]
      /\ Enabled(a) = IF pc[a] = "enable" THEN 0 .. r.bound - 1 ELSE 0 .. r.bound
  BY <1>1, <1>4 DEF AltShape, AltType, Enabled
<1>8. pc'[a] \in {"test", "check"}
  BY <1>5
<1>9. \A b \in Barriers : Holds(a, b)' <=> Holds(a, b)
  <2> SUFFICES ASSUME NEW b \in Barriers PROVE Holds(a, b)' <=> Holds(a, b)
    OBVIOUS
  <2>1. /\ Holds(a, b) <=> \E i \in Enabled(a) : r.m_c[i + 1] = b
        /\ Holds(a, b)' <=> \E i \in Enabled(a)' : r.m_c[i + 1] = b
    <3>1. Holds(a, b) <=> \E i \in Enabled(a) : r.m_c[i + 1] = b
      BY <1>4, InSelect DEF AltPlaces
    <3>2. Holds(a, b)' <=> \E i \in Enabled(a)' : alt'[a].m_c[i + 1] = b
      BY <1>8, StillInSelect DEF AltPlaces
    <3> QED
      BY <1>6, <3>1, <3>2
  <2>2. pc[a] = "enable" => r.m_c[r.bound + 1] # b
    BY <1>4, <1>7
  <2> QED
    BY <1>6, <1>7, <2>1, <2>2
<1> QED
  BY <1>1, <1>2, <1>3, <1>4, <1>8, <1>9, SelectKeepsBarriers DEF AltPlaces

(* enable of a barrier takes a place, or finds another alternative. *)
LEMMA EnteringBarriers ==
  ASSUME Shape, BarrierShape, NEW a \in Threads, EnableSemWait(a) \/ EnableOther(a)
  PROVE  BarrierShape'
<1> DEFINE r == alt[a]
           c == on[a]
<1>1. /\ ThreadTypes /\ ObjTypes /\ alt \in [Threads -> AltType]
      /\ AltShape(a) /\ r \in AltType
  BY DEF Shape
<1>2. \A u \in Threads \ {a} : Stays(u)
  BY OthersStay DEF EntryStep
<1>3. CASE EnableOther(a)
  <2>1. /\ pc[a] = "entered" /\ pc'[a] = "resched" /\ UNCHANGED <<alt, obj>>
    BY <1>1, <1>3 DEF EnableOther, Locks, At, Goto, ThreadTypes
  <2>2. Enabled(a)' = Enabled(a)
    BY <2>1 DEF Enabled
  <2>3. \A b : Holds(a, b)' <=> Holds(a, b)
    BY <2>1, <2>2, InSelect, StillInSelect DEF AltPlaces
  <2> QED
    BY <1>1, <1>2, <2>1, <2>3, SelectKeepsBarriers DEF AltPlaces
<1>4. CASE EnableSemWait(a)
  <2>1. /\ pc[a] = "enable" /\ pc'[a] = "entered" /\ UNCHANGED alt
        /\ c \in Barriers
    BY <1>1, <1>4 DEF EnableSemWait, At, Goto, ThreadTypes
  <2>2. Becomes(c, obj[c].m_sem - 1, obj[c].m_parts, obj[c].m_pAlt, obj[c].cond)
    BY <1>1, <1>4, BarrierEffects, Zenon
  <2>3. /\ r.bound \in Nat /\ c = r.m_c[r.bound + 1]
        /\ r.m_c \in Choices[a] /\ r.bound < Len(r.m_c)
    BY <1>1, <2>1 DEF AltShape, AltType, AltPlaces
  <2>4. \A i \in 0 .. r.bound - 1 : r.m_c[i + 1] # c
    <3>1. Len(r.m_c) \in Nat
      BY <2>3, ChoiceList
    <3>2. 0 .. r.bound \subseteq 0 .. Len(r.m_c) - 1
      BY <2>3, <3>1
    <3>3. \A i, j \in 0 .. Len(r.m_c) - 1 : r.m_c[i + 1] = r.m_c[j + 1] => i = j
      BY <2>3, ChoiceList, Zenon
    <3>4. ASSUME NEW i \in 0 .. r.bound - 1 PROVE r.m_c[i + 1] # c
      <4>1. i \in 0 .. r.bound /\ r.bound \in 0 .. r.bound /\ i # r.bound
        BY <2>3
      <4> QED
        BY <2>3, <3>2, <3>3, <4>1, Zenon
    <3> QED
      BY <3>4
  <2>5. Enabled(a) = 0 .. r.bound - 1 /\ Enabled(a)' = 0 .. r.bound
    BY <2>1 DEF Enabled
  <2> SUFFICES ASSUME NEW b \in Barriers PROVE Account(b)' /\ Parties(b)'
    BY DEF BarrierShape
  <2>6. /\ Holds(a, b) <=> \E i \in 0 .. r.bound - 1 : r.m_c[i + 1] = b
        /\ Holds(a, b)' <=> \E i \in 0 .. r.bound : r.m_c[i + 1] = b
    <3>1. Holds(a, b) <=> \E i \in Enabled(a) : r.m_c[i + 1] = b
      BY <2>1, InSelect DEF AltPlaces
    <3>2. Holds(a, b)' <=> \E i \in Enabled(a)' : alt'[a].m_c[i + 1] = b
      BY <2>1, StillInSelect DEF AltPlaces
    <3> QED
      BY <2>1, <2>5, <3>1, <3>2
  <2>7. /\ obj[b].m_sem \in Int /\ Account(b) /\ Parties(b)
        /\ obj'[b].m_parts = obj[b].m_parts /\ obj'[b].cond = obj[b].cond
        /\ obj'[b].m_sem = IF b = c THEN obj[b].m_sem - 1 ELSE obj[b].m_sem
    BY <1>1, <2>2, Classes, Zenon DEF BarrierShape, ObjTypes, Barrier2Type,
       Becomes, Changed
  <2>8. Account(b)'
    <3>1. CASE b = c
      <4>1. ~Holds(a, b) /\ Holds(a, b)'
        BY <2>3, <2>4, <2>6, <3>1
      <4> QED
        BY <1>2, <2>7, <3>1, <4>1, AccountKept
    <3>2. CASE b # c
      <4>1. Holds(a, b)' <=> Holds(a, b)
        <5>1. \A i \in 0 .. r.bound : r.m_c[i + 1] = b => i \in 0 .. r.bound - 1
          BY <2>3, <3>2
        <5>2. 0 .. r.bound - 1 \subseteq 0 .. r.bound
          BY <2>3
        <5> QED
          BY <2>6, <5>1, <5>2
      <4> QED
        BY <1>2, <2>7, <3>2, <4>1, AccountKept
    <3> QED
      BY <3>1, <3>2
  <2>9. Parties(b)'
    BY <1>1, <1>2, <2>1, <2>7, PartiesOfSelect DEF AltPlaces
  <2> QED
    BY <2>8, <2>9
<1> QED
  BY <1>3, <1>4

LEMMA DisableEnabled ==
  ASSUME NEW a \in Threads, ThreadTypes, alt \in [Threads -> AltType], AltShape(a),
         pc[a] = "disable", DisableDone(a)
  PROVE  /\ alt[a].m_c \in Choices[a] /\ on[a] = alt[a].m_c[alt[a].pos + 1]
         /\ Enabled(a) \subseteq 0 .. Len(alt[a].m_c) - 1 /\ alt[a].pos \in Enabled(a)
         /\ alt'[a].m_c = alt[a].m_c
         /\ Enabled(a)' = IF Cares(a) THEN Enabled(a) ELSE Enabled(a) \ {alt[a].pos}
         /\ pc'[a] \in {"disable", "selected"}
<1> DEFINE r == alt[a]
           n == Len(r.m_c)
<1>1. /\ r.m_c \in Choices[a] /\ r.bound \in Nat /\ r.bound < n
      /\ r.pos \in Nat /\ r.pos <= r.bound /\ on[a] = r.m_c[r.pos + 1]
  BY DEF AltShape, AltPlaces, AltType
<1>2. n \in Nat /\ 0 .. r.bound \subseteq 0 .. n - 1
  BY <1>1, ChoiceList
<1>3. PICK k \in 0 .. r.bound : r.m_selector = r.m_c[k + 1]
  BY DEF AltShape, UpTo
<1>4. r.selected = IF k < r.pos THEN k ELSE n
  BY <1>3 DEF AltShape
<1>5. Cares(a) <=> k = r.pos
  <2>1. k \in 0 .. n - 1 /\ r.pos \in 0 .. n - 1
    BY <1>1, <1>2
  <2>2. r.m_c[k + 1] = r.m_c[r.pos + 1] => k = r.pos
    BY <1>1, <2>1, ChoiceList, Zenon
  <2> QED
    BY <1>1, <1>3, <2>2 DEF Cares
<1>6. /\ alt'[a].m_c = r.m_c /\ alt'[a].bound = r.bound
      /\ alt'[a].pos = IF r.pos < r.bound THEN r.pos + 1 ELSE r.pos
      /\ alt'[a].selected = IF Cares(a) THEN r.pos ELSE r.selected
      /\ pc'[a] = IF r.pos < r.bound THEN "disable" ELSE "selected"
  BY DisableDoneMoves
<1> HIDE DEF n
<1>7. Enabled(a) = {i \in 0 .. r.bound : i >= r.pos \/ i = r.selected}
  BY DEF Enabled
<1>8. Enabled(a)' = IF Cares(a) THEN Enabled(a) ELSE Enabled(a) \ {r.pos}
  <2>1. CASE r.pos < r.bound
    <3>1. Enabled(a)' = {i \in 0 .. r.bound : i >= r.pos + 1 \/ i = alt'[a].selected}
      BY <1>6, <2>1 DEF Enabled
    <3>2. CASE Cares(a)
      BY <1>1, <1>2, <1>4, <1>5, <1>6, <1>7, <3>1, <3>2
    <3>3. CASE ~Cares(a)
      BY <1>1, <1>2, <1>3, <1>4, <1>5, <1>6, <1>7, <3>1, <3>3
    <3> QED
      BY <3>2, <3>3
  <2>2. CASE ~(r.pos < r.bound)
    <3>1. Enabled(a)' = {alt'[a].selected}
      BY <1>6, <2>2 DEF Enabled
    <3>2. r.pos = r.bound
      BY <1>1, <2>2
    <3>3. CASE Cares(a)
      BY <1>1, <1>2, <1>4, <1>5, <1>6, <1>7, <3>1, <3>2, <3>3
    <3>4. CASE ~Cares(a)
      BY <1>1, <1>2, <1>3, <1>4, <1>5, <1>6, <1>7, <3>1, <3>2, <3>4
    <3> QED
      BY <3>3, <3>4
  <2> QED
    BY <2>1, <2>2
<1> QED
  BY <1>1, <1>2, <1>6, <1>7, <1>8 DEF n

(* disable gives the place back unless the guard was selected. *)
LEMMA DisablingBarriers ==
  ASSUME Shape, BarrierShape, NEW a \in Threads, DisablingStep(a)
  PROVE  BarrierShape'
<1> DEFINE r == alt[a]
           c == on[a]
<1>1. /\ ThreadTypes /\ ObjTypes /\ alt \in [Threads -> AltType]
      /\ AltShape(a) /\ r \in AltType
      /\ pc[a] = "disable" /\ DisableDone(a) /\ c \in Guards
  BY Classes DEF Shape, DisablingStep, DisableOne2One, DisableMany2One, DisableBarrier2,
                 Locks, At
<1>2. \A u \in Threads \ {a} : Stays(u)
  BY OthersStay
<1>3. ASSUME NEW b \in Barriers
      PROVE  /\ obj'[b].m_parts = obj[b].m_parts /\ obj'[b].cond = obj[b].cond
             /\ obj'[b].m_sem = IF b = c /\ ~Cares(a) THEN obj[b].m_sem + 1
                                ELSE obj[b].m_sem
  <2>1. CASE DisableOne2One(a) \/ DisableMany2One(a)
    BY <1>1, <2>1, DisableOne2OneClears, DisableMany2OneClears, Classes
    DEF ChangedIn, Changed
  <2>2. CASE DisableBarrier2(a)
    <3>1. Becomes(c, IF Cares(a) THEN obj[c].m_sem ELSE obj[c].m_sem + 1,
                  obj[c].m_parts, "null", obj[c].cond)
      BY <1>1, <2>2, BarrierEffects, Zenon
    <3> QED
      BY <3>1, Classes DEF Becomes, Changed
  <2> QED
    BY <2>1, <2>2 DEF DisablingStep
<1>4. /\ r.m_c \in Choices[a] /\ c = r.m_c[r.pos + 1]
      /\ Enabled(a) \subseteq 0 .. Len(r.m_c) - 1 /\ r.pos \in Enabled(a)
      /\ alt'[a].m_c = r.m_c
      /\ Enabled(a)' = IF Cares(a) THEN Enabled(a) ELSE Enabled(a) \ {r.pos}
      /\ pc'[a] \in {"disable", "selected"}
  BY <1>1, DisableEnabled
<1>5. \A i \in Enabled(a) : r.m_c[i + 1] = c => i = r.pos
  BY <1>4, ChoiceList, Zenon
<1> SUFFICES ASSUME NEW b \in Barriers PROVE Account(b)' /\ Parties(b)'
  BY DEF BarrierShape
<1>6. obj[b].m_sem \in Int /\ Account(b) /\ Parties(b)
  BY <1>1 DEF BarrierShape, ObjTypes, Barrier2Type
<1>7. /\ Holds(a, b) <=> \E i \in Enabled(a) : r.m_c[i + 1] = b
      /\ Holds(a, b)' <=> \E i \in Enabled(a)' : r.m_c[i + 1] = b
  <2>1. Holds(a, b) <=> \E i \in Enabled(a) : r.m_c[i + 1] = b
    BY <1>1, InSelect DEF AltPlaces
  <2>2. Holds(a, b)' <=> \E i \in Enabled(a)' : alt'[a].m_c[i + 1] = b
    BY <1>4, StillInSelect DEF AltPlaces
  <2> QED
    BY <1>4, <2>1, <2>2
<1>8. Account(b)'
  <2>1. CASE b = c /\ ~Cares(a)
    <3>1. Holds(a, b) /\ ~Holds(a, b)'
      BY <1>4, <1>5, <1>7, <2>1
    <3> QED
      BY <1>2, <1>3, <1>6, <2>1, <3>1, AccountKept
  <2>2. CASE b # c \/ Cares(a)
    <3>1. Holds(a, b)' <=> Holds(a, b)
      BY <1>4, <1>7, <2>2
    <3> QED
      BY <1>2, <1>3, <1>6, <2>2, <3>1, AccountKept
  <2> QED
    BY <2>1, <2>2
<1>9. Parties(b)'
  BY <1>1, <1>2, <1>3, <1>4, <1>6, PartiesOfSelect DEF AltPlaces
<1> QED
  BY <1>8, <1>9

-----------------------------------------------------------------------------
(* Steps of a thread that is in sync or sync_sem. *)
SyncStep(t) ==
  SemWait(t) \/ SyncFirst(t) \/ SyncSchedule(t) \/ SyncSecond(t) \/ SyncWake(t)

LEMMA SyncMoves ==
  ASSUME ThreadTypes, NEW t \in Threads, SyncStep(t)
  PROVE  /\ on[t] \in Barriers /\ on'[t] = on[t]
         /\ SemWait(t) => pc[t] = "sync" /\ pc'[t] = "sync_sem"
         /\ SyncFirst(t) => pc[t] = "sync_sem" /\ pc'[t] \in {"sched", "wait"}
         /\ SyncSchedule(t) => pc[t] = "sched" /\ pc'[t] = "wait"
         /\ SyncSecond(t) => pc[t] = "sync_sem" /\ pc'[t] = "return"
         /\ SyncWake(t) => pc[t] = "wait" /\ pc'[t] = "return"
<1>1. \A place : Goto(t, place, on[t]) => pc'[t] = place /\ on'[t] = on[t]
  BY DEF Goto, ThreadTypes
<1> QED
  BY <1>1 DEF SyncStep, SemWait, SyncFirst, SyncSchedule, SyncSecond, SyncWake,
              Resumes, Locks, At

(* No party takes part in two barriers. *)
LEMMA SyncElsewhere ==
  ASSUME Shape, BarrierShape, NEW t \in Threads, SyncStep(t),
         NEW b \in Barriers, b # on[t]
  PROVE  Account(b)' /\ Parties(b)'
<1> DEFINE c == on[t]
<1>1. /\ ThreadTypes /\ ObjTypes /\ c \in Barriers /\ on'[t] = c
      /\ pc[t] \notin AltPlaces /\ pc'[t] \notin AltPlaces
  BY SyncMoves DEF Shape, SyncStep, AltPlaces
<1>2. obj'[b] = obj[b]
  <2>1. \E sem, parts, a, w : Becomes(c, sem, parts, a, w)
    BY <1>1, BarrierEffects, Zenon DEF SyncStep
  <2> QED
    BY <2>1, Classes DEF Becomes, Changed
<1>3. Enabled(t) = {} /\ Enabled(t)' = {}
  BY <1>1 DEF Enabled, AltPlaces
<1>4. ~Holds(t, b) /\ ~Holds(t, b)' /\ ~Counted(t, b)
  BY <1>1, <1>3 DEF Holds, Counted
<1>5. obj[b] \in Barrier2Type /\ Account(b) /\ Parties(b)
  BY <1>1 DEF BarrierShape, ObjTypes
<1>6. \A u \in Threads \ {t} : Stays(u)
  BY OthersStay DEF SyncStep, PlainStep, SchedulingStep
<1>7. Account(b)'
  BY <1>2, <1>4, <1>5, <1>6, AccountKept DEF Barrier2Type
<1> QED
  BY <1>1, <1>2, <1>4, <1>5, <1>6, <1>7, PartiesKept

LEMMA SyncAccount ==
  ASSUME Shape, BarrierShape, NEW t \in Threads, SyncStep(t),
         NEW c \in Barriers, c = on[t]
  PROVE  Account(c)'
<1> DEFINE o == obj[c]
<1>1. /\ ThreadTypes /\ ObjTypes /\ on'[t] = c
      /\ pc[t] \notin AltPlaces /\ pc'[t] \notin AltPlaces
      /\ o.m_sem \in Int /\ Account(c)
  BY SyncMoves, Zenon DEF Shape, SyncStep, AltPlaces, BarrierShape, ObjTypes,
     Barrier2Type
<1>2. \A u \in Threads \ {t} : Stays(u)
  BY OthersStay DEF SyncStep, PlainStep, SchedulingStep
<1>3. Enabled(t) = {} /\ Enabled(t)' = {}
  BY <1>1 DEF Enabled, AltPlaces
<1>4. /\ Holds(t, c) <=> pc[t] \in {"sync_sem", "sched", "wait"}
      /\ Holds(t, c)' <=> pc'[t] \in {"sync_sem", "sched", "wait"}
  BY <1>1, <1>3 DEF Holds
<1>5. \/ obj'[c].m_sem = o.m_sem /\ (Holds(t, c)' <=> Holds(t, c))
      \/ obj'[c].m_sem = o.m_sem - 1 /\ ~Holds(t, c) /\ Holds(t, c)'
      \/ obj'[c].m_sem = o.m_sem + 1 /\ Holds(t, c) /\ ~Holds(t, c)'
  <2>1. CASE SemWait(t)
    BY <1>1, <1>4, <2>1, BarrierEffects, SyncMoves DEF SyncStep, Becomes, Changed
  <2>2. CASE SyncFirst(t) \/ SyncSchedule(t)
    BY <1>1, <1>4, <2>2, BarrierEffects, SyncMoves DEF SyncStep, Becomes, Changed
  <2>3. CASE SyncSecond(t) \/ SyncWake(t)
    BY <1>1, <1>4, <2>3, BarrierEffects, SyncMoves DEF SyncStep, Becomes, Changed
  <2> QED
    BY <2>1, <2>2, <2>3 DEF SyncStep
<1> QED
  BY <1>1, <1>2, <1>5, AccountKept

LEMMA SyncParties ==
  ASSUME Shape, BarrierShape, NEW t \in Threads, SyncStep(t),
         NEW c \in Barriers, c = on[t]
  PROVE  Parties(c)'
<1> DEFINE o == obj[c]
           S == {u \in Threads : Counted(u, c)}
           T == {u \in Threads : Counted(u, c)'}
<1>1. /\ ThreadTypes /\ ObjTypes /\ on'[t] = c /\ o \in Barrier2Type
      /\ o.cond \subseteq Threads
      /\ o.m_parts = Cardinality(S) /\ o.m_parts \in {0, 1}
      /\ \A u \in o.cond : on[u] = c /\ pc[u] = "wait"
  BY SyncMoves, Zenon DEF Shape, BarrierShape, ObjTypes, Parties, Barrier2Type
<1>2. \A u \in Threads \ {t} : Stays(u)
  BY OthersStay DEF SyncStep, PlainStep, SchedulingStep
<1>3. IsFiniteSet(S)
  BY AlternativeAssumption, FS_Subset
<1>4. ASSUME t \notin o.cond, pc[t] # "sched", pc'[t] # "sched",
             obj'[c].m_parts = o.m_parts, obj'[c].cond = o.cond
      PROVE  Parties(c)'
  BY <1>1, <1>2, <1>4, PartiesKept DEF BarrierShape, Counted
<1>5. CASE SemWait(t) \/ SyncWake(t)
  <2>1. t \notin o.cond
    BY <1>1, <1>5, SyncMoves DEF SyncStep, SyncWake, Resumes
  <2>2. obj'[c].m_parts = o.m_parts /\ obj'[c].cond = o.cond
    BY <1>1, <1>5, BarrierEffects DEF Becomes, Changed
  <2> QED
    BY <1>1, <1>4, <1>5, <2>1, <2>2, SyncMoves
<1>6. CASE SyncFirst(t)
  <2>1. o.m_parts = 0 /\ pc[t] = "sync_sem" /\ t \notin o.cond
    <3>1. pc[t] = "sync_sem"
      BY <1>1, <1>6, SyncMoves
    <3>2. o.m_parts + 1 # 2
      BY <1>6 DEF SyncFirst
    <3> QED
      BY <1>1, <3>1, <3>2
  <2>2. obj'[c].m_parts = 1
    BY <1>1, <1>6, <2>1, BarrierEffects DEF Becomes, Changed
  <2>3. \/ pc'[t] = "sched" /\ obj'[c].cond = o.cond
        \/ pc'[t] = "wait" /\ obj'[c].cond = o.cond \cup {t}
    <3>1. CASE o.m_pAlt # "null"
      <4>1. pc'[t] = "sched"
        BY <1>1, <1>6, <3>1 DEF SyncFirst, Goto, ThreadTypes
      <4> QED
        BY <1>1, <1>6, <3>1, <4>1, BarrierEffects DEF Becomes, Changed
    <3>2. CASE o.m_pAlt = "null"
      <4>1. pc'[t] = "wait"
        BY <1>1, <1>6, <3>2 DEF SyncFirst, Goto, ThreadTypes
      <4> QED
        BY <1>1, <1>6, <3>2, <4>1, BarrierEffects DEF Becomes, Changed
    <3> QED
      BY <3>1, <3>2
  <2>4. T = S \cup {t} /\ t \notin S
    BY <1>1, <1>2, <2>1, <2>3 DEF Counted, Stays
  <2>5. Cardinality(T) = 1
    <3>1. Cardinality(S \cup {t}) = Cardinality(S) + 1
      BY <1>3, <2>4, FS_AddElement, Zenon
    <3> QED
      BY <1>1, <2>1, <2>4, <3>1
  <2>6. \A u \in obj'[c].cond : on'[u] = c /\ pc'[u] = "wait"
    BY <1>1, <1>2, <2>1, <2>3 DEF Stays
  <2> QED
    BY <2>2, <2>5, <2>6 DEF Parties
<1>7. CASE SyncSchedule(t)
  <2>1. pc[t] = "sched" /\ pc'[t] = "wait" /\ t \notin o.cond
    BY <1>1, <1>7, SyncMoves DEF SyncStep
  <2>2. obj'[c].m_parts = o.m_parts /\ obj'[c].cond = o.cond \cup {t}
    BY <1>1, <1>7, BarrierEffects DEF Becomes, Changed
  <2>3. T = S
    BY <1>1, <1>2, <2>1, <2>2 DEF Counted, Stays
  <2>4. \A u \in obj'[c].cond : on'[u] = c /\ pc'[u] = "wait"
    BY <1>1, <1>2, <2>1, <2>2 DEF Stays
  <2> QED
    BY <1>1, <2>2, <2>3, <2>4, Zenon DEF Parties
<1>8. CASE SyncSecond(t)
  <2>1. pc[t] = "sync_sem" /\ pc'[t] = "return" /\ t \notin o.cond
        /\ o.m_parts = 1 /\ Free(c)
    <3>1. pc[t] = "sync_sem" /\ pc'[t] = "return"
      BY <1>1, <1>8, SyncMoves
    <3>2. o.m_parts + 1 = 2 /\ Free(c)
      BY <1>8 DEF SyncSecond, Locks
    <3> QED
      BY <1>1, <3>1, <3>2
  <2>2. PICK rest \in Signalled(c) : Becomes(c, o.m_sem + 1, 0, o.m_pAlt, rest)
    <3>1. \E rest \in Signalled(c) :
            Becomes(c, o.m_sem + 1, o.m_parts + 1 - 2, o.m_pAlt, rest)
      BY <1>1, <1>8, BarrierEffects, Zenon
    <3>2. o.m_parts + 1 - 2 = 0
      BY <2>1
    <3> QED
      BY <3>1, <3>2
  <2>3. S = o.cond
    BY <1>1, <2>1 DEF Counted, Free
  <2>4. PICK w : S = {w}
    BY <1>1, <1>3, <2>1, FS_Singleton, Zenon
  <2>5. rest = {}
    BY <2>3, <2>4 DEF Signalled
  <2>6. obj'[c].m_parts = 0 /\ obj'[c].cond = {}
    BY <2>2, <2>5 DEF Becomes, Changed
  <2>7. T = {}
    BY <1>1, <1>2, <2>1, <2>6 DEF Counted, Stays, Free
  <2> QED
    BY <2>6, <2>7, FS_EmptySet DEF Parties
<1> QED
  BY <1>5, <1>6, <1>7, <1>8 DEF SyncStep
-----------------------------------------------------------------------------
LEMMA InitBarriers == Init => BarrierShape
<1> SUFFICES ASSUME Init, NEW b \in Barriers PROVE Account(b) /\ Parties(b)
  BY DEF BarrierShape
<1>1. obj[b] = NewBarrier2
  BY Classes DEF Init
<1>2. \A t \in Threads : ~Holds(t, b) /\ ~Counted(t, b)
  BY <1>1 DEF Init, Holds, Counted, Enabled, NewBarrier2
<1>3. {t \in Threads : Holds(t, b)} = {} /\ {t \in Threads : Counted(t, b)} = {}
  BY <1>2
<1> QED
  BY <1>1, <1>3, FS_EmptySet DEF Account, Parties, NewBarrier2

LEMMA NextBarriers == Shape /\ BarrierShape /\ [Next]_vars => BarrierShape'
<1> SUFFICES ASSUME Shape, BarrierShape, [Next]_vars PROVE BarrierShape'
  OBVIOUS
<1>1. CASE UNCHANGED vars
  <2> SUFFICES ASSUME NEW b \in Barriers PROVE Account(b)' /\ Parties(b)'
    BY DEF BarrierShape
  <2>1. \A u \in Threads :
          (Holds(u, b)' <=> Holds(u, b)) /\ (Counted(u, b)' <=> Counted(u, b))
    BY <1>1, StaysHolds DEF vars, Stays, Counted
  <2>2. /\ {u \in Threads : Holds(u, b)'} = {u \in Threads : Holds(u, b)}
        /\ {u \in Threads : Counted(u, b)'} = {u \in Threads : Counted(u, b)}
    BY <2>1
  <2> QED
    BY <1>1, <2>2, Zenon DEF vars, BarrierShape, Account, Parties
<1>2. ASSUME NEW t \in Threads, SyncStep(t) PROVE BarrierShape'
  BY <1>2, SyncElsewhere, SyncAccount, SyncParties DEF BarrierShape
<1>3. ASSUME NEW t \in Threads, PlainStep(t) \/ SchedulingStep(t) PROVE BarrierShape'
  <2>1. ChannelStep(t) \/ SyncStep(t)
    BY <1>3 DEF PlainStep, SchedulingStep, ChannelStep, SyncStep
  <2> QED
    BY <1>2, <2>1, ChannelStepBarriers
<1>4. ASSUME NEW t \in Threads,
             \/ EnablingStep(t) \/ DisablingStep(t) \/ EntryStep(t)
             \/ Select(t) \/ SelectCall(t) \/ CallStep(t)
      PROVE  BarrierShape'
  BY <1>4, EnablingBarriers, DisablingBarriers, EnteringBarriers, SelectBarriers,
     SelectReturnBarriers, CallBarriers DEF EntryStep, Select
<1> QED
  BY <1>1, <1>3, <1>4, StepCases

(* No place of a barrier is lost or made up, whatever sync, sync_sem,      *)
(* enable and disable of any number of threads do to it, and m_parts is    *)
(* the number of threads that wait there.                                  *)
THEOREM PlacesAreKept == SafeSpec => []TwoPlaces
<1>1. BarrierShape => TwoPlaces
  <2> SUFFICES ASSUME BarrierShape, NEW b \in Barriers
               PROVE  /\ obj[b].m_sem + Cardinality(Holders(b)) = 2
                      /\ obj[b].m_parts = Cardinality({t \in Threads :
                           on[t] = b /\ (pc[t] = "sched" \/ t \in obj[b].cond)})
                      /\ obj[b].m_parts \in {0, 1}
    BY DEF TwoPlaces
  <2>1. Holders(b) = {t \in Threads : Holds(t, b)}
    BY DEF Holders, Inside, Holds
  <2> QED
    BY <2>1, Zenon DEF BarrierShape, Account, Parties, Counted
<1>2. Init => Shape /\ BarrierShape
  BY InitShape, InitBarriers
<1>3. (Shape /\ BarrierShape) /\ [Next]_vars => (Shape /\ BarrierShape)'
  BY NextShape, NextBarriers
<1> QED
  BY <1>1, <1>2, <1>3, PTL DEF SafeSpec
-----------------------------------------------------------------------------
(* t is only in methods of objects whose ends it holds. *)
Ends(t) ==
  /\ pc[t] \in {"read", "read_mx", "read_wait"} => on[t] \in Reads[t]
  /\ pc[t] = "read_mx" => on[t] \in Many2Ones
  /\ pc[t] \in {"write", "handoff"} => on[t] \in Writes[t]
  /\ pc[t] = "handoff" => on[t] \in Many2Ones
  /\ pc[t] \in {"sched", "wait"} => on[t] \in Writes[t] \cup Syncs[t]
  /\ pc[t] \in {"sync", "sync_sem"} => on[t] \in Syncs[t]
  /\ pc[t] \in {"entered", "resched"} => on[t] \in Barriers

Fits == \A t \in Threads : Ends(t)

(* What AlternativeAssumption says of the ends that threads hold. *)
LEMMA HeldEnds ==
  /\ \A t \in Threads :
       /\ Reads[t] \subseteq Channels /\ Writes[t] \subseteq Channels
       /\ Syncs[t] \subseteq Barriers
  /\ \A t, u \in Threads : \A c :
       /\ c \in Reads[t] /\ c \in Reads[u] => t = u
       /\ c \in Writes[t] /\ c \in Writes[u] /\ c \in One2Ones => t = u
  /\ Channels = One2Ones \cup Many2Ones
  /\ Channels \cap Barriers = {}
<1>1. \A t \in Threads :
        /\ Reads[t] \subseteq Channels /\ Writes[t] \subseteq Channels
        /\ Syncs[t] \subseteq Barriers
  BY AlternativeAssumption
<1>2. \A t, u \in Threads : t # u =>
        Reads[t] \cap Reads[u] = {} /\ Writes[t] \cap Writes[u] \cap One2Ones = {}
  BY AlternativeAssumption
<1>3. ASSUME NEW t \in Threads, NEW u \in Threads, NEW c
      PROVE  /\ c \in Reads[t] /\ c \in Reads[u] => t = u
             /\ c \in Writes[t] /\ c \in Writes[u] /\ c \in One2Ones => t = u
  BY <1>2
<1> QED
  BY <1>1, <1>3, AlternativeAssumption DEF Channels

LEMMA ListedEnds ==
  ASSUME NEW t \in Threads, NEW s \in Choices[t], NEW i \in 0 .. Len(s) - 1
  PROVE  s[i + 1] \in Reads[t] \cup Syncs[t]
<1>1. s \in Seq(Guards) /\ i + 1 \in DOMAIN s
  BY ChoiceList
<1> QED
  BY <1>1, AlternativeAssumption

LEMMA OwnEnds ==
  ASSUME Shape, NEW t \in Threads, Ends(t),
         \/ PlainStep(t) \/ SchedulingStep(t) \/ EnablingStep(t) \/ DisablingStep(t)
         \/ EntryStep(t) \/ Select(t) \/ SelectCall(t) \/ CallStep(t)
  PROVE  Ends(t)'
<1>1. ThreadTypes /\ AltShape(t) /\ alt[t] \in AltType
  BY DEF Shape
<1>2. ASSUME NEW place, NEW g, Goto(t, place, g) PROVE pc'[t] = place /\ on'[t] = g
  BY <1>1, <1>2 DEF Goto, ThreadTypes
<1>3. CASE \/ ReadFirst(t) \/ ReadSecond(t) \/ ReadWake(t) \/ WriteFirst(t)
           \/ WriteSchedule(t) \/ WriteSecond(t) \/ WriteWake(t)
  <2>1. on[t] \in One2Ones /\ on[t] \notin Barriers
    BY <1>3, Classes
    DEF ReadFirst, ReadSecond, ReadWake, WriteFirst, WriteSchedule, WriteSecond,
        WriteWake, Resumes, Locks, At
  <2>2. \/ /\ pc[t] \in {"read", "read_wait"}
           /\ \E to \in {"read_wait", "return"} : Goto(t, to, on[t])
        \/ /\ pc[t] \in {"write", "sched", "wait"}
           /\ \E to \in {"sched", "wait", "return"} : Goto(t, to, on[t])
    BY <1>3
    DEF ReadFirst, ReadSecond, ReadWake, WriteFirst, WriteSchedule, WriteSecond,
        WriteWake, Resumes, Locks, At
  <2> QED
    BY <1>2, <2>1, <2>2 DEF Ends
<1>4. CASE \/ ReadEnter(t) \/ ReadWait(t) \/ ReadCopy(t) \/ WriteEnter(t)
           \/ WriteScheduleAll(t) \/ WriteRetry(t) \/ WriteSignal(t)
  <2>1. on[t] \in Many2Ones /\ on[t] \notin Barriers
    BY <1>4, Classes
    DEF ReadEnter, ReadWait, ReadCopy, WriteEnter, WriteScheduleAll, WriteRetry,
        WriteSignal, Resumes, Locks, At
  <2>2. \/ /\ pc[t] \in {"read", "read_mx", "read_wait"}
           /\ \E to \in {"read_mx", "read_wait", "return"} : Goto(t, to, on[t])
        \/ /\ pc[t] \in {"write", "sched", "wait", "handoff"}
           /\ \E to \in {"sched", "wait", "handoff", "return"} : Goto(t, to, on[t])
    BY <1>4
    DEF ReadEnter, ReadWait, ReadCopy, WriteEnter, WriteScheduleAll, WriteRetry,
        WriteSignal, LoopTest, Resumes, Locks, At
  <2> QED
    BY <1>2, <2>1, <2>2, HeldEnds DEF Ends
<1>5. CASE SemWait(t) \/ SyncFirst(t) \/ SyncSchedule(t) \/ SyncSecond(t) \/ SyncWake(t)
  <2>1. \/ /\ pc[t] \in {"sync", "sync_sem"}
           /\ \E to \in {"sync_sem", "sched", "wait", "return"} : Goto(t, to, on[t])
        \/ /\ pc[t] \in {"sched", "wait"}
           /\ \E to \in {"wait", "return"} : Goto(t, to, on[t])
    BY <1>5
    DEF SemWait, SyncFirst, SyncSchedule, SyncSecond, SyncWake, Resumes, Locks, At
  <2> QED
    BY <1>2, <2>1 DEF Ends
<1>6. CASE EnablingStep(t) \/ EntryStep(t)
  <2>1. CASE EnablingStep(t) \/ EnableSchedule(t)
    <3>1. \E ready : LeaveEnable(t, ready)
      BY <2>1, Zenon
      DEF EnablingStep, EnableOne2One, EnableMany2One, EnableRegister, EnableReady,
          EnableDone, EnableSchedule
    <3>2. pc'[t] \in {"test", "check"}
      BY <1>2, <3>1 DEF LeaveEnable
    <3> QED
      BY <3>2 DEF Ends
  <2>2. CASE EnableSemWait(t) \/ EnableOther(t)
    BY <1>2, <2>2 DEF EnableSemWait, EnableOther, Locks, At, Ends
  <2> QED
    BY <1>6, <2>1, <2>2 DEF EntryStep
<1>7. CASE DisablingStep(t)
  BY <1>2, <1>7
  DEF DisablingStep, DisableOne2One, DisableMany2One, DisableBarrier2, DisableDone, Ends
<1>8. CASE SelectReturn(t)
  <2>1. PICK i \in UpTo(t) : alt[t].m_selector = alt[t].m_c[i + 1]
    BY <1>1, <1>8 DEF SelectReturn, AltShape
  <2>2. /\ i \in 0 .. alt[t].bound /\ alt[t].selected = i
        /\ alt[t].m_c \in Choices[t] /\ alt[t].bound < Len(alt[t].m_c)
        /\ alt[t].bound \in Nat
    BY <1>1, <1>8, <2>1 DEF SelectReturn, AltShape, UpTo, AltPlaces, AltType
  <2>3. Len(alt[t].m_c) \in Nat /\ i \in 0 .. Len(alt[t].m_c) - 1
    BY <2>2, ChoiceList
  <2> DEFINE g == alt[t].m_c[i + 1]
  <2>4. g \in Reads[t] \cup Syncs[t]
    BY <2>2, <2>3, ListedEnds
  <2>5. alt[t].selected < Len(alt[t].m_c) /\ alt[t].m_c[alt[t].selected + 1] = g
    BY <2>2, <2>3
  <2> HIDE DEF g
  <2>6. Goto(t, IF g \in Barriers THEN "sync_sem" ELSE "read", g)
    BY <1>8, <2>5 DEF SelectReturn
  <2> QED
    BY <1>2, <2>4, <2>6, HeldEnds DEF Ends
<1>9. CASE SelectTest(t) \/ SelectCheck(t) \/ SelectWake(t) \/ SelectCall(t)
  BY <1>2, <1>9
  DEF SelectTest, SelectCheck, SelectWake, StartDisabling, SelectCall, Ends
<1>10. CASE CallStep(t)
  BY <1>2, <1>10 DEF CallStep, ReadCall, WriteCall, SyncCall, Return, Call, Ends
<1> QED
  BY <1>3, <1>4, <1>5, <1>6, <1>7, <1>8, <1>9, <1>10
  DEF PlainStep, SchedulingStep, Select

LEMMA NextFits == Shape /\ Fits /\ [Next]_vars => Fits'
<1> SUFFICES ASSUME Shape, Fits, [Next]_vars PROVE Fits'
  OBVIOUS
<1>1. CASE UNCHANGED vars
  BY <1>1 DEF vars, Fits, Ends
<1>2. CASE Next
  <2>1. PICK t \in Threads :
          \/ PlainStep(t) \/ SchedulingStep(t) \/ EnablingStep(t) \/ DisablingStep(t)
          \/ EntryStep(t) \/ Select(t) \/ SelectCall(t) \/ CallStep(t)
    BY <1>2, StepCases
  <2>2. Ends(t)'
    BY <2>1, OwnEnds DEF Fits
  <2>3. \A u \in Threads \ {t} : Stays(u)
    BY <2>1, OthersStay
  <2> QED
    BY <2>2, <2>3 DEF Fits, Stays, Ends
<1> QED
  BY <1>1, <1>2

LEMMA InitFits == Init => Fits
BY DEF Init, Fits, Ends

-----------------------------------------------------------------------------
(* t goes on in the method of the same object. *)
Goes(t, from, to) == pc[t] = from /\ pc'[t] = to /\ on'[t] = on[t]

(* The fields of a one2one channel after an action. *)
Shows(c, empty, a, w) ==
  /\ obj'[c].m_bEmpty = empty
  /\ obj'[c].m_pAlt = a
  /\ obj'[c].cond = w

LEMMA GoesOn ==
  ASSUME ThreadTypes, NEW t \in Threads, NEW place, Goto(t, place, on[t])
  PROVE  Goes(t, pc[t], place)
BY DEF ThreadTypes, Goto, Goes

LEMMA One2OneFields ==
  ASSUME ObjTypes, NEW c \in One2Ones
  PROVE  /\ c \in Guards
         /\ obj[c] \in One2OneType
         /\ obj = [g \in Guards |-> obj[g]]
BY Classes DEF ObjTypes

LEMMA AfterReadFirst ==
  ASSUME ThreadTypes, ObjTypes, NEW t \in Threads, ReadFirst(t)
  PROVE  /\ on[t] \in One2Ones /\ Goes(t, "read", "read_wait")
         /\ obj[on[t]].m_bEmpty
         /\ Shows(on[t], FALSE, obj[on[t]].m_pAlt, obj[on[t]].cond \cup {t})
BY GoesOn, One2OneFields DEF ReadFirst, Locks, At, Shows, One2OneType

LEMMA AfterReadSecond ==
  ASSUME ThreadTypes, ObjTypes, NEW t \in Threads, ReadSecond(t)
  PROVE  /\ on[t] \in One2Ones /\ Goes(t, "read", "return")
         /\ ~obj[on[t]].m_bEmpty /\ Free(on[t])
         /\ \E rest \in Signalled(on[t]) :
              Shows(on[t], TRUE, obj[on[t]].m_pAlt, rest)
BY GoesOn, One2OneFields DEF ReadSecond, Locks, At, Shows, One2OneType

LEMMA AfterReadWake ==
  ASSUME ThreadTypes, ObjTypes, NEW t \in Threads, ReadWake(t)
  PROVE  /\ on[t] \in One2Ones /\ Goes(t, "read_wait", "return")
         /\ t \notin obj[on[t]].cond
         /\ \E rest \in Signalled(on[t]) :
              Shows(on[t], obj[on[t]].m_bEmpty, obj[on[t]].m_pAlt, rest)
BY GoesOn, One2OneFields DEF ReadWake, Resumes, Locks, At, Shows, One2OneType

LEMMA AfterWriteFirst ==
  ASSUME ThreadTypes, ObjTypes, NEW t \in Threads, WriteFirst(t)
  PROVE  LET o == obj[on[t]] IN
         /\ on[t] \in One2Ones /\ o.m_bEmpty
         /\ \/ /\ o.m_pAlt # "null" /\ Goes(t, "write", "sched")
               /\ Shows(on[t], FALSE, o.m_pAlt, o.cond)
            \/ /\ o.m_pAlt = "null" /\ Goes(t, "write", "wait")
               /\ Shows(on[t], FALSE, o.m_pAlt, o.cond \cup {t})
BY GoesOn, One2OneFields DEF WriteFirst, Locks, At, Shows, One2OneType

LEMMA AfterWriteSchedule ==
  ASSUME ThreadTypes, ObjTypes, NEW t \in Threads, WriteSchedule(t)
  PROVE  /\ on[t] \in One2Ones /\ Goes(t, "sched", "wait")
         /\ Shows(on[t], obj[on[t]].m_bEmpty, obj[on[t]].m_pAlt, obj[on[t]].cond \cup {t})
BY GoesOn, One2OneFields DEF WriteSchedule, Locks, At, Shows, One2OneType

LEMMA AfterWriteSecond ==
  ASSUME ThreadTypes, ObjTypes, NEW t \in Threads, WriteSecond(t)
  PROVE  /\ on[t] \in One2Ones /\ Goes(t, "write", "wait")
         /\ ~obj[on[t]].m_bEmpty
         /\ \E rest \in Signalled(on[t]) :
              Shows(on[t], TRUE, obj[on[t]].m_pAlt, rest \cup {t})
BY GoesOn, One2OneFields DEF WriteSecond, Locks, At, Shows, One2OneType

LEMMA AfterWriteWake ==
  ASSUME ThreadTypes, ObjTypes, NEW t \in Threads, WriteWake(t)
  PROVE  /\ on[t] \in One2Ones /\ Goes(t, "wait", "return")
         /\ t \notin obj[on[t]].cond
         /\ Shows(on[t], obj[on[t]].m_bEmpty, obj[on[t]].m_pAlt, obj[on[t]].cond)
BY GoesOn, One2OneFields DEF WriteWake, Resumes, Locks, At, Shows, One2OneType

LEMMA AfterEnableOne2One ==
  ASSUME ThreadTypes, ObjTypes, NEW t \in Threads, EnableOne2One(t)
  PROVE  LET o == obj[on[t]] IN
         /\ on[t] \in One2Ones /\ pc[t] = "enable" /\ Free(on[t])
         /\ EnableDone(t, ~o.m_bEmpty)
         /\ Shows(on[t], o.m_bEmpty, IF o.m_bEmpty THEN t ELSE o.m_pAlt, o.cond)
BY One2OneFields DEF EnableOne2One, Locks, At, Shows, One2OneType

LEMMA AfterDisableOne2One ==
  ASSUME ThreadTypes, ObjTypes, NEW t \in Threads, DisableOne2One(t)
  PROVE  /\ on[t] \in One2Ones /\ pc[t] = "disable" /\ DisableDone(t)
         /\ Shows(on[t], obj[on[t]].m_bEmpty, "null", obj[on[t]].cond)
BY One2OneFields DEF DisableOne2One, Locks, At, Shows, One2OneType

(* The fields of a many2one channel that tell who is there. *)
Counts(c, reader, writers, a) ==
  /\ obj'[c].m_bReader = reader
  /\ obj'[c].m_ulWriter = writers
  /\ obj'[c].m_pAlt = a

LEMMA Many2OneFields ==
  ASSUME ObjTypes, NEW c \in Many2Ones
  PROVE  /\ c \in Guards
         /\ obj[c] \in Many2OneType
         /\ obj = [g \in Guards |-> obj[g]]
BY Classes DEF ObjTypes

LEMMA AfterReader ==
  ASSUME ThreadTypes, ObjTypes, NEW t \in Threads,
         ReadEnter(t) \/ ReadWait(t) \/ ReadCopy(t)
  PROVE  LET o == obj[on[t]] IN
         /\ on[t] \in Many2Ones
         /\ \/ /\ ReadEnter(t) /\ Goes(t, "read", "read_mx")
               /\ Counts(on[t], TRUE, o.m_ulWriter, o.m_pAlt)
            \/ /\ ReadWait(t) /\ Goes(t, "read_mx", "read_wait")
               /\ Counts(on[t], o.m_bReader, o.m_ulWriter, o.m_pAlt)
            \/ /\ ReadCopy(t) /\ Goes(t, "read_wait", "return")
               /\ Counts(on[t], FALSE, o.m_ulWriter, o.m_pAlt)
<1>1. CASE ReadEnter(t)
  <2>1. on[t] \in Many2Ones /\ Goes(t, "read", "read_mx")
    BY <1>1, GoesOn DEF ReadEnter, Locks, At
  <2>2. PICK rest : obj' = [obj EXCEPT ![on[t]].m_bReader = TRUE, ![on[t]].cond = rest]
    BY <1>1, Zenon DEF ReadEnter
  <2> QED
    BY <1>1, <2>1, <2>2, Many2OneFields, Zenon DEF Counts, Many2OneType
<1>2. CASE ReadWait(t)
  BY <1>2, GoesOn, Many2OneFields DEF ReadWait, At, Counts, Many2OneType
<1>3. CASE ReadCopy(t)
  <2>1. on[t] \in Many2Ones /\ Goes(t, "read_wait", "return")
    BY <1>3, GoesOn DEF ReadCopy, Locks, At
  <2>2. obj' = [obj EXCEPT ![on[t]].m_pBuff = "null", ![on[t]].m_bReader = FALSE]
    BY <1>3 DEF ReadCopy
  <2> QED
    BY <1>3, <2>1, <2>2, Many2OneFields, Zenon DEF Counts, Many2OneType
<1> QED
  BY <1>1, <1>2, <1>3, Zenon

LEMMA AfterLoopTest ==
  ASSUME ThreadTypes, ObjTypes, NEW t \in Threads, on[t] \in Many2Ones,
         NEW m \in Many2OneType, LoopTest(t, m)
  PROVE  /\ \/ Goes(t, pc[t], "wait")
            \/ Goes(t, pc[t], "handoff") /\ m.m_bReader
         /\ Counts(on[t], m.m_bReader, m.m_ulWriter, m.m_pAlt)
BY GoesOn, Many2OneFields DEF LoopTest, MustWait, Counts, Many2OneType

LEMMA AfterWriter ==
  ASSUME ThreadTypes, ObjTypes, NEW t \in Threads,
         WriteEnter(t) \/ WriteScheduleAll(t) \/ WriteRetry(t) \/ WriteSignal(t)
  PROVE  LET o == obj[on[t]] IN
         /\ on[t] \in Many2Ones
         /\ \/ /\ WriteEnter(t)
               /\ \/ Goes(t, "write", "sched") /\ o.m_pAlt # "null"
                  \/ Goes(t, "write", "wait") /\ o.m_pAlt = "null"
                  \/ Goes(t, "write", "handoff") /\ o.m_pAlt = "null"
               /\ Counts(on[t], o.m_bReader, o.m_ulWriter + 1, o.m_pAlt)
            \/ /\ WriteScheduleAll(t) \/ WriteRetry(t)
               /\ WriteScheduleAll(t) => pc[t] = "sched" /\ CallSchedule(t)
               /\ WriteRetry(t) => pc[t] = "wait"
               /\ \/ Goes(t, pc[t], "wait")
                  \/ Goes(t, pc[t], "handoff") /\ o.m_bReader
               /\ Counts(on[t], o.m_bReader, o.m_ulWriter, o.m_pAlt)
            \/ /\ WriteSignal(t) /\ Goes(t, "handoff", "return")
               /\ Counts(on[t], o.m_bReader, o.m_ulWriter - 1, o.m_pAlt)
<1> DEFINE o == obj[on[t]]
           n == [o EXCEPT !.m_ulWriter = @ + 1]
<1>1. on[t] \in Many2Ones /\ o \in Many2OneType
  BY Many2OneFields
  DEF WriteEnter, WriteScheduleAll, WriteRetry, WriteSignal, Resumes, Locks, At
<1>2. CASE WriteEnter(t)
  <2>1. /\ n \in Many2OneType /\ n.m_bReader = o.m_bReader
        /\ n.m_ulWriter = o.m_ulWriter + 1 /\ n.m_pAlt = o.m_pAlt
    BY <1>1 DEF Many2OneType
  <2>2. CASE obj' = [obj EXCEPT ![on[t]] = n] /\ Goto(t, "sched", on[t]) /\ n.m_pAlt # "null"
    <3>1. Counts(on[t], n.m_bReader, n.m_ulWriter, n.m_pAlt)
      BY <1>1, <2>2, Many2OneFields DEF Counts
    <3> QED
      BY <1>1, <1>2, <2>1, <2>2, <3>1, GoesOn DEF WriteEnter, Locks, At
  <2>3. CASE n.m_pAlt = "null" /\ LoopTest(t, n)
    <3> HIDE DEF n
    <3> QED
      BY <1>1, <1>2, <2>1, <2>3, AfterLoopTest DEF WriteEnter, Locks, At
  <2> QED
    BY <1>2, <2>2, <2>3 DEF WriteEnter
<1>3. CASE WriteScheduleAll(t)
  <2>1. pc[t] = "sched" /\ CallSchedule(t) /\ LoopTest(t, o)
    BY <1>3 DEF WriteScheduleAll, At
  <2>2. ~WriteRetry(t)
    BY <2>1 DEF WriteRetry, Resumes, Locks, At
  <2> QED
    BY <1>1, <1>3, <2>1, <2>2, AfterLoopTest
<1>4. CASE WriteRetry(t)
  <2>1. pc[t] = "wait" /\ LoopTest(t, o)
    BY <1>4 DEF WriteRetry, Resumes, Locks, At
  <2>2. ~WriteScheduleAll(t)
    BY <2>1 DEF WriteScheduleAll, At
  <2> QED
    BY <1>1, <1>4, <2>1, <2>2, AfterLoopTest
<1>5. CASE WriteSignal(t)
  BY <1>1, <1>5, GoesOn, Many2OneFields DEF WriteSignal, At, Counts, Many2OneType
<1> QED
  BY <1>1, <1>2, <1>3, <1>4, <1>5

(* enable and disable of a many2one channel, in which nobody is lost. *)
LEMMA AfterAltMany2One ==
  ASSUME ThreadTypes, ObjTypes, NEW t \in Threads,
         EnableMany2One(t) \/ DisableMany2One(t)
  PROVE  LET o == obj[on[t]] IN
         /\ on[t] \in Many2Ones
         /\ \/ /\ EnableMany2One(t) /\ pc[t] = "enable" /\ EnableDone(t, FALSE)
               /\ Counts(on[t], o.m_bReader, o.m_ulWriter, t)
            \/ /\ DisableMany2One(t) /\ pc[t] = "disable" /\ DisableDone(t)
               /\ Counts(on[t], o.m_bReader, o.m_ulWriter, "null")
<1>1. CASE EnableMany2One(t)
  BY <1>1, Many2OneFields, Zenon DEF EnableMany2One, Locks, At, Counts, Many2OneType
<1>2. CASE DisableMany2One(t)
  BY <1>2, Many2OneFields DEF DisableMany2One, Locks, At, Counts, Many2OneType
<1> QED
  BY <1>1, <1>2, Zenon
-----------------------------------------------------------------------------
(* One step of t, by kind. *)
Acts(t) ==
  \/ PlainStep(t) \/ SchedulingStep(t) \/ EnablingStep(t) \/ DisablingStep(t)
  \/ EntryStep(t) \/ Select(t) \/ SelectCall(t) \/ CallStep(t)

(* Of select itself, and of a call or a return, no object knows. *)
LEMMA KeepsObjects ==
  ASSUME NEW t, \/ Select(t) \/ SelectCall(t) \/ CallStep(t)
                \/ EnableOther(t) \/ EnableSchedule(t)
  PROVE  UNCHANGED obj
BY DEF Select, SelectTest, SelectCheck, SelectWake, SelectReturn, SelectCall,
       CallStep, ReadCall, WriteCall, SyncCall, Call, Return, EnableOther,
       EnableSchedule

(* A step changes no object but the one whose method its thread is in. *)
LEMMA OneObject ==
  ASSUME Shape, NEW t \in Threads, Acts(t)
  PROVE  /\ obj' = [g \in Guards |-> obj'[g]]
         /\ \A g \in Guards \ {on[t]} : obj'[g] = obj[g]
<1>1. ThreadTypes /\ ObjTypes
  BY DEF Shape
<1>2. CASE \/ ReadFirst(t) \/ ReadSecond(t) \/ ReadWake(t)
           \/ WriteFirst(t) \/ WriteSchedule(t) \/ WriteSecond(t) \/ WriteWake(t)
           \/ DisableOne2One(t)
  <2>1. \E a : ChangedIn(on[t], One2OneType, a)
    BY <1>1, <1>2, PlainOne2One, DisableOne2OneClears
  <2> QED
    BY <2>1 DEF ChangedIn, Changed
<1>3. CASE \/ ReadEnter(t) \/ ReadWait(t) \/ ReadCopy(t) \/ WriteSignal(t)
           \/ WriteEnter(t) \/ WriteScheduleAll(t) \/ WriteRetry(t)
           \/ DisableMany2One(t)
  <2>1. \E a : ChangedIn(on[t], Many2OneType, a)
    BY <1>1, <1>3, PlainMany2One, LoopMany2One, DisableMany2OneClears
  <2> QED
    BY <2>1 DEF ChangedIn, Changed
<1>4. CASE \/ SemWait(t) \/ SyncFirst(t) \/ SyncSchedule(t) \/ SyncSecond(t)
           \/ SyncWake(t) \/ EnableSemWait(t) \/ EnableRegister(t) \/ EnableReady(t)
           \/ DisableBarrier2(t)
  <2>1. \E sem, parts, a, w : Becomes(on[t], sem, parts, a, w)
    BY <1>1, <1>4, BarrierEffects, Zenon
  <2> QED
    BY <2>1 DEF Becomes, Changed
<1>5. CASE EnableOne2One(t) \/ EnableMany2One(t)
  <2>1. \E T, a : ChangedIn(on[t], T, a)
    BY <1>1, <1>5, EnableChannelRegisters
  <2> QED
    BY <2>1 DEF ChangedIn, Changed
<1>6. CASE Select(t) \/ SelectCall(t) \/ CallStep(t) \/ EnableOther(t) \/ EnableSchedule(t)
  BY <1>1, <1>6, KeepsObjects DEF ObjTypes
<1> QED
  BY <1>2, <1>3, <1>4, <1>5, <1>6
  DEF Acts, PlainStep, SchedulingStep, EnablingStep, DisablingStep, EntryStep

LEMMA NextActs == Next => \E t \in Threads : Acts(t)
BY StepCases DEF Acts

LEMMA ActsStay ==
  ASSUME Shape, NEW t \in Threads, Acts(t)
  PROVE  \A u \in Threads \ {t} : Stays(u)
BY OthersStay DEF Acts

-----------------------------------------------------------------------------
(* A semaphore never goes below zero: no step takes a place that is not    *)
(* there. *)
Permits == \A b \in Barriers : obj[b].m_sem \in Nat

LEMMA NextSems ==
  ASSUME Shape, Permits, NEW t \in Threads, Acts(t)
  PROVE  Permits'
<1> SUFFICES ASSUME NEW b \in Barriers PROVE obj'[b].m_sem \in Nat
  BY DEF Permits
<1>1. ThreadTypes /\ ObjTypes /\ b \in Guards /\ obj[b].m_sem \in Nat
  BY Classes DEF Shape, Permits
<1>2. CASE obj'[b] = obj[b]
  BY <1>1, <1>2
<1>3. CASE b = on[t] /\ obj'[b] # obj[b]
  <2> DEFINE o == obj[b]
  <2>1. CASE SemWait(t) \/ EnableSemWait(t)
    <3>1. Becomes(b, o.m_sem - 1, o.m_parts, o.m_pAlt, o.cond) /\ o.m_sem > 0
      BY <1>1, <1>3, <2>1, BarrierEffects, Zenon DEF SemWait, EnableSemWait
    <3>2. obj'[b].m_sem = o.m_sem - 1
      BY <3>1 DEF Becomes, Changed
    <3> QED
      BY <1>1, <3>1, <3>2
  <2>2. CASE \/ SyncFirst(t) \/ SyncSchedule(t) \/ SyncSecond(t) \/ SyncWake(t)
             \/ EnableRegister(t) \/ EnableReady(t) \/ DisableBarrier2(t)
    <3>1. \E parts, a, w :
            Becomes(b, o.m_sem, parts, a, w) \/ Becomes(b, o.m_sem + 1, parts, a, w)
      BY <1>1, <1>3, <2>2, BarrierEffects, Zenon
    <3>2. obj'[b].m_sem \in {o.m_sem, o.m_sem + 1}
      BY <3>1 DEF Becomes, Changed
    <3> QED
      BY <1>1, <3>2
  <2>3. CASE ChannelStep(t) \/ EnableOne2One(t) \/ EnableMany2One(t)
             \/ DisableOne2One(t) \/ DisableMany2One(t)
    <3>1. b \notin Channels
      BY Classes DEF Channels
    <3>2. on[t] \in Channels
      BY <2>3, Zenon
      DEF ChannelStep, ReadFirst, ReadSecond, ReadWake, WriteFirst, WriteSchedule,
          WriteSecond, WriteWake, ReadEnter, ReadWait, ReadCopy, WriteEnter,
          WriteScheduleAll, WriteRetry, WriteSignal, EnableOne2One, EnableMany2One,
          DisableOne2One, DisableMany2One, Resumes, Locks, At, Channels
    <3> QED
      BY <1>3, <3>1, <3>2
  <2>4. CASE Select(t) \/ SelectCall(t) \/ CallStep(t) \/ EnableOther(t) \/ EnableSchedule(t)
    BY <1>3, <2>4, KeepsObjects
  <2> QED
    BY <2>1, <2>2, <2>3, <2>4
    DEF Acts, PlainStep, SchedulingStep, EnablingStep, DisablingStep, EntryStep,
        ChannelStep
<1> QED
  BY <1>1, <1>2, <1>3, OneObject
-----------------------------------------------------------------------------
(* a's list of guards has g in it ... *)
Lists(a, g) ==
  /\ alt[a].m_c \in Choices[a]
  /\ \E i \in 0 .. Len(alt[a].m_c) - 1 : alt[a].m_c[i + 1] = g

(* ... or has g before h. *)
Before(a, g, h) ==
  \E i, j \in DOMAIN alt[a].m_c : i < j /\ alt[a].m_c[i] = g /\ alt[a].m_c[j] = h

(* Only the owner of its read end has a channel in its list. *)
LEMMA OneChooser ==
  ASSUME NEW a \in Threads, NEW b \in Threads, NEW c \in Channels,
         Lists(a, c), Lists(b, c)
  PROVE  a = b
<1>1. c \in Reads[a]
  BY ListedEnds, HeldEnds DEF Lists
<1>2. c \in Reads[b]
  BY ListedEnds, HeldEnds DEF Lists
<1> QED
  BY <1>1, <1>2, HeldEnds

(* An alternative in enable or disable of a guard. *)
LEMMA InGuard ==
  ASSUME Shape, NEW a \in Threads, ~AltFree(a) \/ pc[a] = "disable"
  PROVE  on[a] \in Guards /\ Lists(a, on[a])
<1> DEFINE r == alt[a]
<1>1. /\ r.m_c \in Choices[a] /\ r.bound \in Nat /\ r.bound < Len(r.m_c)
      /\ r.pos \in Nat /\ (pc[a] = "disable" => r.pos <= r.bound)
      /\ on[a] = r.m_c[r.bound + 1] \/ (pc[a] = "disable" /\ on[a] = r.m_c[r.pos + 1])
  BY DEF Shape, AltShape, AltPlaces, AltType, AltFree
<1>2. Len(r.m_c) \in Nat /\ \A i \in 0 .. Len(r.m_c) - 1 : r.m_c[i + 1] \in Guards
  BY <1>1, ChoiceList
<1>3. PICK i \in {r.bound, r.pos} :
        on[a] = r.m_c[i + 1] /\ (i = r.bound \/ r.pos <= r.bound)
  BY <1>1
<1>4. i \in 0 .. Len(r.m_c) - 1
  BY <1>1, <1>2, <1>3
<1> QED
  BY <1>1, <1>2, <1>3, <1>4, Zenon DEF Lists

(* A registered alternative that is in some guard's enable has gone past   *)
(* the guard where it is registered.                                       *)
LEMMA Passed ==
  ASSUME Shape, NEW o \in Threads, NEW g \in Guards, obj[g].m_pAlt = o, ~AltFree(o)
  PROVE  /\ on[o] # g /\ Lists(o, g) /\ Before(o, g, on[o])
         /\ \E i \in Enabled(o) : alt[o].m_c[i + 1] = g
<1> DEFINE r == alt[o]
<1>1. /\ r.m_c \in Choices[o] /\ r.bound \in Nat /\ r.bound < Len(r.m_c)
      /\ on[o] = r.m_c[r.bound + 1]
  BY DEF Shape, AltShape, AltPlaces, AltType, AltFree
<1>2. PICK i \in 0 .. r.bound - 1 : r.m_c[i + 1] = g
  BY DEF Shape, Registered, Undone, UpTo, AltFree
<1>3. /\ r.m_c \in Seq(Guards) /\ Len(r.m_c) \in Nat
      /\ \A j, k \in 0 .. Len(r.m_c) - 1 : r.m_c[j + 1] = r.m_c[k + 1] => j = k
  BY <1>1, ChoiceList, Zenon
<1>4. DOMAIN r.m_c = 1 .. Len(r.m_c)
  BY <1>3
<1>5. i \in 0 .. Len(r.m_c) - 1 /\ r.bound \in 0 .. Len(r.m_c) - 1 /\ i # r.bound
  BY <1>1, <1>2, <1>3
<1>6. on[o] # g /\ Lists(o, g)
  BY <1>1, <1>2, <1>3, <1>5, Zenon DEF Lists
<1>7. Before(o, g, on[o])
  <2> DEFINE j == i + 1
             k == r.bound + 1
  <2>1. j \in DOMAIN r.m_c /\ k \in DOMAIN r.m_c /\ j < k
    <3>1. i \in Nat /\ i < r.bound
      BY <1>1, <1>2
    <3>2. i + 1 \in 1 .. Len(r.m_c) /\ r.bound + 1 \in 1 .. Len(r.m_c)
      BY <1>3, <1>5
    <3> QED
      BY <1>1, <1>4, <3>1, <3>2
  <2>2. r.m_c[j] = g /\ r.m_c[k] = on[o]
    BY <1>1, <1>2
  <2> HIDE DEF j, k
  <2> QED
    BY <2>1, <2>2 DEF Before
<1>8. i \in Enabled(o)
  BY <1>1, <1>2 DEF Enabled, AltFree
<1> QED
  BY <1>2, <1>6, <1>7, <1>8
-----------------------------------------------------------------------------
(* No three threads hold places of one barrier. *)
LEMMA NoThirdHolder ==
  ASSUME BarrierShape, Permits, ObjTypes, NEW b \in Barriers,
         NEW t \in Threads, NEW u \in Threads \ {t}, NEW v \in Threads \ {t, u},
         Holds(t, b), Holds(u, b), Holds(v, b)
  PROVE  FALSE
<1> DEFINE S == {x \in Threads : Holds(x, b)}
<1>1. IsFiniteSet(S)
  BY AlternativeAssumption, FS_Subset
<1>2. IsFiniteSet({t, u, v}) /\ Cardinality({t, u, v}) = 3
  <2>1. IsFiniteSet({t}) /\ Cardinality({t}) = 1
    BY FS_Singleton, Zenon
  <2>2. {t} \cup {u} = {t, u} /\ {t, u} \cup {v} = {t, u, v}
    OBVIOUS
  <2>3. IsFiniteSet({t, u}) /\ Cardinality({t, u}) = 2
    <3>1. u \notin {t}
      OBVIOUS
    <3>2. IsFiniteSet({t} \cup {u}) /\ Cardinality({t} \cup {u}) = Cardinality({t}) + 1
      BY <2>1, <3>1, FS_AddElement, Zenon
    <3> QED
      BY <2>1, <2>2, <3>2
  <2>4. v \notin {t, u}
    OBVIOUS
  <2>5. /\ IsFiniteSet({t, u} \cup {v})
        /\ Cardinality({t, u} \cup {v}) = Cardinality({t, u}) + 1
    BY <2>3, <2>4, FS_AddElement, Zenon
  <2> QED
    BY <2>2, <2>3, <2>5
<1>3. {t, u, v} \subseteq S
  OBVIOUS
<1>4. 3 <= Cardinality(S) /\ Cardinality(S) \in Nat
  BY <1>1, <1>2, <1>3, FS_Subset, FS_CardinalityType
<1>5. obj[b].m_sem \in Nat /\ obj[b].m_sem + Cardinality(S) = 2
  BY DEF Permits, BarrierShape, Account
<1> QED
  BY <1>4, <1>5

LEMMA TwoElements ==
  ASSUME NEW S, IsFiniteSet(S), Cardinality(S) = 2
  PROVE  \E x, y \in S : x # y
<1> SUFFICES ASSUME \A x, y \in S : x = y PROVE FALSE
  OBVIOUS
<1>1. CASE S = {}
  BY <1>1, FS_EmptySet
<1>2. CASE S # {}
  <2>1. PICK x \in S : TRUE
    BY <1>2
  <2>2. S = {x}
    BY <2>1
  <2> QED
    BY <2>2, FS_Singleton
<1> QED
  BY <1>1, <1>2
-----------------------------------------------------------------------------
(* Somebody of S has g's mutex and waits for an alternative's. *)
Occupied(S, g) == \E u \in S : on[u] = g /\ pc[u] \in {"sched", "resched"}

(* An alternative of S has gone past g and waits at a barrier. *)
Onward(S, g) ==
  \E a \in S : ~AltFree(a) /\ on[a] \in Barriers /\ Before(a, g, on[a])

LEMMA MutexTaken ==
  ASSUME Shape, Fits, NEW S \in SUBSET Threads, Stuck(S), NEW t \in S, AsksForMutex(t)
  PROVE  on[t] \in Guards /\ Occupied(S, on[t])
<1>1. on[t] \in Guards
  <2>1. CASE pc[t] = "disable" \/ pc[t] = "enable"
    BY <2>1, InGuard DEF AltFree
  <2>2. CASE pc[t] \in {"read", "write", "sync_sem", "entered", "wait", "read_wait"}
    BY <2>2, HeldEnds, Classes DEF Fits, Ends
  <2> QED
    BY <2>1, <2>2 DEF AsksForMutex
<1>2. WaitsFor(t) \subseteq S /\ "null" \notin S
  BY Classes DEF Stuck
<1>3. pc[t] \notin {"sched", "resched"}
  BY DEF AsksForMutex
<1>4. ~Free(on[t])
  <2> SUFFICES ASSUME Free(on[t]) PROVE FALSE
    OBVIOUS
  <2>1. ~(on[t] \in Barriers /\ pc[t] \in {"sync", "enable"})
    BY HeldEnds DEF AsksForMutex
  <2>2. ~(pc[t] = "wait" /\ t \in obj[on[t]].cond)
    BY DEF AsksForMutex
  <2>3. WaitsFor(t) = {"null"}
    BY <1>3, <2>1, <2>2 DEF WaitsFor
  <2> QED
    BY <1>2, <2>3
<1>5. {u \in Threads : on[u] = on[t] /\ pc[u] \in {"sched", "resched", "handoff"}}
        \subseteq S
  <2>1. WaitsFor(t) =
          {u \in Threads : on[u] = on[t] /\ pc[u] \in {"sched", "resched", "handoff"}}
    <3>1. ~(on[t] \in Barriers /\ pc[t] \in {"sync", "enable"})
      BY HeldEnds DEF AsksForMutex
    <3>2. ~(pc[t] = "wait" /\ t \in obj[on[t]].cond)
      BY DEF AsksForMutex
    <3> QED
      BY <1>3, <1>4, <3>1, <3>2 DEF WaitsFor
  <2> QED
    BY <1>2, <2>1
<1>6. PICK u \in S : on[u] = on[t] /\ pc[u] \in {"sched", "resched", "handoff"}
  BY <1>4, <1>5 DEF Free
<1>7. pc[u] # "handoff"
  <2> SUFFICES ASSUME pc[u] = "handoff" PROVE FALSE
    OBVIOUS
  <2>1. WaitsFor(u) = {"null"}
    BY DEF WaitsFor, AsksForMutex
  <2> QED
    BY <1>2, <2>1, Classes DEF Stuck
<1> QED
  BY <1>1, <1>6, <1>7 DEF Occupied

LEMMA RegisteredWaits ==
  ASSUME Shape, NEW S \in SUBSET Threads, Stuck(S), NEW g, Occupied(S, g)
  PROVE  obj[g].m_pAlt \in S /\ ~AltFree(obj[g].m_pAlt)
<1>1. PICK u \in S : on[u] = g /\ pc[u] \in {"sched", "resched"}
  BY DEF Occupied
<1>2. WaitsFor(u) \subseteq S /\ "null" \notin S
  BY Classes DEF Stuck
<1>3. CASE AltFree(obj[g].m_pAlt)
  <2>1. WaitsFor(u) = {"null"}
    BY <1>1, <1>3 DEF WaitsFor, AsksForMutex
  <2> QED
    BY <1>2, <2>1
<1>4. CASE ~AltFree(obj[g].m_pAlt)
  <2>1. WaitsFor(u) = {obj[g].m_pAlt}
    BY <1>1, <1>4 DEF WaitsFor, AsksForMutex
  <2> QED
    BY <1>2, <1>4, <2>1
<1> QED
  BY <1>3, <1>4

(* Nobody gets stuck in enable of a channel ... *)
LEMMA StuckAtBarrier ==
  ASSUME Shape, Fits, NEW S \in SUBSET Threads, Stuck(S), NEW a \in S, ~AltFree(a)
  PROVE  on[a] \in Barriers
<1> SUFFICES ASSUME on[a] \notin Barriers PROVE FALSE
  OBVIOUS
<1>1. on[a] \in Guards /\ Lists(a, on[a]) /\ on[a] \in Channels /\ pc[a] = "enable"
  BY InGuard DEF Fits, Ends, AltFree, Guards
<1>2. Occupied(S, on[a])
  BY <1>1, MutexTaken DEF AsksForMutex
<1> DEFINE o == obj[on[a]].m_pAlt
<1>3. o \in S /\ ~AltFree(o)
  BY <1>2, RegisteredWaits
<1>4. on[o] # on[a] /\ Lists(o, on[a])
  BY <1>1, <1>3, Passed
<1> QED
  BY <1>1, <1>3, <1>4, OneChooser

LEMMA OccupiedOnward ==
  ASSUME Shape, Fits, NEW S \in SUBSET Threads, Stuck(S), NEW g \in Guards, Occupied(S, g)
  PROVE  Onward(S, g)
BY RegisteredWaits, StuckAtBarrier, Passed DEF Onward

(* ... nor in disable. *)
LEMMA DisableNotStuck ==
  ASSUME Shape, BarrierShape, Permits, Fits,
         NEW S \in SUBSET Threads, Stuck(S), NEW t \in S
  PROVE  pc[t] # "disable"
<1> SUFFICES ASSUME pc[t] = "disable" PROVE FALSE
  OBVIOUS
<1> DEFINE k == on[t]
           o == obj[k].m_pAlt
<1>1. k \in Guards /\ Lists(t, k) /\ Occupied(S, k)
  BY InGuard, MutexTaken DEF AsksForMutex
<1>2. o \in S /\ ~AltFree(o) /\ on[o] # k /\ Lists(o, k)
  BY <1>1, RegisteredWaits, Passed
<1>3. o # t
  BY <1>2 DEF AltFree
<1>4. k \in Barriers
  BY <1>1, <1>2, <1>3, OneChooser DEF Guards
<1>5. PICK u \in S : on[u] = k /\ pc[u] \in {"sched", "resched"}
  BY <1>1 DEF Occupied
<1>6. u # t /\ u # o
  BY <1>2, <1>5
<1>7. Holds(t, k)
  <2>1. /\ alt[t].pos \in Nat /\ alt[t].bound \in Nat /\ alt[t].pos <= alt[t].bound
        /\ k = alt[t].m_c[alt[t].pos + 1]
    BY DEF Shape, AltShape, AltType
  <2>2. alt[t].pos \in Enabled(t)
    BY <2>1 DEF Enabled
  <2> QED
    BY <2>1, <2>2 DEF Holds
<1>8. Holds(o, k)
  BY <1>1, <1>2, Passed DEF Holds
<1>9. Holds(u, k)
  <2>1. CASE pc[u] = "sched"
    BY <1>5, <2>1 DEF Holds
  <2>2. CASE pc[u] = "resched"
    <3>1. alt[u].bound \in Nat /\ k = alt[u].m_c[alt[u].bound + 1]
      BY <1>5, <2>2 DEF Shape, AltShape, AltType
    <3>2. alt[u].bound \in Enabled(u)
      BY <2>2, <3>1 DEF Enabled
    <3> QED
      BY <3>1, <3>2 DEF Holds
  <2> QED
    BY <1>5, <2>1, <2>2
<1>10. /\ t \in Threads /\ o \in Threads \ {t} /\ u \in Threads \ {t, o}
       /\ ObjTypes
  BY <1>2, <1>3, <1>6 DEF Shape
<1> HIDE DEF o
<1> QED
  BY <1>4, <1>7, <1>8, <1>9, <1>10, NoThirdHolder

(* Whoever waits for a place waits for an alternative further on. *)
LEMMA HoldersOnward ==
  ASSUME Shape, BarrierShape, Permits, Fits,
         NEW S \in SUBSET Threads, Stuck(S), NEW b \in Barriers,
         obj[b].m_sem = 0, Holders(b) \subseteq S
  PROVE  Onward(S, b)
<1>1. b \in Guards
  BY Classes
<1>2. Holders(b) = {t \in Threads : Holds(t, b)}
  BY DEF Holders, Inside, Holds
<1>3. ASSUME NEW h \in Holders(b), ~Onward(S, b)
      PROVE  Counted(h, b)
  <2>1. h \in S /\ h \in Threads
    BY <1>2
  <2>2. ~Occupied(S, b)
    BY <1>1, <1>3, OccupiedOnward
  <2>3. CASE on[h] = b /\ pc[h] \in {"sync_sem", "sched", "wait"}
    <3>1. ~AsksForMutex(h)
      BY <2>1, <2>2, <2>3, MutexTaken
    <3> QED
      BY <2>1, <2>2, <2>3, <3>1 DEF AsksForMutex, Occupied, Counted
  <2>4. CASE \E i \in Enabled(h) : alt[h].m_c[i + 1] = b
    <3>1. PICK i \in Enabled(h) : alt[h].m_c[i + 1] = b
      BY <2>4
    <3>2. WaitsFor(h) \subseteq S /\ "null" \notin S
      BY <2>1, Classes DEF Stuck
    <3>3. pc[h] \notin {"test", "check", "asleep", "selected"}
      <4> SUFFICES ASSUME pc[h] \in {"test", "check", "asleep", "selected"} PROVE FALSE
        OBVIOUS
      <4>1. WaitsFor(h) = {"null"}
        BY DEF WaitsFor, AsksForMutex
      <4> QED
        BY <3>2, <4>1
    <3>4. ~AltFree(h)
      BY <2>1, <3>1, <3>3, DisableNotStuck DEF Enabled, AltFree
    <3>5. /\ alt[h].m_c \in Choices[h] /\ alt[h].bound \in Nat
          /\ alt[h].bound < Len(alt[h].m_c) /\ on[h] = alt[h].m_c[alt[h].bound + 1]
      BY <2>1, <3>4 DEF Shape, AltShape, AltPlaces, AltType, AltFree
    <3>6. on[h] \in Barriers
      BY <2>1, <3>4, StuckAtBarrier
    <3>7. CASE i = alt[h].bound
      <4>1. pc[h] \in {"entered", "resched"} /\ on[h] = b
        BY <3>1, <3>4, <3>5, <3>7 DEF Enabled, AltFree
      <4> QED
        BY <2>1, <2>2, <4>1, MutexTaken DEF AsksForMutex, Occupied
    <3>8. CASE i # alt[h].bound
      <4>1. i \in 0 .. alt[h].bound - 1
        BY <3>1, <3>4, <3>5, <3>8 DEF Enabled, AltFree
      <4>2. alt[h].m_c \in Seq(Guards) /\ Len(alt[h].m_c) \in Nat
        BY <2>1, <3>5, ChoiceList
      <4>3. /\ i + 1 \in DOMAIN alt[h].m_c /\ alt[h].bound + 1 \in DOMAIN alt[h].m_c
            /\ i + 1 < alt[h].bound + 1
        BY <3>5, <4>1, <4>2
      <4>4. Before(h, b, on[h])
        BY <3>1, <3>5, <4>3 DEF Before
      <4> QED
        BY <1>3, <2>1, <3>4, <3>6, <4>4 DEF Onward
    <3> QED
      BY <3>7, <3>8
  <2> QED
    BY <1>2, <2>3, <2>4 DEF Holds
<1>4. IsFiniteSet(Holders(b)) /\ Cardinality(Holders(b)) = 2
  <2>1. IsFiniteSet(Holders(b)) /\ Cardinality(Holders(b)) \in Nat
    BY <1>2, AlternativeAssumption, FS_Subset, FS_CardinalityType
  <2> QED
    BY <1>2, <2>1 DEF BarrierShape, Account
<1>5. PICK x \in Holders(b), y \in Holders(b) : x # y
  BY <1>4, TwoElements
<1>6. ~(Counted(x, b) /\ Counted(y, b))
  <2> DEFINE C == {t \in Threads : Counted(t, b)}
  <2> SUFFICES ASSUME x \in C, y \in C PROVE FALSE
    BY <1>2
  <2>1. IsFiniteSet(C) /\ Cardinality(C) \in {0, 1}
    <3>1. IsFiniteSet(C)
      BY AlternativeAssumption, FS_Subset
    <3> QED
      BY <3>1, Zenon DEF BarrierShape, Parties
  <2>2. IsFiniteSet({x}) /\ Cardinality({x}) = 1 /\ {x} \cup {y} = {x, y}
    BY FS_Singleton, Zenon
  <2>3. IsFiniteSet({x, y}) /\ Cardinality({x, y}) = 2
    <3>1. y \notin {x}
      BY <1>5
    <3>2. IsFiniteSet({x} \cup {y}) /\ Cardinality({x} \cup {y}) = Cardinality({x}) + 1
      BY <2>2, <3>1, FS_AddElement, Zenon
    <3> QED
      BY <2>2, <3>2
  <2>4. {x, y} \subseteq C
    OBVIOUS
  <2>5. 2 <= Cardinality(C)
    BY <2>1, <2>3, <2>4, FS_Subset
  <2> QED
    BY <2>1, <2>5
<1> QED
  BY <1>3, <1>5, <1>6

(* So does everybody who is stuck. *)
LEMMA AllOnward ==
  ASSUME Shape, BarrierShape, Permits, Fits,
         NEW S \in SUBSET Threads, Stuck(S), NEW t \in S
  PROVE  Onward(S, on[t])
<1> DEFINE g == on[t]
<1>1. WaitsFor(t) \subseteq S /\ "null" \notin S
  BY Classes DEF Stuck
<1>2. CASE pc[t] \in {"sched", "resched"}
  <2>1. g \in Guards
    BY <1>2, HeldEnds, Classes DEF Fits, Ends
  <2> QED
    BY <1>2, <2>1, OccupiedOnward DEF Occupied
<1>3. CASE AsksForMutex(t)
  BY <1>3, MutexTaken, OccupiedOnward
<1>4. CASE g \in Barriers /\ pc[t] \in {"sync", "enable"} /\ ~AsksForMutex(t)
  <2>1. obj[g].m_sem = 0
    <3> SUFFICES ASSUME obj[g].m_sem # 0 PROVE FALSE
      OBVIOUS
    <3>1. WaitsFor(t) = {"null"}
      BY <1>4 DEF WaitsFor
    <3> QED
      BY <1>1, <3>1
  <2>2. WaitsFor(t) = Holders(g)
    BY <1>4, <2>1 DEF WaitsFor
  <2> QED
    BY <1>1, <1>4, <2>1, <2>2, HoldersOnward
<1>5. CASE g \in Barriers /\ pc[t] = "wait" /\ ~AsksForMutex(t)
  <2>1. t \in obj[g].cond
    BY <1>5 DEF AsksForMutex
  <2>2. obj[g].m_sem = 0
    <3> SUFFICES ASSUME obj[g].m_sem # 0 PROVE FALSE
      OBVIOUS
    <3>1. WaitsFor(t) = {"null"}
      BY <1>5 DEF WaitsFor
    <3> QED
      BY <1>1, <3>1
  <2>3. WaitsFor(t) = Holders(g) \ {t}
    BY <1>5, <2>1, <2>2 DEF WaitsFor
  <2> QED
    BY <1>1, <1>5, <2>2, <2>3, HoldersOnward
<1>6. CASE /\ pc[t] \notin {"sched", "resched"} /\ ~AsksForMutex(t)
           /\ ~(g \in Barriers /\ pc[t] \in {"sync", "enable", "wait"})
  <2>1. WaitsFor(t) = {"null"}
    BY <1>6 DEF WaitsFor
  <2> QED
    BY <1>1, <2>1
<1> QED
  BY <1>2, <1>3, <1>4, <1>5, <1>6

LEMMA StuckCross ==
  ASSUME Shape, BarrierShape, Permits, Fits, NEW S \in SUBSET Threads, Stuck(S)
  PROVE  Crossed(S)
<1> DEFINE A == {a \in S : ~AltFree(a)}
           B == {on[a] : a \in A}
<1>1. \A t \in S : \E a \in A : on[a] \in Barriers /\ Before(a, on[t], on[a])
  BY AllOnward DEF Onward
<1>2. S # {}
  BY DEF Stuck
<1>3. B # {}
  BY <1>1, <1>2
<1>4. B \in SUBSET Barriers
  BY StuckAtBarrier
<1>5. \A g \in B : \E h \in B, a \in S : Before(a, g, h)
  BY <1>1
<1>6. B \in (SUBSET Barriers) \ {{}}
  BY <1>3, <1>4
<1>7. \A g \in B : \E h \in B, a \in S : \E i, j \in DOMAIN alt[a].m_c :
         i < j /\ alt[a].m_c[i] = g /\ alt[a].m_c[j] = h
  BY <1>5, Zenon DEF Before
<1> HIDE DEF B
<1> QED
  BY <1>6, <1>7, Zenon DEF Crossed
-----------------------------------------------------------------------------
(* The reader of a one2one channel has arrived, or has yet to be woken;    *)
(* the writer has arrived and has not been signalled.                      *)
Reading(t, c) == on[t] = c /\ pc[t] = "read_wait"

Writing(t, c) == on[t] = c /\ (pc[t] = "sched" \/ (pc[t] = "wait" /\ t \in obj[c].cond))

(* m_bEmpty is FALSE while one of the two has arrived, and is TRUE again   *)
(* while the two meet, the reader waking the writer.                       *)
Handshake(c) ==
  /\ \A t \in obj[c].cond : on[t] = c /\ pc[t] \in {"read_wait", "wait"}
  /\ ~obj[c].m_bEmpty =>
       \/ /\ \E t \in Threads : Reading(t, c) /\ t \in obj[c].cond
          /\ \A t \in Threads : ~Writing(t, c)
       \/ /\ \E t \in Threads : Writing(t, c)
          /\ \A t \in Threads : ~Reading(t, c)
  /\ obj[c].m_bEmpty =>
       /\ \A t \in Threads : Reading(t, c) => t \notin obj[c].cond
       /\ \A t \in Threads : on[t] = c => pc[t] # "sched"
       /\ (\E t \in Threads : Writing(t, c)) <=> (\E t \in Threads : Reading(t, c))

Handshakes == \A c \in One2Ones : Handshake(c)

(* There is one reader and one writer. *)
LEMMA OneOfEach ==
  ASSUME Fits, NEW c \in One2Ones, NEW t \in Threads, NEW u \in Threads,
         on[t] = c, on[u] = c
  PROVE  /\ {pc[t], pc[u]} \subseteq {"read", "read_wait"} => t = u
         /\ {pc[t], pc[u]} \subseteq {"write", "sched", "wait"} => t = u
<1>1. c \notin Syncs[t] /\ c \notin Syncs[u]
  BY HeldEnds, Classes
<1> QED
  BY <1>1, HeldEnds DEF Fits, Ends

LEMMA HandshakeKept ==
  ASSUME ObjTypes, NEW c \in One2Ones, Handshake(c), NEW t \in Threads,
         \A u \in Threads \ {t} : Stays(u),
         obj'[c].m_bEmpty = obj[c].m_bEmpty, obj'[c].cond = obj[c].cond,
         on[t] = c => pc[t] \notin {"read_wait", "sched"} /\ t \notin obj[c].cond,
         on'[t] = c => pc'[t] \notin {"read_wait", "sched"}
  PROVE  Handshake(c)'
<1>1. t \notin obj[c].cond /\ obj[c].cond \subseteq Threads
  BY DEF Handshake, ObjTypes, One2OneType
<1>2. \A u \in Threads : /\ Reading(u, c)' <=> Reading(u, c)
                         /\ Writing(u, c)' <=> Writing(u, c)
                         /\ on'[u] = c /\ pc'[u] = "sched" <=> on[u] = c /\ pc[u] = "sched"
  BY <1>1 DEF Reading, Writing, Stays
<1>3. \A u \in obj'[c].cond : on'[u] = c /\ pc'[u] \in {"read_wait", "wait"}
  BY <1>1 DEF Handshake, Stays
<1> QED
  BY <1>2, <1>3 DEF Handshake

(* The reader's actions ... *)
LEMMA ReaderHandshake ==
  ASSUME Shape, Fits, Handshakes, NEW t \in Threads,
         ReadFirst(t) \/ ReadSecond(t) \/ ReadWake(t),
         NEW c \in One2Ones, c = on[t], \A u \in Threads \ {t} : Stays(u)
  PROVE  Handshake(c)'
<1> DEFINE o == obj[c]
<1>1. ThreadTypes /\ ObjTypes /\ Handshake(c) /\ o.cond \subseteq Threads
  BY DEF Shape, Handshakes, ObjTypes, One2OneType
<1>2. CASE ReadFirst(t)
  <2>1. /\ Goes(t, "read", "read_wait") /\ o.m_bEmpty
        /\ Shows(c, FALSE, o.m_pAlt, o.cond \cup {t})
    BY <1>1, <1>2, AfterReadFirst, Zenon
  <2>2. \A u \in Threads : ~Reading(u, c)
    BY <2>1, OneOfEach DEF Reading, Goes
  <2>3. o.cond = {}
    BY <1>1, <2>1, <2>2 DEF Handshake, Reading, Writing
  <2>4. Reading(t, c)' /\ t \in obj'[c].cond /\ obj'[c].cond = {t}
    BY <2>1, <2>3 DEF Reading, Goes, Shows
  <2>5. \A u \in Threads : ~Writing(u, c)'
    BY <1>1, <2>1, <2>2, <2>4 DEF Writing, Handshake, Goes, Stays
  <2> QED
    BY <2>1, <2>4, <2>5 DEF Handshake, Shows, Goes
<1>3. CASE ReadSecond(t)
  <2>1. Goes(t, "read", "return") /\ ~o.m_bEmpty /\ Free(c)
    BY <1>1, <1>3, AfterReadSecond, Zenon
  <2>2. PICK rest \in Signalled(c) : Shows(c, TRUE, o.m_pAlt, rest)
    BY <1>1, <1>3, AfterReadSecond, Zenon
  <2>3. \A u \in Threads : ~Reading(u, c)
    BY <2>1, OneOfEach DEF Reading, Goes
  <2>4. PICK w \in Threads : Writing(w, c)
    BY <1>1, <2>1, <2>3 DEF Handshake
  <2>5. w \in o.cond /\ pc[w] = "wait" /\ on[w] = c
    BY <2>1, <2>4 DEF Writing, Free
  <2>6. o.cond = {w}
    BY <1>1, <2>3, <2>5, OneOfEach DEF Handshake, Reading
  <2>7. rest = {}
    BY <2>2, <2>6 DEF Signalled
  <2>8. \A u \in Threads : on'[u] = c => pc'[u] # "sched" /\ pc'[u] # "read_wait"
    BY <2>1, <2>3 DEF Free, Reading, Goes, Stays
  <2> QED
    BY <2>2, <2>7, <2>8 DEF Handshake, Shows, Reading, Writing
<1>4. CASE ReadWake(t)
  <2>1. Goes(t, "read_wait", "return") /\ t \notin o.cond
    BY <1>1, <1>4, AfterReadWake
  <2>2. PICK rest \in Signalled(c) : Shows(c, o.m_bEmpty, o.m_pAlt, rest)
    BY <1>1, <1>4, AfterReadWake
  <2>3. \A u \in Threads : Reading(u, c) <=> u = t
    BY <2>1, OneOfEach DEF Reading, Goes
  <2>4. o.m_bEmpty
    BY <1>1, <2>1, <2>3 DEF Handshake
  <2>5. PICK w \in Threads : Writing(w, c)
    BY <1>1, <2>3, <2>4 DEF Handshake
  <2>6. w \in o.cond /\ pc[w] = "wait" /\ on[w] = c
    BY <1>1, <2>4, <2>5 DEF Writing, Handshake
  <2>7. o.cond = {w}
    BY <1>1, <2>1, <2>3, <2>6, OneOfEach DEF Handshake, Reading
  <2>8. rest = {}
    BY <2>2, <2>7 DEF Signalled
  <2>9. \A u \in Threads : on'[u] = c => pc'[u] # "sched" /\ pc'[u] # "read_wait"
    BY <1>1, <2>1, <2>3, <2>4 DEF Handshake, Reading, Goes, Stays
  <2> QED
    BY <2>2, <2>4, <2>8, <2>9 DEF Handshake, Shows, Reading, Writing
<1> QED
  BY <1>2, <1>3, <1>4

(* ... and the writer's. *)
LEMMA WriterHandshake ==
  ASSUME Shape, Fits, Handshakes, NEW t \in Threads,
         WriteFirst(t) \/ WriteSchedule(t) \/ WriteSecond(t) \/ WriteWake(t),
         NEW c \in One2Ones, c = on[t], \A u \in Threads \ {t} : Stays(u)
  PROVE  Handshake(c)'
<1> DEFINE o == obj[c]
<1>1. ThreadTypes /\ ObjTypes /\ Handshake(c) /\ o.cond \subseteq Threads
  BY Zenon DEF Shape, Handshakes, ObjTypes, One2OneType
<1>2. CASE WriteFirst(t)
  <2>1. /\ o.m_bEmpty /\ pc[t] = "write"
        /\ \/ Goes(t, "write", "sched") /\ Shows(c, FALSE, o.m_pAlt, o.cond)
           \/ Goes(t, "write", "wait") /\ Shows(c, FALSE, o.m_pAlt, o.cond \cup {t})
    BY <1>1, <1>2, AfterWriteFirst, Zenon DEF Goes
  <2>2. \A u \in Threads : ~Writing(u, c)
    BY <2>1, OneOfEach DEF Writing
  <2>3. \A u \in Threads : ~Reading(u, c)
    BY <1>1, <2>1, <2>2 DEF Handshake
  <2>4. o.cond = {}
    BY <1>1, <2>2, <2>3 DEF Handshake, Reading, Writing
  <2>5. /\ Writing(t, c)' /\ ~obj'[c].m_bEmpty
        /\ \A u \in obj'[c].cond : u = t /\ on'[u] = c /\ pc'[u] = "wait"
    BY <2>1, <2>4 DEF Writing, Goes, Shows
  <2>6. \A u \in Threads : ~Reading(u, c)'
    BY <2>1, <2>3, Zenon DEF Reading, Goes, Stays
  <2> QED
    BY <2>5, <2>6 DEF Handshake
<1>3. CASE WriteSchedule(t)
  <2>1. Goes(t, "sched", "wait") /\ Shows(c, o.m_bEmpty, o.m_pAlt, o.cond \cup {t})
    BY <1>1, <1>3, AfterWriteSchedule
  <2>2. Writing(t, c) /\ ~o.m_bEmpty
    BY <1>1, <2>1 DEF Handshake, Writing, Goes
  <2>3. \A u \in Threads : ~Reading(u, c)
    BY <1>1, <2>2 DEF Handshake
  <2>4. Writing(t, c)' /\ ~obj'[c].m_bEmpty
    BY <2>1, <2>2 DEF Writing, Goes, Shows
  <2>5. \A u \in Threads : ~Reading(u, c)'
    BY <2>1, <2>3 DEF Reading, Goes, Stays
  <2>6. \A u \in obj'[c].cond : on'[u] = c /\ pc'[u] \in {"read_wait", "wait"}
    BY <1>1, <2>1 DEF Handshake, Goes, Shows, Stays
  <2> QED
    BY <2>4, <2>5, <2>6 DEF Handshake
<1>4. CASE WriteSecond(t)
  <2>1. Goes(t, "write", "wait") /\ ~o.m_bEmpty
    BY <1>1, <1>4, AfterWriteSecond, Zenon
  <2>2. PICK rest \in Signalled(c) : Shows(c, TRUE, o.m_pAlt, rest \cup {t})
    BY <1>1, <1>4, AfterWriteSecond, Zenon
  <2>3. \A u \in Threads : ~Writing(u, c)
    BY <2>1, OneOfEach DEF Writing, Goes
  <2>4. PICK r \in Threads : Reading(r, c) /\ r \in o.cond
    BY <1>1, <2>1, <2>3 DEF Handshake
  <2>5. o.cond = {r} /\ r # t
    BY <1>1, <2>1, <2>3, <2>4, OneOfEach DEF Handshake, Reading, Writing, Goes
  <2>6. obj'[c].cond = {t} /\ obj'[c].m_bEmpty
    BY <2>2, <2>5 DEF Signalled, Shows
  <2>7. Writing(t, c)' /\ Reading(r, c)'
    BY <2>1, <2>4, <2>5, <2>6 DEF Writing, Reading, Goes, Stays
  <2>8. \A u \in Threads : on'[u] = c => pc'[u] # "sched"
    BY <2>1, <2>3 DEF Writing, Goes, Stays
  <2>9. on'[t] = c /\ pc'[t] = "wait"
    BY <2>1 DEF Goes
  <2> QED
    BY <2>6, <2>7, <2>8, <2>9 DEF Handshake, Reading
<1>5. CASE WriteWake(t)
  <2>1. /\ Goes(t, "wait", "return") /\ t \notin o.cond
        /\ Shows(c, o.m_bEmpty, o.m_pAlt, o.cond)
    BY <1>1, <1>5, AfterWriteWake
  <2> QED
    BY <1>1, <2>1, HandshakeKept DEF Goes, Shows
<1> QED
  BY <1>2, <1>3, <1>4, <1>5
-----------------------------------------------------------------------------
(* Where a thread is when a method begins or is over. *)
Outer == AltPlaces \cup {"idle", "return", "read", "write", "sync", "sync_sem"}

(* A step outside the methods of the guards, and one inside select's. *)
Passes(t) ==
  EnablingStep(t) \/ DisablingStep(t) \/ EntryStep(t) \/ Select(t) \/ SelectCall(t)
    \/ CallStep(t)

LEMMA PassesOuter ==
  ASSUME Shape, NEW t \in Threads, Passes(t)
  PROVE  pc[t] \in Outer /\ pc'[t] \in Outer
<1>1. ThreadTypes
  BY DEF Shape
<1>2. ASSUME NEW place, NEW g, Goto(t, place, g) PROVE pc'[t] = place
  BY <1>1, <1>2 DEF Goto, ThreadTypes
<1>3. CASE EnablingStep(t) \/ EnableSchedule(t)
  <2>1. \E ready : LeaveEnable(t, ready)
    BY <1>3, Zenon
    DEF EnablingStep, EnableOne2One, EnableMany2One, EnableRegister, EnableReady,
        EnableDone, EnableSchedule
  <2>2. pc'[t] \in {"test", "check"}
    BY <1>2, <2>1 DEF LeaveEnable
  <2>3. pc[t] \in {"enable", "entered", "resched"}
    BY <1>3, Zenon
    DEF EnablingStep, EnableOne2One, EnableMany2One, EnableRegister, EnableReady,
        EnableSchedule, Locks, At
  <2> QED
    BY <2>2, <2>3 DEF Outer, AltPlaces
<1>4. CASE EnableSemWait(t) \/ EnableOther(t)
  BY <1>2, <1>4 DEF EnableSemWait, EnableOther, Locks, At, Outer, AltPlaces
<1>5. CASE DisablingStep(t)
  <2>1. pc[t] = "disable" /\ DisableDone(t)
    BY <1>5 DEF DisablingStep, DisableOne2One, DisableMany2One,
       DisableBarrier2, Locks, At
  <2> QED
    BY <1>2, <2>1 DEF DisableDone, Outer, AltPlaces
<1>6. CASE Select(t) \/ SelectCall(t)
  BY <1>2, <1>6
  DEF Select, SelectTest, SelectCheck, SelectWake, SelectReturn, SelectCall,
      StartDisabling, Outer, AltPlaces
<1>7. CASE CallStep(t)
  BY <1>2, <1>7 DEF CallStep, ReadCall, WriteCall, SyncCall, Return, Call, Outer
<1> QED
  BY <1>3, <1>4, <1>5, <1>6, <1>7 DEF Passes, EntryStep

(* The other steps stay in the method of an object. *)
LEMMA PlainOn ==
  ASSUME ThreadTypes, NEW t \in Threads, PlainStep(t) \/ SchedulingStep(t)
  PROVE  on'[t] = on[t]
<1>1. \E place : Goto(t, place, on[t])
  BY Zenon DEF PlainStep, SchedulingStep, ReadFirst, ReadSecond, ReadWake, WriteFirst,
         WriteSecond, WriteWake, WriteSchedule, ReadEnter, ReadWait, ReadCopy,
         WriteEnter, WriteRetry, WriteScheduleAll, LoopTest, WriteSignal, SemWait,
         SyncFirst, SyncSecond, SyncWake, SyncSchedule
<1> QED
  BY <1>1 DEF Goto, ThreadTypes

LEMMA NextHandshakes ==
  ASSUME Shape, Fits, Handshakes, NEW t \in Threads, Acts(t)
  PROVE  Handshakes'
<1> SUFFICES ASSUME NEW c \in One2Ones PROVE Handshake(c)'
  BY DEF Handshakes
<1>1. /\ ThreadTypes /\ ObjTypes /\ Handshake(c) /\ c \in Guards
      /\ \A u \in Threads \ {t} : Stays(u)
  BY ActsStay, Classes DEF Shape, Handshakes
<1>2. CASE on[t] = c /\ (ReadFirst(t) \/ ReadSecond(t) \/ ReadWake(t))
  BY <1>1, <1>2, ReaderHandshake
<1>3. CASE on[t] = c /\ (WriteFirst(t) \/ WriteSchedule(t) \/ WriteSecond(t) \/ WriteWake(t))
  BY <1>1, <1>3, WriterHandshake
<1>4. CASE Passes(t)
  <2>1. pc[t] \in Outer /\ pc'[t] \in Outer
    BY <1>4, PassesOuter
  <2>2. t \notin obj[c].cond
    BY <1>1, <2>1 DEF Handshake, Outer, AltPlaces
  <2>3. obj'[c].m_bEmpty = obj[c].m_bEmpty /\ obj'[c].cond = obj[c].cond
    <3>1. CASE c = on[t] /\ EnableOne2One(t)
      BY <1>1, <3>1, AfterEnableOne2One DEF Shows
    <3>2. CASE c = on[t] /\ DisableOne2One(t)
      BY <1>1, <3>2, AfterDisableOne2One DEF Shows
    <3>3. CASE c # on[t]
      BY <1>1, <3>3, OneObject
    <3>4. CASE Select(t) \/ SelectCall(t) \/ CallStep(t)
      BY <3>4, KeepsObjects
    <3>5. ASSUME \/ EnableMany2One(t) \/ EnableRegister(t) \/ EnableReady(t)
                 \/ DisableMany2One(t) \/ DisableBarrier2(t) \/ EntryStep(t)
          PROVE  c # on[t]
      BY <3>5, Classes, Zenon
      DEF EnableMany2One, EnableRegister, EnableReady, DisableMany2One,
          DisableBarrier2, EntryStep, EnableSemWait, EnableOther, EnableSchedule,
          Locks, At
    <3> QED
      BY <1>4, <3>1, <3>2, <3>3, <3>4, <3>5 DEF Passes, EnablingStep, DisablingStep
  <2> QED
    BY <1>1, <2>1, <2>2, <2>3, HandshakeKept DEF Outer, AltPlaces
<1>5. CASE on[t] # c /\ (PlainStep(t) \/ SchedulingStep(t))
  <2>1. on'[t] = on[t]
    BY <1>1, <1>5, PlainOn
  <2>2. obj'[c] = obj[c]
    BY <1>1, <1>5, OneObject
  <2> QED
    BY <1>1, <1>5, <2>1, <2>2, HandshakeKept
<1>6. ASSUME on[t] = c, PlainStep(t) \/ SchedulingStep(t)
      PROVE  \/ ReadFirst(t) \/ ReadSecond(t) \/ ReadWake(t)
             \/ WriteFirst(t) \/ WriteSchedule(t) \/ WriteSecond(t) \/ WriteWake(t)
  BY <1>6, Classes
  DEF PlainStep, SchedulingStep, ReadEnter, ReadWait, ReadCopy, WriteEnter, WriteRetry,
      WriteScheduleAll, WriteSignal, SemWait, SyncFirst, SyncSecond, SyncWake,
      SyncSchedule, Resumes, Locks, At
<1> QED
  BY <1>2, <1>3, <1>4, <1>5, <1>6 DEF Acts, Passes
-----------------------------------------------------------------------------
(* The writers that are in write of a many2one channel. *)
InWrite(t, c) == on[t] = c /\ pc[t] \in {"sched", "wait", "handoff"}

InRead(t, c) == on[t] = c /\ pc[t] \in {"read_mx", "read_wait"}

Queue(c) ==
  /\ obj[c].m_bReader => \E t \in Threads : InRead(t, c)
  /\ obj[c].m_ulWriter = Cardinality({t \in Threads : InWrite(t, c)})

Queues == \A c \in Many2Ones : Queue(c)

(* A counter of threads of some kind: one comes or goes. *)
LEMMA QueueKept ==
  ASSUME NEW c, Queue(c), NEW t \in Threads, \A u \in Threads \ {t} : Stays(u),
         obj'[c].m_bReader => \/ obj[c].m_bReader /\ ~InRead(t, c)
                              \/ InRead(t, c)',
         \/ obj'[c].m_ulWriter = obj[c].m_ulWriter /\ (InWrite(t, c)' <=> InWrite(t, c))
         \/ obj'[c].m_ulWriter = obj[c].m_ulWriter + 1 /\ ~InWrite(t, c) /\ InWrite(t, c)'
         \/ obj'[c].m_ulWriter = obj[c].m_ulWriter - 1 /\ InWrite(t, c) /\ ~InWrite(t, c)'
  PROVE  Queue(c)'
<1> DEFINE S == {u \in Threads : InWrite(u, c)}
           T == {u \in Threads : InWrite(u, c)'}
<1>1. \A u \in Threads \ {t} : /\ InWrite(u, c)' <=> InWrite(u, c)
                               /\ InRead(u, c)' <=> InRead(u, c)
  BY DEF Stays, InWrite, InRead
<1>2. obj'[c].m_bReader => \E u \in Threads : InRead(u, c)'
  BY <1>1 DEF Queue
<1>3. IsFiniteSet(S) /\ Cardinality(S) \in Nat
  BY AlternativeAssumption, FS_Subset, FS_CardinalityType
<1>4. obj'[c].m_ulWriter = Cardinality(T)
  <2>1. CASE obj'[c].m_ulWriter = obj[c].m_ulWriter /\ (InWrite(t, c)' <=> InWrite(t, c))
    <3>1. S = T
      BY <1>1, <2>1
    <3> QED
      BY <2>1, <3>1 DEF Queue
  <2>2. CASE obj'[c].m_ulWriter = obj[c].m_ulWriter + 1 /\ ~InWrite(t, c) /\ InWrite(t, c)'
    <3>1. T = S \cup {t} /\ t \notin S
      BY <1>1, <2>2
    <3>2. Cardinality(T) = Cardinality(S) + 1
      BY <1>3, <3>1, FS_AddElement, Zenon
    <3> QED
      BY <1>3, <2>2, <3>2 DEF Queue
  <2>3. CASE obj'[c].m_ulWriter = obj[c].m_ulWriter - 1 /\ InWrite(t, c) /\ ~InWrite(t, c)'
    <3>1. T = S \ {t} /\ t \in S
      BY <1>1, <2>3
    <3>2. Cardinality(T) = Cardinality(S) - 1
      BY <1>3, <3>1, FS_RemoveElement, Zenon
    <3> QED
      BY <1>3, <2>3, <3>2 DEF Queue
  <2> QED
    BY <2>1, <2>2, <2>3
<1> QED
  BY <1>2, <1>4 DEF Queue

LEMMA NextQueues ==
  ASSUME Shape, Fits, Queues, NEW t \in Threads, Acts(t)
  PROVE  Queues'
<1> SUFFICES ASSUME NEW c \in Many2Ones PROVE Queue(c)'
  BY DEF Queues
<1>1. /\ ThreadTypes /\ ObjTypes /\ Queue(c) /\ c \in Guards
      /\ \A u \in Threads \ {t} : Stays(u)
  BY ActsStay, Classes DEF Shape, Queues
<1>2. CASE on[t] = c /\ (ReadEnter(t) \/ ReadWait(t) \/ ReadCopy(t))
  BY <1>1, <1>2, AfterReader, QueueKept, Zenon DEF Goes, Counts, InRead, InWrite
<1>3. CASE on[t] = c /\ \/ WriteEnter(t) \/ WriteScheduleAll(t)
                        \/ WriteRetry(t) \/ WriteSignal(t)
  BY <1>1, <1>3, AfterWriter, QueueKept DEF Goes, Counts, InRead, InWrite
<1>4. CASE Passes(t)
  <2>1. pc[t] \in Outer /\ pc'[t] \in Outer
    BY <1>4, PassesOuter
  <2>2. obj'[c].m_bReader = obj[c].m_bReader /\ obj'[c].m_ulWriter = obj[c].m_ulWriter
    <3>1. CASE c = on[t] /\ (EnableMany2One(t) \/ DisableMany2One(t))
      BY <1>1, <3>1, AfterAltMany2One, Zenon DEF Counts
    <3>2. CASE c # on[t]
      BY <1>1, <3>2, OneObject
    <3>3. CASE Select(t) \/ SelectCall(t) \/ CallStep(t)
      BY <3>3, KeepsObjects
    <3>4. ASSUME \/ EnableOne2One(t) \/ EnableRegister(t) \/ EnableReady(t)
                 \/ DisableOne2One(t) \/ DisableBarrier2(t) \/ EntryStep(t)
          PROVE  c # on[t]
      BY <3>4, Classes, Zenon
      DEF EnableOne2One, EnableRegister, EnableReady, DisableOne2One,
          DisableBarrier2, EntryStep, EnableSemWait, EnableOther, EnableSchedule,
          Locks, At
    <3> QED
      BY <1>4, <3>1, <3>2, <3>3, <3>4 DEF Passes, EnablingStep, DisablingStep
  <2>3. ~InRead(t, c) /\ ~InWrite(t, c) /\ ~InWrite(t, c)'
    BY <2>1 DEF Outer, AltPlaces, InRead, InWrite
  <2> QED
    BY <1>1, <2>2, <2>3, QueueKept
<1>5. CASE on[t] # c /\ (PlainStep(t) \/ SchedulingStep(t))
  <2>1. on'[t] = on[t]
    BY <1>1, <1>5, PlainOn
  <2>2. obj'[c] = obj[c]
    BY <1>1, <1>5, OneObject
  <2>3. ~InRead(t, c) /\ ~InWrite(t, c) /\ ~InWrite(t, c)'
    BY <1>5, <2>1 DEF InRead, InWrite
  <2> QED
    BY <1>1, <2>2, <2>3, QueueKept
<1>6. ASSUME on[t] = c, PlainStep(t) \/ SchedulingStep(t)
      PROVE  \/ ReadEnter(t) \/ ReadWait(t) \/ ReadCopy(t)
             \/ WriteEnter(t) \/ WriteScheduleAll(t) \/ WriteRetry(t) \/ WriteSignal(t)
  BY <1>6, Classes
  DEF PlainStep, SchedulingStep, ReadFirst, ReadSecond, ReadWake, WriteFirst,
      WriteSecond, WriteWake, WriteSchedule, SemWait, SyncFirst, SyncSecond, SyncWake,
      SyncSchedule, Resumes, Locks, At
<1> QED
  BY <1>2, <1>3, <1>4, <1>5, <1>6 DEF Acts, Passes
-----------------------------------------------------------------------------
(* Only schedule touches the alternative of another thread. *)
LEMMA OtherAlts ==
  ASSUME Shape, NEW t \in Threads, Acts(t), NEW a \in Threads \ {t}, alt'[a] # alt[a]
  PROVE  /\ SchedulingStep(t) \/ EnableSchedule(t)
         /\ a = obj[on[t]].m_pAlt /\ AltFree(a)
         /\ alt'[a] = schedule(alt[a], on[t])
<1>1. alt \in [Threads -> AltType] /\ ThreadTypes /\ AltShape(t)
  BY DEF Shape
<1>2. CASE PlainStep(t) \/ CallStep(t)
  BY <1>2, Zenon
  DEF PlainStep, ReadFirst, ReadSecond, ReadWake, WriteFirst, WriteSecond, WriteWake,
      ReadEnter, ReadWait, ReadCopy, WriteEnter, WriteRetry, WriteSignal,
      SemWait, SyncFirst, SyncSecond, SyncWake,
      CallStep, ReadCall, WriteCall, SyncCall, Return, Call
<1>3. CASE SchedulingStep(t)
  <2>1. CallSchedule(t)
    BY <1>3 DEF SchedulingStep, WriteSchedule, WriteScheduleAll, SyncSchedule
  <2> QED
    BY <1>1, <1>3, <2>1 DEF CallSchedule
<1>4. CASE EnablingStep(t)
  <2>1. PICK ready \in BOOLEAN : EnableDone(t, ready)
    BY <1>4, Zenon DEF EnablingStep, EnableOne2One, EnableMany2One,
       EnableRegister, EnableReady
  <2> QED
    BY <1>1, <2>1, EnableDoneMoves
<1>5. CASE EntryStep(t)
  BY <1>1, <1>5 DEF EntryStep, EnableSemWait, EnableOther, EnableSchedule
<1>6. CASE DisablingStep(t)
  <2>1. pc[t] = "disable" /\ DisableDone(t)
    BY <1>6 DEF DisablingStep, DisableOne2One, DisableMany2One,
       DisableBarrier2, Locks, At
  <2> QED
    BY <1>1, <2>1, DisableDoneMoves
<1>7. CASE Select(t) \/ SelectCall(t)
  BY <1>1, <1>7
  DEF Select, SelectTest, SelectCheck, SelectWake, SelectReturn, StartDisabling,
      SelectCall
<1> QED
  BY <1>2, <1>3, <1>4, <1>5, <1>6, <1>7 DEF Acts

(* What an alternative is taken by, it stays taken by until select returns. *)
LEMMA StaysReady ==
  ASSUME Shape, NEW t \in Threads, Acts(t), NEW a \in Threads, Ready(a)
  PROVE  \/ Ready(a)' /\ alt'[a].m_selector = alt[a].m_selector
         \/ a = t /\ SelectReturn(t)
<1>1. alt \in [Threads -> AltType] /\ ThreadTypes /\ AltShape(a)
  BY DEF Shape
<1>2. pc[a] \in {"test", "check", "asleep", "disable", "selected"}
  BY <1>1 DEF AltShape, AltPlaces, Ready
<1>3. CASE alt'[a] = alt[a]
  BY <1>3 DEF Ready
<1>4. CASE a # t /\ alt'[a] # alt[a]
  BY <1>4, OtherAlts DEF schedule, ScheduleResult, Ready
<1>5. CASE a = t /\ (PlainStep(t) \/ CallStep(t))
  BY <1>5, Zenon
  DEF PlainStep, ReadFirst, ReadSecond, ReadWake, WriteFirst, WriteSecond, WriteWake,
      ReadEnter, ReadWait, ReadCopy, WriteEnter, WriteRetry, WriteSignal,
      SemWait, SyncFirst, SyncSecond, SyncWake,
      CallStep, ReadCall, WriteCall, SyncCall, Return, Call, Ready
<1>6. ASSUME a = t, SchedulingStep(t) \/ EnablingStep(t) \/ EntryStep(t) \/ SelectCall(t)
      PROVE  FALSE
  BY <1>2, <1>6, Zenon
  DEF SchedulingStep, WriteSchedule, WriteScheduleAll, SyncSchedule, EnablingStep,
      EnableOne2One, EnableMany2One, EnableRegister, EnableReady, EntryStep,
      EnableSemWait, EnableOther, EnableSchedule, SelectCall, Locks, At
<1>7. CASE a = t /\ DisablingStep(t)
  <2>1. pc[t] = "disable" /\ DisableDone(t)
    BY <1>7 DEF DisablingStep, DisableOne2One, DisableMany2One,
       DisableBarrier2, Locks, At
  <2> QED
    BY <1>1, <1>7, <2>1, DisableDoneMoves DEF Ready
<1>8. CASE a = t /\ Select(t)
  BY <1>1, <1>8
  DEF Select, SelectTest, SelectCheck, SelectWake, StartDisabling, Ready, AltType
<1> QED
  BY <1>3, <1>4, <1>5, <1>6, <1>7, <1>8 DEF Acts

(* The four ways in which an alternative gets ready. *)
LEMMA GetsReady ==
  ASSUME Shape, NEW t \in Threads, Acts(t), NEW a \in Threads, ~Ready(a), Ready(a)'
  PROVE  /\ alt'[a].m_selector = on[t]
         /\ \/ SchedulingStep(t) /\ a = obj[on[t]].m_pAlt
            \/ EnableOne2One(t) /\ a = t /\ ~obj[on[t]].m_bEmpty
            \/ EnableReady(t) /\ a = t
            \/ /\ EnableSchedule(t) /\ a \in {t, obj[on[t]].m_pAlt}
               /\ ScheduleResult(alt[obj[on[t]].m_pAlt])
<1>1. alt \in [Threads -> AltType] /\ ThreadTypes /\ AltShape(t) /\ AltShape(a)
  BY DEF Shape
<1>2. alt'[a] # alt[a]
  BY DEF Ready
<1>3. CASE a # t
  <2>1. alt'[a] = schedule(alt[a], on[t]) /\ a = obj[on[t]].m_pAlt
    BY <1>2, <1>3, OtherAlts
  <2>2. SchedulingStep(t) \/ EnableSchedule(t)
    BY <1>2, <1>3, OtherAlts
  <2>3. ScheduleResult(alt[a]) /\ alt'[a].m_selector = on[t]
    BY <1>1, <1>2, <2>1 DEF schedule, AltType
  <2> QED
    BY <2>1, <2>2, <2>3
<1>4. CASE a = t /\ SchedulingStep(t)
  <2>1. CallSchedule(t)
    BY <1>4 DEF SchedulingStep, WriteSchedule, WriteScheduleAll, SyncSchedule
  <2>2. a = obj[on[t]].m_pAlt /\ alt'[a] = schedule(alt[a], on[t])
    BY <1>1, <1>2, <1>4, <2>1 DEF CallSchedule
  <2>3. alt'[a].m_selector = on[t]
    BY <1>1, <1>2, <2>2 DEF schedule, AltType
  <2> QED
    BY <1>4, <2>2, <2>3, Zenon
<1>5. CASE a = t /\ EnablingStep(t)
  <2>1. PICK ready \in BOOLEAN :
          /\ EnableDone(t, ready)
          /\ ready => \/ EnableOne2One(t) /\ ~obj[on[t]].m_bEmpty
                      \/ EnableReady(t)
    BY <1>5, Zenon DEF EnablingStep, EnableOne2One, EnableMany2One,
       EnableRegister, EnableReady
  <2>2. alt'[t] = AfterEnable(alt[t], ready)
    BY <1>1, <2>1, EnableDoneMoves
  <2>3. on[t] = alt[t].m_c[alt[t].bound + 1]
    BY <1>1, <1>5, Zenon
    DEF EnablingStep, EnableOne2One, EnableMany2One, EnableRegister, EnableReady, Locks,
        At, AltShape
  <2>4. ready /\ alt'[t].m_selector = on[t]
    BY <1>1, <1>5, <2>2, <2>3 DEF AfterEnable, Ready, AltType
  <2> QED
    BY <1>5, <2>1, <2>4
<1>6. CASE a = t /\ EntryStep(t)
  <2>1. EnableSchedule(t)
    BY <1>2, <1>6 DEF EntryStep, EnableSemWait, EnableOther
  <2> DEFINE o == obj[on[t]].m_pAlt
  <2>2. pc[t] = "resched" /\ AltFree(o) /\ o # t
    BY <2>1 DEF EnableSchedule, At, AltFree
  <2>3. alt'[t] = AfterEnable(alt[t], ScheduleResult(alt[o]))
    BY <1>1, <2>1, <2>2 DEF EnableSchedule
  <2>4. on[t] = alt[t].m_c[alt[t].bound + 1]
    BY <1>1, <2>2 DEF AltShape
  <2>5. ScheduleResult(alt[o]) /\ alt'[t].m_selector = on[t]
    BY <1>1, <1>6, <2>3, <2>4 DEF AfterEnable, Ready, AltType
  <2> QED
    BY <1>6, <2>1, <2>5
<1>7. ASSUME a = t, \/ PlainStep(t) \/ CallStep(t) \/ DisablingStep(t)
                    \/ Select(t) \/ SelectCall(t)
      PROVE  FALSE
  <2>1. CASE PlainStep(t) \/ CallStep(t)
    BY <1>2, <1>7, <2>1, Zenon
    DEF PlainStep, ReadFirst, ReadSecond, ReadWake, WriteFirst, WriteSecond, WriteWake,
        ReadEnter, ReadWait, ReadCopy, WriteEnter, WriteRetry, WriteSignal,
        SemWait, SyncFirst, SyncSecond, SyncWake,
        CallStep, ReadCall, WriteCall, SyncCall, Return, Call
  <2>2. CASE DisablingStep(t)
    <3>1. pc[t] = "disable" /\ DisableDone(t)
      BY <2>2 DEF DisablingStep, DisableOne2One, DisableMany2One,
         DisableBarrier2, Locks, At
    <3> QED
      BY <1>1, <1>7, <3>1, DisableDoneMoves DEF Ready
  <2>3. CASE SelectTest(t) \/ SelectCheck(t) \/ SelectWake(t)
    BY <1>1, <1>7, <2>3
    DEF SelectTest, SelectCheck, SelectWake, StartDisabling, Ready, AltType
  <2>4. CASE SelectCall(t) \/ SelectReturn(t)
    BY <1>1, <1>7, <2>4
    DEF SelectCall, SelectReturn, NoAlternative, NewAlternative, Ready
  <2> QED
    BY <1>7, <2>1, <2>2, <2>3, <2>4 DEF Select
<1> QED
  BY <1>3, <1>4, <1>5, <1>6, <1>7 DEF Acts

(* What is known of an alternative that is ready. *)
LEMMA ReadyHolds ==
  ASSUME Shape, NEW a \in Threads, Ready(a)
  PROVE  LET g == alt[a].m_selector IN
         /\ pc[a] \in AltPlaces /\ g \in Guards /\ Lists(a, g) /\ Holds(a, g)
         /\ g \in Channels => g \in Reads[a]
<1> DEFINE r == alt[a]
           g == r.m_selector
<1>1. AltShape(a) /\ r \in AltType
  BY DEF Shape
<1>2. PICK i \in UpTo(a) : g = r.m_c[i + 1]
  BY <1>1 DEF AltShape, Ready
<1>3. /\ pc[a] \in AltPlaces /\ r.m_c \in Choices[a]
      /\ r.bound \in Nat /\ r.bound < Len(r.m_c) /\ i \in 0 .. r.bound
  BY <1>1, <1>2 DEF AltShape, AltType, UpTo, Ready
<1>4. Len(r.m_c) \in Nat /\ i \in 0 .. Len(r.m_c) - 1 /\ g \in Guards
  BY <1>2, <1>3, ChoiceList
<1>5. g \in Reads[a] \cup Syncs[a]
  BY <1>2, <1>3, <1>4, ListedEnds
<1>6. i \in Enabled(a)
  <2>1. CASE pc[a] \in {"test", "check", "asleep"}
    BY <1>2, <2>1 DEF UpTo, Enabled
  <2>2. CASE pc[a] = "disable"
    BY <1>1, <1>2, <1>3, <2>2 DEF AltShape, AltType, Enabled
  <2>3. CASE pc[a] = "selected"
    BY <1>1, <1>2, <1>3, <2>3 DEF AltShape, AltType, Enabled
  <2> QED
    BY <1>1, <1>3, <2>1, <2>2, <2>3 DEF AltShape, AltPlaces, Ready
<1>7. Lists(a, g) /\ Holds(a, g)
  BY <1>2, <1>3, <1>4, <1>6 DEF Lists, Holds
<1> QED
  BY <1>3, <1>4, <1>5, <1>7, HeldEnds
-----------------------------------------------------------------------------
(* A ready alternative has somebody to meet. *)
Partner(a) ==
  LET g == alt[a].m_selector IN
  Ready(a) =>
    /\ g \in One2Ones => ~obj[g].m_bEmpty
    /\ g \notin One2Ones => \E t \in Threads \ {a} : Committed(t, g)

Partners == \A a \in Threads : Partner(a)

(* Whoever is committed to a barrier holds one of its places. *)
LEMMA CommittedHolds ==
  ASSUME Shape, NEW b \in Barriers, NEW t \in Threads, Committed(t, b)
  PROVE  Holds(t, b)
<1>1. b \notin Many2Ones
  BY Classes
<1> QED
  BY <1>1, ReadyHolds DEF Committed, Holds

(* Whoever is committed to a many2one channel that another thread reads is *)
(* in its write.                                                           *)
LEMMA CommittedWrites ==
  ASSUME Shape, Fits, NEW c \in Many2Ones, NEW a \in Threads, c \in Reads[a],
         NEW t \in Threads \ {a}, Committed(t, c)
  PROVE  on[t] = c /\ pc[t] \in {"sched", "wait"}
<1>1. c \notin Syncs[t] /\ c \in Channels
  BY HeldEnds, Classes DEF Channels
<1>2. ~(Ready(t) /\ alt[t].m_selector = c)
  BY <1>1, ReadyHolds, HeldEnds
<1> QED
  BY <1>1, <1>2 DEF Committed, Fits, Ends

(* A one2one channel does not become empty under a ready alternative ... *)
LEMMA One2OnePartner ==
  ASSUME Shape, Fits, Handshakes, NEW t \in Threads, Acts(t), NEW a \in Threads, Ready(a),
         NEW c \in One2Ones, c = alt[a].m_selector, ~obj[c].m_bEmpty
  PROVE  ~obj'[c].m_bEmpty
<1>1. /\ ThreadTypes /\ ObjTypes /\ c \in Guards /\ Handshake(c)
      /\ c \in Reads[a] /\ pc[a] \in AltPlaces
  BY ReadyHolds, Classes DEF Shape, Handshakes, Channels
<1>2. CASE c # on[t]
  BY <1>1, <1>2, OneObject
<1>3. ASSUME c = on[t], ReadSecond(t) PROVE FALSE
  <2>1. pc[t] = "read"
    BY <1>1, <1>3, AfterReadSecond, Zenon DEF Goes
  <2>2. c \in Reads[t]
    BY <1>3, <2>1 DEF Fits, Ends
  <2> QED
    BY <1>1, <2>1, <2>2, HeldEnds DEF AltPlaces
<1>4. ASSUME c = on[t], WriteSecond(t) PROVE FALSE
  <2>1. pc[t] = "write"
    BY <1>1, <1>4, AfterWriteSecond, Zenon DEF Goes
  <2>2. ASSUME NEW r \in Threads, Reading(r, c) PROVE FALSE
    <3>1. c \in Reads[r] /\ pc[r] = "read_wait"
      BY <2>2 DEF Reading, Fits, Ends
    <3> QED
      BY <1>1, <3>1, HeldEnds DEF AltPlaces
  <2>3. ASSUME NEW w \in Threads, Writing(w, c) PROVE FALSE
    BY <1>4, <2>1, <2>3, OneOfEach DEF Writing
  <2> QED
    BY <1>1, <2>2, <2>3 DEF Handshake
<1>5. CASE c = on[t] /\ (ReadFirst(t) \/ ReadWake(t))
  <2>1. CASE ReadFirst(t)
    BY <1>1, <1>5, <2>1, AfterReadFirst, Zenon DEF Shows
  <2>2. CASE ReadWake(t)
    BY <1>1, <1>5, <2>2, AfterReadWake DEF Shows
  <2> QED
    BY <1>5, <2>1, <2>2
<1>6. CASE c = on[t] /\ (WriteFirst(t) \/ WriteSchedule(t) \/ WriteWake(t))
  <2>1. CASE WriteFirst(t)
    BY <1>1, <1>6, <2>1, AfterWriteFirst, Zenon DEF Shows
  <2>2. CASE WriteSchedule(t)
    BY <1>1, <1>6, <2>2, AfterWriteSchedule DEF Shows
  <2>3. CASE WriteWake(t)
    BY <1>1, <1>6, <2>3, AfterWriteWake DEF Shows
  <2> QED
    BY <1>6, <2>1, <2>2, <2>3
<1>7. CASE c = on[t] /\ (EnableOne2One(t) \/ DisableOne2One(t))
  BY <1>1, <1>7, AfterEnableOne2One, AfterDisableOne2One DEF Shows
<1>8. CASE \/ Select(t) \/ SelectCall(t) \/ CallStep(t) \/ EnableOther(t)
           \/ EnableSchedule(t)
  BY <1>8, KeepsObjects
<1>9. ASSUME \/ ReadEnter(t) \/ ReadWait(t) \/ ReadCopy(t) \/ WriteEnter(t)
             \/ WriteScheduleAll(t) \/ WriteRetry(t) \/ WriteSignal(t) \/ SemWait(t)
             \/ SyncFirst(t) \/ SyncSchedule(t) \/ SyncSecond(t) \/ SyncWake(t)
             \/ EnableMany2One(t) \/ EnableRegister(t) \/ EnableReady(t)
             \/ DisableMany2One(t) \/ DisableBarrier2(t) \/ EnableSemWait(t)
      PROVE  c # on[t]
  BY <1>9, Classes, Zenon
  DEF ReadEnter, ReadWait, ReadCopy, WriteEnter, WriteScheduleAll, WriteRetry,
      WriteSignal, SemWait, SyncFirst, SyncSchedule, SyncSecond, SyncWake,
      EnableMany2One, EnableRegister, EnableReady, DisableMany2One, DisableBarrier2,
      EnableSemWait, Resumes, Locks, At
<1> QED
  BY <1>2, <1>3, <1>4, <1>5, <1>6, <1>7, <1>8, <1>9
  DEF Acts, PlainStep, SchedulingStep, EnablingStep, DisablingStep, EntryStep

(* ... no writer leaves a many2one channel whose reader is in select ... *)
LEMMA Many2OneStays ==
  ASSUME Shape, Fits, Queues, NEW t \in Threads, Acts(t),
         NEW a \in Threads, pc[a] \in AltPlaces, NEW c \in Many2Ones, c \in Reads[a],
         NEW u \in Threads, on[u] = c, pc[u] \in {"sched", "wait"}
  PROVE  on'[u] = c /\ pc'[u] \in {"sched", "wait"}
<1>1. CASE u # t
  BY <1>1, ActsStay DEF Stays
<1>2. CASE u = t
  <2>1. ThreadTypes /\ ObjTypes
    BY DEF Shape
  <2>2. ~obj[c].m_bReader
    <3> SUFFICES ASSUME NEW r \in Threads, InRead(r, c) PROVE FALSE
      BY DEF Queues, Queue
    <3>1. c \in Reads[r] /\ pc[r] \in {"read_mx", "read_wait"}
      BY DEF InRead, Fits, Ends
    <3> QED
      BY <3>1, HeldEnds DEF AltPlaces
  <2>3. WriteScheduleAll(t) \/ WriteRetry(t)
    <3>1. PlainStep(t) \/ SchedulingStep(t)
      BY <1>2, PassesOuter DEF Acts, Passes, Outer, AltPlaces
    <3> QED
      BY <1>2, <3>1, Classes, Zenon
      DEF PlainStep, SchedulingStep, ReadFirst, ReadSecond, ReadWake, WriteFirst,
          WriteSchedule, WriteSecond, WriteWake, ReadEnter, ReadWait, ReadCopy,
          WriteEnter, WriteSignal, SemWait, SyncFirst, SyncSchedule, SyncSecond,
          SyncWake, Resumes, Locks, At
  <2>4. Goes(t, pc[t], "wait") \/ (Goes(t, pc[t], "handoff") /\ obj[on[t]].m_bReader)
    <3>1. pc[t] \in {"sched", "wait"}
      BY <1>2
    <3>2. CASE WriteScheduleAll(t)
      BY <2>1, <3>1, <3>2, AfterWriter DEF Goes
    <3>3. CASE WriteRetry(t)
      BY <2>1, <3>1, <3>3, AfterWriter DEF Goes
    <3> QED
      BY <2>3, <3>2, <3>3
  <2> QED
    BY <1>2, <2>2, <2>4 DEF Goes
<1> QED
  BY <1>1, <1>2

(* ... and the party that a ready alternative is to meet at a barrier stays *)
(* there: whoever could meet it instead would need a third place.          *)
LEMMA Barrier2Stays ==
  ASSUME Shape, BarrierShape, Permits, NEW t \in Threads, Acts(t),
         NEW a \in Threads, Ready(a), NEW b \in Barriers, b = alt[a].m_selector,
         NEW u \in Threads \ {a}, Committed(u, b)
  PROVE  Committed(u, b)'
<1>1. /\ ThreadTypes /\ ObjTypes /\ b \in Guards /\ b \notin Many2Ones
      /\ Holds(a, b) /\ pc[a] \in AltPlaces /\ Holds(u, b)
      /\ \A v \in Threads \ {t} : Stays(v)
  BY ReadyHolds, CommittedHolds, ActsStay, Classes DEF Shape
<1>2. ASSUME SyncSecond(t), on[t] = b PROVE FALSE
  <2>1. pc[t] = "sync_sem" /\ Free(b) /\ obj[b].m_parts + 1 = 2 /\ t # a
    BY <1>1, <1>2 DEF SyncSecond, Locks, At, AltPlaces
  <2>2. PICK v \in Threads : Counted(v, b)
    <3>1. obj[b].m_parts = Cardinality({v \in Threads : Counted(v, b)})
      BY DEF BarrierShape, Parties
    <3> QED
      BY <2>1, <3>1, FS_EmptySet
  <2>3. on[v] = b /\ pc[v] = "wait"
    BY <2>1, <2>2, Zenon DEF Counted, Free, BarrierShape, Parties
  <2>4. Holds(v, b) /\ Holds(t, b)
    BY <1>2, <2>1, <2>3 DEF Holds
  <2>5. v # t /\ v # a
    BY <1>1, <2>1, <2>3 DEF AltPlaces
  <2> QED
    BY <1>1, <2>1, <2>4, <2>5, NoThirdHolder
<1>3. u \in obj[b].cond => u \in obj'[b].cond
  <2>1. CASE b # on[t]
    BY <1>1, <2>1, OneObject
  <2>2. CASE b = on[t] /\ \/ SemWait(t) \/ SyncFirst(t) \/ SyncSchedule(t) \/ SyncWake(t)
                          \/ EnableSemWait(t) \/ EnableRegister(t) \/ EnableReady(t)
                          \/ DisableBarrier2(t)
    <3>1. \E sem, parts, p : \/ Becomes(b, sem, parts, p, obj[b].cond)
                             \/ Becomes(b, sem, parts, p, obj[b].cond \cup {t})
      BY <1>1, <2>2, BarrierEffects
    <3> QED
      BY <3>1 DEF Becomes, Changed
  <2>3. CASE Select(t) \/ SelectCall(t) \/ CallStep(t) \/ EnableOther(t) \/ EnableSchedule(t)
    BY <2>3, KeepsObjects
  <2>4. ASSUME \/ ReadFirst(t) \/ ReadSecond(t) \/ ReadWake(t) \/ WriteFirst(t)
               \/ WriteSchedule(t) \/ WriteSecond(t) \/ WriteWake(t)
               \/ ReadEnter(t) \/ ReadWait(t) \/ ReadCopy(t) \/ WriteEnter(t)
               \/ WriteScheduleAll(t) \/ WriteRetry(t) \/ WriteSignal(t)
               \/ EnableOne2One(t) \/ EnableMany2One(t)
               \/ DisableOne2One(t) \/ DisableMany2One(t)
        PROVE  b # on[t]
    BY <2>4, Classes, Zenon
    DEF ReadFirst, ReadSecond, ReadWake, WriteFirst, WriteSchedule, WriteSecond,
        WriteWake, ReadEnter, ReadWait, ReadCopy, WriteEnter, WriteScheduleAll,
        WriteRetry, WriteSignal, EnableOne2One, EnableMany2One, DisableOne2One,
        DisableMany2One, Resumes, Locks, At
  <2> QED
    BY <1>2, <2>1, <2>2, <2>3, <2>4
    DEF Acts, PlainStep, SchedulingStep, EnablingStep, DisablingStep, EntryStep
<1>4. CASE Ready(u) /\ alt[u].m_selector = b
  <2>1. CASE Ready(u)' /\ alt'[u].m_selector = alt[u].m_selector
    BY <1>4, <2>1 DEF Committed
  <2>2. CASE u = t /\ SelectReturn(t)
    <3>1. AltShape(t) /\ alt[t] \in AltType
      BY DEF Shape
    <3>2. PICK i \in UpTo(t) : alt[t].m_selector = alt[t].m_c[i + 1]
      BY <2>2, <3>1 DEF SelectReturn, AltShape
    <3>3. /\ i \in 0 .. alt[t].bound /\ alt[t].selected = i
          /\ alt[t].m_c \in Choices[t] /\ alt[t].bound < Len(alt[t].m_c)
          /\ alt[t].bound \in Nat
      BY <2>2, <3>1, <3>2 DEF SelectReturn, AltShape, UpTo, AltPlaces, AltType
    <3>4. alt[t].selected < Len(alt[t].m_c) /\ alt[t].m_c[alt[t].selected + 1] = b
      BY <1>4, <2>2, <3>2, <3>3, ChoiceList
    <3>5. Goto(t, "sync_sem", b)
      BY <2>2, <3>4 DEF SelectReturn
    <3> QED
      BY <1>1, <2>2, <3>5 DEF Committed, Goto, ThreadTypes
  <2> QED
    BY <1>4, <2>1, <2>2, StaysReady
<1>5. CASE /\ on[u] = b
           /\ pc[u] \in {"sched", "sync_sem"} \/ (pc[u] = "wait" /\ u \in obj[b].cond)
  <2>1. CASE u # t
    BY <1>1, <1>3, <1>5, <2>1 DEF Committed, Stays
  <2>2. CASE u = t
    <3>1. PlainStep(t) \/ SchedulingStep(t)
      <4>1. pc[t] \notin {"sched", "wait"} => pc[t] = "sync_sem"
        BY <1>5, <2>2
      <4>2. ASSUME Passes(t) PROVE pc[t] # "sync_sem"
        BY <4>2
        DEF Passes, EnablingStep, EnableOne2One, EnableMany2One, EnableRegister,
            EnableReady, DisablingStep, DisableOne2One, DisableMany2One, DisableBarrier2,
            EntryStep, EnableSemWait, EnableOther, EnableSchedule, Select, SelectTest,
            SelectCheck, SelectWake, SelectReturn, SelectCall, CallStep, ReadCall,
            WriteCall, SyncCall, Return, Call, Locks, At
      <4> QED
        BY <1>5, <2>2, <4>1, <4>2, PassesOuter DEF Acts, Passes, Outer, AltPlaces
    <3>2. SyncFirst(t) \/ SyncSchedule(t)
      BY <1>2, <1>5, <2>2, <3>1, Classes, Zenon
      DEF PlainStep, SchedulingStep, ReadFirst, ReadSecond, ReadWake, WriteFirst,
          WriteSchedule, WriteSecond, WriteWake, ReadEnter, ReadWait, ReadCopy,
          WriteEnter, WriteScheduleAll, WriteRetry, WriteSignal, SemWait,
          SyncWake, Resumes, Locks, At
    <3>3. CASE SyncSchedule(t)
      <4>1. \E sem, parts, p : Becomes(b, sem, parts, p, obj[b].cond \cup {t})
        BY <1>1, <1>5, <2>2, <3>3, BarrierEffects
      <4>2. t \in obj'[b].cond
        BY <4>1 DEF Becomes, Changed
      <4>3. on'[t] = b /\ pc'[t] = "wait"
        BY <1>1, <1>5, <2>2, <3>3, SyncMoves DEF SyncStep
      <4> QED
        BY <2>2, <4>2, <4>3 DEF Committed
    <3>4. CASE SyncFirst(t)
      <4>1. CASE obj[b].m_pAlt # "null"
        <5>1. Goto(t, "sched", b)
          BY <1>5, <2>2, <3>4, <4>1 DEF SyncFirst
        <5> QED
          BY <1>1, <2>2, <5>1 DEF Committed, Goto, ThreadTypes
      <4>2. CASE obj[b].m_pAlt = "null"
        <5>1. Goto(t, "wait", b)
          BY <1>5, <2>2, <3>4, <4>2 DEF SyncFirst
        <5>2. \E sem, parts, p : Becomes(b, sem, parts, p, obj[b].cond \cup {t})
          BY <1>1, <1>5, <2>2, <3>4, <4>2, BarrierEffects
        <5>3. t \in obj'[b].cond
          BY <5>2 DEF Becomes, Changed
        <5> QED
          BY <1>1, <2>2, <5>1, <5>3 DEF Committed, Goto, ThreadTypes
      <4> QED
        BY <4>1, <4>2
    <3> QED
      BY <3>2, <3>3, <3>4
  <2> QED
    BY <2>1, <2>2
<1> QED
  BY <1>1, <1>4, <1>5 DEF Committed
-----------------------------------------------------------------------------
(* Only enable and disable change what an object knows of alternatives,    *)
(* and they take its mutex.                                                *)
LEMMA KeepsAlt ==
  ASSUME Shape, NEW t \in Threads, Acts(t),
         NEW g \in Guards, obj'[g].m_pAlt # obj[g].m_pAlt
  PROVE  g = on[t] /\ Free(g) /\ (EnablingStep(t) \/ DisablingStep(t))
<1>1. ThreadTypes /\ ObjTypes
  BY DEF Shape
<1>2. g = on[t]
  BY OneObject
<1>3. ~PlainStep(t) /\ ~SchedulingStep(t)
  BY <1>1, OutsideObjects
<1>4. /\ ~Select(t) /\ ~SelectCall(t) /\ ~CallStep(t)
      /\ ~EnableOther(t) /\ ~EnableSchedule(t)
  BY KeepsObjects
<1>5. ~EnableSemWait(t)
  <2> SUFFICES ASSUME EnableSemWait(t) PROVE FALSE
    OBVIOUS
  <2>1. \E sem, parts, w : Becomes(g, sem, parts, obj[g].m_pAlt, w)
    BY <1>1, <1>2, BarrierEffects, Zenon
  <2> QED
    BY <2>1 DEF Becomes, Changed
<1>6. EnablingStep(t) \/ DisablingStep(t)
  BY <1>3, <1>4, <1>5 DEF Acts, EntryStep
<1>7. Free(on[t])
  BY <1>6, Zenon
  DEF EnablingStep, EnableOne2One, EnableMany2One, EnableRegister, EnableReady,
      DisablingStep, DisableOne2One, DisableMany2One, DisableBarrier2, Locks
<1> QED
  BY <1>2, <1>6, <1>7

LEMMA AltOrNull ==
  ASSUME ObjTypes, NEW g \in Guards
  PROVE  obj[g].m_pAlt \in Threads \cup {"null"}
BY Classes DEF ObjTypes, One2OneType, Many2OneType, Barrier2Type, OrNull

(* Whoever is about to call schedule has an alternative to call it of. *)
Addressed ==
  \A t \in Threads : pc[t] \in {"sched", "resched"} =>
    on[t] \in Guards /\ obj[on[t]].m_pAlt # "null"

LEMMA NextAddressed ==
  ASSUME Shape, Addressed, NEW t \in Threads, Acts(t)
  PROVE  Addressed'
<1> SUFFICES ASSUME NEW u \in Threads, pc'[u] \in {"sched", "resched"}
             PROVE  on'[u] \in Guards /\ obj'[on'[u]].m_pAlt # "null"
  BY DEF Addressed
<1>1. ThreadTypes /\ ObjTypes
  BY DEF Shape
<1>2. ASSUME NEW place, NEW g, Goto(t, place, g) PROVE pc'[t] = place /\ on'[t] = g
  BY <1>1, <1>2 DEF Goto, ThreadTypes
<1>3. CASE u # t
  <2>1. pc'[u] = pc[u] /\ on'[u] = on[u]
    BY <1>3, ActsStay DEF Stays
  <2>2. ~Free(on[u]) /\ on[u] \in Guards /\ obj[on[u]].m_pAlt # "null"
    BY <2>1 DEF Addressed, Free
  <2> QED
    BY <2>1, <2>2, KeepsAlt
<1>4. CASE u = t
  <2>1. CASE PlainStep(t) \/ SchedulingStep(t)
    <3>1. on'[t] = on[t] /\ on[t] \in Guards /\ obj'[on[t]].m_pAlt = obj[on[t]].m_pAlt
      BY <1>1, <2>1, PlainOn, OutsideObjects
    <3>2. WriteFirst(t) \/ WriteEnter(t) \/ SyncFirst(t)
      <4>1. ASSUME \E place \in {"read_wait", "return", "wait", "read_mx", "handoff",
                                 "sync_sem"} : Goto(t, place, on[t])
            PROVE  FALSE
        BY <1>2, <1>4, <4>1
      <4> QED
        BY <2>1, <4>1, Zenon
        DEF PlainStep, SchedulingStep, ReadFirst, ReadSecond, ReadWake,
            WriteSchedule, WriteSecond, WriteWake, ReadEnter, ReadWait, ReadCopy,
            WriteScheduleAll, WriteRetry, WriteSignal, LoopTest, SemWait, SyncSchedule,
            SyncSecond, SyncWake
    <3>3. obj[on[t]].m_pAlt # "null"
      <4>1. CASE WriteFirst(t)
        BY <1>2, <1>4, <4>1 DEF WriteFirst
      <4>2. CASE SyncFirst(t)
        BY <1>2, <1>4, <4>2 DEF SyncFirst
      <4>3. CASE WriteEnter(t)
        BY <1>1, <1>4, <4>3, AfterWriter, Zenon DEF Goes, WriteScheduleAll, WriteRetry,
           WriteSignal, WriteEnter, Resumes, Locks, At
      <4> QED
        BY <3>2, <4>1, <4>2, <4>3
    <3> QED
      BY <1>4, <3>1, <3>3
  <2>2. CASE EnableOther(t)
    <3>1. on'[t] = on[t] /\ on[t] \in Guards /\ obj[on[t]].m_pAlt # "null"
      BY <1>2, <2>2, Classes DEF EnableOther, Locks, At
    <3> QED
      BY <1>4, <2>2, <3>1, KeepsObjects
  <2>3. ASSUME Passes(t), ~EnableOther(t) PROVE FALSE
    <3>1. pc'[t] \in Outer /\ pc'[t] = "resched"
      BY <1>4, <2>3, PassesOuter DEF Outer, AltPlaces
    <3>2. CASE EnablingStep(t) \/ EnableSchedule(t)
      <4>1. \E ready : LeaveEnable(t, ready)
        BY <3>2, Zenon
        DEF EnablingStep, EnableOne2One, EnableMany2One, EnableRegister, EnableReady,
            EnableDone, EnableSchedule
      <4> QED
        BY <1>2, <3>1, <4>1 DEF LeaveEnable
    <3>3. CASE DisablingStep(t)
      BY <1>2, <3>1, <3>3
      DEF DisablingStep, DisableOne2One, DisableMany2One, DisableBarrier2, DisableDone
    <3>4. CASE EnableSemWait(t) \/ Select(t) \/ SelectCall(t) \/ CallStep(t)
      BY <1>2, <3>1, <3>4
      DEF EnableSemWait, Select, SelectTest, SelectCheck, SelectWake, SelectReturn,
          StartDisabling, SelectCall, CallStep, ReadCall, WriteCall, SyncCall, Call, Return
    <3> QED
      BY <2>3, <3>2, <3>3, <3>4 DEF Passes, EntryStep
  <2> QED
    BY <2>1, <2>2, <2>3 DEF Acts, Passes
<1> QED
  BY <1>3, <1>4
-----------------------------------------------------------------------------
(* A thread that is registered, and is not ready, is in its select. *)
LEMMA RegisteredLists ==
  ASSUME Shape, NEW a \in Threads, NEW g \in Guards, obj[g].m_pAlt = a
  PROVE  pc[a] \in AltPlaces /\ Lists(a, g)
<1>1. PICK i \in Undone(a) : alt[a].m_c[i + 1] = g
  BY DEF Shape, Registered
<1>2. /\ pc[a] \in AltPlaces /\ i \in UpTo(a) /\ alt[a] \in AltType
      /\ alt[a].m_c \in Choices[a] /\ alt[a].bound < Len(alt[a].m_c)
  BY <1>1 DEF Undone, Shape, AltShape
<1>3. Len(alt[a].m_c) \in Nat /\ alt[a].bound \in Nat
  BY <1>2, ChoiceList DEF AltType
<1>4. i \in 0 .. Len(alt[a].m_c) - 1
  BY <1>2, <1>3 DEF UpTo
<1> QED
  BY <1>1, <1>2, <1>4 DEF Lists

(* Nobody else reads a channel while its reader is in select. *)
LEMMA NoOtherReader ==
  ASSUME Fits, NEW a \in Threads, pc[a] \in AltPlaces, NEW c \in Channels, Lists(a, c)
  PROVE  /\ c \in Reads[a]
         /\ \A r \in Threads : on[r] = c => pc[r] \notin {"read", "read_mx", "read_wait"}
<1>1. c \in Reads[a]
  BY ListedEnds, HeldEnds DEF Lists
<1>2. ASSUME NEW r \in Threads, on[r] = c, pc[r] \in {"read", "read_mx", "read_wait"}
      PROVE  FALSE
  <2>1. c \in Reads[r]
    BY <1>2 DEF Fits, Ends
  <2> QED
    BY <1>1, <1>2, <2>1, HeldEnds DEF AltPlaces
<1> QED
  BY <1>1, <1>2

(* An alternative that is scheduled by somebody who waits ... *)
LEMMA ScheduledPartner ==
  ASSUME Shape, BarrierShape, Fits, Handshakes, Queues, NEW t \in Threads,
         SchedulingStep(t), NEW a \in Threads, a = obj[on[t]].m_pAlt,
         alt'[a].m_selector = on[t]
  PROVE  Partner(a)'
<1> PICK g : g = on[t]
  OBVIOUS
<1>1. ThreadTypes /\ ObjTypes /\ g \in Guards /\ pc[t] = "sched"
  BY Classes DEF Shape, SchedulingStep, WriteSchedule, WriteScheduleAll,
     SyncSchedule, At
<1>2. pc[a] \in AltPlaces /\ Lists(a, g) /\ a # t
  BY <1>1, RegisteredLists DEF AltPlaces
<1>3. CASE WriteSchedule(t)
  <2>1. g \in One2Ones /\ obj'[g].m_bEmpty = obj[g].m_bEmpty
    BY <1>1, <1>3, AfterWriteSchedule DEF Shows
  <2>2. ~obj[g].m_bEmpty
    BY <1>1, <2>1 DEF Handshakes, Handshake
  <2> QED
    BY <2>1, <2>2 DEF Partner
<1>4. CASE WriteScheduleAll(t)
  <2>1. g \in Many2Ones /\ g \in Channels
    BY <1>4 DEF WriteScheduleAll, At, Channels
  <2>2. ~obj[g].m_bReader
    <3>1. \A r \in Threads : ~InRead(r, g)
      BY <1>2, <2>1, NoOtherReader DEF InRead
    <3> QED
      BY <2>1, <3>1, Zenon DEF Queues, Queue
  <2>3. Goes(t, "sched", "wait")
    BY <1>1, <1>4, <2>2, AfterWriter, Zenon
    DEF Goes, WriteEnter, WriteSignal, Resumes, Locks, At
  <2>4. Committed(t, g)'
    BY <2>1, <2>3 DEF Committed, Goes
  <2> QED
    BY <1>2, <2>1, <2>4, Classes DEF Partner
<1>5. CASE SyncSchedule(t)
  <2>1. g \in Barriers
    BY <1>5 DEF SyncSchedule, At
  <2>2. on'[t] = g /\ pc'[t] = "wait"
    BY <1>1, <1>5, SyncMoves DEF SyncStep
  <2>3. \E sem, parts, p : Becomes(g, sem, parts, p, obj[g].cond \cup {t})
    BY <1>1, <1>5, BarrierEffects
  <2>4. Committed(t, g)'
    BY <2>2, <2>3 DEF Committed, Becomes, Changed
  <2> QED
    BY <1>2, <2>1, <2>4, Classes DEF Partner
<1> QED
  BY <1>3, <1>4, <1>5 DEF SchedulingStep

(* ... that finds its guard ready, or that schedules another. *)
LEMMA EnabledPartner ==
  ASSUME Shape, BarrierShape, Addressed, NEW t \in Threads, Acts(t),
         NEW a \in Threads, ~Ready(a), Ready(a)', ~SchedulingStep(t)
  PROVE  Partner(a)'
<1> PICK g, o : g = on[t] /\ o = obj[g].m_pAlt
  OBVIOUS
<1>1. /\ alt'[a].m_selector = g
      /\ \/ EnableOne2One(t) /\ a = t /\ ~obj[g].m_bEmpty
         \/ EnableReady(t) /\ a = t
         \/ EnableSchedule(t) /\ a \in {t, o} /\ ScheduleResult(alt[o])
  BY GetsReady
<1>2. ThreadTypes /\ ObjTypes /\ alt \in [Threads -> AltType] /\ AltShape(t)
  BY DEF Shape
<1>3. CASE EnableOne2One(t)
  <2>1. g \in One2Ones /\ ~obj[g].m_bEmpty
    BY <1>1, <1>3, Classes DEF EnableOne2One, EnableReady, EnableSchedule, Locks, At
  <2>2. obj'[g].m_bEmpty = obj[g].m_bEmpty
    BY <1>2, <1>3, AfterEnableOne2One DEF Shows
  <2> QED
    BY <1>1, <2>1, <2>2 DEF Partner
<1>4. CASE EnableReady(t)
  <2>1. g \in Barriers /\ pc[t] = "entered" /\ Free(g) /\ obj[g].m_parts # 0
    BY <1>4 DEF EnableReady, Locks, At
  <2>2. a = t
    BY <1>1, <1>4, <2>1 DEF EnableOne2One, EnableSchedule, Locks, At
  <2>3. PICK v \in Threads : Counted(v, g)
    <3>1. obj[g].m_parts = Cardinality({v \in Threads : Counted(v, g)})
      BY <2>1, Zenon DEF BarrierShape, Parties
    <3> QED
      BY <2>1, <3>1, FS_EmptySet
  <2>4. v \in obj[g].cond /\ on[v] = g /\ pc[v] = "wait" /\ v # t
    BY <2>1, <2>3, Zenon DEF Counted, Free, BarrierShape, Parties
  <2>5. Becomes(g, obj[g].m_sem, obj[g].m_parts, "null", obj[g].cond)
    BY <1>2, <1>4, BarrierEffects, Zenon
  <2>6. v \in obj'[g].cond /\ on'[v] = g /\ pc'[v] = "wait"
    BY <2>4, <2>5, ActsStay DEF Becomes, Changed, Stays
  <2>7. Committed(v, g)'
    BY <2>6 DEF Committed
  <2> QED
    BY <1>1, <2>1, <2>2, <2>4, <2>7, Classes DEF Partner
<1>5. CASE EnableSchedule(t)
  <2>1. g \in Barriers /\ g \in Guards /\ pc[t] = "resched" /\ AltFree(o)
    BY <1>5, Classes DEF EnableSchedule, At
  <2>2. ScheduleResult(alt[o]) /\ a \in {t, o}
    BY <1>1, <1>5, <2>1, Classes DEF EnableOne2One, EnableReady, Locks, At
  <2>3. o \in Threads \ {t}
    <3>1. o # "null"
      BY <2>1 DEF Addressed
    <3> QED
      BY <1>2, <2>1, <3>1, AltOrNull DEF AltFree
  <2>4. /\ alt'[o] = schedule(alt[o], g)
        /\ alt'[t] = AfterEnable(alt[t], ScheduleResult(alt[o]))
    BY <1>2, <1>5, <2>3 DEF EnableSchedule
  <2>5. alt'[o].m_state = "eReady" /\ alt'[o].m_selector = g
    BY <1>2, <2>2, <2>3, <2>4 DEF schedule, AltType
  <2>6. g = alt[t].m_c[alt[t].bound + 1]
    BY <1>2, <2>1 DEF AltShape
  <2>7. alt'[t].m_state = "eReady" /\ alt'[t].m_selector = g
    BY <1>2, <2>2, <2>4, <2>6, Zenon DEF AfterEnable, AltType
  <2>8. Committed(t, g)' /\ Committed(o, g)'
    BY <2>5, <2>7 DEF Committed, Ready
  <2> QED
    BY <1>1, <2>1, <2>2, <2>3, <2>8, Classes DEF Partner
<1> QED
  BY <1>1, <1>3, <1>4, <1>5

LEMMA NextPartners ==
  ASSUME Shape, BarrierShape, Permits, Fits, Handshakes, Queues, Addressed, Partners,
         NEW t \in Threads, Acts(t)
  PROVE  Partners'
<1> SUFFICES ASSUME NEW a \in Threads, Ready(a)' PROVE Partner(a)'
  BY DEF Partners, Partner
<1>1. CASE ~Ready(a) /\ SchedulingStep(t)
  <2>1. alt'[a].m_selector = on[t] /\ a = obj[on[t]].m_pAlt
    BY <1>1, GetsReady, Zenon
    DEF SchedulingStep, WriteSchedule, WriteScheduleAll, SyncSchedule, EnableOne2One,
        EnableReady, EnableSchedule, Locks, At
  <2> QED
    BY <1>1, <2>1, ScheduledPartner
<1>2. CASE ~Ready(a) /\ ~SchedulingStep(t)
  BY <1>2, EnabledPartner
<1>3. CASE Ready(a)
  <2> PICK g : g = alt[a].m_selector
    OBVIOUS
  <2>1. ASSUME a = t, SelectReturn(t) PROVE FALSE
    BY <2>1 DEF Shape, SelectReturn, NoAlternative, NewAlternative, Ready
  <2>2. alt'[a].m_selector = g
    BY <1>3, <2>1, StaysReady
  <2>3. pc[a] \in AltPlaces /\ g \in Guards /\ (g \in Channels => g \in Reads[a])
    BY <1>3, ReadyHolds
  <2>4. CASE g \in One2Ones
    BY <1>3, <2>2, <2>4, One2OnePartner DEF Partners, Partner
  <2>5. CASE g \in Many2Ones
    <3>1. g \in Reads[a]
      BY <2>3, <2>5 DEF Channels
    <3>2. PICK u \in Threads \ {a} : Committed(u, g)
      BY <1>3, <2>5, Classes DEF Partners, Partner
    <3>3. on[u] = g /\ pc[u] \in {"sched", "wait"}
      BY <2>5, <3>1, <3>2, CommittedWrites
    <3>4. on'[u] = g /\ pc'[u] \in {"sched", "wait"}
      BY <2>3, <2>5, <3>1, <3>3, Many2OneStays
    <3>5. Committed(u, g)'
      BY <2>5, <3>4 DEF Committed
    <3> QED
      BY <2>2, <2>5, <3>2, <3>5, Classes DEF Partner
  <2>6. CASE g \in Barriers
    <3>1. PICK u \in Threads \ {a} : Committed(u, g)
      BY <1>3, <2>6, Classes DEF Partners, Partner
    <3>2. Committed(u, g)'
      BY <1>3, <2>6, <3>1, Barrier2Stays
    <3> QED
      BY <2>2, <2>6, <3>1, <3>2, Classes DEF Partner
  <2> QED
    BY <2>3, <2>4, <2>5, <2>6, Classes
<1> QED
  BY <1>1, <1>2, <1>3
-----------------------------------------------------------------------------
Meetings ==
  /\ Shape /\ BarrierShape /\ Permits /\ Fits
  /\ Handshakes /\ Queues /\ Addressed /\ Partners

LEMMA InitMeetings == Init => Meetings
<1> SUFFICES ASSUME Init PROVE Meetings
  OBVIOUS
<1>1. Permits /\ Addressed
  BY Classes DEF Init, Permits, Addressed, NewBarrier2
<1>2. Handshakes
  <2> SUFFICES ASSUME NEW c \in One2Ones PROVE Handshake(c)
    BY DEF Handshakes
  <2>1. obj[c] = NewOne2One /\ \A t \in Threads : pc[t] = "idle"
    BY Classes DEF Init
  <2> QED
    BY <2>1 DEF Handshake, NewOne2One, Reading, Writing
<1>3. Queues
  <2> SUFFICES ASSUME NEW c \in Many2Ones PROVE Queue(c)
    BY DEF Queues
  <2>1. obj[c] = NewMany2One /\ \A t \in Threads : pc[t] = "idle"
    BY Classes DEF Init
  <2>2. {t \in Threads : InWrite(t, c)} = {}
    BY <2>1 DEF InWrite
  <2> QED
    BY <2>1, <2>2, FS_EmptySet DEF Queue, NewMany2One
<1>4. Partners
  BY DEF Init, Partners, Partner, Ready, NoAlternative, NewAlternative
<1> QED
  BY <1>1, <1>2, <1>3, <1>4, InitShape, InitBarriers, InitFits DEF Meetings

LEMMA NextMeetings == Meetings /\ [Next]_vars => Meetings'
<1> SUFFICES ASSUME Meetings, [Next]_vars PROVE Meetings'
  OBVIOUS
<1>1. Shape' /\ BarrierShape' /\ Fits'
  BY NextShape, NextBarriers, NextFits DEF Meetings
<1>2. CASE UNCHANGED vars
  <2>1. Permits' /\ Addressed' /\ Partners'
    BY <1>2
    DEF vars, Meetings, Permits, Addressed, Partners, Partner, Ready, Committed
  <2>2. Handshakes'
    BY <1>2 DEF vars, Meetings, Handshakes, Handshake, Reading, Writing
  <2>3. Queues'
    <3> SUFFICES ASSUME NEW c \in Many2Ones PROVE Queue(c)'
      BY DEF Queues
    <3>1. \A t \in Threads : /\ InWrite(t, c)' <=> InWrite(t, c)
                             /\ InRead(t, c)' <=> InRead(t, c)
      BY <1>2 DEF vars, InWrite, InRead
    <3>2. {t \in Threads : InWrite(t, c)'} = {t \in Threads : InWrite(t, c)}
      BY <3>1
    <3> QED
      BY <1>2, <3>1, <3>2 DEF vars, Meetings, Queues, Queue
  <2> QED
    BY <1>1, <2>1, <2>2, <2>3 DEF Meetings
<1>3. CASE Next
  <2>1. PICK t \in Threads : Acts(t)
    BY <1>3, NextActs
  <2> QED
    BY <1>1, <2>1, NextSems, NextHandshakes, NextQueues, NextAddressed, NextPartners
    DEF Meetings
<1> QED
  BY <1>2, <1>3

LEMMA MeetingsHold == SafeSpec => []Meetings
BY InitMeetings, NextMeetings, PTL DEF SafeSpec

(* However threads interleave, once an alternative is ready its selector   *)
(* names a guard to which another thread is committed and where no third   *)
(* can get in between: the read or sync that follows select does not block *)
(* for ever.                                                               *)
THEOREM SelectedMeets == SafeSpec => []SelectedHasPartner
<1>1. Meetings => SelectedHasPartner
  <2> SUFFICES ASSUME Meetings, NEW a \in Threads, Ready(a), NEW g, g = alt[a].m_selector
               PROVE  /\ \E t \in Threads \ {a} : Committed(t, g)
                      /\ g \in One2Ones => ~obj[g].m_bEmpty
                      /\ g \in Barriers => obj[g].m_sem = 0
    BY DEF SelectedHasPartner
  <2>1. /\ pc[a] \in AltPlaces /\ g \in Guards /\ Lists(a, g) /\ Holds(a, g)
        /\ g \in Channels => g \in Reads[a]
    BY ReadyHolds DEF Meetings
  <2>2. CASE g \in One2Ones
    <3>1. ~obj[g].m_bEmpty /\ Handshake(g)
      BY <2>2 DEF Meetings, Partners, Partner, Handshakes
    <3>2. \A r \in Threads : ~Reading(r, g)
      BY <2>1, <2>2, NoOtherReader DEF Meetings, Reading, Channels
    <3>3. PICK w \in Threads : Writing(w, g)
      BY <3>1, <3>2 DEF Handshake
    <3>4. w # a /\ Committed(w, g)
      BY <2>1, <3>3 DEF Writing, Committed, AltPlaces
    <3> QED
      BY <2>2, <3>1, <3>4, Classes
  <2>3. CASE g \in Many2Ones
    BY <2>3, Classes DEF Meetings, Partners, Partner
  <2>4. CASE g \in Barriers
    <3>1. PICK u \in Threads \ {a} : Committed(u, g)
      BY <2>4, Classes DEF Meetings, Partners, Partner
    <3>2. Holds(u, g)
      BY <2>4, <3>1, CommittedHolds DEF Meetings
    <3> DEFINE S == {x \in Threads : Holds(x, g)}
    <3>3. IsFiniteSet(S) /\ {a, u} \subseteq S
      BY <2>1, <3>1, <3>2, AlternativeAssumption, FS_Subset
    <3>4. IsFiniteSet({a, u}) /\ Cardinality({a, u}) = 2
      <4>1. IsFiniteSet({a}) /\ Cardinality({a}) = 1
        BY FS_Singleton
      <4>2. {a} \cup {u} = {a, u} /\ u \notin {a}
        BY <3>1
      <4> QED
        BY <4>1, <4>2, FS_AddElement
    <3>5. 2 <= Cardinality(S) /\ Cardinality(S) \in Nat
      BY <3>3, <3>4, FS_Subset, FS_CardinalityType
    <3>6. obj[g].m_sem \in Nat /\ obj[g].m_sem + Cardinality(S) = 2
      BY <2>4 DEF Meetings, Permits, BarrierShape, Account
    <3>7. obj[g].m_sem = 0
      BY <3>5, <3>6
    <3> QED
      BY <2>4, <3>1, <3>7, Classes
  <2> QED
    BY <2>1, <2>2, <2>3, <2>4, Classes
<1> QED
  BY <1>1, MeetingsHold, PTL

(* Threads that hold mutexes and places and wait for one another are never *)
(* all of those they wait for, unless the lists they choose from put some  *)
(* barriers in a circle: without such lists nothing here deadlocks.        *)
THEOREM OnlyCirclesDeadlock == SafeSpec => []OnlyCrossingDeadlocks
<1>1. Meetings => OnlyCrossingDeadlocks
  BY StuckCross DEF Meetings, OnlyCrossingDeadlocks
<1> QED
  BY <1>1, MeetingsHold, PTL

(* A party that waits holds a place, and so does an alternative that is    *)
(* registered: an enable that finds a party finds no other alternative.    *)
LEMMA PartyAlone ==
  ASSUME Shape, BarrierShape, Permits, NEW a \in Threads,
         At(a, "entered", Barriers), obj[on[a]].m_parts # 0
  PROVE  obj[on[a]].m_pAlt = "null"
<1> DEFINE b == on[a]
           o == obj[b].m_pAlt
<1>1. b \in Barriers /\ b \in Guards /\ ObjTypes /\ o \in OrNull(Threads)
  BY Classes, Zenon DEF At, Shape, ObjTypes, Barrier2Type
<1>2. Holds(a, b)
  <2>1. alt[a].bound \in Nat /\ b = alt[a].m_c[alt[a].bound + 1]
    BY DEF At, Shape, AltShape, AltType
  <2>2. alt[a].bound \in Enabled(a)
    BY <2>1 DEF Enabled, At
  <2> QED
    BY <2>1, <2>2 DEF Holds
<1>3. PICK t \in Threads : Counted(t, b)
  <2> SUFFICES ASSUME \A t \in Threads : ~Counted(t, b) PROVE FALSE
    OBVIOUS
  <2>1. {t \in Threads : Counted(t, b)} = {}
    OBVIOUS
  <2>2. obj[b].m_parts = Cardinality({t \in Threads : Counted(t, b)})
    BY <1>1 DEF BarrierShape, Parties
  <2> QED
    BY <2>1, <2>2, FS_EmptySet
<1>4. t # a /\ pc[t] \in {"sched", "wait"} /\ Holds(t, b)
  BY <1>1, <1>3 DEF Counted, BarrierShape, Parties, Holds, At
<1> SUFFICES ASSUME o \in Threads PROVE FALSE
  BY <1>1 DEF OrNull
<1>5. Holds(o, b) /\ pc[o] \in AltPlaces
  <2>1. PICK i \in Undone(o) : alt[o].m_c[i + 1] = b
    BY <1>1 DEF Shape, Registered
  <2>2. i \in UpTo(o) /\ pc[o] \in AltPlaces \ {"selected"}
        /\ (pc[o] = "disable" => alt[o].pos <= i)
        /\ alt[o].bound \in Nat /\ alt[o].pos \in Nat
    BY <2>1 DEF Undone, Shape, AltType
  <2>3. i \in Enabled(o)
    <3>1. CASE pc[o] = "test" \/ pc[o] = "enable"
      BY <2>2, <3>1 DEF UpTo, Enabled
    <3>2. CASE pc[o] \in {"entered", "resched"}
      BY <2>2, <3>2 DEF UpTo, Enabled
    <3>3. CASE pc[o] \in {"check", "asleep"}
      BY <2>2, <3>3 DEF UpTo, Enabled
    <3>4. CASE pc[o] = "disable"
      BY <2>2, <3>4 DEF UpTo, Enabled
    <3> QED
      BY <2>2, <3>1, <3>2, <3>3, <3>4 DEF AltPlaces
  <2> QED
    BY <2>1, <2>2, <2>3 DEF Holds
<1>6. o # a
  BY <1>1, Passed DEF At, AltFree
<1>7. o # t
  BY <1>4, <1>5 DEF AltPlaces
<1> QED
  BY <1>1, <1>2, <1>4, <1>5, <1>6, <1>7, NoThirdHolder

(* When enable clears m_pAlt because a party waits there is no alternative *)
(* registered that would miss it.                                          *)
THEOREM NobodyIsCleared == SafeSpec => []ClearsNobody
<1>1. Meetings => ClearsNobody
  BY PartyAlone DEF Meetings, ClearsNobody
<1> QED
  BY <1>1, MeetingsHold, PTL
-----------------------------------------------------------------------------
(* What select's variables are worth while they are not in use, and what   *)
(* they stay below.                                                        *)
Rests(a) ==
  LET r == alt[a] IN
  /\ ~Choosing(a) => r = NoAlternative
  /\ Choosing(a) => r.pos < Len(r.m_c) /\ r.selected <= Len(r.m_c)
  /\ ~Ready(a) => r.m_selector = "undef"
  /\ pc[a] \in {"check", "asleep"} /\ ~Ready(a) => r.bound + 1 = Len(r.m_c)

AllRest == \A a \in Threads : Rests(a)

LEMMA EnabledRests ==
  ASSUME Shape, NEW a \in Threads, Rests(a), NEW ready \in BOOLEAN,
         pc[a] \in {"enable", "entered", "resched"},
         alt'[a] = AfterEnable(alt[a], ready),
         pc'[a] = IF ~ready /\ alt[a].bound + 1 < Len(alt[a].m_c) THEN "test" ELSE "check"
  PROVE  Rests(a)'
<1> DEFINE r == alt[a]
<1>1. /\ r \in AltType /\ r.m_state = "eEnabling" /\ r.m_c \in Choices[a]
      /\ r.bound \in Nat /\ r.bound < Len(r.m_c)
  BY DEF Shape, AltShape, AltPlaces, AltType
<1>2. Len(r.m_c) \in Nat
  BY <1>1, ChoiceList
<1>3. r.pos < Len(r.m_c) /\ r.selected <= Len(r.m_c) /\ r.m_selector = "undef"
  BY <1>1 DEF Rests, Choosing, Ready
<1>4. CASE ready
  BY <1>1, <1>3, <1>4 DEF AfterEnable, Rests, Choosing, Ready, AltType
<1>5. CASE ~ready
  <2>1. r.bound + 1 < Len(r.m_c) \/ r.bound + 1 = Len(r.m_c)
    BY <1>1, <1>2
  <2>2. /\ alt'[a].m_c = r.m_c /\ alt'[a].m_state = r.m_state
        /\ alt'[a].pos = r.pos /\ alt'[a].selected = r.selected
        /\ alt'[a].m_selector = r.m_selector
        /\ r.bound + 1 = Len(r.m_c) => alt'[a].bound = r.bound
    BY <1>1, <1>2, <1>5 DEF AfterEnable, AltType
  <2> QED
    BY <1>1, <1>2, <1>3, <1>5, <2>1, <2>2 DEF Rests, Choosing, Ready
<1> QED
  BY <1>4, <1>5

LEMMA OwnRests ==
  ASSUME Shape, NEW t \in Threads, Acts(t), Rests(t)
  PROVE  Rests(t)'
<1> DEFINE r == alt[t]
<1>1. /\ alt \in [Threads -> AltType] /\ ThreadTypes /\ AltShape(t) /\ r \in AltType
      /\ r.bound \in Nat /\ r.pos \in Nat
  BY DEF Shape, AltType
<1>2. pc[t] \in AltPlaces => r.m_c \in Choices[t] /\ Len(r.m_c) \in Nat \ {0} /\ Choosing(t)
  BY <1>1, ChoiceList DEF AltShape, Choosing
<1>3. ASSUME NEW place, NEW g, Goto(t, place, g) PROVE pc'[t] = place
  BY <1>1, <1>3 DEF Goto, ThreadTypes
<1>4. CASE PlainStep(t) \/ SchedulingStep(t)
  <2>1. pc[t] \notin AltPlaces /\ pc'[t] \notin AltPlaces
    BY <1>1, <1>4, OutsideMoves DEF MovedOutside
  <2>2. alt'[t] = r
    <3>1. CASE PlainStep(t)
      BY <3>1, Zenon
      DEF PlainStep, ReadFirst, ReadSecond, ReadWake, WriteFirst, WriteSecond, WriteWake,
          ReadEnter, ReadWait, ReadCopy, WriteEnter, WriteRetry, WriteSignal,
          SemWait, SyncFirst, SyncSecond, SyncWake
    <3>2. CASE SchedulingStep(t)
      <4>1. CallSchedule(t)
        BY <3>2 DEF SchedulingStep, WriteSchedule, WriteScheduleAll, SyncSchedule
      <4>2. ~Choosing(t)
        BY <1>1, <2>1 DEF AltShape, Choosing
      <4>3. schedule(r, on[t]) = r
        BY <4>2 DEF schedule, ScheduleResult, Choosing
      <4> QED
        BY <1>1, <4>1, <4>3 DEF CallSchedule
    <3> QED
      BY <1>4, <3>1, <3>2
  <2> QED
    BY <2>1, <2>2 DEF Rests, Choosing, Ready, AltPlaces
<1>5. CASE EnablingStep(t)
  <2>1. PICK ready \in BOOLEAN : EnableDone(t, ready)
    BY <1>5, Zenon DEF EnablingStep, EnableOne2One, EnableMany2One,
       EnableRegister, EnableReady
  <2>2. pc[t] \in {"enable", "entered", "resched"}
    BY <1>5, Zenon
    DEF EnablingStep, EnableOne2One, EnableMany2One, EnableRegister, EnableReady, Locks, At
  <2> QED
    BY <1>1, <2>1, <2>2, EnableDoneMoves, EnabledRests
<1>6. CASE EnableSchedule(t)
  <2> DEFINE o == obj[on[t]].m_pAlt
             ready == ScheduleResult(alt[o])
  <2>1. ready \in BOOLEAN
    BY DEF ScheduleResult
  <2>2. pc[t] = "resched" /\ o # t
    BY <1>6 DEF EnableSchedule, At, AltFree
  <2>3. alt'[t] = AfterEnable(r, ready)
    BY <1>1, <1>6, <2>1, <2>2 DEF EnableSchedule
  <2>4. pc'[t] = IF ~ready /\ r.bound + 1 < Len(r.m_c) THEN "test" ELSE "check"
    BY <1>3, <1>6 DEF EnableSchedule, LeaveEnable
  <2> HIDE DEF ready
  <2> QED
    BY <2>1, <2>2, <2>3, <2>4, EnabledRests
<1>7. CASE EnableSemWait(t) \/ EnableOther(t)
  BY <1>3, <1>7 DEF EnableSemWait, EnableOther, Rests, Choosing, Ready
<1>8. CASE DisablingStep(t)
  <2>1. pc[t] = "disable" /\ DisableDone(t)
    BY <1>8 DEF DisablingStep, DisableOne2One, DisableMany2One,
       DisableBarrier2, Locks, At
  <2>2. pc'[t] \in {"disable", "selected"}
    BY <1>3, <2>1 DEF DisableDone
  <2>3. /\ alt'[t].m_state = r.m_state /\ alt'[t].m_c = r.m_c
        /\ alt'[t].selected \in {r.pos, r.selected}
        /\ alt'[t].pos = IF r.pos < r.bound THEN r.pos + 1 ELSE r.pos
    BY <1>1, <2>1 DEF DisableDone, AltType
  <2>4. r.bound < Len(r.m_c) /\ r.m_state = "eReady" /\ r.pos < Len(r.m_c)
        /\ r.selected <= Len(r.m_c)
    BY <1>1, <1>2, <2>1 DEF AltShape, AltPlaces, Rests
  <2>5. alt'[t].pos < Len(r.m_c) /\ alt'[t].selected <= Len(r.m_c)
    BY <1>1, <1>2, <2>1, <2>3, <2>4 DEF AltPlaces
  <2> QED
    BY <2>2, <2>3, <2>4, <2>5 DEF Rests, Choosing, Ready
<1>9. CASE SelectTest(t) \/ (SelectCheck(t) /\ r.m_state = "eEnabling")
  <2>1. /\ pc[t] \in {"test", "check"} /\ pc'[t] \in {"enable", "check", "asleep"}
        /\ alt'[t].m_c = r.m_c /\ alt'[t].pos = r.pos /\ alt'[t].selected = r.selected
        /\ alt'[t].m_selector = r.m_selector
        /\ pc'[t] = "check" => Ready(t)
        /\ pc'[t] = "asleep" => pc[t] = "check" /\ ~Ready(t) /\ alt'[t].bound = r.bound
        /\ Ready(t)' <=> Ready(t)
    <3>1. CASE SelectTest(t)
      BY <1>1, <1>3, <3>1 DEF SelectTest, Ready, AltType
    <3>2. CASE SelectCheck(t) /\ r.m_state = "eEnabling"
      BY <1>1, <1>3, <3>2 DEF SelectCheck, Ready, AltType
    <3> QED
      BY <1>9, <3>1, <3>2
  <2>2. Choosing(t)
    BY <1>2, <2>1 DEF AltPlaces
  <2>3. Choosing(t)'
    <3>1. CASE SelectTest(t)
      BY <1>1, <2>2, <3>1 DEF SelectTest, Choosing, AltType
    <3>2. CASE SelectCheck(t) /\ r.m_state = "eEnabling"
      BY <1>1, <3>2 DEF SelectCheck, Choosing, AltType
    <3> QED
      BY <1>9, <3>1, <3>2
  <2> QED
    BY <2>1, <2>2, <2>3 DEF Rests
<1>10. CASE (SelectCheck(t) /\ r.m_state # "eEnabling") \/ SelectWake(t)
  <2>1. StartDisabling(t) /\ pc[t] \in {"check", "asleep"}
    BY <1>10 DEF SelectCheck, SelectWake
  <2>2. r.m_state = "eReady"
    BY <1>1, <1>10, <2>1 DEF SelectCheck, SelectWake, AltShape, AltType, AltPlaces
  <2>3. /\ alt'[t].m_state = "eReady" /\ alt'[t].m_c = r.m_c
        /\ alt'[t].pos = 0 /\ alt'[t].selected = Len(r.m_c)
    BY <1>1, <2>1, <2>2 DEF StartDisabling, AltType
  <2> QED
    BY <1>2, <2>1, <2>3 DEF Rests, Choosing, Ready, AltPlaces
<1>11. CASE SelectReturn(t)
  BY <1>1, <1>3, <1>11
  DEF SelectReturn, Rests, Choosing, Ready, NoAlternative, NewAlternative
<1>12. CASE SelectCall(t)
  <2>1. PICK s \in Choices[t] : alt' = [alt EXCEPT ![t] = NewAlternative(s)]
    BY <1>12, Zenon DEF SelectCall
  <2>2. Len(s) \in Nat \ {0} /\ pc'[t] = "test"
    BY <1>3, <1>12, ChoiceList DEF SelectCall
  <2> QED
    BY <1>1, <2>1, <2>2 DEF Rests, Choosing, Ready, NewAlternative
<1>13. CASE CallStep(t)
  <2>1. UNCHANGED alt /\ pc'[t] \notin {"check", "asleep"}
    BY <1>3, <1>13 DEF CallStep, ReadCall, WriteCall, SyncCall, Call, Return
  <2> QED
    BY <2>1 DEF Rests, Choosing, Ready
<1> QED
  BY <1>4, <1>5, <1>6, <1>7, <1>8, <1>9, <1>10, <1>11, <1>12, <1>13
  DEF Acts, EntryStep, Select

LEMMA NextRests ==
  ASSUME Shape, AllRest, NEW t \in Threads, Acts(t)
  PROVE  AllRest'
<1> SUFFICES ASSUME NEW a \in Threads \ {t} PROVE Rests(a)'
  BY OwnRests DEF AllRest
<1>1. alt[a] \in AltType /\ Rests(a) /\ pc'[a] = pc[a]
  BY ActsStay DEF Shape, AllRest, Stays
<1>2. CASE alt'[a] = alt[a]
  BY <1>1, <1>2 DEF Rests, Choosing, Ready
<1>3. CASE alt'[a] # alt[a]
  <2>1. alt'[a] = schedule(alt[a], on[t])
    BY <1>3, OtherAlts
  <2>2. /\ alt'[a].m_state = "eReady" /\ alt'[a].m_c = alt[a].m_c
        /\ alt'[a].pos = alt[a].pos /\ alt'[a].selected = alt[a].selected
        /\ Choosing(a)
    BY <1>1, <1>3, <2>1 DEF schedule, ScheduleResult, AltType, Choosing
  <2> QED
    BY <1>1, <2>2 DEF Rests, Choosing, Ready
<1> QED
  BY <1>2, <1>3
-----------------------------------------------------------------------------
(* Whose buffer a read has copied. *)
Copies == got \in [Threads -> OrNull(Threads)]

LEMMA NextCopies ==
  ASSUME Shape, Copies, NEW t \in Threads, Acts(t)
  PROVE  Copies'
<1>1. ObjTypes
  BY DEF Shape
<1>2. CASE ReadSecond(t) \/ ReadWake(t) \/ ReadCopy(t)
  <2>1. obj[on[t]].m_pBuff \in OrNull(Threads)
    BY <1>1, <1>2
    DEF ObjTypes, One2OneType, Many2OneType, ReadSecond, ReadWake, ReadCopy, Resumes,
        Locks, At
  <2>2. got' = [got EXCEPT ![t] = obj[on[t]].m_pBuff]
    BY <1>2 DEF ReadSecond, ReadWake, ReadCopy
  <2> QED
    BY <2>1, <2>2 DEF Copies
<1>3. CASE Return(t)
  BY <1>3 DEF Return, Copies, OrNull
<1>4. CASE PlainStep(t) /\ ~(ReadSecond(t) \/ ReadWake(t) \/ ReadCopy(t))
  BY <1>4, Zenon
  DEF PlainStep, ReadFirst, WriteFirst, WriteSecond, WriteWake, ReadEnter, ReadWait,
      WriteEnter, WriteRetry, WriteSignal, SemWait, SyncFirst, SyncSecond, SyncWake,
      Copies
<1>5. CASE SchedulingStep(t) \/ (CallStep(t) /\ ~Return(t))
  BY <1>5
  DEF SchedulingStep, WriteSchedule, WriteScheduleAll, SyncSchedule, CallStep, ReadCall,
      WriteCall, SyncCall, Call, Copies
<1>6. CASE EnablingStep(t) \/ DisablingStep(t) \/ EntryStep(t) \/ Select(t) \/ SelectCall(t)
  BY <1>6, Zenon
  DEF EnablingStep, EnableOne2One, EnableMany2One, EnableRegister, EnableReady,
      EnableDone, DisablingStep, DisableOne2One, DisableMany2One, DisableBarrier2,
      DisableDone, EntryStep, EnableSemWait, EnableOther, EnableSchedule, Select,
      SelectTest, SelectCheck, SelectWake, SelectReturn, SelectCall, Copies
<1> QED
  BY <1>2, <1>3, <1>4, <1>5, <1>6 DEF Acts
-----------------------------------------------------------------------------
LEMMA RestsTyped ==
  ASSUME Shape, NEW a \in Threads, Rests(a)
  PROVE  AltTypeOK(a)
<1> DEFINE r == alt[a]
<1>1. /\ r \in AltType /\ AltShape(a) /\ r.asleep \in BOOLEAN
      /\ r.m_state \in {"eEnabling", "eWaiting", "eReady", "eInactive"}
      /\ r.bound \in Nat /\ r.pos \in Nat /\ r.selected \in Nat
  BY DEF Shape, AltType
<1>2. CASE Choosing(a)
  <2>1. pc[a] \in AltPlaces /\ r.m_c \in Choices[a] /\ r.bound < Len(r.m_c)
    BY <1>1, <1>2 DEF AltShape, Choosing
  <2>2. Len(r.m_c) \in Nat \ {0} /\ DOMAIN r.m_c = 1 .. Len(r.m_c)
    BY <2>1, ChoiceList
  <2>3. r.pos < Len(r.m_c) /\ r.selected <= Len(r.m_c)
    BY <1>2 DEF Rests
  <2>4. {r.bound, r.pos} \subseteq 0 .. Len(r.m_c) - 1 /\ r.selected \in 0 .. Len(r.m_c)
    BY <1>1, <2>1, <2>2, <2>3
  <2>5. r.m_selector \in {"undef"} \cup GuardsOf(a)
    <3>1. CASE Ready(a)
      <4>1. PICK i \in UpTo(a) : r.m_selector = r.m_c[i + 1]
        BY <1>1, <3>1 DEF AltShape, Ready
      <4>2. i + 1 \in DOMAIN r.m_c
        BY <1>1, <2>1, <2>2, <4>1 DEF UpTo
      <4> QED
        BY <4>1, <4>2 DEF GuardsOf
    <3>2. CASE ~Ready(a)
      BY <3>2 DEF Rests
    <3> QED
      BY <3>1, <3>2
  <2> QED
    BY <1>1, <1>2, <2>1, <2>4, <2>5 DEF AltTypeOK
<1>3. CASE ~Choosing(a)
  <2>1. r = NoAlternative
    BY <1>3 DEF Rests
  <2>2. /\ r.m_c = <<>> /\ Len(r.m_c) = 0 /\ r.bound = 0 /\ r.pos = 0 /\ r.selected = 0
        /\ r.m_selector = "undef"
    BY <2>1 DEF NoAlternative, NewAlternative
  <2>3. {r.bound, r.pos} \subseteq 0 .. 0 /\ r.selected \in 0 .. Len(r.m_c)
    BY <2>2
  <2> QED
    BY <1>1, <1>3, <2>2, <2>3 DEF AltTypeOK
<1> QED
  BY <1>2, <1>3

LEMMA ObjectsTyped ==
  ASSUME Meetings
  PROVE  /\ \A c \in One2Ones :
              obj[c] \in [m_bEmpty : BOOLEAN, m_pBuff : OrNull(Threads),
                          m_pAlt : OrNull(Threads), cond : SUBSET Threads]
         /\ \A c \in Many2Ones :
              obj[c] \in [m_bReader : BOOLEAN, m_ulWriter : Nat, m_pBuff : OrNull(Threads),
                          m_pAlt : OrNull(Threads), cond : SUBSET Threads,
                          m_cdReader : BOOLEAN]
         /\ \A b \in Barriers :
              obj[b] \in [m_sem : 0 .. 2, m_parts : 0 .. 3, m_pAlt : OrNull(Threads),
                          cond : SUBSET Threads]
<1>1. ObjTypes
  BY DEF Meetings, Shape
<1>2. ASSUME NEW c \in Many2Ones PROVE obj[c].m_ulWriter \in Nat
  <2>1. IsFiniteSet({t \in Threads : InWrite(t, c)})
    BY AlternativeAssumption, FS_Subset
  <2> QED
    BY <2>1, FS_CardinalityType DEF Meetings, Queues, Queue
<1>3. ASSUME NEW b \in Barriers PROVE obj[b].m_sem \in 0 .. 2 /\ obj[b].m_parts \in 0 .. 3
  <2> DEFINE S == {t \in Threads : Holds(t, b)}
  <2>1. Cardinality(S) \in Nat
    BY AlternativeAssumption, FS_Subset, FS_CardinalityType
  <2>2. /\ obj[b].m_sem \in Nat /\ obj[b].m_sem + Cardinality(S) = 2
        /\ obj[b].m_parts \in {0, 1}
    BY Zenon DEF Meetings, Permits, BarrierShape, Account, Parties
  <2> QED
    BY <2>1, <2>2
<1> QED
  BY <1>1, <1>2, <1>3 DEF ObjTypes, One2OneType, Many2OneType, Barrier2Type

(* Every variable keeps its range, for any threads, objects and lists:     *)
(* select's counter stays within the list, no semaphore and no count of    *)
(* writers or parties goes below zero.                                     *)
THEOREM Typed == SafeSpec => []TypeOK
<1>1. Meetings /\ AllRest /\ Copies => TypeOK
  <2> SUFFICES ASSUME Meetings, AllRest, Copies PROVE TypeOK
    OBVIOUS
  <2>1. \A a \in Threads : AltTypeOK(a)
    BY RestsTyped DEF Meetings, AllRest
  <2>2. pc \in [Threads -> Places] /\ on \in [Threads -> Guards \cup {"none"}]
    BY DEF Meetings, Shape, ThreadTypes
  <2> QED
    BY <2>1, <2>2, ObjectsTyped DEF TypeOK, Copies
<1>2. Init => AllRest /\ Copies
  <2> SUFFICES ASSUME Init PROVE AllRest /\ Copies
    OBVIOUS
  <2>1. Copies
    BY DEF Init, Copies, OrNull
  <2>2. \A a \in Threads : alt[a] = NoAlternative /\ pc[a] = "idle"
    BY DEF Init
  <2> QED
    BY <2>1, <2>2 DEF AllRest, Rests, Choosing, Ready, NoAlternative, NewAlternative
<1>3. Meetings /\ (AllRest /\ Copies) /\ [Next]_vars => (AllRest /\ Copies)'
  <2> SUFFICES ASSUME Meetings, AllRest, Copies, [Next]_vars PROVE AllRest' /\ Copies'
    OBVIOUS
  <2>1. CASE UNCHANGED vars
    BY <2>1 DEF vars, AllRest, Rests, Choosing, Ready, Copies
  <2>2. CASE Next
    BY <2>2, NextActs, NextRests, NextCopies DEF Meetings
  <2> QED
    BY <2>1, <2>2
<1> QED
  BY <1>1, <1>2, <1>3, MeetingsHold, PTL DEF SafeSpec
-----------------------------------------------------------------------------
(* A one2one channel or barrier where a is registered and somebody is      *)
(* blocked has made a ready ...                                            *)
Roused(a) ==
  \A g \in Guards \ Many2Ones : obj[g].m_pAlt = a /\ obj[g].cond # {} => Ready(a)

(* ... and a is registered with each guard it has gone through, but for    *)
(* those that another thread may choose.                                   *)
Watches(a) ==
  pc[a] \in AltPlaces /\ ~Ready(a) =>
    \A i \in UpTo(a) :
      Shared(a, alt[a].m_c[i + 1]) \/ obj[alt[a].m_c[i + 1]].m_pAlt = a

Watched == \A a \in Threads : Roused(a) /\ Watches(a)

LEMMA ListsShared ==
  ASSUME NEW a \in Threads, NEW u \in Threads \ {a}, NEW g, Lists(u, g)
  PROVE  Shared(a, g)
<1>1. PICK i \in 0 .. Len(alt[u].m_c) - 1 : alt[u].m_c[i + 1] = g
  BY DEF Lists
<1>2. alt[u].m_c \in Choices[u] /\ i + 1 \in DOMAIN alt[u].m_c
  BY <1>1, ChoiceList DEF Lists
<1> QED
  BY <1>1, <1>2 DEF Shared

(* An alternative that registers finds nobody blocked there. *)
LEMMA RegistersAlone ==
  ASSUME Meetings, NEW t \in Threads, Acts(t), NEW a \in Threads,
         NEW g \in Guards \ Many2Ones, obj'[g].m_pAlt = a, obj[g].m_pAlt # a
  PROVE  obj'[g].cond = {}
<1>1. Shape /\ ThreadTypes /\ ObjTypes /\ Fits
  BY DEF Meetings, Shape
<1>2. g = on[t] /\ (EnablingStep(t) \/ DisablingStep(t))
  BY <1>1, KeepsAlt
<1>3. CASE EnableOne2One(t)
  <2>1. /\ g \in One2Ones /\ pc[t] = "enable"
        /\ obj'[g].m_pAlt = IF obj[g].m_bEmpty THEN t ELSE obj[g].m_pAlt
        /\ obj'[g].cond = obj[g].cond
    BY <1>1, <1>2, <1>3, AfterEnableOne2One DEF Shows
  <2>2. obj[g].m_bEmpty
    BY <2>1
  <2>3. Lists(t, g) /\ g \in Channels
    BY <1>1, <1>2, <2>1, InGuard DEF AltFree, Channels
  <2>4. \A r \in Threads : ~Reading(r, g)
    BY <1>1, <2>1, <2>3, NoOtherReader DEF Reading, AltPlaces
  <2>5. Handshake(g)
    BY <2>1 DEF Meetings, Handshakes
  <2>6. \A w \in Threads : ~Writing(w, g)
    BY <2>2, <2>4, <2>5 DEF Handshake
  <2>7. obj[g].cond \subseteq Threads
    BY <1>1, <2>1 DEF ObjTypes, One2OneType
  <2>8. obj[g].cond = {}
    BY <2>4, <2>5, <2>6, <2>7 DEF Handshake, Reading, Writing
  <2> QED
    BY <2>1, <2>8
<1>4. CASE EnableRegister(t)
  <2>1. g \in Barriers /\ obj[g].m_parts = 0
    BY <1>2, <1>4 DEF EnableRegister, Locks, At
  <2>2. obj'[g].cond = obj[g].cond
    <3>1. Becomes(g, obj[g].m_sem, obj[g].m_parts, t, obj[g].cond)
      BY <1>1, <1>2, <1>4, BarrierEffects, Zenon
    <3> QED
      BY <3>1 DEF Becomes, Changed
  <2> DEFINE S == {v \in Threads : Counted(v, g)}
  <2>3. IsFiniteSet(S) /\ Cardinality(S) = 0
    BY <2>1, AlternativeAssumption, FS_Subset, Zenon DEF Meetings, BarrierShape, Parties
  <2>4. S = {}
    BY <2>3, FS_EmptySet
  <2>5. obj[g].cond \subseteq Threads /\ \A v \in obj[g].cond : on[v] = g
    BY <1>1, <2>1, Zenon DEF ObjTypes, Barrier2Type, Meetings, BarrierShape, Parties
  <2>6. \A v \in obj[g].cond : v \in S
    BY <2>5 DEF Counted
  <2> QED
    BY <2>2, <2>4, <2>6
<1>5. ASSUME EnableReady(t) \/ DisablingStep(t) PROVE FALSE
  <2>1. ChangedIn(g, One2OneType, "null") \/ ChangedIn(g, Many2OneType, "null")
          \/ ChangedIn(g, Barrier2Type, "null")
    <3>1. CASE DisableOne2One(t)
      BY <1>1, <1>2, <3>1, DisableOne2OneClears
    <3>2. CASE DisableMany2One(t)
      BY <1>1, <1>2, <3>2, DisableMany2OneClears
    <3>3. CASE EnableReady(t) \/ DisableBarrier2(t)
      BY <1>1, <1>2, <3>3, BarrierEffects, BecomesChanged, Zenon
    <3> QED
      BY <1>5, <3>1, <3>2, <3>3 DEF DisablingStep
  <2>2. obj'[g].m_pAlt = "null"
    BY <2>1 DEF ChangedIn, Changed
  <2> QED
    BY <2>2, Classes
<1>6. ~EnableMany2One(t)
  BY <1>2, Zenon DEF EnableMany2One, Locks, At
<1> QED
  BY <1>2, <1>3, <1>4, <1>5, <1>6 DEF EnablingStep

(* Nobody comes to be blocked where an alternative is registered but by    *)
(* calling its schedule.                                                   *)
LEMMA BlocksAfterSchedule ==
  ASSUME Meetings, NEW t \in Threads, Acts(t), NEW a \in Threads,
         NEW g \in Guards \ Many2Ones, obj[g].m_pAlt = a,
         obj[g].cond = {}, obj'[g].cond # {}
  PROVE  Ready(a)'
<1>1. Shape /\ ThreadTypes /\ ObjTypes /\ Fits /\ alt[a] \in AltType
  BY DEF Meetings, Shape
<1>2. g = on[t]
  BY <1>1, OneObject
<1>3. pc[a] \in AltPlaces /\ Lists(a, g)
  BY <1>1, RegisteredLists
<1>4. Signalled(g) = {{}}
  BY DEF Signalled
<1>5. CASE WriteSchedule(t) \/ SyncSchedule(t)
  <2>1. CallSchedule(t)
    BY <1>5 DEF WriteSchedule, SyncSchedule
  <2>2. alt'[a] = schedule(alt[a], g)
    BY <1>1, <1>2, <2>1 DEF CallSchedule, Shape
  <2>3. alt[a].m_state # "eInactive"
    BY <1>1, <1>3 DEF Shape, AltShape
  <2> QED
    BY <1>1, <2>2, <2>3 DEF schedule, ScheduleResult, Ready, AltType
<1>6. ASSUME g \in One2Ones, \/ ReadFirst(t) \/ ReadSecond(t) \/ ReadWake(t)
      PROVE  FALSE
  <2>1. \A r \in Threads : on[r] = g => pc[r] \notin {"read", "read_wait"}
    BY <1>1, <1>3, <1>6, NoOtherReader DEF Channels
  <2> QED
    BY <1>2, <1>6, <2>1 DEF ReadFirst, ReadSecond, ReadWake, Resumes, Locks, At
<1>7. ASSUME g \in One2Ones, WriteSecond(t) PROVE FALSE
  <2>1. pc[t] = "write" /\ ~obj[g].m_bEmpty
    BY <1>1, <1>2, <1>7, AfterWriteSecond, Zenon DEF Goes
  <2>2. \E u \in Threads : Reading(u, g) \/ Writing(u, g)
    BY <1>7, <2>1 DEF Meetings, Handshakes, Handshake
  <2>3. \A r \in Threads : ~Reading(r, g)
    BY <1>1, <1>3, <1>7, NoOtherReader DEF Reading, Channels
  <2>4. \A w \in Threads : ~Writing(w, g)
    BY <1>1, <1>2, <1>7, <2>1, OneOfEach DEF Writing
  <2> QED
    BY <2>2, <2>3, <2>4
<1>8. ASSUME WriteFirst(t) \/ WriteWake(t) PROVE FALSE
  <2>1. obj[g].m_pAlt # "null"
    BY Classes
  <2>2. CASE WriteFirst(t)
    BY <1>1, <1>2, <2>1, <2>2, AfterWriteFirst, Zenon DEF Shows
  <2>3. CASE WriteWake(t)
    BY <1>1, <1>2, <2>3, AfterWriteWake DEF Shows
  <2> QED
    BY <1>8, <2>2, <2>3
<1>9. ASSUME \/ SemWait(t) \/ SyncFirst(t) \/ SyncSecond(t) \/ SyncWake(t)
             \/ EnableSemWait(t) \/ EnableRegister(t) \/ EnableReady(t)
             \/ DisableBarrier2(t)
      PROVE  FALSE
  <2>1. obj[g].m_pAlt # "null"
    BY Classes
  <2>2. \E sem, parts, p : Becomes(g, sem, parts, p, {})
    <3>1. CASE SyncSecond(t)
      <4>1. \E rest \in Signalled(g) : \E sem, parts, p : Becomes(g, sem, parts, p, rest)
        BY <1>1, <1>2, <3>1, BarrierEffects, Zenon
      <4> QED
        BY <1>4, <4>1, Zenon
    <3>2. CASE SyncFirst(t)
      <4>1. Becomes(g, obj[g].m_sem, obj[g].m_parts + 1, obj[g].m_pAlt, obj[g].cond)
        BY <1>1, <1>2, <2>1, <3>2, BarrierEffects, Zenon
      <4> QED
        BY <4>1
    <3>3. CASE ~SyncSecond(t) /\ ~SyncFirst(t)
      <4>1. \E sem, parts, p : Becomes(g, sem, parts, p, obj[g].cond)
        BY <1>1, <1>2, <1>9, <3>3, BarrierEffects, Zenon
      <4> QED
        BY <4>1
    <3> QED
      BY <3>1, <3>2, <3>3
  <2> QED
    BY <2>2 DEF Becomes, Changed
<1>10. ASSUME EnableOne2One(t) \/ DisableOne2One(t) PROVE FALSE
  BY <1>1, <1>2, <1>10, AfterEnableOne2One, AfterDisableOne2One DEF Shows
<1>11. ASSUME Select(t) \/ SelectCall(t) \/ CallStep(t) \/ EnableOther(t) \/ EnableSchedule(t)
       PROVE  FALSE
  BY <1>11, KeepsObjects
<1>12. ASSUME ReadFirst(t) \/ ReadSecond(t) \/ ReadWake(t) \/ WriteSecond(t)
       PROVE  g \in One2Ones
  BY <1>2, <1>12 DEF ReadFirst, ReadSecond, ReadWake, WriteSecond, Resumes, Locks, At
<1>13. ASSUME \/ ReadEnter(t) \/ ReadWait(t) \/ ReadCopy(t) \/ WriteEnter(t)
              \/ WriteScheduleAll(t) \/ WriteRetry(t) \/ WriteSignal(t)
              \/ EnableMany2One(t) \/ DisableMany2One(t)
       PROVE  FALSE
  BY <1>2, <1>13, Zenon
  DEF ReadEnter, ReadWait, ReadCopy, WriteEnter, WriteScheduleAll, WriteRetry,
      WriteSignal, EnableMany2One, DisableMany2One, Resumes, Locks, At
<1> QED
  BY <1>5, <1>6, <1>7, <1>8, <1>9, <1>10, <1>11, <1>12, <1>13
  DEF Acts, PlainStep, SchedulingStep, EnablingStep, DisablingStep, EntryStep

LEMMA NextRoused ==
  ASSUME Meetings, Watched, NEW t \in Threads, Acts(t), NEW a \in Threads
  PROVE  Roused(a)'
<1> SUFFICES ASSUME NEW g \in Guards \ Many2Ones, obj'[g].m_pAlt = a, obj'[g].cond # {}
             PROVE  Ready(a)'
  BY DEF Roused
<1>1. obj[g].m_pAlt = a
  BY RegistersAlone
<1>2. CASE obj[g].cond = {}
  BY <1>1, <1>2, BlocksAfterSchedule
<1>3. CASE obj[g].cond # {}
  <2>1. Ready(a)
    BY <1>1, <1>3 DEF Watched, Roused
  <2>2. ASSUME a = t, SelectReturn(t) PROVE FALSE
    <3>1. pc[a] = "selected"
      BY <2>2 DEF SelectReturn
    <3> QED
      BY <1>1, <3>1 DEF Meetings, Shape, Registered, Undone
  <2> QED
    BY <2>1, <2>2, StaysReady DEF Meetings
<1> QED
  BY <1>2, <1>3
-----------------------------------------------------------------------------
LEMMA EntryKeepsAlt ==
  ASSUME Shape, NEW t \in Threads, EntryStep(t) \/ Select(t) \/ SelectCall(t),
         NEW g \in Guards
  PROVE  obj'[g].m_pAlt = obj[g].m_pAlt
<1>1. CASE EnableSemWait(t)
  <2>1. ThreadTypes /\ ObjTypes
    BY DEF Shape
  <2>2. \E sem, parts, w : Becomes(on[t], sem, parts, obj[on[t]].m_pAlt, w)
    BY <1>1, <2>1, BarrierEffects, Zenon
  <2> QED
    BY <2>2 DEF Becomes, Changed
<1>2. CASE EnableOther(t) \/ EnableSchedule(t) \/ Select(t) \/ SelectCall(t)
  BY <1>2, KeepsObjects
<1> QED
  BY <1>1, <1>2 DEF EntryStep

(* Others clear a's registration only where they choose themselves. *)
LEMMA OthersWatch ==
  ASSUME Meetings, Watched, NEW t \in Threads, Acts(t), NEW a \in Threads \ {t}
  PROVE  Watches(a)'
<1>1. Shape
  BY DEF Meetings
<1> SUFFICES ASSUME pc'[a] \in AltPlaces, ~Ready(a)', NEW i \in UpTo(a)',
                    NEW g, g = alt'[a].m_c[i + 1]
             PROVE  Shared(a, g) \/ obj'[g].m_pAlt = a
  BY DEF Watches, Shared
<1>2. /\ pc[a] \in AltPlaces /\ i \in UpTo(a) /\ g = alt[a].m_c[i + 1]
  BY <1>1, ActsStay DEF Stays, UpTo
<1>3. ~Ready(a)
  BY <1>1, StaysReady
<1>4. Shared(a, g) \/ obj[g].m_pAlt = a
  BY <1>2, <1>3 DEF Watched, Watches
<1>5. ASSUME obj[g].m_pAlt = a, obj'[g].m_pAlt # a PROVE Shared(a, g)
  <2>1. g \in Guards
    <3>1. /\ alt[a].m_c \in Choices[a] /\ alt[a].bound \in Nat
          /\ alt[a].bound < Len(alt[a].m_c)
      BY <1>1, <1>2 DEF Shape, AltShape, AltType
    <3>2. Len(alt[a].m_c) \in Nat /\ i \in 0 .. Len(alt[a].m_c) - 1
      BY <1>2, <3>1, ChoiceList DEF UpTo
    <3> QED
      BY <1>2, <3>1, <3>2, ChoiceList
  <2>2. g = on[t] /\ (EnablingStep(t) \/ DisablingStep(t))
    BY <1>1, <1>5, <2>1, KeepsAlt
  <2>3. ~AltFree(t) \/ pc[t] = "disable"
    BY <2>2, Zenon
    DEF EnablingStep, EnableOne2One, EnableMany2One, EnableRegister, EnableReady,
        DisablingStep, DisableOne2One, DisableMany2One, DisableBarrier2, Locks, At, AltFree
  <2>4. Lists(t, g)
    BY <1>1, <2>2, <2>3, InGuard
  <2> QED
    BY <2>4, ListsShared
<1> QED
  BY <1>4, <1>5

(* The round of the loop in which enable returned FALSE. *)
LEMMA RoundWatches ==
  ASSUME Meetings, Watched, NEW t \in Threads,
         pc[t] \in {"enable", "entered", "resched"},
         alt'[t] = AfterEnable(alt[t], FALSE),
         pc'[t] = IF alt[t].bound + 1 < Len(alt[t].m_c) THEN "test" ELSE "check",
         \A g \in Guards \ {on[t]} : obj'[g] = obj[g],
         Shared(t, on[t]) \/ obj'[on[t]].m_pAlt = t
  PROVE  Watches(t)'
<1> DEFINE r == alt[t]
<1>1. /\ r \in AltType /\ r.m_state = "eEnabling" /\ r.m_c \in Choices[t]
      /\ r.bound \in Nat /\ r.bound < Len(r.m_c) /\ on[t] = r.m_c[r.bound + 1]
  BY DEF Meetings, Shape, AltShape, AltPlaces, AltType
<1>2. /\ Len(r.m_c) \in Nat
      /\ \A i \in 0 .. Len(r.m_c) - 1 : r.m_c[i + 1] \in Guards
      /\ \A i, j \in 0 .. Len(r.m_c) - 1 : r.m_c[i + 1] = r.m_c[j + 1] => i = j
  BY <1>1, ChoiceList, Zenon
<1>3. alt'[t].m_c = r.m_c /\ UpTo(t)' = 0 .. r.bound
  BY <1>1, <1>2 DEF AfterEnable, AltType, UpTo
<1>4. pc[t] \in AltPlaces /\ ~Ready(t) /\ UpTo(t) = 0 .. r.bound - 1
  BY <1>1 DEF AltPlaces, Ready, UpTo
<1>5. ASSUME NEW i \in 0 .. r.bound
      PROVE  Shared(t, r.m_c[i + 1]) \/ obj'[r.m_c[i + 1]].m_pAlt = t
  <2>1. CASE i = r.bound
    BY <1>1, <2>1
  <2>2. CASE i # r.bound
    <3>1. /\ i \in 0 .. r.bound - 1 /\ i \in 0 .. Len(r.m_c) - 1
          /\ r.bound \in 0 .. Len(r.m_c) - 1
      BY <1>1, <1>2, <2>2
    <3>2. r.m_c[i + 1] \in Guards \ {on[t]}
      BY <1>1, <1>2, <2>2, <3>1, Zenon
    <3>3. Shared(t, r.m_c[i + 1]) \/ obj[r.m_c[i + 1]].m_pAlt = t
      BY <1>4, <3>1, Zenon DEF Watched, Watches
    <3> QED
      BY <3>2, <3>3
  <2> QED
    BY <2>1, <2>2
<1> QED
  BY <1>3, <1>5, Zenon DEF Watches, Shared

LEMMA OwnWatches ==
  ASSUME Meetings, Watched, NEW t \in Threads, Acts(t)
  PROVE  Watches(t)'
<1> SUFFICES ASSUME pc'[t] \in AltPlaces, ~Ready(t)'
             PROVE  Watches(t)'
  BY DEF Watches
<1> DEFINE r == alt[t]
<1>1. Shape /\ ThreadTypes /\ ObjTypes /\ alt \in [Threads -> AltType] /\ AltShape(t)
  BY DEF Meetings, Shape
<1>2. ASSUME NEW place, NEW g, Goto(t, place, g) PROVE pc'[t] = place
  BY <1>1, <1>2 DEF Goto, ThreadTypes
<1>3. ~Ready(t)
  <2>1. ~SelectReturn(t)
    BY <1>2 DEF SelectReturn, AltPlaces
  <2> QED
    BY <1>1, <2>1, StaysReady
<1>4. \A g \in Guards \ {on[t]} : obj'[g] = obj[g]
  BY <1>1, OneObject
<1>5. CASE EnablingStep(t)
  <2>1. PICK ready \in BOOLEAN :
          /\ EnableDone(t, ready)
          /\ ~ready => \/ EnableOne2One(t) /\ obj[on[t]].m_bEmpty
                       \/ EnableMany2One(t) \/ EnableRegister(t)
    BY <1>5, Zenon DEF EnablingStep, EnableOne2One, EnableMany2One,
       EnableRegister, EnableReady
  <2>2. /\ alt'[t] = AfterEnable(r, ready)
        /\ pc'[t] = IF ~ready /\ r.bound + 1 < Len(r.m_c) THEN "test" ELSE "check"
    BY <1>1, <2>1, EnableDoneMoves
  <2>3. ~ready
    BY <1>1, <2>2 DEF AfterEnable, Ready, AltType
  <2>4. obj'[on[t]].m_pAlt = t
    <3>1. CASE EnableOne2One(t) /\ obj[on[t]].m_bEmpty
      BY <1>1, <3>1, AfterEnableOne2One DEF Shows
    <3>2. CASE EnableMany2One(t)
      BY <1>1, <3>2, EnableChannelRegisters, Classes, Zenon
      DEF EnableMany2One, Locks, At, ChangedIn, Changed
    <3>3. CASE EnableRegister(t)
      <4>1. \E sem, parts, w : Becomes(on[t], sem, parts, t, w)
        BY <1>1, <3>3, BarrierEffects, Zenon
      <4> QED
        BY <4>1 DEF Becomes, Changed
    <3> QED
      BY <2>1, <2>3, <3>1, <3>2, <3>3
  <2>5. pc[t] \in {"enable", "entered", "resched"}
    BY <1>5, Zenon
    DEF EnablingStep, EnableOne2One, EnableMany2One, EnableRegister, EnableReady, Locks, At
  <2> QED
    BY <1>4, <2>2, <2>3, <2>4, <2>5, RoundWatches, Zenon
<1>6. CASE EnableSchedule(t)
  <2> DEFINE o == obj[on[t]].m_pAlt
             ready == ScheduleResult(alt[o])
  <2>1. pc[t] = "resched" /\ on[t] \in Guards /\ AltFree(o) /\ ready \in BOOLEAN
    BY <1>6, Classes DEF EnableSchedule, At, ScheduleResult
  <2>2. o \in Threads \ {t}
    BY <1>1, <2>1, AltOrNull DEF Meetings, Addressed, AltFree
  <2>3. /\ alt'[t] = AfterEnable(r, ready)
        /\ pc'[t] = IF ~ready /\ r.bound + 1 < Len(r.m_c) THEN "test" ELSE "check"
    BY <1>1, <1>2, <1>6, <2>2 DEF EnableSchedule, LeaveEnable
  <2> HIDE DEF ready
  <2>4. ready = FALSE
    BY <1>1, <2>1, <2>3 DEF AfterEnable, Ready, AltType
  <2>5. Shared(t, on[t])
    BY <1>1, <2>1, <2>2, RegisteredLists, ListsShared
  <2> QED
    BY <1>4, <2>1, <2>3, <2>4, <2>5, RoundWatches, Zenon
<1>7. CASE \/ EnableSemWait(t) \/ EnableOther(t) \/ SelectTest(t) \/ SelectCheck(t)
  <2>1. /\ pc[t] \in AltPlaces /\ UpTo(t)' = UpTo(t) /\ alt'[t].m_c = r.m_c
    <3>1. CASE EnableSemWait(t) \/ EnableOther(t)
      BY <1>2, <3>1 DEF EnableSemWait, EnableOther, Locks, At, UpTo, AltPlaces
    <3>2. CASE SelectTest(t)
      BY <1>2, <1>3, <3>2 DEF SelectTest, Ready, UpTo, AltPlaces
    <3>3. CASE SelectCheck(t)
      <4>1. r.m_state = "eEnabling"
        BY <1>1, <1>3, <3>3 DEF SelectCheck, AltShape, AltPlaces, AltType, Ready
      <4> QED
        BY <1>1, <1>2, <3>3, <4>1 DEF SelectCheck, UpTo, AltPlaces, AltType
    <3> QED
      BY <1>7, <3>1, <3>2, <3>3
  <2>2. ASSUME NEW i \in UpTo(t) PROVE r.m_c[i + 1] \in Guards
    <3>1. r.m_c \in Choices[t] /\ r.bound \in Nat /\ r.bound < Len(r.m_c)
      BY <1>1, <2>1 DEF AltShape, AltType
    <3>2. Len(r.m_c) \in Nat /\ i \in 0 .. Len(r.m_c) - 1
      BY <3>1, ChoiceList DEF UpTo
    <3> QED
      BY <3>1, <3>2, ChoiceList
  <2>3. \A g \in Guards : obj'[g].m_pAlt = obj[g].m_pAlt
    BY <1>1, <1>7, EntryKeepsAlt DEF EntryStep, Select
  <2>4. \A i \in UpTo(t) : Shared(t, r.m_c[i + 1]) \/ obj[r.m_c[i + 1]].m_pAlt = t
    BY <1>3, <2>1 DEF Watched, Watches
  <2> QED
    BY <2>1, <2>2, <2>3, <2>4 DEF Watches, Shared
<1>8. CASE SelectCall(t)
  <2>1. PICK s \in Choices[t] : alt' = [alt EXCEPT ![t] = NewAlternative(s)]
    BY <1>8, Zenon DEF SelectCall
  <2>2. alt'[t].bound = 0 /\ pc'[t] = "test"
    BY <1>1, <1>2, <1>8, <2>1 DEF SelectCall, NewAlternative
  <2>3. UpTo(t)' = {}
    BY <2>2 DEF UpTo
  <2> QED
    BY <2>3 DEF Watches
<1>9. ASSUME DisablingStep(t) \/ SelectWake(t) \/ SelectReturn(t) PROVE FALSE
  <2>1. CASE DisablingStep(t)
    <3>1. pc[t] = "disable"
      BY <2>1 DEF DisablingStep, DisableOne2One, DisableMany2One,
         DisableBarrier2, Locks, At
    <3> QED
      BY <1>1, <1>3, <3>1 DEF AltShape, Ready
  <2>2. CASE SelectWake(t)
    BY <1>1, <1>3, <2>2 DEF SelectWake, AltShape, AltPlaces, AltType, Ready
  <2>3. CASE SelectReturn(t)
    BY <1>2, <2>3 DEF SelectReturn, AltPlaces
  <2> QED
    BY <1>9, <2>1, <2>2, <2>3
<1>10. ASSUME PlainStep(t) \/ SchedulingStep(t) \/ CallStep(t) PROVE FALSE
  <2>1. CASE PlainStep(t) \/ SchedulingStep(t)
    BY <1>1, <2>1, OutsideMoves DEF MovedOutside
  <2>2. CASE CallStep(t)
    BY <1>2, <2>2 DEF CallStep, ReadCall, WriteCall, SyncCall, Call, Return, AltPlaces
  <2> QED
    BY <1>10, <2>1, <2>2
<1> QED
  BY <1>5, <1>6, <1>7, <1>8, <1>9, <1>10 DEF Acts, EntryStep, Select

(* When select sleeps, it is registered with every guard that no other     *)
(* thread may choose, and whoever is blocked where it is registered is     *)
(* a writer of a many2one channel: no signal of a one2one channel or       *)
(* barrier is lost between enable and wait.                                *)
THEOREM SleepersMissNobody == SafeSpec => []NoSleepOverReady
<1>1. Meetings /\ AllRest /\ Watched => NoSleepOverReady
  <2> SUFFICES ASSUME Meetings, AllRest, Watched, NEW a \in Threads, alt[a].asleep,
                      NEW g \in GuardsOf(a)
               PROVE  /\ Shared(a, g) \/ obj[g].m_pAlt = a
                      /\ obj[g].m_pAlt = a /\ g \notin Many2Ones => obj[g].cond = {}
    BY DEF NoSleepOverReady
  <2> DEFINE r == alt[a]
  <2>1. r.m_state = "eWaiting" /\ pc[a] = "asleep" /\ ~Ready(a)
    BY DEF Meetings, Shape, AltShape, Ready
  <2>2. /\ r.m_c \in Choices[a] /\ r.bound \in Nat /\ r.bound + 1 = Len(r.m_c)
        /\ pc[a] \in AltPlaces /\ UpTo(a) = 0 .. r.bound
    BY <2>1 DEF Meetings, Shape, AltShape, AltType, AltPlaces, AllRest, Rests, UpTo
  <2>3. PICK j \in DOMAIN r.m_c : g = r.m_c[j]
    BY DEF GuardsOf
  <2>4. DOMAIN r.m_c = 1 .. Len(r.m_c) /\ Len(r.m_c) \in Nat
    BY <2>2, ChoiceList
  <2>5. j - 1 \in 0 .. r.bound /\ (j - 1) + 1 = j
    <3>1. j \in 1 .. Len(r.m_c)
      BY <2>3, <2>4
    <3> HIDE DEF r
    <3> QED
      BY <2>2, <2>4, <3>1
  <2>6. g \in Guards
    BY <2>2, <2>3, <2>4, <2>5, ChoiceList
  <2>7. Shared(a, g) \/ obj[g].m_pAlt = a
    BY <2>1, <2>2, <2>3, <2>5, Zenon DEF Watched, Watches
  <2> QED
    BY <2>1, <2>6, <2>7 DEF Watched, Roused
<1>2. Init => AllRest /\ Watched
  <2> SUFFICES ASSUME Init PROVE AllRest /\ Watched
    OBVIOUS
  <2>1. \A a \in Threads : alt[a] = NoAlternative /\ pc[a] = "idle"
    BY DEF Init
  <2>2. \A g \in Guards : obj[g].cond = {}
    BY DEF Init, NewOne2One, NewMany2One, NewBarrier2
  <2>3. AllRest
    BY <2>1 DEF AllRest, Rests, Choosing, Ready, NoAlternative, NewAlternative
  <2> QED
    BY <2>1, <2>2, <2>3 DEF Watched, Roused, Watches, AltPlaces
<1>3. Meetings /\ (AllRest /\ Watched) /\ [Next]_vars => (AllRest /\ Watched)'
  <2> SUFFICES ASSUME Meetings, AllRest, Watched, [Next]_vars PROVE AllRest' /\ Watched'
    OBVIOUS
  <2>1. CASE UNCHANGED vars
    BY <2>1
    DEF vars, AllRest, Rests, Choosing, Ready, Watched, Roused, Watches, UpTo, Shared
  <2>2. CASE Next
    <3>1. PICK t \in Threads : Acts(t)
      BY <2>2, NextActs
    <3>2. Watched'
      BY <3>1, NextRoused, OthersWatch, OwnWatches DEF Watched
    <3> QED
      BY <3>1, <3>2, NextRests DEF Meetings
  <2> QED
    BY <2>1, <2>2
<1> QED
  BY <1>1, <1>2, <1>3, MeetingsHold, PTL DEF SafeSpec
-----------------------------------------------------------------------------
(* What the abstract specification sees of a thread. *)
Where(t) == IF pc[t] = "idle" THEN "out" ELSE IF Met(t) THEN "met" ELSE "in"

Offered(t) ==
  IF pc[t] = "idle" \/ Met(t) THEN {}
  ELSE IF Ready(t) THEN {Offer(t, alt[t].m_selector)}
  ELSE IF Choosing(t) THEN {Offer(t, g) : g \in GuardsOf(t)}
  ELSE {Offer(t, on[t])}

Gotten(t) == IF MetWriter(t) THEN obj[on[t]].m_pBuff ELSE got[t]

Unseen(t) ==
  /\ Where(t)' = Where(t)
  /\ Offered(t)' = Offered(t)
  /\ Gotten(t)' = Gotten(t)

(* A step that nobody is seen to take; the four that are seen. *)
LEMMA NothingSeen ==
  ASSUME \A t \in Threads : Unseen(t)
  PROVE  UNCHANGED Abstract!vars
<1>1. [t \in Threads |-> Where(t)]' = [t \in Threads |-> Where(t)]
  BY DEF Unseen
<1>2. [t \in Threads |-> Offered(t)]' = [t \in Threads |-> Offered(t)]
  BY DEF Unseen
<1>3. [t \in Threads |-> Gotten(t)]' = [t \in Threads |-> Gotten(t)]
  BY DEF Unseen
<1> QED
  BY <1>1, <1>2, <1>3, Zenon DEF Abstract!vars, Where, Offered, Gotten

LEMMA ArrivalSeen ==
  ASSUME NEW t \in Threads, \A u \in Threads \ {t} : Unseen(u),
         Where(t) = "out", Where(t)' = "in", Offered(t)' \in Menus[t],
         Gotten(t)' = Gotten(t)
  PROVE  Abstract!Next
<1> DEFINE st == [u \in Threads |-> Where(u)]
           offers == [u \in Threads |-> Offered(u)]
           gots == [u \in Threads |-> Gotten(u)]
<1>1. st' = [st EXCEPT ![t] = "in"]
  BY Zenon DEF Unseen
<1>2. offers' = [offers EXCEPT ![t] = Offered(t)']
  BY Zenon DEF Unseen
<1>3. gots' = gots
  BY DEF Unseen
<1>4. st[t] = "out"
  OBVIOUS
<1>5. Abstract!Arrive(t)
  BY <1>1, <1>2, <1>3, <1>4, Zenon DEF Abstract!Arrive, Where, Offered, Gotten
<1> QED
  BY <1>5 DEF Abstract!Next

LEMMA LeavingSeen ==
  ASSUME NEW t \in Threads, \A u \in Threads \ {t} : Unseen(u),
         Where(t) = "met", Where(t)' = "out", Offered(t)' = Offered(t),
         Gotten(t)' = "null"
  PROVE  Abstract!Next
<1> DEFINE st == [u \in Threads |-> Where(u)]
           offers == [u \in Threads |-> Offered(u)]
           gots == [u \in Threads |-> Gotten(u)]
<1>1. st' = [st EXCEPT ![t] = "out"] /\ st[t] = "met"
  BY Zenon DEF Unseen
<1>2. offers' = offers
  BY DEF Unseen
<1>3. gots' = [gots EXCEPT ![t] = "null"]
  BY Zenon DEF Unseen
<1>4. Abstract!Leave(t)
  BY <1>1, <1>2, <1>3, Zenon DEF Abstract!Leave, Where, Offered, Gotten
<1> QED
  BY <1>4 DEF Abstract!Next

LEMMA SettlingSeen ==
  ASSUME NEW t \in Threads, NEW u \in Threads, t # u,
         \A v \in Threads : Where(v)' = Where(v) /\ Gotten(v)' = Gotten(v),
         \A v \in Threads \ {t, u} : Offered(v)' = Offered(v),
         Where(t) = "in", Where(u) = "in",
         NEW x \in Offered(t), NEW y \in Offered(u), Abstract!Match(x, y),
         x[1] \in Guards, Offered(t) # {x}, Offered(t)' = {x}, Offered(u)' = {y}
  PROVE  Abstract!Next
<1> DEFINE st == [v \in Threads |-> Where(v)]
           offers == [v \in Threads |-> Offered(v)]
           gots == [v \in Threads |-> Gotten(v)]
<1>1. st' = st /\ gots' = gots /\ st[t] = "in" /\ st[u] = "in"
  OBVIOUS
<1>2. offers' = [offers EXCEPT ![t] = {x}, ![u] = {y}]
  BY Zenon
<1>3. offers[t] # {x} /\ x \in offers[t] /\ y \in offers[u]
  OBVIOUS
<1>4. Abstract!Settle(t, u, x, y)
  BY <1>1, <1>2, <1>3, Zenon DEF Abstract!Settle, Where, Offered, Gotten
<1>5. Abstract!SettleAt(x[1])
  BY <1>3, <1>4 DEF Abstract!SettleAt, Offered
<1> QED
  BY <1>5 DEF Abstract!Next

LEMMA MeetingSeen ==
  ASSUME NEW t \in Threads, NEW u \in Threads, t # u,
         \A v \in Threads \ {t, u} : Unseen(v),
         Where(t) = "in", Where(u) = "in", Where(t)' = "met", Where(u)' = "met",
         NEW x, NEW y, Offered(t) = {x}, Offered(u) = {y}, Abstract!Match(x, y),
         x[1] \in Guards, Offered(t)' = {}, Offered(u)' = {},
         Gotten(t)' = (IF x[2] = "read" THEN u ELSE Gotten(t)), Gotten(u)' = Gotten(u)
  PROVE  Abstract!Next
<1> DEFINE st == [v \in Threads |-> Where(v)]
           offers == [v \in Threads |-> Offered(v)]
           gots == [v \in Threads |-> Gotten(v)]
<1>1. st' = [st EXCEPT ![t] = "met", ![u] = "met"] /\ st[t] = "in" /\ st[u] = "in"
  BY Zenon DEF Unseen
<1>2. offers' = [offers EXCEPT ![t] = {}, ![u] = {}]
  BY Zenon DEF Unseen
<1>3. offers[t] = {x} /\ offers[u] = {y}
  OBVIOUS
<1>4. gots' = IF x[2] = "read" THEN [gots EXCEPT ![t] = u] ELSE gots
  BY DEF Unseen
<1>5. Abstract!Meet(t, u, x, y)
  BY <1>1, <1>2, <1>3, <1>4, Zenon DEF Abstract!Meet, Where, Offered, Gotten
<1>6. Abstract!MeetAt(x[1])
  BY <1>3, <1>5 DEF Abstract!MeetAt, Offered
<1> QED
  BY <1>6 DEF Abstract!Next
-----------------------------------------------------------------------------
(* A write has left its buffer in the channel, and only a read that is     *)
(* there finds one.                                                        *)
Buffer(c) ==
  LET o == obj[c] IN
  /\ o.m_pBuff # "null" => \E r \in Threads : InRead(r, c)
  /\ \A t \in Threads : on[t] = c =>
       /\ pc[t] = "handoff" => o.m_pBuff = t
       /\ pc[t] = "read_wait" => o.m_cdReader \/ o.m_pBuff # "null"

Buffers ==
  /\ \A c \in One2Ones, w \in Threads : Writing(w, c) => obj[c].m_pBuff = w
  /\ \A c \in Many2Ones : Buffer(c)

(* Only write puts a buffer into a one2one channel. *)
LEMMA One2OneBuffer ==
  ASSUME Shape, NEW t \in Threads, Acts(t), NEW c \in One2Ones
  PROVE  /\ obj'[c].cond \subseteq obj[c].cond \cup {t}
         /\ \/ obj'[c].m_pBuff = obj[c].m_pBuff
            \/ c = on[t] /\ pc[t] = "write" /\ obj'[c].m_pBuff = t
         /\ on'[t] = c /\ pc'[t] \in {"sched", "wait"} =>
              /\ on[t] = c
              /\ \/ pc[t] = "write" /\ obj'[c].m_pBuff = t
                 \/ pc[t] = "sched"
<1>1. ThreadTypes /\ ObjTypes /\ c \in Guards
  BY Classes DEF Shape
<1>2. \A rest \in Signalled(c) : rest \subseteq obj[c].cond
  BY DEF Signalled
<1>3. CASE WriteFirst(t) \/ WriteSecond(t)
  <2>1. on[t] \in One2Ones /\ on'[t] = on[t] /\ pc[t] = "write"
    BY <1>1, <1>3, AfterWriteFirst, AfterWriteSecond, Zenon DEF Goes
  <2>2. CASE c = on[t]
    <3>1. \E w : /\ w \subseteq obj[c].cond \cup {t}
                 /\ \E e \in BOOLEAN :
                      \/ obj' = [obj EXCEPT ![c].m_pBuff = t, ![c].m_bEmpty = e, ![c].cond = w]
                      \/ obj' = [obj EXCEPT ![c].m_pBuff = t, ![c].m_bEmpty = e]
      <4>1. CASE WriteFirst(t)
        BY <2>2, <4>1 DEF WriteFirst
      <4>2. CASE WriteSecond(t)
        BY <1>2, <2>2, <4>2 DEF WriteSecond
      <4> QED
        BY <1>3, <4>1, <4>2
    <3>2. obj'[c].m_pBuff = t /\ obj'[c].cond \subseteq obj[c].cond \cup {t}
      BY <1>1, <3>1, One2OneFields DEF One2OneType
    <3> QED
      BY <2>1, <2>2, <3>2
  <2>3. CASE c # on[t]
    <3>1. obj'[c] = obj[c]
      BY <1>1, <2>3, OneObject
    <3> QED
      BY <2>1, <2>3, <3>1
  <2> QED
    BY <2>2, <2>3
<1>4. CASE ReadFirst(t) \/ ReadSecond(t) \/ ReadWake(t) \/ WriteSchedule(t) \/ WriteWake(t)
  <2>1. /\ on[t] \in One2Ones /\ on'[t] = on[t]
        /\ pc'[t] \in {"sched", "wait"} => pc[t] = "sched"
    BY <1>1, <1>4, AfterReadFirst, AfterReadSecond, AfterReadWake, AfterWriteSchedule,
       AfterWriteWake, Zenon DEF Goes
  <2>2. CASE c = on[t]
    <3>1. obj'[c].cond \subseteq obj[c].cond \cup {t}
      BY <1>1, <1>2, <1>4, <2>2, AfterReadFirst, AfterReadSecond, AfterReadWake,
         AfterWriteSchedule, AfterWriteWake DEF Shows
    <3>2. ASSUME ReadFirst(t) \/ WriteSchedule(t) \/ WriteWake(t)
          PROVE  obj'[c].m_pBuff = obj[c].m_pBuff
      BY <1>1, <2>2, <3>2, One2OneFields
      DEF ReadFirst, WriteSchedule, WriteWake, One2OneType
    <3>3. ASSUME ReadSecond(t) \/ ReadWake(t)
          PROVE  obj'[c].m_pBuff = obj[c].m_pBuff
      <4>1. PICK rest :
              \/ obj' = [obj EXCEPT ![c].m_bEmpty = TRUE, ![c].cond = rest]
              \/ obj' = [obj EXCEPT ![c].cond = rest]
        BY <2>2, <3>3, Zenon DEF ReadSecond, ReadWake
      <4> QED
        BY <1>1, <4>1, One2OneFields DEF One2OneType
    <3> QED
      BY <1>4, <2>1, <2>2, <3>1, <3>2, <3>3
  <2>3. CASE c # on[t]
    <3>1. obj'[c] = obj[c]
      BY <1>1, <2>3, OneObject
    <3> QED
      BY <2>1, <2>3, <3>1
  <2> QED
    BY <2>2, <2>3
<1>5. CASE EnableOne2One(t) \/ DisableOne2One(t)
  <2>1. on[t] \in One2Ones /\ pc'[t] \notin {"sched", "wait"}
    <3>1. pc'[t] \in Outer
      BY <1>5, PassesOuter DEF Passes, EnablingStep, DisablingStep
    <3> QED
      BY <1>1, <1>5, <3>1, AfterEnableOne2One, AfterDisableOne2One DEF Outer, AltPlaces
  <2>2. CASE c = on[t]
    <3>1. obj'[c].cond = obj[c].cond
      BY <1>1, <1>5, <2>2, AfterEnableOne2One, AfterDisableOne2One DEF Shows
    <3>2. obj'[c].m_pBuff = obj[c].m_pBuff
      BY <1>1, <1>5, <2>2, One2OneFields DEF EnableOne2One, DisableOne2One, One2OneType
    <3> QED
      BY <2>1, <3>1, <3>2
  <2>3. CASE c # on[t]
    <3>1. obj'[c] = obj[c]
      BY <1>1, <2>3, OneObject
    <3> QED
      BY <2>1, <3>1
  <2> QED
    BY <2>2, <2>3
<1>6. CASE \/ ReadEnter(t) \/ ReadWait(t) \/ ReadCopy(t) \/ WriteEnter(t)
           \/ WriteScheduleAll(t) \/ WriteRetry(t) \/ WriteSignal(t)
           \/ SemWait(t) \/ SyncFirst(t) \/ SyncSchedule(t) \/ SyncSecond(t) \/ SyncWake(t)
  <2>1. on[t] \in Many2Ones \cup Barriers
    BY <1>6
    DEF ReadEnter, ReadWait, ReadCopy, WriteEnter, WriteScheduleAll, WriteRetry,
        WriteSignal, SemWait, SyncFirst, SyncSchedule, SyncSecond, SyncWake, Resumes,
        Locks, At
  <2>2. on'[t] = on[t]
    BY <1>1, <1>6, PlainOn DEF PlainStep, SchedulingStep
  <2>3. c # on[t]
    BY <2>1, Classes
  <2>4. obj'[c] = obj[c]
    BY <1>1, <2>3, OneObject
  <2> QED
    BY <2>2, <2>3, <2>4
<1>7. CASE \/ EnableMany2One(t) \/ DisableMany2One(t) \/ EnableRegister(t)
           \/ EnableReady(t) \/ DisableBarrier2(t) \/ EntryStep(t)
           \/ Select(t) \/ SelectCall(t) \/ CallStep(t)
  <2>1. pc'[t] \notin {"sched", "wait"}
    <3>1. pc'[t] \in Outer
      BY <1>7, PassesOuter DEF Passes, EnablingStep, DisablingStep
    <3> QED
      BY <3>1 DEF Outer, AltPlaces
  <2>2. obj'[c] = obj[c]
    <3>1. CASE Select(t) \/ SelectCall(t) \/ CallStep(t) \/ EnableOther(t) \/ EnableSchedule(t)
      BY <3>1, KeepsObjects
    <3>2. CASE \/ EnableMany2One(t) \/ DisableMany2One(t) \/ EnableRegister(t)
               \/ EnableReady(t) \/ DisableBarrier2(t) \/ EnableSemWait(t)
      <4>1. on[t] \in Many2Ones \cup Barriers
        BY <3>2, Zenon
        DEF EnableMany2One, DisableMany2One, EnableRegister, EnableReady,
            DisableBarrier2, EnableSemWait, Locks, At
      <4>2. c # on[t]
        BY <4>1, Classes
      <4> QED
        BY <1>1, <4>2, OneObject
    <3> QED
      BY <1>7, <3>1, <3>2 DEF EntryStep
  <2> QED
    BY <2>1, <2>2
<1> QED
  BY <1>3, <1>4, <1>5, <1>6, <1>7
  DEF Acts, PlainStep, SchedulingStep, EnablingStep, DisablingStep
-----------------------------------------------------------------------------
(* A writer that finds the reader there leaves its buffer. *)
HandsOff(t, c) ==
  /\ on[t] = c /\ pc[t] \in {"write", "wait"} /\ Free(c)
  /\ obj[c].m_bReader /\ obj[c].m_pBuff = "null" /\ obj'[c].m_pBuff = t
  /\ Goes(t, pc[t], "handoff")
  /\ UNCHANGED <<alt, got>>

LEMMA LoopTestBuffer ==
  ASSUME ThreadTypes, ObjTypes, NEW t \in Threads, on[t] \in Many2Ones,
         NEW m \in Many2OneType, LoopTest(t, m)
  PROVE  LET n == obj'[on[t]] IN
         /\ n.m_cdReader = m.m_cdReader
         /\ \/ Goes(t, pc[t], "wait") /\ n.m_pBuff = m.m_pBuff
            \/ /\ Goes(t, pc[t], "handoff") /\ n.m_pBuff = t
               /\ m.m_bReader /\ m.m_pBuff = "null"
BY GoesOn, Many2OneFields DEF LoopTest, MustWait, Many2OneType

(* A writer that is about to schedule an alternative finds no reader. *)
LEMMA SchedulesNoReader ==
  ASSUME Shape, Fits, Queues, Addressed, NEW t \in Threads, WriteScheduleAll(t)
  PROVE  ~obj[on[t]].m_bReader
<1> PICK c : c = on[t]
  OBVIOUS
<1>1. /\ ThreadTypes /\ ObjTypes /\ c \in Many2Ones /\ c \in Guards /\ c \in Channels
      /\ pc[t] = "sched"
  BY Classes DEF Shape, WriteScheduleAll, At, Channels
<1>2. obj[c].m_pAlt \in Threads
  BY <1>1, AltOrNull DEF Addressed
<1>3. pc[obj[c].m_pAlt] \in AltPlaces /\ Lists(obj[c].m_pAlt, c)
  BY <1>1, <1>2, RegisteredLists
<1>4. \A r \in Threads : ~InRead(r, c)
  BY <1>1, <1>2, <1>3, NoOtherReader DEF InRead
<1> QED
  BY <1>1, <1>4, Zenon DEF Queues, Queue

(* The steps that change the buffer of a many2one channel, or its m_cdReader. *)
LEMMA Many2OneBuffer ==
  ASSUME Shape, Fits, Queues, Addressed, NEW t \in Threads, Acts(t), NEW c \in Many2Ones
  PROVE  LET o == obj[c]
             n == obj'[c]
         IN
         \/ /\ n.m_pBuff = o.m_pBuff /\ n.m_cdReader = o.m_cdReader
            /\ ~InRead(t, c) /\ (on'[t] = c => pc'[t] \notin {"handoff", "read_wait"})
         \/ /\ ReadWait(t) /\ on[t] = c /\ Goes(t, "read_mx", "read_wait")
            /\ n.m_pBuff = o.m_pBuff /\ n.m_cdReader
         \/ /\ ReadCopy(t) /\ on[t] = c /\ Goes(t, "read_wait", "return")
            /\ n.m_pBuff = "null" /\ Free(c)
         \/ HandsOff(t, c)
         \/ /\ WriteSignal(t) /\ on[t] = c /\ Goes(t, "handoff", "return")
            /\ n.m_pBuff = o.m_pBuff
<1> DEFINE o == obj[c]
           n == obj'[c]
<1>1. ThreadTypes /\ ObjTypes /\ c \in Guards /\ o \in Many2OneType
  BY Classes DEF Shape, ObjTypes
<1>2. CASE on[t] = c /\ ReadEnter(t)
  <2>1. Goes(t, "read", "read_mx")
    BY <1>1, <1>2, AfterReader, Zenon DEF Goes, ReadEnter, ReadWait, ReadCopy, Locks, At
  <2>2. PICK rest : obj' = [obj EXCEPT ![c].m_bReader = TRUE, ![c].cond = rest]
    BY <1>2, Zenon DEF ReadEnter
  <2>3. n.m_pBuff = o.m_pBuff /\ n.m_cdReader = o.m_cdReader
    BY <1>1, <2>2, Many2OneFields DEF Many2OneType
  <2> QED
    BY <2>1, <2>3 DEF Goes, InRead
<1>3. CASE on[t] = c /\ (ReadWait(t) \/ ReadCopy(t))
  <2>1. CASE ReadWait(t)
    <3>1. Goes(t, "read_mx", "read_wait")
      BY <1>1, <2>1, AfterReader, Zenon DEF Goes, ReadEnter, ReadWait,
         ReadCopy, Locks, At
    <3>2. n.m_pBuff = o.m_pBuff /\ n.m_cdReader
      BY <1>1, <1>3, <2>1, Many2OneFields DEF ReadWait, Many2OneType
    <3> QED
      BY <1>3, <2>1, <3>1, <3>2, Zenon
  <2>2. CASE ReadCopy(t)
    <3>1. Goes(t, "read_wait", "return") /\ Free(c)
      BY <1>1, <1>3, <2>2, GoesOn DEF ReadCopy, Locks, At
    <3>2. n.m_pBuff = "null"
      BY <1>1, <1>3, <2>2, Many2OneFields DEF ReadCopy, Many2OneType
    <3> QED
      BY <1>3, <2>2, <3>1, <3>2
  <2> QED
    BY <1>3, <2>1, <2>2
<1>4. CASE on[t] = c /\ WriteEnter(t)
  <2> DEFINE m == [o EXCEPT !.m_ulWriter = @ + 1]
  <2>1. /\ m \in Many2OneType /\ m.m_pBuff = o.m_pBuff /\ m.m_cdReader = o.m_cdReader
        /\ m.m_bReader = o.m_bReader
    BY <1>1 DEF Many2OneType
  <2>2. pc[t] = "write" /\ Free(c) /\ UNCHANGED <<alt, got>>
    BY <1>4 DEF WriteEnter, Locks, At
  <2>3. CASE obj' = [obj EXCEPT ![c] = m] /\ Goto(t, "sched", c)
    <3>1. n = m
      BY <1>1, <2>3, Many2OneFields
    <3>2. Goes(t, "write", "sched")
      BY <1>1, <1>4, <2>2, <2>3, GoesOn
    <3> QED
      BY <2>1, <3>1, <3>2 DEF Goes, InRead
  <2>4. CASE LoopTest(t, m)
    <3> HIDE DEF m
    <3> QED
      BY <1>1, <1>4, <2>1, <2>2, <2>4, LoopTestBuffer DEF Goes, InRead, HandsOff
  <2> QED
    BY <1>4, <2>3, <2>4 DEF WriteEnter
<1>5. CASE on[t] = c /\ (WriteScheduleAll(t) \/ WriteRetry(t))
  <2>1. LoopTest(t, o) /\ pc[t] \in {"sched", "wait"}
    BY <1>5 DEF WriteScheduleAll, WriteRetry, Resumes, Locks, At
  <2>2. WriteScheduleAll(t) => ~o.m_bReader
    BY <1>5, SchedulesNoReader
  <2>3. WriteRetry(t) => pc[t] = "wait" /\ Free(c) /\ UNCHANGED <<alt, got>>
    BY <1>5 DEF WriteRetry, Resumes, Locks, At
  <2> QED
    BY <1>1, <1>5, <2>1, <2>2, <2>3, LoopTestBuffer DEF Goes, InRead, HandsOff
<1>6. CASE on[t] = c /\ WriteSignal(t)
  <2>1. Goes(t, "handoff", "return")
    BY <1>1, <1>6, GoesOn DEF WriteSignal, At
  <2>2. n.m_pBuff = o.m_pBuff
    BY <1>1, <1>6, Many2OneFields DEF WriteSignal, Many2OneType
  <2> QED
    BY <1>6, <2>1, <2>2
<1>7. CASE Passes(t)
  <2>1. pc[t] \in Outer /\ pc'[t] \in Outer
    BY <1>7, PassesOuter
  <2>2. n.m_pBuff = o.m_pBuff /\ n.m_cdReader = o.m_cdReader
    <3>1. CASE c = on[t] /\ EnableMany2One(t)
      <4>1. PICK w : obj' = [obj EXCEPT ![c].cond = w, ![c].m_pAlt = t]
        BY <3>1, Zenon DEF EnableMany2One
      <4> QED
        BY <1>1, <4>1, Many2OneFields DEF Many2OneType
    <3>2. CASE c = on[t] /\ DisableMany2One(t)
      BY <1>1, <3>2, Many2OneFields DEF DisableMany2One, Many2OneType
    <3>3. CASE c # on[t]
      BY <1>1, <3>3, OneObject
    <3>4. CASE Select(t) \/ SelectCall(t) \/ CallStep(t)
      BY <3>4, KeepsObjects
    <3>5. ASSUME \/ EnableOne2One(t) \/ EnableRegister(t) \/ EnableReady(t)
                 \/ DisableOne2One(t) \/ DisableBarrier2(t) \/ EntryStep(t)
          PROVE  c # on[t]
      BY <3>5, Classes, Zenon
      DEF EnableOne2One, EnableRegister, EnableReady, DisableOne2One,
          DisableBarrier2, EntryStep, EnableSemWait, EnableOther, EnableSchedule,
          Locks, At
    <3> QED
      BY <1>7, <3>1, <3>2, <3>3, <3>4, <3>5 DEF Passes, EnablingStep, DisablingStep
  <2> QED
    BY <2>1, <2>2 DEF Outer, AltPlaces, InRead
<1>8. CASE on[t] # c /\ (PlainStep(t) \/ SchedulingStep(t))
  <2>1. on'[t] = on[t]
    BY <1>1, <1>8, PlainOn
  <2>2. obj'[c] = obj[c]
    BY <1>1, <1>8, OneObject
  <2> QED
    BY <1>8, <2>1, <2>2 DEF InRead
<1>9. ASSUME on[t] = c, PlainStep(t) \/ SchedulingStep(t)
      PROVE  \/ ReadEnter(t) \/ ReadWait(t) \/ ReadCopy(t)
             \/ WriteEnter(t) \/ WriteScheduleAll(t) \/ WriteRetry(t) \/ WriteSignal(t)
  BY <1>9, Classes
  DEF PlainStep, SchedulingStep, ReadFirst, ReadSecond, ReadWake, WriteFirst,
      WriteSecond, WriteWake, WriteSchedule, SemWait, SyncFirst, SyncSecond, SyncWake,
      SyncSchedule, Resumes, Locks, At
<1> QED
  BY <1>2, <1>3, <1>4, <1>5, <1>6, <1>7, <1>8, <1>9 DEF Acts, Passes

(* There is one reader. *)
LEMMA OneReader ==
  ASSUME Fits, NEW c, NEW t \in Threads, NEW u \in Threads,
         on[t] = c, on[u] = c,
         {pc[t], pc[u]} \subseteq {"read", "read_mx", "read_wait"}
  PROVE  t = u
BY HeldEnds DEF Fits, Ends

LEMMA NextBuffers ==
  ASSUME Shape, Fits, Queues, Addressed, Buffers, NEW t \in Threads, Acts(t)
  PROVE  Buffers'
<1>1. ThreadTypes /\ ObjTypes /\ \A u \in Threads \ {t} : Stays(u)
  BY ActsStay DEF Shape
<1>2. ASSUME NEW c \in One2Ones, NEW w \in Threads, Writing(w, c)'
      PROVE  obj'[c].m_pBuff = w
  <2>1. CASE w = t
    <3>1. on'[t] = c /\ pc'[t] \in {"sched", "wait"}
      BY <1>2, <2>1 DEF Writing
    <3>2. /\ on[t] = c
          /\ \/ pc[t] = "write" /\ obj'[c].m_pBuff = t
             \/ pc[t] = "sched" /\ obj'[c].m_pBuff = obj[c].m_pBuff
      BY <3>1, One2OneBuffer
    <3>3. pc[t] = "sched" => obj[c].m_pBuff = t
      BY <3>2 DEF Buffers, Writing
    <3> QED
      BY <2>1, <3>2, <3>3
  <2>2. CASE w # t
    <3>1. on[w] = c /\ pc[w] \in {"sched", "wait"} /\ Writing(w, c)
      BY <1>1, <1>2, <2>2, One2OneBuffer DEF Writing, Stays
    <3>2. ~(c = on[t] /\ pc[t] = "write")
      BY <2>2, <3>1, OneOfEach
    <3> QED
      BY <3>1, <3>2, One2OneBuffer DEF Buffers
  <2> QED
    BY <2>1, <2>2
<1>3. ASSUME NEW c \in Many2Ones PROVE Buffer(c)'
  <2> DEFINE o == obj[c]
             n == obj'[c]
  <2>1. Buffer(c) /\ Queue(c)
    BY DEF Buffers, Queues
  <2>2. \A u \in Threads \ {t} : pc'[u] = pc[u] /\ on'[u] = on[u]
    BY <1>1 DEF Stays
  <2>3. CASE /\ n.m_pBuff = o.m_pBuff /\ n.m_cdReader = o.m_cdReader
             /\ ~InRead(t, c) /\ (on'[t] = c => pc'[t] \notin {"handoff", "read_wait"})
    BY <2>1, <2>2, <2>3 DEF Buffer, InRead
  <2>4. CASE /\ ReadWait(t) /\ on[t] = c /\ Goes(t, "read_mx", "read_wait")
             /\ n.m_pBuff = o.m_pBuff /\ n.m_cdReader
    BY <2>1, <2>2, <2>4 DEF Buffer, InRead, Goes
  <2>5. CASE /\ ReadCopy(t) /\ on[t] = c /\ Goes(t, "read_wait", "return")
             /\ n.m_pBuff = "null" /\ Free(c)
    <3>1. \A u \in Threads : on'[u] = c => pc'[u] # "handoff"
      BY <2>2, <2>5 DEF Free, Goes
    <3>2. ASSUME NEW u \in Threads, on'[u] = c, pc'[u] = "read_wait" PROVE FALSE
      <4>1. u # t /\ on[u] = c /\ pc[u] = "read_wait"
        BY <2>2, <2>5, <3>2 DEF Goes
      <4> QED
        BY <2>5, <4>1, OneReader DEF Goes
    <3> QED
      BY <2>5, <3>1, <3>2 DEF Buffer
  <2>6. CASE HandsOff(t, c)
    <3>1. PICK r \in Threads : InRead(r, c)
      BY <2>1, <2>6 DEF Queue, HandsOff
    <3>2. InRead(r, c)'
      BY <2>2, <2>6, <3>1 DEF HandsOff, InRead
    <3>3. n.m_pBuff = t /\ t # "null"
      BY <2>6, Classes DEF HandsOff
    <3>4. \A u \in Threads : on'[u] = c /\ pc'[u] = "handoff" => u = t
      BY <2>2, <2>6 DEF HandsOff, Free
    <3> QED
      BY <3>2, <3>3, <3>4 DEF Buffer
  <2>7. CASE /\ WriteSignal(t) /\ on[t] = c /\ Goes(t, "handoff", "return")
             /\ n.m_pBuff = o.m_pBuff
    <3>1. o.m_pBuff = t /\ t # "null"
      BY <2>1, <2>7, Classes DEF Buffer, Goes
    <3>2. \E r \in Threads : InRead(r, c)'
      BY <2>1, <2>2, <2>7, <3>1 DEF Buffer, InRead, Goes
    <3> QED
      BY <2>1, <2>2, <2>7, <3>1, <3>2 DEF Buffer, Goes
  <2> QED
    BY <2>3, <2>4, <2>5, <2>6, <2>7, Many2OneBuffer
<1> QED
  BY <1>2, <1>3 DEF Buffers

LEMMA InitBuffers == Init => Buffers
BY Classes DEF Init, Buffers, Buffer, Writing, NewMany2One
-----------------------------------------------------------------------------
(* What a thread shows but for what it offers. *)
Kept(t) ==
  /\ Where(t)' = Where(t)
  /\ Gotten(t)' = Gotten(t)
  /\ Met(t)' <=> Met(t)

(* A step changes nobody else's copy. *)
LEMMA OthersCopies ==
  ASSUME Copies, NEW t \in Threads, Acts(t), NEW u \in Threads \ {t}
  PROVE  got'[u] = got[u]
<1>1. CASE ReadSecond(t) \/ ReadWake(t) \/ ReadCopy(t) \/ Return(t)
  <2>1. \E x : got' = [got EXCEPT ![t] = x]
    BY <1>1 DEF ReadSecond, ReadWake, ReadCopy, Return
  <2> QED
    BY <2>1 DEF Copies
<1>2. CASE PlainStep(t) /\ ~(ReadSecond(t) \/ ReadWake(t) \/ ReadCopy(t))
  BY <1>2, Zenon
  DEF PlainStep, ReadFirst, WriteFirst, WriteSecond, WriteWake, ReadEnter, ReadWait,
      WriteEnter, WriteRetry, WriteSignal, SemWait, SyncFirst, SyncSecond, SyncWake
<1>3. CASE SchedulingStep(t) \/ (CallStep(t) /\ ~Return(t))
  BY <1>3
  DEF SchedulingStep, WriteSchedule, WriteScheduleAll, SyncSchedule, CallStep, ReadCall,
      WriteCall, SyncCall, Call
<1>4. CASE EnablingStep(t) \/ DisablingStep(t) \/ EntryStep(t) \/ Select(t) \/ SelectCall(t)
  BY <1>4, Zenon
  DEF EnablingStep, EnableOne2One, EnableMany2One, EnableRegister, EnableReady,
      EnableDone, DisablingStep, DisableOne2One, DisableMany2One, DisableBarrier2,
      DisableDone, EntryStep, EnableSemWait, EnableOther, EnableSchedule, Select,
      SelectTest, SelectCheck, SelectWake, SelectReturn, SelectCall
<1> QED
  BY <1>1, <1>2, <1>3, <1>4 DEF Acts

(* The steps by which a thread wakes the one it meets. *)
Wakes(t) == ReadSecond(t) \/ ReadWake(t) \/ SyncSecond(t)

LEMMA SignalledWithin ==
  ASSUME NEW g, NEW rest \in Signalled(g)
  PROVE  rest \subseteq obj[g].cond
BY DEF Signalled

(* Nobody else comes to wait, or is woken. *)
LEMMA OthersWait ==
  ASSUME Shape, Fits, NEW t \in Threads, Acts(t), NEW u \in Threads \ {t},
         pc[u] = "wait", NEW g, g = on[u], g \notin Many2Ones
  PROVE  \/ u \in obj'[g].cond <=> u \in obj[g].cond
         \/ Wakes(t) /\ on[t] = g /\ u \in obj[g].cond
<1>1. ThreadTypes /\ ObjTypes /\ g \in One2Ones \cup Barriers /\ g \in Guards
  <2>1. g \in Writes[u] \cup Syncs[u]
    BY DEF Fits, Ends
  <2> QED
    BY <2>1, HeldEnds, Classes DEF Shape
<1>2. CASE g # on[t]
  BY <1>1, <1>2, OneObject
<1>3. CASE \/ Select(t) \/ SelectCall(t) \/ CallStep(t) \/ EnableOther(t)
           \/ EnableSchedule(t)
  BY <1>3, KeepsObjects
<1>4. CASE g = on[t] /\ g \in One2Ones /\ (PlainStep(t) \/ SchedulingStep(t))
  <2>1. pc[t] \notin {"write", "sched", "wait"}
    <3> SUFFICES ASSUME pc[t] \in {"write", "sched", "wait"} PROVE FALSE
      OBVIOUS
    <3>1. {pc[t], pc[u]} \subseteq {"write", "sched", "wait"}
      OBVIOUS
    <3>2. on[t] = g /\ on[u] = g /\ g \in One2Ones /\ t # u
      BY <1>4
    <3> QED
      BY <3>1, <3>2, OneOfEach
  <2>2. \A rest \in Signalled(g) : rest \subseteq obj[g].cond
    BY SignalledWithin
  <2>3. ReadFirst(t) \/ ReadSecond(t) \/ ReadWake(t)
    BY <1>4, <2>1, Classes, Zenon
    DEF PlainStep, SchedulingStep, WriteFirst, WriteSecond, WriteWake, WriteSchedule,
        ReadEnter, ReadWait, ReadCopy, WriteEnter, WriteRetry, WriteScheduleAll,
        WriteSignal, SemWait, SyncFirst, SyncSecond, SyncWake, SyncSchedule, Resumes,
        Locks, At
  <2>4. CASE ReadFirst(t)
    BY <1>1, <1>4, <2>4, AfterReadFirst, Zenon DEF Shows
  <2>5. CASE ReadSecond(t) \/ ReadWake(t)
    <3>1. obj'[g].cond \subseteq obj[g].cond
      BY <1>1, <1>4, <2>2, <2>5, AfterReadSecond, AfterReadWake DEF Shows
    <3> QED
      BY <1>4, <2>5, <3>1 DEF Wakes
  <2> QED
    BY <2>3, <2>4, <2>5
<1>5. CASE g = on[t] /\ g \in One2Ones /\ (EnableOne2One(t) \/ DisableOne2One(t))
  BY <1>1, <1>5, AfterEnableOne2One, AfterDisableOne2One DEF Shows
<1>6. CASE g = on[t] /\ g \in Barriers /\ SyncSecond(t)
  <2>1. \E rest \in Signalled(g) :
          Becomes(g, obj[g].m_sem + 1, obj[g].m_parts + 1 - 2, obj[g].m_pAlt, rest)
    BY <1>1, <1>6, BarrierEffects, Zenon
  <2>2. obj'[g].cond \subseteq obj[g].cond
    BY <2>1, SignalledWithin DEF Becomes, Changed
  <2> QED
    BY <1>6, <2>2 DEF Wakes
<1>7. CASE g = on[t] /\ g \in Barriers /\
           \/ SemWait(t) \/ SyncFirst(t) \/ SyncSchedule(t) \/ SyncWake(t)
           \/ EnableSemWait(t) \/ EnableRegister(t) \/ EnableReady(t)
           \/ DisableBarrier2(t)
  <2>1. \E sem, parts, a : \/ Becomes(g, sem, parts, a, obj[g].cond)
                           \/ Becomes(g, sem, parts, a, obj[g].cond \cup {t})
    BY <1>1, <1>7, BarrierEffects
  <2> QED
    BY <2>1 DEF Becomes, Changed
<1>8. ASSUME g = on[t]
      PROVE  /\ g \in One2Ones =>
                  ~(\/ EnableMany2One(t) \/ DisableMany2One(t) \/ EnableRegister(t)
                    \/ EnableReady(t) \/ DisableBarrier2(t) \/ EnableSemWait(t))
             /\ g \in Barriers =>
                  ~(\/ ReadFirst(t) \/ ReadSecond(t) \/ ReadWake(t) \/ WriteFirst(t)
                    \/ WriteSchedule(t) \/ WriteSecond(t) \/ WriteWake(t)
                    \/ ReadEnter(t) \/ ReadWait(t) \/ ReadCopy(t) \/ WriteEnter(t)
                    \/ WriteScheduleAll(t) \/ WriteRetry(t) \/ WriteSignal(t)
                    \/ EnableOne2One(t) \/ DisableOne2One(t)
                    \/ EnableMany2One(t) \/ DisableMany2One(t))
  BY <1>8, Classes, Zenon
  DEF ReadFirst, ReadSecond, ReadWake, WriteFirst, WriteSchedule, WriteSecond,
      WriteWake, ReadEnter, ReadWait, ReadCopy, WriteEnter, WriteScheduleAll,
      WriteRetry, WriteSignal, EnableOne2One, EnableMany2One, DisableOne2One,
      DisableMany2One, EnableRegister, EnableReady, DisableBarrier2, EnableSemWait,
      Resumes, Locks, At
<1> QED
  BY <1>1, <1>2, <1>3, <1>4, <1>5, <1>6, <1>7, <1>8
  DEF Acts, PlainStep, SchedulingStep, EnablingStep, DisablingStep, EntryStep

(* A step is seen of its own thread and of the one it meets. *)
LEMMA OthersKept ==
  ASSUME Shape, Fits, Queues, Addressed, Copies, NEW t \in Threads, Acts(t),
         NEW u \in Threads \ {t}
  PROVE  \/ Kept(u)
         \/ Wakes(t) /\ on[u] = on[t] /\ pc[u] = "wait" /\ u \in obj[on[u]].cond
         \/ \E c \in Many2Ones : HandsOff(t, c) /\ InRead(u, c)
<1>1. Stays(u) /\ got'[u] = got[u]
  BY ActsStay, OthersCopies
<1>2. CASE pc[u] = "wait" /\ on[u] \notin Many2Ones
  <2>1. CASE u \in obj'[on[u]].cond <=> u \in obj[on[u]].cond
    BY <1>1, <1>2, <2>1 DEF Kept, Where, Gotten, Met, MetWriter, Stays
  <2> QED
    BY <1>2, <2>1, OthersWait
<1>3. CASE pc[u] \in {"read_mx", "read_wait"} /\ on[u] \in Many2Ones
  <2>1. InRead(u, on[u])
    BY <1>3 DEF InRead
  <2>2. ~(on[t] = on[u] /\ ReadCopy(t))
    <3>1. ASSUME on[t] = on[u], ReadCopy(t) PROVE FALSE
      BY <1>3, <3>1, OneReader DEF ReadCopy, Locks, At
    <3> QED
      BY <3>1
  <2>3. obj'[on[u]].m_pBuff = obj[on[u]].m_pBuff \/ HandsOff(t, on[u])
    BY <1>3, <2>2, Many2OneBuffer
  <2>4. CASE obj'[on[u]].m_pBuff = obj[on[u]].m_pBuff
    BY <1>1, <1>3, <2>4 DEF Kept, Where, Gotten, Met, MetWriter, Stays
  <2> QED
    BY <1>3, <2>1, <2>3, <2>4
<1>4. CASE /\ ~(pc[u] = "wait" /\ on[u] \notin Many2Ones)
           /\ ~(pc[u] \in {"read_mx", "read_wait"} /\ on[u] \in Many2Ones)
  BY <1>1, <1>4 DEF Kept, Where, Gotten, Met, MetWriter, Stays
<1> QED
  BY <1>2, <1>3, <1>4

LEMMA KeptUnseen ==
  ASSUME NEW u \in Threads, Kept(u), pc'[u] = pc[u], on'[u] = on[u], alt'[u] = alt[u]
  PROVE  Unseen(u)
BY DEF Kept, Unseen, Offered, Ready, Choosing, GuardsOf

LEMMA SameSeen ==
  ASSUME NEW t \in Threads, pc[t] # "idle", pc'[t] # "idle", Met(t)' <=> Met(t),
         Gotten(t)' = Gotten(t), on'[t] = on[t], alt'[t] = alt[t]
  PROVE  Unseen(t)
BY DEF Unseen, Where, Offered, Ready, Choosing, GuardsOf

LEMMA PlainAlts ==
  ASSUME NEW t, PlainStep(t)
  PROVE  UNCHANGED alt
BY Zenon DEF PlainStep, ReadFirst, ReadSecond, ReadWake, WriteFirst,
   WriteSecond, WriteWake,
       ReadEnter, ReadWait, ReadCopy, WriteEnter, WriteRetry, WriteSignal, SemWait,
       SyncFirst, SyncSecond, SyncWake
-----------------------------------------------------------------------------
(* All that the view of the abstract specification rests on. *)
Viewed == Meetings /\ Copies /\ Buffers

(* What a thread shows of itself while it comes, waits or goes. *)
LEMMA StaysIn ==
  ASSUME NEW t \in Threads, on'[t] = on[t], alt'[t] = alt[t], got'[t] = got[t],
         NEW to, Goes(t, pc[t], to),
         \/ /\ pc[t] \in {"read", "write", "sched", "sync", "sync_sem"}
            /\ \/ to \in {"sched", "sync_sem"}
               \/ to = "read_wait" /\ on[t] \notin Many2Ones
               \/ to = "read_mx" /\ obj'[on[t]].m_pBuff = "null"
               \/ to = "wait" /\ (on[t] \in Many2Ones \/ t \in obj'[on[t]].cond)
         \/ pc[t] = "wait" /\ to = "wait" /\ on[t] \in Many2Ones
         \/ /\ pc[t] = "handoff" \/ (pc[t] = "wait" /\ on[t] \notin Many2Ones
                                                    /\ t \notin obj[on[t]].cond)
            /\ to = "return"
         \/ /\ pc[t] = "read_mx" /\ to = "read_wait"
            /\ obj'[on[t]].m_pBuff = obj[on[t]].m_pBuff
  PROVE  Unseen(t)
<1>1. Met(t)' <=> Met(t)
  BY DEF Goes, Met, MetWriter
<1>2. pc[t] # "idle" /\ pc'[t] # "idle"
  BY DEF Goes
<1>3. Gotten(t)' = Gotten(t)
  BY DEF Goes, Gotten, MetWriter
<1> QED
  BY <1>1, <1>2, <1>3, SameSeen

(* A step that meets nobody is not seen of its own thread. *)
LEMMA QuietOwn ==
  ASSUME Viewed, NEW t \in Threads, PlainStep(t), ~Wakes(t),
         \A c \in Many2Ones : ~HandsOff(t, c)
  PROVE  Unseen(t)
<1> DEFINE c == on[t]
<1>1. /\ ThreadTypes /\ ObjTypes /\ Shape /\ Fits /\ Queues /\ Addressed /\ Buffers
      /\ Acts(t) /\ on'[t] = on[t] /\ alt'[t] = alt[t]
  BY PlainOn, PlainAlts DEF Viewed, Meetings, Shape, Acts
<1>2. CASE ReadFirst(t)
  BY <1>1, <1>2, AfterReadFirst, StaysIn, Classes DEF Goes, ReadFirst
<1>3. CASE WriteFirst(t)
  BY <1>1, <1>3, AfterWriteFirst, StaysIn, Classes, Zenon DEF Goes, Shows, WriteFirst
<1>4. CASE WriteSecond(t)
  BY <1>1, <1>4, AfterWriteSecond, StaysIn, Classes DEF Goes, Shows, WriteSecond
<1>5. CASE WriteWake(t)
  BY <1>1, <1>5, AfterWriteWake, StaysIn, Classes DEF Goes, WriteWake
<1>6. CASE ReadEnter(t) \/ ReadWait(t)
  <2>1. c \in Many2Ones /\ got' = got
    BY <1>6 DEF ReadEnter, ReadWait, Locks, At
  <2>2. ~ReadCopy(t) /\ ~WriteSignal(t) /\ (ReadEnter(t) => ~ReadWait(t))
    BY <1>6 DEF ReadEnter, ReadWait, ReadCopy, WriteSignal, Locks, At
  <2>3. obj'[c].m_pBuff = obj[c].m_pBuff
    BY <1>1, <2>1, <2>2, Many2OneBuffer
  <2>4. CASE ReadEnter(t)
    <3>1. Goes(t, "read", "read_mx")
      BY <1>1, <2>2, <2>4, AfterReader, Zenon
    <3>2. obj[c].m_pBuff = "null"
      <4>1. ASSUME NEW r \in Threads, InRead(r, c) PROVE FALSE
        BY <1>1, <3>1, <4>1, OneReader DEF InRead, Goes
      <4> QED
        BY <1>1, <2>1, <4>1 DEF Buffers, Buffer
    <3> QED
      BY <1>1, <2>1, <2>3, <3>1, <3>2, StaysIn DEF Goes
  <2>5. CASE ReadWait(t)
    <3>1. Goes(t, "read_mx", "read_wait")
      BY <1>1, <2>2, <2>5, AfterReader, Zenon
    <3> QED
      BY <1>1, <2>1, <2>3, <3>1, StaysIn DEF Goes
  <2> QED
    BY <1>6, <2>4, <2>5
<1>7. CASE ReadCopy(t)
  <2>1. c \in Many2Ones /\ pc[t] = "read_wait" /\ ~obj[c].m_cdReader
    BY <1>7 DEF ReadCopy, Locks, At
  <2>2. obj[c].m_pBuff # "null"
    BY <1>1, <2>1 DEF Buffers, Buffer
  <2>3. pc'[t] = "return" /\ got'[t] = obj[c].m_pBuff
    <3>1. Goto(t, "return", c) /\ got' = [got EXCEPT ![t] = obj[c].m_pBuff]
      BY <1>7 DEF ReadCopy
    <3> QED
      BY <1>1, <3>1, GotoMoves DEF Viewed, Copies, Goto, ThreadTypes
  <2>4. MetWriter(t) /\ Met(t) /\ Met(t)' /\ ~MetWriter(t)'
    BY <2>1, <2>2, <2>3 DEF Met, MetWriter
  <2> QED
    BY <1>1, <2>1, <2>3, <2>4, SameSeen DEF Gotten
<1>8. CASE WriteEnter(t) \/ WriteRetry(t) \/ WriteSignal(t)
  <2>1. c \in Many2Ones /\ got' = got
    BY <1>8 DEF WriteEnter, WriteRetry, WriteSignal, Resumes, Locks, At
  <2>2. CASE WriteSignal(t)
    <3>1. Goes(t, "handoff", "return")
      BY <1>1, <2>2, GoesOn DEF WriteSignal, At
    <3> QED
      BY <1>1, <2>1, <3>1, StaysIn DEF Goes
  <2>3. CASE WriteEnter(t) \/ WriteRetry(t)
    <3>1. ~ReadWait(t) /\ ~ReadCopy(t) /\ ~WriteSignal(t) /\ pc[t] \in {"write", "wait"}
      BY <2>3 DEF WriteEnter, WriteRetry, ReadWait, ReadCopy, WriteSignal,
         Resumes, Locks, At
    <3>2. pc'[t] # "handoff"
      BY <1>1, <2>1, <3>1, Many2OneBuffer
    <3>3. /\ pc'[t] \in {"sched", "wait", "handoff"}
          /\ pc[t] = "wait" => pc'[t] \in {"wait", "handoff"}
      BY <1>1, <2>3, <3>1, AfterWriter DEF Goes, WriteEnter, WriteScheduleAll,
         Resumes, Locks, At
    <3> QED
      BY <1>1, <2>1, <3>1, <3>2, <3>3, StaysIn DEF Goes
  <2> QED
    BY <1>8, <2>2, <2>3
<1>9. CASE SemWait(t) \/ SyncFirst(t) \/ SyncWake(t)
  <2>1. c \in Barriers /\ c \notin Many2Ones /\ got' = got
    BY <1>9, Classes DEF SemWait, SyncFirst, SyncWake, Resumes, Locks, At
  <2>2. CASE SemWait(t)
    <3>1. Goes(t, "sync", "sync_sem")
      BY <1>1, <2>2, GoesOn DEF SemWait, At
    <3> QED
      BY <1>1, <2>1, <3>1, StaysIn DEF Goes
  <2>3. CASE SyncWake(t)
    <3>1. Goes(t, "wait", "return") /\ t \notin obj[c].cond
      BY <1>1, <2>3, GoesOn DEF SyncWake, Resumes, Locks, At
    <3> QED
      BY <1>1, <2>1, <3>1, StaysIn DEF Goes
  <2>4. CASE SyncFirst(t)
    <3>1. CASE obj[c].m_pAlt # "null"
      <4>1. Goes(t, "sync_sem", "sched")
        BY <1>1, <2>4, <3>1, GoesOn DEF SyncFirst, Locks, At
      <4> QED
        BY <1>1, <2>1, <4>1, StaysIn DEF Goes
    <3>2. CASE obj[c].m_pAlt = "null"
      <4>1. Goes(t, "sync_sem", "wait")
        BY <1>1, <2>4, <3>2, GoesOn DEF SyncFirst, Locks, At
      <4>2. \E sem, parts, p : Becomes(c, sem, parts, p, obj[c].cond \cup {t})
        BY <1>1, <2>4, <3>2, BarrierEffects, Zenon
      <4>3. t \in obj'[c].cond
        BY <4>2 DEF Becomes, Changed
      <4> QED
        BY <1>1, <2>1, <4>1, <4>3, StaysIn DEF Goes
    <3> QED
      BY <3>1, <3>2
  <2> QED
    BY <1>9, <2>2, <2>3, <2>4
<1> QED
  BY <1>2, <1>3, <1>4, <1>5, <1>6, <1>7, <1>8, <1>9 DEF PlainStep, Wakes
-----------------------------------------------------------------------------
(* What a thread can offer at g. *)
LEMMA OfferOf ==
  ASSUME NEW t \in Threads, NEW g
  PROVE  /\ g \in Reads[t] => Offer(t, g) = <<g, "read">>
         /\ g \in Channels /\ g \notin Reads[t] => Offer(t, g) = <<g, "write">>
         /\ g \in Barriers => Offer(t, g) = <<g, "sync">>
         /\ Offer(t, g)[1] = g
BY HeldEnds DEF Offer

(* A thread that has called, and is in no select, offers what it called. *)
LEMMA CallerOffers ==
  ASSUME Shape, NEW t \in Threads, pc[t] \notin AltPlaces, pc[t] # "idle", ~Met(t)
  PROVE  Where(t) = "in" /\ Offered(t) = {Offer(t, on[t])}
<1>1. ~Choosing(t) /\ ~Ready(t)
  BY DEF Shape, AltShape, Choosing, Ready
<1> QED
  BY <1>1 DEF Where, Offered

(* The reader of a one2one channel meets the writer that waits there. *)
LEMMA ReadMeets ==
  ASSUME Viewed, NEW t \in Threads, ReadSecond(t) \/ ReadWake(t)
  PROVE  Abstract!Next
<1> PICK c : c = on[t]
  OBVIOUS
<1> DEFINE o == obj[c]
<1>1. /\ ThreadTypes /\ ObjTypes /\ Shape /\ Fits /\ Queues /\ Addressed /\ Copies
      /\ PlainStep(t) /\ Acts(t) /\ UNCHANGED alt /\ Wakes(t)
  BY PlainAlts DEF Viewed, Meetings, Shape, PlainStep, Acts, Wakes
<1>2. c \in One2Ones /\ c \in Guards /\ c \in Channels /\ Handshake(c)
  BY Classes
  DEF Viewed, Meetings, Handshakes, ReadSecond, ReadWake, Resumes, Locks, At, Channels
<1>3. /\ pc[t] \in {"read", "read_wait"} /\ pc'[t] = "return" /\ on'[t] = c
      /\ Free(c) /\ t \notin o.cond
      /\ ReadSecond(t) => pc[t] = "read" /\ ~o.m_bEmpty
      /\ ReadWake(t) => pc[t] = "read_wait"
  <2>1. /\ pc[t] \in {"read", "read_wait"} /\ pc'[t] = "return" /\ on'[t] = c /\ Free(c)
    BY <1>1, GotoMoves DEF ReadSecond, ReadWake, Resumes, Locks, At, Goto, ThreadTypes
  <2>2. CASE ReadSecond(t)
    BY <1>2, <2>1, <2>2 DEF ReadSecond, ReadWake, Resumes, Locks, At, Handshake
  <2>3. CASE ReadWake(t)
    BY <2>1, <2>3 DEF ReadSecond, ReadWake, Resumes, Locks, At
  <2> QED
    BY <2>2, <2>3
<1>4. c \in Reads[t]
  BY <1>1, <1>3 DEF Fits, Ends
<1>5. \A r \in Threads : Reading(r, c) => r = t
  <2> SUFFICES ASSUME NEW r \in Threads, Reading(r, c) PROVE r = t
    OBVIOUS
  <2>1. on[r] = c /\ on[t] = c /\ {pc[r], pc[t]} \subseteq {"read", "read_wait"}
    BY <1>3 DEF Reading
  <2> QED
    BY <1>1, <1>2, <2>1, OneOfEach
<1>6. PICK w \in Threads : Writing(w, c)
  <2>1. CASE ReadSecond(t)
    <3>1. \A r \in Threads : ~Reading(r, c)
      BY <1>3, <1>5, <2>1 DEF Reading
    <3> QED
      BY <1>2, <1>3, <2>1, <3>1 DEF Handshake
  <2>2. CASE ReadWake(t)
    <3>1. Reading(t, c)
      BY <1>3, <2>2 DEF Reading
    <3> QED
      BY <1>2, <1>3, <1>5, <3>1 DEF Handshake
  <2> QED
    BY <2>1, <2>2
<1>7. on[w] = c /\ pc[w] = "wait" /\ w \in o.cond /\ w # t /\ o.m_pBuff = w
  BY <1>2, <1>3, <1>6 DEF Writing, Free, Viewed, Buffers
<1>8. ASSUME NEW v \in Threads, on[v] = c, pc[v] = "wait" PROVE v = w
  <2>1. {pc[v], pc[w]} \subseteq {"write", "sched", "wait"}
    BY <1>7, <1>8
  <2> QED
    BY <1>1, <1>2, <1>7, <1>8, <2>1, OneOfEach
<1>9. w \notin obj'[c].cond
  <2>1. o.cond \subseteq Threads
    BY <1>1, <1>2 DEF ObjTypes, One2OneType
  <2>2. o.cond = {w}
    <3>1. ASSUME NEW v \in o.cond PROVE v = w
      <4>1. v \in Threads /\ on[v] = c /\ pc[v] \in {"read_wait", "wait"} /\ v # t
        BY <1>2, <1>3, <2>1, <3>1 DEF Handshake
      <4>2. pc[v] # "read_wait"
        BY <1>5, <4>1 DEF Reading
      <4> QED
        BY <1>8, <4>1, <4>2
    <3> QED
      BY <1>7, <3>1
  <2>3. \A rest \in Signalled(c) : w \notin rest
    BY <2>2 DEF Signalled
  <2>4. obj'[c].cond \in Signalled(c)
    <3>1. CASE ReadSecond(t)
      BY <1>1, <1>2, <3>1, AfterReadSecond, Zenon DEF Shows
    <3>2. CASE ReadWake(t)
      BY <1>1, <1>2, <3>2, AfterReadWake DEF Shows
    <3> QED
      BY <3>1, <3>2
  <2> QED
    BY <2>3, <2>4
<1>10. pc'[w] = "wait" /\ on'[w] = c /\ got'[w] = got[w]
  BY <1>1, <1>7, ActsStay, OthersCopies DEF Stays
<1>11. got'[t] = w
  <2>1. got' = [got EXCEPT ![t] = o.m_pBuff]
    BY DEF ReadSecond, ReadWake
  <2> QED
    BY <1>1, <1>7, <2>1 DEF Copies
<1>12. ~Met(t) /\ ~Met(w) /\ c \notin Many2Ones
  BY <1>2, <1>3, <1>7, Classes DEF Met, MetWriter
<1>13. /\ Where(t) = "in" /\ Offered(t) = {<<c, "read">>}
       /\ Where(w) = "in" /\ Offered(w) = {<<c, "write">>}
  <2>1. c \notin Reads[w]
    BY <1>4, <1>7, HeldEnds
  <2>2. /\ Where(t) = "in" /\ Offered(t) = {Offer(t, c)}
        /\ Where(w) = "in" /\ Offered(w) = {Offer(w, c)}
    BY <1>1, <1>3, <1>7, <1>12, CallerOffers DEF AltPlaces
  <2> QED
    BY <1>2, <1>4, <2>1, <2>2, OfferOf
<1>14. Met(t)' /\ Met(w)' /\ ~MetWriter(t)' /\ ~MetWriter(w)' /\ ~MetWriter(w)
  BY <1>3, <1>7, <1>9, <1>10, <1>12 DEF Met, MetWriter
<1>15. /\ Where(t)' = "met" /\ Where(w)' = "met" /\ Offered(t)' = {} /\ Offered(w)' = {}
       /\ Gotten(t)' = w /\ Gotten(w)' = Gotten(w)
  BY <1>3, <1>10, <1>11, <1>14 DEF Where, Offered, Gotten
<1>16. ASSUME NEW v \in Threads \ {t, w} PROVE Unseen(v)
  <2>1. ~(on[v] = on[t] /\ pc[v] = "wait")
    BY <1>8
  <2>2. \A d \in Many2Ones : ~HandsOff(t, d)
    BY <1>12 DEF HandsOff
  <2>3. Kept(v)
    BY <1>1, <2>1, <2>2, OthersKept
  <2>4. Stays(v)
    BY <1>1, ActsStay
  <2> QED
    BY <1>1, <2>3, <2>4, KeptUnseen DEF Stays
<1>17. Abstract!Match(<<c, "read">>, <<c, "write">>)
  BY DEF Abstract!Match
<1> QED
  BY <1>2, <1>7, <1>13, <1>15, <1>16, <1>17, MeetingSeen

(* A writer of a many2one channel meets the reader that waits for one. *)
LEMMA HandOffMeets ==
  ASSUME Viewed, NEW t \in Threads, PlainStep(t), NEW c \in Many2Ones, HandsOff(t, c)
  PROVE  Abstract!Next
<1>1. /\ Shape /\ Fits /\ Queues /\ Addressed /\ Copies /\ Acts(t)
      /\ c \in Guards /\ c \in Channels
  BY Classes DEF Viewed, Meetings, Acts, Channels
<1>2. /\ on[t] = c /\ pc[t] \in {"write", "wait"} /\ obj[c].m_pBuff = "null"
      /\ obj'[c].m_pBuff = t /\ pc'[t] = "handoff" /\ on'[t] = c /\ UNCHANGED <<alt, got>>
  BY DEF HandsOff, Goes
<1>3. PICK r \in Threads : InRead(r, c)
  BY <1>1, Zenon DEF Queues, Queue, HandsOff
<1>4. on[r] = c /\ pc[r] \in {"read_mx", "read_wait"} /\ r # t /\ c \in Reads[r]
  BY <1>1, <1>2, <1>3 DEF InRead, Fits, Ends
<1>5. pc'[r] = pc[r] /\ on'[r] = on[r]
  BY <1>1, <1>4, ActsStay DEF Stays
<1>6. ~Met(t) /\ ~Met(r)
  BY <1>2, <1>4 DEF Met, MetWriter
<1>7. /\ Where(t) = "in" /\ Offered(t) = {<<c, "write">>}
      /\ Where(r) = "in" /\ Offered(r) = {<<c, "read">>}
  <2>1. c \notin Reads[t]
    BY <1>4, HeldEnds
  <2>2. /\ Where(t) = "in" /\ Offered(t) = {Offer(t, c)}
        /\ Where(r) = "in" /\ Offered(r) = {Offer(r, c)}
    BY <1>1, <1>2, <1>4, <1>6, CallerOffers DEF AltPlaces
  <2> QED
    BY <1>1, <1>4, <2>1, <2>2, OfferOf
<1>8. MetWriter(r)' /\ Met(r)' /\ Met(t)' /\ ~MetWriter(t) /\ ~MetWriter(t)'
  <2>1. t # "null"
    BY Classes
  <2> QED
    BY <1>2, <1>4, <1>5, <2>1 DEF Met, MetWriter
<1>9. /\ Where(r)' = "met" /\ Where(t)' = "met" /\ Offered(r)' = {} /\ Offered(t)' = {}
      /\ Gotten(r)' = t /\ Gotten(t)' = Gotten(t)
  BY <1>2, <1>4, <1>5, <1>8 DEF Where, Offered, Gotten
<1>10. ASSUME NEW v \in Threads \ {r, t} PROVE Unseen(v)
  <2>1. \A d \in Many2Ones : ~(HandsOff(t, d) /\ InRead(v, d))
    <3> SUFFICES ASSUME on[v] = c, pc[v] \in {"read_mx", "read_wait"} PROVE FALSE
      BY <1>2 DEF HandsOff, InRead
    <3>1. {pc[v], pc[r]} \subseteq {"read", "read_mx", "read_wait"}
      BY <1>4
    <3> QED
      BY <1>1, <1>4, <3>1, OneReader
  <2>2. ~Wakes(t)
    BY <1>2 DEF Wakes, ReadSecond, ReadWake, SyncSecond, Resumes, Locks, At
  <2>3. Kept(v)
    BY <1>1, <2>1, <2>2, OthersKept
  <2>4. Stays(v)
    BY <1>1, ActsStay
  <2> QED
    BY <1>2, <2>3, <2>4, KeptUnseen DEF Stays
<1>11. Abstract!Match(<<c, "read">>, <<c, "write">>)
  BY DEF Abstract!Match
<1> QED
  BY <1>1, <1>4, <1>7, <1>9, <1>10, <1>11, MeetingSeen

(* The second party of a barrier meets the first. *)
LEMMA SyncMeets ==
  ASSUME Viewed, NEW t \in Threads, SyncSecond(t)
  PROVE  Abstract!Next
<1> PICK b : b = on[t]
  OBVIOUS
<1> DEFINE o == obj[b]
<1>1. /\ ThreadTypes /\ ObjTypes /\ Shape /\ Fits /\ Queues /\ Addressed /\ Copies
      /\ PlainStep(t) /\ Acts(t) /\ UNCHANGED <<alt, got>>
  BY Zenon DEF Viewed, Meetings, Shape, PlainStep, Acts, SyncSecond
<1>2. /\ b \in Barriers /\ b \in Guards /\ b \notin Many2Ones /\ Parties(b)
      /\ pc[t] = "sync_sem" /\ Free(b) /\ o.m_parts + 1 = 2
  BY Classes DEF Viewed, Meetings, BarrierShape, SyncSecond, Locks, At
<1>3. pc'[t] = "return" /\ on'[t] = b
  BY <1>1, GotoMoves DEF SyncSecond, Goto, ThreadTypes
<1>4. PICK v \in Threads : o.cond = {v}
  <2> DEFINE S == {u \in Threads : Counted(u, b)}
  <2>1. S = o.cond
    <3>1. o.cond \subseteq Threads
      BY <1>1, <1>2 DEF ObjTypes, Barrier2Type
    <3> QED
      BY <1>2, <3>1 DEF Counted, Free, Parties
  <2>2. IsFiniteSet(S) /\ Cardinality(S) = 1
    <3>1. IsFiniteSet(S) /\ o.m_parts = Cardinality(S) /\ o.m_parts \in {0, 1}
      BY <1>2, AlternativeAssumption, FS_Subset DEF Parties
    <3> HIDE DEF S
    <3> QED
      BY <1>2, <3>1
  <2>3. \E v : S = {v}
    BY <2>2, FS_Singleton, Zenon
  <2> QED
    BY <2>1, <2>3
<1>5. on[v] = b /\ pc[v] = "wait" /\ v # t /\ v \in o.cond
  BY <1>2, <1>4 DEF Parties
<1>6. v \notin obj'[b].cond
  <2>1. \A rest \in Signalled(b) : v \notin rest
    BY <1>4 DEF Signalled
  <2>2. \E rest \in Signalled(b) :
          Becomes(b, o.m_sem + 1, o.m_parts + 1 - 2, o.m_pAlt, rest)
    BY <1>1, BarrierEffects, Zenon
  <2> QED
    BY <2>1, <2>2 DEF Becomes, Changed
<1>7. pc'[v] = "wait" /\ on'[v] = b
  BY <1>1, <1>5, ActsStay DEF Stays
<1>8. ~Met(t) /\ ~Met(v)
  BY <1>2, <1>5 DEF Met, MetWriter
<1>9. /\ Where(t) = "in" /\ Offered(t) = {<<b, "sync">>}
      /\ Where(v) = "in" /\ Offered(v) = {<<b, "sync">>}
  <2>1. /\ Where(t) = "in" /\ Offered(t) = {Offer(t, b)}
        /\ Where(v) = "in" /\ Offered(v) = {Offer(v, b)}
    BY <1>1, <1>2, <1>5, <1>8, CallerOffers DEF AltPlaces
  <2> QED
    BY <1>2, <2>1, OfferOf
<1>10. /\ Met(t)' /\ Met(v)'
       /\ ~MetWriter(t) /\ ~MetWriter(v) /\ ~MetWriter(t)' /\ ~MetWriter(v)'
  BY <1>2, <1>3, <1>5, <1>6, <1>7 DEF Met, MetWriter
<1>11. /\ Where(t)' = "met" /\ Where(v)' = "met" /\ Offered(t)' = {} /\ Offered(v)' = {}
       /\ Gotten(t)' = Gotten(t) /\ Gotten(v)' = Gotten(v)
  BY <1>1, <1>3, <1>7, <1>10 DEF Where, Offered, Gotten
<1>12. ASSUME NEW u \in Threads \ {t, v} PROVE Unseen(u)
  <2>1. ~(on[u] = on[t] /\ u \in obj[on[u]].cond)
    BY <1>4
  <2>2. \A d \in Many2Ones : ~HandsOff(t, d)
    BY <1>2 DEF HandsOff
  <2>3. Kept(u)
    BY <1>1, <2>1, <2>2, OthersKept
  <2>4. Stays(u)
    BY <1>1, ActsStay
  <2> QED
    BY <1>1, <2>3, <2>4, KeptUnseen DEF Stays
<1>13. Abstract!Match(<<b, "sync">>, <<b, "sync">>)
  BY DEF Abstract!Match
<1> QED
  BY <1>2, <1>5, <1>9, <1>11, <1>12, <1>13, MeetingSeen

LEMMA PlainSeen ==
  ASSUME Viewed, NEW t \in Threads, PlainStep(t)
  PROVE  [Abstract!Next]_(Abstract!vars)
<1>1. CASE ReadSecond(t) \/ ReadWake(t)
  BY <1>1, ReadMeets
<1>2. CASE SyncSecond(t)
  BY <1>2, SyncMeets
<1>3. CASE \E c \in Many2Ones : HandsOff(t, c)
  BY <1>3, HandOffMeets
<1>4. CASE ~Wakes(t) /\ \A c \in Many2Ones : ~HandsOff(t, c)
  <2>1. /\ Shape /\ Fits /\ Queues /\ Addressed /\ Copies /\ Acts(t) /\ UNCHANGED alt
    BY PlainAlts DEF Viewed, Meetings, Acts
  <2>2. Unseen(t)
    BY <1>4, QuietOwn
  <2>3. ASSUME NEW u \in Threads \ {t} PROVE Unseen(u)
    <3>1. Kept(u)
      BY <1>4, <2>1, OthersKept
    <3>2. Stays(u)
      BY <2>1, ActsStay
    <3> QED
      BY <2>1, <3>1, <3>2, KeptUnseen DEF Stays
  <2>4. UNCHANGED Abstract!vars
    BY <2>2, <2>3, NothingSeen
  <2> QED
    BY <2>4
<1> QED
  BY <1>1, <1>2, <1>3, <1>4 DEF Wakes
-----------------------------------------------------------------------------
(* A thread in select offers what it may choose, or what it has chosen.    *)
LEMMA ChooserOffers ==
  ASSUME Shape, NEW t \in Threads, pc[t] \in AltPlaces
  PROVE  /\ Where(t) = "in" /\ Gotten(t) = got[t]
         /\ Ready(t) => Offered(t) = {Offer(t, alt[t].m_selector)}
         /\ ~Ready(t) => Offered(t) = {Offer(t, g) : g \in GuardsOf(t)}
<1>1. Choosing(t) /\ ~Met(t) /\ ~MetWriter(t) /\ pc[t] # "idle"
  BY DEF Shape, AltShape, AltPlaces, Choosing, Met, MetWriter
<1> QED
  BY <1>1 DEF Where, Gotten, Offered

(* ... after the step as well. *)
LEMMA StillOffers ==
  ASSUME Shape', NEW t \in Threads, pc'[t] \in AltPlaces
  PROVE  /\ Where(t)' = "in" /\ Gotten(t)' = got'[t]
         /\ Ready(t)' => Offered(t)' = {Offer(t, alt'[t].m_selector)}
         /\ ~Ready(t)' => Offered(t)' = {Offer(t, g) : g \in GuardsOf(t)'}
<1>1. Choosing(t)' /\ ~Met(t)' /\ ~MetWriter(t)' /\ pc'[t] # "idle"
  BY DEF Shape, AltShape, AltPlaces, Choosing, Met, MetWriter
<1> QED
  BY <1>1 DEF Where, Gotten, Offered

LEMMA ListedOffers ==
  ASSUME NEW t \in Threads, NEW g, Lists(t, g)
  PROVE  g \in GuardsOf(t)
<1>1. PICK i \in 0 .. Len(alt[t].m_c) - 1 : alt[t].m_c[i + 1] = g
  BY DEF Lists
<1>2. i + 1 \in DOMAIN alt[t].m_c
  <2>1. alt[t].m_c \in Seq(Guards) /\ Len(alt[t].m_c) \in Nat
    BY ChoiceList DEF Lists
  <2> QED
    BY <1>1, <2>1
<1> QED
  BY <1>1, <1>2 DEF GuardsOf

(* What goes on in a select is not seen until it is ready ... *)
LEMMA StaysChoosing ==
  ASSUME Shape, Shape', NEW t \in Threads, pc[t] \in AltPlaces, pc'[t] \in AltPlaces,
         alt'[t].m_c = alt[t].m_c, got'[t] = got[t], Ready(t)' <=> Ready(t),
         Ready(t) => alt'[t].m_selector = alt[t].m_selector
  PROVE  Unseen(t)
<1>1. /\ Where(t) = "in" /\ Gotten(t) = got[t]
      /\ Ready(t) => Offered(t) = {Offer(t, alt[t].m_selector)}
      /\ ~Ready(t) => Offered(t) = {Offer(t, g) : g \in GuardsOf(t)}
  BY ChooserOffers
<1>2. /\ Where(t)' = "in" /\ Gotten(t)' = got'[t]
      /\ Ready(t)' => Offered(t)' = {Offer(t, alt'[t].m_selector)}
      /\ ~Ready(t)' => Offered(t)' = {Offer(t, g) : g \in GuardsOf(t)'}
  BY StillOffers
<1>3. GuardsOf(t)' = GuardsOf(t)
  BY DEF GuardsOf
<1> QED
  BY <1>1, <1>2, <1>3, Zenon DEF Unseen

(* ... and then it settles, unless it had no other guard. *)
LEMMA SettledSeen ==
  ASSUME NEW a \in Threads, NEW u \in Threads, a # u,
         \A v \in Threads : Where(v)' = Where(v) /\ Gotten(v)' = Gotten(v),
         \A v \in Threads \ {a, u} : Offered(v)' = Offered(v),
         Where(a) = "in", Where(u) = "in",
         NEW x \in Offered(a), NEW y \in Offered(u), Abstract!Match(x, y),
         x[1] \in Guards, Offered(a)' = {x}, Offered(u)' = {y},
         Abstract!Match(y, x) \/ Offered(u) = {y}
  PROVE  [Abstract!Next]_(Abstract!vars)
<1>1. CASE Offered(a) # {x}
  BY <1>1, SettlingSeen
<1>2. CASE Offered(a) = {x} /\ Offered(u) # {y}
  <2>1. y[1] \in Guards /\ Abstract!Match(y, x)
    BY <1>2 DEF Abstract!Match
  <2>2. \A v \in Threads \ {u, a} : Offered(v)' = Offered(v)
    OBVIOUS
  <2> QED
    BY <1>2, <2>1, <2>2, SettlingSeen
<1>3. CASE Offered(a) = {x} /\ Offered(u) = {y}
  <2>1. \A v \in Threads : Unseen(v)
    BY <1>3 DEF Unseen
  <2> QED
    BY <2>1, NothingSeen
<1> QED
  BY <1>1, <1>2, <1>3

(* What another thread does in select, or at a call, is not seen of u. *)
LEMMA OthersUnseen ==
  ASSUME Viewed, NEW t \in Threads, Acts(t), pc[t] \in AltPlaces \cup {"idle", "return"},
         NEW u \in Threads \ {t}
  PROVE  /\ Stays(u) /\ Kept(u)
         /\ alt'[u] = alt[u] => Unseen(u)
         /\ ~EnableSchedule(t) => Unseen(u)
<1>1. /\ Shape /\ Fits /\ Queues /\ Addressed /\ Copies
  BY DEF Viewed, Meetings
<1>2. ~Wakes(t) /\ \A c \in Many2Ones : ~HandsOff(t, c)
  BY DEF Wakes, ReadSecond, ReadWake, SyncSecond, Resumes, Locks, At, HandsOff,
     AltPlaces
<1>3. Stays(u) /\ Kept(u)
  BY <1>1, <1>2, ActsStay, OthersKept
<1>4. alt'[u] = alt[u] => Unseen(u)
  BY <1>3, KeptUnseen DEF Stays
<1>5. ~SchedulingStep(t)
  BY DEF SchedulingStep, WriteSchedule, WriteScheduleAll, SyncSchedule, At, AltPlaces
<1> QED
  BY <1>1, <1>3, <1>4, <1>5, OtherAlts

(* An alternative gets ready for a guard at which u waits. *)
LEMMA ChoosesWaiter ==
  ASSUME Viewed, Shape', NEW t \in Threads, Acts(t), NEW a \in Threads,
         NEW u \in Threads \ {a}, NEW g \in Guards, Lists(a, g),
         pc[a] \in AltPlaces, pc'[a] \in AltPlaces, ~Ready(a), Ready(a)',
         alt'[a].m_selector = g, got'[a] = got[a],
         on[u] = g, pc[u] \in {"sched", "wait"}, ~Met(u),
         \A v \in Threads \ {a} : Unseen(v)
  PROVE  [Abstract!Next]_(Abstract!vars)
<1> DEFINE x == Offer(a, g)
           y == Offer(u, g)
<1>1. Shape /\ Fits
  BY DEF Viewed, Meetings
<1>2. /\ Where(a) = "in" /\ Where(a)' = "in" /\ Gotten(a)' = Gotten(a)
      /\ x \in Offered(a) /\ Offered(a)' = {x}
  BY <1>1, ChooserOffers, StillOffers, ListedOffers
<1>3. Where(u) = "in" /\ Offered(u) = {y} /\ Offered(u)' = {y}
  BY <1>1, CallerOffers DEF AltPlaces, Unseen
<1>4. Abstract!Match(x, y) /\ x[1] \in Guards
  <2>1. CASE g \in Barriers
    BY <2>1, OfferOf DEF Abstract!Match
  <2>2. CASE g \in Channels
    <3>1. g \in Reads[a] /\ g \notin Reads[u]
      BY <1>1, <2>2, NoOtherReader, HeldEnds
    <3> QED
      BY <2>2, <3>1, OfferOf DEF Abstract!Match
  <2> QED
    BY <2>1, <2>2 DEF Guards
<1>5. /\ \A v \in Threads : Where(v)' = Where(v) /\ Gotten(v)' = Gotten(v)
      /\ \A v \in Threads \ {a, u} : Offered(v)' = Offered(v)
  BY <1>2 DEF Unseen
<1> HIDE DEF x, y
<1> QED
  BY <1>2, <1>3, <1>4, <1>5, SettledSeen
-----------------------------------------------------------------------------
(* Whoever schedules an alternative waits for it: it settles. *)
LEMMA ScheduleSeen ==
  ASSUME Viewed, Shape', NEW t \in Threads, SchedulingStep(t)
  PROVE  [Abstract!Next]_(Abstract!vars)
<1> PICK g, a : g = on[t] /\ a = obj[g].m_pAlt
  OBVIOUS
<1>1. /\ Shape /\ ThreadTypes /\ ObjTypes /\ Fits /\ Queues /\ Addressed /\ Copies /\ Acts(t)
      /\ alt \in [Threads -> AltType]
  BY DEF Viewed, Meetings, Shape, Acts
<1>2. pc[t] = "sched" /\ CallSchedule(t) /\ got' = got /\ g \in Guards
  BY Classes DEF SchedulingStep, WriteSchedule, WriteScheduleAll, SyncSchedule, At
<1>3. a \in Threads
  BY <1>1, <1>2, AltOrNull DEF Addressed
<1>4. pc[a] \in AltPlaces /\ Lists(a, g) /\ a # t /\ pc'[a] = pc[a]
  BY <1>1, <1>2, <1>3, RegisteredLists, ActsStay DEF Stays, AltPlaces
<1>5. /\ alt'[a] = schedule(alt[a], g)
      /\ \A u \in Threads \ {a} : alt'[u] = alt[u]
  BY <1>1, <1>2, <1>3 DEF CallSchedule
<1>6. Unseen(t)
  <2>1. /\ Goes(t, "sched", "wait")
        /\ g \in Many2Ones \/ t \in obj'[g].cond
    <3>1. CASE WriteSchedule(t)
      BY <1>1, <3>1, AfterWriteSchedule DEF Shows
    <3>2. CASE WriteScheduleAll(t)
      <4>1. ~obj[g].m_bReader
        BY <1>1, <3>2, SchedulesNoReader
      <4> QED
        BY <1>1, <1>2, <3>2, <4>1, AfterWriter, Zenon
        DEF Goes, WriteEnter, WriteSignal, Resumes, Locks, At
    <3>3. CASE SyncSchedule(t)
      <4>1. Becomes(g, obj[g].m_sem, obj[g].m_parts, obj[g].m_pAlt, obj[g].cond \cup {t})
        BY <1>1, <3>3, BarrierEffects, Zenon
      <4>2. t \in obj'[g].cond
        BY <4>1 DEF Becomes, Changed
      <4> QED
        BY <1>1, <1>2, <3>3, <4>2, GoesOn DEF SyncSchedule
    <3> QED
      BY <3>1, <3>2, <3>3 DEF SchedulingStep
  <2> QED
    BY <1>2, <1>4, <1>5, <2>1, StaysIn DEF Goes
<1>7. ASSUME NEW u \in Threads \ {t} PROVE Kept(u) /\ Stays(u)
  <2>1. ~Wakes(t) /\ \A c \in Many2Ones : ~HandsOff(t, c)
    BY <1>2 DEF Wakes, ReadSecond, ReadWake, SyncSecond, Resumes, Locks, At, HandsOff
  <2> QED
    BY <1>1, <2>1, OthersKept, ActsStay
<1>8. \A u \in Threads \ {a} : Unseen(u)
  BY <1>5, <1>6, <1>7, KeptUnseen DEF Stays
<1>9. CASE alt'[a] = alt[a]
  <2>1. Unseen(a)
    BY <1>3, <1>4, <1>7, <1>9, KeptUnseen DEF Stays
  <2> QED
    BY <1>8, <2>1, NothingSeen
<1>10. CASE alt'[a] # alt[a]
  <2>1. ~Ready(a) /\ Ready(a)' /\ alt'[a].m_selector = g
    BY <1>1, <1>3, <1>5, <1>10 DEF schedule, ScheduleResult, AltType, Ready
  <2>2. ~Met(t)
    BY <1>2 DEF Met, MetWriter
  <2> QED
    BY <1>1, <1>2, <1>3, <1>4, <1>8, <2>1, <2>2, ChoosesWaiter
<1> QED
  BY <1>9, <1>10
-----------------------------------------------------------------------------
(* A round of enable, a round of disable. *)
LEMMA RoundUnseen ==
  ASSUME Viewed, Shape', NEW t \in Threads, EnablingStep(t) \/ DisablingStep(t),
         Ready(t) \/ ~Ready(t)'
  PROVE  UNCHANGED Abstract!vars
<1>1. /\ Shape /\ ThreadTypes /\ Acts(t) /\ AltShape(t) /\ alt \in [Threads -> AltType]
  BY DEF Viewed, Meetings, Shape, Acts
<1>2. CASE EnablingStep(t)
  <2>1. pc[t] \in {"enable", "entered"} /\ got' = got
    BY <1>2, Zenon
    DEF EnablingStep, EnableOne2One, EnableMany2One, EnableRegister, EnableReady,
        EnableDone, Locks, At
  <2>2. PICK ready \in BOOLEAN : EnableDone(t, ready)
    BY <1>2, Zenon DEF EnablingStep, EnableOne2One, EnableMany2One,
       EnableRegister, EnableReady
  <2>3. alt'[t] = AfterEnable(alt[t], ready) /\ pc'[t] \in {"test", "check"}
    BY <1>1, <2>1, <2>2, EnableDoneMoves
  <2>4. alt'[t].m_c = alt[t].m_c
    BY <1>1, <2>3 DEF AfterEnable, AltType
  <2>5. ~Ready(t)
    BY <1>1, <2>1 DEF AltShape, Ready
  <2>6. Unseen(t)
    BY <1>1, <2>1, <2>3, <2>4, <2>5, StaysChoosing DEF AltPlaces
  <2>7. ~EnableSchedule(t)
    BY <2>1 DEF EnableSchedule, At
  <2> QED
    BY <1>1, <2>1, <2>6, <2>7, OthersUnseen, NothingSeen DEF AltPlaces
<1>3. CASE DisablingStep(t)
  <2>1. pc[t] = "disable" /\ DisableDone(t) /\ got' = got
    BY <1>3
    DEF DisablingStep, DisableOne2One, DisableMany2One, DisableBarrier2, DisableDone,
        Locks, At
  <2>2. /\ alt'[t].m_c = alt[t].m_c /\ alt'[t].m_state = alt[t].m_state
        /\ alt'[t].m_selector = alt[t].m_selector /\ pc'[t] \in {"disable", "selected"}
    BY <1>1, <2>1, DisableDoneMoves
  <2>3. Unseen(t)
    BY <1>1, <2>1, <2>2, StaysChoosing DEF AltPlaces, Ready
  <2>4. ~EnableSchedule(t)
    BY <2>1 DEF EnableSchedule, At
  <2> QED
    BY <1>1, <2>1, <2>3, <2>4, OthersUnseen, NothingSeen DEF AltPlaces
<1> QED
  BY <1>2, <1>3

(* A round of enable that finds somebody. *)
LEMMA RoundSettles ==
  ASSUME Viewed, Shape', NEW t \in Threads, EnablingStep(t), ~Ready(t), Ready(t)'
  PROVE  [Abstract!Next]_(Abstract!vars)
<1> PICK g : g = on[t]
  OBVIOUS
<1>1. /\ Shape /\ ThreadTypes /\ ObjTypes /\ Acts(t) /\ AltShape(t)
      /\ alt \in [Threads -> AltType]
  BY DEF Viewed, Meetings, Shape, Acts
<1>2. pc[t] \in {"enable", "entered"} /\ got' = got
  BY Zenon DEF EnablingStep, EnableOne2One, EnableMany2One, EnableRegister, EnableReady,
         EnableDone, Locks, At
<1>3. ~EnableSchedule(t) /\ ~SchedulingStep(t)
  BY <1>2 DEF EnableSchedule, SchedulingStep, WriteSchedule, WriteScheduleAll,
              SyncSchedule, At
<1>4. /\ alt'[t].m_selector = g
      /\ (EnableOne2One(t) /\ ~obj[g].m_bEmpty) \/ EnableReady(t)
  BY <1>1, <1>3, GetsReady
<1>5. g \in Guards /\ Lists(t, g)
  BY <1>1, <1>2, InGuard DEF AltFree
<1>6. pc'[t] \in {"test", "check"}
  <2>1. PICK ready \in BOOLEAN : EnableDone(t, ready)
    BY Zenon DEF EnablingStep, EnableOne2One, EnableMany2One, EnableRegister,
       EnableReady
  <2> QED
    BY <1>1, <1>2, <2>1, EnableDoneMoves
<1>7. \E u \in Threads \ {t} : on[u] = g /\ pc[u] \in {"sched", "wait"} /\ ~Met(u)
  <2>1. CASE EnableOne2One(t) /\ ~obj[g].m_bEmpty
    <3>1. g \in One2Ones /\ g \in Channels /\ g \notin Many2Ones
      BY <2>1, Classes DEF EnableOne2One, Locks, At, Channels
    <3>2. \A r \in Threads : ~Reading(r, g)
      <4>1. Fits /\ pc[t] \in AltPlaces
        BY <1>2 DEF Viewed, Meetings, AltPlaces
      <4> QED
        BY <1>5, <3>1, <4>1, NoOtherReader DEF Reading
    <3>3. PICK w \in Threads : Writing(w, g)
      BY <2>1, <3>1, <3>2 DEF Viewed, Meetings, Handshakes, Handshake
    <3> QED
      BY <1>2, <3>1, <3>3 DEF Writing, Met, MetWriter
  <2>2. CASE EnableReady(t)
    <3>1. g \in Barriers /\ Free(g) /\ obj[g].m_parts # 0 /\ Parties(g) /\ g \notin Many2Ones
      BY <2>2, Classes DEF EnableReady, Locks, At, Viewed, Meetings, BarrierShape
    <3>2. PICK v \in Threads : Counted(v, g)
      BY <3>1, FS_EmptySet DEF Parties
    <3>3. v \in obj[g].cond /\ on[v] = g /\ pc[v] = "wait" /\ v # t
      BY <1>2, <3>1, <3>2 DEF Counted, Free, Parties
    <3> QED
      BY <3>1, <3>3 DEF Met, MetWriter
  <2> QED
    BY <1>4, <2>1, <2>2
<1>8. PICK u \in Threads \ {t} : on[u] = g /\ pc[u] \in {"sched", "wait"} /\ ~Met(u)
  BY <1>7
<1>9. \A v \in Threads \ {t} : Unseen(v)
  BY <1>1, <1>2, <1>3, OthersUnseen DEF AltPlaces
<1>10. pc[t] \in AltPlaces /\ pc'[t] \in AltPlaces
  BY <1>2, <1>6 DEF AltPlaces
<1> QED
  BY <1>1, <1>2, <1>4, <1>5, <1>8, <1>9, <1>10, ChoosesWaiter
-----------------------------------------------------------------------------
(* The steps of enable of a barrier: with EnableSchedule two may settle. *)
LEMMA EntrySeen ==
  ASSUME Viewed, Shape', NEW t \in Threads, EntryStep(t)
  PROVE  [Abstract!Next]_(Abstract!vars)
<1> PICK g, o : g = on[t] /\ o = obj[g].m_pAlt
  OBVIOUS
<1>1. /\ Shape /\ ThreadTypes /\ ObjTypes /\ Addressed /\ Acts(t) /\ AltShape(t)
      /\ alt \in [Threads -> AltType]
  BY DEF Viewed, Meetings, Shape, Acts
<1>2. /\ pc[t] \in {"enable", "entered", "resched"} /\ pc[t] \in AltPlaces
      /\ g \in Barriers /\ g \in Guards /\ got' = got
  BY Classes DEF EntryStep, EnableSemWait, EnableOther, EnableSchedule, Locks,
     At, AltPlaces
<1>3. CASE EnableSemWait(t) \/ EnableOther(t)
  <2>1. UNCHANGED alt /\ pc'[t] \in {"entered", "resched"}
    BY <1>1, <1>3 DEF EnableSemWait, EnableOther, Goto, ThreadTypes
  <2>2. Unseen(t)
    BY <1>1, <1>2, <2>1, StaysChoosing DEF AltPlaces, Ready
  <2>3. \A u \in Threads \ {t} : Unseen(u)
    BY <1>1, <1>2, <2>1, OthersUnseen
  <2> QED
    BY <2>2, <2>3, NothingSeen
<1>4. CASE EnableSchedule(t)
  <2>1. pc[t] = "resched" /\ AltFree(o)
    BY <1>4 DEF EnableSchedule, At
  <2>2. o \in Threads \ {t}
    <3>1. o # "null"
      BY <1>1, <2>1 DEF Addressed
    <3> QED
      BY <1>1, <1>2, <2>1, <3>1, AltOrNull DEF AltFree
  <2>3. /\ alt'[o] = schedule(alt[o], g)
        /\ alt'[t] = AfterEnable(alt[t], ScheduleResult(alt[o]))
        /\ \A u \in Threads \ {o, t} : alt'[u] = alt[u]
    BY <1>1, <1>4, <2>2 DEF EnableSchedule
  <2>4. pc'[t] \in {"test", "check"}
    <3>1. \E place \in {"test", "check"} : Goto(t, place, "none")
      BY <1>4 DEF EnableSchedule, LeaveEnable
    <3> QED
      BY <1>1, <3>1 DEF Goto, ThreadTypes
  <2>5. ~Ready(t) /\ g = alt[t].m_c[alt[t].bound + 1] /\ Lists(t, g)
    BY <1>1, <2>1, InGuard DEF AltShape, Ready, AltFree
  <2>6. /\ pc[o] \in AltPlaces /\ Lists(o, g) /\ Stays(o) /\ Kept(o)
        /\ pc'[o] \in AltPlaces
    BY <1>1, <1>2, <2>2, RegisteredLists, OthersUnseen DEF Stays
  <2>7. \A u \in Threads \ {t, o} : Unseen(u)
    BY <1>1, <1>2, <2>3, OthersUnseen
  <2>8. CASE ~ScheduleResult(alt[o])
    <3>1. alt'[o] = alt[o]
      BY <2>3, <2>8 DEF schedule
    <3>2. Unseen(o)
      BY <1>1, <1>2, <2>2, <3>1, OthersUnseen
    <3>3. alt'[t].m_c = alt[t].m_c /\ ~Ready(t)'
      BY <1>1, <2>3, <2>5, <2>8, Zenon DEF AfterEnable, AltType, Ready
    <3>4. Unseen(t)
      BY <1>1, <1>2, <2>4, <2>5, <3>3, StaysChoosing DEF AltPlaces
    <3> QED
      BY <2>7, <3>2, <3>4, NothingSeen
  <2>9. CASE ScheduleResult(alt[o])
    <3>1. ~Ready(o) /\ Ready(o)' /\ alt'[o].m_selector = g
      BY <1>1, <2>2, <2>3, <2>9 DEF schedule, ScheduleResult, AltType, Ready
    <3>2. Ready(t)' /\ alt'[t].m_selector = g
      BY <1>1, <2>3, <2>5, <2>9, Zenon DEF AfterEnable, AltType, Ready
    <3> DEFINE x == Offer(t, g)
               y == Offer(o, g)
    <3>3. /\ Where(t) = "in" /\ Where(t)' = "in" /\ Gotten(t)' = Gotten(t)
          /\ x \in Offered(t) /\ Offered(t)' = {x}
      BY <1>1, <1>2, <2>4, <2>5, <3>2, ChooserOffers, StillOffers,
         ListedOffers DEF AltPlaces
    <3>4. /\ Where(o) = "in" /\ Where(o)' = "in" /\ Gotten(o)' = Gotten(o)
          /\ y \in Offered(o) /\ Offered(o)' = {y}
      BY <1>1, <1>2, <2>2, <2>6, <3>1, ChooserOffers, StillOffers, ListedOffers
    <3>5. Abstract!Match(x, y) /\ Abstract!Match(y, x) /\ x[1] \in Guards
      BY <1>2, <2>2, OfferOf DEF Abstract!Match
    <3>6. /\ \A v \in Threads : Where(v)' = Where(v) /\ Gotten(v)' = Gotten(v)
          /\ \A v \in Threads \ {t, o} : Offered(v)' = Offered(v)
      BY <2>7, <3>3, <3>4 DEF Unseen
    <3> HIDE DEF x, y
    <3> QED
      BY <2>2, <3>3, <3>4, <3>5, <3>6, SettledSeen
  <2> QED
    BY <2>8, <2>9
<1> QED
  BY <1>3, <1>4 DEF EntryStep

(* Of select itself nothing is seen: it returns with what was settled. *)
LEMMA SelectUnseen ==
  ASSUME Viewed, Shape', NEW t \in Threads, Select(t)
  PROVE  UNCHANGED Abstract!vars
<1>1. /\ Shape /\ ThreadTypes /\ Acts(t) /\ AltShape(t)
      /\ alt \in [Threads -> AltType]
  BY DEF Viewed, Meetings, Shape, Acts
<1>2. /\ pc[t] \in {"test", "check", "asleep", "selected"} /\ pc[t] \in AltPlaces
      /\ got' = got
  BY DEF Select, SelectTest, SelectCheck, SelectWake, SelectReturn, AltPlaces
<1>3. \A u \in Threads \ {t} : Unseen(u)
  <2>1. ~EnableSchedule(t)
    BY <1>2 DEF EnableSchedule, At
  <2> QED
    BY <1>1, <1>2, <2>1, OthersUnseen
<1>4. CASE SelectTest(t) \/ SelectCheck(t) \/ SelectWake(t)
  <2>1. pc'[t] \in {"enable", "check", "asleep", "disable"}
    BY <1>1, <1>4
    DEF SelectTest, SelectCheck, SelectWake, StartDisabling, Goto, ThreadTypes
  <2>2. /\ alt'[t].m_c = alt[t].m_c /\ alt'[t].m_selector = alt[t].m_selector
        /\ alt'[t].m_state = "eReady" <=> alt[t].m_state = "eReady"
    BY <1>1, <1>4
    DEF SelectTest, SelectCheck, SelectWake, StartDisabling, AltType
  <2>3. Unseen(t)
    BY <1>1, <1>2, <2>1, <2>2, StaysChoosing DEF AltPlaces, Ready
  <2> QED
    BY <1>3, <2>3, NothingSeen
<1>5. CASE SelectReturn(t)
  <2> PICK g : g = alt[t].m_selector
    OBVIOUS
  <2>1. pc[t] = "selected" /\ Ready(t)
    BY <1>1, <1>5 DEF SelectReturn, AltShape, Ready
  <2>2. PICK i \in UpTo(t) : g = alt[t].m_c[i + 1]
    BY <1>1, <2>1 DEF AltShape, Ready
  <2>3. /\ i \in 0 .. alt[t].bound /\ alt[t].selected = i
        /\ alt[t].m_c \in Choices[t] /\ alt[t].bound < Len(alt[t].m_c)
        /\ alt[t].bound \in Nat
    BY <1>1, <2>1, <2>2 DEF AltShape, UpTo, AltPlaces, AltType
  <2>4. alt[t].selected < Len(alt[t].m_c) /\ alt[t].m_c[alt[t].selected + 1] = g
    BY <2>2, <2>3, ChoiceList
  <2>5. Goto(t, IF g \in Barriers THEN "sync_sem" ELSE "read", g)
    BY <1>5, <2>4 DEF SelectReturn
  <2>6. pc'[t] \in {"sync_sem", "read"} /\ on'[t] = g
    BY <1>1, <2>5 DEF Goto, ThreadTypes
  <2>7. ~Choosing(t)' /\ ~Ready(t)'
    BY <2>6 DEF Shape, AltShape, AltPlaces, Choosing, Ready
  <2>8. ~Met(t)' /\ ~MetWriter(t)'
    BY <2>6 DEF Met, MetWriter
  <2>9. Where(t)' = "in" /\ Offered(t)' = {Offer(t, g)} /\ Gotten(t)' = got[t]
    BY <1>2, <2>6, <2>7, <2>8 DEF Where, Offered, Gotten
  <2>10. Where(t) = "in" /\ Offered(t) = {Offer(t, g)} /\ Gotten(t) = got[t]
    BY <1>1, <1>2, <2>1, ChooserOffers
  <2>11. Unseen(t)
    BY <2>9, <2>10 DEF Unseen
  <2> QED
    BY <1>3, <2>11, NothingSeen
<1> QED
  BY <1>4, <1>5 DEF Select

(* Calls arrive, returns leave. *)
LEMMA CallSeen ==
  ASSUME Viewed, Shape', NEW t \in Threads, CallStep(t) \/ SelectCall(t)
  PROVE  Abstract!Next
<1>1. /\ Shape /\ ThreadTypes /\ Acts(t) /\ AltShape(t) /\ Copies
      /\ alt \in [Threads -> AltType]
  BY DEF Viewed, Meetings, Shape, Acts
<1>2. pc[t] \in {"idle", "return"}
  BY DEF CallStep, ReadCall, WriteCall, SyncCall, Call, Return, SelectCall
<1>3. \A u \in Threads \ {t} : Unseen(u)
  <2>1. ~EnableSchedule(t)
    BY <1>2 DEF EnableSchedule, At
  <2> QED
    BY <1>1, <1>2, <2>1, OthersUnseen
<1>4. CASE Return(t)
  <2>1. pc[t] = "return" /\ pc'[t] = "idle" /\ got'[t] = "null"
    BY <1>1, <1>4 DEF Return, Goto, ThreadTypes, Copies
  <2>2. Met(t) /\ ~MetWriter(t)'
    BY <2>1 DEF Met, MetWriter
  <2>3. /\ Where(t) = "met" /\ Where(t)' = "out" /\ Offered(t)' = Offered(t)
        /\ Gotten(t)' = "null"
    BY <2>1, <2>2 DEF Where, Offered, Gotten
  <2> QED
    BY <1>3, <2>3, LeavingSeen
<1>5. CASE ReadCall(t) \/ WriteCall(t) \/ SyncCall(t)
  <2>1. PICK place \in {"read", "write", "sync"}, g \in Reads[t] \cup Writes[t] \cup Syncs[t] :
          Call(t, place, g)
    BY <1>5 DEF ReadCall, WriteCall, SyncCall
  <2>2. /\ pc[t] = "idle" /\ pc'[t] \in {"read", "write", "sync"} /\ on'[t] = g
        /\ UNCHANGED <<alt, got>>
    BY <1>1, <2>1 DEF Call, Goto, ThreadTypes
  <2>3. ~MetWriter(t) /\ ~Met(t)' /\ ~MetWriter(t)'
    BY <2>2 DEF Met, MetWriter
  <2>4. ~Choosing(t)' /\ ~Ready(t)'
    BY <2>2 DEF Shape, AltShape, AltPlaces, Choosing, Ready
  <2>5. /\ Where(t) = "out" /\ Where(t)' = "in" /\ Offered(t)' = {Offer(t, g)}
        /\ Gotten(t)' = Gotten(t)
    BY <2>2, <2>3, <2>4 DEF Where, Offered, Gotten
  <2>6. {Offer(t, g)} \in Menus[t]
    BY <2>1 DEF Menus
  <2> QED
    BY <1>3, <2>5, <2>6, ArrivalSeen
<1>6. CASE SelectCall(t)
  <2>1. PICK s \in Choices[t] : alt' = [alt EXCEPT ![t] = NewAlternative(s)]
    BY <1>6, Zenon DEF SelectCall
  <2>2. /\ pc[t] = "idle" /\ pc'[t] = "test" /\ got' = got
        /\ alt'[t] = NewAlternative(s)
    BY <1>1, <1>6, <2>1 DEF SelectCall, Goto, ThreadTypes
  <2>3. ~Ready(t)' /\ GuardsOf(t)' = {s[i] : i \in DOMAIN s} /\ ~MetWriter(t)
    BY <2>2 DEF NewAlternative, Ready, GuardsOf, MetWriter
  <2>4. /\ Where(t)' = "in" /\ Gotten(t)' = got'[t]
        /\ Offered(t)' = {Offer(t, g) : g \in GuardsOf(t)'}
    BY <2>2, <2>3, StillOffers DEF AltPlaces
  <2>5. Offered(t)' = {Offer(t, s[i]) : i \in DOMAIN s}
    BY <2>3, <2>4
  <2>6. Offered(t)' \in Menus[t]
    BY <2>5 DEF Menus
  <2>7. Where(t) = "out" /\ Gotten(t)' = Gotten(t)
    BY <2>2, <2>3, <2>4 DEF Where, Gotten
  <2> QED
    BY <1>3, <2>4, <2>6, <2>7, ArrivalSeen
<1> QED
  BY <1>4, <1>5, <1>6 DEF CallStep
-----------------------------------------------------------------------------
(* What the view rests on is an invariant. *)
LEMMA NextViewed == Viewed /\ [Next]_vars => Viewed'
<1> SUFFICES ASSUME Viewed, [Next]_vars PROVE Viewed'
  OBVIOUS
<1>1. Meetings'
  BY NextMeetings DEF Viewed
<1>2. CASE UNCHANGED vars
  <2>1. Copies'
    BY <1>2 DEF vars, Viewed, Copies
  <2>2. Buffers'
    BY <1>2 DEF vars, Viewed, Buffers, Buffer, Writing, InRead
  <2> QED
    BY <1>1, <2>1, <2>2 DEF Viewed
<1>3. CASE Next
  <2>1. PICK t \in Threads : Acts(t)
    BY <1>3, NextActs
  <2> QED
    BY <1>1, <2>1, NextCopies, NextBuffers DEF Viewed, Meetings, Shape
<1> QED
  BY <1>2, <1>3

LEMMA InitSeen == Init => Viewed /\ Abstract!Init
<1> SUFFICES ASSUME Init PROVE Viewed /\ Abstract!Init
  OBVIOUS
<1>1. Viewed
  BY InitMeetings, InitBuffers DEF Init, Viewed, Copies, OrNull
<1>2. \A t \in Threads : Where(t) = "out" /\ Offered(t) = {} /\ Gotten(t) = "null"
  BY DEF Init, Where, Offered, Gotten, MetWriter
<1>3. /\ [t \in Threads |-> Where(t)] = [t \in Threads |-> "out"]
      /\ [t \in Threads |-> Offered(t)] = [t \in Threads |-> {}]
      /\ [t \in Threads |-> Gotten(t)] = [t \in Threads |-> "null"]
  BY <1>2
<1> QED
  BY <1>1, <1>3 DEF Abstract!Init, Where, Offered, Gotten

LEMMA StutterSeen ==
  ASSUME UNCHANGED vars
  PROVE  UNCHANGED Abstract!vars
<1>1. ASSUME NEW t \in Threads PROVE Unseen(t)
  BY DEF vars, Unseen, Where, Offered, Gotten, Met, MetWriter, Ready, Choosing, GuardsOf
<1> QED
  BY <1>1, NothingSeen

(* However reads, writes, syncs and selects interleave, they implement the *)
(* external choice of ExternalChoice in what may happen: threads leave a   *)
(* guard in pairs, a select settles on one guard where another thread is   *)
(* or settles too, and the read that follows gets the buffer of exactly    *)
(* one writer, which leaves with it.                                       *)
THEOREM ChoiceIsExternal == SafeSpec => RefinesSafely
<1>1. ASSUME Viewed, [Next]_vars
      PROVE  [Abstract!Next]_(Abstract!vars)
  <2>1. Shape'
    BY <1>1, NextShape DEF Viewed, Meetings
  <2>2. CASE UNCHANGED vars
    BY <2>2, StutterSeen
  <2>3. CASE Next
    <3>1. PICK t \in Threads : Acts(t)
      BY <2>3, NextActs
    <3>2. CASE PlainStep(t)
      BY <1>1, <3>2, PlainSeen
    <3>3. CASE SchedulingStep(t)
      BY <1>1, <2>1, <3>3, ScheduleSeen
    <3>4. CASE EnablingStep(t) \/ DisablingStep(t)
      <4>1. CASE Ready(t) \/ ~Ready(t)'
        BY <1>1, <2>1, <3>4, <4>1, RoundUnseen
      <4>2. CASE ~Ready(t) /\ Ready(t)'
        <5>1. ASSUME DisablingStep(t) PROVE Ready(t)
          BY <1>1, <5>1
          DEF DisablingStep, DisableOne2One, DisableMany2One, DisableBarrier2, Locks, At,
              Viewed, Meetings, Shape, AltShape, Ready
        <5> QED
          BY <1>1, <2>1, <3>4, <4>2, <5>1, RoundSettles
      <4> QED
        BY <4>1, <4>2
    <3>5. CASE EntryStep(t)
      BY <1>1, <2>1, <3>5, EntrySeen
    <3>6. CASE Select(t)
      BY <1>1, <2>1, <3>6, SelectUnseen
    <3>7. CASE CallStep(t) \/ SelectCall(t)
      BY <1>1, <2>1, <3>7, CallSeen
    <3> QED
      BY <3>1, <3>2, <3>3, <3>4, <3>5, <3>6, <3>7 DEF Acts
  <2> QED
    BY <1>1, <2>2, <2>3
<1> QED
  BY <1>1, InitSeen, NextViewed, PTL DEF SafeSpec, RefinesSafely, Abstract!SafeSpec
=============================================================================
