------------------------------ MODULE Lifecycle ------------------------------
(***************************************************************************)
(* The life of the objects of the library and of the threads that share    *)
(* them: creation with its clean-up (create, init), the ends and their     *)
(* reference count (ref, unref, finalize), the objects alternative_2       *)
(* makes, and para_run2..4, which moves ends to new threads and joins      *)
(* them.                                                                   *)
(*                                                                         *)
(* What a call does to the object meanwhile is the subject of the other    *)
(* modules; here a thread is inside the object, or is not.  The types of   *)
(* SATS/cspats.sats are linear: an end is used by who holds it, given up   *)
(* once, and given up or passed on before its holder ends.                 *)
(*                                                                         *)
(* Bounds: an address of Objects is allocated once, an object has at most  *)
(* as many ends at a time as EndIds, a thread of Threads is created once.  *)
(***************************************************************************)
EXTENDS Integers, Sequences, FiniteSets

CONSTANTS
  Threads, Main,  \* the threads, and the one that runs main
  Objects,        \* the addresses new can return
  KindOf,         \* what is allocated there
  EndIds, In,     \* names for ends, In for the reading end of a channel
  None

Kinds == {"one2one", "many2one", "barrier2", "alternative"}

(* Of these there is more than one end from the start. *)
Channels == {o \in Objects : KindOf[o] \in {"one2one", "many2one"}}

Alternatives == {o \in Objects : KindOf[o] = "alternative"}

ASSUME LifecycleAssumption ==
  /\ Main \in Threads
  /\ KindOf \in [Objects -> Kinds]
  /\ IsFiniteSet(EndIds) /\ In \in EndIds
  /\ None \notin Threads \cup Objects

(* What init makes, in its order. *)
Primitives(o) ==
  CASE KindOf[o] = "many2one" -> <<"m_sync", "m_cond", "m_mxReader", "m_cdReader">>
    [] KindOf[o] = "barrier2" -> <<"m_sem", "m_sync", "m_cond">>
    [] OTHER -> <<"m_sync", "m_cond">>

(* Mutant: init forgets the mutex of the readers in its clean-up. *)
CleanedUpNotReader(o) == {"m_sync", "m_cond", "m_sem"}

(* What the clean-up of init destroys if it was made: it has no case for   *)
(* the last one, whose failure is the last way to get there.               *)
CleanedUp(o) ==
  CASE KindOf[o] = "many2one" -> {"m_sync", "m_cond", "m_mxReader"}
    [] KindOf[o] = "barrier2" -> {"m_sem", "m_sync"}
    [] OTHER -> {"m_sync"}

(* What finalize destroys. *)
Finalized(o) ==
  CASE KindOf[o] = "many2one" -> {"m_sync", "m_cond", "m_mxReader", "m_cdReader"}
    [] KindOf[o] = "barrier2" -> {"m_sem", "m_sync", "m_cond"}
    [] OTHER -> {"m_sync", "m_cond"}

VARIABLES
  pc,        \* per thread, where it is
  at,        \* the object a thread creates or destroys
  inside,    \* the objects a thread reads, writes, syncs or selects on
  ref,       \* what the atomic decrement of unref returned, until it is tested
  toRun,     \* processes para_run has still to start
  tids,      \* threads para_run has still to wait for, in order
  mem,       \* per address: "unused", "allocated" or "deleted"
  made,      \* the primitives of an object that exist
  m_uiCount,
  holder,    \* per object and end, the thread that holds it
  exited     \* the program was terminated by a fatal error

objectVars == <<mem, made, m_uiCount, holder>>
runVars == <<toRun, tids>>
vars == <<pc, at, inside, ref, runVars, objectVars, exited>>

(* Whole(o): o is allocated and lacks no primitive. *)
Whole(o) == mem[o] = "allocated" /\ made[o] = Finalized(o)

EndsOf(o) == {e \in EndIds : holder[o][e] # None}

(* The ends t holds, with their objects. *)
Held(t) == {oe \in Objects \X EndIds : holder[oe[1]][oe[2]] = t}

Goto(t, l) == pc' = [pc EXCEPT ![t] = l]

Init ==
  /\ pc = [t \in Threads |-> IF t = Main THEN "idle" ELSE "unborn"]
  /\ at = [t \in Threads |-> None]
  /\ inside = [t \in Threads |-> {}]
  /\ ref = [t \in Threads |-> 0]
  /\ toRun = [t \in Threads |-> 0]
  /\ tids = [t \in Threads |-> <<>>]
  /\ mem = [o \in Objects |-> "unused"]
  /\ made = [o \in Objects |-> {}]
  /\ m_uiCount = [o \in Objects |-> 0]
  /\ holder = [o \in Objects |-> [e \in EndIds |-> None]]
  /\ exited = FALSE
-----------------------------------------------------------------------------
(* create *)

(* Guards an alternative can be made of: the reading end of a channel, or  *)
(* an end of a barrier.                                                    *)
Guards(t) == {oe[1] : oe \in {x \in Held(t) : x[1] \in Channels => x[2] = In}}

(* new and the constructor.  An Alternative is made for two guards, which  *)
(* are inside from here on: alternative_2 is one call.                     *)
New(t, o) ==
  /\ pc[t] = "idle" /\ mem[o] = "unused"
  /\ IF o \in Alternatives
       THEN \E g \in SUBSET Guards(t) : Cardinality(g) = 2
                                        /\ inside' = [inside EXCEPT ![t] = g]
       ELSE UNCHANGED inside
  /\ mem' = [mem EXCEPT ![o] = "allocated"]
  /\ m_uiCount' = [m_uiCount EXCEPT ![o] = 1]
  /\ at' = [at EXCEPT ![t] = o]
  /\ Goto(t, "init")
  /\ UNCHANGED <<ref, runVars, made, holder, exited>>

(* Creation fails: the caller of ..._create_err gets an error and goes on, *)
(* ..._create and alternative_2 terminate the program.                     *)
CreateFails(t, o) ==
  \/ exited' = TRUE
  \/ o \notin Alternatives /\ UNCHANGED exited

(* new (std::nothrow) returns NULL. *)
NewFails(t) ==
  /\ pc[t] = "idle"
  /\ \E o \in Objects : mem[o] = "unused" /\ CreateFails(t, o)
  /\ UNCHANGED <<pc, at, inside, ref, runVars, objectVars>>

(* The i-th primitive is the next that init has to make. *)
IsNext(o, i) ==
  /\ Primitives(o)[i] \notin made[o]
  /\ \A j \in 1..(i - 1) : Primitives(o)[j] \in made[o]

Initialised(o) == \A i \in DOMAIN Primitives(o) : Primitives(o)[i] \in made[o]

InitOne(t) ==
  LET o == at[t] IN
  /\ pc[t] = "init"
  /\ \E i \in DOMAIN Primitives(o) :
        /\ IsNext(o, i)
        /\ made' = [made EXCEPT ![o] = @ \cup {Primitives(o)[i]}]
  /\ UNCHANGED <<pc, at, inside, ref, runVars, mem, m_uiCount, holder, exited>>

(* The next primitive cannot be made: what was made is destroyed, and      *)
(* create deletes the object.                                              *)
InitFails(t) ==
  LET o == at[t] IN
  /\ pc[t] = "init" /\ ~Initialised(o)
  /\ made' = [made EXCEPT ![o] = @ \ CleanedUp(o)]
  /\ mem' = [mem EXCEPT ![o] = "deleted"]
  /\ CreateFails(t, o)
  /\ at' = [at EXCEPT ![t] = None]
  /\ inside' = [inside EXCEPT ![t] = {}]
  /\ Goto(t, "idle")
  /\ UNCHANGED <<ref, runVars, m_uiCount, holder>>

(* A channel is referenced once more, for the second end of its pair. *)
ChanCreated(t, o, e) ==
  /\ e # In
  /\ m_uiCount' = [m_uiCount EXCEPT ![o] = @ + 1]
  /\ holder' = [holder EXCEPT ![o] = [@ EXCEPT ![In] = t, ![e] = t]]

BarrierCreated(t, o, e) ==
  /\ e # In
  /\ holder' = [holder EXCEPT ![o] = [@ EXCEPT ![e] = t]]
  /\ UNCHANGED m_uiCount

Created(t) ==
  LET o == at[t] IN
  /\ pc[t] = "init" /\ Initialised(o)
  /\ o \notin Alternatives
  /\ \E e \in EndIds : IF o \in Channels THEN ChanCreated(t, o, e)
                                         ELSE BarrierCreated(t, o, e)
  /\ at' = [at EXCEPT ![t] = None]
  /\ Goto(t, "idle")
  /\ UNCHANGED <<inside, ref, runVars, mem, made, exited>>

(* select, and the return of alternative_2, which keeps no reference to    *)
(* the Alternative.                                                        *)
Select(t) ==
  LET o == at[t] IN
  /\ pc[t] = "init" /\ Initialised(o)
  /\ o \in Alternatives
  /\ inside' = [inside EXCEPT ![t] = @ \cup {o}]
  /\ at' = [at EXCEPT ![t] = None]
  /\ Goto(t, "using")
  /\ UNCHANGED <<ref, runVars, objectVars, exited>>
-----------------------------------------------------------------------------
(* The calls of a holder. *)

(* A read, a write or a sync begins. *)
Use(t, o) ==
  /\ pc[t] = "idle"
  /\ \E e \in EndIds : holder[o][e] = t
  /\ inside' = [inside EXCEPT ![t] = {o}]
  /\ Goto(t, "using")
  /\ UNCHANGED <<at, ref, runVars, objectVars, exited>>

Return(t) ==
  /\ pc[t] = "using"
  /\ inside' = [inside EXCEPT ![t] = {}]
  /\ Goto(t, "idle")
  /\ UNCHANGED <<at, ref, runVars, objectVars, exited>>

(* Mutant: the count of a new end is lost. *)
RefUncounted(t, o, e) ==
  /\ pc[t] = "idle"
  /\ KindOf[o] \in {"many2one", "barrier2"}
  /\ \E x \in EndIds \ {In} : holder[o][x] = t
  /\ e # In /\ holder[o][e] = None
  /\ holder' = [holder EXCEPT ![o][e] = t]
  /\ UNCHANGED <<pc, at, inside, ref, runVars, mem, made, m_uiCount, exited>>

(* many2one_chan_out_ref and barrier2_ref; there is none for the ends of a *)
(* one2one channel.                                                        *)
Ref(t, o, e) ==
  /\ pc[t] = "idle"
  /\ \/ KindOf[o] = "many2one" /\ \E x \in EndIds \ {In} : holder[o][x] = t
     \/ KindOf[o] = "barrier2" /\ \E x \in EndIds : holder[o][x] = t
  /\ e # In /\ holder[o][e] = None
  /\ m_uiCount' = [m_uiCount EXCEPT ![o] = @ + 1]
  /\ holder' = [holder EXCEPT ![o][e] = t]
  /\ UNCHANGED <<pc, at, inside, ref, runVars, mem, made, exited>>

(* unref, up to the atomic decrement. *)
Unref(t, o, e) ==
  /\ pc[t] = "idle" /\ holder[o][e] = t
  /\ m_uiCount' = [m_uiCount EXCEPT ![o] = @ - 1]
  /\ ref' = [ref EXCEPT ![t] = m_uiCount[o] - 1]
  /\ holder' = [holder EXCEPT ![o][e] = None]
  /\ at' = [at EXCEPT ![t] = o]
  /\ Goto(t, "unref")
  /\ UNCHANGED <<inside, runVars, mem, made, exited>>

(* Mutant: the count is read again after the decrement. *)
IsLastByCount(t) == m_uiCount[at[t]] = 0

IsLast(t) == ref[t] = 0

UnrefTest(t) ==
  /\ pc[t] = "unref"
  /\ IF IsLast(t) THEN Goto(t, "finalize") /\ UNCHANGED at
                  ELSE Goto(t, "idle") /\ at' = [at EXCEPT ![t] = None]
  /\ ref' = [ref EXCEPT ![t] = 0]
  /\ UNCHANGED <<inside, runVars, objectVars, exited>>

(* finalize and delete. *)
Finalize(t) ==
  LET o == at[t] IN
  /\ pc[t] = "finalize"
  /\ made' = [made EXCEPT ![o] = @ \ Finalized(o)]
  /\ mem' = [mem EXCEPT ![o] = "deleted"]
  /\ at' = [at EXCEPT ![t] = None]
  /\ Goto(t, "idle")
  /\ UNCHANGED <<inside, ref, runVars, m_uiCount, holder, exited>>
-----------------------------------------------------------------------------
(* para_run2, para_run3 and para_run4. *)

(* The bound: there are threads left for n processes. *)
Spare(n) ==
  /\ \A t \in Threads : toRun[t] = 0
  /\ n <= Cardinality({t \in Threads : pc[t] = "unborn"})

ParaRun(t, n) ==
  /\ pc[t] = "idle" /\ Spare(n)
  /\ toRun' = [toRun EXCEPT ![t] = n]
  /\ Goto(t, "run")
  /\ UNCHANGED <<at, inside, ref, tids, objectVars, exited>>

(* run_proc: the next process becomes a thread; the ends its closure has   *)
(* captured go with it.                                                    *)
RunProc(t, c, ends) ==
  /\ pc[t] = "run" /\ toRun[t] > 0 /\ pc[c] = "unborn"
  /\ holder' = [o \in Objects |-> [e \in EndIds |->
                  IF <<o, e>> \in ends THEN c ELSE holder[o][e]]]
  /\ toRun' = [toRun EXCEPT ![t] = @ - 1]
  /\ tids' = [tids EXCEPT ![t] = Append(@, c)]
  /\ Goto(c, "idle")
  /\ UNCHANGED <<at, inside, ref, mem, made, m_uiCount, exited>>

(* pthread_create fails; threads started before run on until the exit. *)
RunProcFails(t) ==
  /\ pc[t] = "run" /\ toRun[t] > 0
  /\ exited' = TRUE
  /\ UNCHANGED <<pc, at, inside, ref, runVars, objectVars>>

(* Mutant: para_run waits for the same thread again and again. *)
WaitProcSame(t) ==
  /\ pc[t] = "run" /\ toRun[t] = 0 /\ tids[t] # <<>>
  /\ pc[Head(tids[t])] = "ended"
  /\ UNCHANGED vars

(* wait_proc of the next thread. *)
WaitProc(t) ==
  /\ pc[t] = "run" /\ toRun[t] = 0 /\ tids[t] # <<>>
  /\ pc[Head(tids[t])] = "ended"
  /\ Goto(Head(tids[t]), "joined")
  /\ tids' = [tids EXCEPT ![t] = Tail(@)]
  /\ UNCHANGED <<at, inside, ref, toRun, objectVars, exited>>

(* Mutant: para_run returns after the first of its threads. *)
ParaRunReturnEarly(t) ==
  /\ pc[t] = "run" /\ toRun[t] = 0 /\ Len(tids[t]) <= 1
  /\ Goto(t, "idle")
  /\ tids' = [tids EXCEPT ![t] = <<>>]
  /\ UNCHANGED <<at, inside, ref, toRun, objectVars, exited>>

ParaRunReturn(t) ==
  /\ pc[t] = "run" /\ toRun[t] = 0 /\ tids[t] = <<>>
  /\ Goto(t, "idle")
  /\ UNCHANGED <<at, inside, ref, runVars, objectVars, exited>>

(* The process returns, and app frees its closure; main returns. *)
End(t) ==
  /\ pc[t] = "idle" /\ Held(t) = {}
  /\ Goto(t, "ended")
  /\ UNCHANGED <<at, inside, ref, runVars, objectVars, exited>>
-----------------------------------------------------------------------------
(* What the process of t decides to do. *)
Process(t) ==
  \/ \E o \in Objects : New(t, o) \/ Use(t, o)
  \/ \E o \in Objects, e \in EndIds : Ref(t, o, e) \/ Unref(t, o, e)
  \/ \E n \in 2..4 : ParaRun(t, n)
  \/ \E c \in Threads, ends \in SUBSET Held(t) : RunProc(t, c, ends)
  \/ End(t)

(* What the system may refuse. *)
Fault(t) == NewFails(t) \/ InitFails(t) \/ RunProcFails(t)

(* What the library does of itself. *)
Library(t) ==
  \/ InitOne(t) \/ Created(t) \/ Select(t)
  \/ UnrefTest(t) \/ Finalize(t)
  \/ WaitProc(t) \/ ParaRunReturn(t)

(* The program ends with main, or by a fatal error. *)
Over == exited \/ pc[Main] = "ended"

Step(t) == ~Over /\ (Process(t) \/ Return(t) \/ Fault(t) \/ Library(t))

Next ==
  \/ \E t \in Threads : Step(t)
  \/ Over /\ UNCHANGED vars

Fairness == \A t \in Threads : WF_vars(~Over /\ Library(t))

SafeSpec == Init /\ [][Next]_vars

Spec == SafeSpec /\ Fairness
-----------------------------------------------------------------------------
Locations == {"unborn", "idle", "init", "using", "unref", "finalize", "run",
              "ended", "joined"}

(* Every count is a natural number: no end is given up twice, and none is  *)
(* given up that was not counted (m_uiCount is unsigned).                  *)
TypeOK ==
  /\ pc \in [Threads -> Locations]
  /\ at \in [Threads -> Objects \cup {None}]
  /\ inside \in [Threads -> SUBSET Objects]
  /\ ref \in [Threads -> Nat]
  /\ toRun \in [Threads -> 0..4]
  /\ tids \in [Threads -> Seq(Threads)]
  /\ mem \in [Objects -> {"unused", "allocated", "deleted"}]
  /\ made \in [Objects -> SUBSET {"m_sync", "m_cond", "m_mxReader", "m_cdReader", "m_sem"}]
  /\ m_uiCount \in [Objects -> Nat]
  /\ holder \in [Objects -> [EndIds -> Threads \cup {None}]]
  /\ exited \in BOOLEAN
-----------------------------------------------------------------------------
(* The reference count of an object is the number of its ends, whoever     *)
(* created, passed on or gave up ends at the same time.                    *)
CountsEnds ==
  \A o \in Objects \ Alternatives :
     EndsOf(o) # {} => m_uiCount[o] = Cardinality(EndsOf(o))

(* No thread works on, holds an end of, or comes to destroy an object that *)
(* is deleted or has lost a primitive: the last unref, and no other,       *)
(* destroys.                                                               *)
UsedIsWhole ==
  \A o \in Objects :
     (\/ EndsOf(o) # {}
      \/ \E t \in Threads : o \in inside[t] \/ (pc[t] = "finalize" /\ at[t] = o))
       => Whole(o)

(* An object that is out of reach is gone, and its primitives with it:     *)
(* after a creation that failed half-way no less than after the last       *)
(* unref.  An Alternative is the exception: nothing deletes it after       *)
(* select.                                                                 *)
OutOfReachIsGone ==
  \A o \in Objects :
     (EndsOf(o) = {} /\ \A t \in Threads : at[t] # o /\ o \notin inside[t])
       => \/ made[o] = {} /\ mem[o] # "allocated"
          \/ o \in Alternatives /\ Whole(o)

(* When main returns no other thread is left, and nothing is allocated but *)
(* the Alternatives.                                                       *)
MainEndsLast ==
  pc[Main] = "ended" =>
     /\ \A t \in Threads \ {Main} : pc[t] \in {"unborn", "joined"}
     /\ \A o \in Objects \ Alternatives : mem[o] # "allocated"

(* para_run returns once its processes have, in whatever order they do,    *)
(* unless a fatal error terminates the program.                            *)
ParaRunReturns ==
  \A t \in Threads :
     (/\ pc[t] = "run" /\ toRun[t] = 0
      /\ \A i \in DOMAIN tids[t] : pc[tids[t][i]] = "ended")
       ~> (pc[t] # "run" \/ Over)
=============================================================================
