--------------------------- MODULE LifecycleProofs ---------------------------
(***************************************************************************)
(* Proofs about Lifecycle: for any number of threads, objects and ends,    *)
(* counts are exact, nothing is used after its destruction, and what is    *)
(* out of reach has been freed.                                            *)
(*                                                                         *)
(* The invariant says who owns an object of which no end exists: the       *)
(* thread that is still creating it, or the one whose unref took the count *)
(* to zero.  There is at most one.                                         *)
(***************************************************************************)
EXTENDS Lifecycle, FiniteSetTheorems, TLAPS

(* t creates o, or is the one to destroy it. *)
Owns(t, o) ==
  /\ at[t] = o
  /\ pc[t] \in {"init", "finalize"} \/ (pc[t] = "unref" /\ ref[t] = 0)

AtObject ==
  \A t \in Threads : IF pc[t] \in {"init", "unref", "finalize"}
                       THEN at[t] \in Objects ELSE at[t] = None

(* Ends exist of whole objects only, and are counted. *)
EndsCounted ==
  \A o \in Objects : EndsOf(o) # {} =>
     /\ Whole(o)
     /\ o \notin Alternatives
     /\ m_uiCount[o] = Cardinality(EndsOf(o))

OwnerAlone ==
  \A t \in Threads, o \in Objects : Owns(t, o) =>
     /\ EndsOf(o) = {} /\ mem[o] = "allocated"
     /\ \A u \in Threads : o \notin inside[u] /\ (Owns(u, o) => u = t)
     /\ IF pc[t] = "init" THEN m_uiCount[o] = 1
                          ELSE Whole(o) /\ o \notin Alternatives

(* A thread is inside objects it holds an end of, or its own Alternative. *)
InsideHeld ==
  \A t \in Threads : \A o \in inside[t] :
     /\ pc[t] = "using" \/ (pc[t] = "init" /\ at[t] \in Alternatives)
     /\ \/ \E e \in EndIds : holder[o][e] = t
        \/ o \in Alternatives /\ Whole(o)

(* Primitives are made in order, and exist in allocated objects only. *)
MadeInOrder ==
  \A o \in Objects :
     /\ made[o] \subseteq Finalized(o)
     /\ mem[o] # "allocated" => made[o] = {}
     /\ \A i \in DOMAIN Primitives(o) : \A j \in 1..(i - 1) :
           Primitives(o)[i] \in made[o] => Primitives(o)[j] \in made[o]

(* What is allocated has ends, has an owner or is a finished Alternative. *)
Reachable ==
  \A o \in Objects : mem[o] = "allocated" =>
     \/ EndsOf(o) # {}
     \/ \E t \in Threads : Owns(t, o)
     \/ o \in Alternatives /\ Whole(o)

IInv == /\ TypeOK /\ AtObject /\ EndsCounted /\ OwnerAlone /\ InsideHeld
        /\ MadeInOrder /\ Reachable
-----------------------------------------------------------------------------
(* What init makes is what finalize destroys; each primitive is made once, *)
(* and all but the last are undone by the clean-up of init.                *)
LEMMA PrimitiveFacts ==
  ASSUME NEW o \in Objects
  PROVE  /\ \A i \in DOMAIN Primitives(o) : Primitives(o)[i] \in Finalized(o)
         /\ \A i, j \in DOMAIN Primitives(o) : Primitives(o)[i] = Primitives(o)[j] => i = j
         /\ \A p \in Finalized(o) : \E i \in DOMAIN Primitives(o) : p = Primitives(o)[i]
         /\ \A p \in Finalized(o) \ CleanedUp(o) : p = Primitives(o)[Len(Primitives(o))]
         /\ Finalized(o) \subseteq {"m_sync", "m_cond", "m_mxReader", "m_cdReader", "m_sem"}
         /\ DOMAIN Primitives(o) = 1..Len(Primitives(o)) /\ Len(Primitives(o)) \in Nat \ {0}
<1>1. CASE KindOf[o] = "many2one"
  <2>1. Primitives(o) = <<"m_sync", "m_cond", "m_mxReader", "m_cdReader">>
    BY <1>1 DEF Primitives
  <2>2. Finalized(o) = {"m_sync", "m_cond", "m_mxReader", "m_cdReader"}
    BY <1>1 DEF Finalized
  <2>3. CleanedUp(o) = {"m_sync", "m_cond", "m_mxReader"}
    BY <1>1 DEF CleanedUp
  <2>4. /\ DOMAIN Primitives(o) = 1..4
        /\ Len(Primitives(o)) = 4
    <3>1. DOMAIN Primitives(o) = 1..4
      BY <2>1
    <3>2. Len(Primitives(o)) = 4
      BY <2>1
    <3> QED BY <3>1, <3>2
  <2>5. /\ Primitives(o)[1] = "m_sync"
       /\ Primitives(o)[2] = "m_cond"
       /\ Primitives(o)[3] = "m_mxReader"
       /\ Primitives(o)[4] = "m_cdReader"
    BY <2>1
  <2>6. \A i \in 1..4 : i = 1 \/ i = 2 \/ i = 3 \/ i = 4
    OBVIOUS
  <2> QED BY <2>2, <2>3, <2>4, <2>5, <2>6
<1>2. CASE KindOf[o] = "barrier2"
  <2>1. Primitives(o) = <<"m_sem", "m_sync", "m_cond">>
    BY <1>2 DEF Primitives
  <2>2. Finalized(o) = {"m_sem", "m_sync", "m_cond"}
    BY <1>2 DEF Finalized
  <2>3. CleanedUp(o) = {"m_sem", "m_sync"}
    BY <1>2 DEF CleanedUp
  <2>4. /\ DOMAIN Primitives(o) = 1..3
        /\ Len(Primitives(o)) = 3
    <3>1. DOMAIN Primitives(o) = 1..3
      BY <2>1
    <3>2. Len(Primitives(o)) = 3
      BY <2>1
    <3> QED BY <3>1, <3>2
  <2>5. /\ Primitives(o)[1] = "m_sem"
       /\ Primitives(o)[2] = "m_sync"
       /\ Primitives(o)[3] = "m_cond"
    BY <2>1
  <2>6. \A i \in 1..3 : i = 1 \/ i = 2 \/ i = 3
    OBVIOUS
  <2> QED BY <2>2, <2>3, <2>4, <2>5, <2>6
<1>3. CASE KindOf[o] \notin {"many2one", "barrier2"}
  <2>1. Primitives(o) = <<"m_sync", "m_cond">>
    BY <1>3 DEF Primitives
  <2>2. Finalized(o) = {"m_sync", "m_cond"}
    BY <1>3 DEF Finalized
  <2>3. CleanedUp(o) = {"m_sync"}
    BY <1>3 DEF CleanedUp
  <2>4. /\ DOMAIN Primitives(o) = 1..2
        /\ Len(Primitives(o)) = 2
    <3>1. DOMAIN Primitives(o) = 1..2
      BY <2>1
    <3>2. Len(Primitives(o)) = 2
      BY <2>1
    <3> QED BY <3>1, <3>2
  <2>5. /\ Primitives(o)[1] = "m_sync"
       /\ Primitives(o)[2] = "m_cond"
    BY <2>1
  <2>6. \A i \in 1..2 : i = 1 \/ i = 2
    OBVIOUS
  <2> QED BY <2>2, <2>3, <2>4, <2>5, <2>6
<1> QED BY <1>1, <1>2, <1>3

(* An object all of whose primitives are made is whole, and the clean-up   *)
(* of an init that did not make them all leaves none.                      *)
LEMMA InitFacts ==
  ASSUME NEW o \in Objects, MadeInOrder
  PROVE  /\ Initialised(o) => made[o] = Finalized(o)
         /\ ~Initialised(o) => made[o] \ CleanedUp(o) = {}
<1>1. ASSUME Initialised(o) PROVE made[o] = Finalized(o)
  <2>1. \A p \in Finalized(o) : p \in made[o]
    BY <1>1, PrimitiveFacts DEF Initialised
  <2> QED BY <2>1 DEF MadeInOrder
<1>2. ASSUME ~Initialised(o) PROVE made[o] \ CleanedUp(o) = {}
  <2>1. PICK i \in DOMAIN Primitives(o) : Primitives(o)[i] \notin made[o]
    BY <1>2 DEF Initialised
  <2>2. Primitives(o)[Len(Primitives(o))] \notin made[o]
    BY <2>1, PrimitiveFacts DEF MadeInOrder
  <2> QED BY <2>2, PrimitiveFacts DEF MadeInOrder
<1> QED BY <1>1, <1>2

(* Adding or removing one end changes the number of ends by one.           *)
LEMMA EndsChange ==
  ASSUME NEW S \in SUBSET EndIds, NEW e \in EndIds
  PROVE  /\ Cardinality(S) \in Nat
         /\ Cardinality(S) = 0 <=> S = {}
         /\ e \notin S => Cardinality(S \cup {e}) = Cardinality(S) + 1
         /\ e \in S => Cardinality(S \ {e}) = Cardinality(S) - 1
<1>1. IsFiniteSet(S)
  BY FS_Subset, LifecycleAssumption
<1> QED BY <1>1, FS_CardinalityType, FS_EmptySet, FS_AddElement, FS_RemoveElement

(* A step that leaves the objects, and who owns them, as they are.         *)
LEMMA Quiet ==
  ASSUME IInv, UNCHANGED objectVars, TypeOK', AtObject', InsideHeld',
         \A t \in Threads, o \in Objects :
            (Owns(t, o)' <=> Owns(t, o)) /\ (Owns(t, o) => (pc'[t] = "init" <=> pc[t] = "init")),
         \A t \in Threads : \A o \in inside'[t] : o \in inside[t] \/ EndsOf(o) # {}
                                                 \/ \E u \in Threads : o \in inside[u]
  PROVE  IInv'
<1> USE DEF IInv, objectVars
<1>0. \A o \in Objects : (EndsOf(o))' = EndsOf(o) /\ (Whole(o))' = Whole(o)
  BY DEF EndsOf, Whole
<1>1. EndsCounted'
  BY <1>0 DEF EndsCounted
<1>2. OwnerAlone'
  BY <1>0 DEF OwnerAlone
<1>3. MadeInOrder'
  BY DEF MadeInOrder
<1>4. Reachable'
  BY <1>0 DEF Reachable
<1> QED BY <1>1, <1>2, <1>3, <1>4
-----------------------------------------------------------------------------
LEMMA UseStep ==
  ASSUME IInv, NEW t \in Threads, NEW o \in Objects, Use(t, o)
  PROVE  IInv'
<1> USE DEF IInv, Use, Goto, runVars, objectVars
<1>1. TypeOK'
  BY DEF TypeOK, Locations, CreateFails
<1>2. AtObject'
  BY DEF TypeOK, AtObject
<1>3. \A u \in Threads, x \in Objects :
         /\ Owns(u, x)' <=> Owns(u, x)
         /\ Owns(u, x) => (pc'[u] = "init" <=> pc[u] = "init")
  BY DEF TypeOK, Owns
<1>4. InsideHeld'
  BY DEF TypeOK, InsideHeld, Whole
<1>5. \A u \in Threads : \A x \in inside'[u] :
         x \in inside[u] \/ EndsOf(x) # {} \/ \E v \in Threads : x \in inside[v]
  BY LifecycleAssumption DEF TypeOK, EndsOf
<1> HIDE DEF Use
<1> QED BY <1>1, <1>2, <1>3, <1>4, <1>5, Quiet DEF Use

LEMMA ReturnStep ==
  ASSUME IInv, NEW t \in Threads, Return(t)
  PROVE  IInv'
<1> USE DEF IInv, Return, Goto, runVars, objectVars
<1>1. TypeOK'
  BY DEF TypeOK, Locations, CreateFails
<1>2. AtObject'
  BY DEF TypeOK, AtObject
<1>3. \A u \in Threads, x \in Objects :
         /\ Owns(u, x)' <=> Owns(u, x)
         /\ Owns(u, x) => (pc'[u] = "init" <=> pc[u] = "init")
  BY DEF TypeOK, Owns
<1>4. InsideHeld'
  BY DEF TypeOK, InsideHeld, Whole
<1>5. \A u \in Threads : \A x \in inside'[u] :
         x \in inside[u] \/ EndsOf(x) # {} \/ \E v \in Threads : x \in inside[v]
  BY LifecycleAssumption DEF TypeOK, EndsOf
<1> HIDE DEF Return
<1> QED BY <1>1, <1>2, <1>3, <1>4, <1>5, Quiet DEF Return

LEMMA ParaRunStep ==
  ASSUME IInv, NEW t \in Threads, NEW n \in 2..4, ParaRun(t, n)
  PROVE  IInv'
<1> USE DEF IInv, ParaRun, Goto, runVars, objectVars
<1>1. TypeOK'
  BY DEF TypeOK, Locations, CreateFails
<1>2. AtObject'
  BY DEF TypeOK, AtObject
<1>3. \A u \in Threads, x \in Objects :
         /\ Owns(u, x)' <=> Owns(u, x)
         /\ Owns(u, x) => (pc'[u] = "init" <=> pc[u] = "init")
  BY DEF TypeOK, Owns
<1>4. InsideHeld'
  BY DEF TypeOK, InsideHeld, Whole
<1>5. \A u \in Threads : \A x \in inside'[u] :
         x \in inside[u] \/ EndsOf(x) # {} \/ \E v \in Threads : x \in inside[v]
  BY LifecycleAssumption DEF TypeOK, EndsOf
<1> HIDE DEF ParaRun
<1> QED BY <1>1, <1>2, <1>3, <1>4, <1>5, Quiet DEF ParaRun

LEMMA ParaRunReturnStep ==
  ASSUME IInv, NEW t \in Threads, ParaRunReturn(t)
  PROVE  IInv'
<1> USE DEF IInv, ParaRunReturn, Goto, runVars, objectVars
<1>1. TypeOK'
  BY DEF TypeOK, Locations, CreateFails
<1>2. AtObject'
  BY DEF TypeOK, AtObject
<1>3. \A u \in Threads, x \in Objects :
         /\ Owns(u, x)' <=> Owns(u, x)
         /\ Owns(u, x) => (pc'[u] = "init" <=> pc[u] = "init")
  BY DEF TypeOK, Owns
<1>4. InsideHeld'
  BY DEF TypeOK, InsideHeld, Whole
<1>5. \A u \in Threads : \A x \in inside'[u] :
         x \in inside[u] \/ EndsOf(x) # {} \/ \E v \in Threads : x \in inside[v]
  BY LifecycleAssumption DEF TypeOK, EndsOf
<1> HIDE DEF ParaRunReturn
<1> QED BY <1>1, <1>2, <1>3, <1>4, <1>5, Quiet DEF ParaRunReturn

LEMMA EndStep ==
  ASSUME IInv, NEW t \in Threads, End(t)
  PROVE  IInv'
<1> USE DEF IInv, End, Goto, runVars, objectVars
<1>1. TypeOK'
  BY DEF TypeOK, Locations, CreateFails
<1>2. AtObject'
  BY DEF TypeOK, AtObject
<1>3. \A u \in Threads, x \in Objects :
         /\ Owns(u, x)' <=> Owns(u, x)
         /\ Owns(u, x) => (pc'[u] = "init" <=> pc[u] = "init")
  BY DEF TypeOK, Owns
<1>4. InsideHeld'
  BY DEF TypeOK, InsideHeld, Whole
<1>5. \A u \in Threads : \A x \in inside'[u] :
         x \in inside[u] \/ EndsOf(x) # {} \/ \E v \in Threads : x \in inside[v]
  BY LifecycleAssumption DEF TypeOK, EndsOf
<1> HIDE DEF End
<1> QED BY <1>1, <1>2, <1>3, <1>4, <1>5, Quiet DEF End

LEMMA NewFailsStep ==
  ASSUME IInv, NEW t \in Threads, NewFails(t)
  PROVE  IInv'
<1> USE DEF IInv, NewFails, Goto, runVars, objectVars
<1>1. TypeOK'
  BY DEF TypeOK, Locations, CreateFails
<1>2. AtObject'
  BY DEF TypeOK, AtObject
<1>3. \A u \in Threads, x \in Objects :
         /\ Owns(u, x)' <=> Owns(u, x)
         /\ Owns(u, x) => (pc'[u] = "init" <=> pc[u] = "init")
  BY DEF TypeOK, Owns
<1>4. InsideHeld'
  BY DEF TypeOK, InsideHeld, Whole
<1>5. \A u \in Threads : \A x \in inside'[u] :
         x \in inside[u] \/ EndsOf(x) # {} \/ \E v \in Threads : x \in inside[v]
  BY LifecycleAssumption DEF TypeOK, EndsOf
<1> HIDE DEF NewFails
<1> QED BY <1>1, <1>2, <1>3, <1>4, <1>5, Quiet DEF NewFails

LEMMA RunProcFailsStep ==
  ASSUME IInv, NEW t \in Threads, RunProcFails(t)
  PROVE  IInv'
<1> USE DEF IInv, RunProcFails, Goto, runVars, objectVars
<1>1. TypeOK'
  BY DEF TypeOK, Locations, CreateFails
<1>2. AtObject'
  BY DEF TypeOK, AtObject
<1>3. \A u \in Threads, x \in Objects :
         /\ Owns(u, x)' <=> Owns(u, x)
         /\ Owns(u, x) => (pc'[u] = "init" <=> pc[u] = "init")
  BY DEF TypeOK, Owns
<1>4. InsideHeld'
  BY DEF TypeOK, InsideHeld, Whole
<1>5. \A u \in Threads : \A x \in inside'[u] :
         x \in inside[u] \/ EndsOf(x) # {} \/ \E v \in Threads : x \in inside[v]
  BY LifecycleAssumption DEF TypeOK, EndsOf
<1> HIDE DEF RunProcFails
<1> QED BY <1>1, <1>2, <1>3, <1>4, <1>5, Quiet DEF RunProcFails

LEMMA WaitProcStep ==
  ASSUME IInv, NEW t \in Threads, WaitProc(t)
  PROVE  IInv'
<1> USE DEF IInv, WaitProc, Goto, runVars, objectVars
<1>1. TypeOK'
  BY DEF TypeOK, Locations, CreateFails
<1>2. AtObject'
  BY DEF TypeOK, AtObject
<1>3. \A u \in Threads, x \in Objects :
         /\ Owns(u, x)' <=> Owns(u, x)
         /\ Owns(u, x) => (pc'[u] = "init" <=> pc[u] = "init")
  BY DEF TypeOK, Owns
<1>4. InsideHeld'
  BY DEF TypeOK, InsideHeld, Whole
<1>5. \A u \in Threads : \A x \in inside'[u] :
         x \in inside[u] \/ EndsOf(x) # {} \/ \E v \in Threads : x \in inside[v]
  BY LifecycleAssumption DEF TypeOK, EndsOf
<1> HIDE DEF WaitProc
<1> QED BY <1>1, <1>2, <1>3, <1>4, <1>5, Quiet DEF WaitProc

-----------------------------------------------------------------------------
LEMMA NewStep ==
  ASSUME IInv, NEW t \in Threads, NEW o \in Objects, New(t, o)
  PROVE  IInv'
<1> USE LifecycleAssumption DEF IInv, New, Goto, runVars
<1>1. TypeOK'
  <2>1. \A g \in SUBSET Guards(t) : g \subseteq Objects
    BY DEF Guards, Held
  <2>2. inside' \in [Threads -> SUBSET Objects]
    BY <2>1 DEF TypeOK
  <2> QED BY <2>2 DEF TypeOK, Locations
<1>2. AtObject'
  BY DEF TypeOK, AtObject
<1>3. \A x \in Objects : (EndsOf(x))' = EndsOf(x)
  BY DEF EndsOf
<1>4. \A x \in Objects \ {o} : mem'[x] = mem[x] /\ (Whole(x))' = Whole(x)
  BY DEF TypeOK, Whole
<1>5. EndsOf(o) = {} /\ ~Whole(o) /\ \A u \in Threads : ~Owns(u, o)
  BY DEF EndsCounted, OwnerAlone, Whole
<1>6. \A u \in Threads, x \in Objects : Owns(u, x)' <=> Owns(u, x) \/ (u = t /\ x = o)
  BY DEF TypeOK, Owns
<1>7. \A u \in Threads : \A x \in inside[u] : EndsOf(x) # {} \/ Whole(x)
  BY DEF TypeOK, InsideHeld, EndsOf
<1>8. \A u \in Threads : \A x \in inside'[u] : x \in inside[u] \/ (EndsOf(x) # {} /\ u = t)
  BY DEF TypeOK, Guards, Held, EndsOf
<1>9. EndsCounted'
  BY <1>3, <1>4, <1>5 DEF TypeOK, EndsCounted
<1>10. OwnerAlone'
  <2> SUFFICES ASSUME NEW u \in Threads, NEW x \in Objects, Owns(u, x)'
               PROVE  /\ (EndsOf(x))' = {} /\ mem'[x] = "allocated"
                      /\ \A v \in Threads : x \notin inside'[v] /\ (Owns(v, x)' => v = u)
                      /\ IF pc'[u] = "init" THEN m_uiCount'[x] = 1
                                            ELSE (Whole(x))' /\ x \notin Alternatives
    BY DEF OwnerAlone
  <2>1. CASE u = t /\ x = o
    BY <2>1, <1>3, <1>5, <1>6, <1>7, <1>8 DEF TypeOK
  <2>2. CASE Owns(u, x)
    <3>1. x # o /\ u # t
      BY <2>2, <1>5 DEF Owns
    <3> QED BY <2>2, <3>1, <1>3, <1>4, <1>6, <1>8 DEF TypeOK, OwnerAlone
  <2> QED BY <2>1, <2>2, <1>6
<1>11. InsideHeld'
  <2> SUFFICES ASSUME NEW u \in Threads, NEW x \in inside'[u]
               PROVE  /\ pc'[u] = "using" \/ (pc'[u] = "init" /\ at'[u] \in Alternatives)
                      /\ \/ \E e \in EndIds : holder'[x][e] = u
                         \/ x \in Alternatives /\ (Whole(x))'
    BY DEF InsideHeld
  <2>1. CASE x \in inside[u]
    <3>1. x \in Objects /\ (pc[u] = "using" \/ (pc[u] = "init" /\ at[u] \in Alternatives)) /\ u # t
      BY <2>1 DEF TypeOK, InsideHeld
    <3>2. (\E e \in EndIds : holder[x][e] = u) \/ (x \in Alternatives /\ Whole(x))
      BY <2>1 DEF InsideHeld
    <3>3. Whole(x) => (Whole(x))'
      BY <3>1, <1>4, <1>5
    <3> QED BY <3>1, <3>2, <3>3 DEF TypeOK
  <2>2. CASE x \notin inside[u]
    BY <2>2 DEF TypeOK, Guards, Held
  <2> QED BY <2>1, <2>2
<1>12. MadeInOrder'
  BY DEF TypeOK, MadeInOrder
<1>13. Reachable'
  BY <1>3, <1>4, <1>6 DEF TypeOK, Reachable
<1> QED BY <1>1, <1>2, <1>9, <1>10, <1>11, <1>12, <1>13

(* What holds of the object a thread is at work on, outside any end. *)
LEMMA OwnerFacts ==
  ASSUME IInv, NEW t \in Threads,
         pc[t] \in {"init", "finalize"} \/ (pc[t] = "unref" /\ ref[t] = 0)
  PROVE  /\ at[t] \in Objects /\ Owns(t, at[t])
         /\ EndsOf(at[t]) = {} /\ mem[at[t]] = "allocated"
         /\ \A u \in Threads : at[t] \notin inside[u] /\ (Owns(u, at[t]) => u = t)
         /\ pc[t] # "init" => Whole(at[t]) /\ at[t] \notin Alternatives
         /\ pc[t] = "init" => m_uiCount[at[t]] = 1
<1>1. at[t] \in Objects /\ Owns(t, at[t])
  BY DEF IInv, AtObject, Owns
<1> QED BY <1>1 DEF IInv, OwnerAlone

LEMMA InitOneStep ==
  ASSUME IInv, NEW t \in Threads, InitOne(t)
  PROVE  IInv'
<1> DEFINE o == at[t]
<1> USE LifecycleAssumption DEF IInv, runVars
<1>1. /\ o \in Objects /\ EndsOf(o) = {} /\ pc[t] = "init"
      /\ \A u \in Threads : o \notin inside[u] /\ (Owns(u, o) => u = t)
  BY OwnerFacts DEF InitOne
<1>2. PICK i \in DOMAIN Primitives(o) :
         IsNext(o, i) /\ made' = [made EXCEPT ![o] = @ \cup {Primitives(o)[i]}]
  BY DEF InitOne
<1>3. UNCHANGED <<pc, at, inside, ref, runVars, mem, m_uiCount, holder, exited>>
  BY DEF InitOne
<1>4. \A x \in Objects : (EndsOf(x))' = EndsOf(x)
  BY <1>3 DEF EndsOf
<1>5. \A x \in Objects \ {o} : made'[x] = made[x] /\ (Whole(x))' = Whole(x)
  BY <1>2, <1>3 DEF TypeOK, Whole
<1>6. \A u \in Threads, x \in Objects : Owns(u, x)' <=> Owns(u, x)
  BY <1>3 DEF Owns
<1>7. Primitives(o)[i] \in Finalized(o) /\ made'[o] = made[o] \cup {Primitives(o)[i]}
  BY <1>1, <1>2, PrimitiveFacts DEF TypeOK
<1>8. TypeOK'
  <2>1. made' \in [Objects -> SUBSET {"m_sync", "m_cond", "m_mxReader", "m_cdReader", "m_sem"}]
    BY <1>1, <1>2, <1>7, PrimitiveFacts DEF TypeOK
  <2> QED BY <2>1, <1>3 DEF TypeOK
<1>9. AtObject'
  BY <1>3 DEF AtObject
<1>10. EndsCounted'
  BY <1>1, <1>3, <1>4, <1>5 DEF EndsCounted
<1>11. OwnerAlone'
  BY <1>1, <1>3, <1>4, <1>5, <1>6 DEF OwnerAlone
<1>12. InsideHeld'
  <2>1. \A u \in Threads : \A x \in inside[u] : (Whole(x))' = Whole(x)
    BY <1>1, <1>5 DEF TypeOK
  <2> QED BY <2>1, <1>3 DEF InsideHeld
<1>13. MadeInOrder'
  <2> SUFFICES ASSUME NEW x \in Objects
               PROVE  /\ made'[x] \subseteq Finalized(x)
                      /\ mem'[x] # "allocated" => made'[x] = {}
                      /\ \A k \in DOMAIN Primitives(x) : \A j \in 1..(k - 1) :
                            Primitives(x)[k] \in made'[x] => Primitives(x)[j] \in made'[x]
    BY DEF MadeInOrder
  <2>1. CASE x # o
    BY <2>1, <1>3, <1>5 DEF MadeInOrder
  <2>2. CASE x = o
    <3>1. mem'[x] = "allocated" /\ made'[x] \subseteq Finalized(x)
      BY <2>2, <1>1, <1>3, <1>7, OwnerFacts DEF MadeInOrder
    <3>2. ASSUME NEW k \in DOMAIN Primitives(o), NEW j \in 1..(k - 1), Primitives(o)[k] \in made'[o]
          PROVE  Primitives(o)[j] \in made'[o]
      <4>1. CASE Primitives(o)[k] \in made[o]
        BY <4>1, <1>1, <1>7 DEF MadeInOrder
      <4>2. CASE Primitives(o)[k] = Primitives(o)[i]
        BY <4>2, <1>1, <1>2, <1>7, PrimitiveFacts DEF IsNext
      <4> QED BY <3>2, <4>1, <4>2, <1>7
    <3> QED BY <2>2, <3>1, <3>2
  <2> QED BY <2>1, <2>2
<1>14. Reachable'
  BY <1>1, <1>3, <1>4, <1>5, <1>6, OwnerFacts DEF Reachable
<1> QED BY <1>8, <1>9, <1>10, <1>11, <1>12, <1>13, <1>14

(* The one who owns an object destroys it. *)
LEMMA Destroyed ==
  ASSUME IInv, NEW t \in Threads, pc[t] \in {"init", "finalize"},
         made' = [made EXCEPT ![at[t]] = {}],
         mem' = [mem EXCEPT ![at[t]] = "deleted"],
         at' = [at EXCEPT ![t] = None],
         inside' = [inside EXCEPT ![t] = {}],
         Goto(t, "idle"), UNCHANGED <<ref, m_uiCount, holder>>
  PROVE  AtObject' /\ EndsCounted' /\ OwnerAlone' /\ InsideHeld' /\ MadeInOrder' /\ Reachable'
<1> DEFINE o == at[t]
<1> USE LifecycleAssumption DEF IInv, Goto
<1>1. /\ o \in Objects /\ EndsOf(o) = {}
      /\ \A u \in Threads : o \notin inside[u] /\ (Owns(u, o) => u = t)
  BY OwnerFacts
<1>2. \A x \in Objects : (EndsOf(x))' = EndsOf(x)
  BY DEF EndsOf
<1>3. \A x \in Objects \ {o} : made'[x] = made[x] /\ mem'[x] = mem[x] /\ (Whole(x))' = Whole(x)
  BY DEF TypeOK, Whole
<1>4. \A u \in Threads, x \in Objects : Owns(u, x)' <=> (u # t /\ Owns(u, x))
  BY DEF TypeOK, Owns
<1>5. \A u \in Threads : \A x \in inside'[u] : u # t /\ x \in inside[u] /\ x \in Objects \ {o}
  BY <1>1 DEF TypeOK
<1>6. AtObject'
  BY DEF TypeOK, AtObject
<1>7. EndsCounted'
  BY <1>1, <1>2, <1>3 DEF EndsCounted
<1>8. OwnerAlone'
  <2> SUFFICES ASSUME NEW u \in Threads, NEW x \in Objects, Owns(u, x)'
               PROVE  /\ (EndsOf(x))' = {} /\ mem'[x] = "allocated"
                      /\ \A v \in Threads : x \notin inside'[v] /\ (Owns(v, x)' => v = u)
                      /\ IF pc'[u] = "init" THEN m_uiCount'[x] = 1
                                            ELSE (Whole(x))' /\ x \notin Alternatives
    BY DEF OwnerAlone
  <2>1. u # t /\ Owns(u, x) /\ x # o
    BY <1>1, <1>4
  <2> QED BY <2>1, <1>2, <1>3, <1>4, <1>5 DEF TypeOK, OwnerAlone
<1>9. InsideHeld'
  <2>1. \A u \in Threads : \A x \in inside'[u] : (Whole(x))' = Whole(x) /\ pc'[u] = pc[u]
    BY <1>3, <1>5 DEF TypeOK
  <2> QED BY <2>1, <1>5 DEF InsideHeld
<1>10. MadeInOrder'
  <2>1. made'[o] = {}
    BY <1>1 DEF TypeOK
  <2> QED BY <2>1, <1>3 DEF MadeInOrder
<1>11. Reachable'
  <2>1. mem'[o] = "deleted"
    BY <1>1 DEF TypeOK
  <2>2. \A u \in Threads, x \in Objects \ {o} : Owns(u, x)' <=> Owns(u, x)
    BY <1>4 DEF Owns
  <2> QED BY <2>1, <2>2, <1>2, <1>3 DEF Reachable
<1> QED BY <1>6, <1>7, <1>8, <1>9, <1>10, <1>11

LEMMA InitFailsStep ==
  ASSUME IInv, NEW t \in Threads, InitFails(t)
  PROVE  IInv'
<1> USE DEF IInv, InitFails, runVars
<1>1. at[t] \in Objects /\ ~Initialised(at[t])
  BY OwnerFacts
<1>2. made' = [made EXCEPT ![at[t]] = {}]
  BY <1>1, InitFacts DEF TypeOK
<1>3. TypeOK'
  BY <1>1, <1>2 DEF TypeOK, CreateFails, Goto, Locations
<1>4. AtObject' /\ EndsCounted' /\ OwnerAlone' /\ InsideHeld' /\ MadeInOrder' /\ Reachable'
  BY <1>2, Destroyed
<1> QED BY <1>3, <1>4

LEMMA FinalizeStep ==
  ASSUME IInv, NEW t \in Threads, Finalize(t)
  PROVE  IInv'
<1> USE DEF IInv, Finalize, runVars
<1>1. at[t] \in Objects /\ Whole(at[t])
  BY OwnerFacts
<1>2. made' = [made EXCEPT ![at[t]] = {}]
  BY <1>1 DEF TypeOK, Whole
<1>3. inside[t] = {}
  BY DEF TypeOK, InsideHeld
<1>4. inside' = [inside EXCEPT ![t] = {}]
  BY <1>3 DEF TypeOK
<1>5. TypeOK'
  BY <1>1, <1>2 DEF TypeOK, Goto, Locations
<1>6. AtObject' /\ EndsCounted' /\ OwnerAlone' /\ InsideHeld' /\ MadeInOrder' /\ Reachable'
  BY <1>2, <1>4, Destroyed
<1> QED BY <1>5, <1>6

LEMMA UnrefTestStep ==
  ASSUME IInv, NEW t \in Threads, UnrefTest(t)
  PROVE  IInv'
<1> USE LifecycleAssumption DEF IInv, UnrefTest, IsLast, Goto, runVars, objectVars
<1>1. TypeOK'
  BY DEF TypeOK, Locations
<1>2. AtObject'
  BY DEF TypeOK, AtObject
<1>3. \A u \in Threads, x \in Objects :
         /\ Owns(u, x)' <=> Owns(u, x)
         /\ Owns(u, x) => (pc'[u] = "init" <=> pc[u] = "init")
  BY DEF TypeOK, Owns
<1>4. InsideHeld'
  <2>1. \A u \in Threads : \A x \in inside[u] :
           x \in Objects /\ u # t /\ pc'[u] = pc[u] /\ at'[u] = at[u]
    BY DEF TypeOK, InsideHeld
  <2> QED BY <2>1 DEF InsideHeld, Whole
<1>5. \A u \in Threads : \A x \in inside'[u] : x \in inside[u]
  OBVIOUS
<1> HIDE DEF UnrefTest
<1> QED BY <1>1, <1>2, <1>3, <1>4, <1>5, Quiet DEF UnrefTest

LEMMA CreatedStep ==
  ASSUME IInv, NEW t \in Threads, Created(t)
  PROVE  IInv'
<1> USE LifecycleAssumption DEF IInv, Goto, runVars
<1>0. PICK o \in Objects : o = at[t]
  BY OwnerFacts DEF Created
<1>1. /\ o \notin Alternatives /\ EndsOf(o) = {} /\ pc[t] = "init"
      /\ Whole(o) /\ m_uiCount[o] = 1
      /\ \A u \in Threads : o \notin inside[u] /\ (Owns(u, o) => u = t)
  BY <1>0, OwnerFacts, InitFacts DEF Created, Whole
<1>2. /\ pc' = [pc EXCEPT ![t] = "idle"] /\ at' = [at EXCEPT ![t] = None]
      /\ UNCHANGED <<inside, ref, toRun, tids, mem, made, exited>>
  BY DEF Created
<1>3. PICK e \in EndIds : IF o \in Channels THEN ChanCreated(t, o, e) ELSE BarrierCreated(t, o, e)
  BY <1>0 DEF Created
<1> DEFINE S == IF o \in Channels THEN {In, e} ELSE {e}
<1>4. /\ m_uiCount' = [m_uiCount EXCEPT ![o] = Cardinality(S)]
      /\ holder' = [holder EXCEPT ![o] = [k \in EndIds |-> IF k \in S THEN t ELSE None]]
  <2>1. holder[o] = [k \in EndIds |-> None]
    BY <1>1 DEF TypeOK, EndsOf
  <2>2. Cardinality({}) = 0 /\ Cardinality({} \cup {e}) = 1
    BY EndsChange, FS_EmptySet
  <2>3. {} \cup {e} = {e}
    OBVIOUS
  <2>4. In \notin {e} => Cardinality({e} \cup {In}) = 2
    BY <2>2, <2>3, EndsChange
  <2>5. CASE o \in Channels
    <3>1. e # In /\ {e} \cup {In} = S
      BY <2>5, <1>3 DEF ChanCreated
    <3>2. Cardinality(S) = 2
      BY <3>1, <2>4
    <3>3. [holder[o] EXCEPT ![In] = t, ![e] = t] = [k \in EndIds |-> IF k \in S THEN t ELSE None]
      BY <2>1, <2>5
    <3>4. /\ m_uiCount' = [m_uiCount EXCEPT ![o] = m_uiCount[o] + 1]
          /\ holder' = [holder EXCEPT ![o] = [holder[o] EXCEPT ![In] = t, ![e] = t]]
      BY <2>5, <1>3 DEF ChanCreated, TypeOK
    <3>5. m_uiCount[o] + 1 = 2
      BY <1>1
    <3> QED BY <3>2, <3>3, <3>4, <3>5
  <2>6. CASE o \notin Channels
    <3>1. Cardinality(S) = 1
      BY <2>6, <2>2, <2>3
    <3>2. [holder[o] EXCEPT ![e] = t] = [k \in EndIds |-> IF k \in S THEN t ELSE None]
      BY <2>1, <2>6
    <3>3. m_uiCount' = m_uiCount /\ holder' = [holder EXCEPT ![o] = [holder[o] EXCEPT ![e] = t]]
      BY <2>6, <1>3 DEF BarrierCreated, TypeOK
    <3>4. m_uiCount = [m_uiCount EXCEPT ![o] = 1]
      BY <1>1 DEF TypeOK
    <3> QED BY <3>1, <3>2, <3>3, <3>4
  <2> QED BY <2>5, <2>6
<1>5. (EndsOf(o))' = S /\ S # {} /\ S \in SUBSET EndIds
  <2>1. S # {} /\ S \in SUBSET EndIds
    OBVIOUS
  <2> HIDE DEF S
  <2>2. holder'[o] = [k \in EndIds |-> IF k \in S THEN t ELSE None]
    BY <1>1, <1>4 DEF TypeOK
  <2>3. t # None
    OBVIOUS
  <2> QED BY <2>1, <2>2, <2>3 DEF EndsOf
<1> HIDE DEF S
<1>6. \A x \in Objects \ {o} : (EndsOf(x))' = EndsOf(x) /\ m_uiCount'[x] = m_uiCount[x] /\ holder'[x] = holder[x]
  BY <1>4 DEF TypeOK, EndsOf
<1>7. \A x \in Objects : (Whole(x))' = Whole(x)
  BY <1>2 DEF Whole
<1>8. \A u \in Threads, x \in Objects : Owns(u, x)' <=> (u # t /\ Owns(u, x))
  BY <1>0, <1>2 DEF TypeOK, Owns
<1>9. TypeOK'
  <2>1. Cardinality(S) \in Nat
    BY <1>5, EndsChange
  <2> QED BY <2>1, <1>2, <1>4 DEF TypeOK, Locations
<1>10. AtObject'
  BY <1>2 DEF TypeOK, AtObject
<1>11. EndsCounted'
  <2>1. m_uiCount'[o] = Cardinality(S)
    BY <1>1, <1>4 DEF TypeOK
  <2> QED BY <2>1, <1>1, <1>5, <1>6, <1>7 DEF EndsCounted
<1>12. OwnerAlone'
  <2> SUFFICES ASSUME NEW u \in Threads, NEW x \in Objects, Owns(u, x)'
               PROVE  /\ (EndsOf(x))' = {} /\ mem'[x] = "allocated"
                      /\ \A v \in Threads : x \notin inside'[v] /\ (Owns(v, x)' => v = u)
                      /\ IF pc'[u] = "init" THEN m_uiCount'[x] = 1
                                            ELSE (Whole(x))' /\ x \notin Alternatives
    BY DEF OwnerAlone
  <2>1. u # t /\ Owns(u, x) /\ x # o
    BY <1>1, <1>8
  <2> QED BY <2>1, <1>2, <1>6, <1>7, <1>8 DEF TypeOK, OwnerAlone
<1>13. InsideHeld'
  <2>1. inside[t] = {}
    BY <1>0, <1>1 DEF TypeOK, InsideHeld
  <2>2. \A u \in Threads : \A x \in inside'[u] : u # t /\ x \in inside[u] /\ x \in Objects \ {o}
    BY <2>1, <1>1, <1>2 DEF TypeOK
  <2>3. \A u \in Threads : \A x \in inside'[u] :
           pc'[u] = pc[u] /\ at'[u] = at[u] /\ holder'[x] = holder[x] /\ (Whole(x))' = Whole(x)
    BY <2>2, <1>2, <1>6, <1>7 DEF TypeOK
  <2> QED BY <2>2, <2>3 DEF InsideHeld
<1>14. MadeInOrder'
  BY <1>2 DEF MadeInOrder
<1>15. Reachable'
  <2>1. \A u \in Threads, x \in Objects \ {o} : Owns(u, x)' <=> Owns(u, x)
    BY <1>0, <1>8 DEF Owns
  <2> QED BY <2>1, <1>2, <1>4, <1>5, <1>6, <1>7 DEF Reachable
<1> QED BY <1>9, <1>10, <1>11, <1>12, <1>13, <1>14, <1>15

LEMMA SelectStep ==
  ASSUME IInv, NEW t \in Threads, Select(t)
  PROVE  IInv'
<1> DEFINE o == at[t]
<1> USE LifecycleAssumption DEF IInv, Goto, runVars, objectVars
<1>1. /\ o \in Objects /\ o \in Alternatives /\ EndsOf(o) = {} /\ pc[t] = "init" /\ Whole(o)
      /\ \A u \in Threads : o \notin inside[u] /\ (Owns(u, o) => u = t)
  BY OwnerFacts, InitFacts DEF Select, Whole
<1>2. /\ pc' = [pc EXCEPT ![t] = "using"] /\ at' = [at EXCEPT ![t] = None]
      /\ inside' = [inside EXCEPT ![t] = @ \cup {o}]
      /\ UNCHANGED <<ref, toRun, tids, mem, made, m_uiCount, holder, exited>>
  BY DEF Select
<1>3. \A x \in Objects : (EndsOf(x))' = EndsOf(x) /\ (Whole(x))' = Whole(x)
  BY <1>2 DEF EndsOf, Whole
<1>4. \A u \in Threads, x \in Objects : Owns(u, x)' <=> (u # t /\ Owns(u, x))
  BY <1>2 DEF TypeOK, Owns
<1>5. TypeOK'
  BY <1>1, <1>2 DEF TypeOK, Locations
<1>6. AtObject'
  BY <1>2 DEF TypeOK, AtObject
<1>7. EndsCounted'
  BY <1>2, <1>3 DEF EndsCounted
<1>8. OwnerAlone'
  <2> SUFFICES ASSUME NEW u \in Threads, NEW x \in Objects, Owns(u, x)'
               PROVE  /\ (EndsOf(x))' = {} /\ mem'[x] = "allocated"
                      /\ \A v \in Threads : x \notin inside'[v] /\ (Owns(v, x)' => v = u)
                      /\ IF pc'[u] = "init" THEN m_uiCount'[x] = 1
                                            ELSE (Whole(x))' /\ x \notin Alternatives
    BY DEF OwnerAlone
  <2>1. u # t /\ Owns(u, x) /\ x # o
    BY <1>1, <1>4
  <2> QED BY <2>1, <1>2, <1>3, <1>4 DEF TypeOK, OwnerAlone
<1>9. InsideHeld'
  <2> SUFFICES ASSUME NEW u \in Threads, NEW x \in inside'[u]
               PROVE  /\ pc'[u] = "using" \/ (pc'[u] = "init" /\ at'[u] \in Alternatives)
                      /\ \/ \E e \in EndIds : holder'[x][e] = u
                         \/ x \in Alternatives /\ (Whole(x))'
    BY DEF InsideHeld
  <2>1. CASE u = t /\ x = o
    BY <2>1, <1>1, <1>2, <1>3 DEF TypeOK
  <2>2. CASE x \in inside[u]
    <3>1. x \in Objects /\ (pc[u] = "using" \/ (pc[u] = "init" /\ at[u] \in Alternatives)) /\ (Whole(x))' = Whole(x)
      BY <2>2, <1>3 DEF TypeOK, InsideHeld
    <3>2. (\E e \in EndIds : holder[x][e] = u) \/ (x \in Alternatives /\ Whole(x))
      BY <2>2 DEF InsideHeld
    <3> QED BY <3>1, <3>2, <1>2 DEF TypeOK
  <2> QED BY <2>1, <2>2, <1>2 DEF TypeOK
<1>10. MadeInOrder'
  BY <1>2 DEF MadeInOrder
<1>11. Reachable'
  <2>1. \A u \in Threads, x \in Objects \ {o} : Owns(u, x)' <=> Owns(u, x)
    BY <1>4 DEF Owns
  <2> QED BY <2>1, <1>1, <1>2, <1>3 DEF Reachable
<1> QED BY <1>5, <1>6, <1>7, <1>8, <1>9, <1>10, <1>11

LEMMA RefStep ==
  ASSUME IInv, NEW t \in Threads, NEW o \in Objects, NEW e \in EndIds, Ref(t, o, e)
  PROVE  IInv'
<1> USE LifecycleAssumption DEF IInv, runVars
<1>1. /\ pc[t] = "idle" /\ EndsOf(o) # {} /\ e \notin EndsOf(o)
      /\ m_uiCount' = [m_uiCount EXCEPT ![o] = @ + 1]
      /\ holder' = [holder EXCEPT ![o][e] = t]
      /\ UNCHANGED <<pc, at, inside, ref, toRun, tids, mem, made, exited>>
  BY DEF Ref, EndsOf
<1>2. (EndsOf(o))' = EndsOf(o) \cup {e}
  BY <1>1 DEF TypeOK, EndsOf
<1>3. \A x \in Objects \ {o} : (EndsOf(x))' = EndsOf(x) /\ m_uiCount'[x] = m_uiCount[x]
  BY <1>1 DEF TypeOK, EndsOf
<1>4. \A x \in Objects, k \in EndIds : holder[x][k] # None => holder'[x][k] = holder[x][k]
  BY <1>1 DEF TypeOK, EndsOf
<1>5. \A x \in Objects, u \in Threads : (Whole(x))' = Whole(x) /\ (Owns(u, x)' <=> Owns(u, x))
  BY <1>1 DEF Whole, Owns
<1>6. TypeOK'
  BY <1>1 DEF TypeOK
<1>7. AtObject'
  BY <1>1 DEF AtObject
<1>8. EndsCounted'
  <2>1. m_uiCount[o] = Cardinality(EndsOf(o)) /\ Whole(o) /\ o \notin Alternatives
    BY <1>1 DEF EndsCounted
  <2>2. EndsOf(o) \in SUBSET EndIds
    BY DEF EndsOf
  <2>3. Cardinality(EndsOf(o) \cup {e}) = Cardinality(EndsOf(o)) + 1
    BY <2>2, <1>1, EndsChange
  <2>4. m_uiCount'[o] = m_uiCount[o] + 1
    BY <1>1 DEF TypeOK
  <2> QED BY <2>1, <2>3, <2>4, <1>2, <1>3, <1>5 DEF EndsCounted
<1>9. OwnerAlone'
  <2>1. \A u \in Threads : ~Owns(u, o)
    BY <1>1 DEF OwnerAlone
  <2> QED BY <2>1, <1>1, <1>3, <1>5 DEF OwnerAlone
<1>10. InsideHeld'
  <2>1. \A u \in Threads : \A x \in inside[u] : x \in Objects /\ (Whole(x))' = Whole(x)
    BY <1>5 DEF TypeOK
  <2> QED BY <2>1, <1>1, <1>4 DEF InsideHeld
<1>11. MadeInOrder'
  BY <1>1 DEF MadeInOrder
<1>12. Reachable'
  BY <1>1, <1>2, <1>3, <1>5 DEF Reachable
<1> QED BY <1>6, <1>7, <1>8, <1>9, <1>10, <1>11, <1>12

LEMMA UnrefStep ==
  ASSUME IInv, NEW t \in Threads, NEW o \in Objects, NEW e \in EndIds, Unref(t, o, e)
  PROVE  IInv'
<1> USE LifecycleAssumption DEF IInv, runVars
<1>1. /\ pc[t] = "idle" /\ e \in EndsOf(o)
      /\ m_uiCount' = [m_uiCount EXCEPT ![o] = @ - 1]
      /\ ref' = [ref EXCEPT ![t] = m_uiCount[o] - 1]
      /\ holder' = [holder EXCEPT ![o][e] = None]
      /\ pc' = [pc EXCEPT ![t] = "unref"] /\ at' = [at EXCEPT ![t] = o]
      /\ UNCHANGED <<inside, toRun, tids, mem, made, exited>>
  BY DEF Unref, EndsOf, Goto
<1>2. (EndsOf(o))' = EndsOf(o) \ {e}
  BY <1>1 DEF TypeOK, EndsOf
<1>3. \A x \in Objects \ {o} : (EndsOf(x))' = EndsOf(x) /\ m_uiCount'[x] = m_uiCount[x]
  BY <1>1 DEF TypeOK, EndsOf
<1>4. \A x \in Objects : (Whole(x))' = Whole(x)
  BY <1>1 DEF Whole
<1>5. /\ m_uiCount[o] - 1 = Cardinality((EndsOf(o))') /\ m_uiCount[o] - 1 \in Nat
      /\ m_uiCount[o] - 1 = 0 <=> (EndsOf(o))' = {}
      /\ Whole(o) /\ o \notin Alternatives
  <2>1. m_uiCount[o] = Cardinality(EndsOf(o)) /\ Whole(o) /\ o \notin Alternatives
    BY <1>1 DEF EndsCounted
  <2>2. EndsOf(o) \in SUBSET EndIds /\ EndsOf(o) \ {e} \in SUBSET EndIds
    BY DEF EndsOf
  <2>3. Cardinality(EndsOf(o) \ {e}) = Cardinality(EndsOf(o)) - 1
    BY <2>2, <1>1, EndsChange
  <2>4. /\ Cardinality(EndsOf(o) \ {e}) \in Nat
        /\ Cardinality(EndsOf(o) \ {e}) = 0 <=> EndsOf(o) \ {e} = {}
    BY <2>2, EndsChange
  <2> QED BY <2>1, <2>3, <2>4, <1>2
<1>6. /\ m_uiCount'[o] = m_uiCount[o] - 1 /\ ref'[t] = m_uiCount[o] - 1
      /\ \A u \in Threads : ~Owns(u, o)
  BY <1>1 DEF TypeOK, OwnerAlone
<1>7. \A u \in Threads, x \in Objects :
         Owns(u, x)' <=> Owns(u, x) \/ (u = t /\ x = o /\ (EndsOf(o))' = {})
  <2>1. \A x \in Objects : Owns(t, x)' <=> x = o /\ (EndsOf(o))' = {}
    BY <1>1, <1>5, <1>6 DEF TypeOK, Owns
  <2>2. \A x \in Objects : ~Owns(t, x)
    BY <1>1 DEF Owns
  <2>3. \A u \in Threads \ {t}, x \in Objects : Owns(u, x)' <=> Owns(u, x)
    BY <1>1 DEF TypeOK, Owns
  <2> QED BY <2>1, <2>2, <2>3
<1>8. inside[t] = {} /\ \A u \in Threads : \A x \in inside[u] : x \in Objects /\ u # t
  BY <1>1 DEF TypeOK, InsideHeld
<1>9. TypeOK'
  BY <1>1, <1>5 DEF TypeOK, Locations
<1>10. AtObject'
  BY <1>1 DEF TypeOK, AtObject
<1>11. EndsCounted'
  BY <1>3, <1>4, <1>5, <1>6 DEF EndsCounted
<1>12. InsideHeld'
  <2> SUFFICES ASSUME NEW u \in Threads, NEW x \in inside[u]
               PROVE  /\ pc'[u] = "using" \/ (pc'[u] = "init" /\ at'[u] \in Alternatives)
                      /\ \/ \E k \in EndIds : holder'[x][k] = u
                         \/ x \in Alternatives /\ (Whole(x))'
    BY <1>1 DEF InsideHeld
  <2>1. u # t /\ x \in Objects /\ pc'[u] = pc[u] /\ at'[u] = at[u]
    BY <1>1, <1>8 DEF TypeOK
  <2>2. \A k \in EndIds : holder[x][k] = u => holder'[x][k] = u
    BY <2>1, <1>1 DEF TypeOK, Unref
  <2> QED BY <2>1, <2>2, <1>4 DEF InsideHeld
<1>13. OwnerAlone'
  <2> SUFFICES ASSUME NEW u \in Threads, NEW x \in Objects, Owns(u, x)'
               PROVE  /\ (EndsOf(x))' = {} /\ mem'[x] = "allocated"
                      /\ \A v \in Threads : x \notin inside'[v] /\ (Owns(v, x)' => v = u)
                      /\ IF pc'[u] = "init" THEN m_uiCount'[x] = 1
                                            ELSE (Whole(x))' /\ x \notin Alternatives
    BY DEF OwnerAlone
  <2>1. CASE Owns(u, x)
    <3>1. x # o /\ u # t
      BY <2>1, <1>1, <1>6 DEF Owns
    <3> QED BY <2>1, <3>1, <1>1, <1>3, <1>4, <1>7 DEF TypeOK, OwnerAlone
  <2>2. CASE u = t /\ x = o /\ (EndsOf(o))' = {}
    <3>1. \A v \in Threads : o \notin inside'[v]
      BY <2>2, <1>5, <1>12 DEF InsideHeld, EndsOf
    <3>2. mem'[o] = "allocated" /\ (Whole(o))' /\ pc'[t] # "init"
      BY <1>1, <1>4, <1>5 DEF TypeOK, Whole
    <3> QED BY <2>2, <3>1, <3>2, <1>5, <1>6, <1>7
  <2> QED BY <2>1, <2>2, <1>7
<1>14. MadeInOrder'
  BY <1>1 DEF MadeInOrder
<1>15. Reachable'
  BY <1>1, <1>3, <1>4, <1>5, <1>7 DEF Reachable
<1> QED BY <1>9, <1>10, <1>11, <1>12, <1>13, <1>14, <1>15

LEMMA RunProcStep ==
  ASSUME IInv, NEW t \in Threads, NEW c \in Threads, NEW ends \in SUBSET Held(t),
         RunProc(t, c, ends)
  PROVE  IInv'
<1> USE LifecycleAssumption DEF IInv, RunProc, Goto
<1>1. \A x \in Objects, e \in EndIds :
         /\ <<x, e>> \in ends => holder[x][e] = t /\ holder'[x][e] = c
         /\ <<x, e>> \notin ends => holder'[x][e] = holder[x][e]
  BY DEF Held
<1>2. \A x \in Objects : (EndsOf(x))' = EndsOf(x) /\ (Whole(x))' = Whole(x)
  <2>1. \A x \in Objects, e \in EndIds : holder'[x][e] = None <=> holder[x][e] = None
    BY <1>1
  <2> QED BY <2>1 DEF EndsOf, Whole
<1>3. \A u \in Threads, x \in Objects :
         /\ Owns(u, x)' <=> Owns(u, x)
         /\ Owns(u, x) => (pc'[u] = "init" <=> pc[u] = "init")
  BY DEF TypeOK, Owns
<1>4. \A u \in Threads : \A x \in inside[u] :
         u # t /\ x \in Objects /\ pc'[u] = pc[u] /\ at'[u] = at[u]
  BY DEF TypeOK, InsideHeld
<1>5. TypeOK'
  <2>1. holder' \in [Objects -> [EndIds -> Threads \cup {None}]]
    BY DEF TypeOK
  <2>2. toRun' \in [Threads -> 0..4] /\ tids' \in [Threads -> Seq(Threads)]
    BY DEF TypeOK
  <2> QED BY <2>1, <2>2 DEF TypeOK, Locations
<1>6. AtObject'
  BY DEF TypeOK, AtObject
<1>7. EndsCounted'
  BY <1>2 DEF EndsCounted
<1>8. OwnerAlone'
  BY <1>2, <1>3 DEF OwnerAlone
<1>9. InsideHeld'
  <2>1. \A u \in Threads : \A x \in inside[u], e \in EndIds :
           holder[x][e] = u => holder'[x][e] = u
    BY <1>1, <1>4
  <2>2. \A u \in Threads : \A x \in inside[u] : (Whole(x))' = Whole(x)
    BY <1>2, <1>4
  <2>3. InsideHeld /\ inside' = inside
    OBVIOUS
  <2> HIDE DEF RunProc, IInv
  <2> QED BY <2>1, <2>2, <2>3, <1>4 DEF InsideHeld
<1>10. MadeInOrder'
  BY DEF MadeInOrder
<1>11. Reachable'
  BY <1>2, <1>3 DEF Reachable
<1> QED BY <1>5, <1>6, <1>7, <1>8, <1>9, <1>10, <1>11
-----------------------------------------------------------------------------
LEMMA InitIInv == Init => IInv
<1> SUFFICES ASSUME Init PROVE IInv
  OBVIOUS
<1> USE LifecycleAssumption DEF Init
<1>1. TypeOK
  <2>1. tids \in [Threads -> Seq(Threads)]
    OBVIOUS
  <2>2. pc \in [Threads -> Locations] /\ at \in [Threads -> Objects \cup {None}]
    BY DEF Locations
  <2>3. holder \in [Objects -> [EndIds -> Threads \cup {None}]]
    OBVIOUS
  <2>4. /\ inside \in [Threads -> SUBSET Objects] /\ ref \in [Threads -> Nat]
        /\ toRun \in [Threads -> 0..4] /\ m_uiCount \in [Objects -> Nat]
    OBVIOUS
  <2>5. /\ mem \in [Objects -> {"unused", "allocated", "deleted"}]
        /\ made \in [Objects -> SUBSET {"m_sync", "m_cond", "m_mxReader", "m_cdReader", "m_sem"}]
        /\ exited \in BOOLEAN
    OBVIOUS
  <2> HIDE DEF Init
  <2> QED BY <2>1, <2>2, <2>3, <2>4, <2>5 DEF TypeOK
<1>2. \A o \in Objects : EndsOf(o) = {}
  BY DEF EndsOf
<1>3. AtObject /\ InsideHeld
  BY DEF AtObject, InsideHeld
<1>4. EndsCounted /\ Reachable
  BY <1>2 DEF EndsCounted, Reachable
<1>5. OwnerAlone
  BY DEF OwnerAlone, Owns
<1>6. MadeInOrder
  BY DEF MadeInOrder
<1> QED BY <1>1, <1>3, <1>4, <1>5, <1>6 DEF IInv

LEMMA NextIInv == IInv /\ [Next]_vars => IInv'
<1> SUFFICES ASSUME IInv, [Next]_vars PROVE IInv'
  OBVIOUS
<1>1. CASE UNCHANGED vars
  <2>1. TypeOK' /\ AtObject'
    BY <1>1 DEF IInv, vars, runVars, objectVars, TypeOK, AtObject
  <2>2. InsideHeld'
    BY <1>1 DEF IInv, vars, objectVars, InsideHeld, Whole
  <2>3. \A t \in Threads, o \in Objects :
           (Owns(t, o)' <=> Owns(t, o)) /\ (Owns(t, o) => (pc'[t] = "init" <=> pc[t] = "init"))
    BY <1>1 DEF vars, Owns
  <2> QED BY <1>1, <2>1, <2>2, <2>3, Quiet DEF vars, objectVars
<1>2. ASSUME NEW t \in Threads, Step(t) PROVE IInv'
  <2>1. CASE Process(t)
    BY <2>1, NewStep, UseStep, RefStep, UnrefStep, ParaRunStep, RunProcStep, EndStep DEF Process
  <2>2. CASE Return(t)
    BY <2>2, ReturnStep
  <2>3. CASE Fault(t)
    BY <2>3, NewFailsStep, InitFailsStep, RunProcFailsStep DEF Fault
  <2>4. CASE Library(t)
    BY <2>4, InitOneStep, CreatedStep, SelectStep, UnrefTestStep, FinalizeStep, WaitProcStep,
       ParaRunReturnStep DEF Library
  <2> QED BY <1>2, <2>1, <2>2, <2>3, <2>4 DEF Step
<1> QED BY <1>1, <1>2 DEF Next

LEMMA AlwaysIInv == SafeSpec => []IInv
BY InitIInv, NextIInv, PTL DEF SafeSpec

(* Every variable keeps its type; no reference count goes below zero. *)
THEOREM TypeCorrect == SafeSpec => []TypeOK
<1>1. IInv => TypeOK
  BY DEF IInv
<1> QED BY <1>1, AlwaysIInv, PTL

(* The count of an object with ends is the number of its ends. *)
THEOREM CountCorrect == SafeSpec => []CountsEnds
<1>1. IInv => CountsEnds
  BY DEF IInv, CountsEnds, EndsCounted
<1> QED BY <1>1, AlwaysIInv, PTL

(* No object is used, held or destroyed after its destruction. *)
THEOREM NoUseAfterDelete == SafeSpec => []UsedIsWhole
<1>1. ASSUME IInv PROVE UsedIsWhole
  <2> SUFFICES ASSUME NEW o \in Objects,
                      \/ EndsOf(o) # {}
                      \/ \E t \in Threads : o \in inside[t] \/ (pc[t] = "finalize" /\ at[t] = o)
               PROVE  Whole(o)
    BY DEF UsedIsWhole
  <2>1. CASE EndsOf(o) # {}
    BY <2>1, <1>1 DEF IInv, EndsCounted
  <2>2. CASE \E t \in Threads : o \in inside[t]
    <3>1. PICK t \in Threads : o \in inside[t]
      BY <2>2
    <3>2. (\E e \in EndIds : holder[o][e] = t) \/ Whole(o)
      BY <3>1, <1>1 DEF IInv, InsideHeld
    <3> QED BY <3>1, <3>2, <2>1, LifecycleAssumption DEF EndsOf
  <2>3. CASE \E t \in Threads : pc[t] = "finalize" /\ at[t] = o
    BY <2>3, <1>1, OwnerFacts
  <2> QED BY <2>1, <2>2, <2>3
<1> QED BY <1>1, AlwaysIInv, PTL

(* What nobody can reach has been freed, the Alternatives excepted: a      *)
(* creation that fails and a last unref leave nothing behind.              *)
THEOREM NoLeak == SafeSpec => []OutOfReachIsGone
<1>1. ASSUME IInv PROVE OutOfReachIsGone
  <2> SUFFICES ASSUME NEW o \in Objects, EndsOf(o) = {},
                      \A t \in Threads : at[t] # o /\ o \notin inside[t]
               PROVE  \/ made[o] = {} /\ mem[o] # "allocated"
                      \/ o \in Alternatives /\ Whole(o)
    BY DEF OutOfReachIsGone
  <2>1. \A t \in Threads : ~Owns(t, o)
    BY DEF Owns
  <2> QED BY <2>1, <1>1 DEF IInv, Reachable, MadeInOrder
<1> QED BY <1>1, AlwaysIInv, PTL
-----------------------------------------------------------------------------
(* The threads that para_run has started and not joined form a tree, in    *)
(* which the parent waits for the child.  That it has no cycle is said     *)
(* without paths: a set of threads with a parent for each but Main has     *)
(* Main in it.                                                             *)
Alive(t) == pc[t] \notin {"unborn", "joined"}

Running(t) == pc[t] \notin {"unborn", "joined", "ended"}

WaitsFor(p, c) == \E i \in DOMAIN tids[p] : tids[p][i] = c

HasParents(S) == \A c \in S \ {Main} : \E p \in S : WaitsFor(p, c)

ThreadTree ==
  /\ Alive(Main)
  /\ \A t \in Threads : pc[t] # "run" => tids[t] = <<>>
  /\ \A c \in Threads \ {Main} : Alive(c) => \E p \in Threads : WaitsFor(p, c)
  /\ \A S \in SUBSET Threads :
       S # {} /\ (\A c \in S : Alive(c)) /\ HasParents(S) => Main \in S

HeldByRunning ==
  \A t \in Threads, o \in Objects, e \in EndIds : holder[o][e] = t => Running(t)

LEMMA NobodyWaited == ASSUME NEW p, tids[p] = <<>>, NEW c PROVE ~WaitsFor(p, c)
BY DEF WaitsFor

(* Most steps are of one thread, which runs before and after. *)
LEMMA TreeStays ==
  ASSUME TypeOK, ThreadTree, HeldByRunning, NEW t \in Threads, Running(t),
         tids' = tids, NEW l \in Locations \ {"unborn", "joined"},
         pc' = [pc EXCEPT ![t] = l], l # "run" => tids[t] = <<>>,
         \/ Running(t)' /\ \A o \in Objects, e \in EndIds :
              holder'[o][e] \in {holder[o][e], t, None}
         \/ Held(t) = {} /\ holder' = holder
  PROVE  ThreadTree' /\ HeldByRunning'
<1>1. \A u \in Threads : pc'[u] = IF u = t THEN l ELSE pc[u]
  BY DEF TypeOK
<1>2. \A u \in Threads : Alive(u)' <=> Alive(u)
  BY <1>1 DEF Alive, Running
<1>3. \A p, c \in Threads : WaitsFor(p, c)' <=> WaitsFor(p, c)
  BY DEF WaitsFor
<1>4. \A S \in SUBSET Threads : HasParents(S)' <=> HasParents(S)
  BY <1>3 DEF HasParents
<1>5. \A u \in Threads : pc'[u] # "run" => tids'[u] = <<>>
  BY <1>1 DEF ThreadTree
<1>6. ThreadTree'
  BY <1>2, <1>3, <1>4, <1>5, LifecycleAssumption DEF ThreadTree
<1>7. HeldByRunning'
  <2> SUFFICES ASSUME NEW u \in Threads, NEW o \in Objects, NEW e \in EndIds,
                      holder'[o][e] = u
               PROVE  Running(u)'
    BY DEF HeldByRunning
  <2>1. CASE u = t
    <3>1. Held(t) = {} => holder[o][e] # t
      <4>1. <<o, e>>[1] = o /\ <<o, e>>[2] = e /\ <<o, e>> \in Objects \X EndIds
        OBVIOUS
      <4> QED BY <4>1 DEF Held
    <3> QED BY <2>1, <3>1
  <2>2. CASE u # t
    BY <1>1, <2>2, LifecycleAssumption DEF HeldByRunning, Running
  <2> QED BY <2>1, <2>2
<1> QED BY <1>6, <1>7

LEMMA TreeUnchanged ==
  ASSUME ThreadTree, HeldByRunning, UNCHANGED <<pc, tids, holder>>
  PROVE  ThreadTree' /\ HeldByRunning'
<1>1. \A u \in Threads : (Alive(u)' <=> Alive(u)) /\ (Running(u)' <=> Running(u))
  BY DEF Alive, Running
<1>2. \A p, c \in Threads : WaitsFor(p, c)' <=> WaitsFor(p, c)
  BY DEF WaitsFor
<1>3. \A S \in SUBSET Threads : HasParents(S)' <=> HasParents(S)
  BY <1>2 DEF HasParents
<1> QED BY <1>1, <1>2, <1>3, LifecycleAssumption DEF ThreadTree, HeldByRunning

(* A thread that is born has a parent and no children. *)
LEMMA TreeGrows ==
  ASSUME TypeOK, ThreadTree, HeldByRunning, NEW t \in Threads, NEW c \in Threads,
         NEW ends \in SUBSET Held(t), RunProc(t, c, ends)
  PROVE  ThreadTree' /\ HeldByRunning'
<1>1. /\ pc[t] = "run" /\ pc[c] = "unborn" /\ t # c
      /\ \A u \in Threads : pc'[u] = IF u = c THEN "idle" ELSE pc[u]
  BY DEF RunProc, Goto, TypeOK
<1>2. /\ tids[t] \in Seq(Threads)
      /\ \A u \in Threads : tids'[u] = IF u = t THEN Append(tids[t], c) ELSE tids[u]
  BY DEF RunProc, TypeOK
<1>3. \A p, d \in Threads : WaitsFor(p, d)' <=> WaitsFor(p, d) \/ (p = t /\ d = c)
  <2>1. ASSUME NEW d \in Threads PROVE WaitsFor(t, d)' <=> WaitsFor(t, d) \/ d = c
    <3>1. tids'[t] = Append(tids[t], c)
      BY <1>2
    <3>2. /\ DOMAIN tids[t] = 1 .. Len(tids[t]) /\ Len(tids[t]) \in Nat
          /\ DOMAIN tids'[t] = 1 .. Len(tids[t]) + 1
          /\ \A i \in 1 .. Len(tids[t]) : tids'[t][i] = tids[t][i]
          /\ tids'[t][Len(tids[t]) + 1] = c
      BY <1>2, <3>1
    <3>3. \A i \in DOMAIN tids'[t] : i \in DOMAIN tids[t] \/ i = Len(tids[t]) + 1
      BY <3>2
    <3>4. \A i \in DOMAIN tids[t] : i \in DOMAIN tids'[t]
      BY <3>2
    <3>5. Len(tids[t]) + 1 \in DOMAIN tids'[t]
      BY <3>2
    <3> QED BY <3>2, <3>3, <3>4, <3>5 DEF WaitsFor
  <2>2. ASSUME NEW p \in Threads \ {t}, NEW d \in Threads
        PROVE  WaitsFor(p, d)' <=> WaitsFor(p, d)
    BY <1>2 DEF WaitsFor
  <2> QED BY <2>1, <2>2
<1>4. \A d \in Threads : ~WaitsFor(c, d)
  BY <1>1, NobodyWaited DEF ThreadTree
<1>5. \A u \in Threads : Alive(u)' <=> Alive(u) \/ u = c
  BY <1>1 DEF Alive
<1>6. ASSUME NEW S \in SUBSET Threads, S # {}, \A d \in S : Alive(d)', HasParents(S)'
      PROVE  Main \in S
  <2>1. CASE c \notin S
    <3>1. HasParents(S) /\ \A d \in S : Alive(d)
      BY <1>3, <1>5, <1>6, <2>1 DEF HasParents
    <3> QED BY <1>6, <3>1 DEF ThreadTree
  <2>2. CASE c \in S /\ c # Main
    <3> DEFINE T == S \ {c}
    <3>1. T # {}
      BY <1>3, <1>4, <1>1, <1>6, <2>2 DEF HasParents
    <3>2. HasParents(T)
      BY <1>3, <1>4, <1>1, <1>6 DEF HasParents
    <3>3. \A d \in T : Alive(d)
      BY <1>5, <1>6
    <3> QED BY <3>1, <3>2, <3>3 DEF ThreadTree
  <2> QED BY <2>1, <2>2
<1>7. \A u \in Threads : pc'[u] # "run" => tids'[u] = <<>>
  BY <1>1, <1>2 DEF ThreadTree
<1>8. \A d \in Threads \ {Main} : Alive(d)' => \E p \in Threads : WaitsFor(p, d)'
  BY <1>3, <1>5 DEF ThreadTree
<1>9. ThreadTree'
  BY <1>5, <1>6, <1>7, <1>8, LifecycleAssumption DEF ThreadTree
<1>10. HeldByRunning'
  <2> SUFFICES ASSUME NEW u \in Threads, NEW o \in Objects, NEW e \in EndIds,
                      holder'[o][e] = u
               PROVE  Running(u)'
    BY DEF HeldByRunning
  <2>1. u = c \/ holder[o][e] = u
    BY DEF RunProc
  <2> QED BY <1>1, <2>1 DEF HeldByRunning, Running
<1> QED BY <1>9, <1>10

(* A thread that is joined has ended and is waited for no more. *)
LEMMA TreeShrinks ==
  ASSUME TypeOK, ThreadTree, HeldByRunning, ~Over, NEW t \in Threads, WaitProc(t)
  PROVE  ThreadTree' /\ HeldByRunning'
<1> DEFINE c == Head(tids[t])
<1>1. /\ tids[t] \in Seq(Threads) /\ tids[t] # <<>> /\ pc[t] = "run"
      /\ pc' = [pc EXCEPT ![c] = "joined"] /\ pc[c] = "ended"
      /\ \A u \in Threads : tids'[u] = IF u = t THEN Tail(tids[t]) ELSE tids[u]
      /\ holder' = holder
  BY DEF WaitProc, Goto, TypeOK, objectVars
<1>2. c \in Threads /\ c # Main /\ c # t
  BY <1>1 DEF Over
<1>3. \A u \in Threads : pc'[u] = IF u = c THEN "joined" ELSE pc[u]
  BY <1>1, <1>2 DEF TypeOK
<1>4. /\ DOMAIN tids[t] = 1 .. Len(tids[t]) /\ Len(tids[t]) \in Nat
      /\ DOMAIN Tail(tids[t]) = 1 .. Len(tids[t]) - 1
      /\ \A i \in 1 .. Len(tids[t]) - 1 : Tail(tids[t])[i] = tids[t][i + 1]
      /\ tids[t][1] = c
  BY <1>1
<1>5. \A p, d \in Threads : WaitsFor(p, d)' => WaitsFor(p, d)
  <2>1. \A i \in DOMAIN Tail(tids[t]) :
          i + 1 \in DOMAIN tids[t] /\ Tail(tids[t])[i] = tids[t][i + 1]
    BY <1>4
  <2>2. \A d : WaitsFor(t, d)' => WaitsFor(t, d)
    BY <1>1, <2>1 DEF WaitsFor
  <2>3. \A p \in Threads \ {t} : \A d : WaitsFor(p, d)' <=> WaitsFor(p, d)
    BY <1>1 DEF WaitsFor
  <2> QED BY <2>2, <2>3
<1>6. \A p, d \in Threads : d # c /\ WaitsFor(p, d) => WaitsFor(p, d)'
  <2>1. \A i \in DOMAIN tids[t] : i # 1 =>
          i - 1 \in DOMAIN Tail(tids[t]) /\ Tail(tids[t])[i - 1] = tids[t][i]
    <3> TAKE i \in DOMAIN tids[t]
    <3>1. i # 1 => i - 1 \in 1 .. Len(tids[t]) - 1 /\ (i - 1) + 1 = i
      BY <1>4
    <3> QED BY <1>4, <3>1
  <2>2. \A d : d # c /\ WaitsFor(t, d) => WaitsFor(t, d)'
    <3> SUFFICES ASSUME NEW d, d # c, NEW i \in DOMAIN tids[t], tids[t][i] = d
                 PROVE  \E j \in DOMAIN tids'[t] : tids'[t][j] = d
      BY DEF WaitsFor
    <3>1. tids'[t] = Tail(tids[t]) /\ i # 1
      BY <1>1, <1>4
    <3> QED BY <2>1, <3>1
  <2>3. \A p \in Threads \ {t} : \A d : WaitsFor(p, d)' <=> WaitsFor(p, d)
    BY <1>1 DEF WaitsFor
  <2> QED BY <2>2, <2>3
<1>7. \A u \in Threads : (Alive(u)' <=> Alive(u) /\ u # c) /\ (Running(u)' <=> Running(u))
  BY <1>1, <1>3 DEF Alive, Running
<1>8. \A S \in SUBSET Threads : HasParents(S)' => HasParents(S)
  BY <1>5 DEF HasParents
<1>9. \A u \in Threads : pc'[u] # "run" => tids'[u] = <<>>
  BY <1>1, <1>2, <1>3 DEF ThreadTree
<1>10. ThreadTree'
  BY <1>2, <1>6, <1>7, <1>8, <1>9, LifecycleAssumption DEF ThreadTree
<1>11. HeldByRunning'
  BY <1>1, <1>7 DEF HeldByRunning
<1> QED BY <1>10, <1>11

LEMMA InitTree == Init => ThreadTree /\ HeldByRunning
<1> SUFFICES ASSUME Init PROVE ThreadTree /\ HeldByRunning
  OBVIOUS
<1>1. \A t \in Threads : (Alive(t) <=> t = Main) /\ (Running(t) <=> t = Main)
  BY LifecycleAssumption DEF Init, Alive, Running
<1>2. \A t \in Threads : tids[t] = <<>>
  BY DEF Init
<1> QED BY <1>1, <1>2, LifecycleAssumption DEF Init, ThreadTree, HeldByRunning

LEMMA NextTree ==
  IInv /\ ThreadTree /\ HeldByRunning /\ [Next]_vars => ThreadTree' /\ HeldByRunning'
<1> SUFFICES ASSUME IInv, ThreadTree, HeldByRunning, [Next]_vars
             PROVE  ThreadTree' /\ HeldByRunning'
  OBVIOUS
<1> USE DEF IInv
<1>1. CASE UNCHANGED vars
  BY <1>1, TreeUnchanged DEF vars, runVars, objectVars
<1>2. ASSUME NEW t \in Threads, Step(t) PROVE ThreadTree' /\ HeldByRunning'
  <2>1. CASE \E o \in Objects : New(t, o) \/ Use(t, o)
    <3>1. \E l \in {"init", "using"} : pc' = [pc EXCEPT ![t] = l]
      BY <2>1 DEF New, Use, Goto
    <3>2. pc[t] = "idle" /\ UNCHANGED <<tids, holder>>
      BY <2>1 DEF New, Use, runVars, objectVars
    <3> QED BY <3>1, <3>2, TreeStays DEF ThreadTree, Running, Locations, TypeOK
  <2>2. CASE \E o \in Objects, e \in EndIds : Ref(t, o, e)
    <3>1. pc[t] = "idle" /\ UNCHANGED <<pc, tids>>
      BY <2>2 DEF Ref, runVars
    <3>2. \A o \in Objects, e \in EndIds : holder'[o][e] \in {holder[o][e], t, None}
      BY <2>2 DEF Ref, TypeOK
    <3>3. pc' = [pc EXCEPT ![t] = "idle"]
      BY <3>1 DEF TypeOK
    <3> QED BY <3>1, <3>2, <3>3, TreeStays DEF ThreadTree, Running, Locations, TypeOK
  <2>3. CASE \E o \in Objects, e \in EndIds : Unref(t, o, e)
    <3>1. pc[t] = "idle" /\ pc' = [pc EXCEPT ![t] = "unref"] /\ UNCHANGED tids
      BY <2>3 DEF Unref, Goto, runVars
    <3>2. \A o \in Objects, e \in EndIds : holder'[o][e] \in {holder[o][e], t, None}
      BY <2>3 DEF Unref, TypeOK
    <3> QED BY <3>1, <3>2, TreeStays DEF ThreadTree, Running, Locations, TypeOK
  <2>4. CASE \E n \in 2 .. 4 : ParaRun(t, n)
    <3>1. /\ pc[t] = "idle" /\ pc' = [pc EXCEPT ![t] = "run"]
          /\ UNCHANGED <<tids, holder>>
      BY <2>4 DEF ParaRun, Goto, objectVars
    <3> QED BY <3>1, TreeStays DEF Running, Locations, TypeOK
  <2>5. CASE \E c \in Threads, ends \in SUBSET Held(t) : RunProc(t, c, ends)
    BY <2>5, TreeGrows
  <2>6. CASE End(t)
    <3>1. /\ pc[t] = "idle" /\ pc' = [pc EXCEPT ![t] = "ended"] /\ Held(t) = {}
          /\ UNCHANGED <<tids, holder>>
      BY <2>6 DEF End, Goto, runVars, objectVars
    <3> QED BY <3>1, TreeStays DEF ThreadTree, Running, Locations
  <2>7. CASE NewFails(t) \/ RunProcFails(t) \/ InitOne(t)
    BY <2>7, TreeUnchanged DEF NewFails, RunProcFails, InitOne, runVars, objectVars
  <2>8. CASE Return(t) \/ InitFails(t) \/ Select(t) \/ UnrefTest(t) \/ Finalize(t)
    <3>1. \E l \in {"idle", "using", "finalize"} : pc' = [pc EXCEPT ![t] = l]
      BY <2>8 DEF Return, InitFails, Select, UnrefTest, Finalize, Goto
    <3>2. pc[t] \in {"using", "init", "unref", "finalize"} /\ UNCHANGED <<tids, holder>>
      BY <2>8 DEF Return, InitFails, Select, UnrefTest, Finalize, runVars, objectVars
    <3> QED BY <3>1, <3>2, TreeStays DEF ThreadTree, Running, Locations, TypeOK
  <2>9. CASE Created(t)
    <3>1. pc[t] = "init" /\ pc' = [pc EXCEPT ![t] = "idle"] /\ UNCHANGED tids
      BY <2>9 DEF Created, Goto, runVars
    <3>2. \A o \in Objects, e \in EndIds : holder'[o][e] \in {holder[o][e], t, None}
      <4> DEFINE x == at[t]
      <4>1. PICK e \in EndIds : \/ holder' = [holder EXCEPT ![x] = [@ EXCEPT ![In] = t, ![e] = t]]
                               \/ holder' = [holder EXCEPT ![x] = [@ EXCEPT ![e] = t]]
        BY <2>9 DEF Created, ChanCreated, BarrierCreated
      <4>2. \A o \in Objects : holder[o] \in [EndIds -> Threads \cup {None}]
        BY DEF TypeOK
      <4>3. \A o \in Objects : \/ holder'[o] = holder[o]
                              \/ holder'[o] = [holder[o] EXCEPT ![In] = t, ![e] = t]
                              \/ holder'[o] = [holder[o] EXCEPT ![e] = t]
        BY <4>1 DEF TypeOK
      <4> QED BY <4>2, <4>3
    <3>3. tids[t] = <<>> /\ Running(t) /\ Running(t)'
      BY <3>1 DEF ThreadTree, Running, TypeOK
    <3> QED BY <3>1, <3>2, <3>3, TreeStays DEF ThreadTree, Running, Locations, TypeOK
  <2>10. CASE WaitProc(t)
    BY <1>2, <2>10, TreeShrinks DEF Step
  <2>11. CASE ParaRunReturn(t)
    <3>1. /\ pc[t] = "run" /\ pc' = [pc EXCEPT ![t] = "idle"] /\ tids[t] = <<>>
          /\ UNCHANGED <<tids, holder>>
      BY <2>11 DEF ParaRunReturn, Goto, runVars, objectVars
    <3> QED BY <3>1, TreeStays DEF Running, Locations, TypeOK
  <2> QED BY <1>2, <2>1, <2>2, <2>3, <2>4, <2>5, <2>6, <2>7, <2>8, <2>9, <2>10, <2>11
       DEF Step, Process, Fault, Library
<1> QED BY <1>1, <1>2 DEF Next

(* When main returns, whatever para_run calls its threads have nested and  *)
(* in whatever order they have ended, every other thread was joined and    *)
(* every object but the Alternatives was freed.                            *)
THEOREM MainReturnsLast == SafeSpec => []MainEndsLast
<1>1. ASSUME IInv, ThreadTree, HeldByRunning PROVE MainEndsLast
  <2> SUFFICES ASSUME pc[Main] = "ended"
               PROVE  /\ \A t \in Threads \ {Main} : pc[t] \in {"unborn", "joined"}
                      /\ \A o \in Objects \ Alternatives : mem[o] # "allocated"
    BY DEF MainEndsLast
  <2> DEFINE S == {t \in Threads \ {Main} : Alive(t)}
  <2>1. \A c \in S : \E p \in S : WaitsFor(p, c)
    <3> TAKE c \in S
    <3>1. PICK p \in Threads : WaitsFor(p, c)
      BY <1>1 DEF ThreadTree
    <3>2. pc[p] = "run"
      BY <1>1, <3>1, NobodyWaited DEF ThreadTree
    <3> QED BY <3>1, <3>2 DEF Alive
  <2>2. S = {}
    <3>1. S \in SUBSET Threads /\ Main \notin S /\ (\A c \in S : Alive(c)) /\ HasParents(S)
      BY <2>1 DEF HasParents
    <3> HIDE DEF S
    <3> QED BY <1>1, <3>1 DEF ThreadTree
  <2>3. \A t \in Threads : ~Running(t)
    BY <2>2 DEF Alive, Running
  <2>4. \A o \in Objects : EndsOf(o) = {}
    BY <1>1, <2>3 DEF EndsOf, HeldByRunning, IInv, TypeOK
  <2>5. \A o \in Objects, t \in Threads : ~Owns(t, o)
    BY <2>3 DEF Owns, Running
  <2> QED BY <1>1, <2>2, <2>4, <2>5 DEF Alive, IInv, Reachable
<1> QED BY <1>1, AlwaysIInv, InitTree, NextTree, PTL DEF SafeSpec
=============================================================================
