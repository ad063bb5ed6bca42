--------------------------- MODULE Barrier2Proofs ---------------------------
(***************************************************************************)
(* Barrier2 for every finite set of parties: its two counters are exact    *)
(* and it releases its parties in pairs.                                   *)
(***************************************************************************)
EXTENDS Barrier2, FiniteSetTheorems, TLAPS

Inv == TypeOK /\ TwoPlaces /\ PartsAsleep

(* A barrier that create has just returned satisfies the invariant. *)
LEMMA InitInv == Init => Inv
  <1> SUFFICES ASSUME Init
               PROVE  Inv
    OBVIOUS
  <1>1. Inside = {} /\ cond = {}
    BY DEF Init, Inside
  <1>2. Cardinality(Inside) = 0 /\ Cardinality(cond) = 0
    BY <1>1, FS_EmptySet
  <1>3. QED
    BY <1>1, <1>2 DEF Init, Inv, TypeOK, TwoPlaces, PartsAsleep

(* The threads past sem_wait are finitely many: they can be counted. *)
LEMMA InsideFinite == IsFiniteSet(Inside) /\ Inside \subseteq Parties
  BY PartiesAssumption, FS_Subset DEF Inside

(* The barrier lets a sleeping party go only when another has come.        *)
LEMMA OneAsleep ==
  ASSUME Inv, m_parts = 1
  PROVE  \E q \in cond : cond = {q}
  <1>1. IsFiniteSet(cond)
    BY PartiesAssumption, FS_Subset DEF Inv, TypeOK
  <1>2. Cardinality(cond) = 1
    BY DEF Inv, PartsAsleep
  <1>3. \E x : cond = {x}
    BY <1>1, <1>2, FS_Singleton
  <1>4. QED
    BY <1>3

(* No step of sync or sync_sem breaks the invariant. *)
LEMMA NextInv == Inv /\ [Next]_vars => Inv'
  <1> SUFFICES ASSUME Inv, [Next]_vars
               PROVE  Inv'
    OBVIOUS
  <1> USE DEF Inv, TypeOK
  <1>1. ASSUME NEW p \in Parties, SyncCall(p) \/ SyncReturn(p)
        PROVE  Inv'
    <2>1. Inside' = Inside
      BY <1>1 DEF SyncCall, SyncReturn, Inside
    <2>2. QED
      BY <1>1, <2>1 DEF SyncCall, SyncReturn, TwoPlaces, PartsAsleep
  <1>2. ASSUME NEW p \in Parties, SemWait(p)
        PROVE  Inv'
    <2>1. Inside' = Inside \cup {p} /\ p \notin Inside
      BY <1>2 DEF SemWait, Inside
    <2>2. Cardinality(Inside') = Cardinality(Inside) + 1
      BY <2>1, InsideFinite, FS_AddElement
    <2>3. Cardinality(Inside) \in Nat
      BY InsideFinite, FS_CardinalityType
    <2>4. m_sem' + Cardinality(Inside') = 2
      BY <1>2, <2>2, <2>3 DEF SemWait, TwoPlaces
    <2>5. TypeOK' /\ PartsAsleep'
      BY <1>2 DEF SemWait, PartsAsleep
    <2>6. QED
      BY <2>4, <2>5 DEF TwoPlaces
  <1>3. ASSUME NEW p \in Parties, SyncFirst(p)
        PROVE  Inv'
    <2>1. Inside' = Inside
      BY <1>3 DEF SyncFirst, Inside
    <2>2. m_parts = 0 /\ IsFiniteSet(cond)
      BY <1>3, PartiesAssumption, FS_Subset DEF SyncFirst, PartsAsleep
    <2>3. cond = {}
      BY <2>2, FS_EmptySet DEF PartsAsleep
    <2>4. cond' = {p} /\ m_parts' = 1
      BY <1>3, <2>2, <2>3 DEF SyncFirst
    <2>5. Cardinality(cond') = 1
      <3>1. IsFiniteSet(cond')
        BY PartiesAssumption, <2>4, FS_Subset
      <3>2. QED
        BY <2>4, <3>1, FS_Singleton
    <2>6. TypeOK' /\ PartsAsleep'
      BY <1>3, <2>4, <2>5 DEF SyncFirst, PartsAsleep
    <2>7. QED
      BY <1>3, <2>1, <2>6 DEF SyncFirst, TwoPlaces
  <1>4. ASSUME NEW p \in Parties, SyncSecond(p)
        PROVE  Inv'
    <2>1. m_parts = 1
      BY <1>4 DEF SyncSecond
    <2>2. PICK q \in cond : cond = {q}
      BY <2>1, OneAsleep
    <2>3. cond' = {} /\ m_parts' = 0
      BY <1>4, <2>1, <2>2 DEF SyncSecond, Signalled
    <2>4. PartsAsleep'
      <3>1. IsFiniteSet(cond')
        BY PartiesAssumption, <2>3, FS_Subset
      <3>2. Cardinality(cond') = 0
        BY <2>3, <3>1, FS_EmptySet
      <3>3. QED
        BY <2>3, <3>2 DEF PartsAsleep
    <2>5. Inside' = Inside \ {p} /\ p \in Inside
      BY <1>4 DEF SyncSecond, Inside
    <2>6. Cardinality(Inside') = Cardinality(Inside) - 1
      BY <2>5, InsideFinite, FS_RemoveElement
    <2>7. Cardinality(Inside) \in Nat
      BY InsideFinite, FS_CardinalityType
    <2>8. m_sem' + Cardinality(Inside') = 2
      BY <1>4, <2>6, <2>7 DEF SyncSecond, TwoPlaces
    <2>9. TypeOK'
      BY <1>4, <2>3 DEF SyncSecond
    <2>10. QED
      BY <2>4, <2>8, <2>9 DEF TwoPlaces
  <1>5. ASSUME NEW p \in Parties, Wake(p)
        PROVE  Inv'
    <2>1. Inside' = Inside \ {p} /\ p \in Inside
      BY <1>5 DEF Wake, Inside
    <2>2. Cardinality(Inside') = Cardinality(Inside) - 1
      BY <2>1, InsideFinite, FS_RemoveElement
    <2>3. Cardinality(Inside) \in Nat
      BY InsideFinite, FS_CardinalityType
    <2>4. m_sem' + Cardinality(Inside') = 2
      BY <1>5, <2>2, <2>3 DEF Wake, TwoPlaces
    <2>5. TypeOK' /\ PartsAsleep'
      BY <1>5 DEF Wake, PartsAsleep
    <2>6. QED
      BY <2>4, <2>5 DEF TwoPlaces
  <1>6. CASE UNCHANGED vars
    BY <1>6 DEF vars, TwoPlaces, PartsAsleep, Inside
  <1>7. QED
    BY <1>1, <1>2, <1>3, <1>4, <1>5, <1>6 DEF Next, Sync

(* The invariant holds throughout. *)
LEMMA Invariance == SafeSpec => []Inv
  BY InitInv, NextInv, PTL DEF SafeSpec

(* Every variable keeps its range: sem_post never overtakes sem_wait.       *)
THEOREM TypeCorrect == SafeSpec => []TypeOK
  <1>1. Inv => TypeOK
    BY DEF Inv
  <1>2. QED
    BY <1>1, Invariance, PTL

(* Every party the semaphore lets in gives back the one place it took.     *)
THEOREM PlacesConserved == SafeSpec => []TwoPlaces
  <1>1. Inv => TwoPlaces
    BY DEF Inv
  <1>2. QED
    BY <1>1, Invariance, PTL

(* m_parts is the number of sleeping parties and never passes 1 between    *)
(* two steps, so "maybe 1 or 3" is always 1.                               *)
THEOREM PartsCounted == SafeSpec => []PartsAsleep
  <1>1. Inv => PartsAsleep
    BY DEF Inv
  <1>2. QED
    BY <1>1, Invariance, PTL
-----------------------------------------------------------------------------
(* The initial states are initial states of Pairing. *)
LEMMA InitRefines == Init => Abstract!Init
  BY DEF Init, Abstract!Init

(* The second party to come meets the one it signals.                      *)
LEMMA SecondMeets ==
  ASSUME Inv, NEW p \in Parties, SyncSecond(p)
  PROVE  Abstract!MeetSome
  <1> USE DEF Inv, TypeOK
  <1>1. m_parts = 1
    BY DEF SyncSecond
  <1>2. PICK q \in cond : cond = {q}
    BY <1>1, OneAsleep
  <1>3. q \in Parties /\ pc[q] = "wait" /\ pc[p] = "lock"
    BY DEF SyncSecond, PartsAsleep
  <1>4. cond' = {} /\ pc' = [pc EXCEPT ![p] = "return"]
    BY <1>2 DEF SyncSecond, Signalled
  <1>5. Abstract!Meet(p, q)
    BY <1>2, <1>3, <1>4 DEF Abstract!Meet
  <1>6. QED
    BY <1>3, <1>5 DEF Abstract!MeetSome

(* Every step of sync and sync_sem is a step of Pairing or none. *)
LEMMA NextRefines == Inv /\ [Next]_vars => [Abstract!Next]_(Abstract!vars)
  <1> SUFFICES ASSUME Inv, [Next]_vars
               PROVE  [Abstract!Next]_(Abstract!vars)
    OBVIOUS
  <1> USE DEF Inv, TypeOK
  <1>1. ASSUME NEW p \in Parties, SyncCall(p)
        PROVE  Abstract!Arrive(p)
    BY <1>1 DEF SyncCall, PartsAsleep, Abstract!Arrive
  <1>2. ASSUME NEW p \in Parties, SemWait(p) \/ SyncFirst(p) \/ Wake(p)
        PROVE  UNCHANGED Abstract!vars
    BY <1>2 DEF SemWait, SyncFirst, Wake, PartsAsleep, Abstract!vars
  <1>3. ASSUME NEW p \in Parties, SyncReturn(p)
        PROVE  Abstract!Leave(p)
    BY <1>3 DEF SyncReturn, PartsAsleep, Abstract!Leave
  <1>4. CASE UNCHANGED vars
    BY <1>4 DEF vars, Abstract!vars
  <1>5. QED
    BY <1>1, <1>2, <1>3, <1>4, SecondMeets DEF Next, Sync, Abstract!Next

(* A thread returns from sync only together with one other that was in it  *)
(* at the same time.                                                       *)
THEOREM Implements == SafeSpec => Abstract!SafeSpec
  BY Invariance, InitRefines, NextRefines, PTL
  DEF SafeSpec, Abstract!SafeSpec
=============================================================================
