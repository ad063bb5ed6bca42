---------------------------- MODULE One2OneProofs ----------------------------
(***************************************************************************)
(* One2One for every set of values: the channel keeps its handshake and    *)
(* implements the safety part of Rendezvous.                               *)
(***************************************************************************)
EXTENDS One2One, TLAPS

(* TypeOK and Handshake are inductive together: whichever thread runs      *)
(* next, it finds its partner exactly where the code assumes it is.        *)
Inv == TypeOK /\ Handshake

(* A channel that create has just returned satisfies the invariant. *)
LEMMA InitInv == Init => Inv
  BY DEF Init, Inv, TypeOK, Handshake, Threads, Places

(* No step of read or write, at either end, breaks the invariant. *)
LEMMA NextInv == Inv /\ [Next]_vars => Inv'
  <1> SUFFICES ASSUME Inv, [Next]_vars
               PROVE Inv'
    OBVIOUS
  <1> USE DEF Inv, TypeOK, Handshake, Threads, Places
  <1>1. CASE ReadCall
    BY <1>1 DEF ReadCall
  <1>2. CASE ReadFirst
    BY <1>2 DEF ReadFirst
  <1>3. CASE ReadSecond
    BY <1>3 DEF ReadSecond, Signalled, Deref
  <1>4. CASE ReadWake
    BY <1>4 DEF ReadWake, Signalled, Deref
  <1>5. CASE ReadReturn
    BY <1>5 DEF ReadReturn
  <1>6. ASSUME NEW v \in Values, WriteCall(v)
        PROVE Inv'
    BY <1>6 DEF WriteCall
  <1>7. CASE WriteFirst
    BY <1>7 DEF WriteFirst
  <1>8. CASE WriteSecond
    BY <1>8 DEF WriteSecond, Signalled
  <1>9. CASE WriteWake
    BY <1>9 DEF WriteWake
  <1>10. CASE WriteReturn
    BY <1>10 DEF WriteReturn
  <1>11. CASE UNCHANGED vars
    BY <1>11 DEF vars
  <1>12. QED
    BY <1>1, <1>2, <1>3, <1>4, <1>5, <1>6, <1>7, <1>8, <1>9, <1>10, <1>11
    DEF Next, Read, Write

(* One2OneChannel never copies from the null address its m_pBuff starts    *)
(* with, and every variable keeps its range.                               *)
THEOREM TypeCorrect == SafeSpec => []TypeOK
  <1>1. Inv => TypeOK
    BY DEF Inv
  <1>2. QED
    BY <1>1, InitInv, NextInv, PTL DEF SafeSpec

(* The two threads of One2OneChannel::read and ::write share one condition *)
(* variable and test nothing after their waits; still every signal finds   *)
(* the partner and no thread passes its wait before its partner let it.    *)
THEOREM HandshakeHolds == SafeSpec => []Handshake
  <1>1. Inv => Handshake
    BY DEF Inv
  <1>2. QED
    BY <1>1, InitInv, NextInv, PTL DEF SafeSpec
-----------------------------------------------------------------------------
(* The initial states are initial states of Rendezvous. *)
LEMMA InitRefines == Init => Abstract!Init
  BY DEF Init, Abstract!Init

(* ReadSecond and ReadWake are where the values change hands.              *)
LEMMA ExchangeStep ==
  ASSUME Inv, ReadSecond \/ ReadWake
  PROVE  Abstract!Exchange
  <1> USE DEF Inv, TypeOK, Handshake, Threads, Places
  <1>1. CASE ReadSecond
    BY <1>1 DEF ReadSecond, Signalled, Deref, Abstract!Exchange
  <1>2. CASE ReadWake
    BY <1>2 DEF ReadWake, Signalled, Deref, Abstract!Exchange
  <1>3. QED
    BY <1>1, <1>2

(* Every step of read or write is a step of Rendezvous or none. *)
LEMMA NextRefines == Inv /\ [Next]_vars => [Abstract!Next]_(Abstract!vars)
  <1> SUFFICES ASSUME Inv, [Next]_vars
               PROVE [Abstract!Next]_(Abstract!vars)
    OBVIOUS
  <1> USE DEF Inv, TypeOK, Handshake, Threads, Places
  <1>1. CASE ReadCall
    BY <1>1 DEF ReadCall, Abstract!Ask, Abstract!Next
  <1>2. CASE ReadFirst
    BY <1>2 DEF ReadFirst, Abstract!vars
  <1>3. CASE ReadSecond \/ ReadWake
    BY <1>3, ExchangeStep DEF Abstract!Next
  <1>4. CASE ReadReturn
    BY <1>4 DEF ReadReturn, Abstract!LeaveRead, Abstract!Next
  <1>5. ASSUME NEW v \in Values, WriteCall(v)
        PROVE [Abstract!Next]_(Abstract!vars)
    BY <1>5 DEF WriteCall, Abstract!Offer, Abstract!Next
  <1>6. CASE WriteFirst
    BY <1>6 DEF WriteFirst, Abstract!vars
  <1>7. CASE WriteSecond
    BY <1>7 DEF WriteSecond, Signalled, Abstract!vars
  <1>8. CASE WriteWake
    BY <1>8 DEF WriteWake, Abstract!vars
  <1>9. CASE WriteReturn
    BY <1>9 DEF WriteReturn, Abstract!LeaveWrite, Abstract!Next
  <1>10. CASE UNCHANGED vars
    BY <1>10 DEF vars, Abstract!vars
  <1>11. QED
    BY <1>1, <1>2, <1>3, <1>4, <1>5, <1>6, <1>7, <1>8, <1>9, <1>10
    DEF Next, Read, Write

(* read and write synchronize: a value reaches one read in progress, once, *)
(* while the write that offers it is still blocked, and neither returns    *)
(* before that.                                                            *)
THEOREM Implements == SafeSpec => Abstract!SafeSpec
  BY InitInv, NextInv, InitRefines, NextRefines, PTL
  DEF SafeSpec, Abstract!SafeSpec
=============================================================================
