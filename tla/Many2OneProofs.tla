--------------------------- MODULE Many2OneProofs ---------------------------
(***************************************************************************)
(* Many2One for every finite set of writers, all values and all checking   *)
(* functions.                                                              *)
(***************************************************************************)
EXTENDS Many2One, FiniteSetTheorems, TLAPS

(* A buffer whose address is in use holds a value some write was given. *)
BuffersFilled ==
  /\ \A w \in Writers : wpc[w] # "idle" => buf[w] \in Values
  /\ m_pBuff # "null" => buf[m_pBuff] \in Values

(* A writer whose address is stored passed the test with what its buffer   *)
(* holds, until it fills the buffer for its next write.                    *)
BufferAccepted ==
  m_pBuff # "null" /\ wpc[m_pBuff] \notin {"lock", "wait"} => buf[m_pBuff] \in func

Protocol == HandoverNotLost /\ OneReadOneBuffer /\ BuffersFilled /\ BufferAccepted

Inv == TypeOK /\ Protocol /\ CountsWriters /\ NoStrandedReader

(* A channel that create has just returned satisfies the invariant. *)
LEMMA InitInv == Init => Inv
  <1> SUFFICES ASSUME Init
               PROVE  Inv
    OBVIOUS
  <1> USE DEF Init
  <1>1. TypeOK
    BY DEF TypeOK
  <1>2. Protocol
    BY DEF Protocol, HandoverNotLost, OneReadOneBuffer, BuffersFilled, BufferAccepted
  <1>3. CountsWriters
    <2>1. InWrite = {}
      BY DEF InWrite
    <2>2. QED
      BY <2>1, FS_EmptySet DEF CountsWriters
  <1>4. NoStrandedReader
    BY DEF NoStrandedReader
  <1>5. QED
    BY <1>1, <1>2, <1>3, <1>4 DEF Inv
-----------------------------------------------------------------------------
(* The writers that write has counted in: WriteEnter adds one, WriteSignal *)
(* takes one away, nobody else changes their number.                       *)
LEMMA CountStep ==
  ASSUME TypeOK, CountsWriters, [Next]_vars
  PROVE  CountsWriters' /\ m_ulWriter' \in Nat
  <1> USE ConstantsAssumption DEF TypeOK, CountsWriters
  <1>1. IsFiniteSet(InWrite) /\ InWrite \subseteq Writers
    BY FS_Subset DEF InWrite
  <1>2. ASSUME NEW w \in Writers, WriteEnter(w)
        PROVE  CountsWriters'
    <2>1. InWrite' = InWrite \cup {w} /\ w \notin InWrite
      BY <1>2 DEF WriteEnter, Test, InWrite
    <2>2. Cardinality(InWrite') = Cardinality(InWrite) + 1
      BY <1>1, <2>1, FS_AddElement
    <2>3. m_ulWriter' = m_ulWriter + 1
      BY <1>2 DEF WriteEnter
    <2>4. \A x \in cond' : wpc'[x] = "wait"
      BY <1>2 DEF WriteEnter, Test
    <2>5. QED
      BY <2>2, <2>3, <2>4
  <1>3. ASSUME NEW w \in Writers, WriteRetry(w)
        PROVE  CountsWriters'
    <2>1. InWrite' = InWrite
      BY <1>3 DEF WriteRetry, Test, InWrite
    <2>2. \A x \in cond' : wpc'[x] = "wait"
      BY <1>3 DEF WriteRetry, Test
    <2>3. QED
      BY <1>3, <2>1, <2>2 DEF WriteRetry
  <1>4. ASSUME NEW w \in Writers, WriteSignal(w)
        PROVE  CountsWriters'
    <2>1. InWrite' = InWrite \ {w} /\ w \in InWrite
      BY <1>4 DEF WriteSignal, InWrite
    <2>2. Cardinality(InWrite') = Cardinality(InWrite) - 1
      BY <1>1, <2>1, FS_RemoveElement
    <2>3. m_ulWriter' = m_ulWriter - 1
      BY <1>4 DEF WriteSignal
    <2>4. \A x \in cond' : wpc'[x] = "wait"
      BY <1>4 DEF WriteSignal
    <2>5. QED
      BY <2>2, <2>3, <2>4
  <1>5. CASE \/ \E g \in Guards \cup {Values} : ReadCall(g)
             \/ Read
             \/ \E w \in Writers, v \in Values : WriteCall(w, v)
             \/ \E w \in Writers : SpuriousWake(w)
             \/ UNCHANGED vars
    <2>1. InWrite' = InWrite /\ m_ulWriter' = m_ulWriter
      BY <1>5 DEF ReadCall, Read, ReadEnter, Signalled, ReadWait, ReadCopy, ReadReturn,
                  WriteCall, SpuriousWake, vars, InWrite
    <2>2. \A x \in cond' : wpc'[x] = "wait"
      BY <1>5 DEF ReadCall, Read, ReadEnter, Signalled, ReadWait, ReadCopy, ReadReturn,
                  WriteCall, SpuriousWake, vars
    <2>3. QED
      BY <2>1, <2>2
  <1>6. CountsWriters'
    BY <1>2, <1>3, <1>4, <1>5 DEF Next, Write
  <1>7. IsFiniteSet(InWrite')
    BY FS_Subset DEF InWrite
  <1>8. m_ulWriter' \in Nat
    BY <1>6, <1>7, FS_CardinalityType
  <1>9. QED
    BY <1>6, <1>8

(* Every step keeps the variables in their ranges. *)
LEMMA TypeStep ==
  ASSUME TypeOK, Protocol, [Next]_vars, m_ulWriter' \in Nat
  PROVE  TypeOK'
  <1> USE ConstantsAssumption DEF TypeOK
  <1>1. ASSUME NEW g \in Guards \cup {Values}, ReadCall(g)
        PROVE  TypeOK'
    BY <1>1 DEF ReadCall
  <1>2. CASE ReadEnter
    BY <1>2 DEF ReadEnter, Signalled
  <1>3. CASE ReadWait
    BY <1>3 DEF ReadWait
  <1>4. CASE ReadCopy
    BY <1>4 DEF ReadCopy, Deref, Protocol, HandoverNotLost
  <1>5. CASE ReadReturn
    BY <1>5 DEF ReadReturn
  <1>6. ASSUME NEW w \in Writers, NEW v \in Values, WriteCall(w, v)
        PROVE  TypeOK'
    BY <1>6 DEF WriteCall
  <1>7. ASSUME NEW w \in Writers, WriteEnter(w)
        PROVE  TypeOK'
    BY <1>7 DEF WriteEnter, Test
  <1>8. ASSUME NEW w \in Writers, WriteRetry(w)
        PROVE  TypeOK'
    BY <1>8 DEF WriteRetry, Test
  <1>9. ASSUME NEW w \in Writers, WriteSignal(w)
        PROVE  TypeOK'
    BY <1>9 DEF WriteSignal
  <1>10. ASSUME NEW w \in Writers, SpuriousWake(w)
         PROVE  TypeOK'
    BY <1>10 DEF SpuriousWake
  <1>11. CASE UNCHANGED vars
    BY <1>11 DEF vars
  <1>12. QED
    BY <1>1, <1>2, <1>3, <1>4, <1>5, <1>6, <1>7, <1>8, <1>9, <1>10, <1>11
    DEF Next, Read, Write

(* Every step keeps the handover between the two monitors. *)
LEMMA ProtocolStep ==
  ASSUME TypeOK, Protocol, [Next]_vars
  PROVE  Protocol'
  <1> USE ConstantsAssumption
      DEF TypeOK, Protocol, HandoverNotLost, OneReadOneBuffer, BuffersFilled,
          BufferAccepted, m_syncFree, m_mxReaderFree
  <1>1. ASSUME NEW g \in Guards \cup {Values}, ReadCall(g)
        PROVE  Protocol'
    BY <1>1 DEF ReadCall
  <1>2. CASE ReadEnter
    BY <1>2 DEF ReadEnter, Signalled
  <1>3. CASE ReadWait
    BY <1>3 DEF ReadWait
  <1>4. CASE ReadCopy
    BY <1>4 DEF ReadCopy
  <1>5. CASE ReadReturn
    BY <1>5 DEF ReadReturn
  <1>6. ASSUME NEW w \in Writers, NEW v \in Values, WriteCall(w, v)
        PROVE  Protocol'
    BY <1>6 DEF WriteCall
  <1>7. ASSUME NEW w \in Writers, WriteEnter(w)
        PROVE  Protocol'
    BY <1>7 DEF WriteEnter, Test, MustWait
  <1>8. ASSUME NEW w \in Writers, WriteRetry(w)
        PROVE  Protocol'
    BY <1>8 DEF WriteRetry, Test, MustWait
  <1>9. ASSUME NEW w \in Writers, WriteSignal(w)
        PROVE  Protocol'
    BY <1>9 DEF WriteSignal
  <1>10. ASSUME NEW w \in Writers, SpuriousWake(w)
         PROVE  Protocol'
    BY <1>10 DEF SpuriousWake
  <1>11. CASE UNCHANGED vars
    BY <1>11 DEF vars
  <1>12. QED
    BY <1>1, <1>2, <1>3, <1>4, <1>5, <1>6, <1>7, <1>8, <1>9, <1>10, <1>11
    DEF Next, Read, Write

(* The one signal a reader sends on arrival is enough for a plain read:    *)
(* the writer it wakes, or any that comes later, passes its test.          *)
LEMMA StrandedStep ==
  ASSUME TypeOK, Protocol, CountsWriters, NoStrandedReader, [Next]_vars
  PROVE  NoStrandedReader'
  <1> USE ConstantsAssumption DEF TypeOK, NoStrandedReader
  <1>1. ASSUME NEW g \in Guards \cup {Values}, ReadCall(g)
        PROVE  NoStrandedReader'
    BY <1>1 DEF ReadCall
  <1>2. CASE ReadEnter
    <2>1. CASE m_ulWriter = 0
      <3>1. IsFiniteSet(InWrite)
        BY FS_Subset DEF InWrite
      <3>2. InWrite = {}
        BY <2>1, <3>1, FS_EmptySet DEF CountsWriters
      <3>3. cond = {}
        BY <3>2 DEF InWrite, CountsWriters
      <3>4. QED
        BY <1>2, <3>3 DEF ReadEnter, Signalled
    <2>2. CASE cond = {}
      BY <1>2, <2>2 DEF ReadEnter, Signalled
    <2>3. ASSUME NEW w \in cond, cond' = cond \ {w}
          PROVE  NoStrandedReader'
      <3>1. wpc'[w] = "wait" /\ w \in Writers \ cond'
        BY <1>2, <2>3 DEF ReadEnter, CountsWriters
      <3>2. QED
        BY <3>1
    <2>4. QED
      BY <1>2, <2>1, <2>2, <2>3 DEF ReadEnter, Signalled
  <1>3. CASE ReadWait
    BY <1>3 DEF ReadWait
  <1>4. CASE ReadCopy
    BY <1>4 DEF ReadCopy
  <1>5. CASE ReadReturn
    BY <1>5 DEF ReadReturn
  <1>6. ASSUME NEW w \in Writers, NEW v \in Values, WriteCall(w, v)
        PROVE  NoStrandedReader'
    BY <1>6 DEF WriteCall
  <1>7. ASSUME NEW w \in Writers, WriteEnter(w) \/ WriteRetry(w)
        PROVE  NoStrandedReader'
    BY <1>7 DEF WriteEnter, WriteRetry, Test, MustWait, Protocol,
                OneReadOneBuffer, BuffersFilled
  <1>8. ASSUME NEW w \in Writers, WriteSignal(w)
        PROVE  NoStrandedReader'
    BY <1>8 DEF WriteSignal, Protocol, HandoverNotLost
  <1>9. ASSUME NEW w \in Writers, SpuriousWake(w)
        PROVE  NoStrandedReader'
    <2>1. wpc'[w] = "wait" /\ w \in Writers \ cond'
      BY <1>9 DEF SpuriousWake, CountsWriters
    <2>2. QED
      BY <2>1
  <1>10. CASE UNCHANGED vars
    BY <1>10 DEF vars
  <1>11. QED
    BY <1>1, <1>2, <1>3, <1>4, <1>5, <1>6, <1>7, <1>8, <1>9, <1>10
    DEF Next, Read, Write

(* No step of read, cond_read or write breaks the invariant. *)
LEMMA NextInv == Inv /\ [Next]_vars => Inv'
  BY CountStep, TypeStep, ProtocolStep, StrandedStep DEF Inv

(* The invariant holds throughout. *)
LEMMA Invariance == SafeSpec => []Inv
  BY InitInv, NextInv, PTL DEF SafeSpec

(* Every variable keeps its range; the reader copies from no null address. *)
THEOREM TypeCorrect == SafeSpec => []TypeOK
  <1>1. Inv => TypeOK
    BY DEF Inv
  <1>2. QED
    BY <1>1, Invariance, PTL

(* The signal a writer sends on m_cdReader always finds the reader asleep, *)
(* and the reader is awake only with an address to copy from.              *)
THEOREM SignalFindsReader == SafeSpec => []HandoverNotLost
  <1>1. Inv => HandoverNotLost
    BY DEF Inv, Protocol
  <1>2. QED
    BY <1>1, Invariance, PTL

(* An address is in m_pBuff only during the read it was stored for, under  *)
(* that read's own checking function.                                      *)
THEOREM OneBufferPerRead == SafeSpec => []OneReadOneBuffer
  <1>1. Inv => OneReadOneBuffer
    BY DEF Inv, Protocol
  <1>2. QED
    BY <1>1, Invariance, PTL

(* m_ulWriter counts the writers in write.                                 *)
THEOREM WritersCounted == SafeSpec => []CountsWriters
  <1>1. Inv => CountsWriters
    BY DEF Inv
  <1>2. QED
    BY <1>1, Invariance, PTL

(* A plain read never sleeps unserved over writers that all sleep too.     *)
THEOREM PlainReadNotStranded == SafeSpec => []NoStrandedReader
  <1>1. Inv => NoStrandedReader
    BY DEF Inv
  <1>2. QED
    BY <1>1, Invariance, PTL
-----------------------------------------------------------------------------
(* A read with a checking function copies what that function accepts,      *)
(* unless the writer has begun its next write.                             *)
THEOREM AcceptedIsCopied == SafeSpec => CopiesAccepted
  <1> DEFINE Good == rpc = "wait" /\ rpc' = "return" /\ wpc[m_pBuff] \notin {"lock", "wait"}
                     => got' \in func
  <1>1. ASSUME Inv, [Next]_vars
        PROVE  [Good]_vars
    <2>1. CASE ReadCopy
      BY <1>1, <2>1 DEF ReadCopy, Deref, Inv, Protocol, HandoverNotLost, BufferAccepted
    <2>2. ASSUME ~ReadCopy
          PROVE  ~(rpc = "wait" /\ rpc' = "return") \/ UNCHANGED vars
      BY <1>1, <2>2
      DEF Next, Read, Write, ReadCall, ReadEnter, ReadWait, ReadReturn, WriteCall,
          WriteEnter, WriteRetry, WriteSignal, SpuriousWake
    <2>3. QED
      BY <2>1, <2>2
  <1>2. QED
    BY <1>1, Invariance, PTL DEF SafeSpec, CopiesAccepted
-----------------------------------------------------------------------------
(* The initial states are initial states of GuardedRendezvous. *)
LEMMA InitRefines == Init => Abstract!Init
  BY DEF Init, Abstract!Init

(* A writer that passes its test is the one the reader meets.              *)
LEMMA HandoffExchanges ==
  ASSUME Inv, NEW w \in Writers, WriteEnter(w) \/ WriteRetry(w), ~MustWait(w)
  PROVE  Abstract!Exchange(w)
  <1> USE ConstantsAssumption
      DEF Inv, TypeOK, Protocol, OneReadOneBuffer, HandoverNotLost
  <1>1. m_pBuff = "null" /\ m_pBuff' = w /\ rpc \in {"mx", "wait"}
    BY DEF WriteEnter, WriteRetry, Test, MustWait
  <1>2. buf[w] \in func
    BY DEF MustWait
  <1>3. wpc[w] \in {"lock", "wait"} /\ wpc' = [wpc EXCEPT ![w] = "handoff"]
    BY DEF WriteEnter, WriteRetry, Test
  <1>4. UNCHANGED <<rpc, func, got, buf>>
    BY DEF WriteEnter, WriteRetry
  <1>5. QED
    BY <1>1, <1>2, <1>3, <1>4 DEF Abstract!Exchange

(* The reader's copy is made from the writer it met.                       *)
LEMMA CopyRefines ==
  ASSUME Inv, ReadCopy
  PROVE  Abstract!Copy
  <1>1. rpc = "wait" /\ rpc' = "return" /\ m_pBuff # "null" /\ m_pBuff' = "null"
    BY DEF ReadCopy, Inv, Protocol, HandoverNotLost
  <1>2. got' = buf[m_pBuff] /\ UNCHANGED <<wpc, func, buf>>
    BY <1>1 DEF ReadCopy, Deref
  <1>3. QED
    BY <1>1, <1>2 DEF Abstract!Copy

(* Every step of the channel is a step of the guarded rendezvous, or none. *)
LEMMA NextRefines ==
  ASSUME Inv, [Next]_vars
  PROVE  [Abstract!Next]_(Abstract!vars)
  <1> USE ConstantsAssumption
      DEF Inv, TypeOK, Protocol, OneReadOneBuffer, HandoverNotLost
  <1>1. ASSUME NEW g \in Guards \cup {Values}, ReadCall(g)
        PROVE  Abstract!Ask(g)
    BY <1>1 DEF ReadCall, Abstract!Ask
  <1>2. CASE ReadEnter
    BY <1>2 DEF ReadEnter, Abstract!vars
  <1>3. CASE ReadWait
    BY <1>3 DEF ReadWait, Abstract!vars
  <1>4. ASSUME ReadReturn
        PROVE  Abstract!LeaveRead
    BY <1>4 DEF ReadReturn, Abstract!LeaveRead
  <1>5. ASSUME NEW w \in Writers, NEW v \in Values, WriteCall(w, v)
        PROVE  Abstract!Offer(w, v)
    BY <1>5 DEF WriteCall, Abstract!Offer
  <1>6. ASSUME NEW w \in Writers, WriteEnter(w) \/ WriteRetry(w), MustWait(w)
        PROVE  UNCHANGED Abstract!vars
    BY <1>6 DEF WriteEnter, WriteRetry, Test, Abstract!vars
  <1>7. ASSUME NEW w \in Writers, WriteSignal(w)
        PROVE  Abstract!LeaveWrite(w)
    BY <1>7 DEF WriteSignal, Abstract!LeaveWrite
  <1>8. ASSUME NEW w \in Writers, SpuriousWake(w)
        PROVE  UNCHANGED Abstract!vars
    BY <1>8 DEF SpuriousWake, Abstract!vars
  <1>9. CASE UNCHANGED vars
    BY <1>9 DEF vars, Abstract!vars
  <1>10. QED
    BY <1>1, <1>2, <1>3, <1>4, <1>5, <1>6, <1>7, <1>8, <1>9,
       HandoffExchanges, CopyRefines
    DEF Next, Read, Write, Abstract!Next

(* Whenever callers reuse their buffers, each read meets exactly one       *)
(* blocked write, of a value its checking function accepts, copies from    *)
(* that writer, and only those two calls return.                           *)
THEOREM Implements == SafeSpec => RefinesGuardedRendezvous
  <1>1. Inv /\ [Next]_vars => [Abstract!Next]_(Abstract!vars)
    BY NextRefines
  <1>2. QED
    BY <1>1, Invariance, InitRefines, PTL
    DEF SafeSpec, RefinesGuardedRendezvous, Abstract!SafeSpec
=============================================================================
