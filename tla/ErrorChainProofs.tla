-------------------------- MODULE ErrorChainProofs --------------------------
(***************************************************************************)
(* Proofs about ErrorChain: for any threads and any number of records,     *)
(* no record is lost but in the ways Accounted names, a flush shows what   *)
(* its own thread has added, and exit shows its cause.                     *)
(***************************************************************************)
EXTENDS ErrorChain, FiniteSetTheorems, TLAPS

(* The part of TypeOK that the invariants need. *)
Types ==
  /\ pc \in [Threads -> {"run", "register", "print", "reinit", "exit", "handlers", "stopped"}]
  /\ then \in [Threads -> {"run", "print", "exit"}]
  /\ made \in [Threads -> Nat]
  /\ chain \in Seq([rec : Threads \X Nat, node : {"heap", "emergency"}])
  /\ called \subseteq {"ec_push", "buffered_trace_v"}
  /\ handlers \in Nat
  /\ log \in {"unopened", "open", "refused"}
  /\ exiting \in Threads \cup {None}

(* A thread that has printed finds nothing of its own unseen. *)
OwnShown ==
  \A t \in Threads : pc[t] = "reinit" => \A r \in InChain : r[1] = t => r \in printed

Registering == \E t \in Threads : pc[t] = "register"

(* A thread on its way to exit has called ec_push. *)
FatalCalled ==
  \A t \in Threads :
     (pc[t] = "exit" \/ (pc[t] = "register" /\ then[t] = "exit")) =>
        made[t] # 0 /\ called # {}

(* Handlers run in exit only, and are registered before it or about to be. *)
HandlerComes ==
  /\ \A t \in Threads : pc[t] = "handlers" => exiting = t
  /\ (exiting = None /\ called # {}) => (handlers # 0 \/ Registering)

(* The cause of exit is a record; while no handler has run, one is left. *)
CauseComes ==
  /\ cause # None => exiting # None
  /\ cause # None => \E t \in Threads : \E k \in 1..made[t] : cause = <<t, k>>
  /\ cause # None =>
       \/ cause \in printed \cup dropped \cup swept
       \/ log = "refused"
       \/ handlers # 0
       \/ Registering

(* The program exits with no handler left. *)
ExitedDone == outcome = "exited" => handlers = 0

IInv == /\ Types /\ Accounted /\ OwnShown /\ FatalCalled /\ HandlerComes
        /\ CauseComes /\ ExitedDone
-----------------------------------------------------------------------------
(* The record of a new node is the new head of the chain, or is dropped.   *)
LEMMA Added ==
  ASSUME Types, NEW r \in Threads \X Nat, AddNode(r)
  PROVE  /\ chain' \in Seq([rec : Threads \X Nat, node : {"heap", "emergency"}])
         /\ InChain \subseteq InChain'
         /\ InChain' \subseteq InChain \cup {r}
         /\ r \in InChain' \cup dropped'
         /\ dropped \subseteq dropped'
<1> DEFINE Node == [rec : Threads \X Nat, node : {"heap", "emergency"}]
<1>1. ASSUME NEW n \in Node, n.rec = r, chain' = <<n>> \o chain
      PROVE  chain' \in Seq(Node) /\ InChain' = InChain \cup {r}
  <2>1. chain \in Seq(Node) /\ <<n>> \in Seq(Node)
    BY DEF Types
  <2>2. chain' \in Seq(Node) /\ Len(chain') = Len(chain) + 1 /\ chain'[1] = n
    BY <1>1, <2>1
  <2>3. \A i \in 1..Len(chain) : chain'[i + 1] = chain[i]
    BY <1>1, <2>1
  <2>4. DOMAIN chain = 1..Len(chain) /\ DOMAIN chain' = 1..Len(chain')
    BY <2>1, <2>2
  <2>5. InChain \cup {r} \subseteq InChain'
    <3>1. r \in InChain'
      BY <1>1, <2>1, <2>2, <2>4 DEF InChain
    <3>2. ASSUME NEW i \in DOMAIN chain
          PROVE  chain[i].rec \in InChain'
      <4>1. i + 1 \in DOMAIN chain' /\ chain'[i + 1] = chain[i]
        BY <2>1, <2>2, <2>3, <2>4, <3>2
      <4> QED BY <4>1 DEF InChain
    <3> QED BY <3>1, <3>2 DEF InChain
  <2>6. ASSUME NEW i \in DOMAIN chain'
        PROVE  chain'[i].rec \in InChain \cup {r}
    <3>1. CASE i = 1
      BY <1>1, <2>2, <3>1
    <3>2. CASE i # 1
      <4>1. i - 1 \in DOMAIN chain /\ chain'[i] = chain[i - 1]
        BY <2>1, <2>2, <2>3, <2>4, <2>6, <3>2
      <4> QED BY <4>1 DEF InChain
    <3> QED BY <3>1, <3>2
  <2> QED BY <2>2, <2>5, <2>6 DEF InChain
<1>2. CASE chain' = chain /\ dropped' = dropped \cup {r}
  BY <1>2 DEF InChain, Types
<1>3. CASE chain' # chain \/ dropped' # dropped \cup {r}
  <2>1. /\ chain' = <<[rec |-> r, node |-> "heap"]>> \o chain
           \/ chain' = <<[rec |-> r, node |-> "emergency"]>> \o chain
        /\ dropped' = dropped
    BY <1>3 DEF AddNode
  <2>2. [rec |-> r, node |-> "heap"] \in Node /\ [rec |-> r, node |-> "emergency"] \in Node
    OBVIOUS
  <2> QED BY <1>1, <2>1, <2>2
<1> QED BY <1>2, <1>3

LEMMA InChainType ==
  ASSUME Types, NEW r \in InChain
  PROVE  r \in Threads \X Nat
<1>1. PICK i \in DOMAIN chain : r = chain[i].rec
  BY DEF InChain
<1>2. chain \in Seq([rec : Threads \X Nat, node : {"heap", "emergency"}])
  BY DEF Types
<1>3. chain[i] \in [rec : Threads \X Nat, node : {"heap", "emergency"}]
  <2> DEFINE Node == [rec : Threads \X Nat, node : {"heap", "emergency"}]
  <2> HIDE DEF Node
  <2>1. chain \in Seq(Node)
    BY <1>2 DEF Node
  <2>2. i \in 1..Len(chain)
    BY <1>1, <2>1
  <2>3. chain[i] \in Node
    BY <2>1, <2>2
  <2> QED BY <2>3 DEF Node
<1> QED BY <1>1, <1>3

LEMMA InitIInv == Init => IInv
<1> SUFFICES ASSUME Init PROVE IInv
  OBVIOUS
<1> USE ErrorChainAssumption DEF Init
<1>1. Types
  BY DEF Types
<1>2. Accounted /\ OwnShown /\ FatalCalled /\ HandlerComes /\ CauseComes /\ ExitedDone
  BY DEF Accounted, OwnShown, FatalCalled, HandlerComes, CauseComes, ExitedDone
<1> QED BY <1>1, <1>2 DEF IInv

(* A step that adds a record. *)
LEMMA AddStep ==
  ASSUME IInv, outcome = "none", NEW t \in Threads,
         NEW fn \in {"ec_push", "buffered_trace_v"}, NEW next \in {"run", "print", "exit"},
         Add(t, fn, next)
  PROVE  IInv'
<1> DEFINE r == <<t, made[t] + 1>>
<1> USE ErrorChainAssumption DEF IInv
<1>1. /\ pc[t] = "run" /\ made[t] \in Nat
      /\ made' = [made EXCEPT ![t] = made[t] + 1]
      /\ AddNode(r) /\ Onward(t, fn, next)
      /\ UNCHANGED <<handlers, exiting, outcome, cause, ec_mtx, log, printed, swept>>
  BY DEF Add, Types
<1>2. r \in Threads \X Nat
  BY <1>1
<1>3. /\ chain' \in Seq([rec : Threads \X Nat, node : {"heap", "emergency"}])
      /\ InChain \subseteq InChain' /\ InChain' \subseteq InChain \cup {r}
      /\ r \in InChain' \cup dropped'
      /\ dropped \subseteq dropped'
  BY <1>1, <1>2, Added
<1>4. /\ pc' = [pc EXCEPT ![t] = IF fn \in called THEN next ELSE "register"]
      /\ then' = [then EXCEPT ![t] = next] /\ called' = called \cup {fn}
  BY <1>1 DEF Onward, Goto
<1>5. Types'
  BY <1>1, <1>3, <1>4 DEF Types
<1>6. Accounted'
  <2> SUFFICES ASSUME NEW u \in Threads, NEW k \in 1..made'[u]
               PROVE  <<u, k>> \in InChain' \cup printed' \cup dropped' \cup swept'
    BY DEF Accounted
  <2>1. CASE u = t /\ k = made[t] + 1
    BY <1>3, <2>1
  <2>2. CASE ~(u = t /\ k = made[t] + 1)
    <3>1. k \in 1..made[u]
      BY <1>1, <2>2 DEF Types
    <3> QED BY <1>1, <1>3, <3>1 DEF Accounted
  <2> QED BY <2>1, <2>2
<1>7. OwnShown'
  BY <1>1, <1>3, <1>4 DEF OwnShown, Types
<1>8. FatalCalled'
  BY <1>1, <1>4 DEF FatalCalled, Types
<1>9. Registering => Registering'
  BY <1>1, <1>4 DEF Registering, Types
<1>10. HandlerComes'
  <2>1. \A u \in Threads : pc'[u] = "handlers" => exiting' = u
    BY <1>1, <1>4 DEF HandlerComes, Types
  <2>2. called = {} => Registering'
    BY <1>1, <1>4 DEF Registering, Types
  <2> QED BY <1>1, <1>9, <2>1, <2>2 DEF HandlerComes
<1>11. CauseComes'
  <2>1. \A u \in Threads : 1..made[u] \subseteq 1..made'[u]
    BY <1>1 DEF Types
  <2> QED BY <1>1, <1>3, <1>9, <2>1 DEF CauseComes
<1>12. ExitedDone'
  BY <1>1 DEF ExitedDone
<1> QED BY <1>5, <1>6, <1>7, <1>8, <1>10, <1>11, <1>12

LEMMA RegisterStep ==
  ASSUME IInv, outcome = "none", NEW t \in Threads, Register(t)
  PROVE  IInv'
<1> USE ErrorChainAssumption DEF IInv, Register, Goto, memoryVars, shownVars
<1>1. Types'
  BY DEF Types
<1>2. InChain' = InChain
  BY DEF InChain
<1>3. Accounted'
  BY <1>2 DEF Accounted
<1>4. OwnShown'
  BY <1>2 DEF OwnShown, Types
<1>5. FatalCalled'
  BY DEF FatalCalled, Types
<1>6. HandlerComes'
  BY DEF HandlerComes, Types
<1>7. CauseComes' /\ ExitedDone'
  BY DEF CauseComes, ExitedDone, Types
<1> QED BY <1>1, <1>3, <1>4, <1>5, <1>6, <1>7

LEMMA WriteLiteralStep ==
  ASSUME IInv, NEW t \in Threads, WriteLiteral(t)
  PROVE  IInv'
<1> USE DEF IInv, WriteLiteral, memoryVars, shownVars
<1>1. Types' /\ Accounted' /\ OwnShown' /\ FatalCalled'
  <2>1. Types'
    BY DEF Types
  <2>2. InChain' = InChain
    BY DEF InChain
  <2>3. Accounted' /\ OwnShown' /\ FatalCalled'
    BY <2>2 DEF Accounted, OwnShown, FatalCalled
  <2> QED BY <2>1, <2>3
<1>2. HandlerComes' /\ CauseComes' /\ ExitedDone'
  BY DEF HandlerComes, CauseComes, ExitedDone, Registering
<1> QED BY <1>1, <1>2

LEMMA ExitStep ==
  ASSUME IInv, outcome = "none", NEW t \in Threads, Exit(t)
  PROVE  IInv'
<1> USE ErrorChainAssumption DEF IInv, Exit, Goto, memoryVars, shownVars
<1>1. Types'
  BY DEF Types
<1>2. Accounted' /\ OwnShown' /\ FatalCalled' /\ ExitedDone'
  <2>1. InChain' = InChain
    BY DEF InChain
  <2>2. Accounted'
    BY <2>1 DEF Accounted
  <2>3. OwnShown'
    BY <2>1 DEF OwnShown, Types
  <2>4. FatalCalled' /\ ExitedDone'
    BY DEF FatalCalled, ExitedDone, Types
  <2> QED BY <2>2, <2>3, <2>4
<1>3. Registering => Registering'
  BY DEF Registering, Types
<1>4. handlers # 0 \/ Registering
  BY DEF HandlerComes, FatalCalled
<1>5. made[t] \in 1..made[t]
  BY DEF FatalCalled, Types
<1>6. HandlerComes'
  BY DEF HandlerComes, Types
<1>7. CauseComes'
  BY <1>3, <1>4, <1>5 DEF CauseComes
<1> QED BY <1>1, <1>2, <1>6, <1>7

(* ec_print shows the whole chain. *)
LEMMA FlushPrintStep ==
  ASSUME IInv, outcome = "none", NEW t \in Threads, FlushPrint(t)
  PROVE  IInv'
<1> USE ErrorChainAssumption DEF IInv, FlushPrint, PrintChain, Goto, memoryVars
<1>1. Types'
  BY DEF Types
<1>2. InChain' = InChain
  BY DEF InChain
<1>3. Accounted' /\ OwnShown' /\ FatalCalled' /\ ExitedDone'
  <2>1. Accounted'
    BY <1>2 DEF Accounted
  <2>2. OwnShown'
    BY <1>2 DEF OwnShown, Types
  <2>3. FatalCalled' /\ ExitedDone'
    BY DEF FatalCalled, ExitedDone, Types
  <2> QED BY <2>1, <2>2, <2>3
<1>4. Registering => Registering'
  BY DEF Registering, Types
<1>5. HandlerComes'
  BY <1>4 DEF HandlerComes, Types
<1>6. CauseComes'
  BY <1>4 DEF CauseComes
<1> QED BY <1>1, <1>3, <1>5, <1>6

LEMMA FlushRefusedStep ==
  ASSUME IInv, outcome = "none", NEW t \in Threads, FlushRefused(t)
  PROVE  IInv'
<1> USE ErrorChainAssumption DEF IInv, FlushRefused, PrintRefused, Goto, memoryVars
<1>1. Types'
  BY DEF Types
<1>2. InChain' = InChain
  BY DEF InChain
<1>3. Accounted' /\ OwnShown' /\ FatalCalled' /\ ExitedDone'
  <2>1. Accounted'
    BY <1>2 DEF Accounted
  <2>2. OwnShown'
    BY <1>2 DEF OwnShown, Types
  <2>3. FatalCalled' /\ ExitedDone'
    BY DEF FatalCalled, ExitedDone, Types
  <2> QED BY <2>1, <2>2, <2>3
<1>4. Registering => Registering'
  BY DEF Registering, Types
<1>5. HandlerComes'
  BY <1>4 DEF HandlerComes, Types
<1>6. CauseComes'
  BY DEF CauseComes
<1> QED BY <1>1, <1>3, <1>5, <1>6

LEMMA ReinitStep ==
  ASSUME IInv, outcome = "none", NEW t \in Threads, Reinit(t)
  PROVE  IInv'
<1> USE ErrorChainAssumption DEF IInv, Reinit, Goto, exitVars
<1>1. Types'
  BY DEF Types
<1>2. InChain' = {}
  BY DEF InChain
<1>3. Accounted' /\ OwnShown' /\ FatalCalled' /\ ExitedDone'
  <2>1. Accounted'
    BY <1>2 DEF Accounted
  <2>2. OwnShown'
    BY <1>2 DEF OwnShown, Types
  <2>3. FatalCalled' /\ ExitedDone'
    BY DEF FatalCalled, ExitedDone, Types
  <2> QED BY <2>1, <2>2, <2>3
<1>4. Registering => Registering'
  BY DEF Registering, Types
<1>5. HandlerComes'
  BY <1>4 DEF HandlerComes, Types
<1>6. CauseComes'
  BY <1>4 DEF CauseComes
<1> QED BY <1>1, <1>3, <1>5, <1>6

(* The first handler shows the cause, if it is still there. *)
LEMMA HandlerPrintStep ==
  ASSUME IInv, outcome = "none", NEW t \in Threads, HandlerPrint(t)
  PROVE  IInv'
<1> USE ErrorChainAssumption DEF IInv, HandlerPrint, PrintChain, PrintRefused, memoryVars
<1>1. Types'
  <2>1. handlers' \in Nat /\ log' \in {"unopened", "open", "refused"}
    BY DEF Types
  <2>2. UNCHANGED <<pc, then, made, chain, called, exiting>>
    OBVIOUS
  <2> QED BY <2>1, <2>2 DEF Types
<1>2. InChain' = InChain
  BY DEF InChain
<1>3. Accounted' /\ OwnShown' /\ FatalCalled' /\ ExitedDone'
  <2>1. Accounted'
    BY <1>2 DEF Accounted
  <2>2. OwnShown'
    BY <1>2 DEF OwnShown
  <2>3. FatalCalled' /\ ExitedDone'
    BY DEF FatalCalled, ExitedDone, Types
  <2> QED BY <2>1, <2>2, <2>3
<1>4. HandlerComes'
  BY DEF HandlerComes, Types
<1>5. CauseComes'
  BY DEF CauseComes, Accounted
<1> QED BY <1>1, <1>3, <1>4, <1>5

LEMMA ExitDoneStep ==
  ASSUME IInv, NEW t \in Threads, ExitDone(t)
  PROVE  IInv'
<1> USE DEF IInv, ExitDone, memoryVars, shownVars
<1>1. Types' /\ Accounted' /\ OwnShown' /\ FatalCalled'
  <2>1. Types'
    BY DEF Types
  <2>2. InChain' = InChain
    BY DEF InChain
  <2>3. Accounted' /\ OwnShown' /\ FatalCalled'
    BY <2>2 DEF Accounted, OwnShown, FatalCalled
  <2> QED BY <2>1, <2>3
<1>2. HandlerComes' /\ CauseComes' /\ ExitedDone'
  BY DEF HandlerComes, CauseComes, ExitedDone, Registering
<1> QED BY <1>1, <1>2

LEMMA NextIInv == IInv /\ [Next]_vars => IInv'
<1> SUFFICES ASSUME IInv, [Next]_vars PROVE IInv'
  OBVIOUS
<1>1. CASE UNCHANGED vars
  <2> USE <1>1 DEF IInv, vars, memoryVars, exitVars, shownVars
  <2>1. Types' /\ Accounted' /\ OwnShown' /\ FatalCalled'
    <3>1. Types'
      BY DEF Types
    <3>2. InChain' = InChain
      BY DEF InChain
    <3>3. Accounted' /\ OwnShown' /\ FatalCalled'
      BY <3>2 DEF Accounted, OwnShown, FatalCalled
    <3> QED BY <3>1, <3>3
  <2>2. HandlerComes' /\ CauseComes' /\ ExitedDone'
    BY DEF HandlerComes, CauseComes, ExitedDone, Registering
  <2> QED BY <2>1, <2>2
<1>2. ASSUME NEW t \in Threads, Step(t) PROVE IInv'
  <2> USE <1>2 DEF Step
  <2>1. CASE Note(t)
    BY <2>1, AddStep DEF Note
  <2>2. CASE Trace(t)
    BY <2>2, AddStep DEF Trace
  <2>3. CASE Fatal(t)
    BY <2>3, AddStep DEF Fatal
  <2>4. CASE WriteLiteral(t)
    BY <2>4, WriteLiteralStep
  <2>5. CASE Function(t)
    BY <2>5, RegisterStep, ExitStep, FlushPrintStep, FlushRefusedStep, ReinitStep,
       HandlerPrintStep, ExitDoneStep DEF Function
  <2> QED BY <2>1, <2>2, <2>3, <2>4, <2>5
<1> QED BY <1>1, <1>2 DEF Next

LEMMA AlwaysIInv == SafeSpec => []IInv
BY InitIInv, NextIInv, PTL DEF SafeSpec

(* No record gets lost but for want of memory or in the window of another  *)
(* thread's flush, for any threads and any number of records (ec_push,     *)
(* buffered_trace_v, ec_reinit).                                           *)
THEOREM NoRecordLost == SafeSpec => []Accounted
<1>1. IInv => Accounted
  BY DEF IInv
<1> QED BY <1>1, AlwaysIInv, PTL

(* A program that has exited has shown why, but for the cases CauseShown   *)
(* names (the fatal macros of ec.h, ec_atexit_fcn).                        *)
THEOREM ExitShowsCause == SafeSpec => []CauseShown
<1>1. IInv => CauseShown
  BY DEF IInv, CauseComes, ExitedDone, CauseShown, Registering
<1> QED BY <1>1, AlwaysIInv, PTL

(* EC_FLUSH frees no record of its own thread unseen.                      *)
THEOREM FlushKeepsOwn == SafeSpec => FlushShowsOwn
<1> DEFINE Own == \A r \in swept' \ swept : pc[r[1]] # "reinit" \/ pc'[r[1]] = "reinit"
<1>1. IInv /\ [Next]_vars => [Own]_vars
  <2> SUFFICES ASSUME IInv, Next PROVE Own
    OBVIOUS
  <2>1. PICK t \in Threads : Step(t)
    BY DEF Next
  <2>2. CASE Reinit(t)
    <3> SUFFICES ASSUME NEW r \in InChain \ printed, pc[r[1]] = "reinit"
                 PROVE  pc'[r[1]] = "reinit"
      BY <2>2 DEF Reinit
    <3>1. r[1] \in Threads /\ r[1] # t
      BY <2>2, InChainType DEF Reinit, OwnShown, IInv
    <3> QED BY <2>2, <3>1 DEF Reinit, Goto, IInv, Types
  <2>3. CASE ~Reinit(t)
    <3>1. swept' = swept
      BY <2>1, <2>3 DEF Step, Note, Trace, Fatal, Add, WriteLiteral, Function, Register, Exit,
         FlushPrint, FlushRefused, HandlerPrint, ExitDone, PrintChain, PrintRefused, shownVars
    <3> QED BY <3>1
  <2> QED BY <2>2, <2>3
<1> QED BY <1>1, AlwaysIInv, PTL DEF SafeSpec, FlushShowsOwn
-----------------------------------------------------------------------------
LEMMA InitTypeOK == Init => TypeOK
<1> SUFFICES ASSUME Init PROVE TypeOK
  OBVIOUS
<1>1. chain \in Seq([rec : Records, node : {"heap", "emergency"}])
  BY DEF Init
<1>2. made \in [Threads -> 0..MaxRecords]
  BY ErrorChainAssumption DEF Init
<1> QED BY <1>1, <1>2, ErrorChainAssumption DEF Init, TypeOK

LEMMA NextTypeOK == TypeOK /\ FatalCalled /\ [Next]_vars => TypeOK'
<1> SUFFICES ASSUME TypeOK, FatalCalled, [Next]_vars PROVE TypeOK'
  OBVIOUS
<1> USE ErrorChainAssumption
<1> DEFINE Node == [rec : Records, node : {"heap", "emergency"}]
<1>1. CASE UNCHANGED vars
  BY <1>1 DEF TypeOK, vars, memoryVars, exitVars, shownVars
<1>2. \A i \in DOMAIN chain : chain[i].rec \in Records
  <2> HIDE DEF Node
  <2>1. chain \in Seq(Node)
    BY DEF TypeOK, Node
  <2>2. \A i \in DOMAIN chain : chain[i] \in Node
    BY <2>1
  <2> QED BY <2>2 DEF Node
<1>3. InChain \subseteq Records
  BY <1>2 DEF InChain
<1>4. chain # <<>> => Head(chain).rec \in Records
  <2>1. chain # <<>> => 1 \in DOMAIN chain /\ Head(chain) = chain[1]
    BY DEF TypeOK
  <2> QED BY <1>2, <2>1
<1>5. ASSUME NEW t \in Threads, NEW fn \in {"ec_push", "buffered_trace_v"},
             NEW next \in {"run", "print", "exit"}, Add(t, fn, next)
      PROVE  TypeOK'
  <2> DEFINE r == <<t, made[t] + 1>>
  <2>1. made[t] + 1 \in 1..MaxRecords /\ r \in Records
    BY <1>5 DEF Add, TypeOK, Records
  <2>2. [rec |-> r, node |-> "heap"] \in Node /\ [rec |-> r, node |-> "emergency"] \in Node
    BY <2>1
  <2>3. chain' \in Seq(Node) /\ dropped' \subseteq Records /\ emergencyNode' \in BOOLEAN
    <3>1. AddNode(r) /\ chain \in Seq(Node) /\ dropped \subseteq Records /\ emergencyNode \in BOOLEAN
      BY <1>5 DEF Add, TypeOK
    <3>2. \A n \in Node : <<n>> \o chain \in Seq(Node)
      <4> HIDE DEF Node
      <4> QED BY <3>1
    <3>3. CASE \E n \in Node : chain' = <<n>> \o chain
      BY <2>1, <3>1, <3>2, <3>3 DEF AddNode
    <3>4. CASE chain' = chain
      BY <2>1, <3>1, <3>4 DEF AddNode
    <3> QED BY <2>2, <3>1, <3>3, <3>4 DEF AddNode
  <2>4. /\ made' \in [Threads -> 0..MaxRecords]
        /\ called' \subseteq {"ec_push", "buffered_trace_v"}
        /\ then' \in [Threads -> {"run", "print", "exit"}]
        /\ emergencyContext' \in BOOLEAN
    <3>1. made' = [made EXCEPT ![t] = made[t] + 1] /\ made[t] + 1 \in 0..MaxRecords
      BY <1>5, <2>1 DEF Add, TypeOK
    <3>2. made' \in [Threads -> 0..MaxRecords]
      BY <3>1 DEF TypeOK
    <3>3. called' \subseteq {"ec_push", "buffered_trace_v"} /\ then' \in [Threads -> {"run", "print", "exit"}]
      BY <1>5 DEF Add, Onward, TypeOK
    <3>4. emergencyContext' \in BOOLEAN
      BY <1>5 DEF Add, TypeOK
    <3> QED BY <3>2, <3>3, <3>4
  <2>5. pc' \in [Threads -> {"run", "register", "print", "reinit", "exit", "handlers", "stopped"}]
    BY <1>5 DEF Add, Onward, Goto, TypeOK
  <2> QED BY <1>5, <2>3, <2>4, <2>5 DEF Add, TypeOK
<1>6. ASSUME NEW t \in Threads, WriteLiteral(t) \/ ExitDone(t) PROVE TypeOK'
  BY <1>6 DEF WriteLiteral, ExitDone, TypeOK, memoryVars, shownVars
<1>7. ASSUME NEW t \in Threads, Register(t) PROVE TypeOK'
  BY <1>7 DEF Register, Goto, TypeOK, memoryVars, shownVars
<1>8. ASSUME NEW t \in Threads, Exit(t) PROVE TypeOK'
  <2>1. made[t] \in 1..MaxRecords
    BY <1>8 DEF Exit, FatalCalled, TypeOK
  <2>2. <<t, made[t]>> \in Records
    BY <2>1 DEF Records
  <2> QED BY <1>8, <2>2 DEF Exit, Goto, TypeOK, memoryVars, shownVars
<1>9. ASSUME NEW t \in Threads, PrintChain \/ PrintRefused(t)
      PROVE  /\ log' \in {"unopened", "open", "refused"} /\ printed' \subseteq Records
             /\ ec_mtx' \in Threads \cup {None}
             /\ UNCHANGED <<then, made, memoryVars, called, outcome, cause, dropped, swept>>
  BY <1>3, <1>4, <1>9 DEF PrintChain, PrintRefused, TypeOK
<1>10. ASSUME NEW t \in Threads, FlushPrint(t) PROVE TypeOK'
  BY <1>9, <1>10 DEF FlushPrint, Goto, TypeOK, memoryVars
<1>11. ASSUME NEW t \in Threads, FlushRefused(t) PROVE TypeOK'
  BY <1>9, <1>11 DEF FlushRefused, Goto, TypeOK, memoryVars
<1>12. ASSUME NEW t \in Threads, Reinit(t) PROVE TypeOK'
  <2>1. chain' \in Seq(Node) /\ emergencyNode' \in BOOLEAN /\ emergencyContext' \in BOOLEAN
    <3>1. chain' = <<>> /\ emergencyNode' = FALSE /\ emergencyContext' = FALSE
      BY <1>12 DEF Reinit
    <3>2. <<>> \in Seq(Node)
      OBVIOUS
    <3> QED BY <3>1, <3>2
  <2>2. pc' \in [Threads -> {"run", "register", "print", "reinit", "exit", "handlers", "stopped"}]
    BY <1>12 DEF Reinit, Goto, TypeOK
  <2>3. swept' \subseteq Records
    BY <1>3, <1>12 DEF Reinit, TypeOK
  <2> QED BY <1>12, <2>1, <2>2, <2>3 DEF Reinit, TypeOK, exitVars
<1>13. ASSUME NEW t \in Threads, HandlerPrint(t) PROVE TypeOK'
  <2>1. handlers' \in Nat /\ UNCHANGED <<pc, exiting>>
    BY <1>13 DEF HandlerPrint, TypeOK
  <2>2. PrintChain \/ PrintRefused(t)
    BY <1>13 DEF HandlerPrint
  <2> QED BY <1>9, <2>1, <2>2 DEF TypeOK, memoryVars
<1>14. ASSUME NEW t \in Threads, Step(t) PROVE TypeOK'
  BY <1>5, <1>6, <1>7, <1>8, <1>10, <1>11, <1>12, <1>13, <1>14
     DEF Step, Function, Note, Trace, Fatal
<1> QED BY <1>1, <1>14 DEF Next

(* Every variable keeps to its type, for any threads and records.          *)
THEOREM TypeCorrect == SafeSpec => []TypeOK
<1>1. IInv => FatalCalled
  BY DEF IInv
<1> QED BY <1>1, AlwaysIInv, InitTypeOK, NextTypeOK, PTL DEF SafeSpec
-----------------------------------------------------------------------------
Emergencies == {i \in DOMAIN chain : chain[i].node = "emergency"}

(* The emergency node is in the chain exactly while it is in use. *)
NodeOnce ==
  /\ emergencyNode \in BOOLEAN
  /\ IF emergencyNode THEN \E i \in DOMAIN chain : Emergencies = {i}
                      ELSE Emergencies = {}

LEMMA NoneEmpty == DOMAIN <<>> = {}
OBVIOUS

(* A new head moves every node one place on. *)
LEMMA NodesMove ==
  ASSUME Types, NEW r \in Threads \X Nat, NEW node \in {"heap", "emergency"},
         chain' = <<[rec |-> r, node |-> node]>> \o chain
  PROVE  /\ 1 \in DOMAIN chain'
         /\ \A i \in DOMAIN chain : i + 1 \in DOMAIN chain'
         /\ Emergencies' = (IF node = "emergency" THEN {1} ELSE {})
                             \cup {i + 1 : i \in Emergencies}
<1> DEFINE Node == [rec : Threads \X Nat, node : {"heap", "emergency"}]
           n == [rec |-> r, node |-> node]
<1> HIDE DEF Node
<1>1. chain \in Seq(Node) /\ n \in Node
  BY DEF Types, Node
<1> HIDE DEF n
<1>2. /\ chain' \in Seq(Node) /\ Len(chain') = Len(chain) + 1 /\ chain'[1] = n
      /\ \A i \in 1 .. Len(chain) : chain'[i + 1] = chain[i]
  BY <1>1 DEF n
<1>3. /\ Len(chain) \in Nat /\ DOMAIN chain = 1 .. Len(chain)
      /\ DOMAIN chain' = 1 .. Len(chain) + 1
  BY <1>1, <1>2
<1>4. \A i \in DOMAIN chain' :
        \/ i = 1 /\ chain'[i] = n
        \/ i # 1 /\ i - 1 \in DOMAIN chain /\ chain'[i] = chain[i - 1] /\ i = (i - 1) + 1
  <2> TAKE i \in DOMAIN chain'
  <2>1. i = 1 \/ i - 1 \in 1 .. Len(chain)
    BY <1>3
  <2>2. i # 1 => chain'[(i - 1) + 1] = chain[i - 1]
    BY <1>2, <2>1
  <2>3. i = (i - 1) + 1
    BY <1>3
  <2> QED BY <1>2, <1>3, <2>1, <2>2, <2>3
<1>5. n.node = node
  BY DEF n
<1>6. 1 \in DOMAIN chain' /\ \A i \in DOMAIN chain : i + 1 \in DOMAIN chain' /\ i + 1 # 1
  BY <1>3
<1>7. Emergencies' \subseteq (IF node = "emergency" THEN {1} ELSE {})
                               \cup {i + 1 : i \in Emergencies}
  BY <1>4, <1>5 DEF Emergencies
<1>8. \A i \in Emergencies : i + 1 \in Emergencies'
  BY <1>2, <1>3, <1>6 DEF Emergencies
<1>9. node = "emergency" => 1 \in Emergencies'
  BY <1>2, <1>5, <1>6 DEF Emergencies
<1> QED BY <1>6, <1>7, <1>8, <1>9

LEMMA AddNodeOnce ==
  ASSUME Types, NodeOnce, NEW r \in Threads \X Nat, AddNode(r)
  PROVE  NodeOnce'
<1>1. CASE chain' = <<[rec |-> r, node |-> "heap"]>> \o chain /\ emergencyNode' = emergencyNode
  <2>1. /\ Emergencies' = {i + 1 : i \in Emergencies}
        /\ \A i \in DOMAIN chain : i + 1 \in DOMAIN chain'
    BY <1>1, NodesMove
  <2>2. CASE emergencyNode
    <3>1. PICK i \in DOMAIN chain : Emergencies = {i}
      BY <2>2 DEF NodeOnce
    <3>2. Emergencies' = {i + 1} /\ i + 1 \in DOMAIN chain'
      BY <2>1, <3>1
    <3> QED BY <1>1, <2>2, <3>2 DEF NodeOnce
  <2>3. CASE ~emergencyNode
    BY <1>1, <2>1, <2>3 DEF NodeOnce
  <2> QED BY <2>2, <2>3
<1>2. CASE /\ ~emergencyNode /\ emergencyNode'
           /\ chain' = <<[rec |-> r, node |-> "emergency"]>> \o chain
  <2>1. Emergencies' = {1} /\ 1 \in DOMAIN chain'
    BY <1>2, NodesMove DEF NodeOnce
  <2> QED BY <1>2, <2>1 DEF NodeOnce
<1>3. CASE UNCHANGED <<chain, emergencyNode>>
  BY <1>3 DEF NodeOnce, Emergencies
<1> QED BY <1>1, <1>2, <1>3 DEF AddNode, NodeOnce

LEMMA NextNodeOnce == IInv /\ NodeOnce /\ [Next]_vars => NodeOnce'
<1> SUFFICES ASSUME Types, NodeOnce, [Next]_vars PROVE NodeOnce'
  BY DEF IInv
<1>1. ASSUME UNCHANGED <<chain, emergencyNode>> PROVE NodeOnce'
  BY <1>1 DEF NodeOnce, Emergencies
<1>2. ASSUME NEW t \in Threads, Note(t) \/ Trace(t) \/ Fatal(t) PROVE NodeOnce'
  <2>1. <<t, made[t] + 1>> \in Threads \X Nat
    BY DEF Types
  <2>2. AddNode(<<t, made[t] + 1>>)
    BY <1>2 DEF Note, Trace, Fatal, Add
  <2> QED BY <2>1, <2>2, AddNodeOnce
<1>3. ASSUME NEW t \in Threads, Reinit(t) PROVE NodeOnce'
  <2>1. chain' = <<>> /\ emergencyNode' = FALSE
    BY <1>3 DEF Reinit
  <2> QED BY <2>1, NoneEmpty DEF NodeOnce, Emergencies
<1>4. ASSUME NEW t \in Threads,
             \/ WriteLiteral(t) \/ Register(t) \/ Exit(t) \/ FlushPrint(t)
             \/ FlushRefused(t) \/ HandlerPrint(t) \/ ExitDone(t)
      PROVE  NodeOnce'
  BY <1>1, <1>4 DEF WriteLiteral, Register, Exit, FlushPrint, FlushRefused, HandlerPrint,
    ExitDone, PrintChain, PrintRefused, memoryVars
<1> QED BY <1>1, <1>2, <1>3, <1>4 DEF Next, Step, Function, vars, memoryVars

(* The static emergency node is linked into the chain once at most, however *)
(* often memory is lacking, and is free again after a flush: the chain has  *)
(* no cycle, and ec_print ends.                                             *)
THEOREM EmergencyNodeOnce == SafeSpec => []EmergencyOnce
<1>1. NodeOnce => EmergencyOnce
  BY FS_EmptySet, FS_Singleton DEF NodeOnce, EmergencyOnce, Emergencies
<1>2. Init => NodeOnce
  BY NoneEmpty DEF Init, NodeOnce, Emergencies
<1> QED BY <1>1, <1>2, NextNodeOnce, AlwaysIInv, PTL DEF SafeSpec
=============================================================================
