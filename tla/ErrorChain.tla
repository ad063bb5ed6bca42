----------------------------- MODULE ErrorChain -----------------------------
(***************************************************************************)
(* The chain of error and trace records of common/ec.c, which every thread *)
(* of the library adds to and INSTANT_TRACE prints and frees; the end of   *)
(* the program by exit, whose handlers print the chain; the log file of    *)
(* common/logf.c, as far as it can stop the program.                       *)
(*                                                                         *)
(* Each ec function holds one mutex from beginning to end, so it is a step *)
(* here, and the mutex shows only where it stays locked: logf.c calls exit *)
(* from inside ec_print.                                                   *)
(*                                                                         *)
(* Left out: text, levels, and atexit failing.  One thread at a time runs  *)
(* exit; another that calls it waits.                                      *)
(***************************************************************************)
EXTENDS Naturals, Sequences, FiniteSets

CONSTANTS
  Threads,
  MaxRecords,  \* bound: records of a thread
  None

ASSUME ErrorChainAssumption == MaxRecords \in Nat /\ None \notin Threads

Records == Threads \X (1..MaxRecords)

VARIABLES
  pc,          \* per thread, where it is
  then,        \* where it goes once the exit handler is registered
  made,        \* per thread, how many records it has added
  chain,       \* the records from ec_head on, each with the node it is in
  emergencyNode,     \* ec_node_emergency has a context
  emergencyContext,  \* ec_s_emergency has text
  called,      \* the functions whose attexit_called is true
  handlers,    \* how often ec_atexit_fcn is registered and has not run
  ec_mtx,      \* None, or the thread that never unlocks it
  log,         \* the log file: "unopened", "open" or "refused"
  exiting,     \* None, or the thread that runs exit
  outcome,     \* of the program: "none", "exited" or "crashed"
  cause,       \* None, or the record of the error that called exit
  printed,     \* the records that were shown
  dropped,     \* the records no memory was left for
  swept        \* the records freed without having been shown

memoryVars == <<chain, emergencyNode, emergencyContext>>
exitVars == <<called, handlers, exiting, outcome, cause>>
shownVars == <<printed, dropped, swept>>
vars == <<pc, then, made, memoryVars, exitVars, ec_mtx, log, shownVars>>

Init ==
  /\ pc = [t \in Threads |-> "run"] /\ then = [t \in Threads |-> "run"]
  /\ made = [t \in Threads |-> 0]
  /\ chain = <<>> /\ emergencyNode = FALSE /\ emergencyContext = FALSE
  /\ called = {} /\ handlers = 0
  /\ ec_mtx = None /\ log = "unopened"
  /\ exiting = None /\ outcome = "none" /\ cause = None
  /\ printed = {} /\ dropped = {} /\ swept = {}

Goto(t, l) == pc' = [pc EXCEPT ![t] = l]

InChain == {chain[i].rec : i \in DOMAIN chain}
-----------------------------------------------------------------------------
(* ec_push and buffered_trace_v *)

(* Mutant: the emergency node is used again. *)
AddNodeAgain(r) ==
  \/ /\ chain' = <<[rec |-> r, node |-> "heap"]>> \o chain
     /\ UNCHANGED <<emergencyNode, dropped>>
  \/ /\ chain' = <<[rec |-> r, node |-> "emergency"]>> \o chain
     /\ emergencyNode' = TRUE
     /\ UNCHANGED dropped

(* Mutant: ec_next of the new head is not set. *)
AddNodeAlone(r) ==
  /\ chain' = <<[rec |-> r, node |-> "heap"]>>
  /\ UNCHANGED <<emergencyNode, dropped>>

(* calloc of the node: it may fail, and the emergency node serves once. *)
AddNode(r) ==
  \/ /\ chain' = <<[rec |-> r, node |-> "heap"]>> \o chain
     /\ UNCHANGED <<emergencyNode, dropped>>
  \/ /\ ~emergencyNode
     /\ chain' = <<[rec |-> r, node |-> "emergency"]>> \o chain
     /\ emergencyNode' = TRUE
     /\ UNCHANGED dropped
  \/ /\ emergencyNode
     /\ dropped' = dropped \cup {r}
     /\ UNCHANGED <<chain, emergencyNode>>

(* The first call of fn registers the exit handler, after it has unlocked. *)
Onward(t, fn, next) ==
  /\ called' = called \cup {fn}
  /\ then' = [then EXCEPT ![t] = next]
  /\ Goto(t, IF fn \in called THEN next ELSE "register")

(* A thread adds a record by fn and goes on to next.  calloc of the        *)
(* context may fail; the emergency text serves once.                       *)
Add(t, fn, next) ==
  /\ pc[t] = "run" /\ made[t] < MaxRecords /\ ec_mtx = None
  /\ made' = [made EXCEPT ![t] = @ + 1]
  /\ AddNode(<<t, made[t] + 1>>)
  /\ Onward(t, fn, next)
  /\ \/ UNCHANGED emergencyContext
     \/ ~emergencyContext /\ emergencyContext' = TRUE
  /\ UNCHANGED <<handlers, exiting, outcome, cause, ec_mtx, log, printed, swept>>

(* Without memory for the context, and the emergency text in use, the      *)
(* record is written over the string literal "?".                          *)
WriteLiteral(t) ==
  /\ pc[t] = "run" /\ made[t] < MaxRecords /\ ec_mtx = None
  /\ emergencyContext
  /\ outcome' = "crashed"
  /\ UNCHANGED <<pc, then, made, memoryVars, called, handlers, exiting, cause, ec_mtx, log,
                 shownVars>>

(* Mutant: the handler is never registered. *)
RegisterNone(t) ==
  /\ pc[t] = "register"
  /\ Goto(t, then[t])
  /\ UNCHANGED <<then, made, memoryVars, exitVars, ec_mtx, log, shownVars>>

(* atexit(ec_atexit_fcn) *)
Register(t) ==
  /\ pc[t] = "register"
  /\ handlers' = handlers + 1
  /\ Goto(t, then[t])
  /\ UNCHANGED <<then, made, memoryVars, called, exiting, outcome, cause, ec_mtx, log, shownVars>>

(* ec_rv and the like outside the fatal ones, BUFFERED_TRACE *)
Note(t) == \E fn \in {"ec_push", "buffered_trace_v"} : Add(t, fn, "run")

(* Mutant: ec_reinit comes before ec_print. *)
TraceReinit(t) == Add(t, "buffered_trace_v", "reinit")

(* INSTANT_TRACE, up to EC_FLUSH *)
Trace(t) == Add(t, "buffered_trace_v", "print")

(* ec_rv_fatal and the like, up to exit *)
Fatal(t) == Add(t, "ec_push", "exit")
-----------------------------------------------------------------------------
(* exit runs what is registered, in the thread that calls it. *)
Exit(t) ==
  /\ pc[t] = "exit" /\ exiting = None
  /\ exiting' = t
  /\ cause' = <<t, made[t]>>
  /\ Goto(t, "handlers")
  /\ UNCHANGED <<then, made, memoryVars, called, handlers, outcome, ec_mtx, log, shownVars>>

(* Mutant: ec_print does not unlock. *)
PrintChainLocked ==
  /\ ec_mtx = None
  /\ ec_mtx' \in Threads
  /\ printed' = printed \cup InChain
  /\ UNCHANGED <<then, made, memoryVars, called, outcome, cause, log, dropped, swept>>

(* ec_print, which keeps the chain.  The first line it writes opens the    *)
(* log file.                                                               *)
PrintChain ==
  /\ ec_mtx = None
  /\ IF chain = <<>> THEN UNCHANGED log
                     ELSE log \in {"unopened", "open"} /\ log' = "open"
  /\ printed' = printed \cup InChain
  /\ UNCHANGED <<then, made, memoryVars, called, outcome, cause, ec_mtx, dropped, swept>>

(* ec_print, when the log file cannot be opened: after the first record it *)
(* calls exit, with the mutex locked.                                      *)
PrintRefused(t) ==
  /\ ec_mtx = None /\ log = "unopened" /\ chain # <<>>
  /\ ec_mtx' = t /\ log' = "refused"
  /\ printed' = printed \cup {Head(chain).rec}
  /\ UNCHANGED <<then, made, memoryVars, called, outcome, cause, dropped, swept>>

(* ec_reinit *)
Reinit(t) ==
  /\ pc[t] = "reinit" /\ ec_mtx = None
  /\ chain' = <<>> /\ emergencyNode' = FALSE /\ emergencyContext' = FALSE
  /\ swept' = swept \cup (InChain \ printed)
  /\ Goto(t, "run")
  /\ UNCHANGED <<then, made, exitVars, ec_mtx, log, printed, dropped>>

(* EC_FLUSH is ec_print and then ec_reinit. *)
FlushPrint(t) ==
  /\ pc[t] = "print"
  /\ PrintChain
  /\ Goto(t, "reinit")
  /\ UNCHANGED <<handlers, exiting>>

FlushRefused(t) ==
  /\ pc[t] = "print" /\ PrintRefused(t)
  /\ IF exiting = None THEN exiting' = t /\ Goto(t, "handlers")
                       ELSE UNCHANGED exiting /\ Goto(t, "stopped")
  /\ UNCHANGED handlers

(* The next exit handler, ec_atexit_fcn.  An exit it calls itself goes on  *)
(* with the handlers that are left.                                        *)
HandlerPrint(t) ==
  /\ pc[t] = "handlers" /\ handlers > 0
  /\ handlers' = handlers - 1
  /\ PrintChain \/ PrintRefused(t)
  /\ UNCHANGED <<pc, exiting>>

ExitDone(t) ==
  /\ pc[t] = "handlers" /\ handlers = 0
  /\ outcome' = "exited"
  /\ UNCHANGED <<pc, then, made, memoryVars, called, handlers, exiting, cause, ec_mtx, log,
                 shownVars>>
-----------------------------------------------------------------------------
(* What the functions do once they are called. *)
Function(t) ==
  \/ Register(t) \/ Exit(t) \/ FlushPrint(t) \/ FlushRefused(t) \/ Reinit(t)
  \/ HandlerPrint(t) \/ ExitDone(t)

Step(t) ==
  outcome = "none" /\ (Note(t) \/ Trace(t) \/ Fatal(t) \/ WriteLiteral(t) \/ Function(t))

Next == \E t \in Threads : Step(t)

Fairness == \A t \in Threads : WF_vars(outcome = "none" /\ Function(t))

SafeSpec == Init /\ [][Next]_vars

Spec == SafeSpec /\ Fairness
-----------------------------------------------------------------------------
TypeOK ==
  /\ pc \in [Threads -> {"run", "register", "print", "reinit", "exit", "handlers", "stopped"}]
  /\ then \in [Threads -> {"run", "print", "exit"}]
  /\ made \in [Threads -> 0..MaxRecords]
  /\ chain \in Seq([rec : Records, node : {"heap", "emergency"}])
  /\ emergencyNode \in BOOLEAN /\ emergencyContext \in BOOLEAN
  /\ called \subseteq {"ec_push", "buffered_trace_v"}
  /\ handlers \in Nat
  /\ ec_mtx \in Threads \cup {None}
  /\ log \in {"unopened", "open", "refused"}
  /\ exiting \in Threads \cup {None}
  /\ outcome \in {"none", "exited", "crashed"}
  /\ cause \in Records \cup {None}
  /\ printed \subseteq Records /\ dropped \subseteq Records /\ swept \subseteq Records

(* The chain has no cycle: the one emergency node is in it at most once,   *)
(* and is free again when it is not.                                       *)
EmergencyOnce ==
  Cardinality({i \in DOMAIN chain : chain[i].node = "emergency"})
    = IF emergencyNode THEN 1 ELSE 0

(* Every record that was added is in the chain, was shown, was dropped for *)
(* lack of memory, or was freed by a flush that began before it was added. *)
Accounted ==
  \A t \in Threads : \A k \in 1..made[t] :
     <<t, k>> \in InChain \cup printed \cup dropped \cup swept

(* A flush shows what its thread has added before it frees it: what it     *)
(* frees unseen others added, between its ec_print and its ec_reinit.      *)
FlushShowsOwn ==
  [][\A r \in swept' \ swept : pc[r[1]] # "reinit" \/ pc'[r[1]] = "reinit"]_vars

(* When exit is done the error that called it has been shown by a handler, *)
(* unless another thread's flush freed it first, memory was lacking, the   *)
(* log file could not be opened, or another thread was still to register   *)
(* the handler.                                                            *)
CauseShown ==
  (outcome = "exited" /\ cause # None) =>
     \/ cause \in printed \cup dropped \cup swept
     \/ log = "refused"
     \/ \E t \in Threads : pc[t] = "register"

(* exit ends the program, whatever the other threads do, unless the log    *)
(* file cannot be opened: then a handler waits for a mutex that its own    *)
(* thread or a stopped one has locked.                                     *)
ExitEnds == exiting # None ~> (outcome # "none" \/ log = "refused")
=============================================================================
