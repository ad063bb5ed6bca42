------------------------------ MODULE ATMProofs ------------------------------
(***************************************************************************)
(* Proofs about ATM: for any cards, amounts and numbers of datagrams and   *)
(* faults, no account is overdrawn, the machine acts on its own answers,   *)
(* three wrong PINs hold the card, and the books match what was completed. *)
(***************************************************************************)
EXTENDS ATM, TLAPS

Asked == {d \in net : d.kind = "process"}

Ends == {d \in net : d.kind # "process"}

(* A request names the account the money comes from. *)
Sound(r) == r.transaction = 2 => r.account = r.from /\ r.to = 3 - r.from

(* Numbers grow, and a socket has the number of its request. *)
Numbered ==
  /\ \A d \in net : d.no <= sent
  /\ \A d \in Asked : d.sock = d.no /\ Sound(d.req)
  /\ \A a \in answers : a.sock = a.no /\ a.no <= sent
  /\ InTransaction => sockfd = asked /\ asked <= sent /\ Sound(req)

(* What is on its way to the machine belongs to its last request. *)
Own ==
  /\ atm = "receive" =>
       /\ req.pin = pin
       /\ \A d \in Asked : d.no = asked => d.req = req
       /\ \A a \in answers : a.no = asked => a.pinStatus = (pin = "right") /\ req.card \in Cards
  /\ atm \in {"newpin", "completing"} => status.no = asked /\ req.card \in Cards
  /\ atm = "completing" => status.approved /\ pin = "right"

(* An invalid PIN that the session has survived was made good. *)
Tries ==
  /\ atm \in {"choosing", "again", "receive", "completing"} =>
       ~held /\ (invalid = 0 \/ (pin = "right" /\ invalid \in 1..2))
  /\ atm = "newpin" => ~held /\ invalid = attempt /\ attempt \in 1..2
  /\ atm \in {"idle", "off"} => invalid \in 0..3 /\ (held <=> invalid = 3)

(* The accounts as the completed transactions leave them. *)
Owed ==
  [c \in Cards |-> [a \in Accounts |-> IF a = 1 THEN due[c][a] ELSE due[c][a] + deposited[c]]]

(* The table with the request carried out. *)
After(r) == [committed EXCEPT ![r.card] = Updated(@, r)]

(* While nothing has disturbed them, datagrams arrive in the order they    *)
(* were sent, one transaction after the other.                             *)
Order ==
  ~disturbed =>
    /\ \A d, e \in Ends : d = e
    /\ \A d \in Asked : atm = "receive" /\ d.no = asked /\ \A e \in Ends : e.no < d.no
    /\ \A d \in Ends : d.kind = "commit" => CA = Owed
    /\ (\A d \in Ends : d.kind # "commit") => committed = Owed
    /\ Ends = {} /\ (~InTransaction \/ Asked # {}) => CA = committed
    /\ atm = "receive" /\ answers # {} =>
         net = {} /\ \A a \in answers : CA = IF a.approved THEN After(req) ELSE committed
    /\ atm \in {"newpin", "completing"} =>
         net = {} /\ CA = IF status.approved THEN After(req) ELSE committed

-----------------------------------------------------------------------------
USE DEF Accounts

LEMMA OrderType ==
  ASSUME NEW o \in Orders
  PROVE  o \in [transaction : 1..4, account : Accounts, from : Accounts, to : Accounts, amount : Nat]
         /\ Sound(Request(o))
BY ATMAssumption DEF Orders, Sound, Request

LEMMA RequestType ==
  ASSUME TypeOK, NEW o \in Orders
  PROVE  Request(o) \in Requests
BY OrderType DEF TypeOK, Request, Requests

LEMMA DatagramType ==
  ASSUME NEW d \in Datagrams
  PROVE  /\ d.no \in Nat
         /\ d.kind \in {"process", "commit", "rollback"}
         /\ d.kind = "process" => d.sock \in Nat /\ d.req \in Requests
BY DEF Datagrams

LEMMA EndType ==
  ASSUME NEW kind \in {"commit", "rollback"}, NEW n \in Nat
  PROVE  [kind |-> kind, no |-> n] \in Datagrams
BY DEF Datagrams

LEMMA RowType ==
  ASSUME NEW row \in [Accounts -> Int], NEW r \in Requests
  PROVE  Updated(row, r) \in [Accounts -> Int] /\ Settled(row, r) \in [Accounts -> Int]
BY DEF Updated, Settled, Requests

LEMMA NoneType == NoRequest \in Requests /\ NoStatus \in Answers
BY DEF NoRequest, NoStatus, Requests, Answers

LEMMA InitType == Init => TypeOK
<1> SUFFICES ASSUME Init PROVE TypeOK
  OBVIOUS
<1>1. req \in Requests /\ status \in Answers
  BY NoneType DEF Init
<1>2. CA \in Books /\ committed \in Books /\ due \in Books /\ deposited \in [Cards -> Nat]
  BY ATMAssumption DEF Init, Books
<1> QED BY <1>1, <1>2 DEF Init, TypeOK

LEMMA NextType == TypeOK /\ [Next]_vars => TypeOK'
<1> SUFFICES ASSUME TypeOK, [Next]_vars PROVE TypeOK'
  OBVIOUS
<1> USE ATMAssumption
<1>0. NoRequest \in Requests /\ NoStatus \in Answers
  BY NoneType
<1>1. CASE UNCHANGED vars
  BY <1>1 DEF TypeOK, vars, userVars, transVars, bookVars, bankVars, netVars
<1>2. CASE Session
  <2>1. UNCHANGED <<transVars, bookVars, bankVars, netVars, disturbed>>
    BY <1>2 DEF Session
  <2>2. /\ atm' \in {"off", "idle", "choosing", "again"}
        /\ card' \in Cards \cup {Unknown} /\ pin' \in {"right", "wrong"} /\ mach' \in Nat
        /\ invalid' \in Nat /\ held' \in BOOLEAN
    <3> USE DEF TypeOK, userVars
    <3>1. CASE atm = "off" /\ atm' = "idle" /\ mach' \in Cash /\ UNCHANGED <<card, pin, invalid, held>>
      BY <3>1
    <3>2. CASE /\ atm = "idle" /\ atm' = "choosing"
               /\ card' \in Cards \cup {Unknown} /\ pin' \in {"right", "wrong"}
               /\ invalid' = 0 /\ held' = FALSE /\ UNCHANGED mach
      BY <3>2
    <3>3. CASE atm' \in {"off", "idle", "choosing", "again"} /\ UNCHANGED userVars
      BY <3>3
    <3> QED BY <1>2, <3>1, <3>2, <3>3 DEF Session, Dialogue
  <2> QED BY <2>1, <2>2 DEF TypeOK, transVars, bookVars, bankVars, netVars
<1>3. ASSUME NEW o \in Orders, BankSend(o) PROVE TypeOK'
  <2>1. Request(o) \in Requests
    BY RequestType
  <2>2. [kind |-> "process", no |-> sent + 1, sock |-> Socket, req |-> Request(o)] \in Datagrams
    BY <2>1 DEF Datagrams, Socket, TypeOK
  <2> QED BY <1>3, <2>1, <2>2 DEF BankSend, Socket, TypeOK, userVars, bookVars, bankVars
<1>4. ASSUME NEW kind \in {"commit", "rollback"}, SendEnd(kind)
      PROVE  /\ req' \in Requests /\ status' \in Answers /\ attempt' \in Nat /\ asked' \in Nat
             /\ net' \subseteq Datagrams /\ sent' \in Nat
  BY <1>0, <1>4, EndType DEF SendEnd, Forget, TypeOK
<1>5. ASSUME NEW a \in answers, Receive(a) PROVE TypeOK'
  <2>1. a \in Answers
    BY DEF TypeOK
  <2>2. /\ atm' \in {"idle", "newpin", "completing", "again"} /\ held' \in BOOLEAN /\ invalid' \in Nat
        /\ req' \in Requests /\ status' \in Answers /\ attempt' \in Nat /\ asked' \in Nat
        /\ net' \subseteq Datagrams /\ sent' \in Nat /\ UNCHANGED bookVars
    BY <1>4, <1>5, <2>1 DEF Receive, Approve, Refuse, Rollback, TypeOK, bookVars
  <2> QED BY <1>5, <2>2 DEF Receive, TypeOK, bankVars, bookVars
<1>6. ASSUME NEW p \in {"right", "wrong"}, HandlePin(p) PROVE TypeOK'
  <2>2. /\ atm' \in {"idle", "newpin", "completing", "again"} /\ held' \in BOOLEAN /\ invalid' \in Nat
        /\ req' \in Requests /\ status' \in Answers /\ attempt' \in Nat /\ asked' \in Nat
        /\ net' \subseteq Datagrams /\ sent' \in Nat /\ UNCHANGED bookVars
    <3>1. CASE p = "right"
      BY <1>4, <1>6, <3>1 DEF HandlePin, Approve, Rollback, TypeOK, bookVars
    <3>2. CASE p # "right"
      <4>1. CASE attempt + 1 >= 3
        BY <1>4, <1>6, <3>2, <4>1 DEF HandlePin, Refuse, Rollback, TypeOK, bookVars
      <4>2. CASE ~(attempt + 1 >= 3)
        BY <1>6, <3>2, <4>2 DEF HandlePin, Refuse, TypeOK, bookVars
      <4> QED BY <4>1, <4>2
    <3> QED BY <3>1, <3>2
  <2> QED BY <1>6, <2>2 DEF HandlePin, TypeOK, bankVars, bookVars
<1>7. ASSUME Complete PROVE TypeOK'
  <2>1. CASE Commit
    <3>1. due' \in Books /\ deposited' \in [Cards -> Nat]
      <4>1. req.card \in Cards \cup {Unknown} /\ req.amount \in Nat /\ req \in Requests
        BY DEF TypeOK, Requests
      <4>2. CASE req.card \in Cards
        <5>1. Settled(due[req.card], req) \in [Accounts -> Int]
          BY <4>1, <4>2, RowType DEF TypeOK, Books
        <5>2. deposited[req.card] + req.amount \in Nat
          BY <4>1, <4>2 DEF TypeOK
        <5> QED BY <2>1, <4>2, <5>1, <5>2 DEF Commit, Settle, TypeOK, Books
      <4>3. CASE req.card \notin Cards
        <5>1. due' = due /\ deposited' = deposited
          BY <2>1, <4>3 DEF Commit, Settle, TypeOK, Books
        <5> QED BY <5>1 DEF TypeOK
      <4> QED BY <4>2, <4>3
    <3>2. mach' \in Nat
      BY <1>7, <2>1 DEF Complete, Withdraw, Deposit, TypeOK, Requests, Rollback, Commit
    <3> QED BY <1>4, <1>7, <2>1, <3>1, <3>2 DEF Complete, Commit, TypeOK, bankVars
  <2>2. CASE Rollback("again") /\ UNCHANGED mach
    BY <1>4, <1>7, <2>2 DEF Complete, Rollback, TypeOK, bookVars, bankVars
  <2> QED BY <1>7, <2>1, <2>2 DEF Complete, Withdraw, Deposit
<1>8. CASE Stop
  <2>1. /\ req' \in Requests /\ status' \in Answers /\ attempt' \in Nat /\ asked' \in Nat
    BY <1>0, <1>8 DEF Stop, Forget
  <2>2. faults' \in Nat /\ disturbed' \in BOOLEAN
    BY <1>8 DEF Stop, Fault, TypeOK
  <2> QED BY <1>8, <2>1, <2>2 DEF Stop, TypeOK, bookVars, bankVars
<1>9. ASSUME NEW d \in net, Arrives(d)
      PROVE  net' \subseteq Datagrams /\ faults' \in Nat /\ disturbed' \in BOOLEAN
  BY <1>9 DEF Arrives, Fault, TypeOK
<1>10. ASSUME NEW d \in net, Process(d) PROVE TypeOK'
  <2>1. d.sock \in Nat /\ d.no \in Nat /\ d.req \in Requests
    BY <1>10, DatagramType DEF Process, TypeOK
  <2>2. Answer(d) \in Answers
    BY <2>1 DEF Answer, Answers, Approved
  <2>3. ASSUME d.req.card \in Cards
        PROVE  [CA EXCEPT ![d.req.card] = Updated(@, d.req)] \in Books
    <3>1. CA[d.req.card] \in [Accounts -> Int]
      BY <2>3 DEF TypeOK, Books
    <3>2. Updated(CA[d.req.card], d.req) \in [Accounts -> Int]
      BY <2>1, <3>1, RowType
    <3> QED BY <3>2 DEF TypeOK, Books
  <2>4. CA' \in Books /\ answers' \subseteq Answers
    BY <1>10, <2>2, <2>3 DEF Process, TypeOK
  <2> QED BY <1>9, <1>10, <2>4 DEF Process, TypeOK, userVars, transVars, bookVars
<1>11. ASSUME NEW d \in net, End(d) PROVE TypeOK'
  BY <1>9, <1>11 DEF End, TypeOK, userVars, transVars, bookVars
<1>12. CASE BankRestart
  BY <1>12 DEF BankRestart, Fault, TypeOK, userVars, transVars, bookVars
<1>13. CASE Lose
  <2>1. faults' \in Nat
    BY <1>13 DEF Lose, Fault, TypeOK
  <2>2. net' \subseteq net /\ answers' \subseteq answers /\ disturbed' \in BOOLEAN
    BY <1>13 DEF Lose, TypeOK
  <2>3. UNCHANGED <<atm, userVars, transVars, bookVars, bankVars, sent>>
    BY <1>13 DEF Lose
  <2> QED BY <2>1, <2>2, <2>3 DEF TypeOK, userVars, transVars, bookVars, bankVars
<1> QED BY <1>1, <1>2, <1>3, <1>5, <1>6, <1>7, <1>8, <1>10, <1>11, <1>12, <1>13
     DEF Next, Machine, Bank
-----------------------------------------------------------------------------
(* What a commit or rollback adds to the net. *)
LEMMA EndSent ==
  ASSUME TypeOK, NEW kind \in {"commit", "rollback"}, SendEnd(kind)
  PROVE  /\ Asked' = Asked
         /\ Ends' = Ends \cup {[kind |-> kind, no |-> sent + 1]}
         /\ sent' = sent + 1
BY DEF SendEnd, Asked, Ends

LEMMA InitNumbered == Init => Numbered
BY DEF Init, Numbered, Asked, InTransaction

LEMMA NextNumbered == TypeOK /\ Numbered /\ [Next]_vars => Numbered'
<1> SUFFICES ASSUME TypeOK, Numbered, [Next]_vars PROVE Numbered'
  OBVIOUS
<1> DEFINE Net == /\ \A d \in net : d.no <= sent
                  /\ \A d \in Asked : d.sock = d.no /\ Sound(d.req)
           Ans == \A a \in answers : a.sock = a.no /\ a.no <= sent
           Trans == InTransaction => sockfd = asked /\ asked <= sent /\ Sound(req)
<1>1. CASE UNCHANGED vars
  BY <1>1 DEF Numbered, Asked, InTransaction, vars, userVars, transVars, bookVars, bankVars, netVars
<1>2. CASE Session
  BY <1>2 DEF Session, Dialogue, Numbered, Asked, InTransaction, transVars, netVars
<1>3. ASSUME NEW o \in Orders, BankSend(o) PROVE Numbered'
  <2> DEFINE new == [kind |-> "process", no |-> sent + 1, sock |-> Socket, req |-> Request(o)]
  <2>1. /\ net' = net \cup {new} /\ sent' = sent + 1 /\ sent \in Nat
        /\ sockfd' = sent + 1 /\ asked' = sent + 1 /\ req' = Request(o)
        /\ answers' \subseteq answers
    BY <1>3 DEF BankSend, Socket, TypeOK
  <2>2. new.sock = new.no /\ new.no = sent + 1 /\ Sound(new.req)
    BY OrderType DEF Socket
  <2>3. \A d \in net : d.no \in Nat
    BY DatagramType DEF TypeOK
  <2>4. \A a \in answers : a.no \in Nat
    BY DEF TypeOK, Answers
  <2>5. Net'
    BY <2>1, <2>2, <2>3 DEF Numbered, Asked
  <2>6. Ans'
    BY <2>1, <2>4 DEF Numbered
  <2>7. Trans'
    BY <2>1, OrderType DEF InTransaction
  <2> QED BY <2>5, <2>6, <2>7 DEF Numbered
<1>4. ASSUME Asked' = Asked, sent' = sent + 1 \/ sent' = sent,
             \A d \in net' \ net : d.no <= sent',
             answers' \subseteq answers
      PROVE  Net' /\ Ans'
  <2>1. sent \in Nat
    BY DEF TypeOK
  <2>2. \A d \in net : d.no \in Nat
    BY DatagramType DEF TypeOK
  <2>3. \A a \in answers : a.no \in Nat
    BY DEF TypeOK, Answers
  <2> QED BY <1>4, <2>1, <2>2, <2>3 DEF Numbered
<1>5. ASSUME NEW kind \in {"commit", "rollback"}, SendEnd(kind), answers' \subseteq answers
      PROVE  Net' /\ Ans'
  BY <1>4, <1>5, EndSent DEF SendEnd, TypeOK
<1>6. ASSUME UNCHANGED <<net, sent>>, answers' \subseteq answers
      PROVE  Net' /\ Ans'
  BY <1>6 DEF Numbered, Asked
<1>7. ASSUME NEW a \in answers, Receive(a) PROVE Numbered'
  <2>1. Net' /\ Ans'
    BY <1>5, <1>6, <1>7 DEF Receive, Approve, Refuse, Rollback
  <2>2. Trans'
    BY <1>7 DEF Receive, Approve, Refuse, Rollback, Numbered, InTransaction
  <2> QED BY <2>1, <2>2 DEF Numbered
<1>8. ASSUME NEW p \in {"right", "wrong"}, HandlePin(p) PROVE Numbered'
  <2>1. Net' /\ Ans'
    BY <1>5, <1>6, <1>8 DEF HandlePin, Approve, Refuse, Rollback
  <2>2. Trans'
    BY <1>8 DEF HandlePin, Approve, Refuse, Rollback, Numbered, InTransaction
  <2> QED BY <2>1, <2>2 DEF Numbered
<1>9. CASE Complete
  <2>1. PICK kind \in {"commit", "rollback"} : SendEnd(kind) /\ atm' = "again"
    BY <1>9 DEF Complete, Withdraw, Deposit, Commit, Rollback
  <2>2. Net' /\ Ans'
    BY <1>5, <1>9, <2>1 DEF Complete
  <2> QED BY <2>1, <2>2 DEF Numbered, InTransaction
<1>10. CASE Stop
  BY <1>10 DEF Stop, Numbered, Asked, InTransaction
<1>11. ASSUME net' \subseteq net, UNCHANGED <<atm, transVars, sent>>,
              \A a \in answers' : a \in answers \/ (a.sock = a.no /\ a.no <= sent)
       PROVE  Numbered'
  BY <1>11 DEF Numbered, Asked, InTransaction, transVars
<1>12. ASSUME NEW d \in net, Process(d) PROVE Numbered'
  <2>1. d \in Asked /\ d.sock = d.no /\ d.no <= sent
    BY <1>12 DEF Process, Asked, Numbered
  <2>2. Answer(d).sock = d.sock /\ Answer(d).no = d.no
    BY DEF Answer
  <2>3. net' \subseteq net /\ UNCHANGED <<atm, transVars, sent>>
    BY <1>12 DEF Process, Arrives
  <2>4. answers' \subseteq answers \cup {Answer(d)}
    BY <1>12 DEF Process
  <2> QED BY <1>11, <2>1, <2>2, <2>3, <2>4
<1>13. ASSUME NEW d \in net, End(d) PROVE Numbered'
  BY <1>11, <1>13 DEF End, Arrives
<1>14. CASE BankRestart
  BY <1>11, <1>14 DEF BankRestart
<1>15. CASE Lose
  BY <1>11, <1>15 DEF Lose
<1> QED BY <1>1, <1>2, <1>3, <1>7, <1>8, <1>9, <1>10, <1>12, <1>13, <1>14, <1>15
     DEF Next, Machine, Bank
-----------------------------------------------------------------------------
(* A request that is approved overdraws nothing. *)
LEMMA UpdatedNat ==
  ASSUME NEW row \in [Accounts -> Int], NEW r \in Requests, Sound(r),
         \A a \in Accounts : row[a] >= 0,
         r.transaction \in {1, 2} => r.amount <= row[r.account]
  PROVE  \A a \in Accounts : Updated(row, r)[a] >= 0
<1>1. /\ r.amount \in Nat /\ r.account \in Accounts /\ r.from \in Accounts /\ r.to \in Accounts
      /\ r.transaction \in 1..4
  BY DEF Requests
<1>2. CASE r.transaction = 1
  BY <1>1, <1>2 DEF Updated
<1>3. CASE r.transaction = 2
  <2>1. r.account = r.from /\ r.from # r.to
    BY <1>1, <1>3 DEF Sound
  <2> QED BY <1>1, <1>3, <2>1 DEF Updated
<1>4. CASE r.transaction = 3
  <2>1. (IF r.account = 1 THEN 1 ELSE 2) * r.amount \in Nat
    BY <1>1
  <2> QED BY <1>1, <1>4, <2>1 DEF Updated
<1>5. CASE r.transaction = 4
  BY <1>5 DEF Updated
<1> QED BY <1>1, <1>2, <1>3, <1>4, <1>5

LEMMA InitOverdrawn == Init => NeverOverdrawn
BY ATMAssumption DEF Init, NeverOverdrawn

LEMMA NextOverdrawn == TypeOK /\ Numbered /\ NeverOverdrawn /\ [Next]_vars => NeverOverdrawn'
<1> SUFFICES ASSUME TypeOK, Numbered, NeverOverdrawn, [Next]_vars PROVE NeverOverdrawn'
  OBVIOUS
<1>1. CASE UNCHANGED bankVars
  BY <1>1 DEF NeverOverdrawn, bankVars
<1>2. ASSUME NEW d \in net, Process(d) PROVE NeverOverdrawn'
  <2> DEFINE c == d.req.card
  <2>1. d.req \in Requests /\ Sound(d.req) /\ committed' = committed
    BY <1>2, DatagramType DEF Process, TypeOK, Numbered, Asked
  <2>2. CASE c \in Cards /\ Approved(d.req)
    <3>1. CA[c] \in [Accounts -> Int]
      BY <2>2 DEF TypeOK, Books
    <3>2. \A a \in Accounts : Updated(CA[c], d.req)[a] >= 0
      BY <2>1, <2>2, <3>1, UpdatedNat DEF Approved, NeverOverdrawn
    <3>3. CA' = [CA EXCEPT ![c] = Updated(CA[c], d.req)]
      BY <1>2, <2>2 DEF Process
    <3> QED BY <2>1, <2>2, <3>2, <3>3 DEF NeverOverdrawn, TypeOK, Books
  <2>3. CASE ~(c \in Cards /\ Approved(d.req))
    <3>1. CA' = CA
      BY <1>2, <2>3 DEF Process
    <3> QED BY <2>1, <3>1 DEF NeverOverdrawn
  <2> QED BY <2>2, <2>3
<1>3. ASSUME NEW d \in net, End(d) PROVE NeverOverdrawn'
  BY <1>3 DEF End, NeverOverdrawn
<1>4. CASE BankRestart
  BY <1>4 DEF BankRestart, NeverOverdrawn
<1>5. CASE Machine \/ Lose \/ UNCHANGED vars
  <2>1. UNCHANGED bankVars
    BY <1>5 DEF Machine, Session, Complete, Stop, BankSend, Receive, HandlePin, Lose, vars
  <2> QED BY <1>1, <2>1
<1> QED BY <1>2, <1>3, <1>4, <1>5 DEF Next, Bank
-----------------------------------------------------------------------------
LEMMA InitOwn == Init => Own
BY DEF Init, Own

LEMMA NextOwn == TypeOK /\ Numbered /\ Own /\ [Next]_vars => Own'
<1> SUFFICES ASSUME TypeOK, Numbered, Own, [Next]_vars PROVE Own'
  OBVIOUS
<1>1. ASSUME atm' \in {"off", "idle", "choosing", "again"} PROVE Own'
  BY <1>1 DEF Own
<1>2. CASE UNCHANGED vars
  BY <1>2 DEF Own, Asked, vars, userVars, transVars, bookVars, bankVars, netVars
<1>3. CASE Session
  BY <1>1, <1>3 DEF Session, Dialogue
<1>4. ASSUME NEW o \in Orders, BankSend(o) PROVE Own'
  <2> DEFINE new == [kind |-> "process", no |-> sent + 1, sock |-> Socket, req |-> Request(o)]
  <2>1. /\ net' = net \cup {new} /\ asked' = sent + 1 /\ req' = Request(o) /\ atm' = "receive"
        /\ answers' = {a \in answers : a.sock = sent + 1} /\ UNCHANGED <<card, pin>>
    BY <1>4 DEF BankSend, Socket, userVars
  <2>2. sent \in Nat /\ (\A d \in net : d.no \in Nat) /\ \A a \in answers : a.no \in Nat
    BY DatagramType DEF TypeOK, Answers
  <2>3. answers' = {}
    BY <2>1, <2>2 DEF Numbered
  <2>4. \A d \in Asked' : d.no = asked' => d.req = req'
    BY <2>1, <2>2 DEF Numbered, Asked
  <2>5. req'.pin = pin'
    BY <2>1 DEF Request
  <2> QED BY <2>1, <2>3, <2>4, <2>5 DEF Own
<1>5. ASSUME NEW a \in answers, Receive(a) PROVE Own'
  <2>1. a.no = asked /\ a.pinStatus = (pin = "right") /\ req.card \in Cards /\ pin' = pin
    BY <1>5 DEF Receive, Numbered, Own, InTransaction
  <2>2. CASE atm' \in {"idle", "again"}
    BY <1>1, <2>2
  <2>3. CASE atm' = "completing" /\ a.pinStatus /\ a.approved /\ status' = a /\ UNCHANGED <<req, asked>>
    BY <2>1, <2>3 DEF Own
  <2>4. CASE atm' = "newpin" /\ status' = a /\ UNCHANGED <<req, asked>>
    BY <2>1, <2>4 DEF Own
  <2> QED BY <1>5, <2>2, <2>3, <2>4 DEF Receive, Approve, Refuse, Rollback
<1>6. ASSUME NEW p \in {"right", "wrong"}, HandlePin(p) PROVE Own'
  <2>1. status.no = asked /\ req.card \in Cards /\ pin' = p
    BY <1>6 DEF HandlePin, Own
  <2>2. CASE atm' \in {"idle", "again"}
    BY <1>1, <2>2
  <2>3. CASE p = "right" /\ atm' = "completing" /\ status.approved /\ UNCHANGED <<status, req, asked>>
    BY <2>1, <2>3 DEF Own
  <2>4. CASE atm' = "newpin" /\ UNCHANGED <<status, req, asked>>
    BY <2>1, <2>4 DEF Own
  <2> QED BY <1>6, <2>2, <2>3, <2>4 DEF HandlePin, Approve, Refuse, Rollback
<1>7. CASE Complete
  BY <1>1, <1>7 DEF Complete, Withdraw, Deposit, Commit, Rollback
<1>8. CASE Stop
  BY <1>1, <1>8 DEF Stop
<1>9. ASSUME net' \subseteq net, UNCHANGED <<atm, userVars, transVars>>,
             \A a \in answers' : a \in answers \/
               (atm = "receive" /\ a.no = asked => a.pinStatus = (pin = "right") /\ req.card \in Cards)
      PROVE  Own'
  BY <1>9 DEF Own, Asked, userVars, transVars
<1>10. ASSUME NEW d \in net, Process(d) PROVE Own'
  <2>1. net' \subseteq net /\ UNCHANGED <<atm, userVars, transVars>> /\ d \in Asked
    BY <1>10 DEF Process, Arrives, Asked
  <2>2. answers' = answers \/ (d.req.card \in Cards /\ answers' \subseteq answers \cup {Answer(d)})
    BY <1>10 DEF Process
  <2>3. atm = "receive" /\ d.no = asked => d.req = req /\ req.pin = pin
    BY <2>1 DEF Own
  <2>4. Answer(d).no = d.no /\ Answer(d).pinStatus = (d.req.pin = "right")
    BY DEF Answer
  <2> QED BY <1>9, <2>1, <2>2, <2>3, <2>4
<1>11. ASSUME NEW d \in net, End(d) PROVE Own'
  BY <1>9, <1>11 DEF End, Arrives
<1>12. CASE BankRestart
  BY <1>9, <1>12 DEF BankRestart
<1>13. CASE Lose
  BY <1>9, <1>13 DEF Lose
<1> QED BY <1>2, <1>3, <1>4, <1>5, <1>6, <1>7, <1>8, <1>10, <1>11, <1>12, <1>13
     DEF Next, Machine, Bank
-----------------------------------------------------------------------------
LEMMA InitTries == Init => Tries
BY DEF Init, Tries

LEMMA NextTries == TypeOK /\ Numbered /\ Own /\ Tries /\ [Next]_vars => Tries'
<1> SUFFICES ASSUME TypeOK, Numbered, Own, Tries, [Next]_vars PROVE Tries'
  OBVIOUS
<1>1. CASE UNCHANGED vars \/ Bank \/ Lose
  <2>1. UNCHANGED <<atm, userVars, transVars>>
    BY <1>1 DEF vars, Bank, Process, End, BankRestart, Lose
  <2> QED BY <2>1 DEF Tries, userVars, transVars
<1>2. CASE Session
  <2>1. CASE UNCHANGED userVars
    BY <1>2, <2>1 DEF Session, Dialogue, Tries, userVars
  <2>2. CASE ~UNCHANGED userVars
    BY <1>2, <2>2 DEF Session, Dialogue, Tries, userVars
  <2> QED BY <2>1, <2>2
<1>3. ASSUME NEW o \in Orders, BankSend(o) PROVE Tries'
  BY <1>3 DEF BankSend, Tries, userVars
<1>4. ASSUME NEW a \in answers, Receive(a) PROVE Tries'
  <2>1. a.pinStatus = (pin = "right") /\ pin' = pin /\ atm = "receive"
    BY <1>4 DEF Receive, Numbered, Own, InTransaction
  <2>2. CASE a.pinStatus
    BY <1>4, <2>1, <2>2 DEF Receive, Approve, Rollback, Tries
  <2>3. CASE ~a.pinStatus
    <3>1. invalid = 0 /\ ~held
      BY <2>1, <2>3 DEF Tries
    <3> QED BY <1>4, <2>3, <3>1 DEF Receive, Refuse, Tries
  <2> QED BY <2>2, <2>3
<1>5. ASSUME NEW p \in {"right", "wrong"}, HandlePin(p) PROVE Tries'
  <2>1. invalid = attempt /\ attempt \in 1..2 /\ ~held /\ pin' = p
    BY <1>5 DEF HandlePin, Tries
  <2>2. CASE p = "right"
    BY <1>5, <2>1, <2>2 DEF HandlePin, Approve, Rollback, Tries
  <2>3. CASE p # "right"
    BY <1>5, <2>1, <2>3 DEF HandlePin, Refuse, Rollback, Tries
  <2> QED BY <2>2, <2>3
<1>6. CASE Complete
  <2>1. atm = "completing" /\ atm' = "again" /\ UNCHANGED <<pin, invalid, held>>
    BY <1>6 DEF Complete, Withdraw, Deposit, Commit, Rollback
  <2> QED BY <2>1 DEF Tries
<1>7. CASE Stop
  BY <1>7 DEF Stop, Tries
<1> QED BY <1>1, <1>2, <1>3, <1>4, <1>5, <1>6, <1>7 DEF Next, Machine
-----------------------------------------------------------------------------
(* Completing a request adds to what is owed what carrying it out adds to  *)
(* the table: a deposit in savings, twice.                                 *)
LEMMA OwedAfter ==
  ASSUME TypeOK, req.card \in Cards, committed = Owed, Settle(req)
  PROVE  Owed' = After(req)
<1>1. /\ req.amount \in Nat /\ req.account \in Accounts /\ req.from \in Accounts /\ req.to \in Accounts
      /\ req.transaction \in 1..4
  BY DEF TypeOK, Requests
<1> DEFINE c == req.card
<1>2. due[c] \in [Accounts -> Int] /\ deposited[c] \in Nat
  BY DEF TypeOK, Books
<1>3. /\ due' = [due EXCEPT ![c] = Settled(due[c], req)]
      /\ deposited' = IF req.transaction = 3 /\ req.account = 2
                        THEN [deposited EXCEPT ![c] = deposited[c] + req.amount] ELSE deposited
  BY DEF Settle
<1>4. committed[c] = [a \in Accounts |-> IF a = 1 THEN due[c][a] ELSE due[c][a] + deposited[c]]
  BY DEF Owed
<1>5. Owed'[c] = [a \in Accounts |-> IF a = 1 THEN due'[c][a] ELSE due'[c][a] + deposited'[c]]
  BY DEF Owed
<1>6. due'[c] = Settled(due[c], req)
  BY <1>3 DEF TypeOK, Books
<1>7. deposited'[c] = IF req.transaction = 3 /\ req.account = 2
                        THEN deposited[c] + req.amount ELSE deposited[c]
  BY <1>3 DEF TypeOK
<1>8. Owed'[c] = Updated(committed[c], req)
  <2>1. CASE req.transaction = 1
    BY <1>1, <1>2, <1>4, <1>5, <1>6, <1>7, <2>1 DEF Settled, Updated
  <2>2. CASE req.transaction = 2
    BY <1>1, <1>2, <1>4, <1>5, <1>6, <1>7, <2>2 DEF Settled, Updated
  <2>3. CASE req.transaction = 3
    BY <1>1, <1>2, <1>4, <1>5, <1>6, <1>7, <2>3 DEF Settled, Updated
  <2>4. CASE req.transaction = 4
    BY <1>1, <1>2, <1>4, <1>5, <1>6, <1>7, <2>4 DEF Settled, Updated
  <2> QED BY <1>1, <2>1, <2>2, <2>3, <2>4
<1>9. ASSUME NEW b \in Cards, b # c PROVE Owed'[b] = Owed[b]
  <2>1. due'[b] = due[b] /\ deposited'[b] = deposited[b]
    BY <1>3, <1>9 DEF TypeOK, Books
  <2> QED BY <1>9, <2>1 DEF Owed
<1>10. Owed' = [b \in Cards |-> IF b = c THEN Updated(committed[c], req) ELSE committed[b]]
  <2>1. Owed' = [b \in Cards |-> Owed'[b]]
    BY DEF Owed
  <2> QED BY <1>8, <1>9, <2>1
<1>11. After(req) = [b \in Cards |-> IF b = c THEN Updated(committed[c], req) ELSE committed[b]]
  BY DEF After, TypeOK, Books
<1> QED BY <1>10, <1>11

LEMMA InitOrder == Init => Order
<1> SUFFICES ASSUME Init PROVE Order
  OBVIOUS
<1>1. due = Owed
  BY ATMAssumption DEF Init, Owed
<1> QED BY <1>1 DEF Init, Order, Asked, Ends, InTransaction

LEMMA NextOrder == TypeOK /\ Numbered /\ Own /\ Order /\ [Next]_vars => Order'
<1> SUFFICES ASSUME TypeOK, Numbered, Own, Order, [Next]_vars, ~disturbed' PROVE Order'
  BY DEF Order
<1>0. ASSUME UNCHANGED bookVars PROVE Owed' = Owed
  BY <1>0 DEF Owed, bookVars
<1>1. CASE UNCHANGED vars
  BY <1>0, <1>1 DEF Order, Asked, Ends, InTransaction, After,
                    vars, userVars, transVars, bookVars, bankVars, netVars
<1>2. CASE Session
  <2>1. UNCHANGED <<transVars, bookVars, bankVars, netVars, disturbed>> /\ ~InTransaction /\ ~InTransaction'
    BY <1>2 DEF Session, Dialogue, InTransaction
  <2> QED BY <1>0, <2>1 DEF Order, Asked, Ends, InTransaction, transVars, bankVars, netVars
<1>3. ASSUME NEW o \in Orders, BankSend(o) PROVE Order'
  <2> DEFINE new == [kind |-> "process", no |-> sent + 1, sock |-> Socket, req |-> Request(o)]
  <2>1. /\ net' = net \cup {new} /\ asked' = sent + 1 /\ atm = "choosing" /\ atm' = "receive"
        /\ answers' = {a \in answers : a.sock = sent + 1}
        /\ UNCHANGED <<bookVars, bankVars, disturbed>>
    BY <1>3 DEF BankSend, Socket
  <2>2. sent \in Nat /\ (\A d \in net : d.no \in Nat) /\ \A a \in answers : a.no \in Nat
    BY DatagramType DEF TypeOK, Answers
  <2>3. answers' = {} /\ \A e \in Ends : e.no < sent + 1
    BY <2>1, <2>2 DEF Numbered, Ends
  <2>4. Asked = {} /\ ~disturbed
    BY <2>1 DEF Order
  <2>5. Asked' = {new} /\ Ends' = Ends
    BY <2>1, <2>4 DEF Asked, Ends
  <2>6. new.no = asked'
    BY <2>1
  <2>7. Ends = {} => CA = committed
    BY <2>1, <2>4 DEF Order, InTransaction
  <2> QED BY <1>0, <2>1, <2>3, <2>4, <2>5, <2>6, <2>7 DEF Order, bankVars
<1>4. ASSUME net = {}, committed = Owed, Rollback("again") \/ Rollback("idle"),
             UNCHANGED <<bankVars, disturbed>>
      PROVE  Order'
  <2>1. Asked = {} /\ Ends = {}
    BY <1>4 DEF Asked, Ends
  <2> DEFINE end == [kind |-> "rollback", no |-> sent + 1]
  <2>2. Asked' = {} /\ Ends' = {end} /\ atm' \in {"again", "idle"} /\ UNCHANGED bookVars
    BY <1>4, <2>1, EndSent DEF Rollback
  <2>3. end.kind # "commit"
    OBVIOUS
  <2>4. committed' = Owed'
    BY <1>0, <1>4, <2>2 DEF bankVars
  <2> HIDE DEF end
  <2> QED BY <2>2, <2>3, <2>4 DEF Order
<1>5. ASSUME net = {}, committed = Owed, UNCHANGED <<net, req, bookVars, bankVars, disturbed>>,
             atm' \in {"newpin", "completing"},
             CA = IF status'.approved THEN After(req) ELSE committed
      PROVE  Order'
  <2>1. Asked' = {} /\ Ends' = {} /\ InTransaction'
    BY <1>5 DEF Asked, Ends, InTransaction
  <2>2. After(req)' = After(req)
    BY <1>5 DEF After, bankVars
  <2> QED BY <1>0, <1>5, <2>1, <2>2 DEF Order, bankVars
<1>6. ASSUME net = {}, ~disturbed PROVE committed = Owed
  BY <1>6 DEF Order, Ends
<1>7. ASSUME NEW a \in answers, Receive(a) PROVE Order'
  <2>1. /\ net = {} /\ committed = Owed /\ UNCHANGED <<bankVars, disturbed>>
        /\ CA = IF a.approved THEN After(req) ELSE committed
    BY <1>6, <1>7 DEF Receive, Order
  <2>2. CASE Rollback("again") \/ Rollback("idle")
    BY <1>4, <2>1, <2>2
  <2>3. CASE /\ atm' \in {"newpin", "completing"} /\ status' = a
             /\ UNCHANGED <<net, bookVars, req>>
    BY <1>5, <2>1, <2>3
  <2> QED BY <1>7, <2>2, <2>3 DEF Receive, Approve, Refuse
<1>8. ASSUME NEW p \in {"right", "wrong"}, HandlePin(p) PROVE Order'
  <2>1. /\ net = {} /\ committed = Owed /\ UNCHANGED <<bankVars, disturbed>>
        /\ CA = IF status.approved THEN After(req) ELSE committed
    BY <1>6, <1>8 DEF HandlePin, Order
  <2>2. CASE Rollback("again") \/ Rollback("idle")
    BY <1>4, <2>1, <2>2
  <2>3. CASE /\ atm' \in {"newpin", "completing"} /\ status' = status
             /\ UNCHANGED <<net, bookVars, req>>
    BY <1>5, <2>1, <2>3
  <2> QED BY <1>8, <2>2, <2>3 DEF HandlePin, Approve, Refuse
<1>9. CASE Complete
  <2>1. /\ net = {} /\ committed = Owed /\ UNCHANGED <<bankVars, disturbed>>
        /\ CA = After(req) /\ req.card \in Cards
    BY <1>6, <1>9 DEF Complete, Order, Own
  <2>2. CASE Rollback("again")
    BY <1>4, <2>1, <2>2
  <2>3. CASE Commit
    <3>1. Asked = {} /\ Ends = {}
      BY <2>1 DEF Asked, Ends
    <3>2. Asked' = {} /\ Ends' = {[kind |-> "commit", no |-> sent + 1]} /\ atm' = "again"
      BY <2>3, <3>1, EndSent DEF Commit
    <3>3. Owed' = CA'
      BY <2>1, <2>3, OwedAfter DEF Commit, bankVars
    <3> QED BY <3>2, <3>3 DEF Order
  <2> QED BY <1>9, <2>2, <2>3 DEF Complete, Withdraw, Deposit
<1>10. CASE Stop
  <2>1. /\ atm' = "off" /\ UNCHANGED <<bookVars, bankVars, net>>
        /\ ~disturbed /\ (InTransaction => CA = committed /\ net = {})
    BY <1>10 DEF Stop
  <2>2. Asked = {} /\ (Ends = {} => CA = committed)
    BY <2>1 DEF Order, InTransaction, Asked
  <2>3. Asked' = {} /\ Ends' = Ends
    BY <2>1, <2>2 DEF Asked, Ends
  <2> QED BY <1>0, <2>1, <2>2, <2>3 DEF Order, bankVars
<1>11. ASSUME NEW d \in net, Arrives(d)
       PROVE  ~disturbed /\ net' = net \ {d} /\ \A e \in net : ~(e.no < d.no)
  BY <1>11 DEF Arrives
<1>12. ASSUME NEW d \in net, Process(d) PROVE Order'
  <2>1. d \in Asked /\ ~disturbed /\ net' = net \ {d} /\ \A e \in net : ~(e.no < d.no)
    BY <1>11, <1>12 DEF Process, Asked
  <2>2. /\ atm = "receive" /\ d.no = asked /\ d.req = req /\ d.sock = sockfd
        /\ Ends = {} /\ CA = committed /\ answers = {}
    <3>1. atm = "receive" /\ d.no = asked /\ d.req = req /\ d.sock = sockfd
      BY <2>1 DEF Order, Own, Numbered, InTransaction
    <3>2. Ends = {}
      BY <2>1 DEF Order, Ends
    <3>3. CA = committed
      BY <2>1, <3>2 DEF Order
    <3>4. answers = {}
      BY <2>1, <3>1 DEF Order
    <3> QED BY <3>1, <3>2, <3>3, <3>4
  <2>3. ASSUME NEW e \in net PROVE e = d
    <3>1. e \in Asked /\ d \in Asked
      BY <2>1, <2>2 DEF Asked, Ends
    <3>2. e.no = d.no /\ e.sock = d.sock /\ e.req = d.req
      BY <2>1, <2>2, <3>1 DEF Order, Own, Numbered
    <3>3. /\ e \in [kind : {"process"}, no : Nat, sock : Nat, req : Requests]
          /\ d \in [kind : {"process"}, no : Nat, sock : Nat, req : Requests]
      BY <3>1 DEF TypeOK, Datagrams, Asked
    <3> QED BY <3>2, <3>3
  <2>4. net' = {} /\ Asked' = {} /\ Ends' = {}
    BY <2>1, <2>3 DEF Asked, Ends
  <2>5. UNCHANGED <<atm, userVars, transVars, bookVars, committed>>
    BY <1>12 DEF Process
  <2>6. InTransaction' /\ atm' = "receive" /\ committed = Owed /\ After(req)' = After(req)
    BY <2>1, <2>2, <2>5 DEF InTransaction, Order, After, transVars
  <2>7. \A a \in answers' : CA' = IF a.approved THEN After(req) ELSE committed
    <3>1. CASE d.req.card \in Cards
      <4>1. answers' = {Answer(d)} /\ Answer(d).approved = Approved(req)
        BY <1>12, <2>2, <3>1 DEF Process, Answer
      <4>2. CA' = IF Approved(req) THEN After(req) ELSE committed
        BY <1>12, <2>2, <3>1 DEF Process, After
      <4> QED BY <4>1, <4>2
    <3>2. CASE d.req.card \notin Cards
      BY <1>12, <2>2, <3>2 DEF Process
    <3> QED BY <3>1, <3>2
  <2> QED BY <1>0, <2>4, <2>5, <2>6, <2>7 DEF Order
<1>13. ASSUME NEW d \in net, End(d) PROVE Order'
  <2>1. d \in Ends /\ ~disturbed /\ net' = net \ {d} /\ UNCHANGED <<atm, transVars, bookVars, answers>>
    BY <1>11, <1>13 DEF End, Ends
  <2>2. \A e \in Ends : e = d
    BY <2>1 DEF Order
  <2>3. Ends' = {} /\ Asked' = Asked
    BY <2>1, <2>2 DEF Ends, Asked
  <2>4. CA' = Owed /\ committed' = Owed
    <3>1. CASE d.kind = "commit"
      BY <1>13, <2>1, <3>1 DEF End, Order
    <3>2. CASE d.kind # "commit"
      BY <1>13, <2>1, <2>2, <3>2 DEF End, Order
    <3> QED BY <3>1, <3>2
  <2>5. atm \notin {"newpin", "completing"} /\ (atm = "receive" => answers = {})
    BY <2>1 DEF Order
  <2>6. \A e \in Asked : atm = "receive" /\ e.no = asked
    BY <2>1 DEF Order
  <2> QED BY <1>0, <2>1, <2>3, <2>4, <2>5, <2>6 DEF Order, transVars
<1>14. CASE BankRestart
  <2>1. /\ net' \subseteq net /\ CA' = CA /\ committed' = committed /\ CA = committed /\ ~disturbed
        /\ UNCHANGED <<atm, transVars, bookVars, answers>>
    BY <1>14 DEF BankRestart
  <2>2. Ends' \subseteq Ends /\ Asked' \subseteq Asked
    BY <2>1 DEF Ends, Asked
  <2>3. committed' = Owed' /\ CA' = Owed'
    <3>1. committed = Owed
      BY <2>1 DEF Order
    <3> QED BY <1>0, <2>1, <3>1
  <2>4. After(req)' = After(req)
    BY <2>1 DEF After, transVars
  <2>5. atm' = atm /\ asked' = asked /\ status' = status /\ answers' = answers
    BY <2>1 DEF transVars
  <2>6. (\A d, e \in Ends' : d = e) /\ \A d \in Asked' : atm' = "receive" /\ d.no = asked' /\ \A e \in Ends' : e.no < d.no
    BY <2>1, <2>2, <2>5 DEF Order
  <2>7. atm' = "receive" /\ answers' # {} =>
          net' = {} /\ \A a \in answers' : CA' = IF a.approved THEN After(req)' ELSE committed'
    BY <2>1, <2>4, <2>5 DEF Order
  <2>8. atm' \in {"newpin", "completing"} =>
          net' = {} /\ CA' = IF status'.approved THEN After(req)' ELSE committed'
    BY <2>1, <2>4, <2>5 DEF Order
  <2> QED BY <2>3, <2>6, <2>7, <2>8 DEF Order
<1>15. CASE Lose
  <2>0. UNCHANGED <<atm, transVars, bookVars, bankVars>>
    BY <1>15 DEF Lose
  <2>1. net' \subseteq net /\ answers' \subseteq answers /\ ~disturbed /\ Ends' = Ends /\ Asked' \subseteq Asked
    <3>1. ASSUME NEW d \in net, net' = net \ {d}, disturbed' = (disturbed \/ d.kind # "process"),
                 answers' = answers
          PROVE  net' \subseteq net /\ answers' \subseteq answers /\ ~disturbed /\ Ends' = Ends /\ Asked' \subseteq Asked
      BY <3>1 DEF Ends, Asked
    <3>2. CASE answers' \subseteq answers /\ UNCHANGED <<net, disturbed>>
      BY <3>2 DEF Ends, Asked
    <3> QED BY <1>15, <3>1, <3>2 DEF Lose
  <2>3. After(req)' = After(req) /\ Owed' = Owed /\ (InTransaction' <=> InTransaction)
    BY <1>0, <2>0 DEF After, transVars, bankVars, InTransaction
  <2>4. CA' = CA /\ committed' = committed /\ req' = req /\ asked' = asked /\ status' = status /\ atm' = atm
    BY <2>0 DEF transVars, bankVars
  <2> QED BY <2>1, <2>3, <2>4 DEF Order
<1> QED BY <1>1, <1>2, <1>3, <1>7, <1>8, <1>9, <1>10, <1>12, <1>13, <1>14, <1>15
     DEF Next, Machine, Bank
-----------------------------------------------------------------------------
LEMMA AlwaysNumbered == Spec => [](TypeOK /\ Numbered)
<1>1. Init => TypeOK /\ Numbered
  BY InitType, InitNumbered
<1>2. TypeOK /\ Numbered /\ [Next]_vars => (TypeOK /\ Numbered)'
  BY NextType, NextNumbered
<1> QED BY <1>1, <1>2, PTL DEF Spec

LEMMA AlwaysOwn == Spec => [](TypeOK /\ Numbered /\ Own)
<1>1. TypeOK /\ Numbered /\ Own /\ [Next]_vars => Own'
  BY NextOwn
<1> QED BY <1>1, AlwaysNumbered, InitOwn, PTL DEF Spec

(* Every variable keeps to its type, for any cards and amounts.            *)
THEOREM TypeCorrect == Spec => []TypeOK
BY AlwaysNumbered, PTL

(* Whatever happens to the datagrams, to the machine and to the bank, and  *)
(* however many requests there are: bank.cc never lets an account fall     *)
(* below zero, because the account it tests is the one it takes from.      *)
THEOREM NothingOverdrawn == Spec => []NeverOverdrawn
<1>1. TypeOK /\ Numbered /\ NeverOverdrawn /\ [Next]_vars => NeverOverdrawn'
  BY NextOverdrawn
<1> QED BY <1>1, AlwaysNumbered, InitOverdrawn, PTL DEF Spec

(* A new socket for each request is enough: what the machine acts on is    *)
(* the answer to its last request, and it completes what was approved.     *)
THEOREM AnswerIsOwn == Spec => []OwnAnswer
<1>1. Own => OwnAnswer
  BY DEF Own, OwnAnswer
<1> QED BY <1>1, AlwaysOwn, PTL

(* The third wrong PIN of a session, and nothing else, holds the card, and *)
(* the session is then over, though HANDLEPIN counts per transaction.      *)
THEOREM ThreeTriesHold == Spec => []ThreeTries
<1>1. TypeOK /\ Numbered /\ Own /\ Tries /\ [Next]_vars => Tries'
  BY NextTries
<1>2. TypeOK /\ Tries => ThreeTries
  BY DEF TypeOK, Tries, ThreeTries
<1> QED BY <1>1, <1>2, AlwaysOwn, InitTries, PTL DEF Spec

(* Unless a commit or rollback was lost, a datagram overtaken or copied,   *)
(* or a program stopped with work that is not committed, the accounts are  *)
(* what the completed transactions make them.                              *)
THEOREM BooksAgree == Spec => []BooksMatch
<1>1. TypeOK /\ Numbered /\ Own /\ Order /\ [Next]_vars => Order'
  BY NextOrder
<1>2. TypeOK /\ Order => BooksMatch
  <2> DEFINE books == IF \E d \in net : d.kind = "commit" THEN CA ELSE committed
  <2> SUFFICES ASSUME TypeOK, Order, ~disturbed
               PROVE  \A c \in Cards : books[c][1] = due[c][1] /\ books[c][2] = due[c][2] + deposited[c]
    BY DEF BooksMatch
  <2>1. books = Owed
    BY DEF Order, Ends
  <2> HIDE DEF books
  <2>2. ASSUME NEW c \in Cards
        PROVE  Owed[c] = [a \in Accounts |-> IF a = 1 THEN due[c][a] ELSE due[c][a] + deposited[c]]
    BY DEF Owed
  <2>3. ASSUME NEW c \in Cards
        PROVE  Owed[c][1] = due[c][1] /\ Owed[c][2] = due[c][2] + deposited[c]
    <3> DEFINE f == [a \in Accounts |-> IF a = 1 THEN due[c][a] ELSE due[c][a] + deposited[c]]
    <3>1. f[1] = due[c][1]
      OBVIOUS
    <3>2. f[2] = due[c][2] + deposited[c]
      OBVIOUS
    <3> HIDE DEF f
    <3>3. Owed[c] = f
      BY <2>2 DEF f
    <3> QED BY <3>1, <3>2, <3>3
  <2> QED BY <2>1, <2>3
<1> QED BY <1>1, <1>2, AlwaysOwn, InitOrder, PTL DEF Spec
=============================================================================
