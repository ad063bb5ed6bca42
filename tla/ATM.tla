--------------------------------- MODULE ATM ---------------------------------
(***************************************************************************)
(* The ATM demo: the teller machine of atm.csp and atmprocs.cc, and the    *)
(* bank of bank.cc, which talk by datagrams.  The machine asks, waits for  *)
(* the answer, and ends the transaction by a commit or a rollback that     *)
(* nothing answers.  All the transactions of the bank go through one       *)
(* connection to the database: what ends at a commit is whatever has been  *)
(* done since the last one.                                                *)
(*                                                                         *)
(* Datagrams may be lost, overtaken and duplicated, either program may be  *)
(* stopped and started again, and a query may fail, which ends the bank.   *)
(* The database is modelled by what the bank asks of it.                   *)
(*                                                                         *)
(* The processes of atm.csp take turns, so where they are is one variable. *)
(* A PIN is "right" or "wrong" for the card.  Left out: the balance in the *)
(* answer, which is only displayed, and system calls that fail.            *)
(***************************************************************************)
EXTENDS Integers

CONSTANTS
  Cards,      \* the cards in the table CA
  Unknown,    \* a card that is not in it
  Amounts,    \* what the customer may ask for
  Cash,       \* what the operator may load
  Start,      \* what is in each account in the beginning
  MaxSends,   \* bound: datagrams sent before the last transaction
  MaxFaults   \* bound: stops, losses and duplicates

ASSUME ATMAssumption ==
  /\ Unknown \notin Cards
  /\ Amounts \subseteq Nat /\ Cash \subseteq Nat /\ Start \in Nat
  /\ MaxSends \in Nat /\ MaxFaults \in Nat

Accounts == 1..2   \* checking and savings

VARIABLES
  atm,        \* where the processes of the machine are
  card, pin,  \* CARD and PIN
  mach,       \* MACH, the cash in the machine
  req,        \* the request of the transaction under way
  attempt,    \* of HANDLEPIN
  sockfd,     \* the socket the machine uses, 0 before the first
  status,     \* what bankstatus has received last
  net,        \* the datagrams on their way to the bank
  answers,    \* the answers that wait at that socket
  CA,         \* the table, as the open transaction of the database has it
  committed,  \* the table, as committed
  sent,       \* the number of datagrams the machine has sent
  asked,      \* the number of the last request
  faults,     \* how many stops, losses and duplicates there were
  due,        \* what the accounts should hold: the transactions completed
  deposited,  \* per card, what was deposited in savings
  invalid,    \* how often invalidPIN has happened in the session
  held,       \* the card was held
  disturbed   \* what keeps the books from what is due may have happened

userVars == <<card, pin, mach, invalid, held>>
transVars == <<req, attempt, sockfd, status, asked>>
bookVars == <<due, deposited>>
bankVars == <<CA, committed>>
netVars == <<net, answers, sent, faults>>
vars == <<atm, userVars, transVars, bookVars, bankVars, netVars, disturbed>>

NoRequest == [transaction |-> 4, card |-> Unknown, pin |-> "wrong",
              account |-> 1, from |-> 1, to |-> 1, amount |-> 0]

NoStatus == [sock |-> 0, no |-> 0, approved |-> FALSE, pinStatus |-> FALSE]

Init ==
  /\ atm = "off" /\ card = Unknown /\ pin = "wrong" /\ mach = 0
  /\ req = NoRequest /\ attempt = 0 /\ sockfd = 0 /\ status = NoStatus
  /\ net = {} /\ answers = {} /\ sent = 0 /\ asked = 0 /\ faults = 0
  /\ CA = [c \in Cards |-> [a \in Accounts |-> Start]] /\ committed = CA
  /\ due = CA /\ deposited = [c \in Cards |-> 0]
  /\ invalid = 0 /\ held = FALSE /\ disturbed = FALSE

(* Between banksend and commit or rollback. *)
InTransaction == atm \in {"receive", "newpin", "completing"}
-----------------------------------------------------------------------------
(* What the customer may order: getacct, getfrom, getto, getamnt. *)
Orders ==
  {[transaction |-> t, account |-> a, from |-> 1, to |-> 1, amount |-> n] :
     t \in {1, 3}, a \in Accounts, n \in Amounts}
  \cup {[transaction |-> 2, account |-> 1, from |-> f, to |-> 3 - f, amount |-> n] :
     f \in Accounts, n \in Amounts}
  \cup {[transaction |-> 4, account |-> a, from |-> 1, to |-> 1, amount |-> 0] : a \in Accounts}

(* Mutant: the account of a transfer is not set. *)
RequestAsOrdered(o) ==
  [transaction |-> o.transaction, card |-> card, pin |-> pin, account |-> o.account,
   from |-> o.from, to |-> o.to, amount |-> o.amount]

(* The account of a transfer is the one the money comes from. *)
Request(o) ==
  [transaction |-> o.transaction, card |-> card, pin |-> pin,
   account |-> IF o.transaction = 2 THEN o.from ELSE o.account,
   from |-> o.from, to |-> o.to, amount |-> o.amount]

(* Mutant: the socket is created once. *)
SocketOnce == IF sockfd = 0 THEN sent + 1 ELSE sockfd

(* banksend creates a socket for each request; what comes to the one       *)
(* before is never read.                                                   *)
Socket == sent + 1

BankSend(o) ==
  /\ atm = "choosing" /\ sent < MaxSends
  /\ req' = Request(o)
  /\ sockfd' = Socket /\ asked' = sent + 1 /\ sent' = sent + 1
  /\ net' = net \cup {[kind |-> "process", no |-> sent + 1, sock |-> Socket, req |-> Request(o)]}
  /\ answers' = {a \in answers : a.sock = sockfd'}
  /\ atm' = "receive"
  /\ UNCHANGED <<userVars, attempt, status, bookVars, bankVars, faults, disturbed>>

(* What is left of a transaction is set again before it is read. *)
Forget == req' = NoRequest /\ status' = NoStatus /\ attempt' = 0 /\ asked' = 0

(* commit and rollback *)
SendEnd(kind) ==
  /\ net' = net \cup {[kind |-> kind, no |-> sent + 1]}
  /\ sent' = sent + 1
  /\ Forget

Rollback(next) == SendEnd("rollback") /\ atm' = next /\ UNCHANGED bookVars

(* What a request makes of a row that is due. *)
Settled(row, r) ==
  CASE r.transaction = 1 -> [row EXCEPT ![r.account] = @ - r.amount]
    [] r.transaction = 2 -> [row EXCEPT ![r.from] = @ - r.amount, ![r.to] = @ + r.amount]
    [] r.transaction = 3 -> [row EXCEPT ![r.account] = @ + r.amount]
    [] r.transaction = 4 -> row

Settle(r) ==
  /\ due' = [due EXCEPT ![r.card] = Settled(@, r)]
  /\ deposited' = IF r.transaction = 3 /\ r.account = 2
                    THEN [deposited EXCEPT ![r.card] = @ + r.amount]
                    ELSE deposited

Commit == SendEnd("commit") /\ atm' = "again" /\ Settle(req)
-----------------------------------------------------------------------------
(* The session: OVERALL, SESSION and the begin and end of TRANSACTION.     *)
(* A card that is bad, or taken back before the PIN, leaves it idle.       *)
Dialogue ==
  \/ atm = "off" /\ atm' = "idle" /\ mach' \in Cash /\ UNCHANGED <<card, pin, invalid, held>>
  \/ atm = "idle" /\ atm' = "off" /\ UNCHANGED userVars
  \/ /\ atm = "idle" /\ atm' = "choosing"
     /\ card' \in Cards \cup {Unknown} /\ pin' \in {"right", "wrong"}
     /\ invalid' = 0 /\ held' = FALSE /\ UNCHANGED mach
  \/ atm = "choosing" /\ atm' \in {"idle", "again"} /\ UNCHANGED userVars
  \/ atm = "again" /\ atm' \in {"idle", "choosing"} /\ UNCHANGED userVars

Session == Dialogue /\ UNCHANGED <<transVars, bookVars, bankVars, netVars, disturbed>>

(* The PIN is right: go on, if the bank has approved. *)
Approve(s) ==
  IF s.approved
    THEN atm' = "completing" /\ status' = s /\ UNCHANGED <<net, sent, bookVars, req, attempt, asked>>
    ELSE Rollback("again")

(* The PIN is wrong the n-th time: after the third the card is held and    *)
(* the session over.                                                       *)
Refuse(s, n) ==
  /\ invalid' = invalid + 1
  /\ IF n >= 3
       THEN Rollback("idle") /\ held' = TRUE
       ELSE /\ atm' = "newpin" /\ status' = s /\ attempt' = n
            /\ UNCHANGED <<net, sent, bookVars, req, asked, held>>

(* bankstatus, from the socket of the request *)
Receive(a) ==
  /\ atm = "receive" /\ a.sock = sockfd
  /\ IF a.pinStatus THEN Approve(a) /\ UNCHANGED <<invalid, held>> ELSE Refuse(a, 1)
  /\ answers' = answers \ {a}
  /\ UNCHANGED <<card, pin, mach, sockfd, bankVars, faults, disturbed>>

(* Mutant: the new PIN is not kept. *)
HandlePinNotSet(p) ==
  /\ atm = "newpin"
  /\ IF p = "right" THEN Approve(status) /\ UNCHANGED <<invalid, held>>
                    ELSE Refuse(status, attempt + 1)
  /\ UNCHANGED <<card, pin, mach, sockfd, bankVars, answers, faults, disturbed>>

(* HANDLEPIN compares a new PIN with the one in the answer. *)
HandlePin(p) ==
  /\ atm = "newpin"
  /\ pin' = p
  /\ IF p = "right" THEN Approve(status) /\ UNCHANGED <<invalid, held>>
                    ELSE Refuse(status, attempt + 1)
  /\ UNCHANGED <<card, mach, sockfd, bankVars, answers, faults, disturbed>>

(* Mutant: there is no rollback when the machine has not enough cash. *)
WithdrawNoRollback ==
  /\ req.transaction = 1
  /\ IF mach >= req.amount
       THEN Commit /\ mach' = mach - req.amount
       ELSE atm' = "again" /\ Forget /\ UNCHANGED <<net, sent, bookVars, mach>>

(* COMPLETING: a withdrawal dispenses, if there is enough cash; a deposit  *)
(* waits for an envelope, which may not come.                              *)
Withdraw ==
  /\ req.transaction = 1
  /\ IF mach >= req.amount THEN Commit /\ mach' = mach - req.amount
                           ELSE Rollback("again") /\ UNCHANGED mach

Deposit == req.transaction = 3 /\ (Commit \/ Rollback("again")) /\ UNCHANGED mach

Complete ==
  /\ atm = "completing"
  /\ \/ Withdraw
     \/ Deposit
     \/ req.transaction \in {2, 4} /\ Commit /\ UNCHANGED mach
  /\ UNCHANGED <<card, pin, invalid, held, sockfd, bankVars, answers, faults, disturbed>>

Fault == faults < MaxFaults /\ faults' = faults + 1

(* The machine is stopped, in a transaction perhaps, and started again. *)
Stop ==
  /\ atm # "off" /\ atm' = "off" /\ Fault
  /\ card' = Unknown /\ pin' = "wrong" /\ mach' = 0 /\ invalid' = 0 /\ held' = FALSE
  /\ Forget /\ sockfd' = 0 /\ answers' = {}
  /\ disturbed' = (disturbed \/ (InTransaction /\ (CA # committed \/ net # {})))
  /\ UNCHANGED <<bookVars, bankVars, net, sent>>
-----------------------------------------------------------------------------
(* A datagram comes to the bank, or a copy of it. *)
Arrives(d) ==
  /\ d \in net
  /\ \/ net' = net \ {d} /\ UNCHANGED faults
     \/ Fault /\ UNCHANGED net
  /\ disturbed' = (disturbed \/ net' = net \/ \E e \in net : e.no < d.no)

(* No overdraft. *)
Approved(r) == r.transaction \in {1, 2} => r.amount <= CA[r.card][r.account]

Answer(d) == [sock |-> d.sock, no |-> d.no,
              approved |-> Approved(d.req), pinStatus |-> d.req.pin = "right"]

(* The row after a request.  A deposit in savings is added to dbsavings  *)
(* and again in the text of the query.                                     *)
Updated(row, r) ==
  CASE r.transaction = 1 -> [row EXCEPT ![r.account] = @ - r.amount]
    [] r.transaction = 2 -> [row EXCEPT ![r.from] = @ - r.amount, ![r.to] = @ + r.amount]
    [] r.transaction = 3 -> [row EXCEPT ![r.account] = @ + (IF r.account = 1 THEN 1 ELSE 2) * r.amount]
    [] r.transaction = 4 -> row

(* A request is carried out, if it can be, whatever the PIN; one for a     *)
(* card the bank does not know has no answer.                              *)
Process(d) ==
  /\ d.kind = "process" /\ Arrives(d)
  /\ IF d.req.card \in Cards
       THEN /\ CA' = IF Approved(d.req) THEN [CA EXCEPT ![d.req.card] = Updated(@, d.req)] ELSE CA
            /\ answers' = IF d.sock = sockfd THEN answers \cup {Answer(d)} ELSE answers
       ELSE UNCHANGED <<CA, answers>>
  /\ UNCHANGED <<atm, userVars, transVars, bookVars, committed, sent>>

End(d) ==
  /\ d.kind # "process" /\ Arrives(d)
  /\ IF d.kind = "commit" THEN committed' = CA /\ UNCHANGED CA
                          ELSE CA' = committed /\ UNCHANGED committed
  /\ UNCHANGED <<atm, userVars, transVars, bookVars, answers, sent>>

(* The bank is stopped, or a query fails and it exits, and is started      *)
(* again.  The database gives up what is not committed; datagrams that     *)
(* wait at the bank's socket go with it.                                   *)
BankRestart ==
  /\ Fault
  /\ \E lost \in SUBSET net : net' = net \ lost
  /\ CA' = committed /\ UNCHANGED committed
  /\ disturbed' = (disturbed \/ CA # committed)
  /\ UNCHANGED <<atm, userVars, transVars, bookVars, answers, sent>>

(* The network loses a request, a commit or a rollback, or an answer. *)
Lose ==
  /\ Fault
  /\ \/ /\ \E d \in net :
             /\ net' = net \ {d}
             /\ disturbed' = (disturbed \/ d.kind # "process")
        /\ UNCHANGED answers
     \/ /\ \E a \in answers : answers' = answers \ {a}
        /\ UNCHANGED <<net, disturbed>>
  /\ UNCHANGED <<atm, userVars, transVars, bookVars, bankVars, sent>>
-----------------------------------------------------------------------------
Machine ==
  \/ Session \/ Complete \/ Stop
  \/ \E o \in Orders : BankSend(o)
  \/ \E a \in answers : Receive(a)
  \/ \E p \in {"right", "wrong"} : HandlePin(p)

Bank == BankRestart \/ \E d \in net : Process(d) \/ End(d)

Next == Machine \/ Bank \/ Lose

Spec == Init /\ [][Next]_vars
-----------------------------------------------------------------------------
Books == [Cards -> [Accounts -> Int]]

Requests ==
  [transaction : 1..4, card : Cards \cup {Unknown}, pin : {"right", "wrong"},
   account : Accounts, from : Accounts, to : Accounts, amount : Nat]

Answers == [sock : Nat, no : Nat, approved : BOOLEAN, pinStatus : BOOLEAN]

Datagrams ==
  [kind : {"process"}, no : Nat, sock : Nat, req : Requests] \cup [kind : {"commit", "rollback"}, no : Nat]

TypeOK ==
  /\ atm \in {"off", "idle", "choosing", "receive", "newpin", "completing", "again"}
  /\ card \in Cards \cup {Unknown} /\ pin \in {"right", "wrong"}
  /\ mach \in Nat
  /\ req \in Requests /\ status \in Answers
  /\ attempt \in Nat /\ sockfd \in Nat /\ sent \in Nat /\ asked \in Nat /\ faults \in Nat
  /\ net \subseteq Datagrams /\ answers \subseteq Answers
  /\ CA \in Books /\ committed \in Books /\ due \in Books
  /\ deposited \in [Cards -> Nat]
  /\ invalid \in Nat /\ held \in BOOLEAN /\ disturbed \in BOOLEAN

(* No account is ever overdrawn, whatever becomes of the datagrams: the    *)
(* account bank.cc tests is the one it takes from, also for a transfer.    *)
NeverOverdrawn ==
  \A c \in Cards : \A a \in Accounts : CA[c][a] >= 0 /\ committed[c][a] >= 0

(* The machine acts on the answer to its own last request only, and        *)
(* completes what the bank has approved for one who has entered the PIN.   *)
OwnAnswer ==
  /\ atm \in {"newpin", "completing"} => status.no = asked
  /\ atm = "completing" => status.approved /\ pin = "right"

(* Three wrong PINs in a session hold the card and end the session, and    *)
(* nothing else holds it: no receipt can follow (atm.csp:211-215).         *)
ThreeTries ==
  /\ invalid <= 3
  /\ invalid = 3 <=> held
  /\ held => atm \in {"idle", "off"}

(* The books, once the last commit has arrived, are what the completed     *)
(* transactions make them, but for deposits in savings, which count twice; *)
(* unless a commit or rollback was lost, a datagram overtaken or           *)
(* duplicated, or a program stopped with a transaction open.               *)
BooksMatch ==
  ~disturbed =>
    LET books == IF \E d \in net : d.kind = "commit" THEN CA ELSE committed IN
    \A c \in Cards : /\ books[c][1] = due[c][1]
                     /\ books[c][2] = due[c][2] + deposited[c]
=============================================================================
