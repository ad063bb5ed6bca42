# cspats: formal models

cspats gives ATS programs the primitives of CSP: synchronous channels (one
writer, or many), a barrier for two, and the choice among them
(`contrib/cspats`).  The primitives are a small C++ library over pthreads
(`contrib/cspats/LIB/cspats_lib.cpp`), reached through C functions
(`LIB/cspats.cpp`) and ATS declarations (`SATS/cspats.sats`).  Everything that
is hard about the repository is in that file: mutexes, condition variables and
a semaphore combined so that threads meet exactly when they should.  This
directory models it in TLA+, checks the models with TLC and proves the central
facts with TLAPS.

Paths in this file are relative to `src/`; `lib` stands for
`contrib/cspats/LIB/cspats_lib.cpp`.

## 1. The system

| component | state | operations | correctness |
|---|---|---|---|
| One2OneChannel (`lib:33-202`) | `m_bEmpty`, `m_pBuff`, `m_pAlt`, one mutex, one condition variable | read, write, enable, disable | a write and a read meet; the value is copied while the writer is blocked; nobody sleeps whose partner has come |
| Many2OneChannel (`lib:204-403`) | `m_bReader`, `m_ulWriter`, `m_pBuff`, `m_func`, `m_pAlt`, two mutexes, two condition variables | read, cond_read, write, enable, disable | a read meets one writer, and one its checking function accepts; no signal between the two monitors is lost; no writer sleeps unseen |
| Alternative (`lib:405-551`) | `m_c`, `m_state`, `m_selector`, a mutex, a condition variable | select, schedule | commits to one guard that is ready; never sleeps over a ready guard; leaves no guard pointing to it |
| Barrier2 (`lib:554-726`) | `m_sem` (2), `m_parts`, `m_pAlt`, mutex, condition variable | sync, sync_sem, enable, disable | parties leave in pairs; no place is lost or made up; no deadlock of parties that could pair |
| Object lifecycle (same file) | `m_uiCount`, what init has created so far | create, init, ref, unref, finalize | an object is destroyed once, by its last holder, and never with a thread inside; failed init leaves nothing behind |
| C and ATS interface (`LIB/cspats.cpp`, `CATS`, `SATS`, `DATS`) | none, threads of `para_run` | wrappers, `alternative_2`, `para_run2..4` | the caller of `alternative_2` reads or syncs exactly once; `para_run` joins what it started |
| ec (`LIB/common/ec.c`, `ec.h`, `logf.c`) | the chain of records, an emergency node and buffer, a mutex, the exit handlers | ec_push, buffered_trace, ec_print, ec_reinit, the fatal macros | every record is shown, or lost only for want of memory or in a window that is named; exit ends the program |
| disk server (`test/DSS.dats`) | six processes and the clients, joined by channels and barriers | ds, dci, dio, dint, dco, ack, enq, deq, empty, next, left, comm, right, shift | requests are served in the order they were read; a client is acknowledged after its own request; every client ends |
| ATM demo (`demos/ATM`) | the session of the machine; the rows of table CA, one open transaction; datagrams | requests, answers, commit, rollback | no account is overdrawn; the machine acts on its own answers; three wrong PINs hold the card; the books match the completed transactions |

Threads interact only through the objects above.  A channel calls an
alternative (`schedule`) with the channel's mutex held; an alternative calls a
channel or barrier (`enable`, `disable`), `enable` with the alternative's mutex
held.  The ends of a channel are linear types: one thread reads, and on a
one2one channel one thread writes.  A many2one write end and a barrier are
shared by `ref`.

## 2. Modules

| module | models | proofs |
|---|---|---|
| `Rendezvous` | what a one2one channel promises | |
| `One2One` | One2OneChannel::read, write | `One2OneProofs` |
| `GuardedRendezvous` | what a many2one channel promises | |
| `Many2One` | Many2OneChannel::read, cond_read, write | `Many2OneProofs` |
| `One2OneSpurious` | `One2One` with waits that return unsignalled | |
| `ExternalChoice` | what channels, barriers and alternatives promise together | |
| `Alternative` | Alternative::select, schedule; open: the guards are added by the next three | |
| `AltOne2One`, `AltMany2One`, `AltBarrier2` | the methods of the three classes when alternatives may be registered: read or sync, write, enable, disable | |
| `Choice` | all of these together: any number of threads, objects and alternatives | `ChoiceProofs` |
| `Pairing` | what a barrier promises | |
| `Barrier2` | Barrier2::sync, sync_sem | `Barrier2Proofs` |
| `FifoServer`, `DSS` | promise and code of the disk server | `DSSProofs` |
| `Lifecycle` | create, init, ref, unref, finalize of every kind of object, `alternative_2`'s Alternative, `para_run2..4` | `LifecycleProofs` |
| `ErrorChain` | `ec.c`, the macros of `ec.h`, exit and its handlers | `ErrorChainProofs` |
| `ATM` | the teller machine of `atm.csp` and `atmprocs.cc`, and `bank.cc` | `ATMProofs` |

`MC*` modules only fix constants.

### How code becomes actions

Names of variables are those of the fields.  A thread is a program counter.
One action is one critical section: from taking a mutex, or returning from a
wait, to the next wait or release.  That is enough because all shared fields
are accessed with their mutex held, with one exception: `select` writes
`m_state` without it (`lib:457`, `lib:527`) when no guard is enabled, so that no
other thread has the alternative's address; `NoStaleAlternative` is that fact.
Where the code takes a second mutex inside a critical section, the section is
cut in two and the program counter between them says who holds the first one:
`"sched"` (a writer or party about to enter `schedule`), `"enable"`,
`"entered"`, `"resched"` (select inside a guard's `enable`), `"handoff"` and
`"mx"` (the two monitors of a many2one channel).  Mutex owners are functions of
the program counters (`Free`, `AltFree`, `m_syncFree`, `m_mxReaderFree`).

`pthread_cond_wait` is membership in a set of blocked threads;
`pthread_cond_signal` removes an arbitrary member, if there is one
(`Signalled`), `pthread_cond_broadcast` all of them.  A thread removed still
has to take the mutex before it goes on, and any other may come first.
`sem_wait` is a guard and a decrement.

Data: a buffer is its contents, one value filled in at once, an address is the
name of the buffer's owner, and `memcpy` reads the buffer at that address *now*
(`Deref`).  A buffer keeps its value until its writer fills it again.
`cond_read`'s checking function and environment are the set of values they accept;
all values for `read`.  `Choice` leaves contents out and keeps whose buffer was
copied.

In `Choice` a thread is in one method of one object at a time: `pc` says where,
`on` says in which, and the fields of an object are a record, `obj[g]`.  An
`Alternative` is made for each call of `alternative_2` and out of reach after it:
`alt[t]` is the one `t` made last, with the variables of its `select`, and
`NoAlternative` from the return on.  Its guards are any list of `Choices[t]`:
objects of any class, in any order.  `m_selector` is uninitialised until
`schedule` or a true `enable` sets it (`"undef"`); what `select` returns is taken
by the caller, who then reads or calls `sync_sem` once, and the position past the
guards would leave it with nothing to read from.

Left out everywhere: tracing, lengths of buffers and, except in `Lifecycle`, the
branches taken when a pthread call fails (they end the process).

### The disk server

`DSS` is one level up: its processes meet in channels and barriers, and an action
is one such meeting.  A channel is the rendezvous `One2One` implements, a barrier
the pairing `Barrier2` implements, a choice takes whichever guard is ready.  Where
the library promises less, `DSS` has what the library does, not what CSP says: a
choice with a many2one guard is ended only by a write that begins while it sleeps
(`DsWrite`, `Enable`; see `alt_many2one_missed`), and `cond_read` wakes one
sleeping writer and no other (`AckRead`, `AckWrite`): `lib:333` signals one
arbitrary writer, and one whose content is refused goes back to sleep without
passing the wakeup on.  A barrier pairs any two of the parties that share it, so
the two CELLs may pair with each other (`ShiftCells`), which the CSP in the
comments at `test/DSS.dats:62` and `205` excludes: there a CELL moves on `shift`
with DQ, never with the other CELL.

Two ways for the whole system to stop follow, and `EveryClientEnds` says there
is no third.  `AckLost`: the wakeup for an acknowledgement went to another
client.  `ShiftTaken`: with one request in the second CELL and another just
written to the first, the CELLs pair, and DQ waits at `shift` while both wait to
hand their request on.  Each is reached with the three clients of `SYS`.

### Lifecycle

A call on an object is here one stay inside it (`inside`), since the other modules
say what happens in it.  Who may call is what the linear types of
`SATS/cspats.sats` let compile: a thread uses the ends it holds, gives each up
once, hands them to the threads it starts and ends only without any.  `holder` is
that assignment of ends to threads; the code does not keep it, it keeps
`m_uiCount`.  `made` is the set of mutexes, condition variables and semaphores of
an object that exist: `init` makes them one by one, each may fail, and the
clean-up of each kind destroys what its own list names.  `unref` is cut between
the atomic decrement and the test of what it returned, and again before
`finalize`.  `Many2OneChannel::unref` (`lib:394-403`) lacks the `return` at its
end, which C++ leaves undefined; built with `-O0` (`Makefile:199`) it returns all
the same, with any value, which its one caller ignores (`LIB/cspats.cpp:74-78`):
it is modelled as returning.  An `Alternative` is created for two distinct guards,
stays allocated after `alternative_2` returns, and is out of reach from then on:
nothing in the repository calls its `finalize`.

A thread of `para_run` is `"unborn"`, runs, has `"ended"` and is `"joined"`;
`tids` are those still to be waited for, in the order of the code.  Threads may
call `para_run` themselves.  A creation that fails ends the program, or returns
an error where `..._create_err` was called; a thread that cannot be started
always ends it.

### ErrorChain

Each ec function holds `ec_mtx` from its first line to its last, so one call is
one action; what is between two calls of a macro (`EC_FLUSH` is `ec_print`, then
`ec_reinit`; a fatal macro is `ec_push`, then `exit`) is interleaved with other
threads.  `atexit` is called after the mutex is left and so is an action of its
own (`Register`).  Both `calloc`s of a record may fail: the node then is
`ec_node_emergency`, once, or the record is dropped; the text then goes to
`ec_s_emergency`, once, or is written over a string literal, which ends the
program.  `ec_push` and `buffered_trace_v` have each their own
`attexit_called`, so that the handler is registered up to twice.  `printed`,
`dropped` and `swept` are history: where each record went.

Three ways in which a failure may not be seen follow, and the properties say
that there is no other.  A thread's flush frees what other threads added since
its print, the record of a fatal error among them (`FlushShowsOwn`,
`CauseShown`).  A thread may fail while another has set `attexit_called` and
has not yet called `atexit`.  If `./ec_temp.log` cannot be opened, `logfmt` calls
`exit` from inside `ec_print`; a second handler, or the one run by a fatal error
of another thread, then waits for the mutex for ever, and the program does not
end (`ExitEnds`).

### ATM

The demo does not use the library: the machine's processes are CSP, its outside
is `atmprocs.cc`, and the bank is a program of its own that talks to it by
datagrams.  OVERALL, SESSION and TRANSACTION hand control to one another, so
that one variable `atm` says where they are; steps between which nothing but
the customer acts are one action (`Dialogue` for a card and a PIN, `BankSend`
for an order and the request).  `Orders` are those the menus allow, of amounts
that are not negative: `atm.csp:21` declares them so (`integers = {0..2}`), while
`atmprocs.cc:103-109` takes any number typed in, a negative one too, of which the
properties say nothing.  A request
goes out from a socket made for it (`Socket`), `commit` and `rollback` from the
same one, and what comes to the socket before is never read.  The bank carries
a request out whatever the PIN, answers, and leaves its one database
transaction open until a commit or rollback comes, which it does not tie to any
request.

`due` and `deposited` are history: what the completed transactions make of the
accounts.  `disturbed` is history too: a commit or rollback was lost, a datagram
was overtaken or copied, the machine was stopped in a transaction the bank has
begun or is to begin, or the bank was stopped with work open.  `BooksMatch` says
that the books are right without these, whatever requests and answers are lost and
however the two programs are restarted otherwise; with any of them they can go
wrong, since nothing ties an end to its request.  One exception is in the property
itself: a deposit in savings counts twice, because `bank.cc:238` adds the amount
to `dbsavings` and `bank.cc:241` writes `dbsavings+amount`.

A lost answer, and a card the bank does not know (`bank.cc:269` sends nothing),
leave the machine in `recvfrom` until it is stopped; stops are bounded, so the
model may end there.  `NeverOverdrawn`, `OwnAnswer` and `ThreeTries` hold under every
disturbance.  What a transaction leaves in the variables is forgotten at its end,
because the next one sets them before it reads them.  The table is taken to
undo what is not committed, as the queries of `bank.cc` suppose.

### Assumption on waits

`read` and `write` of a one2one channel, `select`, `sync_sem` and the reader of
a many2one channel wait outside any loop.  POSIX allows such a wait to return
unsignalled, and `read` then copies with no writer there: `One2OneSpurious` lets
the waits of `One2One` do so, and `one2one_spurious` shows it.  The comment at
`lib:110` says that only the writer's signal ends the wait; the other models assume
the same of all these waits.  The writers of a many2one
channel do wait in a loop, and `Many2One` lets them wake at any time.

## 3. Runs

| run | shows | bounds |
|---|---|---|
| `one2one` | `Handshake`: on one condition variable shared by both ends, without a re-test, each signal still finds the right thread; the channel implements `Rendezvous` with liveness | 3 values, unbounded calls |
| `many2one` | the handover between the monitors loses no signal, one buffer serves one read, a plain read is served, the channel implements `GuardedRendezvous`, and what is copied is accepted unless its writer has begun its next write | 3 writers, 2 values, a checking function that accepts one; `Refill = TRUE` |
| `one2one_spurious` (violation) | a wait that returns unsignalled makes read copy with no writer there, against `lib:110` | 2 values |
| `alt_mixed` | select commits to a guard where another thread waits for it, never sleeps over one, leaves no pointer behind; a write or sync that begins during the sleep ends it; implements `ExternalChoice` with liveness | 1 alternative at a time over 2 one2one channels, 2 many2one channels, or two of a one2one channel, a many2one channel and a barrier, in any order; 2 other threads; direct reads and syncs in between |
| `alt_many2one_missed` (violation) | select sleeps over a writer of a many2one channel that was blocked before it and that nobody signals, against the choice `test/DSS.dats:307` uses it for | as `alt_mixed` |
| `barrier2` | places are conserved, `m_parts` is exact, parties leave in pairs; implements `Pairing` with liveness | 4 parties |
| `alt_barrier2` | the same for three threads that compete for two places; no deadlock although `select`, `sync_sem` and `enable` take the mutexes of alternative and barrier in opposite orders; implements `ExternalChoice` with liveness | 1 alternative over 2 barriers in either order, 2 other parties |
| `alt_barrier2_two` | alternatives that meet each other: places are conserved through enable and disable, an enable that finds a party clears no other alternative's registration, a selection is mutual, threads wait for one another in a cycle only where lists of alternatives put barriers in a circle (safety only) | 3 threads, each may sync or choose, 2 barriers in either order |
| `lifecycle` | `m_uiCount` is the number of ends; what is in use is whole and what is out of reach is gone, Alternatives excepted; when main returns the other threads are joined and everything else is freed; `para_run` returns when its processes have | main and 2 threads; a many2one channel, a barrier and an alternative, one address each; 3 ends of the channel, 2 of the barrier |
| `error_chain` | each record is in the chain, shown, dropped or swept; the chain has no cycle; a flush shows its own; exit shows its cause and ends, with the exceptions above | 2 threads, 2 records each |
| `dss` | the disk server serves in the order it read, acknowledges a client after its own disk operation, keeps in step with its queue, and stops in two ways only; implements `FifoServer` | 3 clients, one request each, as in `SYS` |
| `atm` | no account is overdrawn, no stale answer is acted on, three wrong PINs in a session hold the card and end it, the books match what was completed | 1 card and one unknown, accounts of 1, amount 1, a machine loaded with 0 or 1, 2 faults; no request after the third datagram |

Except in the last four, calls are not bounded: every state space is finite as it
is.  The type invariants of the modules with proofs are proved and not run.  Two
values are enough to tell a stale value from the right one, and `one2one` has a
third; three writers give one that is served, one that waits and one that arrives;
two guards, all that `alternative_2` takes, give the first and the last round of
select's loop; four parties give a pair and a pair behind it, three threads with
two places give the third that must stay out.  In `lifecycle` two threads besides
main are what `para_run2` takes, or one that starts no other, the channel's three
ends give two that are dropped while one is in use, the barrier's two give one,
and the one2one channel, whose code is the many2one channel's with fewer parts, is
left to the proofs.  In `error_chain` the second record of a thread is the one
that meets the emergency node in use or the sweep of the other's flush.  In `atm`
the last request allowed is the one sent as the third datagram, which gives a
transaction behind a completed one, the ends of both included; two faults give a
loss or a copy together with a restart; amount and accounts of 1 make the second
withdrawal an overdraft.  The proofs do without these bounds.

Deadlock is checked except where the system really stops: `alt_mixed` and
`alt_many2one_missed` (the select that sleeps over blocked writers),
`alt_barrier2_two` (the crossing alternatives), `dss`, whose clients end,
`error_chain`, whose program ends, and `atm` (a machine that waits for an answer
that was lost).  In `lifecycle` a program that is over stutters, and no other
state may stop.

The type of `write`'s argument, `&a >> a?` (`SATS/cspats.sats:242`), gives the
buffer back to the caller for any use; `Refill = TRUE` lets it do what that
allows, fill the buffer for its next write as soon as `write` has returned.
The reader may not have copied by then (`lib:347`), and what it copies is the
writer's next value, which a `cond_read` may have to reject, against what
`SATS/cspats.sats:200` says it returns.  `GuardedRendezvous` therefore
has two steps, the meeting with a writer whose value is accepted and the copy
from that writer, and `many2one` shows that the channel implements it however
buffers are reused.  `CopiesAccepted` says that nothing but such a refill can
replace the value: it holds for every writer that has not begun its next write,
returned or not.  (`Refill = FALSE` stands for callers that leave their buffers
alone until they are copied; then the value copied is the one accepted.)

`alt_barrier2_two` states safety only.  When `enable` finds another alternative
registered that is already ready for another guard, it wakes nobody and does not
register its own (`lib:642-647`, whose comment says "wake up another
alternative"); a later `sync` on that barrier does not wake it, and it may sleep
for ever while that party waits.  It takes no circle of barriers: lists `<<b1, b2>>`
and `<<b2, b3>>` do.  Three threads that choose from
`<<b1, b2>>`, `<<b1, b3>>` and `<<b2, b3>>` can even leave one of them asleep with
none of its guards: the other two have found each other at the barrier they
share, both are taken, and each is still registered at the other barrier of its
list, the two that the third thread chooses from.  What does hold for any number
of alternatives is `NoSleepOverReady`: a select that sleeps is registered with
every guard that no other thread may choose, and nobody but a writer of a
many2one channel waits where it is registered.  Nor does an `enable` that finds a
party and clears `m_pAlt` (`lib:653`) take another alternative's registration
away: none can be registered then, which is `ClearsNobody`.

`select` holds its alternative's mutex while `enable` waits for a place of the
barrier or for the mutex of the alternative registered there.  Two alternatives
that list two barriers in opposite orders therefore deadlock: each is registered
where the other is going.  So do three with the lists `<<b1, b2>>`, `<<b2, b3>>`
and `<<b3, b1>>`.  `OnlyCrossingDeadlocks` says that such circles are the only
way, whatever the threads do besides: it looks for a set of threads each of which
waits for a mutex, a place or a partner that only members of the set can give
(`WaitsFor`), in every reachable state, so that a deadlock of two threads counts
although the third can go on.  Lists that follow one order of the barriers never
deadlock.

### Fairness

Weak fairness of each thread's steps inside a call: a thread that can run is
eventually run.  Calls are never obliged.  Nothing stronger is needed: no
mutex is taken again and again in the way of a thread that has to move, and
liveness is stated for *some* writer or pair, since pthreads promises no order
among the blocked.  `DSS` asks only for weak fairness of `Next`: each of its
meetings brings the clients' three requests nearer to their end, so that it is
enough that the system does not stop while some meeting is possible.
`Lifecycle` and `ErrorChain` ask for weak fairness of what the library does once
it is called, and nothing of the processes: they need not call, return from a
read or end.

## 4. Proofs

Every safety invariant of the runs expected to pass is proved for every value
of the constants, and the type invariant of every module with a proof module;
so are, for `One2One`, `Many2One`, `Barrier2`, `Choice` and `DSS`, that each
implements the safety part of its abstract specification.  The type invariants
of all but `Choice`, `CountsWriters`, `CountsQueued` and `NoStrandedReader` (whose
liveness form `ReadServed` is run) are left to the proofs alone.  The
constants are assumed to be what the code needs and no more: `NoValue` is not a
value, the sets of writers, parties, clients, threads and names of ends are
finite where something is counted, checking functions accept sets of values.

* **One2One.** `TypeOK /\ Handshake` is inductive.  `Handshake` says who may
  sleep for each value of `m_bEmpty`; without the clause that a writer asleep
  while `m_bEmpty` holds has a woken reader in front of it, a signal could be
  taken for the next call's.
* **Many2One.** The inductive invariant is `TypeOK`, `Protocol` (the handover
  and the one buffer per read, with the fact that a stored buffer is filled),
  `CountsWriters` and `NoStrandedReader`.  `CountsWriters` needs the lemmas on
  the cardinality of a finite set with one element added or removed;
  `NoStrandedReader` needs it, since a read signals only if the count is
  positive.  The refinement maps the moment a writer stores its address to the
  exchange and the reader's copy to `Copy`, for both values of `Refill`.
  `CopiesAccepted` needs `BufferAccepted`, the part of `Protocol` that says that
  the buffer stored is still the one that passed the test, until its writer
  fills it again.
* **Barrier2.** The inductive invariant adds `TwoPlaces` and `PartsAsleep` to
  the types and proves them together: that `m_parts` is 0 or 1 follows from two
  places, and the place a woken party still holds keeps the next pair out.
  `SyncSecond` is the exchange of `Pairing`, in which two parties move at once.

* **Choice.** No property of `Choice` is inductive by itself.  The proof builds
  up layers, each inductive over those before it, and each about any number of
  threads and objects and lists of guards of any length:

  - `Shape` says how far a thread is in select (`pc`) for each value its
    alternative's fields can have (`AltShape`), and that an object knows an
    alternative only while one of the guards it has gone through, and has not
    disabled, is that object (`Registered`): when select returns none is left,
    which is `NoStaleAlternative`.  Two lemmas carry most of the proof: a step of
    a thread outside select changes no `m_pAlt` and of alternatives only what
    `schedule` changes (`OutsideObjects`, `SchedulingShape`), and what a step
    leaves of the others' alternatives keeps their part of `Shape`
    (`Undisturbed`).
  - `BarrierShape` is a count per barrier: each step gives or takes the place of
    one thread (`Holds`), or of none, except the two parties that meet, whose
    second one takes both out of `m_parts`.  `TwoPlaces` follows.  That no guard
    is in a list twice is needed, since the account has a thread hold one place
    of a barrier at most.  `Permits` and `Fits` say which method of which
    object a thread may be in, and with which end.
  - `Handshakes` and `Queues` are what the fields of a channel tell of who is
    there: `Handshake` of `One2One` and the handover of `Many2One`, with the
    reader that select may become in the reader's place.
  - `Addressed` and `Partners` say that who is about to call `schedule` has an
    alternative to call it on, and whom a ready alternative is to meet: the
    writer or party that scheduled it, or the alternative that it found.  The
    hard case is the barrier: between a `schedule` that succeeds and the pair's
    `sync_sem` nobody else may take a place, and only the count of places shows
    that.  `SelectedHasPartner` follows.
  - `ClearsNobody` is a count too: the alternative in `enable`, the party that
    waits and another one registered would hold three places (`NoThirdHolder`).
  - `OnlyCrossingDeadlocks` needs `Shape`, `BarrierShape`, `Permits` and `Fits`
    only.  In a set of threads that wait only for one another, whoever waits at an
    object waits, directly or through others, for a thread of the set that holds
    this object's mutex or a place of it while it waits in `enable` of a barrier
    further on in its list (`Onward`, `OccupiedOnward`, `HoldersOnward`).  The
    barriers where threads wait in `enable` are the circle, for each has a next
    one in it.
  - `AllRest` and `Copies` give what the fields hold between two calls, for
    `TypeOK`.  `Watched` says where an alternative that is not ready is
    registered: at each guard that it has gone through and that nobody else may
    choose, with nobody asleep there who could have woken it.  Its exception for
    shared guards is not an artefact of the proof (see section 3).
  - `RefinesSafely` needs no more than `Meetings` (all of the layers up to
    `Partners`), `Copies` and `Buffers`, which says whose buffer a channel
    holds; together they are `Viewed`.  The refinement maps a thread to where it
    is (`Where`), what it may still meet at (`Offered`) and whose buffer its
    read gets (`Gotten`).  A first part shows what each step makes of the view
    of the thread that takes it and of every other thread (`Unseen`,
    `OthersCopies`, `OthersKept`); a second, that any step with such an effect is
    one of `ExternalChoice`.  Entering a method is `Arrive`, returning `Leave`.  A
    choice settles in `schedule`, or when its own round of `enable` finds a partner, and
    if that partner is itself a choice both settle at once: `Partners` says
    that it is there with a matching offer.  A pair meets when a read takes the
    buffer of the one2one writer it finds or that wakes it (`ReadMeets`), when
    a many2one writer hands its buffer to the reader (`HandOffMeets`), or in
    the `sync_sem` of a barrier's second party (`SyncMeets`).
    All other steps are stutters.

* **DSS.** The inductive invariant is `TypeOK`, `CountsQueued` and `InStep`.
  `InStep` is needed twice: a request is served at once only when DSched is
  idle, and idle has to mean that DQ is empty; and a `next` has to find the
  request in service acknowledged.  The refinement maps the queue of
  `FifoServer` to five places in a row (`Queued`); a request that moves from one
  place to the next leaves their concatenation as it is, because the place it
  moves to is empty, and this is where the order of service comes from.

* **Lifecycle.** The inductive invariant of `LifecycleProofs` says for each
  object which primitives it has while a thread creates it, while it is used
  and while its last holder destroys it, that one thread at most does either,
  and that a thread is inside only what it holds an end of, or an Alternative
  of its own.  With `CountsEnds` a decrement that returns 0 leaves no end, hence
  nobody inside: that is `UsedIsWhole`.  `OutOfReachIsGone` needs besides that
  the clean-up of every kind destroys what was made before each failure, which
  is a lemma on the three lists (`Primitives`, `CleanedUp`, `Finalized`).
  `MainEndsLast` needs that the threads started and not joined form a tree whose
  root is main (`ThreadTree`).  That there is no path back is said without paths,
  as a set of threads that has a parent in it for each but main has main in it; so no
  induction over the tree is needed, and when main has joined its children it is
  alone.

* **ErrorChain.** `Accounted` is inductive together with the types, but what a
  flush and an exit show is not.  `FlushShowsOwn` needs `OwnShown`: between its
  `ec_print` and its `ec_reinit` a thread has nothing unseen in the chain.
  `CauseShown` needs that a handler is registered, or about to be, as soon as a
  fatal error can call `exit` (`FatalCalled`, `HandlerComes`), and that until one
  has run there still is one (`CauseComes`).  Only the types of what these
  speak of are needed.  `EmergencyOnce` is about a cardinality, but its inductive
  form, `NodeOnce`, says that the places of the emergency node in the chain are
  one or none; a new head moves them all by one.

* **ATM.** `NeverOverdrawn` needs only `Numbered`, that every request on its way
  names the account its money comes from.  `OwnAnswer` is `Own`: sockets grow
  with the requests (`Numbered`), so that what waits at the socket in use answers
  the request last sent.  `ThreeTries` is `Tries`: a wrong PIN that the session
  survives is replaced by the right one before the transaction goes on, so that
  the next transaction's count starts from none that matters.  `BooksMatch` needs
  `Order`: while nothing has disturbed them there is one end at most on its way,
  a request behind it and none after, and the table is what the last completed
  transaction made it, with the open request carried out or not; one lemma
  (`OwedAfter`) says that completing a request owes what carrying it out does.

Only model-checked: the traces of the runs expected to fail, and everything with
liveness under fairness, which the backends used here cannot prove (for `Choice`:
`ArrivalWakes` and `RefinesExternalChoice`, which adds fairness to
`RefinesSafely`).

## 5. Not modelled, and the plan

What is planned is modelled, and the safety of it proved.  What could follow is
the scheduling the fairness of section 3 rests on, which is assumed.

Left out for good: tables and formatting of messages (`syserr.c`, the rest of
`logf.c`, `logtool`), the generators of documentation, makefiles, the CSP++ text in
`demos/DSS`, which has no state in this repository, and two small programs:
the body of `test/ConnPool.dats` is commented out and its main does nothing, and
`test/test01.dats` is one thread that reads a channel nobody writes to.
