------------------------------ MODULE ConnPool ------------------------------
(***************************************************************************)
(* The connection pool of src/src/pool.js.  Each member of Calls is one    *)
(* call of borrow(func): it takes a connection with get_conn() (an idle    *)
(* one, a new one made by make_conn(), or one handed over by another       *)
(* call's return_conn() after a wait in #waiters), runs func on it and     *)
(* gives it back with return_conn().  JavaScript runs one continuation at  *)
(* a time, so a step is what one call does between two of its awaits.      *)
(***************************************************************************)
EXTENDS Naturals, Integers, Sequences, FiniteSets

CONSTANTS
    Calls,          \* the calls of borrow()
    Conns,          \* the Conn objects that `new Conn()` may return
    NoConn,         \* held by a call that has no connection
    Gone,           \* a resolver whose Promise.race was already lost to the timer
    max_conns,      \* options.max_conns
    MaxDelays,      \* the signs of options.max_delay a pool may be given
    Initialized,    \* what options.initialized may be at construction
    Faults          \* the fallible steps that may fail

ASSUME ConstantsAssumption ==
    /\ max_conns \in Nat \ {0}
    /\ MaxDelays \subseteq {-1, 0, 1}
    /\ Initialized \subseteq {"function", "pending", "resolved"}
    /\ Faults \subseteq {"initialized", "open", "init", "rollback"}
    /\ NoConn \notin Conns
    /\ Gone \notin Calls

VARIABLES
    conn_count,     \* #conn_count
    conns,          \* #conns, the stack of idle connections
    waiters,        \* #waiters, the FIFO of resolvers, each named by its call
    initialized,    \* options.initialized: the function, or its promise's state
    max_delay,      \* options.max_delay; never assigned after the constructor
    pc,             \* where each call is suspended
    held,           \* the connection each call has custody of
    opened,         \* connections whose ptr was set by Conn.open()
    tx              \* connections with an open transaction: autocommit is false

vars == <<conn_count, conns, waiters, initialized, max_delay, pc, held, opened, tx>>

Making  == {"sqlite", "initialized", "opening", "init"}
Holding == {"using", "rollback"}
PCs     == {"start", "waiting", "done", "failed"} \cup Making \cup Holding

\* The pool's fields and its calls have the types they are declared with, and
\* conn_count stays within max_conns however many make_conn() run or fail.
TypeOK ==
    /\ conn_count \in 0..max_conns
    /\ conns \in Seq(Conns)
    /\ waiters \in Seq(Calls \cup {Gone})
    /\ initialized \in {"function", "pending", "resolved", "rejected"}
    /\ max_delay \in {-1, 0, 1}
    /\ pc \in [Calls -> PCs]
    /\ held \in [Calls -> Conns \cup {NoConn}]
    /\ opened \subseteq Conns
    /\ tx \subseteq opened

Init ==
    /\ conn_count = 0
    /\ conns = <<>>
    /\ waiters = <<>>
    /\ initialized \in Initialized
    /\ max_delay \in MaxDelays
    /\ pc = [c \in Calls |-> "start"]
    /\ held = [c \in Calls |-> NoConn]
    /\ opened = {}
    /\ tx = {}

-----------------------------------------------------------------------------
(* get_conn(): the four ways its synchronous prefix can go.                *)

PopIdle(c) ==
    /\ pc[c] = "start"
    /\ conns # <<>>
    /\ held' = [held EXCEPT ![c] = conns[Len(conns)]]
    /\ conns' = SubSeq(conns, 1, Len(conns) - 1)
    /\ pc' = [pc EXCEPT ![c] = "using"]
    /\ UNCHANGED <<conn_count, waiters, initialized, max_delay, opened, tx>>

\* Line 37, and the same test off by one.
SlotFreeOffByOne == conn_count <= max_conns
SlotFree == conn_count < max_conns

\* make_conn() up to its first await: the slot is taken before anything can fail.
StartMake(c) ==
    /\ pc[c] = "start"
    /\ conns = <<>>
    /\ SlotFree
    /\ conn_count' = conn_count + 1
    /\ pc' = [pc EXCEPT ![c] = IF initialized = "function" THEN "sqlite" ELSE "initialized"]
    /\ UNCHANGED <<conns, waiters, initialized, max_delay, held, opened, tx>>

Exhausted == conns = <<>> /\ ~SlotFree

Refuse(c) ==
    /\ pc[c] = "start"
    /\ Exhausted
    /\ max_delay = 0
    /\ pc' = [pc EXCEPT ![c] = "failed"]
    /\ UNCHANGED <<conn_count, conns, waiters, initialized, max_delay, held, opened, tx>>

Wait(c) ==
    /\ pc[c] = "start"
    /\ Exhausted
    /\ max_delay # 0
    /\ waiters' = Append(waiters, c)
    /\ pc' = [pc EXCEPT ![c] = "waiting"]
    /\ UNCHANGED <<conn_count, conns, initialized, max_delay, held, opened, tx>>

\* The timer wins Promise.race.  The resolver stays in #waiters: only its
\* owner is gone.
Timeout(c) ==
    /\ pc[c] = "waiting"
    /\ max_delay > 0
    /\ waiters' = [i \in DOMAIN waiters |-> IF waiters[i] = c THEN Gone ELSE waiters[i]]
    /\ pc' = [pc EXCEPT ![c] = "failed"]
    /\ UNCHANGED <<conn_count, conns, initialized, max_delay, held, opened, tx>>

-----------------------------------------------------------------------------
(* make_conn(), one action per continuation.                               *)

\* After `await sqlite_initialized`, options.initialized is called without
\* looking again whether it still is a function: if another make_conn() has
\* replaced it by its promise meanwhile, the call throws a TypeError.
CallInitialized(c) ==
    /\ pc[c] = "sqlite"
    /\ \/ /\ initialized = "function"
          /\ initialized' = "pending"
          /\ pc' = [pc EXCEPT ![c] = "initialized"]
       \/ /\ initialized # "function" \/ "initialized" \in Faults
          /\ pc' = [pc EXCEPT ![c] = "failed"]
          /\ UNCHANGED initialized
    /\ UNCHANGED <<conn_count, conns, waiters, max_delay, held, opened, tx>>

\* The promise in options.initialized settles.
Settle ==
    /\ initialized = "pending"
    /\ \/ initialized' = "resolved"
       \/ "initialized" \in Faults /\ initialized' = "rejected"
    /\ UNCHANGED <<conn_count, conns, waiters, max_delay, pc, held, opened, tx>>

AwaitInitialized(c) ==
    /\ pc[c] = "initialized"
    /\ initialized \in {"resolved", "rejected"}
    /\ pc' = [pc EXCEPT ![c] = IF initialized = "resolved" THEN "opening" ELSE "failed"]
    /\ UNCHANGED <<conn_count, conns, waiters, initialized, max_delay, held, opened, tx>>

\* new Conn() and conn.open(): the connection exists and init() runs on it.  open()
\* throws when SQLite cannot open the file, and when a callback of Conn.inits does; the
\* connection is open then, and nobody has it.
Open(c) ==
    /\ pc[c] = "opening"
    /\ \/ \E conn \in Conns \ opened :
             /\ opened' = opened \cup {conn}
             /\ held' = [held EXCEPT ![c] = conn]
             /\ pc' = [pc EXCEPT ![c] = "init"]
       \/ /\ "open" \in Faults
          /\ UNCHANGED opened \/ \E conn \in Conns \ opened : opened' = opened \cup {conn}
          /\ pc' = [pc EXCEPT ![c] = "failed"]
          /\ UNCHANGED held
    /\ UNCHANGED <<conn_count, conns, waiters, initialized, max_delay, tx>>

\* A repair that gives the slot back but leaves the connection open.
InitFailsFreesSlot(c) ==
    /\ "init" \in Faults
    /\ pc' = [pc EXCEPT ![c] = "failed"]
    /\ held' = [held EXCEPT ![c] = NoConn]
    /\ conn_count' = conn_count - 1

\* When options.init(conn) rejects, nobody closes the connection and nobody
\* gives the slot back.
InitFails(c) ==
    /\ "init" \in Faults
    /\ pc' = [pc EXCEPT ![c] = "failed"]
    /\ held' = [held EXCEPT ![c] = NoConn]
    /\ UNCHANGED conn_count

InitConn(c) ==
    /\ pc[c] = "init"
    /\ \/ /\ pc' = [pc EXCEPT ![c] = "using"]
          /\ UNCHANGED <<held, conn_count>>
       \/ InitFails(c)
    /\ UNCHANGED <<conns, waiters, initialized, max_delay, opened, tx>>

-----------------------------------------------------------------------------
(* func(conn), external code, and what return_conn() does after it.        *)

Begin(c) ==
    /\ pc[c] = "using"
    /\ held[c] \in opened \ tx
    /\ tx' = tx \cup {held[c]}
    /\ UNCHANGED <<conn_count, conns, waiters, initialized, max_delay, pc, held, opened>>

EndTx(c) ==
    /\ pc[c] = "using"
    /\ held[c] \in tx
    /\ tx' = tx \ {held[c]}
    /\ UNCHANGED <<conn_count, conns, waiters, initialized, max_delay, pc, held, opened>>

MakeIdle(c) ==
    /\ conns' = Append(conns, held[c])
    /\ pc' = [pc EXCEPT ![c] = "done"]
    /\ held' = [held EXCEPT ![c] = NoConn]
    /\ UNCHANGED waiters

\* The connection of c passes to w, and w's borrow() goes on.
PassTo(c, w) ==
    /\ pc' = [d \in Calls |-> IF d = c THEN "done" ELSE IF d = w THEN "using" ELSE pc[d]]
    /\ held' = [d \in Calls |-> IF d = c THEN NoConn ELSE IF d = w THEN held[c] ELSE held[d]]

\* Mutants: the newest resolver is served; the connection is pushed as well.
HandOverNewest(c) ==
    /\ waiters' = SubSeq(waiters, 1, Len(waiters) - 1)
    /\ PassTo(c, waiters[Len(waiters)])
    /\ UNCHANGED conns
HandOverAndPush(c) ==
    /\ waiters' = Tail(waiters)
    /\ PassTo(c, Head(waiters))
    /\ conns' = Append(conns, held[c])

\* Line 28: a resolver whose owner is gone swallows the connection.
HandOver(c) ==
    /\ waiters' = Tail(waiters)
    /\ PassTo(c, Head(waiters))
    /\ UNCHANGED conns

\* A mutant that forgets #waiters.
DeliverToIdle(c) == MakeIdle(c)

\* Lines 27 to 31.
Deliver(c) ==
    \/ waiters = <<>> /\ MakeIdle(c)
    \/ waiters # <<>> /\ HandOver(c)

\* Line 23, and its mutant: no transaction is ever rolled back.
NeverRollsBack(c) == FALSE
NeedsRollback(c) == held[c] \in tx

\* func settled, whether it returned or threw: the finally block runs.
Finish(c) ==
    /\ pc[c] = "using"
    /\ \/ /\ NeedsRollback(c)
          /\ pc' = [pc EXCEPT ![c] = "rollback"]
          /\ UNCHANGED <<conns, waiters, held>>
       \/ ~NeedsRollback(c) /\ Deliver(c)
    /\ UNCHANGED <<conn_count, initialized, max_delay, opened, tx>>

\* sqlite3_exec('ROLLBACK;') answers.  When it fails handle_error() throws
\* past the lines that return the connection.
Rollback(c) ==
    /\ pc[c] = "rollback"
    /\ \/ /\ tx' = tx \ {held[c]}
          /\ Deliver(c)
       \/ /\ "rollback" \in Faults
          /\ pc' = [pc EXCEPT ![c] = "failed"]
          /\ held' = [held EXCEPT ![c] = NoConn]
          /\ UNCHANGED <<tx, conns, waiters>>
    /\ UNCHANGED <<conn_count, initialized, max_delay, opened>>

-----------------------------------------------------------------------------
\* The continuations of one call that the event loop will run.
Continue(c) ==
    \/ CallInitialized(c) \/ AwaitInitialized(c) \/ Open(c) \/ InitConn(c)
    \/ Finish(c) \/ Rollback(c)

Call(c) == PopIdle(c) \/ StartMake(c) \/ Refuse(c) \/ Wait(c)

Next ==
    \/ \E c \in Calls : Call(c) \/ Timeout(c) \/ Continue(c) \/ Begin(c) \/ EndTx(c)
    \/ Settle

\* The event loop runs a continuation whose promise has settled, VFS and
\* init() promises settle, func settles, and a timer that is due fires.
Fairness ==
    /\ \A c \in Calls : WF_vars(Continue(c)) /\ WF_vars(Timeout(c))
    /\ WF_vars(Settle)

Spec == Init /\ [][Next]_vars /\ Fairness

-----------------------------------------------------------------------------
(* Properties.                                                             *)

Busy == {c \in Calls : pc[c] \in Making \cup Holding}

Idle == {conns[i] : i \in DOMAIN conns}

\* Every slot counted by conn_count is an idle connection or in the hands of
\* a call that will give it back.
NothingLost == conn_count = Len(conns) + Cardinality(Busy)

\* A connection is in one place: two calls never run on the same connection,
\* an idle connection is nobody's, and it is in #conns once.  borrow() gives
\* func exclusive use only if return_conn() and get_conn() keep this.
ExclusiveCustody ==
    /\ \A c, d \in Calls : held[c] # NoConn /\ held[c] = held[d] => c = d
    /\ \A c \in Calls : held[c] \notin Idle
    /\ \A i, j \in DOMAIN conns : conns[i] = conns[j] => i = j

\* The pool never opens more than max_conns connections ("Create a maximum of
\* 5 connections"), those counted that a failed make_conn() left behind.
OpenedBound == Cardinality(opened) <= max_conns

\* Nobody queues while a connection lies idle or a slot is free: get_conn()
\* looks before it waits and return_conn() looks at #waiters before #conns.
NoIdleWhileWaiting == waiters # <<>> => conns = <<>> /\ conn_count = max_conns

\* A pooled connection changes hands only with autocommit on, whatever the
\* previous func left open: return_conn() rolls back before it delivers.
CleanHandover ==
    [][\A c \in Calls : held[c] = NoConn /\ held'[c] # NoConn => held'[c] \notin tx']_vars

\* A call that gets a connection from the pool overtakes nobody: no call that
\* was in #waiters ahead of it, or while it was not in #waiters, still waits.
NoOvertaking ==
    [][\A c \in Calls :
          pc[c] \in {"start", "waiting"} /\ held'[c] # NoConn =>
             \A i \in DOMAIN waiters :
                waiters[i] \in {Gone, c} \/ \E j \in 1..(i - 1) : waiters[j] = c]_vars

\* As long as no slot is lost, a call that waits stops waiting: its turn
\* comes, or its timer.
EveryCallSettles ==
    []NothingLost => \A c \in Calls : pc[c] = "waiting" ~> pc[c] # "waiting"

\* When no step fails, each slot stays usable: it is an idle connection or in
\* the hands of a call that gives it back.  README.md promises borrowing APIs
\* that acquire and release resources by themselves, ConnPool's among them.
SlotsStayUsable == Faults = {} => NothingLost

\* When no step fails and callers wait for as long as it takes, every borrow()
\* runs its func: options.initialized, a function in index.html, settles
\* before connections are created however many calls come at once.
BorrowSucceeds == Faults = {} /\ max_delay < 0 => \A c \in Calls : pc[c] # "failed"


=============================================================================
