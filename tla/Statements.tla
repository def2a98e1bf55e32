----------------------------- MODULE Statements -----------------------------
(***************************************************************************)
(* Conn.stmts() and Statement of src/src/conn.js: scripts whose statements *)
(* are prepared one at a time by async generators, with memory that        *)
(* borrow_mem() of src/src/memory.js lends them.  Each member of Scripts   *)
(* is one call of stmts() on one connection.  The application awaits its   *)
(* calls; it may use several scripts in turn, leave one in the middle,     *)
(* abandon one to the garbage collector, and close the connection.         *)
(* Nobody awaits reset() and finalize(): on a VFS whose xUnlock answers    *)
(* with a promise they may still be under way when they have returned.     *)
(***************************************************************************)
EXTENDS Naturals, FiniteSets

CONSTANTS
    Scripts,        \* the calls of stmts()
    Ptrs,           \* the sqlite3_stmt pointers that prepare may answer
    MaxStmts,       \* bound: the statements of a script
    Faults,         \* the fallible steps that may fail
    Uses,           \* what the application may do besides running its scripts
    none            \* no Statement, or one whose #ptr is 0

ASSUME ConstantsAssumption ==
    /\ MaxStmts \in Nat
    /\ none \notin Ptrs
    /\ Faults \subseteq {"malloc", "prepare"}
    /\ Uses \subseteq {"leave", "break", "abandon", "close"}

VARIABLES
    open,           \* whether Conn.ptr is set
    live,           \* the statements that SQLite holds
    running,        \* those of them in the middle of an execution
    pending,        \* the calls of reset and finalize that are suspended
    registry,       \* stmts, the FinalizationRegistry: Statements and their pointers
    pc,             \* where each generator is
    remainder,      \* the statements of each script from the current one on
    stmt,           \* #ptr of the Statement that each generator has yielded
    rows,           \* where the iterator over that Statement's rows is
    mem             \* the memory borrowed for each script

vars == <<open, live, running, pending, registry, pc, remainder, stmt, rows, mem>>

Ended == {"ended", "failed"}

\* A Statement object, by its script and its place in it counted from the end.
Statement(g) == <<g, remainder[g]>>

\* SQLite's statements, the generators and their Statements have their types.
TypeOK ==
    /\ open \in BOOLEAN
    /\ live \subseteq Ptrs
    /\ running \subseteq live
    /\ pending \subseteq Ptrs \X {"reset", "finalize"}
    /\ registry \subseteq (Scripts \X (1..MaxStmts)) \X Ptrs
    /\ pc \in [Scripts -> {"start", "preparing", "yielded", "abandoned"} \cup Ended]
    /\ remainder \in [Scripts -> 0..MaxStmts]
    /\ stmt \in [Scripts -> Ptrs \cup {none}]
    /\ rows \in [Scripts -> {"idle", "stepping", "row"}]
    /\ mem \in [Scripts -> {"none", "lent", "free"}]

Init ==
    /\ open = TRUE
    /\ live = {} /\ running = {} /\ pending = {} /\ registry = {}
    /\ pc = [g \in Scripts |-> "start"]
    /\ remainder = [g \in Scripts |-> 0]
    /\ stmt = [g \in Scripts |-> none]
    /\ rows = [g \in Scripts |-> "idle"]
    /\ mem = [g \in Scripts |-> "none"]

-----------------------------------------------------------------------------
(* The generator.                                                          *)

\* The outer finally block settles the promise that borrow_mem() has from its
\* func, and the memory is freed.  A mutant frees it only on the way out of the
\* loop.
EndWithoutFinally(g, outcome) ==
    /\ pc' = [pc EXCEPT ![g] = outcome]
    /\ mem' = [mem EXCEPT ![g] = IF outcome = "failed" THEN @ ELSE "free"]
End(g, outcome) ==
    /\ pc' = [pc EXCEPT ![g] = outcome]
    /\ mem' = [mem EXCEPT ![g] = "free"]

\* Line 209, and a mutant that goes on with the terminator of the text.
MoreThanNothing(n) == n >= 0
MoreToPrepare(n) == n > 0

\* The head of the loop with n statements left.
Loop(g, n) ==
    /\ remainder' = [remainder EXCEPT ![g] = n]
    /\ \/ /\ MoreToPrepare(n)
          /\ pc' = [pc EXCEPT ![g] = "preparing"]
          /\ mem' = [mem EXCEPT ![g] = "lent"]
       \/ ~MoreToPrepare(n) /\ End(g, "ended")

\* The first next(), up to the first await.
Start(g) ==
    /\ pc[g] = "start"
    /\ \/ open /\ \E n \in 0..MaxStmts : Loop(g, n)
       \/ /\ ~open \/ "malloc" \in Faults
          /\ pc' = [pc EXCEPT ![g] = "failed"]
          /\ UNCHANGED <<remainder, mem>>
    /\ UNCHANGED <<open, live, running, pending, registry, stmt, rows>>

\* Line 46, and a mutant without it.
unregistered(g, p) == UNCHANGED registry
register(g, p) == registry' = registry \cup {<<Statement(g), p>>}

\* prepare answers, with a statement or with none for a comment.  An error of
\* prepare, a closed connection's and one of bind_all() end the script; what was
\* prepared is finalized in the same step.
Prepared(g) ==
    /\ pc[g] = "preparing"
    /\ \/ /\ open
          /\ \E p \in Ptrs \ live :
                /\ live' = live \cup {p}
                /\ register(g, p)
                /\ stmt' = [stmt EXCEPT ![g] = p]
          /\ pc' = [pc EXCEPT ![g] = "yielded"]
          /\ UNCHANGED <<remainder, mem>>
       \/ /\ open
          /\ Loop(g, remainder[g] - 1)
          /\ UNCHANGED <<live, registry, stmt>>
       \/ /\ ~open \/ "prepare" \in Faults
          /\ End(g, "failed")
          /\ UNCHANGED <<live, registry, stmt, remainder>>
    /\ UNCHANGED <<open, running, pending, rows>>

\* sqlite3_finalize(p).  It ends an execution that is under way, for which it may
\* suspend; else the statement is gone when it returns.
sqlite3_finalize(p) ==
    /\ live' = live \ {p}
    /\ running' = running \ {p}
    /\ UNCHANGED pending
finalizeSuspends(p) ==
    /\ p \in running
    /\ pending' = pending \cup {<<p, "finalize">>}
    /\ UNCHANGED <<live, running>>

\* Lines 48 to 53 but for the call of SQLite, and a mutant without line 50.
StaysRegistered(g) ==
    /\ stmt' = [stmt EXCEPT ![g] = none]
    /\ rows' = [rows EXCEPT ![g] = "idle"]
    /\ UNCHANGED registry
Unregister(g) ==
    /\ registry' = {e \in registry : e[1] # Statement(g)}
    /\ stmt' = [stmt EXCEPT ![g] = none]
    /\ rows' = [rows EXCEPT ![g] = "idle"]

\* next() or return() on the generator at its yield: the inner finally block.
\* When finalize() suspends, handle_error() takes its promise for an error code
\* and throws.
Resume(g) ==
    /\ pc[g] = "yielded" /\ rows[g] # "stepping"
    /\ rows[g] = "row" => "leave" \in Uses
    /\ \/ /\ sqlite3_finalize(stmt[g])
          /\ \/ Loop(g, remainder[g] - 1)
             \/ "leave" \in Uses /\ End(g, "ended") /\ UNCHANGED remainder
       \/ /\ finalizeSuspends(stmt[g])
          /\ End(g, "failed")
          /\ UNCHANGED remainder
    /\ Unregister(g)
    /\ UNCHANGED open

-----------------------------------------------------------------------------
(* The iterator over the rows of the Statement that g has yielded.         *)

Step(g) ==
    /\ pc[g] = "yielded" /\ rows[g] # "stepping"
    /\ rows' = [rows EXCEPT ![g] = "stepping"]
    /\ UNCHANGED <<open, live, running, pending, registry, pc, remainder, stmt, mem>>

\* A row, or the end of the execution, with an error or without; the reset that
\* follows an end finds nothing to do.
Stepped(g) ==
    /\ rows[g] = "stepping"
    /\ \/ /\ running' = running \cup {stmt[g]}
          /\ rows' = [rows EXCEPT ![g] = "row"]
       \/ /\ running' = running \ {stmt[g]}
          /\ rows' = [rows EXCEPT ![g] = "idle"]
    /\ UNCHANGED <<open, live, pending, registry, pc, remainder, stmt, mem>>

\* return() on the iterator, as `break` calls it: lines 99 to 101.  Nobody waits
\* for reset(), which may suspend: the execution's transaction ends with it.
LeaveRows(g) ==
    /\ pc[g] = "yielded" /\ rows[g] = "row"
    /\ rows' = [rows EXCEPT ![g] = "idle"]
    /\ \/ running' = running \ {stmt[g]} /\ UNCHANGED pending
       \/ /\ "break" \in Uses
          /\ pending' = pending \cup {<<stmt[g], "reset">>}
          /\ UNCHANGED running
    /\ UNCHANGED <<open, live, registry, pc, remainder, stmt, mem>>

\* A suspended call ends.
Complete ==
    \E c \in pending :
        /\ pending' = pending \ {c}
        /\ running' = running \ {c[1]}
        /\ live' = IF c[2] = "finalize" THEN live \ {c[1]} ELSE live
        /\ UNCHANGED <<open, registry, pc, remainder, stmt, rows, mem>>

-----------------------------------------------------------------------------
\* The application forgets a generator, which stays at its yield for ever.
Abandon(g) ==
    /\ "abandon" \in Uses
    /\ pc[g] = "yielded" /\ rows[g] # "stepping"
    /\ pc' = [pc EXCEPT ![g] = "abandoned"]
    /\ UNCHANGED <<open, live, running, pending, registry, remainder, stmt, rows, mem>>

\* Nothing refers to a Statement but the generator that has it at its yield.
Unreachable(s) == \A g \in Scripts : s = Statement(g) => pc[g] # "yielded"

\* The registry's callback, lines 34 to 38.
Collect ==
    \E e \in registry :
        /\ Unreachable(e[1])
        /\ registry' = registry \ {e}
        /\ sqlite3_finalize(e[2]) \/ finalizeSuspends(e[2])
        /\ UNCHANGED <<open, pc, remainder, stmt, rows, mem>>

\* Conn.close(), once the application's calls are answered.  The statements stay.
Close ==
    /\ "close" \in Uses
    /\ open
    /\ \A g \in Scripts : pc[g] # "preparing" /\ rows[g] # "stepping"
    /\ open' = FALSE
    /\ UNCHANGED <<live, running, pending, registry, pc, remainder, stmt, rows, mem>>

Continue(g) == Prepared(g) \/ Stepped(g)

Next ==
    \/ \E g \in Scripts : Start(g) \/ Continue(g) \/ Resume(g) \/ Step(g) \/ LeaveRows(g) \/ Abandon(g)
    \/ Complete \/ Collect \/ Close

\* No step is fair: JavaScript does not promise that garbage is ever collected.
Spec == Init /\ [][Next]_vars

-----------------------------------------------------------------------------
(* Properties.                                                             *)

\* The Statement that a generator has at its yield is one that SQLite holds, is
\* nobody else's and has no finalize() under way; and so is each one that the
\* registry will finalize.  Pointers are used again after a finalize.
NoDangling ==
    /\ \A g \in Scripts : pc[g] = "yielded" => <<Statement(g), stmt[g]>> \in registry
    /\ \A e \in registry : e[2] \in live /\ <<e[2], "finalize">> \notin pending
    /\ \A e, f \in registry : e[2] = f[2] => e = f

\* No statement is lost: each one that SQLite holds is being finalized or will be
\* when its Statement is, or when that is garbage; a script has one at a time.
NothingLeaks ==
    /\ \A p \in live : <<p, "finalize">> \in pending \/ \E e \in registry : e[2] = p
    /\ \A e, f \in registry : e[1][1] = f[1][1] => e = f

\* However a script ends, by its end, return(), an error of SQLite, a closed
\* connection or an exception of finalize(), it has given back its memory and
\* its statement; and its text is there whenever prepare may read it.
EndedGivesBack ==
    \A g \in Scripts :
        /\ pc[g] \in Ended => mem[g] # "lent" /\ \A e \in registry : e[1][1] # g
        /\ pc[g] \in {"preparing", "yielded"} => mem[g] = "lent"

\* SQLite is in no call on a statement that has been finalized: "It is a grievous
\* error for the application to try to use a prepared statement after it has been
\* finalized" (src/vendor/sqlite3.h).
NoUseAfterFinalize == \A c \in pending : c[1] \in live

\* A script fails only if something does: "If the most recent evaluation of the
\* statement encountered no errors ... then sqlite3_finalize() returns SQLITE_OK".
NoErrorOutOfNothing ==
    Faults = {} /\ open => \A g \in Scripts : pc[g] # "failed"

=============================================================================
