------------------------------- MODULE Values -------------------------------
(***************************************************************************)
(* What src/src/value.js and src/src/func/basics.js give SQLite to keep,   *)
(* and how they know when to let it go: Pointer objects, which SQLite      *)
(* holds by a number and releases by a call for each time it was given     *)
(* one; copies of text and blobs in memory that SQLite frees; and the      *)
(* JavaScript functions of a connection, by a number as well.              *)
(*   A statement is SELECT ?, f(?): it has one parameter and calls one     *)
(* function, which may take its time.                                      *)
(***************************************************************************)
EXTENDS Integers, FiniteSets, Sequences

CONSTANTS
    Pointers,       \* the Pointer objects
    Statements,
    Names,          \* the names of functions
    MaxFuncs        \* bound: the calls of create_scalarf()

ASSUME ConstantsAssumption ==
    /\ Pointers \cap {"null", "bytes"} = {} /\ MaxFuncs \in Nat
    /\ IsFiniteSet(Statements)

Values == Pointers \cup {"null", "bytes"}

VARIABLES
    made,           \* the Pointers there are
    pointers,       \* those in the map pointers
    refs,           \* their refs
    heap,           \* the copies of bytes that have not been freed
    conn, pc,       \* the connection's state, and each statement's
    bound, result,  \* the value of its parameter, and its function's result
    defs, funcs,    \* SQLite's functions, by name, and the map funcs
    func_i,
    lost,           \* the functions whose name found no memory
    revived,        \* the Pointers given to SQLite once they had been destroyed
    broken          \* an exception has gone through the frames of SQLite

registry == <<made, pointers, refs, heap, revived, broken>>
statements == <<pc, bound, result>>
functions == <<conn, defs, funcs, func_i, lost>>
vars == <<registry, statements, functions>>

\* Nothing is counted that is not there.
TypeOK ==
    /\ pointers \subseteq made /\ made \subseteq Pointers /\ revived \subseteq made
    /\ refs \in [Pointers -> Nat] /\ heap \in Nat
    /\ conn \in {"open", "zombie", "closed"}
    /\ pc \in [Statements -> {"none", "ready", "calling", "row"}]
    /\ bound \in [Statements -> Values] /\ result \in [Statements -> Values]
    /\ func_i \in 0..MaxFuncs /\ defs \in [Names -> 0..func_i]
    /\ funcs \subseteq 1..func_i /\ lost \subseteq funcs
    /\ broken \in BOOLEAN

Init ==
    /\ made = {} /\ pointers = {} /\ refs = [p \in Pointers |-> 0] /\ heap = 0
    /\ conn = "open" /\ pc = [s \in Statements |-> "none"]
    /\ bound = [s \in Statements |-> "null"] /\ result = [s \in Statements |-> "null"]
    /\ defs = [n \in Names |-> 0] /\ funcs = {} /\ func_i = 0
    /\ lost = {} /\ revived = {} /\ broken = FALSE

Times(v, list) == Cardinality({i \in 1..Len(list) : list[i] = v})

\* ++refs, and a mutant without.
Uncounted(list, p) == 0
Counted(list, p) == Times(p, list)

\* The Pointers that a release leaves without references, and a mutant that is one
\* reference early.
AlmostUnused(new) == {p \in pointers : new[p] <= 1}
Unused(new) == {p \in pointers : new[p] = 0}

\* Values are given to SQLite, and then it lets go of others.  It knows nothing of
\* what an exception in release() does to it: that is the end of this.
Exchange(in, out) ==
    LET new == [p \in Pointers |-> refs[p] + Counted(in, p) - Times(p, out)]
    IN /\ refs' = new
       /\ pointers' = pointers \ {p \in Unused(new) : Times(p, out) > 0}
       /\ revived' = revived \cup {p \in made \ pointers : Times(p, in) > 0}
       /\ broken' = \E p \in Pointers \ pointers : Times(p, out) > 0
       /\ heap' = heap + Times("bytes", in) - Times("bytes", out)
       /\ UNCHANGED made

\* value_to_js(): the object for a Pointer is found in the map.
Given(v) == IF v \in pointers \cup {"null", "bytes"} THEN v ELSE "null"

Make(p) ==
    /\ p \notin made
    /\ made' = made \cup {p} /\ pointers' = pointers \cup {p}
    /\ UNCHANGED <<refs, heap, revived, broken, statements, functions>>

-----------------------------------------------------------------------------
(* Statements.                                                             *)

Prepare(s) ==
    /\ conn = "open" /\ pc[s] = "none"
    /\ pc' = [pc EXCEPT ![s] = "ready"]
    /\ UNCHANGED <<registry, bound, result, functions>>

\* What SQLite lets go of when it refuses to bind: while the statement runs, and
\* whatever Statement.bind() gives it, as that names no statement.  A mutant keeps
\* it.
KeepsRefused(v) == <<>>
Refused(v) == <<v>>

\* bind_all() gives a value, or bind() does.  Nobody asks whether SQLite has taken
\* it.  When malloc() has no memory for the bytes, SQLite is given nothing.
Bind(s, v) ==
    /\ pc[s] # "none"
    /\ \/ /\ pc[s] = "ready"
          /\ bound' = [bound EXCEPT ![s] = v] /\ Exchange(<<v>>, <<bound[s]>>)
       \/ UNCHANGED bound /\ Exchange(<<v>>, Refused(v))
    /\ UNCHANGED <<pc, result, functions>>

Clear(s) ==
    /\ pc[s] # "none"
    /\ bound' = [bound EXCEPT ![s] = "null"]
    /\ Exchange(<<>>, <<bound[s]>>)
    /\ UNCHANGED <<pc, result, functions>>

\* SQLite calls the function, which FunctionsKnown says is in the map; what it answers
\* is awaited.
Step(s) ==
    /\ pc[s] = "ready"
    /\ pc' = [pc EXCEPT ![s] = "calling"]
    /\ UNCHANGED <<registry, bound, result, functions>>

\* The function's answer, and an error instead, whose text SQLite copies and which
\* is freed here.  When malloc() has no memory for an answer that came late, SQLite
\* is not answered, and the statement stays where it is.
Return(s, v) ==
    /\ pc[s] = "calling"
    /\ pc' = [pc EXCEPT ![s] = "row"] /\ result' = [result EXCEPT ![s] = v]
    /\ Exchange(<<v>>, <<>>)
    /\ UNCHANGED <<bound, functions>>
Fail(s) ==
    /\ pc[s] = "calling"
    /\ pc' = [pc EXCEPT ![s] = "ready"]
    /\ Exchange(<<"bytes">>, <<"bytes">>)
    /\ UNCHANGED <<bound, result, functions>>

\* The end of the iterator, and the next step.
Reset(s) ==
    /\ pc[s] = "row"
    /\ pc' = [pc EXCEPT ![s] = "ready"] /\ result' = [result EXCEPT ![s] = "null"]
    /\ Exchange(<<>>, <<result[s]>>)
    /\ UNCHANGED <<bound, functions>>

\* xDestroy, and a mutant that keeps the function.
Kept(gone) == funcs
Without(gone) == funcs \ gone

DropFunctions ==
    /\ conn' = "closed" /\ defs' = [n \in Names |-> 0]
    /\ funcs' = Without({defs[n] : n \in Names})

\* The last statement of a connection that was closed takes it away.
Finalize(s) ==
    /\ pc[s] \in {"ready", "row"}
    /\ pc' = [pc EXCEPT ![s] = "none"]
    /\ bound' = [bound EXCEPT ![s] = "null"] /\ result' = [result EXCEPT ![s] = "null"]
    /\ Exchange(<<>>, <<result[s], bound[s]>>)
    /\ IF conn = "zombie" /\ \A t \in Statements \ {s} : pc[t] = "none"
       THEN DropFunctions ELSE UNCHANGED <<conn, defs, funcs>>
    /\ UNCHANGED <<func_i, lost>>

-----------------------------------------------------------------------------
(* Functions.                                                              *)

\* The function is in the map before its name has memory, and before SQLite has
\* taken it: it refuses to replace one while a statement is under way.
Create(n) ==
    /\ conn = "open" /\ func_i < MaxFuncs
    /\ func_i' = func_i + 1
    /\ \/ /\ funcs' = funcs \cup {func_i'} /\ lost' = lost \cup {func_i'}
          /\ UNCHANGED defs
       \/ /\ defs[n] # 0 /\ \E s \in Statements : pc[s] \in {"calling", "row"}
          /\ UNCHANGED <<funcs, defs, lost>>
       \/ /\ defs[n] = 0 \/ \A s \in Statements : pc[s] \notin {"calling", "row"}
          /\ funcs' = Without({defs[n]}) \cup {func_i'}
          /\ defs' = [defs EXCEPT ![n] = func_i']
          /\ UNCHANGED lost
    /\ UNCHANGED <<registry, statements, conn>>

Close ==
    /\ conn = "open"
    /\ IF \A s \in Statements : pc[s] = "none" THEN DropFunctions
       ELSE conn' = "zombie" /\ UNCHANGED <<defs, funcs>>
    /\ UNCHANGED <<registry, statements, func_i, lost>>

Next ==
    /\ ~broken
    /\ \/ \E p \in Pointers : Make(p)
       \/ \E s \in Statements : Prepare(s) \/ Clear(s) \/ Step(s) \/ Fail(s) \/ Reset(s) \/ Finalize(s)
       \/ \E s \in Statements, v \in made \cup {"null", "bytes"} : Bind(s, v) \/ Return(s, v)
       \/ \E n \in Names : Create(n)
       \/ Close

Spec == Init /\ [][Next]_vars

-----------------------------------------------------------------------------
(* Properties.                                                             *)

Holders(v) ==
    Cardinality({s \in Statements : bound[s] = v}) + Cardinality({s \in Statements : result[s] = v})

GivenBack(v) == Given(v) = v \/ v \in revived

\* Whatever is bound, returned, refused, replaced and let go of, SQLite has as many
\* references to a Pointer as it counts and as many copies as there are in memory,
\* and a Pointer that SQLite has is given back as the same object, unless it was
\* used again once it had been destroyed; only then is there an exception, too.
Accounted ==
    IF broken THEN revived # {}
    ELSE /\ \A p \in Pointers : refs[p] = Holders(p)
         /\ heap = Holders("bytes")
         /\ \A s \in Statements : GivenBack(bound[s]) /\ GivenBack(result[s])

\* The same object is given back for every Pointer that SQLite has, and no exception
\* goes through SQLite.
SameObject ==
    ~broken /\ \A s \in Statements : Given(bound[s]) = bound[s] /\ Given(result[s]) = result[s]

\* Statement.bind() binds a value to a statement that is not under way.
BindTakes ==
    [][\A s \in Statements, v \in Values :
          Bind(s, v) /\ pc[s] = "ready" => bound'[s] = v]_vars

\* The functions in the map are those SQLite has: a statement that can still run,
\* of a connection that was closed even, finds its function, and none is kept that
\* cannot be called, but for those whose name found no memory.
FunctionsKnown ==
    /\ funcs \ lost = {defs[n] : n \in Names} \ {0}
    /\ (\E s \in Statements : pc[s] # "none") => conn # "closed"

=============================================================================
