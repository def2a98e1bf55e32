------------------------------ MODULE Asyncify ------------------------------
(***************************************************************************)
(* src/src/asyncify.js: how one WebAssembly instance runs several calls of *)
(* its exports as coroutines.  An import that returns a promise makes the  *)
(* wasm frames of the call unwind into a block of memory, a "stack";       *)
(* export_stub() awaits the promise and rewinds them from it.  Each member *)
(* of Calls is one call of a wrapped export.  JavaScript runs to           *)
(* completion: a call starts on an empty native stack or inside an import  *)
(* of another call, and resumes on an empty one.                           *)
(***************************************************************************)
EXTENDS Naturals, Sequences

CONSTANTS
    Calls,          \* the calls of exports
    Stacks,         \* the blocks that malloc(stack_size) may return
    undefined,      \* JavaScript's undefined
    MaxImports,     \* bound: the calls of imports that one call makes
    Faults          \* the fallible steps that may fail

ASSUME ConstantsAssumption ==
    /\ MaxImports \in Nat
    /\ undefined \notin Stacks \cup Calls \cup (Calls \X Nat)
    /\ Faults \subseteq {"throw", "reject", "malloc"}

VARIABLES
    value, stack,   \* the two variables of the module
    stacks,         \* the array of free stacks
    state,          \* asyncify_get_state() of the instance
    data,           \* the stack the instance unwinds into or rewinds from
    memory,         \* the call whose frames were last saved in each allocated stack
    active,         \* the calls on the native stack, innermost last
    pc,             \* where each call is
    imports,        \* how many imports each call has called
    got,            \* the answer each call had from its last import
    prom,           \* prom of each call that unwound: its import's promise
    save_stack,     \* save_stack of each call that unwound
    settled         \* the state of prom

jsVars == <<value, stack, stacks>>
instanceVars == <<state, data, memory>>
callVars == <<imports, got, prom, save_stack, settled>>
vars == <<value, stack, stacks, state, data, memory, active, pc,
          imports, got, prom, save_stack, settled>>

\* The promise of a call's n-th import, and the value it resolves with.
Promises == Calls \X (1..MaxImports)

PCs == {"start", "wasm", "import", "unwinding", "suspended", "rewinding", "done", "failed"}

\* The variables of asyncify.js and of the instance have their types; a stack
\* that is free is a stack.
TypeOK ==
    /\ value \in Promises \cup {undefined}
    /\ stack \in Stacks \cup {undefined}
    /\ stacks \in Seq(Stacks)
    /\ state \in {"None", "Unwinding", "Rewinding"}
    /\ data \in Stacks \cup {undefined}
    /\ memory \in [Stacks -> Calls \cup {undefined}]
    /\ active \in Seq(Calls)
    /\ pc \in [Calls -> PCs]
    /\ imports \in [Calls -> 0..MaxImports]
    /\ got \in [Calls -> Promises \cup {undefined}]
    /\ prom \in [Calls -> Promises \cup {undefined}]
    /\ save_stack \in [Calls -> Stacks \cup {undefined}]
    /\ settled \in [Calls -> {"pending", "resolved", "rejected"}]

Init ==
    /\ value = undefined /\ stack = undefined /\ stacks = <<>>
    /\ state = "None" /\ data = undefined
    /\ memory = [s \in Stacks |-> undefined]
    /\ active = <<>>
    /\ pc = [c \in Calls |-> "start"]
    /\ imports = [c \in Calls |-> 0]
    /\ got = [c \in Calls |-> undefined]
    /\ prom = [c \in Calls |-> undefined]
    /\ save_stack = [c \in Calls |-> undefined]
    /\ settled = [c \in Calls |-> "pending"]

-----------------------------------------------------------------------------
Innermost(c) == active # <<>> /\ active[Len(active)] = c
Popped == SubSeq(active, 1, Len(active) - 1)

\* export_stub() calls the export, from the event loop or from inside an import.
Call(c) ==
    /\ pc[c] = "start"
    /\ active # <<>> => pc[active[Len(active)]] = "import"
    /\ active' = Append(active, c)
    /\ pc' = [pc EXCEPT ![c] = "wasm"]
    /\ UNCHANGED <<jsVars, instanceVars, callVars>>

\* import_stub() calls the import; no unwinding is under way (line 67).
EnterImport(c) ==
    /\ Innermost(c) /\ pc[c] = "wasm"
    /\ state = "None"
    /\ imports[c] < MaxImports
    /\ imports' = [imports EXCEPT ![c] = @ + 1]
    /\ pc' = [pc EXCEPT ![c] = "import"]
    /\ UNCHANGED <<jsVars, instanceVars, active, got, prom, save_stack, settled>>

ImportReturns(c) ==
    /\ Innermost(c) /\ pc[c] = "import"
    /\ got' = [got EXCEPT ![c] = <<c, imports[c]>>]
    /\ pc' = [pc EXCEPT ![c] = "wasm"]
    /\ UNCHANGED <<jsVars, instanceVars, active, imports, prom, save_stack, settled>>

\* An exception leaves the wasm frames, and the call fails.
Throws(c) ==
    /\ active' = Popped
    /\ pc' = [pc EXCEPT ![c] = "failed"]

ImportThrows(c) ==
    /\ Innermost(c) /\ pc[c] = "import"
    /\ "throw" \in Faults
    /\ Throws(c)
    /\ UNCHANGED <<jsVars, instanceVars, callVars>>

Allocated == {s \in Stacks : memory[s] # undefined}

\* get_stack(): a free stack, or else a new one.  Its mutant leaves the stack
\* it takes among the free ones.
PeekStack ==
    \/ stacks # <<>> /\ stack' = stacks[Len(stacks)] /\ UNCHANGED stacks
    \/ stacks = <<>> /\ stack' \in Stacks \ Allocated /\ UNCHANGED stacks
get_stack ==
    \/ /\ stacks # <<>>
       /\ stack' = stacks[Len(stacks)]
       /\ stacks' = SubSeq(stacks, 1, Len(stacks) - 1)
    \/ /\ stacks = <<>>
       /\ stack' \in Stacks \ Allocated
       /\ UNCHANGED stacks

\* The import answers with a promise (lines 69 to 76): start_unwind() makes the
\* frames save themselves in the stack as they return.  When malloc() fails the
\* exception leaves the promise in value.
ImportSuspends(c) ==
    /\ Innermost(c) /\ pc[c] = "import"
    /\ value' = <<c, imports[c]>>
    /\ \/ /\ get_stack
          /\ state' = "Unwinding"
          /\ data' = stack'
          /\ memory' = [memory EXCEPT ![stack'] = c]
          /\ pc' = [pc EXCEPT ![c] = "unwinding"]
          /\ UNCHANGED active
       \/ /\ "malloc" \in Faults /\ stacks = <<>>
          /\ Throws(c)
          /\ UNCHANGED <<stack, stacks, instanceVars>>
    /\ UNCHANGED <<callVars>>

\* A mutant without the loop: the second unwinding of a call goes unnoticed.
UnwoundOnce(c) ==
    /\ Innermost(c) /\ pc[c] = "unwinding"
    /\ active' = Popped
    /\ \/ /\ save_stack[c] = undefined
          /\ state' = "None"
          /\ save_stack' = [save_stack EXCEPT ![c] = stack]
          /\ prom' = [prom EXCEPT ![c] = value]
          /\ value' = undefined /\ stack' = undefined
          /\ settled' = [settled EXCEPT ![c] = "pending"]
          /\ pc' = [pc EXCEPT ![c] = "suspended"]
       \/ /\ save_stack[c] # undefined
          /\ pc' = [pc EXCEPT ![c] = "done"]
          /\ UNCHANGED <<state, save_stack, prom, value, stack, settled>>
    /\ UNCHANGED <<stacks, data, memory, imports, got>>

\* The frames are gone and export_stub() goes on at line 82 or 94, to the await
\* of line 88.
Unwound(c) ==
    /\ Innermost(c) /\ pc[c] = "unwinding"
    /\ active' = Popped
    /\ state' = "None"
    /\ save_stack' = [save_stack EXCEPT ![c] = stack]
    /\ prom' = [prom EXCEPT ![c] = value]
    /\ value' = undefined /\ stack' = undefined
    /\ settled' = [settled EXCEPT ![c] = "pending"]
    /\ pc' = [pc EXCEPT ![c] = "suspended"]
    /\ UNCHANGED <<stacks, data, memory, imports, got>>

\* The promise of c's import settles.
Settle(c) ==
    /\ pc[c] = "suspended" /\ settled[c] = "pending"
    /\ \/ settled' = [settled EXCEPT ![c] = "resolved"]
       \/ "reject" \in Faults /\ settled' = [settled EXCEPT ![c] = "rejected"]
    /\ UNCHANGED <<jsVars, instanceVars, active, pc, imports, got, prom, save_stack>>

\* A continuation runs on an empty native stack.  In its mutant it also waits
\* for the promises of all other calls.
AllSettled(c) ==
    /\ active = <<>>
    /\ \A d \in Calls : pc[d] = "suspended" => settled[d] # "pending"
OnEmptyStack(c) == active = <<>>

\* Lines 88 to 91.
Resume(c) ==
    /\ pc[c] = "suspended" /\ settled[c] = "resolved"
    /\ OnEmptyStack(c)
    /\ value' = prom[c]
    /\ stack' = save_stack[c]
    /\ state' = "Rewinding" /\ data' = save_stack[c]
    /\ active' = <<c>>
    /\ pc' = [pc EXCEPT ![c] = "rewinding"]
    /\ UNCHANGED <<stacks, memory, callVars>>

\* The await of line 88 throws: the call fails, its frames are never rewound and
\* its stack never returns to stacks.
Reject(c) ==
    /\ pc[c] = "suspended" /\ settled[c] = "rejected"
    /\ OnEmptyStack(c)
    /\ pc' = [pc EXCEPT ![c] = "failed"]
    /\ UNCHANGED <<jsVars, instanceVars, active, callVars>>

\* Mutants: the stack is dropped; stack or value is read after the reset.
ForgetStack == UNCHANGED stacks
ReturnAfterReset == stacks' = Append(stacks, undefined)
ReturnStack == stacks' = Append(stacks, stack)
AnswerAfterReset == undefined
Answer == value

\* The frames that were saved in data are back, and the call of the import that
\* made them unwind answers (lines 58 to 64).
Rewound(c) ==
    /\ Innermost(c) /\ pc[c] = "rewinding"
    /\ state' = "None"
    /\ ReturnStack
    /\ got' = [got EXCEPT ![memory[data]] = Answer]
    /\ value' = undefined /\ stack' = undefined
    /\ pc' = [pc EXCEPT ![c] = "wasm"]
    /\ UNCHANGED <<data, memory, active, imports, prom, save_stack, settled>>

Return(c) ==
    /\ Innermost(c) /\ pc[c] = "wasm"
    /\ active' = Popped
    /\ pc' = [pc EXCEPT ![c] = "done"]
    /\ UNCHANGED <<jsVars, instanceVars, callVars>>

Continue(c) ==
    \/ EnterImport(c) \/ ImportReturns(c) \/ ImportThrows(c) \/ ImportSuspends(c)
    \/ Unwound(c) \/ Resume(c) \/ Reject(c) \/ Rewound(c) \/ Return(c)

Next == \E c \in Calls : Call(c) \/ Settle(c) \/ Continue(c)

\* WebAssembly and imports go on, and the event loop runs a continuation whose
\* promise has settled.  Nothing makes a promise settle.
Fairness == \A c \in Calls : WF_vars(Continue(c))

Spec == Init /\ [][Next]_vars /\ Fairness

-----------------------------------------------------------------------------
(* Properties.                                                             *)

Saved == {c \in Calls : pc[c] \in {"suspended", "rewinding"}}
FreeStacks == {stacks[i] : i \in DOMAIN stacks}

\* The frames of a call that waits stay as they were saved, however many calls
\* unwind meanwhile: its stack is neither free nor another call's.
FramesPreserved ==
    \A c \in Saved : memory[save_stack[c]] = c /\ save_stack[c] \notin FreeStacks

\* Two variables serve all calls, and no call leaves them or the instance in
\* the middle of an operation: between tasks, and whenever WebAssembly runs
\* forward, nothing unwinds or rewinds.  Line 67's "Corruption!" is never thrown.
NeverCorrupt ==
    \/ active = <<>> /\ state = "None" /\ stack = undefined
    \/ /\ active # <<>>
       /\ LET c == active[Len(active)] IN
             \/ pc[c] \in {"wasm", "import"} /\ state = "None" /\ stack = undefined
             \/ pc[c] = "unwinding" /\ state = "Unwinding" /\ stack = data
             \/ pc[c] = "rewinding" /\ state = "Rewinding" /\ stack = save_stack[c]

\* A stack is used again once its call has resumed: but for those of rejected
\* calls, each one ever allocated is free or holds the frames of a call.
NoStackLost ==
    \A s \in Allocated :
        \/ s \in FreeStacks \cup {stack}
        \/ \E c \in Calls : save_stack[c] = s /\ (pc[c] = "suspended" \/ settled[c] = "rejected")

\* The coroutines: to unwind and to rewind are steps that nobody sees.
Status == [c \in Calls |-> CASE pc[c] = "unwinding" -> "import"
                             [] pc[c] = "rewinding" -> "suspended"
                             [] OTHER -> pc[c]]
Running == IF active # <<>> /\ pc[active[Len(active)]] = "rewinding" THEN Popped ELSE active
Promise == INSTANCE Coroutines WITH status <- Status, running <- Running

\* An import that suspended its call answers it with what its own promise
\* resolved with, whoever else resumed in between, and a call that waits in
\* export_stub() is suspended once: each call runs as a coroutine of its own.
ImplementsCoroutines == Promise!Spec

\* A call whose promise has settled goes on, whichever calls still wait.
SettledCallsGoOn ==
    \A c \in Calls :
        pc[c] = "suspended" /\ settled[c] # "pending" ~> pc[c] \notin {"suspended", "rewinding"}

=============================================================================
