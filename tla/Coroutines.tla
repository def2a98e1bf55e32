----------------------------- MODULE Coroutines -----------------------------
(***************************************************************************)
(* What asyncify.js promises of concurrent calls of exports, without its   *)
(* stacks and shared variables: each call is a coroutine.  It runs forward,*)
(* waits inside an import or is suspended; the import it waits for answers *)
(* it, and none but that one.                                              *)
(***************************************************************************)
EXTENDS Naturals, Sequences

CONSTANTS Calls, undefined

VARIABLES
    status,         \* "start", "wasm", "import", "suspended", "done" or "failed"
    running,        \* the calls on the native stack, innermost last
    imports,        \* how many imports each call has called
    got             \* the answer each call had from its last import

cvars == <<status, running, imports, got>>

Init ==
    /\ status = [c \in Calls |-> "start"]
    /\ running = <<>>
    /\ imports = [c \in Calls |-> 0]
    /\ got = [c \in Calls |-> undefined]

Top(c) == running # <<>> /\ running[Len(running)] = c
Leave == running' = SubSeq(running, 1, Len(running) - 1)
Becomes(c, s) == status' = [status EXCEPT ![c] = s]
Answered(c) == got' = [got EXCEPT ![c] = <<c, imports[c]>>]

Start(c) ==
    /\ status[c] = "start" /\ Becomes(c, "wasm")
    /\ running # <<>> => status[running[Len(running)]] = "import"
    /\ running' = Append(running, c)
    /\ UNCHANGED <<imports, got>>

Ask(c) ==
    /\ Top(c) /\ status[c] = "wasm" /\ Becomes(c, "import")
    /\ imports' = [imports EXCEPT ![c] = @ + 1]
    /\ UNCHANGED <<running, got>>

AnswerAtOnce(c) ==
    /\ Top(c) /\ status[c] = "import" /\ Becomes(c, "wasm") /\ Answered(c)
    /\ UNCHANGED <<running, imports>>

Suspend(c) ==
    /\ Top(c) /\ status[c] = "import" /\ Becomes(c, "suspended") /\ Leave
    /\ UNCHANGED <<imports, got>>

AnswerLater(c) ==
    /\ running = <<>> /\ status[c] = "suspended" /\ Becomes(c, "wasm") /\ Answered(c)
    /\ running' = <<c>>
    /\ UNCHANGED imports

Finish(c) ==
    /\ Top(c) /\ status[c] = "wasm" /\ Becomes(c, "done") /\ Leave
    /\ UNCHANGED <<imports, got>>

Fail(c) ==
    /\ Becomes(c, "failed")
    /\ \/ Top(c) /\ status[c] = "import" /\ Leave
       \/ status[c] = "suspended" /\ UNCHANGED running
    /\ UNCHANGED <<imports, got>>

Next == \E c \in Calls :
    \/ Start(c) \/ Ask(c) \/ AnswerAtOnce(c) \/ Suspend(c)
    \/ AnswerLater(c) \/ Finish(c) \/ Fail(c)

Spec == Init /\ [][Next]_cvars

=============================================================================
