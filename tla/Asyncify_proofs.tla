--------------------------- MODULE Asyncify_proofs ---------------------------
(***************************************************************************)
(* Proofs about Asyncify, for any number of calls, stacks and imports.     *)
(***************************************************************************)
EXTENDS Asyncify, SequenceTheorems, TLAPS

Top == active[Len(active)]
OnStack(c) == \E i \in 1..Len(active) : active[i] = c

\* The native stack: each call is on it once; those below the innermost call wait
\* in their imports.  A call that is rewound is alone on it.
Nested ==
    /\ \A i, j \in 1..Len(active) : active[i] = active[j] => i = j
    /\ \A i \in 1..Len(active) :
          \/ pc[active[i]] = "import"
          \/ i = Len(active) /\ pc[active[i]] \in {"wasm", "unwinding"}
          \/ i = 1 /\ Len(active) = 1 /\ pc[active[i]] = "rewinding"
    /\ \A c \in Calls : pc[c] \in {"wasm", "import", "unwinding", "rewinding"} => OnStack(c)

\* The variables of the module and the state of the instance are the innermost call's.
Shared ==
    /\ active = <<>> => state = "None" /\ stack = undefined
    /\ active # <<>> =>
          \/ pc[Top] \in {"wasm", "import"} /\ state = "None" /\ stack = undefined
          \/ /\ pc[Top] = "unwinding" /\ state = "Unwinding"
             /\ stack \in Stacks /\ stack = data /\ memory[stack] = Top
             /\ value = <<Top, imports[Top]>>
          \/ /\ pc[Top] = "rewinding" /\ state = "Rewinding"
             /\ stack = save_stack[Top] /\ data = stack
             /\ value = prom[Top]

\* A call waits for its last import, which it has called.
Waits ==
    \A c \in Calls :
        /\ pc[c] \in {"import", "unwinding", "suspended", "rewinding"} => imports[c] >= 1
        /\ pc[c] \in {"suspended", "rewinding"} => prom[c] = <<c, imports[c]>>
        /\ settled[c] = "rejected" => pc[c] \in {"suspended", "failed"}

\* The calls that have a stack: those that wait, and the rejected ones.
Holder(c) == pc[c] \in {"suspended", "rewinding"} \/ settled[c] = "rejected"

\* Each stack has one owner: a call, the array of free stacks, or the variable.
Owners ==
    /\ \A i, j \in 1..Len(stacks) : stacks[i] = stacks[j] => i = j
    /\ \A i \in 1..Len(stacks) : memory[stacks[i]] # undefined /\ stacks[i] # stack
    /\ \A c \in Calls : Holder(c) =>
          /\ save_stack[c] \in Stacks /\ memory[save_stack[c]] = c
          /\ \A i \in 1..Len(stacks) : stacks[i] # save_stack[c]

AsyncInv == TypeOK /\ Nested /\ Shared /\ Waits /\ Owners /\ NoStackLost

-----------------------------------------------------------------------------
(* The native stack.                                                       *)

\* What is left of a sequence when its last element is taken.
LEMMA FrontFacts ==
    ASSUME NEW S, NEW q \in Seq(S), q # <<>>
    PROVE  /\ SubSeq(q, 1, Len(q) - 1) \in Seq(S)
           /\ Len(SubSeq(q, 1, Len(q) - 1)) = Len(q) - 1
           /\ \A i \in 1..Len(q) - 1 : SubSeq(q, 1, Len(q) - 1)[i] = q[i]
<1> DEFINE n == Len(q) - 1
<1>1. n \in Nat /\ n \in Int /\ \A i \in 1..n : q[i] \in S
  BY EmptySeq, ElementOfSeq
<1> HIDE DEF n
<1>2. /\ SubSeq(q, 1, n) \in Seq(S) /\ Len(SubSeq(q, 1, n)) = n
      /\ \A i \in 1..n : SubSeq(q, 1, n)[i] = q[i]
  BY <1>1, SubSeqProperties
<1> QED BY <1>2 DEF n

\* The innermost call, the calls below it and the native stack it leaves.
LEMMA TopFacts ==
    ASSUME TypeOK, Nested, NEW c \in Calls, Innermost(c)
    PROVE  /\ Len(active) \in Nat \ {0} /\ Len(active) \in 1..Len(active) /\ active # <<>>
           /\ Top = c
           /\ \A i \in 1..Len(active) : i # Len(active) =>
                 active[i] # c /\ pc[active[i]] = "import"
           /\ Popped \in Seq(Calls) /\ Len(Popped) = Len(active) - 1
           /\ \A i \in 1..Len(active) - 1 : Popped[i] = active[i]
<1>1. Len(active) \in Nat \ {0} /\ active # <<>> /\ Top = c
  BY EmptySeq DEF Innermost, Top, TypeOK
<1>2. /\ Popped \in Seq(Calls) /\ Len(Popped) = Len(active) - 1
      /\ \A i \in 1..Len(active) - 1 : Popped[i] = active[i]
  BY <1>1, FrontFacts DEF Popped, TypeOK
<1>3. \A i \in 1..Len(active) : i # Len(active) =>
         active[i] # c /\ pc[active[i]] = "import"
  BY <1>1 DEF Nested, Top
<1> QED BY <1>1, <1>2, <1>3

\* A call that starts inside an import, or on an empty native stack.
LEMMA PushNested ==
    ASSUME TypeOK, Nested, NEW c \in Calls, NEW s \in {"wasm", "rewinding"},
           pc[c] \in {"start", "suspended"},
           active # <<>> => pc[Top] = "import", s = "rewinding" => active = <<>>,
           active' = Append(active, c), pc' = [pc EXCEPT ![c] = s]
    PROVE  Nested' /\ active' \in Seq(Calls) /\ active' # <<>> /\ Top' = c
<1>1. /\ active' \in Seq(Calls) /\ active' # <<>> /\ Len(active') = Len(active) + 1
      /\ \A i \in 1..Len(active) : active'[i] = active[i]
      /\ active'[Len(active) + 1] = c /\ Len(active) \in Nat
  BY AppendProperties, LenProperties DEF TypeOK
<1>2. \A i \in 1..Len(active) : active[i] \in Calls /\ active[i] # c /\ pc[active[i]] = "import"
  <2> SUFFICES ASSUME NEW i \in 1..Len(active)
               PROVE  active[i] \in Calls /\ active[i] # c /\ pc[active[i]] = "import"
    OBVIOUS
  <2>1. active[i] \in Calls /\ active # <<>>
    BY ElementOfSeq, EmptySeq DEF TypeOK
  <2>2. pc[Top] = "import"
    BY <2>1
  <2> QED BY <2>1, <2>2 DEF Nested, Top
<1>3. \A i \in 1..Len(active') :
         \/ i \in 1..Len(active) /\ active'[i] = active[i]
         \/ i = Len(active') /\ active'[i] = c
  BY <1>1
<1>4. \A i, j \in 1..Len(active') : active'[i] = active'[j] => i = j
  BY <1>2, <1>3 DEF Nested
<1>5. \A i \in 1..Len(active') :
          \/ pc'[active'[i]] = "import"
          \/ i = Len(active') /\ pc'[active'[i]] \in {"wasm", "unwinding"}
          \/ i = 1 /\ Len(active') = 1 /\ pc'[active'[i]] = "rewinding"
  <2>1. s = "rewinding" => Len(active') = 1
    BY <1>1, EmptySeq
  <2>2. pc'[c] = s /\ \A d \in Calls \ {c} : pc'[d] = pc[d]
    BY DEF TypeOK
  <2> QED BY <1>1, <1>2, <1>3, <2>1, <2>2
<1>6. ASSUME NEW d \in Calls, pc'[d] \in {"wasm", "import", "unwinding", "rewinding"}
      PROVE  OnStack(d)'
  <2>1. CASE d = c
    BY <1>1, <2>1 DEF OnStack
  <2>2. CASE d # c
    <3>1. PICK i \in 1..Len(active) : active[i] = d
      BY <1>6, <2>2 DEF TypeOK, Nested, OnStack
    <3> QED BY <1>1, <3>1 DEF OnStack
  <2> QED BY <2>1, <2>2
<1> QED BY <1>1, <1>4, <1>5, <1>6 DEF Nested, Top

\* The innermost call goes on.
LEMMA StayNested ==
    ASSUME TypeOK, Nested, NEW c \in Calls, Innermost(c),
           NEW s \in {"wasm", "import", "unwinding"},
           active' = active, pc' = [pc EXCEPT ![c] = s]
    PROVE  Nested' /\ active' # <<>> /\ Top' = c /\ pc'[c] = s
<1>1. \A i \in 1..Len(active) : active[i] \in Calls
  BY ElementOfSeq DEF TypeOK
<1>2. pc'[c] = s /\ \A d \in Calls \ {c} : pc'[d] = pc[d]
  BY DEF TypeOK
<1>3. \A i \in 1..Len(active) :
          \/ pc'[active[i]] = "import"
          \/ i = Len(active) /\ pc'[active[i]] \in {"wasm", "unwinding"}
  BY <1>1, <1>2, TopFacts DEF Top
<1>4. \A d \in Calls : pc'[d] \in {"wasm", "import", "unwinding", "rewinding"} => OnStack(d)
  <2>1. OnStack(c)
    BY TopFacts DEF OnStack, Top
  <2> QED BY <1>2, <2>1 DEF Nested
<1> QED BY <1>2, <1>3, <1>4, TopFacts DEF Nested, OnStack, Top

\* The innermost call leaves the native stack; the one below it waits in an import.
LEMMA PopNested ==
    ASSUME TypeOK, Nested, NEW c \in Calls, Innermost(c),
           NEW s \in {"suspended", "done", "failed"},
           active' = Popped, pc' = [pc EXCEPT ![c] = s]
    PROVE  /\ Nested' /\ active' \in Seq(Calls)
           /\ active' # <<>> => pc'[Top'] = "import"
<1> DEFINE n == Len(active) - 1
<1>1. /\ n \in Nat /\ Len(active') = n /\ active' \in Seq(Calls)
      /\ \A i \in 1..n : /\ i \in 1..Len(active) /\ i # Len(active)
                          /\ active'[i] = active[i] /\ active[i] \in Calls
                          /\ active[i] # c /\ pc[active[i]] = "import"
  <2>1. \A i \in 1..Len(active) : active[i] \in Calls
    BY ElementOfSeq DEF TypeOK
  <2> QED BY <2>1, TopFacts
<1>2. pc'[c] = s /\ \A d \in Calls \ {c} : pc'[d] = pc[d]
  BY DEF TypeOK
<1>3. \A i \in 1..n : pc'[active'[i]] = "import"
  BY <1>1, <1>2
<1>4. \A i, j \in 1..n : active'[i] = active'[j] => i = j
  BY <1>1 DEF Nested
<1>5. ASSUME NEW d \in Calls, pc'[d] \in {"wasm", "import", "unwinding", "rewinding"}
      PROVE  OnStack(d)'
  <2>1. d # c /\ pc[d] = pc'[d]
    BY <1>2, <1>5
  <2>2. PICK i \in 1..Len(active) : active[i] = d
    BY <1>5, <2>1 DEF Nested, OnStack
  <2>3. i \in 1..n
    BY <2>1, <2>2, <1>1, TopFacts DEF Top
  <2> QED BY <1>1, <2>2, <2>3 DEF OnStack
<1>6. active' # <<>> => pc'[Top'] = "import"
  BY <1>1, <1>3, EmptySeq DEF Top
<1> QED BY <1>1, <1>3, <1>4, <1>5, <1>6 DEF Nested

-----------------------------------------------------------------------------
(* The stacks.                                                             *)

\* get_stack() answers with a stack that nobody else has.
LEMMA GetStackFacts ==
    ASSUME TypeOK, Owners, stack = undefined, get_stack
    PROVE  /\ stack' \in Stacks /\ stacks' \in Seq(Stacks)
           /\ \A i, j \in 1..Len(stacks') : stacks'[i] = stacks'[j] => i = j
           /\ \A i \in 1..Len(stacks') : stacks'[i] # stack' /\ \E j \in 1..Len(stacks) : stacks'[i] = stacks[j]
           /\ \A j \in 1..Len(stacks) :
                 stacks[j] # stack' => \E i \in 1..Len(stacks') : stacks'[i] = stacks[j]
           /\ \A c \in Calls : Holder(c) => save_stack[c] # stack'
<1>1. CASE stacks # <<>> /\ stack' = stacks[Len(stacks)]
           /\ stacks' = SubSeq(stacks, 1, Len(stacks) - 1)
  <2>1. Len(stacks) \in Nat \ {0} /\ \A i \in 1..Len(stacks) : stacks[i] \in Stacks
    BY <1>1, EmptySeq, ElementOfSeq DEF TypeOK
  <2>2. /\ stacks' \in Seq(Stacks) /\ Len(stacks') = Len(stacks) - 1
        /\ \A i \in 1..Len(stacks) - 1 : stacks'[i] = stacks[i]
    BY <1>1, FrontFacts DEF TypeOK
  <2>3. Len(stacks) \in 1..Len(stacks) /\ \A i \in 1..Len(stacks) - 1 : i \in 1..Len(stacks) /\ i # Len(stacks)
    BY <2>1
  <2>4. \A j \in 1..Len(stacks) : j # Len(stacks) => j \in 1..Len(stacks) - 1
    BY <2>1
  <2>5. \A c \in Calls : Holder(c) => save_stack[c] # stack'
    BY <1>1, <2>3 DEF Owners
  <2>6. \A j \in 1..Len(stacks) :
           stacks[j] # stack' => \E i \in 1..Len(stacks') : stacks'[i] = stacks[j]
    BY <1>1, <2>2, <2>4
  <2>7. \A i \in 1..Len(stacks') : stacks'[i] # stack' /\ \E j \in 1..Len(stacks) : stacks'[i] = stacks[j]
    BY <1>1, <2>2, <2>3 DEF Owners
  <2>8. \A i, j \in 1..Len(stacks') : stacks'[i] = stacks'[j] => i = j
    <3> SUFFICES ASSUME NEW i \in 1..Len(stacks'), NEW j \in 1..Len(stacks'), stacks'[i] = stacks'[j]
                 PROVE  i = j
      OBVIOUS
    <3>1. stacks[i] = stacks[j] /\ i \in 1..Len(stacks) /\ j \in 1..Len(stacks)
      BY <2>2, <2>3
    <3> QED BY <3>1 DEF Owners
  <2> QED BY <1>1, <2>1, <2>2, <2>3, <2>5, <2>6, <2>7, <2>8
<1>2. CASE stacks = <<>> /\ stack' \in Stacks \ Allocated /\ stacks' = stacks
  <2>1. Len(stacks) = 0
    BY <1>2
  <2>2. \A c \in Calls : Holder(c) => save_stack[c] # stack'
    BY <1>2, ConstantsAssumption DEF Owners, Allocated
  <2> QED BY <1>2, <2>1, <2>2 DEF TypeOK
<1> QED BY <1>1, <1>2 DEF get_stack

\* The stack of a call that is rewound is free after that.
LEMMA ReturnStackFacts ==
    ASSUME TypeOK, stack \in Stacks, ReturnStack
    PROVE  /\ stacks' \in Seq(Stacks) /\ Len(stacks') = Len(stacks) + 1 /\ Len(stacks) \in Nat
           /\ \A i \in 1..Len(stacks) : stacks'[i] = stacks[i]
           /\ stacks'[Len(stacks) + 1] = stack
BY AppendProperties, LenProperties DEF TypeOK, ReturnStack

-----------------------------------------------------------------------------
(* The steps.                                                              *)

LEMMA InitAsyncInv == Init => AsyncInv
<1> SUFFICES ASSUME Init PROVE AsyncInv
  OBVIOUS
<1>1. Len(active) = 0 /\ Len(stacks) = 0
  BY EmptySeq DEF Init
<1>2. TypeOK
  BY EmptySeq, ConstantsAssumption DEF Init, TypeOK, PCs
<1>3. Nested /\ Shared /\ Waits /\ Owners /\ NoStackLost
  BY <1>1, ConstantsAssumption
     DEF Init, Nested, Shared, Waits, Owners, Holder, NoStackLost, Allocated
<1> QED BY <1>2, <1>3 DEF AsyncInv

\* What the steps keep that leave the stacks and the module's variables alone.
LEMMA SameStacks ==
    ASSUME AsyncInv, TypeOK', Nested', UNCHANGED <<stack, stacks, memory, save_stack, settled>>,
           NEW c \in Calls, pc[c] \notin {"suspended", "rewinding"}, settled[c] # "rejected",
           NEW s \in PCs \ {"suspended", "rewinding"}, pc' = [pc EXCEPT ![c] = s]
    PROVE  Owners' /\ NoStackLost'
<1> USE DEF AsyncInv
<1>1. \A d \in Calls : Holder(d)' <=> Holder(d)
  BY DEF Holder, TypeOK
<1>2. Owners'
  BY <1>1 DEF Owners
<1>3. NoStackLost'
  <2> SUFFICES ASSUME NEW t \in Allocated, t \notin FreeStacks \cup {stack}
               PROVE  \E d \in Calls : save_stack[d] = t /\ (pc'[d] = "suspended" \/ settled[d] = "rejected")
    BY DEF NoStackLost, Allocated, FreeStacks
  <2>1. PICK d \in Calls : save_stack[d] = t /\ (pc[d] = "suspended" \/ settled[d] = "rejected")
    BY DEF NoStackLost
  <2> QED BY <2>1 DEF TypeOK
<1> QED BY <1>2, <1>3

LEMMA CallStep == ASSUME AsyncInv, NEW c \in Calls, Call(c) PROVE AsyncInv'
<1> USE DEF AsyncInv, Call, jsVars, instanceVars, callVars
<1>1. Nested' /\ active' \in Seq(Calls) /\ active' # <<>> /\ Top' = c
  BY PushNested DEF Top
<1>2. TypeOK'
  BY <1>1 DEF TypeOK, PCs
<1>3. Shared'
  BY <1>1 DEF Shared, Top, TypeOK
<1>4. Waits' /\ settled[c] # "rejected"
  BY DEF Waits, TypeOK
<1>5. Owners' /\ NoStackLost'
  BY <1>1, <1>2, <1>4, SameStacks DEF PCs
<1> QED BY <1>1, <1>2, <1>3, <1>4, <1>5

LEMMA EnterImportStep == ASSUME AsyncInv, NEW c \in Calls, EnterImport(c) PROVE AsyncInv'
<1> USE DEF AsyncInv, EnterImport, jsVars, instanceVars
<1>1. Nested' /\ active' # <<>> /\ Top' = c /\ pc'[c] = "import"
  BY StayNested
<1>2. imports[c] \in Nat /\ imports'[c] = imports[c] + 1 /\ imports' \in [Calls -> 0..MaxImports]
  BY ConstantsAssumption DEF TypeOK
<1>3. TypeOK'
  BY <1>1, <1>2 DEF TypeOK, PCs
<1>4. Shared'
  BY <1>1, TopFacts DEF Shared
<1>5. Waits' /\ settled[c] # "rejected"
  <2>1. /\ imports'[c] >= 1 /\ pc'[c] = "import"
        /\ \A d \in Calls \ {c} : imports'[d] = imports[d] /\ pc'[d] = pc[d]
    BY <1>2 DEF TypeOK
  <2> QED BY <2>1 DEF Waits
<1>6. Owners' /\ NoStackLost'
  BY <1>1, <1>3, <1>5, SameStacks DEF PCs
<1> QED BY <1>1, <1>3, <1>4, <1>5, <1>6

\* A call in an import waits for one that it has called.
LEMMA LastImport ==
    ASSUME AsyncInv, NEW c \in Calls, pc[c] \in {"import", "unwinding", "suspended", "rewinding"}
    PROVE  <<c, imports[c]>> \in Promises /\ <<c, imports[c]>> # undefined
BY ConstantsAssumption DEF AsyncInv, TypeOK, Waits, Promises

LEMMA ImportReturnsStep == ASSUME AsyncInv, NEW c \in Calls, ImportReturns(c) PROVE AsyncInv'
<1> USE DEF AsyncInv, ImportReturns, jsVars, instanceVars
<1>1. Nested' /\ active' # <<>> /\ Top' = c /\ pc'[c] = "wasm"
  BY StayNested
<1>2. TypeOK'
  BY <1>1, LastImport DEF TypeOK, PCs
<1>3. Shared'
  BY <1>1, TopFacts DEF Shared
<1>4. Waits' /\ settled[c] # "rejected"
  BY DEF Waits, TypeOK
<1>5. Owners' /\ NoStackLost'
  BY <1>1, <1>2, <1>4, SameStacks DEF PCs
<1> QED BY <1>1, <1>2, <1>3, <1>4, <1>5

\* A call that ends as its frames are left, by an answer or an exception.
LEMMA LeaveStep ==
    ASSUME AsyncInv, NEW c \in Calls, Innermost(c), pc[c] \in {"wasm", "import"},
           NEW s \in {"done", "failed"}, active' = Popped, pc' = [pc EXCEPT ![c] = s],
           value' \in {value, <<c, imports[c]>>}, value' \in Promises \cup {undefined},
           UNCHANGED <<stack, stacks, instanceVars, callVars>>
    PROVE  AsyncInv'
<1> USE DEF AsyncInv, instanceVars, callVars
<1>1. /\ Nested' /\ active' \in Seq(Calls)
      /\ active' # <<>> => pc'[Top'] = "import"
  BY PopNested
<1>2. TypeOK'
  BY <1>1 DEF TypeOK, PCs
<1>3. Shared'
  BY <1>1, TopFacts DEF Shared
<1>4. Waits' /\ settled[c] # "rejected"
  BY DEF Waits, TypeOK
<1>5. Owners' /\ NoStackLost'
  BY <1>1, <1>2, <1>4, SameStacks DEF PCs
<1> QED BY <1>1, <1>2, <1>3, <1>4, <1>5

LEMMA ImportSuspendsStep == ASSUME AsyncInv, NEW c \in Calls, ImportSuspends(c) PROVE AsyncInv'
<1> USE DEF AsyncInv, callVars
<1>1. CASE Throws(c) /\ UNCHANGED <<stack, stacks, instanceVars>>
  BY <1>1, LeaveStep, LastImport DEF ImportSuspends, Throws
<1>2. CASE get_stack /\ state' = "Unwinding" /\ data' = stack'
           /\ memory' = [memory EXCEPT ![stack'] = c]
           /\ pc' = [pc EXCEPT ![c] = "unwinding"] /\ UNCHANGED active
  <2> USE <1>2 DEF ImportSuspends
  <2>1. stack = undefined
    BY TopFacts DEF Shared
  <2>2. Nested' /\ active' # <<>> /\ Top' = c /\ pc'[c] = "unwinding"
    BY StayNested
  <2>3. stack' \in Stacks /\ stacks' \in Seq(Stacks) /\ memory' \in [Stacks -> Calls \cup {undefined}]
        /\ memory'[stack'] = c /\ \A t \in Stacks : t # stack' => memory'[t] = memory[t]
    BY <2>1, GetStackFacts DEF TypeOK
  <2>4. TypeOK'
    BY <2>2, <2>3, LastImport DEF TypeOK, PCs
  <2>5. Shared'
    BY <2>2, <2>3 DEF Shared
  <2>6. Waits'
    BY DEF Waits, TypeOK
  <2>7. \A d \in Calls : Holder(d)' <=> Holder(d)
    BY <2>2 DEF Holder, TypeOK
  <2>8. Owners'
    <3>1. \A i \in 1..Len(stacks') : memory'[stacks'[i]] # undefined /\ stacks'[i] # stack'
      <4> SUFFICES ASSUME NEW i \in 1..Len(stacks')
                   PROVE  memory'[stacks'[i]] # undefined /\ stacks'[i] # stack'
        OBVIOUS
      <4>1. PICK j \in 1..Len(stacks) : stacks'[i] = stacks[j]
        BY <2>1, GetStackFacts
      <4>2. stacks'[i] # stack' /\ stacks'[i] \in Stacks
        BY <2>1, <2>3, GetStackFacts, ElementOfSeq
      <4> QED BY <2>3, <4>1, <4>2 DEF Owners
    <3>2. ASSUME NEW d \in Calls, Holder(d)
          PROVE  /\ save_stack[d] \in Stacks /\ memory'[save_stack[d]] = d
                 /\ \A i \in 1..Len(stacks') : stacks'[i] # save_stack[d]
      <4>1. save_stack[d] # stack'
        BY <2>1, <3>2, GetStackFacts
      <4>2. \A i \in 1..Len(stacks') : stacks'[i] # save_stack[d]
        BY <2>1, <3>2, GetStackFacts DEF Owners
      <4> QED BY <2>3, <3>2, <4>1, <4>2 DEF Owners
    <3>3. \A i, j \in 1..Len(stacks') : stacks'[i] = stacks'[j] => i = j
      BY <2>1, GetStackFacts
    <3> QED BY <2>7, <3>1, <3>2, <3>3 DEF Owners
  <2>9. NoStackLost'
    <3> SUFFICES ASSUME NEW t \in Stacks, memory'[t] # undefined, t # stack'
                 PROVE  \/ t \in FreeStacks'
                        \/ \E d \in Calls : save_stack[d] = t /\ (pc'[d] = "suspended" \/ settled[d] = "rejected")
      BY DEF NoStackLost, Allocated
    <3>1. memory[t] # undefined
      BY <2>3
    <3>2. CASE t \in FreeStacks
      <4>1. PICK j \in 1..Len(stacks) : stacks[j] = t
        BY <3>2, LenProperties DEF FreeStacks, TypeOK
      <4>2. PICK i \in 1..Len(stacks') : stacks'[i] = t
        BY <2>1, <4>1, GetStackFacts
      <4> QED BY <2>3, <4>2, LenProperties DEF FreeStacks
    <3>3. CASE \E d \in Calls : save_stack[d] = t /\ (pc[d] = "suspended" \/ settled[d] = "rejected")
      BY <3>3 DEF TypeOK
    <3> QED BY <2>1, <3>1, <3>2, <3>3, ConstantsAssumption DEF NoStackLost, Allocated
  <2> QED BY <2>2, <2>4, <2>5, <2>6, <2>8, <2>9
<1> QED BY <1>1, <1>2 DEF ImportSuspends

\* The stack of a call that unwinds becomes its own as export_stub() goes on.
LEMMA UnwoundStep == ASSUME AsyncInv, NEW c \in Calls, Unwound(c) PROVE AsyncInv'
<1> USE DEF AsyncInv, Unwound
<1>1. /\ Nested' /\ active' \in Seq(Calls)
      /\ active' # <<>> => pc'[Top'] = "import"
  BY PopNested
<1>2. stack \in Stacks /\ memory[stack] = c /\ value = <<c, imports[c]>>
  BY TopFacts DEF Shared
<1>3. TypeOK'
  BY <1>1, <1>2 DEF TypeOK, PCs
<1>4. Shared'
  BY <1>1 DEF Shared
<1>5. /\ \A d \in Calls \ {c} : /\ Holder(d)' <=> Holder(d)
                             /\ save_stack'[d] = save_stack[d] /\ pc'[d] = pc[d]
                             /\ prom'[d] = prom[d] /\ settled'[d] = settled[d]
      /\ save_stack'[c] = stack /\ pc'[c] = "suspended" /\ prom'[c] = value /\ settled'[c] = "pending"
      /\ stack' = undefined
  BY DEF Holder, TypeOK
<1>6. Waits'
  BY <1>2, <1>5 DEF Waits
<1>7. Owners'
  <2>1. \A i \in 1..Len(stacks) : stacks[i] \in Stacks /\ stacks[i] # undefined
    BY ElementOfSeq, ConstantsAssumption DEF TypeOK
  <2> QED BY <1>2, <1>5, <2>1 DEF Owners
<1>8. NoStackLost'
  <2> SUFFICES ASSUME NEW t \in Allocated, t \notin FreeStacks
               PROVE  \E d \in Calls : save_stack'[d] = t /\ (pc'[d] = "suspended" \/ settled'[d] = "rejected")
    BY DEF NoStackLost, Allocated, FreeStacks
  <2>1. CASE t = stack
    BY <1>5, <2>1
  <2>2. CASE \E d \in Calls : save_stack[d] = t /\ (pc[d] = "suspended" \/ settled[d] = "rejected")
    <3>1. pc[c] # "suspended" /\ settled[c] # "rejected"
      BY DEF Waits
    <3> QED BY <1>5, <2>2, <3>1
  <2> QED BY <2>1, <2>2 DEF NoStackLost
<1> QED BY <1>1, <1>3, <1>4, <1>6, <1>7, <1>8

LEMMA SettleStep == ASSUME AsyncInv, NEW c \in Calls, Settle(c) PROVE AsyncInv'
<1> USE DEF AsyncInv, Settle, jsVars, instanceVars
<1>1. TypeOK'
  BY DEF TypeOK
<1>2. Nested' /\ Shared'
  BY DEF Nested, Shared, OnStack, Top
<1>3. Waits'
  BY DEF Waits, TypeOK
<1>4. \A d \in Calls : Holder(d)' <=> Holder(d)
  BY DEF Holder, TypeOK
<1>5. Owners'
  BY <1>4 DEF Owners
<1>6. NoStackLost'
  BY DEF NoStackLost, Allocated, FreeStacks, TypeOK
<1> QED BY <1>1, <1>2, <1>3, <1>5, <1>6

LEMMA ResumeStep == ASSUME AsyncInv, NEW c \in Calls, Resume(c) PROVE AsyncInv'
<1> USE DEF AsyncInv, Resume, OnEmptyStack, callVars
<1>1. active = <<>> /\ active' = Append(active, c)
  BY DEF Append
<1>2. Nested' /\ active' \in Seq(Calls) /\ active' # <<>> /\ Top' = c
  BY <1>1, PushNested
<1>3. /\ save_stack[c] \in Stacks /\ memory[save_stack[c]] = c
      /\ \A i \in 1..Len(stacks) : stacks[i] # save_stack[c]
  BY DEF Owners, Holder
<1>4. TypeOK'
  BY <1>2, <1>3 DEF TypeOK, PCs
<1>5. pc'[c] = "rewinding" /\ \A d \in Calls \ {c} : pc'[d] = pc[d]
  BY DEF TypeOK
<1>6. Shared'
  BY <1>2, <1>5 DEF Shared
<1>7. Waits'
  BY <1>5 DEF Waits
<1>8. Owners'
  <2>1. \A d \in Calls : Holder(d)' <=> Holder(d)
    BY <1>5 DEF Holder
  <2> QED BY <1>3, <2>1 DEF Owners
<1>9. NoStackLost'
  <2> SUFFICES ASSUME NEW t \in Allocated, t \notin FreeStacks, t # stack'
               PROVE  \E d \in Calls : save_stack[d] = t /\ (pc'[d] = "suspended" \/ settled[d] = "rejected")
    BY DEF NoStackLost, Allocated, FreeStacks
  <2>1. t # stack
    BY ConstantsAssumption DEF Shared, Allocated
  <2>2. PICK d \in Calls : save_stack[d] = t /\ (pc[d] = "suspended" \/ settled[d] = "rejected")
    BY <2>1 DEF NoStackLost
  <2> QED BY <1>5, <2>2
<1> QED BY <1>2, <1>4, <1>6, <1>7, <1>8, <1>9

LEMMA RejectStep == ASSUME AsyncInv, NEW c \in Calls, Reject(c) PROVE AsyncInv'
<1> USE DEF AsyncInv, Reject, OnEmptyStack, jsVars, instanceVars, callVars
<1>1. pc'[c] = "failed" /\ \A d \in Calls \ {c} : pc'[d] = pc[d]
  BY DEF TypeOK
<1>2. TypeOK'
  BY DEF TypeOK, PCs
<1>3. Nested'
  <2>1. Len(active) = 0
    OBVIOUS
  <2> QED BY <1>1, <2>1 DEF Nested, OnStack
<1>4. Shared'
  BY DEF Shared
<1>5. Waits'
  BY <1>1 DEF Waits
<1>6. Owners'
  <2>1. \A d \in Calls : Holder(d)' <=> Holder(d)
    BY <1>1 DEF Holder
  <2> QED BY <2>1 DEF Owners
<1>7. NoStackLost'
  BY <1>1 DEF NoStackLost, Allocated, FreeStacks
<1> QED BY <1>2, <1>3, <1>4, <1>5, <1>6, <1>7

\* What a call that is rewound finds in the variables and in the memory is its own.
LEMMA RewoundFacts ==
    ASSUME AsyncInv, NEW c \in Calls, Innermost(c), pc[c] = "rewinding"
    PROVE  /\ active = <<c>> /\ state = "Rewinding" /\ data = stack
           /\ stack \in Stacks /\ memory[stack] = c /\ stack = save_stack[c]
           /\ value = <<c, imports[c]>>
           /\ \A i \in 1..Len(stacks) : stacks[i] # stack
<1> USE DEF AsyncInv
<1>1. Len(active) = 1 /\ active[1] = c
  BY TopFacts DEF Nested, Top
<1>2. active = <<c>>
  <2>1. <<c>> \in Seq(Calls) /\ Len(<<c>>) = 1 /\ <<c>>[1] = c
    OBVIOUS
  <2> QED BY <1>1, <2>1, SeqEqual DEF TypeOK
<1>3. /\ state = "Rewinding" /\ stack = save_stack[c] /\ data = stack /\ value = prom[c]
  BY TopFacts DEF Shared
<1> QED BY <1>2, <1>3 DEF Waits, Owners, Holder

LEMMA RewoundStep == ASSUME AsyncInv, NEW c \in Calls, Rewound(c) PROVE AsyncInv'
<1> USE DEF AsyncInv, Rewound
<1>1. Nested' /\ active' # <<>> /\ Top' = c /\ pc'[c] = "wasm"
  BY StayNested
<1>2. /\ stack \in Stacks /\ memory[stack] = c /\ stack = save_stack[c]
      /\ data = stack /\ value \in Promises
      /\ \A i \in 1..Len(stacks) : stacks[i] # stack
  BY RewoundFacts, LastImport
<1>3. /\ stacks' \in Seq(Stacks) /\ Len(stacks') = Len(stacks) + 1 /\ Len(stacks) \in Nat
      /\ \A i \in 1..Len(stacks) : stacks'[i] = stacks[i]
      /\ stacks'[Len(stacks) + 1] = stack
  BY <1>2, ReturnStackFacts
<1>4. TypeOK'
  BY <1>1, <1>2, <1>3 DEF TypeOK, PCs, Answer
<1>5. Shared'
  BY <1>1 DEF Shared
<1>6. \A d \in Calls \ {c} : pc'[d] = pc[d]
  BY DEF TypeOK
<1>7. Waits' /\ settled[c] # "rejected"
  BY <1>1, <1>6 DEF Waits
<1>8. \A i \in 1..Len(stacks') : i \in 1..Len(stacks) \/ i = Len(stacks) + 1
  BY <1>3
<1>9. Owners'
  <2>1. \A i, j \in 1..Len(stacks') : stacks'[i] = stacks'[j] => i = j
    BY <1>2, <1>3, <1>8 DEF Owners
  <2>2. \A i \in 1..Len(stacks') : memory[stacks'[i]] # undefined /\ stacks'[i] # stack'
    <3>1. \A i \in 1..Len(stacks) : stacks[i] \in Stacks /\ memory[stacks[i]] # undefined
      BY ElementOfSeq DEF TypeOK, Owners
    <3>2. memory[stack] # undefined
      BY <1>2, ConstantsAssumption
    <3>3. \A t \in Stacks : t # stack'
      BY ConstantsAssumption
    <3> QED BY <1>2, <1>3, <1>8, <3>1, <3>2, <3>3
  <2>3. ASSUME NEW d \in Calls, Holder(d)'
        PROVE  /\ save_stack[d] \in Stacks /\ memory[save_stack[d]] = d
               /\ \A i \in 1..Len(stacks') : stacks'[i] # save_stack[d]
    <3>1. d # c /\ Holder(d)
      BY <1>1, <1>6, <1>7, <2>3 DEF Holder
    <3> QED BY <1>2, <1>3, <1>8, <3>1 DEF Owners
  <2> QED BY <2>1, <2>2, <2>3 DEF Owners
<1>10. NoStackLost'
  <2> SUFFICES ASSUME NEW t \in Allocated, t \notin FreeStacks'
               PROVE  \E d \in Calls : save_stack[d] = t /\ (pc'[d] = "suspended" \/ settled[d] = "rejected")
    BY DEF NoStackLost, Allocated
  <2>1. t \notin FreeStacks /\ t # stack
    <3>1. DOMAIN stacks = 1..Len(stacks) /\ DOMAIN stacks' = 1..Len(stacks')
      BY <1>3, LenProperties DEF TypeOK
    <3>2. \A i \in 1..Len(stacks) : i \in 1..Len(stacks')
      BY <1>3
    <3>3. Len(stacks) + 1 \in 1..Len(stacks')
      BY <1>3
    <3> QED BY <1>3, <3>1, <3>2, <3>3 DEF FreeStacks
  <2>2. PICK d \in Calls : save_stack[d] = t /\ (pc[d] = "suspended" \/ settled[d] = "rejected")
    BY <2>1 DEF NoStackLost
  <2> QED BY <1>6, <2>2
<1> QED BY <1>1, <1>4, <1>5, <1>7, <1>9, <1>10

LEMMA NextAsyncInv == AsyncInv /\ [Next]_vars => AsyncInv'
<1> SUFFICES ASSUME AsyncInv, [Next]_vars PROVE AsyncInv'
  OBVIOUS
<1>1. CASE UNCHANGED vars
  BY <1>1 DEF vars, AsyncInv, TypeOK, Nested, OnStack, Top, Shared, Waits, Owners, Holder,
              NoStackLost, Allocated, FreeStacks
<1>2. ASSUME NEW c \in Calls, Call(c) \/ Settle(c) \/ Continue(c) PROVE AsyncInv'
  <2>1. CASE ImportThrows(c)
    BY <2>1, LeaveStep DEF ImportThrows, Throws, jsVars, AsyncInv, TypeOK
  <2>2. CASE Return(c)
    BY <2>2, LeaveStep DEF Return, jsVars, AsyncInv, TypeOK
  <2> QED BY <1>2, <2>1, <2>2, CallStep, SettleStep, EnterImportStep, ImportReturnsStep,
             ImportSuspendsStep, UnwoundStep, ResumeStep, RejectStep, RewoundStep DEF Continue
<1> QED BY <1>1, <1>2 DEF Next

-----------------------------------------------------------------------------
(* The theorems.                                                           *)

\* What every import and export, every await of export_stub() and every failure keep.
THEOREM AsyncInvariant == Spec => []AsyncInv
<1> QED BY InitAsyncInv, NextAsyncInv, PTL DEF Spec

\* The variables of asyncify.js and of the instance have their types.
THEOREM TypeCorrect == Spec => []TypeOK
<1>1. AsyncInv => TypeOK
  BY DEF AsyncInv
<1> QED BY <1>1, AsyncInvariant, PTL

\* The saved frames of a call that waits are in a stack that no other call has been
\* given, however many calls unwind, end or fail before it goes on.
THEOREM FramesArePreserved == Spec => []FramesPreserved
<1>1. AsyncInv => FramesPreserved
  <2> SUFFICES ASSUME AsyncInv, NEW c \in Saved
               PROVE  memory[save_stack[c]] = c /\ save_stack[c] \notin FreeStacks
    BY DEF FramesPreserved
  <2>1. c \in Calls /\ Holder(c)
    BY DEF Saved, Holder
  <2>2. DOMAIN stacks = 1..Len(stacks)
    BY LenProperties DEF AsyncInv, TypeOK
  <2> QED BY <2>1, <2>2 DEF AsyncInv, Owners, FreeStacks
<1> QED BY <1>1, AsyncInvariant, PTL

\* The two variables that all calls share are in use only between an import that
\* suspends and its export_stub(), and between a resumption and its import.
THEOREM InstanceIsNeverCorrupt == Spec => []NeverCorrupt
<1>1. AsyncInv => NeverCorrupt
  BY DEF AsyncInv, Shared, Top, NeverCorrupt
<1> QED BY <1>1, AsyncInvariant, PTL

\* Every stack ever allocated is free, in use, or that of a rejected call.
THEOREM StacksAreKept == Spec => []NoStackLost
<1>1. AsyncInv => NoStackLost
  BY DEF AsyncInv
<1> QED BY <1>1, AsyncInvariant, PTL

-----------------------------------------------------------------------------
(* The refinement of Coroutines.                                           *)

\* A call whose pc changes has the status of its new pc, and no other call's changes.
LEMMA StatusOf ==
    ASSUME TypeOK, NEW c \in Calls, NEW s \in PCs, pc' = [pc EXCEPT ![c] = s],
           NEW t, t = CASE s = "unwinding" -> "import" [] s = "rewinding" -> "suspended" [] OTHER -> s
    PROVE  Status' = [Status EXCEPT ![c] = t]
BY DEF TypeOK, Status

\* While the innermost call is not being rewound the native stack is the abstract one.
LEMMA RunningIs ==
    ASSUME AsyncInv, NEW c \in Calls, Innermost(c), pc[c] # "rewinding"
    PROVE  Running = active /\ Running # <<>> /\ Running[Len(Running)] = c
BY TopFacts DEF AsyncInv, Running, Top

\* Every step is one of the abstract specification, or none: unwinding and rewinding
\* take steps of their own.
LEMMA StepRefines ==
    ASSUME AsyncInv, AsyncInv', [Next]_vars
    PROVE  [Promise!Next]_(Promise!cvars)
<1> USE DEF AsyncInv
<1>1. CASE UNCHANGED vars
  BY <1>1 DEF vars, Promise!cvars, Status, Running, Popped
<1>2. ASSUME NEW c \in Calls, Call(c) PROVE Promise!Start(c)
  <2>1. Status' = [Status EXCEPT ![c] = "wasm"] /\ Status[c] = "start"
    BY <1>2, StatusOf DEF Call, PCs, Status
  <2>2. Running = active
    BY <1>2 DEF Call, Running
  <2>3. Running # <<>> => Status[Running[Len(Running)]] = "import"
    <3>1. active # <<>> => Top \in Calls
      BY EmptySeq, ElementOfSeq DEF TypeOK, Top
    <3> QED BY <1>2, <2>2, <3>1 DEF Call, Status, Top
  <2>4. Running' = Append(Running, c)
    <3>1. active' # <<>> /\ Top' = c
      BY <1>2, PushNested DEF Call, Top
    <3>2. pc'[c] = "wasm"
      BY <1>2 DEF Call, TypeOK
    <3> QED BY <1>2, <2>2, <3>1, <3>2 DEF Call, Running, Top
  <2> QED BY <1>2, <2>1, <2>3, <2>4 DEF Promise!Start, Promise!Becomes, Call, callVars
<1>3. ASSUME NEW c \in Calls, EnterImport(c) PROVE Promise!Ask(c)
  <2>1. Status' = [Status EXCEPT ![c] = "import"] /\ Status[c] = "wasm"
    BY <1>3, StatusOf DEF EnterImport, PCs, Status
  <2>2. Running = active /\ Promise!Top(c)
    BY <1>3, RunningIs DEF EnterImport, Promise!Top
  <2>3. Running' = active
    BY <1>3, StayNested DEF EnterImport, Running, Top
  <2> QED BY <1>3, <2>1, <2>2, <2>3 DEF Promise!Ask, Promise!Becomes, EnterImport
<1>4. ASSUME NEW c \in Calls, ImportReturns(c) PROVE Promise!AnswerAtOnce(c)
  <2>1. Status' = [Status EXCEPT ![c] = "wasm"] /\ Status[c] = "import"
    BY <1>4, StatusOf DEF ImportReturns, PCs, Status
  <2>2. Running = active /\ Promise!Top(c)
    BY <1>4, RunningIs DEF ImportReturns, Promise!Top
  <2>3. Running' = active
    BY <1>4, StayNested DEF ImportReturns, Running, Top
  <2> QED BY <1>4, <2>1, <2>2, <2>3
          DEF Promise!AnswerAtOnce, Promise!Becomes, Promise!Answered, ImportReturns
\* The innermost call leaves the native stack, and so the abstract one.
<1>5. ASSUME NEW c \in Calls, Innermost(c), pc[c] # "rewinding",
             NEW s \in {"suspended", "done", "failed"}, active' = Popped,
             pc' = [pc EXCEPT ![c] = s]
      PROVE  Promise!Top(c) /\ Promise!Leave
  <2>1. Running = active /\ Promise!Top(c)
    BY <1>5, RunningIs DEF Promise!Top
  <2>2. Running' = Popped
    BY <1>5, PopNested DEF Running, Top
  <2> QED BY <2>1, <2>2 DEF Promise!Leave, Popped
<1>6. ASSUME NEW c \in Calls, Innermost(c), pc[c] = "import", Throws(c), UNCHANGED callVars
      PROVE  Promise!Fail(c)
  <2>1. Status' = [Status EXCEPT ![c] = "failed"] /\ Status[c] = "import"
    BY <1>6, StatusOf DEF Throws, PCs, Status
  <2> QED BY <1>5, <1>6, <2>1 DEF Promise!Fail, Promise!Becomes, Throws, callVars
<1>7. ASSUME NEW c \in Calls, ImportSuspends(c) PROVE Promise!Fail(c) \/ UNCHANGED Promise!cvars
  <2>1. CASE Throws(c)
    BY <1>6, <1>7, <2>1 DEF ImportSuspends
  <2>2. CASE pc' = [pc EXCEPT ![c] = "unwinding"] /\ UNCHANGED active
    <3>1. Status' = [Status EXCEPT ![c] = "import"] /\ Status[c] = "import"
      BY <1>7, <2>2, StatusOf DEF ImportSuspends, PCs, Status
    <3>2. Status' = Status
      BY <3>1 DEF Status
    <3>3. Running = active /\ Running' = active
      BY <1>7, <2>2, StayNested, RunningIs DEF ImportSuspends, Running, Top
    <3> QED BY <1>7, <3>2, <3>3 DEF ImportSuspends, callVars, Promise!cvars
  <2> QED BY <1>7, <2>1, <2>2 DEF ImportSuspends
<1>8. ASSUME NEW c \in Calls, Unwound(c) PROVE Promise!Suspend(c)
  <2>1. Status' = [Status EXCEPT ![c] = "suspended"] /\ Status[c] = "import"
    BY <1>8, StatusOf DEF Unwound, PCs, Status
  <2> QED BY <1>5, <1>8, <2>1 DEF Promise!Suspend, Promise!Becomes, Unwound
<1>9. ASSUME NEW c \in Calls, Settle(c) PROVE UNCHANGED Promise!cvars
  BY <1>9 DEF Settle, Promise!cvars, Status, Running, Popped
<1>10. ASSUME NEW c \in Calls, Resume(c) PROVE UNCHANGED Promise!cvars
  <2>1. Status' = [Status EXCEPT ![c] = "suspended"] /\ Status[c] = "suspended"
    BY <1>10, StatusOf DEF Resume, PCs, Status
  <2>2. Status' = Status
    BY <2>1 DEF Status
  <2>3. Running = <<>> /\ Running' = <<>>
    <3>1. active = <<>> /\ active' = <<c>> /\ pc'[c] = "rewinding"
      BY <1>10 DEF Resume, OnEmptyStack, TypeOK
    <3>2. active' # <<>> /\ active'[Len(active')] = c /\ Popped' = <<>>
      BY <3>1, SubSeqEmpty DEF Popped
    <3> QED BY <3>1, <3>2 DEF Running
  <2> QED BY <1>10, <2>2, <2>3 DEF Resume, callVars, Promise!cvars
<1>11. ASSUME NEW c \in Calls, Reject(c) PROVE Promise!Fail(c)
  <2>1. Status' = [Status EXCEPT ![c] = "failed"] /\ Status[c] = "suspended"
    BY <1>11, StatusOf DEF Reject, PCs, Status
  <2>2. Running' = Running
    BY <1>11 DEF Reject, OnEmptyStack, Running
  <2> QED BY <1>11, <2>1, <2>2 DEF Promise!Fail, Promise!Becomes, Reject, callVars
\* The import answers the call whose frames are back, with its own promise.
<1>12. ASSUME NEW c \in Calls, Rewound(c) PROVE Promise!AnswerLater(c)
  <2>1. Status' = [Status EXCEPT ![c] = "wasm"] /\ Status[c] = "suspended"
    BY <1>12, StatusOf DEF Rewound, PCs, Status
  <2>2. active = <<c>> /\ memory[data] = c /\ value = <<c, imports[c]>>
    BY <1>12, RewoundFacts DEF Rewound
  <2>3. Running = <<>>
    <3>1. active # <<>> /\ active[Len(active)] = c /\ Popped = <<>>
      BY <2>2, SubSeqEmpty DEF Popped
    <3> QED BY <1>12, <3>1 DEF Rewound, Running
  <2>4. Running' = <<c>>
    BY <1>12, <2>2, StayNested DEF Rewound, Running, Top
  <2> QED BY <1>12, <2>1, <2>2, <2>3, <2>4
          DEF Promise!AnswerLater, Promise!Becomes, Promise!Answered, Rewound, Answer
<1>13. ASSUME NEW c \in Calls, Return(c) PROVE Promise!Finish(c)
  <2>1. Status' = [Status EXCEPT ![c] = "done"] /\ Status[c] = "wasm"
    BY <1>13, StatusOf DEF Return, PCs, Status
  <2> QED BY <1>5, <1>13, <2>1 DEF Promise!Finish, Promise!Becomes, Return, callVars
<1>14. ASSUME NEW c \in Calls, ImportThrows(c) PROVE Promise!Fail(c)
  BY <1>6, <1>14 DEF ImportThrows
<1> QED
  BY <1>1, <1>2, <1>3, <1>4, <1>7, <1>8, <1>9, <1>10, <1>11, <1>12, <1>13, <1>14
     DEF Next, Continue, Promise!Next

\* Each call of an export runs as a coroutine of its own: an import that suspended it
\* answers it with what its own promise resolved with, however many other calls start,
\* unwind and are rewound before.
THEOREM AsyncifyImplementsCoroutines == Spec => ImplementsCoroutines
<1>1. Init => Promise!Init
  BY DEF Init, Promise!Init, Status, Running
<1>2. AsyncInv /\ AsyncInv' /\ [Next]_vars => [Promise!Next]_(Promise!cvars)
  BY StepRefines
<1> QED BY <1>1, <1>2, AsyncInvariant, PTL DEF Spec, ImplementsCoroutines, Promise!Spec

=============================================================================
