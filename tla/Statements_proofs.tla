-------------------------- MODULE Statements_proofs --------------------------
(***************************************************************************)
(* Theorems about Statements for any number of scripts, statements and     *)
(* pointers, whatever the application does and whatever fails.  StmtInv is *)
(* the inductive invariant: the three safety invariants, and what the      *)
(* registry and the suspended calls say about generators and statements.   *)
(***************************************************************************)
EXTENDS Statements, TLAPS

\* A registered Statement is the current one of a generator at its yield, or of
\* one that was abandoned there.
RegisteredIsCurrent ==
    \A e \in registry :
        e[1] = Statement(e[1][1]) /\ pc[e[1][1]] \in {"yielded", "abandoned"}

\* What finalize() is suspended on is still there.
FinalizingIsLive == \A p \in Ptrs : <<p, "finalize">> \in pending => p \in live

\* A generator has borrowed nothing before it starts, steps through rows only at its
\* yield, and has a statement left as long as it goes on.
GeneratorKnows ==
    \A g \in Scripts :
        /\ pc[g] = "start" => mem[g] = "none"
        /\ rows[g] = "stepping" => pc[g] = "yielded"
        /\ pc[g] \in {"preparing", "yielded", "abandoned"} => remainder[g] \in 1..MaxStmts

StmtInv ==
    /\ TypeOK /\ NoDangling /\ NothingLeaks /\ EndedGivesBack
    /\ RegisteredIsCurrent /\ FinalizingIsLive /\ GeneratorKnows

LEMMA InitStmtInv == Init => StmtInv
  BY ConstantsAssumption DEF Init, StmtInv, TypeOK, NoDangling, NothingLeaks, EndedGivesBack,
        RegisteredIsCurrent, FinalizingIsLive, GeneratorKnows, Ended

-----------------------------------------------------------------------------
(* The generators.  A step of g touches the state of no other script.      *)

LEMMA StartStep == ASSUME StmtInv, NEW g \in Scripts, Start(g) PROVE StmtInv'
  <1> USE ConstantsAssumption DEF StmtInv, TypeOK, GeneratorKnows, Ended, Statement,
        Start, Loop, End, MoreToPrepare
  <1>1. TypeOK'
    OBVIOUS
  <1>2. NoDangling' /\ RegisteredIsCurrent' /\ FinalizingIsLive'
    BY DEF NoDangling, RegisteredIsCurrent, FinalizingIsLive
  <1>3. NothingLeaks'
    BY DEF NothingLeaks
  <1>4. EndedGivesBack'
    <2>1. \A e \in registry : e[1][1] # g
      BY DEF RegisteredIsCurrent
    <2>2. \/ pc'[g] = "failed" /\ mem'[g] = mem[g]
          \/ pc'[g] = "ended" /\ mem'[g] = "free"
          \/ pc'[g] = "preparing" /\ mem'[g] = "lent"
      OBVIOUS
    <2>3. mem[g] = "none"
      OBVIOUS
    <2>4. \A h \in Scripts \ {g} : pc'[h] = pc[h] /\ mem'[h] = mem[h]
      OBVIOUS
    <2> QED  BY <2>1, <2>2, <2>3, <2>4 DEF EndedGivesBack
  <1>5. GeneratorKnows'
    OBVIOUS
  <1> QED  BY <1>1, <1>2, <1>3, <1>4, <1>5

LEMMA PreparedStep == ASSUME StmtInv, NEW g \in Scripts, Prepared(g) PROVE StmtInv'
  <1> USE ConstantsAssumption DEF StmtInv, TypeOK, GeneratorKnows, Ended, Statement,
        Prepared, Loop, End, MoreToPrepare, register
  <1>0. \A e \in registry : e[1][1] # g
    BY DEF RegisteredIsCurrent
  <1>1. TypeOK'
    OBVIOUS
  <1>2. NoDangling'
    <2>1. CASE registry' = registry /\ live' = live /\ pc'[g] # "yielded" /\ UNCHANGED stmt
      <3>1. \A h \in Scripts : pc'[h] = "yielded" =>
               h # g /\ pc[h] = "yielded" /\ remainder'[h] = remainder[h]
        BY <2>1
      <3> QED  BY <2>1, <3>1 DEF NoDangling
    <2>2. CASE \E p \in Ptrs \ live :
                  /\ live' = live \cup {p} /\ registry' = registry \cup {<<Statement(g), p>>}
                  /\ stmt' = [stmt EXCEPT ![g] = p] /\ UNCHANGED remainder
                  /\ pc' = [pc EXCEPT ![g] = "yielded"]
      <3>1. PICK p \in Ptrs \ live :
                  /\ live' = live \cup {p} /\ registry' = registry \cup {<<Statement(g), p>>}
                  /\ stmt' = [stmt EXCEPT ![g] = p] /\ UNCHANGED remainder
                  /\ pc' = [pc EXCEPT ![g] = "yielded"]
        BY <2>2
      <3>2. \A h \in Scripts : pc'[h] = "yielded" => <<Statement(h)', stmt'[h]>> \in registry'
        BY <3>1 DEF NoDangling
      <3>3. <<Statement(g), p>>[2] = p
        OBVIOUS
      <3>4. \A e \in registry : e[2] \in live
        BY DEF NoDangling
      <3>5. p \notin live
        BY <3>1
      <3>6. <<p, "finalize">> \notin pending
        BY <3>5 DEF FinalizingIsLive
      <3>7. \A e \in registry' : e \in registry \/ e = <<Statement(g), p>>
        BY <3>1
      <3>8. /\ \A e \in registry' : (e \in registry /\ e[2] \in live) \/ (e = <<Statement(g), p>> /\ e[2] = p)
            /\ p \notin live /\ <<p, "finalize">> \notin pending
        <4> HIDE DEF Statement, TypeOK
        <4> QED  BY <3>3, <3>4, <3>5, <3>6, <3>7
      <3>9. \A e \in registry' : e[2] \in live' /\ <<e[2], "finalize">> \notin pending'
        BY <3>1, <3>8 DEF NoDangling
      <3>10. \A e, f \in registry' : e[2] = f[2] => e = f
        BY <3>8 DEF NoDangling
      <3> QED  BY <3>2, <3>9, <3>10 DEF NoDangling
    <2> QED  BY <2>1, <2>2
  <1>3. NothingLeaks'
    <2>1. CASE UNCHANGED <<live, registry>>
      BY <2>1 DEF NothingLeaks
    <2>2. CASE \E p \in Ptrs \ live :
                  live' = live \cup {p} /\ registry' = registry \cup {<<Statement(g), p>>}
      <3>1. PICK p \in Ptrs \ live :
                  live' = live \cup {p} /\ registry' = registry \cup {<<Statement(g), p>>}
        BY <2>2
      <3>2. \A e, f \in registry' : e[1][1] = f[1][1] => e = f
        BY <1>0, <3>1 DEF NothingLeaks
      <3>3. \A q \in live' : <<q, "finalize">> \in pending' \/ \E e \in registry' : e[2] = q
        <4>1. <<Statement(g), p>> \in registry' /\ <<Statement(g), p>>[2] = p
          BY <3>1
        <4>2. \A q \in live : <<q, "finalize">> \in pending \/ \E e \in registry : e[2] = q
          BY DEF NothingLeaks
        <4> QED  BY <3>1, <4>1, <4>2
      <3> QED  BY <3>2, <3>3 DEF NothingLeaks
    <2> QED  BY <2>1, <2>2
  <1>4. EndedGivesBack'
    <2>1. \/ pc'[g] \in {"yielded", "preparing"} /\ mem'[g] = "lent"
          \/ pc'[g] \in Ended /\ mem'[g] = "free" /\ registry' = registry
      BY DEF EndedGivesBack
    <2>2. \A h \in Scripts \ {g} : pc'[h] = pc[h] /\ mem'[h] = mem[h]
      OBVIOUS
    <2>3. \A e \in registry' : e \in registry \/ e[1][1] = g
      OBVIOUS
    <2> QED  BY <1>0, <2>1, <2>2, <2>3 DEF EndedGivesBack
  <1>5. RegisteredIsCurrent'
    BY DEF RegisteredIsCurrent
  <1>6. FinalizingIsLive' /\ GeneratorKnows'
    BY DEF FinalizingIsLive
  <1> QED  BY <1>1, <1>2, <1>3, <1>4, <1>5, <1>6

LEMMA ResumeStep == ASSUME StmtInv, NEW g \in Scripts, Resume(g) PROVE StmtInv'
  <1> USE ConstantsAssumption DEF StmtInv, TypeOK, GeneratorKnows, Ended, Statement,
        Resume, Loop, End, MoreToPrepare, sqlite3_finalize, finalizeSuspends, Unregister
  <1>0. /\ <<Statement(g), stmt[g]>> \in registry
        /\ \A e \in registry : e[1] = Statement(g) <=> e[1][1] = g
        /\ \A e \in registry : e[1][1] = g => e[2] = stmt[g]
    BY DEF NoDangling, RegisteredIsCurrent, NothingLeaks
  <1>1. TypeOK'
    OBVIOUS
  <1>2. NoDangling'
    <2>1. \A e \in registry' : e \in registry /\ e[1][1] # g /\ e[2] # stmt[g]
      BY <1>0 DEF NoDangling
    <2>2. \A h \in Scripts : pc'[h] = "yielded" =>
             /\ h # g /\ pc[h] = "yielded" /\ Statement(h)' = Statement(h) /\ stmt'[h] = stmt[h]
             /\ <<Statement(h), stmt[h]>> \in registry'
      BY DEF NoDangling
    <2>3. live \ {stmt[g]} \subseteq live' /\ pending' \subseteq pending \cup {<<stmt[g], "finalize">>}
      OBVIOUS
    <2>4. \A e \in registry' : e[2] \in live' /\ <<e[2], "finalize">> \notin pending'
      BY <2>1, <2>3 DEF NoDangling
    <2> QED  BY <2>1, <2>2, <2>4 DEF NoDangling
  <1>3. NothingLeaks'
    <2>1. \A p \in live' : p = stmt[g] => <<p, "finalize">> \in pending'
      OBVIOUS
    <2>2. \A p \in live' : p # stmt[g] =>
             <<p, "finalize">> \in pending' \/ \E e \in registry' : e[2] = p
      BY <1>0 DEF NothingLeaks
    <2>3. registry' \subseteq registry
      OBVIOUS
    <2> QED  BY <2>1, <2>2, <2>3 DEF NothingLeaks
  <1>4. EndedGivesBack'
    <2>1. \A e \in registry' : e \in registry /\ e[1][1] # g
      BY <1>0
    <2>2. \/ pc'[g] \in Ended /\ mem'[g] = "free"
          \/ pc'[g] = "preparing" /\ mem'[g] = "lent"
      OBVIOUS
    <2>3. \A h \in Scripts \ {g} : pc'[h] = pc[h] /\ mem'[h] = mem[h]
      OBVIOUS
    <2> QED  BY <2>1, <2>2, <2>3 DEF EndedGivesBack
  <1>5. RegisteredIsCurrent'
    BY DEF RegisteredIsCurrent, NoDangling
  <1>6. FinalizingIsLive'
    <2>1. <<stmt[g], "finalize">> \notin pending /\ stmt[g] \in live
      BY <1>0 DEF NoDangling
    <2> QED  BY <2>1 DEF FinalizingIsLive
  <1>7. GeneratorKnows'
    <2>1. remainder[g] \in 1..MaxStmts
      OBVIOUS
    <2>2. \/ pc'[g] \in Ended
          \/ pc'[g] = "preparing" /\ remainder'[g] \in 1..MaxStmts
      BY <2>1
    <2>3. /\ rows'[g] = "idle"
          /\ \A h \in Scripts \ {g} :
                pc'[h] = pc[h] /\ remainder'[h] = remainder[h] /\ rows'[h] = rows[h]
      OBVIOUS
    <2> QED  BY <2>2, <2>3
  <1> QED  BY <1>1, <1>2, <1>3, <1>4, <1>5, <1>6, <1>7

-----------------------------------------------------------------------------
(* The rows, the suspended calls, the collector and the connection.        *)

LEMMA RowsStep ==
    ASSUME StmtInv, NEW g \in Scripts, Step(g) \/ Stepped(g) \/ LeaveRows(g)
    PROVE  StmtInv'
  <1> USE ConstantsAssumption DEF StmtInv, TypeOK, GeneratorKnows, Ended, Statement,
        Step, Stepped, LeaveRows
  <1>1. TypeOK'
    <2>1. stmt[g] \in live \/ ~(Stepped(g) \/ LeaveRows(g))
      <3>1. pc[g] = "yielded" => <<Statement(g), stmt[g]>> \in registry
        BY DEF NoDangling
      <3>2. pc[g] = "yielded" => <<Statement(g), stmt[g]>>[2] \in live
        BY <3>1 DEF NoDangling
      <3> QED  BY <3>2
    <2>2. /\ running' \subseteq live'
          /\ pending' \subseteq Ptrs \X {"reset", "finalize"}
          /\ rows' \in [Scripts -> {"idle", "stepping", "row"}]
      BY <2>1
    <2> QED  BY <2>2
  <1>2. NoDangling' /\ RegisteredIsCurrent'
    BY DEF NoDangling, RegisteredIsCurrent
  <1>3. NothingLeaks'
    BY DEF NothingLeaks
  <1>4. EndedGivesBack'
    BY DEF EndedGivesBack
  <1>5. FinalizingIsLive' /\ GeneratorKnows'
    BY DEF FinalizingIsLive
  <1> QED  BY <1>1, <1>2, <1>3, <1>4, <1>5

LEMMA CompleteStep == ASSUME StmtInv, Complete PROVE StmtInv'
  BY ConstantsAssumption DEF StmtInv, TypeOK, NoDangling, NothingLeaks, EndedGivesBack,
        RegisteredIsCurrent, FinalizingIsLive, GeneratorKnows, Ended, Complete, Statement

LEMMA CollectStep == ASSUME StmtInv, Collect PROVE StmtInv'
  <1> USE ConstantsAssumption DEF StmtInv, TypeOK, GeneratorKnows, Ended, Statement,
        Collect, sqlite3_finalize, finalizeSuspends, Unreachable
  <1>1. TypeOK'
    BY DEF NoDangling
  <1>2. NoDangling'
    BY DEF NoDangling, RegisteredIsCurrent
  <1>3. NothingLeaks'
    BY DEF NothingLeaks
  <1>4. EndedGivesBack' /\ RegisteredIsCurrent'
    BY DEF EndedGivesBack, RegisteredIsCurrent
  <1>5. FinalizingIsLive' /\ GeneratorKnows'
    BY DEF FinalizingIsLive, NoDangling
  <1> QED  BY <1>1, <1>2, <1>3, <1>4, <1>5

LEMMA OtherStep ==
    ASSUME StmtInv, (\E g \in Scripts : Abandon(g)) \/ Close \/ UNCHANGED vars
    PROVE  StmtInv'
  <1> USE ConstantsAssumption DEF StmtInv, TypeOK, GeneratorKnows, Ended, Statement,
        Abandon, Close, vars
  <1>1. TypeOK' /\ GeneratorKnows'
    OBVIOUS
  <1>2. NoDangling' /\ NothingLeaks' /\ FinalizingIsLive'
    BY DEF NoDangling, NothingLeaks, FinalizingIsLive
  <1>3. EndedGivesBack' /\ RegisteredIsCurrent'
    BY DEF EndedGivesBack, RegisteredIsCurrent
  <1> QED  BY <1>1, <1>2, <1>3

LEMMA NextStmtInv == StmtInv /\ [Next]_vars => StmtInv'
  <1> SUFFICES ASSUME StmtInv, [Next]_vars PROVE StmtInv'
    OBVIOUS
  <1>1. ASSUME NEW g \in Scripts, Start(g) \/ Continue(g) \/ Resume(g)  PROVE StmtInv'
    BY <1>1, StartStep, PreparedStep, RowsStep, ResumeStep DEF Continue
  <1>2. ASSUME NEW g \in Scripts, Step(g) \/ LeaveRows(g)  PROVE StmtInv'
    BY <1>2, RowsStep
  <1>3. ASSUME NEW g \in Scripts, Abandon(g)  PROVE StmtInv'
    BY <1>3, OtherStep
  <1>4. CASE Complete
    BY <1>4, CompleteStep
  <1>5. CASE Collect
    BY <1>5, CollectStep
  <1>6. CASE Close \/ UNCHANGED vars
    BY <1>6, OtherStep
  <1> QED  BY <1>1, <1>2, <1>3, <1>4, <1>5, <1>6 DEF Next

-----------------------------------------------------------------------------
\* The inductive invariant of scripts, Statements and the registry.
THEOREM StmtInvariant == Spec => []StmtInv
  BY InitStmtInv, NextStmtInv, PTL DEF Spec

\* The generators, the registry and SQLite's statements keep their types.
THEOREM TypeCorrect == Spec => []TypeOK
  <1>1. StmtInv => TypeOK
    BY DEF StmtInv
  <1> QED  BY <1>1, StmtInvariant, PTL

\* A Statement at its yield, or in the registry, never names a pointer that is
\* finalized or another's: finalize(), next() and the collector agree.
THEOREM PointersAreValid == Spec => []NoDangling
  <1>1. StmtInv => NoDangling
    BY DEF StmtInv
  <1> QED  BY <1>1, StmtInvariant, PTL

\* Every statement that SQLite holds is in somebody's hands.
THEOREM NoStatementLeaks == Spec => []NothingLeaks
  <1>1. StmtInv => NothingLeaks
    BY DEF StmtInv
  <1> QED  BY <1>1, StmtInvariant, PTL

\* A script that has ended, in whatever way, keeps no memory and no statement.
THEOREM EverythingGivenBack == Spec => []EndedGivesBack
  <1>1. StmtInv => EndedGivesBack
    BY DEF StmtInv
  <1> QED  BY <1>1, StmtInvariant, PTL

=============================================================================
