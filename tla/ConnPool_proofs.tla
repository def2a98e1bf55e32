--------------------------- MODULE ConnPool_proofs ---------------------------
(***************************************************************************)
(* Theorems about ConnPool for every set of calls, every max_conns and     *)
(* every choice of faults.  PoolInv is the inductive invariant: the type   *)
(* invariant, where a call holds a connection, who stands in #waiters, and *)
(* the three safety invariants.                                            *)
(***************************************************************************)
EXTENDS ConnPool, FiniteSetTheorems, TLAPS

\* A call has custody of a connection exactly from Conn.open() to return_conn().
CustodyByPc == \A c \in Calls : held[c] # NoConn <=> pc[c] \in {"init"} \cup Holding

\* Every connection in the pool's hands was opened.
CustodyOpened ==
    /\ \A c \in Calls : held[c] # NoConn => held[c] \in opened
    /\ \A i \in DOMAIN conns : conns[i] \in opened

\* A resolver that is not Gone belongs to a call that waits, and to one entry.
WaitersWait ==
    /\ \A i \in DOMAIN waiters : waiters[i] # Gone => pc[waiters[i]] = "waiting"
    /\ \A i, j \in DOMAIN waiters : waiters[i] # Gone /\ waiters[i] = waiters[j] => i = j

\* No idle connection has an open transaction.
IdleClean == \A i \in DOMAIN conns : conns[i] \notin tx

PoolInv ==
    /\ TypeOK /\ CustodyByPc /\ CustodyOpened /\ WaitersWait
    /\ IdleClean /\ ExclusiveCustody /\ NoIdleWhileWaiting

-----------------------------------------------------------------------------
(* What the sequence operations of #conns and #waiters do.                 *)

\* pop() leaves the elements in front of the last one where they were.
LEMMA PopFacts ==
    ASSUME NEW S, NEW s \in Seq(S), s # <<>>
    PROVE  LET t == SubSeq(s, 1, Len(s) - 1) IN
           /\ t \in Seq(S)
           /\ Len(s) \in DOMAIN s /\ s[Len(s)] \in S
           /\ DOMAIN t = 1..(Len(s) - 1)
           /\ \A i \in DOMAIN t : i \in DOMAIN s /\ i # Len(s) /\ t[i] = s[i]
  OBVIOUS

\* push() adds one element behind those that were there.
LEMMA PushFacts ==
    ASSUME NEW S, NEW s \in Seq(S), NEW e \in S
    PROVE  LET t == Append(s, e) IN
           /\ t \in Seq(S) /\ t # <<>>
           /\ DOMAIN t = DOMAIN s \cup {Len(s) + 1}
           /\ Len(s) + 1 \notin DOMAIN s
           /\ t[Len(s) + 1] = e
           /\ \A i \in DOMAIN s : t[i] = s[i]
  OBVIOUS

\* shift() moves every element but the first one place forward.
LEMMA ShiftFacts ==
    ASSUME NEW S, NEW s \in Seq(S), s # <<>>
    PROVE  /\ Tail(s) \in Seq(S)
           /\ 1 \in DOMAIN s /\ Head(s) = s[1] /\ Head(s) \in S
           /\ \A i \in DOMAIN Tail(s) : i + 1 \in DOMAIN s /\ i + 1 # 1 /\ Tail(s)[i] = s[i + 1]
  OBVIOUS

-----------------------------------------------------------------------------
(* Each action of a call preserves PoolInv.  Those before the connection   *)
(* is returned leave #conns and #waiters alone or change one of them.      *)

LEMMA InitPoolInv == Init => PoolInv
  BY ConstantsAssumption
  DEF Init, PoolInv, TypeOK, CustodyByPc, CustodyOpened, WaitersWait, IdleClean,
      ExclusiveCustody, NoIdleWhileWaiting, Idle, PCs, Making, Holding

LEMMA PopIdleStep == ASSUME PoolInv, NEW c \in Calls, PopIdle(c) PROVE PoolInv'
  BY ConstantsAssumption, SMTT(30)
  DEF PopIdle, PoolInv, TypeOK, CustodyByPc, CustodyOpened, WaitersWait, IdleClean,
      ExclusiveCustody, NoIdleWhileWaiting, Idle, PCs, Making, Holding

LEMMA StartMakeStep == ASSUME PoolInv, NEW c \in Calls, StartMake(c) PROVE PoolInv'
  BY ConstantsAssumption, SMTT(30)
  DEF StartMake, PoolInv, TypeOK, CustodyByPc, CustodyOpened, WaitersWait, IdleClean,
      ExclusiveCustody, NoIdleWhileWaiting, Idle, PCs, Making, Holding, SlotFree

LEMMA RefuseStep == ASSUME PoolInv, NEW c \in Calls, Refuse(c) PROVE PoolInv'
  BY ConstantsAssumption, SMTT(30)
  DEF Refuse, PoolInv, TypeOK, CustodyByPc, CustodyOpened, WaitersWait, IdleClean,
      ExclusiveCustody, NoIdleWhileWaiting, Idle, PCs, Making, Holding

LEMMA WaitStep == ASSUME PoolInv, NEW c \in Calls, Wait(c) PROVE PoolInv'
  BY ConstantsAssumption, SMTT(90)
  DEF Wait, PoolInv, TypeOK, CustodyByPc, CustodyOpened, WaitersWait, IdleClean,
      ExclusiveCustody, NoIdleWhileWaiting, Idle, PCs, Making, Holding, SlotFree, Exhausted

LEMMA TimeoutStep == ASSUME PoolInv, NEW c \in Calls, Timeout(c) PROVE PoolInv'
  BY ConstantsAssumption, SMTT(90)
  DEF Timeout, PoolInv, TypeOK, CustodyByPc, CustodyOpened, WaitersWait, IdleClean,
      ExclusiveCustody, NoIdleWhileWaiting, Idle, PCs, Making, Holding

LEMMA CallInitializedStep == ASSUME PoolInv, NEW c \in Calls, CallInitialized(c) PROVE PoolInv'
  BY ConstantsAssumption, SMTT(30)
  DEF CallInitialized, PoolInv, TypeOK, CustodyByPc, CustodyOpened, WaitersWait, IdleClean,
      ExclusiveCustody, NoIdleWhileWaiting, Idle, PCs, Making, Holding

LEMMA AwaitInitializedStep == ASSUME PoolInv, NEW c \in Calls, AwaitInitialized(c) PROVE PoolInv'
  BY ConstantsAssumption, SMTT(30)
  DEF AwaitInitialized, PoolInv, TypeOK, CustodyByPc, CustodyOpened, WaitersWait, IdleClean,
      ExclusiveCustody, NoIdleWhileWaiting, Idle, PCs, Making, Holding

LEMMA OpenStep == ASSUME PoolInv, NEW c \in Calls, Open(c) PROVE PoolInv'
  BY ConstantsAssumption, SMTT(30)
  DEF Open, PoolInv, TypeOK, CustodyByPc, CustodyOpened, WaitersWait, IdleClean,
      ExclusiveCustody, NoIdleWhileWaiting, Idle, PCs, Making, Holding

LEMMA InitConnStep == ASSUME PoolInv, NEW c \in Calls, InitConn(c) PROVE PoolInv'
  BY ConstantsAssumption, SMTT(30)
  DEF InitConn, PoolInv, TypeOK, CustodyByPc, CustodyOpened, WaitersWait, IdleClean,
      ExclusiveCustody, NoIdleWhileWaiting, Idle, PCs, Making, Holding, InitFails

LEMMA BeginStep == ASSUME PoolInv, NEW c \in Calls, Begin(c) PROVE PoolInv'
  BY ConstantsAssumption, SMTT(30)
  DEF Begin, PoolInv, TypeOK, CustodyByPc, CustodyOpened, WaitersWait, IdleClean,
      ExclusiveCustody, NoIdleWhileWaiting, Idle, PCs, Making, Holding

LEMMA EndTxStep == ASSUME PoolInv, NEW c \in Calls, EndTx(c) PROVE PoolInv'
  BY ConstantsAssumption, SMTT(30)
  DEF EndTx, PoolInv, TypeOK, CustodyByPc, CustodyOpened, WaitersWait, IdleClean,
      ExclusiveCustody, NoIdleWhileWaiting, Idle, PCs, Making, Holding

-----------------------------------------------------------------------------
(* return_conn().  When it comes to line 27 the connection is clean.       *)

Returning(c) ==
    /\ pc[c] \in Holding
    /\ held[c] \notin tx' /\ tx' \subseteq tx
    /\ UNCHANGED <<conn_count, initialized, max_delay, opened>>

LEMMA MakeIdleStep ==
    ASSUME PoolInv, NEW c \in Calls, Returning(c), waiters = <<>>, MakeIdle(c)
    PROVE  PoolInv'
<1> DEFINE k == held[c]
<1>1. k \in Conns /\ k # NoConn /\ k \in opened
  BY ConstantsAssumption DEF Returning, PoolInv, TypeOK, CustodyByPc, CustodyOpened
<1>2. /\ conns' \in Seq(Conns)
      /\ DOMAIN conns' = DOMAIN conns \cup {Len(conns) + 1}
      /\ Len(conns) + 1 \notin DOMAIN conns
      /\ conns'[Len(conns) + 1] = k
      /\ \A i \in DOMAIN conns : conns'[i] = conns[i]
  BY <1>1, PushFacts DEF MakeIdle, PoolInv, TypeOK
<1>3. TypeOK' /\ CustodyByPc' /\ WaitersWait' /\ NoIdleWhileWaiting'
  BY <1>1, <1>2, ConstantsAssumption
  DEF MakeIdle, Returning, PoolInv, TypeOK, CustodyByPc, WaitersWait, NoIdleWhileWaiting,
      PCs, Making, Holding
<1>4. CustodyOpened' /\ IdleClean'
  BY <1>1, <1>2 DEF MakeIdle, Returning, PoolInv, TypeOK, CustodyOpened, IdleClean
<1>5. ExclusiveCustody'
  <2>1. \A d \in Calls : held'[d] # k /\ held'[d] \in {held[d], NoConn}
    BY <1>1, ConstantsAssumption DEF MakeIdle, PoolInv, TypeOK, ExclusiveCustody
  <2>2. \A i \in DOMAIN conns : conns[i] # NoConn /\ conns[i] # k
    BY <1>1, ConstantsAssumption DEF PoolInv, TypeOK, ExclusiveCustody, Idle
  <2>3. Idle' = Idle \cup {k}
    BY <1>2 DEF Idle
  <2>4. \A c1, c2 \in Calls : held'[c1] # NoConn /\ held'[c1] = held'[c2] => c1 = c2
    BY <2>1 DEF PoolInv, ExclusiveCustody
  <2>5. \A d \in Calls : held'[d] \notin Idle'
    <3>1. NoConn \notin Idle
      BY <2>2 DEF Idle
    <3> QED BY <1>1, <2>1, <2>3, <3>1 DEF PoolInv, ExclusiveCustody
  <2>6. \A i, j \in DOMAIN conns' : conns'[i] = conns'[j] => i = j
    BY <1>2, <2>2 DEF PoolInv, ExclusiveCustody
  <2> QED BY <2>4, <2>5, <2>6 DEF ExclusiveCustody
<1> QED BY <1>3, <1>4, <1>5 DEF PoolInv

LEMMA HandOverStep ==
    ASSUME PoolInv, NEW c \in Calls, Returning(c), waiters # <<>>, HandOver(c)
    PROVE  PoolInv'
<1> DEFINE k == held[c]
           w == Head(waiters)
<1>1. k \in Conns /\ k # NoConn /\ k \in opened
  BY ConstantsAssumption DEF Returning, PoolInv, TypeOK, CustodyByPc, CustodyOpened
<1>2. /\ waiters' \in Seq(Calls \cup {Gone})
      /\ 1 \in DOMAIN waiters /\ w = waiters[1] /\ w \in Calls \cup {Gone}
      /\ \A i \in DOMAIN waiters' :
            i + 1 \in DOMAIN waiters /\ i + 1 # 1 /\ waiters'[i] = waiters[i + 1]
  BY ShiftFacts DEF HandOver, PoolInv, TypeOK
<1>3. w # Gone => w \in Calls /\ w # c /\ pc[w] = "waiting" /\ held[w] = NoConn
  BY <1>2 DEF Returning, PoolInv, WaitersWait, CustodyByPc, Holding
<1>4. TypeOK' /\ CustodyByPc'
  BY <1>1, <1>2, <1>3, ConstantsAssumption
  DEF HandOver, PassTo, Returning, PoolInv, TypeOK, CustodyByPc, PCs, Making, Holding
<1>5. WaitersWait'
  <2>1. \A i \in DOMAIN waiters' : waiters'[i] # Gone => waiters'[i] # w
    BY <1>2 DEF PoolInv, WaitersWait
  <2>2. \A i \in DOMAIN waiters' : waiters'[i] # Gone => pc'[waiters'[i]] = "waiting"
    <3> SUFFICES ASSUME NEW i \in DOMAIN waiters', waiters'[i] # Gone
                 PROVE  pc'[waiters'[i]] = "waiting"
      OBVIOUS
    <3>1. waiters'[i] \in Calls /\ pc[waiters'[i]] = "waiting"
      BY <1>2 DEF PoolInv, WaitersWait, TypeOK
    <3>2. waiters'[i] # c /\ waiters'[i] # w
      BY <3>1, <2>1 DEF Returning, Holding
    <3> QED BY <3>1, <3>2 DEF HandOver, PassTo
  <2>3. \A i, j \in DOMAIN waiters' : waiters'[i] # Gone /\ waiters'[i] = waiters'[j] => i = j
    <3> SUFFICES ASSUME NEW i \in DOMAIN waiters', NEW j \in DOMAIN waiters',
                        waiters'[i] # Gone, waiters'[i] = waiters'[j]
                 PROVE  i = j
      OBVIOUS
    <3>1. i + 1 = j + 1
      BY <1>2 DEF PoolInv, WaitersWait
    <3>2. i \in Int /\ j \in Int
      BY <1>2 DEF PoolInv, TypeOK
    <3> QED BY <3>1, <3>2
  <2> QED BY <2>2, <2>3 DEF WaitersWait
<1>6. CustodyOpened' /\ IdleClean'
  BY <1>1, <1>2, <1>3
  DEF HandOver, PassTo, Returning, PoolInv, TypeOK, CustodyOpened, IdleClean
<1>7. ExclusiveCustody'
  <2>1. \A d \in Calls : held'[d] = k => d = w
    BY <1>1 DEF HandOver, PassTo, PoolInv, TypeOK, ExclusiveCustody
  <2>2. \A d \in Calls : held'[d] # k => held'[d] \in {held[d], NoConn}
    BY DEF HandOver, PassTo
  <2>3. conns' = conns /\ Idle' = Idle
    BY DEF HandOver, Idle
  <2>4. \A i \in DOMAIN conns : conns[i] # NoConn /\ conns[i] # k
    BY <1>1, ConstantsAssumption DEF PoolInv, TypeOK, ExclusiveCustody, Idle
  <2> QED BY <2>1, <2>2, <2>3, <2>4 DEF PoolInv, ExclusiveCustody, Idle
<1>8. NoIdleWhileWaiting'
  BY DEF HandOver, Returning, PoolInv, NoIdleWhileWaiting
<1> QED BY <1>4, <1>5, <1>6, <1>7, <1>8 DEF PoolInv

LEMMA DeliverStep ==
    ASSUME PoolInv, NEW c \in Calls, Returning(c), Deliver(c) PROVE PoolInv'
  BY MakeIdleStep, HandOverStep DEF Deliver

LEMMA FinishStep == ASSUME PoolInv, NEW c \in Calls, Finish(c) PROVE PoolInv'
<1>1. CASE pc' = [pc EXCEPT ![c] = "rollback"] /\ UNCHANGED <<conns, waiters, held>>
  BY <1>1, ConstantsAssumption
  DEF Finish, PoolInv, TypeOK, CustodyByPc, CustodyOpened, WaitersWait, IdleClean,
      ExclusiveCustody, NoIdleWhileWaiting, Idle, PCs, Making, Holding
<1>2. CASE ~NeedsRollback(c) /\ Deliver(c)
  <2> Returning(c)
    BY <1>2 DEF Finish, NeedsRollback, Returning, Holding
  <2> QED BY <1>2, DeliverStep
<1> QED BY <1>1, <1>2 DEF Finish

LEMMA RollbackStep == ASSUME PoolInv, NEW c \in Calls, Rollback(c) PROVE PoolInv'
<1>1. CASE tx' = tx \ {held[c]} /\ Deliver(c)
  <2> Returning(c)
    BY <1>1 DEF Rollback, Returning, Holding
  <2> QED BY <1>1, DeliverStep
<1>2. CASE /\ pc' = [pc EXCEPT ![c] = "failed"]
           /\ held' = [held EXCEPT ![c] = NoConn]
           /\ UNCHANGED <<tx, conns, waiters>>
  BY <1>2, ConstantsAssumption
  DEF Rollback, PoolInv, TypeOK, CustodyByPc, CustodyOpened, WaitersWait, IdleClean,
      ExclusiveCustody, NoIdleWhileWaiting, Idle, PCs, Making, Holding
<1> QED BY <1>1, <1>2 DEF Rollback

-----------------------------------------------------------------------------
(* The theorems.                                                           *)

LEMMA SettleStep == ASSUME PoolInv, Settle PROVE PoolInv'
  BY DEF Settle, PoolInv, TypeOK, CustodyByPc, CustodyOpened, WaitersWait, IdleClean,
         ExclusiveCustody, NoIdleWhileWaiting, Idle

LEMMA NextPoolInv == PoolInv /\ [Next]_vars => PoolInv'
<1> SUFFICES ASSUME PoolInv, [Next]_vars PROVE PoolInv'
  OBVIOUS
<1>1. ASSUME NEW c \in Calls, Call(c) PROVE PoolInv'
  BY <1>1, PopIdleStep, StartMakeStep, RefuseStep, WaitStep DEF Call
<1>2. ASSUME NEW c \in Calls, Continue(c) PROVE PoolInv'
  BY <1>2, CallInitializedStep, AwaitInitializedStep, OpenStep, InitConnStep,
     FinishStep, RollbackStep DEF Continue
<1>3. CASE UNCHANGED vars
  BY <1>3 DEF vars, PoolInv, TypeOK, CustodyByPc, CustodyOpened, WaitersWait, IdleClean,
     ExclusiveCustody, NoIdleWhileWaiting, Idle
<1> QED BY <1>1, <1>2, <1>3, TimeoutStep, BeginStep, EndTxStep, SettleStep DEF Next

\* PoolInv holds throughout, whatever calls time out and whatever steps fail.
THEOREM PoolInvariant == Spec => []PoolInv
<1> QED BY InitPoolInv, NextPoolInv, PTL DEF Spec

\* The variables keep their types.
THEOREM TypeCorrect == Spec => []TypeOK
<1>1. PoolInv => TypeOK
  BY DEF PoolInv
<1> QED BY <1>1, PoolInvariant, PTL

\* No connection is ever in two places.
THEOREM CustodyIsExclusive == Spec => []ExclusiveCustody
<1>1. PoolInv => ExclusiveCustody
  BY DEF PoolInv
<1> QED BY <1>1, PoolInvariant, PTL

\* Nobody queues while a connection lies idle or a slot is free.
THEOREM NobodyWaitsForNothing == Spec => []NoIdleWhileWaiting
<1>1. PoolInv => NoIdleWhileWaiting
  BY DEF PoolInv
<1> QED BY <1>1, PoolInvariant, PTL

\* What a call gets in one step is a new connection, an idle one, or the
\* clean one that another call returns.
LEMMA StepHandsOverClean ==
    ASSUME PoolInv, [Next]_vars, NEW c \in Calls, held[c] = NoConn, held'[c] # NoConn
    PROVE  held'[c] \notin tx'
<1>1. ASSUME NEW d \in Calls, PopIdle(d) PROVE held'[c] \notin tx'
  BY <1>1, PopFacts DEF PopIdle, PoolInv, TypeOK, IdleClean
<1>2. ASSUME NEW d \in Calls, Open(d) PROVE held'[c] \notin tx'
  BY <1>2 DEF Open, PoolInv, TypeOK
<1>3. ASSUME NEW d \in Calls, Deliver(d), held[d] \notin tx' PROVE held'[c] \notin tx'
  BY <1>3 DEF Deliver, MakeIdle, HandOver, PassTo, PoolInv, TypeOK
<1>4. ASSUME NEW d \in Calls, Finish(d) PROVE held'[c] \notin tx'
  BY <1>3, <1>4 DEF Finish, NeedsRollback
<1>5. ASSUME NEW d \in Calls, Rollback(d) PROVE held'[c] \notin tx'
  BY <1>3, <1>5 DEF Rollback, PoolInv, TypeOK
<1>6. ASSUME NEW d \in Calls, InitConn(d) PROVE held'[c] \notin tx'
  BY <1>6 DEF InitConn, InitFails, PoolInv, TypeOK
<1>7. CASE held' = held
  BY <1>7
<1> QED
  BY <1>1, <1>2, <1>4, <1>5, <1>6, <1>7
  DEF Next, Call, Continue, StartMake, Refuse, Wait, Timeout, CallInitialized,
      AwaitInitialized, Begin, EndTx, Settle, vars

\* A pooled connection changes hands only with autocommit on.
THEOREM HandoverIsClean == Spec => CleanHandover
<1>1. PoolInv /\ [Next]_vars =>
        [\A c \in Calls : held[c] = NoConn /\ held'[c] # NoConn => held'[c] \notin tx']_vars
  BY StepHandsOverClean
<1> QED BY <1>1, PoolInvariant, PTL DEF Spec, CleanHandover

\* A call that gets a pooled connection in a step was first in #waiters, or
\* #waiters was empty.
LEMMA StepOvertakesNobody ==
    ASSUME PoolInv, [Next]_vars, NEW c \in Calls,
           pc[c] \in {"start", "waiting"}, held'[c] # NoConn
    PROVE  \A i \in DOMAIN waiters :
              waiters[i] \in {Gone, c} \/ \E j \in 1..(i - 1) : waiters[j] = c
<1>0. held[c] = NoConn
  BY DEF PoolInv, CustodyByPc, Holding
<1>1. ASSUME NEW d \in Calls, PopIdle(d) PROVE waiters = <<>>
  BY <1>1 DEF PopIdle, PoolInv, NoIdleWhileWaiting
<1>2. ASSUME NEW d \in Calls, Deliver(d)
      PROVE  waiters # <<>> /\ waiters[1] = c
  <2>1. waiters # <<>> /\ HandOver(d)
    BY <1>0, <1>2 DEF Deliver, MakeIdle, PoolInv, TypeOK
  <2>2. Head(waiters) = c
    BY <1>0, <2>1 DEF HandOver, PassTo, PoolInv, TypeOK
  <2> QED BY <2>1, <2>2, ShiftFacts DEF PoolInv, TypeOK
<1>3. waiters # <<>> /\ waiters[1] = c =>
        \A i \in DOMAIN waiters : waiters[i] \in {Gone, c} \/ \E j \in 1..(i - 1) : waiters[j] = c
  BY DEF PoolInv, TypeOK
<1>4. waiters = <<>> => DOMAIN waiters = {}
  OBVIOUS
<1>5. ASSUME NEW d \in Calls, Open(d) \/ InitConn(d) PROVE FALSE
  BY <1>0, <1>5 DEF Open, InitConn, InitFails, PoolInv, TypeOK
<1>6. ASSUME NEW d \in Calls, Finish(d) \/ Rollback(d) PROVE Deliver(d)
  BY <1>0, <1>6 DEF Finish, Rollback, PoolInv, TypeOK
<1>7. held' # held
  BY <1>0
<1>8. \E d \in Calls : PopIdle(d) \/ Deliver(d)
  BY <1>5, <1>6, <1>7
  DEF Next, Call, Continue, StartMake, Refuse, Wait, Timeout, CallInitialized,
      AwaitInitialized, Begin, EndTx, Settle, vars
<1> QED BY <1>1, <1>2, <1>3, <1>4, <1>8

\* Connections are handed out in the order in which the calls queued.
THEOREM HandoverIsFifo == Spec => NoOvertaking
<1>1. PoolInv /\ [Next]_vars =>
        [\A c \in Calls :
          pc[c] \in {"start", "waiting"} /\ held'[c] # NoConn =>
             \A i \in DOMAIN waiters :
                waiters[i] \in {Gone, c} \/ \E j \in 1..(i - 1) : waiters[j] = c]_vars
  BY StepOvertakesNobody
<1> QED BY <1>1, PoolInvariant, PTL DEF Spec, NoOvertaking

-----------------------------------------------------------------------------
(* The bound on connections.  A slot counted by conn_count has paid for    *)
(* one connection, opened or yet to be opened by the call that took it.    *)

ToOpen == {c \in Calls : pc[c] \in {"sqlite", "initialized", "opening"}}

SlotsPaid ==
    /\ IsFiniteSet(opened) /\ IsFiniteSet(ToOpen)
    /\ Cardinality(opened) + Cardinality(ToOpen) <= conn_count

LEMMA StepSlotsPaid == ASSUME PoolInv, SlotsPaid, [Next]_vars PROVE SlotsPaid'
<1> USE DEF PoolInv, TypeOK, SlotsPaid
<1>1. ASSUME NEW c \in Calls, StartMake(c) PROVE SlotsPaid'
  <2>1. opened' = opened /\ ToOpen' = ToOpen \cup {c} /\ c \notin ToOpen
    BY <1>1 DEF StartMake, ToOpen
  <2>2. IsFiniteSet(ToOpen') /\ Cardinality(ToOpen') = Cardinality(ToOpen) + 1
    BY <2>1, FS_AddElement
  <2>3. conn_count' = conn_count + 1
    BY <1>1 DEF StartMake
  <2> QED BY <2>1, <2>2, <2>3, FS_CardinalityType
<1>2. ASSUME NEW c \in Calls, Open(c) PROVE SlotsPaid'
  <2>1. c \in ToOpen /\ ToOpen' = ToOpen \ {c}
    BY <1>2 DEF Open, ToOpen
  <2>2. opened' = opened \/ \E conn \in Conns \ opened : opened' = opened \cup {conn}
    BY <1>2 DEF Open
  <2>3. conn_count' = conn_count
    BY <1>2 DEF Open
  <2>4. IsFiniteSet(ToOpen') /\ Cardinality(ToOpen') = Cardinality(ToOpen) - 1
    BY <2>1, FS_RemoveElement
  <2>5. IsFiniteSet(opened') /\ Cardinality(opened') <= Cardinality(opened) + 1
    <3>1. CASE opened' = opened
      BY <3>1, FS_CardinalityType
    <3>2. ASSUME NEW conn \in Conns \ opened, opened' = opened \cup {conn}
          PROVE  IsFiniteSet(opened') /\ Cardinality(opened') = Cardinality(opened) + 1
      BY <3>2, FS_AddElement
    <3> QED BY <2>2, <3>1, <3>2, FS_CardinalityType
  <2>6. /\ Cardinality(opened) \in Nat /\ Cardinality(ToOpen) \in Nat
        /\ Cardinality(opened') \in Nat /\ Cardinality(ToOpen') \in Nat
    BY <2>4, <2>5, FS_CardinalityType
  <2> QED BY <2>3, <2>4, <2>5, <2>6
<1>3. ASSUME opened' = opened, conn_count' = conn_count, ToOpen' \subseteq ToOpen
      PROVE  SlotsPaid'
  BY <1>3, FS_Subset, FS_CardinalityType
<1>4. ASSUME NEW c \in Calls,
             \/ PopIdle(c) \/ Refuse(c) \/ Wait(c) \/ Timeout(c) \/ CallInitialized(c)
             \/ AwaitInitialized(c) \/ InitConn(c) \/ Begin(c) \/ EndTx(c)
      PROVE  SlotsPaid'
  <2>1. opened' = opened /\ conn_count' = conn_count /\ ToOpen' \subseteq ToOpen
    BY <1>4
    DEF PopIdle, Refuse, Wait, Timeout, CallInitialized, AwaitInitialized, InitConn,
        InitFails, Begin, EndTx, ToOpen
  <2> QED BY <1>3, <2>1
<1>5. ASSUME NEW c \in Calls, Finish(c) \/ Rollback(c) PROVE SlotsPaid'
  <2>1. opened' = opened /\ conn_count' = conn_count
    BY <1>5 DEF Finish, Rollback
  <2>2. ToOpen' \subseteq ToOpen
    BY <1>5 DEF Finish, Rollback, Deliver, MakeIdle, HandOver, PassTo, ToOpen
  <2> QED BY <1>3, <2>1, <2>2
<1>6. CASE Settle \/ UNCHANGED vars
  <2>1. opened' = opened /\ conn_count' = conn_count /\ ToOpen' = ToOpen
    BY <1>6 DEF Settle, vars, ToOpen
  <2> QED BY <1>3, <2>1
<1> QED BY <1>1, <1>2, <1>4, <1>5, <1>6 DEF Next, Call, Continue

\* However calls fail, no more than max_conns connections are ever opened.
THEOREM OpenedIsBounded == Spec => []OpenedBound
<1>1. Init => SlotsPaid
  <2> SUFFICES ASSUME Init PROVE SlotsPaid
    OBVIOUS
  <2>1. opened = {} /\ ToOpen = {} /\ conn_count = 0
    BY DEF Init, ToOpen
  <2> QED BY <2>1, FS_EmptySet DEF SlotsPaid
<1>2. PoolInv /\ SlotsPaid /\ [Next]_vars => SlotsPaid'
  BY StepSlotsPaid
<1>3. PoolInv /\ SlotsPaid => OpenedBound
  BY FS_CardinalityType, ConstantsAssumption DEF SlotsPaid, OpenedBound, PoolInv, TypeOK
<1> QED BY <1>1, <1>2, <1>3, PoolInvariant, PTL DEF Spec

=============================================================================
