------------------------------- MODULE DbLock -------------------------------
(***************************************************************************)
(* What SQLite expects of xLock and xUnlock (src/vendor/sqlite3.h, the     *)
(* comment on sqlite3_io_methods): each File is at a level, many Files of  *)
(* a database may be at SHARED, one of them at RESERVED beside them, and   *)
(* one at EXCLUSIVE alone.  A File at SHARED or above sees no write of     *)
(* another.                                                                *)
(***************************************************************************)
EXTENDS Naturals

CONSTANTS Files, DbOf
VARIABLES level, stale

lockVars == <<level, stale>>

Others(f) == {g \in Files \ {f} : DbOf[g] = DbOf[f]}

Init ==
    /\ level = [f \in Files |-> 0]
    /\ stale = [f \in Files |-> TRUE]

Share(f) ==
    /\ level[f] = 0
    /\ \A g \in Others(f) : level[g] # 4
    /\ level' = [level EXCEPT ![f] = 1]
    /\ stale' = [stale EXCEPT ![f] = FALSE]

Reserve(f) ==
    /\ level[f] = 1
    /\ \A g \in Others(f) : level[g] < 2
    /\ level' = [level EXCEPT ![f] = 2]
    /\ UNCHANGED stale

Exclude(f) ==
    /\ level[f] \in {1, 2}
    /\ \A g \in Others(f) : level[g] = 0
    /\ level' = [level EXCEPT ![f] = 4]
    /\ UNCHANGED stale

Unlock(f, l) ==
    /\ l < level[f]
    /\ level' = [level EXCEPT ![f] = l]
    /\ UNCHANGED stale

Write(f) ==
    /\ level[f] = 4
    /\ stale' = [g \in Files |-> stale[g] \/ g \in Others(f)]
    /\ UNCHANGED level

Crash(F) ==
    /\ level' = [f \in Files |-> IF f \in F THEN 0 ELSE level[f]]
    /\ stale' = [f \in Files |-> IF f \in F THEN TRUE ELSE stale[f]]

Next ==
    \/ \E f \in Files :
          \/ Share(f) \/ Reserve(f) \/ Exclude(f) \/ Write(f)
          \/ \E l \in {0, 1} : Unlock(f, l)
    \/ \E F \in SUBSET Files : Crash(F)

Spec == Init /\ [][Next]_lockVars

=============================================================================
