------------------------------ MODULE FileLock ------------------------------
(***************************************************************************)
(* The locking half of the class File of src/src/vfs/file.js: xLock and    *)
(* xUnlock made of two Web Locks, lock_name held shared by readers and     *)
(* exclusive by the writer, and lock_name + '-r' held by the one           *)
(* connection that intends to write.  A step is what one call does between *)
(* two awaits.  The caller is SQLite's pager; eLock is the level it        *)
(* believes to have: 0 NONE, 1 SHARED, 2 RESERVED, 4 EXCLUSIVE.            *)
(***************************************************************************)
EXTENDS WebLocks

CONSTANTS
    Connections,    \* the database connections; the calls of one are sequential
    Dbs,            \* the database files
    ConnOf,         \* the connection that opened each File
    DbOf,           \* the database file each File has a handle of
    LockName,       \* the lock_name each File was constructed with
    ResName         \* res_name(): the name of the reserved lock of a lock_name

Files == Clients

ASSUME FilesAssumption ==
    /\ ConnOf \in [Files -> Connections]
    /\ DbOf \in [Files -> Dbs]
    /\ LockName \in [Files -> LockNames]
    /\ \A f \in Files : ResName[LockName[f]] \in LockNames

\* Files of one database have one lock name, and no file has a name that is
\* another's reserved lock name.
ASSUME NamesAssumption ==
    /\ \A f, g \in Files : DbOf[f] = DbOf[g] => LockName[f] = LockName[g]
    /\ \A f, g \in Files : ResName[LockName[f]] # LockName[g]
    /\ \A f, g \in Files : ResName[LockName[f]] = ResName[LockName[g]] => LockName[f] = LockName[g]

VARIABLES
    lock,           \* #lock: none, or the mode of the lock object in it
    res_lock,       \* whether #res_lock is set
    pc,             \* the await at which the File's current call is suspended
    level,          \* the argument of that call, while line 68 or 86 has yet to read it
    eLock,          \* Pager.eLock
    stale           \* whether another File has written since #blob was taken

fileVars == <<lock, res_lock, pc, level, eLock, stale>>
vars == <<held, queue, lock, res_lock, pc, level, eLock, stale>>

Awaits == {"shared", "getfile", "reserve", "exchange", "downgrade"}

\* #lock, #res_lock, the pager's level and the locks of the origin have the
\* types they are declared with; nobody is at a level between them.
TypeOK ==
    /\ WebLocksTypeOK
    /\ lock \in [Files -> {"none", "shared", "exclusive"}]
    /\ res_lock \in [Files -> BOOLEAN]
    /\ pc \in [Files -> {"idle", "error"} \cup Awaits]
    /\ level \in [Files -> {0, 1, 2, 4}]
    /\ eLock \in [Files -> {0, 1, 2, 4}]
    /\ stale \in [Files -> BOOLEAN]

Init ==
    /\ WebLocksInit
    /\ lock = [f \in Files |-> "none"]
    /\ res_lock = [f \in Files |-> FALSE]
    /\ pc = [f \in Files |-> "idle"]
    /\ level = [f \in Files |-> 0]
    /\ eLock = [f \in Files |-> 0]
    /\ stale = [f \in Files |-> TRUE]

-----------------------------------------------------------------------------
name(f) == LockName[f]
res_name(f) == ResName[LockName[f]]

\* No call of f's connection is under way: SQLite makes one at a time.
Free(f) ==
    /\ pc[f] \in {"idle", "error"}
    /\ \A g \in Files \ {f} : ConnOf[g] = ConnOf[f] => pc[g] = "idle"

\* The levels the pager asks of xLock: SHARED first, then RESERVED, and
\* EXCLUSIVE from RESERVED, or from SHARED to roll back a hot journal.
Asks(f, l) ==
    /\ Free(f) /\ pc[f] = "idle"
    /\ \/ eLock[f] = 0 /\ l = 1
       \/ eLock[f] = 1 /\ l \in {2, 4}
       \/ eLock[f] = 2 /\ l = 4

\* lock(1) up to line 58.
RequestShared(f) ==
    /\ Asks(f, 1)
    /\ lock[f] = "none"
    /\ queue' = Requested(name(f), f, "shared")
    /\ pc' = [pc EXCEPT ![f] = "shared"]
    /\ UNCHANGED <<held, lock, res_lock, level, eLock, stale>>

SharedGranted(f) ==
    /\ pc[f] = "shared"
    /\ Lock(f, "shared") \in held[name(f)]
    /\ lock' = [lock EXCEPT ![f] = "shared"]
    /\ pc' = [pc EXCEPT ![f] = "getfile"]
    /\ UNCHANGED <<held, queue, res_lock, level, eLock, stale>>

\* #blob becomes the file as it is now.  Its mutant keeps a #blob it has.
KeepBlob(f) == UNCHANGED stale
TakeBlob(f) == stale' = [stale EXCEPT ![f] = FALSE]

\* getFile() answers.  When it rejects, xLock answers SQLITE_IOERR with the
\* lock still held, and the pager unlocks.
GotFile(f) ==
    /\ pc[f] = "getfile"
    /\ \/ /\ pc' = [pc EXCEPT ![f] = "idle"]
          /\ eLock' = [eLock EXCEPT ![f] = 1]
          /\ TakeBlob(f)
       \/ /\ pc' = [pc EXCEPT ![f] = "error"]
          /\ UNCHANGED <<eLock, stale>>
    /\ UNCHANGED <<held, queue, lock, res_lock, level>>

\* Whether line 65 comes back with a lock, and a mutant that does not look.
AnyAnswerWillDo(f) == TRUE
ReserveAvailable(f) == Available(res_name(f), "exclusive")

\* Line 65.  The answer of an ifAvailable request does not wait for anybody;
\* when it is null, lock() returns false, SQLITE_BUSY.
Reserve(f, l) ==
    /\ Asks(f, l)
    /\ l >= 2
    /\ ~res_lock[f]
    /\ \/ /\ ReserveAvailable(f)
          /\ held' = Granted(res_name(f), f, "exclusive")
          /\ pc' = [pc EXCEPT ![f] = "reserve"]
          /\ level' = [level EXCEPT ![f] = l]
       \/ /\ ~ReserveAvailable(f)
          /\ UNCHANGED <<held, pc, level>>
    /\ UNCHANGED <<queue, lock, res_lock, eLock, stale>>

\* A mutant that waits for the exclusive lock without releasing its own.
ExchangeWithoutRelease(f) ==
    /\ queue' = Requested(name(f), f, "exclusive")
    /\ pc' = [pc EXCEPT ![f] = "exchange"]
    /\ UNCHANGED <<held, lock, eLock>>

\* Lines 70 to 72: #lock is the shared one until the exclusive one is granted.
Exchange(f) ==
    /\ queue' = Requested(name(f), f, "exclusive")
    /\ held' = Released(name(f), f, "shared")
    /\ pc' = [pc EXCEPT ![f] = "exchange"]
    /\ UNCHANGED <<lock, eLock>>

\* Lines 66 to 71, once the reserved lock is granted.
Reserved(f) ==
    /\ pc[f] = "reserve"
    /\ res_lock' = [res_lock EXCEPT ![f] = TRUE]
    /\ \/ /\ level[f] < 3
          /\ pc' = [pc EXCEPT ![f] = "idle"]
          /\ eLock' = [eLock EXCEPT ![f] = 2]
          /\ UNCHANGED <<held, queue, lock>>
       \/ /\ level[f] >= 3
          /\ Exchange(f)
    /\ level' = [level EXCEPT ![f] = 0]
    /\ UNCHANGED stale

\* lock(2) or lock(4) of a File that has its #res_lock already.
LockReserved(f, l) ==
    /\ Asks(f, l)
    /\ l >= 2
    /\ res_lock[f]
    /\ \/ /\ l < 3
          /\ eLock' = [eLock EXCEPT ![f] = 2]
          /\ UNCHANGED <<held, queue, lock, pc>>
       \/ /\ l >= 3
          /\ Exchange(f)
    /\ UNCHANGED <<res_lock, level, stale>>

\* Line 72.
Exchanged(f) ==
    /\ pc[f] = "exchange"
    /\ Lock(f, "exclusive") \in held[name(f)]
    /\ lock' = [lock EXCEPT ![f] = "exclusive"]
    /\ pc' = [pc EXCEPT ![f] = "idle"]
    /\ eLock' = [eLock EXCEPT ![f] = 4]
    /\ UNCHANGED <<held, queue, res_lock, level, stale>>

-----------------------------------------------------------------------------
\* The pager's xUnlock: to NONE or SHARED, and to NONE after an xLock error.
Gives(f, l) ==
    /\ Free(f)
    /\ \/ pc[f] = "idle" /\ l < eLock[f]
       \/ pc[f] = "error" /\ l = 0

\* A mutant that releases the exclusive lock and waits for nothing.
DowngradeAtOnce(f, l) ==
    /\ Gives(f, l)
    /\ lock[f] = "exclusive"
    /\ held' = [held EXCEPT ![name(f)] = @ \ {Lock(f, "exclusive")},
                            ![res_name(f)] = @ \ {Lock(f, "exclusive")}]
    /\ lock' = [lock EXCEPT ![f] = IF l = 0 THEN "none" ELSE "shared"]
    /\ res_lock' = [res_lock EXCEPT ![f] = FALSE]
    /\ eLock' = [eLock EXCEPT ![f] = l]
    /\ UNCHANGED <<queue, pc, level, stale>>

\* Lines 79 to 82: the exclusive lock is exchanged for a shared one.
StartDowngrade(f, l) ==
    /\ Gives(f, l)
    /\ lock[f] = "exclusive"
    /\ queue' = Requested(name(f), f, "shared")
    /\ held' = Released(name(f), f, "exclusive")
    /\ pc' = [pc EXCEPT ![f] = "downgrade"]
    /\ level' = [level EXCEPT ![f] = l]
    /\ UNCHANGED <<lock, res_lock, eLock, stale>>

\* A mutant that goes down one level, whatever level is asked.
DowngradedOneLevel(f) ==
    /\ pc[f] = "downgrade"
    /\ Lock(f, "shared") \in held[name(f)]
    /\ lock' = [lock EXCEPT ![f] = "shared"]
    /\ pc' = [pc EXCEPT ![f] = "idle"]
    /\ eLock' = [eLock EXCEPT ![f] = @ - 1]
    /\ level' = [level EXCEPT ![f] = 0]
    /\ UNCHANGED <<held, queue, res_lock, stale>>

\* Lines 82 to 89, once the shared lock is granted.
Downgraded(f) ==
    /\ pc[f] = "downgrade"
    /\ Lock(f, "shared") \in held[name(f)]
    /\ held' = [held EXCEPT ![res_name(f)] = @ \ {Lock(f, "exclusive")},
                            ![name(f)] = IF level[f] = 0 THEN @ \ {Lock(f, "shared")} ELSE @]
    /\ lock' = [lock EXCEPT ![f] = IF level[f] = 0 THEN "none" ELSE "shared"]
    /\ res_lock' = [res_lock EXCEPT ![f] = FALSE]
    /\ pc' = [pc EXCEPT ![f] = "idle"]
    /\ eLock' = [eLock EXCEPT ![f] = level[f]]
    /\ level' = [level EXCEPT ![f] = 0]
    /\ UNCHANGED <<queue, stale>>

\* A mutant of unlock(0) that only looks at what the pager believes.
UnlockWhatPagerHas(f, l) ==
    /\ Gives(f, l)
    /\ lock[f] = "shared"
    /\ \/ /\ l = 1 \/ eLock[f] = 0
          /\ UNCHANGED <<held, lock>>
       \/ /\ l = 0 /\ eLock[f] > 0
          /\ held' = Released(name(f), f, "shared")
          /\ lock' = [lock EXCEPT ![f] = "none"]
    /\ pc' = [pc EXCEPT ![f] = "idle"]
    /\ eLock' = [eLock EXCEPT ![f] = l]
    /\ UNCHANGED <<queue, res_lock, level, stale>>

\* A File whose lock is shared: unlock(1) does nothing, and unlock(0) releases
\* it; neither looks at #res_lock.
UnlockShared(f, l) ==
    /\ Gives(f, l)
    /\ lock[f] = "shared"
    /\ \/ /\ l = 1
          /\ UNCHANGED <<held, lock>>
       \/ /\ l = 0
          /\ held' = Released(name(f), f, "shared")
          /\ lock' = [lock EXCEPT ![f] = "none"]
    /\ pc' = [pc EXCEPT ![f] = "idle"]
    /\ eLock' = [eLock EXCEPT ![f] = l]
    /\ UNCHANGED <<queue, res_lock, level, stale>>

\* check_reserved_lock(): asks for the locks of the whole origin.
check_reserved_lock(f) == AnyLockHeld

-----------------------------------------------------------------------------
\* The pager writes the database file, which it does at EXCLUSIVE only: what
\* the other Files of the database have in #blob is out of date.
Write(f) ==
    /\ Free(f) /\ pc[f] = "idle"
    /\ eLock[f] = 4
    /\ stale' = [g \in Files |-> stale[g] \/ (g # f /\ DbOf[g] = DbOf[f])]
    /\ UNCHANGED <<held, queue, lock, res_lock, pc, level, eLock>>

\* The tab or worker of a connection goes away; a new one may take its place.
Crash(k) ==
    LET F == {f \in Files : ConnOf[f] = k} IN
    /\ Abandon(F)
    /\ lock' = [f \in Files |-> IF f \in F THEN "none" ELSE lock[f]]
    /\ res_lock' = [f \in Files |-> IF f \in F THEN FALSE ELSE res_lock[f]]
    /\ pc' = [f \in Files |-> IF f \in F THEN "idle" ELSE pc[f]]
    /\ eLock' = [f \in Files |-> IF f \in F THEN 0 ELSE eLock[f]]
    /\ level' = [f \in Files |-> IF f \in F THEN 0 ELSE level[f]]
    /\ stale' = [f \in Files |-> IF f \in F THEN TRUE ELSE stale[f]]

GrantLock(n) == Grant(n) /\ UNCHANGED fileVars

\* The continuations of a File's call.
Continue(f) == SharedGranted(f) \/ GotFile(f) \/ Reserved(f) \/ Exchanged(f) \/ Downgraded(f)

Lock1(f) == RequestShared(f)
LockUp(f, l) == Reserve(f, l) \/ LockReserved(f, l)
Unlock(f, l) == StartDowngrade(f, l) \/ UnlockShared(f, l)

Next ==
    \/ \E f \in Files :
          \/ Lock1(f) \/ Continue(f) \/ Write(f)
          \/ \E l \in {2, 4} : LockUp(f, l)
          \/ \E l \in {0, 1} : Unlock(f, l)
    \/ \E n \in LockNames : GrantLock(n)
    \/ \E k \in Connections : Crash(k)

\* The event loop and the lock manager make progress, and an application ends
\* its transactions: SQLite unlocks a File it can unlock again and again.
Fairness ==
    /\ \A f \in Files : WF_vars(Continue(f)) /\ SF_vars(Unlock(f, 0))
    /\ \A n \in LockNames : WF_vars(GrantLock(n))

Spec == Init /\ [][Next]_vars /\ Fairness

-----------------------------------------------------------------------------
(* Properties.                                                             *)

\* The level a File really excludes others at.  From the first step of a
\* downgrade readers may come in, though the pager has no answer yet.
Excludes(f) == IF pc[f] = "downgrade" THEN 1 ELSE eLock[f]

\* A writer is alone, and there is one intent to write: of two Files of a
\* database one at EXCLUSIVE leaves NONE to the other, and not both are at
\* RESERVED or above, while locks are exchanged, downgraded or abandoned.
MutualExclusion ==
    \A f, g \in Files : f # g /\ DbOf[f] = DbOf[g] =>
        /\ Excludes(f) = 4 => Excludes(g) = 0
        /\ Excludes(f) >= 2 => Excludes(g) < 2

\* Nobody writes under a reader: from the getFile() of lock(1) until xUnlock to
\* NONE no other File writes the database, not even while an upgrade has given
\* the shared lock back and waits for the exclusive one.
SnapshotNotOvertaken == \A f \in Files : eLock[f] >= 1 => ~stale[f]

\* A File at NONE keeps nobody out: it holds no lock on lock_name, after
\* upgrades, downgrades and failed calls alike.
NoneHoldsNothing ==
    \A f \in Files : pc[f] = "idle" /\ eLock[f] = 0 =>
        \A m \in {"shared", "exclusive"} : Lock(f, m) \notin held[name(f)]

Promise == INSTANCE DbLock WITH Files <- Clients, level <- [f \in Files |-> Excludes(f)]

\* The two Web Locks together implement SQLite's five-level lock.
ImplementsDbLock == Promise!Spec

\* A call that waits for a lock gets it once the readers before it are done:
\* xLock(SHARED), xLock(EXCLUSIVE) and xUnlock do not wait for ever.
CallsAnswered == \A f \in Files : pc[f] \in Awaits ~> pc[f] \notin Awaits

\* xUnlock gives up the intent to write: "xUnlock() downgrades the database
\* file lock to either SHARED or NONE" (src/vendor/sqlite3.h).
ReservedIsReleased ==
    \A f \in Files : pc[f] = "idle" /\ eLock[f] < 2 =>
        Lock(f, "exclusive") \notin held[res_name(f)]

\* xCheckReservedLock answers true only if a connection holds a RESERVED,
\* PENDING or EXCLUSIVE lock on the file; the pager asks it at SHARED whether
\* a journal it finds is hot.
ReservedIsReported ==
    \A f \in Files : pc[f] = "idle" /\ eLock[f] = 1 /\ check_reserved_lock(f) =>
            \E g \in Files : DbOf[g] = DbOf[f] /\ res_lock[g]

=============================================================================
