------------------------------- MODULE FileIO -------------------------------
(***************************************************************************)
(* The other half of the class File of src/src/vfs/file.js: its reads, its *)
(* writes into a writable stream (a copy of the file that replaces it when *)
(* it is closed), sync(), trunc() and the file controls of batch-atomic    *)
(* writes.  Several Files, one per connection, have one database file; who *)
(* may be at which lock level is DbLock's, which FileLock implements.  The *)
(* caller is SQLite's pager (src/vendor/sqlite3.c), whose commit protocol  *)
(* is here for what it asks of a File.  The calls of one File follow each  *)
(* other, and nothing but close() touches the database file, so a call is  *)
(* one step with each of the outcomes it can have.                         *)
(*   mishaps is no state of the program: it names what has happened that   *)
(* file.js gets wrong, each a finding of README.md.                        *)
(***************************************************************************)
EXTENDS Naturals, Sequences

CONSTANTS
    Files,          \* the Files that have a handle of the database file
    MaxPages,       \* bound: the pages of the database
    MaxTx,          \* bound: the transactions that write
    Uses,           \* what applications do, and what fails
    none,           \* null or undefined
    errored         \* a writable stream after a failed write() or close()

ASSUME ConstantsAssumption ==
    /\ MaxPages \in Nat \ {0, 1}
    /\ MaxTx \in Nat
    /\ none # errored /\ {none, errored} \cap Seq(Nat) = {}
    /\ Uses \subseteq {"spill", "reread", "rollback", "shrink", "create", "write",
                  "close", "get", "crash"}

VARIABLES
    disk,           \* the database file: for each page the transaction that wrote it
    committed,      \* the database as the last committed transaction left it
    ntx,            \* how many transactions have begun to write
    level,          \* the lock level of each File
    phase,          \* what the pager of each File is doing
    goal,           \* the database as the transaction of a File is to leave it
    todo,           \* the pages its pager has yet to write
    writable, blob, size, atomic, dirty,    \* #writable, #blob, #size, #atomic, #dirty
    mishaps         \* what has happened that file.js gets wrong

dbVars == <<disk, committed, ntx>>
pagerVars == <<level, phase, goal, todo>>
fileVars == <<writable, blob, size, atomic, dirty>>
vars == <<disk, committed, ntx, level, phase, goal, todo,
          writable, blob, size, atomic, dirty, mishaps>>

\* "create": a rollback without a stream; "shrink": a truncated stream that waits for
\* the next transaction; "reread": a stream closed in the middle of a transaction, and
\* "torn": that transaction not finished; "rollback": spilled pages that wait.
Mishaps == {"create", "shrink", "reread", "torn", "rollback"}

Pages == 1..MaxPages
Images == UNION {[1..n -> 0..MaxTx] : n \in Pages}

\* The fields of the Files and the states of their pagers have their types, and
\* #size stays within the pages a database may have.
TypeOK ==
    /\ disk \in Images /\ committed \in Images
    /\ ntx \in 0..MaxTx
    /\ level \in [Files -> {0, 1, 4}]
    /\ phase \in [Files -> {"reader", "writing", "batch", "rollbatch", "journal",
                            "synced", "committed", "undone"}]
    /\ goal \in [Files -> Images \cup {none}]
    /\ todo \in [Files -> SUBSET Pages]
    /\ writable \in [Files -> Images \cup {none, errored}]
    /\ blob \in [Files -> Images \cup {none}]
    /\ size \in [Files -> 0..MaxPages]
    /\ atomic \in [Files -> BOOLEAN]
    /\ dirty \in [Files -> SUBSET Pages]
    /\ mishaps \subseteq Mishaps

Init ==
    /\ disk = <<0, 0>> /\ committed = disk /\ ntx = 0
    /\ level = [f \in Files |-> 0]
    /\ phase = [f \in Files |-> "reader"]
    /\ goal = [f \in Files |-> none]
    /\ todo = [f \in Files |-> {}]
    /\ writable = [f \in Files |-> none]
    /\ blob = [f \in Files |-> none]
    /\ size = [f \in Files |-> 0]
    /\ atomic = [f \in Files |-> FALSE]
    /\ dirty = [f \in Files |-> {}]
    /\ mishaps = {}

-----------------------------------------------------------------------------
(* The methods of a File.                                                  *)

\* lock(1): #blob and #size are taken anew.  A mutant keeps a #blob it has.
lock1KeepsBlob(f) ==
    /\ blob' = [blob EXCEPT ![f] = IF @ = none THEN disk ELSE @]
    /\ size' = [size EXCEPT ![f] = Len(disk)]
    /\ UNCHANGED <<writable, atomic, dirty>>
lock1(f) ==
    /\ blob' = [blob EXCEPT ![f] = disk]
    /\ size' = [size EXCEPT ![f] = Len(disk)]
    /\ UNCHANGED <<writable, atomic, dirty>>

\* createWritable({keepExistingData: true}), unless there is a stream.  A mutant
\* forgets the option.
EmptyStream(f) == IF writable[f] = none THEN <<>> ELSE writable[f]
Stream(f) == IF writable[f] = none THEN disk ELSE writable[f]
Usable(f) == writable[f] # errored
Open(w) == w \notin {none, errored}

Put(d, p, v) == [i \in 1..(IF p > Len(d) THEN p ELSE Len(d)) |->
                    IF i = p THEN v ELSE IF i <= Len(d) THEN d[i] ELSE 0]

\* A mutant counts one page too many.
writeOnePageMore(f, p, v) ==
    /\ Usable(f)
    /\ writable' = [writable EXCEPT ![f] = Put(Stream(f), p, v)]
    /\ dirty' = [dirty EXCEPT ![f] = @ \cup {p}]
    /\ size' = [size EXCEPT ![f] = IF p >= @ THEN p + 1 ELSE @]
    /\ UNCHANGED <<blob, atomic>>
write(f, p, v) ==
    /\ Usable(f)
    /\ writable' = [writable EXCEPT ![f] = Put(Stream(f), p, v)]
    /\ dirty' = [dirty EXCEPT ![f] = @ \cup {p}]
    /\ size' = [size EXCEPT ![f] = IF p > @ THEN p ELSE @]
    /\ UNCHANGED <<blob, atomic>>

\* write() or trunc() rejects: no stream can be made, or it takes no data.
streamFails(f) ==
    /\ \/ "create" \in Uses /\ writable[f] = none /\ UNCHANGED writable
       \/ /\ "write" \in Uses \/ ~Usable(f)
          /\ writable' = [writable EXCEPT ![f] = errored]
    /\ UNCHANGED <<blob, size, atomic, dirty>>

\* The offset of page p is p - 1 pages, and line 176 compares with >.
Truncated(d, n) == [i \in 1..n |-> IF i <= Len(d) THEN d[i] ELSE 0]
trunc(f, n) ==
    /\ Usable(f)
    /\ writable' = [writable EXCEPT ![f] = Truncated(Stream(f), n)]
    /\ dirty' = [dirty EXCEPT ![f] = {p \in @ : p - 1 <= n}]
    /\ size' = [size EXCEPT ![f] = n]
    /\ UNCHANGED <<blob, atomic>>

\* Lines 107 to 112.  close() replaces the file in one step or rejects.
Closes(f) ==
    /\ disk' = writable[f]
    /\ writable' = [writable EXCEPT ![f] = none]
    /\ dirty' = [dirty EXCEPT ![f] = {}]
CloseFails(f) ==
    /\ "close" \in Uses \/ ~Usable(f)
    /\ writable' = [writable EXCEPT ![f] = errored]
    /\ UNCHANGED <<disk, dirty>>

\* sync() does nothing in the middle of an atomic write, or without a stream.
SyncDoesNothing(f) == atomic[f] \/ writable[f] = none

\* A mutant forgets to close the stream.
syncsNothing(f) ==
    /\ dirty' = [dirty EXCEPT ![f] = {}]
    /\ blob' = [blob EXCEPT ![f] = none]
    /\ UNCHANGED <<disk, writable>>
syncs(f) ==
    \/ SyncDoesNothing(f) /\ UNCHANGED <<disk, writable, dirty, blob>>
    \/ /\ ~SyncDoesNothing(f) /\ Usable(f)
       /\ Closes(f)
       /\ blob' = [blob EXCEPT ![f] = none]
syncFails(f) == ~SyncDoesNothing(f) /\ CloseFails(f) /\ UNCHANGED blob

\* The three file controls.  A commit keeps the #blob it has.
BeginAtomicWrite(f) ==
    /\ atomic' = [atomic EXCEPT ![f] = TRUE]
    /\ UNCHANGED <<writable, blob, size, dirty>>
CommitAtomicWrite(f) ==
    /\ Usable(f)
    /\ Closes(f)
    /\ atomic' = [atomic EXCEPT ![f] = FALSE]
    /\ UNCHANGED <<blob, size>>
\* Without a stream line 146 throws a TypeError, and #atomic stays true.  abort()
\* resolves for a stream that has failed; getFile() may reject.
RollbackAtomicWrite(f) ==
    \/ /\ writable[f] # none
       /\ writable' = [writable EXCEPT ![f] = none]
       /\ atomic' = [atomic EXCEPT ![f] = FALSE]
       /\ dirty' = [dirty EXCEPT ![f] = {}]
       /\ \/ blob' = [blob EXCEPT ![f] = disk] /\ size' = [size EXCEPT ![f] = Len(disk)]
          \/ "get" \in Uses /\ UNCHANGED <<blob, size>>
       /\ UNCHANGED mishaps
    \/ writable[f] = none /\ UNCHANGED fileVars /\ mishaps' = mishaps \cup {"create"}

\* read(): a dirty page has the stream closed first, should sync() do so.  getFile() may
\* reject after that, or for want of a #blob.
MustSync(f, p) == p \in dirty[f] /\ ~SyncDoesNothing(f)
reads(f, p) ==
    \/ /\ MustSync(f, p) /\ Usable(f)
       /\ Closes(f)
       /\ \/ blob' = [blob EXCEPT ![f] = writable[f]]
          \/ "get" \in Uses /\ blob' = [blob EXCEPT ![f] = none]
    \/ MustSync(f, p) /\ CloseFails(f) /\ UNCHANGED blob
    \/ /\ ~MustSync(f, p)
       /\ \/ blob' = [blob EXCEPT ![f] = IF @ = none THEN disk ELSE @]
          \/ "get" \in Uses /\ blob[f] = none /\ UNCHANGED blob
       /\ UNCHANGED <<disk, writable, dirty>>
ReadFrom(f, p) ==
    IF MustSync(f, p) THEN writable[f] ELSE IF blob[f] = none THEN disk ELSE blob[f]

-----------------------------------------------------------------------------
(* The pager.                                                              *)

Lock == INSTANCE DbLock WITH DbOf <- [f \in Files |-> "db"], stale <- [f \in Files |-> FALSE]

Image(d, n, W, v) == [p \in 1..n |-> IF p \in W THEN v ELSE d[p]]

\* The pages that a goal changes: page 1, with its change counter, among them.
Changed(d, g) == {p \in 1..Len(g) : p > Len(d) \/ g[p] # d[p]}

Becomes(f, ph, g, T) ==
    /\ phase' = [phase EXCEPT ![f] = ph]
    /\ goal' = [goal EXCEPT ![f] = g]
    /\ todo' = [todo EXCEPT ![f] = T]

Share(f) ==
    /\ Lock!Share(f)
    /\ lock1(f)
    /\ UNCHANGED <<dbVars, phase, goal, todo, mishaps>>

Unshare(f) ==
    /\ level[f] = 1 /\ Lock!Unlock(f, 0)
    /\ UNCHANGED <<dbVars, phase, goal, todo, fileVars, mishaps>>

\* A read of the pager, whose cache may have dropped a page it has spilled.
Read(f, p) ==
    /\ level[f] >= 1 /\ phase[f] \in {"reader", "writing", "journal"}
    /\ p \in 1..size[f]
    /\ phase[f] = "journal" /\ p \in dirty[f] => "reread" \in Uses
    /\ reads(f, p)
    /\ mishaps' = mishaps \cup
          IF phase[f] = "journal" /\ MustSync(f, p) /\ writable'[f] = none
          THEN {"reread"} ELSE {}
    /\ UNCHANGED <<committed, ntx, pagerVars, size, atomic>>

\* A transaction that goes as far as the EXCLUSIVE lock.
StartWrite(f) ==
    /\ phase[f] = "reader" /\ level[f] = 1 /\ Lock!Exclude(f)
    /\ ntx < MaxTx
    /\ ntx' = ntx + 1
    /\ \E n \in Pages, W \in SUBSET (2..MaxPages) :
          /\ n < Len(committed) => "shrink" \in Uses
          /\ W \subseteq 2..n
          /\ (Len(committed) + 1)..n \subseteq W
          /\ LET g == Image(committed, n, W \cup {1}, ntx') IN
                Becomes(f, "writing", g, Changed(committed, g))
    /\ UNCHANGED <<disk, committed, fileVars, mishaps>>

\* Without a spilled page the journal is in memory, and the commit is a batch.
BeginBatch(f) ==
    /\ phase[f] = "writing"
    /\ BeginAtomicWrite(f)
    /\ Becomes(f, "batch", goal[f], todo[f])
    /\ UNCHANGED <<dbVars, level, mishaps>>

CommitBatch(f) ==
    /\ phase[f] = "batch" /\ todo[f] = {}
    /\ \/ /\ CommitAtomicWrite(f)
          /\ Becomes(f, "synced", goal[f], {})
       \/ /\ CloseFails(f)
          /\ Becomes(f, "rollbatch", goal[f], {})
          /\ UNCHANGED <<atomic, blob, size>>
    /\ UNCHANGED <<committed, ntx, level, mishaps>>

\* The result of the rollback is not looked at: the commit goes on by journal.
RollbackBatch(f) ==
    /\ phase[f] = "rollbatch"
    /\ RollbackAtomicWrite(f)
    /\ Becomes(f, "journal", goal[f], Changed(committed, goal[f]))
    /\ UNCHANGED <<dbVars, level>>

\* A transaction ends whose stream was closed in its middle: all of it is in the file if
\* it has been synced, and a part if not.
Ended(f) ==
    IF "reread" \in mishaps /\ phase[f] \in {"journal", "synced"}
    THEN (mishaps \ {"reread"}) \cup IF phase[f] = "journal" THEN {"torn"} ELSE {}
    ELSE mishaps

\* The playback of a journal file fails before it restores a page: nobody has
\* locked the File of the journal, so its #size is not a number, and size() throws.
\* The pager unlocks and forgets everything; the File of the database does not.
GiveUp(f) ==
    /\ Becomes(f, "reader", none, {})
    /\ Lock!Unlock(f, 0)
    /\ mishaps' = Ended(f) \cup IF Open(writable'[f]) THEN {"rollback"} ELSE {}

\* A call of write() or close() failed.  A batch is tried again by journal.
Failed(f) ==
    \/ /\ phase[f] = "batch" /\ Becomes(f, "rollbatch", goal[f], {})
       /\ UNCHANGED <<level, mishaps>>
    \/ phase[f] \in {"writing", "journal"} /\ GiveUp(f)

\* A page is written for the commit, or spilled before it.
WritePage(f) ==
    /\ phase[f] \in {"batch", "journal"} \/ (phase[f] = "writing" /\ "spill" \in Uses)
    /\ todo[f] # {}
    /\ \/ \E p \in todo[f] :
             /\ write(f, p, goal[f][p])
             /\ Becomes(f, IF phase[f] = "writing" THEN "journal" ELSE phase[f],
                        goal[f], todo[f] \ {p})
             /\ UNCHANGED <<level, mishaps>>
       \/ streamFails(f) /\ Failed(f)
    /\ UNCHANGED dbVars

Sync(f) ==
    /\ phase[f] = "journal" /\ todo[f] = {}
    /\ \/ syncs(f) /\ Becomes(f, "synced", goal[f], {}) /\ UNCHANGED <<level, mishaps>>
       \/ syncFails(f) /\ Failed(f)
    /\ UNCHANGED <<committed, ntx, size, atomic>>

\* The application rolls back.  Unless a page was spilled no file was touched,
\* and the journal is in memory.
Rollback(f) ==
    /\ UNCHANGED <<dbVars, fileVars>>
    /\ \/ /\ phase[f] = "writing" /\ Becomes(f, "undone", committed, {})
          /\ UNCHANGED <<level, mishaps>>
       \/ phase[f] = "journal" /\ "rollback" \in Uses /\ GiveUp(f)

\* The journal is deleted: the transaction is committed.
Finalize(f) ==
    /\ phase[f] = "synced"
    /\ committed' = goal[f]
    /\ Becomes(f, "committed", goal[f], {})
    /\ mishaps' = Ended(f)
    /\ UNCHANGED <<disk, ntx, level, fileVars>>

\* A database that has become smaller is truncated after that, without a sync.
EndTransaction(f) ==
    /\ \/ /\ phase[f] = "committed" /\ Len(goal[f]) < size[f]
          /\ \/ trunc(f, Len(goal[f])) /\ mishaps' = mishaps \cup {"shrink"}
             \/ streamFails(f) /\ UNCHANGED mishaps
       \/ /\ phase[f] = "undone" \/ (phase[f] = "committed" /\ Len(goal[f]) >= size[f])
          /\ UNCHANGED <<fileVars, mishaps>>
    /\ Becomes(f, "reader", none, {})
    /\ Lock!Unlock(f, 1)
    /\ UNCHANGED dbVars

Holds(d, g) == Len(g) <= Len(d) /\ \A p \in 1..Len(g) : d[p] = g[p]

\* The tab or worker goes away.  A transaction that was on its way to be
\* committed is, if all of it is in the file: the journal that it leaves behind
\* is never played back, as check_reserved_lock() takes the reader's own lock
\* for a writer's.
Crash(f) ==
    /\ "crash" \in Uses
    /\ committed' = IF goal[f] # none /\ Holds(disk, goal[f]) THEN goal[f] ELSE committed
    /\ level' = [level EXCEPT ![f] = 0]
    /\ Becomes(f, "reader", none, {})
    /\ writable' = [writable EXCEPT ![f] = none]
    /\ blob' = [blob EXCEPT ![f] = none]
    /\ size' = [size EXCEPT ![f] = 0]
    /\ atomic' = [atomic EXCEPT ![f] = FALSE]
    /\ dirty' = [dirty EXCEPT ![f] = {}]
    /\ mishaps' = Ended(f)
    /\ UNCHANGED <<disk, ntx>>

Next ==
    \E f \in Files :
       \/ Share(f) \/ Unshare(f) \/ \E p \in Pages : Read(f, p)
       \/ StartWrite(f) \/ BeginBatch(f) \/ CommitBatch(f) \/ RollbackBatch(f)
       \/ WritePage(f) \/ Sync(f) \/ Rollback(f)
       \/ Finalize(f) \/ EndTransaction(f) \/ Crash(f)

Spec == Init /\ [][Next]_vars

-----------------------------------------------------------------------------
(* Properties.                                                             *)

\* A stream closed in the middle of a transaction is made good by the end of it; after
\* the other mishaps the file may hold anything.
Kept == mishaps \subseteq {"reread"}

Writing == \E f \in Files : level[f] = 4
FileIsCommitted == ~Writing => Holds(disk, committed)

\* Commits are atomic and durable, whichever write() or close() failed and whenever a
\* tab crashed: while nobody writes, the file holds the database as the last commit left
\* it, and nothing of a transaction that failed or was cut off.  From the mishaps on
\* file.js does not keep this.
AllOrNothing == Kept => FileIsCommitted

\* A read transaction starts on what was committed last, whatever an earlier
\* one of the same connection has left in #blob, #dirty and #writable: a page
\* reads as committed, or the read fails.  A mishap ends it.
StartsCommitted ==
    [][\A f \in Files : Kept' /\ level[f] = 0 /\ level'[f] = 1 =>
          \A p \in 1..Len(committed') :
             ReadFrom(f, p)' = errored \/ ReadFrom(f, p)'[p] = committed'[p]]_vars

\* The file changes under EXCLUSIVE only, from one commit to the next in one step that
\* makes all the pages of the transaction its own (unless a read closed its stream
\* before); a commit is reported when the file has it, and none takes the place of a
\* later one.  A mishap ends it.
CommitsForward ==
    [][Kept' =>
       /\ disk' # disk => \E f \in Files :
             /\ level[f] = 4 /\ \A g \in Files \ {f} : level[g] = 0
             /\ "reread" \in mishaps' \/ (Holds(disk, committed) /\ Holds(disk', goal[f]))
       /\ committed' # committed => Holds(disk', committed') /\ committed'[1] > committed[1]]_vars

\* A connection reads what was committed for as long as it holds its lock, its
\* own commits too: "If the offset is dirty, then we need to sync the file
\* before reading" (src/src/vfs/file.js).
ReadsCommitted ==
    \A f \in Files : level[f] = 1 =>
       \A p \in 1..Len(committed) :
          ReadFrom(f, p) = errored \/ ReadFrom(f, p)[p] = committed[p]

=============================================================================
