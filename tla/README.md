# Verification of sqlite.js in TLA+

sqlite.js runs SQLite, compiled to WebAssembly, in a browser.  SQLite is
synchronous; everything around it (the browser's files, its locks, user
functions) answers with promises.  What can go wrong lies in between: calls of
one WebAssembly instance that wait at the same time, connections in several tabs
that share a file, a pool that hands connections to whoever waits, and calls
that fail halfway.  This directory models those parts in TLA+, checks them with
TLC on small instances and proves the central ones with TLAPS for all instances.

Paths below are relative to the repository; `pool.js:43` is line 43 of
`src/src/pool.js`.

## 1. Inventory

| Component | State | Operations | Talks to |
|---|---|---|---|
| Connection pool, `pool.js` | `#conn_count`, `#conns` (stack of idle connections), `#waiters` (queue of resolvers), `options.initialized` | `borrow` → `get_conn`, `make_conn`, `return_conn` | `Conn.open`, the caller's `func` and `init`, timers |
| Database file, locks, `vfs/file.js` | `#lock`, `#res_lock`, the locks of the origin | `lock`, `unlock`, `check_reserved_lock` | SQLite's pager, `navigator.locks` |
| Database file, data, `vfs/file.js` | `#blob`, `#size`, `#writable`, `#dirty`, `#atomic`, the file itself | `read`, `write`, `trunc`, `sync`, `size`, `file_control`, `close` | the pager, a `FileSystemFileHandle` |
| Coroutines, `asyncify.js` | `value`, `stack`, `stacks`; the instance's asyncify state and the memory of each stack | `export_stub`, `import_stub`, `get_stack` | every export and import of SQLite |
| Connections and statements, `conn.js` | `ptr` of a connection and of a statement, the `FinalizationRegistry` `stmts`, each generator's `remainder` and memory | `open`, `close`, `stmts`, `sql`, `finalize`, `bind_all`, the iterator over rows | exports, borrowed memory |
| VFS glue, `vfs/custom.js`, `c_src/main.c` | maps of VFSs and files by pointer | the callbacks of `sqlite3_vfs` and `sqlite3_io_methods` | `File`, `Local`, `Http` |
| Local VFS, `vfs/local.js` | an IndexedDB database of mounted handles | `mount`, `open`, `delete`, `access`, `traverse` | `File` |
| HTTP VFS, `vfs/http.js` | the length of each file | `open`, `read` | `fetch` |
| Values and pointers, `value.js` | the registry of `Pointer`s and their reference counts | conversion of values, `Pointer` | functions, statements |
| Memory, `memory.js`, `util.js` | the heap | `borrow_mem`, `leaky` | everyone |
| JavaScript functions, `func/basics.js`, `func/eval.js` | `funcs` by number, `func_i` | `create_scalarf`, `xFunc`, `xDestroy` | SQLite, through `asyncify.js` |
| Incremental blob IO, `func/blob_io.js` | a blob handle, a lent buffer, the stream, `offset` | `blob_io` | SQLite, a `ReadableStream` or `WritableStream` |
| Online backup, `func/backup.js` | none | unfinished: its functions do nothing, or are never reached | SQLite |
| Instance, `sqlite.js`, `index.js` | the instance | load | everyone |

SQLite itself is vendored (`src/vendor/`).  Of it, the models have the order in
which its pager calls a file, and nothing else.

What makes each component correct, and what makes it hard:

* **Pool.**  A connection has one user at a time; at most `max_conns` are ever
  open; nobody waits beside an idle connection; waiters are served in order; a
  connection changes hands outside any transaction; whoever waits is served or
  times out.  Hard: `borrow()` is interrupted at seven awaits, each of which may
  fail or race with the same await of another call.
* **File, locks.**  The two Web Locks of a file must behave as SQLite's
  SHARED/RESERVED/EXCLUSIVE.  Web Locks cannot be upgraded, so `lock()` and
  `unlock()` release one and request another; between the two anybody may come
  in.  Hard: tabs interleave and disappear at every await.
* **File, data.**  A commit is in the file as a whole or not at all, a reader
  sees the last commit, and nothing a transaction leaves in a `File` may harm a
  later one.  Hard: the data are in a stream that replaces the file when it is
  closed; errors and crashes hit between any two calls; five fields outlive a
  transaction.
* **Coroutines.**  Each call of an export runs as if it had the instance for
  itself.  Hard: two module variables and one array serve all calls, and calls
  nest, suspend and resume in any order.
* **Statements and connections.**  A statement is finalized once and never while
  a call on it is suspended; memory lent to SQLite outlives its use.  Hard:
  generators that callers abandon and cleanup that is not awaited.
* **VFS glue.**  Both sides agree on the files that are open, and the code of a
  call is true.  Hard: methods answer late, by which time the memory has grown
  and every view of it is detached; each may throw or reject at two places.
* **Local VFS.**  A lookup always answers, and what it answers was true at some
  moment of the call.  Hard: a lookup has a transaction and then an await for each
  name, and mounts, other lookups and other pages come in between.
* **HTTP VFS.**  The pages of a file are of one version.
* **Pointers and functions.**  What SQLite holds is kept, and let go of as often as
  it was given.  Hard: SQLite lets go when it refuses, replaces, resets, finalizes
  and closes, and each has an order of its own.
* **Blob IO.**  The number that is answered is what went through, and the buffer is
  nobody's when it is freed.  Hard: two sources of chunks of any size and two
  that fail at any await.

`PROJECT.json` lists, under `hazards`, the places where these can fail, each
with the properties that would show it.

## 2. Modules

| Module | Models |
|---|---|
| `ConnPool` | `ConnPool` of `pool.js`, with `Conn.open()` as one of its steps |
| `WebLocks` | the browser's lock manager as `file.js` uses it (not in the repository) |
| `FileLock` | `lock`, `unlock` and `check_reserved_lock` of `File` |
| `DbLock` | the abstract lock SQLite expects, from the comment on `sqlite3_io_methods` |
| `FileIO` | the other methods of `File` under the pager's commit protocol, above `DbLock` |
| `Asyncify` | `export_stub`, `import_stub` and `get_stack` |
| `Coroutines` | the abstract specification of `Asyncify` |
| `Statements` | `Conn.stmts()`, `Conn.close()` and `Statement`, with the memory that `borrow_mem()` lends them |
| `VfsGlue` | `file_impls`, `file_boiler` and the callbacks of `vfs/custom.js` over the Files of `vfs/local.js` and `vfs/http.js` |
| `LocalVfs` | `mount`, `open`, `delete`, `access` and `traverse` of `vfs/local.js` |
| `Values` | `Pointer` and `release` of `value.js`, the copies of bytes, and `func/basics.js` |
| `BlobIo` | `blob_io` of `func/blob_io.js` |
| `ConnPool_proofs`, `FileLock_proofs`, `FileIO_proofs`, `Asyncify_proofs`, `Statements_proofs`, `Vfs_proofs`, `BlobIo_proofs`, `Values_proofs` | theorems and their proofs |
| `MC*` | constants for TLC |

`FileLock` implements `DbLock` (checked and proved), and `FileIO` takes the
levels of its files from `DbLock`: the locks are refined below, the data are
modelled above, and neither has to carry the other's states.

### ConnPool

One member of `Calls` is one call of `borrow(func)`.  JavaScript runs a
continuation to its next await without interruption, so an action is what a call
does between two awaits, and `pc` says at which await it is.  `PopIdle`,
`StartMake`, `Refuse` and `Wait` are the four ways through the synchronous prefix
of `get_conn()`; `CallInitialized`, `AwaitInitialized`, `Open` and `InitConn` are
the continuations of `make_conn()`; `Finish` and `Rollback` are the `finally`
block of `borrow()`, that is `return_conn()`.  `Begin` and `EndTx` stand for
`func`, which is external, and do to a connection the one thing that
`return_conn()` looks at.  `Timeout` is the timer of `get_conn()` winning
`Promise.race`: the resolver stays in `#waiters` as `Gone`.

`return_conn()` hands a connection over by resolving a promise, and the waiter's
continuation runs a microtask later.  `PassTo` does both at once.  In between
the connection is reachable from the waiter only and the waiter has no other
step, so no other call can tell; the one exception is a timer that fires
between the two, which `Promise.race` has decided against already.

A call that fails ends in `failed`, with `conn_count` as the code leaves it.  When a
callback of `Conn.inits` throws, the connection that `Open` has made stays open with
nobody to close it.

### FileLock, WebLocks, DbLock

`WebLocks` is the lock manager: the granted locks of each name, and a queue of
requests, each knowing the clients ahead of it.  `Grant` serves the head of a
queue when it is compatible; `ifAvailable` requests are answered from
`Available`; `Abandon` is what the manager does when a tab is gone.

`FileLock` has one `File` per connection and database.  `pc` is the await a call
is suspended at.  `RequestShared`, `SharedGranted` and `GotFile` are `lock(1)`;
`Reserve`, `Reserved` and `LockReserved` are the reserved lock and, through
`Exchange` and `Exchanged`, the exclusive one; `StartDowngrade`, `Downgraded` and
`UnlockShared` are `unlock`.  `Asks` and `Gives` are the pager: the levels it
asks for, one call at a time for each connection.  `Write` is there for one
purpose: it makes the `#blob` of other files stale, so that "nobody writes under
a reader" can be said.  `Crash` takes a connection away at any await.

`DbLock` is what SQLite expects.  `Excludes` is the refinement mapping: from the
first step of a downgrade a file counts as SHARED, although the pager learns of it
only later, because readers may be let in from there.

### FileIO

The database is a sequence of pages, and the content of a page is the
transaction that wrote it.  `disk` is the file, `committed` what the last
committed transaction left, `goal` what the transaction of a file is to leave
and `todo` the pages its pager has yet to write.  The methods of `File` are the
operators `lock1`, `write`, `trunc`, `syncs`, `reads`, `BeginAtomicWrite`,
`CommitAtomicWrite`, `RollbackAtomicWrite`, with their failures `streamFails`,
`CloseFails` and `syncFails`; the actions are the pager's, which calls them: a
batch-atomic commit (`BeginBatch`, `WritePage`, `CommitBatch`, `Finalize`), or a
commit by journal when a page was spilled or the batch failed (`WritePage`,
`Sync`, `Finalize`), or a rollback (`Rollback`).  A journal in memory is rolled back
without touching the file.  A journal file never is: `size()` throws for a `File`
that was never locked, so the pager's playback fails before its first page and the
pager gives up (`GiveUp`), with the `File` of the database as it was (finding 22).

Each call of a file is one step, although `write()` and `sync()` have awaits.
The calls of one connection follow each other; other connections see `disk`
only; and `disk` changes only when a stream is closed, which is atomic.  The
awaits in between show nothing to anybody.  A crash between two of them is a
crash before or after the step, as the stream vanishes with its tab.

`Crash` does not play the journal back.  That is the code's behaviour, not a
simplification: `check_reserved_lock()` sees the asking connection's own lock
and always answers true (finding 4), so SQLite takes no journal for hot.  A
crashed transaction counts as committed when all of it is in the file.

`Uses` chooses what applications do and what fails: `spill` (a transaction larger
than the page cache), `reread` (it reads a page it has spilled), `rollback` (it
rolls back after a spill), `shrink` (VACUUM), `create`, `write`, `close`, `get`
(the call that rejects: `createWritable()`, those of the stream, `getFile()`) and
`crash`.  The run and the theorems have all nine.

After some of them `file.js` is wrong, and the history variable `mishaps` names those
that have happened: a rollback of a batch without a stream (`create`, finding 6), a
truncated stream left for the next transaction (`shrink`, 7), a stream closed in the
middle of a transaction (`reread`, 9) and that transaction not finished (`torn`),
spilled pages left for the next read (`rollback`, 22).  A mishap is the step that
does the harm, not the use: a `createWritable()` that fails in a transaction by
journal, a VACUUM whose truncation fails, or a rollback after a spill whose stream has
failed, are none.  `reread` ends with its transaction, if that is synced; the others
stay.  The properties say what holds until then (`Kept`), and `reread` ends none but
the clause of `CommitsForward` that the file changes in one step.

### Asyncify, Coroutines

One member of `Calls` is one call of a wrapped export.  `active` is the native
stack: a call starts on an empty one or inside an import of another call, and
resumes on an empty one.  `ImportSuspends` is lines 69 to 76 of `import_stub()`,
`Unwound` is `export_stub()` up to its await, `Resume` is lines 88 to 91,
`Rewound` is lines 58 to 64.  `memory` says whose frames a stack holds; it is
what makes a wrong stack visible: a rewind runs the frames it finds.
`Coroutines` has neither stacks nor shared variables: a call runs, waits in an
import or is suspended, and is answered by the import it waits for.  The
refinement hides `unwinding` and `rewinding`, which no other call can see.

### Statements

One member of `Scripts` is one call of `stmts()` on one connection; `sql()` is
that with the rows of each statement run through.  `Start` is its first `next()`
up to the await of prepare, `Prepared` what prepare answers (a statement, a
comment, an error, or MISUSE when the connection was closed meanwhile), `Resume`
the inner `finally` block, with its `finalize()`, and the way to the next
statement or out.  `Step`, `Stepped` and `LeaveRows` are the iterator over the
rows of the statement at the yield.  `Collect` is the callback of the
`FinalizationRegistry` for a Statement nobody can reach.  A Statement is named by
its script and the number of statements left there, its pointer by a member of
`Ptrs`: SQLite may answer the pointer of a statement that is finalized, as
malloc() does.

`sqlite3_reset()` and `sqlite3_finalize()` end the execution that is under way
and with it, outside an explicit transaction, the lock on the file.  Where
xUnlock answers with a promise they suspend, and nobody awaits them: `pending`
has the calls that are on their way, and `Complete` ends one.  When `finalize()`
suspends, its promise is taken for an error code and `stmts()` throws; the
statement is gone some time later.

`Uses` chooses what the application does: `leave` (return() on a generator, or
next() in the middle of the rows), `break` (a `break` whose reset suspends),
`abandon`, and `close`.  `Close` waits for SQLite to answer what is under way: `Conn`
does not, but closing under a call is the application's to avoid.  After a use of a
statement that is finalized SQLite is undefined; the model goes on with its own
bookkeeping, and only the run `statements_break` and the theorems have such
behaviours.

### VfsGlue

One member of `Files` is the address of a `sqlite3_file`.  `pMethods` is SQLite's
sign that it is open, `file_impls` JavaScript's.  `Enter` and `Answer` are the
two halves of `file_boiler()`, before and after the await of a method; a method
that answers at once is the case that nothing comes in between.  `xOpen` with
`Opened` and `OpenFailed` is `main.c` and `custom.js` together, `xClose` with
`Closed` forgets the File however `close()` ends.  `xRead` and `xWrite` are apart
from the rest as they have views of memory; `xFileSize` stands for the
callbacks that have none.  `Failed` is the error handler of the boiler.

`memory` says which ArrayBuffer the memory has: each `Grow` makes another, and
`began` has the one that there was when a call began.  A `View` is of one of them,
and `Room` is how many bytes can be put through it, none once it is detached.
`ReadView` is the one `xRead` makes when the bytes are there; `xWrite` makes
its view when it is called, and writes what room that has left (finding 12).

`wanted` is the offset and the length of a read.  `Slice` is the bytes of a version
between two offsets, each with its version and its place, and `Reads` what a File may
give: the bytes asked for as far as the version goes; a server gives no range past its
end, and may give a byte more than it was asked for.  `ReadGiven` is the rest of
`xRead`: `set()` throws when the view has no room, else the bytes go into `page` and
`Filled` puts zeros after them.  `page` starts with other bytes, so what nobody has
written is seen.

A File is of the `local` kind, a `blob` (a server that answers no ranges) or `http`;
`Publish` replaces the file.  A call that ends with the code `lost` is one that SQLite
never gets back from (finding 13).

### LocalVfs

One member of `Calls` is one call of `mount()`, `open()`, `delete()` or
`access(SQLITE_ACCESS_EXISTS)`.  `Call` is the way to the first await, `OpenDb`
IndexedDB's answer, and `queue` the order in which the calls go on from there and
create their transactions.  `Turn` is IndexedDB's rule: a transaction that writes
waits for those before it, one that reads for those of them that write.  `Scan`
is the whole walk of the cursor, which nothing comes between as it is one
transaction; `Walk` is one `getFileHandle()`, and between two of them anything
may come.  `Reject` is a database that did not open, or the cursor's error.  `Meddle`
is another page.

A pathname is the sequence of its names; `startsWith` on the strings and the
prefix relation on the sequences agree because a key ends in a slash.
`possible` is a history variable: what the pathname has named at each moment of
the call, by the definition of a mounted directory rather than by the walk.  It
counts a mount from its call, not its transaction, so that `AnswersHold` also says
that a `mount()` nobody awaited is seen by an `open()` after it.  `Unsaid` marks
what finding 17 makes unsayable: a file two names below its mount.

### Values

What SQLite is given and lets go of again.  `bound` and `result` say what each
statement holds; a statement is `SELECT ?, f(?)`.  `Exchange` is `++refs` for
each value that goes in and `release()` for each that comes out, in that order, as
SQLite has it; bytes are copied by `malloc()` and freed.  `Bind` is taken or
refused: a statement under way refuses, and so does whatever `Statement.bind()`
asks, because it passes `this.ptr`, which a Statement does not have (`conn.js:63`;
the pointer is the private `#ptr`: finding 25).  Nobody looks at the answer, and what
counts here is that SQLite lets go of the value at once.  A `malloc()` that finds no
memory for a value throws before anything is given, and changes nothing.  `Create` is
`create_scalarf()` with a name that finds no memory (`leaky()` throws), a
refusal, and a replacement, for each of which `xDestroy` comes at another time.
`Close` leaves a zombie when there are statements; the last `Finalize` ends it.

A Pointer whose references have reached 0 is out of `pointers` for good; `revived`
has those that were given to SQLite again (finding 15), and `broken` the exception
that release() throws through SQLite's frames, after which the model stops.

### BlobIo

One call of `blob_io()`.  Bytes are numbered, so that a chunk in the wrong place,
twice or not at all is seen.  `ReadStream` and `WriteBlob` are the loop into the
blob; `StartRead`, `Read`, `GiveChunk`, `Take` and `Written` are the one out of
it.  `StartRead` calls `sqlite3_blob_read()` and waits for `writer.ready` at once;
`Read` is SQLite's answer, which may come late, and `NotReady` the stream's failure
that does not wait for it.  `Take` is the sink, which looks at the buffer some
time after `write()` was called.  `Expire` is another statement that writes to
another column of the row, which is enough for SQLite to refuse the handle.  The offset
is any integer: SQLite refuses what is not in the blob (`InBlob`), and an offset past
`end` has nothing to do.

`mishaps` is a history variable with what has happened that the code does not
reckon with: the stream failed during a read (`ready`, finding 20), a sink that
is done before it has looked (`late`, finding 24: one that queues its chunks, as the
writable end of a TransformStream does), memory that has grown before it did
(`grow`, finding 23), and a close that could not commit (`close`, finding 19).  The
properties exempt just these.

## 3. Runs

All runs of `tlc -workers 2`, with deadlock checked unless said otherwise.

| Run | States | What it shows |
|---|---|---|
| `pool` | 76,343 | custody, bounds, order, clean hand-over and progress of the pool, with every failure |
| `pool_timeout` | violation | a timed-out waiter swallows a connection |
| `filelock` | 8,064 | the Web Locks implement SQLite's lock and every call is answered, with failures and crashes |
| `filelock_release` | violation | a rollback at RESERVED keeps the reserved lock |
| `asyncify` | 263,652 | each call runs as a coroutine of its own |
| `fileio` | 238,842 | until one of the mishaps, commits are atomic and durable, readers start on them, and the file goes from one to the next |
| `statements` | 16,879 | statements are finalized once, none is lost, and scripts give back what they had |
| `statements_break` | violation | `break` out of the rows finalizes a statement under its reset |
| `vfs_glue` | 538,215 | both sides agree on the open files, and the buffer of a read has the file's bytes, whatever fails and grows |
| `local_vfs` | 344,700 | a lookup answers, and what it answers was true at a moment of the call |
| `values` | 98,990 | SQLite holds as many references, copies and functions as JavaScript counts |
| `blob_io` | 7,337 | the count that is answered went through, and the buffer is freed when nobody uses it, but for the four mishaps |

The runs that end in a violation each check one promise of the documentation or
of SQLite against what the code does; section 6 lists them, with how to see
those for which no run is kept.

**Bounds, and why they are enough.**

* `pool`: four calls, `max_conns` = 2, three `Conn` objects.  Two calls can hold
  connections while two wait, which is what order among waiters and overtaking
  newcomers need; a third `Conn` object would show an opening beyond the bound.
  Every sign of `max_delay` and both forms of `initialized` are initial states.
* `filelock`: three connections on one database: a writer, a reader and one more
  that queues behind either.  Crashes are unbounded.
* `asyncify`: three calls with two imports each.  Three are needed for a call
  that resumes between the suspension and the resumption of two others; two
  imports for a call that suspends again after it was rewound (the loop of
  `export_stub()`) and for stacks taken, freed and taken again.
* `fileio`: two files, three pages, three transactions: a third transaction is
  needed for a connection that writes, lets another write, and then uses what
  its own first transaction left behind.  Three pages distinguish a page that is
  changed, one that is not and one that is added.  All of `Uses`.  The constraint
  `Kept` goes no further after a mishap that stays, when the properties say
  nothing more (`TypeOK` does, and is proved without the constraint).
* `vfs_glue`: two files, one whose call grows the memory under the other's; two
  versions of what they read, of three bytes and of two; reads of one or two bytes
  from each offset to the end and beyond, so a read is whole, cut in its middle, and
  empty; memory that grows twice, before a call and during it.
* `local_vfs`: two calls; the root, one directory and one file mounted, in any
  order and from the start or later; pathnames that end above, at and below each.
  Two mounted directories, one in the other, are what the choice of the deepest
  needs, and two calls what the order of transactions needs.
* `values`: two pointers, two statements and two names for three functions.  Two
  statements hold one pointer at once and in turn, in four places; three functions
  are one replaced, one refused and one that stays.
* `blob_io`: a blob of six bytes, a buffer of three and a stream of up to seven:
  the chunks may be whole, short, empty and beyond the end; offsets and lengths
  leave a last chunk of each size.  The offsets -1 and 7 are not in the blob.
* `statements`: two scripts of up to three statements and three pointers.  Two
  scripts for a pointer that is finalized in one and answered in the other, and
  for an abandoned Statement beside a live one; three statements for a generator
  that goes round its loop after an abandoned one's was collected; a third pointer
  so that prepare may answer a new one or an old one.  `statements_break` needs
  one script.

**Where deadlock is not checked.**  In `pool`, `asyncify`, `local_vfs` and `blob_io`
every call of the bounded set finishes, and then nothing is left to do (in
`local_vfs` one may also hang, which `CallsSettle` exempts by name and finding 16
is about).  In `statements` scripts are finite, and an abandoned one stays where
it is.  `values` stops after the exception of finding 15.  In `filelock`, `fileio`
and `vfs_glue` some step is always possible.

**Fairness.**

* `ConnPool`: weak fairness of each continuation and of the timer (the event loop
  runs what is due) and of `Settle` and `func` settling.  Under it a waiting call
  stops waiting *as long as no slot was lost*: `EveryCallSettles` assumes
  `[]NothingLost`, since the code does lose slots when a step fails or a waiter
  times out.
* `FileLock`: weak fairness of continuations and of the lock manager; strong
  fairness of `Unlock(f, 0)`, as an application ends its transactions even though
  the connection may be in the middle of other calls whenever it is looked at.
  Nothing is assumed of requests or upgrades.
* `Asyncify`: weak fairness of each call's own steps, none of `Settle`: a promise
  may stay pending for ever, and the other calls must go on.
* `FileIO`, `VfsGlue`, `Statements`, `Values` and `BlobIo` have safety properties only,
  and state no fairness.  That an abandoned generator's statement is finalized some day
  would need the engine to collect garbage, which JavaScript does not promise.
* `LocalVfs`: weak fairness of `Answers`, that is of IndexedDB and the file system
  answering somebody, as long as a step of theirs changes where a call is.  Nothing
  is assumed of new calls or of other pages.

**Mutants.**  Each property of a passing run is broken by a mutant in
`PROJECT.json`, a plausible mistake in one definition (a stack read after its
reset, a hand-over to the newest waiter, an upgrade that keeps its shared lock).
They stand in the modules beside what they replace, marked as mutants.

## 4. Proofs

`tlapm` checks the eight proof modules.  Nothing is assumed but the named
assumptions on the constants.  Each inductive invariant was checked by TLC, with the constants of the component's
run, before it was proved.

**`ConnPool_proofs`**, from `ConstantsAssumption`: `max_conns` is a positive
natural number, and the sets of faults, delays and states are the code's.  Calls
and connections are any sets, finite or not, so the theorems hold for any
number of them.  The properties are not inductive by themselves.  `PoolInv` adds
that a call has custody of a connection exactly from `Conn.open()` to
`return_conn()` (`CustodyByPc`), that every connection held or idle was opened
(`CustodyOpened`, without which `Open` might pick one that is in use), that a
resolver in `#waiters` belongs to a call that waits and stands there once
(`WaitersWait`, without which a hand-over might give a second connection to a
call) and that idle connections have no transaction (`IdleClean`).  From it
follow `TypeOK`, `ExclusiveCustody`, `NoIdleWhileWaiting`, and the action
properties `CleanHandover` and `NoOvertaking`.  `OpenedBound` has an invariant
of its own, that counts connections open and about to be opened against
`conn_count`.

**`FileLock_proofs`**, from `FilesAssumption` and `NamesAssumption` (files of one
database have one lock name, and no file's name is another's with `-r` at its
end).  `LockInv` says what each file has granted and queued at each await:
`PcKnows` relates `pc` to `#lock`, `#res_lock` and `eLock`; `HeldByName` and
`HeldReserved` say which lock is in the manager's tables for which file;
`HeldCompatible` that the manager keeps exclusive locks alone; `QueueAwaited`
that each request queued is awaited by the file that made it.  The heart of the
argument is the upgrade: while a file has given back its shared lock and waits
for the exclusive one it holds the reserved lock, and nobody becomes a writer
without that; so its `#blob` stays current (`SnapshotNotOvertaken`).
`FileLockImplementsDbLock` shows that each step of `FileLock` is one of `DbLock`
or a stutter.

**`Statements_proofs`**, from `ConstantsAssumption`: any set of scripts, any set
of pointers, any bound on the statements of a script, and every member of `Uses`.
`StmtInv` adds to the three safety invariants that a registered Statement is the
current one of a generator at its yield or abandoned there
(`RegisteredIsCurrent`, without which a script that ends might leave an entry
behind), that a suspended `finalize()` still has its statement
(`FinalizingIsLive`, without which a pointer that prepare answers might be about
to go), and what each generator knows of its memory and its remainder
(`GeneratorKnows`).  The theorems are about the bookkeeping of `conn.js`; that
SQLite is in no call on a finalized statement is false (finding 10), and what it
does after that no theorem says.

**`Vfs_proofs`** has two parts.  That on `VfsGlue`, from `ConstantsAssumption`: any
set of files, any number of versions of any sizes, reads of any length at any offset,
and memory that grows any number of times.  `GlueInv` adds to `AnswersTrue`
`FilesAgree`, what each side has of a file while a method of it is awaited (during
`open` only SQLite, without which a second `xOpen` or an `xClose` could come over it),
and `PagesWait`: the buffer of a read that is awaited is as SQLite gave it.  The
argument for a read is that the view is of the memory as it is when the bytes are there,
so has the room that was asked for; that a slice of a version has no byte past its
end, so a read that is shorter than asked ends where the version does; and that the zeros
start where the bytes stop.  From it follow `TypeOK`, `FilesMatch` and `AnswersTrue`.

That on `LocalVfs`, from `LocalAssumption`: any calls, directories and names, any
pathnames, any handles to be mounted as long as each key has one, any calls of
`mount()` among the lookups, and other pages that make and delete files between any two
steps.  A lookup decides on what is mounted at its turn, but `AnswersHold` is about what
its pathname named at the moments of the call, so `LocalInv` has to say before the turn
what will be found at it.  `Awaited` does: each handle that was asked for is in the
store or in line to be, and for a call that waits, what the table promises that it will
find (the store together with the mounts ahead of it) is in `possible` already.  A
`mount()` that joins the line joins behind those who wait, so it breaks no
promise; one that reaches the store was in the table.  `Walking` says of a lookup past
its turn that it has just one name left below the deepest mounted directory, or that
`possible` has `Unsaid`; the file that its `getFileHandle()` then finds is the one its
pathname names at that moment.  That there is a deepest directory rests on the order of
the natural numbers (`Least`, `SomeDeepest`), and that there is only one on its key being a
prefix of the pathname (`OneDeepest`); so the `CHOOSE` of the model takes what the
cursor takes.  `RemoveKeeps`, `AppendKeeps` and `AheadFacts` say who is ahead of whom
when a call joins or leaves the line.  From `LocalInv` follow `LocalTypeOK` and
`AnswersHold`.

**`FileIO_proofs`**, from `ConstantsAssumption`: any number of Files, of pages above
one and of transactions, and all of `Uses`.  `TypeOK` holds in every behaviour; the
other properties speak of the time before a mishap, and so does half of the
invariant: `FileInv` is `Base` and, as long as `Kept`, `Sound`.

`Base` is what the pagers keep whatever the Files do: `AllOrNothing` speaks of the
moments when no File is at EXCLUSIVE, so what it needs is what holds while one is, and
`Base` says that this File is `Alone`, what its transaction is to leave and which
pages are still to be written (`Goals`), and that each transaction is a new value, so
that a page written is a page changed (`Begun`).  `Sound` says that `disk` is
`committed` in every phase but between the close of the stream and the delete of the
journal, and then is `goal` (`InFile`; once a read has closed the stream, `disk` is
only as good as what is still to be written); and what is in the stream (`Streams`):
every page of `goal` but those in `todo`, so that closing it with `todo` empty makes the
file `goal`, while an errored stream can never be closed at all.

For each action the proof has to tell the mishap from the rest: a rollback of a batch
without a stream, a truncation that succeeds, a journal given up with an open stream
and a transaction cut off after a read closed its stream make `Kept` false, and in each
other outcome `Sound` is kept: a truncation that fails, a journal given up with an
errored stream or none, a read that closes the stream of a transaction that is then
synced.  The images are sequences built by `Put`; the lemmas about them (`PutFacts`,
`ImageFacts`, `ImagesEqual`) are all that the steps use.  From `FileInv` follow
`TypeOK`, `AllOrNothing` and the action properties `StartsCommitted` and
`CommitsForward`.  For the last, `Goals` has the number of the transaction that made
page 1 grow with each goal; `WhoChangesDisk` finds the steps that change the file, and
`WhoCommits` the two at which `committed` becomes what is in it: `Finalize`, and a crash
after the file has all of the transaction.

**`Asyncify_proofs`**, from `ConstantsAssumption` (`undefined` is none of the calls,
stacks and promises): any sets of calls and stacks and any number of imports.
`AsyncInv` says how calls lie on the native stack (`Nested`: each once, those below
the innermost in an import, a rewound one alone), that `value`, `stack` and the
instance's state are the innermost call's and unused otherwise (`Shared`), what a
suspended call waits for (`Waits`), and that each stack has one owner: a call, the
array `stacks`, or the variable `stack` (`Owners`).  The last is the one that
`FramesPreserved` needs: `import_stub()` may take any stack of the array, and must
never find one that a suspended call will be rewound from.  From it follow `TypeOK`,
`FramesPreserved`, `NeverCorrupt` and `NoStackLost`.  `AsyncifyImplementsCoroutines`
goes through the actions: `ImportSuspends` and `Resume` are stutters of `Coroutines`,
`Unwound` is its `Suspend`, and `Rewound` its `AnswerLater`, which answers the call with
its own promise because `Shared` and `Waits` say that `value` is that promise and
`Owners` that the frames that are rewound are those of the call.

**`BlobIo_proofs`**, from `ConstantsAssumption`: blobs, buffers and streams of any
size, any integer for the offset and any length.  `BlobInv` says at each await who
uses the buffer (`Stages`), and where the bytes are: for a `ReadableStream` those
taken are the ones in the blob and those in the buffer (`Filled`), for a
`WritableStream` those before `offset`, and with a chunk the sink has taken those
before its end, are in the sink in order (`Drained`).  `Filled` does not bound the
last chunk by `length`, as the code does not (finding 21).  From it follow `TypeOK`,
`CountIsTrue` and `NoUseAfterClose`.

**`Values_proofs`**, from `ConstantsAssumption`: any Pointers and names, and a finite
set of statements, since `Holders` counts them.  `ValueInv` keeps the counts also
after the exception of finding 15 (`Counts`; `Accounted` looks at them only before), says
that what SQLite has is in `pointers`, or was used again once it had been destroyed
(`Known`), and that no two names have one function and no name a lost one
(`Registered`, without which replacing one function would take away another's).  Every
step that binds, returns, refuses or lets go is one use of the lemma `ExchangeKeeps`:
if the two lists say what changes in the two places of one statement, the counts stay
right, and a Pointer whose references come to 0 is in no place (`NoHolders`); it rests
on `HoldersAfter`, how a cardinality changes with one value of a function.

**Only model-checked.**  Liveness (`EveryCallSettles`, `CallsAnswered`,
`SettledCallsGoOn`, `CallsSettle`), which is beyond the prover.  And what the three
runs that end in a violation refute.

## 5. What is not modelled

* Conversions of numbers and text (`value.js`): data, not control; unit tests
  reach them.
* Of the glue: `xDelete`, `xAccess` and `xFullPathname`, which are one call of a
  boiler each (the last writes no terminating zero when the name just fills the
  buffer); `xGetLastError`, for which nothing ever records an error;
  registration, `Filename`, and `vfs/basics.js`, which keeps no state.
* Of the Local VFS: `access(SQLITE_ACCESS_READWRITE)`, which compares the promise of
  `queryPermission()` with a string and so always answers false; the registration
  at load; removal of directories; a `put()` of `mount()` that fails, and a `mount()`
  that replaces a handle under its key, either of which would take back what `possible`
  counts from the call on.
* Of the HTTP VFS: how `open()` finds the length, redirects, and `proto`.
* Aggregate and window functions, whose callbacks are stubs with a `debugger`
  statement; `eval.js`, which registers one function.
* That `OpenParams`, being a `Pointer`, stays in `pointers` for ever when it is only
  handed to `open()`; `leaky()`, which keeps what it is given by design.
* A statement that overwrites the blob itself under `blob_io()`, after which no count
  could be held against its bytes.
* In `blob_io()`, that the BYOB buffer shrinks to the last chunk that was read
  (`blob_io.js:66`) is in the model (`chunk`); that it never grows again costs time
  and nothing else.
* SQLite: vendored.  The pager is modelled as the caller of a file, in the
  configuration of the library: journal mode DELETE, `synchronous` FULL, and a
  device that offers batch-atomic writes.  That the pager keeps the protocol it
  documents is taken as given.
* `xClose` with DELETEONCLOSE, `size()` of a file that was never locked,
  `synchronous=OFF`.
* The C stack pointer of the instance, which asyncify does not save for each call.
* Garbage collection, but for the statements that `Collect` finalizes: so nothing is
  said of the memory that a forgotten generator keeps.
* `Conn.open()` on a connection that is open, and a `Conn` that is opened again
  after `close()`; binding of values by the application.
* `func/backup.js`, which nothing calls; builds, pages and examples.

## 6. Findings

The three that name a run are runs that end in a violation; for each of the
others it is said how to see it.  `PROJECT.json` quotes the line that promises
something else.

1. `pool.js:48`: the resolver of a waiter that timed out stays in `#waiters`, and
   the next connection returned is lost with it (`pool_timeout`).
2. `pool.js:57`: `options.initialized` is tested before an await and called after
   it; two first calls at once, and the second throws and loses its slot.
   No run is kept: it is `pool` with no faults, `initialized` a function and
   `BorrowSucceeds`.
3. `vfs/file.js:79`: `unlock()` releases the reserved lock only of a file that
   got as far as EXCLUSIVE; a rollback at RESERVED keeps other writers out until
   the same connection next writes (`filelock_release`).
4. `vfs/file.js:92`: `navigator.locks.query()` takes no name, so
   `check_reserved_lock()` is true for every reader, and no hot journal is ever
   rolled back.  No run is kept: `filelock` with `ReservedIsReported` shows it.
5. `vfs/local.js:100`: all files of the Local VFS have the lock name
   `[object IDBDatabase]`; a connection with two of them waits for itself.  It is
   `CallsAnswered` of `filelock` with `Clients = {f2, f5}`, `LockNames <-
   LocalLockNames` and `LockName <- ByDatabase`.
6. `vfs/file.js:146`: the rollback of a batch without a stream throws and leaves
   `#atomic` set; `sync()` then does nothing, and a commit that is reported is
   not in the file.  It is `FileIsCommitted` of `fileio`, without the constraint, with
   `Uses = {"create"}`.
7. `vfs/file.js:171`: the truncation after a shrinking commit leaves a stream open
   that later replaces the file with an old copy: `FileIsCommitted` with
   `Uses = {"shrink"}`.
8. `vfs/file.js:157`: a batch-atomic commit keeps the `#blob` from before it, and
   a connection that keeps its lock reads old pages: `ReadsCommitted` of `fileio`
   with `Uses = {}`.
9. `vfs/file.js:120`: reading a spilled page closes the stream in the middle of a
   transaction; a crash after it leaves half of the transaction in the file:
   `FileIsCommitted` with `Uses = {"spill", "reread", "crash"}`.
10. `conn.js:100`: the iterator's `reset()` is not awaited; after a `break` it may
   be suspended in xUnlock when `finalize()` frees its statement
   (`statements_break`).
11. `conn.js:52`: `finalize()` takes the promise of a call that suspends for an
   error code and throws.  No configuration is kept for it: it is
   `statements_break` with `NoErrorOutOfNothing`.

12. `vfs/custom.js:194`: `xWrite` makes its view before `createWritable()` is awaited;
    when the memory grows meanwhile the file gets no bytes, and SQLite OK:
    `WritesStored` of `vfs_glue`.
13. `vfs/custom.js:127`: what a success handler throws after an await is caught by
    nobody, and SQLite's call never ends: `NoneLost` of `vfs_glue`.
14. `vfs/http.js:44`: a connection reads pages of two versions of a file that it
    announces as immutable: `Immutable` of `vfs_glue`.
15. `value.js:155`: a Pointer that SQLite has let go of once is null when it is bound
    again, and releasing it throws through SQLite: `SameObject` of `values`.
16. `vfs/local.js:55`: a lookup of a mounted file never settles: `AllSettle` of
    `local_vfs`.  The pathname has two slashes before the name.
17. `vfs/local.js:77`: nothing below a directory in a mounted one is found, as
    `getFileHandle()` rejects for a directory: `TraversesDirs` of `local_vfs`.
18. `vfs/local.js:77`: with `SQLITE_OPEN_CREATE` a missing directory on the way is
    created as a file: `NoJunk` of `local_vfs`.
19. `func/blob_io.js:105`: the result of closing the handle is not looked at, and
    `blob_io()` answers a count for what was rolled back: `AnswerIsTrue` of `blob_io`.
20. `func/blob_io.js:87`: when the stream fails while `sqlite3_blob_read()` is
    suspended the handle is closed and the buffer freed under it:
    `ClosedWhenUnused` of `blob_io`.
21. `func/blob_io.js:69`: a chunk from a stream is not cut at `length`:
    `WithinLength` of `blob_io`.
22. `vfs/file.js:183`: the size of a journal file is not a number, its playback always
    fails, and what was spilled of a transaction that was rolled back reaches the
    database with the next read: `FileIsCommitted` with `Uses = {"spill", "rollback"}`.
23. `func/blob_io.js:94`: the stream is given a view of SQLite's memory; when that grows
    before the sink has looked, the view is detached, nothing reaches the sink, and the
    count is answered all the same: `AnswerIsTrue` of `blob_io` with `Faults = {"grow"}`.
24. `func/blob_io.js:94`: a sink that queues its chunks is done with `write()` before it
    has looked, and finds the next chunk's bytes in the buffer, or freed memory:
    `AnswerIsTrue` of `blob_io` with `Faults = {"late"}`.
25. `conn.js:63`: `Statement.bind()` passes `this.ptr`, which there is none of, so binds
    nothing, and does not look at SQLite's answer: `BindTakes` of `values`.

The passing runs say what holds beside these.  `fileio` has every use and every failure,
and its properties hold up to the mishaps that findings 6, 7, 9 and 22 are about; so
failing `write()` and `close()` in a journalled commit are among what they hold
through: they leave the stream errored, and nothing of it can reach the file.  `blob_io`
exempts by name what findings 19, 20, 23 and 24 are about, and `local_vfs` and
`values` likewise those of theirs.  `statements` leaves out `break`, which finding 10
needs; and `filelock` gives each database a name of its own.

## 7. Plan

The order is that of consequence: first what can lose data or hang, then what
can leak.

1. Done: `ConnPool`, `FileLock` with `WebLocks` and `DbLock`, and `Statements`,
   each with its proofs; `Asyncify` and `Coroutines`; `FileIO`.
2. Done: `VfsGlue` and `LocalVfs`, both with their proofs; `Values` and `BlobIo`.
3. Done: the proofs of `FileIO`, `Asyncify` with its refinement of `Coroutines`,
   `BlobIo` and `Values`; that no step of a File takes back what was committed
   (`CommitsForward`).
4. Every invariant and every action property of a run is a theorem; left to prove is
   what is beyond the prover, liveness.
5. Extend further: `synchronous=OFF` and DELETEONCLOSE in `FileIO`; two calls on one
   connection at a time, `Statements` over `Asyncify`; a `Conn` that is opened again
   while it closes.
