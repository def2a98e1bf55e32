------------------------------ MODULE WebLocks ------------------------------
(***************************************************************************)
(* navigator.locks, the browser's lock manager, as src/src/vfs/file.js     *)
(* uses it: shared and exclusive locks on names, a first-in first-out      *)
(* queue of requests for each name, and requests that are answered at once *)
(* (ifAvailable).  It is not part of the repository.                       *)
(***************************************************************************)
EXTENDS Naturals

CONSTANTS
    LockNames,      \* the names of locks in the origin
    Clients         \* those who request locks, each one lock of a name at a time

VARIABLES
    held,           \* the locks granted for each name
    queue           \* the requests that wait for each name

Locks == [client : Clients, mode : {"shared", "exclusive"}]

\* A request knows the clients that queued ahead of it, which makes the set of
\* requests a queue.
Requests == [lock : Locks, after : SUBSET Clients]

Lock(f, m) == [client |-> f, mode |-> m]

WebLocksTypeOK ==
    /\ held \in [LockNames -> SUBSET Locks]
    /\ queue \in [LockNames -> SUBSET Requests]

WebLocksInit ==
    /\ held = [n \in LockNames |-> {}]
    /\ queue = [n \in LockNames |-> {}]

\* A lock is compatible with those held: an exclusive one with none of them,
\* a shared one with shared ones.
Compatible(n, m) == \A l \in held[n] : m = "shared" /\ l.mode = "shared"

\* A request that need not wait: nobody is ahead of it.
Available(n, m) == queue[n] = {} /\ Compatible(n, m)

\* The values of queue and held after a request and after a release.
Requested(n, f, m) ==
    [queue EXCEPT ![n] = @ \cup {[lock |-> Lock(f, m), after |-> {r.lock.client : r \in @}]}]
Granted(n, f, m)  == [held EXCEPT ![n] = @ \cup {Lock(f, m)}]
Released(n, f, m) == [held EXCEPT ![n] = @ \ {Lock(f, m)}]

\* The requests of R without those of the clients in F.
Leave(R, F) ==
    {[lock |-> r.lock, after |-> r.after \ F] : r \in {q \in R : q.lock.client \notin F}}

\* The manager serves the oldest request for n once it is compatible.
Grant(n) ==
    \E r \in queue[n] :
        /\ r.after = {}
        /\ Compatible(n, r.lock.mode)
        /\ held' = [held EXCEPT ![n] = @ \cup {r.lock}]
        /\ queue' = [queue EXCEPT ![n] = Leave(@, {r.lock.client})]

\* The agents of the clients in F are gone: their locks are released and their
\* requests aborted.
Abandon(F) ==
    /\ held' = [n \in LockNames |-> {l \in held[n] : l.client \notin F}]
    /\ queue' = [n \in LockNames |-> Leave(queue[n], F)]

\* navigator.locks.query(): its argument is not looked at.
AnyLockHeld == \E n \in LockNames : held[n] # {}

=============================================================================
