--------------------------- MODULE FileLock_proofs ---------------------------
(***************************************************************************)
(* Theorems about FileLock for any number of connections, Files, databases *)
(* and lock names: two Web Locks implement SQLite's lock, and nobody       *)
(* writes under a reader.  LockInv is the inductive invariant; it says for *)
(* each await of a call which locks the File has, and what the manager     *)
(* guarantees of the locks it has granted.                                 *)
(***************************************************************************)
EXTENDS FileLock, TLAPS

\* What a File knows while its call is suspended at each await.
PcKnows ==
    \A f \in Files :
        /\ pc[f] = "shared" => lock[f] = "none" /\ eLock[f] = 0
        /\ pc[f] \in {"getfile", "error"} => lock[f] = "shared" /\ eLock[f] = 0
        /\ pc[f] = "reserve" => lock[f] = "shared" /\ ~res_lock[f] /\ eLock[f] = 1 /\ level[f] \in {2, 4}
        /\ pc[f] = "exchange" => lock[f] = "shared" /\ res_lock[f] /\ eLock[f] \in {1, 2}
        /\ pc[f] = "downgrade" => lock[f] = "exclusive" /\ eLock[f] = 4 /\ level[f] \in {0, 1}
        /\ pc[f] = "idle" => /\ eLock[f] = 0 <=> lock[f] = "none"
                             /\ eLock[f] = 4 <=> lock[f] = "exclusive"
        /\ eLock[f] >= 2 => res_lock[f]

\* The locks on lock_name that File f has: those in #lock, except in the
\* course of an exchange, and what was granted to it and not yet noticed.
HeldByName ==
    \A f \in Files :
        /\ lock[f] = "shared" /\ pc[f] # "exchange" => Lock(f, "shared") \in held[name(f)]
        /\ lock[f] = "exclusive" /\ pc[f] # "downgrade" => Lock(f, "exclusive") \in held[name(f)]
        /\ Lock(f, "shared") \in held[name(f)] =>
              pc[f] \in {"shared", "downgrade"} \/ (lock[f] = "shared" /\ pc[f] # "exchange")
        /\ Lock(f, "exclusive") \in held[name(f)] =>
              pc[f] = "exchange" \/ (lock[f] = "exclusive" /\ pc[f] # "downgrade")

\* The reserved lock is the one in #res_lock, or granted a moment ago.
HeldReserved ==
    \A f \in Files :
        Lock(f, "exclusive") \in held[res_name(f)] <=> res_lock[f] \/ pc[f] = "reserve"

\* The manager grants an exclusive lock to one client and to it alone.
HeldCompatible ==
    \A n \in LockNames : \A l, k \in held[n] : l.mode = "exclusive" => l = k

\* Requests wait only on a lock_name, for a File that awaits them and has no
\* lock on it.
QueueAwaited ==
    \A n \in LockNames : \A r \in queue[n] :
        /\ n = name(r.lock.client)
        /\ r.lock.mode = "shared" => pc[r.lock.client] \in {"shared", "downgrade"}
        /\ r.lock.mode = "exclusive" => pc[r.lock.client] = "exchange"
        /\ \A l \in held[n] : l.client # r.lock.client

LockInv ==
    /\ TypeOK /\ PcKnows /\ HeldByName /\ HeldReserved /\ HeldCompatible /\ QueueAwaited
    /\ SnapshotNotOvertaken

-----------------------------------------------------------------------------
USE DEF Files

LEMMA LockFields ==
    \A f, g \in Files : \A m, k \in {"shared", "exclusive"} :
        /\ Lock(f, m) \in Locks
        /\ Lock(f, m).client = f /\ Lock(f, m).mode = m
        /\ Lock(f, m) = Lock(g, k) => f = g /\ m = k
  BY DEF Lock, Locks

LEMMA LockIsItsFields ==
    \A l \in Locks : l = Lock(l.client, l.mode) /\ l.client \in Files /\ l.mode \in {"shared", "exclusive"}
  BY DEF Lock, Locks

LEMMA NamesDiffer ==
    \A f, g \in Files :
        /\ name(f) \in LockNames /\ res_name(f) \in LockNames
        /\ res_name(f) # name(g)
        /\ res_name(f) = res_name(g) => name(f) = name(g)
<1> SUFFICES ASSUME NEW f \in Files, NEW g \in Files
             PROVE  /\ name(f) \in LockNames /\ res_name(f) \in LockNames
                    /\ res_name(f) # name(g)
                    /\ res_name(f) = res_name(g) => name(f) = name(g)
  OBVIOUS
<1>1. name(f) \in LockNames /\ res_name(f) \in LockNames
  BY FilesAssumption DEF name, res_name
<1>2. res_name(f) # name(g)
  BY NamesAssumption DEF name, res_name
<1>3. res_name(f) = res_name(g) => name(f) = name(g)
  BY NamesAssumption DEF name, res_name
<1> QED BY <1>1, <1>2, <1>3

LEMMA InitLockInv == Init => LockInv
<1> SUFFICES ASSUME Init PROVE LockInv
  OBVIOUS
<1>1. TypeOK
  BY DEF Init, WebLocksInit, TypeOK, WebLocksTypeOK
<1>2. PcKnows /\ HeldByName /\ HeldReserved /\ SnapshotNotOvertaken
  BY NamesDiffer
  DEF Init, WebLocksInit, PcKnows, HeldByName, HeldReserved, SnapshotNotOvertaken
<1>3. HeldCompatible /\ QueueAwaited
  BY DEF Init, WebLocksInit, HeldCompatible, QueueAwaited
<1> QED BY <1>1, <1>2, <1>3 DEF LockInv

\* Two Files with one reserved lock are the same File.
LEMMA OneReserved ==
    ASSUME LockInv, NEW f \in Files, NEW g \in Files, DbOf[f] = DbOf[g],
           res_lock[f] \/ pc[f] = "reserve", res_lock[g] \/ pc[g] = "reserve"
    PROVE  f = g
<1>1. res_name(f) = res_name(g) /\ res_name(f) \in LockNames
  BY NamesDiffer, NamesAssumption DEF res_name
<1>2. Lock(f, "exclusive") \in held[res_name(f)] /\ Lock(g, "exclusive") \in held[res_name(f)]
  BY <1>1 DEF LockInv, HeldReserved
<1> QED BY <1>1, <1>2, LockFields DEF LockInv, HeldCompatible

\* Whoever holds the exclusive lock leaves the others at NONE.
LEMMA ExclusiveIsAlone ==
    ASSUME LockInv, NEW f \in Files, NEW g \in Files, f # g, DbOf[f] = DbOf[g],
           Lock(f, "exclusive") \in held[name(f)], res_lock[f]
    PROVE  eLock[g] = 0 /\ pc[g] # "getfile"
<1>1. ~res_lock[g] /\ pc[g] # "reserve"
  BY OneReserved
<1>2. name(g) = name(f) /\ name(f) \in LockNames
  BY NamesDiffer, NamesAssumption DEF name
<1>3. \A m \in {"shared", "exclusive"} : Lock(g, m) \notin held[name(g)]
  BY <1>2, LockFields DEF LockInv, HeldCompatible
<1>4. pc[g] # "exchange" /\ pc[g] # "downgrade"
  BY <1>1 DEF LockInv, PcKnows, TypeOK
<1>5. lock[g] = "none"
  BY <1>3, <1>4 DEF LockInv, HeldByName, TypeOK
<1> QED BY <1>4, <1>5 DEF LockInv, PcKnows, TypeOK, Awaits

LEMMA QueueFields ==
    ASSUME TypeOK
    PROVE  \A n \in LockNames : \A r \in queue[n] :
              /\ r.lock \in Locks /\ r.after \subseteq Clients
              /\ r.lock.client \in Files /\ r.lock.mode \in {"shared", "exclusive"}
  BY DEF TypeOK, WebLocksTypeOK, Requests, Locks

\* A request adds one element to one queue.
LEMMA RequestedFacts ==
    ASSUME TypeOK, NEW f \in Files, NEW m \in {"shared", "exclusive"},
           queue' = Requested(name(f), f, m)
    PROVE  /\ queue' \in [LockNames -> SUBSET Requests]
           /\ \A n \in LockNames : \A r \in queue'[n] :
                 r \in queue[n] \/ (n = name(f) /\ r.lock = Lock(f, m))
<1> DEFINE q == [lock |-> Lock(f, m), after |-> {r.lock.client : r \in queue[name(f)]}]
<1>1. queue' = [queue EXCEPT ![name(f)] = @ \cup {q}]
  BY DEF Requested
<1>2. name(f) \in LockNames /\ queue \in [LockNames -> SUBSET Requests]
  BY NamesDiffer DEF TypeOK, WebLocksTypeOK
<1>3. q \in Requests
  BY <1>2, LockFields, QueueFields DEF Requests
<1>4. q.lock = Lock(f, m)
  OBVIOUS
<1> QED BY <1>1, <1>2, <1>3, <1>4

\* What a request of f, made while f has neither lock nor request, does to the
\* queue invariant: the locks of f on lock_name may be released with it.
LEMMA RequestAwaited ==
    ASSUME LockInv, NEW f \in Files, NEW m \in {"shared", "exclusive"},
           queue' = Requested(name(f), f, m),
           \A n \in LockNames : held'[n] \subseteq held[n],
           \A k \in {"shared", "exclusive"} : Lock(f, k) \notin held'[name(f)],
           held' \in [LockNames -> SUBSET Locks],
           pc[f] \notin {"shared", "exchange", "downgrade"},
           \A g \in Files \ {f} : pc'[g] = pc[g],
           IF m = "exclusive" THEN pc'[f] = "exchange" ELSE pc'[f] \in {"shared", "downgrade"}
    PROVE  QueueAwaited'
<1> SUFFICES ASSUME NEW n \in LockNames, NEW r \in queue'[n]
             PROVE  /\ n = name(r.lock.client)
                    /\ r.lock.mode = "shared" => pc'[r.lock.client] \in {"shared", "downgrade"}
                    /\ r.lock.mode = "exclusive" => pc'[r.lock.client] = "exchange"
                    /\ \A l \in held'[n] : l.client # r.lock.client
  BY DEF QueueAwaited
<1>1. CASE r \in queue[n]
  <2>1. r.lock.client \in Files /\ r.lock.mode \in {"shared", "exclusive"}
    BY <1>1, QueueFields DEF LockInv
  <2>2. r.lock.client # f
    BY <1>1, <2>1 DEF LockInv, QueueAwaited
  <2> QED BY <1>1, <2>1, <2>2 DEF LockInv, QueueAwaited
<1>2. CASE n = name(f) /\ r.lock = Lock(f, m)
  <2>1. r.lock.client = f /\ r.lock.mode = m
    BY <1>2, LockFields
  <2>2. \A l \in held'[n] : l.client # f
    BY <1>2, LockIsItsFields
  <2> QED BY <1>2, <2>1, <2>2
<1> QED BY <1>1, <1>2, RequestedFacts DEF LockInv

\* Queues that f is in none of do not care about f, nor about a release.
LEMMA QueueKept ==
    ASSUME LockInv, NEW f \in Files, UNCHANGED queue,
           \A n \in LockNames : \A r \in queue[n] : r.lock.client # f,
           \A n \in LockNames : held'[n] \subseteq held[n],
           \A g \in Files \ {f} : pc'[g] = pc[g]
    PROVE  QueueAwaited'
  BY QueueFields DEF LockInv, QueueAwaited

-----------------------------------------------------------------------------
(* Each action of a File preserves LockInv, one conjunct after the other.       *)

LEMMA RequestSharedStep == ASSUME LockInv, NEW f \in Files, RequestShared(f) PROVE LockInv'
<1> USE DEF RequestShared, Asks, Free
<1>1. TypeOK'
  <2>1. queue' = Requested(name(f), f, "shared")
    OBVIOUS
  <2>2. queue' \in [LockNames -> SUBSET Requests]
    BY <2>1, RequestedFacts DEF LockInv
  <2> QED BY <2>2 DEF LockInv, TypeOK, WebLocksTypeOK, Awaits
<1>2. PcKnows'
  BY SMTT(20) DEF LockInv, TypeOK, PcKnows, Awaits
<1>3. HeldByName'
  BY LockFields, NamesDiffer, SMTT(20) DEF LockInv, TypeOK, WebLocksTypeOK, PcKnows, HeldByName
<1>4. HeldReserved'
  BY LockFields, NamesDiffer, SMTT(20) DEF LockInv, TypeOK, WebLocksTypeOK, PcKnows, HeldReserved
<1>5. HeldCompatible'
  BY DEF LockInv, TypeOK, WebLocksTypeOK, HeldCompatible
<1>6. QueueAwaited'
  <2>1. name(f) \in LockNames /\ held' \in [LockNames -> SUBSET Locks]
    BY NamesDiffer DEF LockInv, TypeOK, WebLocksTypeOK
  <2>2. \A k \in {"shared", "exclusive"} : Lock(f, k) \notin held'[name(f)]
    BY <2>1, LockFields DEF LockInv, TypeOK, WebLocksTypeOK, PcKnows, HeldByName
  <2>3. \A n \in LockNames : held'[n] \subseteq held[n]
    BY DEF LockInv, TypeOK, WebLocksTypeOK
  <2> QED BY <2>1, <2>2, <2>3, RequestAwaited DEF LockInv, TypeOK, PcKnows, Awaits
<1>7. SnapshotNotOvertaken'
  BY DEF LockInv, TypeOK, PcKnows, SnapshotNotOvertaken
<1> QED BY <1>1, <1>2, <1>3, <1>4, <1>5, <1>6, <1>7 DEF LockInv

LEMMA SharedGrantedStep == ASSUME LockInv, NEW f \in Files, SharedGranted(f) PROVE LockInv'
<1> USE DEF SharedGranted
<1>1. TypeOK'
  BY LockFields, NamesDiffer DEF LockInv, TypeOK, WebLocksTypeOK, Awaits
<1>2. PcKnows'
  BY SMTT(20) DEF LockInv, TypeOK, PcKnows, Awaits
<1>3. HeldByName'
  BY LockFields, NamesDiffer, SMTT(20) DEF LockInv, TypeOK, WebLocksTypeOK, PcKnows, HeldByName
<1>4. HeldReserved'
  BY LockFields, NamesDiffer, SMTT(20) DEF LockInv, TypeOK, WebLocksTypeOK, PcKnows, HeldReserved
<1>5. HeldCompatible'
  BY DEF LockInv, TypeOK, WebLocksTypeOK, HeldCompatible
<1>6. QueueAwaited'
  <2>1. \A n \in LockNames : \A r \in queue[n] : r.lock.client # f
    BY LockFields DEF LockInv, QueueAwaited
  <2>2. \A n \in LockNames : held'[n] \subseteq held[n]
    BY DEF LockInv, TypeOK, WebLocksTypeOK
  <2>3. \A g \in Files \ {f} : pc'[g] = pc[g]
    OBVIOUS
  <2> QED BY <2>1, <2>2, <2>3, QueueKept
<1>7. SnapshotNotOvertaken'
  BY DEF LockInv, TypeOK, PcKnows, SnapshotNotOvertaken
<1> QED BY <1>1, <1>2, <1>3, <1>4, <1>5, <1>6, <1>7 DEF LockInv

LEMMA GotFileStep == ASSUME LockInv, NEW f \in Files, GotFile(f) PROVE LockInv'
<1> USE DEF GotFile, TakeBlob
<1>1. TypeOK'
  <2>1. eLock' \in [Files -> {0, 1, 2, 4}] /\ stale' \in [Files -> BOOLEAN]
    BY DEF LockInv, TypeOK
  <2>2. pc' \in [Files -> {"idle", "error"} \cup Awaits]
    BY DEF LockInv, TypeOK, Awaits
  <2> QED BY <2>1, <2>2 DEF LockInv, TypeOK, WebLocksTypeOK
<1>2. PcKnows'
  BY SMTT(20) DEF LockInv, TypeOK, PcKnows, Awaits
<1>3. HeldByName'
  BY LockFields, NamesDiffer, SMTT(20) DEF LockInv, TypeOK, WebLocksTypeOK, PcKnows, HeldByName
<1>4. HeldReserved'
  BY LockFields, NamesDiffer, SMTT(20) DEF LockInv, TypeOK, WebLocksTypeOK, PcKnows, HeldReserved
<1>5. HeldCompatible'
  BY DEF LockInv, TypeOK, WebLocksTypeOK, HeldCompatible
<1>6. QueueAwaited'
  BY QueueFields DEF LockInv, TypeOK, WebLocksTypeOK, PcKnows, QueueAwaited
<1>7. SnapshotNotOvertaken'
  BY DEF LockInv, TypeOK, PcKnows, SnapshotNotOvertaken
<1> QED BY <1>1, <1>2, <1>3, <1>4, <1>5, <1>6, <1>7 DEF LockInv

LEMMA ReserveStep == ASSUME LockInv, NEW f \in Files, NEW l \in {2, 4}, Reserve(f, l) PROVE LockInv'
<1> USE DEF Reserve, Asks, Free, ReserveAvailable, Available, Compatible, Granted
<1>1. TypeOK'
  BY LockFields, NamesDiffer DEF LockInv, TypeOK, WebLocksTypeOK, Awaits
<1>2. PcKnows'
  BY SMTT(20) DEF LockInv, TypeOK, PcKnows, Awaits
<1>3. HeldByName'
  BY LockFields, NamesDiffer, SMTT(20) DEF LockInv, TypeOK, WebLocksTypeOK, PcKnows, HeldByName
<1>4. HeldReserved'
  BY LockFields, NamesDiffer, SMTT(20) DEF LockInv, TypeOK, WebLocksTypeOK, PcKnows, HeldReserved
<1>5. HeldCompatible'
  BY DEF LockInv, TypeOK, WebLocksTypeOK, HeldCompatible
<1>6. QueueAwaited'
  BY QueueFields DEF LockInv, TypeOK, WebLocksTypeOK, PcKnows, QueueAwaited
<1>7. SnapshotNotOvertaken'
  BY DEF LockInv, TypeOK, PcKnows, SnapshotNotOvertaken
<1> QED BY <1>1, <1>2, <1>3, <1>4, <1>5, <1>6, <1>7 DEF LockInv

LEMMA ReservedStep == ASSUME LockInv, NEW f \in Files, Reserved(f) PROVE LockInv'
<1> USE DEF Reserved, Exchange, Released
<1>1. TypeOK'
  <2>1. CASE /\ level[f] < 3 /\ pc' = [pc EXCEPT ![f] = "idle"]
               /\ eLock' = [eLock EXCEPT ![f] = 2]
               /\ UNCHANGED <<held, queue, lock>>
    BY <2>1 DEF LockInv, TypeOK, WebLocksTypeOK
  <2>2. CASE Exchange(f)
    <3>1. queue' \in [LockNames -> SUBSET Requests]
      BY <2>2, RequestedFacts DEF LockInv
    <3>2. held' \in [LockNames -> SUBSET Locks]
      BY <2>2, NamesDiffer DEF LockInv, TypeOK, WebLocksTypeOK
    <3> QED BY <2>2, <3>1, <3>2 DEF LockInv, TypeOK, WebLocksTypeOK, Awaits
  <2> QED BY <2>1, <2>2
<1>2. PcKnows'
  BY SMTT(20) DEF LockInv, TypeOK, PcKnows, Awaits
<1>3. HeldByName'
  BY LockFields, NamesDiffer, SMTT(20) DEF LockInv, TypeOK, WebLocksTypeOK, PcKnows, HeldByName
<1>4. HeldReserved'
  BY LockFields, NamesDiffer, SMTT(20) DEF LockInv, TypeOK, WebLocksTypeOK, PcKnows, HeldReserved
<1>5. HeldCompatible'
  BY DEF LockInv, TypeOK, WebLocksTypeOK, HeldCompatible
<1>6. QueueAwaited'
  <2>1. CASE /\ level[f] < 3 /\ pc' = [pc EXCEPT ![f] = "idle"]
               /\ eLock' = [eLock EXCEPT ![f] = 2]
               /\ UNCHANGED <<held, queue, lock>>
    BY <2>1, QueueFields DEF LockInv, TypeOK, WebLocksTypeOK, PcKnows, QueueAwaited
  <2>2. CASE Exchange(f)
    <3>1. name(f) \in LockNames /\ held' \in [LockNames -> SUBSET Locks]
      BY <2>2, NamesDiffer DEF LockInv, TypeOK, WebLocksTypeOK
    <3>2. \A k \in {"shared", "exclusive"} : Lock(f, k) \notin held'[name(f)]
      BY <2>2, <3>1, LockFields DEF LockInv, TypeOK, WebLocksTypeOK, PcKnows, HeldByName
    <3>3. \A n \in LockNames : held'[n] \subseteq held[n]
      BY <2>2 DEF LockInv, TypeOK, WebLocksTypeOK
    <3> QED BY <2>2, <3>1, <3>2, <3>3, RequestAwaited DEF LockInv, TypeOK, PcKnows, Awaits
  <2> QED BY <2>1, <2>2
<1>7. SnapshotNotOvertaken'
  BY DEF LockInv, TypeOK, PcKnows, SnapshotNotOvertaken
<1> QED BY <1>1, <1>2, <1>3, <1>4, <1>5, <1>6, <1>7 DEF LockInv

LEMMA LockReservedStep == ASSUME LockInv, NEW f \in Files, NEW l \in {2, 4}, LockReserved(f, l) PROVE LockInv'
<1> USE DEF LockReserved, Asks, Free, Exchange, Released
<1>1. TypeOK'
  <2>1. CASE eLock' = [eLock EXCEPT ![f] = 2] /\ UNCHANGED <<held, queue, lock, pc>>
    BY <2>1 DEF LockInv, TypeOK, WebLocksTypeOK
  <2>2. CASE Exchange(f)
    <3>1. queue' \in [LockNames -> SUBSET Requests]
      BY <2>2, RequestedFacts DEF LockInv
    <3>2. held' \in [LockNames -> SUBSET Locks]
      BY <2>2, NamesDiffer DEF LockInv, TypeOK, WebLocksTypeOK
    <3> QED BY <2>2, <3>1, <3>2 DEF LockInv, TypeOK, WebLocksTypeOK, Awaits
  <2> QED BY <2>1, <2>2
<1>2. PcKnows'
  BY SMTT(20) DEF LockInv, TypeOK, PcKnows, Awaits
<1>3. HeldByName'
  BY LockFields, NamesDiffer, SMTT(20) DEF LockInv, TypeOK, WebLocksTypeOK, PcKnows, HeldByName
<1>4. HeldReserved'
  BY LockFields, NamesDiffer, SMTT(20) DEF LockInv, TypeOK, WebLocksTypeOK, PcKnows, HeldReserved
<1>5. HeldCompatible'
  BY DEF LockInv, TypeOK, WebLocksTypeOK, HeldCompatible
<1>6. QueueAwaited'
  <2>1. CASE eLock' = [eLock EXCEPT ![f] = 2] /\ UNCHANGED <<held, queue, lock, pc>>
    BY <2>1, QueueFields DEF LockInv, TypeOK, WebLocksTypeOK, PcKnows, QueueAwaited
  <2>2. CASE Exchange(f)
    <3>1. name(f) \in LockNames /\ held' \in [LockNames -> SUBSET Locks]
      BY <2>2, NamesDiffer DEF LockInv, TypeOK, WebLocksTypeOK
    <3>2. \A k \in {"shared", "exclusive"} : Lock(f, k) \notin held'[name(f)]
      BY <2>2, <3>1, LockFields DEF LockInv, TypeOK, WebLocksTypeOK, PcKnows, HeldByName
    <3>3. \A n \in LockNames : held'[n] \subseteq held[n]
      BY <2>2 DEF LockInv, TypeOK, WebLocksTypeOK
    <3> QED BY <2>2, <3>1, <3>2, <3>3, RequestAwaited DEF LockInv, TypeOK, PcKnows, Awaits
  <2> QED BY <2>1, <2>2
<1>7. SnapshotNotOvertaken'
  BY DEF LockInv, TypeOK, PcKnows, SnapshotNotOvertaken
<1> QED BY <1>1, <1>2, <1>3, <1>4, <1>5, <1>6, <1>7 DEF LockInv

LEMMA ExchangedStep == ASSUME LockInv, NEW f \in Files, Exchanged(f) PROVE LockInv'
<1> USE DEF Exchanged
<1>1. TypeOK'
  BY LockFields, NamesDiffer DEF LockInv, TypeOK, WebLocksTypeOK, Awaits
<1>2. PcKnows'
  BY SMTT(20) DEF LockInv, TypeOK, PcKnows, Awaits
<1>3. HeldByName'
  BY LockFields, NamesDiffer, SMTT(20) DEF LockInv, TypeOK, WebLocksTypeOK, PcKnows, HeldByName
<1>4. HeldReserved'
  BY LockFields, NamesDiffer, SMTT(20) DEF LockInv, TypeOK, WebLocksTypeOK, PcKnows, HeldReserved
<1>5. HeldCompatible'
  BY DEF LockInv, TypeOK, WebLocksTypeOK, HeldCompatible
<1>6. QueueAwaited'
  <2>1. \A n \in LockNames : \A r \in queue[n] : r.lock.client # f
    BY LockFields DEF LockInv, QueueAwaited
  <2>2. \A n \in LockNames : held'[n] \subseteq held[n]
    BY DEF LockInv, TypeOK, WebLocksTypeOK
  <2>3. \A g \in Files \ {f} : pc'[g] = pc[g]
    OBVIOUS
  <2> QED BY <2>1, <2>2, <2>3, QueueKept
<1>7. SnapshotNotOvertaken'
  BY DEF LockInv, TypeOK, PcKnows, SnapshotNotOvertaken
<1> QED BY <1>1, <1>2, <1>3, <1>4, <1>5, <1>6, <1>7 DEF LockInv

LEMMA StartDowngradeStep == ASSUME LockInv, NEW f \in Files, NEW l \in {0, 1}, StartDowngrade(f, l) PROVE LockInv'
<1> USE DEF StartDowngrade, Gives, Free, Released
<1>1. TypeOK'
  <2>1. queue' \in [LockNames -> SUBSET Requests]
    BY RequestedFacts DEF LockInv, TypeOK, WebLocksTypeOK
  <2>2. held' \in [LockNames -> SUBSET Locks]
    BY NamesDiffer DEF LockInv, TypeOK, WebLocksTypeOK
  <2> QED BY <2>1, <2>2 DEF LockInv, TypeOK, WebLocksTypeOK, Awaits
<1>2. PcKnows'
  BY SMTT(20) DEF LockInv, TypeOK, PcKnows, Awaits
<1>3. HeldByName'
  BY LockFields, NamesDiffer, SMTT(20) DEF LockInv, TypeOK, WebLocksTypeOK, PcKnows, HeldByName
<1>4. HeldReserved'
  BY LockFields, NamesDiffer, SMTT(20) DEF LockInv, TypeOK, WebLocksTypeOK, PcKnows, HeldReserved
<1>5. HeldCompatible'
  BY DEF LockInv, TypeOK, WebLocksTypeOK, HeldCompatible
<1>6. QueueAwaited'
  <2>1. name(f) \in LockNames /\ held' \in [LockNames -> SUBSET Locks]
    BY NamesDiffer DEF LockInv, TypeOK, WebLocksTypeOK
  <2>2. \A k \in {"shared", "exclusive"} : Lock(f, k) \notin held'[name(f)]
    BY <2>1, LockFields DEF LockInv, TypeOK, WebLocksTypeOK, PcKnows, HeldByName
  <2>3. \A n \in LockNames : held'[n] \subseteq held[n]
    BY DEF LockInv, TypeOK, WebLocksTypeOK
  <2> QED BY <2>1, <2>2, <2>3, RequestAwaited DEF LockInv, TypeOK, PcKnows, Awaits
<1>7. SnapshotNotOvertaken'
  BY DEF LockInv, TypeOK, PcKnows, SnapshotNotOvertaken
<1> QED BY <1>1, <1>2, <1>3, <1>4, <1>5, <1>6, <1>7 DEF LockInv

LEMMA DowngradedStep == ASSUME LockInv, NEW f \in Files, Downgraded(f) PROVE LockInv'
<1> USE DEF Downgraded
<1>1. TypeOK'
  BY LockFields, NamesDiffer DEF LockInv, TypeOK, WebLocksTypeOK, Awaits
<1>2. PcKnows'
  BY SMTT(20) DEF LockInv, TypeOK, PcKnows, Awaits
<1>3. HeldByName'
  BY LockFields, NamesDiffer, SMTT(20) DEF LockInv, TypeOK, WebLocksTypeOK, PcKnows, HeldByName
<1>4. HeldReserved'
  BY LockFields, NamesDiffer, SMTT(20) DEF LockInv, TypeOK, WebLocksTypeOK, PcKnows, HeldReserved
<1>5. HeldCompatible'
  BY DEF LockInv, TypeOK, WebLocksTypeOK, HeldCompatible
<1>6. QueueAwaited'
  <2>1. \A n \in LockNames : \A r \in queue[n] : r.lock.client # f
    BY LockFields DEF LockInv, QueueAwaited
  <2>2. \A n \in LockNames : held'[n] \subseteq held[n]
    BY DEF LockInv, TypeOK, WebLocksTypeOK
  <2>3. \A g \in Files \ {f} : pc'[g] = pc[g]
    OBVIOUS
  <2> QED BY <2>1, <2>2, <2>3, QueueKept
<1>7. SnapshotNotOvertaken'
  BY DEF LockInv, TypeOK, PcKnows, SnapshotNotOvertaken
<1> QED BY <1>1, <1>2, <1>3, <1>4, <1>5, <1>6, <1>7 DEF LockInv

LEMMA UnlockSharedStep == ASSUME LockInv, NEW f \in Files, NEW l \in {0, 1}, UnlockShared(f, l) PROVE LockInv'
<1> USE DEF UnlockShared, Gives, Free, Released
<1>1. TypeOK'
  BY LockFields, NamesDiffer DEF LockInv, TypeOK, WebLocksTypeOK, Awaits
<1>2. PcKnows'
  BY SMTT(20) DEF LockInv, TypeOK, PcKnows, Awaits
<1>3. HeldByName'
  BY LockFields, NamesDiffer, SMTT(20) DEF LockInv, TypeOK, WebLocksTypeOK, PcKnows, HeldByName
<1>4. HeldReserved'
  BY LockFields, NamesDiffer, SMTT(20) DEF LockInv, TypeOK, WebLocksTypeOK, PcKnows, HeldReserved
<1>5. HeldCompatible'
  BY DEF LockInv, TypeOK, WebLocksTypeOK, HeldCompatible
<1>6. QueueAwaited'
  BY QueueFields DEF LockInv, TypeOK, WebLocksTypeOK, PcKnows, QueueAwaited
<1>7. SnapshotNotOvertaken'
  BY DEF LockInv, TypeOK, PcKnows, SnapshotNotOvertaken
<1> QED BY <1>1, <1>2, <1>3, <1>4, <1>5, <1>6, <1>7 DEF LockInv

LEMMA WriteStep == ASSUME LockInv, NEW f \in Files, Write(f) PROVE LockInv'
<1> USE DEF Write, Free
<1>1. TypeOK'
  BY LockFields, NamesDiffer DEF LockInv, TypeOK, WebLocksTypeOK, Awaits
<1>2. PcKnows'
  BY SMTT(20) DEF LockInv, TypeOK, PcKnows, Awaits
<1>3. HeldByName'
  BY LockFields, NamesDiffer, SMTT(20) DEF LockInv, TypeOK, WebLocksTypeOK, PcKnows, HeldByName
<1>4. HeldReserved'
  BY LockFields, NamesDiffer, SMTT(20) DEF LockInv, TypeOK, WebLocksTypeOK, PcKnows, HeldReserved
<1>5. HeldCompatible'
  BY DEF LockInv, TypeOK, WebLocksTypeOK, HeldCompatible
<1>6. QueueAwaited'
  BY QueueFields DEF LockInv, TypeOK, WebLocksTypeOK, PcKnows, QueueAwaited
<1>7. SnapshotNotOvertaken'
  <2> SUFFICES ASSUME NEW g \in Files, g # f, DbOf[g] = DbOf[f], eLock[g] >= 1
               PROVE  FALSE
    BY DEF LockInv, TypeOK, SnapshotNotOvertaken
  <2>1. res_lock[f] /\ Lock(f, "exclusive") \in held[name(f)]
    BY DEF LockInv, TypeOK, PcKnows, HeldByName
  <2>2. eLock[g] = 0
    BY <2>1, ExclusiveIsAlone
  <2> QED BY <2>2
<1> QED BY <1>1, <1>2, <1>3, <1>4, <1>5, <1>6, <1>7 DEF LockInv

-----------------------------------------------------------------------------
(* The lock manager and the loss of a connection.                          *)

LEMMA LeaveFacts ==
    ASSUME NEW R \in SUBSET Requests, NEW F
    PROVE  /\ Leave(R, F) \in SUBSET Requests
           /\ \A r \in Leave(R, F) :
                 r.lock.client \notin F /\ \E q \in R : q.lock = r.lock
  BY DEF Leave, Requests

LEMMA GrantStep == ASSUME LockInv, NEW n \in LockNames, GrantLock(n) PROVE LockInv'
<1> PICK r \in queue[n] :
        /\ r.after = {}
        /\ Compatible(n, r.lock.mode)
        /\ held' = [held EXCEPT ![n] = @ \cup {r.lock}]
        /\ queue' = [queue EXCEPT ![n] = Leave(@, {r.lock.client})]
  BY DEF GrantLock, Grant
<1> DEFINE f == r.lock.client
<1>1. UNCHANGED fileVars
  BY DEF GrantLock
<1>2. /\ r.lock \in Locks /\ f \in Files /\ r.lock = Lock(f, r.lock.mode)
      /\ r.lock.mode \in {"shared", "exclusive"}
  BY QueueFields, LockIsItsFields DEF LockInv
<1>3. /\ n = name(f)
      /\ r.lock.mode = "shared" => pc[f] \in {"shared", "downgrade"}
      /\ r.lock.mode = "exclusive" => pc[f] = "exchange"
  BY DEF LockInv, QueueAwaited
<1>4. queue[n] \in SUBSET Requests /\ held[n] \in SUBSET Locks
  BY DEF LockInv, TypeOK, WebLocksTypeOK
<1>5. /\ queue' \in [LockNames -> SUBSET Requests]
      /\ held' \in [LockNames -> SUBSET Locks]
  BY <1>2, <1>4, LeaveFacts DEF LockInv, TypeOK, WebLocksTypeOK
<1>6. /\ held'[n] = held[n] \cup {r.lock} /\ queue'[n] = Leave(queue[n], {f})
      /\ \A k \in LockNames \ {n} : held'[k] = held[k] /\ queue'[k] = queue[k]
  BY DEF LockInv, TypeOK, WebLocksTypeOK
<1>7. TypeOK' /\ PcKnows' /\ SnapshotNotOvertaken'
  BY <1>1, <1>5 DEF LockInv, TypeOK, WebLocksTypeOK, PcKnows, SnapshotNotOvertaken, fileVars
<1>8. HeldByName'
  <2> SUFFICES ASSUME NEW g \in Files
               PROVE  HeldByName!(g)'
    BY DEF HeldByName
  <2>1. \A m \in {"shared", "exclusive"} :
           Lock(g, m) \in held'[name(g)] <=>
              Lock(g, m) \in held[name(g)] \/ (g = f /\ m = r.lock.mode)
    BY <1>2, <1>3, <1>6, LockFields, NamesDiffer
  <2>2. UNCHANGED <<lock, pc>>
    BY <1>1 DEF fileVars
  <2> QED BY <1>2, <1>3, <2>1, <2>2 DEF LockInv, HeldByName
<1>9. HeldReserved'
  <2>1. \A g \in Files : held'[res_name(g)] = held[res_name(g)]
    BY <1>2, <1>3, <1>6, NamesDiffer
  <2> QED BY <1>1, <2>1, NamesDiffer DEF LockInv, HeldReserved, fileVars, name, res_name
<1>10. HeldCompatible'
  <2> SUFFICES ASSUME NEW k \in LockNames, NEW l1 \in held'[k], NEW l2 \in held'[k],
                      l1.mode = "exclusive"
               PROVE  l1 = l2
    BY DEF HeldCompatible
  <2>1. CASE k # n
    BY <1>6, <2>1 DEF LockInv, HeldCompatible
  <2>2. CASE k = n
    BY <1>2, <1>4, <1>6, <2>2 DEF LockInv, HeldCompatible, Compatible
  <2> QED BY <2>1, <2>2
<1>11. QueueAwaited'
  <2> SUFFICES ASSUME NEW k \in LockNames, NEW q \in queue'[k]
               PROVE  /\ k = name(q.lock.client)
                      /\ q.lock.mode = "shared" => pc[q.lock.client] \in {"shared", "downgrade"}
                      /\ q.lock.mode = "exclusive" => pc[q.lock.client] = "exchange"
                      /\ \A l \in held'[k] : l.client # q.lock.client
    BY <1>1 DEF QueueAwaited, fileVars
  <2>1. CASE k # n
    BY <1>6, <2>1 DEF LockInv, QueueAwaited
  <2>2. CASE k = n
    <3>1. PICK p \in queue[n] : p.lock = q.lock /\ q.lock.client # f
      BY <1>4, <1>6, <2>2, LeaveFacts
    <3> QED BY <1>6, <2>2, <3>1 DEF LockInv, QueueAwaited
  <2> QED BY <2>1, <2>2
<1> QED BY <1>7, <1>8, <1>9, <1>10, <1>11 DEF LockInv

LEMMA CrashStep == ASSUME LockInv, NEW k \in Connections, Crash(k) PROVE LockInv'
<1> DEFINE F == {f \in Files : ConnOf[f] = k}
<1>1. /\ held' = [n \in LockNames |-> {l \in held[n] : l.client \notin F}]
      /\ queue' = [n \in LockNames |-> Leave(queue[n], F)]
  BY DEF Crash, Abandon
<1>2. \A f \in F : /\ lock'[f] = "none" /\ ~res_lock'[f] /\ pc'[f] = "idle"
                   /\ eLock'[f] = 0 /\ level'[f] = 0 /\ stale'[f]
  BY DEF Crash
<1>3. \A f \in Files \ F : /\ lock'[f] = lock[f] /\ res_lock'[f] = res_lock[f] /\ pc'[f] = pc[f]
                           /\ eLock'[f] = eLock[f] /\ level'[f] = level[f] /\ stale'[f] = stale[f]
  BY DEF Crash
<1>4. TypeOK'
  <2>1. held' \in [LockNames -> SUBSET Locks]
    BY <1>1 DEF LockInv, TypeOK, WebLocksTypeOK
  <2>2. queue' \in [LockNames -> SUBSET Requests]
    BY <1>1, LeaveFacts DEF LockInv, TypeOK, WebLocksTypeOK
  <2>3. /\ lock' \in [Files -> {"none", "shared", "exclusive"}]
        /\ res_lock' \in [Files -> BOOLEAN] /\ stale' \in [Files -> BOOLEAN]
    BY DEF Crash, LockInv, TypeOK
  <2>4. /\ pc' \in [Files -> {"idle", "error"} \cup Awaits]
        /\ level' \in [Files -> {0, 1, 2, 4}] /\ eLock' \in [Files -> {0, 1, 2, 4}]
    BY DEF Crash, LockInv, TypeOK
  <2> QED BY <2>1, <2>2, <2>3, <2>4 DEF TypeOK, WebLocksTypeOK
<1>5. PcKnows' /\ SnapshotNotOvertaken'
  BY <1>2, <1>3 DEF LockInv, PcKnows, SnapshotNotOvertaken
<1>6. \A n \in LockNames : \A f \in Files : \A m \in {"shared", "exclusive"} :
         Lock(f, m) \in held'[n] <=> f \notin F /\ Lock(f, m) \in held[n]
  BY <1>1, LockFields
<1>7. HeldByName'
  BY <1>2, <1>3, <1>6, NamesDiffer DEF LockInv, HeldByName
<1>8. HeldReserved'
  BY <1>2, <1>3, <1>6, NamesDiffer DEF LockInv, HeldReserved
<1>9. HeldCompatible'
  BY <1>1 DEF LockInv, HeldCompatible
<1>10. QueueAwaited'
  <2> SUFFICES ASSUME NEW n \in LockNames, NEW q \in queue'[n]
               PROVE  /\ n = name(q.lock.client)
                      /\ q.lock.mode = "shared" => pc'[q.lock.client] \in {"shared", "downgrade"}
                      /\ q.lock.mode = "exclusive" => pc'[q.lock.client] = "exchange"
                      /\ \A l \in held'[n] : l.client # q.lock.client
    BY DEF QueueAwaited
  <2>1. PICK p \in queue[n] : p.lock = q.lock /\ q.lock.client \notin F
    BY <1>1, LeaveFacts DEF LockInv, TypeOK, WebLocksTypeOK
  <2>2. q.lock.client \in Files \ F
    BY <2>1, QueueFields DEF LockInv
  <2> QED BY <1>1, <1>3, <2>1, <2>2 DEF LockInv, QueueAwaited
<1> QED BY <1>4, <1>5, <1>7, <1>8, <1>9, <1>10 DEF LockInv

-----------------------------------------------------------------------------
(* The theorems.                                                           *)

LEMMA NextLockInv == LockInv /\ [Next]_vars => LockInv'
<1> SUFFICES ASSUME LockInv, [Next]_vars PROVE LockInv'
  OBVIOUS
<1>1. ASSUME NEW f \in Files, Lock1(f) \/ Continue(f) PROVE LockInv'
  BY <1>1, RequestSharedStep, SharedGrantedStep, GotFileStep, ReservedStep, ExchangedStep,
     DowngradedStep DEF Lock1, Continue
<1>2. ASSUME NEW f \in Files, NEW l \in {2, 4}, LockUp(f, l) PROVE LockInv'
  BY <1>2, ReserveStep, LockReservedStep DEF LockUp
<1>3. ASSUME NEW f \in Files, NEW l \in {0, 1}, Unlock(f, l) PROVE LockInv'
  BY <1>3, StartDowngradeStep, UnlockSharedStep DEF Unlock
<1>4. CASE UNCHANGED vars
  BY <1>4
  DEF vars, LockInv, TypeOK, WebLocksTypeOK, PcKnows, HeldByName, HeldReserved,
      HeldCompatible, QueueAwaited, SnapshotNotOvertaken
<1> QED BY <1>1, <1>2, <1>3, <1>4, WriteStep, GrantStep, CrashStep DEF Next

\* LockInv holds whatever the lock manager grants and whichever connection is
\* lost.
THEOREM LockInvariant == Spec => []LockInv
<1> QED BY InitLockInv, NextLockInv, PTL DEF Spec

\* The variables keep their types.
THEOREM TypeCorrect == Spec => []TypeOK
<1>1. LockInv => TypeOK
  BY DEF LockInv
<1> QED BY <1>1, LockInvariant, PTL

\* Nobody writes under a reader.
THEOREM SnapshotsHold == Spec => []SnapshotNotOvertaken
<1>1. LockInv => SnapshotNotOvertaken
  BY DEF LockInv
<1> QED BY <1>1, LockInvariant, PTL

\* What a File's level says of its locks, and so of the other Files' levels.
LEMMA LevelsExclude ==
    ASSUME LockInv, NEW f \in Files, NEW g \in Files, f # g, DbOf[f] = DbOf[g]
    PROVE  /\ Excludes(f) = 4 => Excludes(g) = 0
           /\ Excludes(f) >= 2 => Excludes(g) < 2
<1>1. Excludes(f) >= 2 => res_lock[f] /\ eLock[f] >= 2
  BY DEF Excludes, LockInv, PcKnows, TypeOK
<1>2. Excludes(g) >= 2 => res_lock[g]
  BY DEF Excludes, LockInv, PcKnows, TypeOK
<1>3. res_lock[f] => ~res_lock[g]
  BY OneReserved
<1>4. ASSUME Excludes(f) = 4 PROVE Excludes(g) = 0
  <2>1. pc[f] # "downgrade" /\ eLock[f] = 4
    BY <1>4 DEF Excludes
  <2>2. lock[f] = "exclusive" /\ res_lock[f]
    BY <2>1 DEF LockInv, PcKnows, TypeOK, Awaits
  <2>3. Lock(f, "exclusive") \in held[name(f)]
    BY <2>1, <2>2 DEF LockInv, HeldByName
  <2>4. eLock[g] = 0
    BY <2>2, <2>3, ExclusiveIsAlone
  <2>5. pc[g] # "downgrade"
    BY <2>4 DEF LockInv, PcKnows
  <2> QED BY <2>4, <2>5 DEF Excludes
<1>5. Excludes(g) \in {0, 1, 2, 4}
  BY DEF Excludes, LockInv, TypeOK
<1> QED BY <1>1, <1>2, <1>3, <1>4, <1>5

\* A writer is alone, and there is one intent to write.
THEOREM WritersExclude == Spec => []MutualExclusion
<1>1. LockInv => MutualExclusion
  BY LevelsExclude DEF MutualExclusion
<1> QED BY <1>1, LockInvariant, PTL

\* A File at NONE holds no lock on lock_name.
THEOREM NoneReleases == Spec => []NoneHoldsNothing
<1>1. LockInv => NoneHoldsNothing
  BY DEF LockInv, PcKnows, HeldByName, NoneHoldsNothing, TypeOK
<1> QED BY <1>1, LockInvariant, PTL

-----------------------------------------------------------------------------
(* The two Web Locks implement the lock SQLite expects: DbLock with        *)
(* Excludes(f) as the level of File f.                                     *)

\* A step takes the level of f to l and leaves the other levels alone.
Moves(f, l) == \A g \in Files : Excludes(g)' = IF g = f THEN l ELSE Excludes(g)

LEMMA StaysRefines ==
    ASSUME UNCHANGED stale, \A f \in Files : Excludes(f)' = Excludes(f)
    PROVE  UNCHANGED Promise!lockVars
  BY DEF Promise!lockVars

LEMMA ShareRefines ==
    ASSUME LockInv, NEW f \in Files, pc[f] = "getfile", Moves(f, 1),
           stale' = [stale EXCEPT ![f] = FALSE]
    PROVE  Promise!Next
<1>1. Excludes(f) = 0 /\ lock[f] = "shared"
  BY DEF LockInv, PcKnows, Excludes
<1>2. ASSUME NEW g \in Files \ {f}, DbOf[g] = DbOf[f] PROVE Excludes(g) # 4
  <2> SUFFICES ASSUME Excludes(g) = 4 PROVE FALSE
    OBVIOUS
  <2>1. eLock[g] = 4 /\ pc[g] # "downgrade"
    BY DEF Excludes
  <2>2. lock[g] = "exclusive"
    BY <2>1 DEF LockInv, PcKnows, TypeOK, Awaits
  <2>3. name(f) = name(g) /\ name(f) \in LockNames
    BY <1>2, NamesDiffer, NamesAssumption DEF name
  <2>4. Lock(g, "exclusive") \in held[name(f)] /\ Lock(f, "shared") \in held[name(f)]
    BY <1>1, <2>1, <2>2, <2>3 DEF LockInv, HeldByName
  <2> QED BY <2>3, <2>4, LockFields DEF LockInv, HeldCompatible
<1>3. Promise!Share(f)
  BY <1>1, <1>2 DEF Moves, Promise!Share, Promise!Others
<1> QED BY <1>3 DEF Promise!Next

LEMMA ReserveRefines ==
    ASSUME LockInv, NEW f \in Files, Moves(f, 2), Excludes(f) = 1, UNCHANGED stale,
           res_lock[f] \/ pc[f] = "reserve"
    PROVE  Promise!Next
<1>1. ASSUME NEW g \in Files \ {f}, DbOf[g] = DbOf[f] PROVE Excludes(g) < 2
  <2>1. ~res_lock[g]
    BY <1>1, OneReserved
  <2> QED BY <2>1 DEF LockInv, PcKnows, TypeOK, Excludes
<1>2. Promise!Reserve(f)
  BY <1>1 DEF Moves, Promise!Reserve, Promise!Others
<1> QED BY <1>2 DEF Promise!Next

LEMMA ExcludeRefines ==
    ASSUME LockInv, NEW f \in Files, Moves(f, 4), UNCHANGED stale,
           pc[f] = "exchange", Lock(f, "exclusive") \in held[name(f)]
    PROVE  Promise!Next
<1>1. res_lock[f] /\ Excludes(f) \in {1, 2}
  BY DEF LockInv, PcKnows, Excludes
<1>2. ASSUME NEW g \in Files \ {f}, DbOf[g] = DbOf[f] PROVE Excludes(g) = 0
  <2>1. eLock[g] = 0
    BY <1>1, <1>2, ExclusiveIsAlone
  <2> QED BY <2>1 DEF LockInv, PcKnows, Excludes
<1>3. Promise!Exclude(f)
  BY <1>1, <1>2 DEF Moves, Promise!Exclude, Promise!Others
<1> QED BY <1>3 DEF Promise!Next

LEMMA UnlockRefines ==
    ASSUME NEW f \in Files, NEW l \in {0, 1}, Moves(f, l), l < Excludes(f), UNCHANGED stale
    PROVE  Promise!Next
<1>1. Promise!Unlock(f, l)
  BY DEF Moves, Promise!Unlock
<1> QED BY <1>1 DEF Promise!Next

LEMMA WriteRefines ==
    ASSUME LockInv, NEW f \in Files, Write(f)
    PROVE  Promise!Next
<1>1. Promise!Write(f)
  BY DEF Write, Excludes, Promise!Write, Promise!Others
<1> QED BY <1>1 DEF Promise!Next

LEMMA CrashRefines ==
    ASSUME LockInv, NEW k \in Connections, Crash(k)
    PROVE  Promise!Next
<1> DEFINE F == {f \in Files : ConnOf[f] = k}
<1>1. Promise!Crash(F)
  BY DEF Crash, Excludes, Promise!Crash
<1> QED BY <1>1 DEF Promise!Next

LEMMA ContinueRefines ==
    ASSUME LockInv, NEW f \in Files, Continue(f)
    PROVE  Promise!Next \/ UNCHANGED Promise!lockVars
<1> USE DEF LockInv, TypeOK, PcKnows, Excludes, Moves
<1>1. CASE SharedGranted(f)
  BY <1>1, StaysRefines DEF SharedGranted
<1>2. CASE GotFile(f)
  <2>1. CASE pc' = [pc EXCEPT ![f] = "idle"] /\ eLock' = [eLock EXCEPT ![f] = 1] /\ TakeBlob(f)
    BY <1>2, <2>1, ShareRefines DEF GotFile, TakeBlob
  <2>2. CASE pc' = [pc EXCEPT ![f] = "error"] /\ UNCHANGED <<eLock, stale>>
    BY <1>2, <2>2, StaysRefines DEF GotFile
  <2> QED BY <1>2, <2>1, <2>2 DEF GotFile
<1>3. CASE Reserved(f)
  <2>1. CASE pc' = [pc EXCEPT ![f] = "idle"] /\ eLock' = [eLock EXCEPT ![f] = 2]
    BY <1>3, <2>1, ReserveRefines DEF Reserved
  <2>2. CASE Exchange(f)
    BY <1>3, <2>2, StaysRefines DEF Reserved, Exchange
  <2> QED BY <1>3, <2>1, <2>2 DEF Reserved
<1>4. CASE Exchanged(f)
  BY <1>4, ExcludeRefines DEF Exchanged
<1>5. CASE Downgraded(f)
  <2>1. CASE level[f] = 1
    BY <1>5, <2>1, StaysRefines DEF Downgraded
  <2>2. CASE level[f] = 0
    BY <1>5, <2>2, UnlockRefines DEF Downgraded
  <2> QED BY <1>5, <2>1, <2>2 DEF Downgraded
<1> QED BY <1>1, <1>2, <1>3, <1>4, <1>5 DEF Continue

LEMMA LockUpRefines ==
    ASSUME LockInv, NEW f \in Files, NEW l \in {2, 4}, LockUp(f, l)
    PROVE  Promise!Next \/ UNCHANGED Promise!lockVars
<1> USE DEF LockInv, TypeOK, PcKnows, Excludes, Moves, Asks
<1>1. CASE Reserve(f, l)
  BY <1>1, StaysRefines DEF Reserve
<1>2. CASE LockReserved(f, l)
  <2>1. CASE Exchange(f)
    BY <1>2, <2>1, StaysRefines DEF LockReserved, Exchange
  <2>2. CASE l < 3 /\ eLock' = [eLock EXCEPT ![f] = 2] /\ UNCHANGED pc
    BY <1>2, <2>2, ReserveRefines DEF LockReserved
  <2> QED BY <1>2, <2>1, <2>2 DEF LockReserved
<1> QED BY <1>1, <1>2 DEF LockUp

LEMMA UnlockStepRefines ==
    ASSUME LockInv, NEW f \in Files, NEW l \in {0, 1}, Unlock(f, l)
    PROVE  Promise!Next \/ UNCHANGED Promise!lockVars
<1> USE DEF LockInv, TypeOK, PcKnows, Excludes, Moves, Gives, Free
<1>1. CASE StartDowngrade(f, l)
  <2>1. Moves(f, 1) /\ 1 < Excludes(f) /\ UNCHANGED stale
    BY <1>1 DEF StartDowngrade
  <2> QED BY <2>1, UnlockRefines
<1>2. CASE UnlockShared(f, l) /\ pc[f] = "idle"
  BY <1>2, UnlockRefines DEF UnlockShared
<1>3. CASE UnlockShared(f, l) /\ pc[f] = "error"
  BY <1>3, StaysRefines DEF UnlockShared
<1> QED BY <1>1, <1>2, <1>3 DEF Unlock, UnlockShared

\* Every behaviour of the File class is one of the lock sqlite3.h describes.
THEOREM FileLockImplementsDbLock == Spec => ImplementsDbLock
<1>1. Init => Promise!Init
  BY DEF Init, Excludes, Promise!Init
<1>2. LockInv /\ [Next]_vars => [Promise!Next]_(Promise!lockVars)
  <2> SUFFICES ASSUME LockInv, [Next]_vars
               PROVE  Promise!Next \/ UNCHANGED Promise!lockVars
    OBVIOUS
  <2>1. ASSUME NEW f \in Files, Lock1(f) PROVE UNCHANGED Promise!lockVars
    BY <2>1, StaysRefines DEF Lock1, RequestShared, Asks, Excludes, LockInv, TypeOK
  <2>2. ASSUME NEW n \in LockNames, GrantLock(n) PROVE UNCHANGED Promise!lockVars
    BY <2>2, StaysRefines DEF GrantLock, fileVars, Excludes
  <2>3. CASE UNCHANGED vars
    BY <2>3, StaysRefines DEF vars, Excludes
  <2> QED
    BY <2>1, <2>2, <2>3, ContinueRefines, LockUpRefines, UnlockStepRefines, WriteRefines,
       CrashRefines DEF Next
<1> QED BY <1>1, <1>2, LockInvariant, PTL DEF Spec, ImplementsDbLock, Promise!Spec

=============================================================================
