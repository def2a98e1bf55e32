------------------------------ MODULE LocalVfs ------------------------------
(***************************************************************************)
(* The Local VFS of src/src/vfs/local.js, which finds files below mounted  *)
(* FileSystemHandles.  The handles are kept in IndexedDB under the path    *)
(* they are mounted at; a pathname is looked up by one transaction, and    *)
(* then one call of getFileHandle() for each name, so that other calls,    *)
(* and other pages, come between.                                          *)
(*   A pathname is the sequence of its names, "" for an empty one: '/d//x' *)
(* is <<"d", "", "x">>.  The key a handle is mounted at ends in a slash,   *)
(* which the sequence leaves out.  A handle is its place in the file       *)
(* system, whose root is <<>>; directories stay as they are.               *)
(***************************************************************************)
EXTENDS Integers, Sequences, SequencesExt

CONSTANTS
    Calls,          \* the calls of mount(), open(), access() and delete()
    Dirs,           \* the places of directories
    Names,          \* the names there are
    Shared,         \* the places where other pages have files
    Pathnames,      \* the pathnames that are looked up
    Mountable       \* the records [key, handle] that are mounted, one per key

NoFile == <<>>
Unsaid == <<"?">>

\* What a pathname is looked up for: open() without SQLITE_OPEN_CREATE and
\* access(SQLITE_ACCESS_EXISTS) do the same.
Ops == {"find", "create", "delete"}
Places == {Append(d, n) : d \in Dirs, n \in Names}
ASSUME LocalAssumption ==
    /\ Dirs \subseteq Seq(Names) /\ "" \notin Names /\ Shared \subseteq Places \ Dirs
    /\ Pathnames \subseteq Seq(Names \cup {""}) \ {<<>>}
    /\ Mountable \subseteq [key : Seq(Names \cup {""}), handle : Dirs \cup Places]
    /\ \A m, n \in Mountable : m.key = n.key => m = n

Requests == [op : Ops, path : Pathnames, handle : {NoFile}] \cup
    {[op |-> "mount", path |-> m.key, handle |-> m.handle] : m \in Mountable}
NoRequest == [op |-> "none", path |-> <<>>, handle |-> NoFile]
Mounting(r) == [key |-> r.path, handle |-> r.handle]

VARIABLES
    db,             \* #db: a promise until IndexedDB has answered
    queue,          \* the calls that wait for #db or for their transaction
    mounts,         \* the object store
    files,          \* the places of the files
    pc, request,
    handle, path,   \* the variables of traverse()
    answer,         \* the File's place, NoFile when there is none
    asked,          \* the calls of mount() so far
    possible        \* per call, the files its pathname has named since it began

localVars == <<db, queue, mounts, files, pc, request, handle, path, answer, asked, possible>>

KeyBelow(k, p) == IsStrictPrefix(k, p)

\* Each call is at one place of the code, and walks from a handle of the file
\* system down a pathname that still has a name.
LocalTypeOK ==
    /\ db \in {"opening", "open", "failed"}
    /\ queue \in Seq(Calls) /\ \A i, j \in 1..Len(queue) : queue[i] = queue[j] => i = j
    /\ {queue[i] : i \in 1..Len(queue)} = {c \in Calls : pc[c] = "queued"}
    /\ mounts \subseteq asked /\ asked \subseteq Mountable
    /\ files \subseteq Places \ Dirs
    /\ pc \in [Calls -> {"idle", "queued", "walking", "removing", "hung", "answered"}]
    /\ request \in [Calls -> Requests \cup {NoRequest}]
    /\ handle \in [Calls -> Dirs \cup Places \cup {NoFile}]
    /\ path \in [Calls -> Seq(Names \cup {""})]
    /\ answer \in [Calls -> Places \cup {NoFile, Unsaid}]
    /\ possible \in [Calls -> SUBSET (Places \cup {NoFile, Unsaid})]
    /\ \A c \in Calls :
        /\ pc[c] # "idle" => request[c] \in Requests
        /\ pc[c] = "walking" => handle[c] \in Dirs \cup Places /\ path[c] # <<>>
        /\ pc[c] = "removing" => handle[c] \in Places

\* The handles of earlier sessions are in the store.
LocalInit ==
    /\ db = "opening" /\ queue = <<>>
    /\ mounts \in SUBSET Mountable /\ asked = mounts
    /\ files \in SUBSET Shared
    /\ pc = [c \in Calls |-> "idle"]
    /\ request = [c \in Calls |-> NoRequest]
    /\ handle = [c \in Calls |-> NoFile] /\ path = [c \in Calls |-> <<>>]
    /\ answer = [c \in Calls |-> NoFile]
    /\ possible = [c \in Calls |-> {}]

Settle(c, place) ==
    /\ pc' = [pc EXCEPT ![c] = "answered"]
    /\ answer' = [answer EXCEPT ![c] = place]

-----------------------------------------------------------------------------
(* Calls and their transactions.                                           *)

\* A call waits for #db while that is a promise; those that do go on in the order
\* of the calls, and create their transactions in it.
Call(c, r) ==
    /\ pc[c] = "idle"
    /\ pc' = [pc EXCEPT ![c] = "queued"]
    /\ request' = [request EXCEPT ![c] = r]
    /\ queue' = Append(queue, c)
    /\ asked' = IF r.op = "mount" THEN asked \cup {Mounting(r)} ELSE asked
    /\ UNCHANGED <<db, mounts, files, handle, path, answer>>

\* IndexedDB answers.
OpenDb ==
    /\ db = "opening" /\ db' \in {"open", "failed"}
    /\ UNCHANGED <<queue, mounts, files, pc, request, handle, path, answer, asked>>

Leave(c) == \E i \in 1..Len(queue) : queue[i] = c /\ queue' = RemoveAt(queue, i)

\* A transaction that writes waits for those created before it, one that reads for
\* those of them that write.
Before(c) == {queue[i] : i \in {i \in 1..Len(queue) :
    \E j \in 1..Len(queue) : i < j /\ queue[j] = c}}
Turn(c) ==
    /\ db = "open" /\ pc[c] = "queued"
    /\ \A d \in Before(c) : request[c].op # "mount" /\ request[d].op # "mount"
    /\ Leave(c)

\* There is no database, or its cursor fails.
Reject(c) ==
    /\ \/ db = "failed" /\ pc[c] = "queued" /\ Leave(c)
       \/ Turn(c) /\ request[c].op \in Ops
    /\ Settle(c, Unsaid)
    /\ UNCHANGED <<db, mounts, files, request, handle, path, asked>>

Mount(c) ==
    /\ Turn(c) /\ request[c].op = "mount"
    /\ mounts' = mounts \cup {Mounting(request[c])}
    /\ Settle(c, NoFile)
    /\ UNCHANGED <<db, files, request, handle, path, asked>>

\* Line 55: the key with its slash, another slash, and the name of the file.  A
\* mutant takes every pathname below the key.
FileAbove(m, p) == m.handle \notin Dirs /\ IsPrefix(m.key, p)
FileMatches(m, p) ==
    m.handle \notin Dirs /\ p = m.key \o <<"", Last(m.handle)>>

\* The mounted directory above a pathname that leaves the fewest names, and a
\* mutant that takes the first.
DirsAbove(p) == {m \in mounts : m.handle \in Dirs /\ KeyBelow(m.key, p)}
FirstDir(p) ==
    CHOOSE m \in DirsAbove(p) : \A n \in DirsAbove(p) : Len(m.key) <= Len(n.key)
BestDir(p) ==
    CHOOSE m \in DirsAbove(p) : \A n \in DirsAbove(p) : Len(m.key) >= Len(n.key)

\* What the pathname has below the key, and a mutant that loses a name.
ShortRest(m, p) == SubSeq(p, Len(m.key) + 2, Len(p))
Rest(m, p) == SubSeq(p, Len(m.key) + 1, Len(p))

\* The cursor's way through the store.  At a file that matches it stops without a
\* word.
Scan(c) == LET p == request[c].path IN
    /\ Turn(c) /\ request[c].op \in Ops
    /\ IF \E m \in mounts : FileMatches(m, p)
       THEN pc' = [pc EXCEPT ![c] = "hung"] /\ UNCHANGED <<handle, path, answer>>
       ELSE IF DirsAbove(p) = {} THEN Settle(c, NoFile) /\ UNCHANGED <<handle, path>>
       ELSE /\ handle' = [handle EXCEPT ![c] = BestDir(p).handle]
            /\ path' = [path EXCEPT ![c] = Rest(BestDir(p), p)]
            /\ pc' = [pc EXCEPT ![c] = "walking"] /\ UNCHANGED answer
    /\ UNCHANGED <<db, mounts, files, request, asked>>

-----------------------------------------------------------------------------
(* The way down the directory.                                             *)

\* getFileHandle() of the next name; it has no answer for a directory, a name that
\* is empty, or a file that is not there and not to be created, and a file has no
\* such method.
NextPlace(c) == Append(handle[c], Head(path[c]))
IsFound(c) ==
    /\ handle[c] \in Dirs /\ Head(path[c]) # "" /\ NextPlace(c) \notin Dirs
    /\ request[c].op = "create" \/ NextPlace(c) \in files

Walk(c) ==
    /\ pc[c] = "walking"
    /\ IF IsFound(c)
       THEN /\ files' = files \cup {NextPlace(c)}
            /\ handle' = [handle EXCEPT ![c] = NextPlace(c)]
            /\ path' = [path EXCEPT ![c] = Tail(path[c])]
            /\ IF Len(path[c]) > 1 THEN UNCHANGED <<pc, answer>>
               ELSE IF request[c].op = "delete"
               THEN pc' = [pc EXCEPT ![c] = "removing"] /\ UNCHANGED answer
               ELSE Settle(c, NextPlace(c))
       ELSE Settle(c, NoFile) /\ UNCHANGED <<files, handle, path>>
    /\ UNCHANGED <<db, queue, mounts, request, asked>>

\* handle.remove(), which rejects when the file has gone.
RemoveFile(c) ==
    /\ pc[c] = "removing"
    /\ Settle(c, IF handle[c] \in files THEN NoFile ELSE Unsaid)
    /\ files' = files \ {handle[c]}
    /\ UNCHANGED <<db, queue, mounts, request, handle, path, asked>>

\* Another page creates or removes a file; before IndexedDB has answered nobody
\* looks at any.
Meddle(place) ==
    /\ db = "open" /\ \E c \in Calls : pc[c] \in {"queued", "walking", "removing"}
    /\ files' = IF place \in files THEN files \ {place} ELSE files \cup {place}
    /\ UNCHANGED <<db, queue, mounts, pc, request, handle, path, answer, asked>>

-----------------------------------------------------------------------------
\* The file that a pathname names when the handles of table are mounted and there
\* are the files fs: that of the deepest directory above it.  Unsaid marks a file
\* below a directory in there.
Named(p, table, fs) ==
    LET above == {m \in table : m.handle \in Dirs /\ KeyBelow(m.key, p)}
        deepest == CHOOSE m \in above : \A n \in above : Len(m.key) >= Len(n.key)
        below == SubSeq(p, Len(deepest.key) + 1, Len(p))
        place == deepest.handle \o below
    IN IF above = {} THEN {NoFile}
       ELSE {IF place \in fs THEN place ELSE NoFile} \cup
            IF Len(below) > 1 THEN {Unsaid} ELSE {}

Remember == possible' = [c \in Calls |->
    IF pc[c] = "answered" \/ pc'[c] = "idle" \/ request'[c].op = "mount" THEN possible[c]
    ELSE possible[c] \cup Named(request'[c].path, asked', files')]

Proceed(c) == Reject(c) \/ Mount(c) \/ Scan(c) \/ Walk(c) \/ RemoveFile(c)
Answers == OpenDb \/ \E c \in Calls : Proceed(c)

LocalNext ==
    /\ \/ Answers
       \/ \E c \in Calls, r \in Requests : Call(c, r)
       \/ \E place \in Shared : Meddle(place)
    /\ Remember

\* IndexedDB and the file system answer.
LocalSpec == LocalInit /\ [][LocalNext]_localVars /\ WF_<<db, pc, path>>(Answers)

-----------------------------------------------------------------------------
(* Properties.                                                             *)

\* Whatever comes between its steps, an answer was true at one moment of the call:
\* open() and access() find a file that its pathname named then, or find none where
\* there was none, and delete() leaves none; and a mount() that was called before
\* counts, awaited or not.  Below the directories in a mounted one all is left
\* unsaid.
AnswersHold ==
    \A c \in Calls : pc[c] = "answered" /\ request[c].op # "mount" =>
        answer[c] = Unsaid \/ possible[c] \cap {answer[c], Unsaid} # {}

\* The same for the files below the directories in a mounted one.
TraversesDirs ==
    \A c \in Calls : pc[c] = "answered" /\ request[c].op # "mount" =>
        answer[c] \in possible[c] \cup {Unsaid}

\* Every call settles but for those whose pathname is that of a mounted file.
CallsSettle ==
    \A c \in Calls :
        pc[c] # "idle" ~> \/ pc[c] = "answered"
                          \/ \E m \in asked : /\ m.handle \notin Dirs
                                /\ request[c].path = m.key \o <<"", Last(m.handle)>>

\* Every call settles.
AllSettle == \A c \in Calls : pc[c] # "idle" ~> pc[c] = "answered"

\* No file is created on the way to another.
NoJunk == [][\A c \in Calls : Walk(c) /\ files' # files => Len(path[c]) = 1]_localVars

=============================================================================
