------------------------------ MODULE VfsGlue -------------------------------
(***************************************************************************)
(* What src/src/vfs/custom.js and src/c_src/main.c put between SQLite and  *)
(* the Files of a VFS: file_impls, which knows a File by the address of    *)
(* SQLite's sqlite3_file, and the boilers, which call a method, wait for   *)
(* it and make a code of what it gives.  SQLite's memory may grow while    *)
(* they wait, which detaches the views of it that there are.               *)
(*   The Files are those of the Local VFS, and those of src/src/vfs/http.js*)
(* of both kinds: of a server that answers ranges, which may get another   *)
(* version of its file at any time, and of one that answers all of it.     *)
(***************************************************************************)
EXTENDS Integers, Sequences

CONSTANTS
    Files,          \* the addresses of sqlite3_files
    Size,           \* the sizes of the versions of what the Files read
    MaxOffset,      \* bound: the offset of a read
    MaxLen,         \* bound: the length of a buffer
    MaxVersion,     \* bound: the versions
    MaxGrowth       \* bound: how often the memory grows

ASSUME ConstantsAssumption ==
    /\ MaxVersion \in Nat \ {0} /\ Size \in [1..MaxVersion -> Nat]
    /\ MaxOffset \in Nat /\ MaxLen \in Nat /\ MaxGrowth \in Nat

Kinds == {"local", "blob", "http"}
Methods == {"open", "read", "write", "size", "close"}

\* What a read asks for, and what the calls of other methods do.
Asks == [offset : 0..MaxOffset, len : 1..MaxLen]
Nothing == [offset |-> 0, len |-> 0]

\* The byte of a version at an offset, a zero, and what was in the buffer before.
ByteOf(v, offset) == <<v, offset>>
Zero == <<0, 0>>
Stale == <<-1, 0>>
Pages == [1..MaxLen -> (-1..MaxVersion) \X Nat]
Untouched == [i \in 1..MaxLen |-> Stale]

VARIABLES
    file_impls,     \* the File for each address
    pMethods,       \* whether SQLite takes the file for open
    call, code,     \* the method that is awaited, and the code of the last call
    last, wanted,   \* the method of the last call, and what it was asked for
    memory,         \* which ArrayBuffer the memory has: each growth makes another
    began,          \* the one that the memory had when the awaited call began
    page,           \* SQLite's buffer
    stored,         \* whether the File has what the last write was to put there
    opened,         \* the version when the File was opened
    version         \* the version that there is now

fileVars == <<file_impls, pMethods, opened>>
memVars == <<memory, version>>
vars == <<fileVars, memVars, call, code, last, wanted, began, page, stored>>

\* Each file has a state of its own, and is known to JavaScript when a method of it
\* is awaited.
TypeOK ==
    /\ file_impls \in [Files -> Kinds \cup {"none"}] /\ pMethods \in [Files -> BOOLEAN]
    /\ call \in [Files -> Methods \cup {"none"}] /\ last \in [Files -> Methods \cup {"none"}]
    /\ code \in [Files -> {"none", "OK", "SHORT_READ", "IOERR", "lost"}]
    /\ wanted \in [Files -> Asks \cup {Nothing}]
    /\ memory \in 0..MaxGrowth /\ began \in [Files -> 0..memory]
    /\ page \in [Files -> Pages] /\ stored \in [Files -> BOOLEAN]
    /\ opened \in [Files -> 1..version] /\ version \in 1..MaxVersion
    /\ \A f \in Files : call[f] \in Methods \ {"open"} => file_impls[f] # "none"

Init ==
    /\ file_impls = [f \in Files |-> "none"] /\ pMethods = [f \in Files |-> FALSE]
    /\ call = [f \in Files |-> "none"] /\ last = [f \in Files |-> "none"]
    /\ code = [f \in Files |-> "none"] /\ wanted = [f \in Files |-> Nothing]
    /\ memory = 0 /\ began = [f \in Files |-> 0]
    /\ page = [f \in Files |-> Untouched] /\ stored = [f \in Files |-> FALSE]
    /\ opened = [f \in Files |-> 1] /\ version = 1

\* SQLite calls, with a buffer of its own for a read, and the boiler calls the method.
Enter(f, method, ask) ==
    /\ call[f] = "none"
    /\ call' = [call EXCEPT ![f] = method]
    /\ wanted' = [wanted EXCEPT ![f] = ask]
    /\ began' = [began EXCEPT ![f] = memory]
    /\ page' = [page EXCEPT ![f] = Untouched]
    /\ last' = [last EXCEPT ![f] = "none"]
    /\ code' = [code EXCEPT ![f] = "none"]

Answer(f, c) ==
    /\ call' = [call EXCEPT ![f] = "none"]
    /\ last' = [last EXCEPT ![f] = call[f]]
    /\ code' = [code EXCEPT ![f] = c]
    /\ began' = [began EXCEPT ![f] = 0]
    /\ UNCHANGED wanted

-----------------------------------------------------------------------------
\* pMethods is set before there is a File, and reset when there is none.
xOpen(f) ==
    /\ ~pMethods[f] /\ Enter(f, "open", Nothing)
    /\ pMethods' = [pMethods EXCEPT ![f] = TRUE]
    /\ UNCHANGED <<file_impls, opened, memVars, stored>>

Opened(f, kind) ==
    /\ call[f] = "open" /\ Answer(f, "OK")
    /\ file_impls' = [file_impls EXCEPT ![f] = kind]
    /\ opened' = [opened EXCEPT ![f] = version]
    /\ UNCHANGED <<pMethods, memVars, page, stored>>

\* A mutant leaves pMethods as main.c has set it.
NotReset(f) == pMethods
Reset(f) == [pMethods EXCEPT ![f] = FALSE]

OpenFailed(f) ==
    /\ call[f] = "open" /\ Answer(f, "IOERR")
    /\ pMethods' = Reset(f)
    /\ UNCHANGED <<file_impls, opened, memVars, page, stored>>

\* The File is forgotten whether close() succeeds or not, as SQLite does.
xClose(f) ==
    /\ pMethods[f] /\ Enter(f, "close", Nothing)
    /\ UNCHANGED <<fileVars, memVars, stored>>
Closed(f) ==
    /\ call[f] = "close" /\ \E c \in {"OK", "IOERR"} : Answer(f, c)
    /\ file_impls' = [file_impls EXCEPT ![f] = "none"]
    /\ pMethods' = [pMethods EXCEPT ![f] = FALSE]
    /\ UNCHANGED <<opened, memVars, page, stored>>

-----------------------------------------------------------------------------
\* SQLite reads.
xRead(f) ==
    /\ pMethods[f] /\ \E ask \in Asks : Enter(f, "read", ask)
    /\ UNCHANGED <<fileVars, memVars, stored>>

\* A Blob has the bytes of its time, a handle those of when it is asked, and a server,
\* or a cache on the way there, those of any time.
Given(f) ==
    CASE file_impls[f] = "blob" -> {opened[f]}
      [] file_impls[f] = "local" -> {version}
      [] file_impls[f] = "http" -> 1..version

\* The bytes of a version from an offset to an end, which is not among them.
Slice(v, from, end) ==
    LET to == IF end <= Size[v] THEN end ELSE Size[v]
    IN  [i \in 1..(to - from) |-> ByteOf(v, from + i - 1)]

\* What a method read() gives.  The end of a range is among its bytes; a server has no
\* range past the end of its file, and may answer with more than it was asked for.
Reads(f) ==
    LET offset == wanted[f].offset
        len == wanted[f].len
        last_byte == offset + len - 1
    IN  IF file_impls[f] # "http" THEN {Slice(v, offset, offset + len) : v \in Given(f)}
        ELSE {Slice(v, offset, last_byte + 1 + more) :
                more \in 0..1, v \in {v \in Given(f) : offset < Size[v]}}

\* mem8(): a view has room as long as the memory has the ArrayBuffer that it is of,
\* and is empty once it is detached.
View(buffer, len) == [of |-> buffer, len |-> len]
Room(view) == IF view.of = memory THEN view.len ELSE 0

\* set() and fill(): the bytes after the first at of a page are others.
Put(p, at, bytes) ==
    [i \in DOMAIN p |-> IF i - at \in 1..Len(bytes) THEN bytes[i - at] ELSE p[i]]
Zeros(n) == [i \in 1..n |-> Zero]

\* xRead makes its view once the bytes are there.  Mutants make it with the call, and
\* leave the rest of a short read.
EarlyReadView(f) == View(began[f], wanted[f].len)
ReadView(f) == View(memory, wanted[f].len)
NotFilled(p, read, len) == p
Filled(p, read, len) == Put(p, Len(read), Zeros(len - Len(read)))

\* set() throws for more bytes than the view has room for.  After an await, nobody
\* makes a code of that: SQLite's call ends in its middle.
ReadGiven(f) ==
    /\ call[f] = "read"
    /\ \E read \in Reads(f) :
        \/ /\ Len(read) > Room(ReadView(f))
           /\ Answer(f, "lost") /\ UNCHANGED page
        \/ /\ Len(read) <= Room(ReadView(f))
           /\ page' = [page EXCEPT ![f] = Filled(Put(@, 0, read), read, wanted[f].len)]
           /\ Answer(f, IF Len(read) < wanted[f].len THEN "SHORT_READ" ELSE "OK")
    /\ UNCHANGED <<fileVars, memVars, stored>>

\* The view of the bytes is made before the File has asked for a stream.
xWrite(f) ==
    /\ pMethods[f] /\ file_impls[f] = "local" /\ Enter(f, "write", Nothing)
    /\ stored' = [stored EXCEPT ![f] = FALSE]
    /\ UNCHANGED <<fileVars, memVars>>
WriteGiven(f) ==
    /\ call[f] = "write" /\ Answer(f, "OK")
    /\ stored' = [stored EXCEPT ![f] = Room(View(began[f], 1)) = 1]
    /\ UNCHANGED <<fileVars, memVars, page>>

\* The methods that have no data here.
xFileSize(f) ==
    /\ pMethods[f] /\ Enter(f, "size", Nothing)
    /\ UNCHANGED <<fileVars, memVars, stored>>
SizeGiven(f) ==
    /\ call[f] = "size" /\ Answer(f, "OK")
    /\ UNCHANGED <<fileVars, memVars, page, stored>>

\* A method throws, or rejects.
Failed(f) ==
    /\ call[f] \in {"read", "write", "size"} /\ Answer(f, "IOERR")
    /\ UNCHANGED <<fileVars, memVars, page, stored>>

-----------------------------------------------------------------------------
\* A malloc() of anybody's while a call is awaited.
Grow ==
    /\ memory < MaxGrowth /\ \E f \in Files : call[f] # "none"
    /\ memory' = memory + 1
    /\ UNCHANGED <<fileVars, version, call, code, last, wanted, began, page, stored>>

\* What the Files read is replaced.
Publish ==
    /\ version < MaxVersion /\ version' = version + 1
    /\ UNCHANGED <<fileVars, memory, call, code, last, wanted, began, page, stored>>

Next ==
    \/ \E f \in Files :
        \/ xOpen(f) \/ OpenFailed(f) \/ xClose(f) \/ Closed(f)
        \/ xRead(f) \/ ReadGiven(f) \/ xWrite(f) \/ WriteGiven(f)
        \/ xFileSize(f) \/ SizeGiven(f) \/ Failed(f)
        \/ \E kind \in Kinds : Opened(f, kind)
    \/ Grow \/ Publish

Spec == Init /\ [][Next]_vars

-----------------------------------------------------------------------------
(* Properties.                                                             *)

\* SQLite and JavaScript agree on the files that are open whenever no call is under
\* way, whichever calls failed, and when: an address is never closed twice, nor
\* opened over a File.
FilesMatch ==
    \A f \in Files : call[f] = "none" => (pMethods[f] <=> file_impls[f] # "none")

\* SQLite may rely on the code of a read, whatever else grew the memory or replaced the
\* file while it was awaited: the buffer has the bytes of one version of the file at the
\* offset, of a Blob that of when it was opened, zeros past its end, and nothing is
\* written past the buffer; it is short when the file is.  A call is lost only to a
\* server that answers with more than it was asked for.
IsRead(p, v, offset, len) ==
    \A i \in DOMAIN p :
        p[i] = IF i > len THEN Stale
               ELSE IF offset + i <= Size[v] THEN ByteOf(v, offset + i - 1) ELSE Zero
AnswersTrue ==
    \A f \in Files :
        /\ last[f] = "read" /\ code[f] \in {"OK", "SHORT_READ"} =>
            \E v \in IF file_impls[f] = "blob" THEN {opened[f]} ELSE 1..version :
                /\ IsRead(page[f], v, wanted[f].offset, wanted[f].len)
                /\ code[f] = "OK" <=> wanted[f].offset + wanted[f].len <= Size[v]
        /\ code[f] = "lost" => file_impls[f] = "http"

\* What SQLite reads of a File that calls itself immutable is of the version that was
\* opened.
Immutable ==
    \A f \in Files : file_impls[f] # "local" /\ last[f] = "read" /\ code[f] = "OK" =>
        page[f][1][1] = opened[f]

\* A write that is answered is in the File.
WritesStored == \A f \in Files : last[f] = "write" /\ code[f] = "OK" => stored[f]

\* Every call gets a code.
NoneLost == \A f \in Files : code[f] # "lost"

=============================================================================
