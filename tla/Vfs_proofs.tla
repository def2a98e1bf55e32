----------------------------- MODULE Vfs_proofs -----------------------------
(***************************************************************************)
(* Proofs about the two layers of a VFS: VfsGlue, for any set of files and *)
(* any number of versions, and LocalVfs, for any calls, file system and    *)
(* mounts.                                                                 *)
(***************************************************************************)
EXTENDS VfsGlue, LocalVfs, SequenceTheorems, WellFoundedInduction, TLAPS

-----------------------------------------------------------------------------
(* The glue.                                                               *)

\* What both sides know of a file at each await.  While xOpen waits SQLite has the
\* file for open and JavaScript does not; while another method does both have it.
FilesAgree ==
    \A f \in Files :
        /\ call[f] = "none" => (pMethods[f] <=> file_impls[f] # "none")
        /\ call[f] = "open" => pMethods[f] /\ file_impls[f] = "none"
        /\ call[f] \in Methods \ {"open"} => pMethods[f] /\ file_impls[f] # "none"

\* While a read waits its buffer is as it was.
PagesWait ==
    \A f \in Files : call[f] = "read" => page[f] = Untouched /\ wanted[f] \in Asks

GlueInv == TypeOK /\ FilesAgree /\ PagesWait /\ AnswersTrue

-----------------------------------------------------------------------------
LEMMA NothingUntouched ==
    Untouched \in Pages /\ Nothing \in Asks \cup {Nothing}
BY ConstantsAssumption DEF Untouched, Pages, Stale

\* Initially no file is open and no code has been given.
LEMMA InitGlue == Init => GlueInv
BY NothingUntouched, ConstantsAssumption
   DEF Init, GlueInv, TypeOK, FilesAgree, PagesWait, AnswersTrue, Kinds, Methods

\* A call that has begun has its buffer and no code, and says nothing of the last.
LEMMA Entered ==
    ASSUME TypeOK, PagesWait, AnswersTrue, NEW f \in Files, NEW method \in Methods,
           NEW ask \in Asks \cup {Nothing}, Enter(f, method, ask),
           method = "read" => ask \in Asks,
           UNCHANGED <<file_impls, opened, version, memory>>
    PROVE  /\ call' \in [Files -> Methods \cup {"none"}]
           /\ last' \in [Files -> Methods \cup {"none"}]
           /\ code' \in [Files -> {"none", "OK", "SHORT_READ", "IOERR", "lost"}]
           /\ wanted' \in [Files -> Asks \cup {Nothing}]
           /\ began' \in [Files -> 0..memory'] /\ page' \in [Files -> Pages]
           /\ PagesWait' /\ AnswersTrue'
<1> USE DEF Enter
<1>1. page' \in [Files -> Pages]
  BY NothingUntouched DEF TypeOK
<1>2. began' \in [Files -> 0..memory']
  BY DEF TypeOK
<1>3. PagesWait'
  BY DEF PagesWait, TypeOK
<1>4. AnswersTrue'
  <2> SUFFICES ASSUME NEW g \in Files
               PROVE  /\ last'[g] = "read" /\ code'[g] \in {"OK", "SHORT_READ"} =>
                        \E v \in IF file_impls[g] = "blob" THEN {opened[g]} ELSE 1..version :
                          /\ IsRead(page'[g], v, wanted'[g].offset, wanted'[g].len)
                          /\ code'[g] = "OK" <=> wanted'[g].offset + wanted'[g].len <= Size[v]
                      /\ code'[g] = "lost" => file_impls[g] = "http"
    BY DEF AnswersTrue, IsRead
  <2>1. CASE g = f BY <2>1 DEF TypeOK
  <2>2. CASE g # f
    <3>1. /\ last'[g] = last[g] /\ code'[g] = code[g] /\ page'[g] = page[g]
          /\ wanted'[g] = wanted[g]
      BY <2>2 DEF TypeOK
    <3> QED BY <3>1, Zenon DEF AnswersTrue
  <2> QED BY <2>1, <2>2
<1> QED BY <1>1, <1>2, <1>3, <1>4 DEF TypeOK

\* An answer says of its own file only; one that is not a read's says nothing of bytes.
LEMMA Answered ==
    ASSUME TypeOK, PagesWait, AnswersTrue, NEW f \in Files,
           NEW c \in {"OK", "SHORT_READ", "IOERR", "lost"}, Answer(f, c), call[f] # "none",
           \A g \in Files \ {f} : /\ page'[g] = page[g] /\ file_impls'[g] = file_impls[g]
                                  /\ opened'[g] = opened[g],
           UNCHANGED <<version, memory>>,
           /\ call[f] = "read" /\ c \in {"OK", "SHORT_READ"} =>
                \E v \in IF file_impls'[f] = "blob" THEN {opened'[f]} ELSE 1..version' :
                  /\ IsRead(page'[f], v, wanted[f].offset, wanted[f].len)
                  /\ c = "OK" <=> wanted[f].offset + wanted[f].len <= Size[v]
           /\ c = "lost" => file_impls'[f] = "http"
    PROVE  /\ call' \in [Files -> Methods \cup {"none"}]
           /\ last' \in [Files -> Methods \cup {"none"}]
           /\ code' \in [Files -> {"none", "OK", "SHORT_READ", "IOERR", "lost"}]
           /\ wanted' \in [Files -> Asks \cup {Nothing}]
           /\ began' \in [Files -> 0..memory']
           /\ PagesWait' /\ AnswersTrue'
<1> USE DEF Answer
<1>1. began' \in [Files -> 0..memory']
  BY DEF TypeOK
<1>2. PagesWait'
  BY DEF PagesWait, TypeOK
<1>3. AnswersTrue'
  <2> SUFFICES ASSUME NEW g \in Files
               PROVE  /\ last'[g] = "read" /\ code'[g] \in {"OK", "SHORT_READ"} =>
                        \E v \in IF file_impls'[g] = "blob" THEN {opened'[g]}
                                 ELSE 1..version' :
                          /\ IsRead(page'[g], v, wanted[g].offset, wanted[g].len)
                          /\ code'[g] = "OK" <=> wanted[g].offset + wanted[g].len <= Size[v]
                      /\ code'[g] = "lost" => file_impls'[g] = "http"
    BY DEF AnswersTrue, IsRead
  <2>1. CASE g = f
    <3>1. last'[g] = call[f] /\ code'[g] = c
      BY <2>1 DEF TypeOK
    <3> QED BY <2>1, <3>1, Zenon
  <2>2. CASE g # f
    <3>1. /\ last'[g] = last[g] /\ code'[g] = code[g] /\ page'[g] = page[g]
          /\ file_impls'[g] = file_impls[g] /\ opened'[g] = opened[g]
      BY <2>2 DEF TypeOK
    <3> QED BY <3>1, ZenonT(40) DEF AnswersTrue
  <2> QED BY <2>1, <2>2
<1> QED BY <1>1, <1>2, <1>3 DEF TypeOK

\* Opening and closing: the steps that change what a side has of a file.
LEMMA OpenClose ==
    ASSUME GlueInv, NEW f \in Files,
           \/ xOpen(f) \/ OpenFailed(f) \/ xClose(f) \/ Closed(f)
           \/ \E kind \in Kinds : Opened(f, kind)
    PROVE  GlueInv'
<1> USE DEF GlueInv, Reset, fileVars, memVars
<1>1. CASE xOpen(f)
  <2>1. Enter(f, "open", Nothing) BY <1>1 DEF xOpen
  <2>2. UNCHANGED <<file_impls, opened, version, memory>> BY <1>1 DEF xOpen
  <2>3. FilesAgree' BY <1>1 DEF xOpen, Enter, TypeOK, FilesAgree, Methods
  <2>4. "open" \in Methods BY DEF Methods
  <2>5. TypeOK' BY <1>1, <2>1, <2>2, <2>3, <2>4, Entered DEF xOpen, TypeOK, FilesAgree
  <2> QED BY <2>1, <2>2, <2>3, <2>4, <2>5, Entered
<1>2. CASE xClose(f)
  <2>1. Enter(f, "close", Nothing) BY <1>2 DEF xClose
  <2>2. UNCHANGED <<file_impls, opened, version, memory>> BY <1>2 DEF xClose
  <2>3. FilesAgree' BY <1>2 DEF xClose, Enter, TypeOK, FilesAgree, Methods
  <2>4. "close" \in Methods BY DEF Methods
  <2>5. TypeOK' BY <1>2, <2>1, <2>2, <2>3, <2>4, Entered DEF xClose, TypeOK, FilesAgree
  <2> QED BY <2>1, <2>2, <2>3, <2>4, <2>5, Entered
<1>3. CASE OpenFailed(f)
  <2>1. Answer(f, "IOERR") /\ call[f] = "open" BY <1>3 DEF OpenFailed
  <2>2. UNCHANGED <<file_impls, opened, page, version, memory>> BY <1>3 DEF OpenFailed
  <2>3. FilesAgree' BY <1>3 DEF OpenFailed, Answer, TypeOK, FilesAgree, Methods
  <2>4. TypeOK' BY <1>3, <2>1, <2>2, <2>3, Answered DEF OpenFailed, TypeOK, FilesAgree
  <2> QED BY <2>1, <2>2, <2>3, <2>4, Answered
<1>4. CASE Closed(f)
  <2>1. PICK c \in {"OK", "IOERR"} : Answer(f, c) BY <1>4 DEF Closed
  <2>2. call[f] = "close" /\ UNCHANGED <<opened, page, version, memory>>
    BY <1>4 DEF Closed
  <2>3. \A g \in Files \ {f} : file_impls'[g] = file_impls[g]
    BY <1>4 DEF Closed, TypeOK
  <2>4. FilesAgree' BY <1>4, <2>1 DEF Closed, Answer, TypeOK, FilesAgree, Methods
  <2>5. file_impls' \in [Files -> Kinds \cup {"none"}] BY <1>4 DEF Closed, TypeOK
  <2>6. TypeOK' BY <1>4, <2>1, <2>2, <2>3, <2>4, <2>5, Answered DEF Closed, TypeOK, FilesAgree
  <2> QED BY <2>1, <2>2, <2>3, <2>4, <2>6, Answered
<1>5. ASSUME NEW kind \in Kinds, Opened(f, kind) PROVE GlueInv'
  <2>1. Answer(f, "OK") /\ call[f] = "open" /\ UNCHANGED <<page, version, memory>>
    BY <1>5 DEF Opened
  <2>2. \A g \in Files \ {f} : file_impls'[g] = file_impls[g] /\ opened'[g] = opened[g]
    BY <1>5 DEF Opened, TypeOK
  <2>3. FilesAgree' BY <1>5 DEF Opened, Answer, TypeOK, FilesAgree, Methods, Kinds
  <2>4. /\ file_impls' \in [Files -> Kinds \cup {"none"}]
        /\ opened' \in [Files -> 1..version']
    BY <1>5, ConstantsAssumption DEF Opened, TypeOK
  <2>5. TypeOK' BY <1>5, <2>1, <2>2, <2>3, <2>4, Answered DEF Opened, TypeOK, FilesAgree
  <2> QED BY <2>1, <2>2, <2>3, <2>5, Answered
<1> QED BY <1>1, <1>2, <1>3, <1>4, <1>5

-----------------------------------------------------------------------------
\* The bytes of a slice, and how many they are.
LEMMA SliceBytes ==
    ASSUME NEW v \in 1..MaxVersion, NEW from \in Nat, NEW end \in Nat, from <= end
    PROVE  LET s == Slice(v, from, end)
           IN  /\ s \in Seq((-1..MaxVersion) \X Nat)
               /\ Len(s) = IF Size[v] <= from THEN 0
                           ELSE IF end <= Size[v] THEN end - from ELSE Size[v] - from
               /\ \A i \in 1..Len(s) : s[i] = ByteOf(v, from + i - 1)
<1> DEFINE to == IF end <= Size[v] THEN end ELSE Size[v]
           n == IF to <= from THEN 0 ELSE to - from
<1>1. Size[v] \in Nat /\ MaxVersion \in Nat
  BY ConstantsAssumption
<1>2. n \in Nat /\ to \in Nat /\ 1..(to - from) = 1..n
  BY <1>1
<1>3. Slice(v, from, end) = [i \in 1..n |-> ByteOf(v, from + i - 1)]
  BY <1>2 DEF Slice
<1>4. \A i \in 1..n : ByteOf(v, from + i - 1) \in (-1..MaxVersion) \X Nat
  BY <1>1, <1>2 DEF ByteOf
<1> HIDE DEF n
<1>5. Slice(v, from, end) \in Seq((-1..MaxVersion) \X Nat) /\ Len(Slice(v, from, end)) = n
  BY <1>2, <1>3, <1>4
<1>6. n = IF Size[v] <= from THEN 0
          ELSE IF end <= Size[v] THEN end - from ELSE Size[v] - from
  BY <1>1 DEF n
<1> QED BY <1>3, <1>5, <1>6

\* What set() and fill() leave of a page that nobody has touched.
LEMMA PageFilled ==
    ASSUME NEW read \in Seq((-1..MaxVersion) \X Nat), NEW len \in 1..MaxLen, Len(read) <= len
    PROVE  LET p == Filled(Put(Untouched, 0, read), read, len)
           IN  /\ p \in Pages
               /\ \A i \in 1..MaxLen : p[i] = IF i <= Len(read) THEN read[i]
                                              ELSE IF i <= len THEN Zero ELSE Stale
<1> DEFINE q == Put(Untouched, 0, read)
           z == Zeros(len - Len(read))
           p == Filled(q, read, len)
<1>1. MaxLen \in Nat /\ MaxVersion \in Nat
  BY ConstantsAssumption
<1>2. /\ q = [i \in 1..MaxLen |-> IF i - 0 \in 1..Len(read) THEN read[i - 0] ELSE Stale]
  BY DEF Put, Untouched
<1>3. /\ Len(z) = len - Len(read)
      /\ \A i \in 1..Len(z) : z[i] = Zero
  <2>1. len - Len(read) \in Nat BY <1>1
  <2> QED BY <2>1 DEF Zeros
<1>4. p = [i \in 1..MaxLen |-> IF i - Len(read) \in 1..Len(z) THEN z[i - Len(read)] ELSE q[i]]
  BY <1>2 DEF Put, Filled
<1> HIDE DEF q, z, p
<1>5. \A i \in 1..MaxLen : p[i] = IF i <= Len(read) THEN read[i]
                                  ELSE IF i <= len THEN Zero ELSE Stale
  BY <1>1, <1>2, <1>3, <1>4
<1>6. Zero \in (-1..MaxVersion) \X Nat /\ Stale \in (-1..MaxVersion) \X Nat
  BY <1>1 DEF Zero, Stale
<1>7. p \in Pages
  <2>1. \A i \in 1..MaxLen : p[i] \in (-1..MaxVersion) \X Nat
    <3>1. \A i \in 1..Len(read) : read[i] \in (-1..MaxVersion) \X Nat
      OBVIOUS
    <3>2. TAKE i \in 1..MaxLen
    <3>3. CASE i <= Len(read)
      <4>1. i \in 1..Len(read) BY <1>1, <3>3
      <4>2. p[i] = read[i] BY <1>5, <3>3
      <4> QED BY <3>1, <4>1, <4>2
    <3>4. CASE ~(i <= Len(read)) BY <1>1, <1>5, <1>6, <3>4
    <3> QED BY <3>3, <3>4
  <2> QED BY <1>4, <2>1 DEF Pages
<1> QED BY <1>5, <1>7 DEF p, q

\* A read, whose bytes the buffer gets: those of a version are at their places, and
\* the view that they go to, made when they are there, has room for what was asked.
LEMMA Reading ==
    ASSUME GlueInv, NEW f \in Files, xRead(f) \/ ReadGiven(f)
    PROVE  GlueInv'
<1> USE DEF GlueInv, fileVars, memVars
<1>1. CASE xRead(f)
  <2>1. PICK ask \in Asks : Enter(f, "read", ask) BY <1>1 DEF xRead
  <2>2. UNCHANGED <<file_impls, opened, version, memory>> BY <1>1 DEF xRead
  <2>3. FilesAgree' BY <1>1, <2>1 DEF xRead, Enter, TypeOK, FilesAgree, Methods
  <2>4. "read" \in Methods BY DEF Methods
  <2>5. TypeOK' BY <1>1, <2>1, <2>2, <2>3, <2>4, Entered DEF xRead, TypeOK, FilesAgree
  <2> QED BY <2>1, <2>2, <2>3, <2>4, <2>5, Entered
<1>2. CASE ReadGiven(f)
  <2> DEFINE offset == wanted[f].offset
             len == wanted[f].len
             OfVersion(v, p, c) == /\ IsRead(p, v, offset, len)
                                   /\ c = "OK" <=> offset + len <= Size[v]
  <2>1. PICK read \in Reads(f) :
          \/ /\ Len(read) > Room(ReadView(f)) /\ Answer(f, "lost") /\ UNCHANGED page
          \/ /\ Len(read) <= Room(ReadView(f))
             /\ page' = [page EXCEPT ![f] = Filled(Put(page[f], 0, read), read, len)]
             /\ Answer(f, IF Len(read) < len THEN "SHORT_READ" ELSE "OK")
    BY <1>2, Zenon DEF ReadGiven
  <2>2. call[f] = "read" /\ UNCHANGED <<fileVars, memVars, stored>>
    BY <1>2 DEF ReadGiven
  <2>3. page[f] = Untouched /\ wanted[f] \in Asks
    BY <2>2 DEF PagesWait
  <2>4. offset \in Nat /\ len \in 1..MaxLen /\ MaxLen \in Nat /\ MaxVersion \in Nat
    BY <2>3, ConstantsAssumption DEF Asks
  <2>5. Room(ReadView(f)) = len
    BY DEF Room, ReadView, View
  <2>6. file_impls[f] \in Kinds
    BY <2>2 DEF TypeOK, FilesAgree, Methods
  <2>7. /\ Given(f) \subseteq 1..version
        /\ file_impls[f] = "blob" => Given(f) = {opened[f]}
    BY <2>6 DEF Given, TypeOK, Kinds
  <2>8. \E v \in Given(f), more \in 0..1 :
          /\ read = Slice(v, offset, offset + len + more)
          /\ file_impls[f] # "http" => more = 0
    <3>1. CASE file_impls[f] # "http"
      <4>1. PICK v \in Given(f) : read = Slice(v, offset, offset + len)
        BY <2>1, <3>1 DEF Reads
      <4>2. offset + len = offset + len + 0 BY <2>4
      <4> QED BY <4>1, <4>2
    <3>2. CASE file_impls[f] = "http"
      <4>1. PICK more \in 0..1, v \in Given(f) :
              read = Slice(v, offset, offset + len - 1 + 1 + more)
        BY <2>1, <3>2 DEF Reads
      <4>2. offset + len - 1 + 1 + more = offset + len + more BY <2>4
      <4> QED BY <3>2, <4>1, <4>2
    <3> QED BY <3>1, <3>2
  <2>9. PICK v \in Given(f), more \in 0..1 :
          /\ read = Slice(v, offset, offset + len + more)
          /\ file_impls[f] # "http" => more = 0
    BY <2>8
  <2>10. v \in 1..MaxVersion /\ v \in 1..version /\ Size[v] \in Nat
    BY <2>4, <2>7, <2>9, ConstantsAssumption DEF TypeOK
  <2>11. offset + len + more \in Nat /\ offset <= offset + len + more
    BY <2>4
  <2>12. /\ read \in Seq((-1..MaxVersion) \X Nat)
         /\ Len(read) = IF Size[v] <= offset THEN 0
                        ELSE IF offset + len + more <= Size[v] THEN len + more
                        ELSE Size[v] - offset
         /\ \A i \in 1..Len(read) : read[i] = ByteOf(v, offset + i - 1)
    <3> DEFINE end == offset + len + more
    <3>1. end \in Nat /\ offset \in Nat /\ offset <= end /\ end - offset = len + more
      BY <2>4
    <3>2. read = Slice(v, offset, end)
      BY <2>9
    <3> HIDE DEF end, offset, len
    <3>3. /\ read \in Seq((-1..MaxVersion) \X Nat)
          /\ Len(read) = IF Size[v] <= offset THEN 0
                         ELSE IF end <= Size[v] THEN end - offset ELSE Size[v] - offset
          /\ \A i \in 1..Len(read) : read[i] = ByteOf(v, offset + i - 1)
      BY <2>10, <3>1, <3>2, SliceBytes
    <3> QED BY <3>1, <3>3 DEF end
  <2> HIDE DEF offset, len
  <2>13. FilesAgree'
    <3>1. call' = [call EXCEPT ![f] = "none"]
      BY <2>1 DEF Answer
    <3> QED BY <2>2, <3>1 DEF TypeOK, FilesAgree, Methods
  <2>14. \A g \in Files \ {f} : /\ page'[g] = page[g] /\ file_impls'[g] = file_impls[g]
                               /\ opened'[g] = opened[g]
    BY <2>1, <2>2 DEF TypeOK
  <2>15. CASE /\ Len(read) > Room(ReadView(f)) /\ Answer(f, "lost") /\ UNCHANGED page
    <3>1. file_impls'[f] = "http"
      <4>1. Len(read) > len BY <2>5, <2>15
      <4>2. more = 0 => Len(read) <= len BY <2>4, <2>10, <2>12
      <4>3. Len(read) \in Nat BY <2>12
      <4> QED BY <2>2, <2>4, <2>9, <4>1, <4>2, <4>3
    <3>2. TypeOK'
      BY <2>2, <2>13, <2>14, <2>15, <3>1, Answered DEF TypeOK, FilesAgree
    <3> QED BY <2>2, <2>13, <2>14, <2>15, <3>1, <3>2, Answered
  <2>16. CASE /\ Len(read) <= Room(ReadView(f))
              /\ page' = [page EXCEPT ![f] = Filled(Put(page[f], 0, read), read, len)]
              /\ Answer(f, IF Len(read) < len THEN "SHORT_READ" ELSE "OK")
    <3> DEFINE c == IF Len(read) < len THEN "SHORT_READ" ELSE "OK"
               p == Filled(Put(Untouched, 0, read), read, len)
    <3>1. /\ p \in Pages
          /\ \A i \in 1..MaxLen : p[i] = IF i <= Len(read) THEN read[i]
                                         ELSE IF i <= len THEN Zero ELSE Stale
      BY <2>4, <2>5, <2>12, <2>16, PageFilled
    <3>2. page' = [page EXCEPT ![f] = p]
      BY <2>3, <2>16
    <3> HIDE DEF p
    <3>3. page'[f] = p /\ page' \in [Files -> Pages]
      BY <3>1, <3>2 DEF TypeOK
    <3>4. Len(read) = IF Size[v] <= offset THEN 0
                      ELSE IF offset + len <= Size[v] THEN len ELSE Size[v] - offset
      BY <2>4, <2>5, <2>9, <2>10, <2>12, <2>16, SMTT(40)
    <3>5. IsRead(p, v, offset, len)
      <4>1. DOMAIN p = 1..MaxLen BY <3>1 DEF Pages
      <4> SUFFICES ASSUME NEW i \in 1..MaxLen
                   PROVE  p[i] = IF i > len THEN Stale
                                 ELSE IF offset + i <= Size[v] THEN ByteOf(v, offset + i - 1)
                                 ELSE Zero
        BY <4>1 DEF IsRead
      <4>2. i <= Len(read) <=> i <= len /\ offset + i <= Size[v]
        BY <2>4, <2>10, <3>4
      <4>3. i <= Len(read) => p[i] = ByteOf(v, offset + i - 1)
        BY <2>4, <2>12, <3>1
      <4> QED BY <2>4, <3>1, <4>2, <4>3
    <3>6. c = "OK" <=> offset + len <= Size[v]
      BY <2>4, <2>10, <3>4
    <3>7. c \in {"OK", "SHORT_READ"} /\ Answer(f, c)
      BY <2>16
    <3> HIDE DEF c
    <3>8. v \in IF file_impls'[f] = "blob" THEN {opened'[f]} ELSE 1..version'
      BY <2>2, <2>7, <2>9, <2>10
    <3>9. \E w \in IF file_impls'[f] = "blob" THEN {opened'[f]} ELSE 1..version' :
            /\ IsRead(page'[f], w, wanted[f].offset, wanted[f].len)
            /\ c = "OK" <=> wanted[f].offset + wanted[f].len <= Size[w]
      BY <3>3, <3>5, <3>6, <3>8 DEF offset, len
    <3>10. /\ c \in {"OK", "SHORT_READ", "IOERR", "lost"} /\ c # "lost" /\ call[f] # "none"
           /\ UNCHANGED <<version, memory>>
      BY <2>2, <3>7
    <3>11. /\ call' \in [Files -> Methods \cup {"none"}]
           /\ last' \in [Files -> Methods \cup {"none"}]
           /\ code' \in [Files -> {"none", "OK", "SHORT_READ", "IOERR", "lost"}]
           /\ wanted' \in [Files -> Asks \cup {Nothing}]
           /\ began' \in [Files -> 0..memory']
           /\ PagesWait' /\ AnswersTrue'
      BY <2>14, <3>7, <3>9, <3>10, Answered
    <3>12. TypeOK'
      BY <2>2, <2>13, <3>3, <3>11 DEF TypeOK, FilesAgree
    <3> QED BY <2>13, <3>11, <3>12
  <2> QED BY <2>1, <2>15, <2>16
<1> QED BY <1>1, <1>2

\* The methods that leave the buffer alone.
LEMMA Others ==
    ASSUME GlueInv, NEW f \in Files,
           xWrite(f) \/ WriteGiven(f) \/ xFileSize(f) \/ SizeGiven(f) \/ Failed(f)
    PROVE  GlueInv'
<1> USE DEF GlueInv, fileVars, memVars
<1>1. stored' \in [Files -> BOOLEAN]
  <2>1. \E b \in BOOLEAN : stored' = [stored EXCEPT ![f] = b] \/ stored' = stored
    BY DEF xWrite, WriteGiven, xFileSize, SizeGiven, Failed
  <2> QED BY <2>1 DEF TypeOK
<1>2. UNCHANGED <<file_impls, opened, pMethods, version, memory>>
  BY DEF xWrite, WriteGiven, xFileSize, SizeGiven, Failed
<1>3. CASE xWrite(f) \/ xFileSize(f)
  <2>1. PICK method \in {"write", "size"} : Enter(f, method, Nothing)
    BY <1>3 DEF xWrite, xFileSize
  <2>2. pMethods[f] BY <1>3 DEF xWrite, xFileSize
  <2>3. method \in Methods /\ method # "read" BY DEF Methods
  <2>4. FilesAgree' BY <1>2, <2>1, <2>2 DEF Enter, TypeOK, FilesAgree, Methods
  <2>5. TypeOK' BY <1>1, <1>2, <2>1, <2>3, <2>4, Entered DEF TypeOK, FilesAgree
  <2> QED BY <1>2, <2>1, <2>3, <2>4, <2>5, Entered
<1>4. CASE WriteGiven(f) \/ SizeGiven(f) \/ Failed(f)
  <2>1. PICK c \in {"OK", "IOERR"} : Answer(f, c)
    BY <1>4 DEF WriteGiven, SizeGiven, Failed
  <2>2. call[f] \in {"read", "write", "size"} /\ (call[f] = "read" => Failed(f))
    BY <1>4 DEF WriteGiven, SizeGiven, Failed
  <2>3. UNCHANGED page BY <1>4 DEF WriteGiven, SizeGiven, Failed
  <2>4. FilesAgree' BY <1>2, <2>1, <2>2 DEF Answer, TypeOK, FilesAgree, Methods
  <2>5. CASE call[f] # "read"
    <3>1. TypeOK' BY <1>1, <1>2, <2>1, <2>2, <2>3, <2>4, <2>5, Answered DEF TypeOK, FilesAgree
    <3> QED BY <1>2, <2>1, <2>2, <2>3, <2>4, <2>5, <3>1, Answered
  <2>6. CASE Failed(f)
    <3>1. Answer(f, "IOERR") BY <2>6 DEF Failed
    <3>2. TypeOK' BY <1>1, <1>2, <3>1, <2>2, <2>3, <2>4, Answered DEF TypeOK, FilesAgree
    <3> QED BY <1>2, <3>1, <2>2, <2>3, <2>4, <3>2, Answered
  <2> QED BY <2>2, <2>5, <2>6
<1> QED BY <1>3, <1>4

\* The memory grows, which no view survives, and what the Files read is replaced.
LEMMA GrowPublish == ASSUME GlueInv, Grow \/ Publish PROVE GlueInv'
<1> USE DEF GlueInv, fileVars
<1>1. CASE Grow
  <2>1. memory' \in 0..MaxGrowth /\ memory' >= memory
    BY <1>1, ConstantsAssumption DEF Grow, TypeOK
  <2>2. TypeOK' BY <1>1, <2>1 DEF Grow, TypeOK
  <2>3. FilesAgree' BY <1>1 DEF Grow, FilesAgree
  <2>4. PagesWait' BY <1>1 DEF Grow, PagesWait
  <2>5. AnswersTrue' BY <1>1 DEF Grow, AnswersTrue, IsRead
  <2> QED BY <2>2, <2>3, <2>4, <2>5
<1>2. CASE Publish
  <2>1. version' \in 1..MaxVersion /\ version' >= version
    BY <1>2, ConstantsAssumption DEF Publish, TypeOK
  <2>2. TypeOK' BY <1>2, <2>1 DEF Publish, TypeOK
  <2>3. FilesAgree' BY <1>2 DEF Publish, FilesAgree
  <2>4. PagesWait' BY <1>2 DEF Publish, PagesWait
  <2>5. AnswersTrue'
    <3>1. UNCHANGED <<file_impls, opened, page, wanted, last, code>> BY <1>2 DEF Publish
    <3>2. 1..version \subseteq 1..version' BY <2>1 DEF TypeOK
    <3> SUFFICES ASSUME NEW g \in Files
                 PROVE  /\ last[g] = "read" /\ code[g] \in {"OK", "SHORT_READ"} =>
                          \E v \in IF file_impls[g] = "blob" THEN {opened[g]}
                                   ELSE 1..version' :
                            /\ IsRead(page[g], v, wanted[g].offset, wanted[g].len)
                            /\ code[g] = "OK" <=> wanted[g].offset + wanted[g].len <= Size[v]
                        /\ code[g] = "lost" => file_impls[g] = "http"
      BY <3>1 DEF AnswersTrue, IsRead
    <3> QED BY <3>2, Zenon DEF AnswersTrue
  <2> QED BY <2>2, <2>3, <2>4, <2>5
<1> QED BY <1>1, <1>2

-----------------------------------------------------------------------------
\* The inductive invariant of the glue: what both sides know of each file at every
\* await, and what the last code says of the buffer.
THEOREM GlueInvariant == Spec => []GlueInv
<1>1. GlueInv /\ [Next]_vars => GlueInv'
  <2> SUFFICES ASSUME GlueInv, [Next]_vars PROVE GlueInv'
    OBVIOUS
  <2>1. ASSUME NEW f \in Files,
               xOpen(f) \/ OpenFailed(f) \/ xClose(f) \/ Closed(f)
               \/ \E kind \in Kinds : Opened(f, kind)
        PROVE  GlueInv'
    BY <2>1, OpenClose DEF Kinds
  <2>2. ASSUME NEW f \in Files, xRead(f) \/ ReadGiven(f) PROVE GlueInv'
    BY <2>2, Reading
  <2>3. ASSUME NEW f \in Files,
               xWrite(f) \/ WriteGiven(f) \/ xFileSize(f) \/ SizeGiven(f) \/ Failed(f)
        PROVE  GlueInv'
    BY <2>3, Others
  <2>4. CASE Grow \/ Publish BY <2>4, GrowPublish
  <2>5. CASE UNCHANGED vars
    BY <2>5 DEF vars, fileVars, memVars, GlueInv, TypeOK, FilesAgree, PagesWait, AnswersTrue, IsRead
  <2> QED BY <2>1, <2>2, <2>3, <2>4, <2>5 DEF Next
<1> QED BY InitGlue, <1>1, PTL DEF Spec

\* Every variable keeps its type, and JavaScript knows the File of each method that
\* is awaited (file_boiler never answers for want of one).
THEOREM TypeCorrect == Spec => []TypeOK
<1>1. GlueInv => TypeOK BY DEF GlueInv
<1> QED BY <1>1, GlueInvariant, PTL

\* SQLite's pMethods and file_impls agree whenever no call is under way, whichever
\* calls of custom.js failed.
THEOREM FilesAlwaysMatch == Spec => []FilesMatch
<1>1. GlueInv => FilesMatch BY DEF GlueInv, FilesAgree, FilesMatch
<1> QED BY <1>1, GlueInvariant, PTL

\* The code of a read is true of the buffer, which has the bytes of one version of the
\* file where SQLite asked for them and zeros past its end, for any sizes and offsets,
\* however late the File answered and however often the memory grew meanwhile; only a
\* server that answers with more than it was asked for can lose a call.
THEOREM CodesAreTrue == Spec => []AnswersTrue
<1>1. GlueInv => AnswersTrue BY DEF GlueInv
<1> QED BY <1>1, GlueInvariant, PTL

-----------------------------------------------------------------------------
(* The Local VFS.                                                          *)

\* The directories of a table that are above a pathname, and the deepest of them.
Above(T, p) == {m \in T : m.handle \in Dirs /\ KeyBelow(m.key, p)}
Deepest(m, T, p) ==
    m \in Above(T, p) /\ \A n \in Above(T, p) : Len(m.key) >= Len(n.key)

\* What the calls of mount() among C are to mount, and what a call will find mounted
\* at its turn.
Queued(req, C) == {Mounting(req[d]) : d \in {d \in C : req[d].op = "mount"}}
Table(c) == mounts \cup Queued(request, Before(c))

\* What a lookup of p will find in the table T, but for the files, is among K.
Promised(p, T, K) ==
    /\ Above(T, p) = {} => NoFile \in K
    /\ \A m \in T : Deepest(m, T, p) /\ Len(p) > Len(m.key) + 1 => Unsaid \in K

\* Each handle that was mounted is in the store or will be, unless there is none; and a
\* call that waits has already known the moment for which it will have looked.
Awaited ==
    db # "failed" =>
        /\ asked = mounts \cup Queued(request, {d \in Calls : pc[d] = "queued"})
        /\ \A c \in Calls : pc[c] = "queued" /\ request[c].op \in Ops =>
              Promised(request[c].path, Table(c), possible[c])

\* A lookup that walks has one name left below the deepest directory there is, or
\* nothing is said of it.
OneNameLeft(c, m, p) ==
    /\ m.handle \in Dirs /\ KeyBelow(m.key, p) /\ Len(p) = Len(m.key) + 1
    /\ IF pc[c] = "walking" THEN handle[c] = m.handle /\ path[c] = <<Last(p)>>
       ELSE handle[c] = Append(m.handle, Last(p))
Walking(c) ==
    pc[c] \in {"walking", "removing"} =>
        /\ request[c].op \in Ops
        /\ Unsaid \in possible[c] \/ \E m \in asked : OneNameLeft(c, m, request[c].path)

AnswerHolds(c) ==
    pc[c] = "answered" /\ request[c].op # "mount" =>
        answer[c] = Unsaid \/ possible[c] \cap {answer[c], Unsaid} # {}

LocalInv == LocalTypeOK /\ Awaited /\ \A c \in Calls : Walking(c) /\ AnswerHolds(c)

Paths == Seq(Names \cup {""})

-----------------------------------------------------------------------------
(* Pathnames and keys.                                                     *)

\* A set of natural numbers has a least one.
LEMMA Least ==
    ASSUME NEW T, T \subseteq Nat, T # {}
    PROVE  \E x \in T : \A y \in T : x <= y
<1> DEFINE R == {ss \in Nat \X Nat : ss[1] < ss[2]}
<1>1. OpToRel(<, Nat) = R
  BY DEF OpToRel
<1>2. IsWellFoundedOn(R, Nat)
  BY <1>1, NatLessThanWellFounded, Zenon
<1>3. PICK x \in T : \A y \in T : ~ (<<y, x>> \in R)
  BY <1>2, WFMin, Zenon
<1>4. ASSUME NEW y \in T PROVE x <= y
  <2>1. x \in Nat /\ y \in Nat /\ ~(y < x)
    BY <1>3
  <2> QED BY <2>1
<1> QED BY <1>4

\* A part of a sequence.
LEMMA PartFacts ==
    ASSUME NEW S, NEW s \in Seq(S), NEW a \in Nat, NEW z \in Nat, 1 <= a, z <= Len(s)
    PROVE  /\ SubSeq(s, a, z) \in Seq(S)
           /\ Len(SubSeq(s, a, z)) = IF a <= z THEN z - a + 1 ELSE 0
           /\ \A i \in 1..z - a + 1 : SubSeq(s, a, z)[i] = s[a + i - 1]
<1>1. Len(s) \in Nat
  BY LenProperties
<1>2. ASSUME NEW i \in a..z PROVE s[i] \in S
  <2>1. i \in 1..Len(s)
    BY <1>1
  <2> QED BY <2>1, ElementOfSeq
<1>3. a \in Int /\ z \in Int
  OBVIOUS
<1> QED BY <1>2, <1>3, SubSeqProperties

\* A key above a pathname is shorter, and has its names.
LEMMA PrefixFacts ==
    ASSUME NEW p \in Paths, NEW k \in Paths, KeyBelow(k, p)
    PROVE  /\ Len(k) \in Nat /\ Len(p) \in Nat /\ Len(k) < Len(p)
           /\ \A i \in 1..Len(k) : k[i] = p[i]
<1> DEFINE n == Len(k)
           S == Names \cup {""}
<1>1. n \in Nat /\ Len(p) \in Nat /\ n <= Len(p) /\ p \in Seq(S)
  BY LenProperties DEF KeyBelow, IsStrictPrefix, IsPrefix, Paths
<1>2. k = SubSeq(k, 1, n) /\ SubSeq(k, 1, n) = SubSeq(p, 1, n) /\ k # p
  BY SubSeqFull DEF KeyBelow, IsStrictPrefix, IsPrefix, Paths
<1>3. n # Len(p)
  BY <1>2, SubSeqFull DEF Paths
<1>4. \A i \in 1..n : SubSeq(p, 1, n)[i] = p[i]
  <2> HIDE DEF n, S
  <2>1. \A i \in 1..n - 1 + 1 : SubSeq(p, 1, n)[i] = p[1 + i - 1]
    BY <1>1, PartFacts
  <2> QED BY <1>1, <2>1
<1>5. k = SubSeq(p, 1, n)
  BY <1>2
<1>6. \A i \in 1..n : k[i] = p[i]
  BY <1>4, <1>5, Zenon
<1>7. n < Len(p)
  <2>1. n \in Nat /\ Len(p) \in Nat /\ n <= Len(p)
    BY <1>1
  <2> HIDE DEF n
  <2> QED BY <1>3, <2>1
<1> QED BY <1>1, <1>6, <1>7

\* Two keys of one length above a pathname are the same.
LEMMA SamePrefix ==
    ASSUME NEW p \in Paths, NEW k \in Paths, NEW l \in Paths,
           KeyBelow(k, p), KeyBelow(l, p), Len(k) = Len(l)
    PROVE  k = l
<1>1. \A i \in 1..Len(k) : k[i] = l[i]
  BY PrefixFacts
<1> QED BY <1>1, SeqEqual DEF Paths

\* What a pathname has below a key.
LEMMA RestFacts ==
    ASSUME NEW p \in Paths, NEW k \in Paths, KeyBelow(k, p)
    PROVE  LET rest == SubSeq(p, Len(k) + 1, Len(p)) IN
           /\ rest \in Paths /\ Len(rest) = Len(p) - Len(k) /\ rest # <<>>
           /\ Len(p) = Len(k) + 1 => rest = <<Last(p)>>
<1> DEFINE a == Len(k) + 1
           z == Len(p)
           S == Names \cup {""}
<1>1. a \in Nat /\ z \in Nat /\ 1 <= a /\ a <= z /\ Len(p) - Len(k) = z - a + 1
  BY PrefixFacts
<1>2. Len(p) = z /\ p \in Seq(S) /\ Paths = Seq(S) /\ Last(p) = p[z]
  BY DEF Paths, Last
<1>3. z \in 1..Len(p)
  BY <1>1
<1>4. p[z] \in S
  BY <1>2, <1>3, ElementOfSeq
<1> HIDE DEF a, z, S
<1>5. /\ SubSeq(p, a, z) \in Seq(S) /\ Len(SubSeq(p, a, z)) = z - a + 1
      /\ \A i \in 1..z - a + 1 : SubSeq(p, a, z)[i] = p[a + i - 1]
  BY <1>1, <1>2, PartFacts
<1>6. SubSeq(p, a, z) # <<>>
  <2>1. Len(SubSeq(p, a, z)) # 0
    BY <1>1, <1>5
  <2>2. Len(<<>>) = 0
    OBVIOUS
  <2> QED BY <2>1, <2>2, Zenon
<1>7. ASSUME z = a PROVE SubSeq(p, a, z) = <<Last(p)>>
  <2> DEFINE t == SubSeq(p, a, z)
             u == <<p[z]>>
  <2>1. t \in Seq(S) /\ Len(t) = 1 /\ t[1] = p[z]
    BY <1>1, <1>5, <1>7
  <2>2. u \in Seq(S) /\ Len(u) = 1 /\ u[1] = p[z]
    BY <1>4
  <2> HIDE DEF t, u
  <2>3. Len(t) = Len(u) /\ \A i \in 1..Len(t) : t[i] = u[i]
    BY <2>1, <2>2
  <2>4. t = u
    BY <2>1, <2>2, <2>3, SeqEqual
  <2> QED BY <1>2, <2>4 DEF t, u
<1>8. SubSeq(p, a, z) = SubSeq(p, Len(k) + 1, Len(p)) /\ (Len(p) = Len(k) + 1 => z = a)
  BY DEF a, z
<1> QED BY <1>1, <1>2, <1>5, <1>6, <1>7, <1>8

\* Of the directories above a pathname one is the deepest.
LEMMA SomeDeepest ==
    ASSUME NEW p \in Paths, NEW T, T \subseteq Mountable, Above(T, p) # {}
    PROVE  \E m : Deepest(m, T, p)
<1> DEFINE left == {Len(p) - Len(m.key) : m \in Above(T, p)}
<1>1. \A m \in Above(T, p) : Len(m.key) \in Nat /\ Len(p) \in Nat /\ Len(m.key) < Len(p)
  <2> SUFFICES ASSUME NEW m \in Above(T, p)
               PROVE  Len(m.key) \in Nat /\ Len(p) \in Nat /\ Len(m.key) < Len(p)
    OBVIOUS
  <2>1. m.key \in Paths /\ KeyBelow(m.key, p)
    BY LocalAssumption DEF Above, Paths
  <2> QED BY <2>1, PrefixFacts
<1>2. left \subseteq Nat /\ left # {}
  BY <1>1
<1>3. PICK x \in left : \A y \in left : x <= y
  BY <1>2, Least
<1>4. PICK m \in Above(T, p) : x = Len(p) - Len(m.key)
  OBVIOUS
<1>5. ASSUME NEW n \in Above(T, p) PROVE Len(m.key) >= Len(n.key)
  <2>1. Len(p) - Len(m.key) <= Len(p) - Len(n.key)
    BY <1>3, <1>4
  <2> QED BY <1>1, <2>1
<1> QED BY <1>5 DEF Deepest

\* Only one is: no two handles are mounted at one key.
LEMMA OneDeepest ==
    ASSUME NEW p \in Paths, NEW T, T \subseteq Mountable, NEW m, Deepest(m, T, p),
           NEW n, Deepest(n, T, p)
    PROVE  m = n
<1>1. m \in Mountable /\ n \in Mountable /\ KeyBelow(m.key, p) /\ KeyBelow(n.key, p)
  BY DEF Deepest, Above
<1>2. m.key \in Paths /\ n.key \in Paths
  BY <1>1, LocalAssumption DEF Paths
<1>3. Len(m.key) \in Nat /\ Len(n.key) \in Nat
  BY <1>1, <1>2, PrefixFacts
<1>4. Len(m.key) = Len(n.key)
  <2>1. Len(m.key) >= Len(n.key) /\ Len(n.key) >= Len(m.key)
    BY DEF Deepest
  <2> QED BY <1>3, <2>1
<1>5. m.key = n.key
  BY <1>1, <1>2, <1>4, SamePrefix
<1> QED BY <1>1, <1>5, LocalAssumption

\* A directory with one name left of the pathname is the deepest.
LEMMA LastIsDeepest ==
    ASSUME NEW p \in Paths, NEW T, T \subseteq Mountable, NEW m \in Above(T, p),
           Len(p) = Len(m.key) + 1
    PROVE  Deepest(m, T, p)
<1>1. ASSUME NEW n \in Above(T, p) PROVE Len(m.key) >= Len(n.key)
  <2>1. m.key \in Paths /\ n.key \in Paths /\ KeyBelow(m.key, p) /\ KeyBelow(n.key, p)
    BY LocalAssumption DEF Above, Paths
  <2>2. Len(m.key) \in Nat /\ Len(n.key) \in Nat /\ Len(p) \in Nat /\ Len(n.key) < Len(p)
    BY <2>1, PrefixFacts
  <2> QED BY <2>2
<1> QED BY <1>1 DEF Deepest

\* The files that a pathname names, by the deepest directory above it.
LEMMA NamedFacts ==
    ASSUME NEW p \in Paths, NEW T, T \subseteq Mountable, NEW fs
    PROVE  /\ Above(T, p) = {} => Named(p, T, fs) = {NoFile}
           /\ \A m : Deepest(m, T, p) /\ Len(p) > Len(m.key) + 1 => Unsaid \in Named(p, T, fs)
           /\ \A m : Deepest(m, T, p) /\ Len(p) = Len(m.key) + 1 =>
                Named(p, T, fs) = {IF Append(m.handle, Last(p)) \in fs
                                   THEN Append(m.handle, Last(p)) ELSE NoFile}
           /\ Named(p, T, fs) \subseteq fs \cup {NoFile, Unsaid}
<1> DEFINE deepest == CHOOSE m \in Above(T, p) :
                        \A n \in Above(T, p) : Len(m.key) >= Len(n.key)
           below == SubSeq(p, Len(deepest.key) + 1, Len(p))
           place == deepest.handle \o below
<1>1. Named(p, T, fs) =
        IF Above(T, p) = {} THEN {NoFile}
        ELSE {IF place \in fs THEN place ELSE NoFile} \cup
             IF Len(below) > 1 THEN {Unsaid} ELSE {}
  BY DEF Named, Above
<1>2. ASSUME NEW m, Deepest(m, T, p) PROVE deepest = m /\ Above(T, p) # {}
  <2>1. m \in Above(T, p) /\ \A n \in Above(T, p) : Len(m.key) >= Len(n.key)
    BY <1>2 DEF Deepest
  <2>2. Deepest(deepest, T, p)
    <3>1. deepest \in Above(T, p) /\ \A n \in Above(T, p) : Len(deepest.key) >= Len(n.key)
      BY <2>1, Zenon
    <3> QED BY <3>1, Zenon DEF Deepest
  <2> HIDE DEF deepest
  <2> QED BY <1>2, <2>1, <2>2, OneDeepest
<1> HIDE DEF deepest
<1>3. ASSUME NEW m, Deepest(m, T, p)
      PROVE  /\ m.key \in Paths /\ KeyBelow(m.key, p) /\ m.handle \in Dirs \cup Places
             /\ m.handle \in Dirs /\ Len(below) = Len(p) - Len(m.key) /\ below \in Paths
             /\ Len(p) = Len(m.key) + 1 => below = <<Last(p)>>
             /\ Len(m.key) \in Nat /\ Len(p) \in Nat
  <2>1. m.key \in Paths /\ KeyBelow(m.key, p) /\ m.handle \in Dirs \cup Places /\ m.handle \in Dirs
    BY <1>3, LocalAssumption DEF Above, Deepest, Paths
  <2>2. below = SubSeq(p, Len(m.key) + 1, Len(p))
    BY <1>2, <1>3
  <2> HIDE DEF below
  <2> QED BY <2>1, <2>2, RestFacts, PrefixFacts
<1>4. ASSUME NEW m, Deepest(m, T, p), Len(p) > Len(m.key) + 1 PROVE Unsaid \in Named(p, T, fs)
  <2>1. Len(below) = Len(p) - Len(m.key) /\ Len(m.key) \in Nat /\ Len(p) \in Nat
    BY <1>3, <1>4
  <2> HIDE DEF below
  <2>2. Len(below) > 1
    BY <1>4, <2>1
  <2> QED BY <1>1, <1>2, <1>4, <2>2
<1>5. ASSUME NEW m, Deepest(m, T, p), Len(p) = Len(m.key) + 1
      PROVE  Named(p, T, fs) = {IF Append(m.handle, Last(p)) \in fs
                                THEN Append(m.handle, Last(p)) ELSE NoFile}
  <2>1. below = <<Last(p)>> /\ Len(below) = Len(p) - Len(m.key)
        /\ Len(m.key) \in Nat /\ Len(p) \in Nat /\ m.handle \in Dirs
    BY <1>3, <1>5
  <2>2. Last(p) \in Names \cup {""}
    <3>1. Len(p) \in 1..Len(p)
      BY <1>5, <2>1
    <3> QED BY <3>1, ElementOfSeq DEF Last, Paths
  <2>3. m.handle \in Seq(Names \cup {""})
    BY <2>1, LocalAssumption, SeqMonotonic
  <2>4. place = Append(m.handle, Last(p))
    BY <1>2, <1>5, <2>1, <2>2, <2>3, AppendIsConcat
  <2> HIDE DEF below, place
  <2>5. ~(Len(below) > 1)
    BY <1>5, <2>1
  <2> QED BY <1>1, <1>2, <1>5, <2>4, <2>5
<1>6. Named(p, T, fs) \subseteq fs \cup {NoFile, Unsaid}
  <2> HIDE DEF below, place
  <2> QED BY <1>1
<1> QED BY <1>1, <1>4, <1>5, <1>6

-----------------------------------------------------------------------------
(* The queue.                                                              *)

\* The calls of a queue, and those of them that are ahead of a call.
Elements(q) == {q[i] : i \in 1..Len(q)}
Distinct(q) == \A i, j \in 1..Len(q) : q[i] = q[j] => i = j
Ahead(q, c) == {q[i] : i \in {i \in 1..Len(q) : \E j \in 1..Len(q) : i < j /\ q[j] = c}}

\* An element that is taken away leaves a gap, which the later ones close.
LEMMA RemoveFacts ==
    ASSUME NEW S, NEW q \in Seq(S), NEW k \in 1..Len(q), NEW r, r = RemoveAt(q, k)
    PROVE  /\ r \in Seq(S) /\ Len(q) \in Nat /\ Len(r) = Len(q) - 1
           /\ \A i \in 1..Len(r) : r[i] = IF i < k THEN q[i] ELSE q[i + 1]
<1> DEFINE n == Len(q)
           z == k - 1
           a == k + 1
           low == SubSeq(q, 1, z)
           high == SubSeq(q, a, n)
<1>1. n \in Nat /\ k \in Nat /\ 1 <= k /\ k <= n /\ z \in Nat /\ a \in Nat /\ z <= n /\ 1 <= a
  <2>1. n \in Nat
    BY LenProperties
  <2> QED BY <2>1
<1>2. Len(q) = n /\ r = low \o high /\ z = k - 1 /\ a = k + 1
  BY DEF RemoveAt
<1> HIDE DEF n, z, a
<1>3. low \in Seq(S) /\ Len(low) = k - 1 /\ \A i \in 1..k - 1 : low[i] = q[i]
  <2>1. /\ low \in Seq(S) /\ Len(low) = IF 1 <= z THEN z - 1 + 1 ELSE 0
        /\ \A i \in 1..z - 1 + 1 : low[i] = q[1 + i - 1]
    BY <1>1, <1>2, PartFacts
  <2> HIDE DEF low
  <2>2. z - 1 + 1 = k - 1 /\ (IF 1 <= z THEN z - 1 + 1 ELSE 0) = k - 1
    BY <1>1, <1>2
  <2>3. \A i \in 1..k - 1 : 1 + i - 1 = i
    BY <1>1
  <2> QED BY <2>1, <2>2, <2>3
<1>4. high \in Seq(S) /\ Len(high) = n - k /\ \A i \in 1..n - k : high[i] = q[k + i]
  <2>1. /\ high \in Seq(S) /\ Len(high) = IF a <= n THEN n - a + 1 ELSE 0
        /\ \A i \in 1..n - a + 1 : high[i] = q[a + i - 1]
    BY <1>1, <1>2, PartFacts
  <2> HIDE DEF high
  <2>2. n - a + 1 = n - k /\ (IF a <= n THEN n - a + 1 ELSE 0) = n - k
    BY <1>1, <1>2
  <2>3. \A i \in 1..n - k : a + i - 1 = k + i
    BY <1>1, <1>2
  <2> QED BY <2>1, <2>2, <2>3
<1> HIDE DEF low, high
<1>5. /\ r \in Seq(S) /\ Len(r) = k - 1 + (n - k)
      /\ \A i \in 1..k - 1 + (n - k) : r[i] = IF i <= k - 1 THEN low[i] ELSE high[i - (k - 1)]
  BY <1>2, <1>3, <1>4, ConcatProperties
<1>6. ASSUME NEW i \in 1..n - 1 PROVE r[i] = IF i < k THEN q[i] ELSE q[i + 1]
  <2>1. CASE i < k
    <3>1. i \in 1..k - 1 + (n - k) /\ i \in 1..k - 1 /\ i <= k - 1
      BY <1>1, <2>1
    <3>2. r[i] = low[i] BY <1>5, <3>1
    <3>3. low[i] = q[i] BY <1>3, <3>1
    <3> QED BY <2>1, <3>2, <3>3
  <2>2. CASE ~(i < k)
    <3>1. i - (k - 1) \in 1..n - k /\ k + (i - (k - 1)) = i + 1
      BY <1>1, <2>2
    <3>2. r[i] = high[i - (k - 1)]
      BY <1>1, <1>5, <2>2
    <3> QED BY <1>4, <2>2, <3>1, <3>2
  <2> QED BY <2>1, <2>2
<1> QED BY <1>1, <1>2, <1>5, <1>6

\* The others stay, in their order.
LEMMA RemoveKeeps ==
    ASSUME NEW S, NEW q \in Seq(S), Distinct(q), NEW k \in 1..Len(q), NEW r, r = RemoveAt(q, k)
    PROVE  /\ r \in Seq(S) /\ Distinct(r)
           /\ Elements(r) = Elements(q) \ {q[k]}
           /\ \A c : c # q[k] => Ahead(r, c) = Ahead(q, c) \ {q[k]}
<1> DEFINE up(i) == IF i < k THEN i ELSE i + 1
           down(i) == IF i < k THEN i ELSE i - 1
<1>1. /\ r \in Seq(S) /\ Len(q) \in Nat /\ Len(r) = Len(q) - 1
      /\ \A i \in 1..Len(r) : r[i] = IF i < k THEN q[i] ELSE q[i + 1]
  BY RemoveFacts
<1>2. /\ \A i \in 1..Len(r) : up(i) \in 1..Len(q) /\ up(i) # k /\ r[i] = q[up(i)]
      /\ \A i, j \in 1..Len(r) : (i < j <=> up(i) < up(j)) /\ (up(i) = up(j) => i = j)
  BY <1>1
<1>3. /\ \A i \in 1..Len(q) : i # k => down(i) \in 1..Len(r) /\ r[down(i)] = q[i]
      /\ \A i, j \in 1..Len(q) : i # k /\ j # k /\ i < j => down(i) < down(j)
  BY <1>1
<1>4. \A i \in 1..Len(q) : q[i] = q[k] => i = k
  BY DEF Distinct
<1> HIDE DEF up, down
<1>5. Distinct(r)
  BY <1>2 DEF Distinct
<1>6. Elements(r) = Elements(q) \ {q[k]}
  <2>1. ASSUME NEW x \in Elements(r) PROVE x \in Elements(q) \ {q[k]}
    <3>1. PICK i \in 1..Len(r) : x = r[i]
      BY DEF Elements
    <3> QED BY <1>2, <1>4, <3>1 DEF Elements
  <2>2. ASSUME NEW x \in Elements(q) \ {q[k]} PROVE x \in Elements(r)
    <3>1. PICK i \in 1..Len(q) : x = q[i] /\ i # k
      BY DEF Elements
    <3> QED BY <1>3, <3>1 DEF Elements
  <2> QED BY <2>1, <2>2
<1>7. ASSUME NEW c, c # q[k] PROVE Ahead(r, c) = Ahead(q, c) \ {q[k]}
  <2>1. ASSUME NEW x \in Ahead(r, c) PROVE x \in Ahead(q, c) \ {q[k]}
    <3>1. PICK i \in 1..Len(r), j \in 1..Len(r) : x = r[i] /\ i < j /\ r[j] = c
      BY DEF Ahead
    <3>2. /\ up(i) \in 1..Len(q) /\ up(j) \in 1..Len(q) /\ up(i) < up(j) /\ up(i) # k
          /\ x = q[up(i)] /\ q[up(j)] = c
      BY <1>2, <3>1
    <3> QED BY <1>4, <3>2 DEF Ahead
  <2>2. ASSUME NEW x \in Ahead(q, c) \ {q[k]} PROVE x \in Ahead(r, c)
    <3>1. PICK i \in 1..Len(q), j \in 1..Len(q) : x = q[i] /\ i < j /\ q[j] = c
      BY DEF Ahead
    <3>2. i # k /\ j # k
      BY <1>7, <3>1
    <3>3. /\ down(i) \in 1..Len(r) /\ down(j) \in 1..Len(r) /\ down(i) < down(j)
          /\ x = r[down(i)] /\ r[down(j)] = c
      BY <1>3, <3>1, <3>2
    <3> QED BY <3>3 DEF Ahead
  <2> QED BY <2>1, <2>2
<1> QED BY <1>1, <1>5, <1>6, <1>7

\* An element that is new goes behind all others.
LEMMA AppendKeeps ==
    ASSUME NEW S, NEW q \in Seq(S), Distinct(q), NEW c \in S, c \notin Elements(q)
    PROVE  /\ Append(q, c) \in Seq(S) /\ Distinct(Append(q, c))
           /\ Elements(Append(q, c)) = Elements(q) \cup {c}
           /\ Ahead(Append(q, c), c) = Elements(q)
           /\ \A d : d # c => Ahead(Append(q, c), d) = Ahead(q, d)
<1> DEFINE r == Append(q, c)
           n == Len(q)
<1>1. /\ r \in Seq(S) /\ n \in Nat /\ Len(r) = n + 1
      /\ \A i \in 1..n : r[i] = q[i] /\ q[i] # c
      /\ r[n + 1] = c
  BY AppendProperties, LenProperties DEF Elements
<1>2. /\ Distinct(q) <=> \A i, j \in 1..n : q[i] = q[j] => i = j
      /\ Elements(q) = {q[i] : i \in 1..n}
      /\ \A d : Ahead(q, d) = {q[i] : i \in {i \in 1..n : \E j \in 1..n : i < j /\ q[j] = d}}
  BY DEF Distinct, Elements, Ahead
<1> HIDE DEF r, n
<1>3. \A i \in 1..n + 1 : i \in 1..n \/ i = n + 1
  BY <1>1
<1>4. 1..n \subseteq 1..n + 1 /\ n + 1 \in 1..n + 1 /\ \A i \in 1..n : i < n + 1
  BY <1>1
<1>5. Distinct(r)
  BY <1>1, <1>2, <1>3 DEF Distinct
<1>6. Elements(r) = Elements(q) \cup {c}
  <2>1. ASSUME NEW x \in Elements(r) PROVE x \in Elements(q) \cup {c}
    <3>1. PICK i \in 1..n + 1 : x = r[i]
      BY <1>1 DEF Elements
    <3> QED BY <1>1, <1>2, <1>3, <3>1
  <2>2. ASSUME NEW x \in Elements(q) \cup {c} PROVE x \in Elements(r)
    <3>1. \E i \in 1..n + 1 : x = r[i]
      BY <1>1, <1>2, <1>4
    <3> QED BY <1>1, <3>1 DEF Elements
  <2> QED BY <2>1, <2>2
<1>7. Ahead(r, c) = Elements(q)
  <2>1. \A i, j \in 1..n + 1 : i < j /\ r[j] = c => i \in 1..n
    BY <1>1, <1>3
  <2>2. ASSUME NEW x \in Ahead(r, c) PROVE x \in Elements(q)
    <3>1. PICK i \in 1..n + 1, j \in 1..n + 1 : x = r[i] /\ i < j /\ r[j] = c
      BY <1>1 DEF Ahead
    <3> QED BY <1>1, <1>2, <2>1, <3>1
  <2>3. ASSUME NEW x \in Elements(q) PROVE x \in Ahead(r, c)
    <3>1. \E i \in 1..n + 1, j \in 1..n + 1 : x = r[i] /\ i < j /\ r[j] = c
      BY <1>1, <1>2, <1>4, <2>3
    <3> QED BY <1>1, <3>1 DEF Ahead
  <2> QED BY <2>2, <2>3
<1>8. ASSUME NEW d, d # c PROVE Ahead(r, d) = Ahead(q, d)
  <2>1. \A i, j \in 1..n + 1 : i < j /\ r[j] = d => i \in 1..n /\ j \in 1..n
    BY <1>1, <1>3, <1>8
  <2>2. ASSUME NEW x \in Ahead(r, d) PROVE x \in Ahead(q, d)
    <3>1. PICK i \in 1..n + 1, j \in 1..n + 1 : x = r[i] /\ i < j /\ r[j] = d
      BY <1>1 DEF Ahead
    <3> QED BY <1>1, <1>2, <2>1, <3>1
  <2>3. ASSUME NEW x \in Ahead(q, d) PROVE x \in Ahead(r, d)
    <3>1. \E i \in 1..n + 1, j \in 1..n + 1 : x = r[i] /\ i < j /\ r[j] = d
      BY <1>1, <1>2, <1>4, <2>3
    <3> QED BY <1>1, <3>1 DEF Ahead
  <2> QED BY <2>2, <2>3
<1> QED BY <1>1, <1>5, <1>6, <1>7, <1>8 DEF r

\* Of two elements one is ahead of the other, and all that are ahead are elements.
LEMMA AheadFacts ==
    ASSUME NEW S, NEW q \in Seq(S)
    PROVE  /\ \A c, d \in Elements(q) : c # d => c \in Ahead(q, d) \/ d \in Ahead(q, c)
           /\ \A c : Ahead(q, c) \subseteq Elements(q)
<1>1. ASSUME NEW i \in 1..Len(q), NEW j \in 1..Len(q), i # j PROVE i < j \/ j < i
  <2>1. Len(q) \in Nat
    BY LenProperties
  <2> QED BY <1>1, <2>1
<1> QED BY <1>1 DEF Elements, Ahead

-----------------------------------------------------------------------------
(* Types.                                                                  *)

\* The type invariant but for the possible answers.
Shaped ==
    /\ db \in {"opening", "open", "failed"}
    /\ queue \in Seq(Calls) /\ Distinct(queue)
    /\ Elements(queue) = {c \in Calls : pc[c] = "queued"}
    /\ mounts \subseteq asked /\ asked \subseteq Mountable
    /\ files \subseteq Places \ Dirs
    /\ pc \in [Calls -> {"idle", "queued", "walking", "removing", "hung", "answered"}]
    /\ request \in [Calls -> Requests \cup {NoRequest}]
    /\ handle \in [Calls -> Dirs \cup Places \cup {NoFile}]
    /\ path \in [Calls -> Paths]
    /\ answer \in [Calls -> Places \cup {NoFile, Unsaid}]
    /\ \A c \in Calls :
        /\ pc[c] # "idle" => request[c] \in Requests
        /\ pc[c] = "walking" => handle[c] \in Dirs \cup Places /\ path[c] # <<>>
        /\ pc[c] = "removing" => handle[c] \in Places

Answering == possible \in [Calls -> SUBSET (Places \cup {NoFile, Unsaid})]

LEMMA TypeParts == LocalTypeOK <=> Shaped /\ Answering
BY DEF LocalTypeOK, Shaped, Answering, Distinct, Elements, Paths

\* What a request asks for.
LEMMA RequestFacts ==
    ASSUME NEW r \in Requests
    PROVE  /\ r.op \in Ops <=> r.op # "mount"
           /\ r.op \in Ops => r.path \in Paths
           /\ r.op = "mount" => Mounting(r) \in Mountable
<1>1. CASE r \in [op : Ops, path : Pathnames, handle : {NoFile}]
  BY <1>1, LocalAssumption DEF Ops, Paths
<1>2. CASE r \in {[op |-> "mount", path |-> m.key, handle |-> m.handle] : m \in Mountable}
  <2>1. PICK m \in Mountable : r = [op |-> "mount", path |-> m.key, handle |-> m.handle]
    BY <1>2
  <2>2. m = [key |-> m.key, handle |-> m.handle]
    BY LocalAssumption
  <2> QED BY <2>1, <2>2 DEF Mounting, Ops
<1> QED BY <1>1, <1>2 DEF Requests

\* A call that leaves the queue.
LEMMA LeaveFacts ==
    ASSUME Shaped, NEW c, Leave(c)
    PROVE  /\ queue' \in Seq(Calls) /\ Distinct(queue')
           /\ Elements(queue') = Elements(queue) \ {c}
           /\ \A d : d # c => Ahead(queue', d) = Ahead(queue, d) \ {c}
<1>1. PICK k \in 1..Len(queue) : queue[k] = c /\ queue' = RemoveAt(queue, k)
  BY DEF Leave
<1> QED BY <1>1, RemoveKeeps DEF Shaped

\* The rest of what a pathname has, and the deepest directory, as Scan takes them.
LEMMA ScanFacts ==
    ASSUME NEW p \in Paths, mounts \subseteq Mountable, DirsAbove(p) # {}
    PROVE  /\ Deepest(BestDir(p), mounts, p) /\ BestDir(p) \in mounts
           /\ BestDir(p).handle \in Dirs /\ BestDir(p).key \in Paths
           /\ Rest(BestDir(p), p) \in Paths /\ Rest(BestDir(p), p) # <<>>
           /\ Len(p) = Len(BestDir(p).key) + 1 => Rest(BestDir(p), p) = <<Last(p)>>
           /\ Len(p) >= Len(BestDir(p).key) + 1
           /\ Len(p) \in Nat /\ Len(BestDir(p).key) \in Nat
<1>1. DirsAbove(p) = Above(mounts, p)
  BY DEF DirsAbove, Above
<1>2. PICK m : Deepest(m, mounts, p)
  BY <1>1, SomeDeepest
<1>3. Deepest(BestDir(p), mounts, p)
  <2>1. m \in DirsAbove(p) /\ \A n \in DirsAbove(p) : Len(m.key) >= Len(n.key)
    BY <1>1, <1>2 DEF Deepest
  <2>2. /\ BestDir(p) \in DirsAbove(p)
        /\ \A n \in DirsAbove(p) : Len(BestDir(p).key) >= Len(n.key)
    BY <2>1, Zenon DEF BestDir
  <2> QED BY <1>1, <2>2, Zenon DEF Deepest
<1> DEFINE b == BestDir(p)
<1> HIDE DEF b
<1>4. Deepest(b, mounts, p)
  BY <1>3 DEF b
<1>5. b \in mounts /\ b.handle \in Dirs /\ b.key \in Paths /\ KeyBelow(b.key, p)
  BY <1>4, LocalAssumption DEF Deepest, Above, Paths
<1>6. Len(p) \in Nat /\ Len(b.key) \in Nat /\ Len(p) >= Len(b.key) + 1
  <2>1. Len(p) \in Nat /\ Len(b.key) \in Nat /\ Len(b.key) < Len(p)
    BY <1>5, PrefixFacts
  <2> QED BY <2>1
<1>7. /\ Rest(b, p) \in Paths /\ Rest(b, p) # <<>>
      /\ Len(p) = Len(b.key) + 1 => Rest(b, p) = <<Last(p)>>
  BY <1>5, RestFacts DEF Rest
<1> QED BY <1>4, <1>5, <1>6, <1>7 DEF b

\* Each action keeps the types: the calls and their transactions.
LEMMA ShapedTransactions ==
    ASSUME Shaped, Awaited, NEW c \in Calls,
           \/ \E r \in Requests : Call(c, r)
           \/ Reject(c) \/ Mount(c) \/ Scan(c)
    PROVE  Shaped'
<1>1. CASE \E r \in Requests : Call(c, r)
  <2>1. PICK r \in Requests : Call(c, r)
    BY <1>1
  <2>2. c \notin Elements(queue)
    BY <2>1 DEF Shaped, Call
  <2>3. queue' \in Seq(Calls) /\ Distinct(queue') /\ Elements(queue') = Elements(queue) \cup {c}
    BY <2>1, <2>2, AppendKeeps DEF Shaped, Call
  <2>4. {d \in Calls : pc'[d] = "queued"} = {d \in Calls : pc[d] = "queued"} \cup {c}
    BY <2>1 DEF Shaped, Call
  <2>5. mounts' \subseteq asked' /\ asked' \subseteq Mountable
    BY <2>1, RequestFacts DEF Shaped, Call
  <2> QED BY <2>1, <2>3, <2>4, <2>5 DEF Shaped, Call
<1>2. CASE Reject(c)
  <2>1. queue' \in Seq(Calls) /\ Distinct(queue') /\ Elements(queue') = Elements(queue) \ {c}
    BY <1>2, LeaveFacts DEF Reject, Turn
  <2>2. {d \in Calls : pc'[d] = "queued"} = {d \in Calls : pc[d] = "queued"} \ {c}
    BY <1>2 DEF Shaped, Reject, Turn, Settle
  <2> QED BY <1>2, <2>1, <2>2 DEF Shaped, Reject, Turn, Settle
<1>3. CASE Mount(c)
  <2>1. queue' \in Seq(Calls) /\ Distinct(queue') /\ Elements(queue') = Elements(queue) \ {c}
    BY <1>3, LeaveFacts DEF Mount, Turn
  <2>2. {d \in Calls : pc'[d] = "queued"} = {d \in Calls : pc[d] = "queued"} \ {c}
    BY <1>3 DEF Shaped, Mount, Settle
  <2>3. mounts' \subseteq asked'
    <3>1. pc[c] = "queued" /\ request[c].op = "mount" /\ db = "open"
      BY <1>3 DEF Mount, Turn
    <3>2. Mounting(request[c]) \in asked
      BY <3>1 DEF Awaited, Queued
    <3> QED BY <1>3, <3>2 DEF Shaped, Mount
  <2> QED BY <1>3, <2>1, <2>2, <2>3 DEF Shaped, Mount, Turn, Settle
<1>4. CASE Scan(c)
  <2> DEFINE p == request[c].path
  <2>1. queue' \in Seq(Calls) /\ Distinct(queue') /\ Elements(queue') = Elements(queue) \ {c}
    BY <1>4, LeaveFacts DEF Scan, Turn
  <2>2. {d \in Calls : pc'[d] = "queued"} = {d \in Calls : pc[d] = "queued"} \ {c}
    BY <1>4 DEF Shaped, Scan, Settle
  <2>3. DirsAbove(p) # {} =>
          BestDir(p).handle \in Dirs /\ Rest(BestDir(p), p) \in Paths /\ Rest(BestDir(p), p) # <<>>
    <3>1. p \in Paths
      BY <1>4, RequestFacts DEF Shaped, Scan, Turn
    <3> QED BY <3>1, ScanFacts DEF Shaped
  <2> HIDE DEF p
  <2>4. pc[c] = "queued" /\ request[c] \in Requests /\ UNCHANGED <<db, mounts, files, request, asked>>
    BY <1>4 DEF Shaped, Scan, Turn
  <2>5. \/ /\ pc' = [pc EXCEPT ![c] = "hung"] /\ UNCHANGED <<handle, path, answer>>
        \/ Settle(c, NoFile) /\ UNCHANGED <<handle, path>>
        \/ /\ DirsAbove(p) # {}
           /\ handle' = [handle EXCEPT ![c] = BestDir(p).handle]
           /\ path' = [path EXCEPT ![c] = Rest(BestDir(p), p)]
           /\ pc' = [pc EXCEPT ![c] = "walking"] /\ UNCHANGED answer
    BY <1>4 DEF Scan, p
  <2> QED BY <2>1, <2>2, <2>3, <2>4, <2>5 DEF Shaped, Settle
<1> QED BY <1>1, <1>2, <1>3, <1>4

\* The way down, and what comes from elsewhere.
LEMMA ShapedWalks ==
    ASSUME Shaped,
           \/ OpenDb \/ \E place \in Shared : Meddle(place)
           \/ \E c \in Calls : Walk(c) \/ RemoveFile(c)
    PROVE  Shaped'
<1>1. CASE OpenDb
  BY <1>1 DEF Shaped, OpenDb
<1>2. CASE \E place \in Shared : Meddle(place)
  <2>1. PICK place \in Shared : Meddle(place)
    BY <1>2
  <2>2. files' \subseteq Places \ Dirs
    BY <2>1, LocalAssumption DEF Shaped, Meddle
  <2> QED BY <2>1, <2>2 DEF Shaped, Meddle
<1>3. ASSUME NEW c \in Calls, Walk(c) PROVE Shaped'
  <2>1. /\ pc[c] = "walking" /\ path[c] \in Paths /\ path[c] # <<>> /\ request[c] \in Requests
        /\ UNCHANGED <<db, queue, mounts, request, asked>>
    BY <1>3 DEF Shaped, Walk
  <2>2. Head(path[c]) \in Names \cup {""} /\ Tail(path[c]) \in Paths
    BY <2>1, HeadTailProperties DEF Paths
  <2>3. Len(path[c]) > 1 => Tail(path[c]) # <<>>
    <3> DEFINE n == Len(path[c])
    <3>1. n \in Nat /\ Len(Tail(path[c])) = n - 1
      BY <2>1, HeadTailProperties, LenProperties DEF Paths
    <3>2. Len(<<>>) = 0
      OBVIOUS
    <3> HIDE DEF n
    <3>3. n > 1 => n - 1 # 0
      BY <3>1
    <3>4. n > 1 => Tail(path[c]) # <<>>
      BY <3>1, <3>2, <3>3, Zenon
    <3> QED BY <3>4 DEF n
  <2>4. CASE IsFound(c)
    <3>1. NextPlace(c) \in Places \ Dirs
      <4>1. handle[c] \in Dirs /\ Head(path[c]) \in Names /\ NextPlace(c) \notin Dirs
        BY <2>2, <2>4 DEF IsFound
      <4>2. Append(handle[c], Head(path[c])) \in Places
        BY <4>1 DEF Places
      <4> QED BY <4>1, <4>2 DEF NextPlace
    <3>2. /\ files' = files \cup {NextPlace(c)}
          /\ handle' = [handle EXCEPT ![c] = NextPlace(c)]
          /\ path' = [path EXCEPT ![c] = Tail(path[c])]
          /\ \/ Len(path[c]) > 1 /\ UNCHANGED <<pc, answer>>
             \/ pc' = [pc EXCEPT ![c] = "removing"] /\ UNCHANGED answer
             \/ Settle(c, NextPlace(c))
      BY <1>3, <2>4 DEF Walk
    <3>3. {d \in Calls : pc'[d] = "queued"} = {d \in Calls : pc[d] = "queued"}
      BY <2>1, <3>2 DEF Shaped, Settle
    <3>4. CASE Len(path[c]) > 1 /\ UNCHANGED <<pc, answer>>
      BY <2>1, <2>2, <2>3, <3>1, <3>2, <3>4 DEF Shaped
    <3>5. CASE pc' = [pc EXCEPT ![c] = "removing"] /\ UNCHANGED answer
      BY <2>1, <2>2, <3>1, <3>2, <3>3, <3>5 DEF Shaped
    <3>6. CASE Settle(c, NextPlace(c))
      BY <2>1, <2>2, <3>1, <3>2, <3>3, <3>6 DEF Shaped, Settle
    <3> QED BY <3>2, <3>4, <3>5, <3>6
  <2>5. CASE ~IsFound(c)
    <3>1. Settle(c, NoFile) /\ UNCHANGED <<files, handle, path>>
      BY <1>3, <2>5 DEF Walk
    <3>2. {d \in Calls : pc'[d] = "queued"} = {d \in Calls : pc[d] = "queued"}
      BY <2>1, <3>1 DEF Shaped, Settle
    <3> QED BY <2>1, <3>1, <3>2 DEF Shaped, Settle
  <2> QED BY <2>4, <2>5
<1>4. ASSUME NEW c \in Calls, RemoveFile(c) PROVE Shaped'
  <2>1. {d \in Calls : pc'[d] = "queued"} = {d \in Calls : pc[d] = "queued"}
    BY <1>4 DEF Shaped, RemoveFile, Settle
  <2> QED BY <1>4, <2>1 DEF Shaped, RemoveFile, Settle
<1> QED BY <1>1, <1>2, <1>3, <1>4

LEMMA NextShaped == Shaped /\ Awaited /\ LocalNext => Shaped'
BY ShapedTransactions, ShapedWalks DEF LocalNext, Answers, Proceed

\* What a call has known stays known, and the files that its pathname names at the end
\* of a step are added, but when it has its answer.
LEMMA RememberFacts ==
    ASSUME Shaped', Answering, Remember
    PROVE  /\ Answering'
           /\ \A c \in Calls :
                /\ possible[c] \subseteq possible'[c]
                /\ pc[c] # "answered" /\ pc'[c] # "idle" /\ request'[c].op # "mount" =>
                     Named(request'[c].path, asked', files') \subseteq possible'[c]
<1>1. ASSUME NEW c \in Calls, pc'[c] # "idle", request'[c].op # "mount"
      PROVE  Named(request'[c].path, asked', files') \subseteq Places \cup {NoFile, Unsaid}
  <2>1. request'[c].path \in Paths /\ asked' \subseteq Mountable /\ files' \subseteq Places
    BY <1>1, RequestFacts DEF Shaped
  <2>2. Named(request'[c].path, asked', files') \subseteq files' \cup {NoFile, Unsaid}
    BY <2>1, NamedFacts
  <2> QED BY <2>1, <2>2
<1> QED BY <1>1 DEF Answering, Remember

-----------------------------------------------------------------------------
(* The calls that wait.                                                    *)

Knows == \A c \in Calls : possible[c] \subseteq possible'[c]

LEMMA BeforeAhead == \A c : Before(c) = Ahead(queue, c)
BY DEF Before, Ahead

\* Steps away from the queue.
LEMMA AwaitedStays ==
    ASSUME Awaited, Knows, UNCHANGED <<queue, mounts, request, asked>>,
           db' # "failed" => db # "failed",
           \A c \in Calls : pc'[c] = "queued" <=> pc[c] = "queued"
    PROVE  Awaited'
<1> SUFFICES ASSUME db' # "failed" PROVE Awaited'
  BY DEF Awaited
<1>1. {d \in Calls : pc'[d] = "queued"} = {d \in Calls : pc[d] = "queued"}
  OBVIOUS
<1>2. asked' = mounts' \cup Queued(request', {d \in Calls : pc'[d] = "queued"})
  BY <1>1 DEF Awaited
<1>3. ASSUME NEW c \in Calls, pc'[c] = "queued", request'[c].op \in Ops
      PROVE  Promised(request'[c].path, Table(c)', possible'[c])
  <2>1. Promised(request[c].path, Table(c), possible[c]) /\ possible[c] \subseteq possible'[c]
    BY <1>3 DEF Awaited, Knows
  <2>2. Table(c)' = Table(c)
    BY DEF Table, Before
  <2> QED BY <2>1, <2>2 DEF Promised
<1> QED BY <1>2, <1>3 DEF Awaited

\* What a table promises is in the answers that a pathname has there.
LEMMA NamedPromises ==
    ASSUME NEW p \in Paths, NEW T, T \subseteq Mountable, NEW fs, NEW K, Named(p, T, fs) \subseteq K
    PROVE  Promised(p, T, K)
<1>1. ASSUME Above(T, p) = {} PROVE NoFile \in K
  BY <1>1, NamedFacts
<1>2. ASSUME NEW m, Deepest(m, T, p), Len(p) > Len(m.key) + 1 PROVE Unsaid \in K
  BY <1>2, NamedFacts
<1> QED BY <1>1, <1>2 DEF Promised

\* A new call waits behind all others, so that it will find all handles mounted that it
\* knows of.
LEMMA AwaitedCall ==
    ASSUME LocalInv, Shaped', Answering', Knows, NEW c \in Calls, NEW r \in Requests, Call(c, r),
           r.op # "mount" => Named(r.path, asked', files') \subseteq possible'[c]
    PROVE  Awaited'
<1>0. Shaped /\ Awaited
  BY TypeParts DEF LocalInv
<1> SUFFICES ASSUME db' # "failed" PROVE Awaited'
  BY DEF Awaited
<1> DEFINE Q == {d \in Calls : pc[d] = "queued"}
<1>1. /\ pc[c] = "idle" /\ c \notin Q /\ {d \in Calls : pc'[d] = "queued"} = Q \cup {c}
      /\ request'[c] = r /\ \A d \in Calls : d # c => request'[d] = request[d] /\ pc'[d] = pc[d]
      /\ asked' = IF r.op = "mount" THEN asked \cup {Mounting(r)} ELSE asked
      /\ mounts' = mounts /\ queue' = Append(queue, c) /\ db # "failed"
  BY <1>0 DEF Shaped, Call
<1>2. asked = mounts \cup Queued(request, Q) /\ Q \subseteq Calls /\ c \notin Q
  BY <1>0, <1>1 DEF Awaited
<1>3. Elements(queue) = Q /\ Ahead(queue', c) = Q /\ \A d : d # c => Ahead(queue', d) = Ahead(queue, d)
  <2>1. Elements(queue) = Q /\ queue \in Seq(Calls) /\ Distinct(queue)
    BY <1>0 DEF Shaped
  <2> HIDE DEF Q
  <2> QED BY <1>1, <2>1, AppendKeeps
<1> HIDE DEF Q
<1>4. Queued(request', Q) = Queued(request, Q)
  BY <1>1, <1>2 DEF Queued
<1>5. asked' = mounts' \cup Queued(request', Q \cup {c})
  <2>1. Queued(request', Q \cup {c}) =
          Queued(request', Q) \cup IF r.op = "mount" THEN {Mounting(r)} ELSE {}
    BY <1>1 DEF Queued
  <2> QED BY <1>1, <1>2, <1>4, <2>1
<1>6. ASSUME r.op \in Ops PROVE Promised(r.path, Table(c)', possible'[c])
  <2>1. Table(c)' = mounts' \cup Queued(request', Ahead(queue', c))
    BY DEF Table, Before, Ahead
  <2>2. r.op # "mount" /\ r.path \in Paths
    BY <1>6, RequestFacts
  <2>3. Table(c)' = asked'
    BY <1>1, <1>2, <1>3, <1>4, <2>1, <2>2
  <2>4. asked' \subseteq Mountable
    BY DEF Shaped
  <2> QED BY <2>2, <2>3, <2>4, NamedPromises
<1>7. ASSUME NEW d \in Calls, d # c, pc'[d] = "queued", request'[d].op \in Ops
      PROVE  Promised(request'[d].path, Table(d)', possible'[d])
  <2>1. Promised(request[d].path, Table(d), possible[d]) /\ possible[d] \subseteq possible'[d]
    BY <1>0, <1>1, <1>7 DEF Awaited, Knows
  <2>2. Ahead(queue, d) \subseteq Q
    BY <1>0, <1>3, AheadFacts DEF Shaped
  <2>3. Table(d)' = mounts' \cup Queued(request', Ahead(queue', d))
    BY DEF Table, Before, Ahead
  <2>4. Table(d) = mounts \cup Queued(request, Ahead(queue, d))
    BY DEF Table, Before, Ahead
  <2>5. Queued(request', Ahead(queue, d)) = Queued(request, Ahead(queue, d))
    BY <1>1, <1>2, <2>2 DEF Queued
  <2>6. Table(d)' = Table(d)
    BY <1>1, <1>3, <1>7, <2>3, <2>4, <2>5
  <2> QED BY <1>1, <1>7, <2>1, <2>6 DEF Promised
<1> QED BY <1>1, <1>5, <1>6, <1>7 DEF Awaited

\* A call that has its turn: what it was to mount is in the store, and those behind it
\* are to find the same.
LEMMA AwaitedTurn ==
    ASSUME LocalInv, Knows, NEW c \in Calls, Mount(c) \/ Scan(c) \/ (Reject(c) /\ db = "open")
    PROVE  Awaited'
<1>0. Shaped /\ Awaited
  BY TypeParts DEF LocalInv
<1> DEFINE Q == {d \in Calls : pc[d] = "queued"}
           M == Queued(request, {c})
<1>1. /\ pc[c] = "queued" /\ c \in Q /\ UNCHANGED <<request, asked>>
      /\ {d \in Calls : pc'[d] = "queued"} = Q \ {c} /\ \A d \in Calls : d # c => pc'[d] = pc[d]
      /\ Leave(c) /\ db # "failed"
      /\ pc'[c] # "queued"
  BY <1>0 DEF Shaped, Mount, Scan, Reject, Turn, Settle
<1>2. mounts' = mounts \cup M
  <2>1. CASE Mount(c)
    BY <2>1 DEF Mount, Queued
  <2>2. CASE Scan(c)
    BY <2>2 DEF Scan, Queued, Ops
  <2>3. CASE Reject(c) /\ db = "open"
    BY <2>3 DEF Reject, Queued, Ops
  <2> QED BY <2>1, <2>2, <2>3
<1>3. asked = mounts \cup Queued(request, Q)
  BY <1>0, <1>1 DEF Awaited
<1> HIDE DEF M
<1>4. \A C : Queued(request, C \ {c}) \cup Queued(request, {c}) = Queued(request, C \cup {c})
  BY DEF Queued
<1>5. asked' = mounts' \cup Queued(request', Q \ {c})
  <2>1. Q \cup {c} = Q
    BY <1>1
  <2> HIDE DEF Q
  <2>2. Queued(request, Q \ {c}) \cup M = Queued(request, Q)
    BY <1>4, <2>1 DEF M
  <2>3. request' = request /\ asked' = asked
    BY <1>1
  <2> QED BY <1>2, <1>3, <2>2, <2>3
<1>6. \A d : d # c => Ahead(queue', d) = Ahead(queue, d) \ {c}
  BY <1>0, <1>1, LeaveFacts
<1>7. ASSUME NEW d \in Calls, pc'[d] = "queued", request'[d].op \in Ops
      PROVE  Promised(request'[d].path, Table(d)', possible'[d])
  <2>1. d # c /\ pc[d] = "queued" /\ request'[d] = request[d]
    BY <1>1, <1>7
  <2>2. Promised(request[d].path, Table(d), possible[d]) /\ possible[d] \subseteq possible'[d]
    BY <1>0, <1>1, <1>7, <2>1 DEF Awaited, Knows
  <2>3. Table(d)' = mounts \cup M \cup Queued(request, Ahead(queue, d) \ {c})
    <3>1. Table(d)' = mounts' \cup Queued(request', Ahead(queue', d))
      BY DEF Table, Before, Ahead
    <3> QED BY <1>1, <1>2, <1>6, <2>1, <3>1
  <2>4. Table(d) = mounts \cup Queued(request, Ahead(queue, d))
    BY DEF Table, Before, Ahead
  <2>5. Table(d)' = Table(d)
    <3>1. CASE M = {}
      <4>1. Queued(request, Ahead(queue, d) \ {c}) = Queued(request, Ahead(queue, d))
        BY <3>1 DEF M, Queued
      <4> QED BY <2>3, <2>4, <3>1, <4>1
    <3>2. CASE M # {}
      <4>1. request[c].op = "mount"
        BY <3>2 DEF M, Queued
      <4>2. Before(c) = {}
        BY <4>1 DEF Mount, Scan, Reject, Turn, Ops
      <4>3. c \in Elements(queue) /\ d \in Elements(queue) /\ queue \in Seq(Calls)
        BY <1>0, <1>1, <2>1 DEF Shaped
      <4>4. c \in Ahead(queue, d)
        BY <2>1, <4>2, <4>3, AheadFacts, BeforeAhead
      <4>5. Ahead(queue, d) \cup {c} = Ahead(queue, d)
        BY <4>4
      <4>6. Queued(request, Ahead(queue, d) \ {c}) \cup M = Queued(request, Ahead(queue, d))
        BY <1>4, <4>5 DEF M
      <4> QED BY <2>3, <2>4, <4>6
    <3> QED BY <3>1, <3>2
  <2> QED BY <2>1, <2>2, <2>5 DEF Promised
<1> QED BY <1>1, <1>5, <1>7 DEF Awaited

-----------------------------------------------------------------------------
(* The lookups.                                                            *)

\* A call that a step leaves alone.
LEMMA LookupStays ==
    ASSUME LocalInv, Knows, asked \subseteq asked'
    PROVE  \A d \in Calls :
             /\ pc'[d] = pc[d] /\ request'[d] = request[d] /\ handle'[d] = handle[d]
             /\ path'[d] = path[d] /\ answer'[d] = answer[d]
             => Walking(d)' /\ AnswerHolds(d)'
<1> SUFFICES ASSUME NEW d \in Calls,
                    pc'[d] = pc[d] /\ request'[d] = request[d] /\ handle'[d] = handle[d],
                    path'[d] = path[d] /\ answer'[d] = answer[d]
             PROVE  Walking(d)' /\ AnswerHolds(d)'
  OBVIOUS
<1>1. Walking(d) /\ AnswerHolds(d) /\ possible[d] \subseteq possible'[d]
  BY DEF LocalInv, Knows
<1>2. \A m \in asked : OneNameLeft(d, m, request[d].path) =>
        m \in asked' /\ OneNameLeft(d, m, request[d].path)'
  BY DEF OneNameLeft
<1>3. Walking(d)'
  BY <1>1, <1>2 DEF Walking
<1>4. AnswerHolds(d)'
  BY <1>1 DEF AnswerHolds
<1> QED BY <1>3, <1>4

\* A lookup that has its turn begins at the deepest directory in the store, in which
\* there are the handles that it waited for.
LEMMA ScanLookup ==
    ASSUME LocalInv, Shaped', Knows, NEW c \in Calls, Scan(c)
    PROVE  Walking(c)' /\ AnswerHolds(c)'
<1>0. Shaped /\ Awaited
  BY TypeParts DEF LocalInv
<1> DEFINE p == request[c].path
<1>1. /\ pc[c] = "queued" /\ request[c] \in Requests /\ request[c].op \in Ops /\ db = "open"
      /\ request' = request /\ asked' = asked
      /\ \A d \in Before(c) : request[d].op # "mount"
  BY <1>0 DEF Shaped, Scan, Turn
<1>2. p \in Paths /\ request[c].op # "mount" /\ mounts \subseteq Mountable /\ mounts \subseteq asked
  BY <1>0, <1>1, RequestFacts DEF Shaped
<1>3. Table(c) = mounts
  BY <1>1 DEF Table, Queued
<1>4. Promised(p, mounts, possible[c]) /\ possible[c] \subseteq possible'[c]
  BY <1>0, <1>1, <1>3 DEF Awaited, Knows
<1>5. DirsAbove(p) = Above(mounts, p)
  BY DEF DirsAbove, Above
<1>6. \/ pc'[c] = "hung"
      \/ DirsAbove(p) = {} /\ pc'[c] = "answered" /\ answer'[c] = NoFile
      \/ /\ DirsAbove(p) # {} /\ pc'[c] = "walking"
         /\ handle'[c] = BestDir(p).handle /\ path'[c] = Rest(BestDir(p), p)
  BY <1>0 DEF Shaped, Scan, Settle
<1> HIDE DEF p
<1>7. CASE pc'[c] = "hung"
  BY <1>7 DEF Walking, AnswerHolds
<1>8. CASE DirsAbove(p) = {} /\ pc'[c] = "answered" /\ answer'[c] = NoFile
  <2>1. NoFile \in possible'[c]
    BY <1>4, <1>5, <1>8 DEF Promised
  <2> QED BY <1>8, <2>1 DEF Walking, AnswerHolds
<1>9. CASE /\ DirsAbove(p) # {} /\ pc'[c] = "walking"
           /\ handle'[c] = BestDir(p).handle /\ path'[c] = Rest(BestDir(p), p)
  <2>1. PICK b \in mounts :
          /\ Deepest(b, mounts, p) /\ b.handle \in Dirs
          /\ Len(p) = Len(b.key) + 1 => path'[c] = <<Last(p)>>
          /\ Len(p) >= Len(b.key) + 1 /\ Len(p) \in Nat /\ Len(b.key) \in Nat
          /\ handle'[c] = b.handle
    <3>1. BestDir(p) \in mounts
      BY <1>2, <1>9, ScanFacts
    <3> QED BY <1>2, <1>9, <3>1, ScanFacts
  <2>2. CASE Len(p) > Len(b.key) + 1
    <3>1. Unsaid \in possible'[c]
      BY <1>4, <2>1, <2>2 DEF Promised
    <3> QED BY <1>1, <1>9, <3>1 DEF Walking, AnswerHolds
  <2>3. CASE Len(p) = Len(b.key) + 1
    <3>1. KeyBelow(b.key, p)
      BY <2>1 DEF Deepest, Above
    <3>2. OneNameLeft(c, b, request[c].path)'
      BY <1>1, <1>9, <2>1, <2>3, <3>1 DEF OneNameLeft, p
    <3>3. b \in asked'
      BY <1>1, <1>2
    <3> QED BY <1>1, <1>9, <3>2, <3>3 DEF Walking, AnswerHolds
  <2>4. Len(p) > Len(b.key) + 1 \/ Len(p) = Len(b.key) + 1
    BY <2>1
  <2> QED BY <2>2, <2>3, <2>4
<1> QED BY <1>6, <1>7, <1>8, <1>9

\* With one name left below a directory, a pathname names one file or none, and no file
\* that is a directory or has no name.
LEMMA OneFileNamed ==
    ASSUME NEW p \in Paths, NEW T, T \subseteq Mountable, NEW m \in T, m.handle \in Dirs,
           KeyBelow(m.key, p), Len(p) = Len(m.key) + 1,
           NEW fs, fs \subseteq Places \ Dirs
    PROVE  LET place == Append(m.handle, Last(p)) IN
           /\ Named(p, T, fs) = {IF place \in fs THEN place ELSE NoFile}
           /\ place \in fs => Last(p) # "" /\ place \notin Dirs
<1>1. Deepest(m, T, p)
  BY LastIsDeepest DEF Above
<1>2. Named(p, T, fs) = {IF Append(m.handle, Last(p)) \in fs
                         THEN Append(m.handle, Last(p)) ELSE NoFile}
  BY <1>1, NamedFacts
<1>3. ASSUME Append(m.handle, Last(p)) \in fs PROVE Last(p) # ""
  <2>1. PICK d \in Dirs, n \in Names : Append(m.handle, Last(p)) = Append(d, n)
    <3>1. Append(m.handle, Last(p)) \in Places
      BY <1>3
    <3> QED BY <3>1 DEF Places
  <2>2. m.handle \in Seq(Names \cup {""}) /\ d \in Seq(Names \cup {""})
    BY LocalAssumption, SeqMonotonic
  <2>3. Last(p) \in Names \cup {""}
    <3>1. m.key \in Paths
      BY LocalAssumption DEF Paths
    <3>2. Len(p) \in Nat /\ Len(m.key) \in Nat
      BY <3>1, PrefixFacts
    <3>3. Len(p) \in 1..Len(p)
      BY <3>2
    <3> QED BY <3>3, ElementOfSeq DEF Last, Paths
  <2>4. Last(p) = n
    <3> DEFINE S == Names \cup {""}
               l == Last(p)
               h == m.handle
    <3>1. n \in S /\ l \in S /\ h \in Seq(S) /\ d \in Seq(S) /\ Append(h, l) = Append(d, n)
      BY <2>1, <2>2, <2>3
    <3> HIDE DEF S, l, h
    <3>2. l = n
      BY <3>1, AppendInjective
    <3> QED BY <3>2 DEF l
  <2> QED BY <2>4, LocalAssumption
<1> QED BY <1>2, <1>3

\* A lookup that takes a step down: it finds the file that its pathname names now.
LEMMA WalkLookup ==
    ASSUME LocalInv, Shaped', Knows, NEW c \in Calls, Walk(c),
           Named(request'[c].path, asked', files') \subseteq possible'[c]
    PROVE  Walking(c)' /\ AnswerHolds(c)'
<1> DEFINE p == request[c].path
<1>0. Shaped /\ Walking(c)
  BY TypeParts DEF LocalInv
<1>1. /\ pc[c] = "walking" /\ request' = request /\ asked' = asked
      /\ request[c] \in Requests /\ request[c].op \in Ops /\ possible[c] \subseteq possible'[c]
  BY <1>0 DEF Shaped, Walk, Walking, Knows
<1>2. p \in Paths /\ asked \subseteq Mountable /\ files' \subseteq Places \ Dirs
  BY <1>0, <1>1, RequestFacts DEF Shaped
<1>3. \/ /\ IsFound(c) /\ files' = files \cup {NextPlace(c)}
         /\ \/ Len(path[c]) > 1
            \/ pc'[c] = "removing" /\ handle'[c] = NextPlace(c)
            \/ pc'[c] = "answered" /\ answer'[c] = NextPlace(c)
      \/ ~IsFound(c) /\ pc'[c] = "answered" /\ answer'[c] = NoFile /\ files' = files
  <2>1. CASE IsFound(c)
    <3>1. /\ files' = files \cup {NextPlace(c)} /\ handle' = [handle EXCEPT ![c] = NextPlace(c)]
          /\ \/ Len(path[c]) > 1
             \/ pc' = [pc EXCEPT ![c] = "removing"]
             \/ Settle(c, NextPlace(c))
      BY <2>1 DEF Walk
    <3> QED BY <1>0, <2>1, <3>1 DEF Shaped, Settle
  <2>2. CASE ~IsFound(c)
    <3>1. Settle(c, NoFile) /\ files' = files
      BY <2>2 DEF Walk
    <3> QED BY <1>0, <2>2, <3>1 DEF Shaped, Settle
  <2> QED BY <2>1, <2>2
<1>4. CASE Unsaid \in possible[c]
  BY <1>1, <1>4 DEF Walking, AnswerHolds
<1>5. ASSUME NEW m \in asked, OneNameLeft(c, m, p) PROVE Walking(c)' /\ AnswerHolds(c)'
  <2> DEFINE place == Append(m.handle, Last(p))
  <2>1. /\ m.handle \in Dirs /\ KeyBelow(m.key, p) /\ Len(p) = Len(m.key) + 1
        /\ handle[c] = m.handle /\ path[c] = <<Last(p)>>
    BY <1>1, <1>5 DEF OneNameLeft
  <2>2. NextPlace(c) = place /\ Head(path[c]) = Last(p) /\ ~(Len(path[c]) > 1)
    <3>1. Head(path[c]) = Last(p) /\ Len(path[c]) = 1
      BY <2>1
    <3> QED BY <2>1, <3>1 DEF NextPlace
  <2>3. /\ Named(p, asked, files') = {IF place \in files' THEN place ELSE NoFile}
        /\ place \in files' => Last(p) # "" /\ place \notin Dirs
    BY <1>2, <2>1, OneFileNamed
  <2>4. Named(p, asked, files') \subseteq possible'[c]
    BY <1>1
  <2> HIDE DEF place, p
  <2>5. CASE IsFound(c)
    <3>1. place \in files' /\ place \in possible'[c]
      BY <1>3, <2>2, <2>3, <2>4, <2>5
    <3>2. CASE pc'[c] = "removing" /\ handle'[c] = NextPlace(c)
      <4>1. OneNameLeft(c, m, request[c].path)'
        BY <1>1, <2>1, <2>2, <3>2 DEF OneNameLeft, place, p
      <4> QED BY <1>1, <3>2, <4>1 DEF Walking, AnswerHolds
    <3>3. CASE pc'[c] = "answered" /\ answer'[c] = NextPlace(c)
      BY <2>2, <3>1, <3>3 DEF Walking, AnswerHolds
    <3> QED BY <1>3, <2>2, <2>5, <3>2, <3>3
  <2>6. CASE ~IsFound(c)
    <3>1. place \notin files'
      BY <1>3, <2>1, <2>2, <2>3, <2>6 DEF IsFound
    <3>2. NoFile \in possible'[c]
      BY <2>3, <2>4, <3>1
    <3> QED BY <1>3, <2>6, <3>2 DEF Walking, AnswerHolds
  <2> QED BY <2>5, <2>6
<1> QED BY <1>0, <1>1, <1>4, <1>5 DEF Walking

\* delete() of the file at the end: afterwards there is none.
LEMMA RemoveLookup ==
    ASSUME LocalInv, Shaped', Knows, NEW c \in Calls, RemoveFile(c),
           Named(request'[c].path, asked', files') \subseteq possible'[c]
    PROVE  Walking(c)' /\ AnswerHolds(c)'
<1> DEFINE p == request[c].path
<1>0. Shaped /\ Walking(c)
  BY TypeParts DEF LocalInv
<1>1. /\ pc[c] = "removing" /\ request' = request /\ asked' = asked
      /\ request[c] \in Requests /\ request[c].op \in Ops /\ possible[c] \subseteq possible'[c]
      /\ files' = files \ {handle[c]} /\ pc'[c] = "answered" /\ answer'[c] \in {NoFile, Unsaid}
  BY <1>0 DEF Shaped, RemoveFile, Settle, Walking, Knows
<1>2. p \in Paths /\ asked \subseteq Mountable /\ files' \subseteq Places \ Dirs
  BY <1>0, <1>1, RequestFacts DEF Shaped
<1>3. CASE Unsaid \in possible[c]
  BY <1>1, <1>3 DEF Walking, AnswerHolds
<1>4. ASSUME NEW m \in asked, OneNameLeft(c, m, p) PROVE NoFile \in possible'[c]
  <2>1. /\ m.handle \in Dirs /\ KeyBelow(m.key, p) /\ Len(p) = Len(m.key) + 1
        /\ handle[c] = Append(m.handle, Last(p))
    BY <1>1, <1>4 DEF OneNameLeft
  <2>2. Named(p, asked, files') = {IF Append(m.handle, Last(p)) \in files'
                                  THEN Append(m.handle, Last(p)) ELSE NoFile}
    BY <1>2, <2>1, OneFileNamed
  <2>3. Append(m.handle, Last(p)) \notin files'
    BY <1>1, <2>1
  <2> QED BY <1>1, <2>2, <2>3
<1>5. NoFile \in possible'[c] => Walking(c)' /\ AnswerHolds(c)'
  BY <1>1 DEF Walking, AnswerHolds
<1> QED BY <1>0, <1>1, <1>3, <1>4, <1>5 DEF Walking

-----------------------------------------------------------------------------
(* The invariant.                                                          *)

LEMMA InitLocalInv == LocalInit => LocalInv
<1> SUFFICES ASSUME LocalInit PROVE LocalInv
  OBVIOUS
<1>1. /\ queue = <<>> /\ pc = [c \in Calls |-> "idle"] /\ mounts \subseteq Mountable /\ asked = mounts
      /\ files \subseteq Places \ Dirs
  BY LocalAssumption DEF LocalInit
<1>2. queue \in Seq(Calls) /\ Distinct(queue) /\ Elements(queue) = {}
  <2>1. <<>> \in Seq(Calls) /\ Len(<<>>) = 0
    BY EmptySeq
  <2>2. 1..0 = {}
    OBVIOUS
  <2> QED BY <1>1, <2>1, <2>2 DEF Distinct, Elements
<1>3. {c \in Calls : pc[c] = "queued"} = {}
  BY <1>1
<1>4. <<>> \in Paths
  BY EmptySeq DEF Paths
<1>5. Shaped
  BY <1>1, <1>2, <1>3, <1>4 DEF LocalInit, Shaped
<1>6. Answering
  BY DEF LocalInit, Answering
<1>7. Awaited
  BY <1>1, <1>3 DEF Awaited, Queued
<1>8. ASSUME NEW c \in Calls PROVE Walking(c) /\ AnswerHolds(c)
  BY <1>1 DEF Walking, AnswerHolds
<1> QED BY <1>5, <1>6, <1>7, <1>8, TypeParts DEF LocalInv

\* Each step keeps the lookups true, that of the call that takes it and the others.
LEMMA NextLocalInv == LocalInv /\ LocalNext => LocalInv'
<1> SUFFICES ASSUME LocalInv, LocalNext PROVE LocalInv'
  OBVIOUS
<1>1. Shaped /\ Answering /\ Awaited /\ Shaped'
  BY TypeParts, NextShaped DEF LocalInv
<1>2. /\ Answering' /\ Knows
      /\ \A c \in Calls : pc[c] # "answered" /\ pc'[c] # "idle" /\ request'[c].op # "mount" =>
           Named(request'[c].path, asked', files') \subseteq possible'[c]
  BY <1>1, RememberFacts DEF LocalNext, Knows
<1>3. LocalTypeOK'
  BY <1>1, <1>2 DEF LocalTypeOK, Shaped, Answering, Distinct, Elements, Paths
<1> SUFFICES Awaited' /\ \A c \in Calls : Walking(c)' /\ AnswerHolds(c)'
  BY <1>3 DEF LocalInv
<1>4. asked \subseteq asked'
  BY DEF LocalNext, Answers, Proceed, OpenDb, Reject, Mount, Scan, Walk, RemoveFile, Call, Meddle
<1>5. \A d \in Calls :
        /\ pc'[d] = pc[d] /\ request'[d] = request[d] /\ handle'[d] = handle[d]
        /\ path'[d] = path[d] /\ answer'[d] = answer[d]
        => Walking(d)' /\ AnswerHolds(d)'
  BY <1>2, <1>4, LookupStays
<1>6. CASE OpenDb
  <2>1. UNCHANGED <<queue, mounts, pc, request, handle, path, answer, asked>> /\ db # "failed"
    BY <1>6 DEF OpenDb
  <2> QED BY <1>1, <1>2, <1>5, <2>1, AwaitedStays
<1>7. ASSUME NEW place \in Shared, Meddle(place)
      PROVE  Awaited' /\ \A c \in Calls : Walking(c)' /\ AnswerHolds(c)'
  <2>1. UNCHANGED <<db, queue, mounts, pc, request, handle, path, answer, asked>>
    BY <1>7 DEF Meddle
  <2> QED BY <1>1, <1>2, <1>5, <2>1, AwaitedStays
<1>8. ASSUME NEW c \in Calls, NEW r \in Requests, Call(c, r)
      PROVE  Awaited' /\ \A d \in Calls : Walking(d)' /\ AnswerHolds(d)'
  <2>1. /\ pc[c] = "idle" /\ pc'[c] = "queued" /\ request'[c] = r
        /\ \A d \in Calls \ {c} : pc'[d] = pc[d] /\ request'[d] = request[d]
        /\ UNCHANGED <<handle, path, answer>>
    BY <1>1, <1>8 DEF Shaped, Call
  <2>2. Awaited'
    BY <1>1, <1>2, <1>8, <2>1, AwaitedCall
  <2>3. Walking(c)' /\ AnswerHolds(c)'
    BY <2>1 DEF Walking, AnswerHolds
  <2> QED BY <1>5, <2>1, <2>2, <2>3
<1>9. ASSUME NEW c \in Calls, Proceed(c)
      PROVE  Awaited' /\ \A d \in Calls : Walking(d)' /\ AnswerHolds(d)'
  <2>1. /\ request' = request /\ pc[c] \in {"queued", "walking", "removing"} /\ pc'[c] # "idle"
        /\ \A d \in Calls \ {c} : /\ pc'[d] = pc[d] /\ handle'[d] = handle[d]
                                  /\ path'[d] = path[d] /\ answer'[d] = answer[d]
    BY <1>1, <1>9 DEF Shaped, Proceed, Reject, Mount, Scan, Turn, Walk, RemoveFile, Settle
  <2>2. \A d \in Calls \ {c} : Walking(d)' /\ AnswerHolds(d)'
    BY <1>5, <2>1
  <2> SUFFICES Awaited' /\ Walking(c)' /\ AnswerHolds(c)'
    BY <2>2
  <2>3. pc[c] \in {"walking", "removing"} =>
          Named(request'[c].path, asked', files') \subseteq possible'[c]
    <3>1. pc[c] \in {"walking", "removing"} => request[c].op \in Ops
      BY DEF LocalInv, Walking
    <3> QED BY <1>2, <2>1, <3>1 DEF Ops
  <2>4. CASE Reject(c)
    <3>1. /\ db' \in {"open", "failed"} /\ db' = db
          /\ pc'[c] = "answered" /\ answer'[c] = Unsaid
      BY <1>1, <2>4 DEF Shaped, Reject, Turn, Settle
    <3>2. Awaited'
      <4>1. CASE db = "open"
        BY <1>2, <2>4, <4>1, AwaitedTurn
      <4>2. CASE db = "failed"
        BY <3>1, <4>2 DEF Awaited
      <4> QED BY <3>1, <4>1, <4>2
    <3> QED BY <3>1, <3>2 DEF Walking, AnswerHolds
  <2>5. CASE Mount(c)
    <3>1. request'[c].op = "mount" /\ pc'[c] = "answered"
      BY <1>1, <2>5 DEF Shaped, Mount, Settle
    <3>2. Awaited'
      BY <1>2, <2>5, AwaitedTurn
    <3> QED BY <3>1, <3>2 DEF Walking, AnswerHolds
  <2>6. CASE Scan(c)
    BY <1>1, <1>2, <2>6, AwaitedTurn, ScanLookup
  <2>7. CASE Walk(c)
    <3>1. pc[c] = "walking" /\ UNCHANGED <<db, queue, mounts, request, asked>> /\ pc'[c] # "queued"
      BY <1>1, <2>7 DEF Shaped, Walk, Settle
    <3>2. Awaited'
      BY <1>1, <1>2, <2>1, <3>1, AwaitedStays
    <3> QED BY <1>1, <1>2, <2>3, <2>7, <3>1, <3>2, WalkLookup
  <2>8. CASE RemoveFile(c)
    <3>1. pc[c] = "removing" /\ UNCHANGED <<db, queue, mounts, request, asked>> /\ pc'[c] # "queued"
      BY <1>1, <2>8 DEF Shaped, RemoveFile, Settle
    <3>2. Awaited'
      BY <1>1, <1>2, <2>1, <3>1, AwaitedStays
    <3> QED BY <1>1, <1>2, <2>3, <2>8, <3>1, <3>2, RemoveLookup
  <2> QED BY <1>9, <2>4, <2>5, <2>6, <2>7, <2>8 DEF Proceed
<1> QED BY <1>6, <1>7, <1>8, <1>9 DEF LocalNext, Answers

\* The invariant of the Local VFS, for any file system, handles and pathnames.
THEOREM LocalInvariant == LocalSpec => []LocalInv
<1>1. LocalInv /\ UNCHANGED localVars => LocalInv'
  <2> SUFFICES ASSUME LocalInv, UNCHANGED localVars PROVE LocalInv'
    OBVIOUS
  <2>1. LocalTypeOK'
    <3>1. /\ db' = db /\ queue' = queue /\ mounts' = mounts /\ files' = files /\ pc' = pc
          /\ request' = request /\ handle' = handle /\ path' = path /\ answer' = answer
          /\ asked' = asked /\ possible' = possible /\ LocalTypeOK
      BY DEF LocalInv, localVars
    <3>2. Shaped /\ Answering
      BY <3>1, TypeParts
    <3>3. Shaped'
      BY <3>1, <3>2 DEF Shaped
    <3>4. Answering'
      BY <3>1, <3>2 DEF Answering
    <3> QED BY <3>3, <3>4 DEF LocalTypeOK, Shaped, Answering, Distinct, Elements, Paths
  <2>2. Awaited'
    BY AwaitedStays DEF LocalInv, Knows, localVars
  <2>3. \A c \in Calls : Walking(c)' /\ AnswerHolds(c)'
    BY LookupStays DEF Knows, localVars
  <2> QED BY <2>1, <2>2, <2>3 DEF LocalInv
<1> QED BY <1>1, InitLocalInv, NextLocalInv, PTL DEF LocalSpec

\* Types, and with them the queue: it holds each call that waits once, and a lookup
\* that walks has a handle of the file system and a name left.
THEOREM LocalTypeCorrect == LocalSpec => []LocalTypeOK
<1>1. LocalInv => LocalTypeOK BY DEF LocalInv
<1> QED BY <1>1, LocalInvariant, PTL

\* An answer was true at one moment of its call, whatever other calls and other pages
\* did between its steps, and with every mount() that was called before it.
THEOREM LookupsAnswerTruly == LocalSpec => []AnswersHold
<1>1. LocalInv => AnswersHold BY DEF LocalInv, AnswerHolds, AnswersHold
<1> QED BY <1>1, LocalInvariant, PTL

=============================================================================
