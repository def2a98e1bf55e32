---------------------------- MODULE FileIO_proofs ----------------------------
(***************************************************************************)
(* Proofs about FileIO, for any number of Files, pages and transactions,   *)
(* whatever applications do and whatever fails (any Uses).  What mishaps   *)
(* names is in the properties: from a rollback without a stream, a         *)
(* truncation, or a transaction that has written into the file or a stream *)
(* before its commit and does not come to it, they promise nothing more.   *)
(***************************************************************************)
EXTENDS FileIO, SequenceTheorems, TLAPS

\* A File is at EXCLUSIVE, alone, for as long as its pager has a transaction.
Alone ==
    \A f \in Files :
        /\ phase[f] # "reader" <=> level[f] = 4
        /\ level[f] = 4 => \A g \in Files \ {f} : level[g] = 0

\* What the transaction of a File is to leave, and what is still to be written: page 1
\* among it for as long as no stream has a page of a batch.
Goals ==
    \A f \in Files :
        /\ phase[f] = "reader" <=> goal[f] = none
        /\ phase[f] \in {"writing", "batch", "rollbatch", "journal", "synced"} =>
              goal[f][1] > committed[1]
        /\ phase[f] \in {"committed", "undone"} => goal[f] = committed
        /\ todo[f] \subseteq IF goal[f] = none THEN {} ELSE 1..Len(goal[f])
        /\ phase[f] = "writing" \/ (phase[f] = "batch" /\ writable[f] = none) => 1 \in todo[f]

\* The transactions that wrote the pages have begun.
Begun ==
    /\ \A p \in 1..Len(committed) : committed[p] <= ntx
    /\ \A f \in Files : goal[f] # none => \A p \in 1..Len(goal[f]) : goal[f][p] <= ntx

\* What holds whatever has happened.
Base == TypeOK /\ Alone /\ Goals /\ Begun

\* The file is the database as committed, or as the transaction that is about to
\* be committed leaves it, or has some pages of one that has closed its stream.
InFile ==
    /\ \A f \in Files : phase[f] = "synced" => Holds(disk, goal[f])
    /\ (\A f \in Files : phase[f] # "synced") /\ "reread" \notin mishaps =>
          Holds(disk, committed)
    /\ "reread" \in mishaps => \E f \in Files : phase[f] \in {"journal", "synced"}

\* A file or a stream has the pages of a transaction but for those still to be written.
Written(d, g, W) == \A p \in 1..Len(g) : p \notin W => p <= Len(d) /\ d[p] = g[p]

\* In which phase a File has a stream, and what is in it, or in the file for want of one.
StreamOf(f) ==
    /\ atomic[f] <=> phase[f] \in {"batch", "rollbatch"}
    /\ writable[f] = none => dirty[f] = {}
    /\ Open(writable[f]) => phase[f] \in {"batch", "journal"}
    /\ phase[f] \in {"writing", "batch", "journal"} /\ Usable(f) =>
          Written(Stream(f), goal[f], todo[f])
Streams == \A f \in Files : StreamOf(f)

\* What holds until a mishap.
Sound == InFile /\ Streams

FileInv == Base /\ (Kept => Sound)

-----------------------------------------------------------------------------
(* Images of a database.                                                   *)

\* A function on 1..n is a sequence of n elements.
LEMMA FunctionIsSeq ==
    ASSUME NEW S, NEW n \in Nat, NEW q \in [1..n -> S]
    PROVE  q \in Seq(S) /\ Len(q) = n
<1>1. q \in Seq(S)
  BY SeqDef
<1> QED BY <1>1, LenProperties

\* Images are sequences of pages.
LEMMA ImagesAreSeqs ==
    \A d : d \in Images <=> d \in Seq(0..MaxTx) /\ Len(d) \in Pages
<1>1. ASSUME NEW d \in Images PROVE d \in Seq(0..MaxTx) /\ Len(d) \in Pages
  <2>1. PICK n \in Pages : d \in [1..n -> 0..MaxTx]
    BY DEF Images
  <2> QED BY <2>1, FunctionIsSeq, ConstantsAssumption DEF Pages
<1>2. ASSUME NEW d \in Seq(0..MaxTx), Len(d) \in Pages PROVE d \in Images
  <2>1. d \in [1..Len(d) -> 0..MaxTx]
    BY <1>2, LenProperties
  <2> QED BY <1>2, <2>1 DEF Images
<1> QED BY <1>1, <1>2

LEMMA ImagePages ==
    ASSUME NEW d \in Images
    PROVE  /\ Len(d) \in Pages /\ Len(d) \in 1..MaxPages
           /\ \A p \in 1..Len(d) : d[p] \in 0..MaxTx
BY ImagesAreSeqs, ElementOfSeq DEF Pages

\* An image is none of the values of a missing stream or blob.
LEMMA ImageIsNot == \A d \in Images : d \notin {none, errored}
<1>1. ASSUME NEW d \in Images PROVE d \in Seq(Nat)
  <2>1. d \in Seq(0..MaxTx) /\ 0..MaxTx \subseteq Nat
    BY ImagesAreSeqs, ConstantsAssumption
  <2> QED BY <2>1, SeqMonotonic
<1> QED BY <1>1, ConstantsAssumption

\* What write() makes of a file.
LEMMA PutFacts ==
    ASSUME NEW d \in Images, NEW p \in Pages, NEW v \in 0..MaxTx
    PROVE  /\ Put(d, p, v) \in Images
           /\ Len(Put(d, p, v)) = IF p > Len(d) THEN p ELSE Len(d)
           /\ \A i \in 1..Len(Put(d, p, v)) :
                 Put(d, p, v)[i] = IF i = p THEN v ELSE IF i <= Len(d) THEN d[i] ELSE 0
<1> DEFINE n == IF p > Len(d) THEN p ELSE Len(d)
<1>1. n \in Pages /\ n \in Nat
  BY ImagePages, ConstantsAssumption DEF Pages
<1>2. Put(d, p, v) \in [1..n -> 0..MaxTx]
  BY ImagePages, ConstantsAssumption DEF Put, Pages
<1>3. Put(d, p, v) \in Images /\ Len(Put(d, p, v)) = n
  BY <1>1, <1>2, FunctionIsSeq DEF Images
<1> QED BY <1>3 DEF Put

\* What a transaction is to leave.
LEMMA ImageFacts ==
    ASSUME NEW d \in Images, NEW n \in Pages, NEW W, NEW v \in 0..MaxTx,
           \A p \in 1..n : p \in W \/ p <= Len(d)
    PROVE  /\ Image(d, n, W, v) \in Images
           /\ Len(Image(d, n, W, v)) = n
           /\ \A p \in 1..n : Image(d, n, W, v)[p] = IF p \in W THEN v ELSE d[p]
<1>1. Image(d, n, W, v) \in [1..n -> 0..MaxTx]
  BY ImagePages, ConstantsAssumption DEF Image, Pages
<1>2. n \in Nat
  BY ConstantsAssumption DEF Pages
<1>3. Image(d, n, W, v) \in Images /\ Len(Image(d, n, W, v)) = n
  BY <1>1, <1>2, FunctionIsSeq DEF Images
<1> QED BY <1>3 DEF Image

\* What trunc() makes of a file.
LEMMA TruncatedImage ==
    ASSUME NEW d \in Images, NEW n \in Pages PROVE Truncated(d, n) \in Images
<1>1. Truncated(d, n) \in [1..n -> 0..MaxTx]
  BY ImagePages, ConstantsAssumption DEF Truncated, Pages
<1> QED BY <1>1 DEF Images

\* A file that has all pages of a transaction holds what it is to leave.
LEMMA AllWritten ==
    ASSUME NEW d \in Images, NEW g \in Images, Written(d, g, {})
    PROVE  Holds(d, g)
<1>1. Len(g) \in 1..MaxPages /\ Len(d) \in 1..MaxPages
  BY ImagePages
<1>2. Len(g) \in 1..Len(g)
  BY <1>1, ConstantsAssumption
<1>3. Len(g) <= Len(d)
  BY <1>2 DEF Written
<1> QED BY <1>3 DEF Written, Holds

\* The pages that a transaction leaves alone are in the file before it writes.
LEMMA NoneWritten ==
    ASSUME NEW d \in Images, NEW c \in Images, NEW g \in Images, Holds(d, c)
    PROVE  Written(d, g, Changed(c, g))
<1>1. Len(c) \in 1..MaxPages /\ Len(d) \in 1..MaxPages /\ Len(g) \in 1..MaxPages
  BY ImagePages
<1>2. ASSUME NEW p \in 1..Len(g), p \notin Changed(c, g) PROVE p <= Len(d) /\ d[p] = g[p]
  <2>1. p <= Len(c) /\ g[p] = c[p]
    BY <1>1, <1>2 DEF Changed
  <2>2. p \in 1..Len(c)
    BY <1>1, <2>1
  <2> QED BY <1>1, <2>1, <2>2 DEF Holds
<1> QED BY <1>2 DEF Written

\* A transaction that makes page 1 newer changes it, and changes pages of its own only.
LEMMA ChangedFacts ==
    ASSUME NEW c \in Images, NEW g \in Images
    PROVE  /\ Changed(c, g) \subseteq 1..Len(g) /\ Changed(c, g) \subseteq Pages
           /\ g[1] > c[1] => 1 \in Changed(c, g)
<1>1. Len(c) \in 1..MaxPages /\ Len(g) \in 1..MaxPages
  BY ImagePages
<1>2. 1 \in 1..Len(g) /\ 1 \in 1..Len(c) /\ 1..Len(g) \subseteq Pages
  BY <1>1, ConstantsAssumption DEF Pages
<1>3. g[1] \in Nat /\ c[1] \in Nat
  BY <1>2, ImagePages, ConstantsAssumption
<1> QED BY <1>2, <1>3 DEF Changed

-----------------------------------------------------------------------------
(* The steps.                                                              *)

LEMMA InitFileInv == Init => FileInv
<1> SUFFICES ASSUME Init PROVE FileInv
  OBVIOUS
<1>1. disk \in Images
  <2>1. <<0, 0>> \in [1..2 -> 0..MaxTx] /\ 2 \in Pages
    BY ConstantsAssumption DEF Pages
  <2> QED BY <2>1 DEF Init, Images
<1>2. TypeOK
  BY <1>1, ConstantsAssumption DEF Init, TypeOK
<1>3. Alone /\ Goals /\ Begun
  BY ConstantsAssumption DEF Init, Alone, Goals, Begun
<1>4. Sound
  BY ConstantsAssumption DEF Init, Sound, InFile, Streams, StreamOf, Holds, Open
<1> QED BY <1>2, <1>3, <1>4 DEF FileInv, Base

\* The locks, as all Files are of one database.
LEMMA LockFacts ==
    ASSUME NEW f \in Files
    PROVE  /\ Lock!Share(f) => /\ level[f] = 0
                               /\ \A g \in Files \ {f} : level[g] # 4
                               /\ level' = [level EXCEPT ![f] = 1]
           /\ Lock!Exclude(f) => /\ \A g \in Files \ {f} : level[g] = 0
                                 /\ level' = [level EXCEPT ![f] = 4]
           /\ \A l \in {0, 1} : Lock!Unlock(f, l) => level' = [level EXCEPT ![f] = l]
BY DEF Lock!Share, Lock!Exclude, Lock!Unlock, Lock!Others

\* While one File has a transaction no other has; without one, and until a stream is
\* closed, the file is as committed.
LEMMA WhoWrites ==
    ASSUME FileInv
    PROVE  /\ \A f \in Files : phase[f] # "reader" =>
                 level[f] = 4 /\ \A g \in Files \ {f} : level[g] = 0 /\ phase[g] = "reader"
           /\ Kept /\ (\A f \in Files : phase[f] \notin {"journal", "synced"}) =>
                 Holds(disk, committed) /\ "reread" \notin mishaps
BY DEF FileInv, Base, Alone, TypeOK, Sound, InFile

\* What a File that has a transaction is about.
LEMMA GoalFacts ==
    ASSUME FileInv, NEW f \in Files, phase[f] # "reader"
    PROVE  /\ goal[f] \in Images /\ goal[f] # none /\ todo[f] \subseteq 1..Len(goal[f])
           /\ committed \in Images /\ disk \in Images
BY DEF FileInv, Base, Goals, TypeOK

LEMMA ShareStep == ASSUME FileInv, NEW f \in Files, Share(f) PROVE FileInv'
<1>1. level[f] = 0 /\ level' = [level EXCEPT ![f] = 1] /\ \A g \in Files \ {f} : level[g] # 4
  BY LockFacts DEF Share
<1> USE DEF FileInv, Base, Share, lock1, dbVars
<1>2. Len(disk) \in 0..MaxPages
  BY ImagePages, ConstantsAssumption DEF TypeOK
<1>3. TypeOK'
  BY <1>1, <1>2 DEF TypeOK
<1>4. Alone' /\ Goals' /\ Begun'
  BY <1>1 DEF Alone, Goals, Begun, TypeOK
<1>5. (Kept => Sound)'
  BY DEF Kept, Sound, InFile, Streams, StreamOf, Open, Usable, Stream
<1> QED BY <1>3, <1>4, <1>5

LEMMA UnshareStep == ASSUME FileInv, NEW f \in Files, Unshare(f) PROVE FileInv'
<1>1. level[f] = 1 /\ level' = [level EXCEPT ![f] = 0]
  BY LockFacts DEF Unshare
<1> USE DEF FileInv, Base, Unshare, dbVars, fileVars
<1>2. TypeOK'
  BY <1>1 DEF TypeOK
<1>3. Alone' /\ Goals' /\ Begun'
  BY <1>1 DEF Alone, Goals, Begun, TypeOK
<1>4. (Kept => Sound)'
  BY DEF Kept, Sound, InFile, Streams, StreamOf, Open, Usable, Stream
<1> QED BY <1>2, <1>3, <1>4

\* A read that finds a dirty page: but for a mishap that is one which a transaction has
\* spilled, whose stream it closes, or one of a stream that has failed.
LEMMA ReadStep == ASSUME FileInv, NEW f \in Files, NEW p \in Pages, Read(f, p) PROVE FileInv'
<1> USE DEF FileInv, Base
<1>1. /\ phase[f] \in {"reader", "writing", "journal"}
      /\ UNCHANGED <<committed, ntx, level, phase, goal, todo, size, atomic>>
      /\ mishaps' = mishaps \cup IF phase[f] = "journal" /\ MustSync(f, p) /\ writable'[f] = none
                                 THEN {"reread"} ELSE {}
  BY DEF Read, pagerVars
<1>2. \/ /\ MustSync(f, p) /\ Open(writable[f]) /\ writable[f] \in Images
         /\ disk' = writable[f] /\ writable' = [writable EXCEPT ![f] = none]
         /\ dirty' = [dirty EXCEPT ![f] = {}]
         /\ blob' \in [Files -> Images \cup {none}]
      \/ /\ MustSync(f, p) /\ writable' = [writable EXCEPT ![f] = errored]
         /\ UNCHANGED <<disk, dirty, blob>>
      \/ /\ UNCHANGED <<disk, writable, dirty>> /\ blob' \in [Files -> Images \cup {none}]
  <2>1. CASE MustSync(f, p) /\ Usable(f) /\ Closes(f)
             /\ \/ blob' = [blob EXCEPT ![f] = writable[f]]
                \/ "get" \in Uses /\ blob' = [blob EXCEPT ![f] = none]
    <3>1. writable[f] \in Images /\ Open(writable[f])
      BY <2>1 DEF MustSync, SyncDoesNothing, Usable, TypeOK, Open
    <3> QED BY <2>1, <3>1 DEF Closes, TypeOK
  <2>2. CASE MustSync(f, p) /\ CloseFails(f) /\ UNCHANGED blob
    BY <2>2 DEF CloseFails
  <2>3. CASE /\ UNCHANGED <<disk, writable, dirty>>
             /\ \/ blob' = [blob EXCEPT ![f] = IF @ = none THEN disk ELSE @]
                \/ UNCHANGED blob
    BY <2>3 DEF TypeOK
  <2> QED BY <2>1, <2>2, <2>3 DEF Read, reads
<1>3. TypeOK'
  <2>1. mishaps' \subseteq Mishaps
    BY <1>1 DEF TypeOK, Mishaps
  <2> QED BY <1>1, <1>2, <2>1 DEF TypeOK
<1>4. Alone' /\ Goals' /\ Begun'
  BY <1>1, <1>2, ConstantsAssumption DEF Alone, Goals, Begun, TypeOK
<1>5. ASSUME Kept' PROVE Sound'
  <2>1. Kept /\ Sound
    BY <1>1, <1>5 DEF Kept
  <2>2. CASE UNCHANGED <<disk, writable, dirty>>
    <3>1. mishaps' = mishaps \/ phase[f] = "journal"
      BY <1>1
    <3>2. InFile'
      BY <1>1, <2>1, <2>2, <3>1 DEF Sound, InFile
    <3>3. Streams'
      BY <1>1, <2>1, <2>2 DEF Sound, Streams, StreamOf, Open, Usable, Stream
    <3> QED BY <3>2, <3>3 DEF Sound
  <2>3. CASE /\ MustSync(f, p) /\ writable' = [writable EXCEPT ![f] = errored]
             /\ UNCHANGED <<disk, dirty>>
    <3>1. mishaps' = mishaps
      BY <1>1, <2>3, ConstantsAssumption DEF TypeOK
    <3>2. InFile'
      BY <1>1, <2>1, <2>3, <3>1 DEF Sound, InFile
    <3>3. Streams'
      BY <1>1, <2>1, <2>3, ConstantsAssumption
         DEF Sound, Streams, StreamOf, Open, Usable, Stream, TypeOK
    <3> QED BY <3>2, <3>3 DEF Sound
  <2>4. CASE /\ MustSync(f, p) /\ Open(writable[f]) /\ writable[f] \in Images
             /\ disk' = writable[f] /\ writable' = [writable EXCEPT ![f] = none]
             /\ dirty' = [dirty EXCEPT ![f] = {}]
    <3>1. phase[f] = "journal" /\ StreamOf(f)
      BY <1>1, <2>1, <2>4 DEF Sound, Streams, StreamOf
    <3>2. "reread" \in mishaps' /\ \A g \in Files \ {f} : phase[g] = "reader"
      BY <1>1, <2>4, <3>1, WhoWrites DEF TypeOK
    <3>3. InFile'
      BY <1>1, <3>1, <3>2 DEF InFile
    <3>4. StreamOf(f)'
      <4>1. Stream(f)' = Stream(f)
        BY <2>4 DEF Stream, Open, TypeOK
      <4>2. Written(Stream(f), goal[f], todo[f])
        BY <2>4, <3>1 DEF StreamOf, Open, Usable
      <4>3. writable'[f] = none /\ dirty'[f] = {}
        BY <2>4 DEF TypeOK
      <4> QED BY <1>1, <3>1, <4>1, <4>2, <4>3 DEF StreamOf, Open
    <3>5. ASSUME NEW g \in Files \ {f} PROVE StreamOf(g)'
      BY <1>1, <2>1, <2>4, <3>2 DEF Sound, Streams, StreamOf, TypeOK
    <3> QED BY <3>3, <3>4, <3>5 DEF Sound, Streams
  <2> QED BY <1>2, <2>2, <2>3, <2>4
<1> QED BY <1>3, <1>4, <1>5

LEMMA StartWriteStep == ASSUME FileInv, NEW f \in Files, StartWrite(f) PROVE FileInv'
<1>1. /\ phase[f] = "reader" /\ level[f] = 1
      /\ \A g \in Files \ {f} : level[g] = 0
      /\ level' = [level EXCEPT ![f] = 4]
  BY LockFacts DEF StartWrite
<1>2. ntx' = ntx + 1 /\ ntx' \in 0..MaxTx /\ ntx \in Nat
  <2>1. ntx \in 0..MaxTx /\ ntx < MaxTx /\ ntx' = ntx + 1
    BY DEF StartWrite, FileInv, Base, TypeOK
  <2> QED BY <2>1, ConstantsAssumption
<1>3. PICK n \in Pages, W \in SUBSET (2..MaxPages) :
        /\ (Len(committed) + 1)..n \subseteq W
        /\ LET g == Image(committed, n, W \cup {1}, ntx') IN
              Becomes(f, "writing", g, Changed(committed, g))
  BY DEF StartWrite
<1> DEFINE g == Image(committed, n, W \cup {1}, ntx')
<1> HIDE DEF g
<1>4. committed \in Images /\ disk \in Images /\ Len(committed) \in 1..MaxPages /\ n \in 1..MaxPages
  BY <1>3, ImagePages DEF FileInv, Base, TypeOK, Pages
<1>5. /\ g \in Images /\ Len(g) = n
      /\ \A p \in 1..n : g[p] = IF p \in W \cup {1} THEN ntx' ELSE committed[p]
  <2>1. \A p \in 1..n : p \in W \cup {1} \/ p <= Len(committed)
    BY <1>3, <1>4
  <2> QED BY <1>2, <1>4, <2>1, ImageFacts DEF g, Pages
<1>6. /\ phase' = [phase EXCEPT ![f] = "writing"]
      /\ goal' = [goal EXCEPT ![f] = g]
      /\ todo' = [todo EXCEPT ![f] = Changed(committed, g)]
      /\ UNCHANGED <<disk, committed, writable, blob, size, atomic, dirty, mishaps>>
  BY <1>3 DEF Becomes, g, StartWrite, fileVars
<1>7. g # none /\ Changed(committed, g) \subseteq 1..Len(g) /\ Changed(committed, g) \subseteq Pages
  BY <1>4, <1>5, ImageIsNot, ChangedFacts
<1>8. \A p \in 1..Len(committed) : committed[p] <= ntx /\ committed[p] \in Nat
  BY <1>4, ImagePages, ConstantsAssumption DEF FileInv, Base, Begun
<1>9. g[1] > committed[1] /\ 1 \in Changed(committed, g)
  <2>1. g[1] > committed[1]
    BY <1>2, <1>4, <1>5, <1>8
  <2> QED BY <1>4, <1>5, <2>1, ChangedFacts
<1>10. \A h \in Files : goal[h] = none /\ phase[h] = "reader"
  BY <1>1 DEF FileInv, Base, Goals, Alone
<1> USE DEF FileInv, Base
<1>11. TypeOK'
  BY <1>1, <1>2, <1>5, <1>6, <1>7 DEF TypeOK
<1>12. Alone'
  BY <1>1, <1>6 DEF Alone, TypeOK
<1>13. Goals'
  BY <1>5, <1>6, <1>7, <1>9 DEF Goals, TypeOK
<1>14. Begun'
  <2>1. \A p \in 1..Len(committed) : committed[p] <= ntx'
    BY <1>2, <1>8
  <2>2. \A p \in 1..Len(g) : g[p] <= ntx'
    BY <1>2, <1>3, <1>4, <1>5, <2>1
  <2> QED BY <1>6, <1>10, <2>1, <2>2 DEF TypeOK, Begun
<1>15. ASSUME Kept' PROVE Sound'
  <2>1. Kept /\ Sound /\ Holds(disk, committed) /\ "reread" \notin mishaps
    BY <1>6, <1>10, <1>15, WhoWrites DEF Kept
  <2>2. InFile'
    BY <1>6, <1>10, <2>1 DEF InFile, TypeOK
  <2>3. StreamOf(f)'
    <3>1. phase'[f] = "writing" /\ goal'[f] = g /\ todo'[f] = Changed(committed, g)
      BY <1>6 DEF TypeOK
    <3>2. ~atomic[f] /\ ~Open(writable[f]) /\ (writable[f] = none => dirty[f] = {})
      BY <1>10, <2>1 DEF Sound, Streams, StreamOf
    <3>3. Usable(f)' => Stream(f)' = disk
      BY <1>6, <3>2 DEF Usable, Stream, Open
    <3>4. Written(disk, g, Changed(committed, g))
      BY <1>4, <1>5, <2>1, NoneWritten
    <3> QED BY <1>6, <3>1, <3>2, <3>3, <3>4 DEF StreamOf
  <2>4. ASSUME NEW h \in Files \ {f} PROVE StreamOf(h)'
    <3>1. phase'[h] = "reader"
      BY <1>6, <1>10 DEF TypeOK
    <3> QED BY <1>6, <1>10, <2>1, <3>1 DEF Sound, Streams, StreamOf
  <2> QED BY <2>2, <2>3, <2>4 DEF Sound, Streams
<1> QED BY <1>11, <1>12, <1>13, <1>14, <1>15

LEMMA BeginBatchStep == ASSUME FileInv, NEW f \in Files, BeginBatch(f) PROVE FileInv'
<1> USE DEF FileInv, Base
<1>1. /\ phase[f] = "writing"
      /\ phase' = [phase EXCEPT ![f] = "batch"] /\ goal' = goal /\ todo' = todo
      /\ atomic' = [atomic EXCEPT ![f] = TRUE]
      /\ UNCHANGED <<writable, blob, size, dirty, disk, committed, ntx, level, mishaps>>
  BY DEF BeginBatch, BeginAtomicWrite, Becomes, dbVars, TypeOK
<1>2. TypeOK'
  BY <1>1 DEF TypeOK
<1>3. Alone' /\ Goals' /\ Begun'
  BY <1>1 DEF Alone, Goals, Begun, TypeOK
<1>4. ASSUME Kept' PROVE Sound'
  <2>1. Kept /\ Sound
    BY <1>1, <1>4 DEF Kept
  <2>2. InFile'
    BY <1>1, <2>1 DEF Sound, InFile, TypeOK
  <2>3. Streams'
    BY <1>1, <2>1 DEF Sound, Streams, StreamOf, Open, Usable, Stream, TypeOK
  <2> QED BY <2>2, <2>3 DEF Sound
<1> QED BY <1>2, <1>3, <1>4

\* The step that closes the stream of a transaction that has written all its pages.
LEMMA ClosesStep ==
    ASSUME FileInv, NEW f \in Files, phase[f] \in {"batch", "journal"}, todo[f] = {},
           Open(writable[f]), Closes(f), Becomes(f, "synced", goal[f], {}),
           atomic' \in [Files -> BOOLEAN],
           Kept => atomic' = [atomic EXCEPT ![f] = FALSE],
           blob' \in {blob, [blob EXCEPT ![f] = none]},
           UNCHANGED <<committed, ntx, level, size, mishaps>>
    PROVE  FileInv'
<1> USE DEF FileInv, Base
<1>1. writable[f] \in Images /\ goal[f] \in Images
  BY GoalFacts DEF TypeOK, Open
<1>2. /\ disk' = writable[f]
      /\ writable' = [writable EXCEPT ![f] = none] /\ dirty' = [dirty EXCEPT ![f] = {}]
      /\ phase' = [phase EXCEPT ![f] = "synced"] /\ goal' = goal
      /\ todo' = [todo EXCEPT ![f] = {}]
  BY DEF Closes, Becomes, TypeOK
<1>3. TypeOK'
  BY <1>1, <1>2 DEF TypeOK
<1>4. Alone' /\ Goals' /\ Begun'
  BY <1>2 DEF Alone, Goals, Begun, TypeOK
<1>5. ASSUME Kept' PROVE Sound'
  <2>1. Kept /\ Sound /\ StreamOf(f) /\ \A g \in Files \ {f} : phase[g] = "reader"
    BY <1>5, WhoWrites DEF Kept, Sound, Streams
  <2>2. Holds(disk', goal[f])
    <3>1. Stream(f) = writable[f] /\ Usable(f)
      BY DEF Stream, Usable, Open
    <3>2. Written(writable[f], goal[f], {})
      BY <2>1, <3>1 DEF StreamOf
    <3> QED BY <1>1, <1>2, <3>2, AllWritten
  <2>3. phase'[f] = "synced" /\ \A g \in Files \ {f} : phase'[g] = "reader"
    BY <1>2, <2>1 DEF TypeOK
  <2>4. InFile'
    BY <1>2, <2>2, <2>3 DEF InFile
  <2>5. StreamOf(f)'
    BY <1>2, <2>1, <2>3 DEF StreamOf, Open, TypeOK
  <2>6. ASSUME NEW g \in Files \ {f} PROVE StreamOf(g)'
    BY <1>2, <2>1, <2>3 DEF Sound, Streams, StreamOf, TypeOK
  <2> QED BY <2>4, <2>5, <2>6 DEF Sound, Streams
<1> QED BY <1>3, <1>4, <1>5

\* A batch that fails is to be rolled back; its stream has failed, or there is none.
LEMMA BatchFails ==
    ASSUME FileInv, NEW f \in Files, phase[f] = "batch",
           Becomes(f, "rollbatch", goal[f], {}),
           \/ writable' = [writable EXCEPT ![f] = errored]
           \/ writable' = writable /\ ~Open(writable[f]),
           UNCHANGED <<disk, committed, ntx, level, blob, size, atomic, dirty, mishaps>>
    PROVE  FileInv'
<1> USE DEF FileInv, Base
<1>1. /\ phase' = [phase EXCEPT ![f] = "rollbatch"] /\ goal' = goal
      /\ todo' = [todo EXCEPT ![f] = {}]
  BY DEF Becomes, TypeOK
<1>2. TypeOK'
  BY <1>1 DEF TypeOK
<1>3. Alone' /\ Goals' /\ Begun'
  BY <1>1 DEF Alone, Goals, Begun, TypeOK
<1>4. ASSUME Kept' PROVE Sound'
  <2>1. Kept /\ Sound /\ \A g \in Files \ {f} : phase[g] = "reader"
    BY <1>4, WhoWrites DEF Kept
  <2>2. Holds(disk, committed) /\ "reread" \notin mishaps
    BY <2>1, WhoWrites DEF TypeOK
  <2>3. phase'[f] = "rollbatch" /\ \A g \in Files \ {f} : phase'[g] = "reader"
    BY <1>1, <2>1 DEF TypeOK
  <2>4. InFile'
    BY <2>2, <2>3 DEF InFile
  <2>5. StreamOf(f)'
    BY <2>1, <2>3, ConstantsAssumption DEF Sound, Streams, StreamOf, Open, TypeOK
  <2>6. ASSUME NEW g \in Files \ {f} PROVE StreamOf(g)'
    BY <2>1, <2>3 DEF Sound, Streams, StreamOf, TypeOK
  <2> QED BY <2>4, <2>5, <2>6 DEF Sound, Streams
<1> QED BY <1>2, <1>3, <1>4

LEMMA CommitBatchStep == ASSUME FileInv, NEW f \in Files, CommitBatch(f) PROVE FileInv'
<1>1. phase[f] = "batch" /\ todo[f] = {} /\ UNCHANGED <<committed, ntx, level, mishaps>>
  BY DEF CommitBatch
<1>2. CASE CommitAtomicWrite(f) /\ Becomes(f, "synced", goal[f], {})
  <2>1. Open(writable[f])
    BY <1>1, <1>2 DEF CommitAtomicWrite, Usable, Open, FileInv, Base, Goals
  <2>2. atomic' = [atomic EXCEPT ![f] = FALSE] /\ atomic' \in [Files -> BOOLEAN]
    BY <1>2 DEF CommitAtomicWrite, FileInv, Base, TypeOK
  <2>3. Closes(f) /\ UNCHANGED <<blob, size>>
    BY <1>2 DEF CommitAtomicWrite
  <2> QED BY <1>1, <1>2, <2>1, <2>2, <2>3, ClosesStep
<1>3. CASE /\ CloseFails(f)
           /\ Becomes(f, "rollbatch", goal[f], {})
           /\ UNCHANGED <<atomic, blob, size>>
  <2>1. writable' = [writable EXCEPT ![f] = errored] /\ UNCHANGED <<disk, dirty>>
    BY <1>3 DEF CloseFails
  <2> QED BY <1>1, <1>3, <2>1, BatchFails
<1> QED BY <1>2, <1>3 DEF CommitBatch

\* Without a stream to abort the rollback fails, which is the mishap of a stream that
\* could not be opened.
LEMMA RollbackBatchStep == ASSUME FileInv, NEW f \in Files, RollbackBatch(f) PROVE FileInv'
<1> USE DEF FileInv, Base
<1>1. /\ phase[f] = "rollbatch" /\ goal[f] \in Images /\ committed \in Images /\ disk \in Images
      /\ goal[f] # none /\ \A g \in Files \ {f} : phase[g] = "reader"
  BY GoalFacts, WhoWrites DEF RollbackBatch
<1>2. /\ phase' = [phase EXCEPT ![f] = "journal"]
      /\ todo' = [todo EXCEPT ![f] = Changed(committed, goal[f])]
      /\ goal' = goal /\ UNCHANGED <<disk, committed, ntx, level>>
      /\ Changed(committed, goal[f]) \subseteq 1..Len(goal[f])
      /\ Changed(committed, goal[f]) \subseteq Pages
  BY <1>1, ChangedFacts DEF RollbackBatch, Becomes, dbVars, TypeOK
<1>3. Alone' /\ Goals' /\ Begun'
  BY <1>1, <1>2 DEF Alone, Goals, Begun, TypeOK
<1>4. CASE /\ writable' = [writable EXCEPT ![f] = none]
           /\ atomic' = [atomic EXCEPT ![f] = FALSE]
           /\ dirty' = [dirty EXCEPT ![f] = {}]
           /\ \/ blob' = [blob EXCEPT ![f] = disk] /\ size' = [size EXCEPT ![f] = Len(disk)]
              \/ UNCHANGED <<blob, size>>
           /\ UNCHANGED mishaps
  <2>1. Len(disk) \in 0..MaxPages
    BY <1>1, ImagePages, ConstantsAssumption
  <2>2. TypeOK'
    <3>1. blob' \in [Files -> Images \cup {none}] /\ size' \in [Files -> 0..MaxPages]
      <4>1. CASE blob' = [blob EXCEPT ![f] = disk] /\ size' = [size EXCEPT ![f] = Len(disk)]
        BY <1>1, <2>1, <4>1 DEF TypeOK
      <4>2. CASE UNCHANGED <<blob, size>>
        BY <4>2 DEF TypeOK
      <4> QED BY <1>4, <4>1, <4>2
    <3>2. /\ writable' \in [Files -> Images \cup {none, errored}]
          /\ atomic' \in [Files -> BOOLEAN] /\ dirty' \in [Files -> SUBSET Pages]
      BY <1>4 DEF TypeOK
    <3>3. phase' \in [Files -> {"reader", "writing", "batch", "rollbatch", "journal",
                               "synced", "committed", "undone"}]
      BY <1>2 DEF TypeOK
    <3>4. todo' \in [Files -> SUBSET Pages]
      BY <1>2 DEF TypeOK
    <3> QED BY <1>2, <1>4, <3>1, <3>2, <3>3, <3>4 DEF TypeOK
  <2>3. ASSUME Kept' PROVE Sound'
    <3>1. Kept /\ Sound
      BY <1>4, <2>3 DEF Kept
    <3>2. Holds(disk, committed) /\ "reread" \notin mishaps
      BY <1>1, <3>1, WhoWrites DEF TypeOK
    <3>3. phase'[f] = "journal" /\ \A g \in Files \ {f} : phase'[g] = "reader"
      BY <1>1, <1>2 DEF TypeOK
    <3>4. InFile'
      BY <1>2, <1>4, <3>2, <3>3 DEF InFile
    <3>5. StreamOf(f)'
      <4>1. /\ Stream(f)' = disk /\ goal'[f] = goal[f] /\ writable'[f] = none
            /\ todo'[f] = Changed(committed, goal[f]) /\ ~atomic'[f] /\ dirty'[f] = {}
        BY <1>2, <1>4 DEF Stream, TypeOK
      <4>2. Written(disk, goal[f], Changed(committed, goal[f]))
        BY <1>1, <3>2, NoneWritten
      <4> QED BY <3>3, <4>1, <4>2 DEF StreamOf, Open
    <3>6. ASSUME NEW g \in Files \ {f} PROVE StreamOf(g)'
      BY <1>1, <1>4, <3>1, <3>3 DEF Sound, Streams, StreamOf, TypeOK
    <3> QED BY <3>4, <3>5, <3>6 DEF Sound, Streams
  <2> QED BY <1>3, <2>2, <2>3
<1>5. CASE UNCHANGED fileVars /\ mishaps' = mishaps \cup {"create"}
  <2>1. TypeOK'
    BY <1>1, <1>2, <1>5 DEF fileVars, TypeOK, Mishaps
  <2>2. ~Kept'
    BY <1>5 DEF Kept
  <2> QED BY <1>3, <2>1, <2>2
<1>6. RollbackAtomicWrite(f)
  BY DEF RollbackBatch
<1> QED BY <1>4, <1>5, <1>6 DEF RollbackAtomicWrite

\* What becomes of the mishaps when a transaction ends.
LEMMA EndedFacts ==
    ASSUME FileInv, NEW f \in Files
    PROVE  /\ Ended(f) \subseteq Mishaps
           /\ mishaps \ {"reread"} \subseteq Ended(f)
           /\ phase[f] \notin {"journal", "synced"} => Ended(f) = mishaps
           /\ phase[f] = "journal" /\ "torn" \notin Ended(f) => "reread" \notin mishaps
           /\ phase[f] = "synced" => Ended(f) = mishaps \ {"reread"}
BY DEF Ended, FileInv, Base, TypeOK, Mishaps

\* The playback of a journal that fails: the File of the database keeps its stream, which
\* has failed, or the mishap is one.
LEMMA GiveUpStep ==
    ASSUME FileInv, NEW f \in Files, phase[f] \in {"writing", "journal"}, GiveUp(f),
           \/ writable' = [writable EXCEPT ![f] = errored]
           \/ writable' = writable,
           UNCHANGED <<disk, committed, ntx, blob, size, atomic, dirty>>
    PROVE  FileInv'
<1> USE DEF FileInv, Base
<1>1. level' = [level EXCEPT ![f] = 0]
  BY LockFacts DEF GiveUp
<1>2. /\ phase' = [phase EXCEPT ![f] = "reader"]
      /\ goal' = [goal EXCEPT ![f] = none]
      /\ todo' = [todo EXCEPT ![f] = {}]
      /\ mishaps' = Ended(f) \cup IF Open(writable'[f]) THEN {"rollback"} ELSE {}
  BY DEF GiveUp, Becomes
<1>3. TypeOK'
  <2>1. mishaps' \subseteq Mishaps
    BY <1>2, EndedFacts DEF Mishaps
  <2> QED BY <1>1, <1>2, <2>1 DEF TypeOK
<1>4. Alone' /\ Goals' /\ Begun'
  BY <1>1, <1>2 DEF Alone, Goals, Begun, TypeOK
<1>5. ASSUME Kept' PROVE Sound'
  <2>1. /\ ~Open(writable'[f]) /\ mishaps' = Ended(f) /\ "torn" \notin Ended(f)
        /\ Kept /\ Sound
    BY <1>2, <1>5, EndedFacts DEF Kept
  <2>2. \A g \in Files \ {f} : phase[g] = "reader"
    BY WhoWrites
  <2>3. "reread" \notin mishaps /\ Holds(disk, committed)
    BY <2>1, <2>2, WhoWrites, EndedFacts DEF Sound, InFile, TypeOK
  <2>4. \A g \in Files : phase'[g] = "reader"
    BY <1>2, <2>2 DEF TypeOK
  <2>5. InFile'
    BY <2>1, <2>3, <2>4, EndedFacts DEF InFile, Ended
  <2>6. StreamOf(f)'
    BY <2>1, <2>4, ConstantsAssumption DEF Sound, Streams, StreamOf, TypeOK
  <2>7. ASSUME NEW g \in Files \ {f} PROVE StreamOf(g)'
    BY <2>1, <2>2, <2>4 DEF Sound, Streams, StreamOf, TypeOK
  <2> QED BY <2>5, <2>6, <2>7 DEF Sound, Streams
<1> QED BY <1>3, <1>4, <1>5

\* A stream takes one page more.
LEMMA WriteStep ==
    ASSUME FileInv, NEW f \in Files, phase[f] \in {"writing", "batch", "journal"},
           NEW p \in todo[f], write(f, p, goal[f][p]),
           NEW ph, ph = IF phase[f] = "writing" THEN "journal" ELSE phase[f],
           Becomes(f, ph, goal[f], todo[f] \ {p}),
           UNCHANGED <<level, disk, committed, ntx, mishaps>>
    PROVE  FileInv'
<1> USE DEF FileInv, Base
<1> DEFINE d == Put(Stream(f), p, goal[f][p])
<1> HIDE DEF d
<1>1. /\ goal[f] \in Images /\ goal[f] # none /\ disk \in Images
      /\ \A g \in Files \ {f} : phase[g] = "reader"
  BY GoalFacts, WhoWrites
<1>2. /\ p \in 1..Len(goal[f]) /\ p \in Pages /\ goal[f][p] \in 0..MaxTx
  <2>1. p \in 1..Len(goal[f])
    BY GoalFacts
  <2> QED BY <1>1, <2>1, ImagePages, ConstantsAssumption DEF Pages
<1>3. Stream(f) \in Images /\ writable[f] # errored
  BY <1>1 DEF write, Usable, Stream, TypeOK
<1>4. /\ d \in Images /\ Len(d) = IF p > Len(Stream(f)) THEN p ELSE Len(Stream(f))
      /\ \A i \in 1..Len(d) :
            d[i] = IF i = p THEN goal[f][p] ELSE IF i <= Len(Stream(f)) THEN Stream(f)[i] ELSE 0
  BY <1>2, <1>3, PutFacts DEF d
<1>5. /\ writable' = [writable EXCEPT ![f] = d]
      /\ dirty' = [dirty EXCEPT ![f] = @ \cup {p}]
      /\ size' = [size EXCEPT ![f] = IF p > @ THEN p ELSE @]
      /\ phase' = [phase EXCEPT ![f] = ph]
      /\ goal' = goal
      /\ todo' = [todo EXCEPT ![f] = todo[f] \ {p}]
      /\ UNCHANGED <<blob, atomic>>
  BY DEF write, Becomes, d, TypeOK
<1>6. d \notin {none, errored}
  BY <1>4, ImageIsNot
<1>7. TypeOK'
  <2>1. p \in 0..MaxPages
    BY <1>2, ConstantsAssumption DEF Pages
  <2> QED BY <1>2, <1>4, <1>5, <2>1 DEF TypeOK
<1>8. Alone' /\ Goals' /\ Begun'
  BY <1>5, <1>6 DEF Alone, Goals, Begun, TypeOK
<1>9. ASSUME Kept' PROVE Sound'
  <2>1. Kept /\ Sound /\ StreamOf(f)
    BY <1>9 DEF Kept, Sound, Streams
  <2>2. Written(d, goal[f], todo[f] \ {p})
    <3>1. Len(Stream(f)) \in Nat /\ Len(goal[f]) \in Nat
      BY <1>1, <1>3, ImagePages
    <3>2. Written(Stream(f), goal[f], todo[f])
      BY <1>3, <2>1 DEF StreamOf, Usable
    <3>3. ASSUME NEW q \in 1..Len(goal[f]), q \notin todo[f] \ {p}
          PROVE  q <= Len(d) /\ d[q] = goal[f][q]
      <4>1. CASE q = p BY <1>2, <1>4, <3>1, <4>1
      <4>2. CASE q # p
        <5>1. q <= Len(Stream(f)) /\ Stream(f)[q] = goal[f][q]
          BY <3>2, <3>3, <4>2 DEF Written
        <5>2. q \in 1..Len(d)
          BY <1>2, <1>4, <3>1, <5>1
        <5> QED BY <1>4, <4>2, <5>1, <5>2
      <4> QED BY <4>1, <4>2
    <3> QED BY <3>3 DEF Written
  <2>3. phase'[f] = ph /\ ph \in {"batch", "journal"} /\ \A g \in Files \ {f} : phase'[g] = "reader"
    BY <1>1, <1>5 DEF TypeOK
  <2>4. InFile'
    BY <1>1, <1>5, <2>1, <2>3 DEF Sound, InFile
  <2>5. StreamOf(f)'
    <3>1. Stream(f)' = d /\ goal'[f] = goal[f] /\ todo'[f] = todo[f] \ {p} /\ writable'[f] = d
      BY <1>5, <1>6 DEF Stream, TypeOK
    <3>2. atomic'[f] <=> phase'[f] \in {"batch", "rollbatch"}
      BY <1>5, <2>1, <2>3 DEF StreamOf
    <3> QED BY <1>6, <2>2, <2>3, <3>1, <3>2 DEF StreamOf
  <2>6. ASSUME NEW g \in Files \ {f} PROVE StreamOf(g)'
    BY <1>1, <1>5, <2>1, <2>3 DEF Sound, Streams, StreamOf, TypeOK
  <2> QED BY <2>4, <2>5, <2>6 DEF Sound, Streams
<1> QED BY <1>7, <1>8, <1>9

LEMMA WritePageStep == ASSUME FileInv, NEW f \in Files, WritePage(f) PROVE FileInv'
<1>0. UNCHANGED <<disk, committed, ntx>> /\ phase[f] \in {"writing", "batch", "journal"}
  BY DEF WritePage, dbVars
<1>1. ASSUME NEW p \in todo[f], write(f, p, goal[f][p]),
             Becomes(f, IF phase[f] = "writing" THEN "journal" ELSE phase[f],
                     goal[f], todo[f] \ {p}),
             UNCHANGED <<level, mishaps>>
      PROVE  FileInv'
  BY <1>0, <1>1, WriteStep
<1>2. CASE streamFails(f) /\ Failed(f)
  <2>1. /\ \/ writable' = [writable EXCEPT ![f] = errored]
           \/ writable' = writable /\ ~Open(writable[f])
        /\ UNCHANGED <<blob, size, atomic, dirty>>
    BY <1>2 DEF streamFails, Open
  <2>2. CASE GiveUp(f) /\ phase[f] \in {"writing", "journal"}
    BY <1>0, <2>1, <2>2, GiveUpStep
  <2>3. CASE /\ phase[f] = "batch" /\ Becomes(f, "rollbatch", goal[f], {})
             /\ UNCHANGED <<level, mishaps>>
    BY <1>0, <2>1, <2>3, BatchFails
  <2> QED BY <1>2, <2>2, <2>3 DEF Failed
<1> QED BY <1>1, <1>2 DEF WritePage

LEMMA SyncStep == ASSUME FileInv, NEW f \in Files, Sync(f) PROVE FileInv'
<1> USE DEF FileInv, Base
<1>1. /\ phase[f] = "journal" /\ todo[f] = {} /\ goal[f] \in Images /\ disk \in Images
      /\ UNCHANGED <<committed, ntx, size, atomic>>
      /\ \A g \in Files \ {f} : phase[g] = "reader"
  BY GoalFacts, WhoWrites DEF Sync
<1>2. CASE /\ ~SyncDoesNothing(f) /\ Usable(f) /\ Closes(f)
           /\ blob' = [blob EXCEPT ![f] = none]
           /\ Becomes(f, "synced", goal[f], {}) /\ UNCHANGED <<level, mishaps>>
  <2>1. atomic' = [atomic EXCEPT ![f] = FALSE] /\ Open(writable[f])
    BY <1>1, <1>2 DEF SyncDoesNothing, Usable, Open, TypeOK
  <2>2. atomic' \in [Files -> BOOLEAN]
    BY <1>1 DEF TypeOK
  <2> QED BY <1>1, <1>2, <2>1, <2>2, ClosesStep
<1>3. CASE /\ SyncDoesNothing(f) /\ UNCHANGED <<disk, writable, dirty, blob>>
           /\ Becomes(f, "synced", goal[f], {}) /\ UNCHANGED <<level, mishaps>>
  <2>1. /\ phase' = [phase EXCEPT ![f] = "synced"] /\ goal' = goal
        /\ todo' = [todo EXCEPT ![f] = {}]
    BY <1>3 DEF Becomes, TypeOK
  <2>2. TypeOK'
    BY <1>1, <1>3, <2>1 DEF TypeOK
  <2>3. Alone' /\ Goals' /\ Begun'
    BY <1>1, <1>3, <2>1 DEF Alone, Goals, Begun, TypeOK
  <2>4. ASSUME Kept' PROVE Sound'
    <3>1. Kept /\ Sound /\ StreamOf(f)
      BY <1>3, <2>4 DEF Kept, Sound, Streams
    <3>2. writable[f] = none
      BY <1>1, <1>3, <3>1 DEF StreamOf, SyncDoesNothing
    <3>3. Holds(disk, goal[f])
      <4>1. Stream(f) = disk /\ Usable(f)
        BY <3>2, ConstantsAssumption DEF Stream, Usable
      <4>2. Written(disk, goal[f], {})
        BY <1>1, <3>1, <4>1 DEF StreamOf
      <4> QED BY <1>1, <4>2, AllWritten
    <3>4. phase'[f] = "synced" /\ \A g \in Files \ {f} : phase'[g] = "reader"
      BY <1>1, <2>1 DEF TypeOK
    <3>5. InFile'
      BY <1>3, <2>1, <3>3, <3>4 DEF InFile
    <3>6. StreamOf(f)'
      BY <1>1, <1>3, <3>1, <3>2, <3>4 DEF StreamOf, Open
    <3>7. ASSUME NEW g \in Files \ {f} PROVE StreamOf(g)'
      BY <1>1, <1>3, <3>1, <3>4 DEF Sound, Streams, StreamOf
    <3> QED BY <3>5, <3>6, <3>7 DEF Sound, Streams
  <2> QED BY <2>2, <2>3, <2>4
<1>4. CASE syncFails(f) /\ Failed(f)
  <2>1. writable' = [writable EXCEPT ![f] = errored] /\ UNCHANGED <<disk, dirty, blob>>
    BY <1>4 DEF syncFails, CloseFails
  <2>2. GiveUp(f)
    BY <1>1, <1>4 DEF Failed
  <2> QED BY <1>1, <2>1, <2>2, GiveUpStep
<1> QED BY <1>2, <1>3, <1>4 DEF Sync, syncs

LEMMA RollbackStep == ASSUME FileInv, NEW f \in Files, Rollback(f) PROVE FileInv'
<1>1. CASE phase[f] = "journal" /\ GiveUp(f)
  <2>1. UNCHANGED <<disk, committed, ntx, blob, size, atomic, dirty, writable>>
    BY DEF Rollback, dbVars, fileVars
  <2> QED BY <1>1, <2>1, GiveUpStep
<1>2. CASE phase[f] = "writing" /\ Becomes(f, "undone", committed, {}) /\ UNCHANGED <<level, mishaps>>
  <2> USE DEF FileInv, Base
  <2>1. /\ phase' = [phase EXCEPT ![f] = "undone"]
        /\ goal' = [goal EXCEPT ![f] = committed]
        /\ todo' = [todo EXCEPT ![f] = {}]
        /\ UNCHANGED <<disk, committed, ntx, level, writable, blob, size, atomic, dirty, mishaps>>
    BY <1>2 DEF Rollback, Becomes, dbVars, fileVars
  <2>2. committed \in Images /\ committed # none
    BY ImageIsNot DEF TypeOK
  <2>3. TypeOK'
    BY <2>1, <2>2 DEF TypeOK
  <2>4. Alone' /\ Goals' /\ Begun'
    BY <1>2, <2>1, <2>2 DEF Alone, Goals, Begun, TypeOK
  <2>5. ASSUME Kept' PROVE Sound'
    <3>1. Kept /\ Sound /\ \A g \in Files \ {f} : phase[g] = "reader"
      BY <1>2, <2>1, <2>5, WhoWrites DEF Kept
    <3>2. Holds(disk, committed) /\ "reread" \notin mishaps
      BY <1>2, <3>1, WhoWrites DEF TypeOK
    <3>3. phase'[f] = "undone" /\ \A g \in Files \ {f} : phase'[g] = "reader"
      BY <2>1, <3>1 DEF TypeOK
    <3>4. InFile'
      BY <2>1, <3>2, <3>3 DEF InFile
    <3>5. Streams'
      BY <1>2, <2>1, <3>1, <3>3 DEF Sound, Streams, StreamOf
    <3> QED BY <3>4, <3>5 DEF Sound
  <2> QED BY <2>3, <2>4, <2>5
<1> QED BY <1>1, <1>2 DEF Rollback

LEMMA FinalizeStep == ASSUME FileInv, NEW f \in Files, Finalize(f) PROVE FileInv'
<1> USE DEF FileInv, Base
<1>1. /\ phase[f] = "synced" /\ goal[f] \in Images /\ goal[f] # none
      /\ \A g \in Files \ {f} : phase[g] = "reader" /\ level[g] = 0
  BY GoalFacts, WhoWrites DEF Finalize
<1>2. /\ committed' = goal[f]
      /\ phase' = [phase EXCEPT ![f] = "committed"]
      /\ goal' = goal /\ todo' = [todo EXCEPT ![f] = {}]
      /\ mishaps' = mishaps \ {"reread"}
      /\ UNCHANGED <<disk, ntx, level, writable, blob, size, atomic, dirty>>
  BY <1>1, EndedFacts DEF Finalize, Becomes, fileVars, TypeOK
<1>3. TypeOK'
  BY <1>1, <1>2 DEF TypeOK
<1>4. Alone' /\ Begun'
  BY <1>1, <1>2 DEF Alone, Begun, TypeOK
<1>5. Goals'
  BY <1>1, <1>2 DEF Goals, TypeOK
<1>6. ASSUME Kept' PROVE Sound'
  <2>1. Kept /\ Sound
    BY <1>2, <1>6 DEF Kept
  <2>2. phase'[f] = "committed" /\ \A g \in Files \ {f} : phase'[g] = "reader"
    BY <1>1, <1>2 DEF TypeOK
  <2>3. InFile'
    BY <1>1, <1>2, <2>1, <2>2 DEF Sound, InFile
  <2>4. Streams'
    BY <1>1, <1>2, <2>1, <2>2 DEF Sound, Streams, StreamOf
  <2> QED BY <2>3, <2>4 DEF Sound
<1> QED BY <1>3, <1>4, <1>5, <1>6

\* A truncation that succeeds is a mishap; one that fails leaves no stream that works.
LEMMA EndTransactionStep == ASSUME FileInv, NEW f \in Files, EndTransaction(f) PROVE FileInv'
<1> USE DEF FileInv, Base
<1>1. /\ phase[f] \in {"committed", "undone"} /\ goal[f] \in Images /\ Len(goal[f]) \in Pages
      /\ disk \in Images /\ level[f] = 4
      /\ \A g \in Files \ {f} : phase[g] = "reader" /\ level[g] = 0
  BY GoalFacts, WhoWrites, ImagePages DEF EndTransaction
<1>2. /\ phase' = [phase EXCEPT ![f] = "reader"]
      /\ goal' = [goal EXCEPT ![f] = none]
      /\ todo' = [todo EXCEPT ![f] = {}]
      /\ level' = [level EXCEPT ![f] = 1]
      /\ UNCHANGED <<disk, committed, ntx>>
  BY LockFacts DEF EndTransaction, Becomes, dbVars
<1>3. Alone' /\ Goals' /\ Begun'
  BY <1>1, <1>2 DEF Alone, Goals, Begun, TypeOK
<1>4. CASE trunc(f, Len(goal[f])) /\ mishaps' = mishaps \cup {"shrink"}
  <2>1. Stream(f) \in Images
    BY <1>1, <1>4 DEF trunc, Usable, Stream, TypeOK
  <2>2. Truncated(Stream(f), Len(goal[f])) \in Images /\ Len(goal[f]) \in 0..MaxPages
    BY <1>1, <2>1, TruncatedImage, ConstantsAssumption DEF Pages
  <2>3. /\ writable' \in [Files -> Images \cup {none, errored}]
        /\ dirty' \in [Files -> SUBSET Pages] /\ size' \in [Files -> 0..MaxPages]
    BY <1>4, <2>2 DEF trunc, TypeOK
  <2>4. TypeOK'
    BY <1>2, <1>4, <2>3 DEF trunc, TypeOK, Mishaps
  <2>5. ~Kept'
    BY <1>4 DEF Kept
  <2> QED BY <1>3, <2>4, <2>5
<1>5. CASE \/ UNCHANGED <<fileVars, mishaps>>
           \/ streamFails(f) /\ UNCHANGED mishaps
  <2>1. /\ \/ writable' = [writable EXCEPT ![f] = errored]
           \/ writable' = writable
        /\ UNCHANGED <<blob, size, atomic, dirty, mishaps>>
    BY <1>5 DEF streamFails, fileVars
  <2>2. TypeOK'
    BY <1>2, <2>1 DEF TypeOK
  <2>3. ASSUME Kept' PROVE Sound'
    <3>1. Kept /\ Sound
      BY <2>1, <2>3 DEF Kept
    <3>2. Holds(disk, committed) /\ "reread" \notin mishaps
      BY <1>1, <3>1, WhoWrites DEF TypeOK
    <3>3. \A g \in Files : phase'[g] = "reader"
      BY <1>1, <1>2 DEF TypeOK
    <3>4. InFile'
      BY <1>2, <2>1, <3>2, <3>3 DEF InFile
    <3>5. StreamOf(f)'
      BY <1>1, <2>1, <3>1, <3>3, ConstantsAssumption, SMTT(40)
         DEF Sound, Streams, StreamOf, Open, TypeOK
    <3>6. ASSUME NEW g \in Files \ {f} PROVE StreamOf(g)'
      BY <1>1, <2>1, <3>1, <3>3 DEF Sound, Streams, StreamOf, TypeOK
    <3> QED BY <3>4, <3>5, <3>6 DEF Sound, Streams
  <2> QED BY <1>3, <2>2, <2>3
<1>6. \/ trunc(f, Len(goal[f])) /\ mishaps' = mishaps \cup {"shrink"}
      \/ streamFails(f) /\ UNCHANGED mishaps
      \/ UNCHANGED <<fileVars, mishaps>>
  BY DEF EndTransaction
<1> QED BY <1>4, <1>5, <1>6

\* A crash leaves a transaction that is all in the file committed, and any other one
\* undone; one of which a part is in the file is the mishap.
LEMMA CrashLeaves ==
    ASSUME FileInv, NEW f \in Files, Crash(f), Kept'
    PROVE  /\ Kept /\ Sound
           /\ phase[f] # "reader" => Holds(disk, committed') /\ "reread" \notin mishaps'
           /\ phase[f] # "synced" => committed' = committed
<1> USE DEF FileInv, Base
<1>0. /\ committed' = IF goal[f] # none /\ Holds(disk, goal[f]) THEN goal[f] ELSE committed
      /\ mishaps' = Ended(f)
  BY DEF Crash
<1>1. Kept /\ Sound
  BY <1>0, EndedFacts DEF Kept
<1>2. CASE phase[f] = "reader"
  BY <1>0, <1>1, <1>2 DEF Goals
<1>3. CASE phase[f] = "synced"
  <2>1. Holds(disk, goal[f]) /\ goal[f] # none
    BY <1>1, <1>3, GoalFacts DEF Sound, InFile
  <2> QED BY <1>0, <1>1, <1>3, <2>1, EndedFacts
<1>4. CASE phase[f] \in {"committed", "undone"}
  <2>1. Holds(disk, committed) /\ "reread" \notin mishaps /\ goal[f] = committed
    BY <1>1, <1>4, WhoWrites DEF TypeOK, Goals
  <2> QED BY <1>0, <1>1, <1>4, <2>1, EndedFacts
<1>5. CASE phase[f] \in {"writing", "batch", "rollbatch", "journal"}
  <2>1. \A g \in Files \ {f} : phase[g] = "reader"
    BY <1>5, WhoWrites
  <2>2. "reread" \notin mishaps
    BY <1>0, <1>1, <1>5, <2>1, EndedFacts DEF Kept, Sound, InFile, TypeOK
  <2>3. Holds(disk, committed)
    BY <1>1, <1>5, <2>1, <2>2 DEF Sound, InFile, TypeOK
  <2>4. ~Holds(disk, goal[f])
    <3>1. goal[f][1] > committed[1] /\ goal[f] \in Images /\ committed \in Images
      BY <1>5, GoalFacts DEF Goals
    <3>2. 1 \in 1..Len(goal[f]) /\ 1 \in 1..Len(committed)
      BY <3>1, ImagePages, ConstantsAssumption
    <3>3. goal[f][1] \in Nat /\ committed[1] \in Nat
      BY <3>1, <3>2, ImagePages, ConstantsAssumption
    <3>4. disk[1] = committed[1]
      BY <2>3, <3>2 DEF Holds
    <3>5. goal[f][1] # disk[1]
      BY <3>1, <3>3, <3>4
    <3> QED BY <3>2, <3>5 DEF Holds
  <2>5. "reread" \notin mishaps'
    BY <1>0, <2>2, EndedFacts DEF Ended
  <2> QED BY <1>0, <1>1, <2>3, <2>4, <2>5
<1> QED BY <1>2, <1>3, <1>4, <1>5 DEF TypeOK

LEMMA CrashStep == ASSUME FileInv, NEW f \in Files, Crash(f) PROVE FileInv'
<1> USE DEF FileInv, Base
<1>1. /\ level' = [level EXCEPT ![f] = 0]
      /\ phase' = [phase EXCEPT ![f] = "reader"]
      /\ goal' = [goal EXCEPT ![f] = none]
      /\ todo' = [todo EXCEPT ![f] = {}]
      /\ writable' = [writable EXCEPT ![f] = none]
      /\ blob' = [blob EXCEPT ![f] = none]
      /\ size' = [size EXCEPT ![f] = 0]
      /\ atomic' = [atomic EXCEPT ![f] = FALSE]
      /\ dirty' = [dirty EXCEPT ![f] = {}]
      /\ mishaps' = Ended(f)
      /\ UNCHANGED <<disk, ntx>>
      /\ committed' = IF goal[f] # none /\ Holds(disk, goal[f]) THEN goal[f] ELSE committed
  BY DEF Crash, Becomes
<1>2. phase[f] = "reader" => committed' = committed
  BY <1>1 DEF Goals
<1>3. phase[f] # "reader" =>
         \A g \in Files \ {f} : level[g] = 0 /\ phase[g] = "reader" /\ goal[g] = none
  BY WhoWrites DEF Goals
<1>4. TypeOK'
  <2>1. committed' \in Images /\ 0 \in 0..MaxPages /\ Ended(f) \subseteq Mishaps
    BY <1>1, EndedFacts, ConstantsAssumption DEF TypeOK
  <2> QED BY <1>1, <2>1 DEF TypeOK
<1>5. Alone'
  BY <1>1 DEF Alone, TypeOK
<1>6. Goals'
  BY <1>1, <1>2, <1>3 DEF Goals, TypeOK
<1>7. Begun'
  <2>1. \A p \in 1..Len(committed') : committed'[p] <= ntx
    BY <1>1 DEF Begun
  <2> QED BY <1>1, <2>1 DEF Begun, TypeOK
<1>8. ASSUME Kept' PROVE Sound'
  <2>1. /\ Kept /\ Sound
        /\ phase[f] # "reader" => Holds(disk, committed') /\ "reread" \notin mishaps'
    BY <1>8, CrashLeaves
  <2>2. InFile'
    <3>1. CASE phase[f] # "reader"
      <4>1. \A g \in Files : phase'[g] = "reader"
        BY <1>1, <1>3, <3>1 DEF TypeOK
      <4> QED BY <1>1, <2>1, <3>1, <4>1 DEF InFile
    <3>2. CASE phase[f] = "reader"
      <4>1. mishaps' = mishaps /\ committed' = committed
        BY <1>1, <1>2, <3>2, EndedFacts
      <4>2. phase' = phase /\ goal' = goal
        BY <1>1, <3>2 DEF TypeOK, Goals
      <4> QED BY <1>1, <2>1, <4>1, <4>2 DEF Sound, InFile
    <3> QED BY <3>1, <3>2
  <2>3. StreamOf(f)'
    BY <1>1 DEF StreamOf, Open, TypeOK
  <2>4. ASSUME NEW g \in Files \ {f} PROVE StreamOf(g)'
    <3>1. /\ writable'[g] = writable[g] /\ phase'[g] = phase[g] /\ atomic'[g] = atomic[g]
          /\ dirty'[g] = dirty[g] /\ goal'[g] = goal[g] /\ todo'[g] = todo[g] /\ disk' = disk
      BY <1>1 DEF TypeOK
    <3> QED BY <2>1, <3>1 DEF Sound, Streams, StreamOf, Open, Usable, Stream
  <2> QED BY <2>2, <2>3, <2>4 DEF Sound, Streams
<1> QED BY <1>4, <1>5, <1>6, <1>7, <1>8

LEMMA NextFileInv == FileInv /\ [Next]_vars => FileInv'
<1> SUFFICES ASSUME FileInv, [Next]_vars PROVE FileInv'
  OBVIOUS
<1>1. CASE UNCHANGED vars
  BY <1>1 DEF vars, FileInv, Base, TypeOK, Alone, Goals, Begun, Kept, Sound, InFile, Streams,
              StreamOf, Open, Usable, Stream
<1>2. CASE Next
  <2>1. PICK f \in Files :
          \/ Share(f) \/ Unshare(f) \/ \E p \in Pages : Read(f, p)
          \/ StartWrite(f) \/ BeginBatch(f) \/ CommitBatch(f) \/ RollbackBatch(f)
          \/ WritePage(f) \/ Sync(f) \/ Rollback(f)
          \/ Finalize(f) \/ EndTransaction(f) \/ Crash(f)
    BY <1>2 DEF Next
  <2> QED BY <2>1, ShareStep, UnshareStep, ReadStep, StartWriteStep, BeginBatchStep,
             CommitBatchStep, RollbackBatchStep, WritePageStep, SyncStep, RollbackStep,
             FinalizeStep, EndTransactionStep, CrashStep
<1> QED BY <1>1, <1>2

\* The steps that change the file until a mishap: the close of the stream of a transaction
\* that has written all its pages, or of one for a read in the middle of it.
LEMMA WhoChangesDisk ==
    ASSUME FileInv, Kept, Next, disk' # disk
    PROVE  \E f \in Files :
             /\ phase[f] \in {"batch", "journal"}
             /\ "reread" \in mishaps' \/ Holds(disk', goal[f])
             /\ mishaps' = mishaps \/ "reread" \in mishaps'
<1> USE DEF FileInv, Base
<1>1. PICK f \in Files :
          \/ Share(f) \/ Unshare(f) \/ \E p \in Pages : Read(f, p)
          \/ StartWrite(f) \/ BeginBatch(f) \/ CommitBatch(f) \/ RollbackBatch(f)
          \/ WritePage(f) \/ Sync(f) \/ Rollback(f)
          \/ Finalize(f) \/ EndTransaction(f) \/ Crash(f)
  BY DEF Next
<1>2. CASE \E p \in Pages : Read(f, p)
  <2>1. PICK p \in Pages : Read(f, p)
    BY <1>2
  <2>2. MustSync(f, p) /\ Usable(f) /\ Closes(f)
    BY <2>1 DEF Read, reads, CloseFails
  <2>3. Open(writable[f]) /\ writable'[f] = none
    BY <2>2 DEF MustSync, SyncDoesNothing, Usable, Open, Closes, TypeOK
  <2>4. phase[f] = "journal"
    BY <2>1, <2>3 DEF Sound, Streams, StreamOf, Read
  <2>5. "reread" \in mishaps'
    BY <2>1, <2>2, <2>3, <2>4 DEF Read
  <2> QED BY <2>4, <2>5
<1>3. CASE CommitBatch(f) \/ Sync(f)
  <2>1. /\ Usable(f) /\ Closes(f) /\ phase[f] \in {"batch", "journal"} /\ todo[f] = {}
        /\ UNCHANGED mishaps /\ (phase[f] = "journal" => writable[f] # none)
    BY <1>3 DEF CommitBatch, Sync, CommitAtomicWrite, CloseFails, syncs, syncFails, SyncDoesNothing
  <2>2. Open(writable[f])
    BY <2>1 DEF Usable, Open, Goals
  <2>3. writable[f] \in Images /\ goal[f] \in Images /\ disk' = writable[f]
    BY <2>1, <2>2, GoalFacts DEF Open, TypeOK, Closes
  <2>4. Written(writable[f], goal[f], {})
    <3>1. Stream(f) = writable[f]
      BY <2>2 DEF Stream, Open
    <3> QED BY <2>1, <3>1 DEF Sound, Streams, StreamOf
  <2> QED BY <2>1, <2>3, <2>4, AllWritten
<1> QED BY <1>1, <1>2, <1>3 DEF Share, Unshare, StartWrite, BeginBatch, RollbackBatch, WritePage,
            Rollback, Finalize, EndTransaction, Crash, dbVars

\* The steps that commit, until a mishap: the file has the transaction by then.
LEMMA WhoCommits ==
    ASSUME FileInv, Next, Kept', committed' # committed
    PROVE  disk' = disk /\ \E f \in Files : /\ phase[f] = "synced" /\ committed' = goal[f]
                                            /\ Holds(disk, goal[f])
<1> USE DEF FileInv, Base
<1>1. PICK f \in Files : Finalize(f) \/ Crash(f)
  BY DEF Next, Share, Unshare, Read, StartWrite, BeginBatch, CommitBatch, RollbackBatch,
         WritePage, Sync, Rollback, EndTransaction, dbVars
<1>2. CASE Finalize(f)
  <2>1. phase[f] = "synced" /\ committed' = goal[f] /\ disk' = disk /\ mishaps' = Ended(f)
    BY <1>2 DEF Finalize
  <2>2. Kept
    BY <2>1, EndedFacts DEF Kept
  <2> QED BY <2>1, <2>2 DEF Sound, InFile
<1>3. CASE Crash(f)
  <2>1. disk' = disk /\ phase[f] = "synced" /\ Kept
    BY <1>3, CrashLeaves DEF Crash
  <2>2. Holds(disk, goal[f]) /\ goal[f] # none
    BY <2>1, GoalFacts DEF Sound, InFile
  <2> QED BY <1>3, <2>1, <2>2 DEF Crash
<1> QED BY <1>1, <1>2, <1>3

\* No step takes a mishap back, but for a re-read that ends well.
LEMMA MishapsStay == ASSUME FileInv, Next PROVE Kept' => Kept
<1>1. PICK f \in Files :
          \/ Share(f) \/ Unshare(f) \/ \E p \in Pages : Read(f, p)
          \/ StartWrite(f) \/ BeginBatch(f) \/ CommitBatch(f) \/ RollbackBatch(f)
          \/ WritePage(f) \/ Sync(f) \/ Rollback(f)
          \/ Finalize(f) \/ EndTransaction(f) \/ Crash(f)
  BY DEF Next
<1>2. mishaps \ {"reread"} \subseteq mishaps'
  BY <1>1, EndedFacts
     DEF Share, Unshare, Read, StartWrite, BeginBatch, CommitBatch, RollbackBatch,
         RollbackAtomicWrite, WritePage, Sync, Rollback, Finalize, EndTransaction, Crash,
         Failed, GiveUp
<1> QED BY <1>2 DEF Kept

-----------------------------------------------------------------------------
(* The theorems.                                                           *)

\* What every method of file.js and every step of the pager, every failed call and
\* every crash keep: always what the pagers are about, and until a mishap what is in the
\* file and in the streams.
THEOREM FileInvariant == Spec => []FileInv
<1>1. FileInv /\ [Next]_vars => FileInv'
  BY NextFileInv
<1> QED BY <1>1, InitFileInv, PTL DEF Spec

\* The fields of every File have their types, and #size counts no more pages than a
\* database may have, whatever has happened.
THEOREM TypeCorrect == Spec => []TypeOK
<1>1. FileInv => TypeOK
  BY DEF FileInv, Base
<1> QED BY <1>1, FileInvariant, PTL

\* While no File is at EXCLUSIVE the file holds the database as the last commit left
\* it, whichever write() or close() failed and whenever a tab crashed, until the first of
\* the mishaps that the findings are about.
THEOREM CommitsAreAtomic == Spec => []AllOrNothing
<1>1. FileInv => AllOrNothing
  <2> SUFFICES ASSUME FileInv, Kept, ~Writing PROVE Holds(disk, committed)
    BY DEF AllOrNothing, FileIsCommitted
  <2>1. \A g \in Files : phase[g] = "reader"
    BY DEF Writing, FileInv, Base, Alone
  <2> QED BY <2>1, WhoWrites
<1> QED BY <1>1, FileInvariant, PTL

\* lock(1) finds nothing of an earlier transaction that read() would give to a later
\* one: what is read is the file, or the read fails with the stream; until a mishap.
THEOREM ReadersStartOnCommits == Spec => StartsCommitted
<1>1. ASSUME FileInv, [Next]_vars, NEW f \in Files, Kept', level[f] = 0, level'[f] = 1,
             FileInv', NEW p \in 1..Len(committed')
      PROVE  ReadFrom(f, p)' = errored \/ ReadFrom(f, p)'[p] = committed'[p]
  <2>1. Share(f)
    <3>1. PICK g \in Files :
          \/ Share(g) \/ Unshare(g) \/ \E q \in Pages : Read(g, q)
          \/ StartWrite(g) \/ BeginBatch(g) \/ CommitBatch(g) \/ RollbackBatch(g)
          \/ WritePage(g) \/ Sync(g) \/ Rollback(g)
          \/ Finalize(g) \/ EndTransaction(g) \/ Crash(g)
      BY <1>1 DEF Next, vars
    <3>2. level' = level \/ \E l \in {0, 4} : level' = [level EXCEPT ![g] = l]
                        \/ Share(g) \/ EndTransaction(g)
      BY <3>1, LockFacts DEF Unshare, Read, StartWrite, BeginBatch, CommitBatch, RollbackBatch,
            WritePage, Sync, Rollback, Finalize, Crash, Failed, GiveUp, pagerVars
    <3>3. g = f /\ (Share(g) \/ EndTransaction(g))
      BY <1>1, <3>2, LockFacts DEF Share, EndTransaction, FileInv, Base, TypeOK
    <3>4. ~EndTransaction(f)
      BY <1>1 DEF EndTransaction, FileInv, Base, Alone
    <3> QED BY <3>3, <3>4
  <2>2. /\ blob'[f] = disk /\ disk' = disk /\ committed' = committed /\ disk \in Images
        /\ phase' = phase
    BY <1>1, <2>1 DEF Share, lock1, dbVars, FileInv, Base, TypeOK
  <2>3. \A g \in Files : phase'[g] = "reader"
    <3>1. \A g \in Files : level[g] # 4
      BY <1>1, <2>1, LockFacts DEF Share
    <3> QED BY <1>1, <2>2, <3>1 DEF FileInv, Base, Alone
  <2>4. Holds(disk', committed') /\ StreamOf(f)'
    BY <1>1, <2>3 DEF FileInv, Sound, InFile, Streams
  <2>5. disk[p] = committed'[p]
    BY <2>2, <2>4 DEF Holds
  <2>6. MustSync(f, p)' => writable'[f] = errored
    BY <2>3, <2>4 DEF MustSync, SyncDoesNothing, StreamOf, Open
  <2>7. disk # none
    BY <2>2, ImageIsNot
  <2> QED BY <2>2, <2>5, <2>6, <2>7 DEF ReadFrom
<1>2. FileInv /\ FileInv' /\ [Next]_vars =>
         [\A f \in Files : Kept' /\ level[f] = 0 /\ level'[f] = 1 =>
            \A p \in 1..Len(committed') :
               ReadFrom(f, p)' = errored \/ ReadFrom(f, p)'[p] = committed'[p]]_vars
  BY <1>1
<1> QED BY <1>2, FileInvariant, PTL DEF Spec, StartsCommitted

\* Until a mishap the file changes under EXCLUSIVE only, from one commit to the next in one
\* step with all the pages of the transaction, but for one that reads what it has spilled;
\* what is reported as committed is in the file by then, and no commit is taken back.
THEOREM FileMovesForward == Spec => CommitsForward
<1> DEFINE A == Kept' =>
      /\ disk' # disk => \E f \in Files :
            /\ level[f] = 4 /\ \A g \in Files \ {f} : level[g] = 0
            /\ "reread" \in mishaps' \/ (Holds(disk, committed) /\ Holds(disk', goal[f]))
      /\ committed' # committed => Holds(disk', committed') /\ committed'[1] > committed[1]
<1>1. ASSUME FileInv, Next, Kept', disk' # disk
      PROVE  \E f \in Files :
               /\ level[f] = 4 /\ \A g \in Files \ {f} : level[g] = 0
               /\ "reread" \in mishaps' \/ (Holds(disk, committed) /\ Holds(disk', goal[f]))
  <2>1. Kept
    BY <1>1, MishapsStay
  <2>2. PICK f \in Files :
             /\ phase[f] \in {"batch", "journal"}
             /\ "reread" \in mishaps' \/ Holds(disk', goal[f])
             /\ mishaps' = mishaps \/ "reread" \in mishaps'
    BY <1>1, <2>1, WhoChangesDisk
  <2>3. level[f] = 4 /\ \A g \in Files \ {f} : level[g] = 0 /\ phase[g] = "reader"
    BY <1>1, <2>2, WhoWrites
  <2>4. "reread" \notin mishaps => Holds(disk, committed)
    BY <1>1, <2>1, <2>2, <2>3 DEF FileInv, Sound, InFile
  <2> QED BY <2>2, <2>3, <2>4
<1>2. ASSUME FileInv, Next, Kept', committed' # committed
      PROVE  Holds(disk', committed') /\ committed'[1] > committed[1]
  <2>1. disk' = disk /\ \E f \in Files : /\ phase[f] = "synced" /\ committed' = goal[f]
                                         /\ Holds(disk, goal[f])
    BY <1>2, WhoCommits
  <2> QED BY <1>2, <2>1 DEF FileInv, Base, Goals
<1>3. FileInv /\ [Next]_vars => [A]_vars
  BY <1>1, <1>2
<1> QED BY <1>3, FileInvariant, PTL DEF Spec, CommitsForward

=============================================================================
