---------------------------- MODULE BlobIo_proofs ----------------------------
(***************************************************************************)
(* Proofs about BlobIo, for blobs, streams and buffers of any size, and    *)
(* whatever fails.                                                         *)
(***************************************************************************)
EXTENDS BlobIo, SequenceTheorems, TLAPS

\* Who uses the buffer at each await, and what is answered when.
Stages ==
    /\ result = "none" <=> pc \notin {"finally", "settled"}
    /\ reading => way = "out" /\ (pc = "reading" \/ (result = "exception" /\ "ready" \in mishaps))
    /\ writing => way = "out" /\ (pc = "writing" \/ "late" \in mishaps)
    /\ way = "in" => pc # "reading"
    /\ buffer[1] <= buffer[2]

\* What has been read from a ReadableStream is in the blob, or in the buffer.
Filled ==
    way = "in" =>
        /\ offset - init_offset <= taken
        /\ result # "exception" =>
              taken = offset - init_offset + IF pc = "writing" THEN chunk ELSE 0
        /\ "close" \notin mishaps => \A i \in 1..BlobSize :
              blob[i] = IF init_offset < i /\ i <= offset THEN i - init_offset ELSE 0

\* As far as the sink of a WritableStream has had the blob.
Sunk == IF pc = "writing" /\ ~writing THEN offset + chunk ELSE offset

\* What has been read from the blob is in the buffer, or has come to the sink.  A call
\* that has passed its end before it begins stays where it is.
Drained ==
    way = "out" =>
        /\ offset <= end \/ offset = init_offset
        /\ pc \in {"reading", "writing"} => offset + chunk <= end
        /\ pc = "writing" => 0 <= init_offset /\ offset + chunk <= BlobSize
        /\ result = "count" => offset >= end
        /\ blob = [i \in 1..BlobSize |-> 0]
        /\ pc = "writing" /\ writing => buffer = <<offset, offset + chunk>>
        /\ Unspoilt /\ result # "exception" =>
              sink = [i \in 1..Sunk - init_offset |-> init_offset + i]

BlobInv == TypeOK /\ Stages /\ Filled /\ Drained

-----------------------------------------------------------------------------
(* Lemmas.                                                                 *)

\* The smaller of two numbers is one of them, and no greater than either.
LEMMA MinFacts ==
    ASSUME NEW a \in Int, NEW b \in Int
    PROVE  Min({a, b}) \in {a, b} /\ Min({a, b}) <= a /\ Min({a, b}) <= b
<1> DEFINE least(x) == x \in {a, b} /\ \A y \in {a, b} : x <= y
<1>1. \E x \in {a, b} : \A y \in {a, b} : x <= y
  <2>1. CASE a <= b
    BY <2>1
  <2>2. CASE ~(a <= b)
    BY <2>2
  <2> QED BY <2>1, <2>2
<1> QED BY <1>1 DEF Min

\* The places of a call, which are in the blob once it has begun.
LEMMA Places ==
    ASSUME TypeOK
    PROVE  /\ BlobSize \in Nat /\ BufferSize \in Nat \ {0} /\ MaxSupply \in Nat
           /\ init_offset \in Int /\ end \in Int
           /\ offset \in Int /\ init_offset <= offset
           /\ offset = init_offset \/ (0 <= init_offset /\ offset <= BlobSize)
           /\ taken \in Nat /\ supply \in Nat /\ chunk \in 0..BufferSize /\ chunk \in Nat
           /\ buffer[1] \in 0..BlobSize /\ buffer[2] \in 0..BlobSize
<1>1. BlobSize \in Nat /\ BufferSize \in Nat \ {0} /\ MaxSupply \in Nat
  BY ConstantsAssumption
<1>2. init_offset \in Int /\ length \in Nat \cup {-1}
  BY ConstantsAssumption DEF TypeOK
<1>3. end \in Int
  BY <1>1, <1>2 DEF end
<1> QED BY <1>1, <1>2, <1>3 DEF TypeOK

\* A chunk that a ReadableStream answers with is no longer than the buffer, nor than
\* what the stream has left.
LEMMA AnswersFit ==
    ASSUME TypeOK, NEW n \in Answers
    PROVE  n \in 0..BufferSize /\ taken + n \in 0..supply /\ taken + n >= taken
<1>1. /\ BufferSize \in Nat /\ chunk \in Nat /\ chunk <= BufferSize
      /\ taken \in Nat /\ supply \in Nat /\ taken <= supply
  BY Places DEF TypeOK
<1>2. n \in Nat /\ n <= chunk /\ n <= supply - taken
  <2>1. CASE taken < supply
    <3> DEFINE d == supply - taken  m == Min({chunk, d})
    <3>1. n \in 1..m /\ d \in Nat
      BY <1>1, <2>1 DEF Answers
    <3> HIDE DEF d
    <3>2. m \in {chunk, d} /\ m <= chunk /\ m <= d
      BY <1>1, <3>1, MinFacts
    <3> HIDE DEF m
    <3>3. n \in Nat /\ n <= m /\ m \in Nat
      BY <1>1, <3>1, <3>2
    <3>4. n \in Nat /\ n <= chunk /\ n <= d
      BY <1>1, <3>1, <3>2, <3>3
    <3> QED BY <3>4 DEF d
  <2>2. CASE ~(taken < supply)
    BY <1>1, <2>2 DEF Answers
  <2> QED BY <2>1, <2>2
<1> QED BY <1>1, <1>2

\* A function on 1..n is a sequence.
LEMMA FunctionIsSeq ==
    ASSUME NEW S, NEW n \in Nat, NEW q \in [1..n -> S]
    PROVE  q \in Seq(S)
  BY SeqDef

\* A sequence of bytes that follow each other, and the next ones.
LEMMA BytesFollow ==
    ASSUME NEW a \in Nat, NEW b \in Nat, NEW c \in Nat, a <= b, b <= c, c <= BlobSize,
           BlobSize \in Nat
    PROVE  /\ [i \in 1..b - a |-> a + i] \in Seq(1..BlobSize)
           /\ [i \in 1..b - a |-> a + i] \o [i \in 1..c - b |-> b + i] = [i \in 1..c - a |-> a + i]
<1> DEFINE s(x, y) == [i \in 1..y - x |-> x + i]
<1>1. ASSUME NEW x \in Nat, NEW y \in Nat, x <= y, y <= c
      PROVE  /\ s(x, y) \in Seq(1..BlobSize) /\ Len(s(x, y)) = y - x
             /\ \A i \in 1..y - x : s(x, y)[i] = x + i
  <2>1. s(x, y) \in [1..y - x -> 1..BlobSize] /\ y - x \in Nat
    BY <1>1
  <2>2. s(x, y) \in Seq(1..BlobSize)
    BY <2>1, FunctionIsSeq
  <2> QED BY <2>1, <2>2, LenProperties
<1> HIDE DEF s
<1>2. s(a, b) \o s(b, c) = s(a, c)
  <2>1. /\ s(a, b) \in Seq(1..BlobSize) /\ Len(s(a, b)) = b - a
        /\ \A i \in 1..b - a : s(a, b)[i] = a + i
    BY <1>1
  <2>2. /\ s(b, c) \in Seq(1..BlobSize) /\ Len(s(b, c)) = c - b
        /\ \A i \in 1..c - b : s(b, c)[i] = b + i
    BY <1>1
  <2>3. /\ s(a, c) \in Seq(1..BlobSize) /\ Len(s(a, c)) = c - a
        /\ \A i \in 1..c - a : s(a, c)[i] = a + i
    BY <1>1
  <2>4. /\ s(a, b) \o s(b, c) \in Seq(1..BlobSize)
        /\ Len(s(a, b) \o s(b, c)) = c - a
        /\ \A i \in 1..c - a : (s(a, b) \o s(b, c))[i] =
               IF i <= b - a THEN s(a, b)[i] ELSE s(b, c)[i - (b - a)]
    <3> DEFINE q == s(a, b)  r == s(b, c)
    <3>1. (b - a) + (c - b) = c - a
      OBVIOUS
    <3>2. q \in Seq(1..BlobSize) /\ r \in Seq(1..BlobSize) /\ Len(q) = b - a /\ Len(r) = c - b
      BY <2>1, <2>2
    <3> HIDE DEF q, r
    <3>3. /\ q \o r \in Seq(1..BlobSize) /\ Len(q \o r) = Len(q) + Len(r)
          /\ \A i \in 1..Len(q) + Len(r) : (q \o r)[i] = IF i <= Len(q) THEN q[i] ELSE r[i - Len(q)]
      BY <3>2, ConcatProperties
    <3>4. Len(q) + Len(r) = c - a
      BY <3>1, <3>2
    <3> QED BY <3>2, <3>3, <3>4 DEF q, r
  <2>5. ASSUME NEW i \in 1..c - a PROVE (s(a, b) \o s(b, c))[i] = s(a, c)[i]
    <3>1. CASE i <= b - a
      <4>1. i \in 1..b - a
        BY <3>1
      <4> QED BY <2>1, <2>3, <2>4, <3>1, <4>1
    <3>2. CASE ~(i <= b - a)
      <4>1. i - (b - a) \in 1..c - b /\ b + (i - (b - a)) = a + i
        BY <3>2
      <4> QED BY <2>2, <2>3, <2>4, <3>2, <4>1
    <3> QED BY <3>1, <3>2
  <2> QED BY <2>3, <2>4, <2>5, SeqEqual
<1>3. s(a, b) \in Seq(1..BlobSize)
  BY <1>1
<1> QED BY <1>2, <1>3 DEF s

-----------------------------------------------------------------------------
(* The steps.                                                              *)

LEMMA InitBlobInv == Init => BlobInv
<1> SUFFICES ASSUME Init PROVE BlobInv
  OBVIOUS
<1> USE DEF Init
<1>1. init_offset \in Int /\ BlobSize \in Nat /\ length \in Nat \cup {-1}
  BY ConstantsAssumption
<1>2. TypeOK
  <2>1. supply \in 0..MaxSupply
    BY ConstantsAssumption
  <2>2. sink \in Seq(1..BlobSize)
    BY EmptySeq
  <2>3. offset = init_offset /\ chunk \in 0..BufferSize /\ 0 \in 0..supply
    BY <1>1, <2>1, ConstantsAssumption
  <2>4. buffer \in (0..BlobSize) \X (0..BlobSize) /\ blob \in [1..BlobSize -> 0..taken]
    BY <1>1
  <2> QED BY <2>1, <2>2, <2>3, <2>4 DEF TypeOK
<1>3. Stages
  BY DEF Stages
<1>4. Filled
  BY <1>1, <1>2 DEF Filled, TypeOK
<1>5. Drained
  <2>1. Sunk - init_offset = 0
    BY <1>1 DEF Sunk
  <2>2. <<>> = [i \in 1..0 |-> init_offset + i]
    OBVIOUS
  <2> QED BY <1>2, <2>1, <2>2, Places DEF Drained
<1> QED BY <1>2, <1>3, <1>4, <1>5 DEF BlobInv

LEMMA OpenStep == ASSUME BlobInv, Open PROVE BlobInv'
<1> USE DEF BlobInv, Open, Throw, Leave, arguments
<1>1. TypeOK'
  BY DEF TypeOK
<1>2. Stages'
  BY DEF Stages
<1>3. Filled'
  BY DEF Filled
<1>4. Drained'
  BY DEF Drained, Sunk, Unspoilt, end
<1> QED BY <1>1, <1>2, <1>3, <1>4

LEMMA FinishStep == ASSUME BlobInv, Finish PROVE BlobInv'
<1> USE DEF BlobInv, Finish, Throw, Leave, arguments
<1>1. TypeOK'
  BY DEF TypeOK
<1>2. Stages'
  BY DEF Stages
<1>3. Filled'
  BY DEF Filled, Stages
<1>4. Drained'
  BY Places DEF Drained, Stages, Sunk, Unspoilt, end
<1> QED BY <1>1, <1>2, <1>3, <1>4

LEMMA ExpireStep == ASSUME BlobInv, Expire PROVE BlobInv'
<1> USE DEF BlobInv, Expire, arguments
<1>1. TypeOK'
  BY DEF TypeOK
<1>2. Stages' /\ Filled' /\ Drained'
  BY DEF Stages, Filled, Drained, Sunk, Unspoilt, end
<1> QED BY <1>1, <1>2

LEMMA ReadStreamStep == ASSUME BlobInv, ReadStream PROVE BlobInv'
<1> USE DEF BlobInv, arguments
<1>1. way = "in" /\ way' = "in" /\ pc = "loop" /\ result = "none"
  BY DEF ReadStream, Stages
<1>2. CASE Throw /\ UNCHANGED <<chunk, taken>>
  <2> USE <1>2 DEF ReadStream, Throw, Leave
  <2>1. TypeOK'
    BY DEF TypeOK
  <2>2. Stages' /\ Filled' /\ Drained'
    BY <1>1 DEF Stages, Filled, Drained
  <2> QED BY <2>1, <2>2
<1>3. CASE chunk' \in Answers /\ taken' = taken + chunk' /\ pc' = "writing" /\ UNCHANGED result
  <2> USE <1>3 DEF ReadStream
  <2>1. /\ taken \in 0..supply /\ chunk \in 0..BufferSize
        /\ taken \in Nat /\ supply \in Nat /\ chunk \in Nat /\ BufferSize \in Nat
    BY Places DEF TypeOK
  <2>2. chunk' \in 0..BufferSize /\ taken' \in 0..supply /\ taken' >= taken
    BY <2>1, AnswersFit
  <2>3. TypeOK'
    <3>1. blob \in [1..BlobSize -> 0..taken']
      BY <2>1, <2>2 DEF TypeOK
    <3> QED BY <2>2, <3>1 DEF TypeOK
  <2>4. Stages'
    BY <1>1 DEF Stages
  <2>5. Filled'
    BY <1>1, <2>1, <2>2, Places DEF Filled
  <2>6. Drained'
    BY <1>1 DEF Drained
  <2> QED BY <2>3, <2>4, <2>5, <2>6
<1> QED BY <1>2, <1>3 DEF ReadStream

LEMMA WriteBlobStep == ASSUME BlobInv, WriteBlob PROVE BlobInv'
<1> USE DEF BlobInv, arguments
<1>1. way = "in" /\ way' = "in" /\ pc = "writing" /\ result = "none"
  BY DEF WriteBlob, Stages
<1>2. CASE Throw /\ UNCHANGED <<blob, offset>>
  <2> USE <1>2 DEF WriteBlob, Throw, Leave
  <2>1. TypeOK'
    BY DEF TypeOK
  <2>2. Stages' /\ Filled' /\ Drained'
    BY <1>1 DEF Stages, Filled, Drained
  <2> QED BY <2>1, <2>2
<1>3. CASE /\ InBlob /\ blob' = Stored /\ offset' = offset + chunk
           /\ IF done THEN Leave("count") ELSE pc' = "loop" /\ UNCHANGED result
  <2> USE <1>3 DEF WriteBlob, Leave
  <2>1. taken = offset - init_offset + chunk
    BY <1>1 DEF Filled
  <2>2. /\ 0 <= init_offset /\ offset' \in init_offset..BlobSize
        /\ offset' - init_offset = taken
    BY <2>1, Places DEF InBlob
  <2>3. blob' \in [1..BlobSize -> 0..taken]
    <3> SUFFICES ASSUME NEW i \in 1..BlobSize
                 PROVE  IF i \in offset + 1..offset + chunk
                        THEN taken - chunk + i - offset \in 0..taken ELSE blob[i] \in 0..taken
      BY DEF Stored
    <3>1. blob[i] \in 0..taken
      BY DEF TypeOK
    <3>2. i \in offset + 1..offset + chunk => taken - chunk + i - offset \in 0..taken
      BY <2>1, Places
    <3> QED BY <3>1, <3>2
  <2>4. TypeOK'
    BY <2>2, <2>3 DEF TypeOK
  <2>5. Stages'
    BY <1>1 DEF Stages
  <2>6. Filled'
    <3>1. ASSUME "close" \notin mishaps, NEW i \in 1..BlobSize
          PROVE  blob'[i] = IF init_offset < i /\ i <= offset' THEN i - init_offset ELSE 0
      <4>1. blob'[i] = IF i \in offset + 1..offset + chunk THEN taken - chunk + i - offset ELSE blob[i]
        BY DEF Stored
      <4>2. blob[i] = IF init_offset < i /\ i <= offset THEN i - init_offset ELSE 0
        BY <1>1, <3>1 DEF Filled
      <4> QED BY <2>1, <4>1, <4>2, Places
    <3>2. pc' # "writing"
      OBVIOUS
    <3> QED BY <2>1, <2>2, <3>1, <3>2, Places DEF Filled
  <2>7. Drained'
    BY <1>1 DEF Drained
  <2> QED BY <2>4, <2>5, <2>6, <2>7
<1> QED BY <1>2, <1>3 DEF WriteBlob

LEMMA StartReadStep == ASSUME BlobInv, StartRead PROVE BlobInv'
<1> USE DEF BlobInv, StartRead, arguments
<1>1. /\ chunk' \in 0..BufferSize /\ offset + chunk' <= end
      /\ end' = end /\ result = "none" /\ way = "out"
  <2>1. end - offset \in Int /\ BufferSize \in Int /\ offset < end
    BY Places
  <2>2. /\ NextChunk \in {BufferSize, end - offset}
        /\ NextChunk <= BufferSize /\ NextChunk <= end - offset
    BY <2>1, MinFacts DEF NextChunk
  <2> QED BY <2>1, <2>2, Places DEF Stages, end
<1>2. TypeOK'
  BY <1>1 DEF TypeOK
<1>3. Stages'
  BY DEF Stages
<1>4. Filled'
  BY <1>1 DEF Filled
<1>5. Drained'
  BY <1>1 DEF Drained, Sunk, Unspoilt
<1> QED BY <1>2, <1>3, <1>4, <1>5

LEMMA ReadStep == ASSUME BlobInv, Read PROVE BlobInv'
<1> USE DEF BlobInv, Read, arguments
<1>1. way = "out" /\ pc \in {"reading", "finally", "settled"}
  BY DEF Stages, TypeOK
<1>2. buffer' \in (0..BlobSize) \X (0..BlobSize) /\ buffer'[1] <= buffer'[2]
  BY Places DEF InBlob
<1>3. TypeOK'
  BY <1>2 DEF TypeOK
<1>4. Stages'
  BY <1>2 DEF Stages
<1>5. Filled' /\ Drained'
  BY <1>1 DEF Filled, Drained, Sunk, Unspoilt, end
<1> QED BY <1>3, <1>4, <1>5

LEMMA GiveChunkStep == ASSUME BlobInv, GiveChunk PROVE BlobInv'
<1> USE DEF BlobInv, GiveChunk, WriteChunk, Throw, Leave, arguments
<1>1. way = "out" /\ pc = "reading" /\ ~reading /\ result = "none"
  BY DEF Stages, TypeOK
<1>2. TypeOK'
  BY DEF TypeOK
<1>3. Stages'
  BY <1>1 DEF Stages
<1>4. Filled'
  BY <1>1 DEF Filled
<1>5. Drained'
  <2>1. pc' = "writing" =>
           /\ 0 <= init_offset /\ offset + chunk <= BlobSize
           /\ buffer = <<offset, offset + chunk>>
    BY Places
  <2> QED BY <1>1, <2>1 DEF Drained, Sunk, Unspoilt, end
<1> QED BY <1>2, <1>3, <1>4, <1>5

LEMMA NotReadyStep == ASSUME BlobInv, NotReady PROVE BlobInv'
<1> USE DEF BlobInv, NotReady, Throw, Leave, arguments
<1>1. way = "out"
  BY DEF Stages, TypeOK
<1>2. TypeOK'
  BY DEF TypeOK
<1>3. Stages'
  BY DEF Stages
<1>4. Filled'
  BY <1>1 DEF Filled
<1>5. Drained'
  BY <1>1 DEF Drained, end
<1> QED BY <1>2, <1>3, <1>4, <1>5

LEMMA TakeStep == ASSUME BlobInv, Take PROVE BlobInv'
<1> USE DEF BlobInv, Take, arguments
<1> DEFINE bytes == [i \in 1..buffer[2] - buffer[1] |-> buffer[1] + i]
<1>1. way = "out" /\ writing /\ (pc = "writing" \/ "late" \in mishaps)
  BY DEF Stages
<1>2. bytes \in Seq(1..BlobSize)
  <2>1. buffer[1] \in Nat /\ buffer[2] \in Nat /\ buffer[1] <= buffer[2] /\ buffer[2] <= BlobSize
        /\ BlobSize \in Nat
    BY Places DEF Stages
  <2> QED BY <2>1, BytesFollow
<1>3. TypeOK'
  <2>1. sink' \in Seq(1..BlobSize)
    <3>1. sink' = sink \o bytes \/ sink' = sink
      OBVIOUS
    <3>2. sink \in Seq(1..BlobSize)
      BY DEF TypeOK
    <3> HIDE DEF bytes
    <3> QED BY <1>2, <3>1, <3>2, ConcatProperties
  <2> QED BY <2>1 DEF TypeOK
<1>4. Stages'
  BY DEF Stages
<1>5. Filled'
  BY <1>1 DEF Filled
<1>6. Drained'
  <2>1. ASSUME Unspoilt', result # "exception"
        PROVE  sink' = [i \in 1..Sunk' - init_offset |-> init_offset + i]
    <3>1. Unspoilt /\ pc = "writing" /\ sink' = sink \o bytes
      <4>1. mishaps' = mishaps /\ sink' = sink \o bytes
        <5>1. mishaps' # mishaps \cup {"grow"}
          BY <2>1 DEF Unspoilt
        <5> QED BY <5>1
      <4> QED BY <1>1, <2>1, <4>1 DEF Unspoilt
    <3>2. buffer[1] = offset /\ buffer[2] = offset + chunk /\ Sunk = offset /\ Sunk' = offset + chunk
      BY <1>1, <3>1 DEF Drained, Sunk
    <3>3. sink = [i \in 1..offset - init_offset |-> init_offset + i]
      BY <1>1, <2>1, <3>1, <3>2 DEF Drained
    <3>4. init_offset \in Nat /\ offset \in Nat /\ offset + chunk \in Nat /\ init_offset <= offset
          /\ offset <= offset + chunk /\ offset + chunk <= BlobSize /\ BlobSize \in Nat
      BY <1>1, <3>1, Places DEF Drained
    <3>5. sink \o [i \in 1..(offset + chunk) - offset |-> offset + i] =
             [i \in 1..(offset + chunk) - init_offset |-> init_offset + i]
      BY <3>3, <3>4, BytesFollow, SMTT(30)
    <3> QED BY <3>1, <3>2, <3>5
  <2> QED BY <1>1, <2>1 DEF Drained, end
<1> QED BY <1>3, <1>4, <1>5, <1>6

LEMMA WrittenStep == ASSUME BlobInv, Written PROVE BlobInv'
<1> USE DEF BlobInv, Written, Throw, Leave, arguments
<1>1. way = "out" /\ pc = "writing" /\ result = "none"
  BY DEF Stages
<1>2. TypeOK'
  <2>1. offset' = init_offset \/ (0 <= init_offset /\ offset' \in init_offset..BlobSize)
    BY <1>1, Places DEF Drained
  <2>2. mishaps' \subseteq {"ready", "late", "grow", "close"}
    BY DEF TypeOK
  <2> QED BY <2>1, <2>2 DEF TypeOK
<1>3. Stages'
  BY <1>1 DEF Stages
<1>4. Filled'
  BY <1>1 DEF Filled
<1>5. Drained'
  <2>1. Unspoilt' => ~writing /\ Unspoilt
    <3> SUFFICES ASSUME Unspoilt' PROVE ~writing /\ Unspoilt
      OBVIOUS
    <3>1. mishaps' # mishaps \cup {"late"}
      BY DEF Unspoilt
    <3>2. ~writing /\ mishaps' = mishaps
      BY <3>1
    <3> QED BY <3>2 DEF Unspoilt
  <2> QED BY <1>1, <2>1, Places DEF Drained, Sunk, end
<1> QED BY <1>2, <1>3, <1>4, <1>5

LEMMA CloseStep == ASSUME BlobInv, Close PROVE BlobInv'
<1> USE DEF BlobInv, Close, arguments
<1>1. pc = "finally" /\ result # "none"
  BY DEF Stages
<1>2. TypeOK'
  <2>1. [i \in 1..BlobSize |-> 0] \in [1..BlobSize -> 0..taken]
    BY Places
  <2> QED BY <2>1 DEF TypeOK
<1>3. Stages'
  BY DEF Stages
<1>4. Filled'
  BY <1>1 DEF Filled
<1>5. Drained'
  BY <1>1 DEF Drained, Sunk, Unspoilt, end
<1> QED BY <1>2, <1>3, <1>4, <1>5

LEMMA NextBlobInv == BlobInv /\ [Next]_vars => BlobInv'
<1> SUFFICES ASSUME BlobInv, [Next]_vars PROVE BlobInv'
  OBVIOUS
<1>1. CASE UNCHANGED vars
  BY <1>1 DEF vars, arguments, BlobInv, TypeOK, Stages, Filled, Drained, Sunk, Unspoilt, end
<1>2. CASE Next
  BY <1>2, OpenStep, FinishStep, CloseStep, ExpireStep, ReadStreamStep, WriteBlobStep,
     StartReadStep, ReadStep, GiveChunkStep, NotReadyStep, TakeStep, WrittenStep DEF Next
<1> QED BY <1>1, <1>2

-----------------------------------------------------------------------------
(* The theorems.                                                           *)

\* What holds at every await of blob_io(), whatever the stream, the memory and other
\* statements do.
THEOREM BlobInvariant == Spec => []BlobInv
<1> QED BY InitBlobInv, NextBlobInv, PTL DEF Spec

\* The call's arguments, its chunk and what has gone through it have their types.
THEOREM TypeCorrect == Spec => []TypeOK
<1>1. BlobInv => TypeOK
  BY DEF BlobInv
<1> QED BY <1>1, BlobInvariant, PTL

\* blob_io() answers with the number of bytes that have come to the other side, each
\* at its place, for streams that answer chunks of any size.
THEOREM AnswersAreTrue == Spec => []CountIsTrue
<1>1. BlobInv => CountIsTrue
  <2> SUFFICES ASSUME BlobInv, Unspoilt, pc = "settled", result = "count"
               PROVE  IF way = "in"
                      THEN /\ taken = offset - init_offset
                           /\ \A i \in 1..taken : blob[init_offset + i] = i
                      ELSE /\ offset = IF init_offset < end THEN end ELSE init_offset
                           /\ sink = [i \in 1..offset - init_offset |-> init_offset + i]
    BY DEF CountIsTrue, AnswerIsTrue
  <2>1. CASE way = "in"
    <3>1. /\ taken = offset - init_offset
          /\ \A i \in 1..BlobSize :
                blob[i] = IF init_offset < i /\ i <= offset THEN i - init_offset ELSE 0
      BY <2>1, Places DEF BlobInv, Filled, Unspoilt
    <3>2. ASSUME NEW i \in 1..taken PROVE blob[init_offset + i] = i
      <4> DEFINE j == init_offset + i
      <4>1. j \in 1..BlobSize /\ init_offset < j /\ j <= offset /\ j - init_offset = i
        BY <3>1, Places DEF BlobInv
      <4> HIDE DEF j
      <4>2. blob[j] = i
        BY <3>1, <4>1
      <4> QED BY <4>2 DEF j
    <3> QED BY <2>1, <3>1, <3>2
  <2>2. CASE way = "out"
    BY <2>2, Places DEF BlobInv, Drained, Sunk
  <2> QED BY <2>1, <2>2 DEF BlobInv, TypeOK
<1> QED BY <1>1, BlobInvariant, PTL

\* Neither SQLite nor the sink uses the buffer after the memory was given back, but
\* for a stream that fails while SQLite reads and a sink that is done too early.
THEOREM NothingIsUsedAfterClose == Spec => []NoUseAfterClose
<1>1. BlobInv => NoUseAfterClose
  BY DEF BlobInv, Stages, ClosedWhenUnused, NoUseAfterClose
<1> QED BY <1>1, BlobInvariant, PTL

=============================================================================
