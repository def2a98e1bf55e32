------------------------------- MODULE BlobIo -------------------------------
(***************************************************************************)
(* One call of the SQL function blob_io() of src/src/func/blob_io.js.  It  *)
(* fills a blob from a ReadableStream (way "in") or empties one into a     *)
(* WritableStream (way "out"), in chunks that go through a buffer which    *)
(* borrow_mem() lends.  The stream may answer short chunks, end early or   *)
(* fail; other statements may change another column of the row, for which  *)
(* SQLite invalidates the blob handle; the memory of the instance may grow.*)
(*   Bytes are numbered, the stream's from 1 on and the blob's by their    *)
(* place: blob[i] is the byte of the stream that stands at place i, 0 for  *)
(* what was there before, and sink the places of the blob whose bytes the  *)
(* sink of the stream has taken.                                           *)
(***************************************************************************)
EXTENDS Integers, Sequences, FiniteSetsExt

CONSTANTS
    BlobSize,       \* the bytes of the blob
    MaxSupply,      \* bound: the bytes of a ReadableStream
    BufferSize,     \* stream_handle.buffer_size
    Offsets,        \* the offsets asked for, in the blob or not
    Lengths,        \* the lengths asked for; -1 is the default
    Faults          \* what may go wrong

ASSUME ConstantsAssumption ==
    /\ BlobSize \in Nat /\ MaxSupply \in Nat /\ BufferSize \in Nat \ {0}
    /\ Offsets \subseteq Int /\ Lengths \subseteq Nat \cup {-1}
    /\ Faults \subseteq {"open", "stream", "expire", "ready", "late", "grow", "close"}

VARIABLES
    way, supply,    \* the direction, and the bytes of a ReadableStream
    init_offset, length,
    pc,             \* the await the call is suspended at
    valid,          \* whether the blob handle is still valid
    offset,
    taken,          \* the bytes read from the ReadableStream
    chunk,          \* transfer.byteLength, or chunk_len
    buffer,         \* the places of the bytes in the buffer: after one, up to the other
    reading,        \* whether a call of sqlite3_blob_read is under way
    writing,        \* whether the sink has yet to take the chunk it was given
    blob, sink,
    mishaps,        \* what has happened that the code does not reckon with
    result

arguments == <<way, supply, init_offset, length>>
vars == <<arguments, pc, valid, offset, taken, chunk, buffer, reading, writing,
          blob, sink, mishaps, result>>

\* Lines 52 and 53.  Without a length it is that of the blob, whatever the offset.
end == init_offset + IF length < 0 THEN BlobSize - init_offset ELSE length

\* The call's arguments, its chunk and what has gone through it have their types.
TypeOK ==
    /\ way \in {"in", "out"} /\ supply \in 0..MaxSupply
    /\ init_offset \in Offsets /\ length \in Lengths
    /\ pc \in {"opening", "loop", "reading", "writing", "finally", "settled"}
    /\ valid \in BOOLEAN
    /\ offset = init_offset \/ (0 <= init_offset /\ offset \in init_offset..BlobSize)
    /\ taken \in 0..supply /\ chunk \in 0..BufferSize
    /\ buffer \in (0..BlobSize) \X (0..BlobSize)
    /\ reading \in BOOLEAN /\ writing \in BOOLEAN
    /\ blob \in [1..BlobSize -> 0..taken] /\ sink \in Seq(1..BlobSize)
    /\ mishaps \subseteq {"ready", "late", "grow", "close"}
    /\ result \in {"none", "count", "exception"}

Init ==
    /\ way \in {"in", "out"}
    /\ supply \in IF way = "in" THEN 0..MaxSupply ELSE {0}
    /\ init_offset \in Offsets /\ length \in Lengths
    /\ pc = "opening" /\ valid = TRUE /\ offset = init_offset
    /\ taken = 0 /\ chunk = BufferSize /\ buffer = <<0, 0>>
    /\ reading = FALSE /\ writing = FALSE
    /\ blob = [i \in 1..BlobSize |-> 0] /\ sink = <<>>
    /\ mishaps = {} /\ result = "none"

\* The way into the finally block.  The answer is offset - init_offset.
Leave(outcome) == pc' = "finally" /\ result' = outcome
Throw == Leave("exception")

\* sqlite3_blob_open, awaited.
Open ==
    /\ pc = "opening"
    /\ \/ pc' = "loop" /\ UNCHANGED result
       \/ "open" \in Faults /\ Throw
    /\ UNCHANGED <<arguments, valid, offset, taken, chunk, buffer, reading, writing, blob, sink, mishaps>>

\* The end of the loop; a WritableStream is closed, and may refuse it.
Finish ==
    /\ pc = "loop" /\ offset >= end
    /\ \/ Leave("count")
       \/ way = "out" /\ "stream" \in Faults /\ Throw
    /\ UNCHANGED <<arguments, valid, offset, taken, chunk, buffer, reading, writing, blob, sink, mishaps>>

\* Another statement writes to the row, though not to the blob.
Expire ==
    /\ "expire" \in Faults /\ pc # "settled" /\ valid
    /\ valid' = FALSE
    /\ UNCHANGED <<arguments, pc, offset, taken, chunk, buffer, reading, writing, blob, sink, result, mishaps>>

\* sqlite3_blob_read and _write refuse what is not in the blob.
InBlob == 0 <= offset /\ offset + chunk <= BlobSize

-----------------------------------------------------------------------------
(* From a ReadableStream into the blob.                                    *)

\* What reader.read(transfer) may answer: a chunk no longer than what was
\* transferred, or the end of the stream with an empty one.
Answers == IF taken < supply THEN 1..Min({chunk, supply - taken}) ELSE {0}
done == chunk = 0

ReadStream ==
    /\ pc = "loop" /\ way = "in" /\ offset < end
    /\ \/ /\ chunk' \in Answers
          /\ taken' = taken + chunk'
          /\ pc' = "writing" /\ UNCHANGED result
       \/ "stream" \in Faults /\ Throw /\ UNCHANGED <<chunk, taken>>
    /\ UNCHANGED <<arguments, valid, offset, buffer, reading, writing, blob, sink, mishaps>>

\* The blob with the chunk at the offset, and a mutant that puts the first bytes
\* of the buffer there each time.
Restored == [i \in 1..BlobSize |->
    IF i \in offset + 1..offset + chunk THEN i - offset ELSE blob[i]]
Stored == [i \in 1..BlobSize |->
    IF i \in offset + 1..offset + chunk THEN taken - chunk + i - offset ELSE blob[i]]

\* sqlite3_blob_write, awaited, for a chunk that may be empty and the last.  When
\* it fails the stream is cancelled.
WriteBlob ==
    /\ pc = "writing" /\ way = "in"
    /\ \/ /\ valid /\ InBlob
          /\ blob' = Stored /\ offset' = offset + chunk
          /\ IF done THEN Leave("count") ELSE pc' = "loop" /\ UNCHANGED result
       \/ ~(valid /\ InBlob) /\ Throw /\ UNCHANGED <<blob, offset>>
    /\ UNCHANGED <<arguments, valid, taken, chunk, buffer, reading, writing, sink, mishaps>>

-----------------------------------------------------------------------------
(* From the blob into a WritableStream.                                    *)

\* Line 84, and mutants with one of the two limits.
WholeChunk == BufferSize
RestOfBlob == end - offset
NextChunk == Min({BufferSize, end - offset})

\* sqlite3_blob_read is called, and writer.ready waited for with it.
StartRead ==
    /\ pc = "loop" /\ way = "out" /\ offset < end
    /\ chunk' = NextChunk
    /\ reading' = TRUE /\ pc' = "reading"
    /\ UNCHANGED <<arguments, valid, offset, taken, buffer, writing, blob, sink, result, mishaps>>

\* SQLite answers; it fills the buffer, whoever's that is by now, or refuses.
Read ==
    /\ reading
    /\ reading' = FALSE
    /\ buffer' = IF valid /\ InBlob THEN <<offset, offset + chunk>> ELSE <<0, 0>>
    /\ UNCHANGED <<arguments, pc, valid, offset, taken, chunk, writing, blob, sink, result, mishaps>>

\* The chunk is given to the writer, which keeps the buffer until its sink has
\* taken it.  A mutant does not wait for that.
WriteUnawaited ==
    /\ pc' = "loop" /\ writing' = TRUE /\ offset' = offset + chunk
    /\ UNCHANGED result
WriteChunk ==
    /\ pc' = "writing" /\ writing' = TRUE
    /\ UNCHANGED <<offset, result>>
GiveChunk ==
    /\ pc = "reading" /\ ~reading
    /\ \/ buffer = <<offset, offset + chunk>> /\ ~writing /\ WriteChunk
       \/ buffer = <<0, 0>> /\ Throw /\ UNCHANGED <<offset, writing>>
    /\ UNCHANGED <<arguments, valid, taken, chunk, buffer, reading, blob, sink, mishaps>>

\* The stream has failed: Promise.all rejects, whether SQLite has answered or not.
NotReady ==
    /\ "ready" \in Faults /\ pc = "reading" /\ Throw
    /\ mishaps' = mishaps \cup IF reading THEN {"ready"} ELSE {}
    /\ UNCHANGED <<arguments, valid, offset, taken, chunk, buffer, reading, writing, blob, sink>>

\* The sink takes the bytes that the buffer holds then; when the memory has grown
\* meanwhile the view is detached, and there are none.  A sink that keeps the
\* chunks, or has a queue of its own for them, is done before it has taken them.
Take ==
    /\ writing /\ writing' = FALSE
    /\ \/ /\ sink' = sink \o [i \in 1..buffer[2] - buffer[1] |-> buffer[1] + i]
          /\ UNCHANGED mishaps
       \/ "grow" \in Faults /\ mishaps' = mishaps \cup {"grow"} /\ UNCHANGED sink
    /\ UNCHANGED <<arguments, pc, valid, offset, taken, chunk, buffer, reading, blob, result>>
Written ==
    /\ pc = "writing" /\ way = "out"
    /\ \/ ~writing /\ UNCHANGED mishaps
       \/ writing /\ "late" \in Faults /\ mishaps' = mishaps \cup {"late"}
    /\ \/ pc' = "loop" /\ offset' = offset + chunk /\ UNCHANGED result
       \/ "stream" \in Faults /\ Throw /\ UNCHANGED offset
    /\ UNCHANGED <<arguments, valid, taken, chunk, buffer, reading, writing, blob, sink>>

-----------------------------------------------------------------------------
\* The finally block, and the memory is given back.  Closing a handle that has
\* written commits outside a transaction; nobody looks at whether it could.
Close ==
    /\ pc = "finally" /\ pc' = "settled"
    /\ \/ UNCHANGED <<blob, mishaps>>
       \/ /\ "close" \in Faults /\ way = "in" /\ mishaps' = mishaps \cup {"close"}
          /\ blob' = [i \in 1..BlobSize |-> 0]
    /\ UNCHANGED <<arguments, valid, offset, taken, chunk, buffer, reading, writing, sink, result>>

Next ==
    \/ Open \/ Finish \/ Close \/ Expire
    \/ ReadStream \/ WriteBlob
    \/ StartRead \/ Read \/ GiveChunk \/ NotReady \/ Take \/ Written

Spec == Init /\ [][Next]_vars

-----------------------------------------------------------------------------
(* Properties.                                                             *)

\* Neither the sink was done before it had taken a chunk, nor did the memory grow
\* before it had, nor did the close fail.
Unspoilt == mishaps \subseteq {"ready"}

\* What the call answers is the truth when it answers, whatever the offset and the
\* sizes of the chunks: so many bytes of the stream, all that were read from it, are
\* in the blob from the offset on, or the sink has those of the blob that were asked
\* for, each once and in order.
AnswerIsTrue ==
    pc = "settled" /\ result = "count" =>
        IF way = "in"
        THEN /\ taken = offset - init_offset
             /\ \A i \in 1..taken : blob[init_offset + i] = i
        ELSE /\ offset = IF init_offset < end THEN end ELSE init_offset
             /\ sink = [i \in 1..offset - init_offset |-> init_offset + i]
CountIsTrue == Unspoilt => AnswerIsTrue

\* The blob handle is closed and the buffer given back when neither SQLite nor
\* the sink has any use for them.
ClosedWhenUnused == pc = "settled" => ~reading /\ ~writing

\* That is so but for a stream that fails while SQLite reads, and for a sink that is
\* done too early.
NoUseAfterClose == ClosedWhenUnused \/ mishaps \cap {"ready", "late"} # {}

\* Nothing of the blob is overwritten but what was asked for: blob_io() takes a
\* length.
WithinLength == \A i \in 1..BlobSize : blob[i] # 0 => i <= end

=============================================================================
