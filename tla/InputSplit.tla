----------------------------- MODULE InputSplit -----------------------------
(***************************************************************************)
(* Reading one part of the input: InputSplitBase with LineSplitter and     *)
(* RecordIOSplitter, and SingleFileSplit (dmlc-core/src/io).  The files of *)
(* the input are one sequence of bytes, cut into nsplit parts of the same  *)
(* size; both ends of a part are moved on to the next record.  The part is *)
(* read in chunks that end with a record, what is left over is kept for    *)
(* the next chunk, and the buffer is doubled when no record ends in it.    *)
(*                                                                         *)
(* An offset counts the units (characters or words) before it; the         *)
(* alignment of 4 bytes of a RecordIO part is that of a word.              *)
(***************************************************************************)
EXTENDS RecordIO

CONSTANTS
    Inputs,     \* the inputs: records [kind, files]
    MaxSplit,   \* bound on nsplit
    BufferSize, \* initial size of a chunk
    MaxRewind   \* bound on the calls of BeforeFirst

VARIABLES
    input,      \* the input that is read
    split,      \* the state of the split
    out,        \* records delivered since the last BeforeFirst
    rewinds

splitVars == <<input, split, out, rewinds>>

Min2(a, b) == IF a < b THEN a ELSE b

Data(in) == FlattenSeq(in.files)

\* file_offset_
FileOffset(in, i) == FoldLeft(LAMBDA n, f : n + Len(f), 0, SubSeq(in.files, 1, i))

\* The offset moved on to the next record of its file; the start of a file stays.
RecordOffset(in, off) ==
    LET i == CHOOSE i \in 0 .. Len(in.files) :
               /\ FileOffset(in, i) <= off
               /\ i < Len(in.files) => off < FileOffset(in, i + 1)
    IN  IF off = FileOffset(in, i) THEN off
        ELSE FileOffset(in, i) + SeekRecordBegin(in.kind, in.files[i + 1], off - FileOffset(in, i) + 1) - 1

\* InputSplitBase::Init
Part(in, rank, nsplit) ==
    LET ntotal == Len(Data(in))
        nstep == (ntotal + nsplit - 1) \div nsplit
        b == Min2(nstep * rank, ntotal)
        e == Min2(nstep * (rank + 1), ntotal)
    IN  IF b = e \/ in.kind = "single" THEN IF in.kind = "single" THEN [begin |-> 0, end |-> ntotal] ELSE [begin |-> b, end |-> e]
        ELSE [begin |-> RecordOffset(in, b), end |-> RecordOffset(in, e)]

NewSplit(in, rank, nsplit) ==
    LET p == Part(in, rank, nsplit)
    IN  [begin |-> p.begin, end |-> p.end, curr |-> p.begin, overflow |-> <<>>, chunk |-> <<>>,
         size |-> BufferSize, eof |-> FALSE]
-----------------------------------------------------------------------------
\* NextRecord when the chunk has a record
Extract ==
    /\ split.chunk # <<>>
    /\ LET r == ExtractNextRecord(input.kind, split.chunk)
       IN  /\ out' = Append(out, r.rec)
           /\ split' = [split EXCEPT !.chunk = SubSeq(@, r.size + 1, Len(@))]
    /\ UNCHANGED <<input, rewinds>>

\* mutant of Load: the overflow of a full buffer is dropped
MutLoad ==
    /\ split.chunk = <<>> /\ ~split.eof
    /\ LET olen == Len(split.overflow)
           n == Min2(split.size - olen, split.end - split.curr)
           buf == split.overflow \o SubSeq(Data(input), split.curr + 1, split.curr + n)
           cut == IF Len(buf) = split.size THEN FindLastRecordBegin(input.kind, buf) ELSE Len(buf)
       IN  split' = IF split.size <= olen THEN [split EXCEPT !.size = 2 * @]
                    ELSE IF buf = <<>> THEN [split EXCEPT !.eof = TRUE]
                    ELSE [split EXCEPT !.curr = @ + n, !.chunk = SubSeq(buf, 1, cut),
                                       !.overflow = IF cut = 0 THEN buf ELSE <<>>,
                                       !.size = IF cut = 0 THEN 2 * @ ELSE @]
    /\ UNCHANGED <<input, out, rewinds>>

\* Chunk::Load with ReadChunk, and LoadChunk of SingleFileSplit: the overflow and what can be
\* read; from a full buffer only up to the last record that starts in it.
Load ==
    /\ split.chunk = <<>> /\ ~split.eof
    /\ LET olen == Len(split.overflow)
           n == Min2(split.size - olen, split.end - split.curr)
           buf == split.overflow \o SubSeq(Data(input), split.curr + 1, split.curr + n)
           cut == IF Len(buf) = split.size THEN FindLastRecordBegin(input.kind, buf) ELSE Len(buf)
       IN  split' = IF split.size <= olen THEN [split EXCEPT !.size = 2 * @]
                    ELSE IF buf = <<>> THEN [split EXCEPT !.eof = TRUE]
                    ELSE [split EXCEPT !.curr = @ + n, !.chunk = SubSeq(buf, 1, cut),
                                       !.overflow = SubSeq(buf, cut + 1, Len(buf)),
                                       !.size = IF cut = 0 THEN 2 * @ ELSE @]
    /\ UNCHANGED <<input, out, rewinds>>

\* BeforeFirst.  SingleFileSplit only moves the file position.
BeforeFirst ==
    /\ rewinds < MaxRewind /\ rewinds' = rewinds + 1
    /\ split' = IF input.kind = "single" THEN [split EXCEPT !.curr = 0, !.eof = FALSE]
                ELSE [split EXCEPT !.curr = split.begin, !.overflow = <<>>, !.chunk = <<>>, !.eof = FALSE]
    /\ out' = <<>>
    /\ UNCHANGED input
-----------------------------------------------------------------------------
Init ==
    /\ input \in Inputs
    /\ \E nsplit \in 1 .. MaxSplit : \E rank \in 0 .. nsplit - 1 : split = NewSplit(input, rank, nsplit)
    /\ out = <<>> /\ rewinds = 0

Next == Extract \/ Load \/ BeforeFirst
-----------------------------------------------------------------------------
\* A line without the characters that end it; a line that has no others is none.
Strip(line) == SelectSeq(line, LAMBDA c : c \notin Eol)
Lines(recs) == SelectSeq([i \in DOMAIN recs |-> Strip(recs[i])], LAMBDA l : l # <<>>)
RECURSIVE LinesOf(_)
LinesOf(text) ==
    IF text = <<>> THEN <<>>
    ELSE <<SubSeq(text, 1, LineEnd(text))>> \o LinesOf(SubSeq(text, LineEnd(text) + 1, Len(text)))

RecordsIn(in, b, e) ==
    LET d == SubSeq(Data(in), b + 1, e)
    IN  IF in.kind = "recordio" THEN ReadAll(d, 1) ELSE Lines(LinesOf(d))
Delivered == IF input.kind = "recordio" THEN out ELSE Lines(out)

\* Every part delivers its records in order, whatever the chunks, and all of them by its end; a
\* part read again from its beginning delivers the same.  (Chunks cut between the characters that
\* end a line, or between blank lines, give empty lines of their own.)
PartDelivered ==
    LET all == RecordsIn(input, split.begin, split.end)
    IN  rewinds = 0 \/ input.kind # "single" =>
           IF split.eof THEN Delivered = all ELSE IsPrefix(Delivered, all)

\* The parts of the input, for every number of parts, have every record exactly once, provided
\* every file ends with an end of line or a whole record.
PartitionExact ==
    \A n \in 1 .. MaxSplit :
        input.kind # "single" =>
        LET parts == [i \in 1 .. n |-> LET p == Part(input, i - 1, n) IN RecordsIn(input, p.begin, p.end)]
        IN  FlattenSeq(parts) = RecordsIn(input, 0, Len(Data(input)))
=============================================================================
