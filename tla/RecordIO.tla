------------------------------ MODULE RecordIO ------------------------------
(***************************************************************************)
(* The RecordIO format of dmlc-core (recordio.h, recordio.cc) and the      *)
(* operations the two kinds of splits have on raw data: text lines         *)
(* (line_split.cc) and RecordIO records (recordio_split.cc).               *)
(*                                                                         *)
(* RecordIO data is a sequence of aligned words: the magic number, headers *)
(* with a flag and a length, and words of data.  A record is a sequence of *)
(* data words; "pad" stands for a last word that is only half used and     *)
(* filled up with zeros.  Lengths count half words.  A data word may be    *)
(* the magic number, or look like a header.                                *)
(***************************************************************************)
EXTENDS Integers, FiniteSets, Sequences, SequencesExt

Magic == "magic"
Header(cflag, len) == <<cflag, len>>
IsHead(w, flags) == \E f \in flags, n \in 0 .. 20 : w = Header(f, n)
Length(ws) == 2 * Len(ws) - IF ws # <<>> /\ Last(ws) = "pad" THEN 1 ELSE 0
UpperAlign(len) == (len + 1) \div 2     \* in words

\* RecordIOWriter::WriteRecord: the data is cut at every magic number in it
WriteRecord(rec) ==
    LET cuts == SelectSeq([i \in 1 .. Len(rec) |-> i], LAMBDA i : rec[i] = Magic)
        from(j) == IF j = 1 THEN 1 ELSE cuts[j - 1] + 1
        cell(j) == SubSeq(rec, from(j), cuts[j] - 1)
        rest == SubSeq(rec, from(Len(cuts) + 1), Len(rec))
    IN  FlattenSeq([j \in DOMAIN cuts |->
              <<Magic, Header(IF j = 1 THEN 1 ELSE 2, Length(cell(j)))>> \o cell(j)])
          \o <<Magic, Header(IF cuts = <<>> THEN 0 ELSE 3, Length(rest))>> \o rest

WriteAll(recs) == FlattenSeq([i \in DOMAIN recs |-> WriteRecord(recs[i])])

\* RecordIOReader::NextRecord, RecordIOChunkReader::NextRecord and
\* RecordIOSplitter::ExtractNextRecord: the cell at position p, and the record that starts
\* there with its cells joined by magic numbers.  next is the position after it.
RECURSIVE NextRecord(_, _)
NextRecord(ws, p) ==
    LET cflag == ws[p + 1][1]
        n == UpperAlign(ws[p + 1][2])
        cell == SubSeq(ws, p + 2, p + 1 + n)
    IN  IF cflag \in {0, 3} THEN [rec |-> cell, next |-> p + 2 + n]
        ELSE LET tail == NextRecord(ws, p + 2 + n)
             IN  [rec |-> cell \o <<Magic>> \o tail.rec, next |-> tail.next]

RECURSIVE ReadAll(_, _)
ReadAll(ws, p) ==
    IF p > Len(ws) THEN <<>> ELSE LET r == NextRecord(ws, p) IN <<r.rec>> \o ReadAll(ws, r.next)

Earliest(ps, default) == IF ps = {} THEN default ELSE CHOOSE p \in ps : \A q \in ps : p <= q
Latest(ps, default) == IF ps = {} THEN default ELSE CHOOSE p \in ps : \A q \in ps : p >= q

\* FindNextRecordIOHead, and SeekRecordBegin of RecordIOSplitter
RecordHeads(ws) == {p \in 1 .. Len(ws) - 1 : ws[p] = Magic /\ IsHead(ws[p + 1], {0, 1})}
NextHead(ws, from) == Earliest({p \in RecordHeads(ws) : p >= from}, Len(ws) + 1)

\* RecordIOChunkReader: part i of n of a chunk, from the first head at or after its start to
\* the first head at or after its end
ChunkPart(ws, i, n) ==
    LET nstep == (Len(ws) + n - 1) \div n
        at(k) == IF nstep * k < Len(ws) THEN nstep * k ELSE Len(ws)
    IN  SubSeq(ws, NextHead(ws, at(i) + 1), NextHead(ws, at(i + 1) + 1) - 1)
-----------------------------------------------------------------------------
(* Text: "n" and "r" are the two end-of-line characters.                   *)

Eol == {"n", "r"}

\* LineSplitter::SeekRecordBegin: past the first end of line and all that follow it at once
SeekLine(text, from) ==
    LET eol == Earliest({p \in from .. Len(text) : text[p] \in Eol}, Len(text) + 1)
    IN  Earliest({p \in eol + 1 .. Len(text) : text[p] \notin Eol}, Len(text) + 1)

\* LineSplitter::ExtractNextRecord and SingleFileSplit::FindNextRecord: where the record ends
LineEnd(chunk) == SeekLine(chunk, 1) - 1
-----------------------------------------------------------------------------
(* By kind of split: "line", "recordio", or "single" for SingleFileSplit.  *)

SeekRecordBegin(kind, data, from) ==
    IF kind = "recordio" THEN NextHead(data, from) ELSE SeekLine(data, from)

\* FindLastRecordBegin: how much of a full buffer is handed out; 0 if no record starts in it
\* after its beginning
FindLastRecordBegin(kind, buf) ==
    IF kind = "recordio" THEN Latest({p \in RecordHeads(buf) : p > 1}, 1) - 1
    ELSE Latest({p \in 2 .. Len(buf) : buf[p] \in Eol}, 0)

\* ExtractNextRecord: the record, and the length of what it takes from the chunk
ExtractNextRecord(kind, chunk) ==
    IF kind = "recordio" THEN LET r == NextRecord(chunk, 1) IN [rec |-> r.rec, size |-> r.next - 1]
    ELSE [rec |-> SubSeq(chunk, 1, LineEnd(chunk)), size |-> LineEnd(chunk)]
-----------------------------------------------------------------------------
\* Records are read back as they were written, whatever magic numbers and header look-alikes
\* are in them; and the parts of a chunk, for any number of parts, have every record once.
RecordsSurvive(recs) ==
    LET ws == WriteAll(recs)
    IN  /\ ReadAll(ws, 1) = recs
        /\ \A n \in 1 .. 3 :
              FlattenSeq([i \in 1 .. n |-> ReadAll(ChunkPart(ws, i - 1, n), 1)]) = recs
=============================================================================
