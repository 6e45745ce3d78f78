--------------------------- MODULE MinibatchIter ---------------------------
(***************************************************************************)
(* MinibatchIter (src/base/minibatch_iter.h): minibatches of a fixed size  *)
(* from the blocks of a parser, whatever their sizes, either in order or   *)
(* picked at random from a buffer of shuf_buf rows, a minibatch of a       *)
(* MinibatchIter without shuffling.  Rows with a negative label may be     *)
(* left out.                                                               *)
(*                                                                         *)
(* A row has one feature: [id, label, val], val being "none", "one" or     *)
(* "other" for its value; none is read as one.  The random choices are     *)
(* nondeterministic.                                                       *)
(***************************************************************************)
EXTENDS Integers, FiniteSets, Sequences, SequencesExt

CONSTANTS
    Sources,    \* the sequences of blocks the parser may deliver, none of them empty
    MbSize,     \* minibatch_size
    ShufBuf     \* shuf_buf when there is shuffling

VARIABLES
    source,     \* all blocks
    shuffle,    \* shuf_buf # 0
    sampling,   \* negative_sampling < 1
    mbi,        \* pc, blocks left, in_blk_, rdp_, start_, mb_ and the minibatches delivered
    batches     \* the minibatches delivered, ghost

mbiVars == <<source, shuffle, sampling, mbi, batches>>

AllRows == FlattenSeq(source)
Least(a, b) == IF a < b THEN a ELSE b
Perms(n) == {f \in [1 .. n -> 1 .. n] : \A i, j \in 1 .. n : i # j => f[i] # f[j]}
Identity(n) == [i \in 1 .. n |-> i]

\* The end of Next: values that are all 1 are dropped, and GetBlock checks that every feature has a
\* value, or none has.
Binary(rows) == \A i \in DOMAIN rows : rows[i].val # "other"
Checked(rows) == Binary(rows) \/ \A i \in DOMAIN rows : rows[i].val # "none"
Block(rows) == IF Binary(rows) THEN [i \in DOMAIN rows |-> [rows[i] EXCEPT !.val = "none"]] ELSE rows

\* Next when it needs another block: from the parser, or from the Next of buf_reader_, which may
\* fail
Fetch ==
    /\ mbi.pc = "fill" /\ Len(mbi.mb) < MbSize /\ mbi.start = Len(mbi.in)
    /\ IF mbi.left = <<>> THEN mbi' = [mbi EXCEPT !.pc = "emit"]
       ELSE LET rows == Head(mbi.left)
            IN  IF shuffle /\ ~Checked(rows) THEN mbi' = [mbi EXCEPT !.pc = "fatal"]
                ELSE mbi' = [mbi EXCEPT !.left = Tail(@), !.in = IF shuffle THEN Block(rows) ELSE rows, !.start = 0,
                                        !.rdp = Identity(Len(rows)), !.pc = IF shuffle THEN "shuffle" ELSE "fill"]
    /\ UNCHANGED <<source, shuffle, sampling, batches>>

Shuffle ==
    /\ mbi.pc = "shuffle"
    /\ \E p \in Perms(Len(mbi.in)) : mbi' = [mbi EXCEPT !.rdp = p, !.pc = "fill"]
    /\ UNCHANGED <<source, shuffle, sampling, batches>>

\* Push, or the loop over the shuffled rows: as many rows as are there and fit, of which negative
\* ones may be left out
Copy ==
    /\ mbi.pc = "fill" /\ Len(mbi.mb) < MbSize /\ mbi.start < Len(mbi.in)
    /\ LET len == Least(Len(mbi.in) - mbi.start, MbSize - Len(mbi.mb))
           rows == [i \in 1 .. len |-> mbi.in[mbi.rdp[mbi.start + i]]]
           negative == {i \in 1 .. len : rows[i].label <= 0}
       IN  \E out \in IF shuffle /\ sampling THEN SUBSET negative ELSE {{}} :
              mbi' = [mbi EXCEPT !.mb = @ \o SelectSeq(rows, LAMBDA r : \A i \in out : r # rows[i]),
                                 !.start = @ + len]
    /\ UNCHANGED <<source, shuffle, sampling, batches>>

\* An empty minibatch is the end.
Emit ==
    /\ mbi.pc = "emit" \/ (mbi.pc = "fill" /\ Len(mbi.mb) >= MbSize)
    /\ IF ~Checked(mbi.mb)
       THEN mbi' = [mbi EXCEPT !.pc = "fatal"] /\ UNCHANGED batches
       ELSE /\ mbi' = [mbi EXCEPT !.pc = IF mbi.mb = <<>> THEN "end" ELSE "fill", !.mb = <<>>]
            /\ batches' = IF mbi.mb = <<>> THEN batches ELSE Append(batches, Block(mbi.mb))
    /\ UNCHANGED <<source, shuffle, sampling>>

\* the rows of the minibatches of buf_reader_: all but the last have ShufBuf rows (BatchesExact)
RECURSIVE Chunks(_)
Chunks(rows) ==
    IF rows = <<>> THEN <<>>
    ELSE LET n == Least(ShufBuf, Len(rows)) IN <<SubSeq(rows, 1, n)>> \o Chunks(SubSeq(rows, n + 1, Len(rows)))

Init ==
    /\ source \in Sources /\ shuffle \in BOOLEAN /\ sampling \in BOOLEAN
    /\ mbi = [pc |-> "fill", left |-> IF shuffle THEN Chunks(AllRows) ELSE source, in |-> <<>>, rdp |-> <<>>,
              start |-> 0, mb |-> <<>>]
    /\ batches = <<>>

Next == Fetch \/ Shuffle \/ Copy \/ Emit
-----------------------------------------------------------------------------
\* Every row is delivered exactly once, with its value, in order without shuffling and before any row
\* of a later buffer with it, except negative rows that are sampled away; a minibatch is never empty,
\* and only the last one is short.  Reading fails only if some rows have other values than 1 and some
\* have none, or, with shuffling, only values of 1: buf_reader_ drops these of a whole buffer, and a
\* minibatch may have rows of two buffers.
BatchesExact ==
    LET given == FlattenSeq(batches) \o mbi.mb
        rows == ToSet(AllRows)
        meant(r) == IF r.val = "none" THEN [r EXCEPT !.val = "one"] ELSE r
        all == [i \in DOMAIN AllRows |-> meant(AllRows[i])]
        got == [i \in DOMAIN given |-> meant(given[i])]
        sampled == {meant(r) : r \in {x \in rows : x.label <= 0 /\ shuffle /\ sampling}}
    IN  /\ \A i, j \in DOMAIN got : i # j => got[i].id # got[j].id
        /\ IF shuffle THEN \A i, j \in DOMAIN got : i < j => (got[i].id - 1) \div ShufBuf <= (got[j].id - 1) \div ShufBuf
           ELSE IsPrefix(got, all)
        /\ ToSet(got) \subseteq ToSet(all)
        /\ mbi.pc = "end" => ToSet(all) \subseteq ToSet(got) \cup sampled
        /\ \A i \in DOMAIN batches : Len(batches[i]) <= MbSize /\ batches[i] # <<>>
        /\ \A i \in 1 .. Len(batches) - 1 : Len(batches[i]) = MbSize
        /\ mbi.pc = "fatal" => \E r, s \in rows : r.val = "other" /\ (s.val = "none" \/ (shuffle /\ s.val = "one"))
=============================================================================
