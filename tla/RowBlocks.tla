----------------------------- MODULE RowBlocks -----------------------------
(***************************************************************************)
(* Blocks of rows as arrays: RowBlockContainer (dmlc-core/src/data/        *)
(* row_block.h), CompressedRowBlock (src/base/compressed_row_block.h),     *)
(* Localizer (src/base/localizer.h), and the products of SpMV and SpMM     *)
(* with a block (src/base/spmv.h, spmm.h).                                 *)
(*                                                                         *)
(* A row is [label, index, value], value being <<>> when every value is 1. *)
(* Positions in arrays count from 0 in offset and in local indices, as in  *)
(* the code, and from 1 elsewhere.  A key is a pair <<high, low>> of       *)
(* digits below Base: half of its bytes each.                              *)
(***************************************************************************)
EXTENDS Integers, FiniteSets, Sequences, SequencesExt

EmptyBlock == [offset |-> <<0>>, label |-> <<>>, index |-> <<>>, value |-> <<>>]
Size(blk) == Len(blk.offset) - 1
Rows(blk, i) == blk.offset[i] + 1 .. blk.offset[i + 1]     \* positions of row i, from 1

\* Push(Row)
PushRow(blk, row) ==
    [offset |-> Append(blk.offset, Len(blk.index) + Len(row.index)), label |-> Append(blk.label, row.label),
     index |-> blk.index \o row.index, value |-> blk.value \o row.value]

\* Push(RowBlock)
PushBlock(blk, b) ==
    [offset |-> blk.offset \o [i \in 1 .. Size(b) |-> Last(blk.offset) + b.offset[i + 1] - b.offset[1]],
     label |-> blk.label \o b.label, index |-> blk.index \o b.index, value |-> blk.value \o b.value]

\* the checks of GetBlock
Consistent(blk) ==
    /\ Len(blk.label) + 1 = Len(blk.offset) /\ Last(blk.offset) = Len(blk.index)
    /\ Len(blk.value) \in {0, Len(blk.index)}

\* MinibatchIter::Push: the slice of a block that is pushed, its offsets not starting with 0
Slice(blk, pos, len) ==
    LET from == blk.offset[pos + 1] + 1
        to == blk.offset[pos + len + 1]
    IN  [offset |-> SubSeq(blk.offset, pos + 1, pos + len + 1), label |-> SubSeq(blk.label, pos + 1, pos + len),
         index |-> SubSeq(blk.index, from, to),
         value |-> IF blk.value = <<>> THEN <<>> ELSE SubSeq(blk.value, from, to)]

RowOf(blk, i) ==
    [label |-> blk.label[i], index |-> SubSeq(blk.index, blk.offset[i] + 1, blk.offset[i + 1]),
     value |-> IF blk.value = <<>> THEN <<>> ELSE SubSeq(blk.value, blk.offset[i] + 1, blk.offset[i + 1])]
RowsOf(blk) == [i \in 1 .. Size(blk) |-> RowOf(blk, i)]
BlockOf(rows) == FoldLeft(PushRow, EmptyBlock, rows)
-----------------------------------------------------------------------------
(* Save and Load, Compress and Decompress: the arrays one after the other, *)
(* each with its length; Compress leaves out values that are all 1.        *)

Save(blk) == <<blk.offset, blk.label, blk.index, blk.value>>
Load(s) == [offset |-> s[1], label |-> s[2], index |-> s[3], value |-> s[4]]

Compress(blk) ==
    LET bin == \A i \in DOMAIN blk.value : blk.value[i] = 1
    IN  <<Size(blk), blk.label, blk.offset, blk.index, IF bin THEN <<>> ELSE blk.value>>
Decompress(s) == [offset |-> s[3], label |-> s[2], index |-> s[4], value |-> s[5]]
-----------------------------------------------------------------------------
(* Localizer                                                               *)

\* ReverseBytes
ReverseBytes(k) == <<k[2], k[1]>>
KeyLess(a, b) == a[1] < b[1] \/ (a[1] = b[1] /\ a[2] < b[2])
NumberOf(k, base) == k[1] * base + k[2]

\* what an index becomes: reversed, or hashed when there are fewer keys (maxkey # 0)
Mapped(k, base, maxkey) ==
    IF maxkey = 0 THEN ReverseBytes(k)
    ELSE LET h == NumberOf(k, base) % maxkey IN <<h \div base, h % base>>

\* CountUniqIndex: pair_ sorted by key, the keys, and how often each occurs, up to countmax
Pairs(blk, base, maxkey) ==
    SetToSortSeq({<<Mapped(blk.index[i], base, maxkey), i>> : i \in DOMAIN blk.index},
                 LAMBDA a, b : KeyLess(a[1], b[1]) \/ (a[1] = b[1] /\ a[2] < b[2]))
UniqIndex(pairs) ==
    LET new == SelectSeq([i \in DOMAIN pairs |-> i], LAMBDA i : i = 1 \/ pairs[i][1] # pairs[i - 1][1])
    IN  [j \in DOMAIN new |-> pairs[new[j]][1]]
Count(pairs, k, countmax) ==
    LET n == Cardinality({i \in DOMAIN pairs : pairs[i][1] = k}) IN IF n < countmax THEN n ELSE countmax
IdxFrq(pairs, countmax) == LET u == UniqIndex(pairs) IN [j \in DOMAIN u |-> Count(pairs, u[j], countmax)]

\* mutant of Remap: the walk goes on to the next key of the dictionary after a match
RECURSIVE MutRemap(_, _, _, _, _)
MutRemap(dict, pairs, d, p, map) ==
    IF d > Len(dict) \/ p > Len(pairs) THEN map
    ELSE IF KeyLess(dict[d], pairs[p][1]) THEN MutRemap(dict, pairs, d + 1, p, map)
    ELSE IF dict[d] = pairs[p][1] THEN MutRemap(dict, pairs, d + 1, p + 1, [map EXCEPT ![pairs[p][2]] = d])
    ELSE MutRemap(dict, pairs, d, p + 1, map)

\* RemapIndex: the walk along the dictionary and the pairs; 0 for an index that is not in it
RECURSIVE Remap(_, _, _, _, _)
Remap(dict, pairs, d, p, map) ==
    IF d > Len(dict) \/ p > Len(pairs) THEN map
    ELSE IF KeyLess(dict[d], pairs[p][1]) THEN Remap(dict, pairs, d + 1, p, map)
    ELSE IF dict[d] = pairs[p][1] THEN Remap(dict, pairs, d, p + 1, [map EXCEPT ![pairs[p][2]] = d])
    ELSE Remap(dict, pairs, d, p + 1, map)

\* the new block: indices of the dictionary, what is not in it left out; nothing is made of an
\* empty dictionary
RemapIndex(blk, dict, pairs) ==
    LET map == Remap(dict, pairs, 1, 1, [i \in DOMAIN blk.index |-> 0])
        kept(i) == SelectSeq([j \in 1 .. Len(blk.index) |-> j], LAMBDA j : j \in Rows(blk, i) /\ map[j] # 0)
        row(i) == [label |-> blk.label[i], index |-> [j \in DOMAIN kept(i) |-> map[kept(i)[j]] - 1],
                   value |-> IF blk.value = <<>> THEN <<>> ELSE [j \in DOMAIN kept(i) |-> blk.value[kept(i)[j]]]]
    IN  IF Size(blk) = 0 \/ dict = <<>> THEN EmptyBlock ELSE BlockOf([i \in 1 .. Size(blk) |-> row(i)])
-----------------------------------------------------------------------------
(* SpMV and SpMM with nt threads, on vectors of entries of dimension 1.    *)

\* Range::Segment(idx, nparts) of 0 .. n - 1
Segment(n, idx, nparts) == {i \in 0 .. n - 1 : (n * idx) \div nparts <= i /\ i < (n * (idx + 1)) \div nparts}

ValueAt(blk, j) == IF blk.value = <<>> THEN 1 ELSE blk.value[j]
SumOver(set, f(_)) == MapThenSumSet(f, set)

\* Times: each thread has the rows of its segment.  A row without features keeps the old entry.
Times(blk, x, y, nt) ==
    [i \in DOMAIN y |->
        IF \E t \in 0 .. nt - 1 : i - 1 \in Segment(Size(blk), t, nt) /\ Rows(blk, i) # {}
        THEN SumOver(Rows(blk, i), LAMBDA j : x[blk.index[j] + 1] * ValueAt(blk, j))
        ELSE y[i]]

\* TransTimes: every thread looks at all rows and adds to the entries of its own segment
TransTimes(blk, x, n, nt) ==
    [k \in 1 .. n |->
        SumOver({<<t, i, j>> \in (0 .. nt - 1) \X (1 .. Size(blk)) \X DOMAIN blk.index :
                   j \in Rows(blk, i) /\ blk.index[j] = k - 1 /\ k - 1 \in Segment(n, t, nt)},
                LAMBDA e : x[e[2]] * ValueAt(blk, e[3]))]
-----------------------------------------------------------------------------
SameRow(a, b) ==
    /\ a.label = b.label /\ a.index = b.index
    /\ \A i \in DOMAIN a.index : ValueAt([value |-> a.value], i) = ValueAt([value |-> b.value], i)

\* A block cut into slices of any length and put together again, saved and loaded, or compressed
\* and decompressed, has the same rows.
BlocksSurvive(blk) ==
    /\ \A n \in 0 .. Size(blk) :
          LET b == PushBlock(PushBlock(EmptyBlock, Slice(blk, 0, n)), Slice(blk, n, Size(blk) - n))
          IN  Consistent(b) /\ b = blk
    /\ Load(Save(blk)) = blk
    /\ LET b == Decompress(Compress(blk))
       IN  Consistent(b) /\ \A i \in 1 .. Size(blk) : SameRow(RowOf(blk, i), RowOf(b, i))

\* A localized block, if some key is left, says the same as the block: its keys are strictly increasing, every feature
\* stands for its mapped key (or is left out if that is not in the dictionary) with its value and
\* in its row, the counts are those of the keys, and a key that was reversed is found again.
LocalizedRight(blk, base, maxkey, dropped) ==
    LET pairs == Pairs(blk, base, maxkey)
        uniq == UniqIndex(pairs)
        dict == SelectSeq(uniq, LAMBDA k : k \notin dropped)
        loc == RemapIndex(blk, dict, pairs)
        want(i) == SelectSeq([j \in DOMAIN blk.index |-> j],
                             LAMBDA j : j \in Rows(blk, i) /\ Mapped(blk.index[j], base, maxkey) \notin dropped)
    IN  /\ \A i \in 1 .. Len(uniq) - 1 : KeyLess(uniq[i], uniq[i + 1])
        /\ dict # <<>> => Consistent(loc) /\ Size(loc) = Size(blk) /\ loc.label = blk.label
        /\ dict # <<>> => \A i \in 1 .. Size(blk) :
              LET r == RowOf(loc, i)
              IN  /\ [j \in DOMAIN r.index |-> dict[r.index[j] + 1]]
                        = [j \in DOMAIN want(i) |-> Mapped(blk.index[want(i)[j]], base, maxkey)]
                  /\ \A j \in DOMAIN r.index : ValueAt([value |-> r.value], j) = ValueAt(blk, want(i)[j])
        /\ SumOver(DOMAIN uniq, LAMBDA j : IdxFrq(pairs, Len(blk.index))[j]) = Len(blk.index)
        /\ maxkey = 0 => \A i \in DOMAIN blk.index : ReverseBytes(Mapped(blk.index[i], base, maxkey)) = blk.index[i]

\* The products do not depend on the number of threads and are those of the matrix, given a
\* vector y of zeros.
ProductsRight(blk, n, x, w) ==
    \A nt \in 1 .. 3 :
        /\ Times(blk, w, [i \in 1 .. Size(blk) |-> 0], nt)
              = [i \in 1 .. Size(blk) |-> SumOver(Rows(blk, i), LAMBDA j : w[blk.index[j] + 1] * ValueAt(blk, j))]
        /\ TransTimes(blk, x, n, nt)
              = [k \in 1 .. n |->
                   SumOver({<<i, j>> \in (1 .. Size(blk)) \X DOMAIN blk.index : j \in Rows(blk, i) /\ blk.index[j] = k - 1},
                           LAMBDA e : x[e[1]] * ValueAt(blk, e[2]))]
=============================================================================
