------------------------------ MODULE KeyRange ------------------------------
(***************************************************************************)
(* Ranges of keys (ps-lite/src/base/range.h), and what is done to a sorted *)
(* array of keys with them: SliceMessage (system/message.h) cuts a request *)
(* for the servers, ParallelOrderedMatch (base/parallel_ordered_match.h)   *)
(* puts the values of their answers where their keys are.                  *)
(*                                                                         *)
(* Keys are numbers up to maxKey, the largest number of the type.  Values  *)
(* are sequences with k entries per key.                                   *)
(***************************************************************************)
EXTENDS Integers, FiniteSets, Sequences, SequencesExt

Least(a, b) == IF a < b THEN a ELSE b
Greatest(a, b) == IF a < b THEN b ELSE a

\* [begin, end)
KeyR(b, e) == [begin |-> b, end |-> e]
RangeSize(r) == r.end - r.begin
Valid(r) == r.end >= r.begin
Empty(r) == r.begin >= r.end
InRange(r, v) == r.begin <= v /\ v < r.end
Project(r, v) == Greatest(r.begin, Least(r.end, v))
SetIntersection(r, dest) == KeyR(Greatest(r.begin, dest.begin), Least(r.end, dest.end))
\* The largest key is outside.
All(maxKey) == KeyR(0, maxKey)

\* The i-th of n parts, from 0; the quotients are exact on small numbers.
EvenDivide(r, n, i) ==
    KeyR(r.begin + (RangeSize(r) * i) \div n, r.begin + (RangeSize(r) * (i + 1)) \div n)

LowerBound(keys, v) == Cardinality({i \in DOMAIN keys : keys[i] < v})
\* SArray::FindRange, SArray::range and SArray::Segment, of positions from 0
FindRange(keys, bound) ==
    IF keys = <<>> THEN KeyR(0, 0) ELSE KeyR(LowerBound(keys, bound.begin), LowerBound(keys, bound.end))
ValueRange(keys) == IF keys = <<>> THEN KeyR(0, 0) ELSE KeyR(Head(keys), Last(keys) + 1)
Segment(s, r) == SubSeq(s, r.begin + 1, r.end)
-----------------------------------------------------------------------------
\* SliceMessage, of a message with the key range msgRange: a slice without keys is not valid.
\* sizes: the length of each value, or <<>> if all have k entries.
SliceMessage(keys, vals, sizes, k, krs, msgRange) ==
    LET pos == [i \in 0 .. Len(krs) |->
                  LowerBound(keys, Project(msgRange, IF i = 0 THEN krs[1].begin ELSE krs[i].end))]
        total(from, to) == FoldLeft(LAMBDA a, b : a + b, 0, SubSeq(sizes, from + 1, to))
        valPos[i \in 0 .. Len(krs)] ==
            IF sizes = <<>> THEN pos[i] * k
            ELSE IF i = 0 THEN 0 ELSE valPos[i - 1] + total(pos[i - 1], pos[i])
    IN  [i \in DOMAIN krs |->
           [valid |-> ~Empty(SetIntersection(krs[i], msgRange)) /\ pos[i - 1] # pos[i],
            keys |-> Segment(keys, KeyR(pos[i - 1], pos[i])),
            vals |-> Segment(vals, KeyR(valPos[i - 1], valPos[i])),
            sizes |-> IF sizes = <<>> THEN <<>> ELSE Segment(sizes, KeyR(pos[i - 1], pos[i]))]]

AssignOp(op, dst, src) ==
    CASE op = "ASSIGN" -> src [] op = "PLUS" -> dst + src [] op = "MINUS" -> dst - src
      [] op = "TIMES" -> dst * src [] op = "DIVIDE" -> dst \div src
Drop(s, n) == SubSeq(s, n + 1, Len(s))

\* The loop of ParallelOrderedMatch over source and destination, and what it returns: the
\* values of the destination, and how many entries were matched.
RECURSIVE MatchLoop(_, _, _, _, _, _)
MatchLoop(srcKey, srcVal, dstKey, dstVal, k, op) ==
    LET next == IF dstKey = <<>> \/ srcKey = <<>> THEN [val |-> dstVal, n |-> 0]
                ELSE IF Head(srcKey) < Head(dstKey)
                THEN MatchLoop(Tail(srcKey), Drop(srcVal, k), dstKey, dstVal, k, op)
                ELSE LET hit == Head(dstKey) = Head(srcKey)
                         rest == IF hit THEN MatchLoop(Tail(srcKey), Drop(srcVal, k), Tail(dstKey), Drop(dstVal, k), k, op)
                                 ELSE MatchLoop(srcKey, srcVal, Tail(dstKey), Drop(dstVal, k), k, op)
                         put == [i \in 1 .. k |-> IF hit THEN AssignOp(op, dstVal[i], srcVal[i]) ELSE dstVal[i]]
                     IN  [val |-> put \o rest.val, n |-> rest.n + IF hit THEN k ELSE 0]
    IN  next

\* A destination above the grain is halved, each half with a thread of its own.
RECURSIVE MatchPart(_, _, _, _, _, _, _)
MatchPart(srcKey, srcVal, dstKey, dstVal, k, op, grain) ==
    IF dstKey = <<>> \/ srcKey = <<>> THEN [val |-> dstVal, n |-> 0]
    ELSE LET skip == LowerBound(srcKey, Head(dstKey))
             sk == Drop(srcKey, skip)
             sv == Drop(srcVal, skip * k)
             half == Len(dstKey) \div 2
         IN  IF Len(dstKey) <= grain THEN MatchLoop(sk, sv, dstKey, dstVal, k, op)
             ELSE LET a == MatchPart(sk, sv, SubSeq(dstKey, 1, half), SubSeq(dstVal, 1, half * k), k, op, grain)
                      b == MatchPart(sk, sv, Drop(dstKey, half), Drop(dstVal, half * k), k, op, grain)
                  IN  [val |-> a.val \o b.val, n |-> a.n + b.n]

\* ParallelOrderedMatch; grain: the least size of a part (2^20 in the code)
ParallelOrderedMatch(srcKey, srcVal, dstKey, dstVal, k, op, grain) ==
    LET dst == IF dstVal = <<>> THEN [i \in 1 .. Len(dstKey) * k |-> 0] ELSE dstVal
        r == FindRange(dstKey, ValueRange(srcKey))
        m == MatchPart(srcKey, srcVal, Segment(dstKey, r), Segment(dst, KeyR(r.begin * k, r.end * k)), k, op, grain)
    IN  IF dstKey = <<>> THEN [val |-> <<>>, n |-> 0]
        ELSE [val |-> SubSeq(dst, 1, r.begin * k) \o m.val \o Drop(dst, r.end * k), n |-> m.n]
-----------------------------------------------------------------------------
Ascending(ks) == SetToSortSeq(ks, LAMBDA a, b : a < b)
EntriesOf(keys, k) == FlattenSeq([i \in DOMAIN keys |-> [j \in 1 .. k |-> 10 * keys[i] + j]])

\* A request cut for n servers has every key but the largest number in the slice of the server
\* whose range it is in, with its values; and the answers put together give every key its values,
\* in whichever order they come and however the destination is divided.
SlicedRight(keys, n, k, maxKey) ==
    LET krs == [i \in 1 .. n |-> EvenDivide(All(maxKey), n, i - 1)]
        sent == SelectSeq(keys, LAMBDA x : x # maxKey)
        lens == [i \in DOMAIN keys |-> 1 + (i % 2)]
        ragged == FlattenSeq([i \in DOMAIN keys |-> [j \in 1 .. lens[i] |-> <<keys[i], j>>]])
        flat == SliceMessage(keys, EntriesOf(keys, k), <<>>, k, krs, All(maxKey))
        dyn == SliceMessage(keys, ragged, lens, 1, krs, All(maxKey))
        merge(order, grain) ==
            FoldLeft(LAMBDA acc, i :
                       LET m == ParallelOrderedMatch(flat[i].keys, flat[i].vals, keys, acc.val, k, "ASSIGN", grain)
                       IN  [val |-> m.val, n |-> acc.n + m.n], [val |-> <<>>, n |-> 0], order)
        up == [i \in 1 .. n |-> i]
    IN  /\ FlattenSeq([i \in 1 .. n |-> flat[i].keys]) = sent
        /\ \A i \in 1 .. n :
              /\ flat[i].valid <=> flat[i].keys # <<>>
              /\ \A x \in ToSet(flat[i].keys) : InRange(krs[i], x)
              /\ flat[i].vals = EntriesOf(flat[i].keys, k)
              /\ dyn[i].keys = flat[i].keys
              /\ dyn[i].vals = SelectSeq(ragged, LAMBDA v : v[1] \in ToSet(flat[i].keys))
        /\ \A order \in {up, Reverse(up)} : \A grain \in {1, 2, 9} :
              LET m == merge(order, grain)
              IN  keys # <<>> =>
                    /\ m.n = Len(sent) * k
                    /\ m.val = EntriesOf(sent, k) \o [i \in 1 .. (Len(keys) - Len(sent)) * k |-> 0]

\* Keys that are added to others: every common key has the sum, every other key its own value.
AddedRight(srcKey, dstKey, k) ==
    \A grain \in {1, 2, 9} :
        LET m == ParallelOrderedMatch(srcKey, EntriesOf(srcKey, k), dstKey, EntriesOf(dstKey, k), k, "PLUS", grain)
            both == ToSet(srcKey) \cap ToSet(dstKey)
        IN  /\ m.n = k * Cardinality(both)
            /\ m.val = FlattenSeq([i \in DOMAIN dstKey |-> [j \in 1 .. k |->
                          (10 * dstKey[i] + j) * IF dstKey[i] \in both THEN 2 ELSE 1]])
=============================================================================
