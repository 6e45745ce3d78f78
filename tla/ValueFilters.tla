---------------------------- MODULE ValueFilters ----------------------------
(***************************************************************************)
(* The filters without a state (ps-lite/src/filter): DeltaKeyFilter,       *)
(* FixingFloatFilter, TruncateFloatFilter and CompressingFilter, applied   *)
(* to a message in the order of its task and undone in the reverse order   *)
(* (remote_node.cc); and FreqencyFilter on the sketch CountMin (countmin.h)*)
(*                                                                         *)
(* A message is [key, value, type, filter]: keys below 2^Width, arrays of  *)
(* values with a type each, and the configurations of its filters, into    *)
(* which the encoder puts what the decoder needs.  Reals are integers, on  *)
(* a grid whose step is the 1e-6 of the code.                              *)
(***************************************************************************)
EXTENDS Integers, FiniteSets, Sequences, SequencesExt

Wrap(n, width) == n % 2^width
-----------------------------------------------------------------------------
\* DeltaKeyFilter
EncodeKeys(keys, width) == [i \in DOMAIN keys |-> IF i = 1 THEN keys[1] ELSE Wrap(keys[i] - keys[i - 1], width)]
DecodeKeys(deltas, width) ==
    LET sum[i \in DOMAIN deltas] == IF i = 1 THEN deltas[1] ELSE Wrap(deltas[i] + sum[i - 1], width)
    IN  [i \in DOMAIN deltas |-> sum[i]]
-----------------------------------------------------------------------------
(* FixingFloatFilter.  Bits stands for nbytes * 8.                         *)

Ratio(bits) == 2^bits - 2
Lowest(vec) == CHOOSE v \in ToSet(vec) : \A u \in ToSet(vec) : v <= u
Highest(vec) == CHOOSE v \in ToSet(vec) : \A u \in ToSet(vec) : v >= u

\* the range of an array: symmetric if 0 is inside, and not empty; a range that is configured stays
RangeOf(vec, conf) ==
    LET lo == Lowest(vec)
        hi == Highest(vec)
        both == lo * hi < 0
        min == IF both /\ lo > -hi THEN -hi ELSE lo
        max == IF both /\ hi < -lo THEN -lo ELSE hi
    IN  IF conf # <<>> THEN conf ELSE <<min, IF max = min THEN min + 1 ELSE max>>

Projected(v, min, max) == IF v > max THEN max ELSE IF v < min THEN min ELSE v

\* mutant of EncodeFixed: the code is scaled by one too many
MutEncodeFixed(v, rng, bits, coin) ==
    Wrap(((Projected(v, rng[1], rng[2]) - rng[1]) * (Ratio(bits) + 1)) \div (rng[2] - rng[1]) + coin, bits)

\* the code of a value: rounded down, or up by the toss of boolrand, and cut to its bytes
EncodeFixed(v, rng, bits, coin) ==
    Wrap(((Projected(v, rng[1], rng[2]) - rng[1]) * Ratio(bits)) \div (rng[2] - rng[1]) + coin, bits)
\* what the code stands for, times Ratio
DecodeFixed(code, rng, bits) == code * (rng[2] - rng[1]) + rng[1] * Ratio(bits)
-----------------------------------------------------------------------------
(* TruncateFloatFilter, for an integer type of the bits, signed if neg     *)

IntMin(bits, neg) == IF neg THEN -(2^(bits - 1)) ELSE 0
IntMax(bits, neg) == IF neg THEN 2^(bits - 1) - 1 ELSE 2^bits - 1
Truncate(v, bits, neg) == Projected(v, IntMin(bits, neg), IntMax(bits, neg))
-----------------------------------------------------------------------------
(* Messages.  A filter is [type, bits, fixed, sizes]; fixed has the ranges *)
(* of the arrays of reals that are not empty, in their order.              *)

Find(msg, type) == SelectSeq([i \in DOMAIN msg.filter |-> i], LAMBDA i : msg.filter[i].type = type)[1]
IsReal(msg, i) == msg.type[i] = "float" /\ msg.value[i] # <<>>
Reals(msg) == SelectSeq([i \in DOMAIN msg.value |-> i], LAMBDA i : IsReal(msg, i))
NthReal(msg, i) == CHOOSE k \in DOMAIN Reals(msg) : Reals(msg)[k] = i

\* Compress and Decompress are those of LZ4: the text comes back if the size is that of the original
Compress(vec) == <<"lz4", vec>>
Decompress(z, n) == IF Len(z[2]) = n THEN z[2] ELSE <<"error">>

EncodeWith(msg, type, coin) ==
    LET f == Find(msg, type)
        conf == msg.filter[f]
        rng(i) == RangeOf(msg.value[i], <<>>)
    IN  CASE type = "DELTA_KEY" -> [msg EXCEPT !.key = EncodeKeys(@, conf.bits)]
          [] type = "FIXING_FLOAT" ->
               IF conf.bits = 0 THEN msg
               ELSE [msg EXCEPT !.filter[f].fixed = [k \in DOMAIN Reals(msg) |-> rng(Reals(msg)[k])],
                                !.value = [i \in DOMAIN @ |-> IF ~IsReal(msg, i) THEN @[i]
                                             ELSE [j \in DOMAIN @[i] |-> EncodeFixed(@[i][j], rng(i), conf.bits, coin)]]]
          [] type = "TRUNCATE_FLOAT" ->
               IF conf.bits = 0 THEN msg
               ELSE [msg EXCEPT !.value = [i \in DOMAIN @ |-> IF ~IsReal(msg, i) THEN @[i]
                                             ELSE [j \in DOMAIN @[i] |-> Truncate(@[i][j], conf.bits, TRUE)]]]
          [] type = "COMPRESSING" ->
               [msg EXCEPT !.filter[f].sizes = [i \in DOMAIN msg.value |-> Len(msg.value[i])],
                           !.value = [i \in DOMAIN @ |-> Compress(@[i])]]

DecodeWith(msg, type) ==
    LET conf == msg.filter[Find(msg, type)]
    IN  CASE type = "DELTA_KEY" -> [msg EXCEPT !.key = DecodeKeys(@, conf.bits)]
          [] type = "FIXING_FLOAT" ->
               IF conf.bits = 0 THEN msg
               ELSE [msg EXCEPT !.value = [i \in DOMAIN @ |-> IF ~IsReal(msg, i) THEN @[i]
                        ELSE [j \in DOMAIN @[i] |-> DecodeFixed(@[i][j], conf.fixed[NthReal(msg, i)], conf.bits)]]]
          [] type = "COMPRESSING" -> [msg EXCEPT !.value = [i \in DOMAIN @ |-> Decompress(@[i], conf.sizes[i])]]
          [] OTHER -> msg

EncodeMessage(msg, coin) == FoldLeft(LAMBDA m, f : EncodeWith(m, f.type, coin), msg, msg.filter)
DecodeMessage(msg) == FoldLeft(LAMBDA m, f : DecodeWith(m, f.type), msg, Reverse(msg.filter))
-----------------------------------------------------------------------------
(* CountMin and FreqencyFilter.  hash[k] is the sequence of the slots of   *)
(* the key k, all that the hash function matters for.                      *)

AddTo(cell, count, vmax) == IF count > vmax - cell THEN vmax ELSE cell + count
InsertKey(data, slots, count, vmax) == FoldLeft(LAMBDA d, s : [d EXCEPT ![s] = AddTo(@, count, vmax)], data, slots)
InsertKeys(data, hash, keys, counts, vmax) ==
    FoldLeft(LAMBDA d, i : InsertKey(d, hash[keys[i]], counts[i], vmax), data, [i \in DOMAIN keys |-> i])
Query(data, slots, vmax) == FoldLeft(LAMBDA res, s : IF data[s] < res THEN data[s] ELSE res, vmax, slots)
QueryKeys(data, hash, keys, threshold, vmax) == SelectSeq(keys, LAMBDA k : Query(data, hash[k], vmax) > threshold)
-----------------------------------------------------------------------------
Abs(n) == IF n < 0 THEN -n ELSE n

\* A message comes out of its filters with its keys; values that are not reals are untouched; reals
\* are within one step of the grid of their own array, or projected into the range of the integers.
FiltersRight(msg, coin) ==
    LET enc == EncodeMessage(msg, coin)
        dec == DecodeMessage(enc)
        has(type) == \E f \in ToSet(msg.filter) : f.type = type
        bits == msg.filter[Find(msg, "FIXING_FLOAT")].bits
    IN  /\ dec.key = msg.key /\ Len(dec.value) = Len(msg.value)
        /\ \A i \in DOMAIN msg.value : IF ~IsReal(msg, i) THEN dec.value[i] = msg.value[i]
              ELSE \A j \in DOMAIN msg.value[i] :
                 /\ has("FIXING_FLOAT") /\ bits # 0 =>
                       Abs(dec.value[i][j] - msg.value[i][j] * Ratio(bits)) <= 2 * (Highest(msg.value[i]) - Lowest(msg.value[i])) + 1
                 /\ ~has("FIXING_FLOAT") /\ Abs(msg.value[i][j]) < 2 => dec.value[i][j] = msg.value[i][j]

\* A key that was inserted more often than the threshold is never filtered out, whatever keys share
\* its slots and however often they come.
FrequentKept(hash, keys, counts, n, vmax, threshold) ==
    LET data == InsertKeys([s \in 1 .. n |-> 0], hash, keys, counts, vmax)
        total(k) == FoldLeft(LAMBDA t, i : IF keys[i] = k THEN t + counts[i] ELSE t, 0, [i \in DOMAIN keys |-> i])
    IN  \A k \in ToSet(keys) : total(k) > threshold => k \in ToSet(QueryKeys(data, hash, keys, threshold, vmax))
=============================================================================
