------------------------------- MODULE MCData -------------------------------
(***************************************************************************)
(* The ways data comes in (streams on an object store, listings, parts of  *)
(* files, caching iterators, minibatches) and the algorithms on it, over   *)
(* all small inputs (a datum of the part): the parsers and the operations  *)
(* on row blocks, the losses, the texts and streams in which parameters    *)
(* and models are kept, and the filters; as independent parts of one       *)
(* model.                                                                  *)
(*                                                                         *)
(* Inputs: two text files of up to four and three characters with all      *)
(* mixtures of ends of line, one file for SingleFileSplit, and two         *)
(* RecordIO files whose records have magic numbers, half-used words and    *)
(* words that look like headers.  With BufferSize = 3 chunks end in every  *)
(* place and the buffer has to grow.                                       *)
(***************************************************************************)
EXTENDS Integers, Sequences, FiniteSets
CONSTANTS MbSize, ShufBuf
CONSTANTS FileSize, MaxBuffer, MaxWritten, MaxFailures, MaxSplit, BufferSize, MaxRewind, Items, MaxCapacity, MaxUses
VARIABLES part, datum, source, shuffle, sampling, mbi, batches
VARIABLES keys, path, kind, wr, store, rd, failures, input, split, out, rewinds, iterKind, file, iter, taken, uses

P == INSTANCE RowParsers
B == INSTANCE RowBlocks
J == INSTANCE JsonText
C == INSTANCE ConfigText
A == INSTANCE Parameters
S == INSTANCE BinaryStream
F == INSTANCE ValueFilters
L == INSTANCE FactorLoss
K == INSTANCE KeyRange
H == INSTANCE SharedArray

Row(n, l, v) == [id |-> n, label |-> l, val |-> v]
Mixed(v) == <<Row(1, 1, v), Row(2, 0, v)>>
Sources == {<<Mixed(v), <<Row(3, 1, w)>>, <<Row(4, 0, w), Row(5, 0, w)>>>> : v, w \in {"none", "one", "other"}}
             \cup {<<<<Row(1, 0, "one"), Row(2, 1, "one"), Row(3, 0, "one"), Row(4, 1, "one")>>>>, <<>>}
M == INSTANCE MinibatchIter

\* all texts of up to five characters, and all pairs of rows with up to two features
Texts == UNION {[1 .. n -> {"1", "2", ":", " ", "n"}] : n \in 1 .. 5}
Feats == {[index |-> i, value |-> v] : i \in {"3", "4"}, v \in {<<>>, <<"5">>}}
TextRows == {[label |-> "1", weight |-> w, feats |-> f] : w \in {<<>>, <<"2">>}, f \in UNION {[1 .. n -> Feats] : n \in 0 .. 2}}
Columns == [1 .. 4 -> {<<>>, <<"3">>}]
\* keys of two digits, in blocks of two rows with values or without
KeySet == {0, 1} \X {0, 2}
BlockRows(ks) == {[label |-> l, index |-> i, value |-> [j \in DOMAIN i |-> v]] : l \in {0}, v \in {1, 3}, i \in UNION {[1 .. n -> ks] : n \in 0 .. 2}}
BinRows(ks) == {[label |-> l, index |-> i, value |-> <<>>] : l \in {0, 1}, i \in UNION {[1 .. n -> ks] : n \in 0 .. 2}}
BlocksOver(ks) == {B!BlockOf(<<a, b>>) : a, b \in BlockRows(ks)} \cup {B!BlockOf(<<a, b>>) : a, b \in BinRows(ks)}

SeqsUpTo(set, n) == UNION {[1 .. k -> set] : k \in 0 .. n}
\* types and their values
Types == {J!Num, J!Str, J!Arr(J!Num), J!Arr(J!Str), J!Arr(J!Arr(J!Num)), J!Map(J!Arr(J!Num)), J!Map(J!Map(J!Str)),
          J!Pair(J!Str, J!Num), J!Map(J!Pair(J!Num, J!Arr(J!Num))), J!Arr(J!Map(J!Num))}
RECURSIVE ValuesOf(_)
ValuesOf(t) ==
    CASE t.t = "num" -> {<<"1">>, <<"1", "2">>}
      [] t.t = "str" -> {<<>>, <<"a">>, <<"[", ",">>}
      [] t.t = "arr" -> SeqsUpTo(ValuesOf(t.of), 2)
      [] t.t = "pair" -> ValuesOf(t.fst) \X ValuesOf(t.snd)
      [] t.t = "map" -> UNION {[ks -> ValuesOf(t.of)] : ks \in SUBSET {"k", "l"}} \cup {[k \in {"m"} |-> v] : v \in ValuesOf(t.of)}
\* lines of a configuration
EntrySet == {[key |-> k, value |-> v, str |-> FALSE] : k \in {<<"a">>, <<"b", "c">>}, v \in {<<"1">>}}
              \cup {[key |-> <<"a">>, value |-> v, str |-> TRUE] : v \in {<<>>, <<"=", " ">>, <<"#", "\"">>}}
\* declared fields, and arguments for them
NoField == [type |-> "int", default |-> <<>>, lower |-> <<>>, upper |-> <<>>, enum |-> <<>>]
FieldSets == {[k |-> [NoField EXCEPT !.default = d, !.lower = lo, !.upper = hi], l |-> f] :
                d \in {<<>>, <<0>>, <<2>>}, lo \in {<<>>, <<1>>}, hi \in {<<>>, <<2>>},
                f \in {[NoField EXCEPT !.type = "bool", !.default = <<1>>], [NoField EXCEPT !.type = "string", !.default = <<<<"a">>>>],
                       [NoField EXCEPT !.enum = <<<<"a">>, <<"1">>>>, !.default = <<1>>]}}
Args == {<<k, v>> : k \in {"k", "l", "m"}, v \in {<<"1">>, <<" ", "2", " ">>, <<"1", "a">>, <<"F">>, <<"a">>, <<>>}}
\* messages with two arrays of values and a chain of filters
Filter(t, b) == [type |-> t, bits |-> b, fixed |-> <<>>, sizes |-> <<>>]
Chains == {<<>>, <<Filter("DELTA_KEY", 3), Filter("FIXING_FLOAT", 3), Filter("COMPRESSING", 0)>>,
           <<Filter("FIXING_FLOAT", 0), Filter("COMPRESSING", 0)>>, <<Filter("TRUNCATE_FLOAT", 2), Filter("DELTA_KEY", 3)>>}
Messages == {[key |-> k, value |-> <<a, b>>, type |-> <<t, "float">>, filter |-> f] :
               k \in SeqsUpTo({0, 5, 7}, 3), a \in SeqsUpTo({-3, 0, 4}, 2), b \in {<<>>, <<1>>, <<-2, 1>>}, t \in {"float", "int"}, f \in Chains}
\* rows and models of a loss
LinearRows == {[label |-> l, index |-> i, value |-> v] : l \in {0, 1}, i \in {<<>>, <<0>>, <<1, 2>>}, v \in {<<>>, <<3>>, <<2, -1>>}}
LinearBlocks == {B!BlockOf(<<a, b>>) : a, b \in {r \in LinearRows : r.value = <<>>}}
                  \cup {B!BlockOf(<<a, b>>) : a, b \in {r \in LinearRows : Len(r.value) = Len(r.index)}}
LossRows == {[label |-> 0, index |-> i, value |-> v] : i \in {<<>>, <<0>>, <<1, 2>>, <<2, 0, 2>>}, v \in {<<>>, <<3>>, <<2, -1>>, <<1, 2, -1>>}}
LossBlocks == {B!BlockOf(<<a, b>>) : a, b \in {r \in LossRows : r.value = <<>>}}
                \cup {B!BlockOf(<<a, b>>) : a, b \in {r \in LossRows : Len(r.value) = Len(r.index)}}
Model == <<3, -2, 1, 4, -1, 2, 5, -3, 2>>
Losses == {[blk |-> b, sizes |-> s, dim |-> d, p |-> <<2, -1>>, gc |-> g] :
             b \in LossBlocks, d \in {0, 2}, g \in {0, 4}, s \in [1 .. 3 -> {0, 1, 3}]}

\* keys up to the largest number of their type, and the operations of a shared array
MaxKey == 5
ArrayOps == {"push", "pop", "append", "grow", "cut", "set", "copy", "reserve", "clear"}

FormatParts == {"json", "string", "config", "param", "filter", "sketch", "loss", "eval",
                "text", "libsvm", "criteo", "adfea", "decimal", "block", "local", "product", "batch",
                "keys", "array", "buffer", "linear"}

FormatsInit ==
    /\ CASE part = "text" -> datum \in Texts
         [] part = "libsvm" -> datum \in {<<a, b>> : a, b \in TextRows}
         [] part = "criteo" -> datum \in {<<[label |-> "1", columns |-> c], [label |-> "0", columns |-> d]>> : c, d \in Columns}
         [] part = "adfea" -> datum \in {<<[label |-> l, feats |-> f], [label |-> 0, feats |-> g]>> :
                                            l \in {0, 1}, f, g \in UNION {[1 .. n -> {<<1, 2>>, <<3, 4>>}] : n \in 0 .. 2}}
         [] part = "decimal" -> datum \in UNION {[1 .. n -> {"0", "7"}] : n \in 1 .. 6}
         [] part \in {"block", "local"} -> datum \in BlocksOver(KeySet)
         [] part = "product" -> datum \in BlocksOver({0, 1, 2})
         [] part = "json" -> \E t \in Types : datum \in {<<t, v>> : v \in ValuesOf(t)}
         [] part = "string" -> datum \in SeqsUpTo({"a", " ", "\n", "\\", "\""}, 3)
         [] part = "config" -> datum \in {<<e, g, t>> : e \in SeqsUpTo(EntrySet, 3), g \in {<<>>, <<" ">>}, t \in {<<"\n">>, <<" ", "#", "a", "=", "\n">>}}
         [] part = "param" -> datum \in FieldSets \X SeqsUpTo(Args, 2)
         [] part = "filter" -> datum \in Messages
         [] part = "sketch" -> datum \in [{"x", "y", "z"} -> {1, 2} \X {1, 2, 3}]
         [] part = "loss" -> datum \in {c \in Losses : c.dim = 0 => \A i \in 1 .. 3 : c.sizes[i] \in {0, 1}}
         [] part = "eval" -> datum \in UNION {[1 .. n -> {0, 1}] \X [1 .. n -> {-1, 0, 1, 2}] : n \in 1 .. 4}
         [] part = "linear" -> datum \in LinearBlocks \X {<<1, 0, -2>>, <<-1, 2, 3>>}
         [] part = "keys" -> datum \in {<<K!Ascending(ks), n>> : ks \in SUBSET (0 .. MaxKey), n \in 1 .. 4}
         [] part = "array" -> datum \in {<<0, 2>>, <<1, 3>>, <<2, 2>>} \X SeqsUpTo(ArrayOps, 3)
         [] part = "buffer" -> datum \in SeqsUpTo({"a", "sync", "next"}, 6) \X (0 .. 3)
         [] OTHER -> datum = <<>>
    /\ IF part = "batch" THEN M!Init
       ELSE source = <<>> /\ shuffle = FALSE /\ sampling = FALSE /\ batches = <<>>
            /\ mbi = [pc |-> "end", left |-> <<>>, in |-> <<>>, rdp |-> <<>>, start |-> 0, mb |-> <<>>]
formatVars == <<datum, source, shuffle, sampling, mbi, batches>>

R == INSTANCE RecordIO
Files(a, n) == UNION {[1 .. k -> a] : k \in 1 .. n}
Words == {"magic", "a", <<0, 2>>, <<1, 2>>}
Records == {<<>>, <<"pad">>, <<"a">>, <<"magic">>, <<"magic", <<0, 2>>>>, <<"a", "magic", "pad">>, <<"magic", "magic", <<1, 2>>, "a">>}
TextInputs == {[kind |-> "line", files |-> fs] : fs \in
   {<<Append(f, "n"), Append(g, "n")>> : f \in Files({"a", "n", "r"}, 3), g \in Files({"a", "r"}, 2)}}
SingleInputs == {[kind |-> "single", files |-> <<f>>] : f \in Files({"a", "n"}, 5)}
RecordInputs == {[kind |-> "recordio", files |-> <<R!WriteAll(<<r, s>>), R!WriteAll(<<t>>)>>] : r, s, t \in Records}
Inputs == TextInputs \cup SingleInputs \cup RecordInputs

O == INSTANCE ObjectStream
D == INSTANCE ObjectListing
T == INSTANCE InputSplit
I == INSTANCE CachedIter

streams == <<kind, wr, store, rd, failures>>
splits == <<input, split, out, rewinds>>
iters == <<iterKind, file, iter, taken, uses>>
\* Objects and paths: a name that is a file and a directory, one that is a prefix of another, and
\* paths with slashes at their end.
Names == {<<"a">>, <<"a", "/", "a">>, <<"a", "/", "b">>, <<"a", "b">>, <<"a", "b", "/", "a">>, <<"b", "/", "a", "/", "b">>}
Order == [c \in {"a", "b", "/"} |-> IF c = "/" THEN 1 ELSE IF c = "a" THEN 2 ELSE 3]
Paths == {<<"a">>, <<"a", "/">>, <<"a", "b">>, <<"b">>, <<"b", "/", "a">>, <<"b", "/", "a", "/", "/">>}

\* what a disk can have
Disk(ks) == \A k, l \in ks : ~D!IsPrefix(Append(k, "/"), l)

NoInput == [kind |-> "single", files |-> <<<<"n">>>>]

Init ==
    /\ part \in {"write", "read", "list", "split", "cache"} \cup FormatParts
    /\ IF part \in {"write", "read", "list"} THEN O!Init
       ELSE O!InitWrite /\ O!InitReader /\ kind = "s3" /\ failures = 0
    /\ IF part = "list" THEN keys \in SUBSET Names /\ path \in Paths ELSE keys = {} /\ path = <<>>
    /\ IF part = "split" THEN T!Init
       ELSE input = NoInput /\ split = T!NewSplit(NoInput, 0, 1) /\ out = <<>> /\ rewinds = 0
    /\ IF part = "cache" THEN I!Init
       ELSE iterKind = "cached" /\ file = I!NoFile /\ iter = I!Idle /\ taken = <<>> /\ uses = 0
    /\ FormatsInit

Next ==
    /\ UNCHANGED <<part, keys, path>>
    /\ part # "batch" => UNCHANGED formatVars
    /\ \/ part = "write" /\ O!NextWrite /\ UNCHANGED <<splits, iters>>
       \/ part = "read" /\ O!NextRead /\ UNCHANGED <<splits, iters>>
       \/ part = "split" /\ T!Next /\ UNCHANGED <<streams, iters>>
       \/ part = "cache" /\ I!NextIter /\ UNCHANGED <<streams, splits>>
       \/ part = "batch" /\ M!Next /\ UNCHANGED <<datum, streams, splits, iters>>

Spec == Init /\ [][Next]_<<part, keys, path, streams, splits, iters, formatVars>>
-----------------------------------------------------------------------------
\* An object on the store is whole or not there, whatever connections fail while it is written
\* (WriteStream of S3 and OBS); a read stream gives the bytes of its position whatever seeks and
\* buffers there are, and takes no broken connection for the end (Read, Seek, FillBuffer); and TryGetPathInfo, ListDirectory and OpenForRead agree with the
\* keys that are there, also when a listing is truncated; and MatchFile finds the file a pattern names,
\* on a store or on a local disk, where no name is that of a file and of a directory.
StoresRight ==
    /\ O!WholeOrNothing /\ O!ReadsRight
    /\ \A m \in {2, 9} : D!ListingRight(kind, keys, path, Order, m)
    /\ part = "list" => \A fs \in {"s3", "obs", "local"} : \A p \in {<<"a", "/", "b">>, <<"b", "/", "a", "/", "b">>} :
                          (fs = "local" => Disk(keys)) => D!MatchRight(fs, keys, p, Order, 9)

\* Each part delivers its records, once and in order, over chunk borders and after BeforeFirst
\* (InputSplitBase, LineSplitter, RecordIOSplitter); the parts together have every record exactly
\* once; and RecordIO records are read as they were written, by a reader and in parts of a chunk.
SplitsExact ==
    /\ T!PartDelivered /\ T!PartitionExact
    /\ part = "split" /\ input.kind = "recordio" => R!RecordsSurvive(T!RecordsIn(input, 0, Len(T!Data(input))))

\* Iterators over a cache or a prefetching thread deliver the items of their source, also after
\* BeforeFirst and restarts (CachedInputSplit, ThreadedInputSplit, DiskRowIter, ThreadedParser).
CacheFaithful == I!CacheFaithful

\* Rows written as text are parsed as they are, whatever weights, values and columns are missing,
\* and whatever the number of threads that parse a chunk (LibSVMParser, CriteoParser, AdfeaParser).
RowsParsed ==
    /\ part \in {"text", "libsvm"} =>
          LET rows == IF part = "text" THEN <<>> ELSE datum
          IN  P!LibSVMRight(IF part = "text" THEN datum ELSE P!PrintLibSVM(rows), rows)
    /\ part = "criteo" => P!CriteoRight(datum, 2, 2)
    /\ part = "adfea" => P!AdfeaRight(datum)
    /\ part = "decimal" => P!DecimalRight(<<"1">>, datum, 16)

\* A block of rows keeps its meaning when it is cut, saved, compressed and localized, with hashed
\* keys and with keys that are filtered out (RowBlockContainer, CompressedRowBlock, Localizer), and
\* its products with a vector do not depend on the number of threads (SpMV, SpMM).  MinibatchIter
\* makes minibatches of the blocks it reads that have every row once, in order or shuffled within
\* its buffer, and of which only the last is short.
BlocksRight ==
    /\ part = "block" => B!BlocksSurvive(datum)
    /\ part = "local" => \A maxkey \in {0, 2} : \A dropped \in {{}, {<<0, 0>>}, {<<0, 1>>, <<2, 1>>}} :
                            B!LocalizedRight(datum, 3, maxkey, dropped)
    /\ part = "product" => B!ProductsRight(datum, 3, <<2, 5>>, <<1, 3, 7>>)
    /\ M!BatchesExact

\* Values come back from what they are written to: JSON (JSONWriter, JSONReader; of strings with
\* characters that are escaped only that they are read to their end), configuration files
\* (Config), parameters (Parameter) and binary streams (serializer::Handler), of which one that was
\* cut short is noticed.  Messages come out of their filters with their keys, and values that are as
\* near as the filters promise (IFilter); a frequent key is never filtered out (FreqencyFilter).  A
\* request that is cut for the servers and put together from their answers has every value at its key
\* (SliceMessage, ParallelOrderedMatch), but for the largest number, which is in no server's range;
\* segments share the memory of an array without harm to it (SArray); and characters pass the buffers
\* of ostream and istream, of any size, once and in order.
EncodingsSurvive ==
    /\ part = "json" => J!JsonRight(datum[1], datum[2]) /\ S!BinaryRight(datum[1], datum[2])
    /\ part = "string" => J!StringRight(datum)
    /\ part = "config" => \A multi \in BOOLEAN : C!ConfigRight(datum[1], datum[2], datum[3], multi)
    /\ part = "param" => A!ParamsRight(datum[1], datum[2])
    /\ part = "filter" => \A coin \in {0, 1} : F!FiltersRight(datum, coin)
    /\ part = "sketch" => \A ks \in [1 .. 3 -> {"x", "y", "z"}] : \A cs \in [1 .. 3 -> {1, 5}] : \A thr \in {0, 3, 5} :
                             F!FrequentKept(datum, ks, cs, 3, 6, thr)
    /\ part = "keys" => /\ \A k \in {1, 2} : K!SlicedRight(datum[1], datum[2], k, MaxKey)
                        /\ datum[2] = 1 => \A ks \in SUBSET (0 .. 4) : K!AddedRight(K!Ascending(ks), datum[1], 2)
    /\ part = "array" => H!ArraysRight(<<"1", "2", "3", "4">>, datum[1][1], datum[1][2], datum[2])
    /\ part = "buffer" => S!BuffersRight(datum[1], datum[2])

\* Predictions and gradients are those of a factorization machine, whichever features have an
\* embedding, a weight only or nothing (Loss), or a weight each (LogitLoss); SquareHingeLoss is zero
\* where it is said to be; and the measures of a classifier are what they are called (BinClassEval).
LossesRight ==
    /\ part = "loss" => L!LossRight(datum.blk, SubSeq(Model, 1, L!SumSeq(datum.sizes)), datum.sizes, datum.dim, datum.p, datum.gc)
    /\ part = "linear" => L!LinearRight(datum[1], datum[2], <<2, 1>>)
    /\ part = "eval" => L!EvalRight(datum[1], datum[2])

\* "re-establish connection if failure happens": a read stream that has the first bytes of a new
\* connection goes on reading (CURLReadStreamBase::Read).
ReconnectWorks == O!Reconnects

\* "Write a string that can contain escape characters": such a string is read as it was written
\* (JSONWriter::WriteString, JSONReader::ReadString).
EscapesSurvive == part = "string" => J!EscapesRight(datum)
=============================================================================
