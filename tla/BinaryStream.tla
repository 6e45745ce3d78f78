---------------------------- MODULE BinaryStream ----------------------------
(***************************************************************************)
(* serializer::Handler (dmlc-core/include/dmlc/serializer.h) on a          *)
(* MemoryStringStream (dmlc-core/include/dmlc/memory_io.h).  Types are     *)
(* those of JsonText; a number is plain data (POD) of two bytes, a size is *)
(* one of one byte, and a map is any of the collections, sorted by key.    *)
(* Below, ostream and istream, which buffer the characters of a Stream     *)
(* (dmlc-core/include/dmlc/io.h).                                          *)
(***************************************************************************)
EXTENDS Integers, FiniteSets, Sequences, SequencesExt, JsonText

Pod(type) == type.t = "num"
Bytes(v) == <<<<"low", v>>, <<"high", v>>>>
Size(n) == <<<<"size", n>>>>

\* Stream::Write appends; Stream::Read gives what there is, up to n bytes
ReadBytes(s, n) ==
    LET nread == IF n < Len(s.left) THEN n ELSE Len(s.left)
    IN  [got |-> SubSeq(s.left, 1, nread), left |-> SubSeq(s.left, nread + 1, Len(s.left))]
\* what a handler has read: the bytes that are left, whether it returned true, and the value
Source(bytes) == [left |-> bytes, ok |-> TRUE, val |-> <<>>]
Short(s) == [s EXCEPT !.left = <<>>, !.ok = FALSE]

RECURSIVE Encode(_, _)
Encode(type, v) ==
    CASE type.t = "num" -> Bytes(v)
      [] type.t = "str" -> Size(Len(v)) \o [i \in DOMAIN v |-> <<"char", v[i]>>]
      [] type.t = "arr" -> Size(Len(v)) \o FlattenSeq([i \in DOMAIN v |-> Encode(type.of, v[i])])
      [] type.t = "pair" -> Encode(type.fst, v[1]) \o Encode(type.snd, v[2])
      [] type.t = "map" ->
           LET keys == SortedKeys(v)
           IN  Size(Len(keys)) \o FlattenSeq([i \in DOMAIN keys |-> Encode(Str, <<keys[i]>>) \o Encode(type.of, v[keys[i]])])

ReadSize(s) ==
    LET b == ReadBytes(s, 1)
    IN  IF Len(b.got) = 1 THEN [s EXCEPT !.left = b.left, !.val = b.got[1][2]] ELSE Short(s)
\* n elements of plain data of width bytes, in one read
ReadPods(s, n, width) ==
    LET b == ReadBytes(s, n * width)
    IN  IF Len(b.got) = n * width
        THEN [s EXCEPT !.left = b.left, !.val = [i \in 1 .. n |-> b.got[i * width][2]]] ELSE Short(s)

RECURSIVE Decode(_, _), DecodeAll(_, _, _, _)
\* DecodeAll: ComposeVectorHandler, which stops at the first element that fails
DecodeAll(s, type, n, vec) ==
    LET e == Decode(s, type)
    IN  IF n = 0 THEN [s EXCEPT !.val = vec]
        ELSE IF e.ok THEN DecodeAll(e, type, n - 1, Append(vec, e.val)) ELSE e
Decode(s, type) ==
    CASE type.t = "num" -> LET r == ReadPods(s, 1, 2) IN IF r.ok THEN [r EXCEPT !.val = r.val[1]] ELSE r
      [] type.t = "str" -> LET z == ReadSize(s) IN IF z.ok THEN ReadPods(z, z.val, 1) ELSE z
      [] type.t = "arr" -> LET z == ReadSize(s)
                           IN  IF ~z.ok THEN z
                               ELSE IF Pod(type.of) THEN ReadPods(z, z.val, 2) ELSE DecodeAll(z, type.of, z.val, <<>>)
      [] type.t = "pair" -> LET a == Decode(s, type.fst)
                                b == IF a.ok THEN Decode(a, type.snd) ELSE a
                            IN  IF b.ok THEN [b EXCEPT !.val = <<a.val, b.val>>] ELSE b
      [] type.t = "map" -> LET z == Decode(s, Arr(Pair(Str, type.of)))
                               at(k) == CHOOSE i \in DOMAIN z.val : z.val[i][1][1] = k
                           IN  IF z.ok
                               THEN [z EXCEPT !.val = [k \in {z.val[i][1][1] : i \in DOMAIN z.val} |-> z.val[at(k)][2]]]
                               ELSE z
-----------------------------------------------------------------------------
(* ostream: out are the streams it was set to, buf what is between pbase() *)
(* and pptr(), size the size of buffer_, of which one place is kept free   *)
(* for the character that overflows.                                       *)

OStream(size) == [out |-> <<<<>>>>, buf |-> <<>>, size |-> IF size = 0 THEN 2 ELSE size, bytes |-> 0]

WriteOut(o, s) == [o EXCEPT !.out[Len(o.out)] = @ \o s, !.buf = <<>>, !.bytes = @ + Len(s)]
\* sync, also called by the destructor
Sync(o) == WriteOut(o, o.buf)
\* set_stream to the next stream
NextStream(o) == [Sync(o) EXCEPT !.out = Append(@, <<>>)]
\* a character, with overflow where the buffer has no room
PutChar(o, c) == IF Len(o.buf) < o.size - 1 THEN [o EXCEPT !.buf = Append(@, c)] ELSE WriteOut(o, Append(o.buf, c))

\* istream: left is what the stream still has, buf what is between gptr() and egptr()
IStream(bytes, size) == [left |-> bytes, buf |-> <<>>, size |-> IF size = 0 THEN 2 ELSE size, bytes |-> 0]

\* underflow
Underflow(i) ==
    LET b == ReadBytes(i, i.size)
    IN  IF i.buf # <<>> THEN i ELSE [i EXCEPT !.left = b.left, !.buf = b.got, !.bytes = @ + Len(b.got)]

RECURSIVE ReadAll(_)
ReadAll(i) ==
    LET u == Underflow(i)
    IN  IF u.buf = <<>> THEN [chars |-> <<>>, bytes |-> u.bytes]
        ELSE LET rest == ReadAll([u EXCEPT !.buf = Tail(@)]) IN [rest EXCEPT !.chars = u.buf[1] \o @]
-----------------------------------------------------------------------------
\* Characters that are written, with the stream exchanged or synchronized between any two of them:
\* every stream has those that were written to it, in order, when the ostream is destroyed;
\* the number of bytes counts all of them, and an istream reads them all.
BuffersRight(ops, size) ==
    LET step(o, n) == CASE ops[n] = "sync" -> Sync(o) [] ops[n] = "next" -> NextStream(o) [] OTHER -> PutChar(o, <<n>>)
        last == Sync(FoldLeft(step, OStream(size), [n \in DOMAIN ops |-> n]))
        written == SelectSeq([n \in DOMAIN ops |-> n], LAMBDA n : ops[n] = "a")
        since(n) == Cardinality({m \in 1 .. n - 1 : ops[m] = "next"}) + 1
    IN  /\ last.bytes = Len(written)
        /\ \A k \in DOMAIN last.out :
              LET mine == SelectSeq(written, LAMBDA n : since(n) = k)
                  r == ReadAll(IStream(last.out[k], size))
              IN  /\ last.out[k] = [i \in DOMAIN mine |-> <<mine[i]>>]
                  /\ r.chars = mine /\ r.bytes = Len(mine)

\* What is written is read again, with nothing left; of a stream that was cut short the handler
\* says so, wherever the cut is.
BinaryRight(type, v) ==
    LET bytes == Encode(type, v)
        r == Decode(Source(bytes), type)
    IN  /\ r.ok /\ r.left = <<>> /\ r.val = v
        /\ \A n \in 0 .. Len(bytes) - 1 : ~Decode(Source(SubSeq(bytes, 1, n)), type).ok
=============================================================================
