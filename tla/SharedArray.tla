---------------------------- MODULE SharedArray ----------------------------
(***************************************************************************)
(* SArray (ps-lite/src/ps/shared_array.h): arrays that share their memory, *)
(* of which a segment is cut without a copy.                               *)
(*                                                                         *)
(* mem is the sequence of the buffers allocated so far; the reference      *)
(* counts, which free them, are left out.  An array is a buffer (0: null), *)
(* the place of its first element, its size and its capacity.  An          *)
(* operation takes the memory and an array and gives both back.            *)
(***************************************************************************)
EXTENDS Integers, Sequences, SequencesExt

Garbage == "garbage"          \* what uninitialized memory holds
Slack == 5                    \* elements allocated beyond the capacity
Null == [buf |-> 0, off |-> 0, size |-> 0, cap |-> 0]

Values(mem, arr) == IF arr.size = 0 THEN <<>> ELSE SubSeq(mem[arr.buf], arr.off + 1, arr.off + arr.size)
\* the stores of an operation through data(), from the position at on
Store(mem, arr, at, vals) ==
    IF vals = <<>> THEN mem
    ELSE [mem EXCEPT ![arr.buf] = [i \in DOMAIN @ |->
            IF i - arr.off - at \in DOMAIN vals THEN vals[i - arr.off - at] ELSE @[i]]]

\* resize(n): within the capacity only the size changes
Resize(mem, arr, n) ==
    IF arr.cap >= n THEN [mem |-> mem, arr |-> [arr EXCEPT !.size = n]]
    ELSE LET old == Values(mem, arr)
         IN  [mem |-> Append(mem, old \o [i \in 1 .. n + Slack - Len(old) |-> Garbage]),
              arr |-> [buf |-> Len(mem) + 1, off |-> 0, size |-> n, cap |-> n]]

\* SetValue and SetZero
SetValue(mem, arr, val) == [mem |-> Store(mem, arr, 0, [i \in 1 .. arr.size |-> val]), arr |-> arr]

\* resize(n, val)
ResizeTo(mem, arr, n, val) ==
    LET r == Resize(mem, arr, n)
    IN  IF arr.size = 0 THEN SetValue(r.mem, r.arr, val)
        ELSE [r EXCEPT !.mem = Store(@, r.arr, arr.size, [i \in 1 .. n - arr.size |-> val])]

Reserve(mem, arr, n) ==
    IF arr.cap >= n THEN [mem |-> mem, arr |-> arr]
    ELSE LET r == Resize(mem, arr, n) IN [r EXCEPT !.arr.size = arr.size]

PushBack(mem, arr, val) ==
    LET r == IF arr.size = arr.cap THEN Reserve(mem, arr, arr.size * 2 + 5) ELSE [mem |-> mem, arr |-> arr]
    IN  [mem |-> Store(r.mem, r.arr, arr.size, <<val>>), arr |-> [r.arr EXCEPT !.size = @ + 1]]

PopBack(mem, arr) == [mem |-> mem, arr |-> [arr EXCEPT !.size = IF @ > 0 THEN @ - 1 ELSE @]]

\* append: vals are those of another array
AppendAll(mem, arr, vals) ==
    LET r == Resize(mem, arr, arr.size + Len(vals))
    IN  IF vals = <<>> THEN [mem |-> mem, arr |-> arr] ELSE [r EXCEPT !.mem = Store(@, r.arr, arr.size, vals)]

Clear(mem, arr) == [mem |-> mem, arr |-> Null]

\* CopyFrom
CopyFrom(mem, arr, vals) ==
    LET r == Resize(mem, arr, Len(vals)) IN [r EXCEPT !.mem = Store(@, r.arr, 0, vals)]

\* Segment: shares the buffer and has no room to grow
Segment(arr, b, e) == [buf |-> arr.buf, off |-> arr.off + b, size |-> e - b, cap |-> e - b]
-----------------------------------------------------------------------------
\* an operation by name; the values it writes differ from those of the array
Do(s, op) ==
    CASE op = "push" -> PushBack(s.mem, s.arr, "p")
      [] op = "pop" -> PopBack(s.mem, s.arr)
      [] op = "append" -> AppendAll(s.mem, s.arr, <<"x", "y">>)
      [] op = "grow" -> ResizeTo(s.mem, s.arr, 4, "v")
      [] op = "cut" -> ResizeTo(s.mem, s.arr, 1, "v")
      [] op = "set" -> SetValue(s.mem, s.arr, "s")
      [] op = "copy" -> CopyFrom(s.mem, s.arr, <<"c", "d">>)
      [] op = "reserve" -> Reserve(s.mem, s.arr, 6)
      [] op = "clear" -> Clear(s.mem, s.arr)

\* the same on a sequence that shares nothing
Plain(s, op) ==
    CASE op = "push" -> Append(s, "p")
      [] op = "pop" -> IF s = <<>> THEN s ELSE Front(s)
      [] op = "append" -> s \o <<"x", "y">>
      [] op = "grow" -> [i \in 1 .. 4 |-> IF i <= Len(s) THEN s[i] ELSE "v"]
      [] op = "cut" -> IF s = <<>> THEN <<"v">> ELSE SubSeq(s, 1, 1)
      [] op = "set" -> [i \in DOMAIN s |-> "s"]
      [] op = "copy" -> <<"c", "d">>
      [] op = "reserve" -> s
      [] op = "clear" -> <<>>

\* An array and a segment of it, [b, e): whatever is done to the segment, it has the values of a
\* sequence of its own, and it never writes to the array outside of [b, e), although it may grow;
\* the array may grow, or be cleared, and the segment keeps its values.  No operation leaves the
\* memory of its buffer.
ArraysRight(vals, b, e, ops) ==
    LET whole == CopyFrom(<<>>, Null, vals)
        seg == Segment(whole.arr, b, e)
        last == FoldLeft(Do, [mem |-> whole.mem, arr |-> seg], ops)
        plain == FoldLeft(Plain, SubSeq(vals, b + 1, e), ops)
        grown == FoldLeft(Do, whole, SelectSeq(ops, LAMBDA op : op \in {"push", "append", "grow", "reserve", "clear"}))
        inside(s) == s.arr.size <= s.arr.cap /\ (s.arr.buf > 0 => s.arr.off + s.arr.cap <= Len(s.mem[s.arr.buf]))
        after == Values(last.mem, whole.arr)
    IN  /\ Values(last.mem, last.arr) = plain
        /\ \A i \in DOMAIN vals : i \notin b + 1 .. e => after[i] = vals[i]
        /\ Values(grown.mem, seg) = SubSeq(vals, b + 1, e)
        /\ inside(last) /\ inside(grown)
=============================================================================
