------------------------------ MODULE JsonText ------------------------------
(***************************************************************************)
(* JSONWriter, JSONReader and JSONObjectReadHelper                         *)
(* (dmlc-core/include/dmlc/json.h).  A text is a sequence of characters.   *)
(* What is written and read is directed by a type, as the templates        *)
(* json::Handler are: a number (its digits), a string (its characters), a  *)
(* vector or list, a pair, a map from strings, or a struct, which is read  *)
(* by field.                                                               *)
(***************************************************************************)
EXTENDS Integers, FiniteSets, Sequences, SequencesExt

Num == [t |-> "num"]
Str == [t |-> "str"]
Arr(of) == [t |-> "arr", of |-> of]
Pair(a, b) == [t |-> "pair", fst |-> a, snd |-> b]
Map(of) == [t |-> "map", of |-> of]

Quote == "\""
Slash == "\\"
Spaces == {" ", "\n"}
Digits == {"0", "1", "2", "3"}
\* the characters that WriteString escapes, as they are written, and what their code is read as
Escaped(ch) == IF ch = "\n" THEN "n" ELSE ch
NeedsEscape(ch) == ch \in {"\n", Slash, Quote}
Code(ch) == IF ch = "n" THEN <<"1", "1", "0">> ELSE IF ch = Slash THEN <<"9", "2">> ELSE <<"3", "4">>
-----------------------------------------------------------------------------
(* The writer: what is written, scope_counter_ and scope_multi_line_       *)

NewWriter == [os |-> <<>>, counter |-> <<>>, multi |-> <<>>]
Put(w, text) == [w EXCEPT !.os = @ \o text]
WriteSeperator(w) ==
    IF w.multi = <<>> \/ Last(w.multi) THEN Put(w, <<"\n">> \o [i \in 1 .. 2 * Len(w.multi) |-> " "]) ELSE w

WriteString(w, s) ==
    Put(w, <<Quote>> \o FlattenSeq([i \in DOMAIN s |-> IF NeedsEscape(s[i]) THEN <<Slash, Escaped(s[i])>> ELSE <<s[i]>>])
           \o <<Quote>>)

\* BeginArray and BeginObject, EndArray and EndObject
Begin(w, bracket, multi) == [Put(w, <<bracket>>) EXCEPT !.counter = Append(@, 0), !.multi = Append(@, multi)]
End(w, bracket) ==
    LET out == [w EXCEPT !.counter = Front(@), !.multi = Front(@)]
    IN  Put(IF Last(w.multi) /\ Last(w.counter) # 0 THEN WriteSeperator(out) ELSE out, <<bracket>>)
Counted(w) == [w EXCEPT !.counter[Len(w.counter)] = @ + 1]

\* what comes before an item of an array, and before the value of a key, which is not escaped
BeforeItem(w) == WriteSeperator(Counted(IF Last(w.counter) # 0 THEN Put(w, <<",", " ">>) ELSE w))
BeforeValue(w, key) ==
    Counted(Put(WriteSeperator(IF Last(w.counter) # 0 THEN Put(w, <<",", " ">>) ELSE w), <<Quote, key, Quote, ":", " ">>))

SortedKeys(m) == SelectSeq(<<"k", "l", "m">>, LAMBDA k : k \in DOMAIN m)
RECURSIVE Write(_, _, _)
Write(w, type, v) ==
    CASE type.t = "num" -> Put(w, v)
      [] type.t = "str" -> WriteString(w, v)
      [] type.t = "arr" ->
           End(FoldLeft(LAMBDA u, e : Write(BeforeItem(u), type.of, e),
                        Begin(w, "[", Len(v) > 10 \/ type.of.t # "num"), v), "]")
      [] type.t = "pair" ->
           End(Write(BeforeItem(Write(BeforeItem(Begin(w, "[", TRUE)), type.fst, v[1])), type.snd, v[2]), "]")
      [] type.t = "map" ->
           End(FoldLeft(LAMBDA u, k : Write(BeforeValue(u, k), type.of, v[k]),
                        Begin(w, "{", Cardinality(DOMAIN v) > 1), SortedKeys(v)), "}")
-----------------------------------------------------------------------------
(* The reader: the stream, scope_counter_, whether a check has failed, and *)
(* what was read last.                                                     *)

NewReader(text) == [is |-> text, scope |-> <<>>, ok |-> TRUE, val |-> <<>>, more |-> FALSE]
Peek(r) == IF r.is = <<>> THEN "EOF" ELSE Head(r.is)
Get(r) == [r EXCEPT !.is = IF @ = <<>> THEN @ ELSE Tail(@)]
Fail(r) == [r EXCEPT !.ok = FALSE, !.is = <<>>, !.more = FALSE]

RECURSIVE SkipSpaces(_)
SkipSpaces(r) == IF Peek(r) \in Spaces THEN SkipSpaces(Get(r)) ELSE r
\* NextNonSpace, and a check that it is ch
Expect(r, ch) == LET s == SkipSpaces(r) IN IF Peek(s) = ch THEN Get(s) ELSE Fail(s)

\* The character after a backslash is put into the string as its number.
RECURSIVE ReadChars(_, _)
ReadChars(r, s) ==
    LET ch == Peek(r)
    IN  IF ch = Quote THEN [Get(r) EXCEPT !.val = s]
        ELSE IF ch \in {"EOF", "\n"} THEN Fail(r)
        ELSE IF ch = Slash THEN ReadChars(Get(Get(r)), s \o Code(Peek(Get(r))))
        ELSE ReadChars(Get(r), Append(s, ch))
ReadString(r) == LET s == Expect(r, Quote) IN IF s.ok THEN ReadChars(s, <<>>) ELSE s

RECURSIVE ReadDigits(_, _)
ReadDigits(r, s) == IF Peek(r) \in Digits THEN ReadDigits(Get(r), Append(s, Peek(r))) ELSE [r EXCEPT !.val = s]
ReadNumber(r) == LET s == ReadDigits(SkipSpaces(r), <<>>) IN IF s.val = <<>> THEN Fail(s) ELSE s

BeginScope(r, bracket) == LET s == Expect(r, bracket) IN [s EXCEPT !.scope = Append(@, 0)]

\* NextArrayItem, and NextObjectItem up to the key: the end of the text ends a scope that has an item
NextItem(r, bracket) ==
    LET s == SkipSpaces(r)
        first == Last(r.scope) = 0
        closed == Peek(s) = bracket \/ (~first /\ Peek(s) = "EOF")
    IN  IF closed THEN [Get(s) EXCEPT !.scope = Front(@), !.more = FALSE]
        ELSE IF ~first /\ Peek(s) # "," THEN Fail(s)
        ELSE [(IF first THEN s ELSE Get(s)) EXCEPT !.scope[Len(r.scope)] = @ + 1, !.more = TRUE]
NextArrayItem(r) == NextItem(r, "]")
NextObjectItem(r) ==
    LET s == NextItem(r, "}")
        k == ReadString(s)
    IN  IF ~s.more THEN s ELSE IF ~k.ok THEN k ELSE [Expect(k, ":") EXCEPT !.val = k.val[1], !.more = TRUE]

RECURSIVE Read(_, _), ReadPair(_, _, _), ReadItems(_, _, _), ReadEntries(_, _, _)
Read(r, type) ==
    IF ~r.ok THEN r
    ELSE CASE type.t = "num" -> ReadNumber(r)
           [] type.t = "str" -> ReadString(r)
           [] type.t = "arr" -> ReadItems(BeginScope(r, "["), type.of, <<>>)
           [] type.t = "map" -> ReadEntries(BeginScope(r, "{"), type.of, <<>>)
           [] type.t = "pair" -> ReadPair(BeginScope(r, "["), <<type.fst, type.snd>>, <<>>)
\* Handler<std::pair>::Read: an array of exactly the items of the given types
ReadPair(r, types, vals) ==
    LET n == NextArrayItem(r)
        v == Read(n, Head(types))
    IN  IF ~r.ok THEN r
        ELSE IF ~n.ok \/ n.more = (types = <<>>) THEN Fail(n)
        ELSE IF types = <<>> THEN [n EXCEPT !.val = vals]
        ELSE ReadPair(v, Tail(types), Append(vals, v.val))
\* ArrayHandler::Read; these loops end with a reader that has failed
ReadItems(r, of, vec) ==
    LET n == NextArrayItem(r)
        v == Read(n, of)
    IN  IF ~r.ok THEN r
        ELSE IF ~n.ok \/ ~n.more THEN [n EXCEPT !.val = vec]
        ELSE ReadItems(v, of, Append(vec, v.val))
\* MapHandler::Read; a key that comes again replaces the value
ReadEntries(r, of, map) ==
    LET n == NextObjectItem(r)
        v == Read(n, of)
    IN  IF ~r.ok THEN r
        ELSE IF ~n.ok \/ ~n.more THEN [n EXCEPT !.val = map]
        ELSE ReadEntries(v, of, [k \in DOMAIN map \cup {n.val} |-> IF k = n.val THEN v.val ELSE map[k]])

\* ReadAllFields: the fields that were declared, in any order, each of them and no other
RECURSIVE ReadFields(_, _, _)
ReadFields(r, fields, obj) ==
    LET n == NextObjectItem(r)
        v == IF n.val \in DOMAIN fields THEN Read(n, fields[n.val]) ELSE Fail(n)
    IN  IF ~r.ok THEN r
        ELSE IF ~n.ok THEN n
        ELSE IF ~n.more THEN (IF DOMAIN obj = DOMAIN fields THEN [n EXCEPT !.val = obj] ELSE Fail(n))
        ELSE ReadFields(v, fields, [k \in DOMAIN obj \cup {n.val} |-> IF k = n.val THEN v.val ELSE obj[k]])
ReadAllFields(r, fields) == ReadFields(BeginScope(r, "{"), fields, <<>>)
-----------------------------------------------------------------------------
AllRead(r, v) == r.ok /\ r.is = <<>> /\ r.scope = <<>> /\ r.val = v

\* What is written is read again, with nothing left of the text or of the scopes of either side; a
\* map is read as a struct exactly if it has its fields.
JsonRight(type, v) ==
    LET w == Write(NewWriter, type, v)
        struct == ReadAllFields(NewReader(w.os), [k \in {"k", "l"} |-> type.of])
    IN  /\ w.counter = <<>> /\ w.multi = <<>>
        /\ AllRead(Read(NewReader(w.os), type), v)
        /\ type.t = "map" => IF DOMAIN v = {"k", "l"} THEN AllRead(struct, v) ELSE ~struct.ok

ReadBack(s) == ReadString(NewReader(WriteString(NewWriter, s).os))

\* A string is read to its own end, whatever quotes, backslashes and ends of line it has; it is read
\* as it was written if nothing in it was escaped.
StringRight(s) ==
    LET r == ReadBack(s)
    IN  r.ok /\ r.is = <<>> /\ ((\A i \in DOMAIN s : ~NeedsEscape(s[i])) => r.val = s)

\* A string that WriteString wrote, escaped characters and all, is what ReadString reads.
EscapesRight(s) == ReadBack(s).val = s
=============================================================================
