----------------------------- MODULE RowParsers -----------------------------
(***************************************************************************)
(* The parsers of rows of data: numbers (dmlc-core/src/data/strtonum.h),   *)
(* libsvm text parsed by several threads (libsvm_parser.h), criteo and     *)
(* adfea text (src/base/criteo_parser.h, adfea_parser.h).                  *)
(*                                                                         *)
(* A text is a sequence of characters; "n" and "r" end a line.  Positions  *)
(* count from 1, an end is the position after the last one.  A row is a    *)
(* record of its label, its weight if it has one, and its features, each   *)
(* an index and a value if it has one.  A number is a fraction <<a, b>>.   *)
(***************************************************************************)
EXTENDS Integers, FiniteSets, Sequences, SequencesExt

Digits == {"0", "1", "2", "3", "4", "5", "6", "7", "8", "9"}
DigitOf == [c \in Digits |-> CHOOSE d \in 0 .. 9 : c = <<"0", "1", "2", "3", "4", "5", "6", "7", "8", "9">>[d + 1]]
EndOfLine == {"n", "r"}
Space == EndOfLine \cup {" ", "t"}
Blank == {" ", "t"}
DigitChars == Digits \cup {"+", "-", ".", "e"}
None == <<>>

At(t, p) == IF p <= Len(t) THEN t[p] ELSE "end"
\* the first position from p on, before end, that is (not) in the set; end if there is none
Find(t, p, end, set) ==
    LET at == {q \in p .. end - 1 : At(t, q) \in set}
    IN  IF at = {} THEN end ELSE CHOOSE q \in at : \A r \in at : q <= r
SkipOver(t, p, end, set) ==
    LET at == {q \in p .. end - 1 : At(t, q) \notin set}
    IN  IF at = {} THEN end ELSE CHOOSE q \in at : \A r \in at : q <= r
-----------------------------------------------------------------------------
(* strtonum.h.  The conversions look for the end of a number themselves,   *)
(* whatever the end of the line is.  Width: of an unsigned.                *)

DigitsFrom(t, p) == SubSeq(t, p, SkipOver(t, p, Len(t) + 1, Digits) - 1)
Decimal(ds) == FoldLeft(LAMBDA v, c : 10 * v + DigitOf[c], 0, ds)
NumberStart(t, p) == SkipOver(t, p, Len(t) + 1, Space)

SignAt(t, p) == IF At(t, p) = "-" THEN -1 ELSE 1
SkipSign(t, p) == IF At(t, p) \in {"+", "-"} THEN p + 1 ELSE p

\* strtoint, strtouint: no sign is allowed for the latter, which is a failed check
Strtoint(t, p) ==
    LET s == NumberStart(t, p)
    IN  SignAt(t, s) * Decimal(DigitsFrom(t, SkipSign(t, s)))
CheckFails == -1
Strtouint(t, p) == IF At(t, NumberStart(t, p)) = "-" THEN CheckFails ELSE Strtoint(t, p)

\* strtof without its rounding.  The digits after the point are val2 and pow10, two unsigned
\* numbers; the exponent scales the number up or down.
FractionAt(t, p) == IF At(t, p) = "." THEN DigitsFrom(t, p + 1) ELSE <<>>
AfterFraction(t, p) == IF At(t, p) = "." THEN p + 1 + Len(DigitsFrom(t, p + 1)) ELSE p
WithFraction(sign, int, frac, width) ==
    LET pow10 == 10 ^ Len(frac) % 2 ^ width
    IN  <<sign * (Decimal(int) * pow10 + (Decimal(frac) % 2 ^ width)), pow10>>
ExponentAt(t, p) == IF At(t, p) = "e" THEN Decimal(DigitsFrom(t, SkipSign(t, p + 1))) ELSE 0
Scaled(x, expon, down) ==
    LET scale == 10 ^ IF expon > 38 THEN 38 ELSE expon
    IN  IF down THEN <<x[1], x[2] * scale>> ELSE <<x[1] * scale, x[2]>>
Strtof(t, p, width) ==
    LET s == SkipSign(t, NumberStart(t, p))
        int == DigitsFrom(t, s)
        q == AfterFraction(t, s + Len(int))
    IN  Scaled(WithFraction(SignAt(t, NumberStart(t, p)), int, FractionAt(t, s + Len(int)), width),
               ExponentAt(t, q), At(t, q + 1) = "-")

UnsignedWidth == 16     \* 32 in the code
Atof(t, p) == Strtof(t, p, UnsignedWidth)
Str2T(type, t, p) == IF type = "uint" THEN Strtouint(t, p) ELSE Atof(t, p)

\* ParsePair: v1[:v2], of the given types.  n values, and where to go on.
ParsePair(t, begin, end, T1, T2) ==
    LET p == Find(t, begin, end, DigitChars)
        q == SkipOver(t, p, end, DigitChars)
        colon == SkipOver(t, q, end, Blank)
        p2 == Find(t, colon + 1, end, DigitChars)
    IN  IF p = end THEN [n |-> 0, end |-> end, v1 |-> None, v2 |-> None]
        ELSE IF colon = end \/ At(t, colon) # ":" THEN [n |-> 1, end |-> colon, v1 |-> Str2T(T1, t, p), v2 |-> None]
        ELSE [n |-> 2, end |-> SkipOver(t, p2, end, DigitChars), v1 |-> Str2T(T1, t, p), v2 |-> Str2T(T2, t, p2)]
-----------------------------------------------------------------------------
(* LibSVMParser                                                            *)

RECURSIVE Features(_, _, _)
Features(t, p, lend) ==
    LET r == ParsePair(t, p, lend, "uint", "real")
    IN  IF p = lend \/ r.n = 0 THEN <<>>
        ELSE <<[index |-> r.v1, value |-> r.v2]>> \o Features(t, r.end, lend)

RowAt(t, head, lend) == [label |-> head.v1, weight |-> head.v2, feats |-> Features(t, head.end, lend)]

\* mutant of ParseBlock: the rest of a line is parsed up to the end of the block
RECURSIVE MutParseBlock(_, _, _)
MutParseBlock(t, lbegin, end) ==
    LET lend == Find(t, lbegin + 1, end, EndOfLine)
        head == ParsePair(t, lbegin, lend, "real", "real")
    IN  IF lbegin >= end THEN <<>>
        ELSE IF head.n = 0 THEN MutParseBlock(t, lend, end)
        ELSE <<RowAt(t, head, end)>>
                \o MutParseBlock(t, lend, end)

\* ParseBlock: the rows of the lines in a block, lines without a label being skipped
RECURSIVE ParseBlock(_, _, _)
ParseBlock(t, lbegin, end) ==
    LET lend == Find(t, lbegin + 1, end, EndOfLine)
        head == ParsePair(t, lbegin, lend, "real", "real")
    IN  IF lbegin >= end THEN <<>>
        ELSE IF head.n = 0 THEN ParseBlock(t, lend, end)
        ELSE <<RowAt(t, head, lend)>>
                \o ParseBlock(t, lend, end)

BackFindEndLine(t, p) ==
    LET at == {q \in 2 .. p : At(t, q) \in EndOfLine}
    IN  IF at = {} THEN 1 ELSE CHOOSE q \in at : \A r \in at : r <= q

\* FillData: the blocks of a chunk, one for each thread
FillData(t, nthread) ==
    LET size == Len(t)
        nstep == (size + nthread - 1) \div nthread
        at(k) == 1 + IF k * nstep < size THEN k * nstep ELSE size
    IN  [i \in 1 .. nthread |->
            ParseBlock(t, BackFindEndLine(t, at(i - 1)),
                       IF i = nthread THEN at(i) ELSE BackFindEndLine(t, at(i)))]
-----------------------------------------------------------------------------
(* CriteoParser: ints columns of integers, then cats columns of hashes of  *)
(* one character (eight in the code), all of them possibly empty.  A       *)
(* feature is its column and its text.                                     *)

RECURSIVE IntColumns(_, _, _, _)
IntColumns(t, p, i, ints) ==
    LET pp == Find(t, p, Len(t) + 1, {"t"})
        rest == IntColumns(t, pp + 1, i + 1, ints)
    IN  IF i = ints THEN [feats |-> <<>>, p |-> p]
        ELSE [feats |-> (IF pp > p THEN <<<<i, SubSeq(t, p, pp - 1)>>>> ELSE <<>>) \o rest.feats, p |-> rest.p]

RECURSIVE CatColumns(_, _, _, _)
CatColumns(t, p, i, n) ==
    IF i = n \/ p > Len(t) THEN [feats |-> <<>>, p |-> p]
    ELSE IF t[p] \in Space THEN CatColumns(t, p + 1, i + 1, n)
    ELSE IF At(t, p + 1) \in EndOfLine THEN [feats |-> <<<<i, <<t[p]>>>>>>, p |-> p + 2]
    ELSE LET rest == CatColumns(t, p + 2, i + 1, n)
         IN  [feats |-> <<<<i, <<t[p]>>>>>> \o rest.feats, p |-> rest.p]

RECURSIVE ParseCriteo(_, _, _, _, _)
ParseCriteo(t, from, train, ints, cats) ==
    LET p == SkipOver(t, from, Len(t) + 1, EndOfLine)
        pp == Find(t, p, Len(t) + 1, {"t"})
        i == IntColumns(t, IF train THEN pp + 1 ELSE p, 0, ints)
        c == CatColumns(t, i.p, ints, ints + cats)
    IN  IF p > Len(t) THEN <<>>
        ELSE <<[label |-> IF train THEN Atof(t, p) ELSE <<0, 1>>, feats |-> i.feats \o c.feats]>>
                \o ParseCriteo(t, c.p, train, ints, cats)
-----------------------------------------------------------------------------
(* AdfeaParser.  A token is <<number>> or <<index, group>>; of the three   *)
(* numbers of a line the third is the label.                               *)

ParseAdfea(tokens) ==
    LET step(s, tok) ==
          IF Len(tok) = 2 THEN [s EXCEPT !.feats = Append(@, tok)]
          ELSE IF s.i < 2 THEN [s EXCEPT !.i = @ + 1]
          ELSE [i |-> 0, label |-> <<tok[1]>>, feats |-> <<>>,
                rows |-> IF s.label = None THEN s.rows
                         ELSE Append(s.rows, [label |-> s.label[1], feats |-> s.feats])]
        last == FoldLeft(step, [i |-> 0, label |-> None, feats |-> <<>>, rows |-> <<>>], tokens)
    IN  IF last.label = None THEN <<>>
        ELSE Append(last.rows, [label |-> last.label[1], feats |-> last.feats])
-----------------------------------------------------------------------------
(* What is written as text.                                                *)

PrintLibSVM(rows) ==
    FlattenSeq([i \in DOMAIN rows |->
        <<rows[i].label>> \o (IF rows[i].weight = None THEN <<>> ELSE <<":">> \o rows[i].weight)
          \o FlattenSeq([j \in DOMAIN rows[i].feats |->
                <<" ", rows[i].feats[j].index>> \o
                (IF rows[i].feats[j].value = None THEN <<>> ELSE <<":">> \o rows[i].feats[j].value)])
          \o <<"n">>])
Num(c) == <<DigitOf[c], 1>>
Meaning(row) ==
    [label |-> Num(row.label), weight |-> IF row.weight = None THEN None ELSE Num(row.weight[1]),
     feats |-> [j \in DOMAIN row.feats |->
                  [index |-> DigitOf[row.feats[j].index],
                   value |-> IF row.feats[j].value = None THEN None ELSE Num(row.feats[j].value[1])]]]

\* columns: one text for each column, possibly empty; eol: how the line ends
PrintCriteo(rows, train, eol) ==
    FlattenSeq([i \in DOMAIN rows |->
        (IF train THEN <<rows[i].label, "t">> ELSE <<>>)
          \o FlattenSeq([j \in DOMAIN rows[i].columns |->
                rows[i].columns[j] \o IF j < Len(rows[i].columns) THEN <<"t">> ELSE eol])])
CriteoRow(row, train) ==
    LET all == [j \in DOMAIN row.columns |-> <<j - 1, row.columns[j]>>]
    IN  [label |-> IF train THEN Num(row.label) ELSE <<0, 1>>, feats |-> SelectSeq(all, LAMBDA f : f[2] # <<>>)]

PrintAdfea(rows) ==
    FlattenSeq([i \in DOMAIN rows |-> <<<<7>>, <<Len(rows[i].feats)>>, <<rows[i].label>>>> \o rows[i].feats])
-----------------------------------------------------------------------------
\* The rows of a chunk do not depend on the number of threads that parse it, whatever the text;
\* and rows that are written as text, with or without weights, values and empty columns, are
\* parsed to the same rows.
LibSVMRight(text, rows) ==
    /\ \A n \in 2 .. 4 : FlattenSeq(FillData(text, n)) = ParseBlock(text, 1, Len(text) + 1)
    /\ LET printed == PrintLibSVM(rows)
       IN  ParseBlock(printed, 1, Len(printed) + 1) = [i \in DOMAIN rows |-> Meaning(rows[i])]

CriteoRight(rows, ints, cats) ==
    \A train \in BOOLEAN : \A eol \in {<<"n">>, <<"r", "n">>} :
        ParseCriteo(PrintCriteo(rows, train, eol), 1, train, ints, cats)
          = [i \in DOMAIN rows |-> CriteoRow(rows[i], train)]

AdfeaRight(rows) == ParseAdfea(PrintAdfea(rows)) = rows

\* A decimal number with fewer digits after the point than overflow an unsigned is read as it is.
DecimalRight(int, frac, width) ==
    10 ^ Len(frac) < 2 ^ width =>
        Strtof(int \o <<".">> \o frac, 1, width)
          = <<Decimal(int) * 10 ^ Len(frac) + Decimal(frac), 10 ^ Len(frac)>>
=============================================================================
