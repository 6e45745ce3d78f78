----------------------------- MODULE ConfigText -----------------------------
(***************************************************************************)
(* dmlc::Config and its Tokenizer (dmlc-core/src/config.cc, config.h): a   *)
(* text of lines "key = value" with comments, the entries it makes, and    *)
(* the iteration over them.  A text is a sequence of characters.           *)
(***************************************************************************)
EXTENDS Integers, FiniteSets, Sequences, SequencesExt

Quote == "\""
Slash == "\\"
Blank == {" ", "\n"}
Peek(is) == IF is = <<>> THEN "EOF" ELSE Head(is)
Eat(is) == IF is = <<>> THEN is ELSE Tail(is)
-----------------------------------------------------------------------------
(* The tokenizer.  A token is its buf, is_string, what is left of the      *)
(* stream, and whether TokenizeError was thrown.                           *)

Token(buf, str, is) == [buf |-> buf, is_string |-> str, is |-> is, error |-> FALSE]
TokenizeError == [buf |-> <<>>, is_string |-> FALSE, is |-> <<>>, error |-> TRUE]

RECURSIVE ParseString(_, _)
ParseString(is, buf) ==
    CASE Peek(is) = Quote -> Token(buf, TRUE, Eat(is))
      [] Peek(is) = Slash -> IF Peek(Eat(is)) = Quote THEN ParseString(Eat(Eat(is)), Append(buf, Quote)) ELSE TokenizeError
      [] Peek(is) \in {"\n", "EOF"} -> TokenizeError
      [] OTHER -> ParseString(Eat(is), Append(buf, Peek(is)))

RECURSIVE ParseComments(_)
ParseComments(is) == IF Peek(is) \in {"\n", "EOF"} THEN is ELSE ParseComments(Eat(is))

\* GetNextToken: in says whether state_ is kToken
RECURSIVE NextToken(_, _, _)
NextToken(is, buf, in) ==
    CASE Peek(is) = "EOF" -> Token(buf, FALSE, is)
      [] Peek(is) \in Blank -> IF in THEN Token(buf, FALSE, is) ELSE NextToken(Eat(is), buf, in)
      [] Peek(is) = Quote -> ParseString(Eat(is), buf)
      [] Peek(is) = "=" -> IF in THEN Token(buf, FALSE, is) ELSE Token(<<"=">>, FALSE, Eat(is))
      [] Peek(is) = "#" -> NextToken(ParseComments(is), buf, in)
      [] OTHER -> NextToken(Eat(is), Append(buf, Peek(is)), TRUE)
GetNextToken(is) == NextToken(is, <<>>, FALSE)
-----------------------------------------------------------------------------
(* The configuration: config_map_, and order_ with a key and the index of  *)
(* one of its values per insertion.                                        *)

NoConfig == [map |-> <<>>, order |-> <<>>]
NoValue == [val |-> <<>>, index |-> <<>>, is_string |-> FALSE]

Insert(c, multi, key, value, str) ==
    LET old == IF multi /\ key \in DOMAIN c.map THEN c.map[key] ELSE NoValue
        new == [val |-> Append(old.val, value), index |-> Append(old.index, Len(c.order)), is_string |-> str]
    IN  [map |-> [k \in DOMAIN c.map \cup {key} |-> IF k = key THEN new ELSE c.map[k]],
         order |-> Append(c.order, <<key, Len(old.val)>>)]

\* LoadFromStream: a missing "=" is only logged; an error of the tokenizer ends the loading
RECURSIVE LoadFromStream(_, _, _)
LoadFromStream(c, multi, is) ==
    LET key == GetNextToken(is)
        eqop == GetNextToken(key.is)
        value == GetNextToken(eqop.is)
    IN  IF key.error \/ key.buf = <<>> \/ eqop.error \/ value.error THEN c
        ELSE LoadFromStream(Insert(c, multi, key.buf, value.buf, value.is_string), multi, value.is)

GetParam(c, key) == Last(c.map[key].val)
IsGenuineString(c, key) == c.map[key].is_string

\* ConfigIterator::FindNextIndex: the next insertion whose value is still in config_map_
Current(c, i) == c.map[c.order[i + 1][1]].index[c.order[i + 1][2] + 1] = i
EntryAt(c, i) == LET key == c.order[i + 1][1] IN <<key, c.map[key].val[c.order[i + 1][2] + 1]>>
\* all that is iterated over
Entries(c) ==
    LET idx == SelectSeq([i \in 1 .. Len(c.order) |-> i - 1], LAMBDA i : Current(c, i))
    IN  [j \in DOMAIN idx |-> EntryAt(c, idx[j])]

\* MakeProtoStringValue and ToProtoString
Escape(s) == FlattenSeq([i \in DOMAIN s |-> IF s[i] = Quote THEN <<Slash, Quote>> ELSE <<s[i]>>])
ProtoString(c) ==
    FlattenSeq([j \in DOMAIN Entries(c) |->
        LET e == Entries(c)[j]
        IN  e[1] \o <<" ", ":", " ">>
            \o (IF IsGenuineString(c, e[1]) THEN <<Quote>> \o Escape(e[2]) \o <<Quote>> ELSE e[2]) \o <<"\n">>])
-----------------------------------------------------------------------------
\* the lines that a user writes: an entry is [key, value, str], gap stands around "=", tail ends the line
Line(e, gap, tail) ==
    e.key \o gap \o <<"=">> \o gap \o (IF e.str THEN <<Quote>> \o Escape(e.value) \o <<Quote>> ELSE e.value) \o tail
TextOf(entries, gap, tail) == FlattenSeq([i \in DOMAIN entries |-> Line(entries[i], gap, tail)])

\* With whatever blanks and comments, a configuration has the last value of every key, and is
\* iterated over in the order of the lines: all of them if a key may have several values, or else
\* those that no later line replaces.  A line of the text that ToProtoString writes is quoted as the
\* last value of its key was.
ConfigRight(entries, gap, tail, multi) ==
    LET c == LoadFromStream(NoConfig, multi, TextOf(entries, gap, tail))
        kept == SelectSeq([i \in DOMAIN entries |-> i],
                          LAMBDA i : multi \/ \A j \in i + 1 .. Len(entries) : entries[j].key # entries[i].key)
        last(k) == CHOOSE i \in DOMAIN entries : entries[i].key = k /\ \A j \in i + 1 .. Len(entries) : entries[j].key # k
        shown == [j \in DOMAIN kept |-> [entries[kept[j]] EXCEPT !.str = entries[last(entries[kept[j]].key)].str]]
    IN  /\ DOMAIN c.map = {entries[i].key : i \in DOMAIN entries}
        /\ \A k \in DOMAIN c.map : GetParam(c, k) = entries[last(k)].value /\ IsGenuineString(c, k) = entries[last(k)].str
        /\ Entries(c) = [j \in DOMAIN kept |-> <<entries[kept[j]].key, entries[kept[j]].value>>]
        /\ ProtoString(c) = FlattenSeq([j \in DOMAIN shown |->
              shown[j].key \o <<" ", ":", " ">> \o Tail(Line([shown[j] EXCEPT !.key = <<>>], <<>>, <<"\n">>))])
=============================================================================
