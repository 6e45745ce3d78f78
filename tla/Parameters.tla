----------------------------- MODULE Parameters -----------------------------
(***************************************************************************)
(* dmlc::Parameter (dmlc-core/include/dmlc/parameter.h): the fields of a   *)
(* struct, declared with a type, a default, bounds or an enumeration, set  *)
(* from keyword arguments, printed, and saved as JSON.                     *)
(*                                                                         *)
(* A field is [type, default, lower, upper, enum]: default is <<>> or a    *)
(* singleton, as lower and upper are (the range is lower <= v < upper),    *)
(* and enum the sequence of the names of 0, 1, 2 ... or <<>>.  A text is a *)
(* sequence of characters.                                                 *)
(***************************************************************************)
EXTENDS Integers, FiniteSets, Sequences, SequencesExt, JsonText

DigitOf == [d \in Digits |-> CHOOSE n \in 0 .. 3 : <<"0", "1", "2", "3">>[n + 1] = d]
PrintDigit(n) == <<<<"0", "1", "2", "3">>[n + 1]>>

ParamError == [ok |-> FALSE, val |-> 0]
Value(v) == [ok |-> TRUE, val |-> v]

\* FieldEntryBase::Set: a number, with spaces around it and nothing else
SetNumber(text) ==
    LET r == ReadDigits(SkipSpaces(NewReader(text)), <<>>)
    IN  IF r.val = <<>> \/ SkipSpaces(r).is # <<>> THEN ParamError
        ELSE Value(FoldLeft(LAMBDA s, d : 10 * s + DigitOf[d], 0, r.val))

\* FieldEntry<bool>::Set, texts being letters: T for "true" in any case, F for "false"
SetBool(text) == IF text \in {<<"T">>, <<"1">>} THEN Value(1) ELSE IF text \in {<<"F">>, <<"0">>} THEN Value(0) ELSE ParamError

Set(field, text) ==
    CASE field.type = "string" -> Value(text)
      [] field.type = "bool" -> SetBool(text)
      [] field.enum # <<>> -> IF text \in ToSet(field.enum) THEN Value((CHOOSE i \in DOMAIN field.enum : field.enum[i] = text) - 1)
                              ELSE ParamError
      [] OTHER -> SetNumber(text)

\* FieldEntryNumeric::Check
Check(field, v) ==
    field.type = "int" => /\ field.lower # <<>> => v >= field.lower[1]
                          /\ field.upper # <<>> => v < field.upper[1]

\* PrintValue
PrintValue(field, v) ==
    CASE field.type = "string" -> v
      [] field.type = "bool" -> IF v = 1 THEN <<"T">> ELSE <<"F">>
      [] field.enum # <<>> -> field.enum[v + 1]
      [] OTHER -> PrintDigit(v)
-----------------------------------------------------------------------------
\* RunInit: the arguments in their order, then the defaults, which nothing checks; unknown
\* arguments are returned, or are an error if unknown is not asked for.
NoParam == [ok |-> TRUE, val |-> <<>>, unknown |-> <<>>]
SetArg(fields, p, arg, allowUnknown) ==
    IF ~p.ok THEN p
    ELSE IF arg[1] \notin DOMAIN fields
         THEN [p EXCEPT !.ok = allowUnknown, !.unknown = Append(@, arg)]
         ELSE LET v == Set(fields[arg[1]], arg[2])
              IN  [p EXCEPT !.ok = v.ok /\ Check(fields[arg[1]], v.val),
                            !.val = [k \in DOMAIN @ \cup {arg[1]} |-> IF k = arg[1] THEN v.val ELSE @[k]]]
RunInit(fields, kwargs, allowUnknown) ==
    LET p == FoldLeft(LAMBDA q, a : SetArg(fields, q, a, allowUnknown), NoParam, kwargs)
        left == DOMAIN fields \ DOMAIN p.val
    IN  [p EXCEPT !.ok = @ /\ \A k \in left : fields[k].default # <<>>,
                  !.val = [k \in DOMAIN fields |-> IF k \in left /\ fields[k].default # <<>> THEN fields[k].default[1]
                                                   ELSE IF k \in left THEN 0 ELSE p.val[k]]]

\* GetDict, and Save and Load through JSON
GetDict(fields, val) == [k \in DOMAIN fields |-> PrintValue(fields[k], val[k])]
Save(fields, val) == Write(NewWriter, Map(Str), GetDict(fields, val)).os
InitFrom(fields, dict) ==
    LET keys == SortedKeys(dict.val)
    IN  IF dict.ok THEN RunInit(fields, [i \in DOMAIN keys |-> <<keys[i], dict.val[keys[i]]>>], FALSE)
        ELSE [NoParam EXCEPT !.ok = FALSE]
Load(fields, text) == InitFrom(fields, Read(NewReader(text), Map(Str)))
-----------------------------------------------------------------------------
\* what was made of the arguments, when unknown ones are allowed (p), when not (strict), and
\* after p was saved and loaded (again)
InitRight(fields, kwargs, p, strict, again) ==
    LET given == {kwargs[i][1] : i \in DOMAIN kwargs}
        last(k) == kwargs[CHOOSE i \in DOMAIN kwargs : kwargs[i][1] = k /\ \A j \in i + 1 .. Len(kwargs) : kwargs[j][1] # k][2]
        inRange(k) == Check(fields[k], p.val[k])
    IN  /\ p.ok => \A k \in DOMAIN fields :
                      IF k \in given THEN inRange(k) /\ p.val[k] = Set(fields[k], last(k)).val
                      ELSE <<p.val[k]>> = fields[k].default
        /\ p.ok => p.unknown = SelectSeq(kwargs, LAMBDA a : a[1] \notin DOMAIN fields)
        /\ strict.ok <=> p.ok /\ given \subseteq DOMAIN fields
        /\ p.ok => IF \A k \in DOMAIN fields : inRange(k) THEN again.ok /\ again.val = p.val ELSE ~again.ok

\* Arguments that are accepted give every field the last argument of its name, or the default if
\* there is none, and are reported if they are unknown; what was set by arguments is in range.  What
\* is accepted can be saved and loaded, unless a default is out of range.
ParamsRight(fields, kwargs) ==
    LET p == RunInit(fields, kwargs, TRUE)
    IN  InitRight(fields, kwargs, p, RunInit(fields, kwargs, FALSE), Load(fields, Save(fields, p.val)))
=============================================================================
