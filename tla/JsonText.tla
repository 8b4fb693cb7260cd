------------------------------ MODULE JsonText ------------------------------
(***************************************************************************)
(* json::parse, Value and dump, by which configuration, policies and       *)
(* recordings are read and written. A text is a sequence of tokens: the    *)
(* escapes inside a string and the digits of a number are left out. A      *)
(* token "broken" stands for what no value begins with, a literal that is  *)
(* cut short or a string without end.                                      *)
(*                                                                         *)
(* A writer makes a text; it may be read while it is written, after        *)
(* somebody changed it, or as it is.                                       *)
(***************************************************************************)
EXTENDS Integers, Sequences, FiniteSets, SequencesExt

CONSTANTS
    MaxDepth,     \* max_depth
    MaxInt64, MaxUint64,
    Written,      \* values that are written
    Inserted      \* tokens that get into a text

VARIABLES
    value,    \* what is written
    text,     \* the text
    edits,    \* history: "none", "some", or "cut"
    parsed    \* what parse returned, if it was called

jsonVars == <<value, text, edits, parsed>>

----------------------------------------------------------------------------
(* Values *)

Null == [kind |-> "null"]
Bool(b) == [kind |-> "bool", value |-> b]
Int64(n) == [kind |-> "int64", value |-> n]
Uint64(n) == [kind |-> "uint64", value |-> n]
Double(n, half) == [kind |-> "double", value |-> n, half |-> half]
Text(s) == [kind |-> "string", value |-> s]
ArrayOf(elements) == [kind |-> "array", elements |-> elements]
ObjectOf(members) == [kind |-> "object", members |-> members]

\* Slip: a key that is there already is added again.
Put_Twice(members, key, v) == Append(members, [key |-> key, value |-> v])

\* Value::put: a key that is there already keeps its place.
Put(members, key, v) ==
    IF \E i \in DOMAIN members : members[i].key = key
      THEN [i \in DOMAIN members |-> IF members[i].key = key THEN [key |-> key, value |-> v]
                                                              ELSE members[i]]
      ELSE Append(members, [key |-> key, value |-> v])

\* Value::find: the first member with the key.
Find(object, key) ==
    LET at == {i \in DOMAIN object.members : object.members[i].key = key} IN
    IF object.kind # "object" \/ at = {} THEN {}
    ELSE {object.members[CHOOSE i \in at : \A j \in at : i <= j].value}

\* as_double, of any number: halves.
AsDouble(v) == IF v.kind = "double" THEN 2 * v.value + (IF v.half THEN 1 ELSE 0) ELSE 2 * v.value

----------------------------------------------------------------------------
(* Writing *)

Sign(s) == [t |-> s]
StringToken(s) == [t |-> "string", s |-> s]
NumberToken(n, point) == [t |-> "number", n |-> n, point |-> point]

RECURSIVE DumpTo(_)

\* Elements with commas between them.
Joined(parts) ==
    FlattenSeq([i \in DOMAIN parts |-> IF i = 1 THEN parts[i] ELSE <<Sign(",")>> \o parts[i]])

\* dump_to. A double without fraction is written without a point.
DumpTo(v) ==
    CASE v.kind = "null" -> <<Sign("null")>>
      [] v.kind = "bool" -> <<Sign(IF v.value THEN "true" ELSE "false")>>
      [] v.kind \in {"int64", "uint64"} -> <<NumberToken(v.value, FALSE)>>
      [] v.kind = "double" -> <<NumberToken(v.value, v.half)>>
      [] v.kind = "string" -> <<StringToken(v.value)>>
      [] v.kind = "array" ->
            <<Sign("[")>> \o Joined([i \in DOMAIN v.elements |-> DumpTo(v.elements[i])])
              \o <<Sign("]")>>
      [] v.kind = "object" ->
            <<Sign("{")>>
              \o Joined([i \in DOMAIN v.members |->
                           <<StringToken(v.members[i].key), Sign(":")>>
                             \o DumpTo(v.members[i].value)])
              \o <<Sign("}")>>

----------------------------------------------------------------------------
(* Parsing. Operators return where they stand and what they read.          *)

NoValue == [ok |-> FALSE]
Ok(pos, v) == [ok |-> TRUE, pos |-> pos, value |-> v]

\* skip_ws.
SkipWs(in, pos) ==
    CHOOSE p \in pos..(Len(in) + 1) :
        /\ \A i \in pos..(p - 1) : in[i].t = "ws"
        /\ p <= Len(in) => in[p].t # "ws"

Is(in, pos, sign) == pos <= Len(in) /\ in[pos].t = sign

\* parse_number: the first of int64, uint64 and double it fits.
ParsedNumber(token) ==
    IF token.point THEN Double(token.n, TRUE)
    ELSE IF token.n \in (-MaxInt64 - 1)..MaxInt64 THEN Int64(token.n)
    ELSE IF token.n \in 0..MaxUint64 THEN Uint64(token.n) ELSE Double(token.n, FALSE)

RECURSIVE ParseValue(_, _, _), ParseElements(_, _, _, _), ParseMembers(_, _, _, _)

\* parse_array from its second element on, or its end; array holds what was read.
ParseElements(in, pos, depth, array) ==
    LET element == ParseValue(in, pos, depth) IN
    IF ~element.ok THEN NoValue
    ELSE LET next == SkipWs(in, element.pos)
             longer == Append(array, element.value)
         IN  IF Is(in, next, "]") THEN Ok(next + 1, ArrayOf(longer))
             ELSE IF Is(in, next, ",") THEN ParseElements(in, SkipWs(in, next + 1), depth, longer)
             ELSE NoValue

ParseArray(in, pos, depth) ==
    LET first == SkipWs(in, pos + 1) IN
    IF depth + 1 > MaxDepth THEN NoValue
    ELSE IF Is(in, first, "]") THEN Ok(first + 1, ArrayOf(<<>>))
    ELSE ParseElements(in, first, depth + 1, <<>>)

\* parse_object, a member and those after it.
ParseMembers(in, pos, depth, members) ==
    LET key == SkipWs(in, pos)
        colon == SkipWs(in, key + 1)
    IN  IF ~Is(in, key, "string") THEN NoValue
        ELSE IF ~Is(in, colon, ":") THEN NoValue
        ELSE LET member == ParseValue(in, colon + 1, depth) IN
             IF ~member.ok THEN NoValue
             ELSE LET next == SkipWs(in, member.pos)
                      more == Put(members, in[key].s, member.value)
                  IN  IF Is(in, next, "}") THEN Ok(next + 1, ObjectOf(more))
                      ELSE IF Is(in, next, ",") THEN ParseMembers(in, next + 1, depth, more)
                      ELSE NoValue

ParseObject(in, pos, depth) ==
    LET first == SkipWs(in, pos + 1) IN
    IF depth + 1 > MaxDepth THEN NoValue
    ELSE IF Is(in, first, "}") THEN Ok(first + 1, ObjectOf(<<>>))
    ELSE ParseMembers(in, first, depth + 1, <<>>)

\* parse_value.
ParseValue(in, pos, depth) ==
    LET at == SkipWs(in, pos) IN
    IF at > Len(in) THEN NoValue
    ELSE CASE in[at].t = "null" -> Ok(at + 1, Null)
           [] in[at].t \in {"true", "false"} -> Ok(at + 1, Bool(in[at].t = "true"))
           [] in[at].t = "string" -> Ok(at + 1, Text(in[at].s))
           [] in[at].t = "number" -> Ok(at + 1, ParsedNumber(in[at]))
           [] in[at].t = "[" -> ParseArray(in, at, depth)
           [] in[at].t = "{" -> ParseObject(in, at, depth)
           [] OTHER -> NoValue

\* parse: one value and nothing after it.
Parse(in) ==
    LET v == ParseValue(in, 1, 0) IN
    IF ~v.ok THEN NoValue
    ELSE IF SkipWs(in, v.pos) # Len(in) + 1 THEN NoValue ELSE v

----------------------------------------------------------------------------

JsonInit ==
    /\ value \in Written
    /\ text = <<>> /\ edits = "none" /\ parsed = {}

Dump ==
    /\ text = <<>>
    /\ text' = DumpTo(value)
    /\ UNCHANGED <<value, edits, parsed>>

\* What is read while it is written.
Truncate ==
    /\ text # <<>> /\ edits = "none" /\ parsed = {}
    /\ \E n \in 1..(Len(text) - 1) : text' = SubSeq(text, 1, n)
    /\ edits' = "cut"
    /\ UNCHANGED <<value, parsed>>

Edit ==
    /\ text # <<>> /\ edits = "none" /\ parsed = {}
    /\ \/ \E i \in 1..(Len(text) + 1), token \in Inserted : text' = InsertAt(text, i, token)
       \/ \E i \in DOMAIN text, token \in Inserted : text' = [text EXCEPT ![i] = token]
       \/ \E i \in DOMAIN text : Len(text) > 1 /\ text' = RemoveAt(text, i)
       \/ \E i, j \in DOMAIN text : i < j /\ text' = [text EXCEPT ![i] = text[j], ![j] = text[i]]
    /\ edits' = "some"
    /\ UNCHANGED <<value, parsed>>

Read ==
    /\ text # <<>> /\ parsed = {}
    /\ parsed' = {Parse(text)}
    /\ UNCHANGED <<value, text, edits>>

JsonNext == Dump \/ Truncate \/ Edit \/ Read

JsonSpec == JsonInit /\ [][JsonNext]_jsonVars

----------------------------------------------------------------------------
(* Properties *)

\* The texts of JSON, by what they are: a value is a scalar, or bracketed values with
\* commas between them.
RECURSIVE IsValue(_, _), AreElements(_, _), AreMembers(_, _)
IsValue(in, depth) ==
    \/ Len(in) = 1 /\ in[1].t \in {"null", "true", "false", "string", "number"}
    \/ /\ Len(in) >= 2 /\ depth > 0
       /\ LET inner == SubSeq(in, 2, Len(in) - 1) IN
          \/ in[1].t = "[" /\ Last(in).t = "]" /\ (inner = <<>> \/ AreElements(inner, depth - 1))
          \/ in[1].t = "{" /\ Last(in).t = "}" /\ (inner = <<>> \/ AreMembers(inner, depth - 1))
AreElements(in, depth) ==
    \/ IsValue(in, depth)
    \/ \E i \in DOMAIN in : /\ in[i].t = "," /\ IsValue(SubSeq(in, 1, i - 1), depth)
                            /\ AreElements(SubSeq(in, i + 1, Len(in)), depth)
IsMember(in, depth) ==
    Len(in) > 2 /\ in[1].t = "string" /\ in[2].t = ":" /\ IsValue(SubSeq(in, 3, Len(in)), depth)
AreMembers(in, depth) ==
    \/ IsMember(in, depth)
    \/ \E i \in DOMAIN in : /\ in[i].t = "," /\ IsMember(SubSeq(in, 1, i - 1), depth)
                            /\ AreMembers(SubSeq(in, i + 1, Len(in)), depth)

Tokens(in) == SelectSeq(in, LAMBDA token : token.t # "ws")

RECURSIVE Same(_, _)
\* Two values that no reader can tell apart but by the type of a number.
Same(v, w) ==
    CASE v.kind \in {"int64", "uint64", "double"} ->
            w.kind \in {"int64", "uint64", "double"} /\ AsDouble(v) = AsDouble(w)
      [] v.kind = "array" ->
            /\ w.kind = "array" /\ Len(v.elements) = Len(w.elements)
            /\ \A i \in DOMAIN v.elements : Same(v.elements[i], w.elements[i])
      [] v.kind = "object" ->
            /\ w.kind = "object" /\ Len(v.members) = Len(w.members)
            /\ \A i \in DOMAIN v.members : /\ v.members[i].key = w.members[i].key
                                           /\ Same(v.members[i].value, w.members[i].value)
      [] OTHER -> v = w

\* Where the members of the outermost object have their keys.
TopKeys(in) ==
    {i \in DOMAIN in :
        /\ in[i].t = "string" /\ i < Len(in) /\ in[i + 1].t = ":"
        /\ Cardinality({j \in 1..i : in[j].t \in {"{", "["}})
             - Cardinality({j \in 1..i : in[j].t \in {"}", "]"}}) = 1}

\* What was written is read as it was; what is read is a text of JSON, whatever happened
\* to it, and every such text not nested too deep is; a file that is read while it is
\* written is refused, so that a reload keeps the policy in force; and of a key that
\* comes twice the last value counts, once.
JsonTruthful ==
    \A result \in parsed :
        /\ result.ok <=> IsValue(Tokens(text), MaxDepth)
        /\ edits = "none" /\ result.ok => Same(value, result.value)
        /\ edits = "cut" => ~result.ok
        /\ result.ok => Same(Parse(DumpTo(result.value)).value, result.value)
        /\ (result.ok /\ result.value.kind = "object") =>
              LET in == Tokens(text) IN
              /\ \A i \in TopKeys(in) :
                    (\A j \in TopKeys(in) : in[j].s = in[i].s => j <= i) =>
                        Find(result.value, in[i].s) = {ParseValue(in, i + 2, 1).value}
              /\ Len(result.value.members) = Cardinality({in[i].s : i \in TopKeys(in)})
=============================================================================
