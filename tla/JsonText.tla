------------------------------ MODULE JsonText ------------------------------
(***************************************************************************)
(* pcl_json_decode and pcl_json_encode over the values of JsonValues.  A   *)
(* text is a sequence of tokens: punctuation, literals, "int" and "real"   *)
(* numbers, and strings (a text of Key, or "badString").  The parser is a  *)
(* recursive descent: "stack" holds its unfinished arrays and objects, and *)
(* any error frees all of them on the way out.  White space and the values *)
(* of numbers and strings are abstract, and so is the scratch buffer of    *)
(* ipcl_json_parse_string, which becomes the string (and is never freed if *)
(* the string has a wrong escape or is not UTF-8).                         *)
(***************************************************************************)
EXTENDS JsonValues

CONSTANTS
  Docs           \* texts the program decodes

VARIABLE dec     \* the parser

jsonVars == <<valueVars, dec>>

Idle == [phase |-> "idle", stack |-> <<>>, input |-> <<>>, val |-> Nothing,
         source |-> Nothing]

Top == Last(dec.stack)
InObject == dec.stack # <<>> /\ values[Top.val].type = "object"
Next1 == dec.input[1]
Skip(n) == SubSeq(dec.input, n + 1, Len(dec.input))
Ended == dec.input = <<>>

-----------------------------------------------------------------------------
\* What pcl_json_encode writes for v: numbers by "%1.15g", so that a real
\* number without a fraction is written as an integer is.
NumberToken(type) == IF type = "real" THEN "real" ELSE "int"
SomeText == CHOOSE k \in Name : TRUE

Separated(parts) == FlattenSeq([i \in 1 .. Len(parts) |->
  IF i < Len(parts) THEN parts[i] \o <<",">> ELSE parts[i]])

Encode(v) ==
  LET E[w \in Value] ==
        LET kids == values[w].kids IN
        CASE w \in Singleton -> <<w>>
          [] values[w].type = "string" -> <<SomeText>>
          [] values[w].type = "array" ->
               <<"[">> \o Separated([i \in 1 .. Len(kids) |-> E[kids[i].val]]) \o <<"]">>
          [] values[w].type = "object" ->
               <<"{">> \o Separated([i \in 1 .. Len(kids) |->
                  <<kids[i].key, ":">> \o E[kids[i].val]]) \o <<"}">>
          [] OTHER -> <<NumberToken(values[w].type)>>
  IN E[v]

\* The form of a value: its types, keys and order, with a real number without
\* a fraction counted as an integer.
Form(v) ==
  LET F[w \in Value] == <<IF values[w].type = "whole" THEN "int" ELSE values[w].type,
        [i \in 1 .. Len(values[w].kids) |-> <<values[w].kids[i].key, F[values[w].kids[i].val]>>]>>
  IN F[v]

\* Bounds: a text is decoded only if the blocks it needs are there, and an
\* encoded one after the program has freed the value, its last.
IsKey(text, i) == text[i] \in Name /\ i < Len(text) /\ text[i + 1] = ":"
Needs(text) == Cardinality({i \in 1 .. Len(text) :
  text[i] \in {"{", "[", "int", "real"} \cup Name /\ ~IsKey(text, i)})

Decode(text) ==
  /\ Needs(text) <= Cardinality(Addr \ Blocks) /\ results = Nothing
  /\ dec' = [Idle EXCEPT !.phase = "value", !.input = text]
  /\ UNCHANGED valueVars

EncodeFreeDecode(v) ==
  /\ results = Nothing /\ \A w \in Addr \ {v} : own[w] = 0
  /\ Needs(Encode(v)) <= Cardinality(Addr)
  /\ dec' = [Idle EXCEPT !.phase = "value", !.input = Encode(v), !.source = Form(v)]
  /\ FreeValue(v)

-----------------------------------------------------------------------------
\* Every function of the parser returns NULL: Unwind frees what they hold.
Fail == dec' = [dec EXCEPT !.phase = "failing"]
Deliver(v, n) == dec' = [dec EXCEPT !.phase = "deliver", !.val = v, !.input = Skip(n)]
Alloc(type) == HasRoom /\ values' = With(Fresh, Made(type))
NoAlloc == UNCHANGED <<values, strings>>

Opened(phase) == dec' = [dec EXCEPT !.phase = phase, !.input = Skip(1),
  !.stack = Append(@, [val |-> Fresh, key |-> Nothing])]

\* ipcl_json_parse_object up to its first key: it allocates nothing if the
\* text ends after the brace.
ParseObject ==
  /\ Next1 = "{"
  /\ IF Len(dec.input) = 1 THEN Fail /\ NoAlloc
     ELSE /\ Alloc("object") /\ UNCHANGED strings
          /\ IF dec.input[2] = "}" THEN Deliver(Fresh, 2) ELSE Opened("key")

ParseArray ==
  /\ Next1 = "["
  /\ Alloc("array") /\ UNCHANGED strings
  /\ IF Len(dec.input) > 1 /\ dec.input[2] = "]" THEN Deliver(Fresh, 2)
     ELSE Opened("value")

ParseString ==
  \/ /\ Next1 \in Name
     /\ Alloc("string") /\ strings' = strings + 1
     /\ Deliver(Fresh, 1)
  \/ Next1 = "badString" /\ Fail /\ NoAlloc

\* A number that ends with the text is refused.
ParseNumber ==
  /\ Next1 \in {"int", "real"}
  /\ IF Len(dec.input) = 1 THEN Fail /\ NoAlloc
     ELSE Alloc(Next1) /\ UNCHANGED strings /\ Deliver(Fresh, 1)

ParseLiteral ==
  /\ Next1 \in Singleton
  /\ Deliver(Next1, 1)
  /\ NoAlloc

NoValue ==
  /\ Next1 \notin {"{", "[", "int", "real", "badString"}
                  \cup Name \cup Singleton
  /\ Fail /\ NoAlloc

EndOfText == Ended /\ Fail /\ NoAlloc

ParseValue ==
  /\ dec.phase = "value"
  /\ \/ EndOfText
     \/ ~Ended /\ (ParseObject \/ ParseArray \/ ParseString \/ ParseNumber
                   \/ ParseLiteral \/ NoValue)
  /\ UNCHANGED <<own, results, todo>>

\* ipcl_json_parse_object at a key: the key is freed if no colon follows.
ParseKey ==
  /\ dec.phase = "key"
  /\ IF Next1 \notin Name THEN Fail /\ UNCHANGED strings
     ELSE IF Len(dec.input) = 1 \/ dec.input[2] # ":" THEN Fail /\ UNCHANGED strings
     ELSE /\ strings' = strings + 1
          /\ dec' = [dec EXCEPT !.phase = "value", !.input = Skip(2),
               !.stack[Len(dec.stack)].key = Next1]
  /\ UNCHANGED <<values, own, results, todo>>

\* A value is complete: it is the result, or goes into the array or object
\* being parsed.  A second value for a key is freed and the parse fails.
KeepsValue == UNCHANGED todo
FreesValue == todo' = FreeOnError(dec.val)

ReturnValue ==
  /\ dec.phase = "deliver"
  /\ \/ /\ dec.stack = <<>>
        /\ dec' = Idle
        /\ own' = IF dec.val \in Addr THEN [own EXCEPT ![dec.val] = @ + 1] ELSE own
        /\ UNCHANGED <<values, todo>>
     \/ /\ InObject /\ Top.key \in NamesOf(Top.val)
        /\ FreesValue
        /\ dec' = [dec EXCEPT !.phase = "failing", !.val = Nothing]
        /\ UNCHANGED <<values, own>>
     \/ /\ dec.stack # <<>> /\ ~(InObject /\ Top.key \in NamesOf(Top.val))
        /\ values' = AddKid(values, Top.val, Top.key, dec.val)
        /\ dec' = [dec EXCEPT !.phase = "after", !.val = Nothing,
             !.stack[Len(dec.stack)].key = Nothing]
        /\ UNCHANGED <<own, todo>>
  /\ UNCHANGED <<results, strings>>

\* After an element: the closing bracket, or a comma and the next element.
ClosingToken == IF InObject THEN "}" ELSE "]"

ParseAfter ==
  /\ dec.phase = "after"
  /\ \/ /\ ~Ended /\ Next1 = ClosingToken
        /\ dec' = [dec EXCEPT !.phase = "deliver", !.val = Top.val,
             !.stack = Front(@), !.input = Skip(1)]
     \/ /\ Len(dec.input) > 1 /\ Next1 = ","
        /\ dec' = [dec EXCEPT !.phase = IF InObject THEN "key" ELSE "value",
             !.input = Skip(1)]
     \/ /\ Ended \/ (Next1 # ClosingToken /\ (Next1 # "," \/ Len(dec.input) = 1))
        /\ Fail
  /\ UNCHANGED valueVars

\* The innermost unfinished function frees its array or object, and the key
\* it holds, and returns NULL to the one that called it.
LeaksKey(frame) == 0
HeldKey(frame) == IF frame.key = Nothing THEN 0 ELSE 1

Unwind ==
  /\ dec.phase = "failing"
  /\ \/ /\ dec.stack = <<>>
        /\ dec' = Idle
        /\ UNCHANGED <<todo, strings>>
     \/ /\ dec.stack # <<>>
        /\ todo' = Releases(<<Top.val>>)
        /\ strings' = strings - HeldKey(Top)
        /\ dec' = [dec EXCEPT !.stack = Front(@)]
  /\ UNCHANGED <<values, own, results>>

Parser == todo = <<>> /\ (ParseValue \/ ParseKey \/ ReturnValue \/ ParseAfter \/ Unwind)

Program ==
  /\ todo = <<>> /\ dec = Idle
  /\ \/ Operation /\ UNCHANGED dec
     \/ \E text \in Docs : Decode(text)
     \/ \E v \in Given : EncodeFreeDecode(v)

Walking == WalkStep /\ UNCHANGED dec
Freeing == FreeStep /\ UNCHANGED dec
JsonNext == Program \/ Parser \/ Walking \/ Freeing

JsonInit == ValuesInit /\ dec = Idle
JsonSpec == JsonInit /\ [][JsonNext]_jsonVars

-----------------------------------------------------------------------------
Tokens == {"{", "}", "[", "]", ",", ":", "int", "real", "badString", "junk"} \cup Name \cup Singleton
Types == Leaf \cup Singleton \cup {"object", "array", "string", "int", "real"}

\* Every field has its type.
JsonTypeOK ==
  /\ Singleton \subseteq Value /\ Blocks \subseteq Addr
  /\ \A v \in Value :
       /\ values[v].type \in Types /\ values[v].nrefs \in Nat
       /\ \A e \in Range(values[v].kids) : e.key \in Name \cup {Nothing}
  /\ own \in [Addr -> Nat] /\ strings \in Nat
  /\ dec.phase \in {"idle", "value", "key", "after", "deliver", "failing"}
  /\ dec.input \in Seq(Tokens)

\* The members of the sets of the family S, each as often as it is in one.
Total(S) == Cardinality(UNION {{w} \X S[w] : w \in DOMAIN S})

\* The elements of the values of the heap h that are v.
Elements(h, v) ==
  Total([w \in DOMAIN h |-> {i \in DOMAIN h[w].kids : h[w].kids[i].val = v}])

\* The references to v: the program's, the elements', those of the results
\* of a match, of frees still to be done, and of the parser.
Pending(op, v) == Occurs([op |-> op, val |-> v], todo)
References(v) ==
  own[v] + Elements(values, v) + (IF results = Nothing THEN 0 ELSE Occurs(v, results))
  + Pending("release", v)
  + Cardinality({i \in DOMAIN dec.stack : dec.stack[i].val = v})
  + (IF dec.val = v THEN 1 ELSE 0)

\* A value is allocated as long as, and only as long as, there are references
\* to it, and its count is their number: none dangles and none is lost, on
\* any path through puts that fail, matches, releases and failed decodes
\* (json_objput.c, json_arradd.c, json_free.c, json_match.c and the error
\* paths of json_parse_array.c and json_parse_object.c).  The counts of null,
\* true and false stay zero (tests/json.c:232), so that nothing frees them.
RefsExact ==
  /\ \A v \in Addr :
       IF v \in Value
       THEN values[v].nrefs = References(v) /\ (References(v) > 0 \/ Pending("free", v) = 1)
       ELSE References(v) = 0 /\ Pending("free", v) = 0
  /\ \A v \in Singleton : values[v].nrefs = 0 /\ Pending("free", v) = 0

\* Every string block is a key of an object, the string of a value, or the key
\* the parser holds: none is freed twice and none is lost, on any path
\* (json_objput.c, json_obj.c, json_free.c, json_parse_object.c).
StringsAt(value) ==
  IF value.type = "string" /\ value.nrefs > 0 THEN {1}
  ELSE IF value.type = "object" THEN DOMAIN value.kids ELSE {}
StringsExact ==
  strings = Total([w \in Value |-> StringsAt(values[w])])
            + Cardinality({i \in DOMAIN dec.stack : dec.stack[i].key # Nothing})

\* The value a decode returns for what pcl_json_encode wrote has the form of
\* the value that was encoded; such a decode fails for a bare number only.
RoundTrip ==
  dec.source # Nothing =>
    /\ dec.phase = "failing" => dec.source[1] \in {"int", "real"}
    /\ dec.phase = "deliver" /\ dec.stack = <<>> => Form(dec.val) = dec.source
=============================================================================
