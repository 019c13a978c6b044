------------------------------ MODULE MC_Json ------------------------------
(* JSON values and texts, the text of a path, or a string in a text: kinds *)
(* of MC_Objects.  Texts end early, repeat a key or contain a bad string;  *)
(* paths and strings are written in every way, and broken in most.         *)
EXTENDS JsonText, JsonPath, TLC

CONSTANTS a1, a2, a3,
          Planes   \* TRUE: strings have code points of every plane

VARIABLES which, out, checked, parsed

SomeAddr == {a1, a2, a3}
SomeDocs == {
  <<"{", "k", ":", "true", ",", "k", ":", "k", "}">>,
  <<"{", "k", ":", "[", "{", "k", ":", "badString">>,
  <<"[", "[", "real", "]", ",", "{", "k", ":", "null", ",">>,
  <<"[", "false", ",", "{", "badString">>,
  <<"[", "k", "junk">>,
  <<"[", "k", "]">>,
  <<"{", "k", ":">>,
  <<"[", "true", ",", "junk">>,
  <<"{", "k", ":", "k", ",", "k", "badString">>,
  <<"[", "true", ",", "{">>,
  <<"{", "k", ":", "badString">>}

step(type) == [type |-> type]
member(k) == [type |-> "member", member |-> k]
element(i) == [type |-> "element", index |-> i]
indices(s) == [type |-> "list", list |-> s]
slice(start, end, by) == [type |-> "slice", start |-> start, end |-> end, step |-> by]
SomePaths == {
  <<root, step("descent"), member("k"), step("anyElement")>>,
  <<root, indices(<<1, 1>>)>>,
  <<root, element(0), step("anyMember")>>,
  <<root, slice(-1, 0, 1)>>}

\* Every kind of step, alone and before every other; a name with a dot in it.
NumberTokens == "0" :> 0 @@ "1" :> 1 @@ "-1" :> -1
SomeSteps == {member(<<"n">>), member(<<"n", ".", "1">>), step("descent"),
          step("anyMember"), step("anyElement"), element(-1),
          indices(<<1, 0>>), indices(<<0, 1, -1>>), slice(0, 1, 1), slice(-1, 0, 1),
          slice(1, -1, 0), slice(0, 0, -1), slice(0, 0, 1)}
SomeLists == {<<>>} \cup {<<s>> : s \in SomeSteps} \cup {<<s, t>> : s, t \in SomeSteps}
             \cup {<<step("descent"), step("descent"), member(<<"n">>)>>}
Pieces == {"n", "1", "."}
BadPaths == {
  <<"$">>, <<".">>, <<".", ".">>, <<".", "[">>, <<"*">>, <<"[">>, <<"[", "]">>,
  <<"[", "1">>, <<"[", "1", "1">>, <<"[", "*">>, <<"[", "'", "n">>,
  <<"[", "1", ",">>, <<"[", "1", ",", "]">>, <<"[", "1", ",", "0", ":">>,
  <<"[", ":", "]">>, <<"[", ":", "1">>, <<"[", ":", ":", "]">>,
  <<"[", "1", ":", "1">>, <<"[", "1", ":", "'">>}

\* Code points at the ends of the rows of utf8_check.c's table, and those that
\* are escaped; escapes that are broken, halves of pairs, and wrong bytes.
Points == {1, 10, 34, 47, 65, 92, 127, 128, 2047, 2048, 55295, 57344, 65535,
           65536, 262143} \cup (IF Planes THEN {262144, 1114111} ELSE {})
Strings == {<<>>} \cup {<<c>> : c \in Points}
           \cup {<<65, c>> : c \in Points} \cup {<<c, 65>> : c \in Points}
u == <<92, 117>>
high == u \o <<100, 56, 48, 48>>
low == u \o <<100, 99, 48, 48>>
BadBytes == {
  <<92>>, <<92, 97>>, u \o <<48>>, u \o <<48, 48, 48, 122>>, high, low,
  u \o <<45, 48, 52, 49>>, u \o <<48, 48, 48, 120>>, u \o <<32, 32, 32, 32>>,
  u \o <<43, 45, 52, 49>>, u \o <<32, 52, 49, 32>>, high \o u \o <<45, 99, 48, 48>>,
  high \o <<65>>, high \o <<92, 110>>, high \o high, high \o u \o <<48, 48, 52, 49>>,
  <<128>>, <<192, 128>>, <<193, 191>>, <<194>>, <<194, 192>>, <<224, 159, 191>>,
  <<224, 160>>, <<224, 160, 192>>, <<237, 160, 128>>, <<240, 143, 191, 191>>,
  <<240, 144, 128>>, <<240, 144, 128, 192>>, <<244, 144, 128, 128>>,
  <<245, 128, 128, 128>>, <<255>>}
BadStrings == {b \o <<34>> : b \in BadBytes} \cup {<<>>, <<65>>, <<92>>, u \o <<48>>}

Chars == INSTANCE JsonString WITH NULL <- Nil, BadEnds <- BadStrings, result <- parsed

ASSUME ConstantsOfPaths == PathAssumption /\ EndsMeanNothing(StepLists)

byteVars == <<out, checked, parsed>>
textVars == <<pathVars, byteVars>>

\* The variables of a kind that is not the chosen one.
NoPath == path = <<>> /\ indexes = Nil /\ blocks = 0 /\ result = Nil
NoBytes == out = <<>> /\ checked = 0 /\ parsed = Nil
NoText == meant = <<>> /\ bad = Nil /\ input = <<>> /\ NoPath /\ NoBytes

KindInit ==
  /\ JsonInit
  /\ \/ which = "json" /\ NoText
     \/ which = "path" /\ JsonPathInit /\ NoBytes
     \/ which = "string" /\ Chars!JsonStringInit /\ NoPath

KindNext ==
  \/ which = "json" /\ JsonNext /\ UNCHANGED <<which, textVars>>
  \/ which = "path" /\ CompileStep /\ UNCHANGED <<which, jsonVars, byteVars>>
  \/ which = "string" /\ Chars!ParseString /\ UNCHANGED <<which, jsonVars, path, indexes, blocks, result>>

\* See JsonString.
StringsParsed == which = "string" => Chars!StringsParsed
TableAccepted == which = "string" => Chars!TableAccepted
=============================================================================
