------------------------------ MODULE JsonPath ------------------------------
(***************************************************************************)
(* pcl_json_compile and pcl_json_freepath (src/json): the text of a path   *)
(* becomes a list of steps.  The text is a sequence of tokens: punctuation,*)
(* numbers and pieces of names.  A step is one block and, for a member and *)
(* a list of indexes, a second one; every error frees what was built.  The *)
(* texts are written from the steps they mean.                             *)
(***************************************************************************)
EXTENDS Integers, Sequences, FiniteSets, SequencesExt

CONSTANTS
  Nil,           \* the end of the text, no bad end, and NULL
  Number,        \* function from the number tokens to their values
  Piece,         \* the tokens that names are made of
  StepLists,     \* lists of steps a text is written from
  BadEnds        \* texts that are no step

VARIABLES
  meant, bad,    \* the steps the text stands for, and the bad text after them
  input,         \* the text not yet read
  path,          \* the steps compiled, the root first
  indexes,       \* the vector of a list being read, or NULL
  blocks,        \* blocks allocated
  result         \* "start", "more", "done" or "error" (NULL was returned)

Token == {"$", ".", "[", "]", "*", "'", ":", ","} \cup DOMAIN Number \cup Piece

pathVars == <<meant, bad, input, path, indexes, blocks, result>>

Tok(i) == IF i <= Len(input) THEN input[i] ELSE Nil
IsInt(i) == Tok(i) \in DOMAIN Number
Rest(n) == SubSeq(input, n + 1, Len(input))

root == [type |-> "root"]
BlocksOf(p) == Len(p) + Cardinality({i \in DOMAIN p : p[i].type \in {"member", "list"}})

-----------------------------------------------------------------------------
\* The next step is complete after n tokens.
Compiled(step, n) ==
  /\ path' = Append(path, step)
  /\ blocks' = blocks + BlocksOf(<<step>>)
  /\ input' = Rest(n)
  /\ UNCHANGED <<indexes, result>>

\* An error frees the step and the vector of an unfinished list, and the path.
FreesStep == IF indexes = Nil THEN 0 ELSE 1
Held == IF indexes = Nil THEN 0 ELSE 2
Refused ==
  /\ blocks' = blocks - Held - BlocksOf(path)
  /\ result' = "error"
  /\ indexes' = Nil /\ path' = <<>>
  /\ UNCHANGED input

Start ==
  /\ result = "start"
  /\ IF Tok(1) = "$" /\ Tok(2) \in {".", "["}
     THEN /\ path' = <<root>> /\ blocks' = 1 /\ input' = Rest(1) /\ result' = "more"
          /\ UNCHANGED indexes
     ELSE Refused

\* ".." keeps its second dot for the step after it.  A name reaches to the
\* next dot or bracket.
NameEnd == LET i == SelectInSubSeq(input, 2, Len(input), LAMBDA c : c \in {".", "["})
           IN IF i = 0 THEN Len(input) + 1 ELSE i
Dotted ==
  /\ Tok(1) = "."
  /\ \/ Tok(2) = "." /\ Compiled([type |-> "descent"], 1)
     \/ Tok(2) = "*" /\ Compiled([type |-> "anyMember"], 2)
     \/ /\ Tok(2) \notin {".", "*"} /\ NameEnd > 2
        /\ Compiled([type |-> "member", member |-> SubSeq(input, 2, NameEnd - 1)], NameEnd - 1)
     \/ Tok(2) # "." /\ NameEnd = 2 /\ Refused

AnyElement ==
  Tok(2) = "*" /\ Tok(3) = "]" /\ Compiled([type |-> "anyElement"], 3)

\* A quoted name reaches to the first quote with a bracket after it.
Closings == {i \in 3 .. Len(input) : Tok(i) = "'" /\ Tok(i + 1) = "]"}
Quoted ==
  /\ Tok(2) = "'"
  /\ LET end == CHOOSE i \in Closings : \A k \in Closings : i <= k
         name == SubSeq(input, 3, end - 1) IN
     \/ Closings = {} /\ Refused
     \/ Closings # {} /\ name = <<"*">> /\ Compiled([type |-> "anyMember"], end + 1)
     \/ Closings # {} /\ name # <<"*">> /\ Compiled([type |-> "member", member |-> name], end + 1)

\* A slice from its first colon, at i: the end may be left out before one of
\* "omits", the step always.
Sliced(start, i, omits) ==
  LET e == IF IsInt(i + 1) THEN i + 2 ELSE i + 1
      c == IF Tok(e) = ":" THEN e + 2 ELSE e
      ok == /\ IsInt(i + 1) \/ Tok(i + 1) \in omits
            /\ Tok(e) = ":" => IsInt(e + 1)
            /\ Tok(c) = "]" IN
  \/ ~ok /\ Refused
  \/ ok /\ Compiled([type |-> "slice", start |-> start,
                     end |-> IF IsInt(i + 1) THEN Number[Tok(i + 1)] ELSE 0,
                     step |-> IF Tok(e) = ":" THEN Number[Tok(e + 1)] ELSE 1], c)

Subscript ==
  LET index == Number[Tok(2)] IN
  /\ Tok(2) \notin {"'", ":"} /\ ~(Tok(2) = "*" /\ Tok(3) = "]")
  /\ \/ ~IsInt(2) /\ Refused
     \/ IsInt(2) /\ Tok(3) \notin {",", ":", "]"} /\ Refused
     \/ IsInt(2) /\ Tok(3) = "]" /\ Compiled([type |-> "element", index |-> index], 3)
     \/ IsInt(2) /\ Tok(3) = ":" /\ Sliced(index, 3, {":", "]"})
     \/ /\ IsInt(2) /\ Tok(3) = ","
        /\ indexes' = <<index>>
        /\ blocks' = blocks + 2
        /\ input' = Rest(2)
        /\ UNCHANGED <<path, result>>

\* One round of the loop over the indexes of a list.
ListStep ==
  \/ /\ Tok(1) = "]"
     /\ path' = Append(path, [type |-> "list", list |-> indexes])
     /\ indexes' = Nil /\ input' = Rest(1)
     /\ UNCHANGED <<blocks, result>>
  \/ /\ Tok(1) # "]" /\ IsInt(2) /\ Tok(3) \in {",", "]"}
     /\ indexes' = Append(indexes, Number[Tok(2)])
     /\ input' = Rest(2)
     /\ UNCHANGED <<path, blocks, result>>
  \/ Tok(1) # "]" /\ ~(IsInt(2) /\ Tok(3) \in {",", "]"}) /\ Refused

Bracketed ==
  /\ Tok(1) = "["
  /\ AnyElement \/ Quoted \/ (Tok(2) = ":" /\ Sliced(0, 2, {":"})) \/ Subscript

\* A second "$", and anything that begins no step.
NoStep == input # <<>> /\ Tok(1) \notin {".", "["} /\ Refused

Finish ==
  /\ input = <<>>
  /\ result' = "done"
  /\ UNCHANGED <<input, path, indexes, blocks>>

\* pcl_json_freepath, by the program or at the end of pcl_json_query.
Freepath ==
  /\ result = "done" /\ path # <<>>
  /\ blocks' = blocks - BlocksOf(path)
  /\ path' = <<>> /\ result' = "freed"
  /\ UNCHANGED <<input, indexes>>

CompileStep ==
  /\ \/ Start
     \/ result = "more" /\ indexes = Nil /\ (Dotted \/ Bracketed \/ NoStep \/ Finish)
     \/ result = "more" /\ indexes # Nil /\ ListStep
     \/ Freepath
  /\ UNCHANGED <<meant, bad>>

-----------------------------------------------------------------------------
\* The steps of a path.
Step ==
  [type : {"descent", "anyMember", "anyElement"}]
  \cup [type : {"member"}, member : Seq(Token)]
  \cup [type : {"element"}, index : Int]
  \cup [type : {"list"}, list : Seq(Int)]
  \cup [type : {"slice"}, start : Int, end : Int, step : Int]

\* The ways to write a step before the text "after" it: a name with a dot or
\* a bracket is quoted, and what follows a name after a dot begins with one.
Digits(n) == {t \in DOMAIN Number : Number[t] = n}
Plain(name) ==
  name # <<>> /\ name[1] # "*" /\ \A i \in DOMAIN name : name[i] \notin {".", "["}
Quotable(name) ==
  name # <<"*">> /\ \A i \in 2 .. Len(name) : ~(name[i - 1] = "'" /\ name[i] = "]")
Joins(after) == after = <<>> \/ after[1] \in {".", "["}
InBrackets(inner) == {<<"[">> \o s \o <<"]">> : s \in inner}

\* Two numbers or more, with commas between them.
Numbers(list) ==
  {s \in [1 .. 2 * Len(list) - 1 -> DOMAIN Number \cup {","}] :
     /\ Len(list) > 1
     /\ \A i \in DOMAIN list : s[2 * i - 1] \in Digits(list[i])
     /\ \A i \in 1 .. Len(list) - 1 : s[2 * i] = ","}

\* A slice leaves out a start or an end of 0 and a step of 1, but not all.
Omitted(n, k) == {<<d>> : d \in Digits(n)} \cup (IF n = k THEN {<<>>} ELSE {})
Steps(n) == {<<":">> \o <<d>> : d \in Digits(n)} \cup (IF n = 1 THEN {<<>>} ELSE {})
Slices(s) ==
  {b \o <<":">> \o e \o d :
     b \in Omitted(s.start, 0), e \in Omitted(s.end, 0), d \in Steps(s.step)} \ {<<":">>}

Forms(s, after) ==
  CASE s.type = "descent" -> IF after # <<>> /\ after[1] = "." THEN {<<".">>} ELSE {}
    [] s.type = "member" ->
         (IF Quotable(s.member) THEN InBrackets({<<"'">> \o s.member \o <<"'">>}) ELSE {})
         \cup IF Plain(s.member) /\ Joins(after) THEN {<<".">> \o s.member} ELSE {}
    [] s.type = "anyMember" -> {<<".", "*">>, <<"[", "'", "*", "'", "]">>}
    [] s.type = "anyElement" -> {<<"[", "*", "]">>}
    [] s.type = "element" -> InBrackets({<<d>> : d \in Digits(s.index)})
    [] s.type = "list" -> InBrackets(Numbers(s.list))
    [] s.type = "slice" -> InBrackets(Slices(s))

\* The texts of a list of steps before the text "end", from each step on.
StepTexts(s, afters) == UNION {{form \o after : form \in Forms(s, after)} : after \in afters}
TextsFrom(list, end) ==
  LET From[i \in 1 .. Len(list) + 1] ==
        IF i > Len(list) THEN {end} ELSE StepTexts(list[i], From[i + 1])
  IN From
End(text) == IF text = Nil THEN <<>> ELSE text
PathTexts(list, text) == TextsFrom(list, End(text))[1]

JsonPathInit ==
  /\ meant \in StepLists /\ bad \in BadEnds \cup {Nil}
  /\ \E t \in PathTexts(meant, bad) : input = <<"$">> \o t
  /\ path = <<>> /\ indexes = Nil /\ blocks = 0 /\ result = "start"
JsonPathSpec == JsonPathInit /\ [][CompileStep]_pathVars

\* The theorem assumes of the constants: number tokens are not punctuation, and
\* a bad end makes no text of steps, after whatever steps it stands.
PathAssumption ==
  /\ Nil \notin Token /\ Nil \notin BadEnds /\ Nil \notin Seq(Int)
  /\ Number \in [DOMAIN Number -> Int]
  /\ DOMAIN Number \cap {"$", ".", "[", "]", "*", "'", ":", ","} = {}
  /\ StepLists \subseteq Seq(Step) /\ BadEnds \subseteq Seq(Token)
EndsMeanNothing(lists) ==
  LET texts == UNION {PathTexts(k, Nil) : k \in lists}
  IN \A l \in StepLists, end \in BadEnds : PathTexts(l, end) \cap texts = {}

\* However its steps are written, a path compiles to those steps; a text that
\* is none gives NULL, and then, as after pcl_json_freepath, nothing that was
\* allocated on the way is left (json_compile.c, json_freepath.c).
PathsExact ==
  /\ result = "done" => Tail(path) = meant /\ bad = Nil /\ meant # <<>>
  /\ result = "error" => bad # Nil \/ meant = <<>>
  /\ result \in {"error", "freed"} => blocks = 0
=============================================================================
