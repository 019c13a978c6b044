--------------------------- MODULE JsonPathProofs ---------------------------
(***************************************************************************)
(* Paths of any steps, written in any way: what pcl_json_compile makes of  *)
(* a text is what the text was written from.                               *)
(*                                                                         *)
(* The argument has two directions.  A form of a step is read as that step *)
(* and to its end, whatever follows it, so a path without an error in it   *)
(* is compiled along the steps it was written from.  What is read and not  *)
(* refused is a form of the step compiled, so the text is a text of these  *)
(* steps, and no text with a bad end is read to its end.                   *)
(***************************************************************************)
EXTENDS JsonPath, Induction, FiniteSetTheorems, SequenceTheorems, TLAPS

\* W is the texts from each step on, of the last k steps at least.
WrittenBelow(W, list, end, k) ==
  /\ W = [i \in 1 .. Len(list) + 1 |-> W[i]]
  /\ W[Len(list) + 1] = {end}
  /\ \A i \in Len(list) + 1 - k .. Len(list) : W[i] = StepTexts(list[i], W[i + 1])
\* W is the texts from each step on.
WrittenBy(W, list, end) ==
  W = [i \in 1 .. Len(list) + 1 |-> IF i > Len(list) THEN {end} ELSE StepTexts(list[i], W[i + 1])]

\* The texts of a list of steps are defined by their recursion: some function
\* satisfies it, built from the last step on.
LEMMA WritingExists ==
  ASSUME NEW X, NEW list \in Seq(X), NEW end
  PROVE  \E W : WrittenBy(W, list, end)
<1> DEFINE n == Len(list)
           S == {k \in Nat : k <= n => \E W : WrittenBelow(W, list, end, k)}
<1>1. n \in Nat
  OBVIOUS
<1>2. 0 \in S
  <2>1. WrittenBelow([i \in 1 .. n + 1 |-> {end}], list, end, 0)
    BY <1>1 DEF WrittenBelow
  <2> QED
    BY <2>1
<1>3. ASSUME NEW k \in Nat, k \in S
      PROVE  k + 1 \in S
  <2> SUFFICES ASSUME k + 1 <= n
               PROVE  \E W : WrittenBelow(W, list, end, k + 1)
    OBVIOUS
  <2>1. PICK W : WrittenBelow(W, list, end, k)
    BY <1>1, <1>3
  <2> DEFINE m == n - k
             V == [i \in 1 .. n + 1 |-> IF i = m THEN StepTexts(list[m], W[m + 1]) ELSE W[i]]
  <2>2. m \in 1 .. n
    BY <1>1
  <2>3. V = [i \in 1 .. n + 1 |-> V[i]]
    OBVIOUS
  <2>4. V[n + 1] = {end}
    <3>1. W[n + 1] = {end}
      BY ONLY <2>1 DEF WrittenBelow
    <3>2. n + 1 \in 1 .. n + 1 /\ n + 1 # m
      BY ONLY <1>1, <2>2
    <3>3. V[n + 1] = W[n + 1]
      BY ONLY <3>2
    <3> QED
      BY ONLY <3>1, <3>3
  <2>5. ASSUME NEW i \in n + 1 - (k + 1) .. n
        PROVE  V[i] = StepTexts(list[i], V[i + 1])
    <3>1. i \in 1 .. n /\ i + 1 \in 1 .. n + 1 /\ i + 1 # m /\ (i # m => i \in n + 1 - k .. n)
      BY <1>1, <2>2
    <3>2. V[i + 1] = W[i + 1]
      BY ONLY <3>1
    <3>3. CASE i = m
      BY ONLY <3>1, <3>2, <3>3
    <3>4. CASE i # m
      <4>1. W[i] = StepTexts(list[i], W[i + 1])
        BY <2>1, <3>1, <3>4 DEF WrittenBelow
      <4>2. V[i] = W[i]
        BY ONLY <3>1, <3>4
      <4> QED
        BY ONLY <3>2, <4>1, <4>2
    <3> QED
      BY ONLY <3>3, <3>4
  <2> HIDE DEF V
  <2> QED
    BY ONLY <2>3, <2>4, <2>5 DEF WrittenBelow
<1> HIDE DEF S
<1>4. n \in S
  BY ONLY <1>1, <1>2, <1>3, NatInductionOn
<1>5. PICK W : WrittenBelow(W, list, end, n)
  BY <1>1, <1>4 DEF S
<1>6. WrittenBy(W, list, end)
  <2>1. \A i \in 1 .. n + 1 : W[i] = IF i > n THEN {end} ELSE StepTexts(list[i], W[i + 1])
    <3>1. W[n + 1] = {end} /\ \A i \in n + 1 - n .. n : W[i] = StepTexts(list[i], W[i + 1])
      BY ONLY <1>5 DEF WrittenBelow
    <3>2. \A i \in 1 .. n + 1 : i \in n + 1 - n .. n \/ (i = n + 1 /\ i > n)
      BY ONLY <1>1
    <3>3. \A i \in n + 1 - n .. n : ~(i > n)
      BY ONLY <1>1
    <3> QED
      BY ONLY <3>1, <3>2, <3>3
  <2>2. W = [i \in 1 .. n + 1 |-> W[i]]
    BY ONLY <1>5 DEF WrittenBelow
  <2> QED
    BY ONLY <2>1, <2>2 DEF WrittenBy
<1> QED
  BY <1>6

\* The text behind the steps, and before each step what writing it adds.
LEMMA TextsStep ==
  ASSUME NEW X, NEW list \in Seq(X), NEW end
  PROVE  /\ TextsFrom(list, end)[Len(list) + 1] = {end}
         /\ \A i \in 1 .. Len(list) :
              TextsFrom(list, end)[i] = StepTexts(list[i], TextsFrom(list, end)[i + 1])
<1>1. PICK V : WrittenBy(V, list, end)
  BY WritingExists
<1>2. PICK W : W = CHOOSE U : WrittenBy(U, list, end)
  OBVIOUS
<1>3. WrittenBy(W, list, end)
  BY ONLY <1>1, <1>2
<1>4. TextsFrom(list, end) = W
  BY ONLY <1>2 DEF TextsFrom, WrittenBy
<1>5. Len(list) \in Nat
  OBVIOUS
<1>6. \A i \in 1 .. Len(list) + 1 : W[i] = IF i > Len(list) THEN {end} ELSE StepTexts(list[i], W[i + 1])
  BY ONLY <1>3 DEF WrittenBy
<1> QED
  BY ONLY <1>4, <1>5, <1>6

-----------------------------------------------------------------------------
(* What is written. *)

\* The punctuation, the numbers and the sequences of one token.
LEMMA TokenFacts ==
  ASSUME PathAssumption
  PROVE  /\ "$" \in Token /\ "." \in Token /\ "[" \in Token /\ "]" \in Token
         /\ "*" \in Token /\ "'" \in Token /\ ":" \in Token /\ "," \in Token
         /\ \A t \in DOMAIN Number : t \in Token /\ Number[t] \in Int
         /\ \A t \in DOMAIN Number : /\ t # "$" /\ t # "." /\ t # "[" /\ t # "]"
                                    /\ t # "*" /\ t # "'" /\ t # ":" /\ t # ","
         /\ Nil \notin Token
         /\ \A t \in Token : <<t>> \in Seq(Token) /\ Len(<<t>>) = 1 /\ <<t>>[1] = t /\ <<t>> # <<>>
         /\ <<>> \in Seq(Token)
<1>1. \A t : t \in {"$", ".", "[", "]", "*", "'", ":", ","} => t \in Token
  BY DEF Token
<1>2. \A t \in DOMAIN Number : t \in Token /\ Number[t] \in Int
  BY DEF PathAssumption, Token
<1>3. \A t \in DOMAIN Number : t \notin {"$", ".", "[", "]", "*", "'", ":", ","}
  BY DEF PathAssumption
<1>4. Nil \notin Token
  BY DEF PathAssumption
<1>5. \A t \in Token : <<t>> \in Seq(Token) /\ Len(<<t>>) = 1 /\ <<t>>[1] = t /\ <<t>> # <<>>
  OBVIOUS
<1>6. <<>> \in Seq(Token)
  OBVIOUS
<1> QED
  BY <1>1, <1>2, <1>3, <1>4, <1>5, <1>6

\* A step is its type and the fields of that type.
LEMMA StepTypes ==
  ASSUME NEW s \in Step
  PROVE  /\ s.type \in {"descent", "member", "anyMember", "anyElement", "element", "list", "slice"}
         /\ s.type \in {"descent", "anyMember", "anyElement"} => s = [type |-> s.type]
         /\ s.type = "member" => s.member \in Seq(Token) /\ s = [type |-> "member", member |-> s.member]
         /\ s.type = "element" => s.index \in Int /\ s = [type |-> "element", index |-> s.index]
         /\ s.type = "list" => s.list \in Seq(Int) /\ s = [type |-> "list", list |-> s.list]
         /\ s.type = "slice" =>
              /\ s.start \in Int /\ s.end \in Int /\ s.step \in Int
              /\ s = [type |-> "slice", start |-> s.start, end |-> s.end, step |-> s.step]
<1>1. CASE s \in [type : {"descent", "anyMember", "anyElement"}]
  BY <1>1
<1>2. CASE s \in [type : {"member"}, member : Seq(Token)]
  BY <1>2
<1>3. CASE s \in [type : {"element"}, index : Int]
  BY <1>3
<1>4. CASE s \in [type : {"list"}, list : Seq(Int)]
  BY <1>4
<1>5. CASE s \in [type : {"slice"}, start : Int, end : Int, step : Int]
  BY <1>5
<1> QED
  BY <1>1, <1>2, <1>3, <1>4, <1>5 DEF Step

\* The tokens of a text in brackets.
LEMMA Bracketing ==
  ASSUME NEW X, NEW x \in Seq(X), "[" \in X, "]" \in X
  PROVE  LET b == <<"[">> \o x \o <<"]">> IN
         /\ b \in Seq(X) /\ Len(b) = Len(x) + 2
         /\ b[1] = "[" /\ \A i \in 1 .. Len(x) : b[i + 1] = x[i]
         /\ b[Len(x) + 2] = "]"
<1>1. <<"[">> \in Seq(X) /\ <<"]">> \in Seq(X) /\ Len(<<"[">>) = 1 /\ Len(<<"]">>) = 1
  OBVIOUS
<1>2. PICK c : c = <<"[">> \o x
  OBVIOUS
<1>3. c \in Seq(X) /\ Len(c) = Len(x) + 1 /\ c[1] = "[" /\ \A i \in 1 .. Len(x) : c[i + 1] = x[i]
  BY <1>1, <1>2
<1> QED
  BY <1>1, <1>2, <1>3

\* The indexes of a list and the commas between them, in their places.
LEMMA NumbersShape ==
  ASSUME PathAssumption, NEW list \in Seq(Int), NEW x \in Numbers(list)
  PROVE  /\ x \in Seq(Token) /\ Len(x) = 2 * Len(list) - 1 /\ Len(list) > 1
         /\ \A i \in 1 .. Len(list) : x[2 * i - 1] \in DOMAIN Number /\ Number[x[2 * i - 1]] = list[i]
         /\ \A i \in 1 .. Len(list) - 1 : x[2 * i] = ","
<1>1. PICK n \in Nat : n = Len(list) /\ DOMAIN list = 1 .. n
  OBVIOUS
<1>2. /\ x \in [1 .. 2 * n - 1 -> DOMAIN Number \cup {","}]
      /\ n > 1
      /\ \A i \in 1 .. n : x[2 * i - 1] \in Digits(list[i])
      /\ \A i \in 1 .. n - 1 : x[2 * i] = ","
  BY <1>1 DEF Numbers
<1>3. 2 * n - 1 \in Nat
  <2>1. n \in Nat /\ n > 1
    BY <1>1, <1>2
  <2> QED
    BY ONLY <2>1
<1>4. \A i \in 1 .. 2 * n - 1 : x[i] \in Token
  BY <1>2, TokenFacts
<1>5. x \in [1 .. 2 * n - 1 -> Token]
  BY ONLY <1>2, <1>4
<1>6. x \in Seq(Token) /\ Len(x) = 2 * n - 1
  BY ONLY <1>3, <1>5
<1>7. \A i \in 1 .. n : x[2 * i - 1] \in DOMAIN Number /\ Number[x[2 * i - 1]] = list[i]
  BY ONLY <1>2 DEF Digits
<1> QED
  BY ONLY <1>1, <1>2, <1>6, <1>7

\* A slice in brackets: its start, if any, a colon, its end and its step, if any.
LEMMA SlicesShape ==
  ASSUME PathAssumption, NEW s, NEW x \in Slices(s)
  PROVE  \E b \in Omitted(s.start, 0), e \in Omitted(s.end, 0), d \in Steps(s.step) :
           x = b \o <<":">> \o e \o d /\ x # <<":">> /\ x \in Seq(Token)
<1>1. PICK b \in Omitted(s.start, 0), e \in Omitted(s.end, 0), d \in Steps(s.step) :
        x = b \o <<":">> \o e \o d /\ x # <<":">>
  BY DEF Slices
<1>3. <<":">> \in Seq(Token) /\ <<>> \in Seq(Token)
  BY TokenFacts
<1>4. \A t \in DOMAIN Number : <<t>> \in Seq(Token) /\ <<":">> \o <<t>> \in Seq(Token)
  <2> TAKE t \in DOMAIN Number
  <2>1. <<t>> \in Seq(Token)
    BY TokenFacts
  <2> QED
    BY <1>3, <2>1
<1>5. \A n, k : Omitted(n, k) \subseteq Seq(Token) /\ Steps(n) \subseteq Seq(Token)
  BY ONLY <1>3, <1>4 DEF Omitted, Steps, Digits
<1>6. b \in Seq(Token) /\ e \in Seq(Token) /\ d \in Seq(Token)
  BY <1>5
<1>7. x \in Seq(Token)
  BY <1>1, <1>3, <1>6
<1> QED
  BY <1>1, <1>7

\* The forms of a step, type by type.
LEMMA FormsBy ==
  ASSUME NEW s, NEW after
  PROVE  /\ s.type = "descent" => Forms(s, after) = IF after # <<>> /\ after[1] = "." THEN {<<".">>} ELSE {}
         /\ s.type = "member" => Forms(s, after) =
              (IF Quotable(s.member) THEN InBrackets({<<"'">> \o s.member \o <<"'">>}) ELSE {})
              \cup IF Plain(s.member) /\ Joins(after) THEN {<<".">> \o s.member} ELSE {}
         /\ s.type = "anyMember" => Forms(s, after) = {<<".", "*">>, <<"[", "'", "*", "'", "]">>}
         /\ s.type = "anyElement" => Forms(s, after) = {<<"[", "*", "]">>}
         /\ s.type = "element" => Forms(s, after) = InBrackets({<<d>> : d \in Digits(s.index)})
         /\ s.type = "list" => Forms(s, after) = InBrackets(Numbers(s.list))
         /\ s.type = "slice" => Forms(s, after) = InBrackets(Slices(s))
BY DEF Forms

\* Every form of a step begins with a dot or a bracket.
LEMMA FormShape ==
  ASSUME PathAssumption, NEW s \in Step, NEW after \in Seq(Token), NEW form \in Forms(s, after)
  PROVE  form \in Seq(Token) /\ form # <<>> /\ form[1] \in {".", "["}
<1>1. \A x \in Seq(Token) : LET b == <<"[">> \o x \o <<"]">> IN
        b \in Seq(Token) /\ Len(b) = Len(x) + 2 /\ b[1] = "["
  BY TokenFacts, Bracketing
<1>2. \A f : f \in Seq(Token) /\ Len(f) > 0 => f # <<>>
  OBVIOUS
<1>3. \A I : (I \subseteq Seq(Token) /\ form \in InBrackets(I)) => form \in Seq(Token) /\ form # <<>> /\ form[1] = "["
  <2> TAKE I
  <2> HAVE I \subseteq Seq(Token) /\ form \in InBrackets(I)
  <2>1. PICK x \in I : form = <<"[">> \o x \o <<"]">>
    BY DEF InBrackets
  <2>2. x \in Seq(Token) /\ Len(x) + 2 > 0
    BY <2>1
  <2> QED
    BY <1>1, <1>2, <2>1, <2>2
<1>4. CASE s.type = "descent"
  <2>1. form = <<".">>
    BY <1>4, FormsBy
  <2> QED
    BY <2>1, TokenFacts
<1>5. CASE s.type = "member"
  <2>1. s.member \in Seq(Token)
    BY <1>5, StepTypes
  <2>2. {<<"'">> \o s.member \o <<"'">>} \subseteq Seq(Token)
    <3>1. <<"'">> \in Seq(Token)
      BY TokenFacts
    <3> QED
      BY <2>1, <3>1
  <2>3. form \in InBrackets({<<"'">> \o s.member \o <<"'">>}) \/ form = <<".">> \o s.member
    <3>1. Forms(s, after) =
              (IF Quotable(s.member) THEN InBrackets({<<"'">> \o s.member \o <<"'">>}) ELSE {})
              \cup IF Plain(s.member) /\ Joins(after) THEN {<<".">> \o s.member} ELSE {}
      BY <1>5, FormsBy
    <3> QED
      BY <3>1
  <2>4. LET f == <<".">> \o s.member IN f \in Seq(Token) /\ f # <<>> /\ f[1] = "."
    <3>1. <<".">> \in Seq(Token) /\ Len(<<".">>) = 1
      BY TokenFacts
    <3> QED
      BY <2>1, <3>1
  <2> QED
    BY <1>3, <2>2, <2>3, <2>4
<1>6. CASE s.type = "anyMember"
  <2>1. form = <<".", "*">> \/ form = <<"[", "'", "*", "'", "]">>
    BY <1>6, FormsBy
  <2>2. "." \in Token /\ "*" \in Token /\ "[" \in Token /\ "'" \in Token /\ "]" \in Token
    BY TokenFacts
  <2>3. /\ <<".", "*">> \in Seq(Token) /\ <<".", "*">>[1] = "." /\ <<".", "*">> # <<>>
        /\ <<"[", "'", "*", "'", "]">> # <<>> /\ <<"[", "'", "*", "'", "]">> \in Seq(Token) /\ <<"[", "'", "*", "'", "]">>[1] = "["
    BY ONLY <2>2
  <2> QED
    BY ONLY <2>1, <2>3
<1>7. CASE s.type = "anyElement"
  <2>1. form = <<"[", "*", "]">>
    BY <1>7, FormsBy
  <2>2. "*" \in Token /\ "[" \in Token /\ "]" \in Token
    BY TokenFacts
  <2>3. <<"[", "*", "]">> \in Seq(Token) /\ <<"[", "*", "]">>[1] = "[" /\ <<"[", "*", "]">> # <<>>
    BY ONLY <2>2
  <2> QED
    BY ONLY <2>1, <2>3
<1>8. CASE s.type = "element"
  <2>1. {<<d>> : d \in Digits(s.index)} \subseteq Seq(Token)
    <3>1. \A t \in Token : <<t>> \in Seq(Token)
      OBVIOUS
    <3> QED
      BY <3>1, TokenFacts DEF Digits
  <2>2. form \in InBrackets({<<d>> : d \in Digits(s.index)})
    BY <1>8, FormsBy
  <2> QED
    BY <1>3, <2>1, <2>2
<1>9. CASE s.type = "list"
  <2>1. Numbers(s.list) \subseteq Seq(Token)
    BY <1>9, StepTypes, NumbersShape
  <2>2. form \in InBrackets(Numbers(s.list))
    BY <1>9, FormsBy
  <2> QED
    BY <1>3, <2>1, <2>2
<1>10. CASE s.type = "slice"
  <2>1. Slices(s) \subseteq Seq(Token)
    BY SlicesShape
  <2>2. form \in InBrackets(Slices(s))
    BY <1>10, FormsBy
  <2> QED
    BY <1>3, <2>1, <2>2
<1> QED
  BY <1>4, <1>5, <1>6, <1>7, <1>8, <1>9, <1>10, StepTypes

\* Texts are sequences of tokens.
LEMMA TextShape ==
  ASSUME PathAssumption, NEW list \in Seq(Step), NEW end \in Seq(Token)
  PROVE  \A i \in 1 .. Len(list) + 1 : TextsFrom(list, end)[i] \subseteq Seq(Token)
<1> DEFINE W == TextsFrom(list, end)
           n == Len(list)
           S == {k \in Nat : k <= n => W[n + 1 - k] \subseteq Seq(Token)}
<1>1. W[n + 1] = {end} /\ \A i \in 1 .. n : W[i] = StepTexts(list[i], W[i + 1])
  BY TextsStep
<1> HIDE DEF W
<1>2. n \in Nat
  OBVIOUS
<1>3. 0 \in S
  BY <1>1, <1>2
<1>4. ASSUME NEW k \in Nat, k \in S
      PROVE  k + 1 \in S
  <2> SUFFICES ASSUME k + 1 <= n
               PROVE  W[n + 1 - (k + 1)] \subseteq Seq(Token)
    OBVIOUS
  <2>1. PICK i : i = n - k
    OBVIOUS
  <2>2. i \in 1 .. n /\ n + 1 - k = i + 1 /\ n + 1 - (k + 1) = i /\ k <= n
    BY <1>2, <2>1
  <2>3. W[i + 1] \subseteq Seq(Token)
    BY <1>4, <2>2
  <2>4. list[i] \in Step
    BY <2>2
  <2>5. \A after \in W[i + 1] : \A form \in Forms(list[i], after) : form \o after \in Seq(Token)
    <3> TAKE after \in W[i + 1]
    <3> TAKE form \in Forms(list[i], after)
    <3>1. after \in Seq(Token)
      BY <2>3
    <3>2. form \in Seq(Token)
      BY <2>4, <3>1, FormShape
    <3> QED
      BY <3>1, <3>2
  <2> QED
    <3>1. W[i] = StepTexts(list[i], W[i + 1])
      BY <1>1, <2>2
    <3>2. StepTexts(list[i], W[i + 1]) \subseteq Seq(Token)
      <4> SUFFICES ASSUME NEW t \in StepTexts(list[i], W[i + 1])
                   PROVE  t \in Seq(Token)
        OBVIOUS
      <4>1. PICK after \in W[i + 1] : t \in {form \o after : form \in Forms(list[i], after)}
        BY ONLY t \in StepTexts(list[i], W[i + 1]) DEF StepTexts
      <4> QED
        BY ONLY <2>5, <4>1
    <3> QED
      BY ONLY <2>2, <3>1, <3>2
<1> HIDE DEF S
<1>5. \A k \in Nat : k \in S
  BY ONLY <1>3, <1>4, NatInductionOn
<1>6. \A i \in 1 .. n + 1 : n + 1 - i \in Nat /\ n + 1 - i <= n /\ n + 1 - (n + 1 - i) = i
  BY <1>2
<1>7. \A k \in Nat : k <= n => W[n + 1 - k] \subseteq Seq(Token)
  BY ONLY <1>5 DEF S
<1>8. \A i \in 1 .. n + 1 : W[i] \subseteq Seq(Token)
  BY ONLY <1>6, <1>7
<1> QED
  BY ONLY <1>8 DEF W

-----------------------------------------------------------------------------
(* A step that is written is read. *)

\* What is read of a form and of the text after it.
LEMMA InputTokens ==
  ASSUME NEW form \in Seq(Token), NEW after \in Seq(Token), input = form \o after
  PROVE  /\ input \in Seq(Token) /\ Len(input) = Len(form) + Len(after)
         /\ \A i \in 1 .. Len(form) : Tok(i) = form[i]
         /\ Tok(Len(form) + 1) = IF after = <<>> THEN Nil ELSE after[1]
         /\ Rest(Len(form)) = after
         /\ form # <<>> => input # <<>>
<1>1. input \in Seq(Token) /\ Len(input) = Len(form) + Len(after) /\ Len(form) \in Nat /\ Len(after) \in Nat
  OBVIOUS
<1>2. \A i \in 1 .. Len(form) : Tok(i) = form[i]
  BY <1>1 DEF Tok
<1>3. Tok(Len(form) + 1) = IF after = <<>> THEN Nil ELSE after[1]
  <2>1. CASE after = <<>>
    BY <1>1, <2>1 DEF Tok
  <2>2. CASE after # <<>>
    <3>1. Len(after) > 0
      BY <2>2
    <3>2. input[Len(form) + 1] = after[1]
      BY <1>1, <3>1
    <3> QED
      BY <1>1, <2>2, <3>1, <3>2 DEF Tok
  <2> QED
    BY <2>1, <2>2
<1>4. Rest(Len(form)) = after
  <2>1. \A i \in 1 .. Len(after) : input[Len(form) + i] = after[i]
    BY <1>1
  <2> QED
    BY <1>1, <2>1 DEF Rest
<1>5. form # <<>> => input # <<>>
  OBVIOUS
<1> QED
  BY <1>1, <1>2, <1>3, <1>4, <1>5

\* What CompileStep does between the root and the end, outside a list.
Parses == Dotted \/ Bracketed \/ NoStep \/ Finish

\* Where a name ends: at the first dot or bracket behind the second token, or
\* at the end of the text.
LEMMA NameEnds ==
  ASSUME NEW X, input \in Seq(X), input # <<>>
  PROVE  /\ NameEnd \in 2 .. Len(input) + 1
         /\ \A i \in 2 .. NameEnd - 1 : input[i] \notin {".", "["}
         /\ NameEnd <= Len(input) => input[NameEnd] \in {".", "["}
<1> DEFINE I == {i \in 2 .. Len(input) : input[i] \in {".", "["}}
<1>1. Len(input) \in Nat /\ Len(input) > 0
  OBVIOUS
<1>2. NameEnd = IF (IF I # {} THEN Min(I) ELSE 0) = 0 THEN Len(input) + 1 ELSE (IF I # {} THEN Min(I) ELSE 0)
  BY DEF NameEnd, SelectInSubSeq
<1>3. CASE I = {}
  BY <1>1, <1>2, <1>3
<1>4. CASE I # {}
  <2>1. I \in SUBSET Nat
    BY <1>1
  <2>2. PICK m \in I : \A j \in I : m <= j
    BY <1>4, <2>1, Least
  <2>3. Min(I) = m
    <3>1. \A k \in I : (\A j \in I : k <= j) <=> k = m
      BY <2>1, <2>2
    <3> QED
      BY <2>2, <3>1 DEF Min
  <2>4. NameEnd = m /\ m \in 2 .. Len(input)
    BY <1>2, <2>2, <2>3
  <2>5. \A i \in 2 .. m - 1 : i \notin I
    BY <2>1, <2>2
  <2>6. \A i \in 2 .. m - 1 : i \in 2 .. Len(input)
    BY <1>1, <2>4
  <2> QED
    BY <1>1, <2>2, <2>4, <2>5, <2>6
<1> QED
  BY <1>3, <1>4

\* The forms of each type are read by the action for it, and to their end.
LEMMA ReadsDescent ==
  ASSUME PathAssumption, NEW after \in Seq(Token), input = <<".">> \o after, after # <<>>, after[1] = ".", Parses
  PROVE  Compiled([type |-> "descent"], 1)
<1>1. PICK form : form = <<".">>
  OBVIOUS
<1>2. form \in Seq(Token) /\ Len(form) = 1 /\ form[1] = "." /\ form # <<>>
  BY <1>1, TokenFacts
<1>3. input = form \o after
  BY <1>1
<1>4. Tok(1) = "." /\ Tok(2) = "." /\ input # <<>>
  <2>1. /\ \A i \in 1 .. Len(form) : Tok(i) = form[i]
        /\ Tok(Len(form) + 1) = IF after = <<>> THEN Nil ELSE after[1]
        /\ input # <<>>
    BY ONLY <1>2, <1>3, InputTokens, after \in Seq(Token)
  <2> QED
    BY <1>2, <2>1
<1> QED
  BY <1>4 DEF Parses, Dotted, Bracketed, NoStep, Finish

\* ".*" selects every member.
LEMMA ReadsAnyMember ==
  ASSUME PathAssumption, NEW after \in Seq(Token), input = <<".", "*">> \o after, Parses
  PROVE  Compiled([type |-> "anyMember"], 2)
<1>1. PICK form : form = <<".", "*">>
  OBVIOUS
<1>2. form \in Seq(Token) /\ Len(form) = 2 /\ form[1] = "." /\ form[2] = "*" /\ form # <<>>
  <2>1. "." \in Token /\ "*" \in Token
    BY TokenFacts
  <2> QED
    BY ONLY <1>1, <2>1
<1>3. input = form \o after
  BY <1>1
<1>4. Tok(1) = "." /\ Tok(2) = "*" /\ input # <<>>
  <2>1. (\A i \in 1 .. Len(form) : Tok(i) = form[i]) /\ input # <<>>
    BY ONLY <1>2, <1>3, InputTokens, after \in Seq(Token)
  <2> QED
    BY <1>2, <2>1
<1>5. NameEnd # 2
  <2>1. input \in Seq(Token) /\ Len(input) = 2 + Len(after) /\ Len(after) \in Nat
    <3>1. input \in Seq(Token) /\ Len(input) = Len(form) + Len(after)
      BY ONLY <1>2, <1>3, InputTokens, after \in Seq(Token)
    <3> QED
      BY <1>2, <3>1
  <2>2. input[2] = "*" /\ 2 <= Len(input)
    BY <1>4, <2>1 DEF Tok
  <2> QED
    BY <1>4, <2>1, <2>2, NameEnds
<1> QED
  BY <1>4, <1>5 DEF Parses, Dotted, Bracketed, NoStep, Finish

\* A name after a dot ends where the next step or the end of the text is.
LEMMA ReadsName ==
  ASSUME PathAssumption, NEW after \in Seq(Token), NEW name \in Seq(Token), Plain(name), Joins(after),
         input = (<<".">> \o name) \o after, Parses
  PROVE  Compiled([type |-> "member", member |-> name], Len(name) + 1)
<1>1. PICK form : form = <<".">> \o name
  OBVIOUS
<1>2. PICK L \in Nat : L = Len(name)
  OBVIOUS
<1>3. name # <<>> /\ name[1] # "*" /\ \A i \in 1 .. L : name[i] # "." /\ name[i] # "["
  BY <1>2 DEF Plain
<1>4. L > 0
  BY <1>2, <1>3
<1>5. /\ form \in Seq(Token) /\ Len(form) = L + 1 /\ form # <<>>
      /\ form[1] = "." /\ \A i \in 1 .. L : form[i + 1] = name[i]
  <2>1. PICK dot : dot = <<".">>
    OBVIOUS
  <2>2. dot \in Seq(Token) /\ Len(dot) = 1 /\ dot[1] = "."
    BY <2>1, TokenFacts
  <2> QED
    BY ONLY <1>1, <1>2, <2>1, <2>2, name \in Seq(Token)
<1>6. /\ input \in Seq(Token) /\ Len(input) = L + 1 + Len(after) /\ input # <<>>
      /\ \A i \in 1 .. L + 1 : Tok(i) = form[i]
      /\ Tok(L + 2) = IF after = <<>> THEN Nil ELSE after[1]
  <2>1. input = form \o after
    BY <1>1
  <2>2. /\ input \in Seq(Token) /\ Len(input) = Len(form) + Len(after)
        /\ \A i \in 1 .. Len(form) : Tok(i) = form[i]
        /\ Tok(Len(form) + 1) = IF after = <<>> THEN Nil ELSE after[1]
        /\ input # <<>>
    BY ONLY <1>5, <2>1, InputTokens, after \in Seq(Token)
  <2> QED
    BY ONLY <1>2, <1>5, <2>2
<1>7. Tok(1) = "." /\ Tok(2) = name[1] /\ \A i \in 2 .. L + 1 : Tok(i) = name[i - 1]
  BY <1>4, <1>5, <1>6
<1>8. Len(after) \in Nat /\ (after = <<>> <=> Len(after) = 0)
  OBVIOUS
<1>9. \A i \in 2 .. L + 1 : input[i] = name[i - 1] /\ input[i] \notin {".", "["}
  <2> TAKE i \in 2 .. L + 1
  <2>1. i <= Len(input) /\ i \in 1 .. L + 1 /\ i - 1 \in 1 .. L
    BY <1>2, <1>6, <1>8
  <2>2. input[i] = name[i - 1]
    BY <1>7, <2>1 DEF Tok
  <2> QED
    BY <1>3, <2>1, <2>2
<1>10. after # <<>> => input[L + 2] \in {".", "["}
  <2> SUFFICES ASSUME after # <<>> PROVE input[L + 2] \in {".", "["}
    OBVIOUS
  <2>1. Tok(L + 2) \in {".", "["} /\ L + 2 <= Len(input)
    BY <1>2, <1>6, <1>8 DEF Joins
  <2> QED
    BY <2>1 DEF Tok
<1>11. NameEnd = L + 2
  <2>1. /\ NameEnd \in 2 .. Len(input) + 1
        /\ \A i \in 2 .. NameEnd - 1 : input[i] \notin {".", "["}
        /\ NameEnd <= Len(input) => input[NameEnd] \in {".", "["}
    BY ONLY <1>6, NameEnds
  <2>2. ~(NameEnd < L + 2)
    BY <1>2, <1>6, <1>8, <1>9, <2>1
  <2>3. ~(NameEnd > L + 2)
    <3>1. NameEnd > L + 2 => after # <<>>
      BY <1>2, <1>6, <1>8, <2>1
    <3> QED
      BY <1>2, <1>10, <2>1, <3>1
  <2> QED
    BY ONLY <1>2, <1>6, <1>8, <2>1, <2>2, <2>3
<1>12. SubSeq(input, 2, L + 1) = name
  BY <1>2, <1>6, <1>8, <1>9
<1>13. Tok(2) # "." /\ Tok(2) # "*"
  BY <1>2, <1>3, <1>4, <1>7
<1>14. Compiled([type |-> "member", member |-> SubSeq(input, 2, NameEnd - 1)], NameEnd - 1)
  BY <1>2, <1>4, <1>6, <1>7, <1>11, <1>13 DEF Parses, Dotted, Bracketed, NoStep, Finish
<1>15. NameEnd - 1 = L + 1
  BY <1>11
<1> QED
  BY <1>2, <1>12, <1>14, <1>15

\* What is read of a text in brackets.
LEMMA BracketTokens ==
  ASSUME PathAssumption, NEW x \in Seq(Token), NEW after \in Seq(Token),
         input = (<<"[">> \o x \o <<"]">>) \o after
  PROVE  /\ input \in Seq(Token) /\ Len(input) = Len(x) + 2 + Len(after) /\ input # <<>>
         /\ Tok(1) = "[" /\ \A i \in 1 .. Len(x) : Tok(i + 1) = x[i]
         /\ Tok(Len(x) + 2) = "]"
<1>1. PICK form : form = <<"[">> \o x \o <<"]">>
  OBVIOUS
<1>2. /\ form \in Seq(Token) /\ Len(form) = Len(x) + 2
      /\ form[1] = "[" /\ \A i \in 1 .. Len(x) : form[i + 1] = x[i]
      /\ form[Len(x) + 2] = "]"
  <2>1. "[" \in Token /\ "]" \in Token
    BY TokenFacts
  <2> QED
    BY ONLY <1>1, <2>1, Bracketing, x \in Seq(Token)
<1>3. Len(x) \in Nat
  OBVIOUS
<1>4. form # <<>>
  BY <1>2, <1>3
<1>5. input = form \o after
  BY <1>1
<1>6. /\ input \in Seq(Token) /\ Len(input) = Len(form) + Len(after)
      /\ \A i \in 1 .. Len(form) : Tok(i) = form[i]
      /\ input # <<>>
  BY ONLY <1>2, <1>4, <1>5, InputTokens, after \in Seq(Token)
<1> QED
  BY ONLY <1>2, <1>3, <1>6

\* "[*]" selects every element.
LEMMA ReadsAnyElement ==
  ASSUME PathAssumption, NEW after \in Seq(Token), input = <<"[", "*", "]">> \o after, Parses
  PROVE  Compiled([type |-> "anyElement"], 3)
<1>1. PICK form : form = <<"[", "*", "]">>
  OBVIOUS
<1>2. form \in Seq(Token) /\ Len(form) = 3 /\ form[1] = "[" /\ form[2] = "*" /\ form[3] = "]" /\ form # <<>>
  <2>1. "[" \in Token /\ "*" \in Token /\ "]" \in Token
    BY TokenFacts
  <2> QED
    BY ONLY <1>1, <2>1
<1>3. input = form \o after
  BY <1>1
<1>4. Tok(1) = "[" /\ Tok(2) = "*" /\ Tok(3) = "]" /\ input # <<>>
  <2>1. (\A i \in 1 .. Len(form) : Tok(i) = form[i]) /\ input # <<>>
    BY ONLY <1>2, <1>3, InputTokens, after \in Seq(Token)
  <2> QED
    BY <1>2, <2>1
<1> QED
  BY <1>4 DEF Parses, Dotted, Bracketed, NoStep, Finish, AnyElement, Quoted, Subscript

\* The first quote with a bracket after it, once it is known where that is.
LEMMA ClosesAt ==
  ASSUME NEW c \in Closings, \A i \in Closings : c <= i
  PROVE  (CHOOSE i \in Closings : \A k \in Closings : i <= k) = c
<1>1. Closings \subseteq Int
  BY DEF Closings
<1>2. \A m \in Closings : (\A k \in Closings : m <= k) <=> m = c
  BY <1>1
<1> QED
  BY <1>2

\* A part of length one.
LEMMA SubSeqOne ==
  ASSUME NEW X, NEW s \in Seq(X), NEW i \in 1 .. Len(s)
  PROVE  SubSeq(s, i, i) = <<s[i]>>
<1>1. SubSeq(s, i, i) = <<s[i]>> \o SubSeq(s, i + 1, i)
  BY SubSeqRecursiveFirst
<1>2. SubSeq(s, i + 1, i) = <<>>
  BY SubSeqEmpty
<1>3. <<s[i]>> \in Seq(X)
  OBVIOUS
<1>4. <<s[i]>> \o <<>> = <<s[i]>>
  BY ONLY <1>3, ConcatEmptySeq
<1> QED
  BY ONLY <1>1, <1>2, <1>4

\* "['*']" selects every member.
LEMMA ReadsQuotedAny ==
  ASSUME PathAssumption, NEW after \in Seq(Token), input = <<"[", "'", "*", "'", "]">> \o after, Parses
  PROVE  Compiled([type |-> "anyMember"], 5)
<1>1. PICK form : form = <<"[", "'", "*", "'", "]">>
  OBVIOUS
<1>2. /\ form \in Seq(Token) /\ Len(form) = 5 /\ form # <<>>
      /\ form[1] = "[" /\ form[2] = "'" /\ form[3] = "*" /\ form[4] = "'" /\ form[5] = "]"
  <2>1. "[" \in Token /\ "*" \in Token /\ "]" \in Token /\ "'" \in Token
    BY TokenFacts
  <2> QED
    BY ONLY <1>1, <2>1
<1>3. input = form \o after
  BY <1>1
<1>4. /\ Tok(1) = "[" /\ Tok(2) = "'" /\ Tok(3) = "*" /\ Tok(4) = "'" /\ Tok(5) = "]" /\ input # <<>>
      /\ input \in Seq(Token) /\ Len(input) >= 5
  <2>1. /\ input \in Seq(Token) /\ Len(input) = Len(form) + Len(after)
        /\ \A i \in 1 .. Len(form) : Tok(i) = form[i]
        /\ input # <<>>
    BY ONLY <1>2, <1>3, InputTokens, after \in Seq(Token)
  <2>2. Len(after) \in Nat
    OBVIOUS
  <2> QED
    BY ONLY <1>2, <2>1, <2>2
<1>5. 4 \in Closings /\ \A i \in Closings : 4 <= i
  BY <1>4 DEF Closings
<1>6. (CHOOSE i \in Closings : \A k \in Closings : i <= k) = 4
  BY ONLY <1>5, ClosesAt
<1>7. SubSeq(input, 3, 4 - 1) = <<"*">>
  <2>1. input[3] = "*" /\ 3 \in 1 .. Len(input)
    BY <1>4 DEF Tok
  <2>2. SubSeq(input, 3, 3) = <<input[3]>>
    BY ONLY <1>4, <2>1, SubSeqOne
  <2> QED
    BY ONLY <2>1, <2>2
<1>8. Quoted
  BY <1>4 DEF Parses, Dotted, Bracketed, NoStep, Finish, AnyElement, Subscript
<1>9. Compiled([type |-> "anyMember"], 4 + 1)
  BY <1>5, <1>6, <1>7, <1>8 DEF Quoted
<1> QED
  BY <1>9

\* A quoted name ends at its own quote: inside it no bracket follows one.
LEMMA ReadsQuoted ==
  ASSUME PathAssumption, NEW after \in Seq(Token), NEW name \in Seq(Token), Quotable(name),
         input = (<<"[">> \o (<<"'">> \o name \o <<"'">>) \o <<"]">>) \o after, Parses
  PROVE  Compiled([type |-> "member", member |-> name], Len(name) + 4)
<1>1. PICK x : x = <<"'">> \o name \o <<"'">>
  OBVIOUS
<1>2. PICK L \in Nat : L = Len(name)
  OBVIOUS
<1>3. name # <<"*">> /\ \A i \in 2 .. L : ~(name[i - 1] = "'" /\ name[i] = "]")
  BY <1>2 DEF Quotable
<1>4. /\ x \in Seq(Token) /\ Len(x) = L + 2
      /\ x[1] = "'" /\ x[L + 2] = "'" /\ \A i \in 1 .. L : x[i + 1] = name[i]
  <2>1. PICK q : q = <<"'">>
    OBVIOUS
  <2>2. q \in Seq(Token) /\ Len(q) = 1 /\ q[1] = "'"
    BY <2>1, TokenFacts
  <2>3. PICK y : y = q \o name
    OBVIOUS
  <2>4. y \in Seq(Token) /\ Len(y) = L + 1 /\ y[1] = "'" /\ \A i \in 1 .. L : y[i + 1] = name[i]
    <3>1. /\ y \in Seq(Token) /\ Len(y) = Len(q) + Len(name)
          /\ \A i \in 1 .. Len(q) + Len(name) : y[i] = IF i <= Len(q) THEN q[i] ELSE name[i - Len(q)]
      BY ONLY <2>2, <2>3, ConcatProperties, name \in Seq(Token)
    <3>2. \A i \in 1 .. L : i + 1 \in 1 .. 1 + L /\ ~(i + 1 <= 1) /\ i + 1 - 1 = i
      OBVIOUS
    <3> QED
      BY ONLY <1>2, <2>2, <3>1, <3>2
  <2>5. x = y \o q
    BY ONLY <1>1, <2>1, <2>3
  <2> QED
    <3>1. /\ x \in Seq(Token) /\ Len(x) = Len(y) + Len(q)
          /\ \A i \in 1 .. Len(y) + Len(q) : x[i] = IF i <= Len(y) THEN y[i] ELSE q[i - Len(y)]
      BY ONLY <2>2, <2>4, <2>5, ConcatProperties
    <3>2. \A i \in 1 .. L : i + 1 \in 1 .. L + 2 /\ i + 1 <= L + 1
      OBVIOUS
    <3>3. L + 2 - (L + 1) = 1 /\ L + 1 + 1 = L + 2 /\ 1 <= L + 1 /\ ~(L + 2 <= L + 1) /\ 1 \in 1 .. L + 2 /\ L + 2 \in 1 .. L + 2
      OBVIOUS
    <3> QED
      BY ONLY <1>2, <2>2, <2>4, <3>1, <3>2, <3>3
<1>5. /\ input \in Seq(Token) /\ Len(input) = L + 4 + Len(after) /\ input # <<>>
      /\ Tok(1) = "[" /\ Tok(2) = "'" /\ Tok(L + 3) = "'" /\ Tok(L + 4) = "]"
      /\ \A i \in 1 .. L : Tok(i + 2) = name[i]
  <2>1. input = (<<"[">> \o x \o <<"]">>) \o after
    BY <1>1
  <2>2. /\ input \in Seq(Token) /\ Len(input) = Len(x) + 2 + Len(after) /\ input # <<>>
        /\ Tok(1) = "[" /\ \A i \in 1 .. Len(x) : Tok(i + 1) = x[i]
        /\ Tok(Len(x) + 2) = "]"
    BY ONLY <1>4, <2>1, BracketTokens, PathAssumption, after \in Seq(Token)
  <2>3. Tok(1 + 1) = x[1] /\ Tok(L + 2 + 1) = x[L + 2] /\ \A i \in 1 .. L : Tok(i + 1 + 1) = x[i + 1]
    BY ONLY <1>2, <1>4, <2>2
  <2> QED
    BY ONLY <1>2, <1>4, <2>2, <2>3
<1>6. Len(after) \in Nat
  OBVIOUS
<1>7. L + 3 \in Closings
  BY <1>2, <1>5, <1>6 DEF Closings
<1>8. \A i \in Closings : L + 3 <= i
  <2> SUFFICES ASSUME NEW i \in Closings, i < L + 3
               PROVE  FALSE
    BY <1>2, <1>6 DEF Closings
  <2>1. i \in 3 .. Len(input) /\ Tok(i) = "'" /\ Tok(i + 1) = "]"
    BY DEF Closings
  <2>2. i - 2 \in 1 .. L /\ Tok(i) = name[i - 2]
    BY <1>2, <1>5, <2>1
  <2>3. CASE i = L + 2
    BY <1>2, <1>5, <2>1, <2>3
  <2>4. CASE i < L + 2
    <3>1. i - 1 \in 2 .. L /\ Tok(i + 1) = name[i - 1]
      <4>1. i - 1 \in 2 .. L /\ i - 1 \in 1 .. L /\ i - 1 + 2 = i + 1
        BY <1>2, <2>1, <2>2, <2>4
      <4>2. Tok(i - 1 + 2) = name[i - 1]
        BY ONLY <1>5, <4>1
      <4> QED
        BY ONLY <4>1, <4>2
    <3> QED
      BY <1>3, <2>1, <2>2, <3>1
  <2> QED
    BY <1>2, <2>1, <2>3, <2>4
<1>9. (CHOOSE i \in Closings : \A k \in Closings : i <= k) = L + 3
  BY ONLY <1>7, <1>8, ClosesAt
<1>10. SubSeq(input, 3, L + 3 - 1) = name
  <2>1. \A i \in 1 .. L : input[i + 2] = name[i]
    BY <1>2, <1>5, <1>6 DEF Tok
  <2> QED
    BY <1>2, <1>5, <1>6, <2>1
<1>11. Quoted
  BY <1>5 DEF Parses, Dotted, Bracketed, NoStep, Finish, AnyElement, Subscript
<1>12. Compiled([type |-> "member", member |-> name], L + 3 + 1)
  <2> DEFINE end == CHOOSE i \in Closings : \A k \in Closings : i <= k
             text == SubSeq(input, 3, end - 1)
  <2>3. end = L + 3
    BY ONLY <1>9
  <2> HIDE DEF end
  <2>1. end = L + 3 /\ text = name /\ Closings # {}
    BY ONLY <1>7, <1>10, <2>3
  <2>2. \/ Closings = {} /\ Refused
        \/ Closings # {} /\ text = <<"*">> /\ Compiled([type |-> "anyMember"], end + 1)
        \/ Closings # {} /\ text # <<"*">> /\ Compiled([type |-> "member", member |-> text], end + 1)
    BY ONLY <1>11 DEF Quoted, end
  <2> QED
    BY ONLY <1>3, <2>1, <2>2
<1>13. L + 3 + 1 = L + 4
  OBVIOUS
<1> QED
  BY <1>2, <1>12, <1>13

\* One number in brackets is an index.
LEMMA ReadsElement ==
  ASSUME PathAssumption, NEW after \in Seq(Token), NEW d \in DOMAIN Number,
         input = (<<"[">> \o <<d>> \o <<"]">>) \o after, Parses
  PROVE  Compiled([type |-> "element", index |-> Number[d]], 3)
<1>1. PICK x : x = <<d>>
  OBVIOUS
<1>2. x \in Seq(Token) /\ Len(x) = 1 /\ x[1] = d
  BY <1>1, TokenFacts
<1>3. Tok(1) = "[" /\ Tok(2) = d /\ Tok(3) = "]" /\ input # <<>>
  <2>1. input = (<<"[">> \o x \o <<"]">>) \o after
    BY <1>1
  <2>2. /\ input # <<>> /\ Tok(1) = "[" /\ \A i \in 1 .. Len(x) : Tok(i + 1) = x[i]
        /\ Tok(Len(x) + 2) = "]"
    BY ONLY <1>2, <2>1, BracketTokens, PathAssumption, after \in Seq(Token)
  <2> QED
    BY ONLY <1>2, <2>2
<1>4. d # "'" /\ d # ":" /\ d # "*" /\ IsInt(2)
  BY <1>3, TokenFacts DEF IsInt
<1> QED
  BY <1>3, <1>4 DEF Parses, Dotted, Bracketed, NoStep, Finish, AnyElement, Quoted, Subscript

\* Where the numbers and colons of a slice are: nb, ne and nd are the tokens
\* its start, its end and its step take.
LEMMA SliceTokens ==
  ASSUME PathAssumption, NEW s, NEW x \in Slices(s)
  PROVE  /\ x \in Seq(Token)
         /\ \E nb, ne \in {0, 1}, nd \in {0, 2} :
              /\ Len(x) = nb + 1 + ne + nd /\ nb + ne + nd > 0
              /\ x[nb + 1] = ":"
              /\ IF nb = 1 THEN x[1] \in DOMAIN Number /\ Number[x[1]] = s.start ELSE s.start = 0
              /\ IF ne = 1 THEN x[nb + 2] \in DOMAIN Number /\ Number[x[nb + 2]] = s.end ELSE s.end = 0
              /\ IF nd = 2 THEN /\ x[nb + ne + 2] = ":"
                                /\ x[nb + ne + 3] \in DOMAIN Number /\ Number[x[nb + ne + 3]] = s.step
                           ELSE s.step = 1
<1>1. PICK b \in Omitted(s.start, 0), e \in Omitted(s.end, 0), d \in Steps(s.step) :
         x = b \o <<":">> \o e \o d /\ x # <<":">> /\ x \in Seq(Token)
  BY SlicesShape
<1>2. PICK c : c = <<":">>
  OBVIOUS
<1>3. c \in Seq(Token) /\ Len(c) = 1 /\ c[1] = ":"
  BY <1>2, TokenFacts
<1>4. \A t \in DOMAIN Number : LET o == <<t>> IN o \in Seq(Token) /\ Len(o) = 1 /\ o[1] = t
  BY TokenFacts
<1>5. \A n, o : o \in Omitted(n, 0) =>
        /\ o \in Seq(Token)
        /\ \/ Len(o) = 1 /\ o[1] \in DOMAIN Number /\ Number[o[1]] = n
           \/ Len(o) = 0 /\ n = 0
  <2> TAKE n, o
  <2> HAVE o \in Omitted(n, 0)
  <2>1. CASE o \in {<<t>> : t \in Digits(n)}
    BY ONLY <1>4, <2>1 DEF Digits
  <2>2. CASE n = 0 /\ o = <<>>
    BY ONLY <2>2
  <2> QED
    BY ONLY <2>1, <2>2, o \in Omitted(n, 0) DEF Omitted
<1>6. /\ d \in Seq(Token)
      /\ \/ Len(d) = 2 /\ d[1] = ":" /\ d[2] \in DOMAIN Number /\ Number[d[2]] = s.step
         \/ Len(d) = 0 /\ s.step = 1
  <2>1. CASE d \in {<<":">> \o <<t>> : t \in Digits(s.step)}
    <3>1. PICK t \in DOMAIN Number : d = c \o <<t>> /\ Number[t] = s.step
      BY ONLY <1>2, <2>1 DEF Digits
    <3>2. PICK o : o = <<t>> /\ o \in Seq(Token) /\ Len(o) = 1 /\ o[1] = t
      BY <1>4
    <3>3. d \in Seq(Token) /\ Len(d) = 2 /\ d[1] = ":" /\ d[2] = t
      BY ONLY <1>3, <3>1, <3>2
    <3> QED
      BY ONLY <3>1, <3>3
  <2>2. CASE s.step = 1 /\ d = <<>>
    BY ONLY <2>2
  <2> QED
    BY ONLY <2>1, <2>2, d \in Steps(s.step) DEF Steps
<1>7. /\ b \in Seq(Token)
      /\ \/ Len(b) = 1 /\ b[1] \in DOMAIN Number /\ Number[b[1]] = s.start
         \/ Len(b) = 0 /\ s.start = 0
  BY ONLY <1>5, b \in Omitted(s.start, 0)
<1>8. /\ e \in Seq(Token)
      /\ \/ Len(e) = 1 /\ e[1] \in DOMAIN Number /\ Number[e[1]] = s.end
         \/ Len(e) = 0 /\ s.end = 0
  BY ONLY <1>5, e \in Omitted(s.end, 0)
<1>9. PICK nb, ne \in {0, 1}, nd \in {0, 2} : nb = Len(b) /\ ne = Len(e) /\ nd = Len(d)
  BY ONLY <1>6, <1>7, <1>8
<1>10. PICK y : y = b \o c
  OBVIOUS
<1>11. y \in Seq(Token) /\ Len(y) = nb + 1 /\ y[nb + 1] = ":" /\ (nb = 1 => y[1] = b[1])
  <2>1. /\ y \in Seq(Token) /\ Len(y) = Len(b) + Len(c)
        /\ \A i \in 1 .. Len(b) + Len(c) : y[i] = IF i <= Len(b) THEN b[i] ELSE c[i - Len(b)]
    BY ONLY <1>3, <1>7, <1>10, ConcatProperties
  <2> QED
    BY ONLY <1>3, <1>9, <2>1
<1>12. PICK z : z = y \o e
  OBVIOUS
<1>13. /\ z \in Seq(Token) /\ Len(z) = nb + 1 + ne
       /\ z[nb + 1] = ":" /\ (nb = 1 => z[1] = b[1]) /\ (ne = 1 => z[nb + 2] = e[1])
  <2>1. /\ z \in Seq(Token) /\ Len(z) = Len(y) + Len(e)
        /\ \A i \in 1 .. Len(y) + Len(e) : z[i] = IF i <= Len(y) THEN y[i] ELSE e[i - Len(y)]
    BY ONLY <1>8, <1>11, <1>12, ConcatProperties
  <2> QED
    BY ONLY <1>9, <1>11, <2>1
<1>14. x = z \o d
  BY ONLY <1>1, <1>2, <1>10, <1>12
<1>15. /\ Len(x) = nb + 1 + ne + nd
       /\ x[nb + 1] = ":" /\ (nb = 1 => x[1] = b[1]) /\ (ne = 1 => x[nb + 2] = e[1])
       /\ nd = 2 => x[nb + ne + 2] = d[1] /\ x[nb + ne + 3] = d[2]
  <2>1. /\ Len(x) = Len(z) + Len(d)
        /\ \A i \in 1 .. Len(z) + Len(d) : x[i] = IF i <= Len(z) THEN z[i] ELSE d[i - Len(z)]
    BY ONLY <1>6, <1>13, <1>14, ConcatProperties
  <2>2. \A i \in 1 .. nb + 1 + ne : x[i] = z[i]
    <3>1. \A i \in 1 .. nb + 1 + ne : i \in 1 .. nb + 1 + ne + nd /\ i <= nb + 1 + ne
      BY ONLY <1>9
    <3> QED
      BY ONLY <1>9, <1>13, <2>1, <3>1
  <2>3. nb + 1 \in 1 .. nb + 1 + ne /\ 1 \in 1 .. nb + 1 + ne /\ (ne = 1 => nb + 2 \in 1 .. nb + 1 + ne)
    BY ONLY <1>9
  <2>4. ASSUME nd = 2
        PROVE  x[nb + ne + 2] = d[1] /\ x[nb + ne + 3] = d[2]
    <3>1. /\ nb + ne + 2 \in 1 .. nb + 1 + ne + nd /\ ~(nb + ne + 2 <= nb + 1 + ne)
          /\ nb + ne + 3 \in 1 .. nb + 1 + ne + nd /\ ~(nb + ne + 3 <= nb + 1 + ne)
          /\ nb + ne + 2 - (nb + 1 + ne) = 1 /\ nb + ne + 3 - (nb + 1 + ne) = 2
      BY ONLY <1>9, <2>4
    <3> QED
      BY ONLY <1>9, <1>13, <2>1, <3>1
  <2>5. Len(x) = nb + 1 + ne + nd
    BY ONLY <1>9, <1>13, <2>1
  <2> QED
    BY ONLY <1>13, <2>2, <2>3, <2>4, <2>5
<1>16. nb + ne + nd > 0
  <2>1. ASSUME nb = 0, ne = 0, nd = 0
        PROVE  FALSE
    <3>1. x \in Seq(Token) /\ Len(x) = 1 /\ x[1] = ":"
      BY ONLY <1>1, <1>15, <2>1
    <3>2. x = <<":">>
      BY ONLY <3>1
    <3> QED
      BY ONLY <1>1, <3>2
  <2> QED
    BY ONLY <1>9, <2>1
<1>17. IF nb = 1 THEN x[1] \in DOMAIN Number /\ Number[x[1]] = s.start ELSE s.start = 0
  BY ONLY <1>7, <1>9, <1>15
<1>18. IF ne = 1 THEN x[nb + 2] \in DOMAIN Number /\ Number[x[nb + 2]] = s.end ELSE s.end = 0
  BY ONLY <1>8, <1>9, <1>15
<1>19. IF nd = 2 THEN /\ x[nb + ne + 2] = ":"
                     /\ x[nb + ne + 3] \in DOMAIN Number /\ Number[x[nb + ne + 3]] = s.step
               ELSE s.step = 1
  BY ONLY <1>6, <1>9, <1>15
<1>20. Len(x) = nb + 1 + ne + nd /\ x[nb + 1] = ":" /\ x \in Seq(Token)
  BY ONLY <1>1, <1>15
<1> QED
  BY ONLY <1>9, <1>16, <1>17, <1>18, <1>19, <1>20

\* A slice from its colon at i, with or without an end and a step.
LEMMA SliceReads ==
  ASSUME PathAssumption, NEW i \in Nat, NEW start, NEW omits, Sliced(start, i, omits),
         NEW ne \in {0, 1}, NEW nd \in {0, 2}, NEW end, NEW step,
         IF ne = 1 THEN IsInt(i + 1) /\ Number[Tok(i + 1)] = end ELSE ~IsInt(i + 1) /\ end = 0 /\ Tok(i + 1) \in omits,
         IF nd = 2 THEN Tok(i + ne + 1) = ":" /\ IsInt(i + ne + 2) /\ Number[Tok(i + ne + 2)] = step
         ELSE step = 1 /\ Tok(i + ne + 1) # ":",
         Tok(i + ne + nd + 1) = "]"
  PROVE  Compiled([type |-> "slice", start |-> start, end |-> end, step |-> step], i + ne + nd + 1)
<1> DEFINE e == IF IsInt(i + 1) THEN i + 2 ELSE i + 1
           c == IF Tok(e) = ":" THEN e + 2 ELSE e
           ok == /\ IsInt(i + 1) \/ Tok(i + 1) \in omits
                 /\ Tok(e) = ":" => IsInt(e + 1)
                 /\ Tok(c) = "]"
           last == IF IsInt(i + 1) THEN Number[Tok(i + 1)] ELSE 0
           by == IF Tok(e) = ":" THEN Number[Tok(e + 1)] ELSE 1
<1>1. e = i + ne + 1
  OBVIOUS
<1>2. c = i + ne + nd + 1
  <2>1. CASE nd = 2
    <3>1. Tok(e) = ":"
      BY <1>1, <2>1
    <3>2. i + ne + 1 + 2 = i + ne + 2 + 1
      OBVIOUS
    <3> QED
      BY ONLY <1>1, <2>1, <3>1, <3>2, i \in Nat, ne \in {0, 1}
  <2>2. CASE nd = 0
    BY ONLY <1>1, <2>2, Tok(i + ne + nd + 1) = "]", i \in Nat, ne \in {0, 1}
  <2> QED
    BY <2>1, <2>2
<1>3. last = end
  OBVIOUS
<1>4. by = step /\ (Tok(e) = ":" => IsInt(e + 1))
  <2>1. e + 1 = i + ne + 2
    BY ONLY <1>1, i \in Nat, ne \in {0, 1}
  <2> HIDE DEF e
  <2> QED
    BY <1>1, <2>1
<1>5. ok
  <2>1. IsInt(i + 1) \/ Tok(i + 1) \in omits
    OBVIOUS
  <2> QED
    BY ONLY <1>2, <1>4, <2>1, Tok(i + ne + nd + 1) = "]"
<1>6. \/ ~ok /\ Refused
      \/ ok /\ Compiled([type |-> "slice", start |-> start, end |-> last, step |-> by], c)
  BY ONLY Sliced(start, i, omits) DEF Sliced
<1> QED
  BY ONLY <1>2, <1>3, <1>4, <1>5, <1>6

\* A slice is read with its start, end and step, those left out included.
LEMMA ReadsSlice ==
  ASSUME PathAssumption, NEW s, NEW x \in Slices(s), NEW after \in Seq(Token),
         input = (<<"[">> \o x \o <<"]">>) \o after, Parses
  PROVE  Compiled([type |-> "slice", start |-> s.start, end |-> s.end, step |-> s.step], Len(x) + 2)
<1>1. x \in Seq(Token)
  BY SliceTokens
<1>2. PICK nb, ne \in {0, 1}, nd \in {0, 2} :
        /\ Len(x) = nb + 1 + ne + nd /\ nb + ne + nd > 0
        /\ x[nb + 1] = ":"
        /\ IF nb = 1 THEN x[1] \in DOMAIN Number /\ Number[x[1]] = s.start ELSE s.start = 0
        /\ IF ne = 1 THEN x[nb + 2] \in DOMAIN Number /\ Number[x[nb + 2]] = s.end ELSE s.end = 0
        /\ IF nd = 2 THEN /\ x[nb + ne + 2] = ":"
                          /\ x[nb + ne + 3] \in DOMAIN Number /\ Number[x[nb + ne + 3]] = s.step
                     ELSE s.step = 1
  BY SliceTokens
<1>3. /\ input # <<>> /\ Tok(1) = "[" /\ \A k \in 1 .. Len(x) : Tok(k + 1) = x[k]
      /\ Tok(Len(x) + 2) = "]"
  BY ONLY <1>1, BracketTokens, PathAssumption, after \in Seq(Token),
          input = (<<"[">> \o x \o <<"]">>) \o after
<1>4. \A t \in DOMAIN Number : t # "]" /\ t # "*" /\ t # "'" /\ t # ":" /\ t # ","
  BY TokenFacts
<1>5. PICK i : i = nb + 2
  OBVIOUS
<1>6. i \in Nat /\ Tok(i) = ":"
  <2>1. nb + 1 \in 1 .. Len(x) /\ nb + 1 + 1 = i /\ i \in Nat
    BY ONLY <1>2, <1>5
  <2>2. Tok(nb + 1 + 1) = x[nb + 1]
    BY ONLY <1>3, <2>1
  <2> QED
    BY ONLY <1>2, <2>1, <2>2
<1>7. nb = 1 => IsInt(2) /\ Number[Tok(2)] = s.start
  <2>1. nb = 1 => 1 \in 1 .. Len(x)
    BY ONLY <1>2
  <2>2. nb = 1 => Tok(1 + 1) = x[1]
    BY ONLY <1>3, <2>1
  <2>3. 1 + 1 = 2
    OBVIOUS
  <2> QED
    BY ONLY <1>2, <2>2, <2>3 DEF IsInt
<1>8. IF nd = 2 THEN Tok(i + ne + 1) = ":" /\ IsInt(i + ne + 2) /\ Number[Tok(i + ne + 2)] = s.step
      ELSE s.step = 1 /\ Tok(i + ne + 1) = "]"
  <2>1. CASE nd = 2
    <3>1. /\ nb + ne + 2 \in 1 .. Len(x) /\ nb + ne + 2 + 1 = i + ne + 1
          /\ nb + ne + 3 \in 1 .. Len(x) /\ nb + ne + 3 + 1 = i + ne + 2
      BY ONLY <1>2, <1>5, <2>1
    <3>2. Tok(nb + ne + 2 + 1) = x[nb + ne + 2] /\ Tok(nb + ne + 3 + 1) = x[nb + ne + 3]
      BY ONLY <1>3, <3>1
    <3> QED
      BY ONLY <1>2, <2>1, <3>1, <3>2 DEF IsInt
  <2>2. CASE nd = 0
    <3>1. Len(x) + 2 = i + ne + 1
      BY ONLY <1>2, <1>5, <2>2
    <3> QED
      BY ONLY <1>2, <1>3, <2>2, <3>1
  <2> QED
    BY ONLY <2>1, <2>2, nd \in {0, 2}
<1>9. Tok(i + ne + nd + 1) = "]"
  <2>1. Len(x) + 2 = i + ne + nd + 1
    BY ONLY <1>2, <1>5
  <2> QED
    BY ONLY <1>3, <2>1
<1>10. IF ne = 1 THEN IsInt(i + 1) /\ Number[Tok(i + 1)] = s.end
       ELSE ~IsInt(i + 1) /\ s.end = 0 /\ Tok(i + 1) \in IF nb = 1 THEN {":", "]"} ELSE {":"}
  <2>1. CASE ne = 1
    <3>1. nb + 2 \in 1 .. Len(x) /\ nb + 2 + 1 = i + 1
      BY ONLY <1>2, <1>5, <2>1
    <3>2. Tok(nb + 2 + 1) = x[nb + 2]
      BY ONLY <1>3, <3>1
    <3> QED
      BY ONLY <1>2, <2>1, <3>1, <3>2 DEF IsInt
  <2>2. CASE ne = 0
    <3>1. i + ne + 1 = i + 1
      BY ONLY <1>6, <2>2
    <3>2. nb = 0 => nd = 2
      BY ONLY <1>2, <2>2
    <3>3. Tok(i + 1) = IF nd = 2 THEN ":" ELSE "]"
      BY ONLY <1>8, <3>1
    <3> QED
      BY ONLY <1>2, <1>4, <2>2, <3>2, <3>3 DEF IsInt
  <2> QED
    BY ONLY <2>1, <2>2, ne \in {0, 1}
<1>11. CASE nb = 1
  <2>1. i = 3
    BY ONLY <1>5, <1>11
  <2>2. Tok(2) # "'" /\ Tok(2) # ":" /\ Tok(2) # "*" /\ IsInt(2) /\ Tok(3) = ":"
    BY ONLY <1>4, <1>6, <1>7, <1>11, <2>1 DEF IsInt
  <2>3. Sliced(Number[Tok(2)], 3, {":", "]"})
    BY ONLY <1>3, <2>2, Parses DEF Parses, Dotted, Bracketed, NoStep, Finish, AnyElement, Quoted, Subscript
  <2>4. Sliced(s.start, i, {":", "]"})
    BY ONLY <1>7, <1>11, <2>1, <2>3
  <2>5. Compiled([type |-> "slice", start |-> s.start, end |-> s.end, step |-> s.step], i + ne + nd + 1)
    <3>1. "]" # ":"
      OBVIOUS
    <3> QED
      BY ONLY <1>6, <1>8, <1>9, <1>10, <1>11, <2>4, <3>1, SliceReads, PathAssumption, ne \in {0, 1}, nd \in {0, 2}
  <2>6. Len(x) + 2 = i + ne + nd + 1
    BY ONLY <1>2, <1>5
  <2> QED
    BY ONLY <2>5, <2>6
<1>12. CASE nb = 0
  <2>1. i = 2
    BY ONLY <1>5, <1>12
  <2>2. Tok(2) = ":"
    BY ONLY <1>6, <2>1
  <2>3. Sliced(0, 2, {":"})
    BY ONLY <1>3, <2>2, Parses DEF Parses, Dotted, Bracketed, NoStep, Finish, AnyElement, Quoted, Subscript
  <2>4. Sliced(s.start, i, {":"})
    BY ONLY <1>2, <1>12, <2>1, <2>3
  <2>5. Compiled([type |-> "slice", start |-> s.start, end |-> s.end, step |-> s.step], i + ne + nd + 1)
    <3>1. "]" # ":"
      OBVIOUS
    <3> QED
      BY ONLY <1>6, <1>8, <1>9, <1>10, <1>12, <2>4, <3>1, SliceReads, PathAssumption, ne \in {0, 1}, nd \in {0, 2}
  <2>6. Len(x) + 2 = i + ne + nd + 1
    BY ONLY <1>2, <1>5
  <2> QED
    BY ONLY <2>5, <2>6
<1> QED
  BY <1>11, <1>12

\* Whatever its form, a step that is no list is read whole.
LEMMA ReadsForm ==
  ASSUME PathAssumption, NEW s \in Step, s.type # "list", NEW after \in Seq(Token),
         NEW form \in Forms(s, after), input = form \o after, Parses
  PROVE  Compiled(s, Len(form))
<1>1. \A x \in Seq(Token) : Len(<<"[">> \o x \o <<"]">>) = Len(x) + 2
  BY TokenFacts, Bracketing
<1>2. CASE s.type = "descent"
  <2>1. form = <<".">> /\ after # <<>> /\ after[1] = "."
    BY <1>2, FormsBy
  <2>2. Len(form) = 1
    BY <2>1
  <2>3. Compiled([type |-> "descent"], 1)
    BY ONLY <2>1, ReadsDescent, PathAssumption, after \in Seq(Token), input = form \o after, Parses
  <2>4. s = [type |-> "descent"]
    BY <1>2, StepTypes
  <2> QED
    BY ONLY <2>2, <2>3, <2>4
<1>3. CASE s.type = "anyMember"
  <2>1. s = [type |-> "anyMember"]
    BY <1>3, StepTypes
  <2>2. form = <<".", "*">> \/ form = <<"[", "'", "*", "'", "]">>
    BY <1>3, FormsBy
  <2>3. CASE form = <<".", "*">>
    <3>1. Len(form) = 2
      BY <2>3
    <3>2. Compiled([type |-> "anyMember"], 2)
      BY ONLY <2>3, ReadsAnyMember, PathAssumption, after \in Seq(Token), input = form \o after, Parses
    <3> QED
      BY ONLY <2>1, <3>1, <3>2
  <2>4. CASE form = <<"[", "'", "*", "'", "]">>
    <3>1. Len(form) = 5
      BY <2>4
    <3>2. Compiled([type |-> "anyMember"], 5)
      BY ONLY <2>4, ReadsQuotedAny, PathAssumption, after \in Seq(Token), input = form \o after, Parses
    <3> QED
      BY ONLY <2>1, <3>1, <3>2
  <2> QED
    BY ONLY <2>2, <2>3, <2>4
<1>4. CASE s.type = "anyElement"
  <2>1. s = [type |-> "anyElement"]
    BY <1>4, StepTypes
  <2>2. form = <<"[", "*", "]">>
    BY <1>4, FormsBy
  <2>3. Len(form) = 3
    BY <2>2
  <2>4. Compiled([type |-> "anyElement"], 3)
    BY ONLY <2>2, ReadsAnyElement, PathAssumption, after \in Seq(Token), input = form \o after, Parses
  <2> QED
    BY ONLY <2>1, <2>3, <2>4
<1>5. CASE s.type = "element"
  <2>1. s = [type |-> "element", index |-> s.index]
    BY <1>5, StepTypes
  <2>2. PICK d \in DOMAIN Number : Number[d] = s.index /\ form = <<"[">> \o <<d>> \o <<"]">>
    <3>1. form \in InBrackets({<<d>> : d \in Digits(s.index)})
      BY <1>5, FormsBy
    <3> QED
      BY ONLY <3>1 DEF InBrackets, Digits
  <2>3. Len(form) = 3
    <3>1. <<d>> \in Seq(Token) /\ Len(<<d>>) = 1
      BY TokenFacts
    <3> QED
      BY <1>1, <2>2, <3>1
  <2>4. Compiled([type |-> "element", index |-> Number[d]], 3)
    BY ONLY <2>2, ReadsElement, PathAssumption, after \in Seq(Token), input = form \o after, Parses
  <2> QED
    BY ONLY <2>1, <2>2, <2>3, <2>4
<1>6. CASE s.type = "slice"
  <2>1. s = [type |-> "slice", start |-> s.start, end |-> s.end, step |-> s.step]
    BY <1>6, StepTypes
  <2>2. PICK x \in Slices(s) : form = <<"[">> \o x \o <<"]">>
    <3>1. form \in InBrackets(Slices(s))
      BY <1>6, FormsBy
    <3> QED
      BY ONLY <3>1 DEF InBrackets
  <2>3. Len(form) = Len(x) + 2
    BY <1>1, <2>2, SliceTokens
  <2>4. Compiled([type |-> "slice", start |-> s.start, end |-> s.end, step |-> s.step], Len(x) + 2)
    BY ONLY <2>2, ReadsSlice, PathAssumption, after \in Seq(Token), input = form \o after, Parses
  <2> QED
    BY ONLY <2>1, <2>3, <2>4
<1>7. CASE s.type = "member"
  <2>1. s = [type |-> "member", member |-> s.member] /\ s.member \in Seq(Token)
    BY <1>7, StepTypes
  <2>2. \/ Quotable(s.member) /\ form = <<"[">> \o (<<"'">> \o s.member \o <<"'">>) \o <<"]">>
        \/ Plain(s.member) /\ Joins(after) /\ form = <<".">> \o s.member
    <3>1. Forms(s, after) =
              (IF Quotable(s.member) THEN InBrackets({<<"'">> \o s.member \o <<"'">>}) ELSE {})
              \cup IF Plain(s.member) /\ Joins(after) THEN {<<".">> \o s.member} ELSE {}
      BY <1>7, FormsBy
    <3>2. \/ Quotable(s.member) /\ form \in InBrackets({<<"'">> \o s.member \o <<"'">>})
          \/ Plain(s.member) /\ Joins(after) /\ form = <<".">> \o s.member
      BY ONLY <3>1, form \in Forms(s, after)
    <3> QED
      BY ONLY <3>2 DEF InBrackets
  <2>3. <<"'">> \in Seq(Token) /\ <<".">> \in Seq(Token) /\ Len(<<"'">>) = 1 /\ Len(<<".">>) = 1
    BY TokenFacts
  <2>4. CASE Quotable(s.member) /\ form = <<"[">> \o (<<"'">> \o s.member \o <<"'">>) \o <<"]">>
    <3>1. Len(form) = Len(s.member) + 4
      <4>1. <<"'">> \o s.member \o <<"'">> \in Seq(Token) /\ Len(<<"'">> \o s.member \o <<"'">>) = Len(s.member) + 2
        BY <2>1, <2>3
      <4> QED
        BY <1>1, <2>1, <2>4, <4>1
    <3>2. Compiled([type |-> "member", member |-> s.member], Len(s.member) + 4)
      BY ONLY <2>1, <2>4, ReadsQuoted, PathAssumption, after \in Seq(Token), input = form \o after, Parses
    <3> QED
      BY ONLY <2>1, <3>1, <3>2
  <2>5. CASE Plain(s.member) /\ Joins(after) /\ form = <<".">> \o s.member
    <3>1. Len(form) = Len(s.member) + 1
      BY <2>1, <2>3, <2>5
    <3>2. Compiled([type |-> "member", member |-> s.member], Len(s.member) + 1)
      BY ONLY <2>1, <2>5, ReadsName, PathAssumption, after \in Seq(Token), input = form \o after, Parses
    <3> QED
      BY ONLY <2>1, <3>1, <3>2
  <2> QED
    BY ONLY <2>2, <2>4, <2>5
<1> QED
  BY <1>2, <1>3, <1>4, <1>5, <1>6, <1>7, StepTypes

\* The first index of a list starts it.
BeginsList(list) ==
  /\ indexes' = SubSeq(list, 1, 1)
  /\ blocks' = blocks + 2
  /\ input' = Rest(2)
  /\ UNCHANGED <<path, result>>

\* The first index of a list and its comma begin the vector.
LEMMA ReadsList ==
  ASSUME PathAssumption, NEW list \in Seq(Int), NEW x \in Numbers(list), NEW after \in Seq(Token),
         input = (<<"[">> \o x \o <<"]">>) \o after, Parses
  PROVE  BeginsList(list)
<1>1. PICK n \in Nat : n = Len(list)
  OBVIOUS
<1>2. /\ x \in Seq(Token) /\ Len(x) = 2 * n - 1 /\ n > 1
      /\ \A i \in 1 .. n : x[2 * i - 1] \in DOMAIN Number /\ Number[x[2 * i - 1]] = list[i]
      /\ \A i \in 1 .. n - 1 : x[2 * i] = ","
  BY <1>1, NumbersShape
<1>3. /\ input # <<>> /\ Tok(1) = "[" /\ \A k \in 1 .. Len(x) : Tok(k + 1) = x[k]
      /\ Tok(Len(x) + 2) = "]"
  BY ONLY <1>2, BracketTokens, PathAssumption, after \in Seq(Token),
          input = (<<"[">> \o x \o <<"]">>) \o after
<1>4. x[1] \in DOMAIN Number /\ Number[x[1]] = list[1] /\ x[2] = ","
  <2>1. 1 \in 1 .. n /\ 1 \in 1 .. n - 1 /\ 2 * 1 - 1 = 1 /\ 2 * 1 = 2
    <3>1. n > 1
      BY <1>2
    <3> QED
      BY ONLY <3>1, n \in Nat
  <2> QED
    BY ONLY <1>2, <2>1
<1>5. Tok(2) = x[1] /\ Tok(3) = x[2]
  <2>1. 1 \in 1 .. Len(x) /\ 2 \in 1 .. Len(x) /\ 1 + 1 = 2 /\ 2 + 1 = 3
    <3>1. Len(x) = 2 * n - 1 /\ n > 1
      BY <1>2
    <3> QED
      BY ONLY <3>1, n \in Nat
  <2> QED
    BY ONLY <1>3, <2>1
<1>6. Tok(2) # "'" /\ Tok(2) # ":" /\ Tok(2) # "*" /\ IsInt(2) /\ Tok(3) = ","
  BY <1>4, <1>5, TokenFacts DEF IsInt
<1>7. SubSeq(list, 1, 1) = <<Number[Tok(2)]>>
  <2>1. 1 \in 1 .. Len(list)
    <3>1. n > 1
      BY <1>2
    <3> QED
      BY ONLY <1>1, <3>1, n \in Nat
  <2>2. SubSeq(list, 1, 1) = <<list[1]>>
    BY ONLY <2>1, SubSeqOne, list \in Seq(Int)
  <2> QED
    BY ONLY <1>4, <1>5, <2>2
<1> QED
  BY ONLY <1>3, <1>6, <1>7, Parses
     DEF Parses, Dotted, Bracketed, NoStep, Finish, AnyElement, Quoted, Subscript, BeginsList

-----------------------------------------------------------------------------
(* A step that is read is written. *)

\* A token that is there is one of the text.
LEMMA TokRead ==
  ASSUME PathAssumption, input \in Seq(Token), NEW i \in Nat \ {0}, Tok(i) # Nil
  PROVE  i \in 1 .. Len(input) /\ input[i] = Tok(i) /\ Tok(i) \in Token
BY DEF Tok

\* A text is what is read of it and the rest.
LEMMA Prefix ==
  ASSUME input \in Seq(Token), NEW n \in 1 .. Len(input)
  PROVE  /\ SubSeq(input, 1, n) \in Seq(Token) /\ Len(SubSeq(input, 1, n)) = n
         /\ Rest(n) \in Seq(Token) /\ input = SubSeq(input, 1, n) \o Rest(n)
         /\ Rest(n) = <<>> <=> n = Len(input)
         /\ n < Len(input) => Rest(n)[1] = input[n + 1]
<1>1. Len(input) \in Nat /\ n \in Nat
  OBVIOUS
<1>2. SubSeq(input, 1, n) \in Seq(Token) /\ Len(SubSeq(input, 1, n)) = n
  OBVIOUS
<1>3. Rest(n) \in Seq(Token) /\ Len(Rest(n)) = Len(input) - n
  BY <1>1 DEF Rest
<1>4. input = SubSeq(input, 1, n) \o Rest(n)
  <2>1. /\ 1 \in 1 .. Len(input) + 1 /\ n \in 1 - 1 .. Len(input) /\ Len(input) \in n .. Len(input)
    BY <1>1
  <2>2. SubSeq(input, 1, n) \o SubSeq(input, n + 1, Len(input)) = SubSeq(input, 1, Len(input))
    BY ONLY <2>1, ConcatAdjacentSubSeq, input \in Seq(Token)
  <2>3. SubSeq(input, 1, Len(input)) = input
    BY SubSeqFull
  <2> QED
    BY ONLY <2>2, <2>3 DEF Rest
<1>5. n < Len(input) => Rest(n)[1] = input[n + 1]
  BY <1>1 DEF Rest
<1>6. Rest(n) = <<>> <=> n = Len(input)
  BY <1>1, <1>3
<1> QED
  BY <1>2, <1>3, <1>4, <1>5, <1>6

\* The text begins with the form.
LEMMA BeginsWith ==
  ASSUME input \in Seq(Token), NEW form \in Seq(Token), NEW n \in 1 .. Len(input), Len(form) = n,
         \A i \in 1 .. n : input[i] = form[i]
  PROVE  SubSeq(input, 1, n) = form
<1>1. n \in Nat /\ Len(input) \in Nat
  OBVIOUS
<1>2. SubSeq(input, 1, n) \in Seq(Token) /\ Len(SubSeq(input, 1, n)) = n
  BY Prefix
<1>3. \A i \in 1 .. n : SubSeq(input, 1, n)[i] = input[i]
  BY <1>1
<1> QED
  BY ONLY <1>2, <1>3, SeqEqual, form \in Seq(Token), Len(form) = n, \A i \in 1 .. n : input[i] = form[i]

\* The first n tokens are a form of the step.
WrittenStep(step, n) ==
  step \in Step /\ n \in 1 .. Len(input) /\ SubSeq(input, 1, n) \in Forms(step, Rest(n))

\* What is read after a dot is a form of the step compiled.
LEMMA DottedWritten ==
  ASSUME PathAssumption, input \in Seq(Token), Dotted
  PROVE  Refused \/ \E step, n : Compiled(step, n) /\ WrittenStep(step, n)
<1>1. Tok(1) = "." /\ 1 \in 1 .. Len(input) /\ input[1] = "."
  <2>1. Tok(1) = "." /\ "." # Nil
    BY TokenFacts DEF Dotted
  <2> QED
    BY <2>1, TokRead
<1>2. CASE Tok(2) = "." /\ Compiled([type |-> "descent"], 1)
  <2>1. 2 \in 1 .. Len(input) /\ input[2] = "."
    <3>1. Tok(2) # Nil
      BY <1>2, TokenFacts
    <3>2. 2 \in Nat \ {0}
      OBVIOUS
    <3>3. 2 \in 1 .. Len(input) /\ input[2] = Tok(2)
      BY ONLY <3>1, <3>2, TokRead, PathAssumption, input \in Seq(Token)
    <3> QED
      BY ONLY <1>2, <3>3
  <2>2. SubSeq(input, 1, 1) = <<".">>
    BY ONLY <1>1, SubSeqOne, input \in Seq(Token)
  <2>3. Rest(1) # <<>> /\ Rest(1)[1] = "."
    <3>1. 1 < Len(input)
      BY <2>1
    <3> QED
      <4>1. Rest(1) = <<>> <=> 1 = Len(input)
        BY ONLY <1>1, Prefix, input \in Seq(Token)
      <4>2. 1 < Len(input) => Rest(1)[1] = input[1 + 1]
        BY ONLY <1>1, Prefix, input \in Seq(Token)
      <4>3. 1 + 1 = 2 /\ 1 # Len(input)
        <5>1. \A n : n = 1 => ~(1 < n)
          OBVIOUS
        <5> QED
          BY ONLY <3>1, <5>1
      <4> QED
        BY ONLY <2>1, <3>1, <4>1, <4>2, <4>3
  <2>4. [type |-> "descent"] \in Step
    BY DEF Step
  <2>5. SubSeq(input, 1, 1) \in Forms([type |-> "descent"], Rest(1))
    BY <2>2, <2>3 DEF Forms
  <2> QED
    BY <1>1, <1>2, <2>4, <2>5 DEF WrittenStep
<1>3. CASE Tok(2) = "*" /\ Compiled([type |-> "anyMember"], 2)
  <2>1. 2 \in 1 .. Len(input) /\ input[2] = "*"
    <3>1. Tok(2) # Nil
      BY <1>3, TokenFacts
    <3>2. 2 \in Nat \ {0}
      OBVIOUS
    <3>3. 2 \in 1 .. Len(input) /\ input[2] = Tok(2)
      BY ONLY <3>1, <3>2, TokRead, PathAssumption, input \in Seq(Token)
    <3> QED
      BY ONLY <1>3, <3>3
  <2>2. PICK form : form = <<".", "*">>
    OBVIOUS
  <2>3. form \in Seq(Token) /\ Len(form) = 2 /\ form[1] = "." /\ form[2] = "*"
    <3>1. "." \in Token /\ "*" \in Token
      BY TokenFacts
    <3> QED
      BY ONLY <2>2, <3>1
  <2>4. SubSeq(input, 1, 2) = form
    <3>1. \A i \in 1 .. 2 : i = 1 \/ i = 2
      OBVIOUS
    <3>2. \A i \in 1 .. 2 : input[i] = form[i]
      BY ONLY <1>1, <2>1, <2>3, <3>1
    <3> QED
      BY ONLY <2>1, <2>3, <3>2, BeginsWith, input \in Seq(Token)
  <2>5. [type |-> "anyMember"] \in Step
    BY DEF Step
  <2>6. SubSeq(input, 1, 2) \in Forms([type |-> "anyMember"], Rest(2))
    BY <2>2, <2>4 DEF Forms
  <2> QED
    BY <1>3, <2>1, <2>5, <2>6 DEF WrittenStep
<1>4. CASE /\ Tok(2) \notin {".", "*"} /\ NameEnd > 2
           /\ Compiled([type |-> "member", member |-> SubSeq(input, 2, NameEnd - 1)], NameEnd - 1)
  <2>1. PICK e : e = NameEnd
    OBVIOUS
  <2>2. /\ e \in 2 .. Len(input) + 1 /\ e > 2
        /\ \A i \in 2 .. e - 1 : input[i] \notin {".", "["}
        /\ e <= Len(input) => input[e] \in {".", "["}
    <3>1. input # <<>>
      BY <1>1
    <3> QED
      BY <1>4, <2>1, <3>1, NameEnds
  <2>3. PICK L \in Nat : L = Len(input)
    OBVIOUS
  <2>4. e \in Nat /\ e > 2 /\ e <= L + 1
    BY <2>2, <2>3
  <2>5. PICK name : name = SubSeq(input, 2, e - 1)
    OBVIOUS
  <2>6. name \in Seq(Token) /\ Len(name) = e - 2 /\ \A i \in 1 .. e - 2 : name[i] = input[i + 1]
    <3>1. 2 \in Int /\ e - 1 \in Int /\ \A i \in 2 .. e - 1 : i \in 1 .. Len(input)
      BY ONLY <2>3, <2>4
    <3>2. \A i \in 2 .. e - 1 : input[i] \in Token
      BY <3>1
    <3>3. /\ name \in Seq(Token) /\ Len(name) = IF 2 <= e - 1 THEN e - 1 - 2 + 1 ELSE 0
          /\ \A i \in 1 .. e - 1 - 2 + 1 : name[i] = input[2 + i - 1]
      BY ONLY <2>5, <3>1, <3>2, SubSeqProperties
    <3>4. 2 <= e - 1 /\ e - 1 - 2 + 1 = e - 2 /\ \A i \in 1 .. e - 2 : 2 + i - 1 = i + 1
      BY ONLY <2>4
    <3> QED
      BY ONLY <3>3, <3>4
  <2>7. Plain(name)
    <3>1. DOMAIN name = 1 .. e - 2 /\ 1 \in 1 .. e - 2
      BY <2>4, <2>6
    <3>2. \A i \in DOMAIN name : name[i] \notin {".", "["}
      <4>1. \A i \in 1 .. e - 2 : i + 1 \in 2 .. e - 1
        BY ONLY <2>4
      <4> QED
        BY ONLY <2>2, <2>6, <3>1, <4>1
    <3>3. name[1] # "*"
      <4>1. Tok(2) = input[2]
        BY <2>3, <2>4 DEF Tok
      <4>2. name[1] = input[1 + 1] /\ 1 + 1 = 2
        BY ONLY <2>6, <3>1
      <4> QED
        BY <1>4, <4>1, <4>2
    <3>4. name # <<>>
      BY <2>4, <2>6
    <3> QED
      BY ONLY <3>2, <3>3, <3>4 DEF Plain
  <2>8. e - 1 \in 1 .. Len(input)
    BY ONLY <2>3, <2>4
  <2>9. Joins(Rest(e - 1))
    <3>1. \/ e - 1 = Len(input)
          \/ e - 1 < Len(input) /\ e <= Len(input) /\ e - 1 + 1 = e
      BY ONLY <2>3, <2>4
    <3>2. /\ Rest(e - 1) = <<>> <=> e - 1 = Len(input)
          /\ e - 1 < Len(input) => Rest(e - 1)[1] = input[e - 1 + 1]
      BY ONLY <2>8, Prefix, input \in Seq(Token)
    <3> QED
      BY ONLY <2>2, <3>1, <3>2 DEF Joins
  <2>10. SubSeq(input, 1, e - 1) = <<".">> \o name
    <3>1. SubSeq(input, 1, e - 1) = <<input[1]>> \o SubSeq(input, 1 + 1, e - 1)
      BY ONLY <1>1, <2>8, SubSeqRecursiveFirst, input \in Seq(Token)
    <3>2. 1 + 1 = 2
      OBVIOUS
    <3> QED
      BY ONLY <1>1, <2>5, <3>1, <3>2
  <2>11. PICK step : step = [type |-> "member", member |-> name]
    OBVIOUS
  <2>12. step \in Step
    BY <2>6, <2>11 DEF Step
  <2>13. SubSeq(input, 1, e - 1) \in Forms(step, Rest(e - 1))
    <3>1. step.type = "member" /\ step.member = name
      BY <2>11
    <3>2. Forms(step, Rest(e - 1)) =
              (IF Quotable(step.member) THEN InBrackets({<<"'">> \o step.member \o <<"'">>}) ELSE {})
              \cup IF Plain(step.member) /\ Joins(Rest(e - 1)) THEN {<<".">> \o step.member} ELSE {}
      BY ONLY <3>1, FormsBy
    <3> QED
      BY ONLY <2>7, <2>9, <2>10, <3>1, <3>2
  <2>14. Compiled(step, e - 1)
    BY ONLY <1>4, <2>1, <2>5, <2>11, Zenon
  <2> QED
    BY ONLY <2>8, <2>12, <2>13, <2>14 DEF WrittenStep
<1> QED
  BY <1>2, <1>3, <1>4 DEF Dotted

\* The tokens of a quoted name.
LEMMA QuotedShape ==
  ASSUME PathAssumption, NEW name \in Seq(Token)
  PROVE  LET x == <<"'">> \o name \o <<"'">> IN
         /\ x \in Seq(Token) /\ Len(x) = Len(name) + 2
         /\ x[1] = "'" /\ x[Len(name) + 2] = "'" /\ \A i \in 1 .. Len(name) : x[i + 1] = name[i]
<1>1. PICK x : x = <<"'">> \o name \o <<"'">>
  OBVIOUS
<1>2. PICK L \in Nat : L = Len(name)
  OBVIOUS
<1>3. PICK q : q = <<"'">>
  OBVIOUS
<1>4. q \in Seq(Token) /\ Len(q) = 1 /\ q[1] = "'"
  BY <1>3, TokenFacts
<1>5. PICK y : y = q \o name
  OBVIOUS
<1>6. y \in Seq(Token) /\ Len(y) = L + 1 /\ y[1] = "'" /\ \A i \in 1 .. L : y[i + 1] = name[i]
  <2>1. /\ y \in Seq(Token) /\ Len(y) = Len(q) + Len(name)
        /\ \A i \in 1 .. Len(q) + Len(name) : y[i] = IF i <= Len(q) THEN q[i] ELSE name[i - Len(q)]
    BY ONLY <1>4, <1>5, ConcatProperties, name \in Seq(Token)
  <2>2. \A i \in 1 .. L : i + 1 \in 1 .. 1 + L /\ ~(i + 1 <= 1) /\ i + 1 - 1 = i
    OBVIOUS
  <2> QED
    BY ONLY <1>2, <1>4, <2>1, <2>2
<1>7. x = y \o q
  BY ONLY <1>1, <1>3, <1>5
<1>8. /\ x \in Seq(Token) /\ Len(x) = L + 2
      /\ x[1] = "'" /\ x[L + 2] = "'" /\ \A i \in 1 .. L : x[i + 1] = name[i]
  <2>1. /\ x \in Seq(Token) /\ Len(x) = Len(y) + Len(q)
        /\ \A i \in 1 .. Len(y) + Len(q) : x[i] = IF i <= Len(y) THEN y[i] ELSE q[i - Len(y)]
    BY ONLY <1>4, <1>6, <1>7, ConcatProperties
  <2>2. \A i \in 1 .. L : i + 1 \in 1 .. L + 2 /\ i + 1 <= L + 1
    OBVIOUS
  <2>3. /\ L + 2 - (L + 1) = 1 /\ L + 1 + 1 = L + 2 /\ 1 <= L + 1 /\ ~(L + 2 <= L + 1)
        /\ 1 \in 1 .. L + 2 /\ L + 2 \in 1 .. L + 2
    OBVIOUS
  <2> QED
    BY ONLY <1>4, <1>6, <2>1, <2>2, <2>3
<1> QED
  BY ONLY <1>1, <1>2, <1>8

\* A text in brackets, once its tokens are known.
LEMMA BracketedPrefix ==
  ASSUME PathAssumption, input \in Seq(Token), NEW x \in Seq(Token), NEW n \in 1 .. Len(input),
         n = Len(x) + 2, input[1] = "[", input[n] = "]",
         \A i \in 1 .. Len(x) : input[i + 1] = x[i]
  PROVE  SubSeq(input, 1, n) = <<"[">> \o x \o <<"]">>
<1>1. PICK form : form = <<"[">> \o x \o <<"]">>
  OBVIOUS
<1>2. /\ form \in Seq(Token) /\ Len(form) = Len(x) + 2
      /\ form[1] = "[" /\ \A i \in 1 .. Len(x) : form[i + 1] = x[i]
      /\ form[Len(x) + 2] = "]"
  <2>1. "[" \in Token /\ "]" \in Token
    BY TokenFacts
  <2> QED
    BY ONLY <1>1, <2>1, Bracketing, x \in Seq(Token)
<1>3. \A i \in 1 .. n : input[i] = form[i]
  <2> TAKE i \in 1 .. n
  <2>1. Len(x) \in Nat
    OBVIOUS
  <2>2. \/ i = 1 \/ i = Len(x) + 2
        \/ i - 1 \in 1 .. Len(x) /\ i - 1 + 1 = i
    BY ONLY <2>1, n = Len(x) + 2, i \in 1 .. n
  <2>3. i - 1 \in 1 .. Len(x) => input[i - 1 + 1] = form[i - 1 + 1]
    BY ONLY <1>2, \A k \in 1 .. Len(x) : input[k + 1] = x[k]
  <2> QED
    BY ONLY <1>2, <2>2, <2>3, n = Len(x) + 2, input[1] = "[", input[n] = "]"
<1> QED
  BY ONLY <1>1, <1>2, <1>3, BeginsWith, n = Len(x) + 2, n \in 1 .. Len(input), input \in Seq(Token)

\* What is read as a quoted name is a form of the step compiled: the first
\* quote with a bracket after it closes it.
LEMMA QuotedWritten ==
  ASSUME PathAssumption, input \in Seq(Token), Tok(1) = "[", Quoted
  PROVE  Refused \/ \E step, n : Compiled(step, n) /\ WrittenStep(step, n)
<1>1. SUFFICES ASSUME Closings # {}
               PROVE  \E step, n : Compiled(step, n) /\ WrittenStep(step, n)
  BY DEF Quoted
<1>2. PICK c \in Closings : \A k \in Closings : c <= k
  <2>1. Closings \in SUBSET Nat
    BY DEF Closings
  <2> QED
    BY <1>1, <2>1, Least
<1>3. (CHOOSE i \in Closings : \A k \in Closings : i <= k) = c
  BY ONLY <1>2, ClosesAt
<1>4. PICK L \in Nat : L = Len(input)
  OBVIOUS
<1>5. Tok(1) # Nil /\ Tok(2) # Nil /\ Tok(2) = "'" /\ Tok(c) = "'" /\ Tok(c + 1) = "]" /\ Tok(c + 1) # Nil
  BY TokenFacts, <1>2 DEF Quoted, Closings
<1>6. c \in Nat /\ c >= 3 /\ c + 1 <= L
  <2>1. c \in Nat /\ c >= 3
    BY <1>2 DEF Closings
  <2>2. c + 1 \in Nat \ {0}
    BY ONLY <2>1
  <2>3. c + 1 \in 1 .. Len(input)
    BY ONLY <1>5, <2>2, TokRead, PathAssumption, input \in Seq(Token)
  <2> QED
    BY ONLY <1>4, <2>1, <2>3
<1>7. input[1] = "[" /\ input[2] = "'" /\ input[c] = "'" /\ input[c + 1] = "]"
  <2>1. 1 <= Len(input) /\ 2 <= Len(input) /\ c <= Len(input) /\ c + 1 <= Len(input)
    BY ONLY <1>4, <1>6
  <2> QED
    BY <1>5, <2>1 DEF Tok
<1>8. PICK name : name = SubSeq(input, 3, c - 1)
  OBVIOUS
<1>9. name \in Seq(Token) /\ Len(name) = c - 3 /\ \A i \in 1 .. c - 3 : name[i] = input[i + 2]
  <2>1. 3 \in Int /\ c - 1 \in Int /\ \A i \in 3 .. c - 1 : i \in 1 .. Len(input)
    BY ONLY <1>4, <1>6
  <2>2. \A i \in 3 .. c - 1 : input[i] \in Token
    BY <2>1
  <2>3. /\ name \in Seq(Token) /\ Len(name) = IF 3 <= c - 1 THEN c - 1 - 3 + 1 ELSE 0
        /\ \A i \in 1 .. c - 1 - 3 + 1 : name[i] = input[3 + i - 1]
    BY ONLY <1>8, <2>1, <2>2, SubSeqProperties
  <2>4. /\ (IF 3 <= c - 1 THEN c - 1 - 3 + 1 ELSE 0) = c - 3 /\ c - 1 - 3 + 1 = c - 3
        /\ \A i \in 1 .. c - 3 : 3 + i - 1 = i + 2
    BY ONLY <1>6
  <2> QED
    BY ONLY <2>3, <2>4
<1>10. c + 1 \in 1 .. Len(input)
  BY ONLY <1>4, <1>6
<1>11. PICK x : x = <<"'">> \o name \o <<"'">>
  OBVIOUS
<1>12. SubSeq(input, 1, c + 1) = <<"[">> \o x \o <<"]">>
  <2>1. /\ x \in Seq(Token) /\ Len(x) = c - 3 + 2
        /\ x[1] = "'" /\ x[c - 3 + 2] = "'" /\ \A i \in 1 .. c - 3 : x[i + 1] = name[i]
    BY ONLY <1>9, <1>11, QuotedShape, PathAssumption
  <2>2. c - 3 + 2 = c - 1 /\ c + 1 = c - 1 + 2
    BY ONLY <1>6
  <2>3. \A i \in 1 .. c - 1 : input[i + 1] = x[i]
    <3> TAKE i \in 1 .. c - 1
    <3>1. i = 1 \/ i = c - 1 \/ (i - 1 \in 1 .. c - 3 /\ i - 1 + 1 = i /\ i - 1 + 2 = i + 1)
      BY ONLY <1>6, i \in 1 .. c - 1
    <3>2. 1 + 1 = 2 /\ c - 1 + 1 = c
      BY ONLY <1>6
    <3>3. i - 1 \in 1 .. c - 3 => x[i - 1 + 1] = input[i - 1 + 2]
      BY ONLY <1>9, <2>1
    <3> QED
      BY ONLY <1>7, <2>1, <2>2, <3>1, <3>2, <3>3
  <2> QED
    BY ONLY <1>7, <1>10, <2>1, <2>2, <2>3, BracketedPrefix, PathAssumption, input \in Seq(Token)
<1>13. \/ name = <<"*">> /\ Compiled([type |-> "anyMember"], c + 1)
       \/ name # <<"*">> /\ Compiled([type |-> "member", member |-> name], c + 1)
  <2> DEFINE end == CHOOSE i \in Closings : \A k \in Closings : i <= k
             text == SubSeq(input, 3, end - 1)
  <2>1. end = c
    BY ONLY <1>3
  <2>2. \/ Closings = {} /\ Refused
        \/ Closings # {} /\ text = <<"*">> /\ Compiled([type |-> "anyMember"], end + 1)
        \/ Closings # {} /\ text # <<"*">> /\ Compiled([type |-> "member", member |-> text], end + 1)
    BY ONLY Quoted DEF Quoted, end
  <2> HIDE DEF end
  <2>3. end = c /\ text = name
    BY ONLY <1>8, <2>1
  <2> QED
    BY ONLY <1>1, <2>2, <2>3
<1>14. CASE name = <<"*">> /\ Compiled([type |-> "anyMember"], c + 1)
  <2>1. SubSeq(input, 1, c + 1) = <<"[", "'", "*", "'", "]">>
    <3>1. PICK form : form = <<"[", "'", "*", "'", "]">>
      OBVIOUS
    <3>2. /\ form \in Seq(Token) /\ Len(form) = 5
          /\ form[1] = "[" /\ form[2] = "'" /\ form[3] = "*" /\ form[4] = "'" /\ form[5] = "]"
      <4>1. "[" \in Token /\ "*" \in Token /\ "]" \in Token /\ "'" \in Token
        BY TokenFacts
      <4> QED
        BY ONLY <3>1, <4>1
    <3>3. Len(name) = 1 /\ name[1] = "*"
      BY <1>14
    <3>4. c = 4
      <4>1. c - 3 = 1 /\ c \in Nat
        BY ONLY <1>6, <1>9, <3>3
      <4> QED
        BY ONLY <4>1
    <3>5. input[3] = "*"
      <4>1. 1 \in 1 .. c - 3 /\ 1 + 2 = 3
        BY ONLY <3>4
      <4> QED
        BY ONLY <1>9, <3>3, <4>1
    <3>6. c + 1 = 5 /\ \A i \in 1 .. 5 : i = 1 \/ i = 2 \/ i = 3 \/ i = 4 \/ i = 5
      BY ONLY <3>4
    <3>7. \A i \in 1 .. 5 : input[i] = form[i]
      BY ONLY <1>7, <3>2, <3>4, <3>5, <3>6
    <3>8. form \in Seq(Token) /\ Len(form) = 5 /\ 5 \in 1 .. Len(input)
      BY ONLY <1>10, <3>2, <3>6
    <3>9. SubSeq(input, 1, 5) = form
      BY ONLY <3>7, <3>8, BeginsWith, input \in Seq(Token)
    <3> QED
      BY ONLY <3>1, <3>6, <3>9
  <2>2. [type |-> "anyMember"] \in Step
    BY DEF Step
  <2>3. SubSeq(input, 1, c + 1) \in Forms([type |-> "anyMember"], Rest(c + 1))
    BY ONLY <2>1 DEF Forms
  <2> QED
    BY ONLY <1>10, <1>14, <2>2, <2>3 DEF WrittenStep
<1>15. CASE name # <<"*">> /\ Compiled([type |-> "member", member |-> name], c + 1)
  <2>1. PICK step : step = [type |-> "member", member |-> name]
    OBVIOUS
  <2>2. step \in Step
    BY <1>9, <2>1 DEF Step
  <2>3. Quotable(name)
    <3>1. \A i \in 2 .. Len(name) : ~(name[i - 1] = "'" /\ name[i] = "]")
      <4> SUFFICES ASSUME NEW i \in 2 .. Len(name), name[i - 1] = "'", name[i] = "]"
                   PROVE  FALSE
        OBVIOUS
      <4>1. /\ i \in 1 .. c - 3 /\ i - 1 \in 1 .. c - 3 /\ i - 1 + 2 = i + 1 /\ i + 1 + 1 = i + 2
            /\ i + 1 \in 3 .. Len(input) /\ i + 2 <= Len(input) /\ i + 1 < c /\ i + 1 <= Len(input)
        BY ONLY <1>4, <1>6, <1>9, i \in 2 .. Len(name)
      <4>2. input[i + 1] = "'" /\ input[i + 2] = "]"
        BY <1>9, <4>1
      <4>3. Tok(i + 1) = "'" /\ Tok(i + 1 + 1) = "]"
        BY ONLY <4>1, <4>2 DEF Tok
      <4>4. i + 1 \in Closings
        BY ONLY <4>1, <4>3 DEF Closings
      <4>5. c <= i + 1
        BY <1>2, <4>4
      <4> QED
        BY ONLY <1>6, <4>1, <4>5
    <3> QED
      BY ONLY <1>15, <3>1 DEF Quotable
  <2>4. SubSeq(input, 1, c + 1) \in Forms(step, Rest(c + 1))
    <3>1. step.type = "member" /\ step.member = name
      BY <2>1
    <3>2. Forms(step, Rest(c + 1)) =
              (IF Quotable(step.member) THEN InBrackets({<<"'">> \o step.member \o <<"'">>}) ELSE {})
              \cup IF Plain(step.member) /\ Joins(Rest(c + 1)) THEN {<<".">> \o step.member} ELSE {}
      BY ONLY <3>1, FormsBy
    <3>3. <<"[">> \o x \o <<"]">> \in InBrackets({<<"'">> \o name \o <<"'">>})
      BY ONLY <1>11 DEF InBrackets
    <3> QED
      BY ONLY <1>12, <2>3, <3>1, <3>2, <3>3
  <2> QED
    BY ONLY <1>10, <1>15, <2>1, <2>2, <2>4 DEF WrittenStep
<1> QED
  BY <1>13, <1>14, <1>15

(* Three parts in the right sets, other than none at all, make a written     *)
(* slice.                                                                    *)
LEMMA SliceFrom ==
  ASSUME NEW s, NEW b \in Omitted(s.start, 0), NEW e \in Omitted(s.end, 0), NEW d \in Steps(s.step),
         b \o <<":">> \o e \o d # <<":">>
  PROVE  b \o <<":">> \o e \o d \in Slices(s)
<1> DEFINE joined == {p \o <<":">> \o q \o r : p \in Omitted(s.start, 0), q \in Omitted(s.end, 0), r \in Steps(s.step)}
<1>1. b \o <<":">> \o e \o d \in joined
  OBVIOUS
<1>2. Slices(s) = joined \ {<<":">>}
  BY DEF Slices
<1> HIDE DEF joined
<1> QED
  BY ONLY <1>1, <1>2, b \o <<":">> \o e \o d # <<":">>

\* The tokens of a slice, piece by piece.
LEMMA SlicePieces ==
  ASSUME PathAssumption, NEW b \in Seq(Token), NEW e \in Seq(Token), NEW d \in Seq(Token)
  PROVE  LET x == b \o <<":">> \o e \o d IN
         /\ x \in Seq(Token) /\ Len(x) = Len(b) + 1 + Len(e) + Len(d)
         /\ x[Len(b) + 1] = ":"
         /\ \A i \in 1 .. Len(b) : x[i] = b[i]
         /\ \A i \in 1 .. Len(e) : x[Len(b) + 1 + i] = e[i]
         /\ \A i \in 1 .. Len(d) : x[Len(b) + 1 + Len(e) + i] = d[i]
<1>1. PICK B \in Nat, E \in Nat, D \in Nat : B = Len(b) /\ E = Len(e) /\ D = Len(d)
  OBVIOUS
<1>2. PICK c : c = <<":">>
  OBVIOUS
<1>3. c \in Seq(Token) /\ Len(c) = 1 /\ c[1] = ":"
  BY <1>2, TokenFacts
<1>4. PICK y : y = b \o c
  OBVIOUS
<1>5. y \in Seq(Token) /\ Len(y) = B + 1 /\ y[B + 1] = ":" /\ \A i \in 1 .. B : y[i] = b[i]
  <2>1. /\ y \in Seq(Token) /\ Len(y) = Len(b) + Len(c)
        /\ \A i \in 1 .. Len(b) + Len(c) : y[i] = IF i <= Len(b) THEN b[i] ELSE c[i - Len(b)]
    BY ONLY <1>3, <1>4, ConcatProperties, b \in Seq(Token)
  <2>2. /\ B + 1 \in 1 .. B + 1 /\ ~(B + 1 <= B) /\ B + 1 - B = 1
        /\ \A i \in 1 .. B : i \in 1 .. B + 1 /\ i <= B
    OBVIOUS
  <2> QED
    BY ONLY <1>1, <1>3, <2>1, <2>2
<1>6. PICK z : z = y \o e
  OBVIOUS
<1>7. /\ z \in Seq(Token) /\ Len(z) = B + 1 + E
      /\ \A i \in 1 .. B + 1 : z[i] = y[i]
      /\ \A i \in 1 .. E : z[B + 1 + i] = e[i]
  <2>1. /\ z \in Seq(Token) /\ Len(z) = Len(y) + Len(e)
        /\ \A i \in 1 .. Len(y) + Len(e) : z[i] = IF i <= Len(y) THEN y[i] ELSE e[i - Len(y)]
    BY ONLY <1>5, <1>6, ConcatProperties, e \in Seq(Token)
  <2>2. \A i \in 1 .. B + 1 : z[i] = y[i]
    <3>1. \A i \in 1 .. B + 1 : i \in 1 .. B + 1 + E /\ i <= B + 1
      OBVIOUS
    <3> QED
      BY ONLY <1>1, <1>5, <2>1, <3>1
  <2>3. ASSUME NEW i \in 1 .. E
        PROVE  z[B + 1 + i] = e[i]
    <3>1. PICK k : k = B + 1 + i
      OBVIOUS
    <3>2. k \in 1 .. B + 1 + E /\ ~(k <= B + 1) /\ k - (B + 1) = i
      BY ONLY <3>1, B \in Nat, E \in Nat, i \in 1 .. E
    <3> QED
      BY ONLY <1>1, <1>5, <2>1, <3>1, <3>2
  <2> QED
    BY ONLY <1>1, <1>5, <2>1, <2>2, <2>3
<1>8. PICK x : x = z \o d
  OBVIOUS
<1>9. /\ x \in Seq(Token) /\ Len(x) = B + 1 + E + D
      /\ \A i \in 1 .. B + 1 + E : x[i] = z[i]
      /\ \A i \in 1 .. D : x[B + 1 + E + i] = d[i]
  <2>1. /\ x \in Seq(Token) /\ Len(x) = Len(z) + Len(d)
        /\ \A i \in 1 .. Len(z) + Len(d) : x[i] = IF i <= Len(z) THEN z[i] ELSE d[i - Len(z)]
    BY ONLY <1>7, <1>8, ConcatProperties, d \in Seq(Token)
  <2>2. \A i \in 1 .. B + 1 + E : x[i] = z[i]
    <3>1. \A i \in 1 .. B + 1 + E : i \in 1 .. B + 1 + E + D /\ i <= B + 1 + E
      OBVIOUS
    <3> QED
      BY ONLY <1>1, <1>7, <2>1, <3>1
  <2>3. ASSUME NEW i \in 1 .. D
        PROVE  x[B + 1 + E + i] = d[i]
    <3>1. PICK k : k = B + 1 + E + i
      OBVIOUS
    <3>2. k \in 1 .. B + 1 + E + D /\ ~(k <= B + 1 + E) /\ k - (B + 1 + E) = i
      BY ONLY <3>1, B \in Nat, E \in Nat, D \in Nat, i \in 1 .. D
    <3>3. Len(z) + Len(d) = B + 1 + E + D /\ Len(z) = B + 1 + E
      BY ONLY <1>1, <1>7
    <3>4. x[k] = d[i]
      BY ONLY <2>1, <3>2, <3>3
    <3> QED
      BY ONLY <3>1, <3>4
  <2> QED
    BY ONLY <1>1, <1>7, <2>1, <2>2, <2>3
<1>10. x = b \o <<":">> \o e \o d
  BY ONLY <1>2, <1>4, <1>6, <1>8
<1>11. /\ \A i \in 1 .. B + 1 : i \in 1 .. B + 1 + E
       /\ \A i \in 1 .. E : B + 1 + i \in 1 .. B + 1 + E
       /\ \A i \in 1 .. B : i \in 1 .. B + 1
       /\ B + 1 \in 1 .. B + 1
  OBVIOUS
<1>12. /\ x[B + 1] = ":"
       /\ \A i \in 1 .. B : x[i] = b[i]
       /\ \A i \in 1 .. E : x[B + 1 + i] = e[i]
  BY ONLY <1>5, <1>7, <1>9, <1>11
<1> QED
  BY ONLY <1>1, <1>9, <1>10, <1>12

\* Where a slice's text begins: with a number, or with the colon.
LEMMA SliceWritten ==
  ASSUME PathAssumption, input \in Seq(Token), Tok(1) = "[",
         NEW nb \in {0, 1}, NEW start \in Int, NEW omits,
         IF nb = 1 THEN IsInt(2) /\ start = Number[Tok(2)] /\ omits = {":", "]"}
                   ELSE start = 0 /\ omits = {":"},
         Tok(nb + 2) = ":", Sliced(start, nb + 2, omits)
  PROVE  Refused \/ \E step, n : Compiled(step, n) /\ WrittenStep(step, n)
<1>1. PICK i \in Nat : i = nb + 2
  OBVIOUS
<1>2. PICK ne \in {0, 1} : ne = 1 <=> IsInt(i + 1)
  <2>1. CASE IsInt(i + 1)
    BY <2>1
  <2>2. CASE ~IsInt(i + 1)
    BY <2>2
  <2> QED
    BY <2>1, <2>2
<1>3. PICK nd \in {0, 2} : nd = 2 <=> Tok(i + ne + 1) = ":"
  <2>1. CASE Tok(i + ne + 1) = ":"
    BY <2>1
  <2>2. CASE Tok(i + ne + 1) # ":"
    BY <2>2
  <2> QED
    BY <2>1, <2>2
<1> DEFINE step == [type |-> "slice", start |-> start,
                    end |-> IF ne = 1 THEN Number[Tok(i + 1)] ELSE 0,
                    step |-> IF nd = 2 THEN Number[Tok(i + ne + 2)] ELSE 1]
           c == i + ne + nd + 1
<1>4. \/ Refused
      \/ /\ IsInt(i + 1) \/ Tok(i + 1) \in omits
         /\ nd = 2 => IsInt(i + ne + 2)
         /\ Tok(c) = "]"
         /\ Compiled(step, c)
  <2> DEFINE f == IF IsInt(i + 1) THEN i + 2 ELSE i + 1
             g == IF Tok(f) = ":" THEN f + 2 ELSE f
             ok == /\ IsInt(i + 1) \/ Tok(i + 1) \in omits
                   /\ Tok(f) = ":" => IsInt(f + 1)
                   /\ Tok(g) = "]"
             last == IF IsInt(i + 1) THEN Number[Tok(i + 1)] ELSE 0
             by == IF Tok(f) = ":" THEN Number[Tok(f + 1)] ELSE 1
  <2>1. f = i + ne + 1
    BY <1>2
  <2>2. \/ ~ok /\ Refused
        \/ ok /\ Compiled([type |-> "slice", start |-> start, end |-> last, step |-> by], g)
    BY ONLY <1>1, Sliced(start, nb + 2, omits) DEF Sliced
  <2>3. last = IF ne = 1 THEN Number[Tok(i + 1)] ELSE 0
    BY ONLY <1>2
  <2> HIDE DEF f, last
  <2>4. f + 1 = i + ne + 2
    BY <2>1
  <2>5. by = IF nd = 2 THEN Number[Tok(i + ne + 2)] ELSE 1
    BY ONLY <1>3, <2>1, <2>4
  <2>6. g = c
    <3>1. i + ne + 1 + 2 = i + ne + 2 + 1 /\ i + ne + 0 + 1 = i + ne + 1
      BY ONLY i \in Nat, ne \in {0, 1}
    <3> QED
      BY ONLY <1>3, <2>1, <3>1
  <2> HIDE DEF by, g
  <2>7. CASE ~ok /\ Refused
    BY <2>7
  <2>8. CASE ok /\ Compiled([type |-> "slice", start |-> start, end |-> last, step |-> by], g)
    <3>1. Tok(c) = "]" /\ (IsInt(i + 1) \/ Tok(i + 1) \in omits)
      BY ONLY <2>6, <2>8
    <3>2. nd = 2 => IsInt(i + ne + 2)
      BY ONLY <1>3, <2>1, <2>4, <2>8
    <3>3. Compiled(step, c)
      BY ONLY <2>3, <2>5, <2>6, <2>8
    <3> QED
      BY ONLY <3>1, <3>2, <3>3
  <2> QED
    BY ONLY <2>2, <2>7, <2>8
<1>5. SUFFICES ASSUME IsInt(i + 1) \/ Tok(i + 1) \in omits,
                      nd = 2 => IsInt(i + ne + 2),
                      Tok(c) = "]",
                      Compiled(step, c)
               PROVE  \E s, n : Compiled(s, n) /\ WrittenStep(s, n)
  BY <1>4
<1> DEFINE b == IF nb = 1 THEN <<Tok(2)>> ELSE <<>>
           e == IF ne = 1 THEN <<Tok(i + 1)>> ELSE <<>>
           d == IF nd = 2 THEN <<":">> \o <<Tok(i + ne + 2)>> ELSE <<>>
           x == b \o <<":">> \o e \o d
<1>6. /\ nb = 1 => Tok(2) \in DOMAIN Number /\ Number[Tok(2)] = start
      /\ ne = 1 => Tok(i + 1) \in DOMAIN Number
      /\ nd = 2 => Tok(i + ne + 2) \in DOMAIN Number
  BY <1>2, <1>5 DEF IsInt
<1>7. \A t \in DOMAIN Number : Number[t] \in Int /\ LET q == <<t>> IN q \in Seq(Token) /\ Len(q) = 1 /\ q[1] = t
  BY TokenFacts
<1>8. step \in Step
  <2>1. step.start \in Int /\ step.end \in Int /\ step.step \in Int
    BY <1>6, <1>7
  <2>2. step \in [type : {"slice"}, start : Int, end : Int, step : Int]
    BY ONLY <2>1
  <2> QED
    BY ONLY <2>2 DEF Step
<1>9. /\ b \in Seq(Token) /\ Len(b) = nb /\ (nb = 1 => b[1] = Tok(2))
      /\ b \in Omitted(step.start, 0)
  <2>1. CASE nb = 1
    <3>1. b = <<Tok(2)>>
      BY <2>1
    <3>2. step.start = start
      OBVIOUS
    <3>3. b \in Omitted(start, 0)
      BY ONLY <1>6, <2>1, <3>1 DEF Omitted, Digits
    <3> QED
      BY ONLY <1>6, <1>7, <2>1, <3>1, <3>2, <3>3
  <2>2. CASE nb = 0
    <3>1. b = <<>> /\ step.start = 0
      BY <2>2
    <3>2. b \in Omitted(step.start, 0)
      BY ONLY <3>1 DEF Omitted
    <3> QED
      BY ONLY <2>2, <3>1, <3>2
  <2> QED
    BY ONLY <2>1, <2>2, nb \in {0, 1}
<1>10. /\ e \in Seq(Token) /\ Len(e) = ne /\ (ne = 1 => e[1] = Tok(i + 1))
       /\ e \in Omitted(step.end, 0)
  <2>1. CASE ne = 1
    <3>1. e = <<Tok(i + 1)>> /\ step.end = Number[Tok(i + 1)]
      BY <2>1
    <3>2. e \in Omitted(Number[Tok(i + 1)], 0)
      BY ONLY <1>6, <2>1, <3>1 DEF Omitted, Digits
    <3> QED
      BY ONLY <1>6, <1>7, <2>1, <3>1, <3>2
  <2>2. CASE ne = 0
    <3>1. e = <<>> /\ step.end = 0
      BY <2>2
    <3>2. e \in Omitted(step.end, 0)
      BY ONLY <3>1 DEF Omitted
    <3> QED
      BY ONLY <2>2, <3>1, <3>2
  <2> QED
    BY ONLY <2>1, <2>2, ne \in {0, 1}
<1>11. /\ d \in Seq(Token) /\ Len(d) = nd /\ (nd = 2 => d[1] = ":" /\ d[2] = Tok(i + ne + 2))
       /\ d \in Steps(step.step)
  <2>1. CASE nd = 2
    <3>1. d = <<":">> \o <<Tok(i + ne + 2)>> /\ step.step = Number[Tok(i + ne + 2)]
      BY <2>1
    <3>2. PICK q, r : q = <<":">> /\ r = <<Tok(i + ne + 2)>>
      OBVIOUS
    <3>3. q \in Seq(Token) /\ Len(q) = 1 /\ q[1] = ":" /\ r \in Seq(Token) /\ Len(r) = 1 /\ r[1] = Tok(i + ne + 2)
      BY <1>6, <1>7, <2>1, <3>2, TokenFacts
    <3>4. d = q \o r
      BY ONLY <3>1, <3>2
    <3>5. d \in Seq(Token) /\ Len(d) = 2 /\ d[1] = ":" /\ d[2] = Tok(i + ne + 2)
      <4> HIDE DEF d
      <4>1. /\ d \in Seq(Token) /\ Len(d) = Len(q) + Len(r)
            /\ \A k \in 1 .. Len(q) + Len(r) : d[k] = IF k <= Len(q) THEN q[k] ELSE r[k - Len(q)]
        BY ONLY <3>3, <3>4, ConcatProperties
      <4> QED
        BY ONLY <3>3, <4>1
    <3>6. d \in Steps(Number[Tok(i + ne + 2)])
      BY ONLY <1>6, <2>1, <3>1 DEF Steps, Digits
    <3> QED
      BY ONLY <2>1, <3>1, <3>5, <3>6
  <2>2. CASE nd = 0
    <3>1. d = <<>> /\ step.step = 1
      BY <2>2
    <3>2. d \in Steps(step.step)
      BY ONLY <3>1 DEF Steps
    <3> QED
      BY ONLY <2>2, <3>1, <3>2
  <2> QED
    BY ONLY <2>1, <2>2, nd \in {0, 2}
<1> HIDE DEF b, e, d
<1>12. /\ x \in Seq(Token) /\ Len(x) = Len(b) + 1 + Len(e) + Len(d)
       /\ x[Len(b) + 1] = ":"
       /\ \A k \in 1 .. Len(b) : x[k] = b[k]
       /\ \A k \in 1 .. Len(e) : x[Len(b) + 1 + k] = e[k]
       /\ \A k \in 1 .. Len(d) : x[Len(b) + 1 + Len(e) + k] = d[k]
  <2>1. b \in Seq(Token) /\ e \in Seq(Token) /\ d \in Seq(Token)
    BY ONLY <1>9, <1>10, <1>11
  <2> QED
    BY ONLY <2>1, SlicePieces, PathAssumption
<1>13. x \in Slices(step)
  <2>1. x # <<":">>
    <3>1. SUFFICES ASSUME x = <<":">>
                   PROVE  FALSE
      OBVIOUS
    <3>2. Len(x) = 1
      BY ONLY <3>1
    <3>3. nb = 0 /\ ne = 0 /\ nd = 0
      <4>1. nb + 1 + ne + nd = 1
        BY ONLY <1>9, <1>10, <1>11, <1>12, <3>2
      <4> QED
        BY ONLY <4>1, nb \in {0, 1}, ne \in {0, 1}, nd \in {0, 2}
    <3>4. i + 0 + 1 = i + 1
      OBVIOUS
    <3> QED
      BY ONLY <1>2, <1>3, <1>5, <3>3, <3>4,
              IF nb = 1 THEN IsInt(2) /\ start = Number[Tok(2)] /\ omits = {":", "]"}
                        ELSE start = 0 /\ omits = {":"}
  <2> HIDE DEF step
  <2>2. b \in Omitted(step.start, 0) /\ e \in Omitted(step.end, 0) /\ d \in Steps(step.step)
    BY ONLY <1>9, <1>10, <1>11
  <2>3. b \o <<":">> \o e \o d \in Slices(step)
    BY ONLY <2>1, <2>2, SliceFrom
  <2> QED
    BY ONLY <2>3
<1>14. c \in Nat /\ c = nb + ne + nd + 3
  BY ONLY <1>1, nb \in {0, 1}, ne \in {0, 1}, nd \in {0, 2}
<1>15. c \in 1 .. Len(input) /\ input[c] = "]"
  <2>1. c \in Nat \ {0}
    BY ONLY <1>14, nb \in {0, 1}, ne \in {0, 1}, nd \in {0, 2}
  <2>2. Tok(c) # Nil
    BY ONLY <1>5, TokenFacts, PathAssumption
  <2> HIDE DEF c
  <2> QED
    BY ONLY <1>5, <2>1, <2>2, TokRead, PathAssumption, input \in Seq(Token)
<1>16. SubSeq(input, 1, c) = <<"[">> \o x \o <<"]">>
  <2>1. \A k \in 1 .. c : Tok(k) = input[k]
    <3>1. \A k \in 1 .. c : k <= Len(input)
      BY ONLY <1>15, input \in Seq(Token)
    <3> QED
      BY ONLY <3>1 DEF Tok
  <2>2. input[1] = "["
    <3>1. 1 \in 1 .. c
      BY ONLY <1>14, nb \in {0, 1}, ne \in {0, 1}, nd \in {0, 2}
    <3> QED
      BY ONLY <2>1, <3>1, Tok(1) = "["
  <2>3. Len(x) = nb + 1 + ne + nd
    BY ONLY <1>9, <1>10, <1>11, <1>12
  <2>4. c = Len(x) + 2
    BY ONLY <1>14, <2>3, nb \in {0, 1}, ne \in {0, 1}, nd \in {0, 2}
  <2>5. ASSUME NEW k \in 1 .. nb + 1 + ne + nd
        PROVE  Tok(k + 1) = x[k]
    <3>1. \/ k = nb + 1 /\ k + 1 = nb + 2
          \/ nb = 1 /\ k = 1 /\ k + 1 = 2
          \/ ne = 1 /\ k = nb + 1 + 1 /\ k + 1 = i + 1
          \/ nd = 2 /\ k = nb + 1 + ne + 1 /\ k + 1 = i + ne + 1
          \/ nd = 2 /\ k = nb + 1 + ne + 2 /\ k + 1 = i + ne + 2
      BY ONLY <1>1, <2>5, nb \in {0, 1}, ne \in {0, 1}, nd \in {0, 2}
    <3>2. CASE k = nb + 1 /\ k + 1 = nb + 2
      BY ONLY <1>9, <1>12, <3>2, Tok(nb + 2) = ":"
    <3>3. CASE nb = 1 /\ k = 1 /\ k + 1 = 2
      <4>1. 1 \in 1 .. Len(b)
        BY ONLY <1>9, <3>3
      <4> QED
        BY ONLY <1>9, <1>12, <3>3, <4>1
    <3>4. CASE ne = 1 /\ k = nb + 1 + 1 /\ k + 1 = i + 1
      <4>1. 1 \in 1 .. Len(e)
        BY ONLY <1>10, <3>4
      <4>2. x[Len(b) + 1 + 1] = e[1]
        BY ONLY <1>12, <4>1
      <4> QED
        BY ONLY <1>9, <1>10, <3>4, <4>2
    <3>5. CASE nd = 2 /\ k = nb + 1 + ne + 1 /\ k + 1 = i + ne + 1
      <4>1. 1 \in 1 .. Len(d)
        BY ONLY <1>11, <3>5
      <4>2. x[Len(b) + 1 + Len(e) + 1] = d[1]
        BY ONLY <1>12, <4>1
      <4> QED
        BY ONLY <1>3, <1>9, <1>10, <1>11, <3>5, <4>2
    <3>6. CASE nd = 2 /\ k = nb + 1 + ne + 2 /\ k + 1 = i + ne + 2
      <4>1. 2 \in 1 .. Len(d)
        BY ONLY <1>11, <3>6
      <4>2. x[Len(b) + 1 + Len(e) + 2] = d[2]
        BY ONLY <1>12, <4>1
      <4> QED
        BY ONLY <1>9, <1>10, <1>11, <3>6, <4>2
    <3> QED
      BY ONLY <3>1, <3>2, <3>3, <3>4, <3>5, <3>6
  <2>6. \A k \in 1 .. Len(x) : input[k + 1] = x[k]
    <3>1. \A k \in 1 .. nb + 1 + ne + nd : k + 1 \in 1 .. c
      BY ONLY <1>14, nb \in {0, 1}, ne \in {0, 1}, nd \in {0, 2}
    <3> QED
      BY ONLY <2>1, <2>3, <2>5, <3>1
  <2> HIDE DEF c, x
  <2> QED
    BY ONLY <1>12, <1>15, <2>2, <2>4, <2>6, BracketedPrefix, PathAssumption, input \in Seq(Token)
<1>17. SubSeq(input, 1, c) \in Forms(step, Rest(c))
  <2>1. step.type = "slice"
    OBVIOUS
  <2> HIDE DEF step, c, x
  <2>2. Forms(step, Rest(c)) = InBrackets(Slices(step))
    BY ONLY <2>1, FormsBy
  <2> QED
    BY ONLY <1>13, <1>16, <2>2 DEF InBrackets
<1> HIDE DEF step, c
<1> QED
  BY ONLY <1>5, <1>8, <1>15, <1>17 DEF WrittenStep

\* The vector of a list is begun.
BeginsIndexes ==
  /\ Tok(1) = "[" /\ IsInt(2) /\ Tok(3) = ","
  /\ indexes' = <<Number[Tok(2)]>>
  /\ blocks' = blocks + 2
  /\ input' = Rest(2)
  /\ UNCHANGED <<path, result>>

\* What is read in brackets is a form of the step compiled, or begins a list.
LEMMA BracketedWritten ==
  ASSUME PathAssumption, input \in Seq(Token), Bracketed
  PROVE  Refused \/ BeginsIndexes \/ \E step, n : Compiled(step, n) /\ WrittenStep(step, n)
<1>1. Tok(1) = "["
  BY DEF Bracketed
<1>2. input[1] = "["
  <2>1. Tok(1) # Nil /\ 1 \in Nat \ {0}
    <3>1. Tok(1) # Nil
      BY ONLY <1>1, TokenFacts, PathAssumption
    <3> QED
      BY ONLY <3>1
  <2> QED
    BY <1>1, <2>1, TokRead
<1>3. \A x \in Seq(Token) : (Len(x) = 1 /\ Tok(2) = x[1] /\ Tok(3) = "]") =>
        3 \in 1 .. Len(input) /\ SubSeq(input, 1, 3) = <<"[">> \o x \o <<"]">>
  <2> SUFFICES ASSUME NEW x \in Seq(Token), Len(x) = 1, Tok(2) = x[1], Tok(3) = "]"
               PROVE  3 \in 1 .. Len(input) /\ SubSeq(input, 1, 3) = <<"[">> \o x \o <<"]">>
    OBVIOUS
  <2>1. 3 \in 1 .. Len(input) /\ input[3] = "]"
    <3>1. Tok(3) # Nil /\ 3 \in Nat \ {0}
      <4>1. Tok(3) # Nil
        BY ONLY TokenFacts, PathAssumption, Tok(3) = "]"
      <4> QED
        BY ONLY <4>1
    <3> QED
      BY <3>1, TokRead
  <2>2. input[2] = x[1]
    <3>1. 2 <= Len(input)
      BY <2>1
    <3> QED
      BY <3>1 DEF Tok
  <2>3. \A i \in 1 .. Len(x) : input[i + 1] = x[i]
    <3>1. \A i \in 1 .. 1 : i = 1 /\ i + 1 = 2
      OBVIOUS
    <3> QED
      BY <2>2, <3>1
  <2>4. 3 = Len(x) + 2
    OBVIOUS
  <2> QED
    BY <1>2, <2>1, <2>3, <2>4, BracketedPrefix
<1>4. CASE AnyElement
  <2>1. Tok(2) = "*" /\ Tok(3) = "]" /\ Compiled([type |-> "anyElement"], 3)
    BY <1>4 DEF AnyElement
  <2>2. PICK x : x = <<"*">>
    OBVIOUS
  <2>3. x \in Seq(Token) /\ Len(x) = 1 /\ x[1] = "*"
    BY <2>2, TokenFacts
  <2>4. 3 \in 1 .. Len(input) /\ SubSeq(input, 1, 3) = <<"[">> \o x \o <<"]">>
    BY <1>3, <2>1, <2>3
  <2>5. <<"[">> \o x \o <<"]">> = <<"[", "*", "]">>
    <3>1. PICK form, f : form = <<"[", "*", "]">> /\ f = <<"[">> \o x \o <<"]">>
      OBVIOUS
    <3>2. "[" \in Token /\ "*" \in Token /\ "]" \in Token
      BY TokenFacts
    <3>3. form \in Seq(Token) /\ Len(form) = 3 /\ form[1] = "[" /\ form[2] = "*" /\ form[3] = "]"
      BY ONLY <3>1, <3>2
    <3>4. f \in Seq(Token) /\ Len(f) = 3 /\ f[1] = "[" /\ f[1 + 1] = x[1] /\ f[3] = "]"
      <4>1. /\ f \in Seq(Token) /\ Len(f) = Len(x) + 2 /\ f[1] = "["
            /\ \A i \in 1 .. Len(x) : f[i + 1] = x[i]
            /\ f[Len(x) + 2] = "]"
        BY ONLY <2>3, <3>1, <3>2, Bracketing
      <4>2. 1 \in 1 .. 1 /\ 1 + 2 = 3
        OBVIOUS
      <4> QED
        BY ONLY <2>3, <4>1, <4>2
    <3>5. 1 + 1 = 2 /\ \A i \in 1 .. 3 : i = 1 \/ i = 2 \/ i = 3
      OBVIOUS
    <3>6. \A i \in 1 .. 3 : f[i] = form[i]
      BY ONLY <2>3, <3>3, <3>4, <3>5
    <3>7. f = form
      BY ONLY <3>3, <3>4, <3>6, SeqEqual
    <3> QED
      BY ONLY <3>1, <3>7
  <2>6. [type |-> "anyElement"] \in Step
    BY DEF Step
  <2>7. SubSeq(input, 1, 3) \in Forms([type |-> "anyElement"], Rest(3))
    BY ONLY <2>4, <2>5 DEF Forms
  <2> QED
    BY ONLY <2>1, <2>4, <2>6, <2>7 DEF WrittenStep
<1>5. CASE Quoted
  BY <1>1, <1>5, QuotedWritten
<1>6. CASE Tok(2) = ":" /\ Sliced(0, 2, {":"})
  <2>1. 0 + 2 = 2 /\ 0 \in Int /\ 0 \in {0, 1} /\ 0 # 1
    OBVIOUS
  <2>2. Tok(0 + 2) = ":" /\ Sliced(0, 0 + 2, {":"})
    BY ONLY <1>6, <2>1
  <2> QED
    BY ONLY <1>1, <2>1, <2>2, SliceWritten, PathAssumption, input \in Seq(Token)
<1>7. CASE Subscript
  <2>1. \/ Refused
        \/ IsInt(2) /\ Tok(3) = "]" /\ Compiled([type |-> "element", index |-> Number[Tok(2)]], 3)
        \/ IsInt(2) /\ Tok(3) = ":" /\ Sliced(Number[Tok(2)], 3, {":", "]"})
        \/ BeginsIndexes
    BY ONLY <1>1, <1>7 DEF Subscript, BeginsIndexes
  <2>2. CASE IsInt(2) /\ Tok(3) = "]" /\ Compiled([type |-> "element", index |-> Number[Tok(2)]], 3)
    <3>1. PICK d \in DOMAIN Number : d = Tok(2)
      BY <2>2 DEF IsInt
    <3>2. PICK x : x = <<d>>
      OBVIOUS
    <3>3. x \in Seq(Token) /\ Len(x) = 1 /\ x[1] = d /\ Number[d] \in Int
      BY <3>2, TokenFacts
    <3>4. 3 \in 1 .. Len(input) /\ SubSeq(input, 1, 3) = <<"[">> \o x \o <<"]">>
      BY <1>3, <2>2, <3>1, <3>3
    <3>5. PICK step : step = [type |-> "element", index |-> Number[d]]
      OBVIOUS
    <3>6. step \in Step /\ step.type = "element" /\ step.index = Number[d]
      BY <3>3, <3>5 DEF Step
    <3>7. SubSeq(input, 1, 3) \in Forms(step, Rest(3))
      <4>1. Forms(step, Rest(3)) = InBrackets({<<t>> : t \in Digits(step.index)})
        BY ONLY <3>6, FormsBy
      <4>2. x \in {<<t>> : t \in Digits(step.index)}
        BY ONLY <3>1, <3>2, <3>6 DEF Digits
      <4> QED
        BY ONLY <3>4, <4>1, <4>2 DEF InBrackets
    <3> QED
      BY ONLY <2>2, <3>1, <3>4, <3>5, <3>6, <3>7 DEF WrittenStep
  <2>3. CASE IsInt(2) /\ Tok(3) = ":" /\ Sliced(Number[Tok(2)], 3, {":", "]"})
    <3>1. 1 + 2 = 3 /\ 1 \in {0, 1}
      OBVIOUS
    <3>2. Tok(1 + 2) = ":" /\ Sliced(Number[Tok(2)], 1 + 2, {":", "]"})
      BY ONLY <2>3, <3>1
    <3>3. Number[Tok(2)] \in Int
      BY <2>3, TokenFacts DEF IsInt
    <3> QED
      BY ONLY <1>1, <2>3, <3>1, <3>2, <3>3, SliceWritten, PathAssumption, input \in Seq(Token)
  <2> QED
    BY ONLY <2>1, <2>2, <2>3
<1> QED
  BY <1>4, <1>5, <1>6, <1>7 DEF Bracketed

\* Whatever is read and not refused is written so.
LEMMA ParsesWritten ==
  ASSUME PathAssumption, input \in Seq(Token), Parses
  PROVE  \/ Refused \/ Finish \/ BeginsIndexes
         \/ \E step, n : Compiled(step, n) /\ WrittenStep(step, n)
<1>1. CASE Dotted
  BY <1>1, DottedWritten
<1>2. CASE Bracketed
  BY <1>2, BracketedWritten
<1>3. CASE NoStep \/ Finish
  BY <1>3 DEF NoStep
<1> QED
  BY <1>1, <1>2, <1>3 DEF Parses

-----------------------------------------------------------------------------
(* The texts of one step more. *)

\* More texts after a step, more texts with it.
LEMMA WriteMonotonic ==
  ASSUME NEW s, NEW A, NEW B, A \subseteq B
  PROVE  StepTexts(s, A) \subseteq StepTexts(s, B)
BY DEF StepTexts

\* A form of one more step after the steps of a text makes a text of all.
LEMMA TextsAppend ==
  ASSUME PathAssumption, NEW list \in Seq(Step), NEW s \in Step, NEW after,
         NEW form \in Forms(s, after)
  PROVE  TextsFrom(list, form \o after)[1] \subseteq TextsFrom(Append(list, s), after)[1]
<1> DEFINE V == TextsFrom(list, form \o after)
           W == TextsFrom(Append(list, s), after)
<1>1. PICK n \in Nat : n = Len(list)
  OBVIOUS
<1>2. V[n + 1] = {form \o after} /\ \A i \in 1 .. n : V[i] = StepTexts(list[i], V[i + 1])
  <2>1. /\ V[Len(list) + 1] = {form \o after}
        /\ \A i \in 1 .. Len(list) : V[i] = StepTexts(list[i], V[i + 1])
    BY ONLY TextsStep, list \in Seq(Step)
  <2> HIDE DEF V
  <2> QED
    BY ONLY <1>1, <2>1
<1>3. PICK more : more = Append(list, s)
  OBVIOUS
<1>4. more \in Seq(Step) /\ Len(more) = n + 1 /\ more[n + 1] = s /\ \A i \in 1 .. n : more[i] = list[i]
  BY ONLY <1>1, <1>3, AppendProperties, list \in Seq(Step), s \in Step
<1>5. W[n + 2] = {after} /\ W[n + 1] = StepTexts(s, W[n + 2]) /\ \A i \in 1 .. n : W[i] = StepTexts(list[i], W[i + 1])
  <2>1. /\ TextsFrom(more, after)[Len(more) + 1] = {after}
        /\ \A i \in 1 .. Len(more) : TextsFrom(more, after)[i] = StepTexts(more[i], TextsFrom(more, after)[i + 1])
    BY ONLY <1>4, TextsStep
  <2>2. n + 1 \in 1 .. n + 1 /\ n + 1 + 1 = n + 2 /\ \A i \in 1 .. n : i \in 1 .. n + 1
    OBVIOUS
  <2>3. W = TextsFrom(more, after)
    BY ONLY <1>3
  <2> HIDE DEF W
  <2> QED
    BY ONLY <1>4, <2>1, <2>2, <2>3
<1> HIDE DEF V, W
<1>6. V[n + 1] \subseteq W[n + 1]
  <2>1. form \o after \in StepTexts(s, {after})
    BY DEF StepTexts
  <2> QED
    BY <1>2, <1>5, <2>1
<1> DEFINE S == {k \in Nat : k <= n => V[n + 1 - k] \subseteq W[n + 1 - k]}
<1>7. 0 \in S
  BY <1>1, <1>6
<1>8. ASSUME NEW k \in Nat, k \in S
      PROVE  k + 1 \in S
  <2> SUFFICES ASSUME k + 1 <= n
               PROVE  V[n + 1 - (k + 1)] \subseteq W[n + 1 - (k + 1)]
    OBVIOUS
  <2>1. PICK i : i = n - k
    OBVIOUS
  <2>2. i \in 1 .. n /\ n + 1 - k = i + 1 /\ n + 1 - (k + 1) = i /\ k <= n
    BY <2>1
  <2>3. V[i + 1] \subseteq W[i + 1]
    BY <1>8, <2>2
  <2>4. StepTexts(list[i], V[i + 1]) \subseteq StepTexts(list[i], W[i + 1])
    BY ONLY <2>3, WriteMonotonic
  <2> QED
    BY ONLY <1>2, <1>5, <2>2, <2>4
<1> HIDE DEF S
<1>9. n \in S
  BY ONLY <1>7, <1>8, NatInductionOn, n \in Nat
<1>10. V[n + 1 - n] \subseteq W[n + 1 - n]
  BY ONLY <1>9, n \in Nat DEF S
<1>11. n + 1 - n = 1
  OBVIOUS
<1> QED
  BY ONLY <1>10, <1>11 DEF V, W

\* A step more is its blocks more.
LEMMA BlocksAppend ==
  ASSUME NEW X, NEW p \in Seq(X), NEW s \in X
  PROVE  /\ BlocksOf(Append(p, s)) = BlocksOf(p) + BlocksOf(<<s>>)
         /\ BlocksOf(p) \in Nat
         /\ BlocksOf(<<s>>) = IF s.type \in {"member", "list"} THEN 2 ELSE 1
         /\ BlocksOf(<<>>) = 0
<1> DEFINE two == {"member", "list"}
           P == {i \in DOMAIN p : p[i].type \in two}
<1>1. PICK n \in Nat : n = Len(p) /\ DOMAIN p = 1 .. n
  OBVIOUS
<1>2. PICK q : q = Append(p, s)
  OBVIOUS
<1>3. /\ q \in Seq(X) /\ Len(q) = n + 1 /\ q[n + 1] = s /\ DOMAIN q = 1 .. n + 1
      /\ \A i \in 1 .. n : q[i] = p[i]
  BY ONLY <1>1, <1>2, p \in Seq(X), s \in X
<1>4. IsFiniteSet(P) /\ Cardinality(P) \in Nat /\ n + 1 \notin P
  <2>1. P \subseteq 1 .. n
    BY <1>1
  <2>2. IsFiniteSet(1 .. n)
    BY FS_Interval
  <2>3. n + 1 \notin 1 .. n
    OBVIOUS
  <2> QED
    BY <2>1, <2>2, <2>3, FS_Subset, FS_CardinalityType
<1>5. BlocksOf(p) = n + Cardinality(P)
  BY ONLY <1>1 DEF BlocksOf
<1>6. BlocksOf(q) = n + 1 + Cardinality(IF s.type \in two THEN P \cup {n + 1} ELSE P)
  <2>1. {i \in DOMAIN q : q[i].type \in two} = IF s.type \in two THEN P \cup {n + 1} ELSE P
    <3>1. \A i : i \in 1 .. n + 1 <=> i \in 1 .. n \/ i = n + 1
      OBVIOUS
    <3>2. n + 1 \notin 1 .. n
      OBVIOUS
    <3> QED
      BY ONLY <1>1, <1>3, <3>1, <3>2
  <2> QED
    BY ONLY <1>3, <2>1 DEF BlocksOf
<1>7. Cardinality(P \cup {n + 1}) = Cardinality(P) + 1
  BY ONLY <1>4, FS_AddElement
<1>8. BlocksOf(<<s>>) = IF s.type \in two THEN 2 ELSE 1
  <2>1. PICK o : o = <<s>>
    OBVIOUS
  <2>2. Len(o) = 1 /\ DOMAIN o = {1} /\ o[1] = s
    BY ONLY <2>1
  <2>3. {i \in DOMAIN o : o[i].type \in two} = IF s.type \in two THEN {1} ELSE {}
    BY ONLY <2>2
  <2>4. Cardinality({1}) = 1 /\ Cardinality({}) = 0
    BY FS_Singleton, FS_EmptySet
  <2>5. BlocksOf(o) = 1 + Cardinality(IF s.type \in two THEN {1} ELSE {})
    BY ONLY <2>2, <2>3 DEF BlocksOf
  <2> QED
    BY ONLY <2>1, <2>4, <2>5
<1>9. BlocksOf(<<>>) = 0
  <2>1. PICK o : o = <<>>
    OBVIOUS
  <2>2. Len(o) = 0 /\ DOMAIN o = {}
    BY ONLY <2>1
  <2>3. {i \in DOMAIN o : o[i].type \in two} = {}
    BY ONLY <2>2
  <2>4. Cardinality({}) = 0
    BY FS_EmptySet
  <2> QED
    BY ONLY <2>1, <2>2, <2>3, <2>4 DEF BlocksOf
<1> HIDE DEF P
<1> QED
  BY ONLY <1>2, <1>4, <1>5, <1>6, <1>7, <1>8, <1>9

-----------------------------------------------------------------------------
(* The text of a list, an index at a time. *)

\* What follows the first k tokens.
Drop(full, k) == SubSeq(full, k + 1, Len(full))
\* The indexes in brackets, before a text.
ListText(x, after) == (<<"[">> \o x \o <<"]">>) \o after

\* The rest of a text, from any place.
LEMMA Dropped ==
  ASSUME NEW full \in Seq(Token), NEW k \in 0 .. Len(full), input = Drop(full, k)
  PROVE  /\ input \in Seq(Token) /\ Len(input) = Len(full) - k
         /\ \A i \in 1 .. Len(full) - k : Tok(i) = full[k + i]
         /\ \A m \in 0 .. Len(full) - k : Rest(m) = Drop(full, k + m)
<1>1. PICK L \in Nat : L = Len(full)
  OBVIOUS
<1>2. k \in Nat /\ k <= L
  BY <1>1
<1>3. /\ input \in Seq(Token) /\ Len(input) = L - k
      /\ \A i \in 1 .. L - k : input[i] = full[k + i]
  <2>1. k + 1 \in Int /\ L \in Int /\ \A i \in k + 1 .. L : i \in 1 .. L
    BY ONLY <1>2, L \in Nat
  <2>2. \A i \in k + 1 .. L : full[i] \in Token
    BY ONLY <1>1, <2>1, full \in Seq(Token)
  <2>3. /\ input \in Seq(Token) /\ Len(input) = IF k + 1 <= L THEN L - (k + 1) + 1 ELSE 0
        /\ \A i \in 1 .. L - (k + 1) + 1 : input[i] = full[k + 1 + i - 1]
    BY ONLY <1>1, <2>1, <2>2, SubSeqProperties, input = Drop(full, k) DEF Drop
  <2>4. /\ (IF k + 1 <= L THEN L - (k + 1) + 1 ELSE 0) = L - k /\ L - (k + 1) + 1 = L - k
        /\ \A i \in 1 .. L - k : k + 1 + i - 1 = k + i
    BY ONLY <1>2, L \in Nat
  <2> QED
    BY ONLY <2>3, <2>4
<1>4. \A i \in 1 .. L - k : Tok(i) = full[k + i]
  <2>1. \A i \in 1 .. L - k : i <= L - k
    BY ONLY <1>2, L \in Nat
  <2> QED
    BY ONLY <1>3, <2>1 DEF Tok
<1>5. \A m \in 0 .. L - k : Rest(m) = Drop(full, k + m)
  <2> TAKE m \in 0 .. L - k
  <2>1. PICK r, d : r = Rest(m) /\ d = Drop(full, k + m)
    OBVIOUS
  <2>2. m \in Nat /\ m <= L - k
    BY ONLY <1>2, L \in Nat, m \in 0 .. L - k
  <2>3. /\ r \in Seq(Token) /\ Len(r) = L - k - m
        /\ \A i \in 1 .. L - k - m : r[i] = full[k + m + i]
    <3>1. m + 1 \in Int /\ L - k \in Int /\ \A i \in m + 1 .. L - k : i \in 1 .. L - k
      BY ONLY <1>2, <2>2, L \in Nat
    <3>2. \A i \in m + 1 .. L - k : input[i] \in Token
      BY ONLY <1>3, <3>1
    <3>3. /\ r \in Seq(Token) /\ Len(r) = IF m + 1 <= L - k THEN L - k - (m + 1) + 1 ELSE 0
          /\ \A i \in 1 .. L - k - (m + 1) + 1 : r[i] = input[m + 1 + i - 1]
      BY ONLY <1>3, <2>1, <3>1, <3>2, SubSeqProperties DEF Rest
    <3>4. /\ (IF m + 1 <= L - k THEN L - k - (m + 1) + 1 ELSE 0) = L - k - m /\ L - k - (m + 1) + 1 = L - k - m
          /\ \A i \in 1 .. L - k - m : m + 1 + i - 1 = m + i /\ m + i \in 1 .. L - k /\ k + (m + i) = k + m + i
      BY ONLY <1>2, <2>2, L \in Nat
    <3>5. \A i \in 1 .. L - k - m : r[i] = input[m + i]
      BY ONLY <3>3, <3>4
    <3> QED
      BY ONLY <1>3, <3>3, <3>4, <3>5
  <2>4. /\ d \in Seq(Token) /\ Len(d) = L - k - m
        /\ \A i \in 1 .. L - k - m : d[i] = full[k + m + i]
    <3>1. k + m + 1 \in Int /\ L \in Int /\ \A i \in k + m + 1 .. L : i \in 1 .. L
      BY ONLY <1>2, <2>2, L \in Nat
    <3>2. \A i \in k + m + 1 .. L : full[i] \in Token
      BY ONLY <1>1, <3>1, full \in Seq(Token)
    <3>3. /\ d \in Seq(Token) /\ Len(d) = IF k + m + 1 <= L THEN L - (k + m + 1) + 1 ELSE 0
          /\ \A i \in 1 .. L - (k + m + 1) + 1 : d[i] = full[k + m + 1 + i - 1]
      <4>1. d = SubSeq(full, k + m + 1, L)
        BY ONLY <1>1, <2>1 DEF Drop
      <4>2. PICK n : n = k + m + 1
        OBVIOUS
      <4>3. n \in Int /\ L \in Int /\ (\A i \in n .. L : full[i] \in Token) /\ d = SubSeq(full, n, L)
        BY ONLY <3>1, <3>2, <4>1, <4>2
      <4>4. /\ d \in Seq(Token) /\ Len(d) = IF n <= L THEN L - n + 1 ELSE 0
            /\ \A i \in 1 .. L - n + 1 : d[i] = full[n + i - 1]
        BY ONLY <4>3, SubSeqProperties
      <4> QED
        BY ONLY <4>2, <4>4
    <3>4. /\ (IF k + m + 1 <= L THEN L - (k + m + 1) + 1 ELSE 0) = L - k - m /\ L - (k + m + 1) + 1 = L - k - m
          /\ \A i \in 1 .. L - k - m : k + m + 1 + i - 1 = k + m + i
      BY ONLY <1>2, <2>2, L \in Nat
    <3> QED
      BY ONLY <3>3, <3>4
  <2> QED
    BY ONLY <2>1, <2>3, <2>4, SeqEqual
<1> QED
  BY ONLY <1>1, <1>3, <1>4, <1>5

\* The text of a list behind its first j indexes.
LEMMA ListRest ==
  ASSUME PathAssumption, NEW list \in Seq(Int), NEW x \in Numbers(list), NEW after \in Seq(Token),
         NEW j \in 1 .. Len(list), input = Drop(ListText(x, after), 2 * j)
  PROVE  /\ input \in Seq(Token)
         /\ j = Len(list) => Tok(1) = "]" /\ Rest(1) = after
         /\ j < Len(list) =>
              /\ Tok(1) = "," /\ IsInt(2) /\ Number[Tok(2)] = list[j + 1]
              /\ Tok(3) = IF j + 1 = Len(list) THEN "]" ELSE ","
              /\ Rest(2) = Drop(ListText(x, after), 2 * (j + 1))
<1>1. PICK n \in Nat : n = Len(list)
  OBVIOUS
<1>2. PICK full : full = ListText(x, after)
  OBVIOUS
<1>3. /\ x \in Seq(Token) /\ Len(x) = 2 * n - 1 /\ n > 1
      /\ \A i \in 1 .. n : x[2 * i - 1] \in DOMAIN Number /\ Number[x[2 * i - 1]] = list[i]
      /\ \A i \in 1 .. n - 1 : x[2 * i] = ","
  BY <1>1, NumbersShape
<1>4. PICK form : form = <<"[">> \o x \o <<"]">>
  OBVIOUS
<1>5. PICK F \in Nat : F = 2 * n + 1
  BY ONLY n \in Nat
<1>6. /\ form \in Seq(Token) /\ Len(form) = F
      /\ \A i \in 1 .. 2 * n - 1 : form[i + 1] = x[i]
      /\ form[F] = "]"
  <2>1. "[" \in Token /\ "]" \in Token
    BY TokenFacts
  <2>2. /\ form \in Seq(Token) /\ Len(form) = Len(x) + 2
        /\ \A i \in 1 .. Len(x) : form[i + 1] = x[i]
        /\ form[Len(x) + 2] = "]"
    BY ONLY <1>3, <1>4, <2>1, Bracketing
  <2>3. Len(x) + 2 = F
    <3>1. Len(x) = 2 * n - 1
      BY <1>3
    <3> QED
      BY ONLY <1>5, <3>1, n \in Nat
  <2>4. Len(x) = 2 * n - 1
    BY <1>3
  <2> QED
    BY ONLY <2>2, <2>3, <2>4
<1>7. PICK A \in Nat : A = Len(after)
  OBVIOUS
<1>8. /\ full \in Seq(Token) /\ Len(full) = F + A
      /\ \A i \in 1 .. F : full[i] = form[i]
      /\ \A i \in 1 .. A : full[F + i] = after[i]
  <2>1. full = form \o after
    BY ONLY <1>2, <1>4 DEF ListText
  <2>2. /\ full \in Seq(Token) /\ Len(full) = Len(form) + Len(after)
        /\ \A i \in 1 .. Len(form) + Len(after) : full[i] = IF i <= Len(form) THEN form[i] ELSE after[i - Len(form)]
    BY ONLY <1>6, <2>1, ConcatProperties, after \in Seq(Token)
  <2>3. \A i \in 1 .. F : i \in 1 .. F + A /\ i <= F
    BY ONLY F \in Nat, A \in Nat
  <2>4. \A i \in 1 .. A : F + i \in 1 .. F + A /\ ~(F + i <= F) /\ F + i - F = i
    BY ONLY F \in Nat, A \in Nat
  <2>5. \A i \in 1 .. F : full[i] = form[i]
    BY ONLY <1>6, <1>7, <2>2, <2>3
  <2>6. \A i \in 1 .. A : full[F + i] = after[i]
    <3> TAKE i \in 1 .. A
    <3>1. PICK k : k = F + i
      OBVIOUS
    <3>2. k \in 1 .. F + A /\ ~(k <= F) /\ k - F = i
      BY ONLY <2>4, <3>1, i \in 1 .. A
    <3>3. full[k] = after[i]
      BY ONLY <1>6, <1>7, <2>2, <3>2
    <3> QED
      BY ONLY <3>1, <3>3
  <2> QED
    BY ONLY <1>6, <1>7, <2>2, <2>5, <2>6
<1>9. j \in Nat /\ j > 0 /\ j <= n /\ n > 1
  <2>1. n > 1
    BY ONLY <1>3
  <2>2. j \in Nat /\ j > 0 /\ j <= n
    BY ONLY <1>1, n \in Nat, j \in 1 .. Len(list)
  <2> QED
    BY ONLY <2>1, <2>2
<1>10. PICK k \in Nat : k = 2 * j
  BY ONLY <1>9
<1>11. /\ k \in 0 .. Len(full) /\ Len(full) - k = F + A - k /\ k < F
  BY ONLY <1>5, <1>8, <1>9, <1>10, A \in Nat, n \in Nat, k \in Nat
<1>12. /\ input \in Seq(Token) /\ Len(input) = F + A - k
       /\ \A i \in 1 .. F + A - k : Tok(i) = full[k + i]
       /\ \A m \in 0 .. F + A - k : Rest(m) = Drop(full, k + m)
  <2>1. input = Drop(full, k)
    BY ONLY <1>2, <1>10, input = Drop(ListText(x, after), 2 * j)
  <2>2. /\ input \in Seq(Token) /\ Len(input) = Len(full) - k
        /\ \A i \in 1 .. Len(full) - k : Tok(i) = full[k + i]
        /\ \A m \in 0 .. Len(full) - k : Rest(m) = Drop(full, k + m)
    BY ONLY <1>8, <1>11, <2>1, Dropped
  <2> QED
    BY ONLY <1>11, <2>2
<1>13. ASSUME NEW i \in 1 .. F - k
       PROVE  Tok(i) = form[k + i]
  <2>1. i \in 1 .. F + A - k /\ k + i \in 1 .. F
    BY ONLY <1>11, A \in Nat, F \in Nat, k \in Nat, i \in 1 .. F - k
  <2> QED
    BY ONLY <1>8, <1>12, <2>1
<1>14. ASSUME j = n
       PROVE  Tok(1) = "]" /\ Rest(1) = after
  <2>1. k + 1 = F /\ 1 \in 1 .. F - k /\ 1 \in 0 .. F + A - k
    BY ONLY <1>5, <1>10, <1>14, n \in Nat, A \in Nat, k \in Nat
  <2>2. Tok(1) = form[k + 1]
    BY ONLY <1>13, <2>1
  <2>3. Rest(1) = Drop(full, F)
    BY ONLY <1>12, <2>1
  <2>4. Drop(full, F) = after
    <3>1. PICK d : d = Drop(full, F)
      OBVIOUS
    <3>2. F + 1 \in Int /\ F + A \in Int /\ \A i \in F + 1 .. F + A : i \in 1 .. F + A
      BY ONLY A \in Nat, F \in Nat
    <3>3. \A i \in F + 1 .. F + A : full[i] \in Token
      BY ONLY <1>8, <3>2
    <3>4. /\ d \in Seq(Token) /\ Len(d) = IF F + 1 <= F + A THEN F + A - (F + 1) + 1 ELSE 0
          /\ \A i \in 1 .. F + A - (F + 1) + 1 : d[i] = full[F + 1 + i - 1]
      BY ONLY <1>8, <3>1, <3>2, <3>3, SubSeqProperties DEF Drop
    <3>5. /\ (IF F + 1 <= F + A THEN F + A - (F + 1) + 1 ELSE 0) = A /\ F + A - (F + 1) + 1 = A
          /\ \A i \in 1 .. A : F + 1 + i - 1 = F + i
      BY ONLY A \in Nat, F \in Nat
    <3>6. d \in Seq(Token) /\ Len(d) = A /\ \A i \in 1 .. A : d[i] = full[F + i]
      BY ONLY <3>4, <3>5
    <3> QED
      BY ONLY <1>7, <1>8, <3>1, <3>6, SeqEqual, after \in Seq(Token)
  <2> QED
    BY ONLY <1>6, <2>1, <2>2, <2>3, <2>4
<1>15. ASSUME j < n
       PROVE  /\ Tok(1) = "," /\ IsInt(2) /\ Number[Tok(2)] = list[j + 1]
              /\ Tok(3) = IF j + 1 = n THEN "]" ELSE ","
              /\ Rest(2) = Drop(full, 2 * (j + 1))
  <2>1. /\ 1 \in 1 .. F - k /\ 2 \in 1 .. F - k /\ 3 \in 1 .. F - k /\ 2 \in 0 .. F + A - k
        /\ k + 2 = 2 * (j + 1)
    BY ONLY <1>5, <1>9, <1>10, <1>15, n \in Nat, A \in Nat, k \in Nat
  <2>2. Tok(1) = form[k + 1] /\ Tok(2) = form[k + 2] /\ Tok(3) = form[k + 3] /\ Rest(2) = Drop(full, k + 2)
    BY ONLY <1>12, <1>13, <2>1
  <2>3. form[k + 1] = ","
    <3>1. k \in 1 .. 2 * n - 1 /\ j \in 1 .. n - 1
      BY ONLY <1>9, <1>10, <1>15, n \in Nat, k \in Nat
    <3>2. x[2 * j] = ","
      BY ONLY <1>3, <3>1
    <3> QED
      BY ONLY <1>6, <1>10, <3>1, <3>2
  <2>4. form[k + 2] \in DOMAIN Number /\ Number[form[k + 2]] = list[j + 1]
    <3>1. k + 1 \in 1 .. 2 * n - 1 /\ j + 1 \in 1 .. n /\ 2 * (j + 1) - 1 = k + 1 /\ k + 1 + 1 = k + 2
      BY ONLY <1>9, <1>10, <1>15, n \in Nat, k \in Nat
    <3>2. x[2 * (j + 1) - 1] \in DOMAIN Number /\ Number[x[2 * (j + 1) - 1]] = list[j + 1]
      BY ONLY <1>3, <3>1
    <3>3. form[k + 1 + 1] = x[k + 1]
      BY ONLY <1>6, <3>1
    <3> QED
      BY ONLY <3>1, <3>2, <3>3
  <2>5. form[k + 3] = IF j + 1 = n THEN "]" ELSE ","
    <3>1. CASE j + 1 = n
      <4>1. k + 3 = F
        BY ONLY <1>5, <1>9, <1>10, <3>1, n \in Nat
      <4> QED
        BY ONLY <1>6, <3>1, <4>1
    <3>2. CASE j + 1 # n
      <4>1. k + 2 \in 1 .. 2 * n - 1 /\ j + 1 \in 1 .. n - 1 /\ 2 * (j + 1) = k + 2 /\ k + 2 + 1 = k + 3
        BY ONLY <1>9, <1>10, <1>15, <3>2, n \in Nat, k \in Nat
      <4>2. x[2 * (j + 1)] = ","
        BY ONLY <1>3, <4>1
      <4>3. form[k + 2 + 1] = x[k + 2]
        BY ONLY <1>6, <4>1
      <4> QED
        BY ONLY <3>2, <4>1, <4>2, <4>3
    <3> QED
      BY ONLY <3>1, <3>2
  <2> QED
    BY ONLY <2>1, <2>2, <2>3, <2>4, <2>5 DEF IsInt
<1> QED
  BY ONLY <1>1, <1>2, <1>12, <1>14, <1>15

\* The text of the indexes read so far.
IndexesText(s, list) ==
  /\ s \in Seq(Token) /\ Len(s) = 2 * Len(list) - 1
  /\ \A i \in 1 .. Len(list) : s[2 * i - 1] \in Digits(list[i])
  /\ \A i \in 1 .. Len(list) - 1 : s[2 * i] = ","

\* At the closing bracket the indexes read are those of a list.
LEMMA IndexesDone ==
  ASSUME PathAssumption, NEW list \in Seq(Int), NEW s, IndexesText(s, list), Len(list) > 1
  PROVE  s \in Numbers(list)
<1>1. PICK n \in Nat : n = Len(list) /\ n > 1 /\ DOMAIN list = 1 .. n
  OBVIOUS
<1>2. /\ s \in Seq(Token) /\ Len(s) = 2 * n - 1
      /\ \A i \in 1 .. n : s[2 * i - 1] \in Digits(list[i])
      /\ \A i \in 1 .. n - 1 : s[2 * i] = ","
  BY <1>1 DEF IndexesText
<1>3. \A k \in 1 .. 2 * n - 1 : s[k] \in DOMAIN Number \cup {","}
  <2> TAKE k \in 1 .. 2 * n - 1
  <2>1. (\E i \in 1 .. n : k = 2 * i - 1) \/ (\E i \in 1 .. n - 1 : k = 2 * i)
    <3>1. k \in Nat /\ k >= 1 /\ k <= 2 * n - 1
      BY ONLY n \in Nat, k \in 1 .. 2 * n - 1
    <3>2. PICK i \in Nat : k = 2 * i \/ k = 2 * i + 1
      <4>1. k = 2 * (k \div 2) + (k % 2) /\ k % 2 \in 0 .. 1 /\ k \div 2 \in Nat
        BY ONLY <3>1
      <4> QED
        BY ONLY <4>1
    <3>3. CASE k = 2 * i
      <4>1. i \in 1 .. n - 1
        BY ONLY <3>1, <3>3, i \in Nat, n \in Nat
      <4> QED
        BY ONLY <3>3, <4>1
    <3>4. CASE k = 2 * i + 1
      <4>1. i + 1 \in 1 .. n /\ k = 2 * (i + 1) - 1
        BY ONLY <3>1, <3>4, i \in Nat, n \in Nat
      <4> QED
        BY ONLY <4>1
    <3> QED
      BY ONLY <3>2, <3>3, <3>4
  <2> QED
    BY ONLY <1>2, <2>1 DEF Digits
<1>4. s \in [1 .. 2 * n - 1 -> DOMAIN Number \cup {","}]
  <2>1. s \in [1 .. Len(s) -> Token]
    BY ONLY <1>2, LenProperties
  <2>2. s \in [1 .. 2 * n - 1 -> Token]
    BY ONLY <1>2, <2>1
  <2> QED
    BY ONLY <1>3, <2>2
<1> QED
  BY ONLY <1>1, <1>2, <1>4 DEF Numbers

\* A comma and a number are one index more.
LEMMA IndexesMore ==
  ASSUME PathAssumption, NEW list \in Seq(Int), list # <<>>, NEW s, IndexesText(s, list),
         input \in Seq(Token), Tok(1) = ",", IsInt(2)
  PROVE  /\ IndexesText(s \o SubSeq(input, 1, 2), Append(list, Number[Tok(2)]))
         /\ s \o input = (s \o SubSeq(input, 1, 2)) \o Rest(2)
         /\ 2 \in 1 .. Len(input)
<1>1. PICK n \in Nat : n = Len(list) /\ n > 0
  BY ONLY EmptySeq, list \in Seq(Int), list # <<>>
<1>2. /\ s \in Seq(Token) /\ Len(s) = 2 * n - 1
      /\ \A i \in 1 .. n : s[2 * i - 1] \in Digits(list[i])
      /\ \A i \in 1 .. n - 1 : s[2 * i] = ","
  BY <1>1 DEF IndexesText
<1>3. PICK d \in DOMAIN Number : d = Tok(2)
  BY DEF IsInt
<1>4. d \in Token /\ Number[d] \in Int
  BY TokenFacts
<1>5. 2 \in 1 .. Len(input) /\ input[1] = "," /\ input[2] = d
  <2>1. Tok(2) # Nil
    BY ONLY <1>3, <1>4, TokenFacts, PathAssumption
  <2>2. 2 \in Nat \ {0}
    BY ONLY <2>1
  <2>3. 2 \in 1 .. Len(input) /\ input[2] = d
    BY ONLY <1>3, <2>1, <2>2, TokRead, PathAssumption, input \in Seq(Token)
  <2>4. 1 <= Len(input)
    BY ONLY <2>3, input \in Seq(Token)
  <2> QED
    BY ONLY <2>3, <2>4, Tok(1) = "," DEF Tok
<1>6. PICK p, r : p = SubSeq(input, 1, 2) /\ r = Rest(2)
  OBVIOUS
<1>7. /\ p \in Seq(Token) /\ Len(p) = 2 /\ p[1] = "," /\ p[2] = d
      /\ r \in Seq(Token) /\ input = p \o r
  <2>1. p \in Seq(Token) /\ Len(p) = 2 /\ r \in Seq(Token) /\ input = p \o r
    BY ONLY <1>5, <1>6, Prefix, input \in Seq(Token)
  <2> QED
    <3>1. p[1] = input[1] /\ p[2] = input[2]
      <4>1. 1 \in Int /\ 2 \in Int /\ \A i \in 1 .. 2 : i \in 1 .. Len(input)
        <5>1. 2 \in 1 .. Len(input)
          BY ONLY <1>5
        <5> QED
          BY ONLY <5>1, input \in Seq(Token)
      <4>2. \A i \in 1 .. 2 : input[i] \in Token
        BY ONLY <4>1, input \in Seq(Token)
      <4>3. \A i \in 1 .. 2 - 1 + 1 : p[i] = input[1 + i - 1]
        BY ONLY <1>6, <4>1, <4>2, SubSeqProperties
      <4>4. 1 \in 1 .. 2 - 1 + 1 /\ 2 \in 1 .. 2 - 1 + 1 /\ 1 + 1 - 1 = 1 /\ 1 + 2 - 1 = 2
        BY ONLY <4>1
      <4> QED
        BY ONLY <4>3, <4>4
    <3> QED
      BY ONLY <1>5, <2>1, <3>1
<1>8. PICK t : t = s \o p
  OBVIOUS
<1>9. PICK S \in Nat : S = 2 * n - 1
  <2>1. n > 0
    BY ONLY <1>1
  <2>2. 2 * n - 1 \in Nat
    BY ONLY <2>1, n \in Nat
  <2> QED
    BY ONLY <2>2
<1>10. /\ t \in Seq(Token) /\ Len(t) = S + 2
       /\ \A i \in 1 .. S : t[i] = s[i]
       /\ t[S + 1] = "," /\ t[S + 2] = d
  <2>1. /\ t \in Seq(Token) /\ Len(t) = Len(s) + Len(p)
        /\ \A i \in 1 .. Len(s) + Len(p) : t[i] = IF i <= Len(s) THEN s[i] ELSE p[i - Len(s)]
    BY ONLY <1>2, <1>7, <1>8, ConcatProperties
  <2>2. \A i \in 1 .. S : i \in 1 .. S + 2 /\ i <= S
    BY ONLY S \in Nat
  <2>3. /\ S + 1 \in 1 .. S + 2 /\ ~(S + 1 <= S) /\ S + 1 - S = 1
        /\ S + 2 \in 1 .. S + 2 /\ ~(S + 2 <= S) /\ S + 2 - S = 2
    BY ONLY S \in Nat
  <2>4. Len(s) = S /\ Len(p) = 2
    BY ONLY <1>2, <1>7, <1>9
  <2>5. \A i \in 1 .. S + 2 : t[i] = IF i <= S THEN s[i] ELSE p[i - S]
    BY ONLY <2>1, <2>4
  <2>6. \A i \in 1 .. S : t[i] = s[i]
    BY ONLY <2>2, <2>5
  <2>7. t[S + 1] = p[S + 1 - S] /\ t[S + 2] = p[S + 2 - S]
    BY ONLY <2>3, <2>5
  <2>8. t[S + 1] = p[1] /\ t[S + 2] = p[2]
    BY ONLY <2>3, <2>7
  <2> QED
    BY ONLY <1>7, <2>1, <2>4, <2>6, <2>8
<1>11. PICK more : more = Append(list, Number[d])
  OBVIOUS
<1>12. more \in Seq(Int) /\ Len(more) = n + 1 /\ more[n + 1] = Number[d] /\ \A i \in 1 .. n : more[i] = list[i]
  BY ONLY <1>1, <1>4, <1>11, AppendProperties, list \in Seq(Int)
<1>13. IndexesText(t, more)
  <2>1. Len(t) = 2 * (n + 1) - 1
    <3>1. S + 2 = 2 * (n + 1) - 1
      BY ONLY <1>9, n \in Nat
    <3> QED
      BY ONLY <1>10, <3>1
  <2>2. \A i \in 1 .. n + 1 : t[2 * i - 1] \in Digits(more[i])
    <3> TAKE i \in 1 .. n + 1
    <3>1. CASE i = n + 1
      <4>1. 2 * i - 1 = S + 2
        BY ONLY <1>9, <3>1, n \in Nat
      <4> QED
        BY ONLY <1>10, <1>12, <3>1, <4>1, d \in DOMAIN Number DEF Digits
    <3>2. CASE i # n + 1
      <4>1. i \in 1 .. n /\ 2 * i - 1 \in 1 .. S
        BY ONLY <1>9, <3>2, n \in Nat, i \in 1 .. n + 1
      <4> QED
        BY ONLY <1>2, <1>10, <1>12, <4>1
    <3> QED
      BY ONLY <3>1, <3>2
  <2>3. \A i \in 1 .. n + 1 - 1 : t[2 * i] = ","
    <3> TAKE i \in 1 .. n + 1 - 1
    <3>1. CASE i = n
      <4>1. 2 * i = S + 1
        BY ONLY <1>9, <3>1, n \in Nat
      <4> QED
        BY ONLY <1>10, <4>1
    <3>2. CASE i # n
      <4>1. i \in 1 .. n - 1 /\ 2 * i \in 1 .. S
        BY ONLY <1>9, <3>2, n \in Nat, i \in 1 .. n + 1 - 1
      <4> QED
        BY ONLY <1>2, <1>10, <4>1
    <3> QED
      BY ONLY <3>1, <3>2
  <2> QED
    <3>1. Len(more) = n + 1
      BY ONLY <1>12
    <3>2. t \in Seq(Token)
      BY ONLY <1>10
    <3>3. Len(t) = 2 * Len(more) - 1
      BY ONLY <2>1, <3>1
    <3>4. \A i \in 1 .. Len(more) : t[2 * i - 1] \in Digits(more[i])
      BY ONLY <2>2, <3>1
    <3>5. \A i \in 1 .. Len(more) - 1 : t[2 * i] = ","
      <4>1. n + 1 - 1 = n
        BY ONLY n \in Nat
      <4>2. Len(more) - 1 = n
        BY ONLY <3>1, n \in Nat
      <4> QED
        BY ONLY <2>3, <4>1, <4>2
    <3> QED
      BY ONLY <3>2, <3>3, <3>4, <3>5 DEF IndexesText
<1>14. s \o input = t \o r
  <2>1. s \in Seq(Token) /\ p \in Seq(Token) /\ r \in Seq(Token) /\ input = p \o r
    BY ONLY <1>2, <1>7
  <2>2. (s \o p) \o r = s \o (p \o r)
    BY ONLY <2>1, ConcatAssociative
  <2> QED
    BY ONLY <1>8, <2>1, <2>2
<1> QED
  BY ONLY <1>3, <1>5, <1>6, <1>8, <1>11, <1>13, <1>14

-----------------------------------------------------------------------------
(* The invariant.  A path without a bad end is compiled along the steps it   *)
(* was written from; every path read is a text of the steps compiled.        *)

\* The path is the steps meant up to some place, and the text those from there on;
\* inside a list, the vector is its first j indexes and the text the other ones.
TracksAt(m, p, ix, inp) ==
  \E i \in 1 .. Len(m) + 1 :
    /\ Tail(p) = SubSeq(m, 1, i - 1)
    /\ \/ ix = Nil /\ inp \in TextsFrom(m, <<>>)[i]
       \/ /\ i <= Len(m) /\ m[i].type = "list"
          /\ \E j \in 1 .. Len(m[i].list), x \in Numbers(m[i].list), after \in TextsFrom(m, <<>>)[i + 1] :
               ix = SubSeq(m[i].list, 1, j) /\ inp = Drop(ListText(x, after), 2 * j)

\* The text at the start is one of the steps compiled, the indexes read and the
\* text still to read.
ReadsAt(m, b, p, ix, inp) ==
  \E t \in PathTexts(m, b) :
    \/ ix = Nil /\ t \in TextsFrom(Tail(p), inp)[1]
    \/ \E s : /\ ix # Nil /\ IndexesText(s, ix) /\ inp # <<>> /\ inp[1] \in {",", "]"}
              /\ inp[1] = "]" => Len(ix) > 1
              /\ t \in TextsFrom(Tail(p), <<"[">> \o (s \o inp))[1]

\* A root, and steps.
PathTyped(p) == p \in Seq(Step \cup {root}) /\ p # <<>> /\ Tail(p) \in Seq(Step)

\* The path with one step more.
LEMMA PathAppend ==
  ASSUME NEW p, PathTyped(p), NEW s \in Step
  PROVE  /\ PathTyped(Append(p, s)) /\ Tail(Append(p, s)) = Append(Tail(p), s)
         /\ BlocksOf(Append(p, s)) = BlocksOf(p) + BlocksOf(<<s>>) /\ BlocksOf(p) \in Nat
         /\ BlocksOf(<<s>>) = IF s.type \in {"member", "list"} THEN 2 ELSE 1
<1>1. p \in Seq(Step \cup {root}) /\ p # <<>> /\ Tail(p) \in Seq(Step)
  BY DEF PathTyped
<1>2. s \in Step \cup {root}
  OBVIOUS
<1>3. Append(p, s) \in Seq(Step \cup {root}) /\ Append(p, s) # <<>>
  BY ONLY <1>1, <1>2, AppendProperties
<1>4. Tail(Append(p, s)) = Append(Tail(p), s)
  BY ONLY <1>1, HeadTailAppend
<1>5. Append(Tail(p), s) \in Seq(Step)
  BY ONLY <1>1, AppendProperties, s \in Step
<1>6. /\ BlocksOf(Append(p, s)) = BlocksOf(p) + BlocksOf(<<s>>) /\ BlocksOf(p) \in Nat
      /\ BlocksOf(<<s>>) = IF s.type \in {"member", "list"} THEN 2 ELSE 1
  BY ONLY <1>1, <1>2, BlocksAppend
<1> QED
  BY ONLY <1>1, <1>3, <1>4, <1>5, <1>6 DEF PathTyped

\* The first i members are the first i - 1 and the next.
LEMMA SubSeqAppend ==
  ASSUME NEW X, NEW m \in Seq(X), NEW i \in 1 .. Len(m)
  PROVE  Append(SubSeq(m, 1, i - 1), m[i]) = SubSeq(m, 1, i)
<1>1. 1 \in 1 .. Len(m) /\ i \in 1 .. Len(m)
  OBVIOUS
<1>2. SubSeq(m, 1, i) = SubSeq(m, 1, i - 1) \o <<m[i]>>
  BY ONLY <1>1, SubSeqRecursiveSecond, m \in Seq(X)
<1>3. SubSeq(m, 1, i - 1) \in Seq(X) /\ m[i] \in X
  OBVIOUS
<1> QED
  BY ONLY <1>2, <1>3, AppendIsConcat

\* A step written from those meant is compiled, or begins its list.
LEMMA TrackParse ==
  ASSUME PathAssumption, meant \in Seq(Step), PathTyped(path), indexes = Nil,
         TracksAt(meant, path, indexes, input), Parses
  PROVE  \/ Finish /\ Tail(path) = meant
         \/ result' = result /\ TracksAt(meant, path', indexes', input')
<1>1. PICK i \in 1 .. Len(meant) + 1 :
        Tail(path) = SubSeq(meant, 1, i - 1) /\ input \in TextsFrom(meant, <<>>)[i]
  <2>1. PICK i \in 1 .. Len(meant) + 1 :
          /\ Tail(path) = SubSeq(meant, 1, i - 1)
          /\ \/ input \in TextsFrom(meant, <<>>)[i]
             \/ /\ i <= Len(meant) /\ meant[i].type = "list"
                /\ \E j \in 1 .. Len(meant[i].list) : indexes = SubSeq(meant[i].list, 1, j)
    BY ONLY TracksAt(meant, path, indexes, input) DEF TracksAt
  <2>2. ASSUME i <= Len(meant), meant[i].type = "list",
               NEW j \in 1 .. Len(meant[i].list), indexes = SubSeq(meant[i].list, 1, j)
        PROVE  FALSE
    <3>1. meant[i] \in Step
      BY <2>2
    <3>2. meant[i].list \in Seq(Int)
      BY ONLY <2>2, <3>1, StepTypes
    <3>3. SubSeq(meant[i].list, 1, j) \in Seq(Int)
      BY <3>2
    <3> QED
      BY <2>2, <3>3 DEF PathAssumption
  <2> QED
    BY ONLY <2>1, <2>2
<1>2. PICK n \in Nat : n = Len(meant)
  OBVIOUS
<1>3. <<>> \in Seq(Token)
  BY TokenFacts
<1>4. /\ TextsFrom(meant, <<>>)[n + 1] = {<<>>}
      /\ \A k \in 1 .. n : TextsFrom(meant, <<>>)[k] = StepTexts(meant[k], TextsFrom(meant, <<>>)[k + 1])
  BY ONLY <1>2, TextsStep, meant \in Seq(Step)
<1>5. \A k \in 1 .. n + 1 : TextsFrom(meant, <<>>)[k] \subseteq Seq(Token)
  BY ONLY <1>2, <1>3, TextShape, PathAssumption, meant \in Seq(Step)
<1>6. CASE i = n + 1
  <2>1. input = <<>>
    BY ONLY <1>1, <1>4, <1>6
  <2>2. Tok(1) = Nil
    <3>1. ~(1 <= Len(<<>>))
      OBVIOUS
    <3> QED
      BY ONLY <2>1, <3>1 DEF Tok
  <2>3. Finish
    <3>1. Tok(1) # "." /\ Tok(1) # "["
      BY ONLY <2>2, TokenFacts, PathAssumption
    <3> QED
      BY ONLY <2>1, <3>1, Parses DEF Parses, Dotted, Bracketed, NoStep
  <2>4. SubSeq(meant, 1, i - 1) = meant
    <3>1. i - 1 = Len(meant)
      BY ONLY <1>2, <1>6, n \in Nat
    <3> QED
      BY ONLY <3>1, SubSeqFull, meant \in Seq(Step)
  <2> QED
    BY ONLY <1>1, <2>3, <2>4
<1>7. CASE i # n + 1
  <2>1. i \in 1 .. n /\ i + 1 \in 1 .. n + 1 /\ i + 1 - 1 = i
    BY ONLY <1>2, <1>7, n \in Nat, i \in 1 .. Len(meant) + 1
  <2>2. PICK after \in TextsFrom(meant, <<>>)[i + 1] : \E form \in Forms(meant[i], after) : input = form \o after
    <3>1. input \in StepTexts(meant[i], TextsFrom(meant, <<>>)[i + 1])
      BY ONLY <1>1, <1>4, <2>1
    <3> QED
      BY ONLY <3>1 DEF StepTexts
  <2>3. PICK form \in Forms(meant[i], after) : input = form \o after
    BY ONLY <2>2
  <2>4. after \in Seq(Token)
    BY ONLY <1>5, <2>1, <2>2
  <2>5. meant[i] \in Step
    BY ONLY <1>2, <2>1, meant \in Seq(Step)
  <2>6. CASE meant[i].type # "list"
    <3>1. Compiled(meant[i], Len(form))
      BY ONLY <2>3, <2>4, <2>5, <2>6, ReadsForm, PathAssumption, Parses
    <3>2. /\ path' = Append(path, meant[i]) /\ input' = Rest(Len(form))
          /\ indexes' = indexes /\ result' = result
      BY ONLY <3>1 DEF Compiled
    <3>3. Rest(Len(form)) = after
      <4>1. form \in Seq(Token)
        BY ONLY <2>3, <2>4, <2>5, FormShape, PathAssumption
      <4> QED
        BY ONLY <2>3, <2>4, <4>1, InputTokens
    <3>4. Tail(path') = SubSeq(meant, 1, i)
      <4>1. Tail(path') = Append(SubSeq(meant, 1, i - 1), meant[i])
        BY ONLY <1>1, <2>5, <3>2, PathAppend, PathTyped(path)
      <4> QED
        BY ONLY <1>2, <2>1, <4>1, SubSeqAppend, meant \in Seq(Step)
    <3>5. Tail(path') = SubSeq(meant, 1, i + 1 - 1) /\ indexes' = Nil /\ input' \in TextsFrom(meant, <<>>)[i + 1]
      BY ONLY <2>1, <2>2, <3>2, <3>3, <3>4, indexes = Nil
    <3>6. i + 1 \in 1 .. Len(meant) + 1
      BY ONLY <1>2, <2>1
    <3>7. TracksAt(meant, path', indexes', input')
      BY ONLY <3>5, <3>6 DEF TracksAt
    <3> QED
      BY ONLY <3>2, <3>7
  <2>7. CASE meant[i].type = "list"
    <3>1. PICK list \in Seq(Int) : list = meant[i].list
      BY ONLY <2>5, <2>7, StepTypes
    <3>2. PICK x \in Numbers(list) : form = <<"[">> \o x \o <<"]">>
      <4>1. Forms(meant[i], after) = InBrackets(Numbers(list))
        BY ONLY <2>7, <3>1, FormsBy
      <4> QED
        BY ONLY <2>3, <4>1 DEF InBrackets
    <3>3. input = ListText(x, after)
      BY ONLY <2>3, <3>2 DEF ListText
    <3>4. BeginsList(list)
      <4>1. input = (<<"[">> \o x \o <<"]">>) \o after
        BY ONLY <3>3 DEF ListText
      <4> QED
        BY ONLY <2>4, <4>1, ReadsList, PathAssumption, Parses
    <3>5. /\ path' = path /\ input' = Rest(2) /\ indexes' = SubSeq(list, 1, 1) /\ result' = result
      BY ONLY <3>4 DEF BeginsList
    <3>6. input' = Drop(ListText(x, after), 2 * 1)
      <4>1. 2 * 1 = 2
        OBVIOUS
      <4> QED
        BY ONLY <3>3, <3>5, <4>1 DEF Drop, Rest
    <3>7. 1 \in 1 .. Len(list)
      <4>1. Len(list) > 1
        BY ONLY <3>2, NumbersShape, PathAssumption
      <4> QED
        BY ONLY <4>1, list \in Seq(Int)
    <3>8. i <= Len(meant)
      BY ONLY <1>2, <2>1
    <3>9. Tail(path') = SubSeq(meant, 1, i - 1)
      BY ONLY <1>1, <3>5
    <3>10. TracksAt(meant, path', indexes', input')
      BY ONLY <2>2, <2>7, <3>1, <3>5, <3>6, <3>7, <3>8, <3>9, i \in 1 .. Len(meant) + 1 DEF TracksAt
    <3> QED
      BY ONLY <3>5, <3>10
  <2> QED
    BY ONLY <2>6, <2>7
<1> QED
  BY ONLY <1>6, <1>7

\* So is a list, an index at a time.
LEMMA TrackList ==
  ASSUME PathAssumption, meant \in Seq(Step), PathTyped(path), indexes \in Seq(Int),
         TracksAt(meant, path, indexes, input), ListStep
  PROVE  result' = result /\ TracksAt(meant, path', indexes', input')
<1>1. indexes # Nil
  BY DEF PathAssumption
<1>2. PICK i \in 1 .. Len(meant) + 1 :
        /\ Tail(path) = SubSeq(meant, 1, i - 1)
        /\ i <= Len(meant) /\ meant[i].type = "list"
        /\ \E j \in 1 .. Len(meant[i].list), x \in Numbers(meant[i].list), after \in TextsFrom(meant, <<>>)[i + 1] :
             indexes = SubSeq(meant[i].list, 1, j) /\ input = Drop(ListText(x, after), 2 * j)
  BY ONLY <1>1, TracksAt(meant, path, indexes, input) DEF TracksAt
<1>3. i \in 1 .. Len(meant) /\ i + 1 \in 1 .. Len(meant) + 1 /\ i + 1 - 1 = i
  BY ONLY <1>2, i \in 1 .. Len(meant) + 1, meant \in Seq(Step)
<1>4. meant[i] \in Step
  BY ONLY <1>3, meant \in Seq(Step)
<1>5. PICK list \in Seq(Int) : list = meant[i].list /\ meant[i] = [type |-> "list", list |-> list]
  BY ONLY <1>2, <1>4, StepTypes
<1>6. PICK j \in 1 .. Len(list), x \in Numbers(list), after \in TextsFrom(meant, <<>>)[i + 1] :
        indexes = SubSeq(list, 1, j) /\ input = Drop(ListText(x, after), 2 * j)
  BY ONLY <1>2, <1>5
<1>7. after \in Seq(Token)
  <2>1. <<>> \in Seq(Token)
    BY TokenFacts
  <2>2. \A k \in 1 .. Len(meant) + 1 : TextsFrom(meant, <<>>)[k] \subseteq Seq(Token)
    BY ONLY <2>1, TextShape, PathAssumption, meant \in Seq(Step)
  <2> QED
    BY ONLY <1>3, <1>6, <2>2
<1>8. /\ j = Len(list) => Tok(1) = "]" /\ Rest(1) = after
      /\ j < Len(list) =>
           /\ Tok(1) = "," /\ IsInt(2) /\ Number[Tok(2)] = list[j + 1]
           /\ Tok(3) = IF j + 1 = Len(list) THEN "]" ELSE ","
           /\ Rest(2) = Drop(ListText(x, after), 2 * (j + 1))
  BY ONLY <1>6, <1>7, ListRest, PathAssumption
<1>9. CASE j = Len(list)
  <2>1. path' = Append(path, [type |-> "list", list |-> indexes]) /\ indexes' = Nil /\ input' = after /\ result' = result
    BY ONLY <1>8, <1>9, ListStep DEF ListStep
  <2>2. indexes = list
    BY ONLY <1>6, <1>9, SubSeqFull, list \in Seq(Int)
  <2>3. path' = Append(path, meant[i])
    BY ONLY <1>5, <2>1, <2>2
  <2>4. Tail(path') = SubSeq(meant, 1, i + 1 - 1)
    <3>1. Tail(path') = Append(SubSeq(meant, 1, i - 1), meant[i])
      BY ONLY <1>2, <1>4, <2>3, PathAppend, PathTyped(path)
    <3> QED
      BY ONLY <1>3, <3>1, SubSeqAppend, meant \in Seq(Step)
  <2>5. TracksAt(meant, path', indexes', input')
    <3>1. input' \in TextsFrom(meant, <<>>)[i + 1] /\ indexes' = Nil
      BY ONLY <2>1, after \in TextsFrom(meant, <<>>)[i + 1]
    <3>2. i + 1 \in 1 .. Len(meant) + 1
      BY ONLY <1>3
    <3>3. PICK k \in 1 .. Len(meant) + 1 : k = i + 1
      BY ONLY <3>2
    <3>4. Tail(path') = SubSeq(meant, 1, k - 1) /\ input' \in TextsFrom(meant, <<>>)[k] /\ indexes' = Nil
      BY ONLY <2>4, <3>1, <3>3
    <3> QED
      BY ONLY <3>4, k \in 1 .. Len(meant) + 1 DEF TracksAt
  <2> QED
    BY ONLY <2>1, <2>5
<1>10. CASE j # Len(list)
  <2>1. j + 1 \in 1 .. Len(list) /\ j < Len(list) /\ j + 1 - 1 = j
    BY ONLY <1>10, j \in 1 .. Len(list), list \in Seq(Int)
  <2>2. Tok(1) # "]" /\ Tok(3) \in {",", "]"} /\ IsInt(2)
    <3>1. "," # "]"
      OBVIOUS
    <3> QED
      BY ONLY <1>8, <2>1, <3>1
  <2>3. path' = path /\ indexes' = Append(indexes, Number[Tok(2)]) /\ input' = Rest(2) /\ result' = result
    BY ONLY <2>2, ListStep DEF ListStep
  <2>4. indexes' = SubSeq(list, 1, j + 1)
    <3>1. Append(SubSeq(list, 1, j + 1 - 1), list[j + 1]) = SubSeq(list, 1, j + 1)
      BY ONLY <2>1, SubSeqAppend, list \in Seq(Int)
    <3> QED
      BY ONLY <1>6, <1>8, <2>1, <2>3, <3>1
  <2>5. input' = Drop(ListText(x, after), 2 * (j + 1))
    BY ONLY <1>8, <2>1, <2>3
  <2>6. Tail(path') = SubSeq(meant, 1, i - 1)
    BY ONLY <1>2, <2>3
  <2>7. TracksAt(meant, path', indexes', input')
    BY ONLY <1>2, <1>5, <1>6, <2>1, <2>4, <2>5, <2>6 DEF TracksAt
  <2> QED
    BY ONLY <2>3, <2>7
<1> QED
  BY ONLY <1>9, <1>10

\* What is compiled was read, and the blocks are counted.
LEMMA ReadParse ==
  ASSUME PathAssumption, input \in Seq(Token), PathTyped(path), indexes = Nil,
         ReadsAt(meant, bad, path, indexes, input), Parses
  PROVE  \/ Refused
         \/ Finish
         \/ /\ result' = result /\ input' \in Seq(Token) /\ PathTyped(path')
            /\ \/ indexes' = Nil /\ blocks' = blocks + BlocksOf(path') - BlocksOf(path)
               \/ indexes' \in Seq(Int) /\ indexes' # <<>> /\ path' = path /\ blocks' = blocks + 2
            /\ ReadsAt(meant, bad, path', indexes', input')
<1>1. PICK t \in PathTexts(meant, bad) : t \in TextsFrom(Tail(path), input)[1]
  BY ONLY ReadsAt(meant, bad, path, indexes, input), indexes = Nil DEF ReadsAt
<1>2. \/ Refused \/ Finish \/ BeginsIndexes
      \/ \E step, n : Compiled(step, n) /\ WrittenStep(step, n)
  BY ONLY ParsesWritten, PathAssumption, input \in Seq(Token), Parses
<1>3. Tail(path) \in Seq(Step)
  BY DEF PathTyped
<1>4. ASSUME NEW step, NEW n, Compiled(step, n), WrittenStep(step, n)
      PROVE  /\ result' = result /\ input' \in Seq(Token) /\ PathTyped(path')
             /\ indexes' = Nil /\ blocks' = blocks + BlocksOf(path') - BlocksOf(path)
             /\ ReadsAt(meant, bad, path', indexes', input')
  <2>1. step \in Step /\ n \in 1 .. Len(input) /\ SubSeq(input, 1, n) \in Forms(step, Rest(n))
    BY ONLY <1>4 DEF WrittenStep
  <2>2. Rest(n) \in Seq(Token) /\ input = SubSeq(input, 1, n) \o Rest(n)
    BY ONLY <2>1, Prefix, input \in Seq(Token)
  <2>3. TextsFrom(Tail(path), SubSeq(input, 1, n) \o Rest(n))[1] \subseteq TextsFrom(Append(Tail(path), step), Rest(n))[1]
    BY ONLY <1>3, <2>1, TextsAppend, PathAssumption
  <2>4. t \in TextsFrom(Append(Tail(path), step), Rest(n))[1]
    BY ONLY <1>1, <2>2, <2>3
  <2>5. /\ path' = Append(path, step) /\ input' = Rest(n) /\ indexes' = indexes /\ result' = result
        /\ blocks' = blocks + BlocksOf(<<step>>)
    BY ONLY <1>4 DEF Compiled
  <2>6. /\ PathTyped(path') /\ Tail(path') = Append(Tail(path), step)
        /\ BlocksOf(path') = BlocksOf(path) + BlocksOf(<<step>>) /\ BlocksOf(path) \in Nat
        /\ BlocksOf(<<step>>) \in Nat
    <3>1. /\ PathTyped(path') /\ Tail(path') = Append(Tail(path), step)
          /\ BlocksOf(path') = BlocksOf(path) + BlocksOf(<<step>>) /\ BlocksOf(path) \in Nat
          /\ BlocksOf(<<step>>) = IF step.type \in {"member", "list"} THEN 2 ELSE 1
      BY ONLY <2>1, <2>5, PathAppend, PathTyped(path)
    <3>2. (IF step.type \in {"member", "list"} THEN 2 ELSE 1) \in Nat
      OBVIOUS
    <3> QED
      BY ONLY <3>1, <3>2
  <2>7. BlocksOf(<<step>>) = BlocksOf(path') - BlocksOf(path)
    BY ONLY <2>6
  <2>8. blocks + (BlocksOf(path') - BlocksOf(path)) = blocks + BlocksOf(path') - BlocksOf(path)
    OBVIOUS
  <2>9. ReadsAt(meant, bad, path', indexes', input')
    BY ONLY <1>1, <2>4, <2>5, <2>6, indexes = Nil DEF ReadsAt
  <2> QED
    BY ONLY <2>2, <2>5, <2>6, <2>7, <2>8, <2>9, indexes = Nil
<1>5. ASSUME BeginsIndexes
      PROVE  /\ result' = result /\ input' \in Seq(Token) /\ PathTyped(path')
             /\ indexes' \in Seq(Int) /\ indexes' # <<>> /\ path' = path /\ blocks' = blocks + 2
             /\ ReadsAt(meant, bad, path', indexes', input')
  <2>1. /\ Tok(1) = "[" /\ Tok(2) \in DOMAIN Number /\ Tok(3) = ","
        /\ indexes' = <<Number[Tok(2)]>> /\ blocks' = blocks + 2 /\ input' = Rest(2)
        /\ path' = path /\ result' = result
    BY ONLY <1>5 DEF BeginsIndexes, IsInt
  <2>2. PICK d \in DOMAIN Number : d = Tok(2)
    BY ONLY <2>1
  <2>3. d \in Token /\ Number[d] \in Int
    BY TokenFacts
  <2>4. 3 \in 1 .. Len(input) /\ input[3] = ","
    <3>1. Tok(3) # Nil
      BY ONLY <2>1, TokenFacts, PathAssumption
    <3>2. 3 \in Nat \ {0}
      BY ONLY <3>1
    <3> QED
      BY ONLY <2>1, <3>1, <3>2, TokRead, PathAssumption, input \in Seq(Token)
  <2>5. 1 \in 1 .. Len(input) /\ 2 \in 1 .. Len(input) /\ 2 < Len(input) /\ 2 + 1 = 3
    <3>1. 3 \in 1 .. Len(input)
      BY ONLY <2>4
    <3> QED
      BY ONLY <3>1, input \in Seq(Token)
  <2>6. input[1] = "[" /\ input[2] = d
    <3>1. 1 <= Len(input) /\ 2 <= Len(input)
      BY ONLY <2>5, input \in Seq(Token)
    <3> QED
      BY ONLY <2>1, <2>2, <3>1 DEF Tok
  <2>7. PICK r : r = Rest(2)
    OBVIOUS
  <2>8. r \in Seq(Token) /\ r # <<>> /\ r[1] = "," /\ input = SubSeq(input, 1, 2) \o r
    <3>1. /\ Rest(2) \in Seq(Token) /\ input = SubSeq(input, 1, 2) \o Rest(2)
          /\ Rest(2) = <<>> <=> 2 = Len(input)
          /\ 2 < Len(input) => Rest(2)[1] = input[2 + 1]
      BY ONLY <2>5, Prefix, input \in Seq(Token)
    <3>2. 2 # Len(input)
      <4>1. \A m : m = 2 => ~(2 < m)
        OBVIOUS
      <4> QED
        BY ONLY <2>5, <4>1
    <3> QED
      BY ONLY <2>4, <2>5, <2>7, <3>1, <3>2
  <2>9. PICK s : s = <<d>>
    OBVIOUS
  <2>10. s \in Seq(Token) /\ Len(s) = 1 /\ s[1] = d
    BY ONLY <2>3, <2>9
  <2>11. input = <<"[">> \o (s \o r)
    <3>1. PICK b : b = <<"[">>
      OBVIOUS
    <3>2. b \in Seq(Token) /\ Len(b) = 1 /\ b[1] = "["
      <4>1. "[" \in Token
        BY TokenFacts
      <4> QED
        BY ONLY <3>1, <4>1
    <3>3. PICK q : q = b \o s
      OBVIOUS
    <3>4. q \in Seq(Token) /\ Len(q) = 2 /\ q[1] = "[" /\ q[2] = d
      <4>1. /\ q \in Seq(Token) /\ Len(q) = Len(b) + Len(s)
            /\ \A i \in 1 .. Len(b) + Len(s) : q[i] = IF i <= Len(b) THEN b[i] ELSE s[i - Len(b)]
        BY ONLY <2>10, <3>2, <3>3, ConcatProperties
      <4> QED
        BY ONLY <2>10, <3>2, <4>1
    <3>5. SubSeq(input, 1, 2) = q
      <4>1. \A i \in 1 .. 2 : i = 1 \/ i = 2
        BY ONLY <3>4
      <4>2. \A i \in 1 .. 2 : input[i] = q[i]
        BY ONLY <2>6, <3>4, <4>1
      <4> QED
        BY ONLY <2>5, <3>4, <4>2, BeginsWith, input \in Seq(Token)
    <3>6. (b \o s) \o r = b \o (s \o r)
      <4>1. b \in Seq(Token) /\ s \in Seq(Token) /\ r \in Seq(Token)
        BY ONLY <2>8, <2>10, <3>2
      <4> QED
        BY ONLY <4>1, ConcatAssociative
    <3> QED
      BY ONLY <2>8, <3>1, <3>3, <3>5, <3>6
  <2>12. PICK ix : ix = <<Number[d]>>
    OBVIOUS
  <2>13. ix \in Seq(Int) /\ Len(ix) = 1 /\ ix[1] = Number[d] /\ ix # <<>>
    BY ONLY <2>3, <2>12
  <2>14. IndexesText(s, ix)
    <3>1. 2 * 1 - 1 = 1 /\ \A i \in 1 .. 1 : i = 1
      BY ONLY <2>10
    <3>2. \A i \in 1 .. 1 : s[2 * i - 1] \in Digits(ix[i])
      BY ONLY <2>10, <2>13, <3>1, d \in DOMAIN Number DEF Digits
    <3>3. \A i \in 1 .. 1 - 1 : s[2 * i] = ","
      <4>1. \A i \in 1 .. 1 - 1 : FALSE
        OBVIOUS
      <4> QED
        BY ONLY <4>1
    <3> QED
      BY ONLY <2>10, <2>13, <3>1, <3>2, <3>3 DEF IndexesText
  <2>15. ix # Nil
    BY <2>13 DEF PathAssumption
  <2>16. r[1] # "]" /\ r[1] \in {",", "]"}
    <3>1. "," # "]"
      OBVIOUS
    <3> QED
      BY ONLY <2>8, <3>1
  <2>17. t \in TextsFrom(Tail(path), <<"[">> \o (s \o r))[1]
    BY ONLY <1>1, <2>11
  <2>18. ReadsAt(meant, bad, path, ix, r)
    BY ONLY <1>1, <2>8, <2>14, <2>15, <2>16, <2>17 DEF ReadsAt
  <2> QED
    BY ONLY <2>1, <2>2, <2>7, <2>8, <2>12, <2>13, <2>18, PathTyped(path)
<1> QED
  BY ONLY <1>2, <1>4, <1>5

\* So it is for the indexes of a list.
LEMMA ReadList ==
  ASSUME PathAssumption, input \in Seq(Token), PathTyped(path), indexes \in Seq(Int), indexes # <<>>,
         ReadsAt(meant, bad, path, indexes, input), ListStep
  PROVE  \/ Refused
         \/ /\ result' = result /\ input' \in Seq(Token) /\ PathTyped(path') /\ blocks' = blocks
            /\ \/ indexes' = Nil /\ BlocksOf(path') = BlocksOf(path) + 2
               \/ indexes' \in Seq(Int) /\ indexes' # <<>> /\ path' = path
            /\ ReadsAt(meant, bad, path', indexes', input')
<1>1. indexes # Nil
  BY DEF PathAssumption
<1>2. PICK t, s :
        /\ t \in PathTexts(meant, bad)
        /\ IndexesText(s, indexes) /\ input # <<>> /\ input[1] \in {",", "]"}
        /\ input[1] = "]" => Len(indexes) > 1
        /\ t \in TextsFrom(Tail(path), <<"[">> \o (s \o input))[1]
  BY ONLY <1>1, ReadsAt(meant, bad, path, indexes, input) DEF ReadsAt
<1>3. s \in Seq(Token)
  BY ONLY <1>2 DEF IndexesText
<1>4. Tok(1) = input[1] /\ 1 \in 1 .. Len(input)
  <2>1. Len(input) \in Nat \ {0}
    BY ONLY <1>2, EmptySeq, input \in Seq(Token)
  <2>2. 1 \in 1 .. Len(input) /\ 1 <= Len(input)
    BY ONLY <2>1
  <2> QED
    BY ONLY <2>2 DEF Tok
<1>5. PICK b : b = <<"[">>
  OBVIOUS
<1>6. b \in Seq(Token)
  <2>1. "[" \in Token
    BY TokenFacts
  <2> QED
    BY ONLY <1>5, <2>1
<1>7. Tail(path) \in Seq(Step)
  BY DEF PathTyped
<1>8. CASE Tok(1) = "]"
  <2>1. /\ path' = Append(path, [type |-> "list", list |-> indexes])
        /\ indexes' = Nil /\ input' = Rest(1) /\ blocks' = blocks /\ result' = result
    BY ONLY <1>8, ListStep DEF ListStep
  <2>2. PICK step : step = [type |-> "list", list |-> indexes]
    OBVIOUS
  <2>3. step \in Step /\ step.type = "list" /\ step.list = indexes
    BY ONLY <2>2, indexes \in Seq(Int) DEF Step
  <2>4. PICK e, r : e = <<"]">> /\ r = Rest(1)
    OBVIOUS
  <2>5. e \in Seq(Token) /\ r \in Seq(Token) /\ input = e \o r
    <3>1. Rest(1) \in Seq(Token) /\ input = SubSeq(input, 1, 1) \o Rest(1)
      BY ONLY <1>4, Prefix, input \in Seq(Token)
    <3>2. SubSeq(input, 1, 1) = <<input[1]>>
      BY ONLY <1>4, SubSeqOne, input \in Seq(Token)
    <3>3. "]" \in Token
      BY TokenFacts
    <3>4. SubSeq(input, 1, 1) = e
      BY ONLY <1>4, <1>8, <2>4, <3>2
    <3>5. e \in Seq(Token)
      BY ONLY <2>4, <3>3
    <3> QED
      BY ONLY <2>4, <3>1, <3>4, <3>5
  <2>6. PICK form : form = (b \o s) \o e
    OBVIOUS
  <2>7. b \o (s \o input) = form \o r
    <3>1. s \o (e \o r) = (s \o e) \o r
      BY ONLY <1>3, <2>5, ConcatAssociative
    <3>2. s \o e \in Seq(Token)
      BY ONLY <1>3, <2>5, ConcatProperties
    <3>3. (b \o (s \o e)) \o r = b \o ((s \o e) \o r)
      <4>1. e \in Seq(Token) /\ r \in Seq(Token)
        BY ONLY <2>5
      <4>2. PICK u : u = s \o e
        OBVIOUS
      <4>3. (b \o u) \o r = b \o (u \o r)
        <5>1. u \in Seq(Token)
          BY ONLY <3>2, <4>2
        <5> QED
          BY ONLY <1>6, <4>1, <5>1, ConcatAssociative
      <4> QED
        BY ONLY <4>2, <4>3
    <3>4. (b \o s) \o e = b \o (s \o e)
      BY ONLY <1>3, <1>6, <2>5, ConcatAssociative
    <3> QED
      BY ONLY <2>5, <2>6, <3>1, <3>3, <3>4
  <2>8. form \in Forms(step, r)
    <3>1. s \in Numbers(indexes)
      BY ONLY <1>2, <1>4, <1>8, IndexesDone, PathAssumption, indexes \in Seq(Int)
    <3>2. Forms(step, r) = InBrackets(Numbers(indexes))
      BY ONLY <2>3, FormsBy
    <3>3. form = <<"[">> \o s \o <<"]">>
      BY ONLY <1>5, <2>4, <2>6
    <3> QED
      BY ONLY <3>1, <3>2, <3>3 DEF InBrackets
  <2>9. t \in TextsFrom(Append(Tail(path), step), r)[1]
    <3>1. t \in TextsFrom(Tail(path), form \o r)[1]
      BY ONLY <1>2, <1>5, <2>7
    <3>2. TextsFrom(Tail(path), form \o r)[1] \subseteq TextsFrom(Append(Tail(path), step), r)[1]
      BY ONLY <1>7, <2>3, <2>8, TextsAppend, PathAssumption
    <3> QED
      BY ONLY <3>1, <3>2
  <2>10. /\ PathTyped(path') /\ Tail(path') = Append(Tail(path), step)
         /\ BlocksOf(path') = BlocksOf(path) + 2
    <3>1. path' = Append(path, step)
      BY ONLY <2>1, <2>2
    <3>2. /\ PathTyped(path') /\ Tail(path') = Append(Tail(path), step)
          /\ BlocksOf(path') = BlocksOf(path) + BlocksOf(<<step>>) /\ BlocksOf(path) \in Nat
          /\ BlocksOf(<<step>>) = IF step.type \in {"member", "list"} THEN 2 ELSE 1
      BY ONLY <2>3, <3>1, PathAppend, PathTyped(path)
    <3> QED
      BY ONLY <2>3, <3>2
  <2>11. ReadsAt(meant, bad, path', indexes', input')
    BY ONLY <1>2, <2>1, <2>4, <2>9, <2>10 DEF ReadsAt
  <2> QED
    BY ONLY <2>1, <2>4, <2>5, <2>10, <2>11
<1>9. CASE Tok(1) # "]" /\ IsInt(2) /\ Tok(3) \in {",", "]"}
  <2>1. path' = path /\ indexes' = Append(indexes, Number[Tok(2)]) /\ input' = Rest(2) /\ blocks' = blocks /\ result' = result
    BY ONLY <1>9, ListStep DEF ListStep
  <2>2. Tok(1) = ","
    BY ONLY <1>2, <1>4, <1>9
  <2>3. PICK p, r, ix : p = s \o SubSeq(input, 1, 2) /\ r = Rest(2) /\ ix = Append(indexes, Number[Tok(2)])
    OBVIOUS
  <2>4. IndexesText(p, ix) /\ s \o input = p \o r /\ 2 \in 1 .. Len(input)
    BY ONLY <1>2, <1>9, <2>2, <2>3, IndexesMore, PathAssumption, input \in Seq(Token),
            indexes \in Seq(Int), indexes # <<>>
  <2>5. Number[Tok(2)] \in Int
    <3>1. Tok(2) \in DOMAIN Number
      BY ONLY <1>9 DEF IsInt
    <3> QED
      BY ONLY <3>1, TokenFacts, PathAssumption
  <2>6. ix \in Seq(Int) /\ ix # <<>> /\ Len(ix) > 1
    <3>1. ix \in Seq(Int) /\ ix # <<>> /\ Len(ix) = Len(indexes) + 1
      BY ONLY <2>3, <2>5, AppendProperties, indexes \in Seq(Int)
    <3>2. Len(indexes) \in Nat \ {0}
      BY ONLY EmptySeq, indexes \in Seq(Int), indexes # <<>>
    <3> QED
      BY ONLY <3>1, <3>2
  <2>7. ix # Nil
    BY <2>6 DEF PathAssumption
  <2>8. r \in Seq(Token) /\ r # <<>> /\ r[1] \in {",", "]"}
    <3>1. Tok(3) # Nil
      BY ONLY <1>9, TokenFacts, PathAssumption
    <3>2. 3 \in Nat \ {0}
      BY ONLY <3>1
    <3>3. 3 \in 1 .. Len(input) /\ input[3] = Tok(3)
      BY ONLY <3>1, <3>2, TokRead, PathAssumption, input \in Seq(Token)
    <3>4. 2 < Len(input) /\ 2 + 1 = 3 /\ Len(input) \in Nat
      <4>1. 3 \in 1 .. Len(input)
        BY ONLY <3>3
      <4> QED
        BY ONLY <4>1, input \in Seq(Token)
    <3>5. /\ Rest(2) \in Seq(Token)
          /\ Rest(2) = <<>> <=> 2 = Len(input)
          /\ 2 < Len(input) => Rest(2)[1] = input[2 + 1]
      BY ONLY <2>4, Prefix, input \in Seq(Token)
    <3>6. 2 # Len(input)
      <4>1. \A m : m = 2 => ~(2 < m)
        OBVIOUS
      <4> QED
        BY ONLY <3>4, <4>1
    <3> QED
      BY ONLY <1>9, <2>3, <3>3, <3>4, <3>5, <3>6
  <2>9. t \in TextsFrom(Tail(path), <<"[">> \o (p \o r))[1]
    BY ONLY <1>2, <2>4
  <2>10. ReadsAt(meant, bad, path, ix, r)
    BY ONLY <1>2, <2>4, <2>6, <2>7, <2>8, <2>9 DEF ReadsAt
  <2> QED
    BY ONLY <2>1, <2>3, <2>6, <2>8, <2>10, PathTyped(path)
<1>10. CASE Tok(1) # "]" /\ ~(IsInt(2) /\ Tok(3) \in {",", "]"})
  BY ONLY <1>10, ListStep DEF ListStep
<1> QED
  BY ONLY <1>8, <1>9, <1>10

\* The inductive invariant.
PathInv ==
  /\ input \in Seq(Token) /\ meant \in StepLists /\ bad \in BadEnds \cup {Nil}
  /\ result \in {"start", "more", "done", "error", "freed"}
  /\ result = "start" =>
       /\ path = <<>> /\ indexes = Nil /\ blocks = 0
       /\ \E t \in PathTexts(meant, bad) : input = <<"$">> \o t
  /\ result \in {"more", "done"} => PathTyped(path)
  /\ result = "more" =>
       /\ indexes = Nil \/ (indexes \in Seq(Int) /\ indexes # <<>>)
       /\ blocks = BlocksOf(path) + Held
       /\ ReadsAt(meant, bad, path, indexes, input)
       /\ bad = Nil => TracksAt(meant, path, indexes, input)
       /\ bad = Nil => meant # <<>>
  /\ result = "done" =>
       /\ indexes = Nil /\ blocks = BlocksOf(path)
       /\ Tail(path) = meant /\ bad = Nil /\ meant # <<>>
  /\ result = "error" => blocks = 0 /\ (bad # Nil \/ meant = <<>>)
  /\ result = "freed" => blocks = 0 /\ path = <<>>

\* The text behind the steps.
LEMMA EndText ==
  ASSUME PathAssumption, bad \in BadEnds \cup {Nil}
  PROVE  End(bad) \in Seq(Token) /\ End(Nil) = <<>>
<1>1. <<>> \in Seq(Token)
  BY TokenFacts
<1>2. BadEnds \subseteq Seq(Token)
  BY DEF PathAssumption
<1> QED
  BY ONLY <1>1, <1>2, bad \in BadEnds \cup {Nil} DEF End

\* Nothing is read or allocated at first.
LEMMA PathStart ==
  ASSUME PathAssumption, JsonPathInit
  PROVE  PathInv
<1>1. /\ meant \in StepLists /\ bad \in BadEnds \cup {Nil}
      /\ path = <<>> /\ indexes = Nil /\ blocks = 0 /\ result = "start"
  BY DEF JsonPathInit
<1>2. PICK t \in PathTexts(meant, bad) : input = <<"$">> \o t
  BY DEF JsonPathInit
<1>3. input \in Seq(Token)
  <2>1. meant \in Seq(Step)
    BY <1>1 DEF PathAssumption
  <2>2. End(bad) \in Seq(Token)
    BY <1>1, EndText
  <2>3. \A k \in 1 .. Len(meant) + 1 : TextsFrom(meant, End(bad))[k] \subseteq Seq(Token)
    BY ONLY <2>1, <2>2, TextShape, PathAssumption
  <2>4. 1 \in 1 .. Len(meant) + 1
    BY <2>1
  <2>5. PathTexts(meant, bad) \subseteq Seq(Token)
    BY ONLY <2>3, <2>4 DEF PathTexts
  <2>6. t \in Seq(Token)
    BY ONLY <2>5, t \in PathTexts(meant, bad)
  <2>7. <<"$">> \in Seq(Token)
    <3>1. "$" \in Token
      BY TokenFacts
    <3> QED
      BY ONLY <3>1
  <2> QED
    BY ONLY <1>2, <2>6, <2>7, ConcatProperties
<1> QED
  BY ONLY <1>1, <1>2, <1>3 DEF PathInv

\* The text begins with "$" and a step, unless there is none.
LEMMA StartReads ==
  ASSUME PathAssumption, PathInv, result = "start", Start
  PROVE  \/ Refused /\ (bad # Nil \/ meant = <<>>)
         \/ /\ path' = <<root>> /\ blocks' = 1 /\ result' = "more" /\ indexes' = Nil
            /\ input' \in Seq(Token) /\ input' \in PathTexts(meant, bad)
            /\ bad = Nil => meant # <<>>
<1>1. PICK t \in PathTexts(meant, bad) : input = <<"$">> \o t
  BY DEF PathInv
<1>2. meant \in Seq(Step) /\ End(bad) \in Seq(Token) /\ End(Nil) = <<>>
  <2>1. meant \in StepLists /\ bad \in BadEnds \cup {Nil}
    BY DEF PathInv
  <2>2. End(bad) \in Seq(Token) /\ End(Nil) = <<>>
    BY ONLY <2>1, EndText, PathAssumption
  <2> QED
    BY ONLY <2>1, <2>2, PathAssumption DEF PathAssumption
<1>3. \A k \in 1 .. Len(meant) + 1 : TextsFrom(meant, End(bad))[k] \subseteq Seq(Token)
  BY ONLY <1>2, TextShape, PathAssumption
<1>4. 1 \in 1 .. Len(meant) + 1
  BY ONLY <1>2
<1>5. t \in Seq(Token) /\ t \in TextsFrom(meant, End(bad))[1]
  BY ONLY <1>3, <1>4, t \in PathTexts(meant, bad) DEF PathTexts
<1>6. /\ input \in Seq(Token) /\ Tok(1) = "$" /\ Rest(1) = t
      /\ Tok(2) = IF t = <<>> THEN Nil ELSE t[1]
  <2>1. PICK d : d = <<"$">>
    OBVIOUS
  <2>2. d \in Seq(Token) /\ Len(d) = 1 /\ d[1] = "$"
    <3>1. "$" \in Token
      BY TokenFacts
    <3> QED
      BY ONLY <2>1, <3>1
  <2>3. /\ input \in Seq(Token)
        /\ \A i \in 1 .. Len(d) : Tok(i) = d[i]
        /\ Tok(Len(d) + 1) = IF t = <<>> THEN Nil ELSE t[1]
        /\ Rest(Len(d)) = t
    BY ONLY <1>1, <1>5, <2>1, <2>2, InputTokens
  <2>4. 1 \in 1 .. 1 /\ 1 + 1 = 2
    OBVIOUS
  <2> QED
    BY ONLY <2>2, <2>3, <2>4
<1>7. CASE bad = Nil /\ meant = <<>>
  <2>1. t = <<>>
    <3>1. TextsFrom(meant, End(bad))[Len(meant) + 1] = {End(bad)}
      BY ONLY <1>2, TextsStep
    <3>2. Len(meant) + 1 = 1
      BY ONLY <1>7
    <3> QED
      BY ONLY <1>2, <1>5, <1>7, <3>1, <3>2
  <2>2. Tok(2) \notin {".", "["}
    BY ONLY <1>6, <2>1, TokenFacts, PathAssumption
  <2> QED
    BY ONLY <1>7, <2>2, Start DEF Start
<1>8. CASE bad = Nil /\ meant # <<>>
  <2>1. Len(meant) \in Nat \ {0}
    BY ONLY <1>2, <1>8, EmptySeq
  <2>2. 1 \in 1 .. Len(meant) /\ 1 + 1 \in 1 .. Len(meant) + 1
    BY ONLY <2>1
  <2>3. TextsFrom(meant, End(bad))[1] = StepTexts(meant[1], TextsFrom(meant, End(bad))[1 + 1])
    BY ONLY <1>2, <2>2, TextsStep
  <2>4. PICK after \in TextsFrom(meant, End(bad))[1 + 1] : \E form \in Forms(meant[1], after) : t = form \o after
    <3>1. t \in StepTexts(meant[1], TextsFrom(meant, End(bad))[1 + 1])
      BY ONLY <1>5, <2>3
    <3> QED
      BY ONLY <3>1 DEF StepTexts
  <2>5. PICK form \in Forms(meant[1], after) : t = form \o after
    BY ONLY <2>4
  <2>6. after \in Seq(Token) /\ meant[1] \in Step
    BY ONLY <1>2, <1>3, <2>2, <2>4
  <2>7. form \in Seq(Token) /\ form # <<>> /\ form[1] \in {".", "["}
    BY ONLY <2>5, <2>6, FormShape, PathAssumption
  <2>8. t # <<>> /\ t[1] = form[1]
    <3>1. Len(form) \in Nat \ {0} /\ Len(after) \in Nat
      BY ONLY <2>6, <2>7, EmptySeq
    <3>2. /\ Len(t) = Len(form) + Len(after)
          /\ \A i \in 1 .. Len(form) + Len(after) : t[i] = IF i <= Len(form) THEN form[i] ELSE after[i - Len(form)]
      BY ONLY <2>5, <2>6, <2>7, ConcatProperties
    <3>3. 1 \in 1 .. Len(form) + Len(after) /\ 1 <= Len(form) /\ Len(form) + Len(after) # 0
      BY ONLY <3>1
    <3>4. t # <<>>
      BY ONLY <3>2, <3>3
    <3> QED
      BY ONLY <3>2, <3>3, <3>4
  <2>9. Tok(2) \in {".", "["}
    BY ONLY <1>6, <2>7, <2>8
  <2>10. /\ path' = <<root>> /\ blocks' = 1 /\ input' = Rest(1) /\ result' = "more" /\ indexes' = indexes
    BY ONLY <1>6, <2>9, Start DEF Start
  <2> QED
    BY ONLY <1>1, <1>5, <1>6, <1>8, <2>10, PathInv, result = "start" DEF PathInv
<1>9. CASE bad # Nil
  <2>1. \/ Refused
        \/ /\ path' = <<root>> /\ blocks' = 1 /\ input' = Rest(1) /\ result' = "more" /\ indexes' = indexes
    BY ONLY Start DEF Start
  <2>2. indexes = Nil
    BY DEF PathInv
  <2> QED
    BY ONLY <1>1, <1>5, <1>6, <1>9, <2>1, <2>2
<1> QED
  BY ONLY <1>7, <1>8, <1>9

\* Before any step is read.
LEMMA RootOnly ==
  ASSUME PathAssumption, meant \in Seq(Step), NEW t \in PathTexts(meant, bad)
  PROVE  /\ PathTyped(<<root>>) /\ BlocksOf(<<root>>) = 1
         /\ ReadsAt(meant, bad, <<root>>, Nil, t)
         /\ bad = Nil => TracksAt(meant, <<root>>, Nil, t)
<1>1. PICK p : p = <<root>>
  OBVIOUS
<1>2. p \in Seq(Step \cup {root}) /\ p # <<>> /\ Tail(p) = <<>> /\ Tail(p) \in Seq(Step)
  BY ONLY <1>1
<1>3. BlocksOf(<<root>>) = 1
  <2>1. root.type \notin {"member", "list"}
    BY DEF root
  <2>2. root \in {root} /\ <<>> \in Seq({root})
    OBVIOUS
  <2>3. BlocksOf(<<root>>) = IF root.type \in {"member", "list"} THEN 2 ELSE 1
    BY ONLY <2>2, BlocksAppend
  <2> QED
    BY ONLY <2>1, <2>3
<1>4. t \in TextsFrom(<<>>, t)[1]
  <2>1. PICK l : l = <<>>
    OBVIOUS
  <2>2. l \in Seq(Step) /\ Len(l) = 0
    BY ONLY <2>1
  <2>3. TextsFrom(l, t)[Len(l) + 1] = {t}
    BY ONLY <2>2, TextsStep
  <2>4. 0 + 1 = 1
    OBVIOUS
  <2> QED
    BY ONLY <2>1, <2>2, <2>3, <2>4
<1>5. ReadsAt(meant, bad, p, Nil, t)
  BY ONLY <1>2, <1>4, t \in PathTexts(meant, bad) DEF ReadsAt
<1>6. bad = Nil => TracksAt(meant, p, Nil, t)
  <2>1. SubSeq(meant, 1, 1 - 1) = <<>>
    BY SubSeqEmpty
  <2>2. 1 \in 1 .. Len(meant) + 1
    BY meant \in Seq(Step)
  <2>3. bad = Nil => t \in TextsFrom(meant, <<>>)[1]
    BY DEF PathTexts, End
  <2> QED
    BY ONLY <1>2, <2>1, <2>2, <2>3 DEF TracksAt
<1> QED
  BY ONLY <1>1, <1>2, <1>3, <1>5, <1>6 DEF PathTyped

\* No step, no block.
LEMMA BlocksOfNone == BlocksOf(<<>>) = 0
<1>1. root \in {root} /\ <<>> \in Seq({root})
  OBVIOUS
<1> QED
  BY ONLY <1>1, BlocksAppend

\* Types.
LEMMA MeantTyped ==
  ASSUME PathAssumption, PathInv
  PROVE  meant \in Seq(Step) /\ input \in Seq(Token) /\ bad \in BadEnds \cup {Nil}
BY DEF PathAssumption, PathInv

\* What the parser makes of a text keeps the invariant: nothing is refused that
\* was written from steps, and nothing ends well that was not.
LEMMA ParseKeeps ==
  ASSUME PathAssumption, EndsMeanNothing(Seq(Step)), PathInv,
         result = "more", indexes = Nil, Parses, UNCHANGED <<meant, bad>>
  PROVE  PathInv'
<1>1. /\ PathTyped(path) /\ blocks = BlocksOf(path) /\ BlocksOf(path) \in Nat
      /\ ReadsAt(meant, bad, path, indexes, input)
      /\ bad = Nil => TracksAt(meant, path, indexes, input)
      /\ bad = Nil => meant # <<>>
  <2>1. /\ PathTyped(path) /\ blocks = BlocksOf(path) + Held
        /\ ReadsAt(meant, bad, path, indexes, input)
        /\ bad = Nil => TracksAt(meant, path, indexes, input)
        /\ bad = Nil => meant # <<>>
    BY ONLY PathInv, result = "more" DEF PathInv
  <2>2. BlocksOf(path) \in Nat
    <3>1. path \in Seq(Step \cup {root}) /\ root \in Step \cup {root}
      BY ONLY <2>1 DEF PathTyped
    <3> QED
      BY ONLY <3>1, BlocksAppend
  <2>3. Held = 0
    BY ONLY indexes = Nil DEF Held
  <2> QED
    BY ONLY <2>1, <2>2, <2>3
<1>2. meant \in Seq(Step) /\ input \in Seq(Token) /\ bad \in BadEnds \cup {Nil} /\ meant \in StepLists
  BY ONLY PathAssumption, PathInv, MeantTyped DEF PathInv
<1>3. meant' = meant /\ bad' = bad
  OBVIOUS
<1>4. bad = Nil =>
        \/ Finish /\ Tail(path) = meant
        \/ result' = result /\ TracksAt(meant, path', indexes', input')
  BY ONLY <1>1, <1>2, TrackParse, PathAssumption, indexes = Nil, Parses
<1>5. \/ Refused
      \/ Finish
      \/ /\ result' = result /\ input' \in Seq(Token) /\ PathTyped(path')
         /\ \/ indexes' = Nil /\ blocks' = blocks + BlocksOf(path') - BlocksOf(path)
            \/ indexes' \in Seq(Int) /\ indexes' # <<>> /\ path' = path /\ blocks' = blocks + 2
         /\ ReadsAt(meant, bad, path', indexes', input')
  BY ONLY <1>1, <1>2, ReadParse, PathAssumption, indexes = Nil, Parses
<1>6. CASE Refused
  <2>1. blocks' = blocks - Held - BlocksOf(path) /\ result' = "error" /\ input' = input
    BY ONLY <1>6 DEF Refused
  <2>2. blocks' = 0
    <3>1. Held = 0
      BY ONLY indexes = Nil DEF Held
    <3> QED
      BY ONLY <1>1, <2>1, <3>1
  <2>3. bad # Nil
    <3>1. result' # result
      BY ONLY <2>1, result = "more"
    <3>2. ~Finish
      BY ONLY <2>1 DEF Finish
    <3> QED
      BY ONLY <1>4, <3>1, <3>2
  <2>4. input' \in Seq(Token) /\ meant' \in StepLists /\ bad' \in BadEnds \cup {Nil} /\ bad' # Nil
    BY ONLY <1>2, <1>3, <2>1, <2>3
  <2> QED
    BY ONLY <2>1, <2>2, <2>4 DEF PathInv
<1>7. CASE Finish
  <2>1. /\ input = <<>> /\ result' = "done" /\ input' = input /\ path' = path
        /\ indexes' = indexes /\ blocks' = blocks
    BY ONLY <1>7 DEF Finish
  <2>2. bad = Nil
    <3>1. PICK t \in PathTexts(meant, bad) : t \in TextsFrom(Tail(path), input)[1]
      BY ONLY <1>1, indexes = Nil DEF ReadsAt
    <3>2. Tail(path) \in Seq(Step)
      BY ONLY <1>1 DEF PathTyped
    <3>3. t \in PathTexts(Tail(path), Nil)
      BY ONLY <2>1, <3>1 DEF PathTexts, End
    <3>4. bad \in BadEnds => PathTexts(meant, bad) \cap PathTexts(Tail(path), Nil) = {}
      <4>1. PathTexts(Tail(path), Nil) \subseteq UNION {PathTexts(k, Nil) : k \in Seq(Step)}
        BY ONLY <3>2
      <4>2. bad \in BadEnds => PathTexts(meant, bad) \cap UNION {PathTexts(k, Nil) : k \in Seq(Step)} = {}
        BY ONLY <1>2, EndsMeanNothing(Seq(Step)) DEF EndsMeanNothing
      <4> QED
        BY ONLY <4>1, <4>2
    <3> QED
      BY ONLY <1>2, <3>1, <3>3, <3>4
  <2>3. Tail(path) = meant
    <3>1. result' # result
      BY ONLY <2>1, result = "more"
    <3> QED
      BY ONLY <1>4, <2>2, <3>1
  <2>4. input' \in Seq(Token) /\ meant' \in StepLists /\ bad' \in BadEnds \cup {Nil}
    BY ONLY <1>2, <1>3, <2>1
  <2>5. /\ PathTyped(path') /\ indexes' = Nil /\ blocks' = BlocksOf(path')
        /\ Tail(path') = meant' /\ bad' = Nil /\ meant' # <<>>
    BY ONLY <1>1, <1>3, <2>1, <2>2, <2>3, indexes = Nil
  <2> QED
    BY ONLY <2>1, <2>4, <2>5 DEF PathInv
<1>8. CASE /\ result' = result /\ input' \in Seq(Token) /\ PathTyped(path')
           /\ \/ indexes' = Nil /\ blocks' = blocks + BlocksOf(path') - BlocksOf(path)
              \/ indexes' \in Seq(Int) /\ indexes' # <<>> /\ path' = path /\ blocks' = blocks + 2
           /\ ReadsAt(meant, bad, path', indexes', input')
  <2>1. result' = "more" /\ input' \in Seq(Token) /\ meant' \in StepLists /\ bad' \in BadEnds \cup {Nil}
    BY ONLY <1>2, <1>3, <1>8, result = "more"
  <2>2. PathTyped(path') /\ ReadsAt(meant', bad', path', indexes', input')
    BY ONLY <1>3, <1>8
  <2>3. bad' = Nil => TracksAt(meant', path', indexes', input') /\ meant' # <<>>
    <3>1. bad = Nil => ~Finish
      <4>1. result' # "done"
        BY ONLY <2>1
      <4> QED
        BY ONLY <4>1 DEF Finish
    <3> QED
      BY ONLY <1>1, <1>3, <1>4, <3>1
  <2>4. BlocksOf(path') \in Nat
    <3>1. path' \in Seq(Step \cup {root}) /\ root \in Step \cup {root}
      BY ONLY <2>2 DEF PathTyped
    <3> QED
      BY ONLY <3>1, BlocksAppend
  <2>5. CASE indexes' = Nil /\ blocks' = blocks + BlocksOf(path') - BlocksOf(path)
    <3>1. blocks' = BlocksOf(path')
      BY ONLY <1>1, <2>4, <2>5
    <3>2. Held' = 0
      BY ONLY <2>5 DEF Held
    <3>3. blocks' = BlocksOf(path') + Held'
      BY ONLY <2>4, <3>1, <3>2
    <3> QED
      BY ONLY <2>1, <2>2, <2>3, <2>5, <3>3 DEF PathInv
  <2>6. CASE indexes' \in Seq(Int) /\ indexes' # <<>> /\ path' = path /\ blocks' = blocks + 2
    <3>1. Held' = 2
      BY ONLY <2>6, PathAssumption DEF Held, PathAssumption
    <3>2. blocks' = BlocksOf(path') + Held'
      BY ONLY <1>1, <2>6, <3>1
    <3> QED
      BY ONLY <2>1, <2>2, <2>3, <2>6, <3>2 DEF PathInv
  <2> QED
    BY ONLY <1>8, <2>5, <2>6
<1> QED
  BY ONLY <1>5, <1>6, <1>7, <1>8

\* What the parser makes of an index keeps the invariant.
LEMMA ListKeeps ==
  ASSUME PathAssumption, PathInv, result = "more", indexes # Nil, ListStep, UNCHANGED <<meant, bad>>
  PROVE  PathInv'
<1>1. /\ PathTyped(path) /\ blocks = BlocksOf(path) + 2 /\ BlocksOf(path) \in Nat
      /\ indexes \in Seq(Int) /\ indexes # <<>>
      /\ ReadsAt(meant, bad, path, indexes, input)
      /\ bad = Nil => TracksAt(meant, path, indexes, input)
      /\ bad = Nil => meant # <<>>
  <2>1. /\ PathTyped(path) /\ blocks = BlocksOf(path) + Held
        /\ indexes \in Seq(Int) /\ indexes # <<>>
        /\ ReadsAt(meant, bad, path, indexes, input)
        /\ bad = Nil => TracksAt(meant, path, indexes, input)
        /\ bad = Nil => meant # <<>>
    BY ONLY PathInv, result = "more", indexes # Nil DEF PathInv
  <2>2. BlocksOf(path) \in Nat
    <3>1. path \in Seq(Step \cup {root}) /\ root \in Step \cup {root}
      BY ONLY <2>1 DEF PathTyped
    <3> QED
      BY ONLY <3>1, BlocksAppend
  <2>3. Held = 2
    BY ONLY indexes # Nil DEF Held
  <2> QED
    BY ONLY <2>1, <2>2, <2>3
<1>2. meant \in Seq(Step) /\ input \in Seq(Token) /\ bad \in BadEnds \cup {Nil} /\ meant \in StepLists
  BY ONLY PathAssumption, PathInv, MeantTyped DEF PathInv
<1>3. meant' = meant /\ bad' = bad
  OBVIOUS
<1>4. bad = Nil => result' = result /\ TracksAt(meant, path', indexes', input')
  BY ONLY <1>1, <1>2, TrackList, PathAssumption, ListStep
<1>5. \/ Refused
      \/ /\ result' = result /\ input' \in Seq(Token) /\ PathTyped(path') /\ blocks' = blocks
         /\ \/ indexes' = Nil /\ BlocksOf(path') = BlocksOf(path) + 2
            \/ indexes' \in Seq(Int) /\ indexes' # <<>> /\ path' = path
         /\ ReadsAt(meant, bad, path', indexes', input')
  BY ONLY <1>1, <1>2, ReadList, PathAssumption, ListStep
<1>6. CASE Refused
  <2>1. blocks' = blocks - Held - BlocksOf(path) /\ result' = "error" /\ input' = input
    BY ONLY <1>6 DEF Refused
  <2>2. blocks' = 0
    <3>1. Held = 2
      BY ONLY indexes # Nil DEF Held
    <3> QED
      BY ONLY <1>1, <2>1, <3>1
  <2>3. bad # Nil
    <3>1. result' # result
      BY ONLY <2>1, result = "more"
    <3> QED
      BY ONLY <1>4, <3>1
  <2>4. input' \in Seq(Token) /\ meant' \in StepLists /\ bad' \in BadEnds \cup {Nil} /\ bad' # Nil
    BY ONLY <1>2, <1>3, <2>1, <2>3
  <2> QED
    BY ONLY <2>1, <2>2, <2>4 DEF PathInv
<1>7. CASE /\ result' = result /\ input' \in Seq(Token) /\ PathTyped(path') /\ blocks' = blocks
           /\ \/ indexes' = Nil /\ BlocksOf(path') = BlocksOf(path) + 2
              \/ indexes' \in Seq(Int) /\ indexes' # <<>> /\ path' = path
           /\ ReadsAt(meant, bad, path', indexes', input')
  <2>1. result' = "more" /\ input' \in Seq(Token) /\ meant' \in StepLists /\ bad' \in BadEnds \cup {Nil}
    BY ONLY <1>2, <1>3, <1>7, result = "more"
  <2>2. PathTyped(path') /\ ReadsAt(meant', bad', path', indexes', input')
    BY ONLY <1>3, <1>7
  <2>3. bad' = Nil => TracksAt(meant', path', indexes', input') /\ meant' # <<>>
    BY ONLY <1>1, <1>3, <1>4
  <2>4. CASE indexes' = Nil /\ BlocksOf(path') = BlocksOf(path) + 2
    <3>1. Held' = 0
      BY ONLY <2>4 DEF Held
    <3>2. blocks' = BlocksOf(path') + Held'
      BY ONLY <1>1, <1>7, <2>4, <3>1
    <3> QED
      BY ONLY <2>1, <2>2, <2>3, <2>4, <3>2 DEF PathInv
  <2>5. CASE indexes' \in Seq(Int) /\ indexes' # <<>> /\ path' = path
    <3>1. Held' = 2
      BY ONLY <2>5, PathAssumption DEF Held, PathAssumption
    <3>2. blocks' = BlocksOf(path') + Held'
      BY ONLY <1>1, <1>7, <2>5, <3>1
    <3> QED
      BY ONLY <2>1, <2>2, <2>3, <2>5, <3>2 DEF PathInv
  <2> QED
    BY ONLY <1>7, <2>4, <2>5
<1> QED
  BY ONLY <1>5, <1>6, <1>7

\* Every step keeps the invariant.
LEMMA PathKept ==
  ASSUME PathAssumption, EndsMeanNothing(Seq(Step)), PathInv, [CompileStep]_pathVars
  PROVE  PathInv'
<1>1. CASE UNCHANGED pathVars
  <2>1. /\ meant' = meant /\ bad' = bad /\ input' = input /\ path' = path
        /\ indexes' = indexes /\ blocks' = blocks /\ result' = result
    BY ONLY <1>1 DEF pathVars
  <2> QED
    BY ONLY <2>1, PathInv DEF PathInv, Held
<1>2. CASE Start /\ UNCHANGED <<meant, bad>>
  <2>1. result = "start"
    BY ONLY <1>2 DEF Start
  <2>2. meant \in Seq(Step) /\ input \in Seq(Token) /\ bad \in BadEnds \cup {Nil} /\ meant \in StepLists
    BY ONLY PathAssumption, PathInv, MeantTyped DEF PathInv
  <2>3. meant' = meant /\ bad' = bad
    BY ONLY <1>2
  <2>4. \/ Refused /\ (bad # Nil \/ meant = <<>>)
        \/ /\ path' = <<root>> /\ blocks' = 1 /\ result' = "more" /\ indexes' = Nil
           /\ input' \in Seq(Token) /\ input' \in PathTexts(meant, bad)
           /\ bad = Nil => meant # <<>>
    BY ONLY <1>2, <2>1, StartReads, PathAssumption, PathInv
  <2>5. CASE Refused /\ (bad # Nil \/ meant = <<>>)
    <3>1. blocks' = blocks - Held - BlocksOf(path) /\ result' = "error" /\ input' = input
      BY ONLY <2>5 DEF Refused
    <3>2. blocks = 0 /\ Held = 0 /\ BlocksOf(path) = 0
      BY ONLY <2>1, PathInv, BlocksOfNone DEF PathInv, Held
    <3>3. blocks' = 0 /\ input' \in Seq(Token) /\ meant' \in StepLists /\ bad' \in BadEnds \cup {Nil}
      BY ONLY <2>2, <2>3, <3>1, <3>2
    <3>4. bad' # Nil \/ meant' = <<>>
      BY ONLY <2>3, <2>5
    <3> QED
      BY ONLY <3>1, <3>3, <3>4 DEF PathInv
  <2>6. CASE /\ path' = <<root>> /\ blocks' = 1 /\ result' = "more" /\ indexes' = Nil
             /\ input' \in Seq(Token) /\ input' \in PathTexts(meant, bad)
             /\ bad = Nil => meant # <<>>
    <3>1. /\ PathTyped(<<root>>) /\ BlocksOf(<<root>>) = 1
          /\ ReadsAt(meant, bad, <<root>>, Nil, input')
          /\ bad = Nil => TracksAt(meant, <<root>>, Nil, input')
      BY ONLY <2>2, <2>6, RootOnly, PathAssumption
    <3>2. /\ PathTyped(path') /\ ReadsAt(meant', bad', path', indexes', input')
          /\ bad' = Nil => TracksAt(meant', path', indexes', input')
          /\ bad' = Nil => meant' # <<>>
      BY ONLY <2>3, <2>6, <3>1
    <3>3. Held' = 0
      BY ONLY <2>6 DEF Held
    <3>4. blocks' = BlocksOf(path') + Held'
      BY ONLY <2>6, <3>1, <3>3
    <3>5. input' \in Seq(Token) /\ meant' \in StepLists /\ bad' \in BadEnds \cup {Nil}
      BY ONLY <2>2, <2>3, <2>6
    <3> QED
      BY ONLY <2>6, <3>2, <3>4, <3>5 DEF PathInv
  <2> QED
    BY ONLY <2>4, <2>5, <2>6
<1>3. CASE result = "more" /\ indexes = Nil /\ (Dotted \/ Bracketed \/ NoStep \/ Finish) /\ UNCHANGED <<meant, bad>>
  <2>1. Parses
    BY ONLY <1>3 DEF Parses
  <2> QED
    BY ONLY <1>3, <2>1, ParseKeeps, PathAssumption, EndsMeanNothing(Seq(Step)), PathInv
<1>4. CASE result = "more" /\ indexes # Nil /\ ListStep /\ UNCHANGED <<meant, bad>>
  BY ONLY <1>4, ListKeeps, PathAssumption, PathInv
<1>5. CASE Freepath /\ UNCHANGED <<meant, bad>>
  <2>1. /\ result = "done" /\ blocks' = blocks - BlocksOf(path) /\ path' = <<>> /\ result' = "freed"
        /\ input' = input /\ meant' = meant /\ bad' = bad
    BY ONLY <1>5 DEF Freepath
  <2>2. /\ input \in Seq(Token) /\ meant \in StepLists /\ bad \in BadEnds \cup {Nil}
        /\ PathTyped(path) /\ blocks = BlocksOf(path)
    BY ONLY <2>1, PathInv DEF PathInv
  <2>3. BlocksOf(path) \in Nat
    <3>1. path \in Seq(Step \cup {root}) /\ root \in Step \cup {root}
      BY ONLY <2>2 DEF PathTyped
    <3> QED
      BY ONLY <3>1, BlocksAppend
  <2>4. blocks' = 0
    BY ONLY <2>1, <2>2, <2>3
  <2>5. input' \in Seq(Token) /\ meant' \in StepLists /\ bad' \in BadEnds \cup {Nil}
    BY ONLY <2>1, <2>2
  <2> QED
    BY ONLY <2>1, <2>4, <2>5 DEF PathInv
<1> QED
  BY <1>1, <1>2, <1>3, <1>4, <1>5 DEF CompileStep

\* However its steps are written, a path compiles to those steps, and a text
\* that is none to NULL, with nothing left of what was allocated on the way: for
\* any steps and any tokens, if no bad end makes a path of the text before it.
THEOREM PathsExactHold ==
  ASSUME PathAssumption, EndsMeanNothing(Seq(Step))
  PROVE  JsonPathSpec => []PathsExact
<1>1. JsonPathInit => PathInv
  BY PathStart
<1>2. PathInv /\ [CompileStep]_pathVars => PathInv'
  BY PathKept
<1>3. PathInv => PathsExact
  BY DEF PathInv, PathsExact
<1> QED
  BY <1>1, <1>2, <1>3, PTL DEF JsonPathSpec
=============================================================================
