------------------------------ MODULE MC_Args ------------------------------
(* A command line that is parsed for options, a text that is cut into      *)
(* words, or a call of a function on text: kinds of MC_IO.                 *)
EXTENDS ShellWords

CONSTANT Nothing   \* the null pointer of these kinds

VARIABLES which, meant, bad, got, result, argv, argidx, next_optstr, asked

\* An option of each policy, short and long; values that look like options.
OptStr == <<"a", "b", ":", "c", ":", ":">>
LongOptions == <<[name |-> <<"a", "l">>, policy |-> "none", val |-> "a"],
                 [name |-> <<"b", "e">>, policy |-> "required", val |-> "b"],
                 [name |-> <<"c", "a">>, policy |-> "optional", val |-> "c"]>>
option(letter, value) == [opt |-> letter, value |-> value]
Options == {option("a", Nothing), option("b", <<"a">>), option("b", <<"-", "a">>),
            option("b", <<"a", "=">>), option("c", Nothing), option("c", <<"b">>),
            option("c", <<"-", "c">>)}
OptionLists == {<<>>} \cup {<<o>> : o \in Options} \cup {<<o, p>> : o, p \in Options}
BadWords == {
  <<>>, <<"a">>, <<"-">>, <<"-", "-">>, <<"-", "-", "a">>, <<"-", "z">>,
  <<"-", "-", "z", "z">>, <<"-", "b">>, <<"-", "b", "=">>,
  <<"-", "-", "b", "e">>, <<"-", "-", "b", "e", "=">>}

\* Words with a blank, a quote and a backslash in them; blanks of each kind.
SomeWords == {<<"a">>, <<"a", " ">>, <<" ">>, <<"\n", "a">>, <<"a", "\n">>,
              <<"\\", "\"", "a">>, <<"\\", " ", "a">>, <<"\\", "\\">>}
SomeGaps == {<<" ">>, <<"\n">>, <<" ", "\n">>}
SomeWordLists == {<<>>} \cup {<<w>> : w \in SomeWords} \cup {<<w, v>> : w, v \in SomeWords}
BadQuotes == {<<"\"">>, <<"\"", "a">>, <<"a", "\"">>, <<"\"", "\\", "\"">>}

Line == INSTANCE CommandLine WITH NULL <- Nothing, Meant <- OptionLists
Text == INSTANCE MC_Texts WITH NULL <- Nothing, IntBits <- 4, LongBits <- 6

optionVars == <<argv, argidx, next_optstr>>
textVars == <<meant, got, result, asked>>
argVars == <<meant, bad, got, result, optionVars, asked, parseVars>>

NoOptions == bad = Nothing /\ argv = <<>> /\ argidx = 0 /\ next_optstr = Nothing
NoWords ==
  /\ words = <<>> /\ ending = <<>> /\ arr = <<>> /\ outcome = Nothing
  /\ shell_cmd = <<>> /\ word = <<>> /\ in_quote = FALSE
NoText == asked = Nothing
Unasked == meant = <<>> /\ got = <<>> /\ result = Nothing
NoArgs == Unasked /\ NoOptions /\ NoWords /\ NoText

ArgsInit ==
  \/ which = "options" /\ Line!CommandLineInit /\ NoWords /\ NoText
  \/ which = "words" /\ ShellWordsInit /\ Unasked /\ NoOptions /\ NoText
  \/ which = "texts" /\ Text!TextsInit /\ NoOptions /\ NoWords

ArgsNext ==
  /\ UNCHANGED which
  /\ \/ which = "options" /\ Line!Getopt /\ UNCHANGED <<asked, parseVars>>
     \/ which = "words" /\ ParseCmd /\ UNCHANGED <<textVars, bad, optionVars>>
     \/ which = "texts" /\ Text!TextCall /\ UNCHANGED <<bad, optionVars, parseVars>>

\* The options and the texts that are asked for: see CommandLine and Texts.
AnswersExact ==
  /\ which = "options" => Line!OptionsExact
  /\ which = "texts" => Text!TextsExact
=============================================================================
