---------------------------- MODULE CommandLine ----------------------------
(***************************************************************************)
(* pcl_initopt and pcl_getopt (src/init): one call returns one option.  A  *)
(* word of the command line is a sequence of characters; argv leaves out   *)
(* the program's name.  The words are written from a list of options, in   *)
(* every way include/pcl/init.h allows, and may end in a bad word.         *)
(***************************************************************************)
EXTENDS Naturals, Sequences, SequencesExt

CONSTANTS
  NULL,
  OptStr,        \* the short options, with one or two colons after some
  LongOptions,   \* the long options: sequence of [name, policy, val]
  Meant,         \* lists of options the words are written from
  BadWords       \* words that are no option

VARIABLES
  meant, bad,    \* the list the words stand for, and the bad word after it
  argv, argidx, next_optstr,   \* tag_pcl_optstate
  got,           \* what the calls have returned: [opt, value] in order
  result         \* "more", "done" (0 was returned) or "error" (-1)

getoptVars == <<meant, bad, argv, argidx, next_optstr, got, result>>

Begins(word, prefix) == IsPrefix(prefix, word)
At(s, c) == SelectInSeq(s, LAMBDA x : x = c)
Before(s, c) == IF At(s, c) = 0 THEN s ELSE SubSeq(s, 1, At(s, c) - 1)
After(s, c) == SubSeq(s, At(s, c) + 1, Len(s))

\* The policy of a short option: the colons after its character.
ShortPolicy(opt) ==
  LET after == After(OptStr, opt) IN
  IF Begins(after, <<":", ":">>) THEN "optional"
  ELSE IF Begins(after, <<":">>) THEN "required" ELSE "none"

-----------------------------------------------------------------------------
\* The value of an option: after a "=", joined to its letter, or the next word.
None == [ok |-> TRUE, value |-> NULL, words |-> 0]
Missing == [ok |-> FALSE, value |-> NULL, words |-> 0]
Joined(v) == [ok |-> TRUE, value |-> v, words |-> 0]
NextWord == [ok |-> TRUE, value |-> argv[argidx + 1], words |-> 1]

\* An optional value does not begin with a dash.
TakesAny(policy) == argidx < Len(argv)
MayTake(policy) ==
  argidx < Len(argv) /\ (policy = "required" \/ ~Begins(argv[argidx + 1], <<"-">>))

Value(policy, rest, joined) ==
  CASE policy = "none" -> None
    [] At(rest, "=") > 0 /\ After(rest, "=") # <<>> -> Joined(After(rest, "="))
    [] At(rest, "=") > 0 -> IF policy = "required" THEN Missing ELSE None
    [] joined # <<>> -> Joined(joined)
    [] MayTake(policy) -> NextWord
    [] OTHER -> IF policy = "required" THEN Missing ELSE None

Refused ==
  /\ result' = "error"
  /\ UNCHANGED <<argidx, next_optstr, got>>

Returned(opt, v) ==
  /\ got' = Append(got, [opt |-> opt, value |-> v.value])
  /\ UNCHANGED result

\* "--name", "--name=value" or "--name value": a name is two characters or more.
LongOption ==
  LET arg == argv[argidx]
      word == SubSeq(arg, 3, Len(arg))
      known == {i \in DOMAIN LongOptions : LongOptions[i].name = Before(word, "=")}
      v == Value(LongOptions[Min(known)].policy, word, <<>>) IN
  /\ next_optstr = NULL /\ Begins(arg, <<"-", "-">>)
  /\ \/ (Len(arg) <= 3 \/ known = {}) /\ Refused
     \/ Len(arg) > 3 /\ known # {} /\ ~v.ok /\ Refused
     \/ /\ Len(arg) > 3 /\ known # {} /\ v.ok
        /\ Returned(LongOptions[Min(known)].val, v)
        /\ argidx' = argidx + v.words + 1
        /\ UNCHANGED next_optstr

\* A word that is no option: it begins with something else, or is a lone dash.
NoOption ==
  /\ next_optstr = NULL
  /\ ~Begins(argv[argidx], <<"-">>) \/ Len(argv[argidx]) = 1
  /\ Refused

\* The next letter of a word of short options.  The word is finished when its
\* letters are used up, or when the rest of it was the value.
Letters == IF next_optstr # NULL THEN next_optstr ELSE Tail(argv[argidx])
InShort ==
  next_optstr = NULL => /\ Begins(argv[argidx], <<"-">>) /\ Len(argv[argidx]) > 1
                        /\ ~Begins(argv[argidx], <<"-", "-">>)

ShortOption ==
  /\ InShort
  /\ LET opt == Head(Letters)
         rest == Tail(Letters)
         v == Value(ShortPolicy(opt), rest, rest)
         left == IF ShortPolicy(opt) = "none" THEN rest ELSE <<>> IN
     \/ (At(OptStr, opt) = 0 \/ ~v.ok) /\ Refused
     \/ /\ At(OptStr, opt) > 0 /\ v.ok
        /\ Returned(opt, v)
        /\ next_optstr' = IF left = <<>> THEN NULL ELSE left
        /\ argidx' = argidx + v.words + (IF left = <<>> THEN 1 ELSE 0)

\* The program calls until 0 or -1 is returned.
Getopt ==
  /\ result = "more"
  /\ \/ /\ next_optstr = NULL /\ argidx = Len(argv) + 1
        /\ result' = "done"
        /\ UNCHANGED <<argidx, next_optstr, got>>
     \/ argidx <= Len(argv) /\ (LongOption \/ NoOption \/ ShortOption)
  /\ UNCHANGED <<meant, bad, argv>>

-----------------------------------------------------------------------------
\* The words for one option, before the words "after" it ("-Ovalue",
\* "-O=value", "-O value", "--long=value", "--long value"; letters without a
\* value share a word).  A joined value has no "=" (see README).
LongOf(o) == LET i == CHOOSE i \in DOMAIN LongOptions : LongOptions[i].val = o.opt
             IN <<"-", "-">> \o LongOptions[i].name
PolicyOf(o) == LongOptions[CHOOSE i \in DOMAIN LongOptions : LongOptions[i].val = o.opt].policy

Words(o) ==
  LET short == <<"-", o.opt>> IN
  IF o.value = NULL
  THEN {<<short>>, <<LongOf(o)>>}
       \cup IF PolicyOf(o) = "optional"
            THEN {<<Append(short, "=")>>, <<Append(LongOf(o), "=")>>} ELSE {}
  ELSE {<<short \o <<"=">> \o o.value>>, <<LongOf(o) \o <<"=">> \o o.value>>}
       \cup (IF At(o.value, "=") = 0 THEN {<<short \o o.value>>} ELSE {})
       \cup IF PolicyOf(o) = "required" \/ ~Begins(o.value, <<"-">>)
            THEN {<<short, o.value>>, <<LongOf(o), o.value>>} ELSE {}

Shares(o, after) ==
  PolicyOf(o) = "none" /\ after # <<>> /\ Len(after[1]) > 1
  /\ Begins(after[1], <<"-">>) /\ ~Begins(after[1], <<"-", "-">>)

Write(o, afters) ==
  {w \o after : w \in Words(o), after \in afters}
  \cup {<<<<"-", o.opt>> \o Tail(after[1])>> \o Tail(after) :
          after \in {t \in afters : Shares(o, t)}}

Written(list, word) ==
  FoldRight(Write, list, IF word = NULL THEN {<<>>} ELSE {<<word>>})

\* A word without a dash would be the value of an option that may have one.
Apart(list, word) ==
  word # NULL /\ list # <<>> /\ ~Begins(word, <<"-">>)
    => PolicyOf(Last(list)) = "none" \/ Last(list).value # NULL

CommandLineInit ==
  /\ meant \in Meant /\ bad \in BadWords \cup {NULL}
  /\ Apart(meant, bad)
  /\ argv \in Written(meant, bad)
  /\ argidx = 1 /\ next_optstr = NULL
  /\ got = <<>> /\ result = "more"

\* However the options are written, the calls return them in order, with their
\* values, then 0; a bad word is reported by the call that reaches it, not
\* before (getopt.c; the forms are those of include/pcl/init.h:170-186).
OptionsExact ==
  /\ IsPrefix(got, meant)
  /\ result # "more" => got = meant
  /\ result = "done" => bad = NULL
  /\ result = "error" => bad # NULL
=============================================================================
