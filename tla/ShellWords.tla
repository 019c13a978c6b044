----------------------------- MODULE ShellWords -----------------------------
(***************************************************************************)
(* pcl_proc_parsecmd (src/process/proc_parsecmd.c): a command line is cut  *)
(* into words at spaces outside quotes.  The text is a sequence of         *)
(* characters; a backslash and the character after it stay in the word.    *)
(* The blanks before a word are skipped, line ends among them, though a    *)
(* line end does not end a word.  The texts are written from the words     *)
(* they mean.                                                              *)
(***************************************************************************)
EXTENDS Naturals, Sequences, SequencesExt

CONSTANTS
  Letter,        \* the characters but blanks, quotes and backslashes
  WordLists,     \* the words a text is written from
  Gaps,          \* the blanks that are written before and behind a word
  BadEnds        \* texts that leave a quote open or out of place

VARIABLES
  words, ending, \* the words the text stands for, and the bad text after them, if any
  shell_cmd,     \* the text not yet read
  word,          \* the text from "start": what has been read of a word
  in_quote,
  arr,           \* the array of words
  outcome        \* "more", "done" or "error" (NULL was returned)

parseVars == <<words, ending, shell_cmd, word, in_quote, arr, outcome>>

\* A space stands for a tab, too; a line end for all else isspace() takes.
Space == " "
Newline == "\n"
Blank == {Space, Newline}
Quote == "\""
Backslash == "\\"
Char == Letter \cup Blank \cup {Quote, Backslash}
NoneLeft == shell_cmd = <<>>
NextChar == Head(shell_cmd)
SkipBlanks(s) ==
  LET i == SelectInSeq(s, LAMBDA c : c \notin Blank)
  IN IF i = 0 THEN <<>> ELSE SubSeq(s, i, Len(s))

\* A word begins after the blanks, and after a quote.
Quoted(s) == SkipBlanks(s) # <<>> /\ Head(SkipBlanks(s)) = Quote
WordStart(s) == IF Quoted(s) THEN Tail(SkipBlanks(s)) ELSE SkipBlanks(s)
Takes(n) ==
  /\ word' = word \o SubSeq(shell_cmd, 1, n)
  /\ shell_cmd' = SubSeq(shell_cmd, n + 1, Len(shell_cmd))
  /\ UNCHANGED <<in_quote, arr, outcome>>

\* An empty word is not kept.
Keep == arr' = IF word = <<>> THEN arr ELSE Append(arr, word)

Rejects == outcome' = "error" /\ UNCHANGED <<shell_cmd, word, in_quote, arr>>

\* A text that ends in a lone backslash is read past its end: none does here.
Escape == ~NoneLeft /\ NextChar = Backslash /\ Takes(2)

Plain == ~NoneLeft /\ NextChar \notin {Space, Quote, Backslash} /\ Takes(1)

BlankInQuote == ~NoneLeft /\ NextChar = Space /\ in_quote /\ Takes(1)

\* The end of a word, at a blank or at the quote that closes it.
BlankEnds == ~NoneLeft /\ (NextChar = Space \/ (in_quote /\ NextChar = Quote))
EndsWord == ~NoneLeft /\ (IF in_quote THEN NextChar = Quote ELSE NextChar = Space)
CutWord ==
  /\ EndsWord
  /\ Keep
  /\ in_quote' = Quoted(Tail(shell_cmd))
  /\ shell_cmd' = WordStart(Tail(shell_cmd))
  /\ word' = <<>>
  /\ UNCHANGED outcome

StrayQuote == ~NoneLeft /\ NextChar = Quote /\ ~in_quote /\ Rejects
OpenQuote == NoneLeft /\ in_quote /\ Rejects

Finish ==
  /\ NoneLeft /\ ~in_quote
  /\ Keep
  /\ outcome' = "done"
  /\ UNCHANGED <<shell_cmd, word, in_quote>>

ParseCmd ==
  /\ outcome = "more"
  /\ Escape \/ Plain \/ BlankInQuote \/ CutWord \/ StrayQuote \/ OpenQuote \/ Finish
  /\ UNCHANGED <<words, ending>>

-----------------------------------------------------------------------------
\* The characters of a word that follow a backslash.  Others are no quotes, and
\* outside quotes no blanks; a backslash has a character behind it.
Escapes(w, escaped) ==
  \A i \in DOMAIN w : i \in escaped <=> i > 1 /\ w[i - 1] = Backslash /\ i - 1 \notin escaped
Scans(w, escaped, quoted) ==
  /\ Escapes(w, escaped)
  /\ \A i \in DOMAIN w \ escaped :
       /\ w[i] # Quote /\ (quoted \/ w[i] # Space)
       /\ w[i] = Backslash => i < Len(w)
Readable(w, quoted) == \E escaped \in SUBSET DOMAIN w : Scans(w, escaped, quoted)
Word == {w \in Seq(Char) : w # <<>> /\ Readable(w, TRUE)}

\* A word is written between quotes, with any blanks or none behind it, or bare,
\* if that can be read and it does not begin with a line end, which would be
\* skipped; behind a bare one is a space, or the end of the text.
InQuotes(w) == <<Quote>> \o w \o <<Quote>>
Bare(w) == Readable(w, FALSE) /\ w[1] # Newline
EndGaps == {gap \in Gaps : gap[1] = Space}

Write(w, afters) ==
  {InQuotes(w) \o gap \o after : gap \in Gaps \cup {<<>>}, after \in afters}
  \cup (IF ~Bare(w) THEN {} ELSE
          {w \o gap \o after : gap \in EndGaps, after \in afters}
          \cup (IF <<>> \in afters THEN {w} ELSE {}))

\* The texts of a list of words before the text "end", from each word on.
TextsFrom(list, end) ==
  LET From[i \in 1 .. Len(list) + 1] ==
        IF i > Len(list) THEN {end} ELSE Write(list[i], From[i + 1])
  IN From
Written(list, end) ==
  LET all == TextsFrom(list, end)[1] IN all \cup {gap \o t : gap \in Gaps, t \in all}

\* A quote that is never closed, or one behind a word that has none.
OpenEnd(text) == text # <<>> /\ text[1] = Quote /\ Readable(Tail(text), TRUE)
StrayEnd(text) ==
  \E k \in 2 .. Len(text) : text[k] = Quote /\ Bare(SubSeq(text, 1, k - 1))

ASSUME WordAssumption ==
  /\ Letter \cap (Blank \cup {Quote, Backslash}) = {}
  /\ Gaps \subseteq Seq(Blank) \ {<<>>}
  /\ WordLists \subseteq Seq(Word)
  /\ BadEnds \subseteq Seq(Char) /\ \A text \in BadEnds : OpenEnd(text) \/ StrayEnd(text)

ShellWordsInit ==
  /\ words \in WordLists /\ ending \in BadEnds \cup {<<>>}
  /\ \E text \in Written(words, ending) :
       shell_cmd = WordStart(text) /\ in_quote = Quoted(text)
  /\ word = <<>> /\ arr = <<>> /\ outcome = "more"
ShellWordsSpec == ShellWordsInit /\ [][ParseCmd]_parseVars

\* The words come out as they were written, whichever of them are quoted and
\* whatever blanks are between them; a quote that is open or out of place gives
\* NULL (proc_parsecmd.c).  A bare word is none that begins with a line end: that
\* is skipped with the blanks before it, though it does not end the word before.
ArgumentsExact ==
  /\ IsPrefix(arr, words)
  /\ outcome = "done" => arr = words /\ ending = <<>>
  /\ outcome = "error" => ending # <<>>
=============================================================================
