------------------------------ MODULE MC_Texts ------------------------------
(* The calls of Texts, written from what they mean; a kind of MC_IO.       *)
EXTENDS Texts

Ask(call, args, means) == [call |-> call, args |-> args, means |-> means]

\* Texts joined with another one between them; "ab" does not overlap itself.
Joined(parts, delim) ==
  FoldLeftDomain(LAMBDA t, i : IF i = 1 THEN parts[i] ELSE t \o delim \o parts[i], <<>>, parts)
Delim == <<"a", "b">>
Variants == {<<"a", "b">>, <<"A", "b">>}
Parts == {<<>>, <<"a">>, <<"b">>, <<"c", "a">>, <<"b", "a">>}
Lists(S) == {<<p>> : p \in S} \cup {<<p, q>> : p, q \in S} \cup {<<p, q, r>> : p, q, r \in S}

Splits ==
  {Ask("strsplit", <<Joined(l, d), Delim, d # Delim>>, l) :
     l \in Lists(Parts \ {<<>>}), d \in Variants}
Replaces ==
  {Ask("strreplace", <<Joined(l, d), Delim, to, d # Delim>>, Joined(l, to)) :
     l \in Lists(Parts), d \in Variants, to \in {<<>>, <<"a", "b", "c">>}}
Searches ==
  {Ask("stristr", <<p \o d \o q, Delim>>, Len(p) + 1) : p, q \in Parts, d \in Variants}
  \cup {Ask("stristr", <<p, Delim>>, 0) : p \in Parts}
  \cup {Ask("stristr", <<p, <<>>>>, 1) : p \in Parts}
Copies == {Ask("strndup", <<p \o q, Len(p)>>, IF p = <<>> THEN q ELSE p) : p, q \in Parts}
Slices ==
  {Ask("strslice", <<p \o q \o r, Len(p), Len(q)>>, q) : p, r \in Parts, q \in Parts \ {<<>>}}
  \cup {Ask("strslice", <<p, Len(p), 1>>, NULL) : p \in Parts}

Blanks == {<<>>, <<" ">>, <<" ", "t">>}
Trims ==
  {Ask("strtrimset", <<p \o t \o q, {" ", "t"}, l, r>>,
       IF t = <<>> /\ (l \/ r) THEN <<>>
       ELSE (IF l THEN <<>> ELSE p) \o t \o (IF r THEN <<>> ELSE q)) :
     p, q \in Blanks, t \in {<<>>, <<"a">>, <<"a", " ", "b">>}, l, r \in BOOLEAN}

TxtStrings == {<<"a">>, <<"b", "a">>, <<1, 2, 3>>}
Records ==
  {Ask("net_dnstxtrec", <<FlattenSeq([i \in DOMAIN l |-> <<Len(l[i])>> \o l[i]])>>, l) :
     l \in Lists(TxtStrings)}

Sizes == 1 .. 5
Fits(dest, size, src) ==
  IF Len(dest \o src) < size \/ src = <<>> THEN Filled(dest \o src, TRUE) ELSE Filled(dest, FALSE)
Appends ==
  {Ask("strncpy", <<size, p, 0>>, Fits(<<>>, size, p)) : size \in Sizes, p \in Parts}
  \cup {Ask("strncpy", <<size, p \o q, Len(p)>>, Fits(<<>>, size, p)) :
          size \in Sizes, p \in Parts \ {<<>>}, q \in Parts}
  \cup {Ask("strncat", <<d, Len(d) + size, p \o q, Len(p)>>, Fits(d, Len(d) + size, p)) :
          size \in Sizes, d \in Parts, p \in Parts \ {<<>>}, q \in Parts}
  \cup {Ask("strncat", <<d, Len(d) + size, p, 0>>, Fits(d, Len(d) + size, p)) :
          size \in Sizes, d, p \in Parts}
Names == {<<"x">>, <<"y", "z">>, <<"u", "v", "w">>}
LongestFitting(size, l) ==
  LET first(n) == Joined(SubSeq(l, 1, n), <<",">>)
  IN  first(Max({n \in 0 .. Len(l) : Len(first(n)) < size}))
FlagCalls ==
  {Ask("strflags", <<size, l>>, LongestFitting(size, l)) : size \in 1 .. 9, l \in Lists(Names)}

\* A piece of a format: what is written, what it takes and what it prints.
Piece(written, takes, prints) == [written |-> written, takes |-> takes, prints |-> prints]
Values == {<<>>, <<"v", "%">>}
Pieces ==
  {Piece(t, <<>>, t) : t \in {<<"x">>, <<"d", "-">>, <<"/">>}}
  \cup {Piece(<<"%", "/">>, <<>>, <<"/">>)}
  \cup {Piece(<<"%">> \o f \o c, <<v>>, v) :
          f \in {<<>>, <<"-">>, <<"0", "2">>}, c \in {<<"d">>, <<"P", "s">>, <<"l", "c">>},
          v \in Values}
Printing == {<<p>> : p \in Pieces} \cup {<<p, q>> : p, q \in Pieces}
Whole(l, F(_)) == FlattenSeq([i \in DOMAIN l |-> F(l[i])])
Prints ==
  LET format(l) == Whole(l, LAMBDA p : p.written)
      takes(l) == Whole(l, LAMBDA p : p.takes)
      prints(l) == Whole(l, LAMBDA p : p.prints)
      start(n, t) == SubSeq(t, 1, Min({n, Len(t)}))
  IN  {Ask("astrcatf", <<s, format(l), takes(l)>>, s \o prints(l)) :
         l \in Printing, s \in {<<>>, <<"x">>}}
      \cup {Ask("asprintf", <<format(l), takes(l)>>, prints(l)) : l \in Printing}
      \cup {Ask("sprintf", <<size, format(l), takes(l)>>,
                Filled(start(size - 1, prints(l)), Len(prints(l)) < size)) :
              l \in Printing, size \in 1 .. 4}

Bytes == {<<>>} \cup Lists({0, 9, 10, 171, 176, 255})
Written(data) ==
  FlattenSeq([i \in DOMAIN data |-> <<HexTable[data[i] \div 16 + 1], HexTable[(data[i] % 16) + 1]>>])
Capitals(text) ==
  [i \in DOMAIN text |-> IF text[i] = "a" THEN "A" ELSE IF text[i] = "b" THEN "B" ELSE text[i]]
Hex ==
  {Ask("hex_encode", <<size, d>>, IF 2 * Len(d) < size THEN Written(d) ELSE NULL) :
     d \in Bytes, size \in {3, 4, 5, 7}}
  \cup {Ask("hex_decode", <<size, x \o Capitals(Written(d))>>, IF Len(d) <= size THEN d ELSE NULL) :
          x \in {<<>>, <<"0", "x">>}, d \in Bytes \ {<<>>}, size \in 2 .. 3}
  \cup {Ask("hex_decode", <<3, t>>, NULL) : t \in {<<>>, <<"1">>, <<"1", "2", "3">>, <<"1", "z">>}}

\* Numbers of one or two digits behind an optional sign, and what follows them.
Digits(n) ==
  IF n < 10 THEN <<HexTable[n + 1]>> ELSE <<HexTable[n \div 10 + 1], HexTable[(n % 10) + 1]>>
Numeral(n) == IF n < 0 THEN <<"-">> \o Digits(- n) ELSE Digits(n)
Numbers == -70 .. 70
Rests == {<<>>, <<"z">>}
NumberIn(range, n, m, rest) == IF m \in range THEN Read("0", m, rest) ELSE Refuse("ERANGE")
Unsigned(n) == IF n \in ULongRange \/ - n \in ULongRange THEN n % 2 ^ LongBits ELSE n
Integer(call, range, Value(_)) ==
  {Ask(call, <<Numeral(n) \o rest>>, NumberIn(range, n, Value(n), rest)) :
     n \in Numbers, rest \in Rests}
  \cup {Ask(call, <<t>>, Refuse("EINVAL")) : t \in {<<>>, <<"z">>, <<"-">>, <<"-", "z">>}}
Integers ==
  Integer("strtol", LongRange, LAMBDA n : n) \cup Integer("strtoi", IntRange, LAMBDA n : n)
  \cup Integer("strtoul", ULongRange, Unsigned) \cup Integer("strtoui", UIntRange, Unsigned)

Asked ==
  Splits \cup Replaces \cup Searches \cup Copies \cup Slices \cup Trims \cup Records
  \cup Appends \cup FlagCalls \cup Prints \cup Hex \cup Integers

TextsInit ==
  \E a \in Asked :
    /\ asked = [call |-> a.call, args |-> a.args] /\ meant = a.means
    /\ got = NULL /\ result = "more"
TextsSpec == TextsInit /\ [][TextCall]_textVars
=============================================================================
