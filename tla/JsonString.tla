----------------------------- MODULE JsonString -----------------------------
(***************************************************************************)
(* Strings in a JSON text: ipcl_json_parse_string with pcl_utf8_encode and *)
(* pcl_utf8_check, and ipcl_json_encode_string.  Characters are the bytes  *)
(* 1 .. 255.  The texts are written from the code points they mean.        *)
(***************************************************************************)
EXTENDS Integers, Sequences, SequencesExt

CONSTANTS
  NULL,
  Strings,       \* sequences of code points a text is written from
  BadEnds        \* bytes that are no part of a string, after the others

VARIABLES
  meant, bad,    \* the code points of the string, and the bad bytes after them
  input,         \* the bytes not yet read
  out,           \* the buffer's bytes
  checked,       \* how many of them pcl_utf8_check has seen
  result         \* "string", "check", "done" or "error" (NULL was returned)

stringVars == <<meant, bad, input, out, checked, result>>

Quote == 34
Backslash == 92
Slash == 47
\* The letters of the short escapes (b f n r t) and what they stand for.
Short == [c \in {98, 102, 110, 114, 116} |->
  CASE c = 98 -> 8 [] c = 102 -> 12 [] c = 110 -> 10 [] c = 114 -> 13 [] c = 116 -> 9]
Itself == {Backslash, Slash, Quote}
U == 117

Byte(i) == IF i <= Len(input) THEN input[i] ELSE NULL

\* hex2num takes the four bytes by strtol(3) in base 16: blanks, a sign and 0x may
\* come before the digits, which must reach to the end.
Minus == 45
HexValue == [c \in (48 .. 57) \cup (65 .. 70) \cup (97 .. 102) |->
  IF c <= 57 THEN c - 48 ELSE (c % 32) + 9]
IsBlank(c) == c = 32 \/ c \in 9 .. 13
Signs == {<<>>, <<43>>, <<Minus>>}
Bases == {<<>>, <<48, 88>>, <<48, 120>>}
\* How many of four bytes come before the digits: one way at most.
DigitsAfter(s) ==
  {n \in 0 .. 3 :
    /\ \E b \in 0 .. n : /\ \A k \in 1 .. b : IsBlank(s[k])
                       /\ \E sign \in Signs, base \in Bases : SubSeq(s, b + 1, n) = sign \o base
    /\ \A k \in n + 1 .. 4 : s[k] \in DOMAIN HexValue}
Numeral(i) == SubSeq(input, i, i + 3)
IsHex(i) == i + 3 <= Len(input) /\ DigitsAfter(Numeral(i)) # {}
Hex(i) ==
  LET s == Numeral(i)
      n == CHOOSE m \in DigitsAfter(s) : TRUE
      value == FoldLeft(LAMBDA v, c : (16 * v) + HexValue[c], 0, SubSeq(s, n + 1, 4))
  IN  IF Minus \in Range(s) THEN -value ELSE value

\* pcl_utf8_encode.
Low(code, bits) == 128 + ((code \div bits) % 64)
Utf8Encode(code) ==
  IF code <= 127 THEN <<code>>
  ELSE IF code <= 2047 THEN <<192 + (code \div 64), Low(code, 1)>>
  ELSE IF code <= 65535 THEN <<224 + (code \div 4096), Low(code, 64), Low(code, 1)>>
  ELSE <<240 + (code \div 262144), Low(code, 4096), Low(code, 64), Low(code, 1)>>

-----------------------------------------------------------------------------
Refused == result' = "error" /\ UNCHANGED <<input, out, checked>>
Puts(bytes, n) ==
  /\ out' = out \o bytes
  /\ input' = SubSeq(input, n + 1, Len(input))
  /\ UNCHANGED <<checked, result>>

PlainByte == Byte(1) \notin {NULL, Quote, Backslash} /\ Puts(<<Byte(1)>>, 1)

\* utf16_to_utf8: one unit, or the two of a surrogate pair.  A negative number is
\* no code point to pcl_utf8_encode.
IsHigh(unit) == unit \in 55296 .. 56319
IsLow(unit) == unit \in 56320 .. 57343
Paired(high, low) == 65536 + ((high % 1024) * 1024) + (low % 1024)
UnicodeEscape ==
  /\ Byte(1) = Backslash /\ Byte(2) = U
  /\ \/ ~IsHex(3) /\ Refused
     \/ IsHex(3) /\ Hex(3) < 0 /\ Refused
     \/ IsHex(3) /\ Hex(3) >= 0 /\ ~IsHigh(Hex(3)) /\ Puts(Utf8Encode(Hex(3)), 6)
     \/ /\ IsHex(3) /\ IsHigh(Hex(3))
        /\ LET pair == Byte(7) = Backslash /\ Byte(8) = U /\ IsHex(9) /\ IsLow(Hex(9))
           IN \/ pair /\ Puts(Utf8Encode(Paired(Hex(3), Hex(9))), 12)
              \/ ~pair /\ Refused

ShortEscape ==
  /\ Byte(1) = Backslash /\ Byte(2) # U
  /\ \/ Byte(2) \in Itself /\ Puts(<<Byte(2)>>, 2)
     \/ Byte(2) \in DOMAIN Short /\ Puts(<<Short[Byte(2)]>>, 2)
     \/ Byte(2) \notin Itself \cup DOMAIN Short /\ Refused

\* The closing quote: what was read is checked.  A text may end without one.
Close ==
  \/ Byte(1) = NULL /\ Refused
  \/ /\ Byte(1) = Quote
     /\ result' = "check"
     /\ UNCHANGED <<input, out, checked>>

\* pcl_utf8_check: the lengths by the first byte, and the bounds of the second.
\* The bounds of a first byte above F0 are checked against the first byte.
SequenceLength(c) ==
  CASE c <= 127 -> 1
    [] c \in 194 .. 223 -> 2
    [] c \in 224 .. 239 -> 3
    [] c \in 240 .. 244 -> 4
    [] OTHER -> 0
Continuation(c) == c \in 128 .. 191
LooseSecond(c, c2) == Continuation(c2)
SecondFits(c, c2) ==
  CASE c = 224 -> c2 \in 160 .. 191
    [] c = 237 -> c2 \in 128 .. 159
    [] c = 240 -> c2 \in 144 .. 191
    [] c > 240 -> ~(c2 < 128 \/ c > 191)
    [] OTHER -> Continuation(c2)

CheckSequence ==
  /\ checked < Len(out)
  /\ LET c == out[checked + 1]
         n == SequenceLength(c)
         ok == /\ n > 0 /\ checked + n <= Len(out)
               /\ n > 1 => SecondFits(c, out[checked + 2])
               /\ \A i \in 3 .. n : Continuation(out[checked + i]) IN
     \/ ~ok /\ Refused
     \/ ok /\ checked' = checked + n /\ UNCHANGED <<input, out, result>>

Checked ==
  /\ checked = Len(out)
  /\ result' = "done"
  /\ UNCHANGED <<input, out, checked>>

ParseString ==
  /\ \/ result = "string" /\ (PlainByte \/ ShortEscape \/ UnicodeEscape \/ Close)
     \/ result = "check" /\ (CheckSequence \/ Checked)
  /\ UNCHANGED <<meant, bad>>

-----------------------------------------------------------------------------
\* ipcl_json_encode_string, without the opening quote: control characters by
\* "\\u%04hhx" where there is no short escape.
LowerCase == <<48, 49, 50, 51, 52, 53, 54, 55, 56, 57, 97, 98, 99, 100, 101, 102>>
UpperCase == <<48, 49, 50, 51, 52, 53, 54, 55, 56, 57, 65, 66, 67, 68, 69, 70>>
Digits(n, digit) == [k \in 1 .. 4 |-> digit[((n \div 16 ^ (4 - k)) % 16) + 1]]
UnitEscape(n) == <<Backslash, U>> \o Digits(n, LowerCase)

EncodedByte(c) ==
  IF c \in Itself THEN <<Backslash, c>>
  ELSE IF c \in Range(Short) THEN <<Backslash, CHOOSE l \in DOMAIN Short : Short[l] = c>>
  ELSE IF c < 32 THEN UnitEscape(c) ELSE <<c>>
Encoded(bytes) == FlattenSeq([i \in DOMAIN bytes |-> EncodedByte(bytes[i])])

\* The ways to write a code point: as it is, by what pcl_json_encode writes,
\* or by its UTF-16 units, in digits of either case, those of a small one after a
\* blank and a sign or after 0X.
Leads == {<<9, 43>>, <<48, 88>>}
Numerals(n) ==
  {Digits(n, LowerCase), Digits(n, UpperCase)}
  \cup {lead \o SubSeq(Digits(n, UpperCase), 3, 4) : lead \in IF n < 256 THEN Leads ELSE {}}
UnitForms(n) == {<<Backslash, U>> \o numeral : numeral \in Numerals(n)}
Units(code) ==
  IF code <= 65535 THEN UnitForms(code)
  ELSE {high \o low : high \in UnitForms(55296 + ((code - 65536) \div 1024)),
                      low \in UnitForms(56320 + ((code - 65536) % 1024))}
Forms(code) ==
  {Encoded(Utf8Encode(code))} \cup Units(code)
  \cup (IF code < 32 \/ code \in {Quote, Backslash} THEN {} ELSE {Utf8Encode(code)})
Write(code, afters) == {form \o after : form \in Forms(code), after \in afters}

JsonStringInit ==
  /\ meant \in Strings /\ bad \in BadEnds \cup {NULL}
  /\ input \in FoldRight(Write, meant, {IF bad = NULL THEN <<Quote>> ELSE bad})
  /\ out = <<>> /\ checked = 0 /\ result = "string"

\* What the bytes mean by the table of utf8_check.c:38-47: the rows as first
\* bytes and second bytes, every byte after that being 80..BF.
Rows == {<<194 .. 223, 128 .. 191, 2>>, <<{224}, 160 .. 191, 3>>,
         <<225 .. 236, 128 .. 191, 3>>, <<{237}, 128 .. 159, 3>>,
         <<238 .. 239, 128 .. 191, 3>>, <<{240}, 144 .. 191, 4>>,
         <<241 .. 243, 128 .. 191, 4>>, <<{244}, 128 .. 143, 4>>}
RowsOf(s) == {r \in Rows : /\ Len(s) >= r[3] /\ s[1] \in r[1] /\ s[2] \in r[2]
                           /\ \A i \in 3 .. r[3] : s[i] \in 128 .. 191}
Lead == [n \in 2 .. 4 |-> CASE n = 2 -> 192 [] n = 3 -> 224 [] n = 4 -> 240]
Value(s) == FoldLeft(LAMBDA v, c : (64 * v) + c - 128, Head(s) - Lead[Len(s)], Tail(s))
Decoded(bytes) ==
  LET D[i \in 1 .. Len(bytes) + 1] ==
        IF i > Len(bytes) THEN <<>>
        ELSE IF bytes[i] <= 127 THEN <<bytes[i]>> \o D[i + 1]
        ELSE LET rows == RowsOf(SubSeq(bytes, i, Len(bytes)))
                 n == (CHOOSE r \in rows : TRUE)[3]
             IN IF rows = {} THEN <<NULL>>
                ELSE <<Value(SubSeq(bytes, i, i + n - 1))>> \o D[i + n]
  IN D[1]

\* However its code points are written - by pcl_json_encode, by escapes with any
\* number strtol reads in four bytes, as they are - a string is parsed to their
\* bytes; escapes it does not read to the end or reads as negative, lone
\* surrogates and bytes that are not UTF-8 give NULL (json_parse_string.c,
\* json_encode_string.c, utf8_encode.c, utf8_check.c).
StringsParsed ==
  /\ result = "done" => Decoded(out) = meant /\ bad = NULL
  /\ result = "error" => bad # NULL

\* What the table of utf8_check.c allows is not refused ("U+40000..U+FFFFF
\* F1..F3 80..BF 80..BF 80..BF", src/string/utf8_check.c:46).
TableAccepted ==
  result = "error" => NULL \in Range(Decoded(out)) \/ bad # NULL
=============================================================================
