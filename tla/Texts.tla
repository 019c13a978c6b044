------------------------------- MODULE Texts --------------------------------
(***************************************************************************)
(* Functions on text (src/string, src/io, src/strint and the records of    *)
(* src/net/net_dnstxtrec.c): searching, cutting, replacing, copying into   *)
(* bounded buffers, the translation of PCL's printf formats to those of    *)
(* the C library, hexadecimal and integers.  A text is a sequence of       *)
(* characters without its NUL; a loop is a recursive function of the       *)
(* position it has reached.  A call is one step.                           *)
(***************************************************************************)
EXTENDS Integers, Sequences, SequencesExt

CONSTANTS NULL, IntBits, LongBits   \* the widths of int and long

VARIABLES
  asked,    \* the function called and its arguments
  meant,    \* what it should return
  got,      \* what it returned
  result    \* "more" before the call, "done" after it

textVars == <<asked, meant, got, result>>

tolower(c) ==
  LET upper == [A |-> "a", B |-> "b"]
  IN  IF c \in DOMAIN upper THEN upper[c] ELSE c
From(s, i) == SubSeq(s, i, Len(s))

-----------------------------------------------------------------------------
(* Searching and cutting. *)
Same(c, d, casefold) == c = d \/ (casefold /\ tolower(c) = tolower(d))
StartsAt(s, i, t, casefold) ==
  i + Len(t) <= Len(s) + 1 /\ \A k \in DOMAIN t : Same(s[i + k - 1], t[k], casefold)

\* strstr and pcl_stristr from position i: 0 is the null pointer.
Find(s, i, t, casefold) ==
  LET at == {p \in i .. Len(s) : StartsAt(s, p, t, casefold)}
  IN  IF t = <<>> THEN i ELSE IF at = {} THEN 0 ELSE Min(at)

\* A length of zero is that of the whole text.
Ndup(s, len) == IF len = 0 THEN s ELSE SubSeq(s, 1, len)

\* Mutant of After: the delimiter stays in front of the next part.
AfterFirst(p, delim) == p + 1
After(p, delim) == p + Len(delim)

\* Two delimiters in a row, or one at the front, copy the whole rest: see Ndup.
SplitText(s, delim, casefold) ==
  LET Parts[i \in 1 .. Len(s) + 1] ==
        LET p == Find(s, i, delim, casefold)
        IN  IF i > Len(s) THEN <<>>
            ELSE IF p = 0 THEN <<From(s, i)>>
            ELSE <<Ndup(From(s, i), p - i)>> \o Parts[After(p, delim)]
  IN  Parts[1]

ReplaceText(s, from, to, casefold) ==
  LET Rest[i \in 1 .. Len(s) + 1] ==
        IF i > Len(s) THEN <<>>
        ELSE IF StartsAt(s, i, from, casefold) THEN to \o Rest[After(i, from)]
        ELSE <<s[i]>> \o Rest[i + 1]
  IN  Rest[1]

TrimText(s, set, ltrim, rtrim) ==
  LET kept == {i \in DOMAIN s : s[i] \notin set}
      first == IF ~ltrim THEN 1 ELSE IF kept = {} THEN Len(s) + 1 ELSE Min(kept)
      last == IF ~rtrim THEN Len(s) ELSE IF kept = {} THEN 0 ELSE Max(kept)
  IN  SubSeq(s, first, last)

SliceText(s, pos, len) == IF pos + len > Len(s) THEN NULL ELSE Ndup(From(s, pos + 1), len)

\* The strings of a TXT record: each behind its length.
TxtRecord(data) ==
  LET Strings[n \in 1 .. Len(data) + 1] ==
        IF n > Len(data) THEN <<>>
        ELSE <<Ndup(From(data, n + 1), data[n])>> \o Strings[n + 1 + data[n]]
  IN  Strings[1]

-----------------------------------------------------------------------------
(* Bounded buffers: what they hold and whether the call failed. *)
Filled(text, ok) == [text |-> text, ok |-> ok]

CopyInto(size, src, len) ==
  LET n == IF len = 0 THEN Len(src) ELSE len
  IN  IF n > 0 /\ n >= size THEN Filled(<<>>, FALSE) ELSE Filled(SubSeq(src, 1, n), TRUE)

AppendTo(dest, size, src, len) ==
  LET n == IF len = 0 THEN Len(src) ELSE len
      avail == size - Len(dest)
  IN  IF n = 0 \/ avail <= 0 THEN Filled(dest, TRUE)
      ELSE IF n >= avail THEN Filled(dest, FALSE)
      ELSE Filled(dest \o SubSeq(src, 1, n), TRUE)

\* pcl_strflags: the names that fit, a comma before all but the first.
FlagNames(size, names) ==
  LET Cat[i \in 0 .. Len(names)] ==
        IF i = 0 THEN Filled(<<>>, TRUE)
        ELSE LET b == Cat[i - 1]
                 name == (IF b.text = <<>> THEN <<>> ELSE <<",">>) \o names[i]
             IN  IF b.ok THEN AppendTo(b.text, size, name, 0) ELSE b
  IN  Cat[Len(names)].text

-----------------------------------------------------------------------------
(* Formats. *)
Flags == {"0", "1", "2", "4", "5", "6", "7", "8", "9", "-", " ", "+", "'", "*", ".",
          "h", "l", "L", "q", "j", "z"}

\* XFUNC(fmtconv) on Unix: outside a conversion and, with "spec", inside one.
\* A '/' right behind the '%' replaces it and the conversion goes on.
Fmtconv(f) ==
  LET Out[i \in 1 .. Len(f) + 2, spec \in BOOLEAN] ==
        IF i > Len(f) THEN <<>>
        ELSE LET next == IF i < Len(f) THEN f[i + 1] ELSE NULL IN
        CASE ~spec /\ f[i] # "%" -> <<f[i]>> \o Out[i + 1, FALSE]
          [] ~spec /\ f[i] = "%" ->
               IF next = "%" THEN <<"%">> \o Out[i + 2, FALSE]
               ELSE IF next = "/" THEN <<"/">> \o Out[i + 2, TRUE]
               ELSE <<"%">> \o Out[i + 1, TRUE]
          [] spec /\ f[i] = "%" -> Out[i, FALSE]
          [] spec /\ f[i] = "P" ->
               IF next \in {"s", "c"} THEN <<next>> \o Out[i + 2, FALSE]
               ELSE <<"P">> \o Out[i + 1, FALSE]
          [] spec /\ f[i] \in Flags -> <<f[i]>> \o Out[i + 1, TRUE]
          [] OTHER -> <<f[i]>> \o Out[i + 1, FALSE]
  IN  Out[1, FALSE]

\* vsnprintf of the C library: a conversion is replaced by the next argument.
Vsnprintf(f, args) ==
  LET Text[i \in 1 .. Len(f) + 1, spec \in BOOLEAN, a \in 0 .. Len(f)] ==
        IF i > Len(f) THEN <<>>
        ELSE IF ~spec THEN IF f[i] = "%" THEN Text[i + 1, TRUE, a]
                           ELSE <<f[i]>> \o Text[i + 1, FALSE, a]
        ELSE IF f[i] \in Flags THEN Text[i + 1, TRUE, a]
        ELSE args[a + 1] \o Text[i + 1, FALSE, a + 1]
  IN  Text[1, FALSE, 0]

\* vxprintf: a buffer too small keeps what fits and its NUL.
Printed(size, format, args) ==
  LET text == Vsnprintf(Fmtconv(format), args)
  IN  IF Len(text) >= size THEN Filled(SubSeq(text, 1, size - 1), FALSE)
      ELSE Filled(text, TRUE)

\* Measured first, then written into a block of that size, behind the text src
\* for pcl_vastrcatf.
PrintedWhole(format, args) ==
  LET size == Len(Vsnprintf(Fmtconv(format), args)) + 1
      b == Printed(size, format, args)
  IN  IF b.ok THEN b.text ELSE NULL
PrintedBehind(src, format, args) ==
  LET size == Len(Vsnprintf(Fmtconv(format), args)) + Len(src) + 1
      b == Printed(size - Len(src), format, args)
  IN  IF b.ok THEN src \o b.text ELSE NULL

-----------------------------------------------------------------------------
(* Hexadecimal. *)
HexTable == <<"0", "1", "2", "3", "4", "5", "6", "7", "8", "9", "a", "b", "c", "d", "e", "f">>
HexValues ==
  [c \in Range(HexTable) |-> (CHOOSE j \in DOMAIN HexTable : HexTable[j] = c) - 1]
  @@ [A |-> 10, B |-> 11]

HexEncode(size, data) ==
  IF size < 2 * Len(data) + 1 THEN NULL
  ELSE [i \in 1 .. 2 * Len(data) |->
          LET byte == data[(i + 1) \div 2]
          IN  HexTable[(IF i % 2 = 1 THEN byte \div 16 ELSE byte % 16) + 1]]

HexDecode(size, text) ==
  LET hex == IF Len(text) >= 2 /\ text[1] = "0" /\ text[2] = "x" THEN From(text, 3) ELSE text
      len == Len(hex) \div 2
  IN  IF size < 2 THEN <<>>
      ELSE IF Len(text) < 2 \/ Len(text) % 2 # 0 \/ size < len THEN NULL
      ELSE IF \E i \in DOMAIN hex : hex[i] \notin DOMAIN HexValues THEN NULL
      ELSE [i \in 1 .. len |-> 16 * HexValues[hex[2 * i - 1]] + HexValues[hex[2 * i]]]

-----------------------------------------------------------------------------
(* Integers. *)
LongRange == - 2 ^ (LongBits - 1) .. 2 ^ (LongBits - 1) - 1
IntRange == - 2 ^ (IntBits - 1) .. 2 ^ (IntBits - 1) - 1
ULongRange == 0 .. 2 ^ LongBits - 1
UIntRange == 0 .. 2 ^ IntBits - 1
Read(error, n, rest) == [error |-> error, n |-> n, rest |-> rest]
Refuse(error) == Read(error, 0, <<>>)

\* What strtol and strtoul find: a sign and digits in front of any text.
Scanned(s) ==
  LET sign == IF s # <<>> /\ s[1] = "-" THEN 1 ELSE 0
      stops == {i \in sign + 1 .. Len(s) : s[i] \notin {HexTable[d] : d \in 1 .. 10}}
      end == IF stops = {} THEN Len(s) + 1 ELSE Min(stops)
      Value[i \in sign .. end - 1] ==
        IF i = sign THEN 0 ELSE 10 * Value[i - 1] + HexValues[s[i]]
  IN  IF end = sign + 1 THEN Read("0", 0, s)
      ELSE Read("0", IF sign = 1 THEN - Value[end - 1] ELSE Value[end - 1], From(s, end))

\* strtol sets errno only for a value that does not fit; it is cleared first.
ReadInteger(s, fits, value) ==
  IF s = <<>> THEN Refuse("EINVAL")
  ELSE IF ~fits THEN Refuse("ERANGE")
  ELSE IF Scanned(s).rest = s THEN Refuse("EINVAL")
  ELSE Read("0", value, Scanned(s).rest)

ToLong(s) == LET n == Scanned(s).n IN ReadInteger(s, n \in LongRange, n)
\* A negative number is read modulo the width.
ToULong(s) ==
  LET n == Scanned(s).n
  IN  ReadInteger(s, n \in ULongRange \/ - n \in ULongRange, n % 2 ^ LongBits)
Narrow(r, range) == IF r.error = "0" /\ r.n \notin range THEN Refuse("ERANGE") ELSE r

-----------------------------------------------------------------------------
Returns(call, value) ==
  /\ asked.call = call /\ result = "more"
  /\ got' = value /\ result' = "done"
  /\ UNCHANGED <<asked, meant>>

a1 == asked.args[1]
a2 == asked.args[2]
a3 == asked.args[3]
a4 == asked.args[4]

Strndup == Returns("strndup", Ndup(a1, a2))
Stristr == Returns("stristr", Find(a1, 1, a2, TRUE))
Strsplit == Returns("strsplit", SplitText(a1, a2, a3))
Strreplace == Returns("strreplace", ReplaceText(a1, a2, a3, a4))
Strtrimset == Returns("strtrimset", TrimText(a1, a2, a3, a4))
Strslice == Returns("strslice", SliceText(a1, a2, a3))
Dnstxtrec == Returns("net_dnstxtrec", TxtRecord(a1))
Strncpy == Returns("strncpy", CopyInto(a1, a2, a3))
Strncat == Returns("strncat", AppendTo(a1, a2, a3, a4))
Strflags == Returns("strflags", FlagNames(a1, a2))
Sprintf == Returns("sprintf", Printed(a1, a2, a3))
Asprintf == Returns("asprintf", PrintedWhole(a1, a2))
Astrcatf == Returns("astrcatf", PrintedBehind(a1, a2, a3))
HexEncoded == Returns("hex_encode", HexEncode(a1, a2))
HexDecoded == Returns("hex_decode", HexDecode(a1, a2))
Strtol == Returns("strtol", ToLong(a1))
Strtoi == Returns("strtoi", Narrow(ToLong(a1), IntRange))
Strtoul == Returns("strtoul", ToULong(a1))
Strtoui == Returns("strtoui", Narrow(ToULong(a1), UIntRange))

TextCall ==
  \/ Strndup \/ Stristr \/ Strsplit \/ Strreplace \/ Strtrimset \/ Strslice \/ Dnstxtrec
  \/ Strncpy \/ Strncat \/ Strflags \/ Sprintf \/ Asprintf \/ Astrcatf
  \/ HexEncoded \/ HexDecoded \/ Strtol \/ Strtoi \/ Strtoul \/ Strtoui

\* Every function returns what its arguments were written to mean: the parts
\* that were joined, the text around what was cut out, the values a format was
\* given, the bytes and the integers that were written down, and an error when
\* there is no room or no such value (strsplit.c, strreplace.c, strtrimset.c,
\* strslice.c, stristr.c, strncpy.c, strncat.c, strflags.c, fmtconv.c,
\* vsprintf.c, asprintf.c, astrcatf.c, hex_encode.c, hex_decode.c, strtol.c,
\* strtoi.c, strtoul.c, strtoui.c, net_dnstxtrec.c).
TextsExact == result = "done" => got = meant
=============================================================================
