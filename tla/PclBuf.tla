------------------------------- MODULE PclBuf -------------------------------
(***************************************************************************)
(* pcl_buf_t (src/buf): a buffer of characters that grows, with a position *)
(* and a length, in binary or text mode.  Every put writes a NUL after the *)
(* last character that "len" does not count.  Integers are put and got as  *)
(* blobs.  A buffer made with size 0 has no defined block and is left out. *)
(***************************************************************************)
EXTENDS Naturals, Sequences

CONSTANTS
  Char,          \* characters
  NUL, JUNK,     \* the character 0; what malloc and realloc leave in a cell
  Sizes,         \* initial sizes the caller asks for, not 0
  Blobs,         \* sequences of characters, some with a NUL, that are put
  BufTexts,         \* sequences of characters without a NUL
  EscapeRoom,    \* 4 in json_parse_string.c:101
  MaxSize,       \* bound: nothing is put that grows the buffer past this
  Escapes        \* TRUE: the JSON parser writes decoded escapes as well

ASSUME BufAssumption ==
  /\ NUL \in Char /\ JUNK \notin Char
  /\ Sizes \subseteq Nat \ {0} /\ MaxSize \in Nat
  /\ Blobs \subseteq Seq(Char) /\ BufTexts \subseteq Seq(Char \ {NUL})

VARIABLES
  made, mode, pos, len,
  cells,         \* the characters of data; the size is its length
  overrun        \* something was written past the end

bufVars == <<made, mode, pos, len, cells, overrun>>

Size == Len(cells)
Content == SubSeq(cells, 1, len)

BufInit ==
  /\ made = TRUE
  /\ mode \in {"binary", "text"}
  /\ \E n \in Sizes : cells = [i \in 1 .. n |-> IF i = 1 THEN NUL ELSE JUNK]
  /\ pos = 0 /\ len = 0
  /\ overrun = FALSE

-----------------------------------------------------------------------------
\* pcl_buf_grow before n characters are written at the position.
GrowsLate(n) == IF n > Size - pos THEN (Size + (n - (Size - pos))) * 2 ELSE Size
GrownSize(n) == IF n >= Size - pos THEN (Size + (n - (Size - pos))) * 2 ELSE Size

\* The cells after growing for n and writing s at the position.
FreshBlock(s, n) == [i \in 1 .. GrownSize(n) |->
  IF i \in pos + 1 .. pos + Len(s) THEN s[i - pos] ELSE JUNK]
Written(s, n) == [i \in 1 .. GrownSize(n) |->
  IF i \in pos + 1 .. pos + Len(s) THEN s[i - pos]
  ELSE IF i <= Size THEN cells[i] ELSE JUNK]

Write(s, n) ==
  /\ GrownSize(n) <= MaxSize
  /\ cells' = Written(s, n)
  /\ overrun' = (overrun \/ pos + Len(s) > GrownSize(n))

MovesTo(p) == pos' = p /\ len' = IF len < p THEN p ELSE len

\* pcl_buf_put: room for the NUL is asked for, but it is not counted.
BufPut(s) ==
  /\ s # <<>>
  /\ Write(Append(s, NUL), Len(s) + 1)
  /\ MovesTo(pos + Len(s))
  /\ UNCHANGED <<made, mode>>

\* pcl_buf_putstr: in binary mode the NUL of the string is put as well.
PutStr(s) == BufPut(IF mode = "binary" THEN Append(s, NUL) ELSE s)

\* pcl_buf_vputf: the formatted text and its NUL, and in binary mode, which
\* counts that one, another.  (A text buffer of size 0 does not grow for an
\* empty text, and its NUL is written out of the block: left out.)
PutF(s) ==
  /\ s # <<>> \/ mode = "binary" \/ Size > 0
  /\ LET nuls == IF mode = "binary" THEN <<NUL, NUL>> ELSE <<NUL>>
     IN /\ Write(s \o nuls, Len(s) + Len(nuls) - 1)
        /\ MovesTo(pos + Len(s) + Len(nuls) - 1)
  /\ UNCHANGED <<made, mode>>

\* utf16_to_utf8 of the JSON parser writes into the buffer itself.
PutEscape(s) ==
  /\ Escapes /\ mode = "text" /\ s # <<>>
  /\ Write(s, EscapeRoom)
  /\ pos' = pos + Len(s) /\ len' = len + Len(s)
  /\ UNCHANGED <<made, mode>>

\* pcl_buf_get: n characters, or PCL_EOF.
BufGet(n) ==
  /\ mode = "binary" /\ n <= len - pos
  /\ pos' = pos + n
  /\ UNCHANGED <<made, mode, len, cells, overrun>>

\* pcl_buf_getstr: up to the next NUL, which the caller's buffer has room for.
GetStr ==
  /\ mode = "binary"
  /\ \E n \in 1 .. Size - pos :
       /\ cells[pos + n] = NUL
       /\ \A i \in 1 .. n - 1 : cells[pos + i] # NUL
       /\ BufGet(n)

\* The caller goes back to the start by setting the position (tests/buf.c).
Rewind == pos' = 0 /\ UNCHANGED <<made, mode, len, cells, overrun>>

Reset ==
  /\ pos' = 0 /\ len' = 0
  /\ cells' = [i \in 1 .. Size |-> IF i = 1 THEN NUL ELSE cells[i]]
  /\ UNCHANGED <<made, mode, overrun>>

Cleared == pos' = 0 /\ len' = 0 /\ cells' = <<>> /\ UNCHANGED <<mode, overrun>>
BufClear == Cleared /\ UNCHANGED made
BufFree == Cleared /\ made' = FALSE

\* pcl_buf_copy into a new buffer, with which the caller goes on.
CopiesLen(i) == i <= len
Copies(i) == i <= len + 1
Copy ==
  /\ Size > 0
  /\ cells' = [i \in 1 .. Size |-> IF Copies(i) THEN cells[i] ELSE JUNK]
  /\ UNCHANGED <<made, mode, pos, len, overrun>>

BufNext ==
  /\ made
  /\ \/ \E s \in Blobs : BufPut(s)
     \/ \E s \in BufTexts : PutStr(s) \/ PutF(s) \/ PutEscape(s)
     \/ \E n \in 1 .. MaxSize : BufGet(n)
     \/ GetStr \/ Rewind \/ Reset \/ BufClear \/ BufFree \/ Copy

BufSpec == BufInit /\ [][BufNext]_bufVars

-----------------------------------------------------------------------------
BufTypeOK ==
  /\ mode \in {"binary", "text"}
  /\ pos \in 0 .. len /\ len \in 0 .. MaxSize
  /\ \A i \in 1 .. len : cells[i] # JUNK

\* "Regardless of a buffer's mode, a trailing NUL is added on every put", in
\* space "reserved internally" (include/pcl/buf.h:42-43): the character after
\* the last is always a NUL, whatever was put, read, rewound, reset or copied
\* before (buf_put.c, buf_vputf.c, buf_reset.c, buf_copy.c).
BufTerminated == Size > 0 => len < Size /\ cells[len + 1] = NUL

\* No put writes past the block it has grown (buf_grow.c, with the different
\* lengths buf_put.c and buf_vputf.c ask for).
BufNoOverrun == ~overrun

\* A put behind the last character keeps all the characters before it, however
\* the buffer grows, and so does a copy (buf_grow.c, buf_copy.c).
AppendsStep == pos = len /\ len' # 0 => len <= len' /\ SubSeq(cells', 1, len) = Content
BufAppends == [][AppendsStep]_bufVars
=============================================================================
