---------------------------- MODULE ObjectProofs ----------------------------
(* A buffer: the terminating NUL, the room for it and what a put keeps, for *)
(* any characters, any texts and any sizes, without the escapes of the JSON *)
(* parser, which do not keep the first.  The error object of a thread: what *)
(* a freeze protects, for all codes, nestings of regions and depths of the  *)
(* trace.  A file object: what its flag says of the lock of its process,    *)
(* for any number of processes and objects.  Directory trees: what is       *)
(* removed and what is made, for any trees, paths and processes.            *)
EXTENDS PclBuf, ErrorState, FileLock, DirTree, Induction, SequenceTheorems, TLAPS

-----------------------------------------------------------------------------
(* The buffer. *)

BufTypes ==
  /\ mode \in {"binary", "text"}
  /\ cells \in Seq(Char \cup {JUNK})
  /\ len \in Nat /\ pos \in 0 .. len
EmptyBlock == Size = 0 => len = 0
\* No character of the content is left over from malloc or realloc.
Defined == \A i \in 1 .. len : cells[i] # JUNK

BufInv == BufTypes /\ EmptyBlock /\ BufTerminated /\ Defined /\ BufNoOverrun

-----------------------------------------------------------------------------
\* Room for n characters at the position is room for them and one more.
LEMMA GrownHasRoom ==
  ASSUME BufTypes, EmptyBlock, BufTerminated, NEW n \in Nat, n > 0 \/ Size > 0
  PROVE  /\ GrownSize(n) \in Nat /\ Size <= GrownSize(n)
         /\ pos + n < GrownSize(n)
<1>1. Size \in Nat /\ pos \in Nat /\ len \in Nat /\ pos <= len
  BY DEF BufTypes, Size
<1>2. Size > 0 => pos < Size
  BY <1>1 DEF BufTerminated
<1>3. Size = 0 => pos = 0
  BY <1>1 DEF EmptyBlock
<1> QED
  BY <1>1, <1>2, <1>3 DEF GrownSize

\* Characters and a NUL behind the last one that counts, m of them counted.
LEMMA WriteKeeps ==
  ASSUME BufInv, NEW s \in Seq(Char), NEW n \in Nat, NEW m \in Nat,
         n > 0 \/ Size > 0, m <= n, Len(s) = m + 1, s[Len(s)] = NUL, NUL \in Char, JUNK \notin Char,
         Write(s, n), MovesTo(pos + m), mode' = mode
  PROVE  BufInv' /\ AppendsStep
<1>1. /\ cells \in Seq(Char \cup {JUNK}) /\ Size \in Nat /\ Size = Len(cells)
      /\ pos \in Nat /\ len \in Nat /\ pos <= len
      /\ GrownSize(n) \in Nat /\ Size <= GrownSize(n) /\ pos + m < GrownSize(n)
  <2>1. BufTypes /\ EmptyBlock /\ BufTerminated
    BY DEF BufInv
  <2>2. GrownSize(n) \in Nat /\ Size <= GrownSize(n) /\ pos + n < GrownSize(n)
    BY <2>1, GrownHasRoom
  <2>3. /\ cells \in Seq(Char \cup {JUNK}) /\ Size \in Nat /\ Size = Len(cells)
        /\ pos \in Nat /\ len \in Nat /\ pos <= len
    BY <2>1 DEF BufTypes, Size
  <2> QED
    BY <2>2, <2>3
<1>2. \A i \in 1 .. Len(s) : s[i] \in Char
  OBVIOUS
<1>3. \A i \in 1 .. Size : cells[i] \in Char \cup {JUNK}
  BY <1>1
<1>4. /\ cells' \in Seq(Char \cup {JUNK}) /\ Len(cells') = GrownSize(n)
      /\ \A i \in 1 .. GrownSize(n) : cells'[i] =
           IF i \in pos + 1 .. pos + Len(s) THEN s[i - pos]
           ELSE IF i <= Size THEN cells[i] ELSE JUNK
  <2> DEFINE f(i) == IF i \in pos + 1 .. pos + Len(s) THEN s[i - pos]
                     ELSE IF i <= Size THEN cells[i] ELSE JUNK
  <2>1. \A i \in 1 .. GrownSize(n) : f(i) \in Char \cup {JUNK}
    BY <1>1, <1>2, <1>3
  <2>2. cells' = [i \in 1 .. GrownSize(n) |-> f(i)]
    BY DEF Write, Written
  <2> HIDE DEF f
  <2>3. cells' \in Seq(Char \cup {JUNK}) /\ Len(cells') = GrownSize(n)
    BY <1>1, <2>1, <2>2
  <2>4. \A i \in 1 .. GrownSize(n) : cells'[i] = f(i)
    BY <2>2
  <2> QED
    BY <2>3, <2>4 DEF f
<1>5. /\ pos' = pos + m /\ len' \in Nat /\ pos' \in 0 .. len'
      /\ len' = IF len < pos + m THEN pos + m ELSE len
  BY <1>1 DEF MovesTo
<1>6. len < GrownSize(n) /\ len' < GrownSize(n)
  BY <1>1, <1>5 DEF BufInv, EmptyBlock, BufTerminated
<1>7. cells'[len' + 1] = NUL
  <2>1. CASE len <= pos + m
    BY <2>1, <1>1, <1>4, <1>5, <1>6
  <2>2. CASE len > pos + m
    <3>1. Size > 0 /\ len < Size /\ cells[len + 1] = NUL
      BY <2>2, <1>1 DEF BufInv, EmptyBlock, BufTerminated
    <3> QED
      BY <2>2, <3>1, <1>1, <1>4, <1>5, <1>6
  <2> QED
    BY <2>1, <2>2, <1>1
<1>8. \A i \in 1 .. len : i <= Size
  BY <1>1 DEF BufInv, EmptyBlock, BufTerminated
<1>9. Defined'
  <2> SUFFICES ASSUME NEW i \in 1 .. len' PROVE cells'[i] # JUNK
    BY DEF Defined
  <2>1. CASE i \in pos + 1 .. pos + Len(s)
    <3>1. i - pos \in 1 .. Len(s) /\ cells'[i] = s[i - pos]
      BY <2>1, <1>1, <1>4, <1>5, <1>6
    <3> QED
      BY <3>1, <1>2
  <2>2. CASE i \notin pos + 1 .. pos + Len(s)
    <3>1. i \in 1 .. len /\ cells'[i] = cells[i]
      BY <2>2, <1>1, <1>4, <1>5, <1>6, <1>8
    <3> QED
      BY <3>1 DEF BufInv, Defined
  <2> QED
    BY <2>1, <2>2
<1>10. BufNoOverrun'
  <2>1. ~ (pos + Len(s) > GrownSize(n))
    BY <1>1
  <2>2. overrun' = (overrun \/ pos + Len(s) > GrownSize(n))
    BY DEF Write
  <2> QED
    BY <2>1, <2>2, Zenon DEF BufInv, BufNoOverrun
<1>11. AppendsStep
  <2> SUFFICES ASSUME pos = len PROVE len <= len' /\ SubSeq(cells', 1, len) = Content
    BY DEF AppendsStep
  <2>1. len <= len'
    BY <1>1, <1>5
  <2>2. \A i \in 1 .. len : cells'[i] = cells[i]
    BY <1>1, <1>4, <1>6, <1>8
  <2> QED
    BY <2>1, <2>2, <1>1, <1>4, <1>6, <1>8 DEF Content
<1> QED
  BY <1>4, <1>5, <1>6, <1>7, <1>9, <1>10, <1>11 DEF BufInv, BufTypes, EmptyBlock, BufTerminated, Size
-----------------------------------------------------------------------------
\* The block and what counts of it stay; the position stays within.
LEMMA PositionMoves ==
  ASSUME BufInv, pos' \in 0 .. len, UNCHANGED <<mode, len, cells, overrun>>
  PROVE  BufInv' /\ AppendsStep
<1>1. len \in Nat /\ cells \in Seq(Char \cup {JUNK})
  BY DEF BufInv, BufTypes
<1>2. BufInv'
  BY <1>1 DEF BufInv, BufTypes, EmptyBlock, BufTerminated, Defined, BufNoOverrun, Size
<1>3. AppendsStep
  BY <1>1 DEF AppendsStep, Content
<1> QED
  BY <1>2, <1>3

LEMMA PutKeeps ==
  ASSUME BufInv, NEW s \in Seq(Char), BufPut(s)
  PROVE  BufInv' /\ AppendsStep
<1> DEFINE t == Append(s, NUL)
<1>1. NUL \in Char /\ JUNK \notin Char
  BY BufAssumption
<1>2. t \in Seq(Char) /\ Len(t) = Len(s) + 1 /\ t[Len(t)] = NUL /\ Len(s) \in Nat
  BY <1>1
<1>3. Write(t, Len(s) + 1) /\ MovesTo(pos + Len(s)) /\ mode' = mode
  BY DEF BufPut
<1> HIDE DEF t
<1> QED
  BY <1>1, <1>2, <1>3, WriteKeeps

LEMMA PutStrKeeps ==
  ASSUME BufInv, NEW s \in Seq(Char), PutStr(s)
  PROVE  BufInv' /\ AppendsStep
<1>1. Append(s, NUL) \in Seq(Char)
  BY BufAssumption
<1> QED
  BY <1>1, PutKeeps DEF PutStr

LEMMA PutFKeeps ==
  ASSUME BufInv, NEW s \in Seq(Char), PutF(s)
  PROVE  BufInv' /\ AppendsStep
<1> DEFINE nuls == IF mode = "binary" THEN <<NUL, NUL>> ELSE <<NUL>>
           t == s \o nuls
           n == Len(s) + Len(nuls) - 1
<1>1. NUL \in Char /\ JUNK \notin Char
  BY BufAssumption
<1>2. /\ t \in Seq(Char) /\ Len(t) = n + 1 /\ t[Len(t)] = NUL /\ n \in Nat
      /\ Len(s) \in Nat /\ n = IF mode = "binary" THEN Len(s) + 1 ELSE Len(s)
  <2>1. CASE mode = "binary"
    BY <1>1, <2>1
  <2>2. CASE mode # "binary"
    BY <1>1, <2>2
  <2> QED
    BY <2>1, <2>2
<1>3. Write(t, n) /\ MovesTo(pos + n) /\ mode' = mode
  <2>1. pos + Len(s) + Len(nuls) - 1 = pos + n
    BY <1>2 DEF BufInv, BufTypes
  <2> QED
    BY <2>1 DEF PutF
<1>4. n > 0 \/ Size > 0
  BY <1>2 DEF PutF
<1> HIDE DEF t, n
<1> QED
  BY <1>1, <1>2, <1>3, <1>4, WriteKeeps

LEMMA GetKeeps ==
  ASSUME BufInv, NEW n \in Nat, BufGet(n)
  PROVE  BufInv' /\ AppendsStep
<1>1. pos' \in 0 .. len
  BY DEF BufGet, BufInv, BufTypes
<1> QED
  BY <1>1, PositionMoves DEF BufGet

LEMMA GetStrKeeps == ASSUME BufInv, GetStr PROVE BufInv' /\ AppendsStep
<1>1. PICK n \in 1 .. Size - pos : BufGet(n)
  BY DEF GetStr
<1>2. n \in Nat
  BY DEF BufInv, BufTypes, Size
<1> QED
  BY <1>1, <1>2, GetKeeps

LEMMA RewindKeeps == ASSUME BufInv, Rewind PROVE BufInv' /\ AppendsStep
<1>1. pos' \in 0 .. len
  BY DEF Rewind, BufInv, BufTypes
<1> QED
  BY <1>1, PositionMoves DEF Rewind

LEMMA ResetKeeps ==
  ASSUME BufInv, Reset
  PROVE  BufInv' /\ AppendsStep
<1>1. /\ cells' \in Seq(Char \cup {JUNK}) /\ Len(cells') = Size
      /\ Size > 0 => cells'[1] = NUL
  <2>1. cells \in Seq(Char \cup {JUNK}) /\ Size = Len(cells) /\ Size \in Nat /\ NUL \in Char
    BY BufAssumption DEF BufInv, BufTypes, Size
  <2>2. \A i \in 1 .. Size : (IF i = 1 THEN NUL ELSE cells[i]) \in Char \cup {JUNK}
    BY <2>1
  <2> QED
    BY <2>1, <2>2 DEF Reset
<1>2. pos' = 0 /\ len' = 0 /\ mode' = mode /\ overrun' = overrun
  BY DEF Reset
<1> QED
  BY <1>1, <1>2 DEF BufInv, BufTypes, EmptyBlock, BufTerminated, Defined, BufNoOverrun, Size, AppendsStep

LEMMA ClearedKeeps == ASSUME BufInv, Cleared PROVE BufInv' /\ AppendsStep
<1>1. /\ pos' = 0 /\ len' = 0 /\ mode' = mode /\ overrun' = overrun
      /\ cells' \in Seq(Char \cup {JUNK}) /\ Len(cells') = 0
  BY DEF Cleared
<1> QED
  BY <1>1 DEF BufInv, BufTypes, EmptyBlock, BufTerminated, Defined, BufNoOverrun, Size, AppendsStep

LEMMA CopyKeeps == ASSUME BufInv, Copy PROVE BufInv' /\ AppendsStep
<1>1. /\ cells \in Seq(Char \cup {JUNK}) /\ Size \in Nat /\ Size = Len(cells) /\ Size > 0
      /\ len \in Nat /\ len < Size /\ cells[len + 1] = NUL
      /\ UNCHANGED <<mode, pos, len, overrun>>
  BY DEF Copy, BufInv, BufTypes, BufTerminated, Size
<1>2. /\ cells' \in Seq(Char \cup {JUNK}) /\ Len(cells') = Size
      /\ \A i \in 1 .. len + 1 : cells'[i] = cells[i]
  <2>1. \A i \in 1 .. Size :
           (IF i <= len + 1 THEN cells[i] ELSE JUNK) \in Char \cup {JUNK}
    BY <1>1
  <2> QED
    BY <1>1, <2>1 DEF Copy, Copies
<1>3. BufInv'
  BY <1>1, <1>2 DEF BufInv, BufTypes, EmptyBlock, BufTerminated, Defined, BufNoOverrun, Size
<1>4. AppendsStep
  BY <1>1, <1>2 DEF AppendsStep, Content
<1> QED
  BY <1>3, <1>4

-----------------------------------------------------------------------------
LEMMA BufInitial == ASSUME BufInit PROVE BufInv
<1>1. PICK n \in Nat \ {0} : cells = [i \in 1 .. n |-> IF i = 1 THEN NUL ELSE JUNK]
  BY BufAssumption DEF BufInit
<1>2. /\ cells \in Seq(Char \cup {JUNK}) /\ Size = n /\ cells[1] = NUL
      /\ pos = 0 /\ len = 0
  BY <1>1, BufAssumption DEF BufInit, Size
<1> QED
  BY <1>1, <1>2 DEF BufInv, BufTypes, EmptyBlock, BufTerminated, Defined, BufNoOverrun, BufInit

LEMMA BufInductive ==
  ASSUME ~Escapes, BufInv, [BufNext]_bufVars
  PROVE  BufInv' /\ [AppendsStep]_bufVars
<1>1. CASE UNCHANGED bufVars
  BY <1>1 DEF bufVars, BufInv, BufTypes, EmptyBlock, BufTerminated, Defined, BufNoOverrun, Size
<1>2. ASSUME NEW s \in Blobs, BufPut(s) PROVE BufInv' /\ AppendsStep
  BY <1>2, PutKeeps, BufAssumption
<1>3. ASSUME NEW s \in BufTexts, PutStr(s) PROVE BufInv' /\ AppendsStep
  <2>1. s \in Seq(Char)
    BY BufAssumption
  <2> QED
    BY <1>3, <2>1, PutStrKeeps
<1>4. ASSUME NEW s \in BufTexts, PutF(s) PROVE BufInv' /\ AppendsStep
  <2>1. s \in Seq(Char)
    BY BufAssumption
  <2> QED
    BY <1>4, <2>1, PutFKeeps
<1>5. ASSUME NEW s \in BufTexts, PutEscape(s) PROVE FALSE
  BY <1>5 DEF PutEscape
<1>6. ASSUME NEW n \in 1 .. MaxSize, BufGet(n) PROVE BufInv' /\ AppendsStep
  BY <1>6, GetKeeps, BufAssumption
<1>7. ASSUME BufClear \/ BufFree PROVE BufInv' /\ AppendsStep
  BY <1>7, ClearedKeeps DEF BufClear, BufFree
<1> QED
  BY <1>1, <1>2, <1>3, <1>4, <1>5, <1>6, <1>7, GetStrKeeps, RewindKeeps, ResetKeeps, CopyKeeps
     DEF BufNext

\* A buffer that the JSON parser does not write into: what counts ends with a
\* NUL that does not, in a block with room for both (buf_put.c, buf_vputf.c,
\* buf_reset.c, buf_copy.c).
THEOREM BufEndsWithNul ==
  ASSUME ~Escapes
  PROVE  BufSpec => []BufTerminated
<1>1. BufInit => BufInv
  BY BufInitial
<1>2. BufInv /\ [BufNext]_bufVars => BufInv'
  BY BufInductive
<1>3. BufInv => BufTerminated
  BY DEF BufInv
<1> QED
  BY <1>1, <1>2, <1>3, PTL DEF BufSpec

\* No put writes past the end of the block it has grown (buf_grow.c).
THEOREM BufStaysWithin ==
  ASSUME ~Escapes
  PROVE  BufSpec => []BufNoOverrun
<1>1. BufInit => BufInv
  BY BufInitial
<1>2. BufInv /\ [BufNext]_bufVars => BufInv'
  BY BufInductive
<1>3. BufInv => BufNoOverrun
  BY DEF BufInv
<1> QED
  BY <1>1, <1>2, <1>3, PTL DEF BufSpec

\* A put at the end keeps what was there (buf_grow.c, buf_copy.c).
THEOREM BufKeepsContent ==
  ASSUME ~Escapes
  PROVE  BufSpec => BufAppends
<1>1. BufInit => BufInv
  BY BufInitial
<1>2. BufInv /\ [BufNext]_bufVars => BufInv' /\ [AppendsStep]_bufVars
  BY BufInductive
<1> QED
  BY <1>1, <1>2, PTL DEF BufSpec, BufAppends

-----------------------------------------------------------------------------
(* The error object. *)

Value == [err : Code \cup {EOKAY}, oserr : OsCode \cup {0}, strace : Seq(Site)]
Opened == [kind : {"pair", "macro", "print"}, was : BOOLEAN, os : OsCode \cup {0},
           entry : Value, thawed : BOOLEAN]

ErrorTypes ==
  /\ frozen \in BOOLEAN
  /\ Current \in Value
  /\ os \in OsCode \cup {0}
  /\ regions \in Seq(Opened)

\* Only in a region is the object frozen.
NotOutside == frozen => regions # <<>>
\* Until it is thawed, a region has the object frozen as it found it.
Protected == \A i \in 1 .. Len(regions) :
  ~regions[i].thawed => frozen /\ regions[i].entry = Current
\* A region that prints has none inside it, and restores what it found: a frozen
\* object if a region around it is protected, and none if it is the outermost.
Restores == \A i \in 1 .. Len(regions) : regions[i].kind = "print" =>
  /\ i = Len(regions)
  /\ regions[i].was => i > 1
  /\ ~regions[i].was => \A j \in 1 .. i - 1 : regions[j].thawed

ErrorInv == ErrorTypes /\ NotOutside /\ Protected /\ Restores

LEMMA ErrorInitial == ErrorInit => ErrorInv
<1>1. <<>> \in Seq(Site) /\ <<>> \in Seq(Opened)
  OBVIOUS
<1>2. ErrorInit => ErrorTypes
  BY <1>1 DEF ErrorInit, ErrorTypes, Current, Value
<1>3. ErrorInit => regions = <<>> /\ ~frozen /\ 1 .. Len(regions) = {}
  BY DEF ErrorInit
<1> QED
  BY <1>2, <1>3 DEF ErrorInv, NotOutside, Protected, Restores

LEMMA ValueType ==
  /\ Current \in Value <=> err \in Code \cup {EOKAY} /\ oserr \in OsCode \cup {0} /\ strace \in Seq(Site)
  /\ (Current \in Value)' <=> err' \in Code \cup {EOKAY} /\ oserr' \in OsCode \cup {0} /\ strace' \in Seq(Site)
BY DEF Current, Value

LEMMA DocumentType ==
  ASSUME NEW d \in Document
  PROVE  d.err \in Code \cup {EOKAY} /\ d.oserr \in OsCode \cup {0}
BY ErrorAssumption DEF Error

\* Nothing is set, traced or cleared while the object is frozen, and what is
\* done to it otherwise leaves the regions alone.
LEMMA SetKeeps ==
  ASSUME ErrorInv, ~frozen, UNCHANGED <<frozen, regions>>, Current' \in Value,
         os' \in OsCode \cup {0}
  PROVE  ErrorInv'
<1>1. ErrorTypes'
  BY DEF ErrorInv, ErrorTypes
<1>2. NotOutside' /\ Restores'
  BY DEF ErrorInv, NotOutside, Restores
<1>3. Protected'
  BY DEF ErrorInv, Protected
<1> QED
  BY <1>1, <1>2, <1>3 DEF ErrorInv

LEMMA SameError ==
  ASSUME ErrorInv, UNCHANGED <<frozen, regions, err, oserr, strace>>, os' \in OsCode \cup {0}
  PROVE  ErrorInv'
BY DEF ErrorInv, ErrorTypes, NotOutside, Protected, Restores, Current

LEMMA OpenKeeps ==
  ASSUME ErrorInv, NEW kind \in {"pair", "macro", "print"}, Open(kind)
  PROVE  ErrorInv'
<1> DEFINE new == [kind |-> kind, was |-> frozen, os |-> os, entry |-> Current, thawed |-> FALSE]
<1>1. new \in Opened /\ regions \in Seq(Opened)
  BY DEF ErrorInv, ErrorTypes, Opened
<1>2. /\ regions' = Append(regions, new) /\ frozen' = TRUE
      /\ Current' = Current /\ os' = os
  BY DEF Open, Current
<1> HIDE DEF new
<1>3. /\ regions' \in Seq(Opened) /\ Len(regions') = Len(regions) + 1
      /\ \A i \in 1 .. Len(regions) : regions'[i] = regions[i]
      /\ regions'[Len(regions) + 1] = new
  BY <1>1, <1>2
<1>4. ErrorTypes' /\ NotOutside'
  BY <1>2, <1>3 DEF ErrorInv, ErrorTypes, NotOutside
<1>5. Protected'
  <2> SUFFICES ASSUME NEW i \in 1 .. Len(regions'), ~regions'[i].thawed
               PROVE  regions'[i].entry = Current
    BY <1>2 DEF Protected
  <2>1. CASE i = Len(regions) + 1
    BY <2>1, <1>3 DEF new
  <2>2. CASE i \in 1 .. Len(regions)
    BY <2>2, <1>3 DEF ErrorInv, Protected
  <2> QED
    BY <2>1, <2>2, <1>1, <1>3
<1>6. Restores'
  <2>1. \A i \in 1 .. Len(regions) : regions[i].kind # "print"
    BY <1>1 DEF Open, Printing, Innermost, ErrorInv, Restores
  <2>2. frozen => Len(regions) > 0
    BY <1>1 DEF ErrorInv, NotOutside
  <2>3. ~frozen => \A i \in 1 .. Len(regions) : regions[i].thawed
    BY DEF ErrorInv, Protected
  <2>4. new.was = frozen
    BY DEF new
  <2> QED
    BY <1>1, <1>3, <2>1, <2>2, <2>3, <2>4 DEF Restores
<1> QED
  BY <1>4, <1>5, <1>6 DEF ErrorInv

\* A region that freezes and thaws is closed: the object is thawed, and the
\* regions around it know.
LEMMA ThawKeeps ==
  ASSUME ErrorInv, NEW n \in 0 .. Len(regions),
         regions' = [i \in 1 .. n |-> [regions[i] EXCEPT !.thawed = TRUE]],
         \A i \in 1 .. n : regions[i].kind # "print",
         ~frozen', UNCHANGED <<err, oserr, strace>>, os' \in OsCode \cup {0},
         frozen' \in BOOLEAN
  PROVE  ErrorInv'
<1>1. \A i \in 1 .. n : regions[i] \in Opened
  BY DEF ErrorInv, ErrorTypes
<1>2. \A i \in 1 .. n : regions'[i] \in Opened /\ regions'[i].thawed
                        /\ regions'[i].kind # "print"
  BY <1>1 DEF Opened
<1>3. regions' \in Seq(Opened) /\ Len(regions') = n
  <2>1. n \in Nat
    BY DEF ErrorInv, ErrorTypes
  <2>2. regions' \in [1 .. n -> Opened]
    BY <1>2
  <2> QED
    BY <2>1, <2>2
<1>4. ErrorTypes'
  BY <1>3 DEF ErrorInv, ErrorTypes, Current
<1> QED
  BY <1>2, <1>3, <1>4 DEF ErrorInv, NotOutside, Protected, Restores

LEMMA ClosePrintKeeps == ErrorInv /\ ClosePrint => ErrorInv'
<1> SUFFICES ASSUME ErrorInv, ClosePrint PROVE ErrorInv'
  OBVIOUS
<1> DEFINE n == Len(regions)
<1>1. /\ regions \in Seq(Opened) /\ n \in Nat /\ n > 0
      /\ regions[n] \in Opened /\ regions[n].kind = "print"
  BY DEF ErrorInv, ErrorTypes, ClosePrint, Closes, Innermost
<1>2. frozen' = regions[n].was /\ regions' = SubSeq(regions, 1, n - 1)
  BY DEF ClosePrint, WasFrozen, Innermost, Outer
<1>3. /\ regions' \in Seq(Opened) /\ Len(regions') = n - 1
      /\ \A i \in 1 .. n - 1 : regions'[i] = regions[i]
  <2>1. /\ n - 1 \in Int /\ (n - 1) - 1 + 1 = n - 1
        /\ \A i \in 1 .. n - 1 : regions[i] \in Opened
    BY <1>1
  <2> DEFINE m == n - 1
  <2>2. /\ SubSeq(regions, 1, m) \in Seq(Opened)
        /\ Len(SubSeq(regions, 1, m)) = IF 1 <= m THEN m - 1 + 1 ELSE 0
        /\ \A i \in 1 .. m - 1 + 1 : SubSeq(regions, 1, m)[i] = regions[1 + i - 1]
    <3> HIDE DEF m, n
    <3> QED
      BY <2>1, SubSeqProperties DEF m
  <2>3. m \in Nat /\ m - 1 + 1 = m /\ \A i \in 1 .. m : 1 + i - 1 = i
    BY <1>1
  <2>4. Len(SubSeq(regions, 1, m)) = m
    <3> HIDE DEF m
    <3> QED
      BY <2>2, <2>3
  <2>5. \A i \in 1 .. m : SubSeq(regions, 1, m)[i] = regions[i]
    <3> HIDE DEF m
    <3> TAKE i \in 1 .. m
    <3>1. i \in 1 .. m - 1 + 1 /\ 1 + i - 1 = i
      BY <2>3
    <3>2. SubSeq(regions, 1, m)[i] = regions[1 + i - 1]
      BY <2>2, <3>1
    <3> QED
      BY <3>1, <3>2
  <2> QED
    BY <1>2, <2>2, <2>4, <2>5
<1>4. /\ regions[n].was => n > 1
      /\ ~regions[n].was => \A j \in 1 .. n - 1 : regions[j].thawed
  BY <1>1 DEF ErrorInv, Restores
<1>5. ErrorTypes'
  BY <1>1, <1>2, <1>3 DEF ErrorInv, ErrorTypes, ClosePrint, Current, Opened
<1>6. NotOutside'
  <2>1. frozen' => Len(regions') > 0
    BY <1>1, <1>2, <1>3, <1>4
  <2> QED
    BY <1>3, <2>1 DEF NotOutside
<1>7. Protected'
  BY <1>1, <1>2, <1>3, <1>4 DEF ErrorInv, Protected, ClosePrint, Current
<1>8. Restores'
  BY <1>1, <1>3 DEF ErrorInv, Restores
<1> QED
  BY <1>5, <1>6, <1>7, <1>8 DEF ErrorInv

LEMMA ErrorInductive == ErrorInv /\ [ErrorNext]_errorVars => ErrorInv'
<1> SUFFICES ASSUME ErrorInv, [ErrorNext]_errorVars PROVE ErrorInv'
  OBVIOUS
<1> DEFINE n == Len(regions)
<1>0. n \in Nat /\ Current \in Value /\ os \in OsCode \cup {0} /\ regions \in Seq(Opened)
  BY DEF ErrorInv, ErrorTypes
<1>1. CASE UNCHANGED errorVars
  BY <1>1, <1>0, SameError DEF errorVars
<1>2. CASE SystemCall
  BY <1>2, SameError DEF SystemCall
<1>3. CASE ErrClear
  <2>1. Current' \in Value
    BY <1>3, ValueType DEF ErrClear, Becomes, NoError
  <2> QED
    BY <1>3, <2>1, SetKeeps DEF ErrClear
<1>4. ASSUME NEW e \in Code, NEW o \in {0, os}, NEW s \in Site, ErrSet(e, o, s)
      PROVE  ErrorInv'
  <2>1. Current' \in Value
    <3>1. <<s>> \in Seq(Site)
      OBVIOUS
    <3> QED
      BY <1>0, <1>4, <3>1, ValueType DEF ErrSet, Becomes
  <2> QED
    BY <1>4, <2>1, SetKeeps DEF ErrSet, MaySet
<1>5. ASSUME NEW s \in Site, ErrTrace(s) PROVE ErrorInv'
  <2>1. strace' = <<s>> \o strace /\ strace \in Seq(Site)
    BY <1>0, <1>5, ValueType DEF ErrTrace, Pushed
  <2>2. strace' \in Seq(Site)
    BY <2>1
  <2>3. Current' \in Value
    BY <1>0, <1>5, <2>2, ValueType DEF ErrTrace
  <2> QED
    BY <1>0, <1>5, <2>3, SetKeeps DEF ErrTrace
<1>6. ASSUME NEW kind \in {"pair", "macro", "print"}, Open(kind) PROVE ErrorInv'
  BY <1>6, OpenKeeps
<1>7. CASE ClosePair \/ CloseMacro
  <2>1. n > 0 /\ regions[n].kind # "print" /\ regions[n] \in Opened
    BY <1>0, <1>7 DEF ClosePair, CloseMacro, Closes, Innermost
  <2>2. \A i \in 1 .. n - 1 : regions[i].kind # "print"
    BY <1>0 DEF ErrorInv, Restores
  <2>3. os' \in OsCode \cup {0}
    BY <1>0, <1>7, <2>1 DEF ClosePair, CloseMacro, Innermost, Opened
  <2>4. /\ regions' = [i \in 1 .. n - 1 |-> [regions[i] EXCEPT !.thawed = TRUE]]
        /\ frozen' = FALSE /\ UNCHANGED <<err, oserr, strace>>
    BY <1>7 DEF ClosePair, CloseMacro, Thawing
  <2>5. n - 1 \in 0 .. n
    BY <1>0, <2>1
  <2> HIDE DEF n
  <2> QED
    BY <2>2, <2>3, <2>4, <2>5, ThawKeeps DEF n
<1>8. CASE ClosePrint
  BY <1>8, ClosePrintKeeps
<1>9. CASE ToJson
  <2>1. \A i \in 1 .. n : regions[i].kind # "print"
    BY <1>0, <1>9 DEF ToJson, Printing, Innermost, ErrorInv, Restores
  <2>2. /\ regions' = [i \in 1 .. n |-> [regions[i] EXCEPT !.thawed = TRUE]]
        /\ frozen' = FALSE /\ UNCHANGED <<err, oserr, strace>> /\ os' \in OsCode \cup {0}
    BY <1>0, <1>9 DEF ToJson
  <2>3. n \in 0 .. n
    BY <1>0
  <2> HIDE DEF n
  <2> QED
    BY <2>1, <2>2, <2>3, ThawKeeps DEF n
<1>10. ASSUME NEW d \in Document, SetJson(d) PROVE ErrorInv'
  <2>1. <<>> \in Seq(Site)
    OBVIOUS
  <2>2. Current' \in Value
    BY <1>10, <2>1, DocumentType, ValueType DEF SetJson, Becomes, Traces
  <2>3. ~frozen /\ UNCHANGED <<frozen, regions>> /\ os' = 0
    BY <1>10 DEF SetJson, ErrorInv, ErrorTypes
  <2> QED
    BY <2>2, <2>3, SetKeeps
<1> QED
  BY <1>1, <1>2, <1>3, <1>4, <1>5, <1>6, <1>7, <1>8, <1>9, <1>10
     DEF ErrorNext, OpenPair, OpenMacro, OpenPrint

\* For all codes, documents, nestings and depths: a thread that is in no region
\* can set errors (err_freeze.c, err_vfprintf.c, err_setjson.c).
THEOREM ErrorThawedOutside == ErrorSpec => []ThawedOutside
<1>1. ErrorInv => ThawedOutside
  BY DEF ErrorInv, NotOutside, ThawedOutside
<1> QED
  BY <1>1, ErrorInitial, ErrorInductive, PTL DEF ErrorSpec

LEMMA ClosingKeeps ==
  ASSUME ErrorInv, [ErrorNext]_errorVars, Closing, ~Innermost.thawed
  PROVE  Innermost.entry = Current /\ Current' = Current
<1> DEFINE n == Len(regions)
<1>0. n \in Nat /\ regions \in Seq(Opened)
  BY DEF ErrorInv, ErrorTypes
<1>1. n > 0
  <2>1. CASE n = 0
    <3>1. regions = <<>> /\ 1 .. n = {}
      BY <1>0, <2>1
    <3>2. ~Closes("pair") /\ ~Closes("macro") /\ ~Closes("print")
      BY <3>1 DEF Closes
    <3>3. CASE \E kind \in {"pair", "macro", "print"} : Open(kind)
      BY <1>0, <2>1, <3>3 DEF Open, Closing
    <3>4. CASE ToJson
      <4>1. Len(regions') = 0
        BY <2>1, <3>4 DEF ToJson
      <4> QED
        BY <2>1, <4>1 DEF Closing
    <3>5. CASE UNCHANGED regions
      BY <1>0, <3>5 DEF Closing
    <3> QED
      BY <3>2, <3>3, <3>4, <3>5
         DEF ErrorNext, errorVars, SystemCall, ErrClear, ErrSet, ErrTrace, OpenPair, OpenMacro,
             OpenPrint, ClosePair, CloseMacro, ClosePrint, SetJson
  <2> QED
    BY <1>0, <2>1
<1>2. Innermost.entry = Current
  BY <1>0, <1>1 DEF Innermost, ErrorInv, Protected
<1>3. frozen
  BY <1>0, <1>1 DEF Innermost, ErrorInv, Protected
<1>4. Current' = Current
  BY <1>3 DEF ErrorNext, errorVars, SystemCall, ErrClear, ErrSet, MaySet, ErrTrace, OpenPair,
     OpenMacro, OpenPrint, Open, ClosePair, CloseMacro, ClosePrint, ToJson, SetJson, Current
<1> QED
  BY <1>2, <1>4

\* For all codes, documents, nestings and depths: a region that nothing inside
\* it thawed ends with the error it began with (err_vset.c:39, err_vtrace.c:42,
\* err_clear.c:39).
THEOREM ErrorRegionKeeps == ErrorSpec => RegionKeepsError
<1>1. ErrorInv /\ [ErrorNext]_errorVars =>
        [Closing /\ ~Innermost.thawed
           => Innermost.entry = Current /\ Current' = Current]_errorVars
  BY ClosingKeeps
<1> QED
  BY <1>1, ErrorInitial, ErrorInductive, PTL DEF ErrorSpec, RegionKeepsError

-----------------------------------------------------------------------------
(* The flag of a file object and its lock. *)

FileTypes ==
  /\ files \in [Object -> Record \cup {NoFile}]
  /\ held \in [Process -> Lock]
  /\ mine \in [Object -> Lock \cup {"unknown"}]

\* What an object got last and nothing disturbed is what its process has.
MineHeld == \A o \in Object : mine[o] # "unknown" => held[Owner(o)] = mine[o]
\* ... and the object is there, its flag set if that is a lock.
MineFlagged == \A o \in Object : mine[o] # "unknown" =>
  files[o] # NoFile /\ (files[o].flag <=> mine[o] # "none")
\* fcntl gives an exclusive lock to one process.
Exclusive == \A p, q \in Process : p # q /\ held[p] = "write" => held[q] = "none"

LockInv == FileTypes /\ MineHeld /\ MineFlagged /\ Exclusive

LEMMA OwnerType == \A o \in Object : Owner(o) \in Process
BY DEF Object, Owner

LEMMA LockInit == FileInit => LockInv
BY OwnerType DEF FileInit, LockInv, FileTypes, MineHeld, MineFlagged, Exclusive, Lock

LEMMA OpenFileKeeps ==
  ASSUME LockInv, NEW o \in Object, NEW access \in {"read", "write", "both"},
         NEW lock \in Lock, OpenFile(o, access, lock)
  PROVE  LockInv'
<1>1. files' = [files EXCEPT ![o] = files'[o]] /\ files'[o] \in Record
  BY DEF OpenFile, LockInv, FileTypes, Record
<1>2. mine[o] = "unknown"
  BY DEF OpenFile, IsOpen, LockInv, MineFlagged
<1>3. FileTypes'
  BY <1>1 DEF OpenFile, LockInv, FileTypes
<1>4. MineFlagged'
  BY <1>1, <1>2 DEF OpenFile, LockInv, FileTypes, MineFlagged
<1> QED
  BY <1>3, <1>4 DEF OpenFile, LockInv, MineHeld, Exclusive

LEMMA BeginLockKeeps ==
  ASSUME LockInv, NEW o \in Object, NEW lock \in Lock, BeginLock(o, lock)
  PROVE  LockInv'
<1>1. files[o] \in Record
  BY DEF BeginLock, IsOpen, LockInv, FileTypes
<1>2. files' = [files EXCEPT ![o] = files'[o]] /\ files'[o] \in Record
      /\ files'[o].flag = files[o].flag
  BY <1>1 DEF BeginLock, LockInv, FileTypes, Record
<1>3. FileTypes'
  BY <1>2 DEF BeginLock, LockInv, FileTypes
<1> QED
  BY <1>2, <1>3, FileAssumption DEF BeginLock, LockInv, FileTypes, MineHeld, MineFlagged, Exclusive

LEMMA LockedKeeps ==
  ASSUME LockInv, NEW o \in Object, Locked(o)
  PROVE  LockInv'
<1> DEFINE lock == files[o].asked
<1>1. files[o] \in Record /\ lock \in Lock /\ Owner(o) \in Process
  BY OwnerType DEF Locked, Waiting, IsOpen, LockInv, FileTypes, Record
<1>2. files' = [files EXCEPT ![o] = files'[o]] /\ files'[o] \in Record
      /\ (files'[o].flag <=> lock # "none")
  BY <1>1 DEF Locked, Flagged, LockInv, FileTypes, Record
<1>3. held' = [held EXCEPT ![Owner(o)] = lock]
  BY DEF Locked, Holds
<1>4. \A s \in Object : mine'[s] =
        IF s = o THEN lock ELSE IF Owner(s) = Owner(o) THEN "unknown" ELSE mine[s]
  BY DEF Locked, Holds, Siblings
<1>5. mine' \in [Object -> Lock \cup {"unknown"}]
  BY <1>1 DEF Locked, Holds, LockInv, FileTypes
<1>6. FileTypes'
  BY <1>1, <1>2, <1>3, <1>5 DEF LockInv, FileTypes
<1>7. MineHeld'
  BY <1>1, <1>3, <1>4, OwnerType DEF LockInv, FileTypes, MineHeld
<1>8. MineFlagged'
  BY <1>1, <1>2, <1>4, FileAssumption DEF LockInv, FileTypes, MineFlagged, Lock
<1>9. Exclusive'
  <2>1. \A q \in Process \ {Owner(o)} :
          (lock = "write" => held[q] = "none") /\ (held[q] = "write" => lock = "none")
    BY <1>1 DEF Locked, Granted, Lock
  <2> QED
    BY <1>1, <1>3, <2>1 DEF LockInv, FileTypes, Exclusive
<1> QED
  BY <1>6, <1>7, <1>8, <1>9 DEF LockInv

LEMMA GoneKeeps ==
  ASSUME LockInv, NEW o \in Object, Gone(o)
  PROVE  LockInv'
<1>1. FileTypes'
  BY OwnerType DEF Gone, LockInv, FileTypes, Lock
<1>2. MineHeld'
  BY OwnerType DEF Gone, LockInv, FileTypes, MineHeld
<1>3. MineFlagged'
  BY DEF Gone, LockInv, FileTypes, MineFlagged
<1>4. Exclusive'
  BY DEF Gone, LockInv, FileTypes, Exclusive
<1> QED
  BY <1>1, <1>2, <1>3, <1>4 DEF LockInv

LEMMA LockRefusedKeeps ==
  ASSUME LockInv, NEW o \in Object, LockRefused(o)
  PROVE  LockInv'
<1>1. CASE Gone(o)
  BY <1>1, GoneKeeps
<1>2. CASE Unflagged(o) /\ UNCHANGED <<held, mine>>
  <2>1. files[o] \in Record
    BY DEF LockRefused, Waiting, IsOpen, LockInv, FileTypes
  <2>2. files' = [files EXCEPT ![o] = files'[o]] /\ files'[o] \in Record
        /\ files'[o].flag = files[o].flag
    BY <1>2, <2>1 DEF Unflagged, LockInv, FileTypes, Record
  <2>3. FileTypes'
    BY <1>2, <2>2 DEF LockInv, FileTypes
  <2> QED
    BY <1>2, <2>2, <2>3, FileAssumption DEF LockInv, FileTypes, MineHeld, MineFlagged, Exclusive
<1> QED
  BY <1>1, <1>2 DEF LockRefused

LEMMA ExitsKeeps ==
  ASSUME LockInv, NEW p \in Process, Exits(p)
  PROVE  LockInv'
<1>1. FileTypes'
  BY DEF Exits, LockInv, FileTypes, Lock
<1>2. MineHeld'
  BY OwnerType DEF Exits, LockInv, FileTypes, MineHeld
<1>3. MineFlagged'
  BY DEF Exits, LockInv, FileTypes, MineFlagged
<1>4. Exclusive'
  BY DEF Exits, LockInv, FileTypes, Exclusive
<1> QED
  BY <1>1, <1>2, <1>3, <1>4 DEF LockInv

LEMMA LockNext == LockInv /\ [FileNext]_fileVars => LockInv'
<1> SUFFICES ASSUME LockInv, [FileNext]_fileVars PROVE LockInv'
  OBVIOUS
<1>1. CASE UNCHANGED fileVars
  BY <1>1 DEF fileVars, LockInv, FileTypes, MineHeld, MineFlagged, Exclusive
<1>2. ASSUME NEW p \in Process, Exits(p) PROVE LockInv'
  BY <1>2, ExitsKeeps
<1>3. ASSUME NEW o \in Object, NEW access \in {"read", "write", "both"}, NEW lock \in Lock,
             OpenFile(o, access, lock)
      PROVE  LockInv'
  BY <1>3, OpenFileKeeps
<1>4. ASSUME NEW o \in Object, NEW lock \in Lock, BeginLock(o, lock) PROVE LockInv'
  BY <1>4, BeginLockKeeps
<1>5. ASSUME NEW o \in Object, Locked(o) \/ LockRefused(o) \/ CloseFile(o) PROVE LockInv'
  BY <1>5, LockedKeeps, LockRefusedKeeps, GoneKeeps DEF CloseFile
<1> QED
  BY <1>1, <1>2, <1>3, <1>4, <1>5 DEF FileNext

LEMMA LockSafety == LockInv => FlagTellsLock
<1> SUFFICES ASSUME LockInv, NEW o \in Object, IsOpen(o), mine[o] # "unknown"
             PROVE  /\ files[o].flag <=> held[Owner(o)] # "none"
                    /\ mine[o] = "write" =>
                         \A s \in Object : Owner(s) # Owner(o) /\ IsOpen(s)
                           /\ mine[s] # "unknown" => ~files[s].flag
  BY DEF FlagTellsLock
<1>1. files[o].flag <=> held[Owner(o)] # "none"
  BY DEF LockInv, MineHeld, MineFlagged
<1>2. ASSUME mine[o] = "write", NEW s \in Object, Owner(s) # Owner(o), mine[s] # "unknown"
      PROVE  ~files[s].flag
  <2>1. held[Owner(o)] = "write" /\ held[Owner(s)] = mine[s]
    BY <1>2 DEF LockInv, MineHeld
  <2>2. held[Owner(s)] = "none"
    BY <1>2, <2>1, OwnerType DEF LockInv, Exclusive
  <2> QED
    BY <1>2, <2>1, <2>2 DEF LockInv, MineFlagged
<1> QED
  BY <1>1, <1>2

\* For any number of processes and objects: an object whose lock no other object
\* of its process touched is flagged iff its process has a lock, and no object
\* of another process is flagged beside an exclusive one (file_lock.c,
\* unix_file_open.c, file_close.c).
THEOREM FileFlagTellsLock == FileSpec => []FlagTellsLock
<1>1. FileInit => LockInv
  BY LockInit
<1>2. LockInv /\ [FileNext]_fileVars => LockInv'
  BY LockNext
<1>3. LockInv => FlagTellsLock
  BY LockSafety
<1> QED
  BY <1>1, <1>2, <1>3, PTL DEF FileSpec

-----------------------------------------------------------------------------
(* Directory trees: paths. *)

Prefix(s, k) == SubSeq(s, 1, k)
IsLink(t, p) == p \in Path /\ t[p] = "link"
KindIn(t, p) == IF p = <<>> THEN "dir" ELSE IF p \in Path THEN t[p] ELSE "none"
ResolvedIn(t, p) ==
  LET To[n \in 0 .. Len(p)] ==
        IF n = 0 THEN <<>> ELSE Append(Followed(t, To[n - 1]), p[n])
  IN  To[Len(p)]

LEMMA SameSequence ==
  ASSUME NEW X, NEW s \in Seq(X), NEW t \in Seq(X), Len(s) = Len(t),
         \A i \in 1 .. Len(s) : s[i] = t[i]
  PROVE  s = t
OBVIOUS

LEMMA PathIsSeq ==
  ASSUME NEW p
  PROVE  p \in Path <=> p \in Seq(Name) /\ Len(p) \in 1 .. MaxParts
<1>1. MaxParts \in Nat
  BY TreeAssumption
<1>2. ASSUME p \in Path
      PROVE  p \in Seq(Name) /\ Len(p) \in 1 .. MaxParts
  <2>1. PICK n \in 1 .. MaxParts : p \in [1 .. n -> Name]
    BY <1>2 DEF Path
  <2>2. n \in Nat
    BY <1>1
  <2>3. p \in Seq(Name) /\ Len(p) = n
    BY ONLY <2>1, <2>2
  <2> QED
    BY <2>3
<1>3. ASSUME p \in Seq(Name), Len(p) \in 1 .. MaxParts
      PROVE  p \in Path
  <2>1. p \in [1 .. Len(p) -> Name]
    BY <1>3
  <2> QED
    BY <1>3, <2>1 DEF Path
<1> QED
  BY <1>2, <1>3

LEMMA PrefixType ==
  ASSUME NEW X, NEW s \in Seq(X), NEW k \in 0 .. Len(s)
  PROVE  /\ Prefix(s, k) \in Seq(X) /\ Len(Prefix(s, k)) = k
         /\ \A i \in 1 .. k : Prefix(s, k)[i] = s[i]
BY DEF Prefix

LEMMA PrefixWhole ==
  ASSUME NEW X, NEW s \in Seq(X)
  PROVE  Prefix(s, Len(s)) = s
<1>1. Len(s) \in 0 .. Len(s)
  OBVIOUS
<1> QED
  BY <1>1, PrefixType, SameSequence

LEMMA PrefixOfPrefix ==
  ASSUME NEW X, NEW s \in Seq(X), NEW k \in 0 .. Len(s), NEW j \in 0 .. k
  PROVE  Prefix(Prefix(s, k), j) = Prefix(s, j)
<1>1. PICK r : r = Prefix(s, k)
  OBVIOUS
<1>2. r \in Seq(X) /\ Len(r) = k /\ \A i \in 1 .. k : r[i] = s[i]
  BY ONLY <1>1, PrefixType, s \in Seq(X), k \in 0 .. Len(s)
<1>3. j \in 0 .. Len(r) /\ j \in 0 .. Len(s) /\ \A i \in 1 .. j : i \in 1 .. k
  BY <1>2
<1>4. /\ Prefix(r, j) \in Seq(X) /\ Len(Prefix(r, j)) = j
      /\ \A i \in 1 .. j : Prefix(r, j)[i] = r[i]
  BY ONLY <1>2, <1>3, PrefixType
<1>5. /\ Prefix(s, j) \in Seq(X) /\ Len(Prefix(s, j)) = j
      /\ \A i \in 1 .. j : Prefix(s, j)[i] = s[i]
  BY ONLY <1>3, PrefixType, s \in Seq(X)
<1>6. \A i \in 1 .. j : Prefix(r, j)[i] = Prefix(s, j)[i]
  BY ONLY <1>2, <1>3, <1>4, <1>5
<1>7. Prefix(r, j) = Prefix(s, j)
  BY ONLY <1>4, <1>5, <1>6, SameSequence
<1> QED
  BY ONLY <1>1, <1>7

LEMMA Appended ==
  ASSUME NEW X, NEW s \in Seq(X), NEW x \in X
  PROVE  /\ Append(s, x) \in Seq(X) /\ Len(Append(s, x)) = Len(s) + 1
         /\ Append(s, x)[Len(s) + 1] = x /\ \A i \in 1 .. Len(s) : Append(s, x)[i] = s[i]
OBVIOUS

LEMMA PrefixAppend ==
  ASSUME NEW X, NEW s \in Seq(X), NEW x \in X, NEW k \in 0 .. Len(s)
  PROVE  Prefix(Append(s, x), k) = Prefix(s, k)
<1>1. PICK r : r = Append(s, x)
  OBVIOUS
<1>2. r \in Seq(X) /\ Len(r) = Len(s) + 1 /\ \A i \in 1 .. Len(s) : r[i] = s[i]
  BY ONLY <1>1, Appended, s \in Seq(X), x \in X
<1>3. k \in 0 .. Len(r) /\ \A i \in 1 .. k : i \in 1 .. Len(s)
  BY <1>2
<1>4. /\ Prefix(r, k) \in Seq(X) /\ Len(Prefix(r, k)) = k
      /\ \A i \in 1 .. k : Prefix(r, k)[i] = r[i]
  BY ONLY <1>2, <1>3, PrefixType
<1>5. /\ Prefix(s, k) \in Seq(X) /\ Len(Prefix(s, k)) = k
      /\ \A i \in 1 .. k : Prefix(s, k)[i] = s[i]
  BY ONLY k \in 0 .. Len(s), PrefixType, s \in Seq(X)
<1>6. \A i \in 1 .. k : Prefix(r, k)[i] = Prefix(s, k)[i]
  BY ONLY <1>2, <1>3, <1>4, <1>5
<1>7. Prefix(r, k) = Prefix(s, k)
  BY ONLY <1>4, <1>5, <1>6, SameSequence
<1> QED
  BY ONLY <1>1, <1>7

LEMMA PrefixNext ==
  ASSUME NEW X, NEW s \in Seq(X), NEW k \in Nat, k < Len(s)
  PROVE  Prefix(s, k + 1) = Append(Prefix(s, k), s[k + 1]) /\ s[k + 1] \in X
<1>1. /\ k \in 0 .. Len(s) /\ k + 1 \in 0 .. Len(s) /\ k + 1 \in 1 .. Len(s) /\ s[k + 1] \in X
      /\ \A i \in 1 .. k + 1 : i = k + 1 \/ i \in 1 .. k
  OBVIOUS
<1>2. PICK r : r = Prefix(s, k)
  OBVIOUS
<1>3. r \in Seq(X) /\ Len(r) = k /\ \A i \in 1 .. k : r[i] = s[i]
  BY ONLY <1>1, <1>2, PrefixType, s \in Seq(X)
<1>4. /\ Append(r, s[k + 1]) \in Seq(X) /\ Len(Append(r, s[k + 1])) = k + 1
      /\ Append(r, s[k + 1])[k + 1] = s[k + 1] /\ \A i \in 1 .. k : Append(r, s[k + 1])[i] = r[i]
  BY ONLY <1>1, <1>3, Appended
<1>5. /\ Prefix(s, k + 1) \in Seq(X) /\ Len(Prefix(s, k + 1)) = k + 1
      /\ \A i \in 1 .. k + 1 : Prefix(s, k + 1)[i] = s[i]
  BY ONLY <1>1, PrefixType, s \in Seq(X)
<1>6. \A i \in 1 .. k + 1 : Prefix(s, k + 1)[i] = Append(r, s[k + 1])[i]
  BY ONLY <1>1, <1>3, <1>4, <1>5, k \in Nat
<1>7. Prefix(s, k + 1) = Append(r, s[k + 1])
  BY ONLY <1>4, <1>5, <1>6, SameSequence
<1> QED
  BY ONLY <1>1, <1>2, <1>7

-----------------------------------------------------------------------------
(* Directory trees: what a path leads to. *)

\* f is what the first components of p lead to, up to the m-th.
Walks(f, t, p, m) ==
  f = [n \in 0 .. m |-> IF n = 0 THEN <<>> ELSE Append(Followed(t, f[n - 1]), p[n])]

StartsAtTop(f) == f[0] = <<>>
GoesDown(f, t, p, m) == \A n \in 1 .. m : f[n] = Append(Followed(t, f[n - 1]), p[n])

LEMMA WalkParts ==
  ASSUME NEW t, NEW p, NEW m \in Nat, NEW f, Walks(f, t, p, m)
  PROVE  StartsAtTop(f) /\ GoesDown(f, t, p, m)
<1>1. 0 \in 0 .. m /\ \A n \in 1 .. m : n \in 0 .. m /\ n # 0
  OBVIOUS
<1>2. \A n \in 0 .. m : f[n] = IF n = 0 THEN <<>> ELSE Append(Followed(t, f[n - 1]), p[n])
  BY DEF Walks
<1> QED
  BY ONLY <1>1, <1>2 DEF StartsAtTop, GoesDown

LEMMA WalkExists ==
  ASSUME NEW t, NEW p, NEW k \in Nat
  PROVE  \E f : Walks(f, t, p, k)
<1> DEFINE S == {m \in Nat : \E f : Walks(f, t, p, m)}
<1>1. 0 \in S
  <2>1. Walks([n \in 0 .. 0 |-> <<>>], t, p, 0)
    BY DEF Walks
  <2> QED
    BY <2>1
<1>2. ASSUME NEW m \in Nat, m \in S
      PROVE  m + 1 \in S
  <2>1. PICK f : Walks(f, t, p, m)
    BY <1>2
  <2> DEFINE g == [n \in 0 .. m + 1 |-> IF n <= m THEN f[n] ELSE Append(Followed(t, f[m]), p[m + 1])]
  <2>2. /\ \A n \in 0 .. m : g[n] = f[n]
        /\ g[m + 1] = Append(Followed(t, f[m]), p[m + 1])
    OBVIOUS
  <2>3. g = [n \in 0 .. m + 1 |-> g[n]]
    OBVIOUS
  <2> HIDE DEF g
  <2>4. f[0] = <<>> /\ \A n \in 1 .. m : f[n] = Append(Followed(t, f[n - 1]), p[n])
    <3>1. StartsAtTop(f) /\ GoesDown(f, t, p, m)
      BY ONLY <2>1, m \in Nat, WalkParts
    <3> QED
      BY ONLY <3>1 DEF StartsAtTop, GoesDown
  <2>5. ASSUME NEW n \in 0 .. m + 1
        PROVE  g[n] = IF n = 0 THEN <<>> ELSE Append(Followed(t, g[n - 1]), p[n])
    <3>1. CASE n = 0
      <4>1. 0 \in 0 .. m
        OBVIOUS
      <4> QED
        BY ONLY <2>2, <2>4, <3>1, <4>1
    <3>2. CASE n \in 1 .. m
      <4>1. n - 1 \in 0 .. m /\ n \in 0 .. m /\ n # 0
        BY <3>2
      <4> QED
        BY ONLY <2>2, <2>4, <3>2, <4>1
    <3>3. CASE n = m + 1
      <4>1. m \in 0 .. m /\ n # 0 /\ n - 1 = m
        BY <3>3
      <4> QED
        BY ONLY <2>2, <3>3, <4>1
    <3> QED
      BY <3>1, <3>2, <3>3
  <2>6. Walks(g, t, p, m + 1)
    BY ONLY <2>3, <2>5 DEF Walks
  <2> QED
    BY <2>6
<1> HIDE DEF S
<1>3. \A m \in Nat : m \in S
  BY ONLY <1>1, <1>2, NatInductionOn
<1> QED
  BY <1>3 DEF S

LEMMA WalkUnique ==
  ASSUME NEW t, NEW p, NEW q, NEW m \in Nat, NEW k \in Nat, m <= k,
         \A i \in 1 .. m : p[i] = q[i],
         NEW f, Walks(f, t, p, m), NEW g, Walks(g, t, q, k)
  PROVE  f[m] = g[m]
<1> DEFINE S == {i \in Nat : i <= m => f[i] = g[i]}
<1>1. f[0] = <<>> /\ \A n \in 1 .. m : f[n] = Append(Followed(t, f[n - 1]), p[n])
  <2>1. StartsAtTop(f) /\ GoesDown(f, t, p, m)
    BY ONLY m \in Nat, Walks(f, t, p, m), WalkParts
  <2> QED
    BY ONLY <2>1 DEF StartsAtTop, GoesDown
<1>2. g[0] = <<>> /\ \A n \in 1 .. k : g[n] = Append(Followed(t, g[n - 1]), q[n])
  <2>1. StartsAtTop(g) /\ GoesDown(g, t, q, k)
    BY ONLY k \in Nat, Walks(g, t, q, k), WalkParts
  <2> QED
    BY ONLY <2>1 DEF StartsAtTop, GoesDown
<1>3. 0 \in S
  BY <1>1, <1>2
<1>4. ASSUME NEW i \in Nat, i \in S
      PROVE  i + 1 \in S
  <2> SUFFICES ASSUME i + 1 <= m PROVE f[i + 1] = g[i + 1]
    OBVIOUS
  <2>1. i + 1 \in 1 .. m /\ i + 1 \in 1 .. k /\ (i + 1) - 1 = i /\ i <= m
    OBVIOUS
  <2>2. f[i] = g[i]
    BY <1>4, <2>1
  <2>3. f[i + 1] = Append(Followed(t, f[i]), p[i + 1]) /\ g[i + 1] = Append(Followed(t, g[i]), q[i + 1])
    BY ONLY <1>1, <1>2, <2>1
  <2>4. p[i + 1] = q[i + 1]
    BY <2>1
  <2> QED
    BY ONLY <2>2, <2>3, <2>4
<1> HIDE DEF S
<1>5. \A i \in Nat : i \in S
  BY ONLY <1>3, <1>4, NatInductionOn
<1> QED
  BY <1>5 DEF S

LEMMA ResolvedWalk ==
  ASSUME NEW t, NEW X, NEW p \in Seq(X)
  PROVE  \E f : Walks(f, t, p, Len(p)) /\ ResolvedIn(t, p) = f[Len(p)]
<1>1. Len(p) \in Nat
  OBVIOUS
<1>2. PICK f : Walks(f, t, p, Len(p))
  BY <1>1, WalkExists
<1>3. PICK g : g = CHOOSE h : Walks(h, t, p, Len(p))
  OBVIOUS
<1>4. Walks(g, t, p, Len(p))
  BY ONLY <1>2, <1>3
<1>5. ResolvedIn(t, p) = g[Len(p)]
  BY ONLY <1>3 DEF ResolvedIn, Walks
<1> QED
  BY <1>4, <1>5

\* What is followed is what the path without its last component leads to.
LEMMA ResolvedNext ==
  ASSUME NEW t, NEW p \in Seq(Name), NEW x \in Name
  PROVE  ResolvedIn(t, Append(p, x)) = Append(Followed(t, ResolvedIn(t, p)), x)
<1>1. PICK q : q = Append(p, x)
  OBVIOUS
<1>2. PICK m \in Nat : m = Len(p)
  OBVIOUS
<1>3. q \in Seq(Name) /\ Len(q) = m + 1 /\ q[m + 1] = x /\ \A i \in 1 .. m : q[i] = p[i]
  BY ONLY <1>1, <1>2, Appended, p \in Seq(Name), x \in Name
<1>4. PICK f : Walks(f, t, p, m) /\ ResolvedIn(t, p) = f[m]
  BY ONLY <1>2, ResolvedWalk, p \in Seq(Name)
<1>5. PICK g : Walks(g, t, q, m + 1) /\ ResolvedIn(t, q) = g[m + 1]
  BY ONLY <1>3, ResolvedWalk
<1>6. m + 1 \in Nat /\ m <= m + 1 /\ m + 1 \in 1 .. m + 1 /\ m + 1 - 1 = m
  OBVIOUS
<1>7. f[m] = g[m]
  <2>1. \A i \in 1 .. m : p[i] = q[i]
    BY ONLY <1>3
  <2> QED
    BY ONLY <1>4, <1>5, <1>6, <2>1, m \in Nat, WalkUnique
<1>8. \A n \in 1 .. m + 1 : g[n] = Append(Followed(t, g[n - 1]), q[n])
  <2>1. GoesDown(g, t, q, m + 1)
    BY ONLY <1>5, <1>6, WalkParts
  <2> QED
    BY ONLY <2>1 DEF GoesDown
<1>9. g[m + 1] = Append(Followed(t, g[m]), x)
  BY ONLY <1>3, <1>6, <1>8
<1> QED
  BY ONLY <1>1, <1>4, <1>5, <1>7, <1>9

LEMMA ResolvedEmpty ==
  ASSUME NEW t
  PROVE  ResolvedIn(t, <<>>) = <<>>
<1>1. PICK p : p \in Seq(Name) /\ p = <<>> /\ Len(p) = 0
  <2>1. <<>> \in Seq(Name) /\ Len(<<>>) = 0
    OBVIOUS
  <2> QED
    BY <2>1
<1>2. PICK f : Walks(f, t, p, Len(p)) /\ ResolvedIn(t, p) = f[Len(p)]
  BY ONLY <1>1, ResolvedWalk
<1>3. f[0] = <<>>
  BY ONLY <1>1, <1>2, 0 \in Nat, WalkParts DEF StartsAtTop
<1> QED
  BY ONLY <1>1, <1>2, <1>3

LEMMA NoEmptyPath == <<>> \notin Path
BY PathIsSeq

LEMMA FollowedPlain ==
  ASSUME NEW t, NEW p
  PROVE  Followed(t, p) = IF IsLink(t, p) THEN LinkTo ELSE p
BY DEF Followed, IsLink

LEMMA PrefixNone ==
  ASSUME NEW s \in Seq(Name)
  PROVE  Prefix(s, 0) = <<>>
<1>1. PICK e : e = Prefix(s, 0)
  OBVIOUS
<1>2. 0 \in 0 .. Len(s)
  OBVIOUS
<1>3. e \in Seq(Name) /\ Len(e) = 0
  BY ONLY <1>1, <1>2, PrefixType, s \in Seq(Name)
<1>4. e = <<>>
  BY ONLY <1>3
<1> QED
  BY ONLY <1>1, <1>4

PlainAbove(t, p) == \A k \in 1 .. Len(p) - 1 : ~IsLink(t, Prefix(p, k))

\* A path without links on the way leads to itself.
LEMMA ResolvedPlain ==
  ASSUME NEW t, NEW p \in Seq(Name), PlainAbove(t, p)
  PROVE  ResolvedIn(t, p) = p
<1> DEFINE S == {k \in Nat : k <= Len(p) => ResolvedIn(t, Prefix(p, k)) = Prefix(p, k)}
<1>1. Len(p) \in Nat
  OBVIOUS
<1>2. 0 \in S
  <2>1. Prefix(p, 0) = <<>>
    BY PrefixNone
  <2> QED
    BY <2>1, ResolvedEmpty
<1>3. ASSUME NEW k \in Nat, k \in S
      PROVE  k + 1 \in S
  <2> SUFFICES ASSUME k + 1 <= Len(p)
               PROVE  ResolvedIn(t, Prefix(p, k + 1)) = Prefix(p, k + 1)
    OBVIOUS
  <2>1. k < Len(p) /\ k \in 0 .. Len(p) /\ (k # 0 => k \in 1 .. Len(p) - 1)
    BY <1>1
  <2>2. PICK q, x : q = Prefix(p, k) /\ x = p[k + 1]
    OBVIOUS
  <2>3. q \in Seq(Name) /\ x \in Name /\ Prefix(p, k + 1) = Append(q, x)
    <3>1. q \in Seq(Name)
      BY ONLY <2>1, <2>2, PrefixType, p \in Seq(Name)
    <3>2. Prefix(p, k + 1) = Append(Prefix(p, k), p[k + 1]) /\ p[k + 1] \in Name
      BY ONLY <2>1, PrefixNext, p \in Seq(Name), k \in Nat
    <3> QED
      BY ONLY <2>2, <3>1, <3>2
  <2>4. ResolvedIn(t, q) = q
    BY <1>3, <2>1, <2>2
  <2>5. ~IsLink(t, q)
    <3>1. CASE k = 0
      <4>1. q = <<>>
        BY <2>2, <3>1, PrefixNone
      <4> QED
        BY ONLY <4>1, NoEmptyPath DEF IsLink
    <3>2. CASE k # 0
      BY <2>1, <2>2, <3>2 DEF PlainAbove
    <3> QED
      BY <3>1, <3>2
  <2>6. Followed(t, q) = q
    BY ONLY <2>5, FollowedPlain
  <2>7. ResolvedIn(t, Append(q, x)) = Append(Followed(t, ResolvedIn(t, q)), x)
    BY ONLY <2>3, ResolvedNext
  <2> QED
    BY ONLY <2>3, <2>4, <2>6, <2>7
<1> HIDE DEF S
<1>4. \A k \in Nat : k \in S
  BY ONLY <1>2, <1>3, NatInductionOn
<1>5. ResolvedIn(t, Prefix(p, Len(p))) = Prefix(p, Len(p))
  BY <1>1, <1>4 DEF S
<1> QED
  BY ONLY <1>5, PrefixWhole, p \in Seq(Name)

SameLinks(t, u) == \A p : IsLink(t, p) <=> IsLink(u, p)

\* Where a path leads to changes with the links only.
LEMMA ResolvedSame ==
  ASSUME NEW t, NEW u, SameLinks(t, u), NEW p \in Seq(Name)
  PROVE  ResolvedIn(t, p) = ResolvedIn(u, p)
<1> DEFINE S == {k \in Nat : k <= Len(p) => ResolvedIn(t, Prefix(p, k)) = ResolvedIn(u, Prefix(p, k))}
<1>1. Len(p) \in Nat
  OBVIOUS
<1>2. 0 \in S
  <2>1. Prefix(p, 0) = <<>>
    BY PrefixNone
  <2> QED
    BY <2>1, ResolvedEmpty
<1>3. ASSUME NEW k \in Nat, k \in S
      PROVE  k + 1 \in S
  <2> SUFFICES ASSUME k + 1 <= Len(p)
               PROVE  ResolvedIn(t, Prefix(p, k + 1)) = ResolvedIn(u, Prefix(p, k + 1))
    OBVIOUS
  <2>1. k < Len(p) /\ k \in 0 .. Len(p)
    BY <1>1
  <2>2. PICK q, x : q = Prefix(p, k) /\ x = p[k + 1]
    OBVIOUS
  <2>3. q \in Seq(Name) /\ x \in Name /\ Prefix(p, k + 1) = Append(q, x)
    <3>1. q \in Seq(Name)
      BY ONLY <2>1, <2>2, PrefixType, p \in Seq(Name)
    <3>2. Prefix(p, k + 1) = Append(Prefix(p, k), p[k + 1]) /\ p[k + 1] \in Name
      BY ONLY <2>1, PrefixNext, p \in Seq(Name), k \in Nat
    <3> QED
      BY ONLY <2>2, <3>1, <3>2
  <2>4. ResolvedIn(t, q) = ResolvedIn(u, q)
    BY <1>3, <2>1, <2>2
  <2>5. \A r : Followed(t, r) = Followed(u, r)
    BY FollowedPlain DEF SameLinks
  <2>6. /\ ResolvedIn(t, Append(q, x)) = Append(Followed(t, ResolvedIn(t, q)), x)
        /\ ResolvedIn(u, Append(q, x)) = Append(Followed(u, ResolvedIn(u, q)), x)
    BY ONLY <2>3, ResolvedNext
  <2> QED
    BY ONLY <2>3, <2>4, <2>5, <2>6
<1> HIDE DEF S
<1>4. \A k \in Nat : k \in S
  BY ONLY <1>2, <1>3, NatInductionOn
<1>5. ResolvedIn(t, Prefix(p, Len(p))) = ResolvedIn(u, Prefix(p, Len(p)))
  BY <1>1, <1>4 DEF S
<1> QED
  BY ONLY <1>5, PrefixWhole, p \in Seq(Name)

\* A link lengthens a path by no more than its target without a component.
LEMMA ResolvedFits ==
  ASSUME NEW t, NEW p \in Seq(Name), p # <<>>
  PROVE  /\ ResolvedIn(t, p) \in Seq(Name)
         /\ Len(ResolvedIn(t, p)) \in 1 .. Len(p) + Len(LinkTo) - 1
<1> DEFINE Fits(k) == /\ ResolvedIn(t, Prefix(p, k)) \in Seq(Name)
                      /\ k # 0 => Len(ResolvedIn(t, Prefix(p, k))) \in 1 .. k + Len(LinkTo) - 1
           S == {k \in Nat : k <= Len(p) => Fits(k)}
<1>1. Len(p) \in Nat /\ Len(p) # 0
  OBVIOUS
<1>2. LinkTo \in Seq(Name) /\ Len(LinkTo) \in Nat \ {0}
  <2>1. LinkTo \in Path
    BY TreeAssumption
  <2> QED
    BY <2>1, PathIsSeq
<1>3. 0 \in S
  <2>1. Prefix(p, 0) = <<>>
    BY PrefixNone
  <2>2. <<>> \in Seq(Name)
    OBVIOUS
  <2>3. Fits(0)
    BY ONLY <2>1, <2>2, ResolvedEmpty
  <2> QED
    BY <2>3
<1>4. ASSUME NEW k \in Nat, k \in S
      PROVE  k + 1 \in S
  <2> SUFFICES ASSUME k + 1 <= Len(p)
               PROVE  Fits(k + 1)
    OBVIOUS
  <2>1. k < Len(p) /\ k \in 0 .. Len(p)
    BY <1>1
  <2>2. PICK q, x : q = Prefix(p, k) /\ x = p[k + 1]
    OBVIOUS
  <2>3. q \in Seq(Name) /\ x \in Name /\ Prefix(p, k + 1) = Append(q, x)
    <3>1. q \in Seq(Name)
      BY ONLY <2>1, <2>2, PrefixType, p \in Seq(Name)
    <3>2. Prefix(p, k + 1) = Append(Prefix(p, k), p[k + 1]) /\ p[k + 1] \in Name
      BY ONLY <2>1, PrefixNext, p \in Seq(Name), k \in Nat
    <3> QED
      BY ONLY <2>2, <3>1, <3>2
  <2>4. PICK r : r = ResolvedIn(t, q)
    OBVIOUS
  <2>5. r \in Seq(Name) /\ (k # 0 => Len(r) \in 1 .. k + Len(LinkTo) - 1)
    BY <1>4, <2>1, <2>2, <2>4
  <2>6. k = 0 => r = <<>>
    <3>1. Prefix(p, 0) = <<>>
      BY PrefixNone
    <3> QED
      BY ONLY <2>2, <2>4, <3>1, ResolvedEmpty
  <2>7. PICK d : d = Followed(t, r)
    OBVIOUS
  <2>8. d \in Seq(Name) /\ Len(d) \in 0 .. k + Len(LinkTo) - 1
    <3>1. CASE IsLink(t, r)
      <4>1. d = LinkTo /\ k # 0
        BY ONLY <2>6, <2>7, <3>1, FollowedPlain, NoEmptyPath DEF IsLink
      <4>2. Len(LinkTo) \in 0 .. k + Len(LinkTo) - 1
        BY ONLY <1>2, <4>1, k \in Nat
      <4> QED
        BY ONLY <1>2, <4>1, <4>2
    <3>2. CASE ~IsLink(t, r)
      <4>1. d = r
        BY ONLY <2>7, <3>2, FollowedPlain
      <4>2. Len(<<>>) = 0
        OBVIOUS
      <4>3. Len(r) \in 0 .. k + Len(LinkTo) - 1
        BY ONLY <1>2, <2>5, <2>6, <4>2, k \in Nat
      <4> QED
        BY ONLY <2>5, <4>1, <4>3
    <3> QED
      BY <3>1, <3>2
  <2>9. ResolvedIn(t, Append(q, x)) = Append(d, x)
    BY ONLY <2>3, <2>4, <2>7, ResolvedNext
  <2>10. Append(d, x) \in Seq(Name) /\ Len(Append(d, x)) = Len(d) + 1
    BY ONLY <2>3, <2>8, Appended
  <2>11. Len(d) + 1 \in 1 .. (k + 1) + Len(LinkTo) - 1
    BY ONLY <1>2, <2>8, k \in Nat
  <2> QED
    BY ONLY <2>3, <2>9, <2>10, <2>11
<1> HIDE DEF S
<1>5. \A k \in Nat : k \in S
  BY ONLY <1>3, <1>4, NatInductionOn
<1>6. Fits(Len(p))
  BY <1>1, <1>5 DEF S
<1>7. Prefix(p, Len(p)) = p
  BY ONLY PrefixWhole, p \in Seq(Name)
<1> QED
  BY ONLY <1>1, <1>6, <1>7

LEMMA AppendParent ==
  ASSUME NEW p \in Seq(Name), NEW x \in Name
  PROVE  Parent(Append(p, x)) = p /\ Append(p, x) # <<>>
<1>1. PICK q : q = Append(p, x)
  OBVIOUS
<1>2. q \in Seq(Name) /\ Len(q) = Len(p) + 1 /\ Len(p) \in Nat
  BY ONLY <1>1, Appended, p \in Seq(Name), x \in Name
<1>3. Parent(q) = Prefix(q, Len(p))
  BY <1>2 DEF Parent, Prefix
<1>4. Prefix(Append(p, x), Len(p)) = Prefix(p, Len(p))
  BY PrefixAppend
<1>5. q # <<>>
  BY <1>2
<1> QED
  BY ONLY <1>1, <1>3, <1>4, <1>5, PrefixWhole, p \in Seq(Name)

-----------------------------------------------------------------------------
(* Directory trees: what is removed. *)

Listing == UNION {[S -> Kind] : S \in SUBSET Name}
Frame ==
  [len : Nat, open : BOOLEAN, dir : Seq(Name), listed : Listing, seen : SUBSET Name]

\* The path of a call of rmdir_r, and of an entry it may be reported.
Level(i) == Prefix(path, frames[i].len)
EntryOf(i, n) == Append(Level(i), n)

\* Each call was made by the one before for an entry, and has its path in the
\* buffer; its stream is open on what the path leads to, and what was listed as
\* a directory has not become a link.
Nested ==
  \A i \in 1 .. Len(frames) :
    /\ frames[i].len = Len(Root) + i - 1
    /\ i < Len(frames) => frames[i].open
    /\ ~frames[i].open => frames[i].seen = {}
Buffered ==
  /\ Len(Root) <= Len(path) /\ Prefix(path, Len(Root)) = Root
  /\ Deepest.len <= Len(path) /\ (~Deepest.open => Deepest.len = Len(path))
LevelsPlain == \A k \in 1 .. Deepest.len : ~IsLink(tree, Prefix(path, k))
ListedPlain ==
  \A i \in 1 .. Len(frames) : \A n \in Name :
    n \in DOMAIN frames[i].listed /\ frames[i].listed[n] = "dir" => ~IsLink(tree, EntryOf(i, n))

StreamsAtLevels == \A i \in 1 .. Len(frames) : frames[i].open => frames[i].dir = Level(i)

RemovalTypes == tree \in [Path -> Kind] /\ path \in Seq(Name) /\ frames \in Seq(Frame)
RemovalInv ==
  /\ RemovalTypes
  /\ frames # <<>> =>
       removal = "running" /\ Nested /\ Buffered /\ LevelsPlain /\ ListedPlain /\ StreamsAtLevels

LEMMA RootIsPath == Root \in Path /\ Root \in Seq(Name) /\ Len(Root) \in Nat \ {0}
<1>1. Root \in Path /\ MaxParts \in Nat
  BY TreeAssumption
<1> QED
  BY <1>1, PathIsSeq

NoNewLinks(t, u) == \A p : IsLink(u, p) => IsLink(t, p)
SetKind(t, q, k) == [t EXCEPT ![q] = k]

LEMMA KindSet ==
  ASSUME NEW t \in [Path -> Kind], NEW q, NEW k \in Kind, k # "link"
  PROVE  /\ SetKind(t, q, k) \in [Path -> Kind] /\ NoNewLinks(t, SetKind(t, q, k))
         /\ \A p \in Path : SetKind(t, q, k)[p] = IF p = q THEN k ELSE t[p]
BY DEF SetKind, NoNewLinks, IsLink

LEMMA SameTree ==
  ASSUME NEW t
  PROVE  NoNewLinks(t, t)
BY DEF NoNewLinks

\* The levels lead to themselves, and are beneath the directory.
LEMMA LevelFacts ==
  ASSUME RemovalInv, frames # <<>>
  PROVE  /\ Len(frames) \in Nat \ {0} /\ Deepest = frames[Len(frames)] /\ Deepest \in Frame
         /\ \A i \in 1 .. Len(frames) : frames[i] \in Frame /\ frames[i].len \in 1 .. Deepest.len
         /\ path \in Seq(Name) /\ Len(Root) <= Deepest.len /\ Deepest.len \in 1 .. Len(path)
         /\ Reached = Level(Len(frames)) /\ Reached = Prefix(path, Deepest.len)
         /\ Reached \in Seq(Name) /\ Len(Reached) = Deepest.len
         /\ PlainAbove(tree, Reached) /\ ~IsLink(tree, Reached)
<1>1. Len(frames) \in Nat \ {0} /\ Deepest = frames[Len(frames)] /\ Deepest \in Frame
      /\ \A i \in 1 .. Len(frames) : frames[i] \in Frame
  BY DEF RemovalInv, RemovalTypes, Deepest
<1>2. Nested /\ Buffered /\ LevelsPlain /\ path \in Seq(Name)
  BY DEF RemovalInv, RemovalTypes
<1>3. \A i \in 1 .. Len(frames) : frames[i].len = Len(Root) + i - 1
  BY <1>2 DEF Nested
<1>4. Deepest.len = Len(Root) + Len(frames) - 1
  BY ONLY <1>1, <1>3
<1>5. \A i \in 1 .. Len(frames) : frames[i].len \in 1 .. Deepest.len
  BY ONLY <1>1, <1>3, <1>4, RootIsPath
<1>6. Len(Root) <= Deepest.len /\ Deepest.len \in 1 .. Len(path) /\ Len(path) \in Nat
  BY <1>1, <1>2, <1>4, RootIsPath DEF Buffered
<1>7. Reached = Prefix(path, Deepest.len)
  BY DEF Reached, Prefix
<1>8. Reached \in Seq(Name) /\ Len(Reached) = Deepest.len
  <2>1. Deepest.len \in 0 .. Len(path)
    BY ONLY <1>6
  <2> QED
    BY ONLY <1>2, <1>7, <2>1, PrefixType
<1>9. PlainAbove(tree, Reached)
  <2>1. PICK r : r = Reached
    OBVIOUS
  <2>2. ASSUME NEW k \in 1 .. Len(r) - 1
        PROVE  ~IsLink(tree, Prefix(r, k))
    <3>1. k \in 1 .. Deepest.len /\ k \in 0 .. Deepest.len /\ Deepest.len \in 0 .. Len(path)
      BY ONLY <1>6, <1>8, <2>1, k \in 1 .. Len(r) - 1
    <3>2. Prefix(r, k) = Prefix(path, k)
      BY ONLY <1>2, <1>7, <2>1, <3>1, PrefixOfPrefix
    <3> QED
      BY ONLY <1>2, <3>1, <3>2 DEF LevelsPlain
  <2>3. PlainAbove(tree, r)
    BY ONLY <2>2 DEF PlainAbove
  <2> QED
    BY ONLY <2>1, <2>3
<1>10. ~IsLink(tree, Reached)
  <2>1. Deepest.len \in 1 .. Deepest.len
    BY <1>6
  <2> QED
    BY ONLY <1>2, <1>7, <2>1 DEF LevelsPlain
<1> QED
  BY ONLY <1>1, <1>2, <1>5, <1>6, <1>7, <1>8, <1>9, <1>10 DEF Level

Beneath(p) == p \in Seq(Name) /\ Under(Root, p)

LEMMA LevelLeads ==
  ASSUME RemovalInv, frames # <<>>
  PROVE  /\ Resolved(Reached) = Reached /\ Beneath(Reached)
         /\ \A n \in Name : Resolved(Append(Reached, n)) = Append(Reached, n) /\ Beneath(Append(Reached, n))
<1>1. PICK r : r = Reached
  OBVIOUS
<1>2. /\ r \in Seq(Name) /\ PlainAbove(tree, r) /\ ~IsLink(tree, r)
      /\ Len(r) = Deepest.len /\ Len(Root) <= Deepest.len /\ r = Prefix(path, Deepest.len)
      /\ Deepest.len \in 1 .. Len(path) /\ path \in Seq(Name)
  BY ONLY <1>1, LevelFacts, RemovalInv, frames # <<>>
<1>3. ResolvedIn(tree, r) = r
  BY ONLY <1>2, ResolvedPlain
<1>4. Beneath(r)
  <2>1. Prefix(path, Len(Root)) = Root
    BY DEF RemovalInv, Buffered
  <2>2. Len(Root) \in 0 .. Deepest.len /\ Deepest.len \in 0 .. Len(path)
    BY <1>2, RootIsPath
  <2>3. Prefix(r, Len(Root)) = Root
    BY ONLY <1>2, <2>1, <2>2, PrefixOfPrefix
  <2> QED
    BY ONLY <1>2, <2>3 DEF Beneath, Under, Prefix
<1>5. ASSUME NEW n \in Name
      PROVE  ResolvedIn(tree, Append(r, n)) = Append(r, n) /\ Beneath(Append(r, n))
  <2>1. ResolvedIn(tree, Append(r, n)) = Append(Followed(tree, ResolvedIn(tree, r)), n)
    BY ONLY <1>2, n \in Name, ResolvedNext
  <2>2. Followed(tree, r) = r
    BY ONLY <1>2, FollowedPlain
  <2>3. PICK q : q = Append(r, n)
    OBVIOUS
  <2>4. q \in Seq(Name) /\ Len(q) = Len(r) + 1
    BY ONLY <1>2, <2>3, n \in Name, Appended
  <2>5. Prefix(q, Len(Root)) = Root
    <3>1. Len(Root) \in 0 .. Len(r)
      BY <1>2, RootIsPath
    <3>2. Prefix(r, Len(Root)) = Root
      BY ONLY <1>4 DEF Beneath, Under, Prefix
    <3>3. Prefix(q, Len(Root)) = Prefix(r, Len(Root))
      BY ONLY <1>2, <2>3, <3>1, n \in Name, PrefixAppend
    <3> QED
      BY ONLY <3>2, <3>3
  <2>6. Len(Root) <= Len(q)
    BY <1>2, <2>4, RootIsPath
  <2>7. Beneath(q)
    BY ONLY <2>4, <2>5, <2>6 DEF Beneath, Under, Prefix
  <2> QED
    BY ONLY <1>3, <2>1, <2>2, <2>3, <2>7
<1>6. \A p : Resolved(p) = ResolvedIn(tree, p)
  BY DEF Resolved, ResolvedIn
<1> QED
  BY ONLY <1>1, <1>3, <1>4, <1>5, <1>6

\* The buffer's part that the calls have reached stays.
PathKept == path' \in Seq(Name) /\ Deepest.len <= Len(path') /\ Prefix(path', Deepest.len) = Reached
PrefixesKept == \A k \in 0 .. Deepest.len : Prefix(path', k) = Prefix(path, k)

LEMMA KeptPrefixes ==
  ASSUME RemovalInv, frames # <<>>, PathKept
  PROVE  PrefixesKept
<1>1. PICK q, d : q = path' /\ d = Deepest.len
  OBVIOUS
<1>2. /\ q \in Seq(Name) /\ path \in Seq(Name) /\ d \in 0 .. Len(path) /\ d \in 0 .. Len(q)
      /\ Prefix(q, d) = Prefix(path, d)
  <2>1. path \in Seq(Name) /\ d \in 1 .. Len(path) /\ Reached = Prefix(path, d)
    BY ONLY <1>1, LevelFacts, RemovalInv, frames # <<>>
  <2>2. q \in Seq(Name) /\ d <= Len(q) /\ Prefix(q, d) = Reached
    BY ONLY <1>1, PathKept DEF PathKept
  <2> QED
    BY <2>1, <2>2
<1>3. ASSUME NEW k \in 0 .. d
      PROVE  Prefix(q, k) = Prefix(path, k)
  <2>1. Prefix(Prefix(q, d), k) = Prefix(q, k) /\ Prefix(Prefix(path, d), k) = Prefix(path, k)
    BY ONLY <1>2, k \in 0 .. d, PrefixOfPrefix
  <2> QED
    BY ONLY <1>2, <2>1
<1> QED
  BY ONLY <1>1, <1>3 DEF PrefixesKept

Seen(n) == [frames EXCEPT ![Len(frames)].seen = @ \cup {n}]
OpenedAt(d, l) ==
  [frames EXCEPT ![Len(frames)] = [@ EXCEPT !.open = TRUE, !.dir = d, !.listed = l]]
SameFrame(g, i) ==
  /\ g.len = frames[i].len /\ g.open = frames[i].open
  /\ g.dir = frames[i].dir /\ g.listed = frames[i].listed

LEMMA SeenFrames ==
  ASSUME RemovalTypes, frames # <<>>, NEW n \in Name
  PROVE  /\ Seen(n) \in Seq(Frame) /\ Len(Seen(n)) = Len(frames)
         /\ \A i \in 1 .. Len(frames) : SameFrame(Seen(n)[i], i)
         /\ \A i \in 1 .. Len(frames) :
              Seen(n)[i].seen = IF i = Len(frames) THEN frames[i].seen \cup {n} ELSE frames[i].seen
<1>1. frames \in Seq(Frame) /\ Len(frames) \in 1 .. Len(frames)
  BY DEF RemovalTypes
<1>2. PICK m : m = Len(frames)
  OBVIOUS
<1>3. PICK f : f = frames[m] /\ f \in Frame
  BY <1>1, <1>2
<1>4. PICK g : g = [f EXCEPT !.seen = f.seen \cup {n}]
  OBVIOUS
<1>5. /\ g \in Frame /\ g.len = f.len /\ g.open = f.open /\ g.dir = f.dir /\ g.listed = f.listed
      /\ g.seen = f.seen \cup {n}
  BY ONLY <1>3, <1>4, n \in Name DEF Frame
<1>6. PICK s : s = [frames EXCEPT ![m] = g]
  OBVIOUS
<1>7. Seen(n) = s
  BY ONLY <1>2, <1>3, <1>4, <1>6 DEF Seen
<1>8. s \in Seq(Frame) /\ Len(s) = m /\ \A i \in 1 .. m : s[i] = IF i = m THEN g ELSE frames[i]
  BY ONLY <1>1, <1>2, <1>5, <1>6
<1> QED
  BY ONLY <1>2, <1>3, <1>5, <1>7, <1>8 DEF SameFrame

\* The innermost call is the only one that is opened.
LastOpened(s, d, l) ==
  /\ s \in Seq(Frame) /\ Len(s) = Len(frames)
  /\ \A i \in 1 .. Len(frames) : i # Len(frames) => s[i] = frames[i]
  /\ \A i \in 1 .. Len(frames) : i = Len(frames) =>
       /\ s[i].len = frames[i].len /\ s[i].seen = frames[i].seen
       /\ s[i].open = TRUE /\ s[i].dir = d /\ s[i].listed = l

LEMMA OpenedFrames ==
  ASSUME RemovalTypes, frames # <<>>, NEW d \in Seq(Name), NEW l \in Listing,
         NEW s, s = OpenedAt(d, l)
  PROVE  LastOpened(s, d, l)
<1>1. frames \in Seq(Frame) /\ Len(frames) \in 1 .. Len(frames)
  BY DEF RemovalTypes
<1>2. PICK m : m = Len(frames)
  OBVIOUS
<1>3. PICK f : f = frames[m] /\ f \in Frame
  BY <1>1, <1>2
<1>4. PICK g : g = [f EXCEPT !.open = TRUE, !.dir = d, !.listed = l]
  OBVIOUS
<1>5. g \in Frame /\ g.len = f.len /\ g.seen = f.seen /\ g.open = TRUE /\ g.dir = d /\ g.listed = l
  <2>1. PICK h : h = [f EXCEPT !.open = TRUE]
    OBVIOUS
  <2>2. h \in Frame /\ h.len = f.len /\ h.seen = f.seen /\ h.open = TRUE
    BY ONLY <1>3, <2>1 DEF Frame
  <2>3. PICK e : e = [h EXCEPT !.dir = d]
    OBVIOUS
  <2>4. e \in Frame /\ e.len = f.len /\ e.seen = f.seen /\ e.open = TRUE /\ e.dir = d
    BY ONLY <2>2, <2>3, d \in Seq(Name) DEF Frame
  <2>5. g = [e EXCEPT !.listed = l]
    BY ONLY <1>4, <2>1, <2>3
  <2> QED
    BY ONLY <2>4, <2>5, l \in Listing DEF Frame
<1>6. s = [frames EXCEPT ![m] = g]
  BY ONLY <1>2, <1>3, <1>4, s = OpenedAt(d, l) DEF OpenedAt
<1>7. s \in Seq(Frame) /\ Len(s) = m /\ \A i \in 1 .. m : s[i] = IF i = m THEN g ELSE frames[i]
  BY ONLY <1>1, <1>2, <1>5, <1>6
<1> QED
  BY ONLY <1>2, <1>3, <1>5, <1>7 DEF LastOpened

RootReachable == \A k \in 1 .. Len(Root) : ~IsLink(tree, Prefix(Root, k))

LEMMA BeginKeepsRemoval ==
  ASSUME RemovalInv, RootReachable, BeginRemoval
  PROVE  RemovalInv'
<1>1. PICK e : e = Entered(Root)
  OBVIOUS
<1>2. e \in Frame /\ e.len = Len(Root) /\ e.open = FALSE /\ e.seen = {} /\ DOMAIN e.listed = {}
  <2>1. <<>> \in [{} -> Kind]
    OBVIOUS
  <2>2. <<>> \in Listing
    BY <2>1 DEF Listing
  <2>3. Len(Root) \in Nat /\ <<>> \in Seq(Name)
    BY RootIsPath
  <2> QED
    BY <1>1, <2>2, <2>3 DEF Entered, Frame
<1>3. removal' = "running" /\ frames' = <<e>> /\ path' = Root /\ tree' = tree
  BY <1>1 DEF BeginRemoval
<1>4. /\ frames' \in Seq(Frame) /\ Len(frames') = 1 /\ frames'[1] = e /\ 1 \in 1 .. Len(frames')
      /\ \A i \in 1 .. Len(frames') : i = 1
  BY ONLY <1>2, <1>3
<1>5. Deepest' = e
  BY <1>4 DEF Deepest
<1>6. Root \in Seq(Name) /\ Len(Root) \in Nat \ {0} /\ Prefix(Root, Len(Root)) = Root
  BY RootIsPath, PrefixWhole
<1>7. RemovalTypes'
  BY ONLY RemovalInv, <1>3, <1>4, <1>6 DEF RemovalInv, RemovalTypes
<1>8. Nested'
  <2>1. ASSUME NEW i \in 1 .. Len(frames')
        PROVE  /\ frames'[i].len = Len(Root) + i - 1
               /\ i < Len(frames') => frames'[i].open
               /\ ~frames'[i].open => frames'[i].seen = {}
    BY ONLY <1>2, <1>4, <1>6
  <2> QED
    BY ONLY <2>1 DEF Nested
<1>9. Buffered'
  BY ONLY <1>2, <1>3, <1>5, <1>6 DEF Buffered
<1>10. LevelsPlain'
  BY ONLY <1>2, <1>3, <1>5, RootReachable DEF LevelsPlain, RootReachable
<1>11. ListedPlain'
  <2>1. \A i \in 1 .. Len(frames') : DOMAIN frames'[i].listed = {}
    BY ONLY <1>2, <1>4
  <2> QED
    BY ONLY <2>1 DEF ListedPlain
<1>12. StreamsAtLevels'
  <2>1. \A i \in 1 .. Len(frames') : ~frames'[i].open
    BY ONLY <1>2, <1>4
  <2> QED
    BY ONLY <2>1 DEF StreamsAtLevels
<1> QED
  BY ONLY <1>3, <1>7, <1>8, <1>9, <1>10, <1>11, <1>12 DEF RemovalInv

LEMMA UnwindKeepsRemoval ==
  ASSUME RemovalInv, Unwind
  PROVE  RemovalInv'
<1>1. frames' = <<>> /\ path' = Root /\ tree' = tree /\ <<>> \in Seq(Frame)
  BY DEF Unwind
<1> QED
  BY ONLY RemovalInv, <1>1, RootIsPath DEF RemovalInv, RemovalTypes

\* While nothing is reported the buffer ends where the innermost call's path ends.
LEMMA AtLevel ==
  ASSUME RemovalInv, frames # <<>>, ~Deepest.open
  PROVE  path = Reached
<1>1. path \in Seq(Name) /\ Deepest.len = Len(path)
  BY DEF RemovalInv, RemovalTypes, Buffered
<1>2. Reached = Prefix(path, Deepest.len)
  BY LevelFacts
<1> QED
  BY ONLY <1>1, <1>2, PrefixWhole

ChildrenKinds(d) == [n \in Children(d) |-> KindOf(Append(d, n))]

LEMMA ListingOf ==
  ASSUME tree \in [Path -> Kind], NEW d
  PROVE  /\ ChildrenKinds(d) \in Listing
         /\ \A n \in Name : n \in DOMAIN ChildrenKinds(d) <=> KindOf(Append(d, n)) # "none"
         /\ \A n \in DOMAIN ChildrenKinds(d) : n \in Name /\ ChildrenKinds(d)[n] = KindOf(Append(d, n))
<1>1. \A p : KindOf(p) \in Kind
  BY DEF KindOf, Kind
<1>2. Children(d) \in SUBSET Name
  BY DEF Children
<1>3. ChildrenKinds(d) \in [Children(d) -> Kind]
  BY <1>1 DEF ChildrenKinds
<1>4. ChildrenKinds(d) \in Listing
  BY ONLY <1>2, <1>3 DEF Listing
<1> QED
  BY ONLY <1>2, <1>4 DEF ChildrenKinds, Children

\* What the innermost call opens is its level.
LEMMA OpensLevel ==
  ASSUME RemovalInv, frames # <<>>, ~Deepest.open
  PROVE  Followed(tree, Resolved(path)) = Reached
<1>1. path = Reached
  BY AtLevel
<1>2. Resolved(Reached) = Reached
  BY LevelLeads
<1>3. ~IsLink(tree, Reached)
  BY LevelFacts
<1>4. Followed(tree, Reached) = Reached
  BY ONLY <1>3, FollowedPlain
<1> QED
  BY ONLY <1>1, <1>2, <1>4

Opens ==
  /\ frames # <<>> /\ ~Deepest.open /\ KindOf(Reached) = "dir"
  /\ frames' = OpenedAt(Reached, ChildrenKinds(Reached))
  /\ UNCHANGED <<tree, making, path, removal, alone, disturbed, swapped>>

LEMMA OpendirCases ==
  ASSUME RemovalInv, Opendir
  PROVE  Opens \/ (frames # <<>> /\ ~Deepest.open /\ KindOf(Reached) # "dir" /\ Fail)
<1>1. frames # <<>> /\ ~Deepest.open
  BY DEF Opendir
<1>2. Followed(tree, Resolved(path)) = Reached
  BY <1>1, OpensLevel
<1>3. CASE KindOf(Reached) = "dir" /\ frames' = [frames EXCEPT ![Len(frames)] =
             [@ EXCEPT !.open = TRUE, !.dir = Reached, !.listed = ChildrenKinds(Reached)]]
           /\ UNCHANGED <<tree, making, path, removal, alone, disturbed, swapped>>
  BY <1>1, <1>3 DEF Opens, OpenedAt
<1>4. CASE KindOf(Reached) # "dir" /\ Fail
  BY <1>1, <1>4
<1> QED
  BY <1>2, <1>3, <1>4 DEF Opendir, ChildrenKinds

LEMMA OpensKeepsRemoval ==
  ASSUME RemovalInv, Opens
  PROVE  RemovalInv'
<1>1. PICK m : m = Len(frames)
  OBVIOUS
<1>2. /\ frames # <<>> /\ RemovalTypes /\ removal = "running"
      /\ Nested /\ Buffered /\ LevelsPlain /\ ListedPlain /\ StreamsAtLevels
  BY DEF RemovalInv, Opens
<1>3. PICK l : l = ChildrenKinds(Reached)
  OBVIOUS
<1>4. /\ l \in Listing
      /\ \A n \in DOMAIN l : n \in Name /\ l[n] = KindOf(Append(Reached, n))
  <2>1. tree \in [Path -> Kind]
    BY <1>2 DEF RemovalTypes
  <2> QED
    BY ONLY <1>3, <2>1, ListingOf
<1>5. frames' = OpenedAt(Reached, l) /\ Reached \in Seq(Name)
  BY <1>2, <1>3, LevelFacts DEF Opens
<1>6. /\ frames' \in Seq(Frame) /\ Len(frames') = m
      /\ \A i \in 1 .. m : i # m => frames'[i] = frames[i]
      /\ \A i \in 1 .. m : i = m =>
           /\ frames'[i].len = frames[i].len /\ frames'[i].seen = frames[i].seen
           /\ frames'[i].open = TRUE /\ frames'[i].dir = Reached /\ frames'[i].listed = l
  <2>1. PICK s, d : d = Reached /\ s = OpenedAt(d, l)
    OBVIOUS
  <2>2. LastOpened(s, d, l)
    BY ONLY <1>2, <1>4, <1>5, <2>1, OpenedFrames
  <2>3. frames' = s
    BY ONLY <1>5, <2>1
  <2>4. LastOpened(frames', Reached, l)
    BY ONLY <2>1, <2>2, <2>3
  <2> QED
    BY ONLY <1>1, <2>4 DEF LastOpened
<1>7. m \in 1 .. m /\ Deepest = frames[m] /\ m \in Nat
  BY <1>1, <1>2, LevelFacts
<1>8. Deepest' = frames'[m] /\ Deepest'.len = Deepest.len /\ Deepest'.open = TRUE
  BY ONLY <1>6, <1>7 DEF Deepest
<1>9. UNCHANGED <<tree, path, removal>> /\ ~Deepest.open
  BY DEF Opens
<1>10. RemovalTypes'
  BY ONLY <1>2, <1>6, <1>9 DEF RemovalTypes
<1>11. Nested'
  <2>1. \A i \in 1 .. m : /\ frames[i].len = Len(Root) + i - 1 /\ (i < m => frames[i].open)
                          /\ ~frames[i].open => frames[i].seen = {}
    BY ONLY <1>1, <1>2 DEF Nested
  <2>2. ASSUME NEW i \in 1 .. m
        PROVE  /\ frames'[i].len = Len(Root) + i - 1
               /\ i < m => frames'[i].open
               /\ ~frames'[i].open => frames'[i].seen = {}
    BY ONLY <1>6, <2>1, i \in 1 .. m
  <2> QED
    BY ONLY <1>6, <2>2 DEF Nested
<1>12. Buffered'
  BY ONLY <1>2, <1>8, <1>9 DEF Buffered
<1>13. LevelsPlain'
  BY ONLY <1>2, <1>8, <1>9 DEF LevelsPlain
<1>14. ListedPlain'
  <2>1. \A i \in 1 .. m : frames'[i].len = frames[i].len
    BY ONLY <1>6
  <2>2. \A i \in 1 .. m : \A n : Append(Prefix(path', frames'[i].len), n) = EntryOf(i, n)
    BY ONLY <1>9, <2>1 DEF EntryOf, Level
  <2>3. ASSUME NEW i \in 1 .. m, NEW n \in Name, n \in DOMAIN frames'[i].listed, frames'[i].listed[n] = "dir"
        PROVE  ~IsLink(tree, EntryOf(i, n))
    <3>1. CASE i # m
      <4>1. frames'[i] = frames[i]
        BY ONLY <1>6, <3>1, i \in 1 .. m
      <4> QED
        BY ONLY <1>1, <1>2, <2>3, <4>1 DEF ListedPlain
    <3>2. CASE i = m
      <4>1. n \in DOMAIN l /\ l[n] = "dir"
        BY ONLY <1>6, <2>3, <3>2
      <4>2. KindOf(Append(Reached, n)) = "dir"
        BY ONLY <1>4, <4>1
      <4>3. Reached = Level(m)
        BY <1>1, <1>2, LevelFacts
      <4>4. KindOf(EntryOf(m, n)) = "dir"
        BY ONLY <4>2, <4>3 DEF EntryOf
      <4> QED
        BY ONLY <3>2, <4>4, NoEmptyPath DEF KindOf, IsLink
    <3> QED
      BY <3>1, <3>2
  <2> QED
    BY ONLY <1>6, <1>9, <2>2, <2>3 DEF ListedPlain, EntryOf, Level
<1>15. StreamsAtLevels'
  <2>1. Reached = Level(m)
    BY <1>1, <1>2, LevelFacts
  <2>2. ASSUME NEW i \in 1 .. m, frames'[i].open
        PROVE  frames'[i].dir = Level(i)
    <3>1. CASE i = m
      BY ONLY <1>6, <2>1, <3>1, i \in 1 .. m
    <3>2. CASE i # m
      <4>1. frames'[i] = frames[i]
        BY ONLY <1>6, <3>2, i \in 1 .. m
      <4> QED
        BY ONLY <1>1, <1>2, <2>2, <4>1 DEF StreamsAtLevels
    <3> QED
      BY <3>1, <3>2
  <2>3. \A i \in 1 .. m : Level(i)' = Level(i)
    BY ONLY <1>6, <1>9 DEF Level
  <2> QED
    BY ONLY <1>6, <2>2, <2>3 DEF StreamsAtLevels
<1> QED
  BY ONLY <1>2, <1>9, <1>10, <1>11, <1>12, <1>13, <1>14, <1>15 DEF RemovalInv

Reports(n) == frames # <<>> /\ Deepest.open /\ (n \notin Deepest.seen \/ Disturbed(n))
EntersDir(n) ==
  /\ Reports(n) /\ "dir" \in EntryTypes(n)
  /\ path' = Append(Reached, n)
  /\ frames' = Append(Seen(n), Entered(Append(Reached, n)))
  /\ alone' => alone
  /\ UNCHANGED <<tree, making, removal, disturbed, swapped>>
Unlinks(n) ==
  /\ Reports(n) /\ KindOf(Append(Reached, n)) \notin {"dir", "none"}
  /\ tree' = SetKind(tree, Append(Reached, n), "none") /\ making' = Lost(making)
  /\ path' = Append(Reached, n) /\ frames' = Seen(n)
  /\ alone' => alone
  /\ UNCHANGED <<removal, disturbed, swapped>>
ReportFails(n) ==
  /\ Reports(n) /\ KindOf(Append(Reached, n)) \in {"dir", "none"}
  /\ \E kind \in EntryTypes(n) : kind # "dir" /\ (alone' => alone /\ kind # "unknown")
  /\ Unwind

LEMMA ReportCases ==
  ASSUME RemovalInv, NEW n \in Name, Report(n)
  PROVE  EntersDir(n) \/ Unlinks(n) \/ ReportFails(n)
<1>1. Reports(n) /\ frames # <<>>
  BY DEF Report, Reports
<1>2. Resolved(Append(Reached, n)) = Append(Reached, n)
  BY <1>1, LevelLeads
<1>3. PICK p : p = Append(Reached, n)
  OBVIOUS
<1>4. PICK kind \in EntryTypes(n) :
      /\ alone' = (alone /\ kind # "unknown")
      /\ \/ /\ kind = "dir"
            /\ path' = p /\ frames' = Append(Seen(n), Entered(p))
            /\ UNCHANGED <<tree, making, removal, disturbed, swapped, touches>>
         \/ /\ kind # "dir" /\ KindOf(p) \notin {"dir", "none"}
            /\ Delete(p) /\ path' = p /\ frames' = Seen(n)
            /\ UNCHANGED <<removal, disturbed, swapped, touches>>
         \/ kind # "dir" /\ KindOf(p) \in {"dir", "none"} /\ Unwind
  BY ONLY Report(n), <1>2, <1>3 DEF Report, Enters, Seen
<1>5. alone' => alone /\ kind # "unknown"
  BY ONLY <1>4
<1>6. CASE /\ kind = "dir"
           /\ path' = p /\ frames' = Append(Seen(n), Entered(p))
           /\ UNCHANGED <<tree, making, removal, disturbed, swapped, touches>>
  BY ONLY <1>1, <1>3, <1>5, <1>6, kind \in EntryTypes(n) DEF EntersDir
<1>7. CASE /\ kind # "dir" /\ KindOf(p) \notin {"dir", "none"}
           /\ Delete(p) /\ path' = p /\ frames' = Seen(n)
           /\ UNCHANGED <<removal, disturbed, swapped, touches>>
  BY ONLY <1>1, <1>3, <1>5, <1>7 DEF Unlinks, Delete, SetKind
<1>8. CASE kind # "dir" /\ KindOf(p) \in {"dir", "none"} /\ Unwind
  BY ONLY <1>1, <1>3, <1>5, <1>8, kind \in EntryTypes(n) DEF ReportFails
<1> QED
  BY ONLY <1>4, <1>6, <1>7, <1>8

\* The facts of the two steps that add an entry's name to the path.
LEMMA NameAppended ==
  ASSUME RemovalInv, frames # <<>>, NEW n \in Name, path' = Append(Reached, n)
  PROVE  /\ PathKept /\ PrefixesKept /\ Len(path') = Deepest.len + 1
         /\ Deepest.len \in Nat \ {0} /\ Len(Root) \in 0 .. Deepest.len
         /\ Prefix(path', Len(Root)) = Root
<1>1. PICK r, q, d : r = Reached /\ q = path' /\ d = Deepest.len
  OBVIOUS
<1>2. /\ r \in Seq(Name) /\ Len(r) = d /\ d \in 1 .. Len(path) /\ path \in Seq(Name)
      /\ Len(Root) <= d /\ r = Prefix(path, d)
  BY ONLY <1>1, LevelFacts, RemovalInv, frames # <<>>
<1>3. q = Append(r, n)
  BY <1>1
<1>4. q \in Seq(Name) /\ Len(q) = d + 1
  BY ONLY <1>2, <1>3, n \in Name, Appended
<1>5. d \in 0 .. Len(r) /\ d \in Nat \ {0} /\ d <= Len(q)
  BY ONLY <1>2, <1>4
<1>6. Prefix(q, d) = r
  <2>1. Prefix(q, d) = Prefix(r, d)
    BY ONLY <1>2, <1>3, <1>5, n \in Name, PrefixAppend
  <2> QED
    BY ONLY <1>2, <2>1, PrefixWhole
<1>7. PathKept
  BY ONLY <1>1, <1>4, <1>5, <1>6 DEF PathKept
<1>8. PrefixesKept
  BY ONLY RemovalInv, frames # <<>>, <1>7, KeptPrefixes
<1>9. Len(Root) \in 0 .. d
  BY ONLY <1>2, <1>5, RootIsPath
<1>10. Prefix(path', Len(Root)) = Root
  <2>1. Prefix(path, Len(Root)) = Root
    BY DEF RemovalInv, Buffered
  <2>2. Prefix(path', Len(Root)) = Prefix(path, Len(Root))
    BY ONLY <1>1, <1>8, <1>9 DEF PrefixesKept
  <2> QED
    BY ONLY <2>1, <2>2
<1> QED
  BY ONLY <1>1, <1>4, <1>5, <1>7, <1>8, <1>9, <1>10

\* The levels above stay where they are and no links are made: what they listed
\* stays plain.
LEMMA ListedStays ==
  ASSUME RemovalInv, frames # <<>>, PrefixesKept, NoNewLinks(tree, tree'),
         NEW i \in 1 .. Len(frames), NEW g, SameFrame(g, i),
         NEW n \in Name, n \in DOMAIN g.listed, g.listed[n] = "dir"
  PROVE  ~IsLink(tree', Append(Prefix(path', g.len), n))
<1>1. frames[i].len \in 0 .. Deepest.len
  <2>1. frames[i].len \in 1 .. Deepest.len
    BY ONLY RemovalInv, frames # <<>>, i \in 1 .. Len(frames), LevelFacts
  <2> QED
    BY ONLY <2>1
<1>2. g.len = frames[i].len /\ g.listed = frames[i].listed
  BY DEF SameFrame
<1>3. Prefix(path', g.len) = Level(i)
  BY ONLY <1>1, <1>2, PrefixesKept DEF PrefixesKept, Level
<1>4. ~IsLink(tree, EntryOf(i, n))
  BY <1>2 DEF RemovalInv, ListedPlain
<1> QED
  BY ONLY <1>3, <1>4, NoNewLinks(tree, tree') DEF NoNewLinks, EntryOf

LEMMA StreamStays ==
  ASSUME RemovalInv, frames # <<>>, PrefixesKept,
         NEW i \in 1 .. Len(frames), NEW g, SameFrame(g, i), g.open
  PROVE  g.dir = Prefix(path', g.len)
<1>1. frames[i].len \in 0 .. Deepest.len
  <2>1. frames[i].len \in 1 .. Deepest.len
    BY ONLY RemovalInv, frames # <<>>, i \in 1 .. Len(frames), LevelFacts
  <2> QED
    BY ONLY <2>1
<1>2. g.len = frames[i].len /\ g.dir = frames[i].dir /\ frames[i].open
  BY DEF SameFrame
<1>3. Prefix(path', g.len) = Level(i)
  BY ONLY <1>1, <1>2, PrefixesKept DEF PrefixesKept, Level
<1>4. frames[i].dir = Level(i)
  BY <1>2 DEF RemovalInv, StreamsAtLevels
<1> QED
  BY ONLY <1>2, <1>3, <1>4

LEMMA UnlinksKeepsRemoval ==
  ASSUME RemovalInv, NEW n \in Name, Unlinks(n)
  PROVE  RemovalInv'
<1>1. frames # <<>> /\ Deepest.open /\ path' = Append(Reached, n) /\ removal' = removal
  BY DEF Unlinks, Reports
<1>2. RemovalTypes /\ removal = "running" /\ Nested /\ Buffered /\ LevelsPlain /\ ListedPlain
  BY <1>1 DEF RemovalInv
<1>3. tree' \in [Path -> Kind] /\ NoNewLinks(tree, tree')
  <2>1. PICK q, k : q = Append(Reached, n) /\ k = "none"
    OBVIOUS
  <2>2. tree \in [Path -> Kind] /\ k \in Kind /\ k # "link"
    BY <1>2, <2>1 DEF RemovalTypes, Kind
  <2>3. tree' = SetKind(tree, q, k)
    BY <2>1 DEF Unlinks
  <2> QED
    BY ONLY <2>2, <2>3, KindSet
<1>4. PICK m : m = Len(frames)
  OBVIOUS
<1>5. m \in 1 .. m /\ m \in Nat /\ Deepest = frames[m]
  BY <1>1, <1>4, LevelFacts
<1>6. PICK s : s = Seen(n)
  OBVIOUS
<1>7. /\ s \in Seq(Frame) /\ Len(s) = m /\ \A i \in 1 .. m : SameFrame(s[i], i)
      /\ \A i \in 1 .. m : s[i].seen = IF i = m THEN frames[i].seen \cup {n} ELSE frames[i].seen
  BY ONLY <1>1, <1>2, <1>4, <1>6, n \in Name, SeenFrames
<1>8. frames' = s
  BY <1>6 DEF Unlinks
<1>9. /\ PathKept /\ PrefixesKept /\ Len(path') = Deepest.len + 1
      /\ Deepest.len \in Nat \ {0} /\ Len(Root) \in 0 .. Deepest.len
      /\ Prefix(path', Len(Root)) = Root
  BY ONLY RemovalInv, <1>1, n \in Name, NameAppended
<1>10. Deepest' = s[m] /\ s[m].len = Deepest.len /\ s[m].open
  BY ONLY <1>1, <1>5, <1>7, <1>8 DEF Deepest, SameFrame
<1>11. RemovalTypes'
  BY ONLY <1>3, <1>7, <1>8, <1>9 DEF RemovalTypes, PathKept
<1>12. Nested'
  <2>1. \A i \in 1 .. m : /\ frames[i].len = Len(Root) + i - 1 /\ (i < m => frames[i].open)
                          /\ ~frames[i].open => frames[i].seen = {}
    BY ONLY <1>2, <1>4 DEF Nested
  <2>2. ASSUME NEW i \in 1 .. m
        PROVE  /\ s[i].len = Len(Root) + i - 1
               /\ i < m => s[i].open
               /\ ~s[i].open => s[i].seen = {}
    BY ONLY <1>1, <1>5, <1>7, <2>1, i \in 1 .. m DEF SameFrame
  <2> QED
    BY ONLY <1>7, <1>8, <2>2 DEF Nested
<1>13. Buffered'
  <2>1. Len(Root) <= Len(path') /\ Deepest.len <= Len(path')
    BY ONLY <1>9
  <2> QED
    BY ONLY <1>9, <1>10, <2>1 DEF Buffered
<1>14. LevelsPlain'
  <2>1. \A k \in 1 .. Deepest.len : k \in 0 .. Deepest.len
    BY ONLY <1>9
  <2> QED
    BY ONLY <1>2, <1>3, <1>9, <1>10, <2>1 DEF LevelsPlain, PrefixesKept, NoNewLinks
<1>15. ListedPlain'
  <2>1. ASSUME NEW i \in 1 .. m, NEW x \in Name, x \in DOMAIN s[i].listed, s[i].listed[x] = "dir"
        PROVE  ~IsLink(tree', Append(Prefix(path', s[i].len), x))
    <3>1. PICK g : g = s[i]
      OBVIOUS
    <3>2. SameFrame(g, i) /\ i \in 1 .. Len(frames) /\ x \in DOMAIN g.listed /\ g.listed[x] = "dir"
      BY ONLY <1>4, <1>7, <2>1, <3>1
    <3>3. ~IsLink(tree', Append(Prefix(path', g.len), x))
      BY ONLY RemovalInv, <1>1, <1>3, <1>9, <3>2, x \in Name, ListedStays
    <3> QED
      BY ONLY <3>1, <3>3
  <2> QED
    BY ONLY <1>7, <1>8, <2>1 DEF ListedPlain, EntryOf, Level
<1>16. StreamsAtLevels'
  <2>1. ASSUME NEW i \in 1 .. m, s[i].open
        PROVE  s[i].dir = Prefix(path', s[i].len)
    <3>1. PICK g : g = s[i]
      OBVIOUS
    <3>2. SameFrame(g, i) /\ i \in 1 .. Len(frames) /\ g.open
      BY ONLY <1>4, <1>7, <2>1, <3>1
    <3>3. g.dir = Prefix(path', g.len)
      BY ONLY RemovalInv, <1>1, <1>9, <3>2, StreamStays
    <3> QED
      BY ONLY <3>1, <3>3
  <2> QED
    BY ONLY <1>7, <1>8, <2>1 DEF StreamsAtLevels, Level
<1> QED
  BY ONLY <1>1, <1>2, <1>11, <1>12, <1>13, <1>14, <1>15, <1>16 DEF RemovalInv

\* A directory that is entered is no link.
LEMMA EnteredPlain ==
  ASSUME RemovalInv, NEW n \in Name, Reports(n), "dir" \in EntryTypes(n)
  PROVE  ~IsLink(tree, Append(Reached, n))
<1>1. frames # <<>> /\ Deepest.open
  BY DEF Reports
<1>2. PICK m : m = Len(frames)
  OBVIOUS
<1>3. m \in 1 .. Len(frames) /\ Deepest = frames[m] /\ Reached = Level(m)
  BY <1>1, <1>2, LevelFacts
<1>4. ListedPlain /\ StreamsAtLevels
  BY <1>1 DEF RemovalInv
<1>5. Deepest.dir = Reached
  BY ONLY <1>1, <1>3, <1>4 DEF StreamsAtLevels
<1>6. KindOf(Append(Reached, n)) = "dir" \/ (n \in DOMAIN Deepest.listed /\ Deepest.listed[n] = "dir")
  BY ONLY "dir" \in EntryTypes(n), <1>5 DEF EntryTypes
<1>7. CASE n \in DOMAIN Deepest.listed /\ Deepest.listed[n] = "dir"
  BY ONLY <1>3, <1>4, <1>7, n \in Name DEF ListedPlain, EntryOf
<1>8. CASE KindOf(Append(Reached, n)) = "dir"
  BY ONLY <1>8, NoEmptyPath DEF KindOf, IsLink
<1> QED
  BY <1>6, <1>7, <1>8

\* A call is added for the path in the buffer.
LEMMA CallAdded ==
  ASSUME NEW s \in Seq(Frame), NEW p \in Seq(Name)
  PROVE  /\ Append(s, Entered(p)) \in Seq(Frame) /\ Len(Append(s, Entered(p))) = Len(s) + 1
         /\ \A i \in 1 .. Len(s) : Append(s, Entered(p))[i] = s[i]
         /\ Append(s, Entered(p))[Len(s) + 1] = Entered(p)
         /\ Entered(p).len = Len(p) /\ ~Entered(p).open /\ Entered(p).seen = {}
         /\ DOMAIN Entered(p).listed = {}
<1>1. PICK e : e = Entered(p)
  OBVIOUS
<1>2. e \in Frame /\ e.len = Len(p) /\ e.open = FALSE /\ e.seen = {} /\ DOMAIN e.listed = {}
  <2>1. <<>> \in [{} -> Kind]
    OBVIOUS
  <2>2. <<>> \in Listing
    BY <2>1 DEF Listing
  <2>3. Len(p) \in Nat /\ <<>> \in Seq(Name)
    OBVIOUS
  <2> QED
    BY <1>1, <2>2, <2>3 DEF Entered, Frame
<1>3. /\ Append(s, e) \in Seq(Frame) /\ Len(Append(s, e)) = Len(s) + 1
      /\ Append(s, e)[Len(s) + 1] = e /\ \A i \in 1 .. Len(s) : Append(s, e)[i] = s[i]
  BY ONLY <1>2, s \in Seq(Frame), Appended
<1> QED
  BY ONLY <1>1, <1>2, <1>3

LEMMA EntersKeepsRemoval ==
  ASSUME RemovalInv, NEW n \in Name, EntersDir(n)
  PROVE  RemovalInv'
<1>1. /\ frames # <<>> /\ Deepest.open /\ path' = Append(Reached, n)
      /\ removal' = removal /\ tree' = tree
  BY DEF EntersDir, Reports
<1>2. RemovalTypes /\ removal = "running" /\ Nested /\ Buffered /\ LevelsPlain /\ ListedPlain
  BY <1>1 DEF RemovalInv
<1>3. tree' \in [Path -> Kind] /\ NoNewLinks(tree, tree')
  BY ONLY <1>1, <1>2, SameTree DEF RemovalTypes
<1>4. PICK m : m = Len(frames)
  OBVIOUS
<1>5. m \in 1 .. m /\ m \in Nat /\ Deepest = frames[m]
  BY <1>1, <1>4, LevelFacts
<1>6. PICK s : s = Seen(n)
  OBVIOUS
<1>7. /\ s \in Seq(Frame) /\ Len(s) = m /\ \A i \in 1 .. m : SameFrame(s[i], i)
      /\ \A i \in 1 .. m : s[i].seen = IF i = m THEN frames[i].seen \cup {n} ELSE frames[i].seen
  BY ONLY <1>1, <1>2, <1>4, <1>6, n \in Name, SeenFrames
<1>8. /\ PathKept /\ PrefixesKept /\ Len(path') = Deepest.len + 1
      /\ Deepest.len \in Nat \ {0} /\ Len(Root) \in 0 .. Deepest.len
      /\ Prefix(path', Len(Root)) = Root
  BY ONLY RemovalInv, <1>1, n \in Name, NameAppended
<1>9. PICK p : p = path'
  OBVIOUS
<1>10. p \in Seq(Name) /\ Len(p) = Deepest.len + 1
  BY ONLY <1>8, <1>9 DEF PathKept
<1>11. PICK e : e = Entered(p)
  OBVIOUS
<1>12. PICK u : u = Append(s, e)
  OBVIOUS
<1>13. frames' = u
  BY ONLY EntersDir(n), <1>6, <1>9, <1>11, <1>12 DEF EntersDir
<1>14. /\ u \in Seq(Frame) /\ Len(u) = m + 1 /\ \A i \in 1 .. m : u[i] = s[i]
       /\ u[m + 1] = e /\ e.len = Len(p) /\ ~e.open /\ e.seen = {} /\ DOMAIN e.listed = {}
  BY ONLY <1>7, <1>10, <1>11, <1>12, CallAdded
<1>15. Deepest' = e
  BY ONLY <1>13, <1>14 DEF Deepest
<1>16. RemovalTypes'
  BY ONLY <1>3, <1>9, <1>10, <1>13, <1>14 DEF RemovalTypes
<1>17. \A i \in 1 .. m + 1 : i \in 1 .. m \/ i = m + 1
  BY <1>5
<1>18. Nested'
  <2>1. \A i \in 1 .. m : /\ frames[i].len = Len(Root) + i - 1 /\ (i < m => frames[i].open)
                          /\ ~frames[i].open => frames[i].seen = {}
    BY ONLY <1>2, <1>4 DEF Nested
  <2>2. ASSUME NEW i \in 1 .. m
        PROVE  u[i].len = Len(Root) + i - 1 /\ u[i].open
    <3>1. u[i].len = frames[i].len /\ u[i].open = frames[i].open
      BY ONLY <1>7, <1>14, i \in 1 .. m DEF SameFrame
    <3>2. i = m \/ i < m
      BY ONLY <1>5, i \in 1 .. m
    <3>3. frames[i].open
      BY ONLY <1>1, <1>5, <2>1, <3>2, i \in 1 .. m
    <3> QED
      BY ONLY <2>1, <3>1, <3>3, i \in 1 .. m
  <2>3. Deepest.len = Len(Root) + m - 1 /\ Len(Root) \in Nat
    BY ONLY <1>5, <2>1, RootIsPath
  <2>4. u[m + 1].len = Len(Root) + (m + 1) - 1
    BY ONLY <1>5, <1>10, <1>14, <2>3
  <2>5. ASSUME NEW i \in 1 .. m + 1
        PROVE  /\ u[i].len = Len(Root) + i - 1
               /\ i < m + 1 => u[i].open
               /\ ~u[i].open => u[i].seen = {}
    <3>1. CASE i \in 1 .. m
      BY ONLY <2>2, <3>1
    <3>2. CASE i = m + 1
      BY ONLY <1>5, <1>14, <2>4, <3>2
    <3> QED
      BY ONLY <1>17, <3>1, <3>2, i \in 1 .. m + 1
  <2> QED
    BY ONLY <1>13, <1>14, <2>5 DEF Nested
<1>19. Buffered'
  <2>1. Len(Root) <= Len(path')
    BY ONLY <1>8
  <2>2. Deepest'.len = Len(path') /\ Len(path') \in Nat
    BY ONLY <1>8, <1>9, <1>14, <1>15
  <2> QED
    BY ONLY <1>8, <2>1, <2>2 DEF Buffered
<1>20. LevelsPlain'
  <2>1. ASSUME NEW k \in 1 .. Deepest.len + 1
        PROVE  ~IsLink(tree, Prefix(path', k))
    <3>1. CASE k = Deepest.len + 1
      <4>1. Prefix(p, Len(p)) = p
        BY ONLY <1>10, PrefixWhole
      <4>2. ~IsLink(tree, Append(Reached, n))
        BY ONLY RemovalInv, n \in Name, EntersDir(n), EnteredPlain DEF EntersDir
      <4> QED
        BY ONLY <1>1, <1>9, <1>10, <3>1, <4>1, <4>2
    <3>2. CASE k # Deepest.len + 1
      <4>1. k \in 1 .. Deepest.len /\ k \in 0 .. Deepest.len
        BY ONLY <1>8, <3>2, k \in 1 .. Deepest.len + 1
      <4> QED
        BY ONLY <1>2, <1>8, <4>1 DEF LevelsPlain, PrefixesKept
    <3> QED
      BY <3>1, <3>2
  <2>2. Deepest'.len = Deepest.len + 1
    BY ONLY <1>10, <1>14, <1>15
  <2> QED
    BY ONLY <1>1, <2>1, <2>2 DEF LevelsPlain
<1>21. ListedPlain'
  <2>1. ASSUME NEW i \in 1 .. m + 1, NEW x \in Name, x \in DOMAIN u[i].listed, u[i].listed[x] = "dir"
        PROVE  ~IsLink(tree', Append(Prefix(path', u[i].len), x))
    <3>1. PICK g : g = u[i]
      OBVIOUS
    <3>2. i \in 1 .. m
      BY ONLY <1>14, <1>17, <2>1
    <3>3. SameFrame(g, i) /\ i \in 1 .. Len(frames) /\ x \in DOMAIN g.listed /\ g.listed[x] = "dir"
      BY ONLY <1>4, <1>7, <1>14, <2>1, <3>1, <3>2
    <3>4. ~IsLink(tree', Append(Prefix(path', g.len), x))
      BY ONLY RemovalInv, <1>1, <1>3, <1>8, <3>3, x \in Name, ListedStays
    <3> QED
      BY ONLY <3>1, <3>4
  <2> QED
    BY ONLY <1>13, <1>14, <2>1 DEF ListedPlain, EntryOf, Level
<1>22. StreamsAtLevels'
  <2>1. ASSUME NEW i \in 1 .. m + 1, u[i].open
        PROVE  u[i].dir = Prefix(path', u[i].len)
    <3>1. PICK g : g = u[i]
      OBVIOUS
    <3>2. i \in 1 .. m
      BY ONLY <1>14, <1>17, <2>1
    <3>3. SameFrame(g, i) /\ i \in 1 .. Len(frames) /\ g.open
      BY ONLY <1>4, <1>7, <1>14, <2>1, <3>1, <3>2
    <3>4. g.dir = Prefix(path', g.len)
      BY ONLY RemovalInv, <1>1, <1>8, <3>3, StreamStays
    <3> QED
      BY ONLY <3>1, <3>4
  <2> QED
    BY ONLY <1>13, <1>14, <2>1 DEF StreamsAtLevels, Level
<1> QED
  BY ONLY <1>1, <1>2, <1>16, <1>18, <1>19, <1>20, <1>21, <1>22 DEF RemovalInv

\* rmdir of the innermost level.
ReportedAll ==
  /\ frames # <<>> /\ Deepest.open
  /\ \A n \in DOMAIN Deepest.listed : n \in Deepest.seen \/ Disturbed(n)
RemovesLevel ==
  /\ ReportedAll
  /\ KindOf(Reached) = "dir" /\ Children(Reached) = {}
  /\ tree' = SetKind(tree, Reached, "none") /\ making' = Lost(making) /\ path' = Reached
  /\ frames' = Prefix(frames, Len(frames) - 1)
  /\ removal' = IF Len(frames) = 1 THEN "0" ELSE removal
  /\ UNCHANGED <<alone, disturbed, swapped>>
RmdirFails ==
  /\ ReportedAll
  /\ (KindOf(Reached) # "dir" \/ Children(Reached) # {})
  /\ Fail

LEMMA RmdirCases ==
  ASSUME RemovalInv, Rmdir
  PROVE  RemovesLevel \/ RmdirFails
<1>1. ReportedAll /\ frames # <<>>
  BY DEF Rmdir, ReportedAll
<1>2. Resolved(Cut) = Reached /\ Cut = Reached
  BY <1>1, LevelLeads DEF Cut
<1>3. CASE /\ KindOf(Reached) = "dir" /\ Children(Reached) = {}
           /\ Delete(Reached) /\ path' = Reached
           /\ frames' = SubSeq(frames, 1, Len(frames) - 1)
           /\ removal' = IF Len(frames) = 1 THEN "0" ELSE removal
           /\ UNCHANGED <<alone, disturbed, swapped, touches>>
  BY ONLY <1>1, <1>3 DEF RemovesLevel, Delete, SetKind, Prefix
<1>4. CASE (KindOf(Reached) # "dir" \/ Children(Reached) # {}) /\ Fail
  BY ONLY <1>1, <1>4 DEF RmdirFails
<1> QED
  BY ONLY Rmdir, <1>2, <1>3, <1>4 DEF Rmdir

\* Cutting the path keeps every level.
LEMMA CutKeeps ==
  ASSUME RemovalInv, frames # <<>>, path' = Reached
  PROVE  /\ PathKept /\ PrefixesKept /\ Len(path') = Deepest.len
         /\ Deepest.len \in Nat \ {0} /\ Len(Root) \in 0 .. Deepest.len
         /\ Prefix(path', Len(Root)) = Root
<1>1. PICK q, d : q = path' /\ d = Deepest.len
  OBVIOUS
<1>2. q \in Seq(Name) /\ Len(q) = d /\ d \in 1 .. Len(path) /\ path \in Seq(Name) /\ Len(Root) <= d
  BY ONLY <1>1, path' = Reached, LevelFacts, RemovalInv, frames # <<>>
<1>3. Prefix(q, d) = q /\ d \in Nat \ {0}
  BY ONLY <1>2, PrefixWhole
<1>4. PathKept
  BY ONLY <1>1, <1>2, <1>3, path' = Reached DEF PathKept
<1>5. PrefixesKept
  BY ONLY RemovalInv, frames # <<>>, <1>4, KeptPrefixes
<1>6. Len(Root) \in 0 .. d
  BY ONLY <1>2, <1>3, RootIsPath
<1>7. Prefix(path', Len(Root)) = Root
  <2>1. Prefix(path, Len(Root)) = Root
    BY DEF RemovalInv, Buffered
  <2>2. Prefix(path', Len(Root)) = Prefix(path, Len(Root))
    BY ONLY <1>1, <1>5, <1>6 DEF PrefixesKept
  <2> QED
    BY ONLY <2>1, <2>2
<1> QED
  BY ONLY <1>1, <1>2, <1>3, <1>4, <1>5, <1>6, <1>7

LEMMA LevelKeepsRemoval ==
  ASSUME RemovalInv, RemovesLevel
  PROVE  RemovalInv'
<1>1. frames # <<>> /\ Deepest.open /\ path' = Reached
  BY DEF RemovesLevel, ReportedAll
<1>2. RemovalTypes /\ removal = "running" /\ Nested /\ Buffered /\ LevelsPlain /\ ListedPlain
  BY <1>1 DEF RemovalInv
<1>3. tree' \in [Path -> Kind] /\ NoNewLinks(tree, tree')
  <2>1. PICK q, k : q = Reached /\ k = "none"
    OBVIOUS
  <2>2. tree \in [Path -> Kind] /\ k \in Kind /\ k # "link"
    BY <1>2, <2>1 DEF RemovalTypes, Kind
  <2>3. tree' = SetKind(tree, q, k)
    BY <2>1 DEF RemovesLevel
  <2> QED
    BY ONLY <2>2, <2>3, KindSet
<1>4. PICK m : m = Len(frames)
  OBVIOUS
<1>5. m \in 1 .. m /\ m \in Nat \ {0} /\ Deepest = frames[m]
  BY <1>1, <1>4, LevelFacts
<1>6. PICK u : u = frames'
  OBVIOUS
<1>7. u \in Seq(Frame) /\ Len(u) = m - 1 /\ \A i \in 1 .. m - 1 : u[i] = frames[i]
  <2>1. u = Prefix(frames, m - 1)
    BY ONLY RemovesLevel, <1>4, <1>6 DEF RemovesLevel
  <2>2. m - 1 \in 0 .. Len(frames) /\ frames \in Seq(Frame)
    BY <1>2, <1>4, <1>5 DEF RemovalTypes
  <2> QED
    BY ONLY <2>1, <2>2, PrefixType
<1>8. /\ PathKept /\ PrefixesKept /\ Len(path') = Deepest.len
      /\ Deepest.len \in Nat \ {0} /\ Len(Root) \in 0 .. Deepest.len
      /\ Prefix(path', Len(Root)) = Root
  BY ONLY RemovalInv, <1>1, CutKeeps
<1>9. RemovalTypes'
  BY ONLY <1>3, <1>6, <1>7, <1>8 DEF RemovalTypes, PathKept
<1>10. ASSUME u # <<>>
       PROVE  removal' = "running" /\ Nested' /\ Buffered' /\ LevelsPlain' /\ ListedPlain' /\ StreamsAtLevels'
  <2>1. m - 1 \in 1 .. m - 1 /\ m # 1 /\ m - 1 < m /\ \A i \in 1 .. m - 1 : i \in 1 .. m /\ i < m
    <3>1. Len(u) # 0
      BY ONLY <1>7, <1>10
    <3> QED
      BY ONLY <1>5, <1>7, <3>1
  <2>2. removal' = "running"
    BY ONLY RemovesLevel, <1>2, <1>4, <2>1 DEF RemovesLevel
  <2>3. PICK f : f = frames[m - 1]
    OBVIOUS
  <2>4. Deepest' = f
    BY ONLY <1>6, <1>7, <2>1, <2>3 DEF Deepest
  <2>5. \A i \in 1 .. m : /\ frames[i].len = Len(Root) + i - 1 /\ (i < m => frames[i].open)
                          /\ ~frames[i].open => frames[i].seen = {}
    BY ONLY <1>2, <1>4 DEF Nested
  <2>6. Nested'
    <3>1. ASSUME NEW i \in 1 .. m - 1
          PROVE  /\ u[i].len = Len(Root) + i - 1
                 /\ i < m - 1 => u[i].open
                 /\ ~u[i].open => u[i].seen = {}
      BY ONLY <1>7, <2>1, <2>5, i \in 1 .. m - 1
    <3> QED
      BY ONLY <1>6, <1>7, <3>1 DEF Nested
  <2>7. f.open /\ f.len < Deepest.len /\ f.len \in Nat
    BY ONLY <1>5, <2>1, <2>3, <2>5, RootIsPath
  <2>8. Buffered'
    <3>1. Len(Root) <= Len(path') /\ f.len <= Len(path')
      BY ONLY <1>8, <2>7
    <3> QED
      BY ONLY <1>8, <2>4, <2>7, <3>1 DEF Buffered
  <2>9. LevelsPlain'
    <3>1. \A k \in 1 .. f.len : k \in 0 .. Deepest.len /\ k \in 1 .. Deepest.len
      BY ONLY <1>8, <2>7
    <3> QED
      BY ONLY <1>2, <1>3, <1>8, <2>4, <3>1 DEF LevelsPlain, PrefixesKept, NoNewLinks
  <2>10. ListedPlain'
    <3>1. ASSUME NEW i \in 1 .. m - 1, NEW x \in Name, x \in DOMAIN u[i].listed, u[i].listed[x] = "dir"
          PROVE  ~IsLink(tree', Append(Prefix(path', u[i].len), x))
      <4>1. PICK g : g = u[i]
        OBVIOUS
      <4>2. SameFrame(g, i) /\ i \in 1 .. Len(frames) /\ x \in DOMAIN g.listed /\ g.listed[x] = "dir"
        BY ONLY <1>4, <1>7, <2>1, <3>1, <4>1 DEF SameFrame
      <4>3. ~IsLink(tree', Append(Prefix(path', g.len), x))
        BY ONLY RemovalInv, <1>1, <1>3, <1>8, <4>2, x \in Name, ListedStays
      <4> QED
        BY ONLY <4>1, <4>3
    <3> QED
      BY ONLY <1>6, <1>7, <3>1 DEF ListedPlain, EntryOf, Level
  <2>11. StreamsAtLevels'
    <3>1. ASSUME NEW i \in 1 .. m - 1, u[i].open
          PROVE  u[i].dir = Prefix(path', u[i].len)
      <4>1. PICK g : g = u[i]
        OBVIOUS
      <4>2. SameFrame(g, i) /\ i \in 1 .. Len(frames) /\ g.open
        BY ONLY <1>4, <1>7, <2>1, <3>1, <4>1 DEF SameFrame
      <4>3. g.dir = Prefix(path', g.len)
        BY ONLY RemovalInv, <1>1, <1>8, <4>2, StreamStays
      <4> QED
        BY ONLY <4>1, <4>3
    <3> QED
      BY ONLY <1>6, <1>7, <3>1 DEF StreamsAtLevels, Level
  <2> QED
    BY ONLY <2>2, <2>6, <2>8, <2>9, <2>10, <2>11
<1> QED
  BY ONLY <1>6, <1>9, <1>10 DEF RemovalInv

LEMMA RemoverKeepsRemoval ==
  ASSUME RemovalInv, RootReachable, Remover
  PROVE  RemovalInv' /\ tree' \in [Path -> Kind] /\ NoNewLinks(tree, tree')
<1>1. tree \in [Path -> Kind]
  BY DEF RemovalInv, RemovalTypes
<1>2. \A q : SetKind(tree, q, "none") \in [Path -> Kind] /\ NoNewLinks(tree, SetKind(tree, q, "none"))
  <2>1. ASSUME NEW q, NEW k, k = "none"
        PROVE  SetKind(tree, q, k) \in [Path -> Kind] /\ NoNewLinks(tree, SetKind(tree, q, k))
    <3>1. k \in Kind /\ k # "link"
      BY <2>1 DEF Kind
    <3> QED
      BY ONLY <1>1, <3>1, KindSet
  <2> QED
    BY <2>1
<1>3. NoNewLinks(tree, tree)
  BY SameTree
<1>4. CASE BeginRemoval
  <2>1. tree' = tree
    BY <1>4 DEF BeginRemoval
  <2> QED
    BY ONLY RemovalInv, RootReachable, <1>1, <1>3, <1>4, <2>1, BeginKeepsRemoval
<1>5. CASE Unwind
  <2>1. tree' = tree
    BY <1>5 DEF Unwind
  <2> QED
    BY ONLY RemovalInv, <1>1, <1>3, <1>5, <2>1, UnwindKeepsRemoval
<1>6. CASE Opens
  <2>1. tree' = tree
    BY <1>6 DEF Opens
  <2> QED
    BY ONLY RemovalInv, <1>1, <1>3, <1>6, <2>1, OpensKeepsRemoval
<1>7. ASSUME NEW n \in Name, EntersDir(n)
      PROVE  RemovalInv' /\ tree' \in [Path -> Kind] /\ NoNewLinks(tree, tree')
  <2>1. tree' = tree
    BY <1>7 DEF EntersDir
  <2> QED
    BY ONLY RemovalInv, <1>1, <1>3, <1>7, <2>1, EntersKeepsRemoval
<1>8. ASSUME NEW n \in Name, Unlinks(n)
      PROVE  RemovalInv' /\ tree' \in [Path -> Kind] /\ NoNewLinks(tree, tree')
  <2>1. tree' = SetKind(tree, Append(Reached, n), "none")
    BY <1>8 DEF Unlinks
  <2> QED
    BY ONLY RemovalInv, <1>2, <1>8, <2>1, UnlinksKeepsRemoval
<1>9. CASE RemovesLevel
  <2>1. tree' = SetKind(tree, Reached, "none")
    BY <1>9 DEF RemovesLevel
  <2> QED
    BY ONLY RemovalInv, <1>2, <1>9, <2>1, LevelKeepsRemoval
<1>10. Fail => Unwind
  BY DEF Fail
<1>11. CASE Opendir
  BY ONLY RemovalInv, <1>5, <1>6, <1>10, <1>11, OpendirCases
<1>12. ASSUME NEW n \in Name, Report(n)
       PROVE  RemovalInv' /\ tree' \in [Path -> Kind] /\ NoNewLinks(tree, tree')
  <2>1. ReportFails(n) => Unwind
    BY <1>10 DEF ReportFails
  <2> QED
    BY ONLY RemovalInv, n \in Name, <1>5, <1>7, <1>8, <1>12, <2>1, ReportCases
<1>13. CASE ReadError
  BY <1>5, <1>13 DEF ReadError
<1>14. CASE Rmdir
  <2>1. RmdirFails => Unwind
    BY <1>10 DEF RmdirFails
  <2> QED
    BY ONLY RemovalInv, <1>5, <1>9, <1>14, <2>1, RmdirCases
<1> QED
  BY ONLY Remover, <1>4, <1>11, <1>12, <1>13, <1>14 DEF Remover

-----------------------------------------------------------------------------
(* Directory trees: nobody interferes. *)

\* What a call knows of an entry: gone once reported, else as it was listed.
EntryKnown(t, g, e, n) ==
  IF n \in g.seen THEN KindIn(t, e) = "none"
  ELSE KindIn(t, e) = IF n \in DOMAIN g.listed THEN g.listed[n] ELSE "none"
\* The entry that the next call was made for.
Inside(i, n) ==
  n \in frames[i].seen /\ i < Len(frames) /\ EntryOf(i, n) = Level(i + 1)
LevelsThere ==
  \A i \in 1 .. Len(frames) : i > 1 \/ frames[i].open => KindIn(tree, Level(i)) = "dir"
Explored ==
  \A i \in 1 .. Len(frames) : \A n \in Name :
    frames[i].open => EntryKnown(tree, frames[i], EntryOf(i, n), n) \/ Inside(i, n)
EnteredFrom == \A i \in 1 .. Len(frames) : i < Len(frames) => \E n \in Name : Inside(i, n)
AloneInv ==
  alone /\ frames # <<>> => disturbed = {} /\ LevelsThere /\ Explored /\ EnteredFrom

LEMMA KindIsKindIn ==
  ASSUME NEW p
  PROVE  KindOf(p) = KindIn(tree, p)
BY DEF KindOf, KindIn

LEMMA KindGone ==
  ASSUME NEW t \in [Path -> Kind], NEW q, q # <<>>, NEW e
  PROVE  KindIn(SetKind(t, q, "none"), e) = IF e = q THEN "none" ELSE KindIn(t, e)
BY DEF KindIn, SetKind

LEMMA EntriesDiffer ==
  ASSUME NEW s \in Seq(Name), NEW x \in Name, NEW y \in Name, Append(s, x) = Append(s, y)
  PROVE  x = y
<1>1. Append(s, x)[Len(s) + 1] = x /\ Append(s, y)[Len(s) + 1] = y
  BY Appended
<1> QED
  BY <1>1

LEMMA LevelLengths ==
  ASSUME RemovalInv, frames # <<>>, NEW i \in 1 .. Len(frames)
  PROVE  /\ Level(i) \in Seq(Name) /\ Len(Level(i)) = Len(Root) + i - 1 /\ Level(i) # <<>>
         /\ \A n \in Name : /\ EntryOf(i, n) \in Seq(Name) /\ EntryOf(i, n) # <<>>
                            /\ Len(EntryOf(i, n)) = Len(Root) + i
<1>1. frames[i].len \in 1 .. Deepest.len /\ path \in Seq(Name) /\ Deepest.len \in 1 .. Len(path)
      /\ i \in Nat \ {0}
  BY LevelFacts
<1>2. frames[i].len = Len(Root) + i - 1 /\ Len(Root) \in Nat
  BY RootIsPath DEF RemovalInv, Nested
<1>3. PICK d : d = frames[i].len
  OBVIOUS
<1>4. d \in 0 .. Len(path) /\ d \in Nat \ {0} /\ d + 1 = Len(Root) + i
  BY ONLY <1>1, <1>2, <1>3
<1>5. PICK l : l = Level(i)
  OBVIOUS
<1>6. l \in Seq(Name) /\ Len(l) = d
  BY ONLY <1>1, <1>3, <1>4, <1>5, PrefixType DEF Level
<1>7. l # <<>>
  BY ONLY <1>4, <1>6
<1>8. ASSUME NEW n \in Name
      PROVE  EntryOf(i, n) \in Seq(Name) /\ Len(EntryOf(i, n)) = d + 1 /\ EntryOf(i, n) # <<>>
  <2>1. EntryOf(i, n) = Append(l, n)
    BY ONLY <1>5 DEF EntryOf
  <2>2. Append(l, n) \in Seq(Name) /\ Len(Append(l, n)) = Len(l) + 1 /\ Append(l, n) # <<>>
    BY ONLY <1>6, n \in Name, Appended, AppendParent
  <2> QED
    BY ONLY <1>6, <2>1, <2>2
<1> QED
  BY ONLY <1>2, <1>3, <1>4, <1>5, <1>6, <1>7, <1>8

LEMMA EntriesStay ==
  ASSUME RemovalInv, frames # <<>>, PrefixesKept,
         NEW i \in 1 .. Len(frames), NEW d, d = frames[i].len
  PROVE  Prefix(path', d) = Level(i) /\ \A n : Append(Prefix(path', d), n) = EntryOf(i, n)
<1>1. frames[i].len \in 0 .. Deepest.len
  <2>1. frames[i].len \in 1 .. Deepest.len
    BY ONLY RemovalInv, frames # <<>>, i \in 1 .. Len(frames), LevelFacts
  <2> QED
    BY ONLY <2>1
<1>2. Prefix(path', d) = Level(i)
  BY ONLY <1>1, d = frames[i].len, PrefixesKept DEF PrefixesKept, Level
<1> QED
  BY ONLY <1>2 DEF EntryOf

LEMMA BeginKeepsAlone ==
  ASSUME BeginRemoval
  PROVE  AloneInv'
<1>1. frames' = <<Entered(Root)>> /\ disturbed' = {}
  BY DEF BeginRemoval
<1>2. Len(frames') = 1 /\ \A i \in 1 .. Len(frames') : i = 1 /\ ~frames'[i].open
  BY <1>1 DEF Entered
<1>3. LevelsThere' /\ Explored' /\ EnteredFrom'
  BY ONLY <1>2 DEF LevelsThere, Explored, EnteredFrom
<1> QED
  BY ONLY <1>1, <1>3 DEF AloneInv

LEMMA UnwindKeepsAlone ==
  ASSUME Unwind
  PROVE  AloneInv'
BY DEF Unwind, AloneInv

LEMMA OpensKeepsAlone ==
  ASSUME RemovalInv, AloneInv, Opens
  PROVE  AloneInv'
<1> SUFFICES ASSUME alone'
             PROVE  disturbed' = {} /\ LevelsThere' /\ Explored' /\ EnteredFrom'
  BY DEF AloneInv
<1>1. PICK m : m = Len(frames)
  OBVIOUS
<1>2. frames # <<>> /\ RemovalTypes /\ Nested /\ UNCHANGED <<tree, path, disturbed>> /\ alone
      /\ ~Deepest.open /\ KindOf(Reached) = "dir" /\ Reached \in Seq(Name)
  BY LevelFacts DEF RemovalInv, Opens
<1>3. disturbed = {} /\ LevelsThere /\ Explored /\ EnteredFrom
  BY <1>2 DEF AloneInv
<1>4. PICK l : l = ChildrenKinds(Reached)
  OBVIOUS
<1>5. /\ l \in Listing
      /\ \A n \in Name : n \in DOMAIN l <=> KindOf(Append(Reached, n)) # "none"
      /\ \A n \in DOMAIN l : l[n] = KindOf(Append(Reached, n))
  <2>1. tree \in [Path -> Kind]
    BY <1>2 DEF RemovalTypes
  <2> QED
    BY ONLY <1>4, <2>1, ListingOf
<1>6. PICK s : s = frames'
  OBVIOUS
<1>7. /\ Len(s) = m
      /\ \A i \in 1 .. m : i # m => s[i] = frames[i]
      /\ \A i \in 1 .. m : i = m =>
           /\ s[i].len = frames[i].len /\ s[i].seen = frames[i].seen
           /\ s[i].open = TRUE /\ s[i].listed = l
  <2>1. PICK d : d = Reached
    OBVIOUS
  <2>2. s = OpenedAt(d, l)
    BY <1>4, <1>6, <2>1 DEF Opens
  <2>3. LastOpened(s, d, l)
    BY ONLY <1>2, <1>5, <2>1, <2>2, OpenedFrames
  <2> QED
    BY ONLY <1>1, <2>3 DEF LastOpened
<1>8. m \in 1 .. m /\ Deepest = frames[m] /\ m \in Nat /\ Reached = Level(m)
  BY <1>1, <1>2, LevelFacts
<1>9. \A i \in 1 .. m : s[i].len = frames[i].len /\ s[i].seen = frames[i].seen
  BY ONLY <1>7
<1>10. \A i \in 1 .. m : Level(i)' = Level(i) /\ \A n : EntryOf(i, n)' = EntryOf(i, n)
  BY ONLY <1>2, <1>6, <1>9 DEF Level, EntryOf
<1>11. \A i \in 1 .. m : \A n : Inside(i, n)' <=> Inside(i, n)
  <2>1. \A i \in 1 .. m : i < m => i + 1 \in 1 .. m
    BY ONLY <1>8
  <2>2. ASSUME NEW i \in 1 .. m, NEW n
        PROVE  Inside(i, n)' <=> Inside(i, n)
    <3>1. i < m => Level(i + 1)' = Level(i + 1)
      BY ONLY <1>10, <2>1, i \in 1 .. m
    <3>2. EntryOf(i, n)' = EntryOf(i, n) /\ s[i].seen = frames[i].seen
      BY ONLY <1>9, <1>10, i \in 1 .. m
    <3> QED
      BY ONLY <1>1, <1>6, <1>7, <3>1, <3>2 DEF Inside
  <2> QED
    BY <2>2
<1>12. LevelsThere'
  <2>1. ASSUME NEW i \in 1 .. m, i > 1 \/ s[i].open
        PROVE  KindIn(tree', Level(i)') = "dir"
    <3>1. CASE i = m
      BY ONLY <1>2, <1>8, <1>10, <3>1, KindIsKindIn
    <3>2. CASE i # m
      <4>1. s[i] = frames[i]
        BY ONLY <1>7, <3>2, i \in 1 .. m
      <4> QED
        BY ONLY <1>1, <1>2, <1>3, <1>10, <2>1, <4>1 DEF LevelsThere
    <3> QED
      BY <3>1, <3>2
  <2> QED
    BY ONLY <1>6, <1>7, <2>1 DEF LevelsThere
<1>13. Explored'
  <2>1. ASSUME NEW i \in 1 .. m, NEW n \in Name, s[i].open
        PROVE  EntryKnown(tree, s[i], EntryOf(i, n), n) \/ Inside(i, n)
    <3>1. CASE i = m
      <4>1. s[i].seen = {}
        BY ONLY <1>1, <1>2, <1>8, <1>9, <3>1 DEF Nested
      <4>2. KindIn(tree, EntryOf(i, n)) = IF n \in DOMAIN l THEN l[n] ELSE "none"
        <5>1. KindIn(tree, EntryOf(i, n)) = KindOf(Append(Reached, n))
          BY ONLY <1>8, <3>1, KindIsKindIn DEF EntryOf
        <5> QED
          BY ONLY <1>5, <5>1, n \in Name
      <4>3. s[i].listed = l
        BY ONLY <1>7, <3>1, i \in 1 .. m
      <4> QED
        BY ONLY <4>1, <4>2, <4>3 DEF EntryKnown
    <3>2. CASE i # m
      <4>1. s[i] = frames[i]
        BY ONLY <1>7, <3>2, i \in 1 .. m
      <4> QED
        BY ONLY <1>1, <1>3, <2>1, <4>1 DEF Explored
    <3> QED
      BY <3>1, <3>2
  <2> QED
    BY ONLY <1>2, <1>6, <1>7, <1>10, <1>11, <2>1 DEF Explored
<1>14. EnteredFrom'
  BY ONLY <1>1, <1>3, <1>6, <1>7, <1>11 DEF EnteredFrom
<1> QED
  BY ONLY <1>2, <1>3, <1>12, <1>13, <1>14

LEMMA UnlinksKeepsAlone ==
  ASSUME RemovalInv, AloneInv, NEW n \in Name, Unlinks(n)
  PROVE  AloneInv'
<1> SUFFICES ASSUME alone'
             PROVE  disturbed' = {} /\ LevelsThere' /\ Explored' /\ EnteredFrom'
  BY DEF AloneInv
<1>1. /\ frames # <<>> /\ Deepest.open /\ path' = Append(Reached, n) /\ alone /\ RemovalTypes
      /\ disturbed' = disturbed
  BY DEF Unlinks, Reports, RemovalInv
<1>2. disturbed = {} /\ LevelsThere /\ Explored /\ EnteredFrom
  BY <1>1 DEF AloneInv
<1>3. PICK m : m = Len(frames)
  OBVIOUS
<1>4. m \in 1 .. m /\ m \in Nat /\ Reached = Level(m)
  BY <1>1, <1>3, LevelFacts
<1>5. PICK q : q = EntryOf(m, n)
  OBVIOUS
<1>6. /\ \A i \in 1 .. m : Level(i) \in Seq(Name) /\ Len(Level(i)) = Len(Root) + i - 1
      /\ \A i \in 1 .. m : \A x \in Name : Len(EntryOf(i, x)) = Len(Root) + i
      /\ q # <<>> /\ Len(Root) \in Nat
  BY ONLY RemovalInv, <1>1, <1>3, <1>4, <1>5, n \in Name, LevelLengths, RootIsPath
<1>7. \A e : KindIn(tree', e) = IF e = q THEN "none" ELSE KindIn(tree, e)
  <2>1. tree' = SetKind(tree, q, "none")
    BY ONLY Unlinks(n), <1>4, <1>5 DEF Unlinks, EntryOf
  <2>2. tree \in [Path -> Kind]
    BY <1>1 DEF RemovalTypes
  <2> QED
    BY ONLY <1>6, <2>1, <2>2, KindGone
<1>8. PICK s : s = frames'
  OBVIOUS
<1>9. /\ Len(s) = m /\ \A i \in 1 .. m : SameFrame(s[i], i)
      /\ \A i \in 1 .. m : s[i].seen = IF i = m THEN frames[i].seen \cup {n} ELSE frames[i].seen
  <2>1. s = Seen(n)
    BY <1>8 DEF Unlinks
  <2> QED
    BY ONLY <1>1, <1>3, <2>1, n \in Name, SeenFrames
<1>10. PrefixesKept
  BY ONLY RemovalInv, <1>1, n \in Name, NameAppended
<1>11. \A i \in 1 .. m : Level(i)' = Level(i) /\ \A x : EntryOf(i, x)' = EntryOf(i, x)
  <2>1. ASSUME NEW i \in 1 .. m
        PROVE  Level(i)' = Level(i) /\ \A x : EntryOf(i, x)' = EntryOf(i, x)
    <3>1. PICK d : d = s[i].len /\ d = frames[i].len
      BY ONLY <1>9, i \in 1 .. m DEF SameFrame
    <3>2. Prefix(path', d) = Level(i) /\ \A x : Append(Prefix(path', d), x) = EntryOf(i, x)
      BY ONLY RemovalInv, <1>1, <1>3, <1>10, <3>1, i \in 1 .. m, EntriesStay
    <3> QED
      BY ONLY <1>8, <3>1, <3>2 DEF Level, EntryOf
  <2> QED
    BY <2>1
<1>12. ASSUME NEW i \in 1 .. m, NEW x, Inside(i, x)
       PROVE  Inside(i, x)'
  <2>1. i + 1 \in 1 .. m /\ i < m
    BY ONLY <1>3, <1>4, <1>12 DEF Inside
  <2>2. x \in s[i].seen
    BY ONLY <1>9, <1>12, i \in 1 .. m DEF Inside
  <2>3. EntryOf(i, x)' = Level(i + 1)'
    BY ONLY <1>11, <1>12, <2>1, i \in 1 .. m DEF Inside
  <2> QED
    BY ONLY <1>8, <1>9, <2>1, <2>2, <2>3 DEF Inside
<1>13. LevelsThere'
  <2>1. ASSUME NEW i \in 1 .. m, i > 1 \/ s[i].open
        PROVE  KindIn(tree', Level(i)') = "dir"
    <3>1. Len(Level(i)) # Len(q)
      BY ONLY <1>4, <1>5, <1>6, i \in 1 .. m, n \in Name
    <3>2. KindIn(tree, Level(i)) = "dir"
      BY ONLY <1>2, <1>3, <1>9, <2>1 DEF LevelsThere, SameFrame
    <3> QED
      BY ONLY <1>7, <1>11, <3>1, <3>2, i \in 1 .. m
  <2> QED
    BY ONLY <1>8, <1>9, <2>1 DEF LevelsThere
<1>14. Explored'
  <2>1. ASSUME NEW i \in 1 .. m, NEW x \in Name, s[i].open
        PROVE  EntryKnown(tree', s[i], EntryOf(i, x), x) \/ Inside(i, x)'
    <3>1. EntryKnown(tree, frames[i], EntryOf(i, x), x) \/ Inside(i, x)
      BY ONLY <1>2, <1>3, <1>9, <2>1 DEF Explored, SameFrame
    <3>2. s[i].listed = frames[i].listed
      BY ONLY <1>9, i \in 1 .. m DEF SameFrame
    <3>3. CASE i = m /\ x = n
      <4>1. x \in s[i].seen
        BY ONLY <1>9, <3>3, i \in 1 .. m
      <4> QED
        BY ONLY <1>5, <1>7, <3>3, <4>1 DEF EntryKnown
    <3>4. CASE ~(i = m /\ x = n)
      <4>1. EntryOf(i, x) # q
        <5>1. CASE i = m
          BY ONLY <1>4, <1>5, <1>6, <3>4, <5>1, n \in Name, x \in Name, EntriesDiffer DEF EntryOf
        <5>2. CASE i # m
          <6>1. Len(EntryOf(i, x)) # Len(q)
            BY ONLY <1>4, <1>5, <1>6, <5>2, i \in 1 .. m, n \in Name, x \in Name
          <6> QED
            BY ONLY <6>1
        <5> QED
          BY <5>1, <5>2
      <4>2. x \in s[i].seen <=> x \in frames[i].seen
        BY ONLY <1>9, <3>4, i \in 1 .. m
      <4>3. KindIn(tree', EntryOf(i, x)) = KindIn(tree, EntryOf(i, x))
        BY ONLY <1>7, <4>1
      <4> QED
        BY ONLY <1>12, <3>1, <3>2, <4>2, <4>3, i \in 1 .. m DEF EntryKnown
    <3> QED
      BY <3>3, <3>4
  <2> QED
    BY ONLY <1>8, <1>9, <1>11, <2>1 DEF Explored
<1>15. EnteredFrom'
  BY ONLY <1>2, <1>3, <1>8, <1>9, <1>12 DEF EnteredFrom
<1> QED
  BY ONLY <1>1, <1>2, <1>13, <1>14, <1>15

\* Nobody has come in between: what is reported is there, with its type.
LEMMA AloneReports ==
  ASSUME RemovalInv, AloneInv, alone, NEW n \in Name, Reports(n),
         NEW kind \in EntryTypes(n), kind # "unknown"
  PROVE  KindOf(Append(Reached, n)) = kind /\ kind # "none" /\ n \notin Deepest.seen
<1>1. frames # <<>> /\ Deepest.open
  BY DEF Reports
<1>2. Explored /\ StreamsAtLevels /\ disturbed = {}
  BY <1>1 DEF AloneInv, RemovalInv
<1>3. PICK m : m = Len(frames)
  OBVIOUS
<1>4. m \in 1 .. Len(frames) /\ m \in Nat /\ Deepest = frames[m] /\ Reached = Level(m)
  BY <1>1, <1>3, LevelFacts
<1>5. Deepest.dir = Reached
  BY ONLY <1>1, <1>2, <1>4 DEF StreamsAtLevels
<1>6. n \notin Deepest.seen
  BY ONLY <1>2, Reports(n) DEF Reports, Disturbed
<1>7. EntryKnown(tree, Deepest, Append(Reached, n), n)
  BY ONLY <1>1, <1>2, <1>3, <1>4, n \in Name DEF Explored, Inside, EntryOf
<1>8. KindOf(Append(Reached, n)) = IF n \in DOMAIN Deepest.listed THEN Deepest.listed[n] ELSE "none"
  BY ONLY <1>6, <1>7, KindIsKindIn DEF EntryKnown
<1>9. KindOf(Append(Reached, n)) = kind /\ kind # "none"
  BY ONLY <1>5, <1>8, kind \in EntryTypes(n), kind # "unknown" DEF EntryTypes
<1> QED
  BY ONLY <1>6, <1>9

LEMMA EntersKeepsAlone ==
  ASSUME RemovalInv, AloneInv, NEW n \in Name, EntersDir(n)
  PROVE  AloneInv'
<1> SUFFICES ASSUME alone'
             PROVE  disturbed' = {} /\ LevelsThere' /\ Explored' /\ EnteredFrom'
  BY DEF AloneInv
<1>1. /\ frames # <<>> /\ Deepest.open /\ Reports(n) /\ "dir" \in EntryTypes(n)
      /\ path' = Append(Reached, n) /\ tree' = tree /\ alone /\ RemovalTypes
      /\ disturbed' = disturbed
  BY DEF EntersDir, Reports, RemovalInv
<1>2. disturbed = {} /\ LevelsThere /\ Explored /\ EnteredFrom
  BY <1>1 DEF AloneInv
<1>3. PICK m : m = Len(frames)
  OBVIOUS
<1>4. m \in 1 .. m /\ m \in Nat /\ Reached = Level(m) /\ Deepest = frames[m]
  BY <1>1, <1>3, LevelFacts
<1>5. PICK q : q = EntryOf(m, n)
  OBVIOUS
<1>6. KindIn(tree, q) = "dir"
  <2>1. PICK kind : kind = "dir"
    OBVIOUS
  <2>2. KindOf(Append(Reached, n)) = kind
    BY ONLY RemovalInv, AloneInv, <1>1, <2>1, n \in Name, AloneReports
  <2> QED
    BY ONLY <1>4, <1>5, <2>1, <2>2, KindIsKindIn DEF EntryOf
<1>7. PICK s : s = Seen(n)
  OBVIOUS
<1>8. /\ s \in Seq(Frame) /\ Len(s) = m /\ \A i \in 1 .. m : SameFrame(s[i], i)
      /\ \A i \in 1 .. m : s[i].seen = IF i = m THEN frames[i].seen \cup {n} ELSE frames[i].seen
  BY ONLY <1>1, <1>3, <1>7, n \in Name, SeenFrames
<1>9. PrefixesKept /\ PathKept /\ Len(path') = Deepest.len + 1
  BY ONLY RemovalInv, <1>1, n \in Name, NameAppended
<1>10. PICK p : p = path'
  OBVIOUS
<1>11. p \in Seq(Name) /\ p = q
  BY ONLY <1>1, <1>4, <1>5, <1>9, <1>10 DEF PathKept, EntryOf
<1>12. PICK e : e = Entered(p)
  OBVIOUS
<1>13. PICK u : u = frames'
  OBVIOUS
<1>14. /\ Len(u) = m + 1 /\ \A i \in 1 .. m : u[i] = s[i]
       /\ u[m + 1] = e /\ e.len = Len(p) /\ ~e.open
  <2>1. PICK v : v = Append(s, e)
    OBVIOUS
  <2>2. /\ v \in Seq(Frame) /\ Len(v) = m + 1 /\ \A i \in 1 .. m : v[i] = s[i]
        /\ v[m + 1] = e /\ e.len = Len(p) /\ ~e.open
    BY ONLY <1>8, <1>11, <1>12, <2>1, CallAdded
  <2>3. u = v
    BY ONLY EntersDir(n), <1>7, <1>10, <1>12, <1>13, <2>1 DEF EntersDir
  <2> QED
    BY ONLY <2>2, <2>3
<1>15. \A i \in 1 .. m : Level(i)' = Level(i) /\ \A x : EntryOf(i, x)' = EntryOf(i, x)
  <2>1. ASSUME NEW i \in 1 .. m
        PROVE  Level(i)' = Level(i) /\ \A x : EntryOf(i, x)' = EntryOf(i, x)
    <3>1. PICK d : d = u[i].len /\ d = frames[i].len
      BY ONLY <1>8, <1>14, i \in 1 .. m DEF SameFrame
    <3>2. Prefix(path', d) = Level(i) /\ \A x : Append(Prefix(path', d), x) = EntryOf(i, x)
      BY ONLY RemovalInv, <1>1, <1>3, <1>9, <3>1, i \in 1 .. m, EntriesStay
    <3> QED
      BY ONLY <1>13, <3>1, <3>2 DEF Level, EntryOf
  <2> QED
    BY <2>1
<1>16. Level(m + 1)' = q
  BY ONLY <1>10, <1>11, <1>13, <1>14, PrefixWhole DEF Level
<1>17. \A i \in 1 .. m + 1 : i \in 1 .. m \/ i = m + 1
  BY <1>4
<1>18. ASSUME NEW i \in 1 .. m, NEW x, Inside(i, x)
       PROVE  Inside(i, x)'
  <2>1. i + 1 \in 1 .. m /\ i < m + 1
    BY ONLY <1>3, <1>4, <1>18 DEF Inside
  <2>2. x \in u[i].seen
    BY ONLY <1>8, <1>14, <1>18, i \in 1 .. m DEF Inside
  <2>3. EntryOf(i, x)' = Level(i + 1)'
    BY ONLY <1>15, <1>18, <2>1, i \in 1 .. m DEF Inside
  <2> QED
    BY ONLY <1>13, <1>14, <2>1, <2>2, <2>3 DEF Inside
<1>19. Inside(m, n)'
  <2>1. n \in u[m].seen
    BY ONLY <1>4, <1>8, <1>14
  <2>2. EntryOf(m, n)' = Level(m + 1)'
    BY ONLY <1>4, <1>5, <1>15, <1>16
  <2>3. m < m + 1
    BY ONLY <1>4
  <2> QED
    BY ONLY <1>13, <1>14, <2>1, <2>2, <2>3 DEF Inside
<1>20. LevelsThere'
  <2>1. ASSUME NEW i \in 1 .. m + 1, i > 1 \/ u[i].open
        PROVE  KindIn(tree, Level(i)') = "dir"
    <3>1. CASE i = m + 1
      BY ONLY <1>6, <1>16, <3>1
    <3>2. CASE i \in 1 .. m
      <4>1. u[i].open = frames[i].open
        BY ONLY <1>8, <1>14, <3>2 DEF SameFrame
      <4> QED
        BY ONLY <1>2, <1>3, <1>15, <2>1, <3>2, <4>1 DEF LevelsThere
    <3> QED
      BY ONLY <1>17, <3>1, <3>2, i \in 1 .. m + 1
  <2> QED
    BY ONLY <1>1, <1>13, <1>14, <2>1 DEF LevelsThere
<1>21. Explored'
  <2>1. ASSUME NEW i \in 1 .. m + 1, NEW x \in Name, u[i].open
        PROVE  EntryKnown(tree, u[i], EntryOf(i, x)', x) \/ Inside(i, x)'
    <3>1. i \in 1 .. m
      BY ONLY <1>14, <1>17, <2>1
    <3>2. SameFrame(u[i], i) /\ u[i].seen = IF i = m THEN frames[i].seen \cup {n} ELSE frames[i].seen
      BY ONLY <1>8, <1>14, <3>1
    <3>3. EntryKnown(tree, frames[i], EntryOf(i, x), x) \/ Inside(i, x)
      BY ONLY <1>2, <1>3, <2>1, <3>1, <3>2 DEF Explored, SameFrame
    <3>4. CASE i = m /\ x = n
      BY ONLY <1>19, <3>4
    <3>5. CASE ~(i = m /\ x = n)
      <4>1. x \in u[i].seen <=> x \in frames[i].seen
        BY ONLY <3>2, <3>5
      <4>2. EntryKnown(tree, frames[i], EntryOf(i, x), x) => EntryKnown(tree, u[i], EntryOf(i, x), x)
        BY ONLY <3>2, <4>1 DEF EntryKnown, SameFrame
      <4> QED
        BY ONLY <1>15, <1>18, <3>1, <3>3, <4>2
    <3> QED
      BY <3>4, <3>5
  <2> QED
    BY ONLY <1>1, <1>13, <1>14, <2>1 DEF Explored
<1>22. EnteredFrom'
  <2>1. ASSUME NEW i \in 1 .. m + 1, i < m + 1
        PROVE  \E x \in Name : Inside(i, x)'
    <3>1. i \in 1 .. m /\ (i < m \/ i = m)
      BY ONLY <1>4, <1>17, <2>1
    <3>2. CASE i = m
      BY ONLY <1>19, <3>2, n \in Name
    <3>3. CASE i < m
      <4>1. PICK x \in Name : Inside(i, x)
        BY ONLY <1>2, <1>3, <3>1, <3>3 DEF EnteredFrom
      <4> QED
        BY ONLY <1>18, <3>1, <4>1
    <3> QED
      BY <3>1, <3>2, <3>3
  <2> QED
    BY ONLY <1>13, <1>14, <2>1 DEF EnteredFrom
<1> QED
  BY ONLY <1>1, <1>2, <1>20, <1>21, <1>22

LEMMA LevelKeepsAlone ==
  ASSUME RemovalInv, AloneInv, RemovesLevel
  PROVE  AloneInv'
<1> SUFFICES ASSUME alone'
             PROVE  disturbed' = {} /\ LevelsThere' /\ Explored' /\ EnteredFrom'
  BY DEF AloneInv
<1>1. /\ frames # <<>> /\ Deepest.open /\ path' = Reached /\ alone /\ RemovalTypes
      /\ disturbed' = disturbed
  BY DEF RemovesLevel, ReportedAll, RemovalInv
<1>2. disturbed = {} /\ LevelsThere /\ Explored /\ EnteredFrom
  BY <1>1 DEF AloneInv
<1>3. PICK m : m = Len(frames)
  OBVIOUS
<1>4. m \in 1 .. m /\ m \in Nat \ {0} /\ Reached = Level(m)
  BY <1>1, <1>3, LevelFacts
<1>5. PICK q : q = Level(m)
  OBVIOUS
<1>6. /\ \A i \in 1 .. m : Level(i) \in Seq(Name) /\ Len(Level(i)) = Len(Root) + i - 1
      /\ \A i \in 1 .. m : \A x \in Name : Len(EntryOf(i, x)) = Len(Root) + i
      /\ q # <<>> /\ Len(Root) \in Nat
  BY ONLY RemovalInv, <1>1, <1>3, <1>4, <1>5, LevelLengths, RootIsPath
<1>7. \A e : KindIn(tree', e) = IF e = q THEN "none" ELSE KindIn(tree, e)
  <2>1. tree' = SetKind(tree, q, "none")
    BY ONLY RemovesLevel, <1>4, <1>5 DEF RemovesLevel
  <2>2. tree \in [Path -> Kind]
    BY <1>1 DEF RemovalTypes
  <2> QED
    BY ONLY <1>6, <2>1, <2>2, KindGone
<1>8. PICK u : u = frames'
  OBVIOUS
<1>9. Len(u) = m - 1 /\ \A i \in 1 .. m - 1 : u[i] = frames[i]
  <2>1. u = Prefix(frames, m - 1)
    BY ONLY RemovesLevel, <1>3, <1>8 DEF RemovesLevel
  <2>2. m - 1 \in 0 .. Len(frames) /\ frames \in Seq(Frame)
    BY <1>1, <1>3, <1>4 DEF RemovalTypes
  <2> QED
    BY ONLY <2>1, <2>2, PrefixType
<1>10. PrefixesKept
  BY ONLY RemovalInv, <1>1, CutKeeps
<1>11. \A i \in 1 .. m - 1 : i \in 1 .. m /\ i < m /\ (i < m - 1 => i + 1 \in 1 .. m - 1)
  BY ONLY <1>4
<1>12. \A i \in 1 .. m - 1 : Level(i)' = Level(i) /\ \A x : EntryOf(i, x)' = EntryOf(i, x)
  <2>1. ASSUME NEW i \in 1 .. m - 1
        PROVE  Level(i)' = Level(i) /\ \A x : EntryOf(i, x)' = EntryOf(i, x)
    <3>1. PICK d : d = u[i].len /\ d = frames[i].len
      BY ONLY <1>9, i \in 1 .. m - 1
    <3>2. i \in 1 .. Len(frames)
      BY ONLY <1>3, <1>11, i \in 1 .. m - 1
    <3>3. Prefix(path', d) = Level(i) /\ \A x : Append(Prefix(path', d), x) = EntryOf(i, x)
      BY ONLY RemovalInv, <1>1, <1>10, <3>1, <3>2, EntriesStay
    <3> QED
      BY ONLY <1>8, <3>1, <3>3 DEF Level, EntryOf
  <2> QED
    BY <2>1
<1>13. ASSUME NEW i \in 1 .. m - 1, i < m - 1, NEW x, Inside(i, x)
       PROVE  Inside(i, x)'
  <2>1. i + 1 \in 1 .. m - 1
    BY ONLY <1>11, <1>13
  <2>2. x \in u[i].seen
    BY ONLY <1>9, <1>13 DEF Inside
  <2>3. EntryOf(i, x)' = Level(i + 1)'
    BY ONLY <1>12, <1>13, <2>1 DEF Inside
  <2> QED
    BY ONLY <1>8, <1>9, <1>13, <2>2, <2>3 DEF Inside
<1>14. LevelsThere'
  <2>1. ASSUME NEW i \in 1 .. m - 1, i > 1 \/ u[i].open
        PROVE  KindIn(tree', Level(i)') = "dir"
    <3>1. Len(Level(i)) # Len(q)
      BY ONLY <1>4, <1>5, <1>6, <1>11, i \in 1 .. m - 1
    <3>2. KindIn(tree, Level(i)) = "dir"
      BY ONLY <1>2, <1>3, <1>9, <1>11, <2>1 DEF LevelsThere
    <3> QED
      BY ONLY <1>7, <1>12, <3>1, <3>2, i \in 1 .. m - 1
  <2> QED
    BY ONLY <1>8, <1>9, <2>1 DEF LevelsThere
<1>15. Explored'
  <2>1. ASSUME NEW i \in 1 .. m - 1, NEW x \in Name, u[i].open
        PROVE  EntryKnown(tree', u[i], EntryOf(i, x), x) \/ Inside(i, x)'
    <3>1. EntryKnown(tree, u[i], EntryOf(i, x), x) \/ Inside(i, x)
      BY ONLY <1>2, <1>3, <1>9, <1>11, <2>1 DEF Explored
    <3>2. CASE EntryOf(i, x) = q
      <4>1. i = m - 1
        BY ONLY <1>4, <1>5, <1>6, <1>11, <3>2, i \in 1 .. m - 1, x \in Name
      <4>2. x \in frames[i].seen
        <5>1. PICK y \in Name : Inside(i, y)
          BY ONLY <1>2, <1>3, <1>11, i \in 1 .. m - 1 DEF EnteredFrom
        <5>2. y \in frames[i].seen /\ EntryOf(i, y) = q
          <6>1. i + 1 = m
            BY ONLY <1>4, <4>1
          <6> QED
            BY ONLY <1>5, <5>1, <6>1 DEF Inside
        <5>3. Level(i) \in Seq(Name)
          BY ONLY <1>6, <1>11, i \in 1 .. m - 1
        <5>4. x = y
          BY ONLY <3>2, <5>2, <5>3, x \in Name, y \in Name, EntriesDiffer DEF EntryOf
        <5> QED
          BY ONLY <5>2, <5>4
      <4> QED
        BY ONLY <1>7, <1>9, <3>2, <4>2, i \in 1 .. m - 1 DEF EntryKnown
    <3>3. CASE EntryOf(i, x) # q
      <4>1. KindIn(tree', EntryOf(i, x)) = KindIn(tree, EntryOf(i, x))
        BY ONLY <1>7, <3>3
      <4>2. EntryKnown(tree, u[i], EntryOf(i, x), x) => EntryKnown(tree', u[i], EntryOf(i, x), x)
        BY ONLY <4>1 DEF EntryKnown
      <4>3. Inside(i, x) => i < m - 1
        <5>1. ASSUME Inside(i, x), i = m - 1
              PROVE  FALSE
          <6>1. i + 1 = m
            BY ONLY <1>4, <5>1
          <6> QED
            BY ONLY <1>5, <3>3, <5>1, <6>1 DEF Inside
        <5>2. i < m - 1 \/ i = m - 1
          BY ONLY <1>4, i \in 1 .. m - 1
        <5> QED
          BY <5>1, <5>2
      <4> QED
        BY ONLY <1>13, <3>1, <4>2, <4>3, i \in 1 .. m - 1
    <3> QED
      BY <3>2, <3>3
  <2> QED
    BY ONLY <1>8, <1>9, <1>12, <2>1 DEF Explored
<1>16. EnteredFrom'
  <2>1. ASSUME NEW i \in 1 .. m - 1, i < m - 1
        PROVE  \E x \in Name : Inside(i, x)'
    <3>1. PICK x \in Name : Inside(i, x)
      BY ONLY <1>2, <1>3, <1>11, i \in 1 .. m - 1 DEF EnteredFrom
    <3> QED
      BY ONLY <1>13, <2>1, <3>1
  <2> QED
    BY ONLY <1>8, <1>9, <2>1 DEF EnteredFrom
<1> QED
  BY ONLY <1>1, <1>2, <1>14, <1>15, <1>16

LEMMA RemoverKeepsAlone ==
  ASSUME RemovalInv, AloneInv, Remover
  PROVE  AloneInv'
<1>1. Fail => Unwind
  BY DEF Fail
<1>2. CASE BeginRemoval
  BY <1>2, BeginKeepsAlone
<1>3. CASE Unwind
  BY ONLY <1>3, UnwindKeepsAlone
<1>4. CASE Opendir
  BY ONLY RemovalInv, AloneInv, <1>1, <1>3, <1>4, OpendirCases, OpensKeepsAlone
<1>5. ASSUME NEW n \in Name, Report(n)
      PROVE  AloneInv'
  <2>1. ReportFails(n) => Unwind
    BY <1>1 DEF ReportFails
  <2>2. EntersDir(n) \/ Unlinks(n) \/ ReportFails(n)
    BY ONLY RemovalInv, n \in Name, <1>5, ReportCases
  <2>3. CASE EntersDir(n)
    BY ONLY RemovalInv, AloneInv, n \in Name, <2>3, EntersKeepsAlone
  <2>4. CASE Unlinks(n)
    BY ONLY RemovalInv, AloneInv, n \in Name, <2>4, UnlinksKeepsAlone
  <2> QED
    BY ONLY <1>3, <2>1, <2>2, <2>3, <2>4
<1>6. CASE ReadError
  BY <1>3, <1>6 DEF ReadError
<1>7. CASE Rmdir
  <2>1. RmdirFails => Unwind
    BY <1>1 DEF RmdirFails
  <2> QED
    BY ONLY RemovalInv, AloneInv, <1>3, <1>7, <2>1, RmdirCases, LevelKeepsAlone
<1> QED
  BY ONLY Remover, <1>2, <1>4, <1>5, <1>6, <1>7 DEF Remover

\* The first level is the directory itself.
LEMMA FirstLevel ==
  ASSUME RemovalInv, frames # <<>>
  PROVE  1 \in 1 .. Len(frames) /\ Level(1) = Root
<1>1. 1 \in 1 .. Len(frames)
  BY LevelFacts
<1>2. frames[1].len = Len(Root) + 1 - 1 /\ Prefix(path, Len(Root)) = Root
  BY ONLY RemovalInv, frames # <<>>, <1>1 DEF RemovalInv, Nested, Buffered
<1>3. frames[1].len = Len(Root)
  BY ONLY <1>2, RootIsPath
<1> QED
  BY ONLY <1>1, <1>2, <1>3 DEF Level

\* Alone, only a directory that is none, or is missing, makes it fail.
LEMMA AloneFails ==
  ASSUME RemovalInv, AloneInv, alone, alone', frames # <<>>, NEW n \in Name,
         \/ ~Deepest.open /\ KindOf(Reached) # "dir"
         \/ ReportFails(n)
         \/ RmdirFails
  PROVE  KindOf(Root) # "dir"
<1>1. disturbed = {} /\ LevelsThere /\ Explored /\ EnteredFrom
  BY DEF AloneInv
<1>2. PICK m : m = Len(frames)
  OBVIOUS
<1>3. m \in 1 .. m /\ m \in Nat /\ Deepest = frames[m] /\ Reached = Level(m)
  BY <1>2, LevelFacts
<1>4. ASSUME Deepest.open, NEW x \in Name
      PROVE  EntryKnown(tree, Deepest, Append(Reached, x), x)
  BY ONLY <1>1, <1>2, <1>3, <1>4 DEF Explored, Inside, EntryOf
<1>5. CASE ~Deepest.open /\ KindOf(Reached) # "dir"
  <2>1. ~(m > 1)
    BY ONLY <1>1, <1>2, <1>3, <1>5, KindIsKindIn DEF LevelsThere
  <2>2. m = 1
    BY ONLY <1>3, <2>1
  <2>3. Level(1) = Root
    BY FirstLevel
  <2> QED
    BY ONLY <1>3, <1>5, <2>2, <2>3
<1>6. ~ReportFails(n)
  <2> SUFFICES ASSUME ReportFails(n)
               PROVE  FALSE
    OBVIOUS
  <2>1. PICK kind \in EntryTypes(n) : kind # "dir" /\ kind # "unknown"
    BY DEF ReportFails
  <2>2. Reports(n) /\ KindOf(Append(Reached, n)) \in {"dir", "none"}
    BY DEF ReportFails
  <2>3. KindOf(Append(Reached, n)) = kind /\ kind # "none"
    BY ONLY RemovalInv, AloneInv, alone, n \in Name, <2>1, <2>2, AloneReports
  <2> QED
    BY ONLY <2>1, <2>2, <2>3
<1>7. ~RmdirFails
  <2> SUFFICES ASSUME RmdirFails
               PROVE  FALSE
    OBVIOUS
  <2>1. Deepest.open /\ DOMAIN Deepest.listed \subseteq Deepest.seen
    BY <1>1 DEF RmdirFails, ReportedAll, Disturbed
  <2>2. KindOf(Reached) = "dir"
    BY ONLY <1>1, <1>2, <1>3, <2>1, KindIsKindIn DEF LevelsThere
  <2>3. ASSUME NEW x \in Name
        PROVE  KindOf(Append(Reached, x)) = "none"
    <3>1. EntryKnown(tree, Deepest, Append(Reached, x), x)
      BY <1>4, <2>1
    <3> QED
      BY ONLY <2>1, <3>1, KindIsKindIn DEF EntryKnown
  <2>4. Children(Reached) = {}
    BY ONLY <2>3 DEF Children
  <2> QED
    BY <2>2, <2>4 DEF RmdirFails
<1> QED
  BY <1>5, <1>6, <1>7

-----------------------------------------------------------------------------
(* Directory trees: every step. *)

TreeInv ==
  /\ tree \in [Path -> Kind]
  /\ ~swapped => RemovalInv /\ RootReachable /\ AloneInv

\* Where a link would lead the removal astray.
NearRoot(p) == Under(p, Root) \/ (frames # <<>> /\ Under(Root, p))
NoLinksNear == \A p : NearRoot(p) /\ IsLink(tree', p) => IsLink(tree, p)

LEMMA NearLevels ==
  ASSUME RemovalInv, frames # <<>>
  PROVE  /\ \A k \in 1 .. Deepest.len : NearRoot(Prefix(path, k))
         /\ \A i \in 1 .. Len(frames) : \A n \in Name : NearRoot(EntryOf(i, n))
<1>1. PICK d, R : d = Deepest.len /\ R = Len(Root)
  OBVIOUS
<1>2. /\ path \in Seq(Name) /\ R <= d /\ d \in 1 .. Len(path) /\ R \in Nat \ {0} /\ R \in 0 .. Len(path)
      /\ Root \in Seq(Name) /\ Prefix(path, R) = Root
  <2>1. path \in Seq(Name) /\ R <= d /\ d \in 1 .. Len(path)
    BY ONLY <1>1, RemovalInv, frames # <<>>, LevelFacts
  <2>2. Prefix(path, R) = Root
    BY ONLY <1>1, RemovalInv, frames # <<>> DEF RemovalInv, Buffered
  <2>3. R \in Nat \ {0} /\ Root \in Seq(Name)
    BY ONLY <1>1, RootIsPath
  <2> QED
    BY ONLY <2>1, <2>2, <2>3
<1>3. ASSUME NEW k \in 1 .. d
      PROVE  NearRoot(Prefix(path, k)) /\ (R <= k => Under(Root, Prefix(path, k)))
  <2>1. PICK p : p = Prefix(path, k)
    OBVIOUS
  <2>2. k \in 0 .. Len(path) /\ k \in Nat
    BY ONLY <1>2, k \in 1 .. d
  <2>3. p \in Seq(Name) /\ Len(p) = k
    BY ONLY <1>2, <2>1, <2>2, PrefixType
  <2>4. ASSUME R <= k
        PROVE  Under(Root, p)
    <3>1. R \in 0 .. k
      BY ONLY <1>2, <2>2, <2>4
    <3>2. Prefix(p, R) = Prefix(path, R)
      BY ONLY <1>2, <2>1, <2>2, <3>1, PrefixOfPrefix
    <3> QED
      BY ONLY <1>1, <1>2, <2>3, <2>4, <3>2 DEF Under, Prefix
  <2>5. ASSUME ~(R <= k)
        PROVE  Under(p, Root)
    <3>1. k \in 0 .. R /\ k <= R
      BY ONLY <1>2, <2>2, <2>5
    <3>2. Prefix(Root, k) = p
      BY ONLY <1>2, <2>1, <3>1, PrefixOfPrefix
    <3> QED
      BY ONLY <1>1, <2>3, <3>1, <3>2 DEF Under, Prefix
  <2> QED
    BY ONLY <2>1, <2>4, <2>5, frames # <<>> DEF NearRoot
<1>4. ASSUME NEW i \in 1 .. Len(frames), NEW n \in Name
      PROVE  NearRoot(EntryOf(i, n))
  <2>1. PICK k : k = frames[i].len
    OBVIOUS
  <2>2. k \in 1 .. d
    BY ONLY <1>1, <2>1, RemovalInv, frames # <<>>, i \in 1 .. Len(frames), LevelFacts
  <2>3. R <= k
    <3>1. k = R + i - 1 /\ i \in Nat \ {0}
      BY <1>1, <2>1, LevelFacts DEF RemovalInv, Nested
    <3> QED
      BY ONLY <1>2, <2>2, <3>1
  <2>4. PICK l, q : l = Prefix(path, k) /\ q = Append(l, n)
    OBVIOUS
  <2>5. Under(Root, l)
    BY ONLY <1>3, <2>2, <2>3, <2>4
  <2>6. l \in Seq(Name) /\ Len(l) = k
    <3>1. k \in 0 .. Len(path)
      BY ONLY <1>2, <2>2
    <3> QED
      BY ONLY <1>2, <2>4, <3>1, PrefixType
  <2>7. q \in Seq(Name) /\ Len(q) = k + 1
    BY ONLY <2>4, <2>6, n \in Name, Appended
  <2>8. Prefix(q, R) = Root
    <3>1. R \in 0 .. Len(l)
      BY ONLY <1>2, <2>2, <2>3, <2>6
    <3>2. Prefix(l, R) = Root
      BY ONLY <1>1, <2>5 DEF Under, Prefix
    <3>3. Prefix(q, R) = Prefix(l, R)
      BY ONLY <2>4, <2>6, <3>1, n \in Name, PrefixAppend
    <3> QED
      BY ONLY <3>2, <3>3
  <2>9. R <= k + 1
    BY ONLY <1>2, <2>2, <2>3
  <2>10. Under(Root, q)
    BY ONLY <1>1, <2>7, <2>8, <2>9 DEF Under, Prefix
  <2> QED
    BY ONLY <2>1, <2>4, <2>10, frames # <<>> DEF NearRoot, EntryOf, Level
<1> QED
  BY ONLY <1>1, <1>3, <1>4

\* Steps of others change no frame and put no link on its way.
LEMMA OthersKeepRemoval ==
  ASSUME RemovalInv, UNCHANGED <<path, frames, removal>>,
         tree' \in [Path -> Kind], NoLinksNear
  PROVE  RemovalInv'
<1>1. RemovalTypes'
  BY DEF RemovalInv, RemovalTypes
<1>2. ASSUME frames' # <<>>
      PROVE  removal' = "running" /\ Nested' /\ Buffered' /\ LevelsPlain' /\ ListedPlain' /\ StreamsAtLevels'
  <2>1. /\ frames # <<>> /\ removal = "running" /\ Nested /\ Buffered
        /\ LevelsPlain /\ ListedPlain /\ StreamsAtLevels
    BY <1>2 DEF RemovalInv
  <2>2. removal' = "running" /\ Nested' /\ Buffered' /\ StreamsAtLevels'
    BY <2>1 DEF Nested, Buffered, Deepest, StreamsAtLevels, Level
  <2>3. /\ \A k \in 1 .. Deepest.len : NearRoot(Prefix(path, k))
        /\ \A i \in 1 .. Len(frames) : \A n \in Name : NearRoot(EntryOf(i, n))
    BY ONLY RemovalInv, <2>1, NearLevels
  <2>4. LevelsPlain'
    BY ONLY <2>1, <2>3, UNCHANGED <<path, frames, removal>>, NoLinksNear
       DEF LevelsPlain, Deepest, NoLinksNear
  <2>5. ListedPlain'
    BY ONLY <2>1, <2>3, UNCHANGED <<path, frames, removal>>, NoLinksNear
       DEF ListedPlain, EntryOf, Level, NoLinksNear
  <2> QED
    BY ONLY <2>2, <2>4, <2>5
<1> QED
  BY <1>1, <1>2 DEF RemovalInv

LEMMA RootStaysReachable ==
  ASSUME RootReachable, NoLinksNear
  PROVE  RootReachable'
<1>1. ASSUME NEW k \in 1 .. Len(Root)
      PROVE  ~IsLink(tree', Prefix(Root, k))
  <2>1. PICK p : p = Prefix(Root, k)
    OBVIOUS
  <2>2. k \in 0 .. Len(Root) /\ k <= Len(Root) /\ Root \in Seq(Name)
    BY RootIsPath
  <2>3. Len(p) = k
    BY ONLY <2>1, <2>2, PrefixType
  <2>4. NearRoot(p)
    BY ONLY <2>1, <2>2, <2>3 DEF NearRoot, Under, Prefix
  <2>5. ~IsLink(tree, p)
    BY ONLY <2>1, RootReachable, k \in 1 .. Len(Root) DEF RootReachable
  <2> QED
    BY ONLY <2>1, <2>4, <2>5, NoLinksNear DEF NoLinksNear
<1> QED
  BY ONLY <1>1 DEF RootReachable

\* A step of another process: no frame changes, and no link comes on its way
\* unless that is said.
OtherStep ==
  /\ UNCHANGED <<path, frames, removal>>
  /\ tree' \in [Path -> Kind]
  /\ ~swapped' => ~swapped /\ NoLinksNear
  /\ alone' = FALSE \/ UNCHANGED <<tree, alone, disturbed>>

LEMMA OthersStep ==
  ASSUME tree \in [Path -> Kind], TreeNext, ~Remover
  PROVE  OtherStep
<1>1. ASSUME NEW m \in Makers, BeginMkdirs(m)
      PROVE  OtherStep
  BY <1>1 DEF BeginMkdirs, OtherStep, removalVars, callVars, NoLinksNear
<1>2. ASSUME NEW m \in Makers, MkdirStep(m)
      PROVE  OtherStep
  <2>1. PICK r, q : \/ r = "0" /\ tree' = [tree EXCEPT ![q] = "dir"] /\ alone' = FALSE
                    \/ r # "0" /\ UNCHANGED <<tree, alone, disturbed>>
    BY ONLY <1>2 DEF MkdirStep, Disturb
  <2>2. UNCHANGED <<path, frames, removal>> /\ swapped' = swapped
    BY ONLY <1>2 DEF MkdirStep, callVars
  <2>3. CASE tree' = [tree EXCEPT ![q] = "dir"] /\ alone' = FALSE
    <3>1. PICK k : k = "dir"
      OBVIOUS
    <3>2. k \in Kind /\ k # "link" /\ tree' = SetKind(tree, q, k)
      BY ONLY <2>3, <3>1 DEF SetKind, Kind
    <3>3. tree' \in [Path -> Kind] /\ NoNewLinks(tree, tree')
      BY ONLY <3>2, tree \in [Path -> Kind], KindSet
    <3> QED
      BY ONLY <2>2, <2>3, <3>3 DEF OtherStep, NoNewLinks, NoLinksNear
  <2>4. CASE UNCHANGED <<tree, alone, disturbed>>
    BY ONLY <2>2, <2>4, tree \in [Path -> Kind] DEF OtherStep, NoLinksNear
  <2> QED
    BY ONLY <2>1, <2>3, <2>4
<1>3. ASSUME NEW p \in Touched, Touch(p)
      PROVE  OtherStep
  <2>1. PICK kind \in Kind :
        /\ tree' = [q \in Path |-> IF q = p THEN kind ELSE IF Under(p, q) THEN "none" ELSE tree[q]]
        /\ alone' = FALSE /\ swapped' = (swapped \/ (kind = "link" /\ NearRoot(p)))
        /\ UNCHANGED <<path, frames, removal>>
    BY ONLY <1>3 DEF Touch, Disturb, NearRoot, callVars
  <2>2. "none" \in Kind
    BY DEF Kind
  <2>3. tree' \in [Path -> Kind]
    BY ONLY <2>1, <2>2, tree \in [Path -> Kind]
  <2>4. ASSUME ~swapped'
        PROVE  ~swapped /\ NoLinksNear
    <3>1. ~swapped /\ ~(kind = "link" /\ NearRoot(p))
      BY ONLY <2>1, <2>4
    <3>2. ASSUME NEW q, NearRoot(q), IsLink(tree', q)
          PROVE  IsLink(tree, q)
      <4>1. q \in Path /\ tree'[q] = "link"
        BY ONLY <3>2 DEF IsLink
      <4>2. q # p
        BY ONLY <2>1, <3>1, <3>2, <4>1
      <4>3. tree[q] = "link"
        BY ONLY <2>1, <4>1, <4>2
      <4> QED
        BY ONLY <4>1, <4>3 DEF IsLink
    <3> QED
      BY ONLY <3>1, <3>2 DEF NoLinksNear
  <2> QED
    BY ONLY <2>1, <2>3, <2>4 DEF OtherStep
<1> QED
  BY ONLY TreeNext, ~Remover, <1>1, <1>2, <1>3 DEF TreeNext

LEMMA OtherStepKeeps ==
  ASSUME TreeInv, OtherStep
  PROVE  TreeInv'
<1>1. /\ UNCHANGED <<path, frames, removal>> /\ tree' \in [Path -> Kind]
      /\ alone' = FALSE \/ UNCHANGED <<tree, alone, disturbed>>
  BY DEF OtherStep
<1>2. ASSUME ~swapped'
      PROVE  RemovalInv' /\ RootReachable' /\ AloneInv'
  <2>1. NoLinksNear /\ RemovalInv /\ RootReachable /\ AloneInv
    BY <1>2 DEF TreeInv, OtherStep
  <2>2. RemovalInv'
    BY ONLY <1>1, <2>1, OthersKeepRemoval
  <2>3. RootReachable'
    BY ONLY <2>1, RootStaysReachable
  <2>4. AloneInv'
    <3>1. CASE UNCHANGED <<tree, alone, disturbed>>
      BY ONLY <1>1, <2>1, <3>1
         DEF AloneInv, LevelsThere, Explored, EnteredFrom, EntryKnown, Inside, EntryOf, Level
    <3>2. CASE alone' = FALSE
      BY ONLY <3>2 DEF AloneInv
    <3> QED
      BY ONLY <1>1, <3>1, <3>2
  <2> QED
    BY ONLY <2>2, <2>3, <2>4
<1> QED
  BY ONLY <1>1, <1>2 DEF TreeInv

LEMMA TreeBegins ==
  ASSUME TreeInit
  PROVE  TreeInv
<1>1. tree \in [Path -> Kind] /\ path = Root /\ frames = <<>> /\ <<>> \in Seq(Frame)
  BY TreeAssumption DEF TreeInit
<1>2. RemovalInv
  BY ONLY <1>1, RootIsPath DEF RemovalInv, RemovalTypes
<1>3. RootReachable
  BY RootAssumption DEF TreeInit, RootReachable, IsLink, Prefix
<1>4. AloneInv
  BY ONLY <1>1 DEF AloneInv
<1> QED
  BY ONLY <1>1, <1>2, <1>3, <1>4 DEF TreeInv

\* What is removed is an entry, whatever it is; links are put by others.
LEMMA RemoverDeletes ==
  ASSUME tree \in [Path -> Kind], Remover
  PROVE  /\ tree' \in [Path -> Kind] /\ swapped' = swapped
         /\ (tree' = tree /\ making' = making) \/ making' = Lost(making)
<1>1. ASSUME NEW q, Delete(q)
      PROVE  tree' \in [Path -> Kind] /\ making' = Lost(making)
  <2>1. PICK k : k = "none"
    OBVIOUS
  <2>2. k \in Kind /\ k # "link" /\ tree' = SetKind(tree, q, k) /\ making' = Lost(making)
    BY ONLY <1>1, <2>1 DEF Delete, SetKind, Kind
  <2> QED
    BY ONLY <2>2, tree \in [Path -> Kind], KindSet
<1>2. Unwind => UNCHANGED <<tree, making, swapped>>
  BY DEF Unwind
<1>3. CASE BeginRemoval
  BY ONLY <1>3, tree \in [Path -> Kind] DEF BeginRemoval
<1>4. CASE Opendir
  BY ONLY <1>2, <1>4, tree \in [Path -> Kind] DEF Opendir, Fail
<1>5. ASSUME NEW n \in Name, Report(n)
      PROVE  /\ tree' \in [Path -> Kind] /\ swapped' = swapped
             /\ (tree' = tree /\ making' = making) \/ making' = Lost(making)
  <2>1. PICK q : \/ UNCHANGED <<tree, making, swapped>>
                 \/ Delete(q) /\ swapped' = swapped
                 \/ Unwind
    BY ONLY <1>5 DEF Report
  <2> QED
    BY ONLY <1>1, <1>2, <2>1, tree \in [Path -> Kind]
<1>6. CASE ReadError
  BY ONLY <1>2, <1>6, tree \in [Path -> Kind] DEF ReadError
<1>7. CASE Rmdir
  <2>1. PICK q : \/ Delete(q) /\ swapped' = swapped
                 \/ Unwind
    BY ONLY <1>7 DEF Rmdir, Fail
  <2> QED
    BY ONLY <1>1, <1>2, <2>1, tree \in [Path -> Kind]
<1> QED
  BY ONLY Remover, <1>3, <1>4, <1>5, <1>6, <1>7 DEF Remover

LEMMA TreeStays ==
  ASSUME TreeInv, [TreeNext]_treeVars
  PROVE  TreeInv'
<1>1. tree \in [Path -> Kind]
  BY DEF TreeInv
<1>2. CASE Remover
  <2>1. tree' \in [Path -> Kind] /\ swapped' = swapped
    BY ONLY <1>1, <1>2, RemoverDeletes
  <2>2. ASSUME ~swapped'
        PROVE  RemovalInv' /\ RootReachable' /\ AloneInv'
    <3>1. RemovalInv /\ RootReachable /\ AloneInv
      BY ONLY TreeInv, <2>1, <2>2 DEF TreeInv
    <3>2. RemovalInv' /\ NoNewLinks(tree, tree')
      BY ONLY <1>2, <3>1, RemoverKeepsRemoval
    <3>3. AloneInv'
      BY ONLY <1>2, <3>1, RemoverKeepsAlone
    <3>4. NoLinksNear
      BY ONLY <3>2 DEF NoNewLinks, NoLinksNear
    <3>5. RootReachable'
      BY ONLY <3>1, <3>4, RootStaysReachable
    <3> QED
      BY ONLY <3>2, <3>3, <3>5
  <2> QED
    BY ONLY <2>1, <2>2 DEF TreeInv
<1>3. CASE OtherStep
  BY ONLY TreeInv, <1>3, OtherStepKeeps
<1>4. CASE UNCHANGED treeVars
  <2>1. OtherStep
    BY <1>1, <1>4 DEF treeVars, removalVars, callVars, OtherStep, NoLinksNear
  <2> QED
    BY ONLY <1>3, <2>1
<1> QED
  BY <1>1, <1>2, <1>3, <1>4, OthersStep

\* What is removed: one entry beneath the directory, or nothing.
RemovesOne(q) == Beneath(q) /\ tree' = SetKind(tree, q, "none")

LEMMA RemovedBeneath ==
  ASSUME tree \in [Path -> Kind], NEW q, RemovesOne(q), NEW p \in Path, tree[p] # tree'[p]
  PROVE  Under(Root, p) /\ tree'[p] = "none"
<1>1. tree'[p] = IF p = q THEN "none" ELSE tree[p]
  BY DEF RemovesOne, SetKind
<1> QED
  BY <1>1 DEF RemovesOne, Beneath

LEMMA RemoverRemovesBeneath ==
  ASSUME TreeInv, Remover, ByRemover, ~swapped
  PROVE  RemovesBeneathStep
<1>1. frames # <<>> /\ RemovalInv /\ AloneInv /\ tree \in [Path -> Kind] /\ removal = "running"
  BY DEF TreeInv, ByRemover, RemovalInv, RemovalTypes
<1>2. ASSUME Unwind, alone' => KindOf(Root) # "dir"
      PROVE  RemovesBeneathStep
  <2>1. tree' = tree /\ removal' = "failed"
    BY ONLY <1>2 DEF Unwind
  <2> QED
    BY ONLY <1>2, <2>1 DEF RemovesBeneathStep
<1>3. ASSUME tree' = tree, removal' = removal
      PROVE  RemovesBeneathStep
  BY ONLY <1>1, <1>3 DEF RemovesBeneathStep
<1>4. ~BeginRemoval
  BY ONLY <1>1 DEF BeginRemoval
<1>5. PICK some \in Name : TRUE
  <2>1. Root \in Seq(Name) /\ Len(Root) \in Nat \ {0}
    BY RootIsPath
  <2>2. Root[1] \in Name
    BY <2>1
  <2> QED
    BY <2>2
<1>6. CASE Opendir
  <2>1. CASE Opens
    BY <1>3, <2>1 DEF Opens
  <2>2. CASE ~Deepest.open /\ KindOf(Reached) # "dir" /\ Fail
    <3>1. ASSUME alone'
          PROVE  KindOf(Root) # "dir"
      <4>1. alone
        BY ONLY <2>2, <3>1 DEF Fail
      <4> QED
        BY ONLY <1>1, <2>2, <3>1, <4>1, some \in Name, AloneFails
    <3> QED
      BY ONLY <1>2, <2>2, <3>1 DEF Fail
  <2> QED
    BY ONLY <1>1, <1>6, <2>1, <2>2, OpendirCases
<1>7. ASSUME NEW n \in Name, Report(n)
      PROVE  RemovesBeneathStep
  <2>1. CASE EntersDir(n)
    BY <1>3, <2>1 DEF EntersDir
  <2>2. CASE Unlinks(n)
    <3>1. PICK q : q = Append(Reached, n)
      OBVIOUS
    <3>2. Beneath(q)
      BY ONLY <1>1, <3>1, n \in Name, LevelLeads
    <3>3. RemovesOne(q) /\ removal' = "running"
      BY ONLY <1>1, <2>2, <3>1, <3>2 DEF Unlinks, RemovesOne
    <3>4. \A p \in Path : tree[p] # tree'[p] => Under(Root, p) /\ tree'[p] = "none"
      BY ONLY <1>1, <3>3, RemovedBeneath
    <3> QED
      BY ONLY <3>3, <3>4 DEF RemovesBeneathStep
  <2>3. CASE ReportFails(n)
    <3>1. ASSUME alone'
          PROVE  KindOf(Root) # "dir"
      <4>1. alone
        BY ONLY <2>3, <3>1 DEF ReportFails
      <4> QED
        BY ONLY <1>1, <2>3, <3>1, <4>1, n \in Name, AloneFails
    <3> QED
      BY ONLY <1>2, <2>3, <3>1 DEF ReportFails
  <2> QED
    BY ONLY <1>1, <1>7, <2>1, <2>2, <2>3, ReportCases
<1>8. CASE ReadError
  BY ONLY <1>2, <1>8 DEF ReadError
<1>9. CASE Rmdir
  <2>1. CASE RemovesLevel
    <3>1. PICK q : q = Reached
      OBVIOUS
    <3>2. Beneath(q)
      BY ONLY <1>1, <3>1, LevelLeads
    <3>3. RemovesOne(q) /\ removal' = (IF Len(frames) = 1 THEN "0" ELSE "running") /\ path' = q
      BY ONLY <1>1, <2>1, <3>1, <3>2 DEF RemovesLevel, RemovesOne
    <3>4. \A p \in Path : tree[p] # tree'[p] => Under(Root, p) /\ tree'[p] = "none"
      BY ONLY <1>1, <3>3, RemovedBeneath
    <3>5. Len(frames) = 1 => q = Root
      BY ONLY <1>1, <3>1, LevelFacts, FirstLevel
    <3>6. q = Root => tree'[Root] = "none"
      BY ONLY <1>1, <3>3, RootIsPath DEF RemovesOne, SetKind
    <3> QED
      BY ONLY <3>3, <3>4, <3>5, <3>6 DEF RemovesBeneathStep
  <2>2. CASE RmdirFails
    <3>1. ASSUME alone'
          PROVE  KindOf(Root) # "dir"
      <4>1. alone
        BY ONLY <2>2, <3>1 DEF RmdirFails, Fail
      <4> QED
        BY ONLY <1>1, <2>2, <3>1, <4>1, some \in Name, AloneFails
    <3> QED
      BY ONLY <1>2, <2>2, <3>1 DEF RmdirFails, Fail
  <2> QED
    BY ONLY <1>1, <1>9, <2>1, <2>2, RmdirCases
<1> QED
  BY ONLY Remover, <1>4, <1>6, <1>7, <1>8, <1>9 DEF Remover

\* Any number of processes change the tree while pcl_rmdir_r runs, and put links
\* in place of directories elsewhere: as long as no link comes on the way to its
\* directory, or beneath it while it runs, nothing else is removed, it ends well
\* only when the directory is gone, and fails only when others come in between
\* or readdir fails or does not tell a type (rmdir_r.c:37-84).
THEOREM DirRemovesBeneath == TreeSpec => RemovesBeneath
<1>1. TreeInv /\ [TreeNext]_treeVars => [RemovesBeneathStep]_treeVars
  <2> SUFFICES ASSUME TreeInv, [TreeNext]_treeVars
               PROVE  [RemovesBeneathStep]_treeVars
    OBVIOUS
  <2>1. CASE ~(ByRemover /\ ~swapped)
    BY ONLY <2>1 DEF RemovesBeneathStep
  <2>2. CASE Remover /\ ByRemover /\ ~swapped
    BY ONLY TreeInv, <2>2, RemoverRemovesBeneath
  <2>3. CASE TreeNext /\ ~Remover
    <3>1. OtherStep
      BY ONLY TreeInv, <2>3, OthersStep DEF TreeInv
    <3> QED
      BY ONLY <3>1 DEF OtherStep, RemovesBeneathStep, ByRemover
  <2> QED
    BY ONLY <2>1, <2>2, <2>3, [TreeNext]_treeVars
<1> QED
  BY <1>1, TreeBegins, TreeStays, PTL DEF TreeSpec, RemovesBeneath

-----------------------------------------------------------------------------
(* Directory trees: what pcl_mkdirs finds. *)

Call ==
  [path : Wanted \cup {<<>>}, done : Nat, result : {"none", "running", "0", "failed"},
   calls : Nat, lost : BOOLEAN]

\* What the first i components of w lead to, and the links of it followed.
PartKind(t, w, i) == KindIn(t, ResolvedIn(t, Prefix(w, i)))
PartLeads(t, w, i) == KindIn(t, Followed(t, ResolvedIn(t, Prefix(w, i))))
MadeSoFar(t, w, d) ==
  \A i \in 0 .. d : PartKind(t, w, i) # "none" /\ (i < d => PartLeads(t, w, i) = "dir")
UnderWay(t, c) ==
  /\ c.path \in Wanted /\ c.done < Len(c.path)
  /\ ~c.lost => MadeSoFar(t, c.path, c.done)
MakingInv ==
  /\ making \in [Makers -> Call]
  /\ \A m \in Makers : Making(m) => UnderWay(tree, making[m])

LEMMA WantedIsPath ==
  ASSUME NEW w \in Wanted
  PROVE  /\ w \in Seq(Name) /\ Len(w) \in Nat \ {0} /\ Len(LinkTo) \in Nat \ {0}
         /\ Len(LinkTo) + Len(w) <= MaxParts + 1 /\ LinkTo \in Path /\ LinkTo \in Seq(Name)
<1>1. w \in Path /\ LinkTo \in Path /\ MaxParts \in Nat
  BY TreeAssumption
<1>2. Len(LinkTo) + Len(w) <= MaxParts + 1
  BY LinkAssumption
<1> QED
  BY ONLY <1>1, <1>2, PathIsSeq

LEMMA TopIsThere ==
  ASSUME NEW t, NEW w \in Seq(Name)
  PROVE  PartKind(t, w, 0) = "dir" /\ PartLeads(t, w, 0) = "dir"
<1>1. Prefix(w, 0) = <<>> /\ ResolvedIn(t, <<>>) = <<>>
  BY ONLY PrefixNone, ResolvedEmpty, w \in Seq(Name)
<1>2. Followed(t, <<>>) = <<>>
  BY ONLY NoEmptyPath DEF Followed
<1> QED
  BY ONLY <1>1, <1>2 DEF PartKind, PartLeads, KindIn

\* Entries are added: what is there stays as it is.
Adds(t, u) == u \in [Path -> Kind] /\ \A q \in Path : t[q] # "none" => u[q] = t[q]

LEMMA AddsKeeps ==
  ASSUME NEW t \in [Path -> Kind], NEW u, Adds(t, u), NEW e, KindIn(t, e) # "none"
  PROVE  KindIn(u, e) = KindIn(t, e) /\ Followed(u, e) = Followed(t, e)
<1>1. CASE e \in Path
  <2>1. t[e] # "none" /\ u[e] = t[e]
    BY ONLY <1>1, Adds(t, u), KindIn(t, e) # "none", NoEmptyPath DEF Adds, KindIn
  <2> QED
    BY ONLY <2>1 DEF KindIn, Followed
<1>2. CASE e \notin Path
  BY ONLY <1>2 DEF KindIn, Followed
<1> QED
  BY <1>1, <1>2

\* What a call has made stays, and leads to where it led.
LEMMA AddsKeepsMade ==
  ASSUME NEW t \in [Path -> Kind], NEW u, Adds(t, u),
         NEW w \in Seq(Name), NEW d \in Nat, d <= Len(w), MadeSoFar(t, w, d)
  PROVE  /\ MadeSoFar(u, w, d)
         /\ d < Len(w) /\ PartLeads(t, w, d) = "dir" =>
              /\ PartLeads(u, w, d) = "dir"
              /\ ResolvedIn(u, Prefix(w, d + 1)) = ResolvedIn(t, Prefix(w, d + 1))
<1> DEFINE S == {i \in Nat : i <= d => ResolvedIn(u, Prefix(w, i)) = ResolvedIn(t, Prefix(w, i))}
<1>1. 0 \in S
  <2>1. \A v : ResolvedIn(v, Prefix(w, 0)) = <<>>
    BY ONLY PrefixNone, ResolvedEmpty, w \in Seq(Name)
  <2> QED
    BY ONLY <2>1
<1>2. ASSUME NEW i \in Nat, i < Len(w), ResolvedIn(u, Prefix(w, i)) = ResolvedIn(t, Prefix(w, i)),
             PartKind(t, w, i) # "none"
      PROVE  ResolvedIn(u, Prefix(w, i + 1)) = ResolvedIn(t, Prefix(w, i + 1))
  <2>1. PICK p, x, r : p = Prefix(w, i) /\ x = w[i + 1] /\ r = ResolvedIn(t, p)
    OBVIOUS
  <2>2. p \in Seq(Name) /\ Prefix(w, i + 1) = Append(p, x) /\ x \in Name
    <3>1. i \in 0 .. Len(w)
      BY ONLY <1>2, w \in Seq(Name)
    <3> QED
      BY ONLY <2>1, <3>1, <1>2, w \in Seq(Name), PrefixType, PrefixNext
  <2>3. Followed(u, r) = Followed(t, r)
    <3>1. KindIn(t, r) # "none"
      BY ONLY <1>2, <2>1 DEF PartKind
    <3> QED
      BY ONLY <3>1, t \in [Path -> Kind], Adds(t, u), AddsKeeps
  <2>4. ResolvedIn(u, p) = r
    BY ONLY <1>2, <2>1
  <2>5. \A v : ResolvedIn(v, Append(p, x)) = Append(Followed(v, ResolvedIn(v, p)), x)
    BY ONLY <2>2, ResolvedNext
  <2> QED
    BY ONLY <2>1, <2>2, <2>3, <2>4, <2>5
<1>3. \A i \in 0 .. d : PartKind(t, w, i) # "none" /\ (i < d => PartLeads(t, w, i) = "dir")
  BY ONLY MadeSoFar(t, w, d) DEF MadeSoFar
<1>4. ASSUME NEW i \in Nat, i \in S
      PROVE  i + 1 \in S
  <2>1. ASSUME i + 1 <= d
        PROVE  ResolvedIn(u, Prefix(w, i + 1)) = ResolvedIn(t, Prefix(w, i + 1))
    <3>1. i \in 0 .. d /\ i < Len(w) /\ i <= d
      BY ONLY <2>1, i \in Nat, d \in Nat, d <= Len(w), w \in Seq(Name)
    <3>2. ResolvedIn(u, Prefix(w, i)) = ResolvedIn(t, Prefix(w, i))
      BY ONLY <1>4, <3>1
    <3> QED
      BY ONLY <1>2, <1>3, <3>1, <3>2, i \in Nat
  <2> QED
    BY ONLY <2>1, i \in Nat
<1> HIDE DEF S
<1>5. \A i \in Nat : i \in S
  BY ONLY <1>1, <1>4, NatInductionOn
<1>6. ASSUME NEW i \in 0 .. d
      PROVE  /\ ResolvedIn(u, Prefix(w, i)) = ResolvedIn(t, Prefix(w, i))
             /\ PartKind(u, w, i) # "none"
             /\ PartLeads(t, w, i) = "dir" => PartLeads(u, w, i) = "dir"
  <2>1. PICK r : r = ResolvedIn(t, Prefix(w, i))
    OBVIOUS
  <2>2. ResolvedIn(u, Prefix(w, i)) = r
    BY <1>5, <2>1 DEF S
  <2>3. KindIn(t, r) # "none"
    BY ONLY <1>3, <2>1, i \in 0 .. d DEF PartKind
  <2>4. KindIn(u, r) = KindIn(t, r) /\ Followed(u, r) = Followed(t, r)
    BY ONLY <2>3, t \in [Path -> Kind], Adds(t, u), AddsKeeps
  <2>5. ASSUME KindIn(t, Followed(t, r)) = "dir"
        PROVE  KindIn(u, Followed(u, r)) = "dir"
    <3>1. PICK f : f = Followed(t, r) /\ KindIn(t, f) # "none"
      BY ONLY <2>5
    <3>2. KindIn(u, f) = KindIn(t, f)
      BY ONLY <3>1, t \in [Path -> Kind], Adds(t, u), AddsKeeps
    <3> QED
      BY ONLY <2>4, <2>5, <3>1, <3>2
  <2> QED
    BY ONLY <2>1, <2>2, <2>3, <2>4, <2>5 DEF PartKind, PartLeads
<1>7. MadeSoFar(u, w, d)
  BY ONLY <1>3, <1>6 DEF MadeSoFar
<1>8. d \in 0 .. d
  OBVIOUS
<1> QED
  BY ONLY <1>2, <1>3, <1>6, <1>7, <1>8, d \in Nat

\* What the next mkdir finds: the entry is one that fits, its parent is what
\* the components before lead to.
NextPart(w, d) == ResolvedIn(tree, Prefix(w, d + 1))

LEMMA MkdirFinds ==
  ASSUME NEW w \in Wanted, NEW d \in Nat, d < Len(w)
  PROVE  /\ NextPart(w, d) \in Path
         /\ IF PartLeads(tree, w, d) # "dir" THEN MkdirResult(Prefix(w, d + 1)) \in {"ENOENT", "ENOTDIR"}
            ELSE MkdirResult(Prefix(w, d + 1)) =
                   IF KindIn(tree, NextPart(w, d)) = "none" THEN "0" ELSE "EEXIST"
<1>1. /\ w \in Seq(Name) /\ Len(w) \in Nat \ {0} /\ Len(LinkTo) \in Nat \ {0}
      /\ Len(LinkTo) + Len(w) <= MaxParts + 1 /\ LinkTo \in Path /\ LinkTo \in Seq(Name)
  BY WantedIsPath
<1>2. PICK p, x, s : p = Prefix(w, d) /\ x = w[d + 1] /\ s = Prefix(w, d + 1)
  OBVIOUS
<1>3. /\ p \in Seq(Name) /\ Len(p) = d /\ x \in Name /\ s = Append(p, x)
      /\ s \in Seq(Name) /\ Len(s) = d + 1 /\ s # <<>>
  <2>1. d \in 0 .. Len(w) /\ d + 1 \in 0 .. Len(w)
    BY <1>1
  <2>2. p \in Seq(Name) /\ Len(p) = d
    BY ONLY <1>1, <1>2, <2>1, PrefixType
  <2>3. s = Append(p, x) /\ x \in Name
    BY ONLY <1>1, <1>2, d \in Nat, d < Len(w), PrefixNext
  <2>4. s \in Seq(Name) /\ Len(s) = d + 1 /\ s # <<>>
    BY ONLY <2>2, <2>3, Appended, AppendParent
  <2> QED
    BY ONLY <2>2, <2>3, <2>4
<1>4. PICK r, q, f : r = ResolvedIn(tree, p) /\ q = ResolvedIn(tree, s) /\ f = Followed(tree, r)
  OBVIOUS
<1>5. q = Append(f, x)
  BY ONLY <1>3, <1>4, ResolvedNext
<1>6. r \in Seq(Name)
  <2>1. CASE p = <<>>
    <3>1. ResolvedIn(tree, <<>>) = <<>>
      BY ResolvedEmpty
    <3>2. <<>> \in Seq(Name)
      OBVIOUS
    <3> QED
      BY ONLY <1>4, <2>1, <3>1, <3>2
  <2>2. CASE p # <<>>
    BY ONLY <1>3, <1>4, <2>2, ResolvedFits
  <2> QED
    BY <2>1, <2>2
<1>7. f = IF IsLink(tree, r) THEN LinkTo ELSE r
  BY ONLY <1>4, FollowedPlain
<1>8. f \in Seq(Name)
  BY ONLY <1>1, <1>6, <1>7
<1>9. Parent(q) = f /\ q # <<>>
  BY ONLY <1>3, <1>5, <1>8, AppendParent
<1>10. q \in Path
  <2>1. q \in Seq(Name) /\ Len(q) \in 1 .. Len(s) + Len(LinkTo) - 1
    BY ONLY <1>3, <1>4, ResolvedFits
  <2>2. Len(q) \in 1 .. MaxParts
    <3>1. MaxParts \in Nat
      BY TreeAssumption
    <3> QED
      BY <1>1, <1>3, <2>1, <3>1
  <2> QED
    BY ONLY <2>1, <2>2, PathIsSeq
<1>11. KindIn(tree, f) = PartLeads(tree, w, d)
  BY ONLY <1>2, <1>4 DEF PartLeads
<1>12. Resolved(s) = q
  BY ONLY <1>4 DEF Resolved, ResolvedIn
<1>13. MkdirResult(s) = IF KindIn(tree, f) = "none" THEN "ENOENT"
                        ELSE IF KindIn(tree, f) # "dir" THEN "ENOTDIR"
                        ELSE IF KindIn(tree, q) # "none" THEN "EEXIST" ELSE "0"
  BY ONLY <1>9, <1>12, KindIsKindIn DEF MkdirResult
<1> QED
  BY ONLY <1>2, <1>4, <1>10, <1>11, <1>13 DEF NextPart

-----------------------------------------------------------------------------
(* Directory trees: the calls of pcl_mkdirs. *)

\* Something is removed or replaced: every call under way has lost.
Drops == making' = Lost(making)

\* Another program adds an entry where nothing was, or takes something away.
LEMMA TouchChanges ==
  ASSUME tree \in [Path -> Kind], tree' \in [Path -> Kind], NEW p \in Touched, Touch(p)
  PROVE  (Adds(tree, tree') /\ making' = making) \/ Drops
<1>1. CASE ~\A q \in Path : Under(p, q) => tree[q] = "none"
  BY <1>1 DEF Touch, Drops
<1>2. CASE \A q \in Path : Under(p, q) => tree[q] = "none"
  <2>1. p \in Path
    BY TreeAssumption
  <2>2. Under(p, p)
    <3>1. p \in Seq(Name) /\ Len(p) \in Nat
      BY ONLY <2>1, PathIsSeq
    <3>2. Prefix(p, Len(p)) = p
      BY ONLY <3>1, PrefixWhole
    <3> QED
      BY ONLY <3>1, <3>2 DEF Under, Prefix
  <2>3. making' = making
    BY <1>2 DEF Touch
  <2>4. PICK kind : tree' = [q \in Path |-> IF q = p THEN kind ELSE IF Under(p, q) THEN "none" ELSE tree[q]]
    BY DEF Touch
  <2>5. ASSUME NEW q \in Path, tree[q] # "none"
        PROVE  tree'[q] = tree[q]
    <3>1. ~Under(p, q) /\ q # p
      BY ONLY <1>2, <2>2, <2>5
    <3> QED
      BY ONLY <2>4, <3>1, q \in Path
  <2> QED
    BY ONLY <2>3, <2>5, tree' \in [Path -> Kind] DEF Adds
<1> QED
  BY <1>1, <1>2

LEMMA DropsKeepsMaking ==
  ASSUME MakingInv, Drops
  PROVE  /\ MakingInv'
         /\ \A m \in Makers : making'[m].result = making[m].result
<1>1. /\ making \in [Makers -> Call]
      /\ \A m \in Makers : Making(m) => UnderWay(tree, making[m])
  BY DEF MakingInv
<1>2. ASSUME NEW m \in Makers
      PROVE  /\ making'[m] \in Call /\ making'[m].result = making[m].result
             /\ making'[m].path = making[m].path /\ making'[m].done = making[m].done
             /\ making'[m].lost = TRUE
  <2>1. PICK c : c = making[m] /\ c \in Call
    BY <1>1
  <2>2. making'[m] = [c EXCEPT !.lost = TRUE]
    BY <2>1 DEF Drops, Lost
  <2> QED
    BY ONLY <2>1, <2>2 DEF Call
<1>3. making' \in [Makers -> Call]
  <2>1. making' = [m \in Makers |-> making'[m]]
    BY DEF Drops, Lost
  <2> QED
    BY ONLY <1>2, <2>1
<1>4. ASSUME NEW m \in Makers, making'[m].result = "running"
      PROVE  UnderWay(tree', making'[m])
  <2>1. UnderWay(tree, making[m])
    BY ONLY <1>1, <1>2, <1>4 DEF Making
  <2> QED
    BY ONLY <1>2, <2>1, m \in Makers DEF UnderWay
<1> QED
  BY ONLY <1>2, <1>3, <1>4 DEF MakingInv, Making

\* What a call has made stays while entries are only added.
LEMMA AddsKeepsUnderWay ==
  ASSUME NEW t \in [Path -> Kind], NEW u, Adds(t, u), NEW c \in Call, UnderWay(t, c)
  PROVE  UnderWay(u, c)
<1>1. c.path \in Wanted /\ c.done \in Nat /\ c.done < Len(c.path)
  BY DEF UnderWay, Call
<1>2. c.path \in Seq(Name) /\ Len(c.path) \in Nat
  BY ONLY <1>1, WantedIsPath
<1>3. ASSUME ~c.lost
      PROVE  MadeSoFar(u, c.path, c.done)
  <2>1. PICK w, d : w = c.path /\ d = c.done
    OBVIOUS
  <2>2. MadeSoFar(t, w, d)
    BY ONLY <1>3, <2>1, UnderWay(t, c) DEF UnderWay
  <2>3. d \in Nat /\ d <= Len(w) /\ w \in Seq(Name)
    BY ONLY <1>1, <1>2, <2>1
  <2>4. MadeSoFar(u, w, d)
    BY ONLY <2>2, <2>3, t \in [Path -> Kind], Adds(t, u), AddsKeepsMade
  <2> QED
    BY ONLY <2>1, <2>4
<1> QED
  BY ONLY <1>1, <1>3 DEF UnderWay

LEMMA AddsKeepsMaking ==
  ASSUME MakingInv, tree \in [Path -> Kind], Adds(tree, tree'), making' = making
  PROVE  MakingInv'
<1>1. /\ making \in [Makers -> Call]
      /\ \A m \in Makers : Making(m) => UnderWay(tree, making[m])
  BY DEF MakingInv
<1>2. ASSUME NEW m \in Makers, Making(m)
      PROVE  UnderWay(tree', making[m])
  BY ONLY <1>1, <1>2, tree \in [Path -> Kind], Adds(tree, tree'), AddsKeepsUnderWay
<1> QED
  BY ONLY <1>1, <1>2, making' = making DEF MakingInv, Making

LEMMA BeginMkdirsKeeps ==
  ASSUME MakingInv, NEW m \in Makers, BeginMkdirs(m)
  PROVE  MakingInv'
<1>1. /\ making \in [Makers -> Call]
      /\ \A x \in Makers : Making(x) => UnderWay(tree, making[x])
  BY DEF MakingInv
<1>2. PICK p \in Wanted : making' = [making EXCEPT ![m] =
         [path |-> p, done |-> 0, result |-> "running", calls |-> making[m].calls + 1, lost |-> FALSE]]
  BY DEF BeginMkdirs
<1>3. PICK c : c = [path |-> p, done |-> 0, result |-> "running", calls |-> making[m].calls + 1, lost |-> FALSE]
  OBVIOUS
<1>4. c \in Call /\ c.path = p /\ c.done = 0
  <2>1. making[m].calls + 1 \in Nat
    BY <1>1 DEF Call
  <2> QED
    BY ONLY <1>3, <2>1, p \in Wanted DEF Call
<1>5. making' = [making EXCEPT ![m] = c] /\ tree' = tree
  BY ONLY <1>2, <1>3, BeginMkdirs(m) DEF BeginMkdirs
<1>6. UnderWay(tree, c)
  <2>1. p \in Seq(Name) /\ Len(p) \in Nat \ {0}
    BY ONLY p \in Wanted, WantedIsPath
  <2>2. PartKind(tree, p, 0) = "dir"
    BY ONLY <2>1, TopIsThere
  <2>3. \A i \in 0 .. 0 : i = 0 /\ ~(i < 0)
    OBVIOUS
  <2>4. MadeSoFar(tree, p, 0)
    BY ONLY <2>2, <2>3 DEF MadeSoFar
  <2>5. 0 < Len(p)
    BY ONLY <2>1
  <2> QED
    BY ONLY <1>4, <2>4, <2>5, p \in Wanted DEF UnderWay
<1>7. making' \in [Makers -> Call]
  BY ONLY <1>1, <1>4, <1>5
<1>8. ASSUME NEW x \in Makers, making'[x].result = "running"
      PROVE  UnderWay(tree', making'[x])
  <2>1. CASE x = m
    BY ONLY <1>1, <1>5, <1>6, <2>1
  <2>2. CASE x # m
    <3>1. making'[x] = making[x]
      BY ONLY <1>1, <1>5, <2>2
    <3> QED
      BY ONLY <1>1, <1>5, <1>8, <3>1 DEF Making
  <2> QED
    BY <2>1, <2>2
<1> QED
  BY ONLY <1>1, <1>5, <1>7, <1>8 DEF MakingInv, Making

\* What one step of a call does.
StepResult(w, d) == MkdirResult(Prefix(w, d + 1))
LEMMA MkdirStepDoes ==
  ASSUME MakingInv, tree \in [Path -> Kind], NEW m \in Makers, MkdirStep(m),
         NEW w, w = making[m].path, NEW d, d = making[m].done, NEW r, r = StepResult(w, d)
  PROVE  /\ UnderWay(tree, making[m]) /\ w \in Wanted /\ d \in Nat /\ d < Len(w)
         /\ Adds(tree, tree')
         /\ r = "0" => tree' = SetKind(tree, NextPart(w, d), "dir")
         /\ r # "0" => tree' = tree
         /\ \A x \in Makers : x # m => making'[x] = making[x]
         /\ making' \in [Makers -> Call]
         /\ making'[m].path = w /\ making'[m].lost = making[m].lost
         /\ making'[m].done = IF GoesOn(r) THEN d + 1 ELSE d
         /\ making'[m].result = IF ~GoesOn(r) THEN "failed" ELSE IF d + 1 = Len(w) THEN "0" ELSE "running"
<1>1. making \in [Makers -> Call] /\ UnderWay(tree, making[m]) /\ Making(m)
  BY DEF MakingInv, MkdirStep
<1>2. PICK c : c = making[m] /\ c \in Call
  BY <1>1
<1>3. w \in Wanted /\ d \in Nat /\ d < Len(w) /\ c.path = w /\ c.done = d /\ c.result = "running"
  BY ONLY <1>1, <1>2, w = making[m].path, d = making[m].done DEF UnderWay, Call, Making
<1>4. w \in Seq(Name) /\ Len(w) \in Nat \ {0}
  BY ONLY <1>3, WantedIsPath
<1>5. PICK s : s = Prefix(w, d + 1)
  OBVIOUS
<1>6. s = w <=> d + 1 = Len(w)
  <2>1. d + 1 \in 0 .. Len(w)
    BY ONLY <1>3, <1>4
  <2>2. Len(s) = d + 1
    BY ONLY <1>4, <1>5, <2>1, PrefixType
  <2>3. Prefix(w, Len(w)) = w
    BY ONLY <1>4, PrefixWhole
  <2> QED
    BY ONLY <1>5, <2>2, <2>3
<1>7. PICK q : q = Resolved(s)
  OBVIOUS
<1>8. q = NextPart(w, d)
  BY ONLY <1>5, <1>7 DEF Resolved, ResolvedIn, NextPart
<1>9. r = MkdirResult(s)
  BY ONLY <1>5, r = StepResult(w, d) DEF StepResult
<1>10. /\ r = "0" => tree' = SetKind(tree, q, "dir")
       /\ r # "0" => tree' = tree
       /\ making' = [making EXCEPT
            ![m].done = IF GoesOn(r) THEN @ + 1 ELSE @,
            ![m].result = IF ~GoesOn(r) THEN "failed" ELSE IF s = c.path THEN "0" ELSE @]
  <2>1. SubSeq(making[m].path, 1, making[m].done + 1) = s
    BY ONLY <1>2, <1>3, <1>5 DEF Prefix
  <2> QED
    BY ONLY <1>2, <1>7, <1>9, <2>1, MkdirStep(m) DEF MkdirStep, SetKind
<1>11. r = "0" => KindIn(tree, q) = "none"
  BY ONLY <1>7, <1>9, KindIsKindIn DEF MkdirResult
<1>12. Adds(tree, tree')
  <2>1. CASE r = "0"
    <3>1. \A p \in Path : tree'[p] = IF p = q THEN "dir" ELSE tree[p]
      BY ONLY <1>10, <2>1, tree \in [Path -> Kind] DEF SetKind
    <3>2. tree' \in [Path -> Kind]
      <4>1. "dir" \in Kind
        BY DEF Kind
      <4> QED
        BY ONLY <1>10, <2>1, <4>1, tree \in [Path -> Kind] DEF SetKind
    <3>3. \A p \in Path : p = q => tree[p] = "none"
      BY ONLY <1>11, <2>1, NoEmptyPath DEF KindIn
    <3> QED
      BY ONLY <3>1, <3>2, <3>3 DEF Adds
  <2>2. CASE r # "0"
    BY ONLY <1>10, <2>2, tree \in [Path -> Kind] DEF Adds
  <2> QED
    BY <2>1, <2>2
<1>13. PICK c1 : c1 = [c EXCEPT !.done = IF GoesOn(r) THEN d + 1 ELSE d]
  OBVIOUS
<1>14. PICK c2 : c2 = [c1 EXCEPT !.result =
          IF ~GoesOn(r) THEN "failed" ELSE IF d + 1 = Len(w) THEN "0" ELSE "running"]
  OBVIOUS
<1>15. /\ c1 \in Call /\ c1.path = w /\ c1.lost = c.lost /\ c1.result = "running"
       /\ c1.done = IF GoesOn(r) THEN d + 1 ELSE d
  BY ONLY <1>2, <1>3, <1>13 DEF Call
<1>16. /\ c2 \in Call /\ c2.path = w /\ c2.lost = c.lost
       /\ c2.done = IF GoesOn(r) THEN d + 1 ELSE d
       /\ c2.result = IF ~GoesOn(r) THEN "failed" ELSE IF d + 1 = Len(w) THEN "0" ELSE "running"
  BY ONLY <1>14, <1>15 DEF Call
<1>17. making' = [making EXCEPT ![m] = c2]
  <2>1. PICK k1 : k1 = [making EXCEPT ![m] = c1]
    OBVIOUS
  <2>2. k1 = [making EXCEPT ![m].done = IF GoesOn(r) THEN @ + 1 ELSE @]
    BY ONLY <1>2, <1>3, <1>13, <2>1
  <2>3. k1[m] = c1
    BY ONLY <1>1, <2>1
  <2>4. making' = [k1 EXCEPT ![m].result = IF ~GoesOn(r) THEN "failed" ELSE IF s = c.path THEN "0" ELSE @]
    BY ONLY <1>10, <2>2
  <2>5. making' = [k1 EXCEPT ![m] = c2]
    BY ONLY <1>3, <1>6, <1>14, <1>15, <2>3, <2>4
  <2> QED
    BY ONLY <2>1, <2>5
<1>18. making'[m] = c2 /\ making' \in [Makers -> Call] /\ \A x \in Makers : x # m => making'[x] = making[x]
  BY ONLY <1>1, <1>16, <1>17, m \in Makers
<1> QED
  BY ONLY <1>1, <1>2, <1>3, <1>8, <1>10, <1>12, <1>16, <1>18

LEMMA MkdirStepKeeps ==
  ASSUME MakingInv, tree \in [Path -> Kind], NEW m \in Makers, MkdirStep(m)
  PROVE  MakingInv'
<1>1. PICK w, d, r : w = making[m].path /\ d = making[m].done /\ r = StepResult(w, d)
  OBVIOUS
<1>2. /\ UnderWay(tree, making[m]) /\ w \in Wanted /\ d \in Nat /\ d < Len(w)
      /\ Adds(tree, tree')
      /\ r = "0" => tree' = SetKind(tree, NextPart(w, d), "dir")
      /\ r # "0" => tree' = tree
      /\ \A x \in Makers : x # m => making'[x] = making[x]
      /\ making' \in [Makers -> Call]
      /\ making'[m].path = w /\ making'[m].lost = making[m].lost
      /\ making'[m].done = IF GoesOn(r) THEN d + 1 ELSE d
      /\ making'[m].result = IF ~GoesOn(r) THEN "failed" ELSE IF d + 1 = Len(w) THEN "0" ELSE "running"
  BY ONLY MakingInv, tree \in [Path -> Kind], m \in Makers, MkdirStep(m), <1>1, MkdirStepDoes
<1>3. /\ making \in [Makers -> Call]
      /\ \A x \in Makers : Making(x) => UnderWay(tree, making[x])
  BY DEF MakingInv
<1>4. w \in Seq(Name) /\ Len(w) \in Nat
  BY ONLY <1>2, WantedIsPath
<1>5. ASSUME making'[m].result = "running"
      PROVE  UnderWay(tree', making'[m])
  <2>1. GoesOn(r) /\ d + 1 < Len(w) /\ making'[m].done = d + 1
    BY ONLY <1>2, <1>4, <1>5
  <2>2. ASSUME ~making[m].lost
        PROVE  MadeSoFar(tree', w, d + 1)
    <3>1. MadeSoFar(tree, w, d)
      BY ONLY <1>1, <1>2, <2>2 DEF UnderWay
    <3>2. /\ NextPart(w, d) \in Path
          /\ IF PartLeads(tree, w, d) # "dir" THEN r \in {"ENOENT", "ENOTDIR"}
             ELSE r = IF KindIn(tree, NextPart(w, d)) = "none" THEN "0" ELSE "EEXIST"
      BY ONLY <1>1, <1>2, MkdirFinds DEF StepResult
    <3>3. PartLeads(tree, w, d) = "dir"
          /\ r = IF KindIn(tree, NextPart(w, d)) = "none" THEN "0" ELSE "EEXIST"
      BY ONLY <2>1, <3>2 DEF GoesOn
    <3>4. /\ MadeSoFar(tree', w, d) /\ PartLeads(tree', w, d) = "dir"
          /\ ResolvedIn(tree', Prefix(w, d + 1)) = NextPart(w, d)
      <4>1. d <= Len(w)
        BY ONLY <1>2, <1>4
      <4> QED
        BY ONLY <1>2, <1>4, <3>1, <3>3, <4>1, tree \in [Path -> Kind], AddsKeepsMade DEF NextPart
    <3>5. KindIn(tree', NextPart(w, d)) # "none"
      <4>1. CASE KindIn(tree, NextPart(w, d)) = "none"
        <5>1. tree' = SetKind(tree, NextPart(w, d), "dir")
          BY ONLY <1>2, <3>3, <4>1
        <5> QED
          BY ONLY <3>2, <5>1, NoEmptyPath, tree \in [Path -> Kind] DEF KindIn, SetKind
      <4>2. CASE KindIn(tree, NextPart(w, d)) # "none"
        <5>1. PICK e : e = NextPart(w, d)
          OBVIOUS
        <5>2. KindIn(tree', e) = KindIn(tree, e)
          BY ONLY <1>2, <4>2, <5>1, tree \in [Path -> Kind], AddsKeeps
        <5> QED
          BY ONLY <4>2, <5>1, <5>2
      <4> QED
        BY <4>1, <4>2
    <3>6. PartKind(tree', w, d + 1) # "none"
      BY ONLY <3>4, <3>5 DEF PartKind
    <3>7. \A i \in 0 .. d + 1 : i = d + 1 \/ (i \in 0 .. d /\ (i = d \/ i < d))
      BY ONLY <1>2
    <3> QED
      BY ONLY <1>2, <3>4, <3>6, <3>7 DEF MadeSoFar
  <2> QED
    BY ONLY <1>2, <2>1, <2>2 DEF UnderWay
<1>6. ASSUME NEW x \in Makers, making'[x].result = "running"
      PROVE  UnderWay(tree', making'[x])
  <2>1. CASE x = m
    BY ONLY <1>5, <1>6, <2>1
  <2>2. CASE x # m
    <3>1. making'[x] = making[x] /\ making[x] \in Call
      BY ONLY <1>2, <1>3, <2>2, x \in Makers
    <3>2. UnderWay(tree, making[x])
      BY ONLY <1>3, <1>6, <3>1 DEF Making
    <3>3. UnderWay(tree', making[x])
      BY ONLY <1>2, <3>1, <3>2, tree \in [Path -> Kind], AddsKeepsUnderWay
    <3> QED
      BY ONLY <3>1, <3>3
  <2> QED
    BY <2>1, <2>2
<1> QED
  BY ONLY <1>2, <1>6 DEF MakingInv, Making

\* Only a step of its own ends a call.
Blocked(w, i) == PartKind(tree, w, i) # "none" /\ PartLeads(tree, w, i) # "dir"
LEMMA MkdirEnds ==
  ASSUME MakingInv, tree \in [Path -> Kind], NEW m \in Makers, MkdirStep(m), ~making[m].lost,
         making'[m].result # "running",
         NEW w, w = making[m].path, NEW L, L = Len(w)
  PROVE  IF \E i \in 1 .. L - 1 : Blocked(w, i)
         THEN making'[m].result = "failed"
         ELSE /\ making'[m].result = "0"
              /\ \A i \in 1 .. L - 1 : PartLeads(tree, w, i) = "dir"
              /\ tree'[ResolvedIn(tree, w)] # "none"
<1>1. PICK d, r : d = making[m].done /\ r = StepResult(w, d)
  OBVIOUS
<1>2. /\ UnderWay(tree, making[m]) /\ w \in Wanted /\ d \in Nat /\ d < Len(w)
      /\ Adds(tree, tree')
      /\ r = "0" => tree' = SetKind(tree, NextPart(w, d), "dir")
      /\ r # "0" => tree' = tree
      /\ making'[m].result = IF ~GoesOn(r) THEN "failed" ELSE IF d + 1 = Len(w) THEN "0" ELSE "running"
  <2>1. w = making[m].path
    OBVIOUS
  <2> QED
    BY ONLY MakingInv, tree \in [Path -> Kind], m \in Makers, MkdirStep(m), <1>1, <2>1, MkdirStepDoes
<1>3. L \in Nat /\ d + 1 <= L /\ w \in Seq(Name)
  BY ONLY <1>2, L = Len(w), WantedIsPath
<1>4. MadeSoFar(tree, w, d)
  BY ONLY <1>1, <1>2, ~making[m].lost, w = making[m].path DEF UnderWay
<1>5. /\ NextPart(w, d) \in Path
      /\ IF PartLeads(tree, w, d) # "dir" THEN r \in {"ENOENT", "ENOTDIR"}
         ELSE r = IF KindIn(tree, NextPart(w, d)) = "none" THEN "0" ELSE "EEXIST"
  BY ONLY <1>1, <1>2, MkdirFinds DEF StepResult
<1>6. CASE PartLeads(tree, w, d) # "dir"
  <2>1. d # 0
    BY ONLY <1>3, <1>6, TopIsThere
  <2>2. d \in 1 .. L - 1 /\ d \in 0 .. d
    BY ONLY <1>2, <1>3, <2>1
  <2>3. Blocked(w, d)
    BY ONLY <1>4, <1>6, <2>2 DEF Blocked, MadeSoFar
  <2>4. making'[m].result = "failed"
    BY ONLY <1>2, <1>5, <1>6 DEF GoesOn
  <2> QED
    BY ONLY <2>2, <2>3, <2>4
<1>7. CASE PartLeads(tree, w, d) = "dir"
  <2>1. r = IF KindIn(tree, NextPart(w, d)) = "none" THEN "0" ELSE "EEXIST"
    BY ONLY <1>5, <1>7
  <2>2. GoesOn(r)
    BY ONLY <2>1 DEF GoesOn
  <2>3. d + 1 = L /\ making'[m].result = "0"
    BY ONLY <1>2, <2>2, making'[m].result # "running", L = Len(w)
  <2>4. \A i \in 1 .. L - 1 : i \in 0 .. d /\ (i < d \/ i = d)
    BY ONLY <1>2, <2>3
  <2>5. \A i \in 1 .. L - 1 : PartLeads(tree, w, i) = "dir"
    BY ONLY <1>4, <1>7, <2>4 DEF MadeSoFar
  <2>6. ResolvedIn(tree, w) = NextPart(w, d)
    <3>1. Prefix(w, d + 1) = w
      BY ONLY <1>3, <2>3, L = Len(w), PrefixWhole
    <3> QED
      BY ONLY <3>1 DEF NextPart
  <2>7. tree'[NextPart(w, d)] # "none"
    <3>1. CASE KindIn(tree, NextPart(w, d)) = "none"
      <4>1. tree' = SetKind(tree, NextPart(w, d), "dir")
        BY ONLY <1>2, <2>1, <3>1
      <4> QED
        BY ONLY <1>5, <4>1, tree \in [Path -> Kind] DEF SetKind
    <3>2. CASE KindIn(tree, NextPart(w, d)) # "none"
      BY ONLY <1>2, <1>5, <3>2, NoEmptyPath DEF Adds, KindIn
    <3> QED
      BY <3>1, <3>2
  <2> QED
    BY ONLY <2>3, <2>5, <2>6, <2>7 DEF Blocked
<1> QED
  BY <1>6, <1>7

LEMMA MakingBegins ==
  ASSUME TreeInit
  PROVE  MakingInv
<1>1. making = [m \in Makers |-> NoMaking]
  BY DEF TreeInit
<1>2. NoMaking \in Call /\ NoMaking.result # "running"
  BY DEF NoMaking, Call
<1> QED
  BY ONLY <1>1, <1>2 DEF MakingInv, Making

\* A step of a maker, or one that ends no call.
LEMMA MakingStays ==
  ASSUME TreeInv, MakingInv, TreeNext
  PROVE  /\ MakingInv'
         /\ \A m \in Makers : MkdirStep(m) \/ ~Making(m) \/ making'[m].result = making[m].result
<1>1. tree \in [Path -> Kind] /\ making \in [Makers -> Call]
  BY DEF TreeInv, MakingInv
<1>2. CASE Drops
  BY ONLY MakingInv, <1>2, DropsKeepsMaking
<1>3. CASE Adds(tree, tree') /\ making' = making
  <2>1. MakingInv'
    BY ONLY MakingInv, <1>1, <1>3, AddsKeepsMaking
  <2> QED
    BY ONLY <1>3, <2>1
<1>4. CASE Remover
  <2>1. (tree' = tree /\ making' = making) \/ Drops
    BY ONLY <1>1, <1>4, RemoverDeletes DEF Drops
  <2>2. tree' = tree => Adds(tree, tree')
    BY ONLY <1>1 DEF Adds
  <2> QED
    BY ONLY <1>2, <1>3, <2>1, <2>2
<1>5. ASSUME NEW p \in Touched, Touch(p)
      PROVE  /\ MakingInv'
             /\ \A m \in Makers : MkdirStep(m) \/ ~Making(m) \/ making'[m].result = making[m].result
  <2>1. tree' \in [Path -> Kind]
    BY ONLY TreeInv, <1>5, TreeStays, TreeNext DEF TreeInv
  <2>2. (Adds(tree, tree') /\ making' = making) \/ Drops
    BY ONLY <1>1, <1>5, <2>1, TouchChanges
  <2> QED
    BY ONLY <1>2, <1>3, <2>2
<1>6. ASSUME NEW x \in Makers, BeginMkdirs(x)
      PROVE  /\ MakingInv'
             /\ \A m \in Makers : MkdirStep(m) \/ ~Making(m) \/ making'[m].result = making[m].result
  <2>1. MakingInv'
    BY ONLY MakingInv, <1>6, BeginMkdirsKeeps
  <2>2. \A m \in Makers : m # x => making'[m] = making[m]
    BY ONLY <1>1, <1>6 DEF BeginMkdirs
  <2>3. ~Making(x)
    BY ONLY <1>6 DEF BeginMkdirs
  <2> QED
    BY ONLY <2>1, <2>2, <2>3
<1>7. ASSUME NEW x \in Makers, MkdirStep(x)
      PROVE  /\ MakingInv'
             /\ \A m \in Makers : MkdirStep(m) \/ ~Making(m) \/ making'[m].result = making[m].result
  <2>1. MakingInv'
    BY ONLY MakingInv, <1>1, <1>7, MkdirStepKeeps
  <2>2. PICK w, d, r : w = making[x].path /\ d = making[x].done /\ r = StepResult(w, d)
    OBVIOUS
  <2>3. \A m \in Makers : m # x => making'[m] = making[m]
    BY ONLY MakingInv, <1>1, <1>7, <2>2, MkdirStepDoes
  <2> QED
    BY ONLY <1>7, <2>1, <2>3
<1> QED
  BY ONLY TreeNext, <1>4, <1>5, <1>6, <1>7 DEF TreeNext

LEMMA MakersMeet ==
  ASSUME TreeInv, MakingInv, TreeNext
  PROVE  MkdirsMeetStep
<1> SUFFICES ASSUME NEW m \in Makers, Making(m), making'[m].result # "running", ~making[m].lost
             PROVE  LET c == making[m]
                        Above == {SubSeq(c.path, 1, i) : i \in 1 .. Len(c.path) - 1}
                    IN  IF \E p \in Above : There(p) /\ ~LeadsToDir(p)
                        THEN making'[m].result = "failed"
                        ELSE /\ making'[m].result = "0"
                             /\ \A p \in Above : LeadsToDir(p)
                             /\ tree'[Resolved(c.path)] # "none"
  BY DEF MkdirsMeetStep
<1>1. MkdirStep(m)
  BY ONLY TreeInv, MakingInv, TreeNext, m \in Makers, Making(m), making'[m].result # "running", MakingStays
     DEF Making
<1>2. PICK w, L : w = making[m].path /\ L = Len(w)
  OBVIOUS
<1>3. tree \in [Path -> Kind]
  BY DEF TreeInv
<1>4. IF \E i \in 1 .. L - 1 : Blocked(w, i)
      THEN making'[m].result = "failed"
      ELSE /\ making'[m].result = "0"
           /\ \A i \in 1 .. L - 1 : PartLeads(tree, w, i) = "dir"
           /\ tree'[ResolvedIn(tree, w)] # "none"
  BY ONLY MakingInv, <1>1, <1>2, <1>3, m \in Makers, ~making[m].lost, making'[m].result # "running", MkdirEnds
<1>5. /\ \A p : Resolved(p) = ResolvedIn(tree, p)
      /\ \A i : (There(Prefix(w, i)) /\ ~LeadsToDir(Prefix(w, i))) <=> Blocked(w, i)
      /\ \A i : LeadsToDir(Prefix(w, i)) <=> PartLeads(tree, w, i) = "dir"
  <2>1. \A p : Resolved(p) = ResolvedIn(tree, p)
    BY DEF Resolved, ResolvedIn
  <2> QED
    BY ONLY <2>1, KindIsKindIn DEF There, LeadsToDir, Blocked, PartKind, PartLeads
<1> DEFINE Above == {Prefix(w, i) : i \in 1 .. L - 1}
<1>6. (\E p \in Above : There(p) /\ ~LeadsToDir(p)) <=> (\E i \in 1 .. L - 1 : Blocked(w, i))
  BY ONLY <1>5
<1>7. (\A p \in Above : LeadsToDir(p)) <=> (\A i \in 1 .. L - 1 : PartLeads(tree, w, i) = "dir")
  BY ONLY <1>5
<1>8. Above = {SubSeq(making[m].path, 1, i) : i \in 1 .. Len(making[m].path) - 1}
  BY ONLY <1>2 DEF Prefix
<1> HIDE DEF Above
<1> QED
  BY ONLY <1>2, <1>4, <1>5, <1>6, <1>7, <1>8

\* pcl_mkdirs of any number of processes, for any paths: a call in whose time
\* nothing is removed or replaced fails exactly when a component above the last is
\* there and leads to no directory, and otherwise all of them lead to one and the
\* last is there when it returns 0, as a plain file too (mkdirs.c:69-84).
THEOREM DirMkdirsMeet == TreeSpec => MkdirsMeet
<1> DEFINE Inv == TreeInv /\ MakingInv
<1>1. TreeInit => Inv
  BY TreeBegins, MakingBegins
<1>2. Inv /\ [TreeNext]_treeVars => Inv'
  <2>1. CASE TreeNext
    BY <2>1, TreeStays, MakingStays
  <2>2. ASSUME Inv, UNCHANGED treeVars
        PROVE  Inv'
    <3>1. TreeInv'
      BY <2>2, TreeStays
    <3>2. UNCHANGED <<tree, making>>
      BY <2>2 DEF treeVars
    <3>3. MakingInv'
      BY <2>2, <3>2 DEF MakingInv, Making
    <3> QED
      BY <3>1, <3>3
  <2> QED
    BY <2>1, <2>2
<1>3. Inv /\ [TreeNext]_treeVars => [MkdirsMeetStep]_treeVars
  BY MakersMeet
<1> QED
  BY <1>1, <1>2, <1>3, PTL DEF TreeSpec, MkdirsMeet
=============================================================================
