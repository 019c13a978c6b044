----------------------------- MODULE ErrorState -----------------------------
(***************************************************************************)
(* The error object of one thread (src/error): the code, the OS code, the  *)
(* stack trace and the frozen flag; and the regions of library and         *)
(* application code that freeze it.  Regions nest because functions call   *)
(* each other, but "frozen" is a flag, not a count.  Other threads have    *)
(* objects of their own (Runtime), so one thread is enough.                *)
(***************************************************************************)
EXTENDS Naturals, Sequences

CONSTANTS
  Code,        \* error codes other than PCL_EOKAY
  OsCode,      \* values of errno other than 0
  Site,        \* places in the source that set or trace an error
  EOKAY,       \* PCL_EOKAY
  Document,    \* JSON documents given to pcl_err_setjson
  MaxTrace,    \* bound: traces on top of each other
  MaxDepth     \* bound: regions inside each other

Error == [err : Code \cup {EOKAY}, oserr : OsCode \cup {0},
          strace : UNION {[1 .. n -> Site] : n \in 0 .. MaxTrace}]

ASSUME ErrorAssumption ==
  /\ EOKAY \notin Code
  /\ OsCode \subseteq Nat \ {0}
  /\ MaxTrace \in Nat /\ MaxDepth \in Nat
  /\ Document \subseteq Error

VARIABLES
  frozen, err, oserr,
  strace,      \* the stack trace, its head first
  buffer,      \* the output buffer has been created
  os,          \* errno
  regions      \* regions that are open, the innermost last

errorVars == <<frozen, err, oserr, strace, buffer, os, regions>>

Current == [err |-> err, oserr |-> oserr, strace |-> strace]

(* "pair":  pcl_err_freeze(true) ... pcl_err_freeze(false) (file_close.c,   *)
(*          htable_put.c, json_match.c, log_vevent.c);                      *)
(* "macro": FREEZE_ERR, which also keeps errno;                             *)
(* "print": pcl_err_vfprintf and _vsprintf, which keep the flag.            *)
(* entry and thawed are history: the error when the region was entered,     *)
(* and whether a region inside it, now closed, has thawed the object.       *)
Region == [kind : {"pair", "macro", "print"}, was : BOOLEAN,
           os : OsCode \cup {0}, entry : Error, thawed : BOOLEAN]

ErrorInit ==
  /\ frozen = FALSE
  /\ err = EOKAY /\ oserr = 0 /\ strace = <<>>
  /\ buffer = FALSE
  /\ os = 0
  /\ regions = <<>>

Innermost == regions[Len(regions)]
Printing == regions # <<>> /\ Innermost.kind = "print"

-----------------------------------------------------------------------------
(* Setting, tracing and clearing; nothing happens to a frozen object.      *)
\* Any system call may set errno.
SystemCall ==
  /\ os' \in OsCode
  /\ UNCHANGED <<frozen, err, oserr, strace, buffer, regions>>

Becomes(e) == err' = e.err /\ oserr' = e.oserr /\ strace' = e.strace

\* pcl_err_clear.
KeepsOsError == [err |-> EOKAY, oserr |-> oserr, strace |-> <<>>]
NoError == [err |-> EOKAY, oserr |-> 0, strace |-> <<>>]
ErrClear ==
  /\ ~frozen
  /\ Becomes(NoError)
  /\ os' = 0
  /\ UNCHANGED <<frozen, buffer, regions>>

\* pcl_err_vset; with PCL_EOKAY it is pcl_err_clear.
IgnoresFrozen == TRUE
MaySet == ~frozen
ErrSet(e, o, s) ==
  /\ MaySet
  /\ Becomes([err |-> e, oserr |-> o, strace |-> <<s>>])
  /\ os' = 0
  /\ UNCHANGED <<frozen, buffer, regions>>

\* pcl_err_vtrace.
Pushed(fz, s, trace) == IF fz THEN trace ELSE <<s>> \o trace
ErrTrace(s) ==
  /\ ~frozen
  /\ Len(strace) < MaxTrace
  /\ strace' = Pushed(frozen, s, strace)
  /\ UNCHANGED <<frozen, err, oserr, buffer, os, regions>>

-----------------------------------------------------------------------------
(* Regions. *)
Open(kind) ==
  /\ Len(regions) < MaxDepth /\ ~Printing
  /\ regions' = Append(regions, [kind |-> kind, was |-> frozen, os |-> os,
                                 entry |-> Current, thawed |-> FALSE])
  /\ frozen' = TRUE
  /\ UNCHANGED <<err, oserr, strace, os>>

OpenPair == Open("pair") /\ UNCHANGED buffer
OpenMacro == Open("macro") /\ UNCHANGED buffer
\* ipcl_err_serialize makes the buffer when there is an error to print.
OpenPrint ==
  /\ Open("print")
  /\ buffer' = (buffer \/ (strace # <<>> /\ err # EOKAY))

\* The regions around the one that is closed, which find the object thawed.
Outer == SubSeq(regions, 1, Len(regions) - 1)
Thawing == [i \in 1 .. Len(regions) - 1 |-> [regions[i] EXCEPT !.thawed = TRUE]]

Closes(kind) == regions # <<>> /\ Innermost.kind = kind

ClosePair ==
  /\ Closes("pair")
  /\ frozen' = FALSE
  /\ regions' = Thawing
  /\ UNCHANGED <<err, oserr, strace, buffer, os>>

CloseMacro ==
  /\ Closes("macro")
  /\ frozen' = FALSE
  /\ os' = Innermost.os
  /\ regions' = Thawing
  /\ UNCHANGED <<err, oserr, strace, buffer>>

NotKept == TRUE
WasFrozen == Innermost.was
ClosePrint ==
  /\ Closes("print")
  /\ frozen' = WasFrozen
  /\ regions' = Outer
  /\ UNCHANGED <<err, oserr, strace, buffer, os>>

-----------------------------------------------------------------------------
(* JSON. *)
\* pcl_err_vjson: its pcl_htable_put calls are pairs.
ToJson ==
  /\ ~Printing
  /\ frozen' = FALSE
  /\ regions' = [i \in 1 .. Len(regions) |-> [regions[i] EXCEPT !.thawed = TRUE]]
  /\ UNCHANGED <<err, oserr, strace, buffer, os>>

\* The loop of pcl_err_setjson: one pcl_err_trace per element, last first, on
\* an object whose flag is fz.
Traces(fz, trace) == IF fz THEN <<>> ELSE trace

\* pcl_err_setjson sets the flag before the loop, so no trace is added; a
\* document it cannot read is an ErrSet.
SetJson(d) ==
  /\ ~frozen
  /\ Becomes([err |-> d.err, oserr |-> d.oserr, strace |-> Traces(TRUE, d.strace)])
  /\ frozen' = FALSE
  /\ os' = 0
  /\ UNCHANGED <<buffer, regions>>

ErrorNext ==
  \/ SystemCall
  \/ ErrClear
  \/ \E e \in Code, o \in {0, os}, s \in Site : ErrSet(e, o, s)
  \/ \E s \in Site : ErrTrace(s)
  \/ OpenPair \/ OpenMacro \/ OpenPrint
  \/ ClosePair \/ CloseMacro \/ ClosePrint
  \/ ToJson
  \/ \E d \in Document : SetJson(d)

ErrorSpec == ErrorInit /\ [][ErrorNext]_errorVars

-----------------------------------------------------------------------------
\* Types; an OS code only ever comes with an error (include/pcl/error.h:137).
ErrorTypeOK ==
  /\ frozen \in BOOLEAN /\ buffer \in BOOLEAN
  /\ Current \in Error
  /\ oserr # 0 => err # EOKAY
  /\ os \in OsCode \cup {0}
  /\ regions \in Seq(Region) /\ Len(regions) <= MaxDepth

\* The object of a thread in no region is not frozen: no nesting of the three
\* kinds of region leaves a thread that can set no error any more
\* (err_freeze.c, err_vfprintf.c, err_setjson.c).
ThawedOutside == regions = <<>> => ~frozen

\* A region that ends has the error it began with, unless a region inside it
\* thawed the object for it: whatever the code inside sets, traces or clears,
\* also while it prints (err_vset.c:39, err_vtrace.c:42, err_clear.c:39).
Closing == Len(regions') < Len(regions)
RegionKeepsError == [][
  Closing /\ ~Innermost.thawed => Innermost.entry = Current /\ Current' = Current
  ]_errorVars

\* FREEZE_ERR "is useful when performing cleanup code and it is desired to
\* preserve error" (include/pcl/_errdefs.h:40).
FreezePreserves == [][
  Closing /\ Innermost.kind = "macro" => Innermost.entry = Current'
  ]_errorVars
=============================================================================
