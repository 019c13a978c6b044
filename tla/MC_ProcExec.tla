---------------------------- MODULE MC_ProcExec ----------------------------
(* ProcExec with two threads and the pipes of the standard input and       *)
(* output: one pipe the parent writes and one it reads.  In MC_ProcExec.cfg *)
(* programs end by themselves; in MC_ProcExec_eof.cfg they first read their *)
(* input to the end, as cat or sort does.                                  *)
EXTENDS ProcExec
CONSTANTS t1, t2
TwoStarters == {t1, t2}
InOut == <<"in", "out">>
=============================================================================
