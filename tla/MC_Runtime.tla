---- MODULE MC_Runtime ----
(* Runtime for TLC: a process of three threads with two handlers of its    *)
(* own.  MC_Runtime.cfg has one caller of pcl_init, a thread to be created *)
(* and a thread made by other means; MC_Runtime_init.cfg two callers.      *)
EXTENDS Runtime
CONSTANTS main, worker, stranger, audit, report

Threads == {main, worker, stranger}
TwoThreads == {main, worker}
UserHandlers == {audit, report}
OneCaller == {main}
OneForeign == {stranger}
None == {}
=============================================================================
