---------------------------- MODULE MC_Threads ----------------------------
(* What several threads of a process do at once, one kind at a time: the   *)
(* run time and its event handlers, or calls of pcl_proc_exec.             *)
EXTENDS MC_Runtime, MC_ProcExec

VARIABLE kind
threadVars == <<kind, vars, procVars>>

ThreadsInit == kind \in {"events", "exec"} /\ Init /\ ExecInit

Events(A) == kind = "events" /\ A
Execs(A) == kind = "exec" /\ A

ThreadsNext ==
  \/ Events(Next) /\ UNCHANGED <<kind, procVars>>
  \/ Execs(ExecNext) /\ UNCHANGED <<kind, vars>>

\* Fairness and ExecFairness, each for the behaviours of its kind.
ThreadsFairness ==
  /\ \A t \in Thread :
       /\ WF_vars(Events(PclInit(t))) /\ WF_vars(Events(EventStep(t)))
       /\ WF_vars(Events(ThreadStarts(t)))
  /\ \A t \in Starters :
       /\ WF_procVars(Execs(ThreadStep(t))) /\ WF_procVars(Execs(ChildStep(t)))
       /\ WF_procVars(Execs(ProgramEnds(t))) /\ WF_procVars(Execs(ClosesFile(t)))

ThreadsSpec == ThreadsInit /\ [][ThreadsNext]_threadVars /\ ThreadsFairness

\* See EventCallsReturn of Runtime.
EventsReturn == kind = "events" => EventCallsReturn
=============================================================================
