------------------------------- MODULE Sleep -------------------------------
(***************************************************************************)
(* pcl_sleep (src/time/sleep.c): a thread sleeps, signals interrupt it,    *)
(* and a condition that other threads change may end the sleep early.      *)
(* Time is what nanosleep has slept, in units of the smallest interval.    *)
(***************************************************************************)
EXTENDS Naturals

CONSTANT MaxNsecs   \* bound: what may be asked for

VARIABLES
  at,          \* "idle", "ask", "nap" or "done"
  asked,       \* [nsecs, polled, interval] of the call
  nsecs,       \* sleep_cond: what is left to sleep
  amt,         \* what nanosleep is to sleep
  condition,   \* what cond() returns
  slept,       \* the time that has passed
  heard,       \* cond() returned true to the call
  failed,      \* nanosleep failed other than with EINTR
  result

sleepVars == <<at, asked, nsecs, amt, condition, slept, heard, failed, result>>

Least(m, n) == IF m < n THEN m ELSE n

SleepInit ==
  /\ at = "idle" /\ nsecs = 0 /\ amt = 0 /\ slept = 0
  /\ asked = [nsecs |-> 0, polled |-> FALSE, interval |-> 1]
  /\ condition = FALSE /\ heard = FALSE /\ failed = FALSE /\ result = FALSE

\* With a condition it is asked first; the naps are then an interval long.
Begin(ns, polled, interval) ==
  /\ at = "idle"
  /\ at' = IF polled THEN "ask" ELSE "nap"
  /\ asked' = [nsecs |-> ns, polled |-> polled, interval |-> interval]
  /\ nsecs' = ns /\ amt' = ns
  /\ UNCHANGED <<condition, slept, heard, failed, result>>

Returns(value) == at' = "done" /\ result' = value

\* cond() is called: it ends the call, or an interval of what is left follows.
\* When nothing is left after a nap the call ends as well.
Ask(again) ==
  /\ at = IF again THEN "again" ELSE "ask"
  /\ heard' = condition
  /\ IF condition \/ (again /\ nsecs = 0)
       THEN Returns(TRUE) /\ UNCHANGED amt
       ELSE /\ at' = "nap" /\ amt' = Least(nsecs, asked.interval)
            /\ UNCHANGED result
  /\ UNCHANGED <<asked, nsecs, condition, slept, failed>>

\* nanosleep is interrupted: it is called again for what remains.
Interrupted(remaining) ==
  /\ at = "nap" /\ remaining < amt
  /\ slept' = slept + (amt - remaining) /\ amt' = remaining
  /\ UNCHANGED <<at, asked, nsecs, condition, heard, failed, result>>

\* The nap is over.  sleep_cond takes the true of its own call of pcl_sleep for
\* a failure, and its false for a nap.
NapReturns(ok) ==
  /\ at = "nap"
  /\ slept' = IF ok THEN slept + amt ELSE slept
  /\ failed' = (failed \/ ~ok)
  /\ IF ~asked.polled THEN Returns(ok) /\ UNCHANGED nsecs
     ELSE IF ok THEN Returns(FALSE) /\ UNCHANGED nsecs
     ELSE /\ at' = "again" /\ nsecs' = nsecs - Least(nsecs, asked.interval)
          /\ UNCHANGED result
  /\ UNCHANGED <<asked, amt, condition, heard>>

\* Another thread, at any time.
ConditionChanges ==
  /\ at # "done"
  /\ condition' = ~condition
  /\ UNCHANGED <<at, asked, nsecs, amt, slept, heard, failed, result>>

SleepNext ==
  \/ \E ns \in 0 .. MaxNsecs, polled \in BOOLEAN, interval \in 1 .. MaxNsecs :
       Begin(ns, polled, interval)
  \/ \E again \in BOOLEAN : Ask(again)
  \/ \E remaining \in 0 .. MaxNsecs : Interrupted(remaining)
  \/ \E ok \in BOOLEAN : NapReturns(ok)
  \/ ConditionChanges

SleepSpec == SleepInit /\ [][SleepNext]_sleepVars

-----------------------------------------------------------------------------
\* "return true for success and false otherwise. When cond is not NULL, true
\* can mean the cond returned true or the function slept for the entire nsecs"
\* (pcl/time.h:134): unless nanosleep failed, a call returns true, and has slept
\* for all it was asked for or heard its condition.
SleepReturnsTrue ==
  at = "done" /\ ~failed => result /\ (heard \/ slept = asked.nsecs)
=============================================================================
