---------------------------- MODULE JobExecution ----------------------------
(***************************************************************************)
(* One call of fork_and_make: the forked child that becomes make, and the  *)
(* worker's loop that samples its cost every 50 ms, notices the overdraft  *)
(* and the user's stop request, kills the process group and reaps the      *)
(* child.  Time is a counter of seconds; a cost is wall time at WallRate   *)
(* plus whatever the job's processes have used (cpu time, forks).          *)
(***************************************************************************)
EXTENDS Integers

CONSTANTS
  Balance,          \* user_balance_at_start
  WallRate,         \* pricing.wall_time_factor
  Allowed,          \* pricing.overdraft_seconds_allowed
  ClockMayStepBack, \* whether SystemTime::elapsed may return Err
  MaxLag,           \* bound: seconds between two rounds of the loop
  MaxTime,          \* bound: seconds of a run
  MaxUsage          \* bound: cost of cpu time and forks

ASSUME BalanceAssumption  == Balance \in Int
ASSUME WallRateAssumption == WallRate \in Nat \ {0}
ASSUME AllowedAssumption  == Allowed \in Nat
ASSUME ClockAssumption    == ClockMayStepBack \in BOOLEAN
ASSUME BoundsAssumption   ==
  MaxLag \in Nat /\ MaxTime \in Nat /\ MaxUsage \in Nat

VARIABLES
  phase,       \* "fork", "sample", "sleep", "done", "failed" or "panicked"
  child,       \* "none", "starting" (no group yet), "running", "zombie", "reaped"
  ended_by,    \* how the child died: "nobody", "self", "signal" or "kill" (ours)
  usage,       \* cost of cpu time and forks so far
  now,         \* seconds since the fork
  sampled_at,  \* when the last sample was taken
  cancelled,   \* the stop token
  should_die,  \* child_should_die
  cause,       \* termination_cause
  overdraft_started_at,
  cost,        \* grand total of the last sample, which the order is charged
  exit_status  \* child_exit_status: "none", "code" or "errno"

jobVars == <<phase, child, ended_by, usage, now, sampled_at, cancelled,
             should_die, cause, overdraft_started_at, cost, exit_status>>

NotYet == -1   \* overdraft_started_at before the first overdraft
Causes == {"NaturalTermination", "UserKill", "BalanceKill"}

JobTypeOK ==
  /\ phase \in {"fork", "sample", "sleep", "done", "failed", "panicked"}
  /\ child \in {"none", "starting", "running", "zombie", "reaped"}
  /\ ended_by \in {"nobody", "self", "signal", "kill"}
  /\ usage \in Nat
  /\ now \in Nat
  /\ sampled_at \in Nat
  /\ cancelled \in BOOLEAN
  /\ should_die \in BOOLEAN
  /\ cause \in Causes
  /\ overdraft_started_at \in Nat \cup {NotYet}
  /\ cost \in Nat
  /\ exit_status \in {"none", "code", "errno"}

JobInit ==
  /\ phase = "fork"
  /\ child = "none"
  /\ ended_by = "nobody"
  /\ usage = 0
  /\ now = 0
  /\ sampled_at = 0
  /\ cancelled = FALSE
  /\ should_die = FALSE
  /\ cause = "NaturalTermination"
  /\ overdraft_started_at = NotYet
  /\ cost = 0
  /\ exit_status = "none"

loop  == <<should_die, cause, overdraft_started_at, cost, sampled_at>>
world == <<usage, now, cancelled>>

-----------------------------------------------------------------------------
(* The child and its surroundings.                                         *)

\* setsid: from here on killpg(child) finds the group.
BecomeGroupLeader ==
  /\ child = "starting"
  /\ child' = "running"
  /\ UNCHANGED <<phase, ended_by, world, loop, exit_status>>

\* make exits (or could not be spawned and calls _exit), or the child dies of a
\* signal that is not the loop's: a crash, the OOM killer.
ChildEnds ==
  /\ \/ child = "running" /\ ended_by' = "self"
     \/ child \in {"starting", "running"} /\ ended_by' = "signal"
  /\ child' = "zombie"
  /\ UNCHANGED <<phase, world, loop, exit_status>>

Work ==
  /\ child = "running"
  /\ usage < MaxUsage
  /\ usage' = usage + 1
  /\ UNCHANGED <<phase, child, ended_by, now, cancelled, loop, exit_status>>

Tick ==
  /\ phase \in {"sample", "sleep"}
  /\ now < MaxTime /\ now - sampled_at < MaxLag
  /\ now' = now + 1
  /\ UNCHANGED <<phase, child, ended_by, usage, cancelled, loop, exit_status>>

\* A client of the live status socket asks to stop; the token exists before
\* the fork.
Cancel ==
  /\ phase \in {"fork", "sample", "sleep"}
  /\ cancelled' = TRUE
  /\ UNCHANGED <<phase, child, ended_by, usage, now, loop, exit_status>>

-----------------------------------------------------------------------------
(* The worker.                                                             *)

ForkChild ==
  /\ phase = "fork"
  /\ \/ phase' = "sample" /\ child' = "starting"
     \/ phase' = "failed" /\ UNCHANGED child
  /\ UNCHANGED <<ended_by, world, loop, exit_status>>

CurrentCost == now * WallRate + usage

\* Mutant of OverdraftStart: backdated by the allowance.
OverdraftStartBackdated ==
  IF overdraft_started_at = NotYet /\ Balance - CurrentCost < 0
  THEN now - Allowed ELSE overdraft_started_at

OverdraftStart ==
  IF overdraft_started_at = NotYet /\ Balance - CurrentCost < 0 THEN now
  ELSE overdraft_started_at

\* Mutant of Expired: the last second of the allowance is not granted.
ExpiredEarly ==
  /\ OverdraftStart # NotYet
  /\ Allowed - (now - OverdraftStart) <= 0

\* remaining < 0.0
Expired ==
  /\ OverdraftStart # NotYet
  /\ Allowed - (now - OverdraftStart) < 0

\* A later cause replaces an earlier one, and the user's comes last.
CauseNow ==
  IF cancelled THEN "UserKill" ELSE IF Expired THEN "BalanceKill" ELSE cause

\* Mutant of KillGroup: the group is killed once, by the sample that decides it.
KillGroupOnce(die) ==
  IF die /\ ~should_die /\ child = "running"
  THEN child' = "zombie" /\ ended_by' = "kill"
  ELSE UNCHANGED <<child, ended_by>>

\* killpg reaches the child once it leads a group, and does nothing to a zombie.
KillGroup(die) ==
  IF die /\ child = "running"
  THEN child' = "zombie" /\ ended_by' = "kill"
  ELSE UNCHANGED <<child, ended_by>>

\* The upper half of the loop, up to the sleep.
Sample ==
  /\ phase = "sample"
  /\ phase' = "sleep"
  /\ cost' = CurrentCost
  /\ sampled_at' = now
  /\ overdraft_started_at' = OverdraftStart
  /\ should_die' = (should_die \/ Expired \/ cancelled)
  /\ cause' = CauseNow
  /\ KillGroup(should_die \/ Expired \/ cancelled)
  /\ UNCHANGED <<world, exit_status>>

\* elapsed().unwrap() on a clock that went back: the task panics, the child stays.
PanicOnClock ==
  /\ ClockMayStepBack
  /\ phase = "sample"
  /\ phase' = "panicked"
  /\ UNCHANGED <<child, ended_by, world, loop, exit_status>>

\* Mutant of WaitChild: the siginfo of a signalled child is taken for an exit code.
WaitAnyCode ==
  /\ phase = "sleep"
  /\ child' = IF child = "zombie" THEN "reaped" ELSE child
  /\ exit_status' = IF child = "zombie" THEN "code" ELSE "none"
  /\ phase' = IF exit_status' = "none" THEN "sample" ELSE "done"
  /\ UNCHANGED <<ended_by, world, loop>>

\* waitid(WNOHANG | WEXITED): only Exited ends the loop at once.  A child that a
\* signal ended is reaped without being noticed, and the next call fails.
WaitChild ==
  /\ phase = "sleep"
  /\ child' = IF child = "zombie" THEN "reaped" ELSE child
  /\ exit_status' = CASE child = "zombie" /\ ended_by = "self" -> "code"
                      [] child = "reaped" -> "errno"
                      [] OTHER -> "none"
  /\ phase' = IF exit_status' = "none" THEN "sample" ELSE "done"
  /\ UNCHANGED <<ended_by, world, loop>>

-----------------------------------------------------------------------------
JobNext ==
  \/ BecomeGroupLeader \/ ChildEnds \/ Work \/ Tick \/ Cancel
  \/ ForkChild \/ Sample \/ PanicOnClock \/ WaitChild

\* The kernel runs the child up to its setsid, time passes, the worker's task
\* is polled.  Nothing obliges make to exit or the user to stop it.
Fairness ==
  /\ WF_jobVars(BecomeGroupLeader)
  /\ WF_jobVars(Tick)
  /\ WF_jobVars(ForkChild)
  /\ WF_jobVars(Sample)
  /\ WF_jobVars(WaitChild)

JobSpec     == JobInit /\ [][JobNext]_jobVars
FairJobSpec == JobSpec /\ Fairness

-----------------------------------------------------------------------------
(* Properties.                                                             *)

\* fork_and_make returns when its child is dead and reaped, whichever of kill,
\* crash and exit the loop met, and in whatever order (worker.rs:222-296).  The
\* code it returns is make's own exactly when make exited, and the negated errno
\* of a waitid that came too late when a signal ended it.  The cause hides no
\* kill and states none without a reason: the user had asked, or the allowance
\* was over.  That this is what ended the child it does not say (see
\* UserKillKilled).
RecordIsTrue ==
  phase = "done" =>
    /\ child = "reaped"
    /\ exit_status = "code" <=> ended_by = "self"
    /\ ended_by = "kill" => cause # "NaturalTermination"
    /\ cause = "UserKill" => cancelled
    /\ cause = "BalanceKill" =>
         overdraft_started_at # NotYet /\ now - overdraft_started_at > Allowed

\* api/src/lib.rs:143 says of the cause UserKill "Killed because of user
\* request".  The loop decides the cause before it has looked at the child
\* (worker.rs:257-286), so that a make which exited by itself, or died of a
\* signal, just before the request was noticed is recorded as killed.
UserKillKilled == phase = "done" /\ cause = "UserKill" => ended_by = "kill"

\* Nobody is cut off for lack of money before the whole allowance has passed
\* since a sample that exceeded the balance (worker.rs:241-255).
GraceIsGranted ==
  ended_by = "kill" /\ ~cancelled =>
    /\ overdraft_started_at # NotYet
    /\ now - overdraft_started_at > Allowed
    /\ cost > Balance

\* The charge is a cost the job really had: no more than it has used by now,
\* and once it is above the balance the allowance is running.
ChargeIsCovered ==
  /\ cost <= CurrentCost
  /\ phase \in {"sleep", "done"} /\ cost > Balance => overdraft_started_at # NotYet

\* Every call returns: a job that is told to die does, also when the kill came
\* before the child had its own process group (it is repeated), and one that
\* nobody stops runs out of money.  OrderLifecycle assumes this of Execute.
AlwaysReturns == <>(phase \in {"done", "failed", "panicked"})
=============================================================================
