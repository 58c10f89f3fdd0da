--------------------------- MODULE CpuAccounting ---------------------------
(***************************************************************************)
(* What fork_and_make learns of the cpu time of a job: in each round of    *)
(* its loop collect_cpu_time walks the process tree through /proc, one     *)
(* file at a time, then reads the clock of every process it came by, while *)
(* the processes fork, run, exit and are reaped.                           *)
(*                                                                         *)
(* Processes have one thread.  The kernel hands out pids in turn, so that  *)
(* one that is free is not given again while the sampler holds it; between *)
(* rounds it may be, to the job or to a stranger.                          *)
(***************************************************************************)
EXTENDS Integers, Sequences, FiniteSets, Functions, SequencesExt

CONSTANTS
  Pids, Child,     \* the pid of make
  InitPid,         \* the parent of orphans
  Strangers,       \* what a process that is not the job's may have used
  MaxForks,        \* bound: processes that ever get a pid
  MaxCpu           \* bound: cpu time the job uses

ASSUME PidsAssumption ==
  IsFiniteSet(Pids) /\ Child \in Pids /\ InitPid \notin Pids
ASSUME CpuAssumption  ==
  Strangers \subseteq Nat /\ MaxForks \in Nat /\ MaxCpu \in Nat

VARIABLES
  procs,       \* pid -> process
  forks,       \* numbers the processes, so that a reused pid can be told
  used,        \* cpu time the job has used so far
  pc,          \* the loop: "round", "walk", "clocks", "failed", "wait", "done"
  stack,       \* the calls of collect_children
  pids,        \* what the walk found, less what was read
  cpu_times,   \* pid -> the time that was read, and of which process
  steady       \* history: processes that are reachable since the round
               \* that runs began, over lists of children that were read in
               \* peace, with the time they had when it began

kernelVars  == <<procs, forks, used>>
samplerVars == <<pc, stack, pids, cpu_times>>
vars == <<kernelVars, samplerVars, steady>>

Process == [state : {"free", "alive", "zombie"}, parent : Pids \cup {InitPid},
            job : BOOLEAN, cpu : Nat, born : 0..MaxForks]
Free == [state |-> "free", parent |-> InitPid, job |-> FALSE, cpu |-> 0, born |-> 0]
Frame == [pid : Pids, stage : {"open", "list", "read", "listing", "visit"}, todo : SUBSET Pids]

-----------------------------------------------------------------------------
Exists(p) == procs[p].state # "free"
Alive(p)  == procs[p].state = "alive"
Children(p) == {q \in Pids : Exists(q) /\ procs[q].parent = p}

\* Living processes whose ancestors up to make all live: the smallest set with
\* make, if it lives, and every living child of its members.
Lineage(table) ==
  LET Lives(p)  == table[p].state = "alive"
      Closed(S) == \A p \in Pids :
        Lives(p) /\ (p = Child \/ table[p].parent \in S) => p \in S
  IN {p \in Pids : \A S \in SUBSET Pids : Closed(S) => p \in S}

StillSteady(table) == steady' = Restrict(steady, DOMAIN steady \cap Lineage(table))

\* Pids the sampler has in its hands.
Held == {Child} \cup Range(pids)
          \cup UNION {{stack[i].pid} \cup stack[i].todo : i \in DOMAIN stack}

Total(times) ==
  SumFunctionOnSet([p \in DOMAIN times |-> times[p].time], DOMAIN times)

Init ==
  /\ procs = [p \in Pids |-> IF p = Child
                THEN [Free EXCEPT !.state = "alive", !.job = TRUE] ELSE Free]
  /\ forks = 0 /\ used = 0
  /\ pc = "round" /\ stack = <<>> /\ pids = <<>>
  /\ cpu_times = [p \in {} |-> 0]
  /\ steady = [p \in {} |-> 0]

-----------------------------------------------------------------------------
(* The kernel and the processes.                                           *)

NewProcess(q, parent, job, cpu) ==
  /\ forks < MaxForks
  /\ ~Exists(q) /\ q \notin Held
  /\ forks' = forks + 1
  /\ procs' = [procs EXCEPT ![q] =
       [state |-> "alive", parent |-> parent, job |-> job, cpu |-> cpu,
        born |-> forks + 1]]
  /\ UNCHANGED <<used, samplerVars, steady>>

Fork(p, q) == Alive(p) /\ procs[p].job /\ NewProcess(q, p, TRUE, 0)

StrangerStarts(q) == \E cpu \in Strangers : NewProcess(q, InitPid, FALSE, cpu)

Run(p) ==
  /\ Alive(p) /\ procs[p].job
  /\ used < MaxCpu
  /\ used' = used + 1
  /\ procs' = [procs EXCEPT ![p].cpu = @ + 1]
  /\ UNCHANGED <<forks, samplerVars>> /\ StillSteady(procs')

\* Children of the dead are adopted by init, which reaps its zombies at once.
ExitProcess(p) ==
  /\ Alive(p)
  /\ LET orphan(q) == q # p /\ procs[q].parent = p
         gone(q)   == \/ orphan(q) /\ procs[q].state = "zombie"
                      \/ q = p /\ p # Child /\ procs[p].parent = InitPid
     IN procs' = [q \in Pids |->
          IF gone(q) THEN Free
          ELSE IF q = p THEN [procs[q] EXCEPT !.state = "zombie"]
          ELSE IF orphan(q) THEN [procs[q] EXCEPT !.parent = InitPid]
          ELSE procs[q]]
  /\ UNCHANGED <<forks, used, samplerVars>> /\ StillSteady(procs')

Reap(p, q) ==
  /\ Alive(p) /\ procs[q].state = "zombie" /\ procs[q].parent = p
  /\ procs' = [procs EXCEPT ![q] = Free]
  /\ UNCHANGED <<forks, used, samplerVars, steady>>

-----------------------------------------------------------------------------
(* collect_children, one call of the system at a time.                     *)

Call(p) == [pid |-> p, stage |-> "open", todo |-> {}]
Top == Last(stack)
Advance(stage, todo) ==
  stack' = [stack EXCEPT ![Len(stack)] =
              [pid |-> Top.pid, stage |-> stage, todo |-> todo]]

\* Mutant of Return.
ReturnEarly == stack' = Front(stack) /\ pc' = "clocks"

Return ==
  /\ stack' = Front(stack)
  /\ pc' = IF Len(stack) = 1 THEN "clocks" ELSE pc

\* Mutant of BeginRound.
BeginRoundAfresh ==
  /\ pc = "round"
  /\ pc' = "walk"
  /\ stack' = <<Call(Child)>> /\ pids' = <<Child>>
  /\ cpu_times' = [p \in {} |-> 0]
  /\ steady' = [p \in Lineage(procs) |-> procs[p].cpu]
  /\ UNCHANGED kernelVars

BeginRound ==
  /\ pc = "round"
  /\ pc' = "walk"
  /\ stack' = <<Call(Child)>> /\ pids' = <<Child>>
  /\ steady' = [p \in Lineage(procs) |-> procs[p].cpu]
  /\ UNCHANGED <<kernelVars, cpu_times>>

\* Mutant of OpenTasks: a process that is gone ends the walk.
OpenTasksOrStop ==
  /\ pc = "walk" /\ Top.stage = "open"
  /\ IF Exists(Top.pid) THEN Advance("list", {}) /\ UNCHANGED pc
     ELSE stack' = <<>> /\ pc' = "clocks"
  /\ UNCHANGED <<kernelVars, pids, cpu_times, steady>>

\* read_dir fails for a process that is gone, and the call returns.
OpenTasks ==
  /\ pc = "walk" /\ Top.stage = "open"
  /\ IF Exists(Top.pid) THEN Advance("list", {}) /\ UNCHANGED pc ELSE Return
  /\ UNCHANGED <<kernelVars, pids, cpu_times, steady>>

\* next_entry fails for a process that went while its tasks were read, and that
\* error is handed up: no clock is read in this round.  tokio reads a directory
\* ahead, so that the error comes with this entry, with the next, or not at all.
FailRound ==
  /\ ~Exists(Top.pid)
  /\ pc' = "failed" /\ stack' = <<>> /\ pids' = <<>>
  /\ steady' = [p \in {} |-> 0]

ListTasks ==
  /\ pc = "walk" /\ Top.stage = "list"
  /\ \/ Advance("read", {}) /\ UNCHANGED <<pc, pids, steady>>
     \/ FailRound
  /\ UNCHANGED <<kernelVars, cpu_times>>

\* read_to_string, first half: the file is there, or the call returns.
OpenChildren ==
  /\ pc = "walk" /\ Top.stage = "read"
  /\ IF Exists(Top.pid)
     THEN Advance("listing", Children(Top.pid)) /\ UNCHANGED pc
     ELSE Return
  /\ UNCHANGED <<kernelVars, pids, cpu_times, steady>>

\* The process tree as if p had no children.
WithoutChildren(p) ==
  [q \in Pids |-> IF procs[q].parent = p THEN [procs[q] EXCEPT !.parent = InitPid]
                  ELSE procs[q]]

\* Second half.  The kernel walks the children one by one.  Those that were there
\* at the opening are listed, if all of them live until the end, and those that
\* were forked since may be.  When a child exits meanwhile, any other may be left
\* out (proc(5)), living ones as well.
ReadChildren ==
  /\ pc = "walk" /\ Top.stage = "listing"
  /\ LET was == Top.todo
         now == Children(Top.pid)
     IN \/ \E list \in SUBSET (was \cup now) :
             /\ Advance("visit", list) /\ UNCHANGED pc
             /\ IF \A q \in was : q \in now /\ Alive(q)
                THEN was \subseteq list /\ UNCHANGED steady
                ELSE StillSteady(WithoutChildren(Top.pid))
        \/ ~Exists(Top.pid) /\ Return /\ UNCHANGED steady
  /\ UNCHANGED <<kernelVars, pids, cpu_times>>

VisitChild ==
  /\ pc = "walk" /\ Top.stage = "visit"
  /\ \E q \in Top.todo :
       /\ stack' = Append([stack EXCEPT ![Len(stack)].todo = @ \ {q}], Call(q))
       /\ pids' = Append(pids, q)
  /\ UNCHANGED <<kernelVars, pc, cpu_times, steady>>

\* The next call of next_entry: there is one thread, and no further entry.
LeaveProcess ==
  /\ pc = "walk" /\ Top.stage = "visit" /\ Top.todo = {}
  /\ \/ Return /\ UNCHANGED <<pids, steady>>
     \/ FailRound
  /\ UNCHANGED <<kernelVars, cpu_times>>

\* Mutant of Sampled.
SampledOnTop(p) ==
  IF p \in DOMAIN cpu_times
  THEN [time |-> cpu_times[p].time + procs[p].cpu, born |-> procs[p].born]
  ELSE [time |-> procs[p].cpu, born |-> procs[p].born]

Sampled(p) == [time |-> procs[p].cpu, born |-> procs[p].born]

\* A zombie still has a clock.
ReadClock ==
  /\ pc = "clocks" /\ pids # <<>>
  /\ pids' = Tail(pids)
  /\ LET p == Head(pids)
     IN cpu_times' = IF Exists(p)
          THEN [q \in DOMAIN cpu_times \cup {p} |->
                  IF q = p THEN Sampled(p) ELSE cpu_times[q]]
          ELSE cpu_times
  /\ UNCHANGED <<kernelVars, pc, stack, steady>>

\* The sum goes into the metrics, also after an error; then sleep(50 ms).
Report ==
  /\ pc = "failed" \/ (pc = "clocks" /\ pids = <<>>)
  /\ pc' = "wait"
  /\ steady' = [p \in {} |-> 0]
  /\ UNCHANGED <<kernelVars, stack, pids, cpu_times>>

\* waitid: the loop ends when make has exited, or when there is nothing left
\* to wait for; a death by signal is reaped and ignored.
Wait ==
  /\ pc = "wait"
  /\ CASE Alive(Child)   -> pc' = "round" /\ UNCHANGED procs
       [] ~Exists(Child) -> pc' = "done" /\ UNCHANGED procs
       [] procs[Child].state = "zombie" ->
            /\ pc' \in {"done", "round"}
            /\ procs' = [procs EXCEPT ![Child] = Free]
  /\ UNCHANGED <<forks, used, stack, pids, cpu_times, steady>>

\* What happens after the loop concerns nobody here.
KernelStep ==
  /\ pc # "done"
  /\ \/ \E p, q \in Pids : Fork(p, q) \/ Reap(p, q)
     \/ \E p \in Pids : Run(p) \/ ExitProcess(p) \/ StrangerStarts(p)

SamplerStep ==
  \/ BeginRound \/ OpenTasks \/ ListTasks \/ OpenChildren \/ ReadChildren
  \/ VisitChild \/ LeaveProcess \/ ReadClock \/ Report \/ Wait

Next == KernelStep \/ SamplerStep

Spec == Init /\ [][Next]_vars

-----------------------------------------------------------------------------
(* Properties.                                                             *)

\* Processes, calls and samples are well formed, and everything the sampler
\* holds or has sampled is a pid.
TypeOK ==
  /\ procs \in [Pids -> Process]
  /\ forks \in 0..MaxForks /\ used \in 0..MaxCpu
  /\ pc \in {"round", "walk", "clocks", "failed", "wait", "done"}
  /\ stack \in Seq(Frame) /\ (pc = "walk" <=> stack # <<>>)
  /\ pids \in Seq(Pids)
  /\ DOMAIN cpu_times \subseteq Pids
  /\ \A p \in DOMAIN cpu_times : cpu_times[p] \in [time : Nat, born : 0..MaxForks]
  /\ DOMAIN steady \subseteq Pids

\* An order is never charged more cpu time than its processes have used,
\* whatever exits, is adopted, or gets the pid of a dead one in the middle of
\* a walk, and whoever else runs on the machine.
NeverOvercharged == Total(cpu_times) <= used

\* What was counted of a process stays counted, after it has died as well;
\* its entry gives way only to that of a later process with the same pid.
CountedStaysCounted ==
  [][\A p \in DOMAIN cpu_times :
       /\ p \in DOMAIN cpu_times'
       /\ \/ cpu_times'[p].born > cpu_times[p].born
          \/ /\ cpu_times'[p].born = cpu_times[p].born
             /\ cpu_times'[p].time >= cpu_times[p].time]_cpu_times

\* A round that meets no error counts every process that lives, with living
\* ancestors, for the whole of it, with all it had used when the round began,
\* although processes beside it fork, die and vanish during the walk.  Excepted
\* are those below a process one of whose children exited in the very moment its
\* list of children was read: the kernel does not promise that list.
RoundFindsTheSteady ==
  pc = "clocks" /\ pids = <<>> =>
    \A p \in DOMAIN steady :
      p \in DOMAIN cpu_times /\ cpu_times[p].time >= steady[p]
=============================================================================
