---------------------------- MODULE WorkerProofs ----------------------------
(***************************************************************************)
(* Theorems about one job on the worker: of JobExecution, the loop that    *)
(* runs it, for every balance, price, allowance and length of a run; and   *)
(* of CpuAccounting, the sampler that loop calls, for every set of pids,   *)
(* every number of forks and any cpu time.                                 *)
(***************************************************************************)
EXTENDS JobExecution, CpuAccounting, SequenceTheorems, SumLemmas, TLAPS

-----------------------------------------------------------------------------
(* JobExecution: the inductive invariant.                                  *)

\* Where the loop is and what has become of the child.
ChildInv ==
  /\ phase \in {"fork", "failed"} => child = "none"
  /\ phase = "done" => child = "reaped"
  /\ ended_by = "nobody" <=> child \in {"none", "starting", "running"}
  /\ exit_status # "none" => phase = "done"
  /\ phase = "done" => (exit_status = "code" <=> ended_by = "self")
  /\ child = "reaped" /\ phase # "done" => ended_by \in {"signal", "kill"}

\* Why it is killed.
CauseInv ==
  /\ ended_by = "kill" => should_die
  /\ should_die => cause # "NaturalTermination"
  /\ should_die /\ ~cancelled =>
       /\ overdraft_started_at # NotYet
       /\ now - overdraft_started_at > Allowed
       /\ cost > Balance
  /\ cause = "UserKill" => cancelled
  /\ cause = "BalanceKill" =>
       overdraft_started_at # NotYet /\ now - overdraft_started_at > Allowed

\* What it costs.
CostInv ==
  /\ cost <= CurrentCost
  /\ phase \in {"sleep", "done"} /\ cost > Balance => overdraft_started_at # NotYet
  /\ overdraft_started_at # NotYet => CurrentCost > Balance

LoopInv == JobTypeOK /\ ChildInv /\ CauseInv /\ CostInv

-----------------------------------------------------------------------------
LEMMA ProductIsNat == \A m, n \in Nat : m * n \in Nat
OBVIOUS

LEMMA SumIsNat == \A m, n \in Nat : m + n \in Nat
OBVIOUS

LEMMA CostIsNat ==
  ASSUME JobTypeOK
  PROVE  CurrentCost \in Nat
<1>1. now \in Nat /\ WallRate \in Nat /\ usage \in Nat
  BY WallRateAssumption DEF JobTypeOK
<1>2. now * WallRate \in Nat
  BY <1>1
<1> QED  BY <1>1, <1>2 DEF CurrentCost

LEMMA JobTypeStep ==
  ASSUME JobTypeOK, [JobNext]_jobVars
  PROVE  JobTypeOK'
<1> USE DEF JobTypeOK, world, loop
<1>1. CASE UNCHANGED jobVars
  BY <1>1 DEF jobVars
<1>2. CASE BecomeGroupLeader
  BY <1>2 DEF BecomeGroupLeader
<1>3. CASE ChildEnds
  BY <1>3 DEF ChildEnds
<1>4. CASE Work
  BY <1>4 DEF Work
<1>5. CASE Tick
  BY <1>5 DEF Tick
<1>6. CASE Cancel
  BY <1>6 DEF Cancel
<1>7. CASE ForkChild
  BY <1>7 DEF ForkChild
<1>8. CASE Sample
  <2>1. cost' \in Nat
    BY <1>8, CostIsNat DEF Sample
  <2>2. overdraft_started_at' \in Nat \cup {NotYet}
    BY <1>8 DEF Sample, OverdraftStart
  <2>3. Expired \in BOOLEAN
    BY DEF Expired
  <2>4. cause' \in Causes /\ should_die' \in BOOLEAN
    BY <1>8, <2>3 DEF Sample, Causes, CauseNow
  <2>5. child' \in {"none", "starting", "running", "zombie", "reaped"}
          /\ ended_by' \in {"nobody", "self", "signal", "kill"}
    BY <1>8 DEF Sample, KillGroup
  <2> QED
    BY <1>8, <2>1, <2>2, <2>4, <2>5 DEF Sample
<1>9. CASE PanicOnClock
  BY <1>9 DEF PanicOnClock
<1>10. CASE WaitChild
  BY <1>10 DEF WaitChild
<1> QED
  BY <1>1, <1>2, <1>3, <1>4, <1>5, <1>6, <1>7, <1>8, <1>9, <1>10 DEF JobNext

LEMMA ChildStep ==
  ASSUME LoopInv, [JobNext]_jobVars
  PROVE  ChildInv'
<1> USE DEF LoopInv, JobTypeOK, ChildInv, world, loop
<1>1. CASE UNCHANGED jobVars
  BY <1>1 DEF jobVars
<1>2. CASE BecomeGroupLeader \/ ChildEnds \/ Work \/ Tick \/ Cancel
  BY <1>2 DEF BecomeGroupLeader, ChildEnds, Work, Tick, Cancel
<1>3. CASE ForkChild \/ PanicOnClock
  BY <1>3 DEF ForkChild, PanicOnClock
<1>4. CASE Sample
  <2>1. /\ phase = "sample" /\ phase' = "sleep" /\ exit_status' = exit_status
        /\ \/ child = "running" /\ child' = "zombie" /\ ended_by' = "kill"
           \/ UNCHANGED <<child, ended_by>>
    BY <1>4 DEF Sample, KillGroup
  <2> QED  BY <2>1
<1>5. CASE WaitChild
  BY <1>5 DEF WaitChild
<1> QED  BY <1>1, <1>2, <1>3, <1>4, <1>5 DEF JobNext

LEMMA CostStep ==
  ASSUME LoopInv, [JobNext]_jobVars
  PROVE  CostInv'
<1> USE DEF LoopInv, JobTypeOK, CostInv, world, loop
<1>1. CurrentCost \in Nat /\ CurrentCost' \in Nat
  <2>1. now' \in Nat /\ usage' \in Nat /\ WallRate \in Nat
    BY JobTypeStep, WallRateAssumption
  <2>2. now' * WallRate \in Nat
    BY <2>1, ProductIsNat
  <2>3. now' * WallRate + usage' \in Nat
    BY <2>1, <2>2, SumIsNat
  <2>4. CurrentCost' = now' * WallRate + usage'
    BY DEF CurrentCost
  <2> QED  BY <2>3, <2>4, CostIsNat
<1>2. CurrentCost' >= CurrentCost
  <2>1. now \in Nat /\ usage \in Nat /\ WallRate \in Nat
    BY WallRateAssumption
  <2>2. \/ now' = now /\ usage' \in {usage, usage + 1}
        \/ now' = now + 1 /\ usage' = usage
    BY DEF JobNext, jobVars, BecomeGroupLeader, ChildEnds, Work, Tick, Cancel, ForkChild,
       PanicOnClock, Sample, WaitChild
  <2>3. (now + 1) * WallRate = now * WallRate + WallRate
    BY <2>1
  <2>4. now * WallRate \in Nat
    BY <2>1
  <2> QED  BY <2>1, <2>2, <2>3, <2>4 DEF CurrentCost
<1>3. CASE Sample
  <2>1. /\ cost' = CurrentCost /\ CurrentCost' = CurrentCost
        /\ overdraft_started_at' = OverdraftStart
    BY <1>3 DEF Sample, CurrentCost
  <2>2. OverdraftStart # NotYet <=>
          overdraft_started_at # NotYet \/ Balance - CurrentCost < 0
    BY DEF OverdraftStart, NotYet
  <2> QED
    BY <1>1, <2>1, <2>2, BalanceAssumption
<1>4. CASE ~Sample
  <2>1. /\ UNCHANGED <<cost, overdraft_started_at>>
        /\ phase' \in {"sleep", "done"} => phase = phase' \/ phase = "sleep"
    BY <1>4 DEF JobNext, jobVars, BecomeGroupLeader, ChildEnds, Work, Tick, Cancel, ForkChild,
       PanicOnClock, WaitChild
  <2> QED
    BY <1>1, <1>2, <2>1, BalanceAssumption
<1> QED  BY <1>3, <1>4

LEMMA CauseStep ==
  ASSUME LoopInv, [JobNext]_jobVars
  PROVE  CauseInv'
<1> USE DEF LoopInv, JobTypeOK, CauseInv, world, loop
<1>1. CASE Sample
  <2>1. /\ should_die' = (should_die \/ Expired \/ cancelled)
        /\ cancelled' = cancelled /\ now' = now /\ cost' = CurrentCost
        /\ overdraft_started_at' = OverdraftStart
        /\ cause' = IF cancelled THEN "UserKill"
                    ELSE IF Expired THEN "BalanceKill" ELSE cause
        /\ ended_by' = "kill" => ended_by = "kill" \/ should_die'
    BY <1>1 DEF Sample, KillGroup, CauseNow
  <2>2. cause = "BalanceKill" \/ (should_die /\ ~cancelled) => Expired
    BY AllowedAssumption DEF Expired, OverdraftStart, NotYet
  <2>3. Expired => /\ OverdraftStart # NotYet
                   /\ now - OverdraftStart > Allowed
    BY AllowedAssumption DEF Expired, OverdraftStart, NotYet
  <2>4. OverdraftStart # NotYet => CurrentCost > Balance
    BY CostIsNat, BalanceAssumption DEF OverdraftStart, CostInv
  <2> QED  BY <2>1, <2>2, <2>3, <2>4
<1>2. CASE Cancel
  BY <1>2 DEF Cancel
<1>3. CASE Tick
  BY <1>3, AllowedAssumption DEF Tick, NotYet
<1>4. CASE ~Sample /\ ~Cancel /\ ~Tick
  <2>1. /\ UNCHANGED <<should_die, cancelled, now, cost, overdraft_started_at, cause>>
        /\ ended_by' = "kill" => ended_by = "kill"
    BY <1>4 DEF JobNext, jobVars, BecomeGroupLeader, ChildEnds, Work, ForkChild, PanicOnClock,
       WaitChild
  <2> QED  BY <2>1
<1> QED  BY <1>1, <1>2, <1>3, <1>4

LEMMA LoopInvAlways == JobSpec => []LoopInv
<1>1. JobInit => LoopInv
  <2>1. ASSUME JobInit PROVE JobTypeOK
    BY <2>1 DEF JobInit, JobTypeOK, Causes
  <2>2. ASSUME JobInit PROVE ChildInv /\ CauseInv
    BY <2>2 DEF JobInit, ChildInv, CauseInv
  <2>3. ASSUME JobInit PROVE CostInv
    <3>1. CurrentCost \in Nat
      BY <2>1, <2>3, CostIsNat
    <3> QED
      BY <2>3, <3>1 DEF JobInit, CostInv
  <2> QED  BY <2>1, <2>2, <2>3 DEF LoopInv
<1>2. LoopInv /\ [JobNext]_jobVars => LoopInv'
  BY JobTypeStep, ChildStep, CauseStep, CostStep DEF LoopInv
<1> QED  BY <1>1, <1>2, PTL DEF JobSpec

-----------------------------------------------------------------------------
\* Every variable keeps its type.
THEOREM JobTypeCorrect == JobSpec => []JobTypeOK
<1>1. LoopInv => JobTypeOK
  BY DEF LoopInv
<1> QED  BY <1>1, LoopInvAlways, PTL

\* The call returns a record only for a child that is dead and reaped, with the
\* code of make exactly when make exited; it hides no kill, and states none for
\* which there was no reason.
THEOREM RecordsAreTrue == JobSpec => []RecordIsTrue
<1>1. LoopInv => RecordIsTrue
  BY DEF LoopInv, ChildInv, CauseInv, RecordIsTrue
<1> QED  BY <1>1, LoopInvAlways, PTL

\* No job is killed for its balance before the allowance has run out.
THEOREM GraceAlwaysGranted == JobSpec => []GraceIsGranted
<1>1. LoopInv => GraceIsGranted
  BY DEF LoopInv, CauseInv, GraceIsGranted
<1> QED  BY <1>1, LoopInvAlways, PTL

\* The charge never exceeds what the job has used.
THEOREM ChargeAlwaysCovered == JobSpec => []ChargeIsCovered
<1>1. LoopInv => ChargeIsCovered
  BY DEF LoopInv, CostInv, ChargeIsCovered
<1> QED  BY <1>1, LoopInvAlways, PTL

-----------------------------------------------------------------------------
(* CpuAccounting.  Sequences first.                                        *)

LEMMA FrontFacts ==
  ASSUME NEW S, NEW s \in Seq(S), s # <<>>
  PROVE  /\ Front(s) \in Seq(S)
         /\ Len(Front(s)) = Len(s) - 1
         /\ \A i \in 1..(Len(s) - 1) : Front(s)[i] = s[i]
         /\ Front(s) = <<>> <=> Len(s) = 1
         /\ Last(s) \in S /\ Last(s) = s[Len(s)] /\ Len(s) \in DOMAIN s
<1>1. Len(s) \in Nat \ {0}
  OBVIOUS
<1>2. Front(s) \in Seq(S)
  BY <1>1 DEF Front
<1>3. Len(Front(s)) = Len(s) - 1 /\ \A i \in 1..(Len(s) - 1) : Front(s)[i] = s[i]
  <2>1. \A i \in 1..(Len(s) - 1) : s[i] \in S
    BY <1>1
  <2> DEFINE n == Len(s) - 1
  <2>2. n \in Int /\ n >= 0 /\ Front(s) = SubSeq(s, 1, n)
    BY <1>1 DEF Front
  <2>3. \A i \in 1..n : s[i] \in S
    BY <2>1
  <2> HIDE DEF n
  <2>4. /\ Len(SubSeq(s, 1, n)) = IF 1 <= n THEN n - 1 + 1 ELSE 0
        /\ \A i \in 1..(n - 1 + 1) : SubSeq(s, 1, n)[i] = s[1 + i - 1]
    BY <2>2, <2>3, SubSeqProperties
  <2>5. Len(Front(s)) = n /\ \A i \in 1..n : Front(s)[i] = s[i]
    BY <2>2, <2>4
  <2> QED  BY <2>5 DEF n
<1>4. Front(s) = <<>> <=> Len(s) = 1
  BY <1>1, <1>2, <1>3
<1>5. Last(s) \in S /\ Last(s) = s[Len(s)] /\ Len(s) \in DOMAIN s
  BY <1>1 DEF Last
<1> QED  BY <1>2, <1>3, <1>4, <1>5

-----------------------------------------------------------------------------
(* Type correctness.                                                       *)

LEMMA LineagePids == ASSUME NEW table PROVE Lineage(table) \subseteq Pids
BY DEF Lineage

LEMMA SteadyType ==
  ASSUME NEW table, StillSteady(table)
  PROVE  DOMAIN steady' = DOMAIN steady \cap Lineage(table)
BY DEF StillSteady, Restrict

LEMMA FreeType == Free \in Process
BY CpuAssumption DEF Free, Process

LEMMA NewProcessType ==
  ASSUME TypeOK, NEW q \in Pids, NEW parent \in Pids \cup {InitPid},
         NEW job \in BOOLEAN, NEW cpu \in Nat, NewProcess(q, parent, job, cpu)
  PROVE  TypeOK'
<1>1. forks + 1 \in 0..MaxForks /\ forks' = forks + 1
  BY CpuAssumption DEF NewProcess, TypeOK
<1>2. [state |-> "alive", parent |-> parent, job |-> job, cpu |-> cpu,
       born |-> forks + 1] \in Process
  BY <1>1 DEF Process
<1>3. procs' \in [Pids -> Process]
  BY <1>2 DEF NewProcess, TypeOK
<1> QED  BY <1>1, <1>3 DEF NewProcess, TypeOK, samplerVars

LEMMA KernelTypes ==
  ASSUME TypeOK, KernelStep
  PROVE  TypeOK'
<1> USE DEF samplerVars
<1>1. ASSUME NEW p \in Pids, NEW q \in Pids, Fork(p, q)
      PROVE  TypeOK'
  BY <1>1, NewProcessType DEF Fork
<1>2. ASSUME NEW q \in Pids, StrangerStarts(q)
      PROVE  TypeOK'
  BY <1>2, NewProcessType, CpuAssumption DEF StrangerStarts
<1>3. ASSUME NEW p \in Pids, NEW q \in Pids, Reap(p, q)
      PROVE  TypeOK'
  BY <1>3, FreeType DEF Reap, TypeOK
<1>4. ASSUME NEW p \in Pids, Run(p)
      PROVE  TypeOK'
  <2>1. procs' \in [Pids -> Process]
    <3>1. procs[p] \in Process /\ [procs[p] EXCEPT !.cpu = @ + 1] \in Process
      <4>1. \A r \in Process : [r EXCEPT !.cpu = @ + 1] \in Process
        BY DEF Process
      <4> QED  BY <4>1 DEF TypeOK
    <3> QED  BY <1>4, <3>1 DEF Run, TypeOK
  <2>2. used' \in 0..MaxCpu
    BY <1>4, CpuAssumption DEF Run, TypeOK
  <2> QED  BY <1>4, <2>1, <2>2, SteadyType DEF Run, TypeOK
<1>5. ASSUME NEW p \in Pids, ExitProcess(p)
      PROVE  TypeOK'
  <2>1. procs' \in [Pids -> Process]
    BY <1>5, FreeType DEF ExitProcess, TypeOK, Process
  <2> QED  BY <1>5, <2>1, SteadyType DEF ExitProcess, TypeOK
<1> QED  BY <1>1, <1>2, <1>3, <1>4, <1>5 DEF KernelStep

LEMMA CallType == ASSUME NEW p \in Pids PROVE Call(p) \in Frame
BY DEF Call, Frame

LEMMA AdvanceType ==
  ASSUME TypeOK, stack # <<>>, NEW stage \in {"list", "read", "listing", "visit"},
         NEW todo \in SUBSET Pids, Advance(stage, todo)
  PROVE  /\ stack' \in Seq(Frame) /\ stack' # <<>> /\ Len(stack') = Len(stack)
         /\ \A i \in DOMAIN stack : i # Len(stack) => stack'[i] = stack[i]
         /\ stack'[Len(stack)] = [pid |-> Top.pid, stage |-> stage, todo |-> todo]
<1>1. /\ stack \in Seq(Frame) /\ Len(stack) \in DOMAIN stack
      /\ stack[Len(stack)] \in Frame /\ Top = stack[Len(stack)]
  <2>1. stack \in Seq(Frame)
    BY DEF TypeOK
  <2> QED  BY <2>1, FrontFacts DEF Top
<1>2. [pid |-> Top.pid, stage |-> stage, todo |-> todo] \in Frame
  BY <1>1 DEF Frame
<1> QED  BY <1>1, <1>2 DEF Advance

LEMMA ReturnType ==
  ASSUME TypeOK, pc = "walk", Return
  PROVE  /\ stack' \in Seq(Frame)
         /\ pc' \in {"walk", "clocks"} /\ (pc' = "walk" <=> stack' # <<>>)
         /\ Len(stack') = Len(stack) - 1
         /\ \A i \in 1..(Len(stack) - 1) : stack'[i] = stack[i]
BY FrontFacts DEF TypeOK, Return

LEMMA SamplerTypes ==
  ASSUME TypeOK, SamplerStep
  PROVE  TypeOK'
<1> USE DEF kernelVars
<1>0. pc = "walk" => stack # <<>> /\ Top \in Frame /\ stack \in Seq(Frame)
  BY FrontFacts DEF TypeOK, Top
<1>1. CASE BeginRound
  BY <1>1, CallType, LineagePids, PidsAssumption DEF BeginRound, TypeOK
<1>2. CASE OpenTasks
  BY <1>0, <1>2, AdvanceType, ReturnType DEF OpenTasks, TypeOK
<1>3. CASE ListTasks
  <2>1. CASE Advance("read", {}) /\ UNCHANGED <<pc, pids, steady>>
    BY <1>0, <1>3, <2>1, AdvanceType DEF ListTasks, TypeOK
  <2>2. CASE FailRound
    BY <1>3, <2>2 DEF ListTasks, FailRound, TypeOK
  <2> QED  BY <1>3, <2>1, <2>2 DEF ListTasks
<1>10. CASE OpenChildren
  <2>1. Children(Top.pid) \in SUBSET Pids
    BY DEF Children
  <2> QED  BY <1>0, <1>10, <2>1, AdvanceType, ReturnType DEF OpenChildren, TypeOK
<1>4. CASE ReadChildren
  <2>1. CASE Return /\ UNCHANGED steady
    BY <1>0, <1>4, <2>1, ReturnType DEF ReadChildren, TypeOK
  <2>2. CASE ~(Return /\ UNCHANGED steady)
    <3>1. PICK list \in SUBSET (Top.todo \cup Children(Top.pid)) :
            /\ Advance("visit", list) /\ UNCHANGED pc
            /\ UNCHANGED steady \/ StillSteady(WithoutChildren(Top.pid))
      BY <1>4, <2>2 DEF ReadChildren
    <3>2. list \in SUBSET Pids
      BY <1>0, <1>4, <3>1 DEF ReadChildren, Children, Frame
    <3>3. DOMAIN steady' \subseteq Pids
      BY <3>1, SteadyType DEF TypeOK
    <3> QED  BY <1>0, <1>4, <3>1, <3>2, <3>3, AdvanceType DEF ReadChildren, TypeOK
  <2> QED  BY <2>1, <2>2
<1>5. CASE VisitChild
  <2>1. PICK q \in Top.todo :
          /\ stack' = Append([stack EXCEPT ![Len(stack)].todo = @ \ {q}], Call(q))
          /\ pids' = Append(pids, q)
    BY <1>5 DEF VisitChild
  <2>2. q \in Pids
    BY <1>0, <1>5 DEF VisitChild, Frame
  <2>3. [stack EXCEPT ![Len(stack)].todo = @ \ {q}] \in Seq(Frame)
    <3>1. \A f \in Frame : [f EXCEPT !.todo = @ \ {q}] \in Frame
      BY DEF Frame
    <3> QED  BY <1>0, <1>5, <3>1 DEF VisitChild
  <2>4. stack' \in Seq(Frame) /\ stack' # <<>>
    BY <2>1, <2>2, <2>3, CallType
  <2> QED  BY <1>5, <2>1, <2>2, <2>4 DEF VisitChild, TypeOK
<1>6. CASE LeaveProcess
  <2>1. CASE Return /\ UNCHANGED <<pids, steady>>
    BY <1>0, <1>6, <2>1, ReturnType DEF LeaveProcess, TypeOK
  <2>2. CASE FailRound
    BY <1>6, <2>2 DEF LeaveProcess, FailRound, TypeOK
  <2> QED  BY <1>6, <2>1, <2>2 DEF LeaveProcess
<1>7. CASE ReadClock
  <2>1. Head(pids) \in Pids /\ pids' \in Seq(Pids)
    BY <1>7 DEF ReadClock, TypeOK
  <2>2. Sampled(Head(pids)) \in [time : Nat, born : 0..MaxForks]
    BY <2>1 DEF Sampled, TypeOK, Process
  <2> QED  BY <1>7, <2>1, <2>2 DEF ReadClock, TypeOK
<1>8. CASE Report
  BY <1>8 DEF Report, TypeOK
<1>9. CASE Wait
  <2>1. procs' \in [Pids -> Process] /\ pc' \in {"round", "done"}
    <3>1. procs[Child].state \in {"free", "alive", "zombie"}
      BY PidsAssumption DEF TypeOK, Process
    <3> QED  BY <1>9, <3>1, FreeType DEF Wait, TypeOK, Exists, Alive
  <2> QED  BY <1>9, <2>1 DEF Wait, TypeOK
<1> QED
  BY <1>1, <1>2, <1>3, <1>4, <1>5, <1>6, <1>7, <1>8, <1>9, <1>10 DEF SamplerStep

LEMMA TypeInit == ASSUME Init PROVE TypeOK
<1>1. [Free EXCEPT !.state = "alive", !.job = TRUE] \in Process
  <2>1. \A r \in Process : [r EXCEPT !.state = "alive", !.job = TRUE] \in Process
    BY DEF Process
  <2> QED  BY <2>1, FreeType
<1> QED  BY <1>1, FreeType, PidsAssumption, CpuAssumption DEF Init, TypeOK

LEMMA TypeStep == ASSUME TypeOK, [Next]_vars PROVE TypeOK'
<1>1. CASE UNCHANGED vars
  BY <1>1 DEF vars, kernelVars, samplerVars, TypeOK
<1> QED  BY <1>1, KernelTypes, SamplerTypes DEF Next

\* Every variable keeps its type, for every process tree that can grow.
THEOREM TypeCorrect == Spec => []TypeOK
<1>1. Init => TypeOK
  BY TypeInit
<1>2. TypeOK /\ [Next]_vars => TypeOK'
  BY TypeStep
<1> QED  BY <1>1, <1>2, PTL DEF Spec

-----------------------------------------------------------------------------
(* What was counted stays counted.                                         *)

\* The entry of a pid is of its process, which has since used more, or of an
\* earlier one.
CountInv(p) ==
  /\ procs[p].born <= forks
  /\ p \in DOMAIN cpu_times =>
       /\ cpu_times[p].born <= forks
       /\ Exists(p) =>
            \/ procs[p].born > cpu_times[p].born
            \/ /\ procs[p].born = cpu_times[p].born
               /\ procs[p].cpu >= cpu_times[p].time

LEMMA CountKernel ==
  ASSUME TypeOK, TypeOK', NEW x \in Pids, CountInv(x), KernelStep
  PROVE  CountInv(x)' /\ UNCHANGED cpu_times
<1>0. /\ forks \in Nat /\ procs \in [Pids -> Process]
      /\ procs[x].born \in Nat /\ procs[x].cpu \in Nat
      /\ x \in DOMAIN cpu_times => cpu_times[x].born \in Nat /\ cpu_times[x].time \in Nat
  BY CpuAssumption DEF TypeOK, Process
<1>1. ASSUME NEW q \in Pids, NEW parent, NEW job, NEW cpu, NewProcess(q, parent, job, cpu)
      PROVE  CountInv(x)' /\ UNCHANGED cpu_times
  <2>1. x # q => procs'[x] = procs[x]
    BY <1>0, <1>1 DEF NewProcess
  <2>2. x = q => procs'[x].born = forks + 1
    BY <1>0, <1>1 DEF NewProcess
  <2>3. forks' = forks + 1 /\ UNCHANGED cpu_times
    BY <1>1 DEF NewProcess, samplerVars
  <2> QED  BY <1>0, <2>1, <2>2, <2>3 DEF CountInv, Exists
<1>2. ASSUME \/ procs'[x].state = "free" /\ procs'[x].born = 0
             \/ /\ procs[x].state # "free"
                /\ procs'[x].born = procs[x].born
                /\ procs'[x].cpu \in {procs[x].cpu, procs[x].cpu + 1}
             \/ procs'[x] = procs[x],
             UNCHANGED <<forks, cpu_times>>
      PROVE  CountInv(x)' /\ UNCHANGED cpu_times
  BY <1>0, <1>2 DEF CountInv, Exists
<1>3. ASSUME NEW p \in Pids, NEW q \in Pids, Fork(p, q)
      PROVE  CountInv(x)' /\ UNCHANGED cpu_times
  BY <1>1, <1>3 DEF Fork
<1>4. ASSUME NEW q \in Pids, StrangerStarts(q)
      PROVE  CountInv(x)' /\ UNCHANGED cpu_times
  BY <1>1, <1>4 DEF StrangerStarts
<1>5. ASSUME NEW p \in Pids, NEW q \in Pids, Reap(p, q)
      PROVE  CountInv(x)' /\ UNCHANGED cpu_times
  BY <1>0, <1>2, <1>5 DEF Reap, Free, samplerVars
<1>6. ASSUME NEW p \in Pids, Run(p)
      PROVE  CountInv(x)' /\ UNCHANGED cpu_times
  <2>1. x # p => procs'[x] = procs[x]
    BY <1>0, <1>6 DEF Run
  <2>2. ASSUME x = p
        PROVE  /\ procs[x].state # "free"
               /\ procs'[x].born = procs[x].born /\ procs'[x].cpu = procs[x].cpu + 1
    <3>1. procs'[x] = [procs[x] EXCEPT !.cpu = @ + 1]
      BY <1>0, <1>6, <2>2 DEF Run
    <3>2. procs[x] \in Process
      BY <1>0
    <3> QED  BY <1>6, <2>2, <3>1, <3>2 DEF Run, Alive, Process
  <2> QED  BY <1>2, <1>6, <2>1, <2>2 DEF Run, samplerVars
<1>7. ASSUME NEW p \in Pids, ExitProcess(p)
      PROVE  CountInv(x)' /\ UNCHANGED cpu_times
  <2>0. procs[x] \in Process
    BY <1>0
  <2>1. \/ procs'[x] \in {Free, procs[x]}
        \/ x = p /\ procs'[x] = [procs[x] EXCEPT !.state = "zombie"]
        \/ procs'[x] = [procs[x] EXCEPT !.parent = InitPid]
    BY <1>7 DEF ExitProcess
  <2>2. CASE x = p /\ procs'[x] = [procs[x] EXCEPT !.state = "zombie"]
    <3>1. /\ procs[x].state # "free" /\ procs'[x].born = procs[x].born
          /\ procs'[x].cpu = procs[x].cpu
      BY <1>7, <2>0, <2>2 DEF ExitProcess, Alive, Process
    <3> QED  BY <1>2, <1>7, <3>1 DEF ExitProcess, samplerVars
  <2>3. CASE procs'[x] = [procs[x] EXCEPT !.parent = InitPid]
    <3>1. /\ procs'[x].state = procs[x].state /\ procs'[x].born = procs[x].born
          /\ procs'[x].cpu = procs[x].cpu
      BY <2>0, <2>3 DEF Process
    <3>2. UNCHANGED <<forks, cpu_times>>
      BY <1>7 DEF ExitProcess, samplerVars
    <3> QED  BY <1>0, <3>1, <3>2 DEF CountInv, Exists
  <2>4. CASE procs'[x] \in {Free, procs[x]}
    BY <1>2, <1>7, <2>4 DEF ExitProcess, samplerVars, Free
  <2> QED  BY <2>1, <2>2, <2>3, <2>4
<1> QED  BY <1>3, <1>4, <1>5, <1>6, <1>7 DEF KernelStep

\* A sample is of the process that has the pid now.
LEMMA CountClock ==
  ASSUME TypeOK, NEW x \in Pids, ReadClock
  PROVE  /\ x \in DOMAIN cpu_times => x \in DOMAIN cpu_times'
         /\ x \in DOMAIN cpu_times' =>
              \/ x \in DOMAIN cpu_times /\ cpu_times'[x] = cpu_times[x]
              \/ /\ Exists(x) /\ x = Head(pids)
                 /\ cpu_times'[x] = [time |-> procs[x].cpu, born |-> procs[x].born]
         /\ Exists(x) /\ x = Head(pids) =>
              /\ x \in DOMAIN cpu_times'
              /\ cpu_times'[x] = [time |-> procs[x].cpu, born |-> procs[x].born]
BY DEF ReadClock, Sampled

LEMMA CountSampler ==
  ASSUME TypeOK, NEW x \in Pids, CountInv(x), SamplerStep
  PROVE  /\ CountInv(x)'
         /\ x \in DOMAIN cpu_times =>
              /\ x \in DOMAIN cpu_times'
              /\ \/ cpu_times'[x].born > cpu_times[x].born
                 \/ /\ cpu_times'[x].born = cpu_times[x].born
                    /\ cpu_times'[x].time >= cpu_times[x].time
<1>0. /\ procs[x].born \in Nat /\ procs[x].cpu \in Nat
      /\ x \in DOMAIN cpu_times => cpu_times[x].born \in Nat /\ cpu_times[x].time \in Nat
  BY CpuAssumption DEF TypeOK, Process
<1>1. CASE ReadClock
  <2>1. UNCHANGED <<procs, forks>>
    BY <1>1 DEF ReadClock, kernelVars
  <2>2. CASE Exists(x) /\ x = Head(pids)
    <3>1. /\ x \in DOMAIN cpu_times'
          /\ cpu_times'[x] = [time |-> procs[x].cpu, born |-> procs[x].born]
      BY <1>1, <2>2, CountClock
    <3>2. cpu_times'[x].time = procs[x].cpu /\ cpu_times'[x].born = procs[x].born
      BY <3>1
    <3> QED  BY <1>0, <2>1, <2>2, <3>1, <3>2 DEF CountInv, Exists
  <2>3. CASE ~(Exists(x) /\ x = Head(pids))
    <3>1. /\ x \in DOMAIN cpu_times => x \in DOMAIN cpu_times'
          /\ x \in DOMAIN cpu_times' =>
               x \in DOMAIN cpu_times /\ cpu_times'[x] = cpu_times[x]
      BY <1>1, <2>3, CountClock
    <3> QED  BY <1>0, <2>1, <3>1 DEF CountInv, Exists
  <2> QED  BY <2>2, <2>3
<1>2. CASE Wait
  <2>1. procs'[x] = procs[x] \/ procs'[x] = Free
    <3>1. procs[Child].state \in {"free", "alive", "zombie"}
      BY PidsAssumption DEF TypeOK, Process
    <3> QED  BY <1>2, <3>1 DEF Wait, TypeOK, Exists, Alive
  <2>2. UNCHANGED <<forks, cpu_times>> /\ forks \in Nat
    BY <1>2, CpuAssumption DEF Wait, TypeOK
  <2> QED  BY <1>0, <2>1, <2>2 DEF CountInv, Exists, Free
<1>3. CASE \/ BeginRound \/ OpenTasks \/ ListTasks \/ OpenChildren \/ ReadChildren
           \/ VisitChild \/ LeaveProcess \/ Report
  <2>1. UNCHANGED <<procs, forks, cpu_times>>
    BY <1>3 DEF BeginRound, OpenTasks, ListTasks, OpenChildren, ReadChildren,
       VisitChild, LeaveProcess, Report, kernelVars
  <2> QED  BY <1>0, <2>1 DEF CountInv, Exists
<1> QED  BY <1>1, <1>2, <1>3 DEF SamplerStep

CountedInv == TypeOK /\ \A p \in Pids : CountInv(p)

LEMMA CountedInit == ASSUME Init PROVE CountedInv
BY TypeInit, CpuAssumption DEF Init, CountedInv, CountInv, Free

LEMMA CountedStep ==
  ASSUME CountedInv, [Next]_vars
  PROVE  CountedInv'
<1>1. TypeOK'
  BY TypeStep DEF CountedInv
<1>2. CASE UNCHANGED vars
  BY <1>1, <1>2 DEF vars, kernelVars, samplerVars, CountedInv, CountInv, Exists
<1>3. CASE Next
  BY <1>1, <1>3, CountKernel, CountSampler DEF Next, CountedInv
<1> QED  BY <1>2, <1>3

LEMMA CountedInvAlways == Spec => []CountedInv
<1>1. Init => CountedInv
  BY CountedInit
<1>2. CountedInv /\ [Next]_vars => CountedInv'
  BY CountedStep
<1> QED  BY <1>1, <1>2, PTL DEF Spec

\* No step takes from what was counted of a process, whatever becomes of it.
THEOREM CountedStays == Spec => CountedStaysCounted
<1>1. ASSUME CountedInv, [Next]_vars
      PROVE  [\A p \in DOMAIN cpu_times :
                /\ p \in DOMAIN cpu_times'
                /\ \/ cpu_times'[p].born > cpu_times[p].born
                   \/ /\ cpu_times'[p].born = cpu_times[p].born
                      /\ cpu_times'[p].time >= cpu_times[p].time]_cpu_times
  <2>1. CASE SamplerStep
    BY <1>1, <2>1, CountSampler DEF CountedInv, TypeOK
  <2>2. CASE KernelStep
    <3>1. TypeOK'
      BY <1>1, TypeStep DEF CountedInv
    <3>2. UNCHANGED cpu_times
      BY <1>1, <2>2, <3>1, CountKernel, PidsAssumption DEF CountedInv
    <3> QED  BY <3>2
  <2>3. CASE UNCHANGED vars
    BY <2>3 DEF vars, samplerVars
  <2> QED  BY <1>1, <2>1, <2>2, <2>3 DEF Next
<1> QED  BY <1>1, CountedInvAlways, PTL DEF Spec, CountedStaysCounted

-----------------------------------------------------------------------------
(* The lineage of make.                                                    *)

Alone(table) == {p \in Pids : table[p].state = "alive"}

\* It is closed, whatever a member's children are.
LEMMA LineageCloses ==
  ASSUME NEW table, NEW p \in Pids, table[p].state = "alive",
         p = Child \/ table[p].parent \in Lineage(table)
  PROVE  p \in Lineage(table)
BY DEF Lineage

\* It is the smallest such set: nothing else is in it.
LEMMA LineageInduction ==
  ASSUME NEW table, NEW T \in SUBSET Pids,
         \A p \in Lineage(table) :
           p = Child \/ table[p].parent \in T \cap Lineage(table) => p \in T
  PROVE  Lineage(table) \subseteq T
<1> DEFINE L == Lineage(table)
<1>1. ASSUME NEW p \in Pids, table[p].state = "alive",
             p = Child \/ table[p].parent \in T \cap L
      PROVE  p \in T \cap L
  <2>1. p \in L
    BY <1>1, LineageCloses
  <2> QED  BY <1>1, <2>1
<1>2. T \cap L \in SUBSET Pids
  OBVIOUS
<1>3. ASSUME NEW p \in L PROVE p \in T
  <2>1. p \in T \cap L
    BY <1>1, <1>2, <1>3 DEF Lineage
  <2> QED  BY <2>1
<1> QED  BY <1>3

\* Its members live, and all but make have their parent in it.
LEMMA LineageMembers ==
  ASSUME NEW table, NEW p \in Lineage(table)
  PROVE  /\ p \in Pids /\ table[p].state = "alive"
         /\ p = Child \/ table[p].parent \in Lineage(table)
<1> DEFINE L == Lineage(table)
<1>1. p \in Pids
  BY LineagePids
<1>2. table[p].state = "alive"
  <2>1. Alone(table) \in SUBSET Pids
    BY DEF Alone
  <2>2. \A q \in Pids : table[q].state = "alive"
                            /\ (q = Child \/ table[q].parent \in Alone(table))
                          => q \in Alone(table)
    BY DEF Alone
  <2>3. p \in Alone(table)
    BY <2>1, <2>2 DEF Lineage
  <2> QED  BY <2>3 DEF Alone
<1>3. ASSUME p # Child, table[p].parent \notin L PROVE FALSE
  <2>1. L \ {p} \in SUBSET Pids
    BY LineagePids
  <2>2. ASSUME NEW q \in L,
               q = Child \/ table[q].parent \in (L \ {p}) \cap L
        PROVE  q \in L \ {p}
    BY <1>3, <2>2
  <2>3. L \subseteq L \ {p}
    BY <2>1, <2>2, LineageInduction
  <2> QED  BY <2>3
<1> QED  BY <1>1, <1>2, <1>3

-----------------------------------------------------------------------------
(* A round finds the steady processes.                                     *)

\* The stages of a call that knows the children it will visit.
Listed(stage) == stage \in {"listing", "visit"}

\* The walk will still come by p, from its parent.
Pending(p) ==
  \E i \in DOMAIN stack :
    /\ stack[i].pid = procs[p].parent
    /\ Listed(stack[i].stage) => p \in stack[i].todo

\* Steady processes live, are in each other's care up to make, and there is no
\* way to them but from make.
TreeInv ==
  /\ pc \notin {"walk", "clocks"} => DOMAIN steady = {}
  /\ \A p \in DOMAIN steady :
       /\ Alive(p) /\ steady[p] \in Nat /\ procs[p].cpu >= steady[p]
       /\ p = Child \/ procs[p].parent \in DOMAIN steady
  /\ \A T \in SUBSET Pids :
       /\ Child \in T
       /\ \A p \in DOMAIN steady : procs[p].parent \in T => p \in T
       => DOMAIN steady \subseteq T

Found == Range(pids)

\* A steady child of a process that was found is found or still to be visited.
WalkInv ==
  /\ Child \in Found
  /\ \A p \in DOMAIN steady :
       procs[p].parent \in Found => p \in Found \/ Pending(p)

\* What was found is still to be read, or was read in this round.
ClockInv ==
  \A p \in DOMAIN steady :
    p \notin Found =>
      p \in DOMAIN cpu_times /\ cpu_times[p].time >= steady[p]

RoundInv ==
  /\ TypeOK
  /\ TreeInv
  /\ pc = "walk" => WalkInv
  /\ pc = "clocks" => ClockInv

\* Steps after which the steady processes are as before.
LEMMA SteadyKept ==
  ASSUME TreeInv, UNCHANGED <<steady, pc>>,
         \A p \in DOMAIN steady : procs'[p] = procs[p]
  PROVE  TreeInv'
BY DEF TreeInv, Alive

\* Steps that some of them do not survive: those that are cut off in a table
\* that agrees with the processes wherever it does not name init.
LEMMA SteadyShrinks ==
  ASSUME TypeOK, TypeOK', TreeInv, UNCHANGED pc, NEW table, StillSteady(table),
         \A p \in Pids :
           /\ table[p].parent \in {procs[p].parent, InitPid}
           /\ table[p].parent \in {procs'[p].parent, InitPid}
           /\ table[p].state = "alive" =>
                procs'[p].state = "alive" /\ procs'[p].cpu >= procs[p].cpu
  PROVE  TreeInv'
<1> DEFINE S == DOMAIN steady
           L == Lineage(table)
<1>1. /\ DOMAIN steady' = S \cap L
      /\ \A p \in S \cap L : steady'[p] = steady[p]
  BY DEF StillSteady, Restrict
<1>2. ASSUME NEW p \in S \cap L
      PROVE  /\ p \in Pids /\ procs'[p].state = "alive"
             /\ p = Child \/ (procs'[p].parent = procs[p].parent
                                /\ procs'[p].parent \in S \cap L)
             /\ steady'[p] \in Nat /\ procs'[p].cpu >= steady'[p]
  <2>1. /\ p \in Pids /\ table[p].state = "alive"
        /\ p = Child \/ table[p].parent \in L
    BY LineageMembers
  <2>2. p = Child \/ table[p].parent # InitPid
    BY <2>1, LineagePids, PidsAssumption
  <2>3. p = Child \/ (procs'[p].parent = procs[p].parent
                         /\ procs'[p].parent \in S \cap L)
    BY <2>1, <2>2 DEF TreeInv
  <2>4. steady'[p] = steady[p] /\ steady[p] \in Nat /\ procs[p].cpu >= steady[p]
    BY <1>1 DEF TreeInv
  <2>5. /\ procs[p].cpu \in Nat /\ procs'[p].cpu \in Nat
        /\ procs'[p].cpu >= procs[p].cpu
    BY <2>1 DEF TypeOK, Process
  <2> QED  BY <2>1, <2>3, <2>4, <2>5
<1>3. ASSUME NEW T \in SUBSET Pids, Child \in T,
             \A p \in S \cap L : procs'[p].parent \in T => p \in T
      PROVE  S \cap L \subseteq T
  <2> DEFINE U == T \cup (Pids \ L)
  <2>1. ASSUME NEW p \in S, procs[p].parent \in U
        PROVE  p \in U
    <3>1. p \in Pids
      BY DEF TypeOK
    <3>2. CASE p \in L /\ p # Child
      <4>1. procs[p].parent \in T /\ procs'[p].parent = procs[p].parent
        BY <1>2, <2>1, <3>2
      <4> QED  BY <1>3, <3>2, <4>1
    <3> QED  BY <1>3, <3>1, <3>2
  <2>2. S \subseteq U
    BY <1>3, <2>1 DEF TreeInv
  <2> QED  BY <2>2
<1>4. pc' \notin {"walk", "clocks"} => DOMAIN steady' = {}
  BY <1>1 DEF TreeInv
<1>5. \A p \in DOMAIN steady' :
        /\ Alive(p)' /\ steady'[p] \in Nat /\ procs'[p].cpu >= steady'[p]
        /\ p = Child \/ procs'[p].parent \in DOMAIN steady'
  BY <1>1, <1>2 DEF Alive
<1>6. \A T \in SUBSET Pids :
        /\ Child \in T
        /\ \A p \in DOMAIN steady' : procs'[p].parent \in T => p \in T
        => DOMAIN steady' \subseteq T
  BY <1>1, <1>3
<1> QED  BY <1>4, <1>5, <1>6 DEF TreeInv

\* Neither kind of step disturbs the walk or the clocks.
LEMMA RoundKept ==
  ASSUME RoundInv, TypeOK', TreeInv', UNCHANGED samplerVars,
         DOMAIN steady' \subseteq DOMAIN steady,
         \A p \in DOMAIN steady' :
           /\ steady'[p] = steady[p]
           /\ p = Child \/ procs'[p].parent = procs[p].parent
  PROVE  RoundInv'
<1>1. pc' = pc /\ Found' = Found /\ stack' = stack /\ cpu_times' = cpu_times
  BY DEF samplerVars, Found
<1>2. ASSUME pc = "walk" PROVE WalkInv'
  BY <1>1, <1>2 DEF RoundInv, WalkInv, Pending
<1>3. ASSUME pc = "clocks" PROVE ClockInv'
  BY <1>1, <1>3 DEF RoundInv, ClockInv
<1> QED  BY <1>1, <1>2, <1>3 DEF RoundInv

LEMMA RoundNewProcess ==
  ASSUME RoundInv, TypeOK', NEW q \in Pids, NEW parent, NEW job, NEW cpu,
         NewProcess(q, parent, job, cpu)
  PROVE  RoundInv'
<1>1. \A p \in DOMAIN steady : procs'[p] = procs[p]
  BY DEF NewProcess, RoundInv, TreeInv, TypeOK, Alive, Exists
<1>2. UNCHANGED <<steady, samplerVars>>
  BY DEF NewProcess
<1>3. TreeInv'
  BY <1>1, <1>2, SteadyKept DEF RoundInv, samplerVars
<1> QED  BY <1>1, <1>2, <1>3, RoundKept

LEMMA RoundShrinks ==
  ASSUME RoundInv, TypeOK', StillSteady(procs'), UNCHANGED samplerVars,
         \A p \in Pids : /\ procs'[p].parent \in {procs[p].parent, InitPid}
                         /\ procs'[p].state = "alive" => procs'[p].cpu >= procs[p].cpu
  PROVE  RoundInv'
<1>1. TreeInv'
  BY SteadyShrinks DEF RoundInv, samplerVars
<1>2. ASSUME NEW p \in DOMAIN steady'
      PROVE  /\ p \in DOMAIN steady /\ steady'[p] = steady[p]
             /\ p = Child \/ procs'[p].parent = procs[p].parent
  <2>1. p \in DOMAIN steady /\ steady'[p] = steady[p]
    BY <1>2 DEF StillSteady, Restrict
  <2>2. p \in Pids
    BY <2>1 DEF RoundInv, TypeOK
  <2>3. p = Child \/ procs'[p].parent \in Pids
    BY <1>1, <1>2 DEF TreeInv, TypeOK
  <2> QED  BY <2>1, <2>2, <2>3, PidsAssumption
<1> QED  BY <1>1, <1>2, RoundKept

LEMMA RoundKernel ==
  ASSUME RoundInv, TypeOK', KernelStep
  PROVE  RoundInv'
<1>0. procs \in [Pids -> Process]
  BY DEF RoundInv, TypeOK
<1>1. ASSUME NEW p \in Pids, NEW q \in Pids, Fork(p, q)
      PROVE  RoundInv'
  BY <1>1, RoundNewProcess DEF Fork
<1>2. ASSUME NEW q \in Pids, StrangerStarts(q)
      PROVE  RoundInv'
  BY <1>2, RoundNewProcess DEF StrangerStarts
<1>3. ASSUME NEW p \in Pids, NEW q \in Pids, Reap(p, q)
      PROVE  RoundInv'
  <2>1. \A x \in DOMAIN steady : procs'[x] = procs[x]
    BY <1>0, <1>3 DEF Reap, RoundInv, TreeInv, TypeOK, Alive
  <2>2. UNCHANGED <<steady, samplerVars>>
    BY <1>3 DEF Reap
  <2>3. TreeInv'
    BY <2>1, <2>2, SteadyKept DEF RoundInv, samplerVars
  <2> QED  BY <2>1, <2>2, <2>3, RoundKept
<1>4. ASSUME NEW p \in Pids, Run(p)
      PROVE  RoundInv'
  <2>1. ASSUME NEW x \in Pids
        PROVE  /\ procs'[x].parent = procs[x].parent
               /\ procs'[x].cpu >= procs[x].cpu
    <3>1. procs[x] \in Process /\ procs[x].cpu \in Nat
      BY <1>0 DEF Process
    <3>2. procs'[x] = IF x = p THEN [procs[x] EXCEPT !.cpu = @ + 1] ELSE procs[x]
      BY <1>0, <1>4 DEF Run
    <3> QED  BY <3>1, <3>2 DEF Process
  <2> QED  BY <1>4, <2>1, RoundShrinks DEF Run
<1>5. ASSUME NEW p \in Pids, ExitProcess(p)
      PROVE  RoundInv'
  <2>1. ASSUME NEW x \in Pids
        PROVE  /\ procs'[x].parent \in {procs[x].parent, InitPid}
               /\ procs'[x].state = "alive" => procs'[x].cpu >= procs[x].cpu
    <3>1. procs[x] \in Process /\ procs[x].cpu \in Nat
      BY <1>0 DEF Process
    <3>2. \/ procs'[x] \in {Free, procs[x]}
          \/ procs'[x] = [procs[x] EXCEPT !.state = "zombie"]
          \/ procs'[x] = [procs[x] EXCEPT !.parent = InitPid]
      BY <1>5 DEF ExitProcess
    <3>3. CASE procs'[x] = [procs[x] EXCEPT !.state = "zombie"]
      BY <3>1, <3>3 DEF Process
    <3>4. CASE procs'[x] = [procs[x] EXCEPT !.parent = InitPid]
      BY <3>1, <3>4 DEF Process
    <3>5. CASE procs'[x] \in {Free, procs[x]}
      BY <3>1, <3>5 DEF Free
    <3> QED  BY <3>2, <3>3, <3>4, <3>5
  <2> QED  BY <1>5, <2>1, RoundShrinks DEF ExitProcess
<1> QED  BY <1>1, <1>2, <1>3, <1>4, <1>5 DEF KernelStep

\* A call that returns leaves nobody unvisited.
LEMMA RoundReturn ==
  ASSUME RoundInv, TypeOK', pc = "walk", Return,
         UNCHANGED <<procs, pids, cpu_times, steady>>,
         \A p \in DOMAIN steady :
           p # Child /\ procs[p].parent = Top.pid => Listed(Top.stage) /\ p \notin Top.todo
  PROVE  RoundInv'
<1>1. /\ stack \in Seq(Frame) /\ Len(stack) \in Nat \ {0} /\ Top = stack[Len(stack)]
      /\ Len(stack') = Len(stack) - 1 /\ stack' \in Seq(Frame)
      /\ \A i \in 1..(Len(stack) - 1) : stack'[i] = stack[i]
      /\ pc' \in {"walk", "clocks"}
      /\ pc' = "walk" <=> stack' # <<>>
  <2>1. TypeOK /\ stack \in Seq(Frame) /\ stack # <<>>
    BY DEF RoundInv, TypeOK
  <2>2. Len(stack) \in Nat \ {0} /\ Top = stack[Len(stack)]
    <3>1. Len(stack) \in Nat \ {0}
      BY <2>1, EmptySeq
    <3> QED  BY <2>1, <3>1, FrontFacts DEF Top
  <2>3. /\ Len(stack') = Len(stack) - 1 /\ stack' \in Seq(Frame)
        /\ \A i \in 1..(Len(stack) - 1) : stack'[i] = stack[i]
        /\ pc' \in {"walk", "clocks"}
        /\ pc' = "walk" <=> stack' # <<>>
    BY <2>1, ReturnType
  <2> QED  BY <2>1, <2>2, <2>3
<1>2. Found' = Found /\ WalkInv
  BY DEF Found, RoundInv
<1>3. ASSUME NEW p \in DOMAIN steady, p # Child, Pending(p)
      PROVE  \E i \in 1..(Len(stack) - 1) :
               /\ stack[i].pid = procs[p].parent
               /\ Listed(stack[i].stage) => p \in stack[i].todo
  BY <1>1, <1>3 DEF Pending
<1>4. ASSUME NEW p \in DOMAIN steady, p # Child, Pending(p)
      PROVE  Pending(p)' /\ stack' # <<>>
  BY <1>1, <1>3, <1>4 DEF Pending
<1>5. TreeInv'
  BY <1>1 DEF RoundInv, TreeInv, Alive
<1>6. CASE pc' = "walk"
  <2>1. WalkInv'
    BY <1>2, <1>4 DEF WalkInv
  <2> QED  BY <1>5, <1>6, <2>1 DEF RoundInv
<1>7. CASE pc' = "clocks"
  <2>1. Found \in SUBSET Pids /\ Child \in Found
    BY <1>2 DEF Found, WalkInv, Range, RoundInv, TypeOK
  <2>2. \A p \in DOMAIN steady : procs[p].parent \in Found => p \in Found
    BY <1>1, <1>2, <1>4, <1>7 DEF WalkInv
  <2>3. DOMAIN steady \subseteq Found
    BY <2>1, <2>2 DEF RoundInv, TreeInv
  <2>4. ClockInv'
    BY <1>2, <2>3 DEF ClockInv
  <2> QED  BY <1>5, <1>7, <2>4 DEF RoundInv
<1> QED  BY <1>1, <1>6, <1>7

\* A call goes on to its next stage, and keeps sight of the children that are
\* still steady.
LEMMA RoundAdvance ==
  ASSUME RoundInv, TypeOK', pc = "walk", UNCHANGED <<procs, pc, pids, cpu_times>>,
         TreeInv', DOMAIN steady' \subseteq DOMAIN steady,
         NEW stage \in {"list", "read", "listing", "visit"}, NEW todo \in SUBSET Pids,
         Advance(stage, todo),
         \A p \in DOMAIN steady' :
           /\ p # Child /\ procs[p].parent = Top.pid
           /\ Listed(Top.stage) => p \in Top.todo
           => (Listed(stage) => p \in todo)
  PROVE  RoundInv'
<1>1. /\ stack \in Seq(Frame) /\ stack # <<>> /\ Top = stack[Len(stack)]
      /\ stack' \in Seq(Frame) /\ Len(stack') = Len(stack)
      /\ \A i \in DOMAIN stack : i # Len(stack) => stack'[i] = stack[i]
      /\ stack'[Len(stack)] = [pid |-> Top.pid, stage |-> stage, todo |-> todo]
  <2>1. stack \in Seq(Frame) /\ stack # <<>>
    BY DEF RoundInv, TypeOK
  <2> QED  BY <2>1, AdvanceType, FrontFacts DEF RoundInv, Top
<1>2. ASSUME NEW p \in DOMAIN steady', p # Child, Pending(p)
      PROVE  Pending(p)'
  <2>1. PICK i \in DOMAIN stack :
          /\ stack[i].pid = procs[p].parent
          /\ Listed(stack[i].stage) => p \in stack[i].todo
    BY <1>2 DEF Pending
  <2>2. DOMAIN stack' = DOMAIN stack
    BY <1>1
  <2>3. CASE i # Len(stack)
    BY <1>1, <2>1, <2>2, <2>3 DEF Pending
  <2>4. CASE i = Len(stack)
    <3>1. /\ procs[p].parent = Top.pid
          /\ Listed(Top.stage) => p \in Top.todo
      BY <1>1, <2>1, <2>4
    <3>2. Listed(stage) => p \in todo
      BY <1>2, <3>1
    <3>3. /\ stack'[i].pid = procs'[p].parent
          /\ Listed(stack'[i].stage) => p \in stack'[i].todo
      BY <1>1, <2>4, <3>1, <3>2
    <3> QED  BY <2>1, <2>2, <3>3 DEF Pending
  <2> QED  BY <2>3, <2>4
<1>3. Found' = Found
  BY DEF Found
<1>4. WalkInv'
  BY <1>2, <1>3 DEF RoundInv, WalkInv
<1> QED  BY <1>4 DEF RoundInv

\* Stages before the list of children is read.
LEMMA RoundGoesOn ==
  ASSUME RoundInv, TypeOK', pc = "walk", UNCHANGED <<procs, pc, pids, cpu_times, steady>>,
         NEW stage \in {"list", "read", "listing"}, NEW todo \in SUBSET Pids,
         Advance(stage, todo), ~Listed(Top.stage),
         stage = "listing" => todo = Children(Top.pid)
  PROVE  RoundInv'
<1>1. TreeInv'
  BY DEF RoundInv, TreeInv, Alive
<1>2. ASSUME NEW p \in DOMAIN steady', procs[p].parent = Top.pid, Listed(stage)
      PROVE  p \in todo
  <2>1. p \in Pids /\ Exists(p)
    BY <1>2 DEF RoundInv, TreeInv, TypeOK, Alive, Exists
  <2> QED  BY <1>2, <2>1 DEF Children, Listed
<1> QED  BY <1>1, <1>2, RoundAdvance

\* A list that was read in peace has all steady children; after another, no
\* child of the process is steady any more.
LEMMA RoundListed ==
  ASSUME RoundInv, TypeOK', ReadChildren, NEW list \in SUBSET Pids,
         Advance("visit", list), UNCHANGED pc,
         \/ UNCHANGED steady /\ Top.todo \subseteq list
         \/ StillSteady(WithoutChildren(Top.pid))
  PROVE  RoundInv'
<1>1. pc = "walk" /\ Top.stage = "listing" /\ UNCHANGED <<procs, pids, cpu_times>>
  BY DEF ReadChildren, kernelVars
<1>2. CASE UNCHANGED steady /\ Top.todo \subseteq list
  <2>1. TreeInv'
    BY <1>1, <1>2 DEF RoundInv, TreeInv, Alive
  <2> QED  BY <1>1, <1>2, <2>1, RoundAdvance DEF Listed
<1>3. CASE StillSteady(WithoutChildren(Top.pid))
  <2> DEFINE table == WithoutChildren(Top.pid)
  <2>1. ASSUME NEW p \in Pids
        PROVE  /\ table[p].parent \in {procs[p].parent, InitPid}
               /\ procs[p].parent = Top.pid => table[p].parent = InitPid
               /\ table[p].state = procs[p].state
               /\ procs[p].cpu \in Nat
    <3>1. procs[p] \in Process
      BY DEF RoundInv, TypeOK
    <3> QED  BY <3>1 DEF WithoutChildren, Process
  <2> HIDE DEF table
  <2>2. StillSteady(table)
    BY <1>3 DEF table
  <2>3. TreeInv'
    BY <1>1, <2>1, <2>2, SteadyShrinks DEF RoundInv
  <2>4. DOMAIN steady' = DOMAIN steady \cap Lineage(table)
    BY <2>2, SteadyType
  <2>5. ASSUME NEW p \in DOMAIN steady', p # Child
        PROVE  procs[p].parent # Top.pid
    <3>1. p \in Pids /\ table[p].parent \in Lineage(table)
      BY <2>4, <2>5, LineageMembers
    <3>2. table[p].parent # InitPid
      BY <3>1, LineagePids, PidsAssumption
    <3> QED  BY <2>1, <3>1, <3>2
  <2> QED  BY <1>1, <2>3, <2>4, <2>5, RoundAdvance
<1> QED  BY <1>2, <1>3

LEMMA RoundVisit ==
  ASSUME RoundInv, TypeOK', VisitChild
  PROVE  RoundInv'
<1>1. /\ stack \in Seq(Frame) /\ stack # <<>> /\ Top = stack[Len(stack)] /\ Top \in Frame
      /\ pids \in Seq(Pids)
  <2>1. stack \in Seq(Frame) /\ stack # <<>> /\ pids \in Seq(Pids)
    BY DEF RoundInv, TypeOK, VisitChild
  <2> QED  BY <2>1, FrontFacts DEF Top
<1>2. PICK q \in Top.todo :
        /\ stack' = Append([stack EXCEPT ![Len(stack)].todo = @ \ {q}], Call(q))
        /\ pids' = Append(pids, q)
  BY DEF VisitChild
<1>3. q \in Pids
  BY <1>1, <1>2 DEF Frame
<1> DEFINE n == Len(stack)
           visited == [stack EXCEPT ![n].todo = @ \ {q}]
<1>4. \A f \in Frame :
        /\ [f EXCEPT !.todo = @ \ {q}] \in Frame
        /\ [f EXCEPT !.todo = @ \ {q}].pid = f.pid
        /\ [f EXCEPT !.todo = @ \ {q}].stage = f.stage
        /\ [f EXCEPT !.todo = @ \ {q}].todo = f.todo \ {q}
  BY DEF Frame
<1>5. visited \in Seq(Frame) /\ Len(visited) = n /\ n \in Nat \ {0}
  BY <1>1, <1>4
<1>6. \A i \in 1..n : /\ visited[i].pid = stack[i].pid
                      /\ visited[i].stage = stack[i].stage
                      /\ \A p : p # q /\ p \in stack[i].todo => p \in visited[i].todo
  BY <1>1, <1>4
<1> HIDE DEF visited
<1>7. /\ Len(stack') = n + 1 /\ stack'[n + 1] = Call(q)
      /\ \A i \in 1..n : stack'[i] = visited[i]
      /\ stack' \in Seq(Frame)
  <2>1. Call(q) \in Frame /\ stack' = Append(visited, Call(q))
    BY <1>2, <1>3, CallType DEF visited
  <2> QED  BY <1>5, <2>1, AppendProperties
<1>8. Found' = Found \cup {q}
  <2>1. /\ Len(pids) \in Nat /\ pids' \in Seq(Pids) /\ Len(pids') = Len(pids) + 1
        /\ \A i \in 1..Len(pids) : pids'[i] = pids[i]
        /\ pids'[Len(pids) + 1] = q
    BY <1>1, <1>2, <1>3, AppendProperties, LenProperties
  <2>2. DOMAIN pids = 1..Len(pids) /\ DOMAIN pids' = 1..(Len(pids) + 1)
    BY <1>1, <2>1
  <2>3. Len(pids) + 1 \in DOMAIN pids' /\ \A i \in DOMAIN pids : i \in DOMAIN pids'
    BY <2>1, <2>2
  <2>4. ASSUME NEW i \in DOMAIN pids'
        PROVE  i \in DOMAIN pids \/ i = Len(pids) + 1
    BY <2>1, <2>2
  <2>5. Found' = {pids'[i] : i \in DOMAIN pids'} /\ Found = {pids[i] : i \in DOMAIN pids}
    BY DEF Found, Range
  <2>6. Found \cup {q} \subseteq Found'
    BY <2>1, <2>2, <2>3, <2>5
  <2>7. Found' \subseteq Found \cup {q}
    BY <2>1, <2>2, <2>4, <2>5
  <2> QED  BY <2>6, <2>7
<1>9. UNCHANGED <<procs, pc, cpu_times, steady>> /\ pc = "walk"
  BY DEF VisitChild, kernelVars
<1>10. ASSUME NEW p \in DOMAIN steady, p # q, Pending(p)
       PROVE  Pending(p)'
  <2>1. PICK i \in 1..n :
          /\ stack[i].pid = procs[p].parent
          /\ Listed(stack[i].stage) => p \in stack[i].todo
    BY <1>1, <1>10 DEF Pending
  <2>2. /\ i \in DOMAIN stack' /\ stack'[i].pid = procs'[p].parent
        /\ Listed(stack'[i].stage) => p \in stack'[i].todo
    BY <1>5, <1>6, <1>7, <1>9, <1>10, <2>1
  <2> QED  BY <2>2 DEF Pending
<1>11. ASSUME NEW p \in DOMAIN steady, procs[p].parent = q
       PROVE  Pending(p)'
  <2>1. n + 1 \in DOMAIN stack' /\ stack'[n + 1].pid = q /\ stack'[n + 1].stage = "open"
    BY <1>5, <1>7 DEF Call
  <2> QED  BY <1>9, <1>11, <2>1 DEF Pending, Listed
<1>12. WalkInv'
  BY <1>8, <1>9, <1>10, <1>11 DEF RoundInv, WalkInv
<1>13. TreeInv'
  BY <1>9 DEF RoundInv, TreeInv, Alive
<1> QED  BY <1>9, <1>12, <1>13 DEF RoundInv

LEMMA RoundBegins ==
  ASSUME RoundInv, TypeOK', BeginRound
  PROVE  RoundInv'
<1> DEFINE L == Lineage(procs)
<1>1. /\ DOMAIN steady' = L /\ \A p \in L : steady'[p] = procs[p].cpu
      /\ pc' = "walk" /\ pids' = <<Child>> /\ stack' = <<Call(Child)>>
      /\ procs' = procs
  BY DEF BeginRound, kernelVars
<1>2. ASSUME NEW p \in L
      PROVE  /\ p \in Pids /\ procs[p].state = "alive" /\ procs[p].cpu \in Nat
             /\ p = Child \/ procs[p].parent \in L
  BY <1>2, LineageMembers DEF RoundInv, TypeOK, Process
<1>3. ASSUME NEW T \in SUBSET Pids, Child \in T,
             \A p \in L : procs[p].parent \in T => p \in T
      PROVE  L \subseteq T
  BY <1>3, LineageInduction
<1>4. \A T \in SUBSET Pids :
        /\ Child \in T
        /\ \A p \in DOMAIN steady' : procs'[p].parent \in T => p \in T
        => DOMAIN steady' \subseteq T
  BY <1>1, <1>3
<1>5. TreeInv'
  BY <1>1, <1>2, <1>4 DEF TreeInv, Alive
<1>6. Found' = {Child}
  BY <1>1 DEF Found, Range
<1>7. \A p \in L : procs[p].parent = Child => Pending(p)'
  BY <1>1 DEF Pending, Listed, Call
<1>8. WalkInv'
  BY <1>1, <1>6, <1>7 DEF WalkInv
<1> QED  BY <1>1, <1>5, <1>8 DEF RoundInv

LEMMA RoundReadsClock ==
  ASSUME RoundInv, TypeOK', ReadClock
  PROVE  RoundInv'
<1>1. /\ UNCHANGED <<procs, pc, stack, steady>> /\ pc = "clocks"
      /\ pids \in Seq(Pids) /\ pids # <<>> /\ pids' = Tail(pids)
  BY DEF ReadClock, kernelVars, RoundInv, TypeOK
<1>2. ASSUME NEW p \in Found
      PROVE  p = Head(pids) \/ p \in Found'
  <2>1. PICK i \in DOMAIN pids : pids[i] = p
    BY <1>2 DEF Found, Range
  <2>2. /\ Tail(pids) \in Seq(Pids) /\ Len(Tail(pids)) = Len(pids) - 1
        /\ \A j \in 1..Len(Tail(pids)) : Tail(pids)[j] = pids[j + 1]
    BY <1>1, HeadTailProperties
  <2>3. Len(pids) \in Nat /\ i \in 1..Len(pids)
    BY <1>1, <2>1
  <2>4. CASE i = 1
    BY <1>1, <2>1, <2>4
  <2>5. CASE i # 1
    <3>1. i - 1 \in 1..Len(Tail(pids)) /\ (i - 1) + 1 = i
      BY <2>2, <2>3, <2>5
    <3>2. i - 1 \in DOMAIN pids' /\ pids'[i - 1] = p
      BY <1>1, <2>1, <2>2, <3>1
    <3> QED  BY <3>2 DEF Found, Range
  <2> QED  BY <2>4, <2>5
<1>3. ASSUME NEW p \in DOMAIN steady, p \notin Found'
      PROVE  p \in DOMAIN cpu_times' /\ cpu_times'[p].time >= steady[p]
  <2>1. /\ p \in Pids /\ Exists(p)
        /\ steady[p] \in Nat /\ procs[p].cpu \in Nat /\ procs[p].cpu >= steady[p]
    BY DEF RoundInv, TreeInv, TypeOK, Alive, Exists, Process
  <2>2. CASE p = Head(pids)
    <3>1. /\ p \in DOMAIN cpu_times'
          /\ cpu_times'[p] = [time |-> procs[p].cpu, born |-> procs[p].born]
      BY <2>1, <2>2, CountClock DEF RoundInv
    <3>2. cpu_times'[p].time = procs[p].cpu
      BY <3>1
    <3> QED  BY <2>1, <3>1, <3>2
  <2>3. CASE p # Head(pids)
    <3>1. p \in DOMAIN cpu_times /\ cpu_times[p].time >= steady[p]
      BY <1>1, <1>2, <1>3, <2>3 DEF RoundInv, ClockInv
    <3>2. p \in DOMAIN cpu_times' /\ cpu_times'[p] = cpu_times[p]
      BY <2>1, <2>3, <3>1, CountClock DEF RoundInv
    <3> QED  BY <3>1, <3>2
  <2> QED  BY <2>2, <2>3
<1>4. ClockInv'
  BY <1>1, <1>3 DEF ClockInv
<1>5. TreeInv'
  BY <1>1 DEF RoundInv, TreeInv, Alive
<1> QED  BY <1>1, <1>4, <1>5 DEF RoundInv

LEMMA RoundSampler ==
  ASSUME RoundInv, TypeOK', SamplerStep
  PROVE  RoundInv'
<1> USE DEF kernelVars
<1>0. pc = "walk" => stack # <<>> /\ Top \in Frame
  BY FrontFacts DEF RoundInv, TypeOK, Top
<1>1. ASSUME NEW p \in DOMAIN steady, p # Child
      PROVE  Exists(procs[p].parent)
  BY <1>1 DEF RoundInv, TreeInv, Alive, Exists
<1>8. FailRound => pc' = "failed" /\ TreeInv'
  BY DEF FailRound, TreeInv
<1>2. CASE OpenTasks
  <2>1. CASE Exists(Top.pid)
    BY <1>2, <2>1, RoundGoesOn DEF OpenTasks, Listed
  <2>2. CASE ~Exists(Top.pid)
    BY <1>1, <1>2, <2>2, RoundReturn DEF OpenTasks
  <2> QED  BY <2>1, <2>2
<1>3. CASE ListTasks
  <2>1. CASE Advance("read", {}) /\ UNCHANGED <<pc, pids, steady>>
    BY <1>3, <2>1, RoundGoesOn DEF ListTasks, Listed
  <2>2. CASE FailRound
    BY <1>8, <2>2 DEF RoundInv
  <2> QED  BY <1>3, <2>1, <2>2 DEF ListTasks
<1>9. CASE OpenChildren
  <2>1. CASE Exists(Top.pid)
    <3>1. Children(Top.pid) \in SUBSET Pids
      BY DEF Children
    <3> QED  BY <1>9, <2>1, <3>1, RoundGoesOn DEF OpenChildren, Listed
  <2>2. CASE ~Exists(Top.pid)
    BY <1>1, <1>9, <2>2, RoundReturn DEF OpenChildren
  <2> QED  BY <2>1, <2>2
<1>4. CASE ReadChildren
  <2>1. CASE ~Exists(Top.pid) /\ Return /\ UNCHANGED steady
    BY <1>1, <1>4, <2>1, RoundReturn DEF ReadChildren
  <2>2. CASE ~(~Exists(Top.pid) /\ Return /\ UNCHANGED steady)
    <3>1. PICK list \in SUBSET (Top.todo \cup Children(Top.pid)) :
            /\ Advance("visit", list) /\ UNCHANGED pc
            /\ \/ UNCHANGED steady /\ Top.todo \subseteq list
               \/ StillSteady(WithoutChildren(Top.pid))
      BY <1>4, <2>2 DEF ReadChildren
    <3>2. list \in SUBSET Pids
      BY <1>0, <1>4, <3>1 DEF ReadChildren, Children, Frame
    <3> QED  BY <1>4, <3>1, <3>2, RoundListed
  <2> QED  BY <2>1, <2>2
<1>5. CASE LeaveProcess
  <2>1. CASE Return /\ UNCHANGED <<pids, steady>>
    BY <1>5, <2>1, RoundReturn DEF LeaveProcess, Listed
  <2>2. CASE FailRound
    BY <1>8, <2>2 DEF RoundInv
  <2> QED  BY <1>5, <2>1, <2>2 DEF LeaveProcess
<1>6. CASE Report
  BY <1>6 DEF Report, RoundInv, TreeInv
<1>7. CASE Wait
  <2>1. /\ steady' = steady /\ DOMAIN steady = {}
        /\ pc' \notin {"walk", "clocks"}
    <3>1. procs[Child].state \in {"free", "alive", "zombie"}
      BY PidsAssumption DEF RoundInv, TypeOK, Process
    <3>2. steady' = steady /\ pc = "wait"
      BY <1>7 DEF Wait
    <3>3. pc' \in {"round", "done"}
      BY <1>7, <3>1 DEF Wait, Exists, Alive
    <3> QED  BY <3>2, <3>3 DEF RoundInv, TreeInv
  <2> QED  BY <2>1 DEF RoundInv, TreeInv
<1> QED
  BY <1>2, <1>3, <1>4, <1>5, <1>6, <1>7, <1>9, RoundBegins, RoundVisit, RoundReadsClock
  DEF SamplerStep

\* A round without an error counts every process that was there throughout, and
\* all it had used when the round began, although the tree changes under the
\* walk: every process but those below one whose list of children the kernel
\* did not promise, since a child exited while it was read.
THEOREM SteadyAreFound == Spec => []RoundFindsTheSteady
<1>1. Init => RoundInv
  BY TypeInit DEF Init, RoundInv, TreeInv
<1>2. RoundInv /\ [Next]_vars => RoundInv'
  <2>1. RoundInv /\ UNCHANGED vars => RoundInv'
    <3>1. ASSUME RoundInv, UNCHANGED vars PROVE RoundInv'
      <4>1. TypeOK'
        BY <3>1, TypeStep DEF RoundInv
      <4>2. TreeInv'
        BY <3>1 DEF vars, kernelVars, samplerVars, RoundInv, TreeInv, Alive
      <4> QED  BY <3>1, <4>1, <4>2, RoundKept DEF vars, kernelVars
    <3> QED  BY <3>1
  <2>2. RoundInv /\ Next => RoundInv'
    BY RoundKernel, RoundSampler, TypeStep DEF Next, RoundInv
  <2> QED  BY <2>1, <2>2
<1>3. RoundInv => RoundFindsTheSteady
  BY DEF RoundInv, ClockInv, RoundFindsTheSteady, Found, Range
<1> QED  BY <1>1, <1>2, <1>3, PTL DEF Spec

-----------------------------------------------------------------------------
(* The sum never exceeds what the job used.                                *)

\* What the sampler holds is the job's, or nobody's; so are all children of
\* processes that are not init.
JobInv ==
  /\ \A p \in Held : Exists(p) => procs[p].job
  /\ \A p \in Pids : Exists(p) /\ procs[p].parent \in Pids => procs[p].job

\* What there is to charge for a pid: what was sampled, and what its process of
\* the job has used, which includes the sample if it was taken of that process.
Counted(p) == IF p \in DOMAIN cpu_times THEN cpu_times[p].time ELSE 0
Owed(p) ==
  IF ~(Exists(p) /\ procs[p].job) THEN Counted(p)
  ELSE IF p \in DOMAIN cpu_times /\ cpu_times[p].born = procs[p].born
       THEN procs[p].cpu
       ELSE Counted(p) + procs[p].cpu

Owing == [p \in Pids |-> Owed(p)]

OwedInv == SumFunctionOnSet(Owing, Pids) <= used

ChargeInv == CountedInv /\ JobInv /\ OwedInv

\* What the sampler holds, by index.
LEMMA HeldMembers ==
  ASSUME stack \in Seq(Frame), pids \in Seq(Pids)
  PROVE  \A q : q \in Held <=>
           \/ q = Child
           \/ \E i \in 1..Len(pids) : q = pids[i]
           \/ \E i \in 1..Len(stack) : q = stack[i].pid \/ q \in stack[i].todo
BY DEF Held, Range

LEMMA HeldPids ==
  ASSUME TypeOK
  PROVE  Held \subseteq Pids
<1>1. stack \in Seq(Frame) /\ pids \in Seq(Pids)
  BY DEF TypeOK
<1>2. \A i \in 1..Len(stack) : stack[i].pid \in Pids /\ stack[i].todo \subseteq Pids
  <2>1. \A f \in Frame : f.pid \in Pids /\ f.todo \subseteq Pids
    BY DEF Frame
  <2> QED  BY <1>1, <2>1
<1>3. \A i \in 1..Len(pids) : pids[i] \in Pids
  BY <1>1
<1> QED  BY <1>1, <1>2, <1>3, HeldMembers, PidsAssumption

\* The walk gets hold of nothing but children of what it holds.
LEMMA HeldStep ==
  ASSUME TypeOK, TypeOK', SamplerStep, NEW q \in Held'
  PROVE  q \in Held \/ \E p \in Pids : q \in Children(p)
<1> DEFINE Goal == q \in Held \/ \E p \in Pids : q \in Children(p)
<1>0. /\ stack \in Seq(Frame) /\ pids \in Seq(Pids)
      /\ stack' \in Seq(Frame) /\ pids' \in Seq(Pids)
  BY DEF TypeOK
<1> HIDE DEF Goal
<1> SUFFICES Goal
  BY DEF Goal
<1>1. ASSUME \A i \in 1..Len(pids') : q = pids'[i] => Goal,
             \A i \in 1..Len(stack') : q = stack'[i].pid \/ q \in stack'[i].todo => Goal
      PROVE  Goal
  BY <1>0, <1>1 DEF Held, Range, Goal
<1>2. /\ q = Child => Goal
      /\ \A i \in 1..Len(pids) : q = pids[i] => Goal
      /\ \A i \in 1..Len(stack) : q = stack[i].pid \/ q \in stack[i].todo => Goal
  BY <1>0, HeldMembers DEF Goal
<1>3. \A p \in Pids : q \in Children(p) => Goal
  BY DEF Goal
<1>4. pc = "walk" => /\ stack # <<>> /\ Len(stack) \in 1..Len(stack)
                     /\ Top = stack[Len(stack)] /\ Top.pid \in Pids
                     /\ \A r \in Top.todo : r \in Pids
  <2>1. pc = "walk" => /\ stack # <<>> /\ Top \in Frame /\ Top = stack[Len(stack)]
    BY <1>0, FrontFacts DEF TypeOK, Top
  <2> QED  BY <1>0, <2>1 DEF Frame
<1>5. ASSUME NEW stage \in {"list", "read", "listing", "visit"}, NEW todo \in SUBSET Pids,
             q \in todo => Goal, pc = "walk", Advance(stage, todo), UNCHANGED pids
      PROVE  Goal
  <2>1. /\ Len(stack') = Len(stack)
        /\ \A i \in 1..Len(stack) : i # Len(stack) => stack'[i] = stack[i]
        /\ stack'[Len(stack)].pid = stack[Len(stack)].pid
        /\ stack'[Len(stack)].todo = todo
    <3>1. /\ Len(stack') = Len(stack)
          /\ \A i \in DOMAIN stack : i # Len(stack) => stack'[i] = stack[i]
          /\ stack'[Len(stack)] = [pid |-> Top.pid, stage |-> stage, todo |-> todo]
      BY <1>4, <1>5, AdvanceType
    <3>2. DOMAIN stack = 1..Len(stack)
      BY <1>0
    <3> QED  BY <1>4, <1>5, <3>1, <3>2
  <2>2. ASSUME NEW i \in 1..Len(stack'), q = stack'[i].pid \/ q \in stack'[i].todo
        PROVE  Goal
    <3>1. CASE i = Len(stack)
      BY <1>2, <1>4, <1>5, <2>1, <2>2, <3>1
    <3>2. CASE i # Len(stack)
      BY <1>2, <2>1, <2>2, <3>2
    <3> QED  BY <3>1, <3>2
  <2> QED  BY <1>1, <1>2, <1>5, <2>2
<1>6. ASSUME pc = "walk", Return, UNCHANGED pids
      PROVE  Goal
  <2>1. /\ Len(stack') = Len(stack) - 1 /\ Len(stack) \in Nat
        /\ \A i \in 1..(Len(stack) - 1) : stack'[i] = stack[i]
    BY <1>0, <1>6, ReturnType
  <2>2. ASSUME NEW i \in 1..Len(stack'), q = stack'[i].pid \/ q \in stack'[i].todo
        PROVE  Goal
    BY <1>2, <2>1, <2>2
  <2> QED  BY <1>1, <1>2, <1>6, <2>2
<1>7. CASE BeginRound
  <2>1. /\ Len(stack') = 1 /\ stack'[1].pid = Child /\ stack'[1].todo = {}
        /\ Len(pids') = 1 /\ pids'[1] = Child
    BY <1>7 DEF BeginRound, Call
  <2> QED  BY <1>1, <1>2, <2>1
<1>8. CASE OpenTasks
  <2>1. CASE Exists(Top.pid)
    <3>1. pc = "walk" /\ Advance("list", {}) /\ UNCHANGED pids
      BY <1>8, <2>1 DEF OpenTasks
    <3> QED  BY <1>5, <3>1
  <2>2. CASE ~Exists(Top.pid)
    BY <1>6, <1>8, <2>2 DEF OpenTasks
  <2> QED  BY <2>1, <2>2
<1>15. ASSUME FailRound
       PROVE  Goal
  <2>1. Len(stack') = 0 /\ Len(pids') = 0
    BY <1>15 DEF FailRound
  <2> QED  BY <1>1, <1>2, <2>1
<1>9. CASE ListTasks
  <2>1. CASE Advance("read", {}) /\ UNCHANGED <<pc, pids, steady>>
    <3>1. pc = "walk" /\ Advance("read", {}) /\ UNCHANGED pids
      BY <1>9, <2>1 DEF ListTasks
    <3> QED  BY <1>5, <3>1
  <2> QED  BY <1>9, <1>15, <2>1 DEF ListTasks
<1>16. CASE OpenChildren
  <2>1. Children(Top.pid) \in SUBSET Pids
    BY DEF Children
  <2>2. q \in Children(Top.pid) => Goal
    BY <1>3, <1>4, <1>16 DEF OpenChildren
  <2>3. CASE Exists(Top.pid)
    <3>1. pc = "walk" /\ Advance("listing", Children(Top.pid)) /\ UNCHANGED pids
      BY <1>16, <2>3 DEF OpenChildren
    <3> QED  BY <1>5, <2>1, <2>2, <3>1
  <2>4. CASE ~Exists(Top.pid)
    BY <1>6, <1>16, <2>4 DEF OpenChildren
  <2> QED  BY <2>3, <2>4
<1>10. CASE ReadChildren
  <2>0. pc = "walk" /\ UNCHANGED pids
    BY <1>10 DEF ReadChildren
  <2>1. CASE Return
    BY <1>6, <2>0, <2>1
  <2>2. CASE ~Return
    <3>1. PICK list \in SUBSET (Top.todo \cup Children(Top.pid)) :
            Advance("visit", list)
      BY <1>10, <2>2 DEF ReadChildren
    <3>2. list \in SUBSET Pids
      BY <1>4, <2>0, <3>1 DEF Children
    <3>3. q \in list => Goal
      BY <1>2, <1>3, <1>4, <2>0, <3>1
    <3> QED  BY <1>5, <2>0, <3>1, <3>2, <3>3
  <2> QED  BY <2>1, <2>2
<1>11. CASE VisitChild
  <2>1. PICK r \in Top.todo :
          /\ stack' = Append([stack EXCEPT ![Len(stack)].todo = @ \ {r}], Call(r))
          /\ pids' = Append(pids, r)
    BY <1>11 DEF VisitChild
  <2>2. pc = "walk" /\ r \in Pids
    BY <1>4, <1>11 DEF VisitChild
  <2> DEFINE st == [stack EXCEPT ![Len(stack)].todo = @ \ {r}]
  <2>3. /\ st \in Seq(Frame) /\ Len(st) = Len(stack)
        /\ \A i \in 1..Len(stack) : /\ st[i].pid = stack[i].pid
                                    /\ st[i].todo \subseteq stack[i].todo
    <3>1. \A f \in Frame : /\ [f EXCEPT !.todo = @ \ {r}] \in Frame
                           /\ [f EXCEPT !.todo = @ \ {r}].pid = f.pid
                           /\ [f EXCEPT !.todo = @ \ {r}].todo = f.todo \ {r}
      BY DEF Frame
    <3>2. st \in Seq(Frame) /\ Len(st) = Len(stack)
      BY <1>0, <1>4, <2>2, <3>1
    <3>3. ASSUME NEW i \in 1..Len(stack)
          PROVE  st[i].pid = stack[i].pid /\ st[i].todo \subseteq stack[i].todo
      <4>1. stack[i] \in Frame
        BY <1>0
      <4>2. st[i] = stack[i] \/ st[i] = [stack[i] EXCEPT !.todo = @ \ {r}]
        <5>1. DOMAIN stack = 1..Len(stack)
          BY <1>0
        <5>2. CASE i = Len(stack)
          BY <5>1, <5>2
        <5>3. CASE i # Len(stack)
          BY <5>1, <5>3
        <5> QED  BY <5>2, <5>3
      <4> HIDE DEF st
      <4> QED  BY <3>1, <4>1, <4>2
    <3> QED  BY <3>2, <3>3
  <2> HIDE DEF st
  <2>4. stack' = Append(st, Call(r))
    BY <2>1 DEF st
  <2>5. /\ Len(stack') = Len(stack) + 1 /\ Len(stack) \in Nat
        /\ \A i \in 1..Len(stack) : stack'[i] = st[i]
        /\ stack'[Len(stack) + 1] = Call(r)
    BY <1>0, <2>3, <2>4
  <2>6. /\ Len(pids') = Len(pids) + 1 /\ Len(pids) \in Nat
        /\ \A i \in 1..Len(pids) : pids'[i] = pids[i]
        /\ pids'[Len(pids) + 1] = r
    BY <1>0, <2>1, <2>2
  <2>7. q = r => Goal
    BY <1>2, <1>4, <2>2
  <2>8. ASSUME NEW i \in 1..Len(stack'), q = stack'[i].pid \/ q \in stack'[i].todo
        PROVE  Goal
    <3>1. CASE i = Len(stack) + 1
      BY <2>5, <2>7, <2>8, <3>1 DEF Call
    <3>2. CASE i # Len(stack) + 1
      <4>1. i \in 1..Len(stack)
        BY <2>5, <3>2
      <4> QED  BY <1>2, <2>3, <2>5, <2>8, <4>1
    <3> QED  BY <3>1, <3>2
  <2>9. ASSUME NEW i \in 1..Len(pids'), q = pids'[i]
        PROVE  Goal
    <3>1. i \in 1..Len(pids) \/ i = Len(pids) + 1
      BY <2>6
    <3> QED  BY <1>2, <2>6, <2>7, <2>9, <3>1
  <2> QED  BY <1>1, <2>8, <2>9
<1>12. CASE LeaveProcess
  BY <1>6, <1>12, <1>15 DEF LeaveProcess
<1>13. CASE ReadClock
  <2>1. /\ Len(pids') = Len(pids) - 1 /\ Len(pids) \in Nat /\ UNCHANGED stack
        /\ \A i \in 1..Len(pids') : pids'[i] = pids[i + 1]
    BY <1>0, <1>13, HeadTailProperties DEF ReadClock
  <2>2. ASSUME NEW i \in 1..Len(pids'), q = pids'[i]
        PROVE  Goal
    <3>1. i + 1 \in 1..Len(pids)
      BY <2>1
    <3> QED  BY <1>2, <2>1, <2>2, <3>1
  <2> QED  BY <1>1, <1>2, <2>1, <2>2
<1>14. CASE Report \/ Wait
  BY <1>1, <1>2, <1>14 DEF Report, Wait
<1> QED
  BY <1>7, <1>8, <1>9, <1>10, <1>11, <1>12, <1>13, <1>14, <1>16 DEF SamplerStep

\* What a step may do to a process, other than fork or run it.
Persists(p) ==
  Exists(p)' =>
    /\ Exists(p) /\ procs'[p].job = procs[p].job /\ procs'[p].born = procs[p].born
    /\ procs'[p].parent \in {procs[p].parent, InitPid}
    /\ procs'[p].cpu = procs[p].cpu

LEMMA ExitPersists ==
  ASSUME TypeOK, NEW p \in Pids, ExitProcess(p), NEW x \in Pids
  PROVE  Persists(x)
<1>1. procs[x] \in Process
  BY DEF TypeOK
<1>2. \/ procs'[x] = Free
      \/ procs'[x] = procs[x]
      \/ x = p /\ procs'[x] = [procs[x] EXCEPT !.state = "zombie"]
      \/ procs'[x] = [procs[x] EXCEPT !.parent = InitPid]
  BY DEF ExitProcess
<1>3. CASE procs'[x] = Free \/ procs'[x] = procs[x]
  BY <1>3 DEF Persists, Exists, Free
<1>4. CASE x = p /\ procs'[x] = [procs[x] EXCEPT !.state = "zombie"]
  BY <1>1, <1>4 DEF Persists, Exists, ExitProcess, Alive, Process
<1>5. CASE procs'[x] = [procs[x] EXCEPT !.parent = InitPid]
  BY <1>1, <1>5 DEF Persists, Exists, Process
<1> QED  BY <1>2, <1>3, <1>4, <1>5

LEMMA ReapPersists ==
  ASSUME TypeOK, NEW p \in Pids, NEW q \in Pids, Reap(p, q), NEW x \in Pids
  PROVE  Persists(x)
<1>1. procs'[x] = Free \/ procs'[x] = procs[x]
  BY DEF Reap, TypeOK
<1> QED  BY <1>1 DEF Persists, Exists, Free

LEMMA SamplerPersists ==
  ASSUME TypeOK, SamplerStep, NEW x \in Pids
  PROVE  Persists(x)
<1>1. CASE Wait
  <2>1. procs[Child].state \in {"free", "alive", "zombie"}
    BY PidsAssumption DEF TypeOK, Process
  <2>2. procs'[x] = Free \/ procs'[x] = procs[x]
    BY <1>1, <2>1 DEF Wait, TypeOK, Exists, Alive
  <2> QED  BY <2>2 DEF Persists, Exists, Free
<1>2. CASE ~Wait
  <2>1. UNCHANGED procs
    BY <1>2 DEF SamplerStep, BeginRound, OpenTasks, ListTasks, OpenChildren,
       ReadChildren, VisitChild, LeaveProcess, ReadClock, Report, kernelVars
  <2> QED  BY <2>1 DEF Persists, Exists
<1> QED  BY <1>1, <1>2

\* A process that runs keeps what it is, and has used one unit more.
LEMMA RunFacts ==
  ASSUME TypeOK, NEW p \in Pids, Run(p)
  PROVE  /\ \A x \in Pids : x # p => procs'[x] = procs[x]
         /\ Exists(p) /\ Exists(p)' /\ procs[p].job /\ procs'[p].job
         /\ procs'[p].born = procs[p].born /\ procs'[p].parent = procs[p].parent
         /\ procs'[p].cpu = procs[p].cpu + 1
<1>1. procs'[p] = [procs[p] EXCEPT !.cpu = @ + 1] /\ procs[p] \in Process
  BY DEF Run, TypeOK
<1>2. /\ procs'[p].job = procs[p].job /\ procs'[p].state = procs[p].state
      /\ procs'[p].born = procs[p].born /\ procs'[p].parent = procs[p].parent
      /\ procs'[p].cpu = procs[p].cpu + 1
  BY <1>1 DEF Process
<1> QED  BY <1>2 DEF Run, TypeOK, Alive, Exists

LEMMA JobStep ==
  ASSUME TypeOK, TypeOK', JobInv, Next
  PROVE  JobInv'
<1>1. ASSUME NEW q \in Pids, NEW parent, NEW job, NEW cpu,
             NewProcess(q, parent, job, cpu), parent \in Pids => job
      PROVE  JobInv'
  <2>1. /\ q \notin Held /\ Held' = Held
        /\ \A x \in Pids : x # q => procs'[x] = procs[x]
        /\ procs'[q].parent = parent /\ procs'[q].job = job
    BY <1>1 DEF NewProcess, TypeOK, samplerVars, Held
  <2> QED  BY <1>1, <2>1, HeldPids DEF JobInv, Exists
<1>2. ASSUME Held' = Held, \A x \in Pids : Persists(x)
      PROVE  JobInv'
  BY <1>2, HeldPids, PidsAssumption DEF JobInv, Persists
<1>3. ASSUME NEW p \in Pids, NEW q \in Pids, Fork(p, q)
      PROVE  JobInv'
  BY <1>1, <1>3 DEF Fork
<1>4. ASSUME NEW q \in Pids, StrangerStarts(q)
      PROVE  JobInv'
  BY <1>1, <1>4, PidsAssumption DEF StrangerStarts
<1>5. ASSUME NEW p \in Pids, NEW q \in Pids, Reap(p, q)
      PROVE  JobInv'
  <2>1. Held' = Held
    BY <1>5 DEF Reap, samplerVars, Held
  <2> QED  BY <1>2, <1>5, <2>1, ReapPersists
<1>6. ASSUME NEW p \in Pids, ExitProcess(p)
      PROVE  JobInv'
  <2>1. Held' = Held
    BY <1>6 DEF ExitProcess, samplerVars, Held
  <2> QED  BY <1>2, <1>6, <2>1, ExitPersists
<1>7. ASSUME NEW p \in Pids, Run(p)
      PROVE  JobInv'
  <2>1. Held' = Held
    BY <1>7 DEF Run, samplerVars, Held
  <2> QED  BY <1>7, <2>1, RunFacts, HeldPids DEF JobInv, Exists
<1>8. CASE SamplerStep
  <2>1. ASSUME NEW q \in Held', Exists(q)'
        PROVE  procs'[q].job
    <3>1. q \in Pids /\ Persists(q)
      BY <1>8, <2>1, HeldStep, HeldPids, SamplerPersists DEF Children
    <3>2. q \in Held \/ \E p \in Pids : q \in Children(p)
      BY <1>8, HeldStep
    <3>3. procs[q].job
      BY <2>1, <3>1, <3>2 DEF JobInv, Persists, Children
    <3> QED  BY <2>1, <3>1, <3>3 DEF Persists
  <2>2. ASSUME NEW q \in Pids, Exists(q)', procs'[q].parent \in Pids
        PROVE  procs'[q].job
    BY <1>8, <2>2, SamplerPersists, PidsAssumption DEF JobInv, Persists
  <2> QED  BY <2>1, <2>2 DEF JobInv
<1> QED  BY <1>3, <1>4, <1>5, <1>6, <1>7, <1>8 DEF Next, KernelStep

LEMMA OwedType ==
  ASSUME TypeOK
  PROVE  \A p \in Pids : Owed(p) \in Nat /\ Counted(p) \in Nat /\ Owing[p] = Owed(p)
<1> SUFFICES ASSUME NEW p \in Pids
             PROVE  Owed(p) \in Nat /\ Counted(p) \in Nat
  BY DEF Owing
<1>1. Counted(p) \in Nat
  BY DEF Counted, TypeOK
<1>2. procs[p].cpu \in Nat
  BY DEF TypeOK, Process
<1> QED  BY <1>1, <1>2 DEF Owed

LEMMA OwedTypeNext ==
  ASSUME TypeOK'
  PROVE  \A p \in Pids : Owed(p)' \in Nat /\ Owing'[p] = Owed(p)'
<1> SUFFICES ASSUME NEW p \in Pids
             PROVE  Owed(p)' \in Nat
  BY DEF Owing
<1>1. Counted(p)' \in Nat
  BY DEF Counted, TypeOK
<1>2. procs'[p].cpu \in Nat
  BY DEF TypeOK, Process
<1> QED  BY <1>1, <1>2 DEF Owed

\* While nothing is sampled, a process that persists or goes is owed no more.
LEMMA OwedPersists ==
  ASSUME CountedInv, NEW x \in Pids, Persists(x), UNCHANGED cpu_times
  PROVE  Owed(x)' <= Owed(x)
<1>1. CountInv(x) /\ Counted(x) \in Nat /\ procs[x].cpu \in Nat
  BY OwedType DEF CountedInv, TypeOK, Process
<1>2. Counted(x)' = Counted(x)
  BY DEF Counted
<1>3. Owed(x) \in Nat /\ Owed(x) >= Counted(x)
  <2>1. x \in DOMAIN cpu_times => cpu_times[x].time \in Nat /\ cpu_times[x].time = Counted(x)
    BY DEF CountedInv, TypeOK, Counted
  <2>2. CASE ~(Exists(x) /\ procs[x].job)
    BY <1>1, <2>2 DEF Owed
  <2>3. CASE Exists(x) /\ procs[x].job /\ x \in DOMAIN cpu_times
               /\ cpu_times[x].born = procs[x].born
    <3>1. procs[x].cpu >= cpu_times[x].time
      <4>1. cpu_times[x].born <= forks /\ forks \in Nat /\ procs[x].born \in Nat
        BY <1>1, <2>3, CpuAssumption DEF CountInv, CountedInv, TypeOK, Process
      <4> QED  BY <1>1, <2>3, <4>1 DEF CountInv
    <3> QED  BY <1>1, <2>1, <2>3, <3>1 DEF Owed
  <2>4. CASE Exists(x) /\ procs[x].job /\ ~(x \in DOMAIN cpu_times
               /\ cpu_times[x].born = procs[x].born)
    BY <1>1, <2>4 DEF Owed
  <2> QED  BY <2>2, <2>3, <2>4
<1>4. CASE ~(Exists(x) /\ procs[x].job)'
  BY <1>2, <1>3, <1>1, <1>4 DEF Owed
<1>5. CASE (Exists(x) /\ procs[x].job)'
  <2>1. /\ Exists(x) /\ procs[x].job
        /\ procs'[x].born = procs[x].born /\ procs'[x].cpu = procs[x].cpu
    BY <1>5 DEF Persists
  <2> QED  BY <1>1, <1>2, <1>3, <1>5, <2>1 DEF Owed
<1> QED  BY <1>4, <1>5

LEMMA OwedStep ==
  ASSUME TypeOK, TypeOK', OwedInv, used' = used,
         \A x \in Pids : Owed(x)' <= Owed(x)
  PROVE  OwedInv'
<1>1. \A x \in Pids : /\ Owing[x] = Owed(x) /\ Owed(x) \in Nat
                      /\ Owing'[x] = Owed(x)' /\ Owed(x)' \in Nat
  BY OwedType, OwedTypeNext
<1>2. \A x \in Pids : Owing'[x] \in Int /\ Owing[x] \in Int /\ Owing'[x] <= Owing[x]
  BY <1>1
<1>3. IsFiniteSet(Pids)
  BY PidsAssumption
<1>4. SumFunctionOnSet(Owing', Pids) <= SumFunctionOnSet(Owing, Pids)
  BY <1>2, <1>3, SumMonotone
<1>5. /\ SumFunctionOnSet(Owing', Pids) \in Int /\ SumFunctionOnSet(Owing, Pids) \in Int
      /\ used \in Int
  BY <1>2, <1>3, SumInt DEF TypeOK
<1> QED  BY <1>4, <1>5 DEF OwedInv

LEMMA OwedNewProcess ==
  ASSUME CountedInv, NEW q \in Pids, NEW parent, NEW job \in BOOLEAN, NEW cpu \in Nat,
         job => cpu = 0, NewProcess(q, parent, job, cpu), NEW x \in Pids
  PROVE  Owed(x)' <= Owed(x)
<1>1. /\ CountInv(x) /\ Counted(x) \in Nat /\ Owed(x) \in Nat
      /\ procs \in [Pids -> Process] /\ UNCHANGED cpu_times
  BY OwedType DEF CountedInv, TypeOK, NewProcess, samplerVars
<1>2. Counted(x)' = Counted(x)
  BY <1>1 DEF Counted
<1>3. CASE x = q
  <2>1. Owed(x) = Counted(x)
    BY <1>3 DEF NewProcess, Owed
  <2>2. /\ procs'[x].job = job /\ procs'[x].cpu = cpu /\ procs'[x].born = forks + 1
        /\ forks \in Nat
    BY <1>1, <1>3, CpuAssumption DEF NewProcess, CountedInv, TypeOK
  <2>3. x \in DOMAIN cpu_times =>
          cpu_times[x].born \in Nat /\ cpu_times[x].born # procs'[x].born
    BY <1>1, <2>2, CpuAssumption DEF CountInv, CountedInv, TypeOK
  <2>4. Owed(x)' = IF ~(Exists(x)' /\ job) THEN Counted(x) ELSE Counted(x) + cpu
    BY <1>1, <1>2, <2>2, <2>3 DEF Owed
  <2> QED  BY <1>1, <2>1, <2>4
<1>4. CASE x # q
  <2>1. procs'[x] = procs[x]
    BY <1>1, <1>4 DEF NewProcess
  <2>2. Owed(x)' = Owed(x)
    BY <1>1, <1>2, <2>1 DEF Owed, Exists
  <2> QED  BY <1>1, <2>2
<1> QED  BY <1>3, <1>4

\* A unit that the job uses is owed for the process that used it.
LEMMA OwedRun ==
  ASSUME CountedInv, TypeOK', OwedInv, NEW p \in Pids, Run(p)
  PROVE  OwedInv'
<1>0. /\ procs[p].cpu \in Nat /\ Counted(p) \in Nat /\ UNCHANGED cpu_times
      /\ used' = used + 1 /\ used \in Nat
  BY OwedType, CpuAssumption DEF CountedInv, TypeOK, Process, Run, samplerVars
<1>1. Counted(p)' = Counted(p)
  BY <1>0 DEF Counted
<1>2. Owed(p)' = Owed(p) + 1
  BY <1>0, <1>1, RunFacts DEF Owed, CountedInv
<1>3. \A x \in Pids : x # p => Owed(x)' = Owed(x)
  BY <1>0, RunFacts DEF Owed, Counted, Exists, CountedInv
<1>4. \A x \in Pids : /\ Owing[x] = Owed(x) /\ Owing[x] \in Int
                      /\ Owing'[x] = Owed(x)' /\ Owing'[x] \in Int
  BY OwedType, OwedTypeNext DEF CountedInv
<1>5. \A x \in Pids : x # p => Owing[x] = Owing'[x]
  BY <1>3, <1>4
<1>6. SumFunctionOnSet(Owing', Pids)
        = SumFunctionOnSet(Owing, Pids) - Owing[p] + Owing'[p]
  BY <1>4, <1>5, SumChange, PidsAssumption
<1>7. SumFunctionOnSet(Owing, Pids) \in Int
  BY <1>4, SumInt, PidsAssumption
<1>8. Owing[p] \in Int /\ Owing'[p] = Owing[p] + 1
  BY <1>2, <1>4
<1> QED  BY <1>0, <1>6, <1>7, <1>8 DEF OwedInv

\* A sample is no more than what its process is owed for anyway.
LEMMA OwedReadClock ==
  ASSUME CountedInv, JobInv, ReadClock, NEW x \in Pids
  PROVE  Owed(x)' <= Owed(x)
<1>0. /\ TypeOK /\ CountInv(x) /\ UNCHANGED procs
      /\ procs[x].cpu \in Nat /\ Counted(x) \in Nat /\ Owed(x) \in Nat
  BY OwedType DEF CountedInv, TypeOK, Process, ReadClock, kernelVars
<1>1. CASE Exists(x) /\ x = Head(pids)
  <2>1. x \in Held
    <3>1. pids \in Seq(Pids) /\ pids # <<>> /\ stack \in Seq(Frame)
      BY DEF ReadClock, CountedInv, TypeOK
    <3>2. x = pids[1] /\ 1 \in 1..Len(pids)
      BY <1>1, <3>1
    <3> QED  BY <3>1, <3>2, HeldMembers
  <2>2. procs[x].job
    BY <1>1, <2>1 DEF JobInv
  <2>3. /\ x \in DOMAIN cpu_times' /\ cpu_times'[x].born = procs[x].born
        /\ cpu_times'[x].time = procs[x].cpu
    <3>1. /\ x \in DOMAIN cpu_times'
          /\ cpu_times'[x] = [time |-> procs[x].cpu, born |-> procs[x].born]
      BY <1>0, <1>1, CountClock
    <3> QED  BY <3>1
  <2>4. Owed(x)' = procs[x].cpu
    BY <1>0, <1>1, <2>2, <2>3 DEF Owed, Exists
  <2>5. procs[x].cpu <= Owed(x)
    BY <1>0, <1>1, <2>2 DEF Owed
  <2> QED  BY <2>4, <2>5
<1>2. CASE ~(Exists(x) /\ x = Head(pids))
  <2>1. /\ x \in DOMAIN cpu_times => x \in DOMAIN cpu_times'
        /\ x \in DOMAIN cpu_times' =>
             x \in DOMAIN cpu_times /\ cpu_times'[x] = cpu_times[x]
    BY <1>0, <1>2, CountClock
  <2>2. Owed(x)' = Owed(x)
    BY <1>0, <2>1 DEF Owed, Counted, Exists
  <2> QED  BY <1>0, <2>2
<1> QED  BY <1>1, <1>2

LEMMA ChargeStep ==
  ASSUME ChargeInv, Next
  PROVE  ChargeInv'
<1>0. TypeOK /\ TypeOK' /\ CountedInv /\ CountedInv' /\ JobInv /\ JobInv' /\ OwedInv
  BY TypeStep, CountedStep, JobStep DEF ChargeInv, CountedInv
<1>1. ASSUME used' = used, UNCHANGED cpu_times, \A x \in Pids : Persists(x)
      PROVE  OwedInv'
  BY <1>0, <1>1, OwedPersists, OwedStep
<1>2. ASSUME NEW p \in Pids, NEW q \in Pids, Fork(p, q)
      PROVE  OwedInv'
  <2>1. NewProcess(q, p, TRUE, 0) /\ used' = used
    BY <1>2 DEF Fork, NewProcess
  <2>2. \A x \in Pids : Owed(x)' <= Owed(x)
    BY <1>0, <2>1, OwedNewProcess
  <2> QED  BY <1>0, <2>1, <2>2, OwedStep
<1>3. ASSUME NEW q \in Pids, StrangerStarts(q)
      PROVE  OwedInv'
  <2>1. PICK cpu \in Strangers : NewProcess(q, InitPid, FALSE, cpu)
    BY <1>3 DEF StrangerStarts
  <2>2. cpu \in Nat /\ used' = used
    BY <2>1, CpuAssumption DEF NewProcess
  <2>3. \A x \in Pids : Owed(x)' <= Owed(x)
    BY <1>0, <2>1, <2>2, OwedNewProcess
  <2> QED  BY <1>0, <2>2, <2>3, OwedStep
<1>4. ASSUME NEW p \in Pids, NEW q \in Pids, Reap(p, q)
      PROVE  OwedInv'
  BY <1>0, <1>1, <1>4, ReapPersists DEF Reap, samplerVars
<1>5. ASSUME NEW p \in Pids, ExitProcess(p)
      PROVE  OwedInv'
  BY <1>0, <1>1, <1>5, ExitPersists DEF ExitProcess, samplerVars
<1>6. ASSUME NEW p \in Pids, Run(p)
      PROVE  OwedInv'
  BY <1>0, <1>6, OwedRun
<1>7. ASSUME ReadClock
      PROVE  OwedInv'
  <2>1. used' = used
    BY <1>7 DEF ReadClock, kernelVars
  <2>2. \A x \in Pids : Owed(x)' <= Owed(x)
    BY <1>0, <1>7, OwedReadClock
  <2> QED  BY <1>0, <2>1, <2>2, OwedStep
<1>8. ASSUME SamplerStep, ~ReadClock
      PROVE  OwedInv'
  <2>1. UNCHANGED <<used, cpu_times>>
    BY <1>8 DEF SamplerStep, BeginRound, OpenTasks, ListTasks, OpenChildren,
       ReadChildren, VisitChild, LeaveProcess, Report, Wait, kernelVars
  <2>2. \A x \in Pids : Persists(x)
    BY <1>0, <1>8, SamplerPersists
  <2> QED  BY <1>1, <2>1, <2>2
<1>9. OwedInv'
  BY <1>2, <1>3, <1>4, <1>5, <1>6, <1>7, <1>8 DEF Next, KernelStep
<1> QED  BY <1>0, <1>9 DEF ChargeInv

LEMMA ChargeInit == ASSUME Init PROVE ChargeInv
<1>0. TypeOK /\ CountedInv
  BY CountedInit, TypeInit
<1>1. /\ cpu_times = [p \in {} |-> 0] /\ used = 0
      /\ procs = [p \in Pids |-> IF p = Child
                    THEN [Free EXCEPT !.state = "alive", !.job = TRUE] ELSE Free]
  BY DEF Init
<1>2. \A p \in Pids : procs[p].cpu = 0 /\ (Exists(p) => procs[p].job)
  BY <1>1 DEF Free, Exists
<1>3. JobInv
  BY <1>0, <1>2, HeldPids DEF JobInv
<1>4. \A p \in Pids : Owing[p] = 0
  BY <1>1, <1>2 DEF Owing, Owed, Counted
<1>5. SumFunctionOnSet(Owing, Pids) = 0
  BY <1>4, SumZero, PidsAssumption
<1> QED  BY <1>0, <1>1, <1>3, <1>5 DEF ChargeInv, OwedInv

LEMMA ChargeStutter ==
  ASSUME ChargeInv, UNCHANGED vars
  PROVE  ChargeInv'
<1>1. CountedInv'
  BY CountedStep DEF ChargeInv
<1>2. Held' = Held /\ JobInv'
  BY DEF vars, kernelVars, samplerVars, Held, ChargeInv, JobInv, Exists
<1>3. Owing' = Owing
  BY DEF vars, kernelVars, samplerVars, Owing, Owed, Counted, Exists
<1> QED
  BY <1>1, <1>2, <1>3 DEF ChargeInv, OwedInv, vars, kernelVars

\* The charge of an order is at most what its processes used, whichever pids
\* die, are adopted or are given to somebody else meanwhile.
THEOREM NeverOverchargedEver == Spec => []NeverOvercharged
<1>1. ChargeInv => NeverOvercharged
  <2> SUFFICES ASSUME ChargeInv PROVE NeverOvercharged
    OBVIOUS
  <2> DEFINE D == DOMAIN cpu_times
             times == [p \in D |-> cpu_times[p].time]
  <2>1. /\ D \in SUBSET Pids /\ IsFiniteSet(Pids) /\ IsFiniteSet(D)
        /\ TypeOK /\ used \in Nat
    <3>1. TypeOK
      BY DEF ChargeInv, CountedInv
    <3> QED  BY <3>1, PidsAssumption, CpuAssumption, FS_Subset DEF TypeOK
  <2>2. ASSUME NEW p \in D
        PROVE  times[p] \in Nat /\ Owing[p] \in Nat /\ times[p] <= Owing[p]
    <3>1. /\ CountInv(p) /\ p \in Pids /\ cpu_times[p].time \in Nat
          /\ procs[p].cpu \in Nat
      BY <2>1, <2>2 DEF ChargeInv, CountedInv, TypeOK, Process
    <3>2. Counted(p) = cpu_times[p].time
      BY DEF Counted
    <3>3. cpu_times[p].time <= Owed(p)
      <4>1. p \in DOMAIN cpu_times
        BY <2>2
      <4>2. Exists(p) /\ cpu_times[p].born = procs[p].born
              => procs[p].cpu >= cpu_times[p].time
        <5>1. /\ forks \in Nat /\ procs[p].born \in Nat
              /\ cpu_times[p].born \in Nat
          BY <2>1, <3>1, <4>1, CpuAssumption DEF TypeOK, Process
        <5> QED  BY <3>1, <4>1, <5>1 DEF CountInv
      <4>3. CASE Exists(p) /\ cpu_times[p].born = procs[p].born
        BY <3>1, <3>2, <4>1, <4>2, <4>3 DEF Owed
      <4>4. CASE ~(Exists(p) /\ cpu_times[p].born = procs[p].born)
        BY <3>1, <3>2, <4>1, <4>4 DEF Owed
      <4> QED  BY <4>3, <4>4
    <3>4. times[p] = cpu_times[p].time
      OBVIOUS
    <3>5. Owing[p] = Owed(p) /\ Owed(p) \in Nat
      BY <2>1, <3>1, OwedType
    <3> HIDE DEF times, D
    <3> QED  BY <3>1, <3>3, <3>4, <3>5
  <2>3. \A p \in Pids : Owing[p] \in Nat
    BY <2>1, OwedType
  <2>4. Total(cpu_times) = SumFunctionOnSet(times, D)
    BY DEF Total
  <2> HIDE DEF times, D
  <2>5. \A p \in D : times[p] \in Int /\ Owing[p] \in Int /\ times[p] <= Owing[p]
    BY <2>2
  <2>6. SumFunctionOnSet(times, D) <= SumFunctionOnSet(Owing, D)
    BY <2>1, <2>5, SumMonotone
  <2>7. SumFunctionOnSet(Owing, D) <= SumFunctionOnSet(Owing, Pids)
    BY <2>1, <2>3, SumWithin
  <2>8. /\ SumFunctionOnSet(times, D) \in Int /\ SumFunctionOnSet(Owing, D) \in Int
        /\ SumFunctionOnSet(Owing, Pids) \in Int
    <3>1. \A p \in Pids : Owing[p] \in Int
      BY <2>3
    <3> QED  BY <2>1, <2>5, <3>1, SumInt
  <2>9. SumFunctionOnSet(Owing, Pids) <= used
    BY DEF ChargeInv, OwedInv
  <2> QED  BY <2>1, <2>4, <2>6, <2>7, <2>8, <2>9 DEF NeverOvercharged
<1>2. Init => ChargeInv
  BY ChargeInit
<1>3. ChargeInv /\ [Next]_vars => ChargeInv'
  BY ChargeStep, ChargeStutter
<1> QED  BY <1>1, <1>2, <1>3, PTL DEF Spec
=============================================================================
