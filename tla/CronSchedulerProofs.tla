------------------------ MODULE CronSchedulerProofs ------------------------
(***************************************************************************)
(* The scheduler's safety for any set of jobs and any bounds. The four     *)
(* invariants need no strengthening beyond each other: the counters are    *)
(* naturals, and what a step adds on one side it adds on the other.        *)
(***************************************************************************)
EXTENDS CronScheduler, TLAPS

CronInv == TypeOK /\ AttemptsArePaidFor /\ RunCountIsTruthful /\ FiringHasATask

USE DEF jobVars, taskVars, cliVars

LEMMA ZeroIsZero == Zero \in [Job -> Nat] /\ \A j \in Job : Zero[j] = 0
  BY DEF Zero

LEMMA InitInv == Init => CronInv
<1> SUFFICES ASSUME Init PROVE CronInv
  OBVIOUS
<1>1. TypeOK
  <2>1. up \in BOOLEAN
    BY Zenon DEF Init
  <2> QED BY <2>1, ZeroIsZero DEF Init, TypeOK, Status
<1>2. AttemptsArePaidFor
  <2> SUFFICES ASSUME NEW j \in Job PROVE attempts[j] + Outstanding(j) <= occasions[j]
    BY DEF AttemptsArePaidFor
  <2>1. Outstanding(j) = 0
    BY DEF Init, Outstanding
  <2>2. attempts[j] = 0 /\ occasions[j] = 0
    BY ZeroIsZero DEF Init
  <2> QED BY <2>1, <2>2
<1>3. RunCountIsTruthful
  <2> SUFFICES ASSUME NEW j \in Job
               PROVE  /\ runs[j] + okPending[j] <= launches[j]
                      /\ runs[j] + okPending[j] = launches[j]
    BY DEF RunCountIsTruthful
  <2>1. runs[j] = 0 /\ okPending[j] = 0 /\ launches[j] = 0
    BY ZeroIsZero DEF Init
  <2> QED BY <2>1
<1>4. FiringHasATask
  BY DEF Init, FiringHasATask
<1> QED BY <1>1, <1>2, <1>3, <1>4 DEF CronInv

\* Commands leave the tasks alone.
LEMMA CommandInv ==
  ASSUME CronInv, NEW j \in Job, Command(j)
  PROVE  CronInv'
<1> USE DEF CronInv, Listed, Inc
<1>1. TypeOK'
  <2> USE DEF TypeOK, Status
  <2>1. CASE Create(j)
    BY <2>1 DEF Create
  <2>2. CASE Delete(j)
    BY <2>2 DEF Delete
  <2>3. CASE \E s \in {"active", "paused"} : SetStatus(j, s)
    BY <2>3 DEF SetStatus, Occasion
  <2>4. CASE TriggerCronJob(j) \/ TimePasses(j) \/ CliTrigger(j)
    BY <2>4 DEF TriggerCronJob, TimePasses, CliTrigger, TriggerNow, Occasion
  <2>5. CASE CliList(j) \/ \E spawned \in BOOLEAN : CliSpawn(j, spawned)
    BY <2>5 DEF CliList, CliSpawn
  <2> QED BY <2>1, <2>2, <2>3, <2>4, <2>5 DEF Command
<1>2. AttemptsArePaidFor'
  <2> USE DEF TypeOK, AttemptsArePaidFor, Outstanding, Status
  <2>1. CASE Create(j)
    BY <2>1 DEF Create
  <2>2. CASE Delete(j)
    BY <2>2 DEF Delete
  <2>3. CASE \E s \in {"active", "paused"} : SetStatus(j, s)
    BY <2>3 DEF SetStatus, Occasion
  <2>4. CASE TriggerCronJob(j) \/ TimePasses(j) \/ CliTrigger(j)
    BY <2>4 DEF TriggerCronJob, TimePasses, CliTrigger, TriggerNow, Occasion
  <2>5. CASE CliList(j) \/ \E spawned \in BOOLEAN : CliSpawn(j, spawned)
    BY <2>5 DEF CliList, CliSpawn
  <2> QED BY <2>1, <2>2, <2>3, <2>4, <2>5 DEF Command
<1>3. RunCountIsTruthful'
  <2>1. UNCHANGED <<runs, okPending, launches, crashes, faults>>
    BY DEF Command, Create, Delete, SetStatus, TriggerCronJob, TimePasses, CliList,
       CliTrigger, CliSpawn
  <2> QED BY <2>1 DEF RunCountIsTruthful
<1>4. FiringHasATask'
  <2>1. UNCHANGED <<spawning, okPending, failPending, up, faults>>
    BY DEF Command, Create, Delete, SetStatus, TriggerCronJob, TimePasses, CliList,
       CliTrigger, CliSpawn
  <2>2. \A i \in Job : status'[i] = "firing" => status[i] = "firing"
    BY DEF TypeOK, Command, Create, Delete, SetStatus, TriggerCronJob, TimePasses, CliList,
       CliTrigger, CliSpawn
  <2> QED BY <2>1, <2>2 DEF FiringHasATask, InFlight
<1> QED BY <1>1, <1>2, <1>3, <1>4

\* A task starts its agent, or records what became of it.
LEMMA TaskInv ==
  ASSUME CronInv, NEW j \in Job, Task(j)
  PROVE  CronInv'
<1> USE CronAssumption DEF CronInv, Inc, Dec, TypeOK, Status
<1>1. ASSUME NEW spawned \in BOOLEAN, Spawn(j, spawned)
      PROVE  CronInv'
  <2>1. TypeOK'
    BY <1>1 DEF Spawn
  <2>2. AttemptsArePaidFor'
    BY <1>1 DEF Spawn, AttemptsArePaidFor, Outstanding
  <2>3. RunCountIsTruthful'
    BY <1>1 DEF Spawn, RunCountIsTruthful
  <2>4. FiringHasATask'
    BY <1>1 DEF Spawn, FiringHasATask, InFlight
  <2> QED BY <2>1, <2>2, <2>3, <2>4
<1>2. ASSUME NEW dbOk \in BOOLEAN, RecordFired(j, dbOk)
      PROVE  CronInv'
  <2>0. faults' \in Nat /\ (faults' = 0 => dbOk /\ faults = 0)
    BY <1>2 DEF RecordFired, Database
  <2>1. TypeOK'
    BY <1>2, <2>0 DEF RecordFired, MarkFired
  <2>2. AttemptsArePaidFor'
    BY <1>2 DEF RecordFired, MarkFired, AttemptsArePaidFor, Outstanding
  <2>3. RunCountIsTruthful'
    BY <1>2, <2>0 DEF RecordFired, MarkFired, RunCountIsTruthful
  <2>4. FiringHasATask'
    BY <1>2, <2>0 DEF RecordFired, MarkFired, FiringHasATask, InFlight
  <2> QED BY <2>1, <2>2, <2>3, <2>4
<1>3. ASSUME NEW dbOk \in BOOLEAN, RecordFailed(j, dbOk)
      PROVE  CronInv'
  <2>0. faults' \in Nat /\ (faults' = 0 => dbOk /\ faults = 0)
    BY <1>3 DEF RecordFailed, Database
  <2>1. TypeOK'
    BY <1>3, <2>0 DEF RecordFailed, RevertFiring
  <2>2. AttemptsArePaidFor'
    BY <1>3 DEF RecordFailed, RevertFiring, AttemptsArePaidFor, Outstanding
  <2>3. RunCountIsTruthful'
    BY <1>3, <2>0 DEF RecordFailed, RevertFiring, RunCountIsTruthful
  <2>4. FiringHasATask'
    BY <1>3, <2>0 DEF RecordFailed, RevertFiring, FiringHasATask, InFlight
  <2> QED BY <2>1, <2>2, <2>3, <2>4
<1> QED BY <1>1, <1>2, <1>3 DEF Task

\* The worker's own steps, and the daemon's end and return.
LEMMA WorkerInv ==
  ASSUME CronInv, ClaimDue \/ Crash \/ Restart
  PROVE  CronInv'
<1> USE CronAssumption DEF CronInv, TypeOK, Status
<1>1. CASE ClaimDue
  <2>1. TypeOK'
    BY <1>1 DEF ClaimDue
  <2>2. AttemptsArePaidFor'
    BY <1>1 DEF ClaimDue, ClaimedJobs, AttemptsArePaidFor, Outstanding
  <2>3. RunCountIsTruthful'
    BY <1>1 DEF ClaimDue, RunCountIsTruthful
  <2>4. FiringHasATask'
    BY <1>1 DEF ClaimDue, ClaimedJobs, FiringHasATask, InFlight
  <2> QED BY <2>1, <2>2, <2>3, <2>4
<1>2. CASE Crash
  <2>1. TypeOK'
    <3>0. up' \in BOOLEAN
      BY <1>2, Zenon DEF Crash
    <3>1. crashes' \in Nat
      BY <1>2, ZeroIsZero DEF Crash
    <3>2. /\ spawning' \in [Job -> Nat] /\ okPending' \in [Job -> Nat]
          /\ failPending' \in [Job -> Nat]
      BY <1>2, ZeroIsZero DEF Crash
    <3>3. UNCHANGED <<jobVars, launches, attempts, cliVars, occasions, faults>>
      BY <1>2 DEF Crash
    <3> QED BY <3>0, <3>1, <3>2, <3>3
  <2>2. AttemptsArePaidFor'
    BY <1>2 DEF Crash, AttemptsArePaidFor, Outstanding
  <2>3. RunCountIsTruthful'
    BY <1>2, ZeroIsZero DEF Crash, RunCountIsTruthful
  <2>4. FiringHasATask'
    BY <1>2 DEF Crash, FiringHasATask
  <2> QED BY <2>1, <2>2, <2>3, <2>4
<1>3. ASSUME NEW dbOk \in BOOLEAN, Start(dbOk)
      PROVE  CronInv'
  <2>0. faults' \in Nat /\ (faults' = 0 => dbOk /\ faults = 0)
    BY <1>3 DEF Start, Database
  <2>1. TypeOK'
    BY <1>3, <2>0 DEF Start, ResetFiring
  <2>2. AttemptsArePaidFor'
    BY <1>3 DEF Start, ResetFiring, Firing, AttemptsArePaidFor, Outstanding
  <2>3. RunCountIsTruthful'
    BY <1>3, <2>0 DEF Start, RunCountIsTruthful
  <2>4. FiringHasATask'
    BY <1>3, <2>0 DEF Start, ResetFiring, Firing, FiringHasATask
  <2> QED BY <2>1, <2>2, <2>3, <2>4
<1> QED BY <1>1, <1>2, <1>3 DEF Restart

LEMMA CronInvariance == Spec => []CronInv
<1>1. ASSUME CronInv, [Next]_vars
      PROVE  CronInv'
  <2>1. CASE UNCHANGED vars
    BY <1>1, <2>1 DEF vars, CronInv, TypeOK, AttemptsArePaidFor, Outstanding,
       RunCountIsTruthful, FiringHasATask, InFlight
  <2> QED BY <1>1, <2>1, CommandInv, TaskInv, WorkerInv DEF Next
<1> QED BY InitInv, <1>1, PTL DEF Spec

-----------------------------------------------------------------------------
\* Jobs, tasks and counters keep their types, whatever fails: no statement leaves
\* a status the others do not know, and no task is counted off twice.
THEOREM TypeCorrect == Spec => []TypeOK
  BY CronInvariance, PTL DEF CronInv

\* However claims, failing starts, commands and restarts interleave, a job is
\* claimed at most once for each occasion it had to run.
THEOREM NoRetryStorm == Spec => []AttemptsArePaidFor
  BY CronInvariance, PTL DEF CronInv

\* run_count never exceeds the agents the daemon started, and equals them when
\* neither a crash nor a database failure came in between.
THEOREM RunCountSound == Spec => []RunCountIsTruthful
  BY CronInvariance, PTL DEF CronInv

\* Under a running daemon with a working database every job in 'firing' has a
\* task that will take it out again.
THEOREM NoJobIsLockedOut == Spec => []FiringHasATask
  BY CronInvariance, PTL DEF CronInv

=============================================================================
