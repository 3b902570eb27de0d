--------------------------- MODULE CronScheduler ---------------------------
(***************************************************************************)
(* The recurring-job scheduler: the cp_scheduled_jobs table                *)
(* (db/scheduler.rs), the daemon's worker that claims due jobs and starts  *)
(* an agent for each (daemon/scheduler.rs), and the commands that change   *)
(* jobs meanwhile (the cron CLI and the control plane's cron commands).    *)
(*                                                                         *)
(* Each SQL statement is atomic; the worker's task runs between them. The  *)
(* tasks of one job are interchangeable, so they are counted. The daemon   *)
(* binds its port before it starts the worker: there is one at a time.     *)
(***************************************************************************)
EXTENDS Integers

CONSTANTS
    Job,
    MaxOccasions,  \* bound on the occasions of each job to run, restarts aside
    MaxCliRuns,    \* bound on `raios cron run` of each job
    MaxCrashes,    \* bound on the daemon's restarts
    MaxFaults      \* bound on the times the worker cannot open or update its database

ASSUME CronAssumption ==
    /\ MaxOccasions \in [Job -> Nat] /\ MaxCliRuns \in [Job -> Nat]
    /\ MaxCrashes \in Nat /\ MaxFaults \in Nat

VARIABLES
    status,      \* the status column, "none" before the job is created
    due,         \* the jobs whose next_run_at has passed
    runs,        \* the run_count column
    up,          \* the daemon is running
    crashes,     \* how often it has stopped
    faults,      \* ghost: how often it did without its database
    spawning,    \* tasks of a job that have not tried to start the agent yet
    okPending,   \* tasks that started it and have not recorded it
    failPending, \* tasks that failed to start it and have not recorded it
    cli,         \* where a `raios cron run` of the job is
    cliRuns,     \* agents started by it
    launches,    \* ghost: agents the daemon started
    attempts,    \* ghost: times the job was claimed
    occasions    \* ghost: times the job came up for a run

jobVars == <<status, due, runs>>
taskVars == <<spawning, okPending, failPending, launches, attempts>>
cliVars == <<cli, cliRuns>>
vars == <<jobVars, taskVars, cliVars, occasions, up, crashes, faults>>

-----------------------------------------------------------------------------
Status == {"none", "active", "firing", "paused", "deleted"}
Listed(j) == status[j] \notin {"none", "deleted"}

TypeOK ==
    /\ status \in [Job -> Status]
    /\ due \subseteq Job
    /\ up \in BOOLEAN /\ crashes \in Nat /\ faults \in Nat
    /\ cli \in [Job -> {"idle", "listed", "triggered"}]
    /\ runs \in [Job -> Nat] /\ cliRuns \in [Job -> Nat]
    /\ spawning \in [Job -> Nat] /\ okPending \in [Job -> Nat] /\ failPending \in [Job -> Nat]
    /\ launches \in [Job -> Nat] /\ attempts \in [Job -> Nat] /\ occasions \in [Job -> Nat]

Zero == [j \in Job |-> 0]

Init ==
    /\ status = [j \in Job |-> "none"]
    /\ due = {}
    /\ up = FALSE /\ crashes = 0 /\ faults = 0
    /\ cli = [j \in Job |-> "idle"]
    /\ runs = Zero /\ spawning = Zero /\ okPending = Zero /\ failPending = Zero
    /\ cliRuns = Zero /\ launches = Zero /\ attempts = Zero /\ occasions = Zero

Inc(f, j) == [f EXCEPT ![j] = @ + 1]
Dec(f, j) == [f EXCEPT ![j] = @ - 1]

\* The job comes up for a run it was not up for before.
Occasion(j) ==
    /\ occasions[j] < MaxOccasions[j]
    /\ occasions' = Inc(occasions, j)

-----------------------------------------------------------------------------
(* The commands.                                                           *)

\* parse_interval refuses an interval that is not positive: not due at once.
Create(j) ==
    /\ status[j] = "none"
    /\ status' = [status EXCEPT ![j] = "active"]
    /\ due' = due \ {j}
    /\ UNCHANGED <<runs, taskVars, cliVars, occasions, up, crashes, faults>>

Delete(j) ==
    /\ Listed(j)
    /\ status' = [status EXCEPT ![j] = "deleted"]
    /\ UNCHANGED <<due, runs, taskVars, cliVars, occasions, up, crashes, faults>>

\* Pause and resume. Neither looks at what the status was: a job taken out of
\* 'firing' keeps its past next_run_at and comes up once more.
SetStatus(j, s) ==
    /\ Listed(j)
    /\ status' = [status EXCEPT ![j] = s]
    /\ IF status[j] = "firing" THEN Occasion(j) ELSE UNCHANGED occasions
    /\ UNCHANGED <<due, runs, taskVars, cliVars, up, crashes, faults>>

\* next_run_at := now, unless the job is deleted.
TriggerNow(j) ==
    IF Listed(j) /\ j \notin due
    THEN due' = due \cup {j} /\ Occasion(j)
    ELSE UNCHANGED <<due, occasions>>

\* The control plane's trigger_cron_job.
TriggerCronJob(j) ==
    /\ Listed(j) /\ j \notin due
    /\ TriggerNow(j)
    /\ UNCHANGED <<status, runs, taskVars, cliVars, up, crashes, faults>>

\* next_run_at passes.
TimePasses(j) ==
    /\ Listed(j) /\ j \notin due
    /\ due' = due \cup {j}
    /\ Occasion(j)
    /\ UNCHANGED <<status, runs, taskVars, cliVars, up, crashes, faults>>

\* `raios cron run`: looks the job up, makes it due, and starts it itself,
\* whatever the daemon does and without counting the run.
CliList(j) ==
    /\ cli[j] = "idle" /\ Listed(j) /\ cliRuns[j] < MaxCliRuns[j]
    /\ cli' = [cli EXCEPT ![j] = "listed"]
    /\ UNCHANGED <<jobVars, taskVars, cliRuns, occasions, up, crashes, faults>>

CliTrigger(j) ==
    /\ cli[j] = "listed"
    /\ TriggerNow(j)
    /\ cli' = [cli EXCEPT ![j] = "triggered"]
    /\ UNCHANGED <<status, runs, taskVars, cliRuns, up, crashes, faults>>

CliSpawn(j, spawned) ==
    /\ cli[j] = "triggered"
    /\ cli' = [cli EXCEPT ![j] = "idle"]
    /\ cliRuns' = IF spawned THEN Inc(cliRuns, j) ELSE cliRuns
    /\ UNCHANGED <<jobVars, taskVars, occasions, up, crashes, faults>>

-----------------------------------------------------------------------------
(* The worker.                                                             *)

ClaimedJobs == {j \in Job : status[j] = "active" /\ j \in due}

\* One UPDATE ... RETURNING claims every due job; a task is spawned for each.
ClaimDue ==
    /\ up /\ ClaimedJobs # {}
    /\ status' = [j \in Job |-> IF j \in ClaimedJobs THEN "firing" ELSE status[j]]
    /\ spawning' = [j \in Job |-> IF j \in ClaimedJobs THEN spawning[j] + 1 ELSE spawning[j]]
    /\ attempts' = [j \in Job |-> IF j \in ClaimedJobs THEN attempts[j] + 1 ELSE attempts[j]]
    /\ UNCHANGED <<due, runs, okPending, failPending, launches, cliVars, occasions, up, crashes, faults>>

\* The task starts the agent or fails to; a panic in it counts as a failure.
Spawn(j, spawned) ==
    /\ up /\ spawning[j] > 0
    /\ spawning' = Dec(spawning, j)
    /\ IF spawned
       THEN okPending' = Inc(okPending, j) /\ launches' = Inc(launches, j) /\ UNCHANGED failPending
       ELSE failPending' = Inc(failPending, j) /\ UNCHANGED <<okPending, launches>>
    /\ UNCHANGED <<jobVars, attempts, cliVars, occasions, up, crashes, faults>>

\* mark_fired: the UPDATE does not look at the status.
MarkFired(j) ==
    /\ status' = [status EXCEPT ![j] = "active"]
    /\ due' = due \ {j}
    /\ runs' = Inc(runs, j)

\* Mutant: revert_firing leaves next_run_at where it was.
RevertFiringStillDue(j) ==
    /\ status' = [status EXCEPT ![j] = IF @ = "firing" THEN "active" ELSE @]
    /\ UNCHANGED <<due, runs>>

\* Mutant: a failed start is recorded as a run.
RevertFiringCounts(j) == MarkFired(j)

\* revert_firing: only a job still 'firing' is put back, one interval later.
RevertFiring(j) ==
    /\ status' = [status EXCEPT ![j] = IF @ = "firing" THEN "active" ELSE @]
    /\ due' = IF status[j] = "firing" THEN due \ {j} ELSE due
    /\ UNCHANGED runs

\* Opening or updating the database succeeds, or fails and is only logged.
Database(dbOk) ==
    \/ dbOk /\ UNCHANGED faults
    \/ ~dbOk /\ faults < MaxFaults /\ faults' = faults + 1

\* The task records that the agent was started, or gives up on the database.
RecordFired(j, dbOk) ==
    /\ up /\ okPending[j] > 0
    /\ Database(dbOk)
    /\ okPending' = Dec(okPending, j)
    /\ IF dbOk THEN MarkFired(j) ELSE UNCHANGED jobVars
    /\ UNCHANGED <<spawning, failPending, launches, attempts, cliVars, occasions, up, crashes>>

RecordFailed(j, dbOk) ==
    /\ up /\ failPending[j] > 0
    /\ Database(dbOk)
    /\ failPending' = Dec(failPending, j)
    /\ IF dbOk THEN RevertFiring(j) ELSE UNCHANGED jobVars
    /\ UNCHANGED <<spawning, okPending, launches, attempts, cliVars, occasions, up, crashes>>

\* The daemon stops and its tasks with it; the agents they started live on.
Crash ==
    /\ up /\ crashes < MaxCrashes
    /\ up' = FALSE /\ crashes' = crashes + 1
    /\ spawning' = Zero /\ okPending' = Zero /\ failPending' = Zero
    /\ UNCHANGED <<jobVars, launches, attempts, cliVars, occasions, faults>>

Firing == {j \in Job : status[j] = "firing"}

\* Mutant: a restarted worker does not recover the jobs left in 'firing'.
ResetFiringNothing == UNCHANGED <<status, occasions>>

\* Mutant: recovery writes a status the worker does not know.
ResetFiringPending ==
    /\ status' = [j \in Job |-> IF j \in Firing THEN "pending" ELSE status[j]]
    /\ UNCHANGED occasions

\* reset_firing: a job interrupted between claim and record comes up again.
ResetFiring ==
    /\ status' = [j \in Job |-> IF j \in Firing THEN "active" ELSE status[j]]
    /\ occasions' = [j \in Job |-> IF j \in Firing THEN occasions[j] + 1 ELSE occasions[j]]

\* The worker starts up; recovery is skipped if the database cannot be opened.
Start(dbOk) ==
    /\ ~up /\ up' = TRUE
    /\ Database(dbOk)
    /\ IF dbOk THEN ResetFiring ELSE UNCHANGED <<status, occasions>>
    /\ UNCHANGED <<due, runs, taskVars, cliVars, crashes>>

-----------------------------------------------------------------------------
Command(j) ==
    \/ Create(j) \/ Delete(j)
    \/ \E s \in {"active", "paused"} : SetStatus(j, s)
    \/ TriggerCronJob(j) \/ TimePasses(j)
    \/ CliList(j) \/ CliTrigger(j)
    \/ \E spawned \in BOOLEAN : CliSpawn(j, spawned)

Task(j) ==
    \/ \E spawned \in BOOLEAN : Spawn(j, spawned)
    \/ \E dbOk \in BOOLEAN : RecordFired(j, dbOk) \/ RecordFailed(j, dbOk)

Restart == \E dbOk \in BOOLEAN : Start(dbOk)

Next ==
    \/ \E j \in Job : Command(j) \/ Task(j)
    \/ ClaimDue \/ Crash \/ Restart

Spec == Init /\ [][Next]_vars

\* The tokio runtime keeps polling the worker's loop and its tasks, and the
\* service manager restarts a daemon that died (Restart=on-failure).
FairSpec ==
    /\ Spec
    /\ WF_vars(Restart) /\ WF_vars(ClaimDue)
    /\ \A j \in Job : WF_vars(Task(j))

-----------------------------------------------------------------------------
(* Properties.                                                             *)

InFlight(j) == spawning[j] + okPending[j] + failPending[j]
Outstanding(j) == IF status[j] \in {"active", "paused"} /\ j \in due THEN 1 ELSE 0

\* A job is claimed at most once per occasion: its time came, it was triggered,
\* or it was taken out of 'firing' by a restart, a pause or a resume. A start
\* that keeps failing therefore costs one attempt per interval, never a storm
\* of retries at the polling rate, and no occasion is served twice.
AttemptsArePaidFor ==
    \A j \in Job : attempts[j] + Outstanding(j) <= occasions[j]

\* run_count never claims an agent that was not started, and unless the daemon
\* died or lost its database it counts every start the daemon made, starts of a
\* job paused, resumed or deleted meanwhile included.
RunCountIsTruthful ==
    \A j \in Job :
        /\ runs[j] + okPending[j] <= launches[j]
        /\ crashes = 0 /\ faults = 0 => runs[j] + okPending[j] = launches[j]

\* As long as the database answers, a job in 'firing' under a running daemon has
\* a task that will take it out of there, however claims, commands and restarts
\* interleave: no job is locked out of the schedule for good.
FiringHasATask ==
    faults = 0 => \A j \in Job : up /\ status[j] = "firing" => InFlight(j) > 0

\* And so it is taken out, after a crash between claim and record as well, unless
\* the database fails the worker that should do it.
FiringIsLeft ==
    \A j \in Job : status[j] = "firing" ~> (status[j] # "firing" \/ faults > 0)

\* "Both cron commands act on a job that exists and has not been deleted", and
\* set_status spares deleted rows: 'deleted' is final. Violated: mark_fired of a
\* task that was already running brings the job back to life.
DeletedStaysDeleted ==
    [][\A j \in Job : status[j] = "deleted" => status'[j] = "deleted"]_vars

=============================================================================
