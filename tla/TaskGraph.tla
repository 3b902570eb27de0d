----------------------------- MODULE TaskGraph -----------------------------
(***************************************************************************)
(* A task graph (task_graph/store.rs, db/wf_task_graph.rs): shell commands *)
(* with dependencies, validated by DagSearch and stored as cp_tasks and    *)
(* cp_agent_runs rows. Every ExecuteTaskGraph request starts one more      *)
(* executor (daemon/cmd/task_graph.rs), a loop that promotes the nodes     *)
(* whose dependencies are completed, takes the scheduler's ready list      *)
(* (db/control_plane.rs) and starts a factory job per node.                *)
(*                                                                         *)
(* Every SQL statement is a step of its own. The rows of one graph are     *)
(* modelled; the ids of a graph reach a client only when all of its rows   *)
(* are inserted, so inserting them is one step. The compatibility tables   *)
(* (task_graphs, task_graph_nodes) are rebuilt from these rows and left    *)
(* out. Jobs of a node are interchangeable, so they are counted.           *)
(***************************************************************************)
EXTENDS DagSearch

CONSTANTS
    Executor,
    None,
    MaxUpsets,     \* bound on failures, restarts and outside changes, together
    MaxStarts      \* bound on the jobs an executor starts for a node (MayStart)

ASSUME TaskGraphAssumption ==
    /\ None \notin Node /\ Stranger \cap Node = {}
    /\ MaxUpsets \in Nat /\ MaxStarts \in Nat

VARIABLES
    task, run,  \* the status columns of cp_tasks and cp_agent_runs
    standing,   \* what budget ledger and capability table say of the provider
    pc,         \* where each executor is in its loop
    batch,      \* the nodes its current statement loop still has to visit
    runnable,   \* the nodes it has chosen and not started yet
    marking,    \* the node whose task row it has marked running, not its run row
    jobs,       \* how many jobs of a node are in each phase
    starts,     \* jobs each executor submitted for each node
    succeeded,  \* ghost: nodes a command of which exited with success
    byHand,     \* ghost: nodes the operator declared completed
    faults,     \* failed database calls and spawns
    crashes,    \* restarts of the daemon
    changes     \* executors timed out, changes of the provider's standing or by the operator

rowVars == <<task, run>>
execVars == <<pc, batch, runnable, marking, starts>>
envVars == <<standing, byHand>>
upsetVars == <<faults, crashes, changes>>
vars == <<graphVars, rowVars, execVars, jobs, succeeded, envVars, upsetVars>>

-----------------------------------------------------------------------------
TaskStatus == {"queued", "ready", "running", "completed", "failed", "blocked",
               "pending", "in_progress", "cancelled"}
RunStatus == {"pending", "running", "succeeded", "failed"}
JobPhase == {"running", "ok", "failed", "ok_marked", "failed_marked"}
OperatorStatus == {"pending", "in_progress", "completed", "cancelled"}

MayUpset == faults + crashes + changes < MaxUpsets

\* The bound on starts: as many as MaxStarts, one fewer for each failure so far.
MayStart(e, n) == starts[e][n] + faults < MaxStarts

\* A fallible call: a failure is an upset.
Outcome(ok) ==
    /\ ok \/ MayUpset
    /\ faults' = IF ok THEN faults ELSE faults + 1
    /\ UNCHANGED <<crashes, changes>>

Upset(counter) == MayUpset /\ counter' = counter + 1

TypeOK ==
    /\ GraphTypeOK
    /\ task \in [Node -> TaskStatus] /\ run \in [Node -> RunStatus]
    /\ standing \in {"allow", "exhausted", "incapable"}
    /\ pc \in [Executor -> {"idle", "loop", "promote", "gate", "fallback", "start"}]
    /\ batch \in [Executor -> SUBSET Node] /\ runnable \in [Executor -> SUBSET Node]
    /\ marking \in [Executor -> Node \cup {None}]
    /\ jobs \in [JobPhase -> [Node -> Nat]]
    /\ starts \in [Executor -> [Node -> Nat]]
    /\ succeeded \subseteq Node /\ byHand \subseteq Node
    /\ faults \in Nat /\ crashes \in Nat /\ changes \in Nat

NoJobs == [p \in JobPhase |-> [n \in Node |-> 0]]

Init ==
    /\ GraphInit
    /\ task = [n \in Node |-> "queued"] /\ run = [n \in Node |-> "pending"]
    /\ standing = "allow"
    /\ pc = [e \in Executor |-> "idle"]
    /\ batch = [e \in Executor |-> {}] /\ runnable = [e \in Executor |-> {}]
    /\ marking = [e \in Executor |-> None]
    /\ jobs = NoJobs
    /\ starts = [e \in Executor |-> [n \in Node |-> 0]]
    /\ succeeded = {} /\ byHand = {}
    /\ faults = 0 /\ crashes = 0 /\ changes = 0

-----------------------------------------------------------------------------
(* Creating and reading a graph.                                           *)

\* validate_dag, before anything is written.
ValidateGraph ==
    /\ Validate
    /\ UNCHANGED <<rowVars, execVars, jobs, succeeded, envVars, upsetVars>>

\* Mutant: every node is inserted as ready.
FirstStatusReady(d, n) == "ready"

FirstStatus(d, n) == IF d[n] = {} THEN "ready" ELSE "queued"

\* The rows of a graph that passed.
CreateGraph ==
    /\ SearchOver
    /\ phase' = "accepted"
    /\ task' = [n \in Node |-> FirstStatus(deps, n)]
    /\ UNCHANGED <<deps, searchVars, run, execVars, jobs, succeeded, envVars, upsetVars>>

\* control_status_to_node_status: what is not running or over is pending.
PendingNode(n) == task[n] \notin {"running", "completed", "failed", "cancelled"}
Completed == {n \in Node : task[n] = "completed"}

\* Mutant: a dependency that is no longer pending is taken for done.
DepsStarted == {n \in Node : PendingNode(n) /\ \A d \in deps[n] : ~PendingNode(d)}

DepsDone == {n \in Node : PendingNode(n) /\ deps[n] \subseteq Completed}

GraphStatus ==
    IF \E n \in Node : task[n] \in {"failed", "cancelled"} THEN "failed"
    ELSE IF Node # {} /\ Completed = Node THEN "completed"
    ELSE IF \E n \in Node : task[n] = "running" THEN "running"
    ELSE "pending"

-----------------------------------------------------------------------------
(* An executor.                                                            *)

Goto(e, l) == pc' = [pc EXCEPT ![e] = l]

Execute(e) ==
    /\ phase = "accepted" /\ pc[e] = "idle"
    /\ Goto(e, "loop")
    /\ UNCHANGED <<graphVars, rowVars, batch, runnable, marking, starts, jobs, succeeded, envVars, upsetVars>>

\* ready_nodes reads the nodes, then marks the ones it found one by one.
Sweep(e, dbOk) ==
    /\ pc[e] = "loop" /\ Outcome(dbOk)
    /\ batch' = [batch EXCEPT ![e] = IF dbOk THEN DepsDone ELSE {}]
    /\ Goto(e, "promote")
    /\ UNCHANGED <<graphVars, rowVars, runnable, marking, starts, jobs, succeeded, envVars>>

\* Mutant: promotion writes a status no list knows.
PromoteToScheduled(e, n) ==
    /\ pc[e] \in {"promote", "fallback"} /\ n \in batch[e]
    /\ task' = [task EXCEPT ![n] = IF @ = "queued" THEN "scheduled" ELSE @]
    /\ batch' = [batch EXCEPT ![e] = @ \ {n}]
    /\ UNCHANGED <<graphVars, run, pc, runnable, marking, starts, jobs, succeeded, envVars, upsetVars>>

\* mark_control_task_ready: only a task still queued.
Promote(e, n) ==
    /\ pc[e] \in {"promote", "fallback"} /\ n \in batch[e]
    /\ task' = [task EXCEPT ![n] = IF @ = "queued" THEN "ready" ELSE @]
    /\ batch' = [batch EXCEPT ![e] = @ \ {n}]
    /\ UNCHANGED <<graphVars, run, pc, runnable, marking, starts, jobs, succeeded, envVars, upsetVars>>

\* cp_scheduler_list_ready reads its candidates; no approval hangs on a node.
ListReady(e) ==
    /\ pc[e] = "promote" /\ batch[e] = {}
    /\ batch' = [batch EXCEPT ![e] = {n \in Node : task[n] = "ready"}]
    /\ Goto(e, "gate")
    /\ UNCHANGED <<graphVars, rowVars, runnable, marking, starts, jobs, succeeded, envVars, upsetVars>>

\* The database cannot be opened: the executor takes ready_nodes' own answer,
\* which blocked nodes are part of.
ListFallback(e) ==
    /\ Outcome(FALSE) /\ pc[e] = "promote" /\ batch[e] = {}
    /\ batch' = [batch EXCEPT ![e] = DepsDone]
    /\ runnable' = [runnable EXCEPT ![e] = DepsDone]
    /\ Goto(e, "fallback")
    /\ UNCHANGED <<graphVars, rowVars, marking, starts, jobs, succeeded, envVars>>

\* The gates for one candidate. Out of budget it is blocked, whatever it has
\* become since the list was read; without the capability it is passed over.
Gate(e, n) ==
    /\ pc[e] = "gate" /\ n \in batch[e]
    /\ batch' = [batch EXCEPT ![e] = @ \ {n}]
    /\ task' = IF standing = "exhausted" THEN [task EXCEPT ![n] = "blocked"] ELSE task
    /\ runnable' = IF standing = "allow" THEN [runnable EXCEPT ![e] = @ \cup {n}] ELSE runnable
    /\ UNCHANGED <<graphVars, run, pc, marking, starts, jobs, succeeded, envVars, upsetVars>>

\* A gate's query fails: the whole list is given up.
GateFails(e) ==
    /\ Outcome(FALSE) /\ pc[e] = "gate" /\ batch[e] # {}
    /\ batch' = [batch EXCEPT ![e] = {}] /\ runnable' = [runnable EXCEPT ![e] = {}]
    /\ UNCHANGED <<graphVars, rowVars, pc, marking, starts, jobs, succeeded, envVars>>

Chosen(e) == pc[e] \in {"gate", "fallback", "start"} /\ batch[e] = {} /\ marking[e] = None

Submit(e, n) ==
    /\ jobs' = [jobs EXCEPT !["running"][n] = @ + 1]
    /\ starts' = [starts EXCEPT ![e][n] = @ + 1]

\* Mutant: the node is not marked before its job is submitted.
StartTaskUnmarked(e, n, dbOk) ==
    /\ Chosen(e) /\ n \in runnable[e] /\ MayStart(e, n) /\ Outcome(dbOk)
    /\ runnable' = [runnable EXCEPT ![e] = @ \ {n}]
    /\ Goto(e, "start")
    /\ Submit(e, n) /\ UNCHANGED <<task, marking>>
    /\ UNCHANGED <<graphVars, run, batch, succeeded, envVars>>

\* mark_node_running, the task row; without a connection the job starts unmarked.
StartTask(e, n, dbOk) ==
    /\ Chosen(e) /\ n \in runnable[e] /\ MayStart(e, n) /\ Outcome(dbOk)
    /\ runnable' = [runnable EXCEPT ![e] = @ \ {n}]
    /\ Goto(e, "start")
    /\ IF dbOk
       THEN /\ task' = [task EXCEPT ![n] = "running"]
            /\ marking' = [marking EXCEPT ![e] = n]
            /\ UNCHANGED <<jobs, starts>>
       ELSE Submit(e, n) /\ UNCHANGED <<task, marking>>
    /\ UNCHANGED <<graphVars, run, batch, succeeded, envVars>>

\* mark_node_running, the run row, and Factory::submit.
StartRun(e, dbOk) ==
    /\ marking[e] # None /\ Outcome(dbOk)
    /\ run' = IF dbOk THEN [run EXCEPT ![marking[e]] = "running"] ELSE run
    /\ Submit(e, marking[e])
    /\ marking' = [marking EXCEPT ![e] = None]
    /\ UNCHANGED <<graphVars, task, pc, batch, runnable, succeeded, envVars>>

\* The pass is over. If it started nothing the executor stops once the graph is
\* no longer pending or running; a node left to another pass waits for it.
EndPass(e) ==
    /\ Chosen(e) /\ runnable[e] = {}
    /\ Goto(e, IF pc[e] # "start" /\ GraphStatus \in {"completed", "failed"} THEN "idle" ELSE "loop")
    /\ UNCHANGED <<graphVars, rowVars, batch, runnable, marking, starts, jobs, succeeded, envVars, upsetVars>>

\* Ten minutes have passed.
Timeout(e) ==
    /\ Upset(changes) /\ pc[e] = "loop"
    /\ Goto(e, "idle")
    /\ UNCHANGED <<graphVars, rowVars, batch, runnable, marking, starts, jobs, succeeded, envVars,
                   faults, crashes>>

-----------------------------------------------------------------------------
(* A job.                                                                  *)

Move(n, p, q) == [jobs EXCEPT ![p][n] = @ - 1, ![q][n] = @ + 1]
Drop(n, p) == [jobs EXCEPT ![p][n] = @ - 1]

\* The command ends.
Exit(n, ok) ==
    /\ jobs["running"][n] > 0
    /\ jobs' = Move(n, "running", IF ok THEN "ok" ELSE "failed")
    /\ succeeded' = IF ok THEN succeeded \cup {n} ELSE succeeded
    /\ UNCHANGED <<graphVars, rowVars, execVars, envVars, upsetVars>>

\* The shell could not be spawned, or a statement that records the end fails:
\* the job is gone and what it had not written yet never will be.
JobLost(n, p) ==
    /\ Outcome(FALSE) /\ jobs[p][n] > 0
    /\ jobs' = Drop(n, p)
    /\ UNCHANGED <<graphVars, rowVars, execVars, succeeded, envVars>>

\* Mutant: the end of a command is recorded as a success whatever its status.
EndTaskAlwaysOk(n, ok) ==
    LET p == IF ok THEN "ok" ELSE "failed" IN
    /\ jobs[p][n] > 0
    /\ task' = [task EXCEPT ![n] = "completed"]
    /\ jobs' = Move(n, p, IF ok THEN "ok_marked" ELSE "failed_marked")
    /\ UNCHANGED <<graphVars, run, execVars, succeeded, envVars, upsetVars>>

\* Mutant: only a success is recorded.
EndTaskSuccessOnly(n, ok) ==
    LET p == IF ok THEN "ok" ELSE "failed" IN
    /\ jobs[p][n] > 0
    /\ task' = IF ok THEN [task EXCEPT ![n] = "completed"] ELSE task
    /\ jobs' = Move(n, p, IF ok THEN "ok_marked" ELSE "failed_marked")
    /\ UNCHANGED <<graphVars, run, execVars, succeeded, envVars, upsetVars>>

\* mark_node_complete or mark_node_failed, the task row: whatever it holds.
EndTask(n, ok) ==
    LET p == IF ok THEN "ok" ELSE "failed" IN
    /\ jobs[p][n] > 0
    /\ task' = [task EXCEPT ![n] = IF ok THEN "completed" ELSE "failed"]
    /\ jobs' = Move(n, p, IF ok THEN "ok_marked" ELSE "failed_marked")
    /\ UNCHANGED <<graphVars, run, execVars, succeeded, envVars, upsetVars>>

\* The run row.
EndRun(n, ok) ==
    LET p == IF ok THEN "ok_marked" ELSE "failed_marked" IN
    /\ jobs[p][n] > 0
    /\ run' = [run EXCEPT ![n] = IF ok THEN "succeeded" ELSE "failed"]
    /\ jobs' = Drop(n, p)
    /\ UNCHANGED <<graphVars, task, execVars, succeeded, envVars, upsetVars>>

-----------------------------------------------------------------------------
(* The world around it.                                                    *)

\* A usage scan writes the budget ledger, or the capability table changes.
StandingChanges(s) ==
    /\ s # standing /\ Upset(changes)
    /\ standing' = s
    /\ UNCHANGED <<graphVars, rowVars, execVars, jobs, succeeded, byHand, faults, crashes>>

\* `raios task update` writes any task's status by id.
TaskUpdate(n, s) ==
    /\ phase = "accepted" /\ Upset(changes)
    /\ task' = [task EXCEPT ![n] = s]
    /\ byHand' = IF s = "completed" THEN byHand \cup {n} ELSE byHand
    /\ UNCHANGED <<graphVars, run, execVars, jobs, succeeded, standing, faults, crashes>>

\* The daemon dies with its executors and jobs, and comes back: nothing looks
\* for the nodes they left running. A request that was still being validated is
\* lost and may be sent again.
Crash ==
    /\ Upset(crashes)
    /\ pc' = [e \in Executor |-> "idle"]
    /\ batch' = [e \in Executor |-> {}] /\ runnable' = [e \in Executor |-> {}]
    /\ marking' = [e \in Executor |-> None]
    /\ jobs' = NoJobs
    /\ phase' = IF phase = "search" THEN "draft" ELSE phase
    /\ UNCHANGED <<deps, searchVars, rowVars, starts, succeeded, envVars, faults, changes>>

-----------------------------------------------------------------------------
Pass(e) ==
    \/ \E dbOk \in BOOLEAN : Sweep(e, dbOk) \/ StartRun(e, dbOk)
    \/ \E n \in Node : Promote(e, n) \/ Gate(e, n)
    \/ \E n \in Node, dbOk \in BOOLEAN : StartTask(e, n, dbOk)
    \/ ListReady(e) \/ EndPass(e)

JobEnds(n) == \E ok \in BOOLEAN : Exit(n, ok) \/ EndTask(n, ok) \/ EndRun(n, ok)

Next ==
    \/ ValidateGraph \/ CreateGraph \/ Crash
    \/ \E e \in Executor :
          Execute(e) \/ Pass(e) \/ ListFallback(e) \/ GateFails(e) \/ Timeout(e)
    \/ \E n \in Node : JobEnds(n) \/ \E p \in JobPhase : JobLost(n, p)
    \/ \E s \in {"allow", "exhausted", "incapable"} : StandingChanges(s)
    \/ \E n \in Node, s \in OperatorStatus : TaskUpdate(n, s)

Spec == Init /\ [][Next]_vars

\* The tokio runtime keeps polling executors and jobs; a command is assumed to
\* end some time, which no timeout in the code enforces.
FairSpec ==
    /\ Spec
    /\ \A e \in Executor : WF_vars(Pass(e))
    /\ \A n \in Node : WF_vars(JobEnds(n))

-----------------------------------------------------------------------------
(* Properties.                                                             *)

Done == succeeded \cup byHand

\* A node's command is started only after a command of every dependency has
\* exited with success or the operator has declared the dependency completed:
\* with several executors of the graph, lists read before another executor,
\* the budget gate, the operator or a crash changed the rows, unmarked starts
\* and the fallback that bypasses the ready list included.
DependenciesFirst ==
    \A n \in Node :
        (\E e \in Executor : starts[e][n] > 0) => deps[n] \subseteq Done

\* As long as the database answers, one executor never starts a node twice,
\* also beside another executor and when it is requested again after it timed
\* out or the daemon restarted: a node that was started is never ready again,
\* whoever blocks, updates or ends it, and no list taken before that outlives it.
StartedOncePerExecutor ==
    faults = 0 => \A e \in Executor, n \in Node : starts[e][n] <= 1

InFlight(n) ==
    \/ \E p \in {"running", "ok", "failed"} : jobs[p][n] > 0
    \/ \E e \in Executor : marking[e] = n

\* Without database failures and crashes a node shown as running has a job that
\* will record its end, or an executor about to submit one, however many
\* executors, gates and jobs interleave: the graph cannot hang on it.
RunningHasAJob ==
    faults = 0 /\ crashes = 0 => \A n \in Node : task[n] = "running" => InFlight(n)

\* The task row and the run row of a node tell the same story whenever no
\* executor or job is between its two statements, as long as nothing failed and
\* nobody but a single executor touched the node.
RowsAgree ==
    \A n \in Node :
        /\ faults + crashes + changes = 0 /\ ~InFlight(n)
        /\ jobs["ok_marked"][n] + jobs["failed_marked"][n] = 0
        /\ \A e, f \in Executor : starts[e][n] > 0 /\ starts[f][n] > 0 => e = f
        => <<task[n], run[n]>> \in {<<"queued", "pending">>, <<"ready", "pending">>,
                                   <<"completed", "succeeded">>, <<"failed", "failed">>}

\* An executed graph reaches a verdict: whatever the shape validate_dag let
\* through and whichever commands fail, an executor that keeps its provider, its
\* database and its daemon ends with the graph completed or failed.
GraphReachesAVerdict ==
    (\E e \in Executor : pc[e] # "idle")
        ~> (GraphStatus \in {"completed", "failed"} \/ faults + crashes + changes > 0)

=============================================================================
