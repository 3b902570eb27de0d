# R-AI-OS: a TLA+ verification project

R-AI-OS is a local service that runs coding agents for one user: a daemon, a
command line, a terminal interface and MCP and HTTP servers, all of which open
the same SQLite database (`workspace.db`, WAL mode, `synchronous=FULL`,
`foreign_keys=ON`; `raios-core/src/db/mod.rs`). There is no process that owns the
data: the daemon, every CLI call and every `raios run` wrapper is a client with
its own connection. What keeps the system correct is therefore which statements
share a transaction, which conditions each `UPDATE` repeats, and what a process
does between two of them. That is what these modules model.

Paths below are relative to `src/crates/`.

## Inventory

| Component | State it keeps | Operations | Hard behaviour | What makes it correct |
|---|---|---|---|---|
| Handoff workflow (`raios-core/src/db/wf_handoff.rs`, `wf_handoff_receipt.rs`) | four linked rows per handoff (approval, artifact, run, task), a revision, a user status | create (acknowledging and superseding older ones), approve, reject, complete, remove, select, deliver | supersession, approval and delivery race; four updates with different conditions | rows agree, one deliverable handoff per scope, terminal is final, revisions count |
| Agent wrapper (`raios-runtime/src/agent_runner.rs`, `agent_runner/phases.rs`) | the context it read, its session, its child process | record a session, bind a conversation, look up, decide, spawn, attach, acknowledge, wait, close | a read used long after it was made; death between any two of these | injects only what is addressed to its agent; never revives a closed handoff; leaves no live agent off the record |
| Control-plane dispatcher (`raios-runtime/src/control_plane/service.rs`) | `cp_idempotency` | dispatch one command | duplicate requests in flight, failure after commit, crash anywhere | a key's command is done, recorded and audited once and together; effects only after that |
| Audit ledger (`raios-core/src/security/verify_chain.rs`) | `audit_log`, a hash chain | append alone or inside a transaction, verify | concurrent appenders, stale snapshots, rollbacks | one chain |
| Recurring jobs (`raios-core/src/db/scheduler.rs`, `raios-runtime/src/daemon/scheduler.rs`, `raios-surface-cli/src/cli/cron.rs`) | `cp_scheduled_jobs`, in-flight tasks | create, pause, resume, delete, trigger, run, claim, record, recover | commands during a start, crash between claim and record, database failure | one claim per occasion, truthful count, no job locked out |
| Operator tasks (`control_plane/service/commands.rs`) | `cp_tasks` | create, update, assign | optimistic `updated_at` check; `raios task update` checks nothing | no lost update |
| Task graph and ready queue (`raios-core/src/task_graph/`, `db/wf_task_graph.rs`, `db/control_plane.rs`, `raios-runtime/src/daemon/cmd/task_graph.rs`) | graph, nodes, edges, task and run rows, jobs in flight | validate, create, execute, promote, list ready, start, end | several executors of one graph, lists acted on after they were read, unguarded `blocked` update, a fallback past the gates | a node runs after its dependencies, once per executor; the graph comes to a verdict |
| Swarm (`raios-runtime/src/swarm/`, `db/wf_swarm.rs`) | swarm rows, git worktrees | create, finish, merge, reject | disk and database change separately | no orphan, no merge of a rejected task |
| File-change approvals (`db/wf_file_change.rs`, `daemon/cmd/file.rs`, `daemon/state.rs`) | four linked rows, the daemon's list, files | request, list, approve, reject | four statements without a transaction around a disk write; crash between any two | rows agree with the disk, an answer is final, what is pending is offered |
| Wrapper sessions (`db/wf_sessions.rs`, `db/wf_session_resume.rs`, `wrapper_liveness.rs`) | session rows, process witnesses, conversation bindings | start, bind, attach, end, reconcile | process death, reboot, pid reuse, other hosts and pid namespaces | a live session is never recovered, a dead one is; one agent per conversation |
| Lock manager (`raios-core/src/lock_manager.rs`) | in-memory locks with expiry and priority | acquire, release | none today: `aiosd.rs` creates it and its sweeper, nothing acquires a lock | one holder |
| Budgets, leases, rate limiter, session token, Anka publishing, memory archive, product factory | their own tables and files | various | expiry, file locks | see the plan |
| Search, cortex, health scans; CLI, TUI, tray, editor extension, native workspace | none that is shared | presentation and read-only analysis | | not modelled |

Interaction. Surfaces (daemon TCP, HTTP, the wrapper itself) turn requests into
commands for `dispatch_control_command`; a command runs the workflow functions
of `db/` inside the dispatcher's transaction, whose last writes are the
idempotency record and an audit row. The CLI and the wrappers also call workflow
functions directly. The daemon's worker and its tasks change `cp_scheduled_jobs`
while CLI and dispatcher do. Events go out, and agents are started, only after a
commit. A wrapper is a client too: it reads handoffs, records its session and
acknowledges what it delivered. The daemon's scheduler loop fires recurring jobs
and runs session recovery. `raios task update` writes any task's status by id,
whichever component the task belongs to; `Handoff`, `TaskGraph`, `FileApproval` and
`WrapperSession` have it as an action each.

## Modules

| Module | Models | Used by |
|---|---|---|
| `Handoff` | handoff rows, their operations, the wrappers, surfaces that decide on what they read | `MCHandoff`, `HandoffProofs`, `HandoffRefinement` |
| `HandoffMailbox` | what the tables promise: one slot per address | `Handoff` (refinement mapping) |
| `AuditLedger` | SQLite transactions as far as the code relies on them, and the ledger on top | `MCAuditLedger`, `AuditLedgerProofs`, `ControlDispatch` |
| `ControlDispatch` | the dispatcher; it extends `AuditLedger`, which is its database | `MCControlDispatch`, `ControlDispatchProofs` |
| `CommandOnce` | what the dispatcher promises: a registry that executes a key once | `ControlDispatch` (refinement mapping) |
| `CronScheduler` | jobs, worker, tasks, commands | `MCCronScheduler`, `CronSchedulerProofs` |
| `DagSearch` | the depth-first search of `validate_dag`, call by call | `TaskGraph` |
| `TaskGraph` | the rows of a graph, its executors and jobs; it extends `DagSearch`, which validates | `MCTaskGraph`, `TaskGraphProofs` |
| `FileApproval` | the rows of file changes, the daemon's list, requests and decisions | `MCFileApproval`, `FileApprovalProofs` |
| `ChangeReview` | what the approval promises: one desk, one change reviewed at a time | `FileApproval` (refinement mapping) |
| `WrapperSession` | session rows, processes, conversations, recovery | `MCWrapperSession`, `WrapperSessionProofs` |
| `SessionRegister` | what the session tables promise: sessions that end once, leases of conversations | `WrapperSession` (refinement mapping) |

### Handoff

`rows[h]` is the join the code always makes of a handoff's approval, artifact,
run and task, plus `$.user_status`; `revision` is `cp_approvals.revision`. Every
database function is one transaction and one action: `CreateHandoff`
(acknowledge what the sender received, supersede what the new one replaces,
insert), `OwnerApprove` and `OwnerReject` (with `expected_revision`),
`UserComplete` and `UserRemove`, `RegisterProject`. `TaskUpdate` is `raios task
update`, which writes the task alone and leaves the revision as it is; `Override`
is the set of statuses it is used with, and `taskBy`, a ghost, says whether the
task's status is the workflow's or an operator's. A wrapper takes a step per
phase: `Lookup`, a decision, `Spawn`, `Consume`, and `Abort` wherever the code
returns early or the process dies. `seen` is what a surface read of an approval;
its decisions use it however old it is.

Directories are model values; `PrefixOf` says which path is textually a prefix
of which, because `project_id_for_file_path` compares text. Titles, summaries
and timestamps are left out. A SUCCESS handoff that the verify-gate query on
task graphs refuses writes nothing: it is a stuttering step. (Nothing outside the
tests inserts a verify-gate node, so `TaskGraph` has none.) `injected` counts
the agents started with a handoff's context. The personal-task synchronisation
(`raios-core/src/db/tasks.rs:132`) updates tasks by title and could meet a
handoff's task only under the very title the workflow gave it; it is left out.

What an operator's update does to the properties: the approval, artifact and run
of a handoff agree whatever the operator wrote, and the task agrees with them
unless it is his (`LinkedRowsAgree`). Since every decision and every delivery asks
for a task in `awaiting_approval`, which no update can restore, an update ends the
handoff for the workflow: it can no longer be delivered, approved or rejected, only
superseded, and its task keeps what the operator gave it
(`TerminalStaysTerminal`). A revision therefore vouches for approval, artifact and
run, and for the task as long as a decision can still be made on it
(`CurrentRevisionMeansCurrentState`).

### AuditLedger

A connection is in no transaction, in a deferred one (nothing taken), a reader
(snapshot fixed) or a writer; `MayWrite` refuses the slot while another holds it
and to a reader whose snapshot is stale. `EnterRecord` is both branches of
`record_audit_event`: `BEGIN IMMEDIATE`, or the no-op `UPDATE` that upgrades the
caller's transaction. `ReadTail` and `InsertRow` are `append_audit_event`, and a
connection reads its own uncommitted rows. A hash is the sequence of entries it
stands for: SHA-256 is taken to have no collisions and nothing else about it is
used. `VerifyChain` is `verify_chain`, which compares nothing with the first
row's `prev_hash`; `LedgerVerifies` asks for that too. Busy timeouts, errors
and process death are all `Rollback`.

### ControlDispatch

One request is one connection of `AuditLedger`, whose `Entry` is here the rows of
permitted and denied commands (`AuditEntry`). `Submit` takes the command past authorization
and the policy verdict (which is read from a file at each request, so it is an
input); `Replay` and `LookUpMisses` are the lookup outside the transaction,
which takes a failed `SELECT` for a miss; `RunReads`, `RunCommand`,
`InsertRecord`, `AuditCommand`, `Commit` are the transaction; `EmitEvents`,
`Launch`, `LaunchFails` are `finish`, and `Respond` is the return from dispatch,
a step later. `Crash` may strike at any point, between the effect and the answer
too: an agent may then be running for a client that was told nothing. A payload is an opaque value: its hash, and whether it is a `LaunchAgent`.
What a command does to its own tables is abstracted to whether it writes; the
handoff and cron commands are modelled in their own modules. `done`, `answer`
and `replayed` are history variables. Legacy records carry an empty payload hash
and match any payload, as in the code.

`CommandOnce` is the view from outside: `Execute` binds a key to its payload,
counts the execution and audits it in one step; `Effect` or `RecordFailure` follows
at most once, `Tell` later and only with what happened; `Replay` answers for the
bound payload. The mapping hides requests, transactions and denials. A replay from a
legacy record, or with another payload, is a stutter.

### CronScheduler

`status` and `due` are the job's row, `due` standing for `next_run_at <= now`.
Tasks the worker spawned are counted by phase (`spawning`, `okPending`,
`failPending`): tasks of one job do not differ. `ClaimDue` claims all due jobs in
one statement. `MarkFired`, `RevertFiring`, `ResetFiring` are the three
statements that take a job out of `firing`, with exactly the conditions of their
`WHERE` clauses. Every `open_db` or update in the worker may fail, at most `MaxFaults` times;
`faults` counts it.
`occasions` counts, as a history variable, how often a job came up for a run: its
time came, it was triggered, or it left `firing` without having been recorded (a
restart, a pause or a resume), since its `next_run_at` is then still in the past.
`raios cron run` is three steps, because it lists, updates and starts without a
transaction. One daemon runs at a time: it binds its port before it starts the
worker.

### TaskGraph and DagSearch

`deps` is what the client asked for, any relation at all, with unknown ids
(`Stranger`) and self-dependencies; `ValidateGraph` is a step of `validate_dag`
and `CreateGraph` the inserts. Creation is one step although the code inserts row by row: the graph's
id is returned after the last insert, so nobody can execute a partial graph; a
failure leaves tasks that no executor's plan matches. `task` and `run` are the
two status columns of a node, each SQL statement a step of its own. The
compatibility tables are copies of them, rebuilt after each change.

Every `ExecuteTaskGraph` request starts one more executor. One pass is `Sweep`
(read what can be promoted), `Promote` node by node, `ListReady`, `Gate`
candidate by candidate (the provider gate may block a task by id, whatever it
has become), `StartTask` and `StartRun` (the two statements of
`mark_node_running`, then `Factory::submit`), `EndPass`. `ListFallback` is the
path taken when the database cannot be opened. A job `Exit`s and records its end
by `EndTask` and `EndRun`; `JobLost` is every way it disappears. Jobs of a node
do not differ and are counted by phase. `standing` is what the gate reads from
budget ledger and capability table, and it changes at any time. A failed call, a
restart, an executor that times out, a change of standing and an operator's update
are upsets, and
`MaxUpsets` bounds their sum.

`DagSearch` has `has_cycle` as written, with `visited` and `in_stack` shared
between calls and left dirty on early return. The recursion is a stack of calls
(`calls`), and each call and each return is a step, so that no recursive operator
is needed and the search can be proved about. Which root or dependency comes next
is chosen freely: each is taken once, so every order of the request's lists is
covered. A dependency listed twice is finished by its second call, which changes
nothing. `ValidDag` is the definition the search is checked against. A restart
during validation loses the request. Left out: the limit of 50 nodes, which
refuses before anything is read, and repeated node ids, which pass validation
and fail on the primary key of `task_graph_nodes`.

### FileApproval

`row[c]` has the status columns of a change's four rows, in the order the
statements insert (`InsertOrder`) and update (`MarkOrder`) them. A request is at
the statement `request[c]`; a decision is `deciding`, `verdict` and `stmt`, and
being non-`None` is holding the write lock of the daemon's state. `Truncate` and
`Write` are `fs::write`, so that a crash between them leaves a torn file.
`disk[c]` is what change `c` did to its file, one file per change: two changes
of one file are as independent in the code as changes of two. Errors of the
updates are dropped, as the code drops them. `listed` is the list in memory,
reread after each request, each decision and at startup. The older
`pending_diffs` queue beside it is left out: nothing adds to it.

`ChangeReview` says what this amounts to: a desk takes one filed change at a time;
only there, and before it is answered, is its file touched; it is answered once;
its outcome is recorded by the same review or never. In the mapping the answer is
the approval row, the outcome the artifact row once it says applied or rejected,
the desk the decision that holds the lock. Task and run rows, the list and the
requests are hidden.

### WrapperSession

A session is one wrapper process and at most one agent. `pc` is where
`run_agent_with_session_labels` is; `wrapper` and `child` are what `/proc` would
show; the rest are rows: run, task, witness (`cp_wrapper_processes`: owner's boot
and attached child), conversation (`cp_wrapper_resume`). A process identity is
host, boot, pid namespace, pid and start time; here it is the session, the boot
and `reused`, whether somebody else has the pid by now. A place is a host and a
pid namespace. `DeadReason` is `dead_reason` seen from a place, `Reconcile` the
whole `reconcile_sessions` with `apply`: any place may run it, the daemon does so
at each turn of its scheduler, and the sessions with an unreadable process are an input. Rows
without a witness (`Legacy`) are closed when asked for and older than the boot of
the host that looks, which for a foreign host's row is a judgement of the user's,
recorded by the ghost `closedBy` as `foreign`. Time is counted in reboots: a
reboot is taken to come more than a day after the sessions before it, which
satisfies the margin of the code and leaves recovery the most to close.
The agent's exit is a step before the wrapper reaps it, since a zombie counts as
dead. Handoff lookup and acknowledgement happen in the same function; they touch
none of these rows and are in `Handoff`.

`SessionRegister` is what is left without processes, witnesses, hosts and clocks:
a session is opened, may reserve a conversation, launches one agent, and is closed
once, as a success only after its agent ended and not under a working agent, unless
it is `loose`: its wrapper could not wait for the agent, or somebody closed
the row from another host. In the mapping the record, the work and the lease are
the run, the task and `native`; a zombie is an agent that ended.

Only a wrapper that resumes a known conversation binds it. A new codex or opencode
conversation, or `claude --continue`, leaves `native` empty
(`raios-runtime/src/session_recovery.rs:483`), although its agent works in a
conversation another wrapper may resume later. `OneAgentPerConversation` is about
bound conversations; for the others the code makes no attempt.

## Runs

| Run | Instance | Shows |
|---|---|---|
| `handoff` | 2 agents, a project directory and a sibling whose name extends it, 2 handoffs, 1 wrapper, operator updates to `completed` | types, `LinkedRowsAgree`, `UniqueDeliverable`, `ContextIsForMe`, `TerminalStaysTerminal`, refinement of the mailbox |
| `handoff_surface` | 1 surface, 1 wrapper, 2 handoffs, operator updates to `completed` and to `in_progress` | expected revisions are sound |
| `audit_ledger` | 3 connections, 2 entries, 4 rows, 4 commits | one chain |
| `control_dispatch` | 2 concurrent requests, a fresh and a legacy key, 2 payloads | once, recorded, audited; effects follow; replay answers its own command; refinement of the once-only registry |
| `cron` | 2 jobs (3 occasions and a CLI run; 1 occasion), 1 database failure, 1 crash, fairness | claims paid for, truthful count, no job locked out, `firing` is always left |
| `task_graph` | 2 nodes with any dependencies, 2 executors, 1 upset, 2 starts of a node (1.6 million states) | `DependenciesFirst`, `RunningHasAJob`, `RowsAgree`, `StartedOncePerExecutor` |
| `task_graph_live` | 3 nodes and an unknown id (all 4096 dependency relations), 1 executor, fairness | the search accepts exactly the acyclic graphs, every executed graph reaches a verdict |
| `file_approval` | 2 changes, 3 failures, crashes or operator updates | rows and disk, `FinishedTaskHasOneOutcome`, `ListedCanBeDecided`, `PendingIsOffered`, `RejectedIsNotOnDisk`, refinement of the review |
| `wrapper_session` | 2 sessions, 1 conversation, recovery from the same place, another namespace and another host, 2 upsets, fairness | recovery spares the living, live agents are on record, one agent per conversation, refinement of the register, the dead are closed |

Races between wrappers need no run of their own: consistency and finality are
proved for any number of them, and `handoff_twice` has two. Two handoffs suffice for supersession, acknowledgement and the uniqueness
properties, which are about pairs; two directories for a scope and a
look-alike. An operator gives a task a status the workflow also writes or one that
only he writes; no condition in the code tells the others apart. Two wrappers, executors, changes or sessions for a race. One upset in
`task_graph` is each kind of failure in each place, with two executors running,
and `MaxStarts`, which each failure reduces by one, is one more than
`StartedOncePerExecutor` allows (it says nothing after a failure);
two in `wrapper_session` let a wrapper be killed and the host reboot, or a call
fail and the wrapper die of it; three in `file_approval` let a change be decided
again after a crash and fail once more. The theorems have no such bound. The third connection of the
ledger lets one append while a second is stale and a third waits. `MaxRows`,
`MaxVersion`, `MaxOccasions`, `MaxCliRuns`, `MaxCrashes` and `MaxInjections` only cut off repetition. Deadlock is not checked: bounded instances run out of
handoffs, rows or occasions, and the real system may be idle.

Disagreements between the code and what it says of itself, each shown by a run
that is expected to fail:

| Run | Property | What happens |
|---|---|---|
| `handoff_twice` | `DeliveredAtMostOnce` | two wrappers inject one handoff |
| `handoff_closed` | `ClosedIsNeverSuperseded` | a handoff the owner approved and the user then completed is superseded by the next one |
| `cron_deleted` | `DeletedStaysDeleted` | recording a start revives a deleted job |

More follows from the same causes, without runs of its own. A wrapper that looked
a handoff up injects it even if it was superseded meanwhile (`wf_handoff.rs:238`
says it "must not deliver later"), and a removed handoff that was approved before
is still delivered. Behind that and `handoff_closed` is the same fact: for a
handoff the owner has approved, complete and remove write the user's status and
leave the linked rows open, so that `Terminal` does not hold of it. Registering a project puts later
handoffs of its directory in another scope than earlier ones, so that
`UniqueDeliverable` is about what a wrapper in one place can select, not about
what was created there; a path prefix is taken for a parent directory. A launch
that failed is replayed as the result its record has. The update behind
`cron_deleted` also un-pauses a job paused during its start.

What the code does not recover from, and the models show as reachable: a task
graph whose daemon died while nodes were running is never resumed
(`RunningHasAJob` says that only crashes and failed calls do that); a file change
can be rejected after it was written, if the update that records the approval
fails (`RejectedIsNotOnDisk`); a wrapper that cannot open the database to bind
its conversation leaves its session open until a reboot, since no child was
attached.

### Fairness

Three runs assume any. `cron`: `WF(ClaimDue)` and `WF(Task(j))`, since the
tokio runtime keeps polling the worker's loop and the tasks it spawned, and
starting a process returns; `WF(Restart)`, since the daemon is a service with
`Restart=on-failure`. `FiringIsLeft` is claimed for a database that answers; if a
task cannot open it, the code leaves the job in `firing` until the next restart.
`task_graph_live`: `WF(Pass(e))` and `WF(JobEnds(n))`, since the runtime polls
executors and jobs; that a command ends some time is an assumption on the user's
commands, which the code does not enforce. `wrapper_session`:
`WF(Reconcile(Daemon, {}, FALSE))`, since the daemon's scheduler loop calls
recovery at every turn (`daemon/scheduler.rs:74`). No fairness is assumed of
users, of the clock, of the CLI or of wrappers.

## Proofs

All for arbitrary constants under the modules' named assumptions.

`HandoffProofs`. The inductive invariant is `IInv`: `TypeOK`, `LinkedRowsAgree`,
`ContextIsForMe`, and two facts the runs do not need. `UniqueByAddress` states
uniqueness by what a row stores instead of by what a wrapper asks for, and
`ScopeSound` says the project a handoff was filed under is registered and covers
the handoff's directory. Without the latter, a row filed under a project could
fall into the scope of an unregistered directory, and uniqueness would not carry
over. A lemma per row update says what it does to a consistent row, a lemma per
action that it preserves `IInv`. `TaskUpdate` touches one field of one row and
keeps every shape (`OverruledRow`); that it cannot make a row deliverable again is
what `UniqueDeliverable` needs of it. The action properties are proved for the
workflow's steps and for the operator's apart (`WorkflowStep`, `TaskStep`). `PrefixAssumption` (the registered prefixes of
a path are prefixes of one another) makes the longest one unique. Theorems:
`TypeCorrect`, `RowsAgree`, `OneDeliverable`, `ContextAddressed`,
`TerminalIsFinal`, `RevisionCounts`, `ExpectedRevisionIsSound`.

`HandoffRefinement`. `TablesImplementMailbox`: under `IInv`, each step maps to a
step of `HandoffMailbox` or to a stutter. A creation is `Post`, which displaces
the occupant of the address and may acknowledge others.

`AuditLedgerProofs`. `LedgerInv` adds to types and `LedgerVerifies`: the slot
holder is exactly the connection in a writing transaction (`SlotSound`), what
each writer sees (committed rows followed by its own) is a chain
(`ViewsChained`), and a tail that was read is still the last hash of that view
(`TailCurrent`). The last is where the slot matters: nobody else can commit
between the read and the insert. Theorems: `LedgerTypes`, `OneChain`.

`ControlDispatchProofs`. The dispatcher's database steps are `AuditLedger`'s, so
`LedgerInv` carries over step by step (`LedgerStep`). On top of it `DispatchInv`
says, for each request, what its transaction holds at each point (`TxInv`: at
most one staged row, the one this request is to write), that a key is free from
its `INSERT` to the commit (`KeyReserved`), and that a request between commit and
answer finds its own record, with the effect done or not according to where it is
(`FinishInv`); no two requests finish one key (`OneFinisher`). `KeyReserved` is where the write slot matters:
the duplicate check and the commit are several steps apart, and it survives only
because a request past its `INSERT` is a writer and there is one writer. For each
key, `RecordInv` ties record, execution, audit row and replays together (`OneRow`
names the row, where the property only counts), and `EffectInv` bounds what
happened after the commit. A step lemma per group of actions; a step that touches
no record needs only its own request to be in order (`CalmStep`). Theorems:
`TypeCorrect`, `LedgerStaysOneChain`, `CommandsAreRecordedOnce`,
`EffectsAreBound`, `ReplaysAreOwn`, `RecordsAreFinal` (`RecordIsFinal`, which for
keys that are not legacy also follows from the refinement).
`DispatcherImplementsCommandOnce`: under `DispatchInv` a commit maps to
`Execute`, what finish does to `Effect` or `RecordFailure`, the answer to `Tell`,
an answered replay to `Replay`, and every other step to a stutter.

`CronSchedulerProofs`. `AttemptsArePaidFor`, `RunCountIsTruthful` and
`FiringHasATask` are inductive together with `TypeOK`; they were stated with the
in-flight work counted in (`Outstanding`, `okPending`, `InFlight`) so that they
are. Theorems: `TypeCorrect`, `NoRetryStorm`, `RunCountSound`, `NoJobIsLockedOut`.

`TaskGraphProofs`. `DependenciesFirst` rests on `DepInv`: a completed task is
done, a ready task has its dependencies done, and so has every node in any list
an executor holds, however stale. It is inductive because `Done` only grows and
`deps` never changes, which is why stale lists are harmless here.
`StartedOncePerExecutor` rests on `OnceInv`: what an executor has started or is
about to start is in none of its own lists and its task never becomes queued or
ready again. `RunningHasAJob` is inductive with `TypeOK`; its disjunct about
`marking` covers the gap between marking and submitting. `RowsAgree` speaks only
of nodes nobody is working on; `AgreeInv` follows a node through the work: not
started, its run is pending and it has no job; started by one executor, it is
still being marked or its two rows and its one job are at one point of the same
story (`OneStory`). That there is one job needs `OnceInv`.
`SearchFindsTheCycles` rests on `SearchInv`, which holds between any two calls of
the search: the nodes whose calls have returned (`Finished`) are closed under
dependencies (`FinishedClosed`) and hold no cycle (`FinishedAcyclic`); the calls
under way are a path in the graph without repetition (`OnStack`, `CallsArePath`);
what each of them has tried is finished, but for the dependency whose call it is
waiting for (`FramesTried`). A call returns with all dependencies finished, so
its node joins a closed acyclic set and no cycle can pass through it. A
dependency found on the stack closes the path from there to a cycle. When no root
is left, every node is finished. "Acyclic" is stated by sets of nodes that wait
for one another, which needs neither paths of unbounded length nor an order of
the nodes, hence no induction over data. Theorems: `TypeCorrect`, `SearchIsExact`,
`DependenciesComeFirst`, `NoNodeStartedTwice`,
`RunningNodesHaveJobs`, `TaskAndRunRowsAgree`.

`FileApprovalProofs`. `FileInv` ties the rows to the statement each handler is at:
a request has inserted a prefix of `InsertOrder` (`InsertedSoFar`), a decision has
recorded a prefix of `MarkOrder` (`RecordedSoFar`), nothing of a change moves
before its approval does (`NotDecided`), a finished task has one outcome
(`OneOutcome`), and only pending changes are on the list (`LockInv`). The properties
speak of states between decisions, and only the statement counters say what
happens within one. `Offered` extends `PendingIsOffered` to the time of a decision,
when the change being decided is off the list. `CleanInv` does it for
`RejectedIsNotOnDisk`: once a decision is past its first update the approval has
its answer (`MarkedFirst`), so that a file other than the one being decided was
touched only by an approval (`TouchedByApproval`). For the refinement the insert of
the approval row files the change, `Decide` takes it to the desk, `Truncate` and
`Write` edit, the first update of a decision resolves it and the second settles it,
`Conclude` and `Crash` leave the desk; everything else stutters. That the first
update finds the approval pending, and that an outcome follows its own answer, is
`RecordedSoFar`. `AnswersAreFinal` then follows from the review alone. Theorems:
`TypeCorrect`, `RowsImplementReview`, `AppliedChangesAreOnDisk`, `ListedChangesCanBeDecided`,
`FinishedTasksHaveOneOutcome`, `DecisionsAreFinal`, `PendingChangesAreOffered`,
`RejectedChangesAreNotOnDisk`.

`WrapperSessionProofs`. `SessionInv`: how far a wrapper is tells which processes
there can be (`StageInv`), a session of an earlier boot has none (`BootInv`), who
closed a session tells what became of its processes (`CloserInv`), open sessions
have different conversations (`Exclusive`). Recovery looks at rows and `/proc`
only; `BootInv` is what makes an old boot in a witness a proof of death. For
`EndIsFinal`, a task exists as soon as its run does. In the refinement a successful
`Start` opens, `Bind` reserves, `Spawn` launches, `Stop`, `AgentExits` and `Reboot`
end agents (a reboot all those of its host in one step), `WaitFails` loses hold,
and whatever calls `Close` closes those of its sessions that still ran. The two
facts that carry it are `CloserInv` in the next state (recovery closed nobody who
lives) and `SuccessIsReaped` (a wrapper has a success to report only of an agent
it reaped). Theorems: `TypeCorrect`, `RecoveryIsConservative`, `AgentsAreOnRecord`,
`ConversationsAreExclusive`, `EndsAreFinal`, `SessionsImplementRegister`.

Only model-checked: `FiringIsLeft`, `GraphReachesAVerdict` and
`DeadSessionsAreClosed`, because liveness under fairness is out of the prover's
reach. Every other property of a passing run is a theorem.

## Not modelled

The map covers a small share of the repository's lines, and most of the rest is
not this kind of code: the native workspace, the terminal interface, the tray and
the editor extension are presentation; search, cortex, radar and health scans
read files and report; importers, memory archive and provenance transform text;
the CLI and the HTTP and MCP servers turn arguments into the calls that are the
actions above. Components with state that are left out:

- Swarm: its rows follow git's worktrees step by step without conditions of
  their own, so that a model would mostly restate git. The hazard of an orphan
  worktree is listed.
- Lock manager: nothing acquires a lock.
- Operator tasks: one conditional `UPDATE` each inside the dispatcher's
  transaction.
- Budgets: the gate is an input of `TaskGraph`; the ledger's arithmetic is not.
- Secret leases, rate limiter, session token, Anka publishing, product cycles:
  see the plan.

Within the modelled components: text, titles, timestamps and logging; activity
events; the wrapper's preflight gate, note socket, memory sync and PTY; verify-gate
nodes; SQLite's own failures (a read that fails with a media error, a database
that cannot be migrated); `clean_expired_idempotency`, which nothing calls.
`unwrap_or_default` on the ledger's tail read would turn such a media error into
a second genesis row; since the read follows a successful write in the same
transaction, nothing else can.

## Plan

1. `SwarmStore` with the worktree on disk, crash between any two steps.
2. Anka publishing (file lock, publish, tombstone), the session token's rotation,
   and the product factory's cycles as far as they carry state machines.
