--------------------------- MODULE WrapperSession ---------------------------
(***************************************************************************)
(* Sessions of wrapped agents (agent_runner.rs, agent_runner/phases.rs,    *)
(* db/wf_sessions.rs, db/wf_session_resume.rs) and their recovery          *)
(* (wrapper_liveness.rs). A wrapper process records a session, reserves    *)
(* the native conversation it resumes, spawns the agent as its child,      *)
(* records the child, waits for it and closes the session. Any of the      *)
(* processes can disappear at any point; recovery closes sessions whose    *)
(* processes it can show to be dead.                                       *)
(*                                                                         *)
(* Every database call below is one transaction or one statement. A        *)
(* process identity (host, boot, pid namespace, pid, start time) is        *)
(* modelled by the session it belongs to, the boot it was made in and      *)
(* whether its pid belongs to somebody else by now. "gone" is missing from *)
(* /proc or, for a wrapper, a zombie: both count as dead.                  *)
(* Conversations are those of one agent: bindings of two agents never      *)
(* conflict.                                                               *)
(***************************************************************************)
EXTENDS Integers

CONSTANTS
    Session,
    Place,           \* pairs of a host that shares the database and a pid namespace
    Home,            \* the places sessions run in
    Daemon,          \* the place whose daemon runs recovery at each turn of its scheduler
    Conversation,
    None,
    Override,        \* the statuses the operator gives a task
    MaxUpsets        \* bound on faults, kills and reboots, together

ASSUME WrapperAssumption ==
    /\ Home \subseteq Place /\ Daemon \in Place
    /\ None \notin Conversation
    /\ Override \subseteq {"pending", "in_progress", "completed", "cancelled"}
    /\ MaxUpsets \in Nat

Host == {p[1] : p \in Place}

VARIABLES
    home,       \* where a session's processes run
    want,       \* the conversation it resumes, None for a new one
    pc,         \* how far its wrapper is
    wrapper,    \* what /proc shows of the wrapper,
    child,      \* and of the agent
    reused,     \* sessions of which dead processes' pids are others' now
    run, task,  \* the status columns of cp_agent_runs and cp_tasks
    witness,    \* cp_wrapper_processes: the owner's boot, 0 without a row
    attached,   \* its child: not attached, attached but unknown, known
    native,     \* cp_wrapper_resume.native_session_id
    started,    \* cp_agent_runs.started_at
    boot,       \* the boot each host is in
    booted,     \* and when that was
    outcome,    \* what the wrapper's wait returned
    closedBy,   \* ghost: who closed the session
    abandoned,  \* ghost: sessions whose wrapper could not wait for the agent
    faults,     \* failed calls and unreadable processes
    kills,      \* killed wrappers and operator updates
    reboots

procVars == <<wrapper, child, reused>>
rowVars == <<run, task, witness, attached, native, started, closedBy>>
hostVars == <<boot, booted, reboots>>
planVars == <<home, want>>
vars == <<planVars, pc, procVars, rowVars, hostVars, outcome, abandoned, faults, kills>>

-----------------------------------------------------------------------------
Process == {"none", "alive", "zombie", "gone"}
OperatorStatus == {"pending", "in_progress", "completed", "cancelled"}
Ended == {"succeeded", "failed"}

TypeOK ==
    /\ home \in [Session -> Home] /\ want \in [Session -> Conversation \cup {None}]
    /\ pc \in [Session -> {"idle", "started", "bound", "spawned", "waiting",
                           "aborting", "ending", "exited"}]
    /\ wrapper \in [Session -> Process] /\ child \in [Session -> Process]
    /\ reused \subseteq Session
    /\ run \in [Session -> {"none", "running"} \cup Ended]
    /\ task \in [Session -> {"none", "failed"} \cup OperatorStatus]
    /\ witness \in [Session -> Nat] /\ started \in [Session -> Nat]
    /\ attached \in [Session -> {"no", "unknown", "known"}]
    /\ native \in [Session -> Conversation \cup {None}]
    /\ boot \in [Host -> Nat \ {0}] /\ booted \in [Host -> Nat]
    /\ outcome \in [Session -> BOOLEAN]
    /\ closedBy \in [Session -> {"none", "wrapper", "recovery", "legacy", "foreign"}]
    /\ abandoned \subseteq Session
    /\ faults \in Nat /\ kills \in Nat /\ reboots \in Nat

Init ==
    /\ home \in [Session -> Home] /\ want \in [Session -> Conversation \cup {None}]
    /\ pc = [s \in Session |-> "idle"]
    /\ wrapper = [s \in Session |-> "none"] /\ child = [s \in Session |-> "none"]
    /\ reused = {}
    /\ run = [s \in Session |-> "none"] /\ task = [s \in Session |-> "none"]
    /\ witness = [s \in Session |-> 0] /\ started = [s \in Session |-> 0]
    /\ attached = [s \in Session |-> "no"] /\ native = [s \in Session |-> None]
    /\ boot = [h \in Host |-> 1] /\ booted = [h \in Host |-> 0]
    /\ outcome = [s \in Session |-> FALSE]
    /\ closedBy = [s \in Session |-> "none"]
    /\ abandoned = {}
    /\ faults = 0 /\ kills = 0 /\ reboots = 0

MayUpset == faults + kills + reboots < MaxUpsets

\* A fallible call.
Call(ok) ==
    /\ ok \/ MayUpset
    /\ faults' = IF ok THEN faults ELSE faults + 1

Goto(s, p) == pc' = [pc EXCEPT ![s] = p]

\* A wrapper that is gone leaves an exited child to init, which reaps it.
Dies(s) ==
    /\ Goto(s, "exited")
    /\ wrapper' = [wrapper EXCEPT ![s] = "gone"]
    /\ child' = [child EXCEPT ![s] = IF @ = "zombie" THEN "gone" ELSE @]
    /\ outcome' = [outcome EXCEPT ![s] = FALSE]
    /\ UNCHANGED reused

-----------------------------------------------------------------------------
(* Closing sessions: cp_finish_wrapper_session.                            *)

\* Mutant: a session that did not succeed is cancelled.
FinalCancelled(success) == IF success THEN "succeeded" ELSE "cancelled"

Final(success) == IF success THEN "succeeded" ELSE "failed"

\* Mutant: a run that has ended is closed again.
CloseAny(S, success, by) ==
    LET C == {s \in S : run[s] # "none"}
    IN /\ run' = [s \in Session |-> IF s \in C THEN Final(success) ELSE run[s]]
       /\ task' = [s \in Session |-> IF s \in C /\ task[s] = "in_progress"
                      THEN (IF success THEN "completed" ELSE "failed") ELSE task[s]]
       /\ closedBy' = [s \in Session |-> IF s \in C THEN by[s] ELSE closedBy[s]]

\* Only what is still running is closed, and the task only if nobody moved it.
\* by: the ghost, who closes each of them.
Close(S, success, by) ==
    LET C == {s \in S : run[s] = "running"}
    IN /\ run' = [s \in Session |-> IF s \in C THEN Final(success) ELSE run[s]]
       /\ task' = [s \in Session |-> IF s \in C /\ task[s] = "in_progress"
                      THEN (IF success THEN "completed" ELSE "failed") ELSE task[s]]
       /\ closedBy' = [s \in Session |-> IF s \in C THEN by[s] ELSE closedBy[s]]

ByWrapper == [s \in Session |-> "wrapper"]

-----------------------------------------------------------------------------
(* The wrapper: run_agent_with_session_labels.                             *)

\* start_wrapper_session: one transaction; the launch is refused without it.
\* seen: the wrapper can read its own identity.
Start(s, seen, ok) ==
    /\ pc[s] = "idle"
    /\ Call(ok)
    /\ IF ok
       THEN /\ wrapper' = [wrapper EXCEPT ![s] = "alive"] /\ Goto(s, "started")
            /\ run' = [run EXCEPT ![s] = "running"]
            /\ task' = [task EXCEPT ![s] = "in_progress"]
            /\ started' = [started EXCEPT ![s] = reboots]
            /\ witness' = [witness EXCEPT ![s] = IF seen THEN boot[home[s][1]] ELSE 0]
       ELSE Goto(s, "exited") /\ UNCHANGED <<wrapper, run, task, started, witness>>
    /\ UNCHANGED <<planVars, child, reused, attached, native, closedBy, hostVars, outcome, abandoned, kills>>

\* Another session that is still open has the conversation.
Taken(s) == \E t \in Session \ {s} : native[t] = want[s] /\ run[t] = "running"

\* Mutant: the conversation is bound without looking who else has it.
BindAnyway(s, ok) ==
    /\ pc[s] = "started" /\ Call(ok)
    /\ native' = IF ok THEN [native EXCEPT ![s] = want[s]] ELSE native
    /\ Goto(s, IF ok THEN "bound" ELSE "aborting")
    /\ UNCHANGED <<planVars, procVars, run, task, witness, attached, started, closedBy,
                   hostVars, outcome, abandoned, kills>>

\* bind_native_resume: an immediate transaction that reserves the conversation.
Bind(s, ok) ==
    /\ pc[s] = "started" /\ Call(ok) /\ (ok \/ want[s] # None)
    /\ IF want[s] = None
       THEN Goto(s, "bound") /\ UNCHANGED native
       ELSE IF ok /\ ~Taken(s) /\ native[s] = None /\ run[s] = "running"
       THEN Goto(s, "bound") /\ native' = [native EXCEPT ![s] = want[s]]
       ELSE Goto(s, "aborting") /\ UNCHANGED native
    /\ UNCHANGED <<planVars, procVars, run, task, witness, attached, started, closedBy,
                   hostVars, outcome, abandoned, kills>>

\* The database cannot be opened to bind: the wrapper returns, the session stays open.
BindNoDb(s) ==
    /\ pc[s] = "started" /\ want[s] # None /\ Call(FALSE)
    /\ Dies(s)
    /\ UNCHANGED <<planVars, rowVars, hostVars, abandoned, kills>>

Spawn(s, ok) ==
    /\ pc[s] = "bound" /\ Call(ok)
    /\ child' = IF ok THEN [child EXCEPT ![s] = "alive"] ELSE child
    /\ Goto(s, IF ok THEN "spawned" ELSE "aborting")
    /\ UNCHANGED <<planVars, wrapper, reused, rowVars, hostVars, outcome, abandoned, kills>>

\* close_unstarted_session, and the end of a refused binding.
Abort(s, ok) ==
    /\ pc[s] = "aborting" /\ Call(ok)
    /\ IF ok THEN Close({s}, FALSE, ByWrapper) ELSE UNCHANGED <<run, task, closedBy>>
    /\ Dies(s)
    /\ UNCHANGED <<planVars, witness, attached, native, started, hostVars, abandoned, kills>>

\* attach_wrapper_child: a failure is a warning. seen: the child's identity was read.
Attach(s, seen, ok) ==
    /\ pc[s] = "spawned" /\ Call(ok)
    /\ attached' = IF ok /\ witness[s] # 0 /\ attached[s] = "no" /\ run[s] = "running"
                   THEN [attached EXCEPT ![s] = IF seen THEN "known" ELSE "unknown"]
                   ELSE attached
    /\ Goto(s, "waiting")
    /\ UNCHANGED <<planVars, procVars, run, task, witness, native, started, closedBy,
                   hostVars, outcome, abandoned, kills>>

\* wait_for_agent: the agent exited, with success or not.
Reap(s, success) ==
    /\ pc[s] = "waiting" /\ child[s] = "zombie"
    /\ child' = [child EXCEPT ![s] = "gone"]
    /\ outcome' = [outcome EXCEPT ![s] = success]
    /\ Goto(s, "ending")
    /\ UNCHANGED <<planVars, wrapper, reused, rowVars, hostVars, abandoned, faults, kills>>

\* Mutant: the wrapper does not wait for the agent it told to stop.
StopNoWait(s) ==
    /\ pc[s] = "waiting" /\ child[s] = "alive"
    /\ outcome' = [outcome EXCEPT ![s] = FALSE]
    /\ Goto(s, "ending")
    /\ UNCHANGED <<planVars, procVars, rowVars, hostVars, abandoned, faults, kills>>

\* wait_for_agent: timeout or a termination signal. The agent is killed and reaped.
Stop(s) ==
    /\ pc[s] = "waiting" /\ child[s] = "alive"
    /\ child' = [child EXCEPT ![s] = "gone"]
    /\ outcome' = [outcome EXCEPT ![s] = FALSE]
    /\ Goto(s, "ending")
    /\ UNCHANGED <<planVars, wrapper, reused, rowVars, hostVars, abandoned, faults, kills>>

\* wait_for_agent: waiting itself fails; the agent may go on.
WaitFails(s) ==
    /\ pc[s] = "waiting" /\ Call(FALSE)
    /\ outcome' = [outcome EXCEPT ![s] = FALSE]
    /\ abandoned' = abandoned \cup {s}
    /\ Goto(s, "ending")
    /\ UNCHANGED <<planVars, procVars, rowVars, hostVars, kills>>

\* finish_session: a failure is a warning.
FinishSession(s, ok) ==
    /\ pc[s] = "ending" /\ Call(ok)
    /\ IF ok THEN Close({s}, outcome[s], ByWrapper) ELSE UNCHANGED <<run, task, closedBy>>
    /\ Dies(s)
    /\ UNCHANGED <<planVars, witness, attached, native, started, hostVars, abandoned, kills>>

-----------------------------------------------------------------------------
(* What happens to the processes.                                          *)

AgentExits(s) ==
    /\ child[s] = "alive"
    /\ child' = [child EXCEPT ![s] = IF wrapper[s] = "alive" THEN "zombie" ELSE "gone"]
    /\ UNCHANGED <<planVars, pc, wrapper, reused, rowVars, hostVars, outcome, abandoned, faults, kills>>

WrapperKilled(s) ==
    /\ wrapper[s] = "alive" /\ MayUpset
    /\ Dies(s)
    /\ kills' = kills + 1
    /\ UNCHANGED <<planVars, rowVars, hostVars, abandoned, faults>>

\* The pids of a session's dead processes are given to others (of interest as long
\* as the session is open).
PidsReused(s) ==
    /\ wrapper[s] = "gone" /\ run[s] = "running" /\ s \notin reused
    /\ reused' = reused \cup {s}
    /\ UNCHANGED <<planVars, pc, wrapper, child, rowVars, hostVars, outcome, abandoned, faults, kills>>

AfterReboot(p) == IF p = "none" THEN "none" ELSE "gone"

\* Every process of the host is gone. A reboot is taken to be more than a day after
\* the sessions started before it, which leaves legacy recovery the most to close.
Reboot(h) ==
    LET S == {s \in Session : home[s][1] = h}
    IN /\ MayUpset
       /\ boot' = [boot EXCEPT ![h] = @ + 1]
       /\ booted' = [booted EXCEPT ![h] = reboots + 1] /\ reboots' = reboots + 1
       /\ wrapper' = [s \in Session |-> IF s \in S THEN AfterReboot(wrapper[s]) ELSE wrapper[s]]
       /\ child' = [s \in Session |-> IF s \in S THEN AfterReboot(child[s]) ELSE child[s]]
       /\ pc' = [s \in Session |-> IF s \in S /\ pc[s] # "idle" THEN "exited" ELSE pc[s]]
       /\ outcome' = [s \in Session |-> s \notin S /\ outcome[s]]
       /\ UNCHANGED <<planVars, reused, rowVars, abandoned, faults, kills>>

\* raios task update.
TaskUpdate(s, status) ==
    /\ task[s] # "none" /\ MayUpset
    /\ task' = [task EXCEPT ![s] = status]
    /\ kills' = kills + 1
    /\ UNCHANGED <<planVars, pc, procVars, run, witness, attached, native, started, closedBy,
                   hostVars, outcome, abandoned, faults>>

-----------------------------------------------------------------------------
(* Recovery: reconcile_sessions with apply, one immediate transaction.     *)

\* Mutant: the pid alone identifies a process.
DeadByPid(s, p) == p \in {"zombie", "gone"} /\ s \notin reused

\* ProcessView::state for a readable process of this boot and namespace: a pid that
\* somebody else has, with another start time, is as dead as one nobody has.
Dead(s, p) == p \in {"zombie", "gone"}

\* Mutant: a dead wrapper is enough.
DeadReasonOwnerOnly(p, s, unread) ==
    /\ witness[s] # 0 /\ home[s][1] = p[1]
    /\ \/ witness[s] # boot[p[1]]
       \/ home[s][2] = p[2] /\ s \notin unread /\ Dead(s, wrapper[s])

\* Mutant: a process another namespace cannot show is taken for dead.
DeadReasonAnySpace(p, s, unread) ==
    /\ witness[s] # 0 /\ home[s][1] = p[1]
    /\ \/ witness[s] # boot[p[1]] \/ home[s][2] # p[2]
       \/ s \notin unread /\ Dead(s, wrapper[s]) /\ attached[s] = "known" /\ Dead(s, child[s])

\* dead_reason, seen from place p. unread: sessions with a process /proc does not show.
DeadReason(p, s, unread) ==
    /\ witness[s] # 0 /\ home[s][1] = p[1]
    /\ \/ witness[s] # boot[p[1]]
       \/ /\ home[s][2] = p[2] /\ s \notin unread
          /\ Dead(s, wrapper[s]) /\ attached[s] = "known" /\ Dead(s, child[s])

\* Rows without a witness, older than the boot of the host that looks.
Legacy(p, s) == witness[s] = 0 /\ run[s] = "running" /\ started[s] < booted[p[1]]

\* By its witness, or as a row without one: of the host that looks, or of another.
ByRecovery(p) ==
    [s \in Session |-> IF witness[s] # 0 THEN "recovery"
                       ELSE IF home[s][1] = p[1] THEN "legacy" ELSE "foreign"]

\* The daemon looks at witnessed rows only; rows without a witness are the owner's
\* decision (raios db reconcile-sessions --include-legacy --apply). A pass that finds
\* nothing, or fails and is rolled back, changes nothing.
Reconcile(p, unread, legacy) ==
    LET D == {s \in Session : DeadReason(p, s, unread) \/ (legacy /\ Legacy(p, s))}
    IN /\ Call(unread = {})
       /\ \E s \in D : run[s] = "running"
       /\ Close(D, FALSE, ByRecovery(p))
       /\ UNCHANGED <<planVars, pc, procVars, witness, attached, native, started, hostVars,
                      outcome, abandoned, kills>>

Wrapper(s) ==
    \/ \E seen, ok \in BOOLEAN : Start(s, seen, ok) \/ Attach(s, seen, ok)
    \/ \E ok \in BOOLEAN : Bind(s, ok) \/ Spawn(s, ok) \/ Abort(s, ok) \/ FinishSession(s, ok)
    \/ \E success \in BOOLEAN : Reap(s, success)
    \/ BindNoDb(s) \/ Stop(s) \/ WaitFails(s)

Next ==
    \/ \E s \in Session : Wrapper(s) \/ AgentExits(s) \/ WrapperKilled(s) \/ PidsReused(s)
    \/ \E s \in Session, status \in Override : TaskUpdate(s, status)
    \/ \E h \in Host : Reboot(h)
    \/ \E p \in Place, unread \in SUBSET Session, legacy \in BOOLEAN : Reconcile(p, unread, legacy)

Spec == Init /\ [][Next]_vars

\* The daemon's scheduler runs recovery again and again.
FairSpec == Spec /\ WF_vars(Reconcile(Daemon, {}, FALSE))

-----------------------------------------------------------------------------
(* Properties.                                                             *)

Alive(s) == wrapper[s] = "alive" \/ child[s] = "alive"

\* Recovery is conservative: whatever it closed, by witness or as a legacy row of
\* its own host, has neither a wrapper nor an agent that lives.
RecoverySparesTheLiving ==
    \A s \in Session : closedBy[s] \in {"recovery", "legacy"} => ~Alive(s)

\* No agent works behind a closed session, unless its wrapper lost hold of it or the
\* owner closed a row of another host by hand.
LiveAgentsAreOnRecord ==
    \A s \in Session : child[s] = "alive" =>
        run[s] = "running" \/ s \in abandoned \/ closedBy[s] = "foreign"

\* A conversation that wrappers bound has one live agent, however wrappers die
\* between reserving it, spawning the agent and recording it (with the two
\* exceptions above). A conversation that is new, or continued without naming it,
\* is bound by nobody and not covered.
OneAgentPerConversation ==
    \A s, t \in Session : s # t /\ child[s] = "alive" /\ child[t] = "alive" /\ native[s] = native[t] =>
        native[s] = None \/ \E u \in {s, t} : u \in abandoned \/ closedBy[u] = "foreign"

agentState ==
    [s \in Session |-> IF child[s] \in {"none", "alive"} THEN child[s] ELSE "ended"]
outOfHand == abandoned \cup {s \in Session : closedBy[s] = "foreign"}

Register == INSTANCE SessionRegister WITH
    Nothing <- None, Status <- Override,
    record <- run, work <- task, lease <- native, agent <- agentState, loose <- outOfHand

\* The session rows implement the register, whatever wrappers, recovery, reboots and
\* operators do in which order: a session ends once, its task only while it is in
\* progress, a conversation is leased to one open session, and no session ends under
\* a working agent but the exceptions above.
RefinesRegister == Register!Spec

Recoverable(s) == run[s] = "running" /\ home[s] = Daemon /\ DeadReason(Daemon, s, {})

\* A session whose processes are known to be dead does not stay open.
DeadSessionsAreClosed == \A s \in Session : Recoverable(s) ~> run[s] # "running"
=============================================================================
