------------------------------ MODULE Handoff ------------------------------
(***************************************************************************)
(* Handoffs between agents: the linked control-plane rows of a handoff     *)
(* (cp_approvals, cp_artifacts, cp_agent_runs, cp_tasks), the operations   *)
(* that move them (db/wf_handoff.rs) and the agent wrapper that reads a    *)
(* waiting handoff, injects it into the agent it starts and only then      *)
(* acknowledges it (agent_runner.rs, agent_runner/phases.rs).              *)
(*                                                                         *)
(* Every database operation is one SQLite transaction and so one step. A   *)
(* wrapper takes several steps, between which anything else may happen.    *)
(***************************************************************************)
EXTENDS Integers

CONSTANTS
    Agent,          \* canonical agent identities
    Path,           \* directories handoffs are scoped to and projects live in
    PrefixOf,       \* PrefixOf[p]: the paths whose text is a prefix of p's text
    HandoffId,      \* approval ids; bounds the number of handoffs created
    Wrapper,        \* concurrent `raios run` processes
    Surface,        \* surfaces that list approvals and send the owner's decisions
    Owner,          \* 'local_control_owner', the subject of the control plane
    LocalUser,      \* 'local_user', the subject of `raios handoffs done|remove`
    Supersede,      \* 'superseded', the resolved_by of a replaced handoff
    None,           \* SQL NULL
    Override,       \* the statuses the operator gives a task
    MaxInjections   \* bound on the agent starts counted per handoff

\* Principals are distinct names, and a path has at most one longest registered
\* prefix because the prefixes of a string are prefixes of one another.
ASSUME PrincipalsDistinct ==
    /\ Agent \cap {Owner, LocalUser, Supersede, None} = {}
    /\ Owner # LocalUser /\ Owner # Supersede /\ LocalUser # Supersede
    /\ None \notin {Owner, LocalUser, Supersede} \cup Path \cup HandoffId \cup Surface

ASSUME PrefixAssumption ==
    /\ PrefixOf \in [Path -> SUBSET Path]
    /\ \A p \in Path : \A C \in SUBSET PrefixOf[p] :
          C # {} => \E q \in C : C \subseteq PrefixOf[q]

ASSUME BoundAssumption ==
    /\ MaxInjections \in Nat
    /\ Override \subseteq {"pending", "in_progress", "completed", "cancelled"}

VARIABLES
    rows,        \* the linked rows of every handoff
    revision,    \* cp_approvals.revision of every handoff, 0 before its INSERT
    registered,  \* paths in the projects table; rows are never deleted
    seen,        \* the approval each surface read last, None at first
    wrappers,    \* the `raios run` processes
    injected     \* how many agents were started with a handoff's context

vars == <<rows, revision, registered, seen, wrappers, injected>>

-----------------------------------------------------------------------------
(* Types. A run that ended is identified by its exit_reason. taskBy is a    *)
(* ghost: who wrote the task's status, the workflow or an operator.        *)

Principal == Agent \cup {Owner, LocalUser, Supersede}

ApprovalStatus == {"absent", "pending", "approved", "rejected", "expired"}
ArtifactStatus == {"submitted", "applied", "rejected", "superseded"}
RunStatus == {"awaiting_approval", "handover_approved_by_owner",
              "handover_delivered", "handover_rejected", "superseded"}
OperatorStatus == {"pending", "in_progress", "completed", "cancelled"}
TaskStatus == {"awaiting_approval"} \cup OperatorStatus
UserStatus == {"none", "completed", "removed"}

Row == [to : Agent \cup {None}, path : Path \cup {None},
        pid : Path \cup {None},
        approval : ApprovalStatus, resolvedBy : Principal \cup {None},
        artifact : ArtifactStatus, run : RunStatus, task : TaskStatus,
        taskBy : {"workflow", "operator"}, user : UserStatus]

AbsentRow == [to |-> None, path |-> None, pid |-> None,
              approval |-> "absent", resolvedBy |-> None,
              artifact |-> "submitted", run |-> "awaiting_approval",
              task |-> "awaiting_approval", taskBy |-> "workflow", user |-> "none"]

WrapperState == [pc : {"idle", "decide", "spawn", "consume"},
                 me : Agent \cup {None}, ctx : HandoffId \cup {None},
                 approvedByOwner : BOOLEAN]

IdleWrapper == [pc |-> "idle", me |-> None, ctx |-> None,
                approvedByOwner |-> FALSE]

-----------------------------------------------------------------------------
(* Guards and updates of the linked rows of one handoff.                   *)

\* The conditions of cp_mark_handoff_delivered and select_pending_handoff.
Deliverable(r) ==
    /\ r.approval \in {"pending", "approved"}
    /\ r.task = "awaiting_approval"
    /\ r.run \in {"awaiting_approval", "handover_approved_by_owner"}
    /\ r.artifact = "submitted"

\* The conditions of cp_resolve_handoff and cp_approve_handoff_by_owner.
Resolvable(r) ==
    /\ r.approval = "pending"
    /\ r.task = "awaiting_approval"
    /\ r.run = "awaiting_approval"
    /\ r.artifact = "submitted"

\* cp_mark_handoff_delivered: a run the owner already ended keeps its reason.
MarkDelivered(r, by) ==
    [r EXCEPT !.approval = "approved", !.resolvedBy = by,
              !.artifact = "applied", !.task = "completed",
              !.run = IF @ = "awaiting_approval" THEN "handover_delivered" ELSE @]

\* cp_resolve_handoff with a rejection reason.
ResolveReject(r, by) ==
    [r EXCEPT !.approval = "rejected", !.resolvedBy = by,
              !.artifact = "rejected", !.run = "handover_rejected",
              !.task = "cancelled"]

\* cp_resolve_handoff without one: the local user's explicit completion.
ResolveComplete(r, by) ==
    [r EXCEPT !.approval = "approved", !.resolvedBy = by,
              !.artifact = "applied", !.run = "handover_delivered",
              !.task = "completed"]

\* cp_approve_handoff_by_owner: consent, which leaves task and artifact open.
ApproveByOwner(r) ==
    [r EXCEPT !.approval = "approved", !.resolvedBy = Owner,
              !.run = "handover_approved_by_owner"]

\* The longest registered path that is a textual prefix (wf_file_change.rs).
ProjectIdForFilePath(p) ==
    LET hits == registered \cap PrefixOf[p]
    IN  IF hits = {} THEN None ELSE CHOOSE q \in hits : hits \subseteq PrefixOf[q]

\* Mutant: the scope forgets the project, a global inbox per agent.
InScopeAnywhere(r, pid, path, to) == r.to = to

\* Mutant: the scope forgets the assignee.
InScopeAnyone(r, pid, path, to) ==
    \/ pid # None /\ r.pid = pid
    \/ pid = None /\ r.path = path

\* assignee_id = to AND (project_id = pid OR (pid IS NULL AND
\* workspace_root = path)); comparing with NULL is never true.
InScope(r, pid, path, to) ==
    /\ r.to = to
    /\ \/ pid # None /\ r.pid = pid
       \/ pid = None /\ r.path = path

\* The approvals the first UPDATE of the supersession hits.
Replaced(r, pid, path, to) ==
    /\ r.approval # "absent"
    /\ InScope(r, pid, path, to)
    /\ \/ r.approval = "pending"
       \/ r.approval = "approved" /\ r.resolvedBy = Owner
    /\ r.resolvedBy # r.to

\* Mutant: an owner-approved handoff is not expired with its other rows.
SupersedeRowPendingOnly(r, pid, path, to) ==
    LET hit == r.approval # "absent" /\ InScope(r, pid, path, to)
        stale == hit /\ r.approval = "pending"
    IN  [r EXCEPT
          !.approval = IF stale THEN "expired" ELSE @,
          !.resolvedBy = IF stale THEN Supersede ELSE @,
          !.artifact = IF hit /\ @ = "submitted" THEN "superseded" ELSE @,
          !.run = IF hit /\ @ = "awaiting_approval" THEN "superseded" ELSE @,
          !.task = IF hit /\ @ = "awaiting_approval" THEN "cancelled" ELSE @]

\* Mutant: an unregistered directory's handoffs are never superseded.
SupersedeRowRegisteredOnly(r, pid, path, to) ==
    IF pid # None THEN SupersedeRowPendingOnly(r, pid, path, to) ELSE r

\* Mutant: the artifact gets the approval's status.
SupersedeRowWrongStatus(r, pid, path, to) ==
    IF Replaced(r, pid, path, to)
      THEN [r EXCEPT !.approval = "expired", !.resolvedBy = Supersede,
                     !.artifact = "expired", !.run = "superseded",
                     !.task = "cancelled"]
      ELSE r

\* The four UPDATEs of create_handoff_workflow_in_tx, each with its own WHERE.
SupersedeRow(r, pid, path, to) ==
    LET hit == r.approval # "absent" /\ InScope(r, pid, path, to)
        stale == Replaced(r, pid, path, to)
    IN  [r EXCEPT
          !.approval = IF stale THEN "expired" ELSE @,
          !.resolvedBy = IF stale THEN Supersede ELSE @,
          !.artifact = IF hit /\ @ = "submitted" THEN "superseded" ELSE @,
          !.run = IF hit /\ @ = "awaiting_approval" THEN "superseded" ELSE @,
          !.task = IF hit /\ @ = "awaiting_approval" THEN "cancelled" ELSE @]

\* The rows the INSERTs of create_handoff_workflow_in_tx write.
NewRow(pid, path, to) ==
    [to |-> to, path |-> path, pid |-> pid,
     approval |-> "pending", resolvedBy |-> None,
     artifact |-> "submitted", run |-> "awaiting_approval",
     task |-> "awaiting_approval", taskBy |-> "workflow", user |-> "none"]

\* select_pending_handoff: the deliverable handoffs of one scope. The query
\* takes the newest; UniqueDeliverable shows there is never more than one.
SelectPending(pid, path, to) ==
    {h \in HandoffId : Deliverable(rows[h]) /\ InScope(rows[h], pid, path, to)}

\* The result of a handoff reported as SUCCESS acknowledges an incoming one.
Acknowledge(g, acked, from) ==
    IF g \in acked THEN MarkDelivered(rows[g], from) ELSE rows[g]

\* Mutant: a transition forgets the revision.
BumpNothing(h) == revision

\* revision = revision + 1, part of every UPDATE of an approval's status.
Bump(h) == [revision EXCEPT ![h] = @ + 1]

-----------------------------------------------------------------------------
Init ==
    /\ rows = [h \in HandoffId |-> AbsentRow]
    /\ revision = [h \in HandoffId |-> 0]
    /\ registered = {}
    /\ seen = [s \in Surface |-> None]
    /\ wrappers = [w \in Wrapper |-> IdleWrapper]
    /\ injected = [h \in HandoffId |-> 0]

\* create_handoff_workflow: gate, acknowledge, supersede, insert; one
\* transaction. The command line lets an agent address itself. A SUCCESS while a
\* verify_gate node of a task graph is open returns an error before any write:
\* what the gates say is the task graphs' business, and that call is a stutter.
CreateHandoff(h, from, to, path, status) ==
    LET pid == ProjectIdForFilePath(path)
        incoming == IF status = "success"
                      THEN SelectPending(pid, path, from) ELSE {}
    IN  /\ rows[h].approval = "absent"
        /\ \E acked \in IF incoming = {} THEN {{}} ELSE {{g} : g \in incoming} :
              /\ rows' = [g \in HandoffId |->
                   IF g = h THEN NewRow(pid, path, to)
                   ELSE SupersedeRow(Acknowledge(g, acked, from), pid, path, to)]
              /\ revision' = [g \in HandoffId |->
                   IF g = h THEN 1
                   ELSE revision[g] + (IF g \in acked THEN 1 ELSE 0)
                     + (IF Replaced(Acknowledge(g, acked, from), pid, path, to)
                          THEN 1 ELSE 0)]
        /\ UNCHANGED <<registered, seen, wrappers, injected>>

\* register_project: existing handoffs keep the project_id they were given.
RegisterProject(p) ==
    /\ p \notin registered
    /\ registered' = registered \cup {p}
    /\ UNCHANGED <<rows, revision, seen, wrappers, injected>>

\* A surface lists the approval and remembers the revision it saw.
ReadApproval(h, s) ==
    /\ rows[h].approval # "absent"
    /\ seen' = [seen EXCEPT ![s] = [id |-> h, row |-> rows[h],
                                  revision |-> revision[h]]]
    /\ UNCHANGED <<rows, revision, registered, wrappers, injected>>

\* require_expected_revision: none was sent, or it is the one a surface saw.
ExpectedRevisionOk(h, from) ==
    from # None =>
        /\ seen[from] # None
        /\ seen[from].id = h
        /\ seen[from].revision = revision[h]

OwnerApprove(h, from) ==
    /\ ExpectedRevisionOk(h, from)
    /\ Resolvable(rows[h])
    /\ rows' = [rows EXCEPT ![h] = ApproveByOwner(@)]
    /\ revision' = Bump(h)
    /\ UNCHANGED <<registered, seen, wrappers, injected>>

OwnerReject(h, from) ==
    /\ ExpectedRevisionOk(h, from)
    /\ Resolvable(rows[h])
    /\ rows' = [rows EXCEPT ![h] = ResolveReject(@, Owner)]
    /\ revision' = Bump(h)
    /\ UNCHANGED <<registered, seen, wrappers, injected>>

\* cp_manage_handoff(remove = false): `raios handoffs done`.
UserComplete(h) ==
    /\ rows[h].approval \in {"pending", "approved"}
    /\ rows[h].user = "none"
    /\ rows[h].approval = "pending" => Resolvable(rows[h])
    /\ rows' = [rows EXCEPT ![h] =
                 [(IF @.approval = "pending" THEN ResolveComplete(@, LocalUser)
                   ELSE @) EXCEPT !.user = "completed"]]
    /\ revision' = IF rows[h].approval = "pending" THEN Bump(h) ELSE revision
    /\ UNCHANGED <<registered, seen, wrappers, injected>>

\* cp_manage_handoff(remove = true): `raios handoffs remove`.
UserRemove(h) ==
    /\ rows[h].approval # "absent"
    /\ rows[h].user # "removed"
    /\ rows[h].approval = "pending" => Resolvable(rows[h])
    /\ rows' = [rows EXCEPT ![h] =
                 [(IF @.approval = "pending" THEN ResolveReject(@, LocalUser)
                   ELSE @) EXCEPT !.user = "removed"]]
    /\ revision' = IF rows[h].approval = "pending" THEN Bump(h) ELSE revision
    /\ UNCHANGED <<registered, seen, wrappers, injected>>

\* `raios task update`: the task alone, by its id, whatever the other rows say.
Overruled(r, status) == [r EXCEPT !.task = status, !.taskBy = "operator"]

TaskUpdate(h, status) ==
    /\ rows[h].approval # "absent"
    /\ rows' = [rows EXCEPT ![h] = Overruled(@, status)]
    /\ UNCHANGED <<revision, registered, seen, wrappers, injected>>

-----------------------------------------------------------------------------
(* The wrapper. Only runs that found a handoff are followed: without one   *)
(* the wrapper does not touch this state.                                  *)

\* lookup_pending_handoff.
Lookup(w, a, p) ==
    /\ wrappers[w].pc = "idle"
    /\ \E h \in SelectPending(ProjectIdForFilePath(p), p, a) :
          wrappers' = [wrappers EXCEPT ![w] =
             [pc |-> "decide", me |-> a, ctx |-> h,
              approvedByOwner |-> rows[h].approval = "approved"]]
    /\ UNCHANGED <<rows, revision, registered, seen, injected>>

\* resolve_handoff_decision: an explicit flag wins; otherwise the owner's
\* consent accepts, and an interactive user may answer anything.
Decisions(flag, approvedByOwner) ==
    CASE flag # "auto" -> {flag}
      [] flag = "auto" /\ approvedByOwner -> {"accept"}
      [] OTHER -> {"accept", "reject", "complete", "defer"}

HandoffAction == {"auto", "accept", "reject", "complete", "defer"}

Chosen(w, decision) ==
    /\ wrappers[w].pc = "decide"
    /\ \E flag \in HandoffAction :
          decision \in Decisions(flag, wrappers[w].approvedByOwner)

DecideAccept(w) ==
    /\ Chosen(w, "accept")
    /\ wrappers' = [wrappers EXCEPT ![w].pc = "spawn"]
    /\ UNCHANGED <<rows, revision, registered, seen, injected>>

\* RejectHandoff is dispatched as the owner, without an expected revision.
\* A refusal aborts the run; either way no context is injected.
DecideReject(w) ==
    LET h == wrappers[w].ctx
    IN  /\ Chosen(w, "reject")
        /\ IF Resolvable(rows[h])
             THEN /\ rows' = [rows EXCEPT ![h] = ResolveReject(@, Owner)]
                  /\ revision' = Bump(h)
             ELSE UNCHANGED <<rows, revision>>
        /\ wrappers' = [wrappers EXCEPT ![w] = IdleWrapper]
        /\ UNCHANGED <<registered, seen, injected>>

\* Mutant: the cached context is trusted, the rows are not looked at again.
ConsumeUnchecked(h, a) ==
    /\ rows' = [rows EXCEPT ![h] = MarkDelivered(@, a)]
    /\ revision' = Bump(h)

\* cp_consume_handoff: a context that went stale is silently ignored.
ConsumeHandoff(h, a) ==
    IF Deliverable(rows[h]) /\ rows[h].to = a
      THEN /\ rows' = [rows EXCEPT ![h] = MarkDelivered(@, a)]
           /\ revision' = Bump(h)
      ELSE UNCHANGED <<rows, revision>>

DecideComplete(w) ==
    /\ Chosen(w, "complete")
    /\ ConsumeHandoff(wrappers[w].ctx, wrappers[w].me)
    /\ wrappers' = [wrappers EXCEPT ![w] = IdleWrapper]
    /\ UNCHANGED <<registered, seen, injected>>

DecideDefer(w) ==
    /\ Chosen(w, "defer")
    /\ wrappers' = [wrappers EXCEPT ![w] = IdleWrapper]
    /\ UNCHANGED <<rows, revision, registered, seen, injected>>

\* cmd.spawn succeeds: the agent now has the context in its prompt.
Spawn(w) ==
    LET h == wrappers[w].ctx
    IN  /\ wrappers[w].pc = "spawn"
        /\ injected[h] < MaxInjections
        /\ injected' = [injected EXCEPT ![h] = @ + 1]
        /\ wrappers' = [wrappers EXCEPT ![w].pc = "consume"]
        /\ UNCHANGED <<rows, revision, registered, seen>>

\* report_handoff_delivery; a database error is only a warning.
Consume(w, dbOk) ==
    /\ wrappers[w].pc = "consume"
    /\ IF dbOk THEN ConsumeHandoff(wrappers[w].ctx, wrappers[w].me)
               ELSE UNCHANGED <<rows, revision>>
    /\ wrappers' = [wrappers EXCEPT ![w] = IdleWrapper]
    /\ UNCHANGED <<registered, seen, injected>>

\* The wrapper fails or dies before it acknowledged: unsupported agent,
\* session or spawn error, unreadable answer, a killed process.
Abort(w) ==
    /\ wrappers[w].pc # "idle"
    /\ wrappers' = [wrappers EXCEPT ![w] = IdleWrapper]
    /\ UNCHANGED <<rows, revision, registered, seen, injected>>

-----------------------------------------------------------------------------
HandoffStep(h) ==
    \/ \E from, to \in Agent, p \in Path, status \in {"success", "blocker"} :
          CreateHandoff(h, from, to, p, status)
    \/ \E s \in Surface : ReadApproval(h, s)
    \/ \E s \in Surface \cup {None} : OwnerApprove(h, s) \/ OwnerReject(h, s)
    \/ UserComplete(h)
    \/ UserRemove(h)
    \/ \E status \in Override : TaskUpdate(h, status)

WrapperStep(w) ==
    \/ \E a \in Agent, p \in Path : Lookup(w, a, p)
    \/ DecideAccept(w)
    \/ DecideReject(w)
    \/ DecideComplete(w)
    \/ DecideDefer(w)
    \/ Spawn(w)
    \/ \E dbOk \in BOOLEAN : Consume(w, dbOk)
    \/ Abort(w)

Next ==
    \/ \E h \in HandoffId : HandoffStep(h)
    \/ \E w \in Wrapper : WrapperStep(w)
    \/ \E p \in Path : RegisterProject(p)

Spec == Init /\ [][Next]_vars

-----------------------------------------------------------------------------
(* Properties.                                                             *)

\* The state of every variable, in its type.
TypeOK ==
    /\ rows \in [HandoffId -> Row]
    /\ revision \in [HandoffId -> Nat]
    /\ registered \subseteq Path
    /\ seen \in [Surface -> [id : HandoffId, row : Row, revision : Nat] \cup {None}]
    /\ wrappers \in [Wrapper -> WrapperState]
    /\ injected \in [HandoffId -> 0..MaxInjections]

\* The task has the status the workflow gave it, or one of the operator's.
TaskSays(r, status) ==
    IF r.taskBy = "operator" THEN r.task \in OperatorStatus ELSE r.task = status

\* The shapes the four linked rows of a handoff can be in together.
Absent(r) == r = AbsentRow
Pending(r) ==
    /\ r.approval = "pending" /\ r.resolvedBy = None /\ r.user = "none"
    /\ r.artifact = "submitted" /\ TaskSays(r, "awaiting_approval")
    /\ r.run = "awaiting_approval"
Consented(r) ==
    /\ r.approval = "approved" /\ r.resolvedBy = Owner
    /\ r.artifact = "submitted" /\ TaskSays(r, "awaiting_approval")
    /\ r.run = "handover_approved_by_owner"
Delivered(r) ==
    /\ r.approval = "approved" /\ r.resolvedBy = r.to
    /\ r.artifact = "applied" /\ TaskSays(r, "completed")
    /\ r.run \in {"handover_delivered", "handover_approved_by_owner"}
Completed(r) ==
    /\ r.approval = "approved" /\ r.resolvedBy = LocalUser
    /\ r.artifact = "applied" /\ TaskSays(r, "completed")
    /\ r.run = "handover_delivered" /\ r.user # "none"
Rejected(r) ==
    /\ r.approval = "rejected" /\ r.resolvedBy \in {Owner, LocalUser}
    /\ r.artifact = "rejected" /\ TaskSays(r, "cancelled")
    /\ r.run = "handover_rejected"
    /\ r.resolvedBy = LocalUser => r.user = "removed"
Superseded(r) ==
    /\ r.approval = "expired" /\ r.resolvedBy = Supersede
    /\ r.artifact = "superseded" /\ TaskSays(r, "cancelled")
    /\ r.run \in {"superseded", "handover_approved_by_owner"}

Terminal(r) == Delivered(r) \/ Completed(r) \/ Rejected(r) \/ Superseded(r)

Consistent(r) ==
    \/ Absent(r)
    \/ r.to # None /\ r.path # None /\ (Pending(r) \/ Consented(r) \/ Terminal(r))

\* The approval, artifact, run and task of a handoff always tell the same story,
\* although four statements in four operations write them with different
\* conditions: no handoff is half delivered, half rejected or half superseded, and
\* an owner's approval never reads as a delivery. Only a task that an operator
\* updated by hand may contradict the other three, which agree even then.
LinkedRowsAgree == \A h \in HandoffId : Consistent(rows[h])

\* At most one handoff can be delivered to an agent in a project, and at most
\* one in an unregistered directory, whatever acknowledgements, approvals and
\* registrations happened before: the newest-first LIMIT 1 of
\* select_pending_handoff never hides an older deliverable handoff.
UniqueDeliverable ==
    \A a \in Agent, p \in Path :
        \A g, h \in SelectPending(ProjectIdForFilePath(p), p, a) : g = h

\* A context a wrapper holds, however old, is addressed to the agent it runs.
ContextIsForMe ==
    \A w \in Wrapper : wrappers[w].pc # "idle" =>
        /\ wrappers[w].ctx \in HandoffId
        /\ rows[wrappers[w].ctx].approval # "absent"
        /\ wrappers[w].me = rows[wrappers[w].ctx].to

\* The fields the revision of an approval vouches for: not the task, which
\* `raios task update` moves without it.
Linked(r) == <<r.to, r.path, r.pid, r.approval, r.resolvedBy, r.artifact, r.run>>

\* expected_revision does its job: if the revision a surface read is still current
\* then the approval, run and artifact are as it saw them, and so is the task
\* wherever a decision still applies. An owner's decision never acts on state it
\* did not see, although an operator's update of the task leaves the revision alone.
CurrentRevisionMeansCurrentState ==
    \A s \in Surface : seen[s] # None =>
        LET now == rows[seen[s].id] IN
        /\ seen[s].revision <= revision[seen[s].id]
        /\ seen[s].revision = revision[seen[s].id] =>
              /\ Linked(seen[s].row) = Linked(now)
              /\ Resolvable(now) => seen[s].row.task = now.task

ByOperator(h) == \E status \in Override : TaskUpdate(h, status)

\* A delivered, completed, rejected or superseded handoff is never moved again
\* (cp_consume_handoff: "Superseded/rejected handoffs remain terminal even if a
\* wrapper holds an old context"), and neither its task nor one an operator took
\* over is written by anything but a further update by hand.
TerminalStaysTerminal ==
    [][\A h \in HandoffId :
          /\ Terminal(rows[h]) =>
                Linked(rows'[h]) = Linked(rows[h]) /\ revision'[h] = revision[h]
          /\ (Terminal(rows[h]) \/ rows[h].taskBy = "operator")
             /\ rows'[h].task # rows[h].task => ByOperator(h)]_vars

\* Every transition of an approval moves its revision by exactly one, also the
\* one a handoff makes while another is created, and nothing else does; a task
\* moves only together with it, or by an operator's hand.
RevisionMovesWithEveryTransition ==
    [][\A h \in HandoffId :
          /\ revision'[h] = IF Linked(rows'[h]) = Linked(rows[h])
                              THEN revision[h] ELSE revision[h] + 1
          /\ rows'[h].task # rows[h].task =>
                revision'[h] = revision[h] + 1 \/ ByOperator(h)]_vars

-----------------------------------------------------------------------------
(* The tables implement a mailbox with one slot per address.               *)

AddressOf(r) ==
    IF r.pid # None THEN <<"project", r.pid, r.to>> ELSE <<"directory", r.path, r.to>>

FateOf(r) ==
    CASE r.approval = "absent" -> "unsent"
      [] r.approval = "pending" -> "waiting"
      [] r.approval = "approved" /\ r.resolvedBy = Owner -> "consented"
      [] r.approval = "approved" /\ r.resolvedBy = LocalUser -> "completed"
      [] r.approval = "approved" /\ r.resolvedBy \notin {Owner, LocalUser} -> "delivered"
      [] r.approval = "rejected" -> "rejected"
      [] r.approval = "expired" -> "displaced"

mailFate == [h \in HandoffId |-> FateOf(rows[h])]
mailAddr == [h \in HandoffId |->
               IF rows[h].approval = "absent" THEN None ELSE AddressOf(rows[h])]

Mailbox == INSTANCE HandoffMailbox WITH
    Letter <- HandoffId,
    Address <- {"project", "directory"} \X Path \X Agent,
    Nowhere <- None,
    fate <- mailFate,
    addr <- mailAddr

\* Handoffs behave like a mailbox: a new one displaces the one waiting at the
\* same address and nothing else, and the wrapper, the owner, the local user
\* and a successful reply each only empty a slot that is still occupied.
RefinesMailbox == Mailbox!Spec

-----------------------------------------------------------------------------
(* What comments and messages of the code say, which the code does not do. *)

\* The task of a handoff is accepted when its context was delivered 'exactly
\* once': an acknowledged handoff was injected into at most one agent.
DeliveredAtMostOnce == \A h \in HandoffId : injected[h] <= 1

\* "A handoff the local user already closed (completed/removed) is never
\* superseded": what `raios handoffs done` marked completed does not expire. Only
\* a handoff that has not expired can be marked so.
ClosedIsNeverSuperseded ==
    \A h \in HandoffId : rows[h].user = "completed" => rows[h].approval # "expired"

=============================================================================
