--------------------------- MODULE HandoffProofs ---------------------------
(***************************************************************************)
(* Proofs about Handoff. The inductive invariant adds two facts to the     *)
(* published invariants. ScopeSound: the project a handoff was filed under *)
(* is still registered and still a prefix of the handoff's directory;      *)
(* without it a row filed under a project could share the scope of an      *)
(* unregistered directory. UniqueByAddress: no two handoffs that are still *)
(* open have the same address, which a later registration cannot change,   *)
(* while UniqueDeliverable speaks of the projects registered now.          *)
(***************************************************************************)
EXTENDS Handoff, TLAPS

\* The same address: the project, or the directory while there is none.
SameScope(r, s) ==
    /\ r.to = s.to /\ r.pid = s.pid
    /\ r.pid = None => r.path = s.path

\* A handoff's project is registered and covers the handoff's directory.
ScopeSound ==
    \A h \in HandoffId : rows[h].pid # None =>
        rows[h].pid \in registered \cap PrefixOf[rows[h].path]

\* Neither delivered nor resolved, whatever an operator made of its task.
Open(r) == Pending(r) \/ Consented(r)

\* No two open handoffs have the same address.
UniqueByAddress ==
    \A g, h \in HandoffId :
        /\ Open(rows[g]) /\ Open(rows[h])
        /\ SameScope(rows[g], rows[h])
        => g = h

IInv == TypeOK /\ LinkedRowsAgree /\ ScopeSound /\ UniqueByAddress /\ ContextIsForMe

-----------------------------------------------------------------------------
(* What each update does to a consistent handoff.                          *)

\* The fields that say whose handoff it is and where.
SameAddress(r, s) == s.to = r.to /\ s.path = r.path /\ s.pid = r.pid

\* The task stays the operator's, and with the status the operator gave it.
KeepsTask(r, s) == s.taskBy = r.taskBy /\ (r.taskBy = "operator" => s.task = r.task)

\* An update of the linked statuses within their types gives a row again.
LEMMA TypedUpdates ==
    ASSUME NEW r \in Row, NEW task \in TaskStatus, NEW approval \in ApprovalStatus,
           NEW by \in Principal, NEW artifact \in ArtifactStatus, NEW run \in RunStatus
    PROVE  /\ [r EXCEPT !.task = task, !.taskBy = "operator"] \in Row
           /\ [r EXCEPT !.approval = approval, !.resolvedBy = by, !.artifact = artifact,
                        !.run = run, !.task = task] \in Row
  BY DEF Row

USE DEF Principal, ApprovalStatus, ArtifactStatus, RunStatus, OperatorStatus, TaskStatus,
        UserStatus, TaskSays

\* A deliverable handoff is pending or carries the owner's consent, and no
\* operator has touched its task.
LEMMA DeliverableShape ==
    ASSUME NEW r \in Row, Consistent(r)
    PROVE  /\ Deliverable(r) <=> Open(r) /\ r.taskBy = "workflow"
           /\ Resolvable(r) <=> Pending(r) /\ r.taskBy = "workflow"
           /\ Terminal(r) => ~Open(r)
           /\ Open(r) => ~Absent(r)
           /\ Absent(r) <=> r.approval = "absent"
  BY PrincipalsDistinct
     DEF Consistent, Deliverable, Resolvable, Open, Pending, Consented, Terminal,
         Delivered, Completed, Rejected, Superseded, Absent, AbsentRow, Row

\* cp_mark_handoff_delivered by the addressed agent delivers the handoff.
LEMMA MarkDeliveredRow ==
    ASSUME NEW r \in Row, Consistent(r), Deliverable(r), r.to \in Agent
    PROVE  LET s == MarkDelivered(r, r.to)
           IN  s \in Row /\ Delivered(s) /\ SameAddress(r, s) /\ KeepsTask(r, s)
<1>1. (Pending(r) \/ Consented(r)) /\ r.taskBy = "workflow"
  BY DeliverableShape DEF Open
<1>2. QED
  BY <1>1 DEF MarkDelivered, Row, SameAddress, KeepsTask, Delivered, Pending, Consented

\* cp_approve_handoff_by_owner turns a pending handoff into a consented one.
LEMMA ApproveByOwnerRow ==
    ASSUME NEW r \in Row, Pending(r)
    PROVE  LET s == ApproveByOwner(r)
           IN  s \in Row /\ Consented(s) /\ SameAddress(r, s) /\ KeepsTask(r, s)
  BY DEF ApproveByOwner, Row, SameAddress, KeepsTask, Pending, Consented

\* cp_resolve_handoff with a reason rejects a pending handoff.
LEMMA ResolveRejectRow ==
    ASSUME NEW r \in Row, Pending(r), r.taskBy = "workflow"
    PROVE  /\ LET s == ResolveReject(r, Owner)
              IN  s \in Row /\ Rejected(s) /\ SameAddress(r, s) /\ KeepsTask(r, s)
           /\ LET s == [ResolveReject(r, LocalUser) EXCEPT !.user = "removed"]
              IN  s \in Row /\ Rejected(s) /\ SameAddress(r, s) /\ KeepsTask(r, s)
  BY PrincipalsDistinct
     DEF ResolveReject, Row, SameAddress, KeepsTask, Pending, Rejected

\* cp_resolve_handoff without a reason completes a pending handoff.
LEMMA ResolveCompleteRow ==
    ASSUME NEW r \in Row, Pending(r), r.taskBy = "workflow"
    PROVE  LET s == [ResolveComplete(r, LocalUser) EXCEPT !.user = "completed"]
           IN  s \in Row /\ Completed(s) /\ SameAddress(r, s) /\ KeepsTask(r, s)
  BY DEF ResolveComplete, Row, SameAddress, KeepsTask, Pending, Completed

\* Marking a resolved handoff for the user's list changes no linked status.
LEMMA UserStatusRow ==
    ASSUME NEW r \in Row, Consistent(r), NEW u \in {"completed", "removed"},
           r.approval \notin {"absent", "pending"},
           r.approval \in {"rejected"} => u = "removed"
    PROVE  LET s == [r EXCEPT !.user = u]
           IN  /\ s \in Row /\ Consistent(s) /\ Linked(s) = Linked(r)
               /\ s.task = r.task /\ s.taskBy = r.taskBy
               /\ Consented(r) => Consented(s)
               /\ Terminal(r) => Terminal(s)
               /\ Consented(r) \/ Terminal(r)
  BY DEF Row, Consistent, Absent, AbsentRow, Pending, Consented, Terminal,
         Delivered, Completed, Rejected, Superseded, Linked

\* An operator's update of the task leaves the handoff in the shape it had.
LEMMA OverruledRow ==
    ASSUME NEW r \in Row, Consistent(r), ~Absent(r), NEW status \in Override
    PROVE  LET s == Overruled(r, status)
           IN  /\ s \in Row /\ Consistent(s) /\ Linked(s) = Linked(r)
               /\ s.approval # "absent" /\ s.taskBy = "operator"
               /\ Open(s) => Open(r)
<1> DEFINE s == Overruled(r, status)
<1>1. /\ status \in {"pending", "in_progress", "completed", "cancelled"}
      /\ r.approval # "absent"
  BY BoundAssumption, DeliverableShape
<1>2. /\ s.to = r.to /\ s.path = r.path /\ s.pid = r.pid /\ s.approval = r.approval
      /\ s.resolvedBy = r.resolvedBy /\ s.artifact = r.artifact /\ s.run = r.run
      /\ s.user = r.user /\ s.taskBy = "operator" /\ s.task = status
  BY DEF Overruled, Row
<1>3. s \in Row /\ Linked(s) = Linked(r)
  <2>1. s \in Row
    <3>1. status \in TaskStatus /\ "pending" \in ApprovalStatus /\ Owner \in Principal
          /\ "submitted" \in ArtifactStatus /\ "superseded" \in RunStatus
      BY <1>1
    <3>2. QED
      BY <3>1, TypedUpdates, Zenon DEF Overruled
  <2>2. QED
    BY <1>2, <2>1 DEF Linked
<1>4. /\ Pending(r) => Pending(s)
      /\ Consented(r) => Consented(s)
      /\ Terminal(r) => Terminal(s)
  BY <1>1, <1>2
     DEF Pending, Consented, Terminal, Delivered, Completed, Rejected, Superseded
<1>5. Consistent(s)
  BY <1>2, <1>4 DEF Consistent
<1>6. Open(s) => Open(r)
  BY <1>3, <1>4, <1>5, DeliverableShape DEF Consistent, Open
<1>7. QED
  BY <1>1, <1>2, <1>3, <1>5, <1>6

\* The supersession of create_handoff_workflow_in_tx turns every open handoff
\* of the scope into a superseded one, keeps an operator's word on its task and
\* touches no other handoff.
LEMMA SupersedeRowEffect ==
    ASSUME NEW r \in Row, Consistent(r), NEW pid, NEW path, NEW to
    PROVE  LET s == SupersedeRow(r, pid, path, to)
           IN  /\ Replaced(r, pid, path, to) <=> Open(r) /\ InScope(r, pid, path, to)
               /\ Replaced(r, pid, path, to) =>
                     s \in Row /\ Superseded(s) /\ SameAddress(r, s) /\ KeepsTask(r, s)
               /\ ~Replaced(r, pid, path, to) => s = r
<1> DEFINE hit == r.approval # "absent" /\ InScope(r, pid, path, to)
           stale == Replaced(r, pid, path, to)
           s == SupersedeRow(r, pid, path, to)
<1>1. stale <=> Open(r) /\ InScope(r, pid, path, to)
  BY PrincipalsDistinct
     DEF Replaced, Row, Consistent, Absent, AbsentRow, Open, Pending, Consented,
         Terminal, Delivered, Completed, Rejected, Superseded
<1>2. ASSUME stale PROVE s \in Row /\ Superseded(s) /\ SameAddress(r, s) /\ KeepsTask(r, s)
  <2>1. hit /\ r.artifact = "submitted"
    BY <1>1, <1>2 DEF Replaced, Open, Pending, Consented
  <2>2. s = [r EXCEPT !.approval = "expired", !.resolvedBy = Supersede,
                      !.artifact = "superseded",
                      !.run = IF @ = "awaiting_approval" THEN "superseded" ELSE @,
                      !.task = IF @ = "awaiting_approval" THEN "cancelled" ELSE @]
    BY <1>2, <2>1 DEF SupersedeRow, Row
  <2>3. /\ s.approval = "expired" /\ s.resolvedBy = Supersede /\ s.artifact = "superseded"
        /\ s.run = IF r.run = "awaiting_approval" THEN "superseded" ELSE r.run
        /\ s.task = IF r.task = "awaiting_approval" THEN "cancelled" ELSE r.task
        /\ s.taskBy = r.taskBy /\ SameAddress(r, s)
    BY <2>2 DEF Row, SameAddress
  <2>4. s \in Row
    <3> DEFINE run == IF r.run = "awaiting_approval" THEN "superseded" ELSE r.run
               task == IF r.task = "awaiting_approval" THEN "cancelled" ELSE r.task
    <3>1. run \in RunStatus /\ task \in TaskStatus
      BY DEF Row
    <3>2. s = [r EXCEPT !.approval = "expired", !.resolvedBy = Supersede,
                        !.artifact = "superseded", !.run = run, !.task = task]
      BY <2>2
    <3> HIDE DEF run, task, s
    <3>3. QED
      BY <3>1, <3>2, "expired" \in ApprovalStatus, Supersede \in Principal,
         "superseded" \in ArtifactStatus, TypedUpdates
  <2>5. Superseded(s) /\ KeepsTask(r, s)
    BY <1>1, <1>2, <2>3 DEF Superseded, KeepsTask, Open, Pending, Consented, Row
  <2>6. QED
    BY <2>3, <2>4, <2>5
<1>3. ASSUME ~stale PROVE s = r
  <2>1. CASE hit
    <3>1. r.artifact # "submitted" /\ r.run # "awaiting_approval" /\ r.task # "awaiting_approval"
      BY <1>1, <1>3, <2>1
         DEF Row, Consistent, Absent, AbsentRow, Open, Terminal, Delivered, Completed,
             Rejected, Superseded
    <3>2. QED
      BY <1>3, <3>1 DEF SupersedeRow, Row
  <2>2. CASE ~hit
    BY <1>3, <2>2 DEF SupersedeRow, Row
  <2>3. QED
    BY <2>1, <2>2
<1>4. QED
  BY <1>1, <1>2, <1>3

-----------------------------------------------------------------------------
(* What one step may do to the rows of a handoff that exists.              *)

\* A step of the workflow: a decision, a delivery, or the user's mark.
WorkflowStep(r, s) ==
    \/ s = r
    \/ /\ SameAddress(r, s) /\ KeepsTask(r, s) /\ Pending(r)
       /\ Consented(s) \/ Delivered(s) \/ Completed(s) \/ Rejected(s)
    \/ SameAddress(r, s) /\ KeepsTask(r, s) /\ Consented(r) /\ Delivered(s)
    \/ /\ Linked(s) = Linked(r) /\ s.task = r.task /\ s.taskBy = r.taskBy
       /\ \/ Consented(r) /\ Consented(s)
          \/ Terminal(r) /\ Terminal(s)

RowStep(r, s) == WorkflowStep(r, s) \/ \E status \in Override : s = Overruled(r, status)

\* The revision moves when, and only when, a linked field does.
RevisionStep(h) ==
    revision'[h] = IF Linked(rows'[h]) = Linked(rows[h])
                     THEN revision[h] ELSE revision[h] + 1

\* The task moves with the revision or by an operator's hand, and by nothing
\* else once the handoff is terminal or the task is the operator's.
TaskStep(h) ==
    /\ rows[h].taskBy = "operator" => rows'[h].taskBy = "operator"
    /\ rows'[h].task # rows[h].task =>
          \/ ByOperator(h)
          \/ /\ revision'[h] = revision[h] + 1
             /\ ~Terminal(rows[h]) /\ rows[h].taskBy # "operator"

\* A row step keeps the rows consistent and the address, opens nothing and
\* leaves the linked fields of a terminal handoff alone.
LEMMA RowStepFacts ==
    ASSUME NEW r \in Row, NEW s \in Row, Consistent(r), ~Absent(r), RowStep(r, s)
    PROVE  /\ Consistent(s) /\ SameAddress(r, s) /\ s.approval # "absent"
           /\ Open(s) => Open(r)
           /\ Terminal(r) => Linked(s) = Linked(r)
<1>1. r.to # None /\ r.path # None /\ (Open(r) \/ Terminal(r))
  BY DEF Consistent, Open
<1>2. r.approval # "absent"
  BY DeliverableShape
<1>3. CASE \E status \in Override : s = Overruled(r, status)
  BY <1>3, OverruledRow DEF Linked, SameAddress
<1>4. CASE WorkflowStep(r, s)
  <2>1. SameAddress(r, s)
    BY <1>4 DEF WorkflowStep, SameAddress, Linked
  <2>2. s = r \/ Consented(s) \/ Terminal(s)
    BY <1>4 DEF WorkflowStep, Terminal
  <2>3. Consistent(s) /\ s.approval # "absent"
    BY <1>1, <1>2, <2>1, <2>2
       DEF Consistent, SameAddress, Consented, Terminal, Delivered, Completed,
           Rejected, Superseded
  <2>4. ASSUME Open(s) PROVE Open(r)
    <3>1. ~Terminal(s)
      BY <2>3, <2>4, DeliverableShape
    <3>2. QED
      BY <1>4, <2>4, <3>1 DEF WorkflowStep, Terminal, Open
  <2>5. ASSUME Terminal(r) PROVE Linked(s) = Linked(r)
    <3>1. ~Pending(r) /\ ~Consented(r)
      BY <2>5, DeliverableShape DEF Open
    <3>2. QED
      BY <1>4, <3>1 DEF WorkflowStep
  <2>6. QED
    BY <2>1, <2>3, <2>4, <2>5
<1>5. QED
  BY <1>3, <1>4 DEF RowStep

RowsInv == /\ rows \in [HandoffId -> Row]
           /\ LinkedRowsAgree /\ ScopeSound /\ UniqueByAddress

\* A step that moves the rows of existing handoffs by row steps, and registers
\* at most new projects, preserves the invariant of the rows.
LEMMA RowStepsPreserve ==
    ASSUME RowsInv, rows' \in [HandoffId -> Row], registered \subseteq registered',
           \A h \in HandoffId : \/ rows'[h] = rows[h]
                                \/ ~Absent(rows[h]) /\ RowStep(rows[h], rows'[h])
    PROVE  RowsInv'
<1>1. \A h \in HandoffId :
          /\ Consistent(rows'[h]) /\ SameAddress(rows[h], rows'[h])
          /\ Open(rows'[h]) => Open(rows[h])
  BY RowStepFacts DEF RowsInv, LinkedRowsAgree, SameAddress
<1>2. LinkedRowsAgree'
  BY <1>1 DEF LinkedRowsAgree
<1>3. ScopeSound'
  BY <1>1 DEF ScopeSound, SameAddress, RowsInv
<1>4. UniqueByAddress'
  BY <1>1 DEF UniqueByAddress, SameScope, SameAddress, RowsInv
<1>5. QED
  BY <1>2, <1>3, <1>4 DEF RowsInv

-----------------------------------------------------------------------------
(* Creating a handoff.                                                     *)

\* The project of a directory is a registered prefix, None if there is none.
LEMMA ProjectIdFacts ==
    ASSUME registered \subseteq Path, NEW p \in Path
    PROVE  LET pid == ProjectIdForFilePath(p)
           IN  \/ pid = None /\ registered \cap PrefixOf[p] = {}
               \/ pid # None /\ pid \in Path /\ pid \in registered \cap PrefixOf[p]
<1> DEFINE hits == registered \cap PrefixOf[p]
<1>1. CASE hits = {}
  BY <1>1 DEF ProjectIdForFilePath
<1>2. CASE hits # {}
  <2>1. hits \in SUBSET PrefixOf[p] /\ hits \subseteq Path
    OBVIOUS
  <2>2. \A C \in SUBSET PrefixOf[p] : C # {} => \E q \in C : C \subseteq PrefixOf[q]
    BY PrefixAssumption, Zenon
  <2>3. \E q \in hits : hits \subseteq PrefixOf[q]
    BY <1>2, <2>1, <2>2, Zenon
  <2>4. ProjectIdForFilePath(p) \in hits
    BY <1>2, <2>3 DEF ProjectIdForFilePath
  <2>5. QED
    BY <2>1, <2>4, PrincipalsDistinct
<1>3. QED
  BY <1>1, <1>2

\* What creating a handoff in a scope does to another handoff g.
OtherHandoff(g, acked, pid, path, to) ==
    \/ /\ g \in acked
       /\ Open(rows[g]) /\ SameAddress(rows[g], rows'[g]) /\ KeepsTask(rows[g], rows'[g])
       /\ Delivered(rows'[g]) /\ revision'[g] = revision[g] + 1
    \/ /\ g \notin acked
       /\ Open(rows[g]) /\ SameAddress(rows[g], rows'[g]) /\ KeepsTask(rows[g], rows'[g])
       /\ InScope(rows[g], pid, path, to)
       /\ Superseded(rows'[g]) /\ revision'[g] = revision[g] + 1
    \/ /\ g \notin acked
       /\ ~(Open(rows[g]) /\ InScope(rows[g], pid, path, to))
       /\ rows'[g] = rows[g] /\ revision'[g] = revision[g]

OtherHandoffs(h, pid, path, to) ==
    \E acked \in SUBSET (HandoffId \ {h}) :
        \A g \in HandoffId \ {h} : OtherHandoff(g, acked, pid, path, to)

\* Creating handoff h delivers the acknowledged handoffs, supersedes the other
\* open ones of h's scope and leaves the rest alone.
LEMMA CreateEffect ==
    ASSUME RowsInv, registered \subseteq Path, revision \in [HandoffId -> Nat],
           NEW h \in HandoffId, NEW from \in Agent, NEW to \in Agent, NEW path \in Path,
           NEW status \in {"success", "blocker"},
           CreateHandoff(h, from, to, path, status)
    PROVE  LET pid == ProjectIdForFilePath(path)
           IN  /\ rows' \in [HandoffId -> Row]
               /\ Absent(rows[h]) /\ rows'[h] = NewRow(pid, path, to)
               /\ revision' \in [HandoffId -> Nat] /\ revision'[h] = 1
               /\ OtherHandoffs(h, pid, path, to)
<1> DEFINE pid == ProjectIdForFilePath(path)
           incoming == IF status = "success" THEN SelectPending(pid, path, from) ELSE {}
<1>1. PICK acked \in (IF incoming = {} THEN {{}} ELSE {{g} : g \in incoming}) :
        /\ rows' = [g \in HandoffId |->
             IF g = h THEN NewRow(pid, path, to)
             ELSE SupersedeRow(Acknowledge(g, acked, from), pid, path, to)]
        /\ revision' = [g \in HandoffId |->
             IF g = h THEN 1
             ELSE revision[g] + (IF g \in acked THEN 1 ELSE 0)
               + (IF Replaced(Acknowledge(g, acked, from), pid, path, to) THEN 1 ELSE 0)]
  BY DEF CreateHandoff
<1>2. acked \subseteq SelectPending(pid, path, from)
  <2>1. acked \subseteq incoming
    BY <1>1
  <2>2. QED
    BY <2>1
<1>3. pid \in Path \cup {None}
  BY ProjectIdFacts
<1>4. NewRow(pid, path, to) \in Row
  BY <1>3 DEF NewRow, Row
<1>5. Absent(rows[h]) /\ rows'[h] = NewRow(pid, path, to) /\ revision'[h] = 1
  BY <1>1, DeliverableShape DEF CreateHandoff, RowsInv, LinkedRowsAgree
<1>6. acked \in SUBSET (HandoffId \ {h})
  BY <1>2, <1>5 DEF SelectPending, Deliverable, Absent, AbsentRow
<1>7. ASSUME NEW g \in HandoffId \ {h}
      PROVE  /\ rows'[g] \in Row /\ revision'[g] \in Nat
             /\ OtherHandoff(g, acked, pid, path, to)
  <2> DEFINE r == rows[g]
             k == Acknowledge(g, acked, from)
             hit == Replaced(k, pid, path, to)
  <2>1. /\ r \in Row /\ Consistent(r) /\ revision[g] \in Nat
    BY DEF RowsInv, LinkedRowsAgree
  <2>2. /\ rows'[g] = SupersedeRow(k, pid, path, to)
        /\ revision'[g] = revision[g] + (IF g \in acked THEN 1 ELSE 0) + (IF hit THEN 1 ELSE 0)
    BY <1>1
  <2>3. CASE g \in acked
    <3>1. Deliverable(r) /\ Open(r) /\ r.to = from
      BY <1>2, <2>1, <2>3, DeliverableShape DEF SelectPending, InScope
    <3>2. k \in Row /\ Delivered(k) /\ SameAddress(r, k) /\ KeepsTask(r, k)
      BY <2>1, <2>3, <3>1, MarkDeliveredRow DEF Acknowledge
    <3>3. Consistent(k)
      BY <2>1, <3>1, <3>2, DeliverableShape DEF Consistent, Terminal, SameAddress
    <3>4. ~Open(k)
      BY <3>2, <3>3, DeliverableShape DEF Terminal
    <3>5. ~hit /\ rows'[g] = k
      BY <2>2, <3>2, <3>3, <3>4, SupersedeRowEffect
    <3>6. revision'[g] = revision[g] + 1
      BY <2>1, <2>2, <2>3, <3>5
    <3>7. QED
      BY <2>1, <2>3, <3>1, <3>2, <3>5, <3>6 DEF OtherHandoff
  <2>4. CASE g \notin acked
    <3>1. k = r
      BY <2>4 DEF Acknowledge
    <3>2. CASE hit
      <4>1. /\ Open(r) /\ InScope(r, pid, path, to)
            /\ rows'[g] \in Row /\ Superseded(rows'[g]) /\ SameAddress(r, rows'[g])
            /\ KeepsTask(r, rows'[g])
        BY <2>1, <2>2, <3>1, <3>2, SupersedeRowEffect
      <4>2. QED
        BY <2>1, <2>2, <2>4, <3>2, <4>1 DEF OtherHandoff
    <3>3. CASE ~hit
      <4>1. rows'[g] = r /\ ~(Open(r) /\ InScope(r, pid, path, to))
        BY <2>1, <2>2, <3>1, <3>3, SupersedeRowEffect
      <4>2. QED
        BY <2>1, <2>2, <2>4, <3>3, <4>1 DEF OtherHandoff
    <3>4. QED
      BY <3>2, <3>3
  <2>5. QED
    BY <2>3, <2>4
<1>8. rows' \in [HandoffId -> Row] /\ revision' \in [HandoffId -> Nat]
  BY <1>1, <1>4, <1>5, <1>7
<1>9. OtherHandoffs(h, pid, path, to)
  BY <1>6, <1>7 DEF OtherHandoffs
<1>10. QED
  BY <1>5, <1>8, <1>9

-----------------------------------------------------------------------------
(* The other steps move at most one handoff, by a row step.                *)

RowSteps ==
    /\ rows' \in [HandoffId -> Row]
    /\ revision' \in [HandoffId -> Nat]
    /\ \A g \in HandoffId :
          /\ \/ rows'[g] = rows[g]
             \/ ~Absent(rows[g]) /\ RowStep(rows[g], rows'[g])
          /\ RevisionStep(g) /\ TaskStep(g)
    /\ \/ rows' = rows
       \/ \E h \in HandoffId : \A g \in HandoffId \ {h} : rows'[g] = rows[g]

\* The linked fields of a handoff differ before and after a transition.
LEMMA TransitionIsVisible ==
    ASSUME NEW r, NEW s,
           \/ Pending(r) /\ (Consented(s) \/ Terminal(s))
           \/ Consented(r) /\ (Delivered(s) \/ Superseded(s))
    PROVE  Linked(s) # Linked(r)
  BY DEF Pending, Consented, Terminal, Delivered, Completed, Rejected, Superseded, Linked

\* A workflow step that moves a task is a transition of an open handoff whose
\* task no operator has taken over.
LEMMA WorkflowMovesTask ==
    ASSUME NEW r \in Row, Consistent(r), NEW s, WorkflowStep(r, s)
    PROVE  /\ s.taskBy = r.taskBy
           /\ s.task # r.task =>
                 Linked(s) # Linked(r) /\ ~Terminal(r) /\ r.taskBy # "operator"
<1>1. CASE s = r
  BY <1>1
<1>2. CASE Linked(s) = Linked(r) /\ s.task = r.task /\ s.taskBy = r.taskBy
  BY <1>2
<1>3. CASE /\ KeepsTask(r, s) /\ Open(r) /\ Linked(s) # Linked(r)
  BY <1>3, DeliverableShape DEF KeepsTask
<1>4. QED
  BY <1>1, <1>2, <1>3, TransitionIsVisible DEF WorkflowStep, Open, Terminal

LEMMA OneRowStep ==
    ASSUME RowsInv, revision \in [HandoffId -> Nat],
           NEW h \in HandoffId, NEW s \in Row, ~Absent(rows[h]), WorkflowStep(rows[h], s),
           rows' = [rows EXCEPT ![h] = s],
           revision' = IF Linked(s) = Linked(rows[h]) THEN revision ELSE Bump(h)
    PROVE  RowSteps
<1>1. rows \in [HandoffId -> Row] /\ Consistent(rows[h])
  BY DEF RowsInv, LinkedRowsAgree
<1>2. rows' \in [HandoffId -> Row] /\ revision' \in [HandoffId -> Nat]
  BY <1>1 DEF Bump
<1>3. ASSUME NEW g \in HandoffId
      PROVE  /\ rows'[g] = rows[g] \/ (~Absent(rows[g]) /\ RowStep(rows[g], rows'[g]))
             /\ RevisionStep(g) /\ TaskStep(g)
  <2>1. CASE g = h
    <3>1. rows'[g] = s
      BY <1>1, <2>1
    <3>2. RevisionStep(g)
      BY <2>1, <3>1 DEF RevisionStep, Bump
    <3>3. TaskStep(g)
      BY <1>1, <2>1, <3>1, <3>2, WorkflowMovesTask DEF TaskStep, RevisionStep
    <3>4. QED
      BY <2>1, <3>1, <3>2, <3>3 DEF RowStep
  <2>2. CASE g # h
    <3>1. rows'[g] = rows[g] /\ revision'[g] = revision[g]
      BY <1>1, <2>2 DEF Bump
    <3>2. QED
      BY <3>1 DEF RevisionStep, TaskStep
  <2>3. QED
    BY <2>1, <2>2
<1>4. \A g \in HandoffId \ {h} : rows'[g] = rows[g]
  BY <1>1
<1>5. QED
  BY <1>2, <1>3, <1>4 DEF RowSteps

LEMMA NoRowStep ==
    ASSUME RowsInv, revision \in [HandoffId -> Nat], UNCHANGED <<rows, revision>>
    PROVE  RowSteps
  BY DEF RowsInv, RowSteps, RevisionStep, TaskStep

LEMMA TaskUpdateEffect ==
    ASSUME RowsInv, revision \in [HandoffId -> Nat], NEW h \in HandoffId,
           NEW status \in Override, TaskUpdate(h, status)
    PROVE  RowSteps
<1> DEFINE s == Overruled(rows[h], status)
<1>1. /\ rows \in [HandoffId -> Row] /\ rows[h] \in Row /\ Consistent(rows[h])
      /\ rows' = [rows EXCEPT ![h] = s] /\ revision' = revision
  BY DEF RowsInv, LinkedRowsAgree, TaskUpdate
<1>2. ~Absent(rows[h])
  BY <1>1, DeliverableShape DEF TaskUpdate
<1>3. s \in Row /\ Linked(s) = Linked(rows[h]) /\ s.taskBy = "operator"
  BY <1>1, <1>2, OverruledRow
<1>4. ASSUME NEW g \in HandoffId
      PROVE  /\ rows'[g] = rows[g] \/ (~Absent(rows[g]) /\ RowStep(rows[g], rows'[g]))
             /\ RevisionStep(g) /\ TaskStep(g)
  <2>1. CASE g = h
    <3>1. rows'[g] = s
      BY <1>1, <2>1
    <3>2. RowStep(rows[g], rows'[g]) /\ RevisionStep(g)
      BY <1>1, <1>3, <2>1, <3>1 DEF RowStep, RevisionStep
    <3>3. ByOperator(g)
      BY <2>1 DEF ByOperator
    <3>4. QED
      BY <1>2, <1>3, <2>1, <3>1, <3>2, <3>3 DEF TaskStep
  <2>2. CASE g # h
    <3>1. rows'[g] = rows[g] /\ revision'[g] = revision[g]
      BY <1>1, <2>2
    <3>2. QED
      BY <3>1 DEF RevisionStep, TaskStep
  <2>3. QED
    BY <2>1, <2>2
<1>5. rows' \in [HandoffId -> Row] /\ \A g \in HandoffId \ {h} : rows'[g] = rows[g]
  BY <1>1, <1>3
<1>6. QED
  BY <1>1, <1>4, <1>5 DEF RowSteps

LEMMA OwnerEffect ==
    ASSUME RowsInv, revision \in [HandoffId -> Nat], NEW h \in HandoffId,
           NEW from \in Surface \cup {None}, OwnerApprove(h, from) \/ OwnerReject(h, from)
    PROVE  RowSteps
<1>1. rows[h] \in Row /\ Consistent(rows[h]) /\ Resolvable(rows[h])
  BY DEF RowsInv, LinkedRowsAgree, OwnerApprove, OwnerReject
<1>2. Pending(rows[h]) /\ rows[h].taskBy = "workflow" /\ ~Absent(rows[h])
  BY <1>1, DeliverableShape DEF Open
<1>3. CASE OwnerApprove(h, from)
  <2>1. /\ ApproveByOwner(rows[h]) \in Row /\ Consented(ApproveByOwner(rows[h]))
        /\ SameAddress(rows[h], ApproveByOwner(rows[h]))
        /\ KeepsTask(rows[h], ApproveByOwner(rows[h]))
    BY <1>1, <1>2, ApproveByOwnerRow
  <2>2. /\ rows' = [rows EXCEPT ![h] = ApproveByOwner(rows[h])]
        /\ revision' = Bump(h)
    BY <1>3 DEF OwnerApprove
  <2>3. QED
    BY <1>2, <2>1, <2>2, OneRowStep, TransitionIsVisible DEF WorkflowStep
<1>4. CASE OwnerReject(h, from)
  <2>1. /\ ResolveReject(rows[h], Owner) \in Row /\ Rejected(ResolveReject(rows[h], Owner))
        /\ SameAddress(rows[h], ResolveReject(rows[h], Owner))
        /\ KeepsTask(rows[h], ResolveReject(rows[h], Owner))
    BY <1>1, <1>2, ResolveRejectRow
  <2>2. /\ rows' = [rows EXCEPT ![h] = ResolveReject(rows[h], Owner)]
        /\ revision' = Bump(h)
    BY <1>4 DEF OwnerReject
  <2>3. QED
    BY <1>2, <2>1, <2>2, OneRowStep, TransitionIsVisible DEF WorkflowStep, Terminal
<1>5. QED
  BY <1>3, <1>4

LEMMA UserEffect ==
    ASSUME RowsInv, revision \in [HandoffId -> Nat], NEW h \in HandoffId,
           UserComplete(h) \/ UserRemove(h)
    PROVE  RowSteps
<1> DEFINE r == rows[h]
<1>1. r \in Row /\ Consistent(r) /\ r.approval # "absent"
  BY DEF RowsInv, LinkedRowsAgree, UserComplete, UserRemove
<1>2. ~Absent(r)
  BY <1>1, DeliverableShape
<1>3. CASE r.approval = "pending"
  <2>1. Pending(r) /\ r.taskBy = "workflow"
    BY <1>1, <1>3, DeliverableShape DEF UserComplete, UserRemove
  <2>2. revision' = Bump(h)
    BY <1>3 DEF UserComplete, UserRemove
  <2>3. CASE UserComplete(h)
    <3> DEFINE s == [ResolveComplete(r, LocalUser) EXCEPT !.user = "completed"]
    <3>1. s \in Row /\ Completed(s) /\ SameAddress(r, s) /\ KeepsTask(r, s)
      BY <1>1, <2>1, ResolveCompleteRow
    <3>2. rows' = [rows EXCEPT ![h] = s]
      BY <1>3, <2>3 DEF UserComplete
    <3>3. WorkflowStep(r, s) /\ Linked(s) # Linked(r)
      BY <2>1, <3>1, TransitionIsVisible DEF WorkflowStep, Terminal
    <3>4. QED
      BY <1>2, <2>2, <3>1, <3>2, <3>3, OneRowStep
  <2>4. CASE UserRemove(h)
    <3> DEFINE s == [ResolveReject(r, LocalUser) EXCEPT !.user = "removed"]
    <3>1. s \in Row /\ Rejected(s) /\ SameAddress(r, s) /\ KeepsTask(r, s)
      BY <1>1, <2>1, ResolveRejectRow
    <3>2. rows' = [rows EXCEPT ![h] = s]
      BY <1>3, <2>4 DEF UserRemove
    <3>3. WorkflowStep(r, s) /\ Linked(s) # Linked(r)
      BY <2>1, <3>1, TransitionIsVisible DEF WorkflowStep, Terminal
    <3>4. QED
      BY <1>2, <2>2, <3>1, <3>2, <3>3, OneRowStep
  <2>5. QED
    BY <2>3, <2>4
<1>4. CASE r.approval # "pending"
  <2>1. revision' = revision
    BY <1>4 DEF UserComplete, UserRemove
  <2>2. PICK v \in {"completed", "removed"} :
          /\ rows' = [rows EXCEPT ![h] = [r EXCEPT !.user = v]]
          /\ r.approval = "rejected" => v = "removed"
    <3>1. CASE UserComplete(h)
      BY <1>4, <3>1 DEF UserComplete
    <3>2. CASE UserRemove(h)
      BY <1>4, <3>2 DEF UserRemove
    <3>3. QED
      BY <3>1, <3>2
  <2>3. LET s == [r EXCEPT !.user = v]
        IN  s \in Row /\ WorkflowStep(r, s) /\ Linked(s) = Linked(r)
    BY <1>1, <1>4, <2>2, UserStatusRow DEF WorkflowStep
  <2>4. QED
    BY <1>2, <2>1, <2>2, <2>3, OneRowStep
<1>5. QED
  BY <1>3, <1>4

LEMMA ConsumeEffect ==
    ASSUME RowsInv, revision \in [HandoffId -> Nat], NEW h \in HandoffId, NEW a \in Agent,
           ConsumeHandoff(h, a)
    PROVE  RowSteps
<1> DEFINE r == rows[h]
           s == MarkDelivered(r, a)
<1>1. CASE Deliverable(r) /\ r.to = a
  <2>1. r \in Row /\ Consistent(r)
    BY DEF RowsInv, LinkedRowsAgree
  <2>2. s \in Row /\ Delivered(s) /\ SameAddress(r, s) /\ KeepsTask(r, s)
    BY <1>1, <2>1, MarkDeliveredRow
  <2>3. (Pending(r) \/ Consented(r)) /\ ~Absent(r)
    BY <1>1, <2>1, DeliverableShape DEF Open
  <2>4. rows' = [rows EXCEPT ![h] = s] /\ revision' = Bump(h)
    BY <1>1 DEF ConsumeHandoff
  <2>5. WorkflowStep(r, s) /\ Linked(s) # Linked(r)
    BY <2>2, <2>3, TransitionIsVisible DEF WorkflowStep, Terminal
  <2>6. QED
    BY <2>2, <2>3, <2>4, <2>5, OneRowStep
<1>2. CASE ~(Deliverable(r) /\ r.to = a)
  BY <1>2, NoRowStep DEF ConsumeHandoff
<1>3. QED
  BY <1>1, <1>2

-----------------------------------------------------------------------------
(* The wrapper: what it holds stays addressed to its agent.                *)

\* Every wrapper idles, keeps its context, or has just looked one up.
WrapperSteps ==
    /\ wrappers' \in [Wrapper -> WrapperState]
    /\ \A w \in Wrapper : wrappers'[w].pc # "idle" =>
          \/ /\ wrappers[w].pc # "idle"
             /\ wrappers'[w].ctx = wrappers[w].ctx /\ wrappers'[w].me = wrappers[w].me
          \/ /\ wrappers'[w].ctx \in HandoffId
             /\ rows[wrappers'[w].ctx].approval # "absent"
             /\ wrappers'[w].me = rows[wrappers'[w].ctx].to

LEMMA ContextPreserved ==
    ASSUME ContextIsForMe, WrapperSteps,
           \A g \in HandoffId : rows[g].approval # "absent" =>
               rows'[g].approval # "absent" /\ rows'[g].to = rows[g].to
    PROVE  ContextIsForMe'
<1>1. SUFFICES ASSUME NEW w \in Wrapper, wrappers'[w].pc # "idle"
               PROVE  /\ wrappers'[w].ctx \in HandoffId
                      /\ rows'[wrappers'[w].ctx].approval # "absent"
                      /\ wrappers'[w].me = rows'[wrappers'[w].ctx].to
  BY DEF ContextIsForMe
<1>2. /\ wrappers'[w].ctx \in HandoffId
      /\ rows[wrappers'[w].ctx].approval # "absent"
      /\ wrappers'[w].me = rows[wrappers'[w].ctx].to
  BY <1>1 DEF WrapperSteps, ContextIsForMe
<1>3. QED
  BY <1>2

\* A wrapper that is not idle runs a known agent and holds a handoff.
LEMMA BusyWrapper ==
    ASSUME IInv, NEW w \in Wrapper, wrappers[w].pc # "idle"
    PROVE  wrappers[w].ctx \in HandoffId /\ wrappers[w].me \in Agent
<1>1. /\ wrappers[w].ctx \in HandoffId
      /\ rows[wrappers[w].ctx].approval # "absent"
      /\ wrappers[w].me = rows[wrappers[w].ctx].to
  BY DEF IInv, ContextIsForMe
<1>2. /\ rows[wrappers[w].ctx] \in Row /\ Consistent(rows[wrappers[w].ctx])
  BY <1>1 DEF IInv, TypeOK, LinkedRowsAgree
<1>3. rows[wrappers[w].ctx].to # None
  BY <1>1, <1>2 DEF Consistent, Absent, AbsentRow
<1>4. QED
  BY <1>1, <1>2, <1>3 DEF Row

\* The wrapper only moves rows by delivering or rejecting what it holds.
LEMMA WrapperEffect ==
    ASSUME IInv, NEW w \in Wrapper, WrapperStep(w)
    PROVE  /\ RowSteps /\ WrapperSteps
           /\ UNCHANGED <<registered, seen>>
           /\ injected' \in [HandoffId -> 0..MaxInjections]
<1> USE DEF IInv, TypeOK
<1>1. RowsInv /\ revision \in [HandoffId -> Nat]
  BY DEF RowsInv
<1>2. IdleWrapper \in WrapperState /\ IdleWrapper.pc = "idle"
  BY DEF IdleWrapper, WrapperState
<1>3. ASSUME wrappers' = [wrappers EXCEPT ![w] = IdleWrapper] PROVE WrapperSteps
  BY <1>2, <1>3 DEF WrapperSteps
<1>4. ASSUME NEW pc \in {"spawn", "consume"}, wrappers[w].pc # "idle",
             wrappers' = [wrappers EXCEPT ![w].pc = pc]
      PROVE  WrapperSteps
  <2>1. wrappers' \in [Wrapper -> WrapperState]
    BY <1>4 DEF WrapperState
  <2>2. QED
    BY <1>4, <2>1 DEF WrapperSteps, WrapperState
<1>5. ASSUME NEW a \in Agent, NEW p \in Path, Lookup(w, a, p)
      PROVE  RowSteps /\ WrapperSteps /\ UNCHANGED <<registered, seen, injected>>
  <2>1. PICK h \in SelectPending(ProjectIdForFilePath(p), p, a) :
          wrappers' = [wrappers EXCEPT ![w] =
             [pc |-> "decide", me |-> a, ctx |-> h,
              approvedByOwner |-> rows[h].approval = "approved"]]
    BY <1>5 DEF Lookup
  <2>2. h \in HandoffId /\ rows[h].approval # "absent" /\ rows[h].to = a
    BY <2>1 DEF SelectPending, Deliverable, InScope
  <2>3. WrapperSteps
    BY <2>1, <2>2 DEF WrapperSteps, WrapperState
  <2>4. QED
    BY <1>1, <1>5, <2>3, NoRowStep DEF Lookup
<1>6. ASSUME DecideAccept(w) \/ DecideDefer(w) \/ Abort(w)
      PROVE  RowSteps /\ WrapperSteps /\ UNCHANGED <<registered, seen, injected>>
  BY <1>1, <1>3, <1>4, <1>6, NoRowStep DEF DecideAccept, DecideDefer, Abort, Chosen
<1>7. ASSUME DecideReject(w)
      PROVE  RowSteps /\ WrapperSteps /\ UNCHANGED <<registered, seen, injected>>
  <2> DEFINE h == wrappers[w].ctx
             s == ResolveReject(rows[h], Owner)
  <2>1. h \in HandoffId
    BY <1>7, BusyWrapper DEF DecideReject, Chosen
  <2>2. CASE Resolvable(rows[h])
    <3>1. rows[h] \in Row /\ Consistent(rows[h])
      BY <2>1 DEF LinkedRowsAgree
    <3>2. Pending(rows[h]) /\ rows[h].taskBy = "workflow" /\ ~Absent(rows[h])
      BY <2>2, <3>1, DeliverableShape DEF Open
    <3>3. s \in Row /\ Rejected(s) /\ SameAddress(rows[h], s) /\ KeepsTask(rows[h], s)
      BY <3>1, <3>2, ResolveRejectRow
    <3>4. rows' = [rows EXCEPT ![h] = s] /\ revision' = Bump(h)
      BY <1>7, <2>2 DEF DecideReject
    <3>5. RowSteps
      BY <1>1, <2>1, <3>2, <3>3, <3>4, OneRowStep, TransitionIsVisible DEF WorkflowStep, Terminal
    <3>6. QED
      BY <1>3, <1>7, <3>5 DEF DecideReject
  <2>3. CASE ~Resolvable(rows[h])
    BY <1>1, <1>3, <1>7, <2>3, NoRowStep DEF DecideReject
  <2>4. QED
    BY <2>2, <2>3
<1>8. ASSUME DecideComplete(w)
      PROVE  RowSteps /\ WrapperSteps /\ UNCHANGED <<registered, seen, injected>>
  <2>1. wrappers[w].ctx \in HandoffId /\ wrappers[w].me \in Agent
    BY <1>8, BusyWrapper DEF DecideComplete, Chosen
  <2>2. QED
    BY <1>1, <1>3, <1>8, <2>1, ConsumeEffect DEF DecideComplete
<1>9. ASSUME Spawn(w)
      PROVE  /\ RowSteps /\ WrapperSteps /\ UNCHANGED <<registered, seen>>
             /\ injected' \in [HandoffId -> 0..MaxInjections]
  <2>1. wrappers[w].ctx \in HandoffId /\ wrappers[w].pc # "idle"
    BY <1>9, BusyWrapper DEF Spawn
  <2>2. injected' \in [HandoffId -> 0..MaxInjections]
    BY <1>9, <2>1, BoundAssumption DEF Spawn
  <2>3. QED
    BY <1>1, <1>4, <1>9, <2>1, <2>2, NoRowStep DEF Spawn
<1>10. ASSUME NEW dbOk \in BOOLEAN, Consume(w, dbOk)
      PROVE  RowSteps /\ WrapperSteps /\ UNCHANGED <<registered, seen, injected>>
  <2>1. wrappers[w].ctx \in HandoffId /\ wrappers[w].me \in Agent
    BY <1>10, BusyWrapper DEF Consume
  <2>2. CASE dbOk
    BY <1>1, <1>3, <1>10, <2>1, <2>2, ConsumeEffect DEF Consume
  <2>3. CASE ~dbOk
    BY <1>1, <1>3, <1>10, <2>3, NoRowStep DEF Consume
  <2>4. QED
    BY <2>2, <2>3
<1>11. QED
  BY <1>5, <1>6, <1>7, <1>8, <1>9, <1>10 DEF WrapperStep

-----------------------------------------------------------------------------
(* The inductive invariant.                                                *)

LEMMA InitIInv == Init => IInv
<1> SUFFICES ASSUME Init PROVE IInv
  OBVIOUS
<1>1. AbsentRow \in Row /\ IdleWrapper \in WrapperState
  BY DEF AbsentRow, Row, IdleWrapper, WrapperState
<1>2. TypeOK
  BY <1>1, BoundAssumption DEF Init, TypeOK
<1>3. LinkedRowsAgree /\ ScopeSound /\ UniqueByAddress
  BY DEF Init, LinkedRowsAgree, Consistent, Absent, ScopeSound, AbsentRow, UniqueByAddress,
         Open, Pending, Consented
<1>4. ContextIsForMe
  BY DEF Init, ContextIsForMe, IdleWrapper
<1>5. QED
  BY <1>2, <1>3, <1>4 DEF IInv

\* Steps that move existing rows by row steps keep every row's receiver.
LEMMA RowStepsKeepReceiver ==
    ASSUME RowsInv, RowSteps
    PROVE  \A g \in HandoffId : rows[g].approval # "absent" =>
               rows'[g].approval # "absent" /\ rows'[g].to = rows[g].to
  BY RowStepFacts DEF RowSteps, RowsInv, LinkedRowsAgree, SameAddress

\* Creating a handoff preserves the invariant of the rows.
LEMMA CreatePreserves ==
    ASSUME IInv, NEW h \in HandoffId, NEW from \in Agent, NEW to \in Agent,
           NEW path \in Path, NEW status \in {"success", "blocker"},
           CreateHandoff(h, from, to, path, status)
    PROVE  /\ RowsInv' /\ revision' \in [HandoffId -> Nat]
           /\ \A g \in HandoffId : rows[g].approval # "absent" =>
                 rows'[g].approval # "absent" /\ rows'[g].to = rows[g].to
<1> DEFINE pid == ProjectIdForFilePath(path)
<1>1. RowsInv /\ registered \subseteq Path /\ revision \in [HandoffId -> Nat]
  BY DEF IInv, TypeOK, RowsInv
<1>2. /\ rows' \in [HandoffId -> Row]
      /\ Absent(rows[h]) /\ rows'[h] = NewRow(pid, path, to)
      /\ revision' \in [HandoffId -> Nat]
      /\ \A g \in HandoffId \ {h} :
            /\ \/ rows'[g] = rows[g]
               \/ /\ Open(rows[g]) /\ SameAddress(rows[g], rows'[g])
                  /\ Delivered(rows'[g]) \/ Superseded(rows'[g])
            /\ Open(rows'[g]) => ~InScope(rows'[g], pid, path, to)
  <2>1. PICK acked \in SUBSET (HandoffId \ {h}) :
          \A g \in HandoffId \ {h} : OtherHandoff(g, acked, pid, path, to)
    <3>1. OtherHandoffs(h, pid, path, to)
      BY <1>1, CreateEffect
    <3>2. QED
      BY <3>1 DEF OtherHandoffs
  <2>2. \A g \in HandoffId : Delivered(rows'[g]) \/ Superseded(rows'[g])
                              => ~Open(rows'[g])
    BY DEF Delivered, Superseded, Open, Pending, Consented
  <2>3. QED
    BY <1>1, <2>1, <2>2, CreateEffect DEF OtherHandoff
<1>3. \/ pid = None
      \/ pid # None /\ pid \in registered \cap PrefixOf[path]
  BY <1>1, ProjectIdFacts
<1>4. registered' = registered
  BY DEF CreateHandoff
<1>5. Pending(rows'[h]) /\ Consistent(rows'[h]) /\ Open(rows'[h])
  BY <1>2, PrincipalsDistinct
     DEF NewRow, Pending, Consistent, Open
<1>6. ASSUME NEW g \in HandoffId \ {h}
      PROVE  /\ Consistent(rows'[g]) /\ SameAddress(rows[g], rows'[g])
             /\ Open(rows'[g]) => Open(rows[g])
             /\ rows[g].approval # "absent" => rows'[g].approval # "absent"
  <2>1. rows[g] \in Row /\ Consistent(rows[g])
    BY <1>1 DEF RowsInv, LinkedRowsAgree
  <2>2. CASE rows'[g] = rows[g]
    BY <2>1, <2>2 DEF SameAddress
  <2>3. CASE /\ Open(rows[g]) /\ SameAddress(rows[g], rows'[g])
             /\ Delivered(rows'[g]) \/ Superseded(rows'[g])
    <3>1. rows[g].to # None /\ rows[g].path # None
      BY <2>1, <2>3 DEF Consistent, Absent, AbsentRow, Open, Pending, Consented
    <3>2. QED
      BY <2>3, <3>1 DEF Consistent, Terminal, SameAddress, Delivered, Superseded
  <2>4. QED
    BY <1>2, <2>2, <2>3
<1>7. LinkedRowsAgree'
  BY <1>5, <1>6 DEF LinkedRowsAgree
<1>8. ScopeSound'
  <2>1. rows'[h].pid = pid /\ rows'[h].path = path
    BY <1>2 DEF NewRow
  <2>2. QED
    BY <1>1, <1>3, <1>4, <1>6, <2>1 DEF ScopeSound, RowsInv, SameAddress
<1>9. UniqueByAddress'
  <2>1. ASSUME NEW g \in HandoffId \ {h}, Open(rows'[g])
        PROVE  ~SameScope(rows'[g], rows'[h]) /\ ~SameScope(rows'[h], rows'[g])
    <3>1. ~InScope(rows'[g], pid, path, to)
      BY <1>2, <2>1
    <3>2. rows'[h].pid = pid /\ rows'[h].path = path /\ rows'[h].to = to
      BY <1>2 DEF NewRow
    <3>3. QED
      BY <3>1, <3>2 DEF InScope, SameScope
  <2>2. QED
    BY <1>1, <1>6, <2>1 DEF UniqueByAddress, RowsInv, SameScope, SameAddress
<1>10. QED
  BY <1>2, <1>6, <1>7, <1>8, <1>9, DeliverableShape DEF RowsInv, SameAddress, Absent, AbsentRow

LEMMA NextIInv == IInv /\ [Next]_vars => IInv'
<1> SUFFICES ASSUME IInv, [Next]_vars PROVE IInv'
  OBVIOUS
<1> USE DEF IInv, TypeOK
<1>1. RowsInv
  BY DEF RowsInv
<1>2. ASSUME UNCHANGED wrappers PROVE WrapperSteps
  BY <1>2 DEF WrapperSteps
<1>3. ASSUME RowSteps, WrapperSteps, registered \subseteq registered', registered' \subseteq Path,
             seen' \in [Surface -> [id : HandoffId, row : Row, revision : Nat] \cup {None}],
             injected' \in [HandoffId -> 0..MaxInjections]
      PROVE  IInv'
  <2>1. RowsInv'
    BY <1>1, <1>3, RowStepsPreserve DEF RowSteps
  <2>2. ContextIsForMe'
    BY <1>1, <1>3, RowStepsKeepReceiver, ContextPreserved
  <2>3. QED
    BY <1>3, <2>1, <2>2 DEF RowsInv, RowSteps, WrapperSteps
<1>4. ASSUME NEW h \in HandoffId, HandoffStep(h) PROVE IInv'
  <2>1. ASSUME NEW from \in Agent, NEW to \in Agent, NEW p \in Path,
               NEW status \in {"success", "blocker"}, CreateHandoff(h, from, to, p, status)
        PROVE  IInv'
    <3>1. UNCHANGED <<registered, seen, wrappers, injected>>
      BY <2>1 DEF CreateHandoff
    <3>2. /\ RowsInv' /\ revision' \in [HandoffId -> Nat]
          /\ \A g \in HandoffId : rows[g].approval # "absent" =>
                rows'[g].approval # "absent" /\ rows'[g].to = rows[g].to
      BY <2>1, CreatePreserves
    <3>3. ContextIsForMe'
      BY <1>2, <3>1, <3>2, ContextPreserved
    <3>4. QED
      BY <3>1, <3>2, <3>3 DEF RowsInv
  <2>2. ASSUME NEW s \in Surface, ReadApproval(h, s) PROVE IInv'
    <3>1. seen' \in [Surface -> [id : HandoffId, row : Row, revision : Nat] \cup {None}]
      BY <2>2 DEF ReadApproval
    <3>2. QED
      BY <1>1, <1>2, <1>3, <2>2, <3>1, NoRowStep DEF ReadApproval
  <2>3. ASSUME NEW s \in Surface \cup {None}, OwnerApprove(h, s) \/ OwnerReject(h, s)
        PROVE  IInv'
    <3>1. RowSteps
      BY <1>1, <2>3, OwnerEffect
    <3>2. UNCHANGED <<registered, seen, wrappers, injected>>
      BY <2>3 DEF OwnerApprove, OwnerReject
    <3>3. QED
      BY <1>2, <1>3, <3>1, <3>2
  <2>4. ASSUME UserComplete(h) \/ UserRemove(h) PROVE IInv'
    <3>1. RowSteps
      BY <1>1, <2>4, UserEffect
    <3>2. UNCHANGED <<registered, seen, wrappers, injected>>
      BY <2>4 DEF UserComplete, UserRemove
    <3>3. QED
      BY <1>2, <1>3, <3>1, <3>2
  <2>5. ASSUME NEW status \in Override, TaskUpdate(h, status) PROVE IInv'
    <3>1. RowSteps
      BY <1>1, <2>5, TaskUpdateEffect
    <3>2. UNCHANGED <<registered, seen, wrappers, injected>>
      BY <2>5 DEF TaskUpdate
    <3>3. QED
      BY <1>2, <1>3, <3>1, <3>2
  <2>6. QED
    BY <1>4, <2>1, <2>2, <2>3, <2>4, <2>5 DEF HandoffStep
<1>5. ASSUME NEW w \in Wrapper, WrapperStep(w) PROVE IInv'
  BY <1>3, <1>5, WrapperEffect
<1>6. ASSUME NEW p \in Path, RegisterProject(p) PROVE IInv'
  BY <1>1, <1>2, <1>3, <1>6, NoRowStep DEF RegisterProject
<1>7. ASSUME UNCHANGED vars PROVE IInv'
  BY <1>1, <1>2, <1>3, <1>7, NoRowStep DEF vars
<1>8. QED
  BY <1>4, <1>5, <1>6, <1>7 DEF Next

\* IInv is an invariant of the specification.
LEMMA Invariance == Spec => []IInv
  BY InitIInv, NextIInv, PTL DEF Spec

\* Every variable always has its type.
THEOREM TypeCorrect == Spec => []TypeOK
<1>1. IInv => TypeOK
  BY DEF IInv
<1>2. QED
  BY <1>1, Invariance, PTL

\* For any agents, directories, handoffs and wrappers, the four linked rows of
\* a handoff always agree on what became of it.
THEOREM RowsAgree == Spec => []LinkedRowsAgree
<1>1. IInv => LinkedRowsAgree
  BY DEF IInv
<1>2. QED
  BY <1>1, Invariance, PTL

\* No two handoffs are ever deliverable to one agent in one scope.
THEOREM OneDeliverable == Spec => []UniqueDeliverable
<1>1. ASSUME IInv PROVE UniqueDeliverable
  <2> SUFFICES ASSUME NEW a \in Agent, NEW p \in Path,
                      NEW g \in SelectPending(ProjectIdForFilePath(p), p, a),
                      NEW h \in SelectPending(ProjectIdForFilePath(p), p, a)
               PROVE  g = h
    BY DEF UniqueDeliverable
  <2> DEFINE pid == ProjectIdForFilePath(p)
  <2>1. /\ g \in HandoffId /\ Deliverable(rows[g]) /\ InScope(rows[g], pid, p, a)
        /\ h \in HandoffId /\ Deliverable(rows[h]) /\ InScope(rows[h], pid, p, a)
        /\ \A k \in HandoffId : rows[k] \in Row /\ Consistent(rows[k])
    BY <1>1 DEF SelectPending, IInv, TypeOK, LinkedRowsAgree
  <2>2. \/ pid = None /\ registered \cap PrefixOf[p] = {}
        \/ pid # None
    BY <1>1, ProjectIdFacts DEF IInv, TypeOK
  <2>3. ScopeSound
    BY <1>1 DEF IInv
  <2>4. SameScope(rows[g], rows[h])
    BY <2>1, <2>2, <2>3 DEF InScope, SameScope, ScopeSound
  <2>5. QED
    BY <1>1, <2>1, <2>4, DeliverableShape DEF IInv, UniqueByAddress
<1>2. QED
  BY <1>1, Invariance, PTL

\* A wrapper's context is always addressed to the agent the wrapper runs.
THEOREM ContextAddressed == Spec => []ContextIsForMe
<1>1. IInv => ContextIsForMe
  BY DEF IInv
<1>2. QED
  BY <1>1, Invariance, PTL

-----------------------------------------------------------------------------
(* Action properties.                                                      *)

\* Every step either creates a handoff or moves existing ones by row steps.
LEMMA StepCases ==
    ASSUME IInv, [Next]_vars
    PROVE  \/ RowSteps
           \/ \E h \in HandoffId, from, to \in Agent, p \in Path,
                 status \in {"success", "blocker"} : CreateHandoff(h, from, to, p, status)
<1>1. RowsInv /\ revision \in [HandoffId -> Nat]
  BY DEF IInv, TypeOK, RowsInv
<1>2. ASSUME UNCHANGED <<rows, revision>> PROVE RowSteps
  BY <1>1, <1>2, NoRowStep
<1>3. ASSUME NEW h \in HandoffId, HandoffStep(h)
      PROVE  \/ RowSteps
             \/ \E from, to \in Agent, p \in Path, status \in {"success", "blocker"} :
                   CreateHandoff(h, from, to, p, status)
  BY <1>1, <1>2, <1>3, OwnerEffect, UserEffect, TaskUpdateEffect DEF HandoffStep, ReadApproval
<1>4. ASSUME NEW w \in Wrapper, WrapperStep(w) PROVE RowSteps
  BY <1>4, WrapperEffect
<1>5. ASSUME NEW p \in Path, RegisterProject(p) PROVE RowSteps
  BY <1>2, <1>5 DEF RegisterProject
<1>6. ASSUME UNCHANGED vars PROVE RowSteps
  BY <1>2, <1>6 DEF vars
<1>7. QED
  BY <1>3, <1>4, <1>5, <1>6 DEF Next

\* Before its INSERT an approval has no revision.
AbsentHasNoRevision == \A h \in HandoffId : Absent(rows[h]) => revision[h] = 0

\* In every step the revision of a handoff moves by one exactly when a linked
\* field of it does, a terminal handoff does not move, and the task moves only
\* with the revision or by an operator's hand.
MovesSoundly(h) ==
    /\ RevisionStep(h) /\ TaskStep(h)
    /\ Terminal(rows[h]) => Linked(rows'[h]) = Linked(rows[h])

LEMMA StepRevisions ==
    ASSUME IInv, AbsentHasNoRevision, [Next]_vars
    PROVE  AbsentHasNoRevision' /\ \A h \in HandoffId : MovesSoundly(h)
<1>1. /\ RowsInv /\ revision \in [HandoffId -> Nat] /\ registered \subseteq Path
      /\ \A h \in HandoffId : rows[h] \in Row /\ Consistent(rows[h])
  BY DEF IInv, TypeOK, RowsInv, LinkedRowsAgree
<1>2. CASE RowSteps
  <2>1. ASSUME NEW h \in HandoffId
        PROVE  (Absent(rows'[h]) => rows'[h] = rows[h]) /\ MovesSoundly(h)
    <3>1. /\ rows'[h] \in Row /\ RevisionStep(h) /\ TaskStep(h)
          /\ rows'[h] = rows[h] \/ (~Absent(rows[h]) /\ RowStep(rows[h], rows'[h]))
      BY <1>2 DEF RowSteps
    <3>2. CASE rows'[h] = rows[h]
      BY <3>1, <3>2 DEF MovesSoundly
    <3>3. CASE ~Absent(rows[h]) /\ RowStep(rows[h], rows'[h])
      BY <1>1, <3>1, <3>3, RowStepFacts DEF Absent, AbsentRow, MovesSoundly
    <3>4. QED
      BY <3>1, <3>2, <3>3
  <2>2. AbsentHasNoRevision'
    BY <1>1, <2>1 DEF AbsentHasNoRevision, MovesSoundly, RevisionStep
  <2>3. QED
    BY <2>1, <2>2
<1>3. ASSUME NEW h \in HandoffId, NEW from \in Agent, NEW to \in Agent, NEW p \in Path,
             NEW status \in {"success", "blocker"}, CreateHandoff(h, from, to, p, status)
      PROVE  AbsentHasNoRevision' /\ \A g \in HandoffId : MovesSoundly(g)
  <2> DEFINE pid == ProjectIdForFilePath(p)
  <2>1. /\ Absent(rows[h]) /\ rows'[h] = NewRow(pid, p, to) /\ revision'[h] = 1
    BY <1>1, <1>3, CreateEffect
  <2>2. PICK acked \in SUBSET (HandoffId \ {h}) :
          \A g \in HandoffId \ {h} : OtherHandoff(g, acked, pid, p, to)
    <3>1. OtherHandoffs(h, pid, p, to)
      BY <1>1, <1>3, CreateEffect
    <3>2. QED
      BY <3>1 DEF OtherHandoffs
  <2>3. /\ rows[h].approval = "absent" /\ rows'[h].approval = "pending"
        /\ rows[h].taskBy = "workflow" /\ rows'[h].task = rows[h].task
        /\ revision[h] = 0 /\ ~Absent(rows'[h]) /\ ~Terminal(rows[h])
    BY <2>1 DEF Absent, AbsentRow, NewRow, AbsentHasNoRevision, Terminal, Delivered,
                Completed, Rejected, Superseded
  <2>4. MovesSoundly(h)
    BY <2>1, <2>3 DEF MovesSoundly, RevisionStep, TaskStep, Linked
  <2>5. ASSUME NEW g \in HandoffId \ {h}
        PROVE  (Absent(rows'[g]) => rows'[g] = rows[g]) /\ MovesSoundly(g)
    <3>1. CASE rows'[g] = rows[g] /\ revision'[g] = revision[g]
      BY <3>1 DEF MovesSoundly, RevisionStep, TaskStep
    <3>2. CASE /\ Open(rows[g]) /\ revision'[g] = revision[g] + 1
               /\ KeepsTask(rows[g], rows'[g])
               /\ Delivered(rows'[g]) \/ Superseded(rows'[g])
      <4>1. (Pending(rows[g]) \/ Consented(rows[g])) /\ ~Terminal(rows[g])
        BY <1>1, <3>2, DeliverableShape DEF Open
      <4>2. Linked(rows'[g]) # Linked(rows[g])
        BY <3>2, <4>1, TransitionIsVisible DEF Terminal
      <4>3. RevisionStep(g) /\ TaskStep(g)
        BY <3>2, <4>1, <4>2 DEF RevisionStep, TaskStep, KeepsTask
      <4>4. QED
        BY <3>2, <4>1, <4>3
           DEF MovesSoundly, Absent, AbsentRow, Delivered, Superseded
    <3>3. QED
      BY <2>2, <3>1, <3>2 DEF OtherHandoff
  <2>6. AbsentHasNoRevision'
    BY <1>1, <2>3, <2>5 DEF AbsentHasNoRevision, MovesSoundly, RevisionStep
  <2>7. QED
    BY <2>4, <2>5, <2>6
<1>4. QED
  BY <1>2, <1>3, StepCases

LEMMA RevisionInvariance == Spec => []AbsentHasNoRevision
<1>1. Init => AbsentHasNoRevision
  BY DEF Init, AbsentHasNoRevision
<1>2. IInv /\ AbsentHasNoRevision /\ [Next]_vars => AbsentHasNoRevision'
  BY StepRevisions
<1>3. QED
  BY <1>1, <1>2, Invariance, PTL DEF Spec

\* A handoff that was delivered, completed, rejected or superseded never moves
\* again, whatever a wrapper with an old context, the owner or the user does; its
\* task, and any task an operator has taken over, is left to the operator.
THEOREM TerminalIsFinal == Spec => TerminalStaysTerminal
<1>1. IInv /\ AbsentHasNoRevision /\ [Next]_vars =>
        [\A h \in HandoffId :
           /\ Terminal(rows[h]) =>
                 Linked(rows'[h]) = Linked(rows[h]) /\ revision'[h] = revision[h]
           /\ (Terminal(rows[h]) \/ rows[h].taskBy = "operator")
              /\ rows'[h].task # rows[h].task => ByOperator(h)]_vars
  BY StepRevisions DEF MovesSoundly, RevisionStep, TaskStep
<1>2. QED
  BY <1>1, Invariance, RevisionInvariance, PTL DEF Spec, TerminalStaysTerminal

\* Each transition of an approval adds exactly one to its revision, nothing else
\* moves it, and a task moves without it only by an operator's hand.
THEOREM RevisionCounts == Spec => RevisionMovesWithEveryTransition
<1>1. IInv /\ AbsentHasNoRevision /\ [Next]_vars =>
        [\A h \in HandoffId :
           /\ revision'[h] = IF Linked(rows'[h]) = Linked(rows[h])
                               THEN revision[h] ELSE revision[h] + 1
           /\ rows'[h].task # rows[h].task =>
                 revision'[h] = revision[h] + 1 \/ ByOperator(h)]_vars
  BY StepRevisions DEF MovesSoundly, RevisionStep, TaskStep
<1>2. QED
  BY <1>1, Invariance, RevisionInvariance, PTL DEF Spec, RevisionMovesWithEveryTransition

\* What a surface read was consistent, and while its revision is current no
\* operator's update of the task has been undone since.
SeenSoundly(x) ==
    /\ Consistent(x.row)
    /\ x.revision <= revision[x.id]
    /\ x.revision = revision[x.id] =>
          /\ Linked(x.row) = Linked(rows[x.id])
          /\ x.row.taskBy = "operator" => rows[x.id].taskBy = "operator"

SeenInv == \A s \in Surface : seen[s] # None => SeenSoundly(seen[s])

LEMMA SeenStep ==
    ASSUME IInv, AbsentHasNoRevision, [Next]_vars, SeenInv
    PROVE  SeenInv'
<1>1. \A h \in HandoffId :
        /\ RevisionStep(h) /\ TaskStep(h) /\ revision[h] \in Nat
        /\ rows[h] \in Row /\ Consistent(rows[h])
  BY StepRevisions DEF IInv, TypeOK, LinkedRowsAgree, MovesSoundly
<1>2. \A s \in Surface :
        \/ seen'[s] = seen[s]
        \/ \E h \in HandoffId : /\ seen'[s].id = h /\ seen'[s].row = rows[h]
                                /\ seen'[s].revision = revision[h]
                                /\ UNCHANGED <<rows, revision>>
  <2>1. ASSUME NEW h \in HandoffId, NEW t \in Surface, ReadApproval(h, t)
        PROVE  \A s \in Surface :
          \/ seen'[s] = seen[s]
          \/ /\ seen'[s].id = h /\ seen'[s].row = rows[h]
             /\ seen'[s].revision = revision[h]
             /\ UNCHANGED <<rows, revision>>
    BY <2>1 DEF ReadApproval, IInv, TypeOK
  <2>2. ASSUME seen' = seen PROVE \A s \in Surface : seen'[s] = seen[s]
    BY <2>2
  <2>3. \/ seen' = seen
        \/ \E h \in HandoffId, t \in Surface : ReadApproval(h, t)
    BY WrapperEffect
       DEF Next, HandoffStep, CreateHandoff, OwnerApprove, OwnerReject, UserComplete,
           UserRemove, TaskUpdate, RegisterProject, vars
  <2>4. QED
    BY <2>1, <2>2, <2>3
<1>3. SUFFICES ASSUME NEW s \in Surface, seen'[s] # None
               PROVE  SeenSoundly(seen[s])'
  BY DEF SeenInv
<1>4. CASE seen'[s] = seen[s]
  <2>1. /\ seen[s].id \in HandoffId /\ seen[s].revision \in Nat
        /\ seen[s].row \in Row /\ SeenSoundly(seen[s])
    BY <1>3, <1>4 DEF IInv, TypeOK, SeenInv
  <2>2. QED
    BY <1>1, <1>4, <2>1 DEF SeenSoundly, RevisionStep, TaskStep
<1>5. CASE \E h \in HandoffId : /\ seen'[s].id = h /\ seen'[s].row = rows[h]
                                /\ seen'[s].revision = revision[h]
                                /\ UNCHANGED <<rows, revision>>
  BY <1>1, <1>5 DEF SeenSoundly
<1>6. QED
  BY <1>2, <1>4, <1>5

\* A surface whose expected revision is still current decides on the state it
\* read: nothing the revision vouches for has changed since, and neither has the
\* task if the decision can still be taken.
THEOREM ExpectedRevisionIsSound == Spec => []CurrentRevisionMeansCurrentState
<1>1. Init => SeenInv
  BY DEF Init, SeenInv
<1>2. IInv /\ AbsentHasNoRevision /\ [Next]_vars /\ SeenInv => SeenInv'
  BY SeenStep
<1>3. ASSUME IInv, SeenInv PROVE CurrentRevisionMeansCurrentState
  <2> SUFFICES ASSUME NEW s \in Surface, seen[s] # None
               PROVE  LET now == rows[seen[s].id] IN
                      /\ seen[s].revision <= revision[seen[s].id]
                      /\ seen[s].revision = revision[seen[s].id] =>
                            /\ Linked(seen[s].row) = Linked(now)
                            /\ Resolvable(now) => seen[s].row.task = now.task
    BY DEF CurrentRevisionMeansCurrentState
  <2> DEFINE now == rows[seen[s].id]
             then == seen[s].row
  <2>1. SeenSoundly(seen[s]) /\ then \in Row /\ now \in Row /\ Consistent(now)
    BY <1>3 DEF SeenInv, IInv, TypeOK, LinkedRowsAgree
  <2>2. ASSUME Linked(then) = Linked(now), Resolvable(now),
               then.taskBy = "operator" => now.taskBy = "operator"
        PROVE  then.task = now.task
    <3>1. now.taskBy = "workflow" /\ now.approval = "pending" /\ now.task = "awaiting_approval"
      BY <2>1, <2>2, DeliverableShape DEF Resolvable
    <3>2. then.taskBy = "workflow" /\ then.approval = "pending"
      BY <2>1, <2>2, <3>1 DEF Linked, Row
    <3>3. Pending(then)
      BY <2>1, <3>2 DEF SeenSoundly, Consistent, Absent, AbsentRow, Consented, Terminal,
                        Delivered, Completed, Rejected, Superseded
    <3>4. QED
      BY <3>1, <3>2, <3>3 DEF Pending
  <2>3. QED
    BY <2>1, <2>2 DEF SeenSoundly
<1>4. QED
  BY <1>1, <1>2, <1>3, Invariance, RevisionInvariance, PTL DEF Spec

=============================================================================
