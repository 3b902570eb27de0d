------------------------- MODULE HandoffRefinement -------------------------
(***************************************************************************)
(* The handoff tables implement the one-slot mailbox of HandoffMailbox,    *)
(* for any sets of agents, directories, handoffs and wrappers.             *)
(***************************************************************************)
EXTENDS HandoffProofs

\* The fate the mailbox assigns to each shape of the linked rows.
LEMMA FateOfShape ==
    ASSUME NEW r \in Row, Consistent(r)
    PROVE  /\ Absent(r) => FateOf(r) = "unsent"
           /\ Pending(r) => FateOf(r) = "waiting"
           /\ Consented(r) => FateOf(r) = "consented"
           /\ Delivered(r) => FateOf(r) = "delivered"
           /\ Completed(r) => FateOf(r) = "completed"
           /\ Rejected(r) => FateOf(r) = "rejected"
           /\ Superseded(r) => FateOf(r) = "displaced"
<1>1. Delivered(r) => r.resolvedBy \notin {Owner, LocalUser}
  <2>1. Delivered(r) => r.to \in Agent
    BY DEF Consistent, Row, Delivered, Absent, AbsentRow
  <2>2. QED
    BY <2>1, PrincipalsDistinct DEF Delivered
<1>2. QED
  BY <1>1, PrincipalsDistinct
     DEF FateOf, Absent, AbsentRow, Pending, Consented, Delivered, Completed,
         Rejected, Superseded

\* An open handoff, and only that, occupies a slot.
LEMMA OccupiesSlot ==
    ASSUME NEW r \in Row, Consistent(r)
    PROVE  Open(r) <=> FateOf(r) \in {"waiting", "consented"}
<1>1. Absent(r) \/ Pending(r) \/ Consented(r) \/ Delivered(r) \/ Completed(r)
        \/ Rejected(r) \/ Superseded(r)
  BY DEF Consistent, Terminal
<1>2. QED
  BY <1>1, FateOfShape, DeliverableShape DEF Terminal, Open

LEMMA InitRefines == Init => Mailbox!Init
  BY DEF Init, Mailbox!Init, mailFate, mailAddr, FateOf, AbsentRow

\* A row step is a mailbox move of the one handoff it moves, or no move at all.
LEMMA RowStepsRefine ==
    ASSUME IInv, RowSteps
    PROVE  Mailbox!Next \/ UNCHANGED <<mailFate, mailAddr>>
<1>1. /\ rows \in [HandoffId -> Row] /\ rows' \in [HandoffId -> Row]
      /\ \A g \in HandoffId : Consistent(rows[g])
  BY DEF IInv, TypeOK, LinkedRowsAgree, RowSteps
<1>2. CASE rows' = rows
  BY <1>2 DEF mailFate, mailAddr
<1>3. ASSUME NEW h \in HandoffId, \A g \in HandoffId \ {h} : rows'[g] = rows[g]
      PROVE  Mailbox!Next \/ UNCHANGED <<mailFate, mailAddr>>
  <2> DEFINE r == rows[h]
             s == rows'[h]
  <2>1. r \in Row /\ s \in Row /\ Consistent(r)
    BY <1>1
  <2>2. CASE s = r
    <3>1. rows' = rows
      BY <1>1, <1>3, <2>2
    <3>2. QED
      BY <1>2, <3>1
  <2>3. CASE ~Absent(r) /\ RowStep(r, s)
    <3>1. /\ Consistent(s) /\ SameAddress(r, s) /\ s.approval # "absent"
          /\ r.approval # "absent"
      BY <2>1, <2>3, RowStepFacts, DeliverableShape
    <3>2. UNCHANGED mailAddr
      BY <1>3, <3>1 DEF mailAddr, AddressOf, SameAddress
    <3>3. mailFate' = [mailFate EXCEPT ![h] = FateOf(s)]
      BY <1>3 DEF mailFate
    <3>4. mailFate[h] = FateOf(r)
      BY DEF mailFate
    <3>5. CASE Linked(s) = Linked(r)
      <4>1. FateOf(s) = FateOf(r)
        BY <3>5 DEF FateOf, Linked
      <4>2. mailFate' = mailFate
        BY <3>3, <3>4, <4>1 DEF mailFate
      <4>3. QED
        BY <3>2, <4>2
    <3>6. CASE Pending(r) /\ (Consented(s) \/ Delivered(s) \/ Completed(s) \/ Rejected(s))
      <4>1. /\ FateOf(r) = "waiting"
            /\ FateOf(s) \in {"consented", "delivered", "completed", "rejected"}
        BY <2>1, <3>1, <3>6, FateOfShape
      <4>2. Mailbox!Consent(h) \/ Mailbox!Deliver(h) \/ Mailbox!Complete(h) \/ Mailbox!Reject(h)
        BY <3>2, <3>3, <3>4, <4>1
           DEF Mailbox!Consent, Mailbox!Deliver, Mailbox!Complete, Mailbox!Reject,
               Mailbox!Move, Mailbox!Occupying
      <4>3. h \in Mailbox!Waiting
        BY <3>4, <4>1 DEF Mailbox!Waiting, Mailbox!Occupying
      <4>4. QED
        BY <4>2, <4>3 DEF Mailbox!Next
    <3>7. CASE Consented(r) /\ Delivered(s)
      <4>1. FateOf(r) = "consented" /\ FateOf(s) = "delivered"
        BY <2>1, <3>1, <3>7, FateOfShape
      <4>2. Mailbox!Deliver(h)
        BY <3>2, <3>3, <3>4, <4>1 DEF Mailbox!Deliver, Mailbox!Move, Mailbox!Occupying
      <4>3. h \in Mailbox!Waiting
        BY <3>4, <4>1 DEF Mailbox!Waiting, Mailbox!Occupying
      <4>4. QED
        BY <4>2, <4>3 DEF Mailbox!Next
    <3>8. (\E status \in Override : s = Overruled(r, status)) => Linked(s) = Linked(r)
      BY <2>1, <2>3, OverruledRow
    <3>9. QED
      BY <2>2, <2>3, <3>5, <3>6, <3>7, <3>8 DEF RowStep, WorkflowStep
  <2>4. QED
    BY <2>2, <2>3 DEF RowSteps
<1>4. QED
  BY <1>2, <1>3 DEF RowSteps

\* A handoff in the scope of a new one is exactly one at the same address.
LEMMA ScopeIsAddress ==
    ASSUME IInv, NEW g \in HandoffId, NEW path \in Path, NEW to \in Agent,
           Open(rows[g])
    PROVE  LET pid == ProjectIdForFilePath(path)
           IN  InScope(rows[g], pid, path, to)
                 <=> AddressOf(rows[g]) = AddressOf(NewRow(pid, path, to))
<1> DEFINE pid == ProjectIdForFilePath(path)
           r == rows[g]
           n == NewRow(pid, path, to)
<1>1. \/ pid = None /\ registered \cap PrefixOf[path] = {}
      \/ pid # None
  BY ProjectIdFacts DEF IInv, TypeOK
<1>2. r.pid # None => r.pid \in registered \cap PrefixOf[r.path]
  BY DEF IInv, ScopeSound
<1>3. n.pid = pid /\ n.path = path /\ n.to = to
  BY DEF NewRow
<1>4. CASE pid = None
  BY <1>1, <1>2, <1>3, <1>4 DEF InScope, AddressOf
<1>5. CASE pid # None
  BY <1>1, <1>3, <1>5 DEF InScope, AddressOf
<1>6. QED
  BY <1>4, <1>5

\* Creating a handoff posts it, answering the acknowledged one.
LEMMA CreateRefines ==
    ASSUME IInv, NEW h \in HandoffId, NEW from \in Agent, NEW to \in Agent,
           NEW path \in Path, NEW status \in {"success", "blocker"},
           CreateHandoff(h, from, to, path, status)
    PROVE  Mailbox!Next
<1> DEFINE pid == ProjectIdForFilePath(path)
           n == NewRow(pid, path, to)
           a == AddressOf(n)
<1>1. /\ RowsInv /\ registered \subseteq Path /\ revision \in [HandoffId -> Nat]
      /\ rows \in [HandoffId -> Row]
      /\ \A g \in HandoffId : Consistent(rows[g])
  BY DEF IInv, TypeOK, RowsInv, LinkedRowsAgree
<1>2. /\ rows' \in [HandoffId -> Row] /\ Absent(rows[h]) /\ rows'[h] = n
      /\ OtherHandoffs(h, pid, path, to)
  BY <1>1, CreateEffect
<1>3. PICK acked \in SUBSET (HandoffId \ {h}) :
        \A g \in HandoffId \ {h} : OtherHandoff(g, acked, pid, path, to)
  BY <1>2 DEF OtherHandoffs
<1>4. \A g \in HandoffId : Consistent(rows'[g])
  BY CreatePreserves DEF RowsInv, LinkedRowsAgree
<1>5. pid = None \/ pid \in Path
  BY <1>1, ProjectIdFacts
<1>6. a \in {"project", "directory"} \X Path \X Agent
  BY <1>5 DEF AddressOf, NewRow
<1>7. mailFate[h] = "unsent" /\ FateOf(n) = "waiting" /\ n.approval = "pending"
  BY <1>2 DEF mailFate, FateOf, Absent, AbsentRow, NewRow
<1>8. h \in Mailbox!Unsent /\ acked \in SUBSET Mailbox!Waiting
  <2>1. SUFFICES ASSUME NEW g \in acked PROVE mailFate[g] \in {"waiting", "consented"}
    BY <1>3, <1>7 DEF Mailbox!Occupying, Mailbox!Unsent, Mailbox!Waiting
  <2>2. g \in HandoffId \ {h} /\ Open(rows[g])
    BY <1>3 DEF OtherHandoff
  <2>3. QED
    BY <1>1, <2>2, OccupiesSlot DEF mailFate
<1>9. mailAddr' = [mailAddr EXCEPT ![h] = a]
  <2>1. ASSUME NEW g \in HandoffId \ {h} PROVE mailAddr'[g] = mailAddr[g]
    <3>1. CASE rows'[g] = rows[g]
      BY <3>1 DEF mailAddr
    <3>2. CASE /\ Open(rows[g]) /\ SameAddress(rows[g], rows'[g])
               /\ Delivered(rows'[g]) \/ Superseded(rows'[g])
      BY <3>2 DEF mailAddr, AddressOf, SameAddress, Open, Pending, Consented, Delivered, Superseded
    <3>3. QED
      BY <1>3, <3>1, <3>2 DEF OtherHandoff
  <2>2. mailAddr'[h] = a
    BY <1>2, <1>7 DEF mailAddr
  <2>3. QED
    BY <2>1, <2>2 DEF mailAddr
<1>10. mailFate' = [m \in HandoffId |->
         CASE m = h -> "waiting"
           [] m # h /\ m \in acked -> "delivered"
           [] m # h /\ m \notin acked /\ mailAddr[m] = a
                /\ mailFate[m] \in Mailbox!Occupying -> "displaced"
           [] OTHER -> mailFate[m]]
  <2>1. ASSUME NEW g \in HandoffId
        PROVE  FateOf(rows'[g]) =
                 CASE g = h -> "waiting"
                   [] g # h /\ g \in acked -> "delivered"
                   [] g # h /\ g \notin acked /\ mailAddr[g] = a
                        /\ mailFate[g] \in Mailbox!Occupying -> "displaced"
                   [] OTHER -> mailFate[g]
    <3>1. CASE g = h
      BY <1>2, <1>7, <3>1
    <3>2. CASE g # h /\ g \in acked
      <4>1. Delivered(rows'[g])
        BY <1>3, <3>2 DEF OtherHandoff
      <4>2. FateOf(rows'[g]) = "delivered"
        BY <1>2, <1>4, <4>1, FateOfShape
      <4>3. QED
        BY <3>2, <4>2
    <3>3. CASE g # h /\ g \notin acked
      <4>1. Open(rows[g]) <=> mailFate[g] \in Mailbox!Occupying
        BY <1>1, OccupiesSlot DEF mailFate, Mailbox!Occupying
      <4>2. Open(rows[g]) => (InScope(rows[g], pid, path, to) <=> mailAddr[g] = a)
        BY ScopeIsAddress DEF mailAddr, Open, Pending, Consented
      <4>3. CASE Open(rows[g]) /\ InScope(rows[g], pid, path, to)
        <5>1. Superseded(rows'[g])
          BY <1>3, <3>3, <4>3 DEF OtherHandoff
        <5>2. FateOf(rows'[g]) = "displaced"
          BY <1>2, <1>4, <5>1, FateOfShape
        <5>3. QED
          BY <3>3, <4>1, <4>2, <4>3, <5>2
      <4>4. CASE ~(Open(rows[g]) /\ InScope(rows[g], pid, path, to))
        <5>1. rows'[g] = rows[g]
          BY <1>3, <3>3, <4>4 DEF OtherHandoff
        <5>2. FateOf(rows'[g]) = mailFate[g]
          BY <5>1 DEF mailFate
        <5>3. QED
          BY <3>3, <4>1, <4>2, <4>4, <5>2
      <4>5. QED
        BY <4>3, <4>4
    <3>4. QED
      BY <3>1, <3>2, <3>3
  <2>2. mailFate' = [g \in HandoffId |-> FateOf(rows'[g])]
    BY DEF mailFate
  <2>3. QED
    BY <2>1, <2>2
<1>11. Mailbox!Post(h, a, acked)
  BY <1>9, <1>10 DEF Mailbox!Post
<1>12. QED
  BY <1>6, <1>8, <1>11 DEF Mailbox!Next

\* The handoff tables, with every surface, wrapper, crash and registration,
\* implement the one-slot mailbox.
THEOREM TablesImplementMailbox == Spec => RefinesMailbox
<1>1. IInv /\ [Next]_vars => [Mailbox!Next]_(Mailbox!vars)
  <2> SUFFICES ASSUME IInv, [Next]_vars PROVE Mailbox!Next \/ UNCHANGED <<mailFate, mailAddr>>
    BY DEF Mailbox!vars
  <2>1. CASE RowSteps
    BY <2>1, RowStepsRefine
  <2>2. ASSUME NEW h \in HandoffId, NEW from \in Agent, NEW to \in Agent, NEW p \in Path,
               NEW status \in {"success", "blocker"}, CreateHandoff(h, from, to, p, status)
        PROVE  Mailbox!Next
    BY <2>2, CreateRefines
  <2>3. QED
    BY <2>1, <2>2, StepCases
<1>2. QED
  BY <1>1, InitRefines, Invariance, PTL DEF Spec, RefinesMailbox, Mailbox!Spec

=============================================================================
