------------------------- MODULE FileApprovalProofs -------------------------
(***************************************************************************)
(* The safety of file approvals, for every set of changes and every number *)
(* of failed calls, restarts and overrides by the operator.                *)
(***************************************************************************)
EXTENDS FileApproval, TLAPS

USE FileApprovalAssumption

Rows == [Change -> [Row -> RowStatus]]

(* One row of one change is set, and no other.                             *)
Only(c, r, s) ==
    /\ row' \in Rows
    /\ row'[c][r] = s
    /\ \A d \in Change, q \in Row : (d # c \/ q # r) => row'[d][q] = row[d][q]

LEMMA OneRow ==
    ASSUME row \in Rows, NEW c \in Change, NEW r \in Row, NEW s \in RowStatus,
           row' = [row EXCEPT ![c][r] = s]
    PROVE  Only(c, r, s)
<1> DEFINE mine == [row[c] EXCEPT ![r] = s]
<1>1. row[c] \in [Row -> RowStatus]
  BY DEF Rows
<1>2. mine \in [Row -> RowStatus] /\ mine[r] = s /\ \A q \in Row \ {r} : mine[q] = row[c][q]
  BY <1>1
<1>3. row' = [row EXCEPT ![c] = mine]
  OBVIOUS
<1> HIDE DEF mine
<1> QED
  BY <1>1, <1>2, <1>3 DEF Only, Rows

(* A handler that inserts is at one of four statements.                    *)
Inserts(c) ==
    \/ request[c] = 1 /\ Only(c, "task", "awaiting_approval")
    \/ request[c] = 2 /\ Only(c, "run", "awaiting_approval")
    \/ request[c] = 3 /\ Only(c, "artifact", "submitted")
    \/ request[c] = 4 /\ Only(c, "approval", "pending")

LEMMA InsertFacts ==
    ASSUME TypeOK, NEW c \in Change, NEW ok \in BOOLEAN, Insert(c, ok)
    PROVE  /\ up /\ request[c] \in 1 .. 4
           /\ \/ Inserts(c) /\ request' = [request EXCEPT ![c] = @ + 1] /\ UNCHANGED faults
              \/ row' = row /\ request' = [request EXCEPT ![c] = RereadStmt] /\ faults' = faults + 1
           /\ UNCHANGED <<listed, up, decisionVars, disk, byHand, crashes, overrides>>
<1>0. row \in Rows
  BY DEF TypeOK, Rows
<1>1. CASE ok = FALSE
  BY <1>1 DEF Insert, Outcome
<1>2. CASE ok = TRUE
  <2>1. /\ up /\ request[c] \in 1 .. 4
        /\ row' = [row EXCEPT ![c][InsertOrder[request[c]]] = Filed[InsertOrder[request[c]]]]
        /\ request' = [request EXCEPT ![c] = @ + 1] /\ UNCHANGED faults
        /\ UNCHANGED <<listed, up, decisionVars, disk, byHand, crashes, overrides>>
    BY <1>2 DEF Insert, Outcome
  <2>2. /\ InsertOrder[1] = "task" /\ InsertOrder[2] = "run"
        /\ InsertOrder[3] = "artifact" /\ InsertOrder[4] = "approval"
        /\ Filed["task"] = "awaiting_approval" /\ Filed["run"] = "awaiting_approval"
        /\ Filed["artifact"] = "submitted" /\ Filed["approval"] = "pending"
    BY DEF InsertOrder, Filed
  <2>3. /\ InsertOrder[request[c]] \in Row
        /\ Filed[InsertOrder[request[c]]] \in RowStatus
    BY <2>1, <2>2 DEF Row, RowStatus
  <2>4. Only(c, InsertOrder[request[c]], Filed[InsertOrder[request[c]]])
    BY <1>0, <2>1, <2>3, OneRow
  <2>5. Inserts(c)
    BY <2>1, <2>2, <2>4 DEF Inserts
  <2> QED
    BY <2>1, <2>5
<1> QED
  BY <1>1, <1>2

(* A decision that records its outcome is at one of four statements.       *)
Outcomes == DOMAIN Marks

LEMMA OutcomesAre == Outcomes = {"applied", "rejected", "apply_failed"}
BY DEF Outcomes, Marks

LEMMA MarksAre ==
    ASSUME NEW v \in Outcomes
    PROVE  /\ Marks[v] \in {Applied, Rejected, ApplyFailed}
           /\ \A r \in Row : Marks[v][r] \in RowStatus
           /\ Marks[v]["approval"] \in {"approved", "rejected"}
           /\ Marks[v]["artifact"] \in {"applied", "rejected"}
           /\ Marks[v]["artifact"] = "applied" => v = "applied" /\ Marks[v]["approval"] = "approved"
<1> USE DEF Marks, Applied, Rejected, ApplyFailed, Row, RowStatus
<1>1. CASE v = "applied"
  BY <1>1
<1>2. CASE v = "rejected"
  BY <1>2
<1>3. CASE v = "apply_failed"
  BY <1>3
<1> HIDE DEF Marks, Applied, Rejected, ApplyFailed, Row, RowStatus
<1> QED
  BY <1>1, <1>2, <1>3, OutcomesAre

Records ==
    \/ stmt = 1 /\ Only(deciding, "approval", Marks[verdict]["approval"])
    \/ stmt = 2 /\ Only(deciding, "artifact", Marks[verdict]["artifact"])
    \/ stmt = 3 /\ Only(deciding, "run", Marks[verdict]["run"])
    \/ stmt = 4 /\ Only(deciding, "task", Marks[verdict]["task"])

LEMMA MarkFacts ==
    ASSUME TypeOK, deciding \in Change, NEW ok \in BOOLEAN, Mark(ok)
    PROVE  /\ verdict \in Outcomes /\ stmt \in 1 .. 4
           /\ \/ Records /\ stmt' = stmt + 1
              \/ row' = row /\ stmt' = RereadStmt
           /\ faults' \in Nat
           /\ UNCHANGED <<request, listed, up, deciding, verdict, disk, byHand, crashes, overrides>>
<1>0. row \in Rows /\ stmt \in 1 .. RereadStmt /\ faults \in Nat
  BY DEF TypeOK, Rows
<1>1. /\ verdict \in Outcomes /\ stmt \in 1 .. 4 /\ faults' \in Nat
      /\ UNCHANGED <<request, listed, up, deciding, verdict, disk, byHand, crashes, overrides>>
  BY <1>0 DEF Mark, Outcome, Outcomes, RereadStmt
<1>2. CASE row' = row /\ stmt' = RereadStmt
  BY <1>1, <1>2
<1>3. CASE /\ row' = [row EXCEPT ![deciding][MarkOrder[stmt]] = Marks[verdict][MarkOrder[stmt]]]
           /\ stmt' = stmt + 1
  <2>0. \A r \in Row : Marks[verdict][r] \in RowStatus
    BY <1>1, MarksAre
  <2>1. /\ MarkOrder[1] = "approval" /\ MarkOrder[2] = "artifact"
        /\ MarkOrder[3] = "run" /\ MarkOrder[4] = "task"
    BY DEF MarkOrder
  <2>2. MarkOrder[stmt] \in Row
    BY <1>1, <2>1 DEF Row
  <2>3. Only(deciding, MarkOrder[stmt], Marks[verdict][MarkOrder[stmt]])
    BY <1>0, <1>3, <2>0, <2>2, OneRow
  <2>4. Records
    BY <1>1, <2>1, <2>3 DEF Records
  <2> QED
    BY <1>1, <1>3, <2>4
<1>4. \/ row' = row /\ stmt' = RereadStmt
      \/ /\ row' = [row EXCEPT ![deciding][MarkOrder[stmt]] = Marks[verdict][MarkOrder[stmt]]]
         /\ stmt' = stmt + 1
  BY DEF Mark
<1> QED
  BY <1>2, <1>3, <1>4

LEMMA OverrideFacts ==
    ASSUME TypeOK, NEW c \in Change, NEW s \in OperatorStatus, TaskUpdate(c, s)
    PROVE  /\ row[c]["task"] # "none" /\ Only(c, "task", s) /\ s # "none"
           /\ byHand' = byHand \cup {c} /\ overrides' \in Nat
           /\ UNCHANGED <<request, listed, up, decisionVars, disk, faults, crashes>>
<1>1. row \in Rows /\ row' = [row EXCEPT ![c]["task"] = s] /\ s \in RowStatus /\ s # "none"
  BY DEF TypeOK, Rows, TaskUpdate, OperatorStatus, RowStatus
<1>2. Only(c, "task", s)
  BY <1>1, OneRow DEF Row
<1> QED
  BY <1>1, <1>2 DEF TaskUpdate, TypeOK

-----------------------------------------------------------------------------
(* The inductive invariant.                                                *)

Fresh(c) == row[c]["task"] # "none" /\ (c \notin byHand => row[c]["task"] = "awaiting_approval")

\* What a request has inserted so far.
InsertedSoFar(c) ==
    /\ request[c] <= 1 => row[c]["task"] = "none"
    /\ request[c] <= 2 => row[c]["run"] = "none"
    /\ request[c] <= 3 => row[c]["artifact"] = "none"
    /\ request[c] <= 4 => row[c]["approval"] = "none"
    /\ request[c] \in 2 .. 4 => Fresh(c)
    /\ request[c] \in 3 .. 4 => row[c]["run"] = "awaiting_approval"
    /\ request[c] = 4 => row[c]["artifact"] = "submitted"

\* Nothing of a change moves before its approval does.
NotDecided(c) ==
    /\ row[c]["approval"] = "pending" =>
         /\ Fresh(c) /\ row[c]["run"] = "awaiting_approval" /\ row[c]["artifact"] = "submitted"
    /\ row[c]["approval"] = "none" =>
         /\ row[c]["artifact"] # "applied"
         /\ c \notin byHand => row[c]["task"] \in {"none", "awaiting_approval"}

OneOutcome(c) ==
    c \notin byHand /\ row[c]["task"] \in {"completed", "failed"} =>
        \E v \in Outcomes : \A r \in Row : row[c][r] = Marks[v][r]

LockInv ==
    /\ deciding = None <=> verdict = "none"
    /\ verdict \in {"none", "approve", "write"} => stmt = 1
    /\ ~up => deciding = None
    /\ listed \subseteq Pending /\ deciding \notin listed
    /\ verdict = "applied" => disk[deciding] = "new"

\* What the decision under the lock has recorded so far.
RecordedSoFar ==
    deciding # None =>
        /\ stmt = 1 => deciding \in Pending
        /\ stmt \in 2 .. 4 => /\ verdict \in Outcomes
                             /\ row[deciding]["approval"] = Marks[verdict]["approval"]
                             /\ Fresh(deciding)
        /\ stmt = 2 => row[deciding]["artifact"] = "submitted"
        /\ stmt \in 3 .. 4 => row[deciding]["artifact"] = Marks[verdict]["artifact"]
        /\ stmt = 4 => row[deciding]["run"] = Marks[verdict]["run"]

FileInv ==
    /\ TypeOK /\ AppliedIsOnDisk /\ LockInv /\ RecordedSoFar
    /\ \A c \in Change : InsertedSoFar(c) /\ NotDecided(c) /\ OneOutcome(c)

LEMMA InvInit == Init => FileInv
BY DEF Init, FileInv, TypeOK, AppliedIsOnDisk, LockInv, RecordedSoFar, InsertedSoFar,
       NotDecided, OneOutcome, Fresh, Pending, Row, RowStatus, RereadStmt, Done

LEMMA TypeStep == FileInv /\ [Next]_vars => TypeOK'
<1> SUFFICES ASSUME FileInv, [Next]_vars PROVE TypeOK'
    OBVIOUS
<1>0. TypeOK /\ (verdict # "none" => deciding \in Change)
  BY DEF FileInv, LockInv, TypeOK
<1> USE <1>0 DEF TypeOK, upsetVars, decisionVars, RereadStmt, Done
<1>1. CASE UNCHANGED vars
  BY <1>1 DEF vars
<1>2. ASSUME NEW c \in Change, Ask(c) PROVE TypeOK'
  BY <1>2 DEF Ask
<1>3. ASSUME NEW c \in Change, NEW ok \in BOOLEAN, Insert(c, ok) PROVE TypeOK'
  <2>1. /\ request[c] \in 1 .. 4 /\ row' \in Rows /\ faults' \in Nat
        /\ request' = [request EXCEPT ![c] = @ + 1] \/ request' = [request EXCEPT ![c] = RereadStmt]
        /\ UNCHANGED <<listed, up, decisionVars, disk, byHand, crashes, overrides>>
    BY <1>3, InsertFacts DEF Inserts, Only, Rows
  <2> QED
    BY <2>1 DEF Rows
<1>4. ASSUME NEW c \in Change, NEW ok \in BOOLEAN, Answer(c, ok) PROVE TypeOK'
  BY <1>4 DEF Answer, Outcome, Reread, Pending
<1>5. ASSUME NEW c \in Change, NEW approved \in BOOLEAN, Decide(c, approved) PROVE TypeOK'
  BY <1>5 DEF Decide
<1>6. CASE Refuse
  BY <1>6 DEF Refuse
<1>7. CASE Truncate
  BY <1>7 DEF Truncate
<1>8. ASSUME NEW ok \in BOOLEAN, Write(ok) PROVE TypeOK'
  BY <1>8 DEF Write, Outcome
<1>9. ASSUME NEW ok \in BOOLEAN, Mark(ok) PROVE TypeOK'
  <2>0. deciding \in Change
    BY <1>9 DEF Mark, Marks
  <2>1. /\ stmt \in 1 .. 4 /\ row' \in Rows /\ faults' \in Nat
        /\ stmt' = stmt + 1 \/ stmt' = RereadStmt
        /\ UNCHANGED <<request, listed, up, deciding, verdict, disk, byHand, crashes, overrides>>
    BY <1>9, <2>0, MarkFacts DEF Records, Only, Rows
  <2> QED
    BY <2>1 DEF Rows
<1>10. ASSUME NEW ok \in BOOLEAN, Conclude(ok) PROVE TypeOK'
  BY <1>10 DEF Conclude, Outcome, Reread, Pending
<1>11. CASE Crash
  <2>1. request' \in [Change -> 0 .. Done]
    BY <1>11 DEF Crash
  <2>2. /\ up' = FALSE /\ listed' = {} /\ deciding' = None /\ verdict' = "none" /\ stmt' = 1
        /\ crashes' = crashes + 1 /\ UNCHANGED <<row, disk, byHand, faults, overrides>>
    BY <1>11 DEF Crash
  <2>3. /\ row' \in [Change -> [Row -> RowStatus]] /\ disk' \in [Change -> {"before", "torn", "new"}]
        /\ byHand' \subseteq Change /\ faults' \in Nat /\ overrides' \in Nat
    BY <2>2
  <2>u. up' \in BOOLEAN
    BY <2>2, Zenon
  <2>4. /\ listed' \subseteq Change /\ deciding' \in Change \cup {None}
        /\ verdict' = "none" /\ stmt' \in 1 .. RereadStmt /\ crashes' \in Nat
    BY <2>2
  <2> QED
    BY <2>1, <2>3, <2>u, <2>4
<1>12. ASSUME NEW ok \in BOOLEAN, Restart(ok) PROVE TypeOK'
  BY <1>12 DEF Restart, Outcome, Reread, Pending
<1>13. ASSUME NEW c \in Change, NEW s \in OperatorStatus, TaskUpdate(c, s) PROVE TypeOK'
  <2>1. /\ row' \in Rows /\ byHand' = byHand \cup {c} /\ overrides' \in Nat
        /\ UNCHANGED <<request, listed, up, decisionVars, disk, faults, crashes>>
    BY <1>13, OverrideFacts DEF Only
  <2> QED
    BY <2>1 DEF Rows
<1> HIDE DEF TypeOK, upsetVars, decisionVars, RereadStmt, Done
<1> QED
  BY <1>1, <1>2, <1>3, <1>4, <1>5, <1>6, <1>7, <1>8, <1>9, <1>10, <1>11, <1>12, <1>13
     DEF Next, Request, Decision

(* A step that leaves the rows and the requests alone keeps what depends   *)
(* on them only.                                                           *)
LEMMA RowsUntouched ==
    ASSUME FileInv, UNCHANGED <<row, byHand>>, NEW c \in Change,
           request'[c] = request[c] \/ request'[c] \in 5 .. 6 \/ (request[c] = 0 /\ request'[c] = 1)
    PROVE  InsertedSoFar(c)' /\ NotDecided(c)' /\ OneOutcome(c)'
<1>1. InsertedSoFar(c) /\ NotDecided(c) /\ OneOutcome(c) /\ request[c] \in Nat
  BY DEF FileInv, TypeOK, Done
<1>2. NotDecided(c)' /\ OneOutcome(c)'
  BY <1>1 DEF NotDecided, OneOutcome, Fresh
<1>3. InsertedSoFar(c)'
  <2>1. CASE request'[c] = request[c]
    BY <1>1, <2>1 DEF InsertedSoFar, Fresh
  <2>2. CASE request'[c] \in 5 .. 6
    BY <2>2 DEF InsertedSoFar
  <2>3. CASE request[c] = 0 /\ request'[c] = 1
    BY <1>1, <2>3 DEF InsertedSoFar
  <2> QED
    BY <2>1, <2>2, <2>3
<1> QED
  BY <1>2, <1>3

(* The rest of the invariant, one part at a time.                          *)
ChangesInv == \A c \in Change : InsertedSoFar(c) /\ NotDecided(c) /\ OneOutcome(c)

Inv2 == AppliedIsOnDisk /\ LockInv /\ RecordedSoFar /\ ChangesInv

LEMMA InsertStep ==
    ASSUME FileInv, NEW c \in Change, NEW ok \in BOOLEAN, Insert(c, ok)
    PROVE  Inv2'
<1>0. TypeOK
  BY DEF FileInv
<1>1. /\ request[c] \in 1 .. 4
      /\ \/ Inserts(c) /\ request' = [request EXCEPT ![c] = @ + 1]
         \/ row' = row /\ request' = [request EXCEPT ![c] = RereadStmt]
      /\ UNCHANGED <<listed, up, deciding, verdict, stmt, disk, byHand>>
  BY <1>0, InsertFacts DEF decisionVars
<1>2. CASE row' = row /\ request' = [request EXCEPT ![c] = RereadStmt]
  <2>1. \A d \in Change : request'[d] = request[d] \/ request'[d] \in 5 .. 6
    BY <1>0, <1>2 DEF TypeOK, RereadStmt
  <2>2. ChangesInv'
    BY <1>1, <1>2, <2>1, RowsUntouched DEF ChangesInv
  <2> QED
    BY <1>1, <1>2, <2>2 DEF Inv2, FileInv, AppliedIsOnDisk, LockInv, RecordedSoFar, Pending, Fresh
<1>3. CASE Inserts(c) /\ request' = [request EXCEPT ![c] = @ + 1]
  <2>1. /\ InsertedSoFar(c) /\ row[c]["approval"] = "none"
        /\ \A d \in Change : d # c => request'[d] = request[d]
        /\ request'[c] = request[c] + 1
        /\ \A d \in Change, r \in Row : d # c => row'[d][r] = row[d][r]
    BY <1>0, <1>1, <1>3 DEF FileInv, InsertedSoFar, TypeOK, Inserts, Only
  <2>2. ASSUME NEW d \in Change, d # c PROVE InsertedSoFar(d)' /\ NotDecided(d)' /\ OneOutcome(d)'
    <3>1. InsertedSoFar(d) /\ NotDecided(d) /\ OneOutcome(d)
      BY DEF FileInv
    <3>2. request'[d] = request[d] /\ \A r \in Row : row'[d][r] = row[d][r]
      BY <2>1, <2>2
    <3> QED
      BY <1>1, <3>1, <3>2 DEF InsertedSoFar, NotDecided, OneOutcome, Fresh, Row
  <2>3. InsertedSoFar(c)' /\ NotDecided(c)'
    BY <1>1, <1>3, <2>1 DEF Inserts, Only, InsertedSoFar, NotDecided, Fresh, Row
  <2>4. OneOutcome(c)'
    BY <1>1, <1>3, <2>1 DEF Inserts, Only, InsertedSoFar, OneOutcome, Fresh, Row
  <2>5. AppliedIsOnDisk'
    BY <1>1, <1>3, <2>1 DEF Inserts, Only, FileInv, AppliedIsOnDisk, Row
  <2>6. Pending \subseteq Pending' /\ c \notin Pending
    BY <2>1 DEF Pending, Row
  <2>7. LockInv'
    BY <1>1, <2>6 DEF FileInv, LockInv
  <2>8. ASSUME c = deciding PROVE stmt = 5
    <3>1. RecordedSoFar /\ stmt \in 1 .. 5 /\ deciding # None
      BY <1>0, <2>8 DEF FileInv, TypeOK, RereadStmt
    <3>2. stmt # 1
      BY <2>6, <2>8, <3>1 DEF RecordedSoFar
    <3>3. ASSUME stmt \in 2 .. 4 PROVE FALSE
      <4>1. verdict \in Outcomes /\ row[c]["approval"] = Marks[verdict]["approval"]
        BY <2>8, <3>1, <3>3 DEF RecordedSoFar
      <4> QED
        BY <2>1, <4>1, MarksAre
    <3> QED
      BY <3>1, <3>2, <3>3
  <2>9. RecordedSoFar'
    <3>1. CASE deciding = c
      BY <1>1, <2>8, <3>1 DEF RecordedSoFar
    <3>2. CASE deciding = None
      BY <1>1, <3>2 DEF RecordedSoFar
    <3>3. CASE deciding \in Change /\ deciding # c
      <4>1. \A r \in Row : row'[deciding][r] = row[deciding][r]
        BY <2>1, <3>3
      <4> QED
        BY <1>1, <2>6, <3>3, <4>1 DEF FileInv, RecordedSoFar, Fresh, Row
    <3> QED
      BY <1>0, <3>1, <3>2, <3>3 DEF TypeOK
  <2> QED
    BY <2>2, <2>3, <2>4, <2>5, <2>7, <2>9 DEF Inv2, ChangesInv
<1> QED
  BY <1>1, <1>2, <1>3

LEMMA OverrideStep ==
    ASSUME FileInv, NEW c \in Change, NEW s \in OperatorStatus, TaskUpdate(c, s)
    PROVE  Inv2'
<1>0. TypeOK
  BY DEF FileInv
<1>1. /\ row[c]["task"] # "none" /\ Only(c, "task", s) /\ s # "none"
      /\ byHand' = byHand \cup {c}
      /\ UNCHANGED <<request, listed, up, deciding, verdict, stmt, disk>>
  BY <1>0, OverrideFacts DEF decisionVars
<1>2. /\ \A d \in Change, r \in Row \ {"task"} : row'[d][r] = row[d][r]
      /\ \A d \in Change : d # c => row'[d]["task"] = row[d]["task"]
      /\ row'[c]["task"] = s
  BY <1>1 DEF Only, Row
<1>3. \A d \in Change : Fresh(d) => Fresh(d)'
  BY <1>1, <1>2 DEF Fresh
<1>4. ASSUME NEW d \in Change PROVE InsertedSoFar(d)' /\ NotDecided(d)' /\ OneOutcome(d)'
  <2>1. InsertedSoFar(d) /\ NotDecided(d) /\ OneOutcome(d)
    BY DEF FileInv
  <2>2. /\ row'[d]["run"] = row[d]["run"] /\ row'[d]["artifact"] = row[d]["artifact"]
        /\ row'[d]["approval"] = row[d]["approval"]
        /\ d \notin byHand' => d # c /\ d \notin byHand /\ row'[d]["task"] = row[d]["task"]
        /\ request'[d] = request[d] /\ (row[d]["task"] = "none" => row'[d]["task"] = "none")
    BY <1>1, <1>2 DEF Row
  <2>3. InsertedSoFar(d)'
    BY <1>3, <2>1, <2>2 DEF InsertedSoFar
  <2>4. NotDecided(d)'
    BY <1>3, <2>1, <2>2 DEF NotDecided
  <2>5. OneOutcome(d)'
    BY <2>1, <2>2 DEF OneOutcome, Row
  <2> QED
    BY <2>3, <2>4, <2>5
<1>5. AppliedIsOnDisk'
  BY <1>1, <1>2 DEF FileInv, AppliedIsOnDisk, Row
<1>6. Pending' = Pending
  BY <1>2 DEF Pending, Row
<1>7. LockInv'
  BY <1>1, <1>6 DEF FileInv, LockInv
<1>8. RecordedSoFar'
  <2>1. CASE deciding = None
    BY <1>1, <2>1 DEF RecordedSoFar
  <2>2. CASE deciding \in Change
    BY <1>1, <1>2, <1>3, <1>6, <2>2 DEF FileInv, RecordedSoFar, Row
  <2> QED
    BY <1>0, <2>1, <2>2 DEF TypeOK
<1> QED
  BY <1>4, <1>5, <1>7, <1>8 DEF Inv2, ChangesInv

LEMMA MarkStep ==
    ASSUME FileInv, NEW ok \in BOOLEAN, Mark(ok)
    PROVE  Inv2'
<1>0. TypeOK /\ LockInv /\ RecordedSoFar /\ deciding \in Change
  BY DEF FileInv, LockInv, TypeOK, Mark, Marks
<1>1. /\ verdict \in Outcomes /\ stmt \in 1 .. 4
      /\ \/ Records /\ stmt' = stmt + 1
         \/ row' = row /\ stmt' = RereadStmt
      /\ UNCHANGED <<request, listed, up, deciding, verdict, disk, byHand>>
  BY <1>0, MarkFacts
<1>v. verdict \notin {"none", "approve", "write"} /\ deciding # None
  BY <1>0, <1>1, OutcomesAre DEF LockInv
<1>2. CASE row' = row /\ stmt' = RereadStmt
  <2>1. ChangesInv'
    BY <1>1, <1>2, RowsUntouched DEF ChangesInv
  <2>2. LockInv' /\ AppliedIsOnDisk'
    BY <1>1, <1>2, <1>v DEF FileInv, LockInv, AppliedIsOnDisk, Pending
  <2>3. RecordedSoFar'
    BY <1>2 DEF RecordedSoFar, RereadStmt
  <2> QED
    BY <2>1, <2>2, <2>3 DEF Inv2
<1>3. CASE Records /\ stmt' = stmt + 1
  <2>m. /\ Marks[verdict]["approval"] \in {"approved", "rejected"}
        /\ Marks[verdict]["artifact"] = "applied" => verdict = "applied"
    BY <1>1, MarksAre
  <2>0. \A d \in Change, r \in Row : d # deciding => row'[d][r] = row[d][r]
    BY <1>3 DEF Records, Only
  <2>1. /\ stmt = 1 => row[deciding]["approval"] = "pending"
        /\ row[deciding]["approval"] # "none"
        /\ Fresh(deciding)
        /\ stmt \in 1 .. 2 => row[deciding]["artifact"] = "submitted"
    <3>1. CASE stmt = 1
      BY <1>0, <1>v, <3>1 DEF RecordedSoFar, Pending, FileInv, NotDecided
    <3>2. CASE stmt \in 2 .. 4
      BY <1>0, <1>v, <2>m, <3>2 DEF RecordedSoFar
    <3> QED
      BY <1>1, <3>1, <3>2
  <2>2. /\ row'[deciding]["approval"] = Marks[verdict]["approval"]
        /\ stmt = 1 => row'[deciding]["artifact"] = "submitted"
        /\ stmt \in 1 .. 3 => row'[deciding]["task"] = row[deciding]["task"]
        /\ stmt \in 2 .. 4 => row'[deciding]["artifact"] = Marks[verdict]["artifact"]
        /\ stmt \in 3 .. 4 => row'[deciding]["run"] = Marks[verdict]["run"]
        /\ stmt = 4 => row'[deciding]["task"] = Marks[verdict]["task"]
    BY <1>0, <1>1, <1>3, <1>v, <2>1 DEF Records, Only, RecordedSoFar, Row
  <2>3. ASSUME NEW d \in Change, d # deciding PROVE InsertedSoFar(d)' /\ NotDecided(d)' /\ OneOutcome(d)'
    <3>1. InsertedSoFar(d) /\ NotDecided(d) /\ OneOutcome(d)
      BY DEF FileInv
    <3>2. request'[d] = request[d] /\ \A r \in Row : row'[d][r] = row[d][r]
      BY <1>1, <2>0, <2>3
    <3> QED
      BY <1>1, <3>1, <3>2 DEF InsertedSoFar, NotDecided, OneOutcome, Fresh, Row
  <2>4. NotDecided(deciding)'
    BY <1>1, <2>m, <2>2 DEF NotDecided
  <2>5. InsertedSoFar(deciding)'
    <3>1. request[deciding] \in 5 .. 6
      BY <1>0, <2>1 DEF FileInv, InsertedSoFar, TypeOK, Done
    <3> QED
      BY <1>1, <3>1 DEF InsertedSoFar
  <2>6. OneOutcome(deciding)'
    <3>1. CASE stmt = 4
      <4>1. \A r \in Row : row'[deciding][r] = Marks[verdict][r]
        BY <2>2, <3>1 DEF Row
      <4> QED
        BY <1>1, <4>1 DEF OneOutcome
    <3>2. CASE stmt \in 1 .. 3
      BY <1>1, <2>1, <2>2, <3>2 DEF OneOutcome, Fresh
    <3> QED
      BY <1>1, <3>1, <3>2
  <2>7. ChangesInv'
    BY <2>3, <2>4, <2>5, <2>6, <1>1 DEF ChangesInv
  <2>8. AppliedIsOnDisk'
    <3>1. \A d \in Change : d # deciding => row'[d]["artifact"] = row[d]["artifact"]
      BY <2>0 DEF Row
    <3>2. row'[deciding]["artifact"] = "applied" => disk[deciding] = "new"
      BY <1>0, <1>1, <2>m, <2>2 DEF LockInv
    <3> QED
      BY <1>1, <3>1, <3>2 DEF FileInv, AppliedIsOnDisk
  <2>9. LockInv'
    <3>1. listed \subseteq Pending'
      BY <1>0, <2>0 DEF LockInv, Pending, Row
    <3> QED
      BY <1>0, <1>1, <1>3, <1>v, <3>1 DEF LockInv
  <2>10. RecordedSoFar'
    <3>1. stmt' \in 2 .. 5
      BY <1>1, <1>3
    <3>2. stmt' \in 2 .. 4 => Fresh(deciding)'
      BY <1>1, <1>3, <2>1, <2>2 DEF Fresh
    <3> QED
      BY <1>1, <1>3, <2>2, <3>1, <3>2 DEF RecordedSoFar
  <2> QED
    BY <2>7, <2>8, <2>9, <2>10 DEF Inv2
<1> QED
  BY <1>1, <1>2, <1>3

LEMMA InvStep == FileInv /\ [Next]_vars => FileInv'
<1> SUFFICES ASSUME FileInv, [Next]_vars PROVE Inv2'
    BY TypeStep DEF FileInv, Inv2, ChangesInv
<1>0. TypeOK /\ LockInv /\ RecordedSoFar /\ AppliedIsOnDisk
  BY DEF FileInv
<1>1. CASE UNCHANGED vars
  <2>1. ChangesInv'
    BY <1>1, RowsUntouched DEF ChangesInv, vars
  <2> QED
    BY <1>0, <1>1, <2>1 DEF Inv2, vars, decisionVars, LockInv, RecordedSoFar, AppliedIsOnDisk, Pending, Fresh
<1>2. ASSUME NEW c \in Change, Ask(c) PROVE Inv2'
  <2>0. /\ request[c] = 0 /\ request' = [request EXCEPT ![c] = 1]
        /\ UNCHANGED <<row, listed, up, deciding, verdict, stmt, disk, byHand>>
    BY <1>2 DEF Ask, decisionVars
  <2>1. \A d \in Change : request'[d] = request[d] \/ (request[d] = 0 /\ request'[d] = 1)
    BY <1>0, <2>0 DEF TypeOK
  <2>2. ChangesInv'
    BY <2>0, <2>1, RowsUntouched DEF ChangesInv
  <2> QED
    BY <1>0, <2>0, <2>2 DEF Inv2, LockInv, RecordedSoFar, AppliedIsOnDisk, Pending, Fresh
<1>3. ASSUME NEW c \in Change, NEW ok \in BOOLEAN, Insert(c, ok) PROVE Inv2'
  BY <1>3, InsertStep
<1>4. ASSUME NEW c \in Change, NEW ok \in BOOLEAN, Answer(c, ok) PROVE Inv2'
  <2>0. /\ request' = [request EXCEPT ![c] = Done] /\ deciding = None
        /\ listed' = Pending \/ listed' = listed
        /\ UNCHANGED <<row, up, deciding, verdict, stmt, disk, byHand>>
    BY <1>4 DEF Answer, Reread, decisionVars
  <2>1. \A d \in Change : request'[d] = request[d] \/ request'[d] \in 5 .. 6
    BY <1>0, <2>0 DEF TypeOK, Done
  <2>2. ChangesInv'
    BY <2>0, <2>1, RowsUntouched DEF ChangesInv
  <2> QED
    BY <1>0, <2>0, <2>2 DEF Inv2, LockInv, RecordedSoFar, AppliedIsOnDisk, Pending, Fresh
<1>5. ASSUME NEW c \in Change, NEW approved \in BOOLEAN, Decide(c, approved) PROVE Inv2'
  <2>0. /\ c \in listed /\ deciding = None /\ deciding' = c /\ listed' = listed \ {c} /\ stmt' = 1
        /\ verdict' \in {"approve", "rejected"}
        /\ UNCHANGED <<row, request, up, disk, byHand>> /\ up
    BY <1>5 DEF Decide
  <2>1. ChangesInv'
    BY <2>0, RowsUntouched DEF ChangesInv
  <2> QED
    BY <1>0, <2>0, <2>1 DEF Inv2, LockInv, RecordedSoFar, AppliedIsOnDisk, Pending, Fresh
<1>6. CASE Refuse
  <2>1. ChangesInv'
    BY <1>6, RowsUntouched DEF ChangesInv, Refuse
  <2> QED
    BY <1>0, <1>6, <2>1 DEF Refuse, Inv2, LockInv, RecordedSoFar, AppliedIsOnDisk, Pending, Fresh
<1>7. CASE Truncate
  <2>1. ChangesInv'
    BY <1>7, RowsUntouched DEF ChangesInv, Truncate
  <2>2. deciding \in Change /\ row[deciding]["artifact"] = "submitted"
    BY <1>0, <1>7 DEF Truncate, LockInv, RecordedSoFar, TypeOK, Pending, FileInv, NotDecided
  <2>3. AppliedIsOnDisk'
    BY <1>0, <1>7, <2>2 DEF Truncate, AppliedIsOnDisk, TypeOK
  <2> QED
    BY <1>0, <1>7, <2>1, <2>3 DEF Truncate, Inv2, LockInv, RecordedSoFar, Pending, Fresh
<1>8. ASSUME NEW ok \in BOOLEAN, Write(ok) PROVE Inv2'
  <2>0. /\ verdict = "write" /\ deciding \in Change
        /\ \/ disk' = [disk EXCEPT ![deciding] = "new"] /\ verdict' = "applied"
           \/ disk' = disk /\ verdict' = "apply_failed"
        /\ UNCHANGED <<row, request, listed, up, deciding, stmt, byHand>>
    BY <1>0, <1>8 DEF Write, LockInv, TypeOK
  <2>1. ChangesInv'
    BY <2>0, RowsUntouched DEF ChangesInv
  <2>2. AppliedIsOnDisk' /\ (verdict' = "applied" => disk'[deciding] = "new")
    BY <1>0, <2>0 DEF AppliedIsOnDisk, TypeOK
  <2> QED
    BY <1>0, <2>0, <2>1, <2>2 DEF Inv2, LockInv, RecordedSoFar, Pending, Fresh
<1>9. ASSUME NEW ok \in BOOLEAN, Mark(ok) PROVE Inv2'
  BY <1>9, MarkStep
<1>10. ASSUME NEW ok \in BOOLEAN, Conclude(ok) PROVE Inv2'
  <2>0. /\ deciding' = None /\ verdict' = "none" /\ stmt' = 1
        /\ listed' = Pending \/ listed' = listed
        /\ UNCHANGED <<row, request, up, disk, byHand>>
    BY <1>10 DEF Conclude, Reread
  <2>1. ChangesInv'
    BY <2>0, RowsUntouched DEF ChangesInv
  <2>2. None \notin Pending
    BY DEF Pending
  <2> QED
    BY <1>0, <2>0, <2>1, <2>2 DEF Inv2, LockInv, RecordedSoFar, AppliedIsOnDisk, Pending
<1>11. CASE Crash
  <2>0. /\ deciding' = None /\ verdict' = "none" /\ stmt' = 1 /\ listed' = {}
        /\ request' = [c \in Change |-> IF request[c] = 0 THEN 0 ELSE Done]
        /\ UNCHANGED <<row, disk, byHand>>
    BY <1>11 DEF Crash
  <2>1. \A d \in Change : request'[d] = request[d] \/ request'[d] \in 5 .. 6
    BY <2>0 DEF Done
  <2>2. ChangesInv'
    BY <2>0, <2>1, RowsUntouched DEF ChangesInv
  <2> QED
    BY <1>0, <2>0, <2>2 DEF Inv2, LockInv, RecordedSoFar, AppliedIsOnDisk
<1>12. ASSUME NEW ok \in BOOLEAN, Restart(ok) PROVE Inv2'
  <2>0. /\ deciding = None
        /\ listed' = Pending \/ listed' = listed
        /\ UNCHANGED <<row, request, deciding, verdict, stmt, disk, byHand>>
    BY <1>0, <1>12 DEF Restart, Reread, decisionVars, LockInv
  <2>1. ChangesInv'
    BY <2>0, RowsUntouched DEF ChangesInv
  <2>2. None \notin Pending
    BY DEF Pending
  <2> QED
    BY <1>0, <2>0, <2>1, <2>2 DEF Inv2, LockInv, RecordedSoFar, AppliedIsOnDisk, Pending
<1>13. ASSUME NEW c \in Change, NEW s \in OperatorStatus, TaskUpdate(c, s) PROVE Inv2'
  BY <1>13, OverrideStep
<1> QED
  BY <1>1, <1>2, <1>3, <1>4, <1>5, <1>6, <1>7, <1>8, <1>9, <1>10, <1>11, <1>12, <1>13
     DEF Next, Request, Decision

LEMMA AlwaysFileInv == Spec => []FileInv
<1>1. Init => FileInv
  BY InvInit
<1>2. FileInv /\ [Next]_vars => FileInv'
  BY InvStep
<1> QED
  BY <1>1, <1>2, PTL DEF Spec

-----------------------------------------------------------------------------
(* Every variable keeps its type: in particular a handler never runs past  *)
(* its last statement and no row gets a status the code does not know.     *)
THEOREM TypeCorrect == Spec => []TypeOK
<1>1. FileInv => TypeOK
  BY DEF FileInv
<1> QED
  BY <1>1, AlwaysFileInv, PTL

(* An artifact recorded as applied has its content on disk, through every  *)
(* refused, failed or interrupted write and every restart.                 *)
THEOREM AppliedChangesAreOnDisk == Spec => []AppliedIsOnDisk
<1>1. FileInv => AppliedIsOnDisk
  BY DEF FileInv
<1> QED
  BY <1>1, AlwaysFileInv, PTL

(* A change on the daemon's list has all of its rows, undecided.           *)
THEOREM ListedChangesCanBeDecided == Spec => []ListedCanBeDecided
<1>1. FileInv => ListedCanBeDecided
  <2> SUFFICES ASSUME FileInv, NEW c \in listed
               PROVE  c # deciding /\ \A r \in Row \ {"task"} : row[c][r] = Filed[r]
      BY DEF ListedCanBeDecided
  <2>1. c \in Change /\ c # deciding /\ row[c]["approval"] = "pending"
    BY DEF FileInv, LockInv, Pending
  <2>2. row[c]["run"] = "awaiting_approval" /\ row[c]["artifact"] = "submitted"
    BY <2>1 DEF FileInv, NotDecided
  <2>3. /\ Filed["run"] = "awaiting_approval" /\ Filed["artifact"] = "submitted"
        /\ Filed["approval"] = "pending"
    BY DEF Filed
  <2> QED
    BY <2>1, <2>2, <2>3 DEF Row
<1> QED
  BY <1>1, AlwaysFileInv, PTL

(* A finished task has four rows of one outcome, though they are updated   *)
(* one by one and the updates may fail or be cut off anywhere.             *)
THEOREM FinishedTasksHaveOneOutcome == Spec => []FinishedTaskHasOneOutcome
<1>1. FileInv => FinishedTaskHasOneOutcome
  <2> SUFFICES ASSUME FileInv, NEW c \in Change \ byHand,
                      row[c]["task"] \in {"completed", "failed"}
               PROVE  row[c] \in {Applied, Rejected, ApplyFailed}
      BY DEF FinishedTaskHasOneOutcome
  <2>1. PICK v \in Outcomes : \A r \in Row : row[c][r] = Marks[v][r]
    BY DEF FileInv, OneOutcome
  <2>2. Marks[v] \in {Applied, Rejected, ApplyFailed}
    BY MarksAre
  <2>3. Marks[v] \in [Row -> RowStatus] /\ row[c] \in [Row -> RowStatus]
    BY <2>2 DEF Applied, Rejected, ApplyFailed, Row, RowStatus, FileInv, TypeOK
  <2>4. row[c] = Marks[v]
    BY <2>1, <2>3
  <2> QED
    BY <2>2, <2>4
<1> QED
  BY <1>1, AlwaysFileInv, PTL

-----------------------------------------------------------------------------
(* The rows keep what a review promises. An insert files a change when it  *)
(* is the approval's, a decision takes it to the desk, the two halves of   *)
(* the write edit the file, the first update resolves it and the second    *)
(* settles it; the other two, and everything about tasks and lists, are    *)
(* not seen.                                                               *)

LEMMA ReviewInit == Init => Review!Init
BY DEF Init, Review!Init, reviewAnswer, reviewOutcome, Row

LEMMA ReviewKept ==
    ASSUME UNCHANGED <<disk, deciding>>,
           \A c \in Change : /\ row'[c]["approval"] = row[c]["approval"]
                             /\ row'[c]["artifact"] = row[c]["artifact"]
    PROVE  UNCHANGED Review!vars
BY DEF Review!vars, reviewAnswer, reviewOutcome

LEMMA InsertFiles ==
    ASSUME FileInv, NEW c \in Change, NEW ok \in BOOLEAN, Insert(c, ok)
    PROVE  Review!File(c) \/ UNCHANGED Review!vars
<1>1. /\ request[c] \in 1 .. 4 /\ (Inserts(c) \/ row' = row)
      /\ InsertedSoFar(c) /\ UNCHANGED <<deciding, disk>>
  BY InsertFacts DEF FileInv, decisionVars
<1>2. CASE row' = row
  BY <1>1, <1>2, ReviewKept
<1>3. CASE request[c] \in 1 .. 2 /\ Inserts(c)
  BY <1>1, <1>3, ReviewKept DEF Inserts, Only, Row
<1>4. CASE request[c] = 3 /\ Inserts(c)
  <2>1. /\ row[c]["artifact"] = "none" /\ row'[c]["artifact"] = "submitted"
        /\ \A d \in Change : row'[d]["approval"] = row[d]["approval"]
        /\ \A d \in Change : d # c => row'[d]["artifact"] = row[d]["artifact"]
    BY <1>1, <1>4 DEF Inserts, Only, Row, InsertedSoFar
  <2>2. reviewAnswer' = reviewAnswer /\ reviewOutcome' = reviewOutcome
    BY <2>1 DEF reviewAnswer, reviewOutcome
  <2> QED
    BY <1>1, <2>2 DEF Review!vars
<1>5. CASE request[c] = 4 /\ Inserts(c)
  <2>1. /\ row[c]["approval"] = "none" /\ row'[c]["approval"] = "pending"
        /\ \A d \in Change : row'[d]["artifact"] = row[d]["artifact"]
        /\ \A d \in Change : d # c => row'[d]["approval"] = row[d]["approval"]
    BY <1>1, <1>5 DEF Inserts, Only, Row, InsertedSoFar
  <2>2. reviewAnswer' = [reviewAnswer EXCEPT ![c] = "pending"] /\ reviewOutcome' = reviewOutcome
    BY <2>1 DEF reviewAnswer, reviewOutcome
  <2> QED
    BY <1>1, <2>1, <2>2 DEF Review!File, reviewAnswer
<1> QED
  BY <1>1, <1>2, <1>3, <1>4, <1>5

LEMMA MarkResolvesAndSettles ==
    ASSUME FileInv, NEW ok \in BOOLEAN, Mark(ok)
    PROVE  Review!Next \/ UNCHANGED Review!vars
<1>0. TypeOK /\ LockInv /\ RecordedSoFar /\ deciding \in Change /\ deciding # None
  BY DEF FileInv, LockInv, TypeOK, Mark, Marks
<1>1. /\ verdict \in Outcomes /\ stmt \in 1 .. 4 /\ (Records \/ row' = row)
      /\ UNCHANGED <<deciding, disk>>
  BY <1>0, MarkFacts
<1>2. PICK c \in Change : c = deciding
  BY <1>0
<1>3. CASE row' = row
  BY <1>1, <1>3, ReviewKept
<1>4. CASE stmt \in 3 .. 4 /\ Records
  BY <1>1, <1>4, ReviewKept DEF Records, Only, Row
<1>5. CASE stmt = 1 /\ Records
  <2>m. Marks[verdict]["approval"] \in {"approved", "rejected"}
    BY <1>1, MarksAre
  <2>0. PICK a \in {"approved", "rejected"} : a = Marks[verdict]["approval"]
    BY <2>m
  <2>1. /\ row[c]["approval"] = "pending" /\ row'[c]["approval"] = a
        /\ \A d \in Change : row'[d]["artifact"] = row[d]["artifact"]
        /\ \A d \in Change : d # c => row'[d]["approval"] = row[d]["approval"]
    BY <1>0, <1>2, <1>5, <2>0 DEF Records, Only, Row, RecordedSoFar, Pending
  <2>2. reviewAnswer' = [reviewAnswer EXCEPT ![c] = a] /\ reviewOutcome' = reviewOutcome
    BY <2>1 DEF reviewAnswer, reviewOutcome
  <2>3. Review!Resolve(c, a)
    BY <1>1, <1>2, <2>1, <2>2 DEF Review!Resolve, reviewAnswer
  <2> QED
    BY <2>3 DEF Review!Next
<1>6. CASE stmt = 2 /\ Records
  <2>0. /\ Marks[verdict]["approval"] \in {"approved", "rejected"}
        /\ Marks[verdict]["artifact"] \in {"applied", "rejected"}
        /\ Marks[verdict]["artifact"] = "applied" => verdict = "applied" /\ Marks[verdict]["approval"] = "approved"
    BY <1>1, MarksAre
  <2>1. PICK o \in {"applied", "rejected"} : o = Marks[verdict]["artifact"]
    BY <2>0
  <2>2. /\ row[c]["approval"] = Marks[verdict]["approval"] /\ row[c]["artifact"] = "submitted"
        /\ row'[c]["artifact"] = o
        /\ \A d \in Change : row'[d]["approval"] = row[d]["approval"]
        /\ \A d \in Change : d # c => row'[d]["artifact"] = row[d]["artifact"]
    BY <1>0, <1>2, <1>6, <2>1 DEF Records, Only, Row, RecordedSoFar
  <2>3. o = "applied" => row[c]["approval"] = "approved" /\ disk[c] = "new"
    BY <1>0, <1>2, <2>0, <2>1, <2>2 DEF LockInv
  <2>4. reviewAnswer' = reviewAnswer /\ reviewOutcome' = [reviewOutcome EXCEPT ![c] = o]
    BY <2>1, <2>2 DEF reviewAnswer, reviewOutcome
  <2>5. Review!Settle(c, o)
    BY <1>1, <1>2, <2>0, <2>2, <2>3, <2>4 DEF Review!Settle, reviewAnswer, reviewOutcome
  <2> QED
    BY <2>5 DEF Review!Next
<1> QED
  BY <1>1, <1>3, <1>4, <1>5, <1>6

LEMMA ReviewStep ==
    ASSUME FileInv, [Next]_vars
    PROVE  [Review!Next]_(Review!vars)
<1> DEFINE Goal == Review!Next \/ UNCHANGED Review!vars
<1> SUFFICES Goal
    OBVIOUS
<1>0. TypeOK /\ LockInv /\ RecordedSoFar
  BY DEF FileInv
<1>1. CASE UNCHANGED <<row, disk, deciding>>
  BY <1>1, ReviewKept
<1>2. ASSUME NEW c \in Change, NEW ok \in BOOLEAN, Insert(c, ok) PROVE Goal
  BY <1>2, InsertFiles DEF Review!Next
<1>3. ASSUME NEW c \in Change, NEW approved \in BOOLEAN, Decide(c, approved) PROVE Goal
  <2>1. /\ deciding = None /\ deciding' = c /\ row[c]["approval"] = "pending" /\ UNCHANGED <<row, disk>>
    BY <1>0, <1>3 DEF Decide, LockInv, Pending
  <2>2. Review!Take(c)
    BY <2>1 DEF Review!Take, reviewAnswer, reviewOutcome
  <2> QED
    BY <2>2 DEF Review!Next
<1>4. ASSUME NEW content \in {"torn", "new"}, verdict \in {"approve", "write"}, UNCHANGED <<row, deciding>>,
             disk' = [disk EXCEPT ![deciding] = content]
      PROVE  Goal
  <2>1. deciding \in Change /\ deciding \in Pending
    BY <1>0, <1>4 DEF LockInv, RecordedSoFar, TypeOK
  <2>2. PICK c \in Change : c = deciding /\ row[c]["approval"] = "pending"
    BY <2>1 DEF Pending
  <2>3. Review!Edit(c, content)
    BY <1>4, <2>2 DEF Review!Edit, reviewAnswer, reviewOutcome
  <2> QED
    BY <2>3 DEF Review!Next
<1>5. CASE Truncate
  BY <1>4, <1>5 DEF Truncate
<1>6. ASSUME NEW ok \in BOOLEAN, Write(ok) PROVE Goal
  <2>1. CASE ok = TRUE
    BY <1>4, <1>6, <2>1 DEF Write
  <2>2. CASE ok = FALSE
    BY <1>1, <1>6, <2>2 DEF Write
  <2> QED
    BY <2>1, <2>2
<1>7. ASSUME NEW ok \in BOOLEAN, Mark(ok) PROVE Goal
  BY <1>7, MarkResolvesAndSettles
<1>8. CASE deciding' = None /\ UNCHANGED <<row, disk>>
  <2>1. Review!Leave
    BY <1>8 DEF Review!Leave, reviewAnswer, reviewOutcome
  <2> QED
    BY <2>1 DEF Review!Next
<1>9. ASSUME NEW c \in Change, NEW s \in OperatorStatus, TaskUpdate(c, s) PROVE Goal
  <2>1. Only(c, "task", s) /\ UNCHANGED <<disk, deciding>>
    BY <1>0, <1>9, OverrideFacts DEF decisionVars
  <2> QED
    BY <2>1, ReviewKept DEF Only, Row
<1>10. \A ok \in BOOLEAN : Conclude(ok) => deciding' = None /\ UNCHANGED <<row, disk>>
  BY DEF Conclude
<1>11. Crash => deciding' = None /\ UNCHANGED <<row, disk>>
  BY DEF Crash
<1>12. \/ Refuse \/ UNCHANGED vars \/ \E c \in Change : Ask(c)
       \/ \E ok \in BOOLEAN : Restart(ok) \/ \E c \in Change : Answer(c, ok)
       => UNCHANGED <<row, disk, deciding>>
  BY DEF Refuse, vars, decisionVars, Ask, Restart, Answer
<1> HIDE DEF Goal
<1> QED
  BY <1>1, <1>2, <1>3, <1>5, <1>6, <1>7, <1>8, <1>9, <1>10, <1>11, <1>12 DEF Next, Request, Decision

\* The daemon's handlers, whose statements interleave and whose errors are dropped,
\* implement the review of one change at a time.
THEOREM RowsImplementReview == Spec => RefinesReview
BY ReviewInit, ReviewStep, AlwaysFileInv, PTL DEF Spec, RefinesReview, Review!Spec

\* A human's answer is final, and so is what became of it: no later decision, retry,
\* restart or reread of the list changes them, or the file, again.
AnswersAreFinal ==
    [][\A c \in Change : row[c]["approval"] \in {"approved", "rejected"} =>
          /\ row'[c]["approval"] = row[c]["approval"] /\ disk'[c] = disk[c]
          /\ row[c]["artifact"] \in {"applied", "rejected"} => row'[c]["artifact"] = row[c]["artifact"]]_vars

\* A human's answer is final: this follows from the review alone.
THEOREM DecisionsAreFinal == Spec => AnswersAreFinal
<1> DEFINE Kept(c) ==
        /\ row'[c]["approval"] = row[c]["approval"] /\ disk'[c] = disk[c]
        /\ row[c]["artifact"] \in {"applied", "rejected"} => row'[c]["artifact"] = row[c]["artifact"]
<1>1. ASSUME TypeOK, TypeOK', [Review!Next]_(Review!vars), NEW c \in Change,
             row[c]["approval"] \in {"approved", "rejected"}
      PROVE  Kept(c)
  <2>1. /\ reviewAnswer \in [Change -> RowStatus] /\ reviewAnswer[c] = row[c]["approval"]
        /\ reviewAnswer'[c] = row'[c]["approval"]
        /\ reviewOutcome \in [Change -> {"applied", "rejected", "open"}]
        /\ row[c]["artifact"] \in {"applied", "rejected"} => reviewOutcome[c] = row[c]["artifact"]
        /\ reviewOutcome'[c] \in {"applied", "rejected"} => row'[c]["artifact"] = reviewOutcome'[c]
        /\ row[c]["artifact"] \in {"applied", "rejected"} \/ reviewOutcome[c] = "open"
    BY <1>1 DEF TypeOK, reviewAnswer, reviewOutcome, Row
  <2>2. /\ reviewAnswer'[c] = reviewAnswer[c] /\ disk'[c] = disk[c]
        /\ reviewOutcome[c] # "open" => reviewOutcome'[c] = reviewOutcome[c]
    BY <1>1, <2>1 DEF TypeOK, Review!Next, Review!vars, Review!File, Review!Take, Review!Edit,
                      Review!Resolve, Review!Settle, Review!Leave
  <2> QED
    BY <1>1, <2>1, <2>2
<1>2. TypeOK /\ TypeOK' /\ [Review!Next]_(Review!vars) =>
        [\A c \in Change : row[c]["approval"] \in {"approved", "rejected"} => Kept(c)]_vars
  BY <1>1
<1>3. FileInv => TypeOK
  BY DEF FileInv
<1> QED
  BY <1>2, <1>3, RowsImplementReview, AlwaysFileInv, PTL DEF AnswersAreFinal, RefinesReview, Review!Spec

-----------------------------------------------------------------------------
(* Nothing pending is forgotten. A decision takes its entry off the list   *)
(* before the rows say so: until it concludes, it stands in for the entry. *)

Offered ==
    faults = 0 /\ up =>
        \A c \in Pending : request[c] = Done => c \in listed \/ c = deciding

LEMMA OfferedStep == FileInv /\ Offered /\ [Next]_vars => Offered'
<1> SUFFICES ASSUME FileInv, Offered, [Next]_vars, faults' = 0, up' = TRUE,
                    NEW c \in Change, row'[c]["approval"] = "pending", request'[c] = Done
             PROVE  c \in listed' \/ c = deciding'
    BY DEF Offered, Pending, FileInv, TypeOK
<1>0. TypeOK /\ LockInv /\ faults \in Nat
  BY DEF FileInv, TypeOK
<1>a. ASSUME faults = 0, up = TRUE, row[c]["approval"] = "pending", request[c] = Done
      PROVE  c \in listed \/ c = deciding
  BY <1>a DEF Offered, Pending
<1>r. ASSUME NEW ok \in BOOLEAN, Outcome(ok), Reread(ok), row' = row PROVE c \in listed'
  <2>1. ok = TRUE /\ faults = 0
    BY <1>0, <1>r DEF Outcome
  <2>2. listed' = Pending
    BY <1>r, <2>1, Zenon DEF Reread
  <2> QED
    BY <1>r, <2>2 DEF Pending
<1>1. CASE UNCHANGED vars
  BY <1>a, <1>1 DEF vars, decisionVars, upsetVars
<1>2. ASSUME NEW d \in Change, Ask(d) PROVE c \in listed' \/ c = deciding'
  <2>1. c # d
    BY <1>0, <1>2 DEF Ask, TypeOK, Done
  <2> QED
    BY <1>0, <1>a, <1>2, <2>1 DEF Ask, TypeOK, decisionVars, upsetVars
<1>3. ASSUME NEW d \in Change, NEW ok \in BOOLEAN, Insert(d, ok) PROVE c \in listed' \/ c = deciding'
  <2>a. /\ request[d] \in 1 .. 4 /\ UNCHANGED <<listed, up, deciding>>
        /\ \/ Inserts(d) /\ request' = [request EXCEPT ![d] = @ + 1] /\ UNCHANGED faults
           \/ faults' = faults + 1
    BY <1>0, <1>3, InsertFacts DEF decisionVars
  <2>1. Inserts(d) /\ request' = [request EXCEPT ![d] = @ + 1] /\ faults = 0
    BY <1>0, <2>a
  <2>2. c # d /\ request[c] = Done
    BY <1>0, <2>a, <2>1 DEF TypeOK, Done
  <2>3. row'[c]["approval"] = row[c]["approval"]
    BY <2>1, <2>2 DEF Inserts, Only, Row
  <2> QED
    BY <1>a, <2>a, <2>1, <2>2, <2>3
<1>4. ASSUME NEW d \in Change, NEW ok \in BOOLEAN, Answer(d, ok) PROVE c \in listed' \/ c = deciding'
  BY <1>r, <1>4 DEF Answer
<1>5. ASSUME NEW d \in Change, NEW approved \in BOOLEAN, Decide(d, approved)
      PROVE  c \in listed' \/ c = deciding'
  BY <1>a, <1>5 DEF Decide, upsetVars
<1>6. CASE Refuse \/ Truncate
  BY <1>a, <1>6 DEF Refuse, Truncate, upsetVars
<1>7. ASSUME NEW ok \in BOOLEAN, Write(ok) PROVE c \in listed' \/ c = deciding'
  BY <1>0, <1>a, <1>7 DEF Write, Outcome
<1>8. ASSUME NEW ok \in BOOLEAN, Mark(ok) PROVE c \in listed' \/ c = deciding'
  <2>1. UNCHANGED <<listed, deciding, request, up>> /\ faults = 0
    BY <1>0, <1>8 DEF Mark, Outcome
  <2>2. CASE c = deciding
    BY <2>1, <2>2
  <2>3. CASE c # deciding
    <3>1. deciding \in Change
      BY <1>0, <1>8 DEF LockInv, TypeOK, Mark, Marks
    <3>2. row'[c]["approval"] = row[c]["approval"]
      BY <1>0, <1>8, <2>3, <3>1, MarkFacts DEF Records, Only, Row
    <3> QED
      BY <1>a, <2>1, <3>2
  <2> QED
    BY <2>2, <2>3
<1>9. ASSUME NEW ok \in BOOLEAN, Conclude(ok) PROVE c \in listed' \/ c = deciding'
  BY <1>r, <1>9 DEF Conclude
<1>10. CASE Crash
  BY <1>10 DEF Crash
<1>11. ASSUME NEW ok \in BOOLEAN, Restart(ok) PROVE c \in listed' \/ c = deciding'
  BY <1>r, <1>11 DEF Restart
<1>12. ASSUME NEW d \in Change, NEW s \in OperatorStatus, TaskUpdate(d, s)
       PROVE  c \in listed' \/ c = deciding'
  BY <1>0, <1>a, <1>12, OverrideFacts DEF Only, Row, decisionVars
<1> QED
  BY <1>1, <1>2, <1>3, <1>4, <1>5, <1>6, <1>7, <1>8, <1>9, <1>10, <1>11, <1>12
     DEF Next, Request, Decision

(* As long as no call failed, a running daemon between two decisions       *)
(* offers every pending change its requester was answered about: the list  *)
(* is only a cache of cp_approvals, and no restart, interleaved request or *)
(* concluded decision loses an entry of it.                                *)
THEOREM PendingChangesAreOffered == Spec => []PendingIsOffered
<1>1. Init => Offered
  BY DEF Init, Offered, Pending, Done
<1>2. FileInv /\ Offered /\ [Next]_vars => Offered'
  BY OfferedStep
<1>3. Offered => PendingIsOffered
  BY DEF Offered, PendingIsOffered, Pending
<1> QED
  BY <1>1, <1>2, <1>3, AlwaysFileInv, PTL DEF Spec
-----------------------------------------------------------------------------
(* Rejected changes. Without a failed call or a crash every decision       *)
(* records its answer before it gives up the lock, so the file of a change *)
(* is touched only under an approval that is about to be recorded or is.   *)

WritingVerdict == {"write", "applied", "apply_failed"}

MarkedFirst ==
    faults = 0 /\ deciding # None /\ stmt >= 2 =>
        verdict \in Outcomes /\ row[deciding]["approval"] = Marks[verdict]["approval"]

TouchedByApproval ==
    faults = 0 /\ crashes = 0 =>
        \A c \in Change : \/ disk[c] = "before" \/ row[c]["approval"] = "approved"
                          \/ c = deciding /\ verdict \in WritingVerdict

CleanInv == MarkedFirst /\ TouchedByApproval

\* Without a failed call the first statement of a decision is carried out.
LEMMA FirstMark ==
    ASSUME FileInv, NEW ok \in BOOLEAN, Mark(ok), faults' = 0, stmt = 1
    PROVE  Only(deciding, "approval", Marks[verdict]["approval"]) /\ stmt' = 2
<1>0. TypeOK /\ LockInv /\ RecordedSoFar /\ faults \in Nat /\ row \in Rows
  BY DEF FileInv, TypeOK, Rows
<1>1. deciding \in Change /\ verdict \in Outcomes
  BY <1>0 DEF Mark, Marks, LockInv, TypeOK, Outcomes
<1>2. ok = TRUE
  BY <1>0 DEF Mark, Outcome
<1>3. deciding \in Pending
  BY <1>0, <1>1 DEF RecordedSoFar
<1>4. HasIds(deciding)
  BY <1>1, <1>3 DEF FileInv, NotDecided, Fresh, Pending, HasIds, Row
<1>5. MarkOrder[stmt] = "approval"
  BY DEF MarkOrder
<1>6. row' = [row EXCEPT ![deciding]["approval"] = Marks[verdict]["approval"]] /\ stmt' = stmt + 1
  BY <1>2, <1>4, <1>5 DEF Mark
<1>7. Marks[verdict]["approval"] \in RowStatus
  BY <1>1, MarksAre DEF Row
<1> QED
  <2>1. Only(deciding, "approval", Marks[verdict]["approval"])
    BY <1>0, <1>1, <1>6, <1>7, OneRow DEF Row
  <2> QED
    BY <1>6, <2>1

LEMMA MarkedFirstStep == FileInv /\ MarkedFirst /\ [Next]_vars => MarkedFirst'
<1> SUFFICES ASSUME FileInv, MarkedFirst, [Next]_vars, faults' = 0, deciding' # None, stmt' >= 2
             PROVE  verdict' \in Outcomes /\ row'[deciding']["approval"] = Marks[verdict']["approval"]
    BY DEF MarkedFirst
<1> DEFINE Goal == verdict' \in Outcomes /\ row'[deciding']["approval"] = Marks[verdict']["approval"]
<1> SUFFICES Goal
    OBVIOUS
<1>0. TypeOK /\ LockInv /\ RecordedSoFar /\ faults \in Nat /\ stmt \in 1 .. 5
  BY DEF FileInv, TypeOK, RereadStmt
<1>a. ASSUME faults = 0, UNCHANGED <<deciding, stmt, verdict>>,
             row'[deciding]["approval"] = row[deciding]["approval"]
      PROVE  Goal
  BY <1>a DEF MarkedFirst
<1>1. CASE UNCHANGED vars
  BY <1>a, <1>1 DEF vars, decisionVars, upsetVars
<1>2. ASSUME NEW d \in Change, Ask(d) PROVE Goal
  BY <1>a, <1>2 DEF Ask, decisionVars, upsetVars
<1>3. ASSUME NEW d \in Change, NEW ok \in BOOLEAN, Insert(d, ok) PROVE Goal
  <2>1. /\ request[d] \in 1 .. 4 /\ UNCHANGED <<deciding, stmt, verdict>>
        /\ (Inserts(d) /\ UNCHANGED faults) \/ faults' = faults + 1
    BY <1>0, <1>3, InsertFacts DEF decisionVars
  <2>2. Inserts(d) /\ faults = 0
    BY <1>0, <2>1
  <2>3. row[d]["approval"] = "none"
    BY <2>1 DEF FileInv, InsertedSoFar
  <2>4. d # deciding
    <3>1. verdict \in Outcomes /\ row[deciding]["approval"] = Marks[verdict]["approval"]
      BY <2>1, <2>2 DEF MarkedFirst
    <3> QED
      BY <2>3, <3>1, MarksAre
  <2>5. row'[deciding]["approval"] = row[deciding]["approval"]
    BY <1>0, <2>1, <2>2, <2>4 DEF Inserts, Only, Row, TypeOK
  <2> QED
    BY <1>a, <2>1, <2>2, <2>5
<1>4. ASSUME NEW d \in Change, NEW ok \in BOOLEAN, Answer(d, ok) PROVE Goal
  BY <1>0, <1>a, <1>4 DEF Answer, Outcome, decisionVars
<1>5. ASSUME NEW d \in Change, NEW approved \in BOOLEAN, Decide(d, approved) PROVE Goal
  BY <1>5 DEF Decide
<1>6. CASE Refuse \/ Truncate
  BY <1>0, <1>6 DEF Refuse, Truncate, LockInv
<1>7. ASSUME NEW ok \in BOOLEAN, Write(ok) PROVE Goal
  BY <1>0, <1>7 DEF Write, LockInv
<1>8. ASSUME NEW ok \in BOOLEAN, Mark(ok) PROVE Goal
  <2>0. deciding \in Change /\ faults = 0
    BY <1>0, <1>8 DEF Mark, Marks, LockInv, TypeOK, Outcome
  <2>1. /\ verdict \in Outcomes /\ stmt \in 1 .. 4 /\ UNCHANGED <<deciding, verdict>>
        /\ Records \/ row' = row
    BY <1>0, <1>8, <2>0, MarkFacts
  <2>2. CASE stmt = 1
    BY <1>8, <2>0, <2>1, <2>2, FirstMark DEF Only
  <2>3. CASE stmt >= 2
    <3>1. row[deciding]["approval"] = Marks[verdict]["approval"]
      BY <2>0, <2>3 DEF MarkedFirst
    <3>2. row'[deciding]["approval"] = row[deciding]["approval"]
      BY <2>0, <2>1, <2>3 DEF Records, Only, Row
    <3> QED
      BY <2>1, <3>1, <3>2
  <2> QED
    BY <2>1, <2>2, <2>3
<1>9. ASSUME NEW ok \in BOOLEAN, Conclude(ok) PROVE Goal
  BY <1>9 DEF Conclude
<1>10. CASE Crash
  BY <1>10 DEF Crash
<1>11. ASSUME NEW ok \in BOOLEAN, Restart(ok) PROVE Goal
  BY <1>0, <1>a, <1>11 DEF Restart, Outcome, decisionVars
<1>12. ASSUME NEW d \in Change, NEW s \in OperatorStatus, TaskUpdate(d, s) PROVE Goal
  <2>1. Only(d, "task", s) /\ UNCHANGED <<deciding, stmt, verdict, faults>>
    BY <1>0, <1>12, OverrideFacts DEF decisionVars
  <2> QED
    BY <1>0, <1>a, <2>1 DEF Only, Row, TypeOK
<1> HIDE DEF Goal
<1> QED
  BY <1>1, <1>2, <1>3, <1>4, <1>5, <1>6, <1>7, <1>8, <1>9, <1>10, <1>11, <1>12
     DEF Next, Request, Decision

LEMMA TouchedStep == FileInv /\ CleanInv /\ [Next]_vars => TouchedByApproval'
<1> SUFFICES ASSUME FileInv, CleanInv, [Next]_vars, faults' = 0, crashes' = 0, NEW c \in Change
             PROVE  \/ disk'[c] = "before" \/ row'[c]["approval"] = "approved"
                    \/ c = deciding' /\ verdict' \in WritingVerdict
    BY DEF TouchedByApproval, WritingVerdict
<1> DEFINE Goal == \/ disk'[c] = "before" \/ row'[c]["approval"] = "approved"
                   \/ c = deciding' /\ verdict' \in WritingVerdict
<1> SUFFICES Goal
    OBVIOUS
<1>0. TypeOK /\ LockInv /\ RecordedSoFar /\ faults \in Nat /\ crashes \in Nat /\ stmt \in 1 .. 5
  BY DEF FileInv, TypeOK, RereadStmt
<1>a. ASSUME faults = 0, crashes = 0
      PROVE  \/ disk[c] = "before" \/ row[c]["approval"] = "approved"
             \/ c = deciding /\ verdict \in WritingVerdict
  BY <1>a DEF CleanInv, TouchedByApproval
<1>1. CASE UNCHANGED vars
  BY <1>a, <1>1 DEF vars, decisionVars, upsetVars
<1>2. ASSUME NEW d \in Change, Ask(d) PROVE Goal
  BY <1>a, <1>2 DEF Ask, decisionVars, upsetVars
<1>3. ASSUME NEW d \in Change, NEW ok \in BOOLEAN, Insert(d, ok) PROVE Goal
  <2>1. /\ request[d] \in 1 .. 4 /\ UNCHANGED <<deciding, verdict, disk, crashes>>
        /\ (Inserts(d) /\ UNCHANGED faults) \/ faults' = faults + 1
    BY <1>0, <1>3, InsertFacts DEF decisionVars
  <2>2. Inserts(d) /\ faults = 0
    BY <1>0, <2>1
  <2>3. row[d]["approval"] = "none"
    BY <2>1 DEF FileInv, InsertedSoFar
  <2>4. row[c]["approval"] = "approved" => row'[c]["approval"] = "approved"
    BY <2>2, <2>3 DEF Inserts, Only, Row
  <2> QED
    BY <1>a, <2>1, <2>2, <2>4
<1>4. ASSUME NEW d \in Change, NEW ok \in BOOLEAN, Answer(d, ok) PROVE Goal
  BY <1>0, <1>a, <1>4 DEF Answer, Outcome, decisionVars
<1>5. ASSUME NEW d \in Change, NEW approved \in BOOLEAN, Decide(d, approved) PROVE Goal
  BY <1>a, <1>5 DEF Decide, upsetVars
<1>6. CASE Refuse
  BY <1>a, <1>6 DEF Refuse, upsetVars, WritingVerdict
<1>7. CASE Truncate
  BY <1>0, <1>a, <1>7 DEF Truncate, upsetVars, WritingVerdict, TypeOK
<1>8. ASSUME NEW ok \in BOOLEAN, Write(ok) PROVE Goal
  <2>1. /\ verdict = "write" /\ verdict' \in WritingVerdict /\ faults = 0 /\ crashes = 0
        /\ UNCHANGED <<row, deciding>>
        /\ c # deciding => disk'[c] = disk[c]
    BY <1>0, <1>8 DEF Write, Outcome, WritingVerdict, TypeOK
  <2> QED
    BY <1>a, <2>1
<1>9. ASSUME NEW ok \in BOOLEAN, Mark(ok) PROVE Goal
  <2>0. deciding \in Change /\ faults = 0 /\ crashes = 0
    BY <1>0, <1>9 DEF Mark, Marks, LockInv, TypeOK, Outcome
  <2>1. /\ stmt \in 1 .. 4 /\ UNCHANGED <<deciding, verdict, disk>>
        /\ Records \/ row' = row
    BY <1>0, <1>9, <2>0, MarkFacts
  <2>2. CASE c # deciding \/ stmt # 1
    <3>1. row'[c]["approval"] = row[c]["approval"]
      BY <2>0, <2>1, <2>2 DEF Records, Only, Row
    <3> QED
      BY <1>a, <2>0, <2>1, <3>1
  <2>3. CASE c = deciding /\ stmt = 1
    <3>1. row[c]["approval"] = "pending"
      BY <1>0, <2>0, <2>3 DEF RecordedSoFar, Pending
    <3> QED
      BY <1>a, <2>0, <2>1, <3>1
  <2> QED
    BY <2>2, <2>3
<1>10. ASSUME NEW ok \in BOOLEAN, Conclude(ok) PROVE Goal
  <2>1. /\ verdict \in Outcomes /\ stmt = 5 /\ faults = 0 /\ crashes = 0
        /\ UNCHANGED <<row, disk>>
    BY <1>0, <1>10 DEF Conclude, Outcome, Outcomes, RereadStmt
  <2>2. ASSUME c = deciding, verdict \in WritingVerdict PROVE row[c]["approval"] = "approved"
    <3>1. deciding # None /\ row[c]["approval"] = Marks[verdict]["approval"]
      BY <2>1, <2>2 DEF CleanInv, MarkedFirst
    <3>2. CASE verdict = "applied"
      BY <3>1, <3>2 DEF Marks, Applied
    <3>3. CASE verdict = "apply_failed"
      BY <3>1, <3>3 DEF Marks, ApplyFailed
    <3> QED
      BY <2>1, <2>2, <3>2, <3>3, OutcomesAre DEF WritingVerdict
  <2> QED
    BY <1>a, <2>1, <2>2
<1>11. CASE Crash
  BY <1>0, <1>11 DEF Crash
<1>12. ASSUME NEW ok \in BOOLEAN, Restart(ok) PROVE Goal
  BY <1>0, <1>a, <1>12 DEF Restart, Outcome, decisionVars
<1>13. ASSUME NEW d \in Change, NEW s \in OperatorStatus, TaskUpdate(d, s) PROVE Goal
  <2>1. Only(d, "task", s) /\ UNCHANGED <<deciding, verdict, disk, faults, crashes>>
    BY <1>0, <1>13, OverrideFacts DEF decisionVars
  <2> QED
    BY <1>a, <2>1 DEF Only, Row
<1> HIDE DEF Goal
<1> QED
  BY <1>1, <1>2, <1>3, <1>4, <1>5, <1>6, <1>7, <1>8, <1>9, <1>10, <1>11, <1>12, <1>13
     DEF Next, Request, Decision

(* A rejected change has not touched its file, as long as no call failed   *)
(* and the daemon did not die: no decision that wrote is recorded as a     *)
(* rejection, and no second decision is taken on a change.                 *)
THEOREM RejectedChangesAreNotOnDisk == Spec => []RejectedIsNotOnDisk
<1>1. Init => CleanInv
  <2>1. Init => MarkedFirst
    BY DEF Init, MarkedFirst
  <2>2. Init => TouchedByApproval
    BY DEF Init, TouchedByApproval
  <2> QED
    BY <2>1, <2>2 DEF CleanInv
<1>2. FileInv /\ CleanInv /\ [Next]_vars => CleanInv'
  BY MarkedFirstStep, TouchedStep DEF CleanInv
<1>3. FileInv /\ CleanInv => RejectedIsNotOnDisk
  <2> SUFFICES ASSUME FileInv, CleanInv, faults = 0, crashes = 0,
                      NEW c \in Change, row[c]["approval"] = "rejected"
               PROVE  disk[c] = "before"
      BY DEF RejectedIsNotOnDisk
  <2>1. ASSUME c = deciding, verdict \in WritingVerdict PROVE FALSE
    <3>0. LockInv /\ RecordedSoFar /\ stmt \in 1 .. 5 /\ deciding # None
      BY <2>1 DEF FileInv, TypeOK, RereadStmt
    <3>1. stmt # 1
      BY <2>1, <3>0 DEF RecordedSoFar, Pending
    <3>2. verdict \in Outcomes /\ Marks[verdict]["approval"] = "rejected"
      BY <2>1, <3>0, <3>1 DEF CleanInv, MarkedFirst
    <3>3. verdict # "applied" /\ verdict # "apply_failed"
      BY <3>2 DEF Marks, Applied, ApplyFailed
    <3> QED
      BY <2>1, <3>2, <3>3, OutcomesAre DEF WritingVerdict
  <2> QED
    BY <2>1 DEF CleanInv, TouchedByApproval
<1> QED
  BY <1>1, <1>2, <1>3, AlwaysFileInv, PTL DEF Spec

=============================================================================
