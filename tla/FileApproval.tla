---------------------------- MODULE FileApproval ----------------------------
(***************************************************************************)
(* File changes that wait for a human (db/wf_file_change.rs,               *)
(* daemon/cmd/file.rs, daemon/state.rs). An agent asks the daemon for a    *)
(* change; the daemon inserts a task, a run, an artifact and an approval,  *)
(* one statement each and no transaction, and rereads its list of pending  *)
(* approvals. A decision takes the entry off the list, writes the file if  *)
(* it was approved, updates the four rows one statement each, and rereads  *)
(* the list, all under the write lock of the daemon's state.               *)
(*                                                                         *)
(* Requests are inserted without the lock, so they interleave with the     *)
(* decision. The run contract inserted between task and run is not a row   *)
(* of its own here: failing to insert it is failing to insert the run.     *)
(***************************************************************************)
EXTENDS Integers, Sequences

CONSTANTS
    Change,
    None,
    MaxUpsets      \* bound on failed calls, restarts and operator updates, together

ASSUME FileApprovalAssumption == None \notin Change /\ MaxUpsets \in Nat

VARIABLES
    row,        \* the status column of each of the four rows of a change
    request,    \* the statement its request handler is at (Insert, Reread)
    listed,     \* pending_file_changes, the daemon's list in memory
    up,         \* is the daemon running
    deciding,   \* the change whose decision holds the state's lock, or None
    verdict,    \* what that decision has come to
    stmt,       \* the row it updates next
    disk,       \* ghost: what a change did to its file
    byHand,     \* ghost: changes whose task the operator overrode
    faults, crashes, overrides

decisionVars == <<deciding, verdict, stmt>>
upsetVars == <<faults, crashes, overrides>>
vars == <<row, request, listed, up, decisionVars, disk, byHand, upsetVars>>

-----------------------------------------------------------------------------
Row == {"task", "run", "artifact", "approval"}
RowStatus == {"none", "awaiting_approval", "submitted", "pending", "approved",
              "applied", "rejected", "succeeded", "failed", "completed",
              "in_progress", "cancelled"}
OperatorStatus == {"pending", "in_progress", "completed", "cancelled"}

\* Mutant: the approval is inserted as soon as its task exists.
InsertOrderApprovalEarly == <<"task", "approval", "run", "artifact">>

\* The order of the INSERTs, and that of the UPDATEs.
InsertOrder == <<"task", "run", "artifact", "approval">>
MarkOrder == <<"approval", "artifact", "run", "task">>

\* Mutant: the artifact is inserted with a status no other code knows.
FiledAsDraft == [task |-> "awaiting_approval", run |-> "awaiting_approval",
                 artifact |-> "draft", approval |-> "pending"]

Filed == [task |-> "awaiting_approval", run |-> "awaiting_approval",
          artifact |-> "submitted", approval |-> "pending"]
Applied == [task |-> "completed", run |-> "succeeded",
            artifact |-> "applied", approval |-> "approved"]
Rejected == [task |-> "failed", run |-> "failed",
             artifact |-> "rejected", approval |-> "rejected"]
ApplyFailed == [task |-> "failed", run |-> "failed",
                artifact |-> "rejected", approval |-> "approved"]

Marks == [applied |-> Applied, rejected |-> Rejected, apply_failed |-> ApplyFailed]

\* The statement after the last one: reread the list. Then the handler is done.
RereadStmt == 5
Done == 6

Upsets == faults + crashes + overrides

\* A fallible call: a failure is an upset.
Outcome(ok) ==
    /\ ok \/ Upsets < MaxUpsets
    /\ faults' = IF ok THEN faults ELSE faults + 1
    /\ UNCHANGED <<crashes, overrides>>

TypeOK ==
    /\ row \in [Change -> [Row -> RowStatus]]
    /\ request \in [Change -> 0 .. Done]
    /\ listed \subseteq Change /\ up \in BOOLEAN
    /\ deciding \in Change \cup {None}
    /\ verdict \in {"none", "approve", "write", "applied", "rejected", "apply_failed"}
    /\ stmt \in 1 .. RereadStmt
    /\ disk \in [Change -> {"before", "torn", "new"}]
    /\ byHand \subseteq Change
    /\ faults \in Nat /\ crashes \in Nat /\ overrides \in Nat

Init ==
    /\ row = [c \in Change |-> [r \in Row |-> "none"]]
    /\ request = [c \in Change |-> 0]
    /\ listed = {} /\ up = TRUE
    /\ deciding = None /\ verdict = "none" /\ stmt = 1
    /\ disk = [c \in Change |-> "before"]
    /\ byHand = {}
    /\ faults = 0 /\ crashes = 0 /\ overrides = 0

-----------------------------------------------------------------------------
(* The list in memory. Only a failed read leaves it as it is.              *)

\* Mutant: the query does not look at the status.
EveryApproval == {c \in Change : row[c]["approval"] # "none"}

Pending == {c \in Change : row[c]["approval"] = "pending"}

Reread(ok) == listed' = IF ok THEN Pending ELSE listed

-----------------------------------------------------------------------------
(* A request: handle_request_file_change.                                  *)

Ask(c) ==
    /\ up /\ request[c] = 0
    /\ request' = [request EXCEPT ![c] = 1]
    /\ UNCHANGED <<row, listed, up, decisionVars, disk, byHand, upsetVars>>

\* A failed statement is reported on stderr and ends the sequence.
Insert(c, ok) ==
    /\ up /\ request[c] \in 1 .. 4
    /\ Outcome(ok)
    /\ IF ok
       THEN /\ row' = [row EXCEPT ![c][InsertOrder[request[c]]] =
                                      Filed[InsertOrder[request[c]]]]
            /\ request' = [request EXCEPT ![c] = @ + 1]
       ELSE request' = [request EXCEPT ![c] = RereadStmt] /\ UNCHANGED row
    /\ UNCHANGED <<listed, up, decisionVars, disk, byHand>>

\* Mutant: the request does not reread the list.
AnswerOnly(c, ok) ==
    /\ up /\ request[c] = RereadStmt /\ deciding = None
    /\ Outcome(ok)
    /\ request' = [request EXCEPT ![c] = Done]
    /\ UNCHANGED <<row, listed, up, decisionVars, disk, byHand>>

\* Under the lock: reread the list and answer.
Answer(c, ok) ==
    /\ up /\ request[c] = RereadStmt /\ deciding = None
    /\ Outcome(ok) /\ Reread(ok)
    /\ request' = [request EXCEPT ![c] = Done]
    /\ UNCHANGED <<row, up, decisionVars, disk, byHand>>

-----------------------------------------------------------------------------
(* A decision: handle_approve_file_change.                                 *)

\* Mutant: the entry stays on the list until the list is reread.
DecideKeepsEntry(c, approved) ==
    /\ up /\ deciding = None /\ c \in listed
    /\ deciding' = c /\ stmt' = 1
    /\ verdict' = IF approved THEN "approve" ELSE "rejected"
    /\ UNCHANGED <<row, listed, request, up, disk, byHand, upsetVars>>

Decide(c, approved) ==
    /\ up /\ deciding = None /\ c \in listed
    /\ listed' = listed \ {c}
    /\ deciding' = c /\ stmt' = 1
    /\ verdict' = IF approved THEN "approve" ELSE "rejected"
    /\ UNCHANGED <<row, request, up, disk, byHand, upsetVars>>

\* No configuration, a path the sandbox refuses, or a file that cannot be opened.
Refuse ==
    /\ verdict = "approve"
    /\ verdict' = "apply_failed"
    /\ UNCHANGED <<row, request, listed, up, deciding, stmt, disk, byHand, upsetVars>>

\* fs::write truncates the file and then writes it.
Truncate ==
    /\ verdict = "approve"
    /\ verdict' = "write"
    /\ disk' = [disk EXCEPT ![deciding] = "torn"]
    /\ UNCHANGED <<row, request, listed, up, deciding, stmt, byHand, upsetVars>>

\* Mutant: the result of the write is not looked at.
WriteAlwaysOk(ok) ==
    /\ verdict = "write"
    /\ Outcome(ok)
    /\ disk' = IF ok THEN [disk EXCEPT ![deciding] = "new"] ELSE disk
    /\ verdict' = "applied"
    /\ UNCHANGED <<row, request, listed, up, deciding, stmt, byHand>>

Write(ok) ==
    /\ verdict = "write"
    /\ Outcome(ok)
    /\ disk' = IF ok THEN [disk EXCEPT ![deciding] = "new"] ELSE disk
    /\ verdict' = IF ok THEN "applied" ELSE "apply_failed"
    /\ UNCHANGED <<row, request, listed, up, deciding, stmt, byHand>>

\* The rows are updated by the ids the list had; without them none is.
HasIds(c) == \A r \in Row \ {"approval"} : row[c][r] # "none"

\* Mutant: every statement is tried, whatever the ones before it came to.
MarkAll(ok) ==
    /\ verdict \in DOMAIN Marks /\ stmt < RereadStmt
    /\ Outcome(ok)
    /\ stmt' = stmt + 1
    /\ row' = IF ok /\ HasIds(deciding)
              THEN [row EXCEPT ![deciding][MarkOrder[stmt]] = Marks[verdict][MarkOrder[stmt]]]
              ELSE row
    /\ UNCHANGED <<request, listed, up, deciding, verdict, disk, byHand>>

\* mark_file_change_workflow_{applied, rejected, apply_failed}: the error of a
\* statement is dropped by the caller, and the rest is not tried.
Mark(ok) ==
    /\ verdict \in DOMAIN Marks /\ stmt < RereadStmt
    /\ Outcome(ok)
    /\ IF ok /\ HasIds(deciding)
       THEN /\ row' = [row EXCEPT ![deciding][MarkOrder[stmt]] =
                                      Marks[verdict][MarkOrder[stmt]]]
            /\ stmt' = stmt + 1
       ELSE stmt' = RereadStmt /\ UNCHANGED row
    /\ UNCHANGED <<request, listed, up, deciding, verdict, disk, byHand>>

Conclude(ok) ==
    /\ verdict \in DOMAIN Marks /\ stmt = RereadStmt
    /\ Outcome(ok) /\ Reread(ok)
    /\ deciding' = None /\ verdict' = "none" /\ stmt' = 1
    /\ UNCHANGED <<row, request, up, disk, byHand>>

-----------------------------------------------------------------------------
(* The surroundings.                                                       *)

Crash ==
    /\ up /\ Upsets < MaxUpsets
    /\ up' = FALSE /\ listed' = {}
    /\ deciding' = None /\ verdict' = "none" /\ stmt' = 1
    /\ request' = [c \in Change |-> IF request[c] = 0 THEN 0 ELSE Done]
    /\ crashes' = crashes + 1
    /\ UNCHANGED <<row, disk, byHand, faults, overrides>>

Restart(ok) ==
    /\ ~up
    /\ up' = TRUE
    /\ Outcome(ok) /\ Reread(ok)
    /\ UNCHANGED <<row, request, decisionVars, disk, byHand>>

\* raios task update: another process, by id alone.
TaskUpdate(c, s) ==
    /\ row[c]["task"] # "none" /\ Upsets < MaxUpsets
    /\ row' = [row EXCEPT ![c]["task"] = s]
    /\ byHand' = byHand \cup {c}
    /\ overrides' = overrides + 1
    /\ UNCHANGED <<request, listed, up, decisionVars, disk, faults, crashes>>

Request(c) == Ask(c) \/ \E ok \in BOOLEAN : Insert(c, ok) \/ Answer(c, ok)

Decision ==
    \/ Refuse \/ Truncate
    \/ \E ok \in BOOLEAN : Write(ok) \/ Mark(ok) \/ Conclude(ok)

Next ==
    \/ \E c \in Change : Request(c)
    \/ \E c \in Change, approved \in BOOLEAN : Decide(c, approved)
    \/ Decision
    \/ Crash
    \/ \E ok \in BOOLEAN : Restart(ok)
    \/ \E c \in Change, s \in OperatorStatus : TaskUpdate(c, s)

Spec == Init /\ [][Next]_vars

-----------------------------------------------------------------------------
(* Properties.                                                             *)

\* An artifact is called applied only when its content is on disk: a write that
\* was refused, failed or was cut short is never recorded as done.
AppliedIsOnDisk == \A c \in Change : row[c]["artifact"] = "applied" => disk[c] = "new"

\* The four rows are updated one by one and any of the statements may fail, but
\* the task is last: a finished task has all four rows of one and the same
\* outcome (unless the operator finished it by hand).
FinishedTaskHasOneOutcome ==
    \A c \in Change \ byHand : row[c]["task"] \in {"completed", "failed"} =>
        row[c] \in {Applied, Rejected, ApplyFailed}

\* An entry of the list can be decided: its four rows are there, and no decision
\* on it has been recorded. (Rows are inserted while others reread the list.)
ListedCanBeDecided ==
    \A c \in listed : c # deciding /\ \A r \in Row \ {"task"} : row[c][r] = Filed[r]

\* Without a failed call, the daemon between two decisions offers every pending
\* change its requester was answered about, across restarts too.
PendingIsOffered ==
    up /\ deciding = None /\ faults = 0 =>
        {c \in Pending : request[c] = Done} \subseteq listed

\* A change that was rejected never reached the disk, unless a crash or a failed
\* update let the same change be decided twice.
RejectedIsNotOnDisk ==
    faults = 0 /\ crashes = 0 =>
        \A c \in Change : row[c]["approval"] = "rejected" => disk[c] = "before"

-----------------------------------------------------------------------------
(* What the rows amount to for the human who reviews changes.              *)

reviewAnswer == [c \in Change |-> row[c]["approval"]]
reviewOutcome ==
    [c \in Change |-> IF row[c]["artifact"] \in {"applied", "rejected"}
                      THEN row[c]["artifact"] ELSE "open"]

Review == INSTANCE ChangeReview WITH
    Nothing <- None, answer <- reviewAnswer, outcome <- reviewOutcome,
    file <- disk, desk <- deciding

\* Handlers that interleave, drop errors and die between two statements keep what
\* a review promises: changes are reviewed one at a time, a file is touched only
\* by the review of its own change and before the answer is recorded, an answer is
\* final, and its outcome is recorded by the review that gave it or never.
RefinesReview == Review!Spec

=============================================================================
