-------------------------- MODULE ControlDispatch --------------------------
(***************************************************************************)
(* The control plane's command dispatcher (control_plane/service.rs):      *)
(* policy check, idempotent replay, the command in one transaction with    *)
(* its idempotency record and its audit row, and after the commit the      *)
(* typed events and the agent launch.                                      *)
(*                                                                         *)
(* Every request opens its own connection, so requests from the daemon     *)
(* socket and from HTTP run concurrently and a surface may send the same   *)
(* command twice. Transactions and the audit row are AuditLedger's: its    *)
(* connections serve the requests, its entries are the commands' rows.     *)
(***************************************************************************)
EXTENDS AuditLedger, FiniteSets

CONSTANTS
    Key,         \* idempotency keys
    Payload,     \* serialized commands, identified by their SHA-256
    Launches,    \* the payloads that are LaunchAgent commands
    LegacyKey,   \* keys recorded before payload_hash existed: their hash is ''
    None

\* What the audit row of a command says. tool_allow and tool_confirm differ
\* only in wording; a denial names the command but neither key nor payload.
AuditEntry == [type : {"permit"}, key : Key, payload : Payload]
                \cup {[type |-> "deny"]}

\* A row of cp_idempotency.
Record == [payload : Payload \cup {None}, result : {"completed", "failed_to_launch"}]

ASSUME DispatchAssumption ==
    /\ Entry = AuditEntry
    /\ Launches \subseteq Payload /\ LegacyKey \subseteq Key
    /\ None \notin Payload \cup Key \cup Record

VARIABLES
    idem,      \* cp_idempotency: the record of each key, None if there is none
    done,      \* ghost: committed executions of the command under each key
    emitted,   \* how often the events of a key's command were published
    launched,  \* how often an agent was started for a key
    pc, req,   \* where each request is, and its command
    answer,    \* ghost: what the request that ran a key was told
    replayed   \* ghost: the payloads answered from a key's record

dbVars == <<log, version, writer, tx, snap, recPc, tail, staged>>
dispatchVars == <<idem, done, emitted, launched, pc, req, answer, replayed>>
vars == <<dbVars, dispatchVars>>

-----------------------------------------------------------------------------
Request == [key : Key, payload : Payload]
Step == {"idle", "deny", "lookup", "run", "insert", "audit",
         "finish", "reply", "problem"}

TypeOK ==
    /\ LedgerTypeOK
    /\ idem \in [Key -> Record \cup {None}]
    /\ done \in [Key -> Nat] /\ emitted \in [Key -> Nat] /\ launched \in [Key -> Nat]
    /\ pc \in [Conn -> Step]
    /\ req \in [Conn -> Request \cup {None}]
    /\ answer \in [Key -> {"none", "ok", "problem"}]
    /\ replayed \in [Key -> SUBSET Payload]

Init ==
    /\ LedgerInit
    /\ idem = [k \in Key |-> IF k \in LegacyKey
                             THEN [payload |-> None, result |-> "completed"] ELSE None]
    /\ done = [k \in Key |-> 0]
    /\ emitted = [k \in Key |-> 0]
    /\ launched = [k \in Key |-> 0]
    /\ pc = [c \in Conn |-> "idle"]
    /\ req = [c \in Conn |-> None]
    /\ answer = [k \in Key |-> "none"]
    /\ replayed = [k \in Key |-> {}]

\* The request ends; the client may send another one.
EndRequest(c) ==
    /\ pc' = [pc EXCEPT ![c] = "idle"]
    /\ req' = [req EXCEPT ![c] = None]

\* An open transaction is rolled back when its guard is dropped.
Abandon(c) == IF tx[c] = "none" THEN UNCHANGED dbVars ELSE Rollback(c)

\* Mutant: the command commits before its audit row is written.
AuditWrittenAlready(c) == TRUE

\* The audit row is in the transaction that is about to commit.
AuditWritten(c) == staged[c] # << >>

GoTo(c, step) == pc' = [pc EXCEPT ![c] = step] /\ UNCHANGED req

-----------------------------------------------------------------------------
(* Before the transaction.                                                 *)

\* An authorized actor's command: the policy file is read afresh each time. A
\* remote actor is refused before anything is read or written.
Submit(c, r, verdict) ==
    /\ pc[c] = "idle"
    /\ req' = [req EXCEPT ![c] = r]
    /\ pc' = [pc EXCEPT ![c] = IF verdict = "deny" THEN "deny" ELSE "lookup"]
    /\ UNCHANGED <<dbVars, idem, done, emitted, launched, answer, replayed>>

\* A denial is audited in a transaction of its own.
AuditDenial(c) ==
    /\ pc[c] = "deny"
    /\ ~AuditWritten(c)
    /\ \/ EnterRecord(c) \/ ReadTail(c) \/ InsertRow(c, [type |-> "deny"])
    /\ UNCHANGED dispatchVars

\* The refusal is sent whether the audit row was committed or not.
RefuseDenied(c) ==
    /\ pc[c] = "deny"
    /\ \/ AuditWritten(c) /\ CommitTx(c)
       \/ Abandon(c)
    /\ EndRequest(c)
    /\ UNCHANGED <<idem, done, emitted, launched, answer, replayed>>

\* Mutant: the payload hash is not compared.
SamePayloadNever(k, p) == TRUE

\* The stored hash is compared unless it is empty.
SamePayload(k, p) == idem[k].payload \in {None, p}

\* replayed_result finds the key with this payload, or with another one.
Replay(c) ==
    /\ pc[c] = "lookup"
    /\ LET k == req[c].key IN
         /\ idem[k] # None
         /\ replayed' = IF SamePayload(k, req[c].payload) /\ k \notin LegacyKey
                        THEN [replayed EXCEPT ![k] = @ \cup {req[c].payload}]
                        ELSE replayed
    /\ EndRequest(c)
    /\ UNCHANGED <<dbVars, idem, done, emitted, launched, answer>>

\* The read outside the transaction finds no record. It is taken to find none,
\* too, when the SELECT itself fails.
LookUpMisses(c) ==
    /\ pc[c] = "lookup"
    /\ BeginDeferred(c)
    /\ GoTo(c, "run")
    /\ UNCHANGED <<idem, done, emitted, launched, answer, replayed>>

-----------------------------------------------------------------------------
(* The transaction.                                                        *)

\* run_command validates against the database as of the transaction's snapshot.
RunReads(c) ==
    /\ pc[c] = "run"
    /\ FirstRead(c)
    /\ UNCHANGED dispatchVars

\* run_command changes its tables, or has nothing to change (validation); a
\* launch only queues its request in Effects.
RunCommand(c) ==
    /\ pc[c] = "run"
    /\ \/ UNCHANGED dbVars
       \/ req[c].payload \notin Launches /\ CallerWrites(c)
    /\ GoTo(c, "insert")
    /\ UNCHANGED <<idem, done, emitted, launched, answer, replayed>>

\* Mutant: INSERT OR REPLACE, which never refuses a key that is there already.
KeyIsFreshAlways(c) == TRUE

\* cp_idempotency.idempotency_key is the PRIMARY KEY.
KeyIsFresh(c) == idem[req[c].key] = None

\* record_outcome, the idempotency record: takes the slot if the command has
\* not, and a duplicate key fails the INSERT.
InsertRecord(c) ==
    /\ pc[c] = "insert"
    /\ TakeSlot(c)
    /\ KeyIsFresh(c)
    /\ GoTo(c, "audit")
    /\ UNCHANGED <<log, version, recPc, tail, staged>>
    /\ UNCHANGED <<idem, done, emitted, launched, answer, replayed>>

\* Mutant: the audit row does not say which payload ran.
PermitEntryWithoutPayload(c) == [type |-> "permit", key |-> req[c].key]

\* The audit row of the command: its args_hash is the payload hash.
PermitEntry(c) == [type |-> "permit", key |-> req[c].key, payload |-> req[c].payload]

\* record_outcome, the audit row, in the same transaction.
AuditCommand(c) ==
    /\ pc[c] = "audit"
    /\ ~AuditWritten(c)
    /\ \/ EnterRecord(c) \/ ReadTail(c) \/ InsertRow(c, PermitEntry(c))
    /\ UNCHANGED dispatchVars

\* Any error on the way, a duplicate key, a stale snapshot or a busy slot
\* included, rolls the whole command back.
Fail(c) ==
    /\ pc[c] \in {"run", "insert", "audit"}
    /\ Rollback(c)
    /\ EndRequest(c)
    /\ UNCHANGED <<idem, done, emitted, launched, answer, replayed>>

\* The command's changes, its record and its audit row become durable together.
Commit(c) ==
    /\ pc[c] = "audit"
    /\ AuditWritten(c)
    /\ CommitTx(c)
    /\ idem' = [idem EXCEPT ![req[c].key] =
                  [payload |-> req[c].payload, result |-> "completed"]]
    /\ done' = [done EXCEPT ![req[c].key] = @ + 1]
    /\ GoTo(c, "finish")
    /\ UNCHANGED <<emitted, launched, answer, replayed>>

-----------------------------------------------------------------------------
(* finish: what happens once the transaction is durable.                   *)

\* Typed events of a command that has some, published in order.
EmitEvents(c) ==
    /\ pc[c] = "finish" /\ req[c].payload \notin Launches
    /\ emitted' = [emitted EXCEPT ![req[c].key] = @ + 1]
    /\ GoTo(c, "reply")
    /\ UNCHANGED <<dbVars, idem, done, launched, answer, replayed>>

Launch(c) ==
    /\ pc[c] = "finish" /\ req[c].payload \in Launches
    /\ launched' = [launched EXCEPT ![req[c].key] = @ + 1]
    /\ GoTo(c, "reply")
    /\ UNCHANGED <<dbVars, idem, done, emitted, answer, replayed>>

\* No terminal could be opened: the record is rewritten in autocommit mode, or
\* not at all if that UPDATE fails.
LaunchFails(c) ==
    /\ pc[c] = "finish" /\ req[c].payload \in Launches
    /\ \/ /\ writer = NoConn /\ version < MaxVersion
          /\ version' = version + 1
          /\ idem' = [idem EXCEPT ![req[c].key] =
                        [payload |-> @.payload, result |-> "failed_to_launch"]]
          /\ UNCHANGED <<log, writer, tx, snap, recPc, tail, staged>>
       \/ UNCHANGED <<dbVars, idem>>
    /\ GoTo(c, "problem")
    /\ UNCHANGED <<done, emitted, launched, answer, replayed>>

\* dispatch returns finish's outcome: the result, or the launch's problem. A
\* request that dies before this has had its effect and tells nobody.
Respond(c) ==
    /\ pc[c] \in {"reply", "problem"}
    /\ answer' = [answer EXCEPT ![req[c].key] = IF pc[c] = "reply" THEN "ok" ELSE "problem"]
    /\ EndRequest(c)
    /\ UNCHANGED <<dbVars, idem, done, emitted, launched, replayed>>

\* The process dies, or the client's connection task is dropped with it.
Crash(c) ==
    /\ pc[c] # "idle"
    /\ Abandon(c)
    /\ EndRequest(c)
    /\ UNCHANGED <<idem, done, emitted, launched, answer, replayed>>

Dispatch(c) ==
    \/ \E r \in Request, verdict \in {"permit", "deny"} : Submit(c, r, verdict)
    \/ AuditDenial(c) \/ RefuseDenied(c)
    \/ Replay(c) \/ LookUpMisses(c)
    \/ RunReads(c) \/ RunCommand(c)
    \/ InsertRecord(c) \/ AuditCommand(c)
    \/ Fail(c) \/ Commit(c)
    \/ EmitEvents(c) \/ Launch(c) \/ LaunchFails(c)
    \/ Respond(c) \/ Crash(c)

Next == \E c \in Conn : Dispatch(c)

Spec == Init /\ [][Next]_vars

-----------------------------------------------------------------------------
(* Properties.                                                             *)

Audited(k) == {i \in 1..Len(log) : log[i].entry.type = "permit" /\ log[i].entry.key = k}

\* "A command is never recorded without its audit trail (or the reverse)", and
\* neither without the command itself: under a key the command was committed at
\* most once, exactly when the key has its record and one audit row, whichever
\* requests raced and wherever they died.
RecordedAuditedAndDoneOnce ==
    \A k \in Key \ LegacyKey :
        LET once == IF idem[k] = None THEN 0 ELSE 1
        IN  done[k] = once /\ Cardinality(Audited(k)) = once

\* The side effects of finish happen at most once per key and only for a durable
\* command: a subscriber that reacts to an event finds the committed state, a
\* repeated LaunchAgent never starts a second agent, and a key that is told to
\* have failed to launch has no agent running for it. Who is told "ok" has had
\* the effect; who is told of a problem has the command recorded and no agent.
\* Nothing is promised the other way round: a request may die between the two.
EffectsFollowTheRecord ==
    \A k \in Key :
        /\ emitted[k] + launched[k] <= 1
        /\ emitted[k] + launched[k] <= done[k]
        /\ idem[k] # None /\ idem[k].result = "failed_to_launch" => launched[k] = 0
        /\ answer[k] = "ok" => emitted[k] + launched[k] = 1
        /\ answer[k] = "problem" => done[k] = 1 /\ launched[k] = 0

\* A key is bound to its first payload for good, and a recorded failure is never
\* turned back into a success by a request that was still under way.
RecordIsFinal ==
    [][\A k \in Key : idem[k] # None =>
        /\ idem'[k] # None /\ idem'[k].payload = idem[k].payload
        /\ idem[k].result = "failed_to_launch" => idem'[k] = idem[k]]_vars

\* Idempotency is bound to the payload: a request answered from a key's record
\* asked for the very command whose execution the ledger shows under that key.
ReplayAnswersItsOwnCommand ==
    \A k \in Key \ LegacyKey : \A p \in replayed[k] :
        \E i \in Audited(k) : log[i].entry.payload = p

-----------------------------------------------------------------------------
(* The dispatcher implements a registry that executes every key once.      *)

Permits == {i \in 1..Len(log) : log[i].entry.type = "permit"}

registryBound ==
    [k \in Key |-> IF k \in LegacyKey \/ idem[k] = None THEN None ELSE idem[k].payload]

registryAudited == {<<log[i].entry.key, log[i].entry.payload>> : i \in Permits}

registryEffects == [k \in Key |-> emitted[k] + launched[k]]

registryFailed == {k \in Key : idem[k] # None /\ idem[k].result = "failed_to_launch"}

Registry == INSTANCE CommandOnce WITH
    Nothing <- None, bound <- registryBound, executions <- done, audited <- registryAudited,
    effects <- registryEffects, told <- answer, failed <- registryFailed, replays <- replayed

\* Requests that race, fail, die or are sent twice look from outside like steps
\* of that registry: a key is bound and executed in one step with its audit row,
\* never again after it, its effect happens at most once and only later, whoever
\* is told of it is told what happened, and a recorded failure or binding is
\* never taken back.
RefinesCommandOnce == Registry!Spec

=============================================================================
