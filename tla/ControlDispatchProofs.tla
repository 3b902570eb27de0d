----------------------- MODULE ControlDispatchProofs -----------------------
(***************************************************************************)
(* The dispatcher for any number of concurrent requests, keys and          *)
(* payloads: a key's command is done, recorded and audited once and        *)
(* together, and what finish does afterwards happens at most once.         *)
(***************************************************************************)
EXTENDS ControlDispatch, AuditLedgerProofs, FiniteSetTheorems

-----------------------------------------------------------------------------
(* The inductive invariant.                                                *)

\* A connection outside any transaction.
Quiet(c) == tx[c] = "none" /\ recPc[c] = "out" /\ staged[c] = << >>

\* At most one row is staged, it is the one the request is to write, and the
\* request is not back in record_audit_event once it is there.
Stages(c, e) ==
    staged[c] # << >> =>
        /\ recPc[c] = "out"
        /\ \E h \in Hash : staged[c] = <<NewRow(h, e)>>

\* The request has committed and has not been answered.
Finishing == {"finish", "reply", "problem"}

\* Where a request is tells what its transaction holds.
TxInv(c) ==
    /\ pc[c] # "idle" => req[c] \in Request
    /\ pc[c] \in {"idle", "lookup"} \cup Finishing => Quiet(c)
    /\ pc[c] = "deny" => Stages(c, [type |-> "deny"]) /\ (tx[c] = "none" => Quiet(c))
    /\ pc[c] \in {"run", "insert"} =>
         tx[c] \in {"deferred", "reader", "writer"} /\ recPc[c] = "out" /\ staged[c] = << >>
    /\ pc[c] = "audit" => tx[c] = "writer" /\ Stages(c, PermitEntry(c))

\* From the INSERT to the commit nobody else can take the request's key.
KeyReserved(c) == pc[c] = "audit" => idem[req[c].key] = None

\* A request that has committed finds its own record until it is answered, and
\* where it is tells whether the effect has happened.
FinishInv(c) ==
    pc[c] \in Finishing =>
        LET k == req[c].key IN
        /\ k \notin LegacyKey
        /\ idem[k] # None /\ idem[k].payload = req[c].payload /\ answer[k] = "none"
        /\ pc[c] # "problem" => idem[k].result = "completed"
        /\ pc[c] = "problem" => req[c].payload \in Launches
        /\ IF pc[c] = "reply" THEN emitted[k] + launched[k] = 1
                               ELSE emitted[k] = 0 /\ launched[k] = 0

\* No two requests finish one key.
OneFinisher ==
    \A c, d \in Conn :
        c # d /\ pc[c] \in Finishing /\ pc[d] \in Finishing => req[c].key # req[d].key

\* The record of a key, its audit row and the execution come together.
OneRow(k) ==
    IF idem[k] = None THEN Audited(k) = {}
    ELSE \E i \in 1..Len(log) : Audited(k) = {i} /\ log[i].entry.payload = idem[k].payload

RecordInv(k) ==
    /\ k \in LegacyKey => idem[k] # None /\ done[k] = 0
    /\ k \notin LegacyKey =>
         /\ done[k] = (IF idem[k] = None THEN 0 ELSE 1)
         /\ OneRow(k)
         /\ \A p \in replayed[k] : idem[k] # None /\ idem[k].payload = p

\* What was done for a key after the commit.
EffectInv(k) ==
    /\ emitted[k] + launched[k] <= done[k]
    /\ idem[k] # None /\ idem[k].result = "failed_to_launch" => launched[k] = 0
    /\ answer[k] = "ok" => emitted[k] + launched[k] = 1
    /\ answer[k] = "problem" => done[k] = 1 /\ launched[k] = 0

DispatchInv ==
    /\ TypeOK /\ LedgerInv
    /\ \A c \in Conn : TxInv(c) /\ KeyReserved(c) /\ FinishInv(c)
    /\ OneFinisher
    /\ \A k \in Key : RecordInv(k) /\ EffectInv(k)

-----------------------------------------------------------------------------
(* The ledger under the dispatcher.                                        *)

LEMMA EntriesAreEntries ==
  /\ [type |-> "deny"] \in Entry
  /\ \A c \in Conn : req[c] \in Request => PermitEntry(c) \in Entry
  BY DispatchAssumption DEF AuditEntry, PermitEntry, Request

\* The ledger's invariant does not depend on the number of commits or snapshots.
LEMMA LedgerKept ==
  ASSUME LedgerInv, UNCHANGED <<log, writer, tx, recPc, tail, staged>>,
         version' \in Nat, snap' \in [Conn -> Nat]
  PROVE  LedgerInv'
  BY DEF LedgerInv, LedgerTypeOK, SlotSound, HoldsSlot, LedgerVerifies, ViewsChained, TailCurrent

LEMMA LedgerStep ==
  ASSUME DispatchInv, NEW c \in Conn, Dispatch(c)
  PROVE  LedgerInv'
<1>1. LedgerInv /\ LedgerTypeOK /\ SlotSound /\ TxInv(c)
  BY DEF DispatchInv, LedgerInv
<1>2. ASSUME UNCHANGED dbVars PROVE LedgerInv'
  BY <1>1, <1>2, LedgerKept DEF dbVars, LedgerTypeOK
<1>3. ASSUME TxStep(c) PROVE LedgerInv'
  BY <1>1, <1>3, StepInv
<1>4. ASSUME NEW e \in Entry, EnterRecord(c) \/ ReadTail(c) \/ InsertRow(c, e)
      PROVE  LedgerInv'
  BY <1>3, <1>4 DEF TxStep
<1>5. CASE AuditDenial(c)
  BY <1>4, <1>5, EntriesAreEntries DEF AuditDenial
<1>6. CASE AuditCommand(c)
  <2>1. PermitEntry(c) \in Entry
    BY <1>1, <1>6, EntriesAreEntries DEF AuditCommand, TxInv
  <2> QED
    BY <1>4, <1>6, <2>1 DEF AuditCommand
<1>7. CASE RefuseDenied(c) \/ LookUpMisses(c) \/ RunReads(c) \/ RunCommand(c) \/ Fail(c)
           \/ Commit(c) \/ Crash(c)
  BY <1>2, <1>3, <1>7 DEF RefuseDenied, LookUpMisses, RunReads, RunCommand, Fail, Commit, Crash,
     Abandon, TxStep
<1>8. CASE InsertRecord(c)
  <2>1. CASE tx[c] \in {"deferred", "reader"}
    BY <1>3, <1>8, <2>1 DEF InsertRecord, CallerWrites, TxStep
  <2>2. CASE tx[c] = "writer"
    <3>1. UNCHANGED <<log, version, writer, tx, recPc, tail, staged>>
      BY <1>1, <1>8, <2>2 DEF InsertRecord, TakeSlot, SlotSound, HoldsSlot, LedgerTypeOK
    <3> QED
      BY <1>1, <1>8, <3>1, LedgerKept DEF InsertRecord, TakeSlot, LedgerTypeOK
  <2> QED
    BY <1>1, <1>8, <2>1, <2>2 DEF InsertRecord, TxInv
<1>9. CASE LaunchFails(c)
  BY <1>1, <1>2, <1>9, LedgerKept DEF LaunchFails, LedgerTypeOK
<1>10. CASE Replay(c) \/ EmitEvents(c) \/ Launch(c) \/ Respond(c)
            \/ \E r \in Request, verdict \in {"permit", "deny"} : Submit(c, r, verdict)
  BY <1>2, <1>10 DEF Replay, EmitEvents, Launch, Respond, Submit
<1> QED
  BY <1>5, <1>6, <1>7, <1>8, <1>9, <1>10 DEF Dispatch

-----------------------------------------------------------------------------
(* A step of one request.                                                  *)

\* What the other requests see of it.
OthersKept(c) ==
    \A d \in Conn \ {c} :
        /\ pc'[d] = pc[d] /\ req'[d] = req[d]
        /\ tx'[d] = tx[d] /\ recPc'[d] = recPc[d] /\ staged'[d] = staged[d]

LEMMA OthersAreKept ==
  ASSUME DispatchInv, NEW c \in Conn, Dispatch(c)
  PROVE  OthersKept(c)
<1> DEFINE Db == \A d \in Conn \ {c} :
               tx'[d] = tx[d] /\ recPc'[d] = recPc[d] /\ staged'[d] = staged[d]
<1>1. LedgerTypeOK /\ TypeOK
  BY DEF DispatchInv, LedgerInv
<1>2. UNCHANGED dbVars => Db
  BY DEF dbVars
<1>3. ASSUME NEW e, EnterRecord(c) \/ ReadTail(c) \/ InsertRow(c, e) PROVE Db
  BY <1>1, <1>3 DEF EnterRecord, ReadTail, InsertRow, TakeSlot, LedgerTypeOK
<1>4. CommitTx(c) \/ Rollback(c) \/ BeginDeferred(c) \/ FirstRead(c) \/ CallerWrites(c) => Db
  BY <1>1 DEF CommitTx, Rollback, EndTx, BeginDeferred, FirstRead, CallerWrites, TakeSlot, LedgerTypeOK
<1>5. Db
  <2>1. CASE AuditDenial(c) \/ AuditCommand(c)
    BY <1>3, <2>1 DEF AuditDenial, AuditCommand
  <2>2. CASE InsertRecord(c)
    BY <1>1, <2>2 DEF InsertRecord, TakeSlot, LedgerTypeOK
  <2>3. CASE LaunchFails(c)
    BY <1>2, <2>3 DEF LaunchFails
  <2>4. CASE RefuseDenied(c) \/ LookUpMisses(c) \/ RunReads(c) \/ RunCommand(c) \/ Fail(c)
             \/ Commit(c) \/ Crash(c)
    BY <1>2, <1>4, <2>4 DEF RefuseDenied, LookUpMisses, RunReads, RunCommand, Fail, Commit, Crash,
       Abandon
  <2>5. CASE Replay(c) \/ EmitEvents(c) \/ Launch(c) \/ Respond(c)
             \/ \E r \in Request, verdict \in {"permit", "deny"} : Submit(c, r, verdict)
    BY <1>2, <2>5 DEF Replay, EmitEvents, Launch, Respond, Submit
  <2> QED
    BY <2>1, <2>2, <2>3, <2>4, <2>5 DEF Dispatch
<1>6. \A d \in Conn \ {c} : pc'[d] = pc[d] /\ req'[d] = req[d]
  BY <1>1 DEF Dispatch, Submit, AuditDenial, RefuseDenied, Replay, LookUpMisses, RunReads,
     RunCommand, InsertRecord, AuditCommand, Fail, Commit, EmitEvents, Launch, LaunchFails, Respond, Crash,
     EndRequest, GoTo, dispatchVars, TypeOK
<1> QED
  BY <1>5, <1>6 DEF OthersKept

\* A step that leaves the records and what was done for each key alone, and whose own
\* request is in order, keeps everything the ledger and the replays allow it to.
LEMMA CalmStep ==
  ASSUME DispatchInv, NEW c \in Conn, Dispatch(c),
         UNCHANGED <<idem, done, emitted, launched, answer>>,
         replayed' \in [Key -> SUBSET Payload], \A k \in Key : RecordInv(k)',
         pc' \in [Conn -> Step], req' \in [Conn -> Request \cup {None}],
         TxInv(c)', pc'[c] \notin Finishing, KeyReserved(c)'
  PROVE  DispatchInv'
<1>1. LedgerInv' /\ OthersKept(c)
  BY LedgerStep, OthersAreKept
<1>2. TypeOK'
  BY <1>1 DEF DispatchInv, TypeOK, LedgerInv
<1>3. ASSUME NEW d \in Conn PROVE TxInv(d)' /\ KeyReserved(d)' /\ FinishInv(d)'
  <2>1. CASE d = c
    BY <2>1 DEF FinishInv
  <2>2. CASE d # c
    BY <1>1, <2>2 DEF OthersKept, DispatchInv, TxInv, Quiet, Stages, PermitEntry, KeyReserved, FinishInv
  <2> QED
    BY <2>1, <2>2
<1>4. OneFinisher'
  BY <1>1 DEF OthersKept, DispatchInv, OneFinisher
<1>5. \A k \in Key : EffectInv(k)'
  BY DEF DispatchInv, EffectInv
<1> QED
  BY <1>1, <1>2, <1>3, <1>4, <1>5 DEF DispatchInv

LEMMA QuietStep ==
  ASSUME DispatchInv, NEW c \in Conn, Dispatch(c),
         UNCHANGED <<idem, done, emitted, launched, answer, replayed, log>>,
         pc' \in [Conn -> Step], req' \in [Conn -> Request \cup {None}],
         TxInv(c)', pc'[c] \notin Finishing, KeyReserved(c)'
  PROVE  DispatchInv'
<1>1. \A k \in Key : RecordInv(k)'
  BY DEF DispatchInv, RecordInv, OneRow, Audited
<1>2. replayed' \in [Key -> SUBSET Payload]
  BY DEF DispatchInv, TypeOK
<1> QED
  BY <1>1, <1>2, CalmStep

\* What the steps of record_audit_event do to the connection that takes them.
LEMMA RecordFacts ==
  ASSUME LedgerInv, NEW c \in Conn, NEW e \in Entry, staged[c] = << >>,
         EnterRecord(c) \/ ReadTail(c) \/ InsertRow(c, e)
  PROVE  /\ Stages(c, e)' /\ log' = log
         /\ tx'[c] \in {"writer", "own"}
         /\ tx[c] = "writer" => tx'[c] = "writer"
<1>1. LedgerTypeOK /\ SlotSound
  BY DEF LedgerInv
<1>2. CASE EnterRecord(c)
  BY <1>1, <1>2 DEF EnterRecord, TakeSlot, LedgerTypeOK, Stages
<1>3. CASE ReadTail(c)
  BY <1>1, <1>3 DEF ReadTail, LedgerTypeOK, Stages, SlotSound, HoldsSlot
<1>4. CASE InsertRow(c, e)
  <2>1. tail[c] \in Hash /\ NewRow(tail[c], e) \in Row
    BY <1>1, NewRowType DEF LedgerTypeOK
  <2>2. Append(<< >>, NewRow(tail[c], e)) = <<NewRow(tail[c], e)>>
    BY <2>1
  <2>3. staged'[c] = <<NewRow(tail[c], e)>> /\ recPc'[c] = "out"
    BY <1>1, <1>4, <2>2 DEF InsertRow, LedgerTypeOK
  <2>4. Stages(c, e)'
    BY <2>1, <2>3 DEF Stages, NewRow, ComputeHash, Hash
  <2> QED
    BY <1>1, <1>4, <2>4 DEF InsertRow, TakeSlot, LedgerTypeOK
<1> QED
  BY <1>2, <1>3, <1>4

\* The end of a transaction leaves nothing behind on its connection.
LEMMA EndFacts ==
  ASSUME LedgerTypeOK, NEW c \in Conn, CommitTx(c) \/ Rollback(c)
  PROVE  Quiet(c)'
  BY DEF CommitTx, Rollback, EndTx, LedgerTypeOK, Quiet

LEMMA AbandonFacts ==
  ASSUME DispatchInv, NEW c \in Conn, pc[c] # "idle", Abandon(c)
  PROVE  Quiet(c)' /\ log' = log
<1>1. LedgerTypeOK /\ TxInv(c) /\ pc \in [Conn -> Step]
  BY DEF DispatchInv, LedgerInv, TypeOK
<1>2. CASE tx[c] = "none"
  BY <1>1, <1>2 DEF Abandon, dbVars, Quiet, TxInv, Step, Finishing
<1>3. CASE tx[c] # "none"
  BY <1>1, <1>3, EndFacts DEF Abandon, Rollback
<1> QED
  BY <1>2, <1>3

\* A request that ends leaves a quiet connection.
LEMMA EndedInOrder ==
  ASSUME TypeOK, NEW c \in Conn, EndRequest(c), Quiet(c)'
  PROVE  /\ pc' \in [Conn -> Step] /\ req' \in [Conn -> Request \cup {None}]
         /\ TxInv(c)' /\ KeyReserved(c)' /\ pc'[c] = "idle"
<1>1. /\ pc' \in [Conn -> Step] /\ req' \in [Conn -> Request \cup {None}]
      /\ pc'[c] = "idle"
  BY DEF EndRequest, TypeOK, Step
<1> QED
  BY <1>1 DEF TxInv, KeyReserved

-----------------------------------------------------------------------------
(* The steps up to the commit.                                             *)

LEMMA BeforeCommit ==
  ASSUME DispatchInv, NEW c \in Conn, Dispatch(c),
         \/ \E r \in Request, verdict \in {"permit", "deny"} : Submit(c, r, verdict)
         \/ AuditDenial(c) \/ LookUpMisses(c) \/ RunReads(c) \/ RunCommand(c)
         \/ InsertRecord(c) \/ AuditCommand(c)
  PROVE  DispatchInv'
<1>1. /\ TypeOK /\ LedgerInv /\ LedgerTypeOK /\ SlotSound /\ TxInv(c) /\ KeyReserved(c)
      /\ pc \in [Conn -> Step] /\ req \in [Conn -> Request \cup {None}]
  BY DEF DispatchInv, LedgerInv, TypeOK
<1> USE DEF Finishing
<1> DEFINE Kept == /\ UNCHANGED <<idem, done, emitted, launched, answer, replayed, log>>
                   /\ pc' \in [Conn -> Step] /\ req' \in [Conn -> Request \cup {None}]
<1>2. ASSUME NEW r \in Request, NEW verdict \in {"permit", "deny"}, Submit(c, r, verdict)
      PROVE  DispatchInv'
  <2>1. Kept /\ UNCHANGED dbVars /\ req'[c] = r /\ pc'[c] \in {"deny", "lookup"}
    BY <1>1, <1>2 DEF Submit, Step, dbVars
  <2>2. Quiet(c)'
    BY <1>1, <1>2, <2>1 DEF Submit, TxInv, Quiet, dbVars
  <2>3. TxInv(c)' /\ KeyReserved(c)'
    BY <2>1, <2>2 DEF TxInv, Quiet, Stages, KeyReserved
  <2> QED
    BY <2>1, <2>3, QuietStep
<1>3. CASE AuditDenial(c)
  <2>1. pc[c] = "deny" /\ UNCHANGED dispatchVars /\ staged[c] = << >>
    BY <1>3 DEF AuditDenial, AuditWritten
  <2>2. Stages(c, [type |-> "deny"])' /\ log' = log /\ tx'[c] # "none"
    BY <1>1, <1>3, <2>1, RecordFacts, EntriesAreEntries DEF AuditDenial
  <2>3. Kept /\ pc'[c] = "deny" /\ req'[c] = req[c]
    BY <1>1, <2>1, <2>2 DEF dispatchVars
  <2>4. TxInv(c)' /\ KeyReserved(c)'
    BY <1>1, <2>1, <2>2, <2>3 DEF TxInv, KeyReserved
  <2> QED
    BY <2>3, <2>4, QuietStep
<1>4. CASE LookUpMisses(c)
  <2>1. Kept /\ pc'[c] = "run" /\ req'[c] = req[c]
    BY <1>1, <1>4 DEF LookUpMisses, BeginDeferred, GoTo, Step
  <2>2. TxInv(c)' /\ KeyReserved(c)'
    BY <1>1, <1>4, <2>1 DEF LookUpMisses, BeginDeferred, TxInv, Quiet, KeyReserved, LedgerTypeOK
  <2> QED
    BY <2>1, <2>2, QuietStep
<1>5. CASE RunReads(c)
  <2>1. Kept /\ pc'[c] = "run" /\ req'[c] = req[c]
    BY <1>1, <1>5 DEF RunReads, FirstRead, dispatchVars
  <2>2. TxInv(c)' /\ KeyReserved(c)'
    BY <1>1, <1>5, <2>1 DEF RunReads, FirstRead, TxInv, KeyReserved, LedgerTypeOK
  <2> QED
    BY <2>1, <2>2, QuietStep
<1>6. CASE RunCommand(c)
  <2>1. Kept /\ pc'[c] = "insert" /\ req'[c] = req[c]
    BY <1>1, <1>6 DEF RunCommand, CallerWrites, GoTo, Step, dbVars
  <2>2. TxInv(c)' /\ KeyReserved(c)'
    BY <1>1, <1>6, <2>1 DEF RunCommand, CallerWrites, TakeSlot, TxInv, KeyReserved, LedgerTypeOK, dbVars
  <2> QED
    BY <2>1, <2>2, QuietStep
<1>7. CASE InsertRecord(c)
  <2>1. Kept /\ pc'[c] = "audit" /\ req'[c] = req[c]
    BY <1>1, <1>7 DEF InsertRecord, GoTo, Step
  <2>2. KeyReserved(c)'
    BY <1>7, <2>1 DEF InsertRecord, KeyIsFresh, KeyReserved
  <2>3. TxInv(c)'
    BY <1>1, <1>7, <2>1 DEF InsertRecord, TakeSlot, TxInv, Stages, LedgerTypeOK
  <2> QED
    BY <2>1, <2>2, <2>3, QuietStep
<1>8. CASE AuditCommand(c)
  <2>1. pc[c] = "audit" /\ UNCHANGED dispatchVars /\ staged[c] = << >> /\ tx[c] = "writer"
    BY <1>1, <1>8 DEF AuditCommand, AuditWritten, TxInv
  <2>2. PermitEntry(c) \in Entry
    BY <1>1, <2>1, EntriesAreEntries DEF TxInv
  <2>3. /\ \A e \in Entry : e = PermitEntry(c) => Stages(c, e)'
        /\ log' = log /\ tx'[c] = "writer"
    BY <1>1, <1>8, <2>1, <2>2, RecordFacts DEF AuditCommand
  <2>4. Kept /\ pc'[c] = "audit" /\ req'[c] = req[c]
    BY <1>1, <2>1, <2>3 DEF dispatchVars
  <2>5. PermitEntry(c)' = PermitEntry(c)
    BY <2>4 DEF PermitEntry
  <2>6. Stages(c, PermitEntry(c))'
    BY <2>2, <2>3, <2>5 DEF Stages
  <2>7. TxInv(c)' /\ KeyReserved(c)'
    BY <1>1, <2>1, <2>3, <2>4, <2>6 DEF TxInv, KeyReserved
  <2> QED
    BY <2>4, <2>7, QuietStep
<1> QED
  BY <1>2, <1>3, <1>4, <1>5, <1>6, <1>7, <1>8

LEMMA FailStep ==
  ASSUME DispatchInv, NEW c \in Conn, Dispatch(c), Fail(c) \/ Crash(c)
  PROVE  DispatchInv'
<1>1. TypeOK /\ LedgerTypeOK
  BY DEF DispatchInv, LedgerInv
<1>2. /\ EndRequest(c)
      /\ UNCHANGED <<idem, done, emitted, launched, answer, replayed>>
  BY DEF Fail, Crash
<1>3. Quiet(c)' /\ log' = log
  <2>1. CASE Fail(c)
    BY <1>1, <2>1, EndFacts DEF Fail, Rollback
  <2>2. CASE Crash(c)
    BY <2>2, AbandonFacts DEF Crash
  <2> QED
    BY <2>1, <2>2
<1>4. /\ pc' \in [Conn -> Step] /\ req' \in [Conn -> Request \cup {None}]
      /\ TxInv(c)' /\ KeyReserved(c)' /\ pc'[c] \notin Finishing
  BY <1>1, <1>2, <1>3, EndedInOrder DEF Finishing
<1> QED
  BY <1>2, <1>3, <1>4, QuietStep

\* An answer from a key's record was given to the payload in it.
LEMMA ReplayStep ==
  ASSUME DispatchInv, NEW c \in Conn, Dispatch(c), Replay(c)
  PROVE  DispatchInv'
<1> DEFINE key == req[c].key
           payload == req[c].payload
<1>1. /\ TypeOK /\ TxInv(c) /\ replayed \in [Key -> SUBSET Payload]
      /\ \A k \in Key : RecordInv(k)
      /\ idem \in [Key -> Record \cup {None}]
  BY DEF DispatchInv, TypeOK
<1>2. /\ req[c] \in Request /\ Quiet(c) /\ idem[key] # None /\ key \in Key /\ payload \in Payload
      /\ EndRequest(c) /\ UNCHANGED <<dbVars, idem, done, emitted, launched, answer>>
  BY <1>1 DEF Replay, TxInv, Request
<1>3. Quiet(c)'
  BY <1>2 DEF Quiet, dbVars
<1>4. /\ pc' \in [Conn -> Step] /\ req' \in [Conn -> Request \cup {None}]
      /\ TxInv(c)' /\ KeyReserved(c)' /\ pc'[c] \notin Finishing
  BY <1>1, <1>2, <1>3, EndedInOrder DEF Finishing
<1>5. /\ replayed' \in [Key -> SUBSET Payload]
      /\ \A k \in Key \ LegacyKey : \A p \in replayed'[k] :
           p \in replayed[k] \/ (k = key /\ p = payload /\ idem[k].payload \in {None, p})
  BY <1>1, <1>2 DEF Replay, SamePayload
<1>6. ASSUME NEW k \in Key PROVE RecordInv(k)'
  <2>1. CASE k \in LegacyKey
    BY <1>1, <1>2, <2>1 DEF RecordInv
  <2>2. CASE k \notin LegacyKey
    <3>1. OneRow(k)' /\ done'[k] = (IF idem'[k] = None THEN 0 ELSE 1)
      BY <1>1, <1>2, <2>2 DEF RecordInv, OneRow, Audited, dbVars
    <3>2. idem[k] # None => idem[k].payload # None
      <4>1. ASSUME idem[k] # None PROVE idem[k].payload # None
        <5>1. PICK i \in 1..Len(log) : Audited(k) = {i} /\ log[i].entry.payload = idem[k].payload
          BY <1>1, <2>2, <4>1 DEF RecordInv, OneRow
        <5>2. log[i] \in Row /\ log[i].entry.type = "permit"
          BY <5>1 DEF DispatchInv, LedgerInv, LedgerTypeOK, Audited
        <5>3. log[i].entry.payload \in Payload
          BY <5>2, DispatchAssumption DEF Row, AuditEntry
        <5> QED
          BY <5>1, <5>3, DispatchAssumption
      <4> QED
        BY <4>1
    <3>3. ASSUME NEW p \in replayed'[k] PROVE idem[k] # None /\ idem[k].payload = p
      BY <1>1, <1>2, <1>5, <2>2, <3>2 DEF RecordInv
    <3> QED
      BY <1>2, <2>2, <3>1, <3>3 DEF RecordInv
  <2> QED
    BY <2>1, <2>2
<1> QED
  BY <1>2, <1>4, <1>5, <1>6, CalmStep

-----------------------------------------------------------------------------
(* Commits.                                                                *)

\* Committing one staged row puts it behind the others.
LEMMA CommitFacts ==
  ASSUME LedgerTypeOK, NEW c \in Conn, CommitTx(c), NEW e \in Entry, NEW h \in Hash,
         staged[c] = <<NewRow(h, e)>>
  PROVE  /\ Len(log) \in Nat /\ Len(log') = Len(log) + 1
         /\ log'[Len(log) + 1].entry = e
         /\ \A i \in 1..Len(log) : log'[i] = log[i]
<1> DEFINE r == NewRow(h, e)
<1>1. r \in Row /\ r.entry = e
  BY NewRowType
<1> HIDE DEF r
<1>2. log \in Seq(Row) /\ log' = log \o <<r>>
  BY DEF CommitTx, LedgerTypeOK, r
<1> QED
  BY <1>1, <1>2

\* A row that is not of key k leaves its audit rows alone.
LEMMA OtherRowsKept ==
  ASSUME NEW k, Len(log) \in Nat, Len(log') = Len(log) + 1,
         \A i \in 1..Len(log) : log'[i] = log[i],
         ~(log'[Len(log) + 1].entry.type = "permit" /\ log'[Len(log) + 1].entry.key = k)
  PROVE  Audited(k)' = Audited(k)
  BY DEF Audited

LEMMA RefuseStep ==
  ASSUME DispatchInv, NEW c \in Conn, Dispatch(c), RefuseDenied(c)
  PROVE  DispatchInv'
<1>1. /\ TypeOK /\ LedgerTypeOK /\ TxInv(c) /\ pc[c] = "deny"
      /\ EndRequest(c) /\ UNCHANGED <<idem, done, emitted, launched, answer, replayed>>
      /\ replayed' \in [Key -> SUBSET Payload]
  BY DEF DispatchInv, LedgerInv, RefuseDenied, TypeOK
<1>2. Quiet(c)'
  BY <1>1, EndFacts, AbandonFacts DEF RefuseDenied
<1>3. /\ pc' \in [Conn -> Step] /\ req' \in [Conn -> Request \cup {None}]
      /\ TxInv(c)' /\ KeyReserved(c)' /\ pc'[c] \notin Finishing
  BY <1>1, <1>2, EndedInOrder DEF Finishing
<1>4. CASE Abandon(c)
  <2>1. log' = log
    BY <1>1, <1>4, AbandonFacts
  <2> QED
    BY <1>1, <1>3, <2>1, QuietStep
<1>5. CASE AuditWritten(c) /\ CommitTx(c)
  <2>1. PICK h \in Hash : staged[c] = <<NewRow(h, [type |-> "deny"])>>
    BY <1>1, <1>5 DEF AuditWritten, TxInv, Stages
  <2>2. /\ Len(log) \in Nat /\ Len(log') = Len(log) + 1
        /\ log'[Len(log) + 1].entry = [type |-> "deny"]
        /\ \A i \in 1..Len(log) : log'[i] = log[i]
    BY <1>1, <1>5, <2>1, CommitFacts, EntriesAreEntries
  <2>3. ASSUME NEW k \in Key PROVE RecordInv(k)'
    <3>1. Audited(k)' = Audited(k)
      BY <2>2, OtherRowsKept
    <3>2. RecordInv(k)
      BY DEF DispatchInv
    <3>3. OneRow(k) => OneRow(k)'
      BY <1>1, <2>2, <3>1 DEF OneRow
    <3> QED
      BY <1>1, <3>2, <3>3 DEF RecordInv
  <2> QED
    BY <1>1, <1>3, <2>3, CalmStep
<1> QED
  BY <1>4, <1>5 DEF RefuseDenied

\* The command, its record and its audit row become durable in one step.
LEMMA CommitStep ==
  ASSUME DispatchInv, NEW c \in Conn, Dispatch(c), Commit(c)
  PROVE  DispatchInv'
<1>1. /\ TypeOK /\ LedgerTypeOK /\ SlotSound /\ TxInv(c) /\ KeyReserved(c)
      /\ pc \in [Conn -> Step] /\ req \in [Conn -> Request \cup {None}]
      /\ idem \in [Key -> Record \cup {None}] /\ done \in [Key -> Nat]
      /\ emitted \in [Key -> Nat] /\ launched \in [Key -> Nat]
      /\ answer \in [Key -> {"none", "ok", "problem"}]
      /\ \A k \in Key : RecordInv(k) /\ EffectInv(k)
      /\ \A d \in Conn : TxInv(d) /\ KeyReserved(d) /\ FinishInv(d)
  BY DEF DispatchInv, LedgerInv, TypeOK
<1>a. /\ req[c] \in Request /\ pc[c] = "audit" /\ CommitTx(c) /\ staged[c] # << >>
      /\ idem[req[c].key] = None
  BY <1>1 DEF Commit, TxInv, KeyReserved, AuditWritten
<1>b. PICK key \in Key, payload \in Payload : req[c].key = key /\ req[c].payload = payload
  BY <1>a DEF Request
<1>2. /\ req[c] \in Request /\ req[c].key = key /\ req[c].payload = payload
      /\ idem[key] = None /\ pc[c] = "audit" /\ CommitTx(c) /\ staged[c] # << >>
  BY <1>a, <1>b
<1> DEFINE record == [payload |-> payload, result |-> "completed"]
<1>3. record \in Record /\ record # None
  BY <1>2, DispatchAssumption DEF Record
<1>4. /\ idem' = [idem EXCEPT ![key] = record]
      /\ done' = [done EXCEPT ![key] = @ + 1]
      /\ pc' = [pc EXCEPT ![c] = "finish"]
      /\ UNCHANGED <<req, emitted, launched, answer, replayed>>
  BY <1>2 DEF Commit, GoTo
<1> HIDE DEF record
<1>5. LedgerInv' /\ OthersKept(c)
  BY LedgerStep, OthersAreKept
<1>6. TypeOK'
  BY <1>1, <1>2, <1>3, <1>4, <1>5 DEF TypeOK, LedgerInv, Step
<1>7. /\ idem'[key] = record /\ done'[key] = done[key] + 1
      /\ \A k \in Key \ {key} : idem'[k] = idem[k] /\ done'[k] = done[k]
  BY <1>1, <1>2, <1>4
<1>8. key \notin LegacyKey /\ done[key] = 0 /\ Audited(key) = {} /\ replayed[key] = {}
  BY <1>1, <1>2 DEF RecordInv, OneRow
<1>9. emitted[key] = 0 /\ launched[key] = 0 /\ answer[key] = "none"
  <2>1. emitted[key] \in Nat /\ launched[key] \in Nat /\ answer[key] \in {"none", "ok", "problem"}
    BY <1>1
  <2>2. EffectInv(key) /\ done[key] = 0
    BY <1>1, <1>8
  <2>3. emitted[key] = 0 /\ launched[key] = 0
    BY <2>1, <2>2 DEF EffectInv
  <2>4. answer[key] # "ok" /\ answer[key] # "problem"
    BY <2>2, <2>3 DEF EffectInv
  <2> QED
    BY <2>1, <2>3, <2>4
<1>10. ASSUME NEW d \in Conn PROVE TxInv(d)' /\ KeyReserved(d)' /\ FinishInv(d)'
  <2>1. CASE d = c
    <3>1. Quiet(c)'
      BY <1>1, <1>2, EndFacts
    <3>2. pc'[c] = "finish" /\ req'[c] = req[c]
      BY <1>1, <1>4
    <3>3. TxInv(c)' /\ KeyReserved(c)'
      BY <1>2, <3>1, <3>2 DEF TxInv, KeyReserved, Finishing
    <3>4. FinishInv(c)'
      BY <1>2, <1>3, <1>4, <1>7, <1>8, <1>9, <3>2 DEF FinishInv, record
    <3> QED
      BY <2>1, <3>3, <3>4
  <2>2. CASE d # c
    <3>1. TxInv(d)'
      BY <1>1, <1>5, <2>2 DEF OthersKept, TxInv, Quiet, Stages, PermitEntry
    <3>2. pc[d] # "audit"
      BY <1>1, <1>2, <2>2 DEF TxInv, SlotSound, HoldsSlot
    <3>3. KeyReserved(d)'
      BY <1>5, <2>2, <3>2 DEF OthersKept, KeyReserved
    <3>4. ASSUME pc[d] \in Finishing PROVE req[d].key \in Key \ {key}
      <4>1. req[d] \in Request /\ idem[req[d].key] # None
        BY <1>1, <3>4 DEF TxInv, FinishInv, Finishing
      <4> QED
        BY <1>2, <4>1 DEF Request
    <3>5. FinishInv(d)'
      BY <1>1, <1>4, <1>5, <1>7, <2>2, <3>4 DEF OthersKept, FinishInv
    <3> QED
      BY <3>1, <3>3, <3>5
  <2> QED
    BY <2>1, <2>2
<1>11. OneFinisher'
  <2>1. ASSUME NEW d \in Conn \ {c}, pc[d] \in Finishing PROVE req[d].key # key
    BY <1>1, <1>2, <2>1 DEF FinishInv
  <2>2. OneFinisher
    BY DEF DispatchInv
  <2>3. \A d \in Conn \ {c} : pc'[d] = pc[d]
    BY <1>1, <1>4
  <2>4. ASSUME NEW a \in Conn, NEW b \in Conn, a # b, pc'[a] \in Finishing, pc'[b] \in Finishing
        PROVE  req[a].key # req[b].key
    <3>1. CASE a = c
      BY <1>2, <2>1, <2>3, <2>4, <3>1
    <3>2. CASE b = c
      BY <1>2, <2>1, <2>3, <2>4, <3>2
    <3>3. CASE a # c /\ b # c
      BY <2>2, <2>3, <2>4, <3>3 DEF OneFinisher
    <3> QED
      BY <3>1, <3>2, <3>3
  <2> QED
    BY <1>4, <2>4 DEF OneFinisher
<1>12. PICK h \in Hash : staged[c] = <<NewRow(h, PermitEntry(c))>>
  BY <1>1, <1>2 DEF TxInv, Stages
<1>13. /\ Len(log) \in Nat /\ Len(log') = Len(log) + 1
       /\ log'[Len(log) + 1].entry = PermitEntry(c)
       /\ \A i \in 1..Len(log) : log'[i] = log[i]
  <2>1. PermitEntry(c) \in Entry
    BY <1>2, EntriesAreEntries
  <2> QED
    BY <1>1, <1>2, <1>12, <2>1, CommitFacts
<1>14. ASSUME NEW k \in Key PROVE RecordInv(k)'
  <2>1. CASE k = key
    <3>1. Audited(key)' = {Len(log) + 1} /\ log'[Len(log) + 1].entry.payload = payload
      BY <1>2, <1>8, <1>13 DEF Audited, PermitEntry
    <3>2. OneRow(key)'
      BY <1>3, <1>7, <1>13, <3>1 DEF OneRow, record
    <3> QED
      BY <1>3, <1>4, <1>7, <1>8, <2>1, <3>2 DEF RecordInv
  <2>2. CASE k # key
    <3>1. Audited(k)' = Audited(k)
      BY <1>2, <1>13, <2>2, OtherRowsKept DEF PermitEntry
    <3>2. OneRow(k) => OneRow(k)'
      BY <1>7, <1>13, <2>2, <3>1 DEF OneRow
    <3> QED
      BY <1>1, <1>4, <1>7, <2>2, <3>2 DEF RecordInv
  <2> QED
    BY <2>1, <2>2
<1>15. ASSUME NEW k \in Key PROVE EffectInv(k)'
  <2>1. CASE k = key
    BY <1>4, <1>7, <1>8, <1>9, <2>1 DEF EffectInv, record
  <2>2. CASE k # key
    BY <1>1, <1>4, <1>7, <2>2 DEF EffectInv
  <2> QED
    BY <2>1, <2>2
<1> QED
  BY <1>5, <1>6, <1>10, <1>11, <1>14, <1>15 DEF DispatchInv

-----------------------------------------------------------------------------
(* finish.                                                                 *)

LEMMA FinishStep ==
  ASSUME DispatchInv, NEW c \in Conn, Dispatch(c),
         EmitEvents(c) \/ Launch(c) \/ LaunchFails(c) \/ Respond(c)
  PROVE  DispatchInv'
<1>1. /\ TypeOK /\ LedgerTypeOK /\ TxInv(c) /\ FinishInv(c) /\ OneFinisher
      /\ pc \in [Conn -> Step] /\ req \in [Conn -> Request \cup {None}]
      /\ idem \in [Key -> Record \cup {None}] /\ done \in [Key -> Nat]
      /\ emitted \in [Key -> Nat] /\ launched \in [Key -> Nat]
      /\ answer \in [Key -> {"none", "ok", "problem"}]
      /\ \A k \in Key : RecordInv(k) /\ EffectInv(k)
      /\ \A d \in Conn : TxInv(d) /\ KeyReserved(d) /\ FinishInv(d)
  BY DEF DispatchInv, LedgerInv, TypeOK
<1>2. pc[c] \in Finishing /\ UNCHANGED <<log, recPc, tx, staged, done, replayed>>
  BY DEF EmitEvents, Launch, LaunchFails, Respond, dbVars, Finishing
<1>a. PICK key \in Key, payload \in Payload : req[c].key = key /\ req[c].payload = payload
  BY <1>1, <1>2 DEF TxInv, Request, Finishing
<1>3. /\ req[c] \in Request /\ req[c].key = key /\ key \notin LegacyKey
      /\ idem[key] # None /\ idem[key].payload = payload /\ answer[key] = "none"
      /\ pc[c] # "problem" => idem[key].result = "completed"
      /\ pc[c] = "problem" => payload \in Launches
      /\ IF pc[c] = "reply" THEN emitted[key] + launched[key] = 1
                             ELSE emitted[key] = 0 /\ launched[key] = 0
  BY <1>1, <1>2, <1>a DEF TxInv, FinishInv, Finishing
<1>4. idem[key] \in Record /\ idem[key] # None /\ done[key] = 1
  BY <1>1, <1>3 DEF RecordInv
<1>b. /\ pc' \in [Conn -> Step] /\ req' \in [Conn -> Request \cup {None}]
      /\ \/ /\ ~Respond(c) /\ pc[c] = "finish" /\ req' = req /\ answer' = answer
            /\ pc'[c] \in {"reply", "problem"}
         \/ /\ Respond(c) /\ pc'[c] = "idle"
            /\ answer'[key] = IF pc[c] = "reply" THEN "ok" ELSE "problem"
            /\ pc[c] \in {"reply", "problem"} /\ UNCHANGED <<idem, emitted, launched>>
  BY <1>1, <1>3 DEF EmitEvents, Launch, LaunchFails, Respond, GoTo, EndRequest, Step
<1>5. /\ \A k \in Key \ {key} : /\ idem'[k] = idem[k] /\ emitted'[k] = emitted[k]
                               /\ launched'[k] = launched[k] /\ answer'[k] = answer[k]
      /\ idem' \in [Key -> Record \cup {None}]
      /\ emitted' \in [Key -> Nat] /\ launched' \in [Key -> Nat]
      /\ answer' \in [Key -> {"none", "ok", "problem"}]
      /\ idem'[key] # None /\ idem'[key].payload = idem[key].payload
      /\ \/ /\ pc'[c] = "reply" /\ pc[c] = "finish" /\ answer'[key] = "none"
            /\ emitted'[key] + launched'[key] = 1 /\ idem'[key].result = "completed"
         \/ /\ pc'[c] = "problem" /\ pc[c] = "finish" /\ answer'[key] = "none"
            /\ emitted'[key] = 0 /\ launched'[key] = 0 /\ payload \in Launches
         \/ /\ pc'[c] = "idle" /\ pc[c] = "reply" /\ answer'[key] = "ok"
            /\ emitted'[key] + launched'[key] = 1 /\ idem'[key].result = "completed"
         \/ /\ pc'[c] = "idle" /\ pc[c] = "problem" /\ answer'[key] = "problem"
            /\ emitted'[key] = 0 /\ launched'[key] = 0
  <2>1. CASE EmitEvents(c)
    BY <1>1, <1>3, <1>4, <2>1 DEF EmitEvents, GoTo
  <2>2. CASE Launch(c)
    BY <1>1, <1>3, <1>4, <2>2 DEF Launch, GoTo
  <2>3. CASE LaunchFails(c)
    <3> DEFINE failed == [payload |-> idem[key].payload, result |-> "failed_to_launch"]
    <3>1. failed \in Record /\ failed # None
      BY <1>4, DispatchAssumption DEF Record
    <3>2. failed.payload = idem[key].payload
      OBVIOUS
    <3>3. idem' = [idem EXCEPT ![key] = failed] \/ idem' = idem
      BY <1>3, <2>3 DEF LaunchFails
    <3> HIDE DEF failed
    <3>4. pc'[c] = "problem" /\ pc[c] = "finish" /\ UNCHANGED <<emitted, launched, answer>>
      BY <1>1, <2>3 DEF LaunchFails, GoTo
    <3> QED
      BY <1>1, <1>3, <1>4, <1>a, <2>3, <3>1, <3>2, <3>3, <3>4 DEF LaunchFails
  <2>4. CASE Respond(c)
    BY <1>1, <1>3, <1>4, <2>4 DEF Respond, EndRequest
  <2> QED
    BY <2>1, <2>2, <2>3, <2>4
<1>6. LedgerInv' /\ OthersKept(c)
  BY LedgerStep, OthersAreKept
<1>7. Quiet(c)'
  BY <1>1, <1>2 DEF TxInv, Quiet
<1>8. TxInv(c)' /\ KeyReserved(c)' /\ FinishInv(c)'
  <2>1. pc'[c] \in {"idle", "reply", "problem"} /\ (pc'[c] # "idle" => req'[c] = req[c])
    BY <1>5, <1>b
  <2>2. TxInv(c)' /\ KeyReserved(c)'
    BY <1>3, <1>7, <2>1 DEF TxInv, KeyReserved, Finishing
  <2>3. FinishInv(c)'
    BY <1>3, <1>5, <1>a, <2>1 DEF FinishInv, Finishing
  <2> QED
    BY <2>2, <2>3
<1>9. TypeOK'
  BY <1>1, <1>2, <1>5, <1>6, <1>b DEF TypeOK, LedgerInv
<1>10. ASSUME NEW d \in Conn PROVE TxInv(d)' /\ KeyReserved(d)' /\ FinishInv(d)'
  <2>1. CASE d = c
    BY <1>8, <2>1
  <2>2. CASE d # c
    <3>1. TxInv(d)'
      BY <1>1, <1>6, <2>2 DEF OthersKept, TxInv, Quiet, Stages, PermitEntry
    <3>2. KeyReserved(d)'
      <4>1. ASSUME pc[d] = "audit" PROVE req[d].key \in Key \ {key}
        BY <1>1, <1>4, <4>1 DEF TxInv, KeyReserved, Request
      <4> QED
        BY <1>1, <1>5, <1>6, <2>2, <4>1 DEF OthersKept, KeyReserved
    <3>3. FinishInv(d)'
      <4>1. ASSUME pc[d] \in Finishing PROVE req[d].key \in Key \ {key}
        <5>1. req[d] \in Request
          BY <1>1, <4>1 DEF TxInv, Finishing
        <5> QED
          BY <1>1, <1>2, <1>3, <2>2, <4>1, <5>1 DEF OneFinisher, Request
      <4>2. FinishInv(d) /\ pc'[d] = pc[d] /\ req'[d] = req[d]
        BY <1>1, <1>6, <2>2 DEF OthersKept
      <4>3. ASSUME pc[d] \in Finishing, NEW k \in Key \ {key}, req[d].key = k
            PROVE  FinishInv(d)'
        <5>1. /\ k \notin LegacyKey
              /\ idem[k] # None /\ idem[k].payload = req[d].payload /\ answer[k] = "none"
              /\ pc[d] # "problem" => idem[k].result = "completed"
              /\ pc[d] = "problem" => req[d].payload \in Launches
              /\ IF pc[d] = "reply" THEN emitted[k] + launched[k] = 1
                                     ELSE emitted[k] = 0 /\ launched[k] = 0
          BY <4>2, <4>3 DEF FinishInv
        <5>2. /\ idem'[k] = idem[k] /\ emitted'[k] = emitted[k]
              /\ launched'[k] = launched[k] /\ answer'[k] = answer[k]
          BY <1>5
        <5> QED
          BY <4>2, <4>3, <5>1, <5>2 DEF FinishInv
      <4> QED
        BY <4>1, <4>2, <4>3 DEF FinishInv
    <3> QED
      BY <3>1, <3>2, <3>3
  <2> QED
    BY <2>1, <2>2
<1>11. OneFinisher'
  <2>1. pc'[c] \in Finishing => req'[c] = req[c]
    BY <1>5, <1>b DEF Finishing
  <2> QED
    BY <1>1, <1>2, <1>6, <2>1 DEF OthersKept, OneFinisher
<1>12. ASSUME NEW k \in Key PROVE RecordInv(k)' /\ EffectInv(k)'
  <2>1. Audited(k)' = Audited(k)
    BY <1>2 DEF Audited
  <2>2. CASE k = key
    <3>1. OneRow(key)'
      <4>1. PICK i \in 1..Len(log) : Audited(key) = {i} /\ log[i].entry.payload = idem[key].payload
        BY <1>1, <1>3, <1>4 DEF RecordInv, OneRow
      <4>2. Audited(key)' = {i} /\ log'[i].entry.payload = idem'[key].payload /\ i \in 1..Len(log')
        BY <1>2, <1>5, <2>1, <2>2, <4>1
      <4> QED
        BY <1>5, <4>2 DEF OneRow
    <3>2. RecordInv(key)'
      BY <1>1, <1>2, <1>3, <1>4, <1>5, <3>1 DEF RecordInv
    <3>3. EffectInv(key)'
      BY <1>2, <1>4, <1>5 DEF EffectInv
    <3> QED
      BY <2>2, <3>2, <3>3
  <2>3. CASE k # key
    <3>1. /\ idem'[k] = idem[k] /\ emitted'[k] = emitted[k] /\ launched'[k] = launched[k]
          /\ answer'[k] = answer[k] /\ UNCHANGED <<log, done, replayed>>
      BY <1>2, <1>5, <2>3
    <3>2. RecordInv(k)'
      BY <1>1, <2>1, <3>1 DEF RecordInv, OneRow
    <3>3. EffectInv(k)'
      BY <1>1, <3>1 DEF EffectInv
    <3> QED
      BY <3>2, <3>3
  <2> QED
    BY <2>2, <2>3
<1> QED
  BY <1>6, <1>9, <1>10, <1>11, <1>12 DEF DispatchInv

-----------------------------------------------------------------------------
(* The theorems.                                                           *)

LEMMA DispatchInit ==
  ASSUME Init
  PROVE  DispatchInv
<1>1. LedgerInv
  BY InitInv DEF Init
<1> DEFINE legacy == [payload |-> None, result |-> "completed"]
<1>2. legacy \in Record /\ legacy # None /\ legacy.result = "completed"
  BY DispatchAssumption DEF Record
<1>3. /\ idem \in [Key -> Record \cup {None}]
      /\ \A k \in LegacyKey : k \in Key => idem[k] = legacy
      /\ \A k \in Key \ LegacyKey : idem[k] = None
  BY <1>2 DEF Init
<1> HIDE DEF legacy
<1>4. TypeOK
  BY <1>1, <1>3 DEF Init, TypeOK, LedgerInv, Step
<1>5. log = << >> /\ \A c \in Conn : Quiet(c) /\ pc[c] = "idle"
  BY DEF Init, LedgerInit, Quiet
<1>6. \A c \in Conn : TxInv(c) /\ KeyReserved(c) /\ FinishInv(c)
  BY <1>5 DEF TxInv, KeyReserved, FinishInv, Finishing
<1>7. OneFinisher
  BY <1>5 DEF OneFinisher, Finishing
<1>8. ASSUME NEW k \in Key PROVE RecordInv(k) /\ EffectInv(k)
  <2>1. /\ done[k] = 0 /\ emitted[k] = 0 /\ launched[k] = 0
        /\ answer[k] = "none" /\ replayed[k] = {}
    BY DEF Init
  <2>2. Audited(k) = {}
    BY <1>5 DEF Audited
  <2>3. RecordInv(k)
    BY <1>2, <1>3, <2>1, <2>2 DEF RecordInv, OneRow
  <2> QED
    BY <2>1, <2>3 DEF EffectInv
<1> QED
  BY <1>1, <1>4, <1>6, <1>7, <1>8 DEF DispatchInv

LEMMA DispatchStep ==
  ASSUME DispatchInv, [Next]_vars
  PROVE  DispatchInv'
<1>1. ASSUME NEW c \in Conn, Dispatch(c) PROVE DispatchInv'
  BY <1>1, BeforeCommit, FailStep, ReplayStep, RefuseStep, CommitStep, FinishStep DEF Dispatch
<1>2. CASE UNCHANGED vars
  <2>1. UNCHANGED <<log, version, writer, tx, snap, recPc, tail, staged, idem, done, emitted,
                    launched, pc, req, answer, replayed>>
    BY <1>2 DEF vars, dbVars, dispatchVars
  <2>2. LedgerInv'
    BY <2>1, LedgerKept DEF DispatchInv, LedgerInv, LedgerTypeOK
  <2>3. TypeOK' /\ OneFinisher'
    BY <2>1, <2>2 DEF DispatchInv, TypeOK, LedgerInv, OneFinisher
  <2>4. \A c \in Conn : TxInv(c)' /\ KeyReserved(c)' /\ FinishInv(c)'
    BY <2>1 DEF DispatchInv, TxInv, Quiet, Stages, PermitEntry, KeyReserved, FinishInv
  <2>5. \A k \in Key : RecordInv(k)' /\ EffectInv(k)'
    BY <2>1 DEF DispatchInv, RecordInv, OneRow, Audited, EffectInv
  <2> QED
    BY <2>2, <2>3, <2>4, <2>5 DEF DispatchInv
<1> QED
  BY <1>1, <1>2 DEF Next

LEMMA DispatchInvariance == Spec => []DispatchInv
<1>1. Init => DispatchInv
  BY DispatchInit
<1>2. DispatchInv /\ [Next]_vars => DispatchInv'
  BY DispatchStep
<1> QED
  BY <1>1, <1>2, PTL DEF Spec

\* Every variable of the dispatcher and of its database keeps its type, whatever
\* requests race and wherever they fail.
THEOREM TypeCorrect == Spec => []TypeOK
<1>1. DispatchInv => TypeOK
  BY DEF DispatchInv
<1> QED
  BY <1>1, DispatchInvariance, PTL

\* The audit chain the dispatcher writes, one row per committed command and per
\* denial, verifies from its first row at every moment: requests that commit
\* concurrently never chain to the same row.
THEOREM LedgerStaysOneChain == Spec => []LedgerVerifies
<1>1. DispatchInv => LedgerVerifies
  BY DEF DispatchInv, LedgerInv
<1> QED
  BY <1>1, DispatchInvariance, PTL

\* record_outcome: under a key the command is committed at most once, exactly
\* when the key has its record and exactly one audit row.
THEOREM CommandsAreRecordedOnce == Spec => []RecordedAuditedAndDoneOnce
<1>1. ASSUME DispatchInv PROVE RecordedAuditedAndDoneOnce
  <2>1. ASSUME NEW k \in Key \ LegacyKey, idem[k] = None
        PROVE  done[k] = 0 /\ Cardinality(Audited(k)) = 0
    BY <1>1, <2>1, FS_EmptySet DEF DispatchInv, RecordInv, OneRow
  <2>2. ASSUME NEW k \in Key \ LegacyKey, idem[k] # None
        PROVE  done[k] = 1 /\ Cardinality(Audited(k)) = 1
    <3>1. done[k] = 1 /\ OneRow(k)
      BY <1>1, <2>2 DEF DispatchInv, RecordInv
    <3>2. PICK i : Audited(k) = {i}
      BY <2>2, <3>1 DEF OneRow
    <3> QED
      BY <3>1, <3>2, FS_Singleton
  <2> QED
    BY <2>1, <2>2 DEF RecordedAuditedAndDoneOnce
<1> QED
  BY <1>1, DispatchInvariance, PTL

\* finish: events and launches happen at most once per key, only for a durable
\* command, and never under a record that says the launch failed. A client told
\* "ok" has had the effect and one told of a problem has no agent, although the
\* request may have died between the effect and the answer.
THEOREM EffectsAreBound == Spec => []EffectsFollowTheRecord
<1>1. ASSUME DispatchInv PROVE EffectsFollowTheRecord
  <2>1. ASSUME NEW k \in Key PROVE done[k] <= 1
    BY <1>1 DEF DispatchInv, RecordInv
  <2>2. ASSUME NEW k \in Key
        PROVE  emitted[k] \in Nat /\ launched[k] \in Nat /\ done[k] \in Nat
    BY <1>1 DEF DispatchInv, TypeOK
  <2>3. \A k \in Key : EffectInv(k)
    BY <1>1 DEF DispatchInv
  <2>4. \A k \in Key : emitted[k] + launched[k] <= 1
    BY <2>1, <2>2, <2>3 DEF EffectInv
  <2> QED
    BY <2>3, <2>4 DEF EffectInv, EffectsFollowTheRecord
<1> QED
  BY <1>1, DispatchInvariance, PTL

\* replayed_result: a request answered from a key's record asked for the very
\* payload whose execution the ledger shows under that key.
THEOREM ReplaysAreOwn == Spec => []ReplayAnswersItsOwnCommand
<1>1. ASSUME DispatchInv PROVE ReplayAnswersItsOwnCommand
  <2>1. ASSUME NEW k \in Key \ LegacyKey, NEW p \in replayed[k]
        PROVE  \E i \in Audited(k) : log[i].entry.payload = p
    <3>1. idem[k] # None /\ idem[k].payload = p /\ OneRow(k)
      BY <1>1, <2>1 DEF DispatchInv, RecordInv
    <3> QED
      BY <3>1 DEF OneRow
  <2> QED
    BY <2>1 DEF ReplayAnswersItsOwnCommand
<1> QED
  BY <1>1, DispatchInvariance, PTL

\* A key is bound to its first payload for good, and a launch recorded as failed
\* stays failed: the INSERT refuses a key that is there, and the UPDATE of finish
\* touches only the record of its own request.
THEOREM RecordsAreFinal == Spec => RecordIsFinal
<1> DEFINE Final == \A k \in Key : idem[k] # None =>
                        /\ idem'[k] # None /\ idem'[k].payload = idem[k].payload
                        /\ idem[k].result = "failed_to_launch" => idem'[k] = idem[k]
<1>1. ASSUME DispatchInv, Next PROVE Final
  <2>1. PICK c \in Conn : Dispatch(c)
    BY <1>1 DEF Next
  <2>2. CASE idem' = idem
    BY <2>2
  <2>3. ASSUME pc[c] = "audit" \/ pc[c] = "finish"
        PROVE  /\ idem \in [Key -> Record \cup {None}] /\ req[c].key \in Key
               /\ TxInv(c) /\ KeyReserved(c) /\ FinishInv(c)
    BY <1>1, <2>3 DEF DispatchInv, TypeOK, TxInv, Request
  <2>4. CASE Commit(c)
    <3>1. idem[req[c].key] = None /\ \A k \in Key : k # req[c].key => idem'[k] = idem[k]
      BY <2>3, <2>4 DEF Commit, KeyReserved
    <3> QED
      BY <3>1
  <2>5. CASE LaunchFails(c)
    <3> DEFINE failed == [payload |-> idem[req[c].key].payload, result |-> "failed_to_launch"]
    <3>1. /\ req[c].key \in Key /\ pc[c] = "finish" /\ idem \in [Key -> Record \cup {None}]
          /\ FinishInv(c) /\ TxInv(c)
      BY <2>3, <2>5 DEF LaunchFails
    <3>2. idem[req[c].key].result = "completed" /\ idem[req[c].key] \in Record
      BY <3>1 DEF FinishInv, Finishing
    <3>3. failed # None /\ failed.payload = idem[req[c].key].payload
      BY <3>2, DispatchAssumption DEF Record
    <3>4. idem' = idem \/ idem' = [idem EXCEPT ![req[c].key] = failed]
      BY <2>5 DEF LaunchFails
    <3> HIDE DEF failed
    <3> QED
      BY <3>1, <3>2, <3>3, <3>4
  <2> HIDE DEF Final
  <2> QED
    BY <2>1, <2>2, <2>4, <2>5 DEF Dispatch, Submit, AuditDenial, RefuseDenied, Replay, LookUpMisses,
       RunReads, RunCommand, InsertRecord, AuditCommand, Fail, EmitEvents, Launch, Respond, Crash,
       dispatchVars
<1>2. DispatchInv /\ [Next]_vars => [Final]_vars
  BY <1>1
<1> QED
  BY <1>2, DispatchInvariance, PTL DEF Spec, RecordIsFinal

-----------------------------------------------------------------------------
(* The dispatcher implements the registry of CommandOnce.                  *)

LEMMA RegistryInit == Init => Registry!Init
<1> SUFFICES ASSUME Init PROVE Registry!Init
  OBVIOUS
<1>1. registryBound = [k \in Key |-> None]
  BY DEF Init, registryBound
<1>2. registryAudited = {}
  BY DEF Init, LedgerInit, registryAudited, Permits
<1>3. registryEffects = [k \in Key |-> 0]
  BY DEF Init, registryEffects
<1>4. registryFailed = {}
  <2>1. ASSUME NEW k \in Key, idem[k] # None PROVE idem[k].result = "completed"
    BY <2>1 DEF Init
  <2> QED
    BY <2>1 DEF registryFailed
<1> QED
  BY <1>1, <1>2, <1>3, <1>4 DEF Registry!Init, Init

\* A step that leaves the records, the outcomes and the commands' rows alone is
\* not seen by the registry.
LEMMA RegistryKept ==
  ASSUME UNCHANGED <<idem, done, emitted, launched, answer, replayed, registryAudited>>
  PROVE  UNCHANGED Registry!vars
  BY DEF Registry!vars, registryBound, registryEffects, registryFailed

LEMMA SameLogSameAudit ==
  ASSUME log' = log
  PROVE  registryAudited' = registryAudited
  BY DEF registryAudited, Permits

\* Up to the commit, and after a refusal, a failure or a crash, nothing shows.
LEMMA QuietStepsAreStutters ==
  ASSUME DispatchInv, NEW c \in Conn,
         \/ \E r \in Request, verdict \in {"permit", "deny"} : Submit(c, r, verdict)
         \/ AuditDenial(c) \/ RefuseDenied(c) \/ LookUpMisses(c) \/ RunReads(c)
         \/ RunCommand(c) \/ InsertRecord(c) \/ AuditCommand(c) \/ Fail(c) \/ Crash(c)
  PROVE  UNCHANGED Registry!vars
<1>1. UNCHANGED <<idem, done, emitted, launched, answer, replayed>>
  BY DEF Submit, AuditDenial, RefuseDenied, LookUpMisses, RunReads, RunCommand, InsertRecord,
     AuditCommand, Fail, Crash, dispatchVars
<1>2. CASE log' = log
  BY <1>1, <1>2, SameLogSameAudit, RegistryKept
<1>3. CASE RefuseDenied(c) /\ AuditWritten(c) /\ CommitTx(c)
  <2>1. LedgerTypeOK /\ TxInv(c)
    BY DEF DispatchInv, LedgerInv
  <2>2. PICK h \in Hash : staged[c] = <<NewRow(h, [type |-> "deny"])>>
    BY <1>3, <2>1 DEF RefuseDenied, AuditWritten, TxInv, Stages
  <2>3. /\ Len(log) \in Nat /\ Len(log') = Len(log) + 1
        /\ log'[Len(log) + 1].entry = [type |-> "deny"]
        /\ \A i \in 1..Len(log) : log'[i] = log[i]
    BY <1>3, <2>1, <2>2, CommitFacts, EntriesAreEntries
  <2>4. Permits' = Permits
    BY <2>3 DEF Permits
  <2>5. registryAudited' = registryAudited
    BY <2>3, <2>4 DEF registryAudited, Permits
  <2> QED
    BY <1>1, <2>5, RegistryKept
<1>4. CASE RefuseDenied(c) /\ Abandon(c)
  <2>1. log' = log
    BY <1>4, AbandonFacts DEF RefuseDenied
  <2> QED
    BY <1>2, <2>1
<1>5. CASE Crash(c)
  <2>1. log' = log
    BY <1>5, AbandonFacts DEF Crash
  <2> QED
    BY <1>2, <2>1
<1>6. CASE \/ \E r \in Request, verdict \in {"permit", "deny"} : Submit(c, r, verdict)
           \/ AuditDenial(c) \/ LookUpMisses(c) \/ RunReads(c)
           \/ RunCommand(c) \/ InsertRecord(c) \/ AuditCommand(c) \/ Fail(c)
  <2>1. log' = log
    BY <1>6 DEF Submit, AuditDenial, LookUpMisses, RunReads, RunCommand, InsertRecord,
       AuditCommand, Fail, dbVars, EnterRecord, ReadTail, InsertRow, BeginDeferred, FirstRead,
       CallerWrites, Rollback, EndTx
  <2> QED
    BY <1>2, <2>1
<1> QED
  BY <1>3, <1>4, <1>5, <1>6 DEF RefuseDenied

\* Commit binds the key, executes the command and audits it in one step.
LEMMA CommitExecutes ==
  ASSUME DispatchInv, NEW c \in Conn, Commit(c)
  PROVE  \E k \in Key, p \in Payload : Registry!Execute(k, p)
<1>1. /\ LedgerTypeOK /\ TxInv(c) /\ KeyReserved(c)
      /\ idem \in [Key -> Record \cup {None}] /\ done \in [Key -> Nat]
      /\ \A k \in Key : RecordInv(k)
  BY DEF DispatchInv, LedgerInv, TypeOK
<1>2. /\ req[c] \in Request /\ CommitTx(c) /\ staged[c] # << >> /\ idem[req[c].key] = None
      /\ pc[c] = "audit"
  BY <1>1 DEF Commit, TxInv, KeyReserved, AuditWritten
<1>3. PICK key \in Key, payload \in Payload : req[c].key = key /\ req[c].payload = payload
  BY <1>2 DEF Request
<1> DEFINE record == [payload |-> payload, result |-> "completed"]
<1>4. record # None /\ record.payload = payload /\ record.result = "completed"
  BY DispatchAssumption DEF Record
<1>5. /\ idem' = [idem EXCEPT ![key] = record] /\ done' = [done EXCEPT ![key] = @ + 1]
      /\ UNCHANGED <<emitted, launched, answer, replayed>>
  BY <1>3 DEF Commit
<1> HIDE DEF record
<1>6. key \notin LegacyKey /\ idem[key] = None
  BY <1>1, <1>2, <1>3 DEF RecordInv
<1>7. /\ registryBound[key] = None
      /\ registryBound' = [registryBound EXCEPT ![key] = payload]
  BY <1>1, <1>4, <1>5, <1>6 DEF registryBound
<1>8. registryFailed' = registryFailed
  BY <1>1, <1>4, <1>5, <1>6 DEF registryFailed
<1>9. PICK h \in Hash : staged[c] = <<NewRow(h, PermitEntry(c))>>
  BY <1>1, <1>2 DEF TxInv, Stages
<1> DEFINE n == Len(log) + 1
<1>10. /\ Len(log) \in Nat /\ Len(log') = n
       /\ log'[n].entry = PermitEntry(c)
       /\ \A i \in 1..Len(log) : log'[i] = log[i]
  BY <1>1, <1>2, <1>9, EntriesAreEntries, CommitFacts
<1>11. /\ log'[n].entry.type = "permit" /\ log'[n].entry.key = key
       /\ log'[n].entry.payload = payload
  BY <1>3, <1>10 DEF PermitEntry
<1>12. registryAudited' = registryAudited \cup {<<key, payload>>}
  <2>1. Permits' = Permits \cup {n} /\ \A i \in Permits : log'[i] = log[i]
    BY <1>10, <1>11 DEF Permits
  <2> QED
    BY <1>11, <2>1 DEF registryAudited
<1>13. registryEffects' = registryEffects
  BY <1>5 DEF registryEffects
<1> QED
  BY <1>5, <1>7, <1>8, <1>12, <1>13 DEF Registry!Execute

\* What finish does is the one effect of the key or the record of its failure, and
\* the answer says which.
LEMMA FinishIsTheEffect ==
  ASSUME DispatchInv, NEW c \in Conn,
         EmitEvents(c) \/ Launch(c) \/ LaunchFails(c) \/ Respond(c)
  PROVE  \/ \E k \in Key : Registry!Effect(k) \/ Registry!RecordFailure(k) \/ Registry!Tell(k)
         \/ UNCHANGED Registry!vars
<1>1. /\ TxInv(c) /\ FinishInv(c)
      /\ idem \in [Key -> Record \cup {None}]
      /\ emitted \in [Key -> Nat] /\ launched \in [Key -> Nat]
      /\ answer \in [Key -> {"none", "ok", "problem"}]
  BY DEF DispatchInv, TypeOK
<1>2. pc[c] \in Finishing /\ UNCHANGED <<log, done, replayed>>
  BY DEF EmitEvents, Launch, LaunchFails, Respond, dbVars, Finishing
<1>3. PICK key \in Key, payload \in Payload : req[c].key = key /\ req[c].payload = payload
  BY <1>1, <1>2 DEF TxInv, Request, Finishing
<1>4. /\ key \notin LegacyKey
      /\ idem[key] # None /\ idem[key].payload = payload /\ answer[key] = "none"
      /\ pc[c] # "problem" => idem[key].result = "completed"
      /\ pc[c] = "problem" => payload \in Launches
      /\ IF pc[c] = "reply" THEN emitted[key] + launched[key] = 1
                             ELSE emitted[key] = 0 /\ launched[key] = 0
  BY <1>1, <1>2, <1>3 DEF FinishInv
<1>5. registryBound[key] = payload /\ payload # None
  BY <1>4, DispatchAssumption DEF registryBound
<1>6. registryAudited' = registryAudited
  BY <1>2, SameLogSameAudit
<1>7. CASE EmitEvents(c) \/ Launch(c)
  <2>1. pc[c] = "finish" /\ UNCHANGED <<idem, answer>>
    BY <1>7 DEF EmitEvents, Launch
  <2>2. registryEffects[key] = 0 /\ key \notin registryFailed
    BY <1>4, <2>1 DEF registryEffects, registryFailed
  <2>3. registryEffects' = [registryEffects EXCEPT ![key] = 1]
    <3>1. /\ emitted'[key] + launched'[key] = 1
          /\ \A k \in Key \ {key} : emitted'[k] = emitted[k] /\ launched'[k] = launched[k]
      BY <1>1, <1>3, <1>4, <1>7, <2>1 DEF EmitEvents, Launch
    <3> QED
      BY <3>1 DEF registryEffects
  <2>4. registryBound' = registryBound /\ registryFailed' = registryFailed
    BY <2>1 DEF registryBound, registryFailed
  <2>5. Registry!Effect(key)
    BY <1>2, <1>4, <1>5, <1>6, <2>1, <2>2, <2>3, <2>4 DEF Registry!Effect
  <2> QED
    BY <2>5
<1>8. CASE LaunchFails(c)
  <2> DEFINE record == [payload |-> idem[key].payload, result |-> "failed_to_launch"]
  <2>1. /\ pc[c] = "finish" /\ payload \in Launches
        /\ idem' = [idem EXCEPT ![key] = record] \/ idem' = idem
        /\ UNCHANGED <<emitted, launched, answer>>
    BY <1>3, <1>8 DEF LaunchFails
  <2>2. /\ record # None /\ record.payload = idem[key].payload
        /\ record.result = "failed_to_launch"
    BY <1>1, <1>4, DispatchAssumption DEF Record
  <2> HIDE DEF record
  <2>3. CASE idem' = idem
    BY <1>2, <1>6, <2>1, <2>3, RegistryKept
  <2>4. CASE idem' = [idem EXCEPT ![key] = record]
    <3>1. registryBound' = registryBound
      BY <1>1, <1>4, <2>2, <2>4 DEF registryBound
    <3>2. registryFailed' = registryFailed \cup {key}
      BY <1>1, <2>2, <2>4 DEF registryFailed
    <3>3. registryEffects' = registryEffects /\ registryEffects[key] = 0
      BY <1>4, <2>1 DEF registryEffects
    <3>4. Registry!RecordFailure(key)
      BY <1>2, <1>4, <1>5, <1>6, <2>1, <3>1, <3>2, <3>3 DEF Registry!RecordFailure
    <3> QED
      BY <3>4
  <2> QED
    BY <2>1, <2>3, <2>4
<1>9. CASE Respond(c)
  <2>1. /\ pc[c] \in {"reply", "problem"} /\ UNCHANGED <<idem, emitted, launched>>
        /\ answer' = [answer EXCEPT ![key] = IF pc[c] = "reply" THEN "ok" ELSE "problem"]
    BY <1>3, <1>9 DEF Respond
  <2>2. UNCHANGED <<registryBound, registryEffects, registryFailed>>
    BY <2>1 DEF registryBound, registryEffects, registryFailed
  <2>3. registryEffects[key] = IF pc[c] = "reply" THEN 1 ELSE 0
    BY <1>4, <2>1 DEF registryEffects
  <2>4. Registry!Tell(key)
    BY <1>2, <1>4, <1>5, <1>6, <2>1, <2>2, <2>3 DEF Registry!Tell
  <2> QED
    BY <2>4
<1> QED
  BY <1>7, <1>8, <1>9

\* A replay answers for the payload the key is bound to, or shows nothing.
LEMMA ReplayAnswers ==
  ASSUME DispatchInv, NEW c \in Conn, Replay(c)
  PROVE  (\E k \in Key : Registry!Replay(k)) \/ UNCHANGED Registry!vars
<1>1. /\ TxInv(c) /\ replayed \in [Key -> SUBSET Payload]
      /\ UNCHANGED <<idem, done, emitted, launched, answer, log>>
  BY DEF DispatchInv, TypeOK, Replay, dbVars
<1>2. PICK key \in Key, payload \in Payload : req[c].key = key /\ req[c].payload = payload
  BY <1>1 DEF TxInv, Request, Replay
<1>3. CASE replayed' = replayed
  BY <1>1, <1>3, SameLogSameAudit, RegistryKept
<1>4. CASE replayed' # replayed
  <2>1. /\ key \notin LegacyKey /\ idem[key] # None /\ idem[key].payload \in {None, payload}
        /\ replayed' = [replayed EXCEPT ![key] = @ \cup {payload}]
    BY <1>2, <1>4 DEF Replay, SamePayload
  <2>2. idem[key].payload = payload
    <3>1. PICK i \in 1..Len(log) : Audited(key) = {i} /\ log[i].entry.payload = idem[key].payload
      BY <2>1 DEF DispatchInv, RecordInv, OneRow
    <3>2. log[i] \in Row /\ log[i].entry.type = "permit"
      BY <3>1 DEF DispatchInv, LedgerInv, LedgerTypeOK, Audited
    <3>3. log[i].entry.payload \in Payload
      BY <3>2, DispatchAssumption DEF Row, AuditEntry
    <3> QED
      BY <2>1, <3>1, <3>3, DispatchAssumption
  <2>3. registryBound[key] = payload /\ payload # None
    BY <2>1, <2>2, DispatchAssumption DEF registryBound
  <2>4. UNCHANGED <<registryBound, registryAudited, registryEffects, registryFailed>>
    BY <1>1, SameLogSameAudit DEF registryBound, registryEffects, registryFailed
  <2>5. Registry!Replay(key)
    BY <1>1, <2>1, <2>3, <2>4 DEF Registry!Replay
  <2> QED
    BY <2>5
<1> QED
  BY <1>3, <1>4

\* The dispatcher implements the registry: whatever requests race, fail, die or
\* are sent twice, from outside every key is bound and executed once, in one step
\* with its audit row, has its effect at most once and later, and is replayed
\* only for the payload it is bound to.
THEOREM DispatcherImplementsCommandOnce == Spec => RefinesCommandOnce
<1>1. ASSUME DispatchInv, [Next]_vars PROVE [Registry!Next]_(Registry!vars)
  <2>1. CASE UNCHANGED vars
    <3>1. UNCHANGED <<idem, done, emitted, launched, answer, replayed, log>>
      BY <2>1 DEF vars, dbVars, dispatchVars
    <3> QED
      BY <3>1, SameLogSameAudit, RegistryKept
  <2>2. ASSUME NEW c \in Conn, Dispatch(c)
        PROVE  Registry!Next \/ UNCHANGED Registry!vars
    <3>1. CASE Commit(c)
      BY <1>1, <3>1, CommitExecutes DEF Registry!Next
    <3>2. CASE EmitEvents(c) \/ Launch(c) \/ LaunchFails(c) \/ Respond(c)
      BY <1>1, <3>2, FinishIsTheEffect DEF Registry!Next
    <3>3. CASE Replay(c)
      BY <1>1, <3>3, ReplayAnswers DEF Registry!Next
    <3>4. CASE ~(\/ Commit(c) \/ EmitEvents(c) \/ Launch(c) \/ LaunchFails(c) \/ Respond(c)
                 \/ Replay(c))
      BY <1>1, <2>2, <3>4, QuietStepsAreStutters DEF Dispatch
    <3> QED
      BY <3>1, <3>2, <3>3, <3>4
  <2> QED
    BY <1>1, <2>1, <2>2 DEF Next
<1> QED
  BY <1>1, RegistryInit, DispatchInvariance, PTL DEF Spec, RefinesCommandOnce, Registry!Spec

=============================================================================
