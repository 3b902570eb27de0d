------------------------- MODULE AuditLedgerProofs -------------------------
(***************************************************************************)
(* The audit ledger stays one chain for any number of connections, entries *)
(* and commits.                                                            *)
(***************************************************************************)
EXTENDS AuditLedger, SequenceTheorems, TLAPS

-----------------------------------------------------------------------------
(* The inductive invariant.                                                *)

\* The writer slot and the transactions agree on who holds it, and inside
\* record_audit_event, or with rows of its own staged, a connection does.
SlotSound ==
    \A c \in Conn :
        /\ HoldsSlot(c) <=> writer = c
        /\ recPc[c] # "out" => writer = c
        /\ staged[c] # << >> => writer = c

\* The ledger as each connection sees it, its own staged rows included.
ViewsChained == \A c \in Conn : Chained(log \o staged[c])

\* The tail a connection is about to link to is still the last row it sees.
TailCurrent ==
    \A c \in Conn : recPc[c] = "tail" => tail[c] = LastHash(log \o staged[c])

LedgerInv ==
    /\ LedgerTypeOK
    /\ SlotSound
    /\ LedgerVerifies
    /\ ViewsChained
    /\ TailCurrent

-----------------------------------------------------------------------------
(* Facts about rows.                                                       *)

LEMMA EmptyChained == Chained(<< >>)
  BY DEF Chained, VerifyChain

LEMMA LastHashType ==
  ASSUME NEW rows \in Seq(Row) PROVE LastHash(rows) \in Hash
<1>1. CASE rows = << >>
  BY <1>1 DEF LastHash, GenesisHash, Hash
<1>2. CASE rows # << >>
  <2>1. Len(rows) \in 1..Len(rows)
    BY <1>2
  <2>2. rows[Len(rows)] \in Row
    BY <2>1
  <2>3. QED
    BY <1>2, <2>2 DEF LastHash, Row
<1>3. QED
  BY <1>1, <1>2

LEMMA NewRowType ==
  ASSUME NEW p \in Hash, NEW e \in Entry
  PROVE  /\ NewRow(p, e) \in Row
         /\ NewRow(p, e).prevHash = p
         /\ NewRow(p, e).entry = e
         /\ NewRow(p, e).hash = ComputeHash(p, e)
<1>1. ComputeHash(p, e) \in Hash
  BY DEF Hash, ComputeHash
<1>2. QED
  BY <1>1 DEF NewRow, Row

\* Appending a row that links to the last hash keeps the chain.
LEMMA ExtendChain ==
  ASSUME NEW rows \in Seq(Row), Chained(rows), NEW e \in Entry
  PROVE  Chained(Append(rows, NewRow(LastHash(rows), e)))
<1> DEFINE r == NewRow(LastHash(rows), e)
           s == Append(rows, r)
<1>1. /\ r \in Row /\ r.prevHash = LastHash(rows) /\ r.entry = e
      /\ r.hash = ComputeHash(r.prevHash, r.entry)
  BY LastHashType, NewRowType
<1> HIDE DEF r
<1>2. /\ s # << >> /\ Len(s) = Len(rows) + 1 /\ Len(rows) \in Nat
      /\ \A i \in 1..Len(rows) : s[i] = rows[i]
      /\ s[Len(rows) + 1] = r
  BY <1>1, AppendProperties
<1> HIDE DEF s
<1>3. ASSUME NEW i \in 1..Len(s)
      PROVE  /\ s[i].hash = ComputeHash(s[i].prevHash, s[i].entry)
             /\ i > 1 => s[i].prevHash = s[i - 1].hash
  <2>1. CASE i \in 1..Len(rows)
    <3>1. s[i] = rows[i] /\ (i > 1 => s[i - 1] = rows[i - 1])
      BY <1>2, <2>1
    <3>2. QED
      BY <2>1, <3>1 DEF Chained, VerifyChain
  <2>2. CASE i = Len(rows) + 1
    <3>1. s[i] = r
      BY <1>2, <2>2
    <3>2. ASSUME i > 1 PROVE r.prevHash = s[i - 1].hash
      <4>1. rows # << >> /\ s[i - 1] = rows[Len(rows)]
        BY <1>2, <2>2, <3>2
      <4>2. QED
        BY <1>1, <4>1 DEF LastHash
    <3>3. QED
      BY <1>1, <3>1, <3>2
  <2>3. QED
    BY <1>2, <1>3, <2>1, <2>2
<1>4. s[1].prevHash = GenesisHash
  <2>1. CASE rows = << >>
    BY <1>1, <1>2, <2>1 DEF LastHash
  <2>2. CASE rows # << >>
    <3>1. s[1] = rows[1]
      BY <1>2, <2>2
    <3>2. QED
      BY <2>2, <3>1 DEF Chained
  <2>3. QED
    BY <2>1, <2>2
<1>5. Chained(s)
  BY <1>3, <1>4 DEF Chained, VerifyChain
<1>6. QED
  BY <1>5 DEF s, r

\* Staging one more row extends the view of the connection that stages it.
LEMMA ConcatAppend ==
  ASSUME NEW a \in Seq(Row), NEW b \in Seq(Row), NEW r \in Row
  PROVE  a \o Append(b, r) = Append(a \o b, r)
<1>1. <<r>> \in Seq(Row)
  OBVIOUS
<1>2. Append(b, r) = b \o <<r>> /\ a \o b \in Seq(Row)
  BY AppendIsConcat, ConcatProperties
<1>3. Append(a \o b, r) = (a \o b) \o <<r>>
  BY <1>2, AppendIsConcat
<1>4. QED
  BY <1>1, <1>2, <1>3, ConcatAssociative

-----------------------------------------------------------------------------
(* Invariance.                                                             *)

LEMMA InitInv == LedgerInit => LedgerInv
<1> SUFFICES ASSUME LedgerInit PROVE LedgerInv
  OBVIOUS
<1>1. LedgerTypeOK
  BY DEF LedgerInit, LedgerTypeOK, TxState, GenesisHash, Hash
<1>2. SlotSound
  BY LedgerAssumption DEF LedgerInit, SlotSound, HoldsSlot
<1>3. LedgerVerifies /\ ViewsChained /\ TailCurrent
  <2>1. << >> \o << >> = << >>
    BY ConcatEmptySeq
  <2>2. QED
    BY <2>1, EmptyChained DEF LedgerInit, LedgerVerifies, ViewsChained, TailCurrent
<1>4. QED
  BY <1>1, <1>2, <1>3 DEF LedgerInv

\* Taking the slot, in any of the steps that do, leaves one holder.
LEMMA TakeSlotSound ==
  ASSUME LedgerTypeOK, SlotSound, NEW c \in Conn, TakeSlot(c)
  PROVE  /\ writer' \in Conn \cup {NoConn} /\ tx' \in [Conn -> TxState]
         /\ snap' \in [Conn -> Nat]
         /\ \A d \in Conn : tx'[d] \in {"writer", "own"} <=> writer' = d
         /\ writer' = c
         /\ \A d \in Conn : writer = d => d = c
<1>1. /\ writer' \in Conn \cup {NoConn} /\ tx' \in [Conn -> TxState]
      /\ snap' \in [Conn -> Nat] /\ writer' = c
  BY DEF TakeSlot, LedgerTypeOK, TxState
<1>2. writer \in {c, NoConn}
  BY DEF TakeSlot, MayWrite, SlotSound
<1>3. \A d \in Conn : writer = d => d = c
  BY <1>2, LedgerAssumption
<1>4. \A d \in Conn : tx'[d] \in {"writer", "own"} <=> d = c
  <2>1. tx'[c] \in {"writer", "own"}
    BY DEF TakeSlot, LedgerTypeOK
  <2>2. ASSUME NEW d \in Conn, d # c PROVE tx'[d] \notin {"writer", "own"}
    <3>1. tx'[d] = tx[d]
      BY <2>2 DEF TakeSlot, LedgerTypeOK
    <3>2. writer # d
      BY <1>3, <2>2
    <3>3. QED
      BY <3>1, <3>2 DEF SlotSound, HoldsSlot
  <2>3. QED
    BY <2>1, <2>2
<1>5. QED
  BY <1>1, <1>3, <1>4

LEMMA StepInv ==
  ASSUME LedgerInv, NEW c \in Conn, TxStep(c)
  PROVE  LedgerInv'
<1> USE DEF LedgerInv
<1>1. CASE BeginDeferred(c)
  <2>1. LedgerTypeOK'
    BY <1>1 DEF BeginDeferred, LedgerTypeOK, TxState
  <2>2. SlotSound'
    BY <1>1 DEF BeginDeferred, LedgerTypeOK, SlotSound, HoldsSlot
  <2>3. LedgerVerifies' /\ ViewsChained' /\ TailCurrent'
    BY <1>1 DEF BeginDeferred, LedgerVerifies, ViewsChained, TailCurrent
  <2>4. QED
    BY <2>1, <2>2, <2>3
<1>2. CASE FirstRead(c)
  <2>1. LedgerTypeOK'
    BY <1>2 DEF FirstRead, LedgerTypeOK, TxState
  <2>2. SlotSound'
    BY <1>2 DEF FirstRead, LedgerTypeOK, SlotSound, HoldsSlot
  <2>3. LedgerVerifies' /\ ViewsChained' /\ TailCurrent'
    BY <1>2 DEF FirstRead, LedgerVerifies, ViewsChained, TailCurrent
  <2>4. QED
    BY <2>1, <2>2, <2>3
<1>3. CASE CallerWrites(c)
  <2>1. LedgerTypeOK'
    BY <1>3, TakeSlotSound DEF CallerWrites, LedgerTypeOK
  <2>2. SlotSound'
    BY <1>3, TakeSlotSound DEF CallerWrites, SlotSound, HoldsSlot
  <2>3. LedgerVerifies' /\ ViewsChained' /\ TailCurrent'
    BY <1>3 DEF CallerWrites, LedgerVerifies, ViewsChained, TailCurrent
  <2>4. QED
    BY <2>1, <2>2, <2>3
<1>4. CASE EnterRecord(c)
  <2>1. LedgerTypeOK'
    BY <1>4, TakeSlotSound DEF EnterRecord, LedgerTypeOK
  <2>2. SlotSound'
    <3>1. \A d \in Conn : d # c => recPc'[d] = recPc[d]
      BY <1>4 DEF EnterRecord, LedgerTypeOK
    <3>2. QED
      BY <1>4, <3>1, TakeSlotSound DEF EnterRecord, SlotSound, HoldsSlot
  <2>3. LedgerVerifies' /\ ViewsChained'
    BY <1>4 DEF EnterRecord, LedgerVerifies, ViewsChained
  <2>4. TailCurrent'
    BY <1>4 DEF EnterRecord, TailCurrent, LedgerTypeOK
  <2>5. QED
    BY <2>1, <2>2, <2>3, <2>4
<1>5. CASE ReadTail(c)
  <2>1. LastHash(log \o staged[c]) \in Hash
    BY LastHashType, ConcatProperties DEF LedgerTypeOK
  <2>2. LedgerTypeOK'
    BY <1>5, <2>1 DEF ReadTail, LedgerTypeOK
  <2>3. SlotSound'
    BY <1>5 DEF ReadTail, LedgerTypeOK, SlotSound, HoldsSlot
  <2>4. LedgerVerifies' /\ ViewsChained'
    BY <1>5 DEF ReadTail, LedgerVerifies, ViewsChained
  <2>5. TailCurrent'
    BY <1>5 DEF ReadTail, TailCurrent, LedgerTypeOK
  <2>6. QED
    BY <2>2, <2>3, <2>4, <2>5
<1>6. ASSUME NEW e \in Entry, InsertRow(c, e) PROVE LedgerInv'
  <2> DEFINE r == NewRow(tail[c], e)
  <2>1. tail[c] \in Hash /\ r \in Row
    BY NewRowType DEF LedgerTypeOK
  <2> HIDE DEF r
  <2>2. /\ staged' = [staged EXCEPT ![c] = Append(@, r)]
        /\ recPc' = [recPc EXCEPT ![c] = "out"]
        /\ TakeSlot(c) /\ UNCHANGED <<log, version, tail>>
        /\ recPc[c] = "tail"
    BY <1>6 DEF InsertRow, r
  <2>3. /\ staged[c] \in Seq(Row) /\ log \in Seq(Row)
        /\ Append(staged[c], r) \in Seq(Row)
        /\ staged'[c] = Append(staged[c], r)
        /\ \A d \in Conn : d # c => staged'[d] = staged[d] /\ recPc'[d] = recPc[d]
    BY <2>1, <2>2 DEF LedgerTypeOK
  <2>4. LedgerTypeOK'
    BY <2>2, <2>3, TakeSlotSound DEF LedgerTypeOK
  <2>5. SlotSound'
    BY <2>2, <2>3, TakeSlotSound DEF SlotSound, HoldsSlot
  <2>6. LedgerVerifies'
    BY <2>2 DEF LedgerVerifies
  <2>7. ViewsChained'
    <3>1. tail[c] = LastHash(log \o staged[c])
      BY <2>2 DEF TailCurrent
    <3>2. log \o staged'[c] = Append(log \o staged[c], r)
      BY <2>1, <2>3, ConcatAppend
    <3>3. Chained(log \o staged[c]) /\ log \o staged[c] \in Seq(Row)
      BY <2>3, ConcatProperties DEF ViewsChained
    <3>4. Chained(log \o staged'[c])
      BY <3>1, <3>2, <3>3, ExtendChain DEF r
    <3>5. QED
      BY <2>2, <2>3, <3>4 DEF ViewsChained
  <2>8. TailCurrent'
    BY <2>2, <2>3 DEF TailCurrent, LedgerTypeOK
  <2>9. QED
    BY <2>4, <2>5, <2>6, <2>7, <2>8
<1>7. CASE CommitTx(c)
  <2>1. /\ log \in Seq(Row) /\ staged[c] \in Seq(Row) /\ log' \in Seq(Row)
        /\ log' = log \o staged[c] /\ writer = c
    BY <1>7, ConcatProperties DEF CommitTx, LedgerTypeOK, SlotSound
  <2>2. \A d \in Conn : staged'[d] = << >>
    <3>1. \A d \in Conn : d # c => staged'[d] = staged[d]
      BY <1>7 DEF CommitTx, EndTx, LedgerTypeOK
    <3>2. QED
      BY <1>7, <2>1, <3>1 DEF CommitTx, EndTx, LedgerTypeOK, SlotSound
  <2>3. LedgerTypeOK'
    BY <1>7, <2>1 DEF CommitTx, EndTx, LedgerTypeOK, TxState, GenesisHash, Hash
  <2>4. SlotSound'
    <3>1. \A d \in Conn : recPc'[d] = "out"
      BY <1>7, <2>1 DEF CommitTx, SlotSound
    <3>2. \A d \in Conn : tx'[d] \notin {"writer", "own"}
      BY <1>7, <2>1 DEF CommitTx, EndTx, LedgerTypeOK, SlotSound, HoldsSlot
    <3>3. QED
      BY <1>7, <2>2, <3>1, <3>2, LedgerAssumption DEF CommitTx, SlotSound, HoldsSlot
  <2>5. LedgerVerifies'
    BY <2>1 DEF ViewsChained, LedgerVerifies
  <2>6. ViewsChained'
    BY <2>1, <2>2, <2>5, ConcatEmptySeq DEF ViewsChained, LedgerVerifies
  <2>7. TailCurrent'
    BY <1>7, <2>1 DEF CommitTx, SlotSound, TailCurrent
  <2>8. QED
    BY <2>3, <2>4, <2>5, <2>6, <2>7
<1>8. CASE Rollback(c)
  <2>1. /\ staged'[c] = << >> /\ recPc'[c] = "out" /\ tx'[c] = "none"
        /\ \A d \in Conn : d # c => /\ staged'[d] = staged[d] /\ recPc'[d] = recPc[d]
                                   /\ tx'[d] = tx[d] /\ tail'[d] = tail[d]
    BY <1>8 DEF Rollback, EndTx, LedgerTypeOK
  <2>2. LedgerTypeOK'
    BY <1>8 DEF Rollback, EndTx, LedgerTypeOK, TxState, GenesisHash, Hash
  <2>3. SlotSound'
    BY <1>8, <2>1, LedgerAssumption DEF Rollback, SlotSound, HoldsSlot
  <2>4. LedgerVerifies' /\ log' = log
    BY <1>8 DEF Rollback, LedgerVerifies
  <2>5. ViewsChained'
    <3>1. log \o << >> = log
      BY ConcatEmptySeq DEF LedgerTypeOK
    <3>2. Chained(log \o staged'[c])
      BY <2>1, <3>1 DEF LedgerVerifies
    <3>3. \A d \in Conn : d # c => Chained(log \o staged'[d])
      BY <2>1 DEF ViewsChained
    <3>4. \A d \in Conn : Chained(log \o staged'[d])
      BY <3>2, <3>3
    <3>5. QED
      BY <2>4, <3>4 DEF ViewsChained
  <2>6. TailCurrent'
    BY <2>1, <2>4 DEF TailCurrent
  <2>7. QED
    BY <2>2, <2>3, <2>4, <2>5, <2>6
<1>9. QED
  BY <1>1, <1>2, <1>3, <1>4, <1>5, <1>6, <1>7, <1>8 DEF TxStep

\* The slot, the staged rows and the tail read under the slot keep every view
\* of the ledger a chain.
LEMMA LedgerInvariance == LedgerSpec => []LedgerInv
<1>1. LedgerInv /\ UNCHANGED ledgerVars => LedgerInv'
  BY DEF LedgerInv, LedgerTypeOK, SlotSound, LedgerVerifies, ViewsChained, TailCurrent,
         HoldsSlot, ledgerVars
<1>2. LedgerInv /\ [LedgerNext]_ledgerVars => LedgerInv'
  BY <1>1, StepInv DEF LedgerNext
<1>3. QED
  BY InitInv, <1>2, PTL DEF LedgerSpec

\* Every reachable state of the ledger and its connections is well typed.
THEOREM LedgerTypes == LedgerSpec => []LedgerTypeOK
  BY LedgerInvariance, PTL DEF LedgerInv

\* record_audit_event keeps the committed audit_log one chain that verify_chain
\* accepts, for any number of connections, rows and rolled-back transactions.
THEOREM OneChain == LedgerSpec => []LedgerVerifies
  BY LedgerInvariance, PTL DEF LedgerInv

=============================================================================
