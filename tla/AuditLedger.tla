---------------------------- MODULE AuditLedger ----------------------------
(***************************************************************************)
(* The hash-chained audit ledger (security/verify_chain.rs) on a shared    *)
(* SQLite database in WAL mode. Any number of connections append to it:    *)
(* record_audit_event on its own, or inside the caller's larger            *)
(* transaction, whose rows become visible together when it commits.        *)
(*                                                                         *)
(* SQLite is modelled by what the code relies on: one writer slot, a       *)
(* snapshot taken by a transaction's first read, and the refusal to        *)
(* upgrade a transaction whose snapshot another commit has made stale.     *)
(***************************************************************************)
EXTENDS Sequences, Integers

CONSTANTS
    Conn,        \* database connections: the daemon's, the CLI's, the wrappers'
    Entry,       \* what a row says: timestamp, event_type, actor and data
    NoConn,      \* nobody holds the writer slot
    MaxRows,     \* bound on the ledger's length, uncommitted rows included
    MaxVersion   \* bound on the number of commits

ASSUME LedgerAssumption ==
    /\ NoConn \notin Conn
    /\ MaxRows \in Nat /\ MaxVersion \in Nat

VARIABLES
    log,      \* committed audit_log rows in id order
    version,  \* number of commits to the database
    writer,   \* the connection that holds the writer slot, or NoConn
    tx,       \* each connection's transaction
    snap,     \* the version a transaction reads
    recPc,    \* where a connection is in record_audit_event
    tail,     \* prev_hash as append_audit_event read it
    staged    \* the transaction's own uncommitted audit rows

ledgerVars == <<log, version, writer, tx, snap, recPc, tail, staged>>

-----------------------------------------------------------------------------
(* Rows. A hash is the history it stands for, so that different inputs     *)
(* never collide; the genesis row's prev_hash is the empty string.         *)

Hash == Seq(Entry)
GenesisHash == << >>

Row == [entry : Entry, prevHash : Hash, hash : Hash]

ComputeHash(prevHash, entry) == Append(prevHash, entry)

\* Mutant: the row is stored without its link.
NewRowUnlinked(prevHash, entry) ==
    [entry |-> entry, hash |-> ComputeHash(prevHash, entry)]

NewRow(prevHash, entry) ==
    [entry |-> entry, prevHash |-> prevHash, hash |-> ComputeHash(prevHash, entry)]

\* SELECT hash ... ORDER BY id DESC LIMIT 1, the empty string when there is none.
LastHash(rows) == IF rows = << >> THEN GenesisHash ELSE rows[Len(rows)].hash

\* verify_chain returns Ok: each stored hash is the one recomputed, and links
\* to the row before it. The first row's prev_hash is not compared with anything.
VerifyChain(rows) ==
    \A i \in 1..Len(rows) :
        /\ rows[i].hash = ComputeHash(rows[i].prevHash, rows[i].entry)
        /\ i > 1 => rows[i].prevHash = rows[i - 1].hash

-----------------------------------------------------------------------------
(* SQLite transactions (external).                                         *)

\* "own" is the IMMEDIATE transaction record_audit_event opens for itself.
TxState == {"none", "deferred", "reader", "writer", "own"}

HoldsSlot(c) == tx[c] \in {"writer", "own"}

LedgerTypeOK ==
    /\ log \in Seq(Row)
    /\ version \in Nat
    /\ writer \in Conn \cup {NoConn}
    /\ tx \in [Conn -> TxState]
    /\ snap \in [Conn -> Nat]
    /\ recPc \in [Conn -> {"out", "slot", "tail"}]
    /\ tail \in [Conn -> Hash]
    /\ staged \in [Conn -> Seq(Row)]

LedgerInit ==
    /\ log = << >>
    /\ version = 0
    /\ writer = NoConn
    /\ tx = [c \in Conn |-> "none"]
    /\ snap = [c \in Conn |-> 0]
    /\ recPc = [c \in Conn |-> "out"]
    /\ tail = [c \in Conn |-> GenesisHash]
    /\ staged = [c \in Conn |-> << >>]

\* BEGIN DEFERRED takes nothing: neither a snapshot nor the slot.
BeginDeferred(c) ==
    /\ tx[c] = "none" /\ recPc[c] = "out"
    /\ tx' = [tx EXCEPT ![c] = "deferred"]
    /\ UNCHANGED <<log, version, writer, snap, recPc, tail, staged>>

\* The first SELECT of a transaction fixes what all its reads see.
FirstRead(c) ==
    /\ tx[c] = "deferred"
    /\ tx' = [tx EXCEPT ![c] = "reader"]
    /\ snap' = [snap EXCEPT ![c] = version]
    /\ UNCHANGED <<log, version, writer, recPc, tail, staged>>

\* The writer slot is granted to one connection at a time, and never to a
\* transaction whose snapshot is stale (SQLITE_BUSY_SNAPSHOT).
MayWrite(c) ==
    \/ HoldsSlot(c)
    \/ /\ writer = NoConn
       /\ tx[c] = "reader" => snap[c] = version

TakeSlot(c) ==
    /\ MayWrite(c)
    /\ writer' = c
    /\ tx' = [tx EXCEPT ![c] = IF @ \in {"none", "own"} THEN "own" ELSE "writer"]
    /\ snap' = [snap EXCEPT ![c] = version]

\* The caller's own first write upgrades its transaction.
CallerWrites(c) ==
    /\ tx[c] \in {"deferred", "reader"}
    /\ TakeSlot(c)
    /\ UNCHANGED <<log, version, recPc, tail, staged>>

\* The connection is back in autocommit mode and forgets what it had read.
EndTx(c) ==
    /\ tx' = [tx EXCEPT ![c] = "none"]
    /\ snap' = [snap EXCEPT ![c] = 0]
    /\ tail' = [tail EXCEPT ![c] = GenesisHash]
    /\ staged' = [staged EXCEPT ![c] = << >>]

\* COMMIT publishes the transaction's rows and frees the slot.
CommitTx(c) ==
    /\ version < MaxVersion
    /\ HoldsSlot(c) /\ recPc[c] = "out"
    /\ log' = log \o staged[c]
    /\ version' = version + 1
    /\ writer' = NoConn
    /\ EndTx(c)
    /\ UNCHANGED recPc

\* An error propagated with `?`, a busy timeout, a dropped Transaction or the
\* death of the process: nothing of the transaction remains.
Rollback(c) ==
    /\ tx[c] # "none" \/ recPc[c] # "out"
    /\ writer' = IF writer = c THEN NoConn ELSE writer
    /\ EndTx(c)
    /\ recPc' = [recPc EXCEPT ![c] = "out"]
    /\ UNCHANGED <<log, version>>

-----------------------------------------------------------------------------
(* record_audit_event.                                                     *)

\* Mutant: the tail is read without the writer slot.
EnterRecordWithoutSlot(c) ==
    /\ recPc[c] = "out" /\ tx[c] # "own"
    /\ recPc' = [recPc EXCEPT ![c] = "slot"]
    /\ UNCHANGED <<log, version, writer, tx, snap, tail, staged>>

\* In autocommit mode BEGIN IMMEDIATE, inside a transaction the no-op UPDATE:
\* either way the slot is held before the tail is read.
EnterRecord(c) ==
    /\ recPc[c] = "out" /\ tx[c] # "own"
    /\ TakeSlot(c)
    /\ recPc' = [recPc EXCEPT ![c] = "slot"]
    /\ UNCHANGED <<log, version, tail, staged>>

\* Mutant: the tail read misses the rows this transaction already inserted.
ReadTailCommitted(c) ==
    /\ recPc[c] = "slot"
    /\ tail' = [tail EXCEPT ![c] = LastHash(log)]
    /\ recPc' = [recPc EXCEPT ![c] = "tail"]
    /\ UNCHANGED <<log, version, writer, tx, snap, staged>>

\* append_audit_event, the SELECT: a connection reads its own writes.
ReadTail(c) ==
    /\ recPc[c] = "slot"
    /\ tail' = [tail EXCEPT ![c] = LastHash(log \o staged[c])]
    /\ recPc' = [recPc EXCEPT ![c] = "tail"]
    /\ UNCHANGED <<log, version, writer, tx, snap, staged>>

\* append_audit_event, the INSERT. A lone statement would take the slot itself;
\* the code always holds it by now.
InsertRow(c, e) ==
    /\ recPc[c] = "tail"
    /\ Len(log) + Len(staged[c]) < MaxRows
    /\ TakeSlot(c)
    /\ staged' = [staged EXCEPT ![c] = Append(@, NewRow(tail[c], e))]
    /\ recPc' = [recPc EXCEPT ![c] = "out"]
    /\ UNCHANGED <<log, version, tail>>

TxStep(c) ==
    \/ BeginDeferred(c)
    \/ FirstRead(c)
    \/ CallerWrites(c)
    \/ EnterRecord(c)
    \/ ReadTail(c)
    \/ \E e \in Entry : InsertRow(c, e)
    \/ CommitTx(c)
    \/ Rollback(c)

LedgerNext == \E c \in Conn : TxStep(c)

LedgerSpec == LedgerInit /\ [][LedgerNext]_ledgerVars

-----------------------------------------------------------------------------
(* Properties.                                                             *)

\* One chain from the genesis row, which verify_chain accepts.
Chained(rows) ==
    /\ VerifyChain(rows)
    /\ rows # << >> => rows[1].prevHash = GenesisHash

\* However many connections append at once, on their own or inside larger
\* transactions that may still roll back, the committed rows form one chain:
\* two appenders never link to the same tail and no link is left dangling.
LedgerVerifies == Chained(log)

=============================================================================
