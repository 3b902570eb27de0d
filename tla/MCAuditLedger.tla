--------------------------- MODULE MCAuditLedger ---------------------------
(* The ledger with a few connections and indistinguishable entries.        *)
EXTENDS AuditLedger, TLC

Symmetry == Permutations(Conn)

=============================================================================
