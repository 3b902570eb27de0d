--------------------------- MODULE MCFileApproval ---------------------------
(* The instance of FileApproval for TLC: two changes, so that one is       *)
(* inserted while the other is decided.                                    *)
EXTENDS FileApproval
=============================================================================
