------------------------- MODULE MCControlDispatch -------------------------
(* The dispatcher with two concurrent requests.                            *)
EXTENDS ControlDispatch, TLC

Symmetry == Permutations(Conn) \cup Permutations(Key \ LegacyKey)
                \cup Permutations(Payload \ Launches)

=============================================================================
