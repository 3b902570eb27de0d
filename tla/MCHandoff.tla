----------------------------- MODULE MCHandoff -----------------------------
(* Handoff on a small instance: a project directory, a directory whose name *)
(* starts with the project's name, and two agents.                          *)
EXTENDS Handoff, FiniteSets, TLC

CONSTANTS proj, sibling

\* "/w/app" is a textual prefix of "/w/app2".
MCPrefixOf == [p \in Path |-> IF p = sibling THEN {proj, sibling} ELSE {p}]

Symmetry == Permutations(HandoffId) \cup Permutations(Wrapper) \cup Permutations(Agent)
                \cup Permutations(Surface)

=============================================================================
