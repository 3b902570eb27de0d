----------------------------- MODULE DagSearch -----------------------------
(***************************************************************************)
(* validate_dag and has_cycle (task_graph/dag.rs): the checks that refuse  *)
(* a graph with unknown, self or cyclic dependencies. has_cycle is         *)
(* recursive and its calls share the sets visited and in_stack; calls is   *)
(* the stack of calls under way, and every call and return is a step.      *)
(*                                                                         *)
(* The request lists nodes and dependencies in an order. Each node is a    *)
(* root once and its dependencies are gone through once, so picking the    *)
(* next one freely gives every order. A dependency listed twice is visited *)
(* by then and its second call returns at once.                            *)
(***************************************************************************)
EXTENDS Integers, Sequences

CONSTANTS
    Node,
    Stranger       \* ids a dependency list may name that are not in the graph

VARIABLES
    phase,      \* the graph: "draft", "search", "accepted" or "refused"
    deps,       \* the dependencies the client asked for, then cp_task_edges
    roots,      \* the nodes validate_dag has still to call has_cycle for
    visited, in_stack,
    calls,      \* the nodes of the calls under way, the innermost last
    untried     \* the dependencies the call of a node has still to go through

searchVars == <<roots, visited, in_stack, calls, untried>>
graphVars == <<phase, deps, searchVars>>

GraphTypeOK ==
    /\ phase \in {"draft", "search", "accepted", "refused"}
    /\ deps \in [Node -> SUBSET (Node \cup Stranger)]
    /\ roots \subseteq Node /\ visited \subseteq Node /\ in_stack \subseteq Node
    /\ calls \in Seq(Node)
    /\ untried \in [Node -> SUBSET (Node \cup Stranger)]

GraphInit ==
    /\ phase = "draft"
    /\ deps \in [Node -> SUBSET (Node \cup Stranger)]
    /\ roots = {} /\ visited = {} /\ in_stack = {} /\ calls = << >>
    /\ untried = [n \in Node |-> {}]

-----------------------------------------------------------------------------
DepsKnown(d) == \A n \in Node : d[n] \subseteq Node /\ n \notin d[n]

\* The first loop of validate_dag, and the empty sets the search starts with.
CheckDeps ==
    /\ phase = "draft"
    /\ phase' = IF DepsKnown(deps) THEN "search" ELSE "refused"
    /\ roots' = Node /\ visited' = {} /\ in_stack' = {} /\ calls' = << >>
    /\ untried' = deps
    /\ UNCHANGED deps

\* Mutant: a node is not put on the stack.
CallUnstacked(n) ==
    \/ n \in in_stack /\ phase' = "refused" /\ UNCHANGED <<visited, in_stack, calls>>
    \/ n \in visited \ in_stack /\ UNCHANGED <<phase, visited, in_stack, calls>>
    \/ /\ n \notin visited \cup in_stack
       /\ visited' = visited \cup {n}
       /\ calls' = Append(calls, n)
       /\ UNCHANGED <<phase, in_stack>>

\* has_cycle(n), up to its loop. A cycle makes every caller return at once,
\* which leaves in_stack as it is.
Call(n) ==
    \/ n \in in_stack /\ phase' = "refused" /\ UNCHANGED <<visited, in_stack, calls>>
    \/ n \in visited \ in_stack /\ UNCHANGED <<phase, visited, in_stack, calls>>
    \/ /\ n \notin visited \cup in_stack
       /\ visited' = visited \cup {n} /\ in_stack' = in_stack \cup {n}
       /\ calls' = Append(calls, n)
       /\ UNCHANGED phase

CallRoot(n) ==
    /\ phase = "search" /\ calls = << >> /\ n \in roots
    /\ roots' = roots \ {n}
    /\ Call(n)
    /\ UNCHANGED <<deps, untried>>

Current == calls[Len(calls)]

CallDep(d) ==
    /\ phase = "search" /\ calls # << >> /\ d \in untried[Current]
    /\ untried' = [untried EXCEPT ![Current] = @ \ {d}]
    /\ Call(d)
    /\ UNCHANGED <<deps, roots>>

\* Mutant: a node stays on the stack when its call returns.
ReturnStacked ==
    /\ phase = "search" /\ calls # << >> /\ untried[Current] = {}
    /\ calls' = SubSeq(calls, 1, Len(calls) - 1)
    /\ UNCHANGED <<phase, deps, roots, visited, in_stack, untried>>

\* No cycle through the node: it is taken off the stack.
Return ==
    /\ phase = "search" /\ calls # << >> /\ untried[Current] = {}
    /\ in_stack' = in_stack \ {Current}
    /\ calls' = SubSeq(calls, 1, Len(calls) - 1)
    /\ UNCHANGED <<phase, deps, roots, visited, untried>>

\* validate_dag is about to return Ok.
SearchOver == phase = "search" /\ calls = << >> /\ roots = {}

Validate == CheckDeps \/ Return \/ \E n \in Node : CallRoot(n) \/ CallDep(n)

-----------------------------------------------------------------------------
\* Some nodes wait for one another: each has a dependency among them.
CyclicIn(d) == \E C \in SUBSET Node : C # {} /\ \A n \in C : d[n] \cap C # {}

ValidDag(d) == DepsKnown(d) /\ ~CyclicIn(d)

\* validate_dag accepts exactly the graphs without a cycle, an unknown or a self
\* dependency, in whichever order the request lists nodes and dependencies: its
\* early returns and the sets the calls share change no answer.
SearchFindsTheCycles ==
    /\ SearchOver \/ phase = "accepted" => ValidDag(deps)
    /\ phase = "refused" => ~ValidDag(deps)

=============================================================================
