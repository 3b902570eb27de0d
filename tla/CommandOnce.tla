---------------------------- MODULE CommandOnce ----------------------------
(***************************************************************************)
(* What the control plane promises of commands under idempotency keys,     *)
(* without requests, transactions or crashes: a registry in which a key is *)
(* bound once to one payload, executed and audited in that very step, its  *)
(* effect happens at most once afterwards, the client is told later still, *)
(* and then the truth, and every replay answers for the payload that was   *)
(* executed.                                                               *)
(***************************************************************************)
EXTENDS Naturals

CONSTANTS Key, Payload, Launches, Nothing

VARIABLES
    bound,       \* the payload executed under each key, Nothing before
    executions,  \* how often it was executed
    audited,     \* the executions on the ledger
    effects,     \* how often its effect happened
    told,        \* what the client was told of it
    failed,      \* the keys whose launch is recorded as failed
    replays      \* the payloads answered from each key

vars == <<bound, executions, audited, effects, told, failed, replays>>

Init ==
    /\ bound = [k \in Key |-> Nothing]
    /\ executions = [k \in Key |-> 0]
    /\ audited = {}
    /\ effects = [k \in Key |-> 0]
    /\ told = [k \in Key |-> "none"]
    /\ failed = {}
    /\ replays = [k \in Key |-> {}]

Execute(k, p) ==
    /\ bound[k] = Nothing
    /\ bound' = [bound EXCEPT ![k] = p]
    /\ executions' = [executions EXCEPT ![k] = @ + 1]
    /\ audited' = audited \cup {<<k, p>>}
    /\ UNCHANGED <<effects, told, failed, replays>>

\* The effect happens, once, unless the launch was given up.
Effect(k) ==
    /\ bound[k] # Nothing /\ told[k] = "none" /\ effects[k] = 0 /\ k \notin failed
    /\ effects' = [effects EXCEPT ![k] = 1]
    /\ UNCHANGED <<bound, executions, audited, told, failed, replays>>

\* A launch that has failed has no effect and may be recorded as failed.
RecordFailure(k) ==
    /\ bound[k] \in Launches /\ told[k] = "none" /\ effects[k] = 0
    /\ failed' = failed \cup {k}
    /\ UNCHANGED <<bound, executions, audited, effects, told, replays>>

\* The client is told, once, that the effect happened or that the launch failed.
Tell(k) ==
    /\ bound[k] # Nothing /\ told[k] = "none"
    /\ \/ effects[k] = 1 /\ told' = [told EXCEPT ![k] = "ok"]
       \/ effects[k] = 0 /\ bound[k] \in Launches /\ told' = [told EXCEPT ![k] = "problem"]
    /\ UNCHANGED <<bound, executions, audited, effects, failed, replays>>

Replay(k) ==
    /\ bound[k] # Nothing
    /\ replays' = [replays EXCEPT ![k] = @ \cup {bound[k]}]
    /\ UNCHANGED <<bound, executions, audited, effects, told, failed>>

Next ==
    \E k \in Key :
        \/ \E p \in Payload : Execute(k, p)
        \/ Effect(k) \/ RecordFailure(k) \/ Tell(k) \/ Replay(k)

Spec == Init /\ [][Next]_vars

=============================================================================
