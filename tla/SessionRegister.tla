-------------------------- MODULE SessionRegister ---------------------------
(***************************************************************************)
(* What the session tables promise, without processes, witnesses or hosts: *)
(* a register of sessions, each with a piece of work, at most one agent    *)
(* and perhaps the lease of a conversation. A session is closed once, and  *)
(* not while its agent works, unless nobody has hold of that agent.        *)
(***************************************************************************)
CONSTANTS Session, Conversation, Nothing, Status

VARIABLES
    record,     \* the session: none, running, succeeded or failed
    work,       \* its task
    lease,      \* the conversation it reserved
    agent,      \* none, alive or ended
    loose       \* sessions whose agent is out of everybody's hands

vars == <<record, work, lease, agent, loose>>

Init ==
    /\ record = [s \in Session |-> "none"]
    /\ work = [s \in Session |-> "none"]
    /\ lease = [s \in Session |-> Nothing]
    /\ agent = [s \in Session |-> "none"]
    /\ loose = {}

Open(s) ==
    /\ record[s] = "none"
    /\ record' = [record EXCEPT ![s] = "running"]
    /\ work' = [work EXCEPT ![s] = "in_progress"]
    /\ UNCHANGED <<lease, agent, loose>>

\* Before its agent is launched, and from nobody who is still open.
Reserve(s, c) ==
    /\ record[s] = "running" /\ lease[s] = Nothing /\ agent[s] = "none"
    /\ \A t \in Session \ {s} : record[t] = "running" => lease[t] # c
    /\ lease' = [lease EXCEPT ![s] = c]
    /\ UNCHANGED <<record, work, agent, loose>>

Launch(s) ==
    /\ agent[s] = "none"
    /\ record[s] = "running" \/ s \in loose
    /\ agent' = [agent EXCEPT ![s] = "alive"]
    /\ UNCHANGED <<record, work, lease, loose>>

\* One agent ends, or all those of a host.
End(S) ==
    /\ \A s \in S : agent[s] = "alive"
    /\ agent' = [s \in Session |-> IF s \in S THEN "ended" ELSE agent[s]]
    /\ UNCHANGED <<record, work, lease, loose>>

LoseHold(s) ==
    /\ record[s] # "none"
    /\ loose' = loose \cup {s}
    /\ UNCHANGED <<record, work, lease, agent>>

\* Sessions end together when recovery ends them; those of L are given up unseen.
\* A success is that of an agent that ran and ended. Work that is no longer in
\* progress has an end of its own.
Close(S, success, L) ==
    /\ \A s \in S : record[s] = "running"
    /\ \A s \in S \ (L \cup loose) : agent[s] # "alive"
    /\ success => \A s \in S : agent[s] = "ended"
    /\ record' = [s \in Session |-> IF s \notin S THEN record[s]
                                    ELSE IF success THEN "succeeded" ELSE "failed"]
    /\ work' = [s \in Session |-> IF s \notin S \/ work[s] # "in_progress" THEN work[s]
                                  ELSE IF success THEN "completed" ELSE "failed"]
    /\ loose' = loose \cup L
    /\ UNCHANGED <<lease, agent>>

Overrule(s, status) ==
    /\ work[s] # "none"
    /\ work' = [work EXCEPT ![s] = status]
    /\ UNCHANGED <<record, lease, agent, loose>>

Next ==
    \/ \E s \in Session :
          \/ Open(s) \/ Launch(s) \/ LoseHold(s)
          \/ \E c \in Conversation : Reserve(s, c)
          \/ \E status \in Status : Overrule(s, status)
    \/ \E S \in SUBSET Session :
          \/ End(S)
          \/ \E success \in BOOLEAN, L \in SUBSET S : Close(S, success, L)

Spec == Init /\ [][Next]_vars

=============================================================================
