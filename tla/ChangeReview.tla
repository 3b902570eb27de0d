---------------------------- MODULE ChangeReview ----------------------------
(***************************************************************************)
(* What the approval of file changes promises, without its rows: one desk, *)
(* at which one filed change at a time is reviewed. Only there is a file   *)
(* touched, a change answered and, by the same review, its outcome         *)
(* recorded. A review may end at any point; a change that was answered is  *)
(* never reviewed again.                                                   *)
(***************************************************************************)
CONSTANTS Change, Nothing

VARIABLES
    answer,     \* what the human said of each change
    outcome,    \* what is on record as the end of it
    file,       \* what became of its file
    desk        \* the change under review, or Nothing

vars == <<answer, outcome, file, desk>>

Init ==
    /\ answer = [c \in Change |-> "none"]
    /\ outcome = [c \in Change |-> "open"]
    /\ file = [c \in Change |-> "before"]
    /\ desk = Nothing

File(c) ==
    /\ answer[c] = "none"
    /\ answer' = [answer EXCEPT ![c] = "pending"]
    /\ UNCHANGED <<outcome, file, desk>>

Take(c) ==
    /\ desk = Nothing /\ answer[c] = "pending"
    /\ desk' = c
    /\ UNCHANGED <<answer, outcome, file>>

\* The file is written before the change is answered.
Edit(c, content) ==
    /\ desk = c /\ answer[c] = "pending"
    /\ file' = [file EXCEPT ![c] = content]
    /\ UNCHANGED <<answer, outcome, desk>>

Resolve(c, a) ==
    /\ desk = c /\ answer[c] = "pending"
    /\ answer' = [answer EXCEPT ![c] = a]
    /\ UNCHANGED <<outcome, file, desk>>

\* Applied: approved, and the new content is there.
Settle(c, o) ==
    /\ desk = c /\ answer[c] \in {"approved", "rejected"} /\ outcome[c] = "open"
    /\ o = "applied" => answer[c] = "approved" /\ file[c] = "new"
    /\ outcome' = [outcome EXCEPT ![c] = o]
    /\ UNCHANGED <<answer, file, desk>>

Leave ==
    /\ desk' = Nothing
    /\ UNCHANGED <<answer, outcome, file>>

Next ==
    \/ \E c \in Change :
          \/ File(c) \/ Take(c)
          \/ \E content \in {"torn", "new"} : Edit(c, content)
          \/ \E a \in {"approved", "rejected"} : Resolve(c, a)
          \/ \E o \in {"applied", "rejected"} : Settle(c, o)
    \/ Leave

Spec == Init /\ [][Next]_vars

=============================================================================
