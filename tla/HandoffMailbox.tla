--------------------------- MODULE HandoffMailbox ---------------------------
(***************************************************************************)
(* What the handoff tables promise, without the tables: a mailbox with one *)
(* slot per address (a project or an unregistered directory, and an        *)
(* agent). Posting displaces the occupant of the slot; an occupant leaves  *)
(* by being delivered, completed or rejected; nothing ever comes back.     *)
(***************************************************************************)
CONSTANTS Letter, Address, Nowhere

VARIABLES
    fate,   \* what became of each letter
    addr    \* where each letter was posted

vars == <<fate, addr>>

Occupying == {"waiting", "consented"}
Gone == {"delivered", "completed", "rejected", "displaced"}
Fate == {"unsent"} \cup Occupying \cup Gone

TypeOK ==
    /\ fate \in [Letter -> Fate]
    /\ addr \in [Letter -> Address \cup {Nowhere}]

Init ==
    /\ fate = [l \in Letter |-> "unsent"]
    /\ addr = [l \in Letter |-> Nowhere]

\* The letters nobody posted yet, and the ones that wait in a slot.
Unsent == {l \in Letter : fate[l] = "unsent"}
Waiting == {l \in Letter : fate[l] \in Occupying}

\* Post l, unsent, to address a; the sender may at the same time acknowledge the
\* letters in `answered`, which it had received and which still wait.
Post(l, a, answered) ==
    /\ addr' = [addr EXCEPT ![l] = a]
    /\ fate' = [m \in Letter |->
                  CASE m = l -> "waiting"
                    [] m # l /\ m \in answered -> "delivered"
                    [] m # l /\ m \notin answered /\ addr[m] = a
                         /\ fate[m] \in Occupying -> "displaced"
                    [] OTHER -> fate[m]]

\* A letter moves from one of the fates in From to the fate `to`.
Move(l, From, to) ==
    /\ fate[l] \in From
    /\ fate' = [fate EXCEPT ![l] = to]
    /\ UNCHANGED addr

Consent(l) == Move(l, {"waiting"}, "consented")
Deliver(l) == Move(l, Occupying, "delivered")
Complete(l) == Move(l, {"waiting"}, "completed")
Reject(l) == Move(l, {"waiting"}, "rejected")

Next ==
    \/ \E l \in Unsent, a \in Address, answered \in SUBSET Waiting : Post(l, a, answered)
    \/ \E l \in Waiting : Consent(l) \/ Deliver(l) \/ Complete(l) \/ Reject(l)

Spec == Init /\ [][Next]_vars

=============================================================================
