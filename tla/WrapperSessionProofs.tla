------------------------ MODULE WrapperSessionProofs ------------------------
(***************************************************************************)
(* The safety of wrapper sessions and of their recovery, for every number  *)
(* of sessions, places and conversations, and of faults, kills and         *)
(* reboots.                                                                *)
(***************************************************************************)
EXTENDS WrapperSession, TLAPS

USE WrapperAssumption

(* The facts of one step, action by action.                                *)
Step ==
    \/ \E s \in Session :
         \/ \E seen, ok \in BOOLEAN : Start(s, seen, ok) \/ Attach(s, seen, ok)
         \/ \E ok \in BOOLEAN : Bind(s, ok) \/ Spawn(s, ok) \/ Abort(s, ok) \/ FinishSession(s, ok)
         \/ \E success \in BOOLEAN : Reap(s, success)
         \/ BindNoDb(s) \/ Stop(s) \/ WaitFails(s)
         \/ AgentExits(s) \/ WrapperKilled(s) \/ PidsReused(s)
    \/ \E s \in Session, status \in Override : TaskUpdate(s, status)
    \/ \E h \in Host : Reboot(h)
    \/ \E p \in Place, unread \in SUBSET Session, legacy \in BOOLEAN : Reconcile(p, unread, legacy)

LEMMA NextIsAStep == Next => Step
BY DEF Next, Step, Wrapper

(* A host of a session is a host.                                          *)
LEMMA HomeHosts == TypeOK => \A s \in Session : home[s][1] \in Host
BY DEF TypeOK, Host

Closer == {"wrapper", "recovery", "legacy", "foreign"}

(* What closing sessions does, and to whom.                                *)
Closes(S, by) ==
    /\ run' \in [Session -> {"none", "running"} \cup Ended]
    /\ task' \in [Session -> {"none", "failed"} \cup OperatorStatus]
    /\ closedBy' \in [Session -> {"none", "wrapper", "recovery", "legacy", "foreign"}]
    /\ \A s \in Session :
         IF s \in S /\ run[s] = "running"
         THEN run'[s] \in Ended /\ closedBy'[s] = by[s]
         ELSE run'[s] = run[s] /\ closedBy'[s] = closedBy[s]
    /\ \A s \in Session : task[s] # "in_progress" => task'[s] = task[s]

LEMMA CloseFacts ==
    ASSUME TypeOK, NEW S \in SUBSET Session, NEW success \in BOOLEAN,
           NEW by \in [Session -> Closer], Close(S, success, by)
    PROVE  Closes(S, by)
<1>1. CASE success = TRUE
  BY <1>1 DEF Close, Closes, TypeOK, Final, Ended, OperatorStatus, Closer
<1>2. CASE success = FALSE
  BY <1>2 DEF Close, Closes, TypeOK, Final, Ended, OperatorStatus, Closer
<1> QED
  BY <1>1, <1>2

(* The closers are well-typed.                                             *)
LEMMA ByTypes == ByWrapper \in [Session -> Closer] /\ \A p \in Place : ByRecovery(p) \in [Session -> Closer]
BY DEF ByWrapper, ByRecovery, Closer

LEMMA TypeInit == Init => TypeOK
BY DEF Init, TypeOK, Process, Ended, OperatorStatus

LEMMA TypeStep == TypeOK /\ [Next]_vars => TypeOK'
<1> SUFFICES ASSUME TypeOK, [Next]_vars PROVE TypeOK'
    OBVIOUS
<1> USE DEF planVars, procVars, rowVars, hostVars, Process
<1>1. CASE UNCHANGED vars
  BY <1>1 DEF vars, TypeOK
<1>2. ASSUME NEW s \in Session, NEW seen \in BOOLEAN, NEW ok \in BOOLEAN, Start(s, seen, ok) PROVE TypeOK'
  <2>1. home[s][1] \in Host
    BY HomeHosts
  <2>2. CASE ok = TRUE
    <3>1. witness' \in [Session -> Nat]
      BY <1>2, <2>1, <2>2 DEF Start, TypeOK
    <3> QED
      BY <1>2, <2>2, <3>1 DEF Start, Call, Goto, TypeOK, OperatorStatus
  <2>3. CASE ok = FALSE
    BY <1>2, <2>3 DEF Start, Call, Goto, TypeOK
  <2> QED
    BY <2>2, <2>3
<1>3. ASSUME NEW s \in Session, NEW seen \in BOOLEAN, NEW ok \in BOOLEAN, Attach(s, seen, ok) PROVE TypeOK'
  BY <1>3 DEF Attach, Call, Goto, TypeOK
<1>4. ASSUME NEW s \in Session, NEW ok \in BOOLEAN, Bind(s, ok) PROVE TypeOK'
  BY <1>4 DEF Bind, Call, Goto, TypeOK
<1>5. ASSUME NEW s \in Session, NEW ok \in BOOLEAN, Spawn(s, ok) PROVE TypeOK'
  BY <1>5 DEF Spawn, Call, Goto, TypeOK
<1>6. ASSUME NEW s \in Session, NEW ok \in BOOLEAN, Abort(s, ok) PROVE TypeOK'
  <2>1. run' \in [Session -> {"none", "running"} \cup Ended]
        /\ task' \in [Session -> {"none", "failed"} \cup OperatorStatus]
        /\ closedBy' \in [Session -> {"none", "wrapper", "recovery", "legacy", "foreign"}]
    <3>1. CASE ok = TRUE
      <4>1. Close({s}, FALSE, ByWrapper)
        BY <1>6, <3>1 DEF Abort
      <4> QED
        BY <4>1, CloseFacts, ByTypes DEF Closes
    <3>2. CASE ok = FALSE
      BY <1>6, <3>2 DEF Abort, TypeOK
    <3> QED
      BY <3>1, <3>2
  <2>2. /\ Call(ok) /\ Dies(s)
        /\ UNCHANGED <<home, want, witness, attached, native, started, boot, booted, reboots, abandoned, kills>>
    BY <1>6 DEF Abort
  <2>3. faults' \in Nat
    BY <2>2 DEF Call, TypeOK
  <2> QED
    BY <2>1, <2>2, <2>3 DEF Dies, Goto, TypeOK
<1>7. ASSUME NEW s \in Session, NEW ok \in BOOLEAN, FinishSession(s, ok) PROVE TypeOK'
  <2>1. run' \in [Session -> {"none", "running"} \cup Ended]
        /\ task' \in [Session -> {"none", "failed"} \cup OperatorStatus]
        /\ closedBy' \in [Session -> {"none", "wrapper", "recovery", "legacy", "foreign"}]
    <3>1. CASE ok = TRUE
      <4>1. Close({s}, outcome[s], ByWrapper) /\ outcome[s] \in BOOLEAN
        BY <1>7, <3>1 DEF FinishSession, TypeOK
      <4> QED
        BY <4>1, CloseFacts, ByTypes DEF Closes
    <3>2. CASE ok = FALSE
      BY <1>7, <3>2 DEF FinishSession, TypeOK
    <3> QED
      BY <3>1, <3>2
  <2>2. /\ Call(ok) /\ Dies(s)
        /\ UNCHANGED <<home, want, witness, attached, native, started, boot, booted, reboots, abandoned, kills>>
    BY <1>7 DEF FinishSession
  <2>3. faults' \in Nat
    BY <2>2 DEF Call, TypeOK
  <2> QED
    BY <2>1, <2>2, <2>3 DEF Dies, Goto, TypeOK
<1>8. ASSUME NEW s \in Session, NEW success \in BOOLEAN, Reap(s, success) PROVE TypeOK'
  BY <1>8 DEF Reap, Goto, TypeOK
<1>9. ASSUME NEW s \in Session, BindNoDb(s) PROVE TypeOK'
  BY <1>9 DEF BindNoDb, Call, Dies, Goto, TypeOK
<1>10. ASSUME NEW s \in Session, Stop(s) PROVE TypeOK'
  BY <1>10 DEF Stop, Goto, TypeOK
<1>11. ASSUME NEW s \in Session, WaitFails(s) PROVE TypeOK'
  BY <1>11 DEF WaitFails, Call, Goto, TypeOK
<1>12. ASSUME NEW s \in Session, AgentExits(s) PROVE TypeOK'
  BY <1>12 DEF AgentExits, TypeOK
<1>13. ASSUME NEW s \in Session, WrapperKilled(s) PROVE TypeOK'
  BY <1>13 DEF WrapperKilled, Dies, Goto, TypeOK
<1>14. ASSUME NEW s \in Session, PidsReused(s) PROVE TypeOK'
  BY <1>14 DEF PidsReused, TypeOK
<1>15. ASSUME NEW s \in Session, NEW status \in Override, TaskUpdate(s, status) PROVE TypeOK'
  BY <1>15 DEF TaskUpdate, TypeOK, OperatorStatus
<1>16. ASSUME NEW h \in Host, Reboot(h) PROVE TypeOK'
  BY <1>16 DEF Reboot, AfterReboot, TypeOK
<1>17. ASSUME NEW p \in Place, NEW unread \in SUBSET Session, NEW legacy \in BOOLEAN, Reconcile(p, unread, legacy)
       PROVE  TypeOK'
  <2> DEFINE D == {s \in Session : DeadReason(p, s, unread) \/ (legacy /\ Legacy(p, s))}
  <2>1. Close(D, FALSE, ByRecovery(p))
    BY <1>17 DEF Reconcile
  <2>2. Closes(D, ByRecovery(p))
    BY <2>1, CloseFacts, ByTypes
  <2> QED
    BY <1>17, <2>2 DEF Reconcile, Call, Closes, TypeOK
<1> HIDE DEF planVars, procVars, rowVars, hostVars, Process
<1> QED
  BY <1>1, <1>2, <1>3, <1>4, <1>5, <1>6, <1>7, <1>8, <1>9, <1>10, <1>11, <1>12, <1>13, <1>14,
     <1>15, <1>16, <1>17, NextIsAStep DEF Step

-----------------------------------------------------------------------------
(* The inductive invariant.                                                *)

\* How far a wrapper is tells which of its processes there can be.
StageInv(s) ==
    /\ wrapper[s] = "alive" <=> pc[s] \notin {"idle", "exited"}
    /\ pc[s] \in {"idle", "started", "bound", "aborting"} => child[s] = "none"
    /\ pc[s] = "idle" => run[s] = "none"
    /\ run[s] = "none" => pc[s] \in {"idle", "exited"} /\ child[s] = "none" /\ native[s] = None
    /\ pc[s] = "ending" => child[s] # "alive" \/ s \in abandoned

\* A session of an earlier boot has no processes.
BootInv(s) ==
    /\ witness[s] # 0 /\ witness[s] # boot[home[s][1]] => ~Alive(s)
    /\ run[s] # "none" /\ started[s] < booted[home[s][1]] => ~Alive(s)

\* Who closed a session tells what became of its processes.
CloserInv(s) ==
    /\ closedBy[s] = "none" <=> run[s] \in {"none", "running"}
    /\ closedBy[s] \in {"recovery", "legacy"} => ~Alive(s)
    /\ closedBy[s] = "wrapper" =>
         wrapper[s] # "alive" /\ (child[s] = "alive" => s \in abandoned)

Sess(s) == StageInv(s) /\ BootInv(s) /\ CloserInv(s)

\* Open sessions have different conversations.
Exclusive ==
    \A s, t \in Session : s # t /\ run[s] = "running" /\ run[t] = "running" /\ native[s] = native[t] =>
        native[s] = None

BootsAreCounted == \A h \in Host : booted[h] <= reboots

SessionInv == TypeOK /\ Exclusive /\ BootsAreCounted /\ \A s \in Session : Sess(s)

LEMMA InvInit == Init => SessionInv
<1> SUFFICES ASSUME Init PROVE SessionInv
    OBVIOUS
<1>1. TypeOK
  BY TypeInit
<1>2. Exclusive /\ BootsAreCounted
  BY DEF Init, Exclusive, BootsAreCounted
<1>3. ASSUME NEW s \in Session PROVE Sess(s)
  BY DEF Init, Sess, StageInv, BootInv, CloserInv, Alive
<1> QED
  BY <1>1, <1>2, <1>3 DEF SessionInv

(* A session none of whose variables move keeps its invariant.             *)
Same(t) ==
    /\ pc'[t] = pc[t] /\ wrapper'[t] = wrapper[t] /\ child'[t] = child[t]
    /\ run'[t] = run[t] /\ closedBy'[t] = closedBy[t] /\ native'[t] = native[t]
    /\ witness'[t] = witness[t] /\ started'[t] = started[t]
    /\ t \in abandoned => t \in abandoned'
    /\ UNCHANGED <<home, boot, booted>>

LEMMA SameKeeps == ASSUME NEW t \in Session, Sess(t), Same(t) PROVE Sess(t)'
<1>1. StageInv(t)'
  BY DEF Sess, Same, StageInv
<1>2. BootInv(t)'
  BY DEF Sess, Same, BootInv, Alive
<1>3. CloserInv(t)'
  BY DEF Sess, Same, CloserInv, Alive
<1> QED
  BY <1>1, <1>2, <1>3 DEF Sess

(* A session that loses its wrapper (and maybe its agent) and keeps its    *)
(* record, or is closed, keeps its invariant.                              *)
Fades(t) ==
    /\ wrapper'[t] # "alive" /\ pc'[t] = "exited"
    /\ child'[t] = "alive" => child[t] = "alive"
    /\ child[t] = "none" => child'[t] = "none"
    /\ native'[t] = native[t] /\ witness'[t] = witness[t] /\ started'[t] = started[t]
    /\ abandoned' = abandoned
    /\ UNCHANGED <<home, boot, booted>>

LEMMA FadingKeeps ==
    ASSUME NEW t \in Session, Sess(t), Fades(t), run'[t] = run[t], closedBy'[t] = closedBy[t]
    PROVE  Sess(t)'
<1>1. StageInv(t)'
  BY DEF Sess, Fades, StageInv
<1>2. BootInv(t)'
  BY DEF Sess, Fades, BootInv, Alive
<1>3. CloserInv(t)'
  BY DEF Sess, Fades, CloserInv, Alive
<1> QED
  BY <1>1, <1>2, <1>3 DEF Sess

LEMMA FadingCloses ==
    ASSUME NEW t \in Session, Sess(t), Fades(t), run[t] = "running", run'[t] \in Ended,
           closedBy'[t] = "wrapper", child[t] = "alive" => t \in abandoned
    PROVE  Sess(t)'
<1>1. StageInv(t)'
  BY DEF Sess, Fades, StageInv, Ended
<1>2. BootInv(t)'
  BY DEF Sess, Fades, BootInv, Alive
<1>3. CloserInv(t)'
  BY DEF Sess, Fades, CloserInv, Alive, Ended
<1> QED
  BY <1>1, <1>2, <1>3 DEF Sess

LEMMA ExclusiveKept ==
    ASSUME Exclusive, UNCHANGED native, \A s \in Session : run'[s] = "running" => run[s] = "running"
    PROVE  Exclusive'
BY DEF Exclusive

(* What a wrapper that closes its session and exits does.                  *)
LEMMA EndStep ==
    ASSUME SessionInv, NEW s \in Session, Dies(s),
           Closes({s}, ByWrapper) \/ UNCHANGED <<run, task, closedBy>>,
           child[s] = "alive" => s \in abandoned,
           UNCHANGED <<home, native, witness, started, boot, booted, abandoned>>
    PROVE  Exclusive' /\ \A t \in Session : Sess(t)'
<1>0. TypeOK /\ \A t \in Session : Sess(t)
  BY DEF SessionInv
<1>1. \A t \in Session : \/ t = s /\ run[t] = "running" /\ run'[t] \in Ended /\ closedBy'[t] = "wrapper"
                         \/ run'[t] = run[t] /\ closedBy'[t] = closedBy[t]
  BY DEF Closes, ByWrapper
<1>2. Fades(s)
  BY <1>0 DEF Dies, Goto, Fades, TypeOK
<1>3. \A t \in Session \ {s} : Same(t)
  BY <1>0, <1>1 DEF Dies, Goto, Same, TypeOK
<1>4. \A t \in Session \ {s} : Sess(t)'
  BY <1>0, <1>3, SameKeeps
<1>5. Sess(s)'
  BY <1>0, <1>1, <1>2, FadingKeeps, FadingCloses
<1>6. Exclusive'
  BY <1>1, ExclusiveKept DEF SessionInv, Ended
<1> QED
  BY <1>4, <1>5, <1>6

LEMMA InvStep == SessionInv /\ [Next]_vars => SessionInv'
<1> SUFFICES ASSUME SessionInv, [Next]_vars PROVE Exclusive' /\ BootsAreCounted' /\ \A s \in Session : Sess(s)'
    BY TypeStep DEF SessionInv
<1>0. TypeOK /\ Exclusive /\ BootsAreCounted /\ \A s \in Session : Sess(s)
  BY DEF SessionInv
<1> DEFINE Goal == Exclusive' /\ BootsAreCounted' /\ \A s \in Session : Sess(s)'
<1> USE DEF planVars, procVars, rowVars, hostVars
<1>b. UNCHANGED hostVars => BootsAreCounted'
  BY <1>0 DEF BootsAreCounted
<1>1. CASE UNCHANGED vars
  <2>1. \A t \in Session : Same(t)
    BY <1>1 DEF Same, vars
  <2>2. Exclusive'
    BY <1>0, <1>1, ExclusiveKept DEF vars
  <2> QED
    BY <1>0, <1>1, <1>b, <2>1, <2>2, SameKeeps DEF vars
<1>2. ASSUME NEW s \in Session, NEW seen \in BOOLEAN, NEW ok \in BOOLEAN, Start(s, seen, ok) PROVE Goal
  <2>0. home[s][1] \in Host /\ native[s] = None /\ child[s] = "none" /\ pc[s] = "idle" /\ closedBy[s] = "none"
    BY <1>0, <1>2, HomeHosts DEF Start, Sess, StageInv, CloserInv
  <2>1. \A t \in Session \ {s} : Same(t)
    BY <1>0, <1>2 DEF Start, Goto, Same, TypeOK
  <2>2. CASE ok = TRUE
    <3>1. /\ pc'[s] = "started" /\ wrapper'[s] = "alive" /\ child'[s] = "none" /\ run'[s] = "running"
          /\ started'[s] = reboots /\ witness'[s] \in {0, boot[home[s][1]]}
          /\ UNCHANGED <<home, native, closedBy, boot, booted, abandoned>>
      BY <1>0, <1>2, <2>0, <2>2 DEF Start, Goto, TypeOK
    <3>2. booted[home[s][1]] <= reboots /\ booted[home[s][1]] \in Nat /\ reboots \in Nat
      BY <1>0, <2>0 DEF BootsAreCounted, TypeOK
    <3>3. Sess(s)'
      <4>1. StageInv(s)'
        BY <3>1 DEF StageInv
      <4>2. BootInv(s)'
        BY <3>1, <3>2 DEF BootInv
      <4>3. CloserInv(s)'
        BY <2>0, <3>1 DEF CloserInv
      <4> QED
        BY <4>1, <4>2, <4>3 DEF Sess
    <3>4. Exclusive'
      <4>1. \A t \in Session \ {s} : run'[t] = run[t] /\ native'[t] = native[t]
        BY <2>1 DEF Same
      <4> QED
        BY <1>0, <2>0, <3>1, <4>1 DEF Exclusive
    <3> QED
      BY <1>0, <1>2, <1>b, <2>1, <3>3, <3>4, SameKeeps DEF Start
  <2>3. CASE ok = FALSE
    <3>1. Fades(s) /\ run'[s] = run[s] /\ closedBy'[s] = closedBy[s] /\ UNCHANGED <<run, native>>
      BY <1>0, <1>2, <2>0, <2>3 DEF Start, Goto, Fades, TypeOK, Sess, StageInv
    <3>2. Sess(s)' /\ Exclusive'
      BY <1>0, <3>1, FadingKeeps, ExclusiveKept
    <3> QED
      BY <1>0, <1>2, <1>b, <2>1, <3>2, SameKeeps DEF Start
  <2> QED
    BY <2>2, <2>3
<1>3. ASSUME NEW s \in Session, NEW seen \in BOOLEAN, NEW ok \in BOOLEAN, Attach(s, seen, ok) PROVE Goal
  <2>1. \A t \in Session \ {s} : Same(t)
    BY <1>0, <1>3 DEF Attach, Goto, Same, TypeOK
  <2>2. /\ pc[s] = "spawned" /\ pc'[s] = "waiting"
        /\ UNCHANGED <<home, wrapper, child, run, witness, native, started, closedBy, boot, booted, abandoned>>
    BY <1>0, <1>3 DEF Attach, Goto, TypeOK
  <2>3. Sess(s)'
    BY <1>0, <2>2 DEF Sess, StageInv, BootInv, CloserInv, Alive
  <2>4. Exclusive'
    BY <1>0, <2>2, ExclusiveKept
  <2> QED
    BY <1>0, <1>3, <1>b, <2>1, <2>3, <2>4, SameKeeps DEF Attach
<1>4. ASSUME NEW s \in Session, NEW ok \in BOOLEAN, Bind(s, ok) PROVE Goal
  <2>1. \A t \in Session \ {s} : Same(t)
    BY <1>0, <1>4 DEF Bind, Goto, Same, TypeOK
  <2>2. /\ pc[s] = "started" /\ pc'[s] \in {"bound", "aborting"}
        /\ native'[s] = native[s] \/ (run[s] = "running" /\ native'[s] = want[s] /\ ~Taken(s))
        /\ UNCHANGED <<home, wrapper, child, run, witness, started, closedBy, boot, booted, abandoned>>
    BY <1>0, <1>4 DEF Bind, Goto, TypeOK
  <2>3. Sess(s)'
    BY <1>0, <2>2 DEF Sess, StageInv, BootInv, CloserInv, Alive
  <2>4. Exclusive'
    <3>1. \A t \in Session \ {s} : native'[t] = native[t]
      BY <2>1 DEF Same
    <3>2. CASE native'[s] = native[s]
      BY <1>0, <2>2, <3>1, <3>2 DEF Exclusive
    <3>3. CASE native'[s] = want[s] /\ ~Taken(s)
      BY <1>0, <2>2, <3>1, <3>3 DEF Exclusive, Taken
    <3> QED
      BY <2>2, <3>2, <3>3
  <2> QED
    BY <1>0, <1>4, <1>b, <2>1, <2>3, <2>4, SameKeeps DEF Bind
<1>5. ASSUME NEW s \in Session, NEW ok \in BOOLEAN, Spawn(s, ok) PROVE Goal
  <2>1. \A t \in Session \ {s} : Same(t)
    BY <1>0, <1>5 DEF Spawn, Goto, Same, TypeOK
  <2>2. /\ pc[s] = "bound"
        /\ \/ pc'[s] = "spawned" /\ child'[s] = "alive"
           \/ pc'[s] = "aborting" /\ child'[s] = child[s]
        /\ UNCHANGED <<home, wrapper, run, native, witness, started, closedBy, boot, booted, abandoned>>
    <3>1. CASE ok = TRUE
      BY <1>0, <1>5, <3>1 DEF Spawn, Goto, TypeOK
    <3>2. CASE ok = FALSE
      BY <1>0, <1>5, <3>2 DEF Spawn, Goto, TypeOK
    <3> QED
      BY <3>1, <3>2
  <2>3. Sess(s)'
    BY <1>0, <2>2 DEF Sess, StageInv, BootInv, CloserInv, Alive
  <2>4. Exclusive'
    BY <1>0, <2>2, ExclusiveKept
  <2> QED
    BY <1>0, <1>5, <1>b, <2>1, <2>3, <2>4, SameKeeps DEF Spawn
<1>6. ASSUME NEW s \in Session, NEW ok \in BOOLEAN, Abort(s, ok) PROVE Goal
  <2>1. Closes({s}, ByWrapper) \/ UNCHANGED <<run, task, closedBy>>
    <3>1. CASE ok = TRUE
      <4>1. Close({s}, FALSE, ByWrapper)
        BY <1>6, <3>1 DEF Abort
      <4> QED
        BY <1>0, <4>1, CloseFacts, ByTypes
    <3>2. CASE ok = FALSE
      BY <1>6, <3>2 DEF Abort
    <3> QED
      BY <3>1, <3>2
  <2>2. /\ Dies(s) /\ child[s] # "alive"
        /\ UNCHANGED <<home, native, witness, started, boot, booted, reboots, abandoned>>
    BY <1>0, <1>6 DEF Abort, Sess, StageInv
  <2> QED
    BY <1>b, <2>1, <2>2, EndStep
<1>7. ASSUME NEW s \in Session, NEW ok \in BOOLEAN, FinishSession(s, ok) PROVE Goal
  <2>1. Closes({s}, ByWrapper) \/ UNCHANGED <<run, task, closedBy>>
    <3>1. CASE ok = TRUE
      <4>1. Close({s}, outcome[s], ByWrapper) /\ outcome[s] \in BOOLEAN
        BY <1>0, <1>7, <3>1 DEF FinishSession, TypeOK
      <4> QED
        BY <1>0, <4>1, CloseFacts, ByTypes
    <3>2. CASE ok = FALSE
      BY <1>7, <3>2 DEF FinishSession
    <3> QED
      BY <3>1, <3>2
  <2>2. /\ Dies(s) /\ (child[s] = "alive" => s \in abandoned)
        /\ UNCHANGED <<home, native, witness, started, boot, booted, reboots, abandoned>>
    BY <1>0, <1>7 DEF FinishSession, Sess, StageInv
  <2> QED
    BY <1>b, <2>1, <2>2, EndStep
<1>8. ASSUME NEW s \in Session, NEW success \in BOOLEAN, Reap(s, success) PROVE Goal
  <2>1. \A t \in Session \ {s} : Same(t)
    BY <1>0, <1>8 DEF Reap, Goto, Same, TypeOK
  <2>2. /\ pc[s] = "waiting" /\ pc'[s] = "ending" /\ child'[s] = "gone"
        /\ UNCHANGED <<home, wrapper, run, native, witness, started, closedBy, boot, booted, abandoned>>
    BY <1>0, <1>8 DEF Reap, Goto, TypeOK
  <2>3. Sess(s)'
    BY <1>0, <2>2 DEF Sess, StageInv, BootInv, CloserInv, Alive
  <2>4. Exclusive'
    BY <1>0, <2>2, ExclusiveKept
  <2> QED
    BY <1>0, <1>8, <1>b, <2>1, <2>3, <2>4, SameKeeps DEF Reap
<1>9. ASSUME NEW s \in Session, BindNoDb(s) PROVE Goal
  <2>1. /\ Dies(s) /\ child[s] # "alive" /\ UNCHANGED <<run, task, closedBy>>
        /\ UNCHANGED <<home, native, witness, started, boot, booted, reboots, abandoned>>
    BY <1>0, <1>9 DEF BindNoDb, Sess, StageInv
  <2> QED
    BY <1>b, <2>1, EndStep
<1>10. ASSUME NEW s \in Session, Stop(s) PROVE Goal
  <2>1. \A t \in Session \ {s} : Same(t)
    BY <1>0, <1>10 DEF Stop, Goto, Same, TypeOK
  <2>2. /\ pc[s] = "waiting" /\ pc'[s] = "ending" /\ child'[s] = "gone"
        /\ UNCHANGED <<home, wrapper, run, native, witness, started, closedBy, boot, booted, abandoned>>
    BY <1>0, <1>10 DEF Stop, Goto, TypeOK
  <2>3. Sess(s)'
    BY <1>0, <2>2 DEF Sess, StageInv, BootInv, CloserInv, Alive
  <2>4. Exclusive'
    BY <1>0, <2>2, ExclusiveKept
  <2> QED
    BY <1>0, <1>10, <1>b, <2>1, <2>3, <2>4, SameKeeps DEF Stop
<1>11. ASSUME NEW s \in Session, WaitFails(s) PROVE Goal
  <2>1. \A t \in Session \ {s} : Same(t)
    BY <1>0, <1>11 DEF WaitFails, Goto, Same, TypeOK
  <2>2. /\ pc[s] = "waiting" /\ pc'[s] = "ending" /\ s \in abandoned'
        /\ UNCHANGED <<home, wrapper, child, run, native, witness, started, closedBy, boot, booted>>
    BY <1>0, <1>11 DEF WaitFails, Goto, TypeOK
  <2>3. Sess(s)'
    BY <1>0, <2>2 DEF Sess, StageInv, BootInv, CloserInv, Alive
  <2>4. Exclusive'
    BY <1>0, <2>2, ExclusiveKept
  <2> QED
    BY <1>0, <1>11, <1>b, <2>1, <2>3, <2>4, SameKeeps DEF WaitFails
<1>12. ASSUME NEW s \in Session, AgentExits(s) PROVE Goal
  <2>1. \A t \in Session \ {s} : Same(t)
    BY <1>0, <1>12 DEF AgentExits, Same, TypeOK
  <2>2. /\ child[s] = "alive" /\ child'[s] \in {"zombie", "gone"}
        /\ UNCHANGED <<home, pc, wrapper, run, native, witness, started, closedBy, boot, booted, abandoned>>
    BY <1>0, <1>12 DEF AgentExits, TypeOK
  <2>3. Sess(s)'
    BY <1>0, <2>2 DEF Sess, StageInv, BootInv, CloserInv, Alive
  <2>4. Exclusive'
    BY <1>0, <2>2, ExclusiveKept
  <2> QED
    BY <1>0, <1>12, <1>b, <2>1, <2>3, <2>4, SameKeeps DEF AgentExits
<1>13. ASSUME NEW s \in Session, WrapperKilled(s) PROVE Goal
  <2>1. /\ Dies(s) /\ UNCHANGED <<run, task, closedBy>>
        /\ UNCHANGED <<home, native, witness, started, boot, booted, reboots, abandoned>>
    BY <1>0, <1>13 DEF WrapperKilled
  <2>2. Fades(s) /\ \A t \in Session \ {s} : Same(t)
    BY <1>0, <2>1 DEF Dies, Goto, Fades, Same, TypeOK
  <2>3. Sess(s)' /\ Exclusive'
    BY <1>0, <2>1, <2>2, FadingKeeps, ExclusiveKept
  <2> QED
    BY <1>0, <1>b, <2>1, <2>2, <2>3, SameKeeps
<1>14. ASSUME NEW s \in Session, PidsReused(s) PROVE Goal
  <2>1. \A t \in Session : Same(t)
    BY <1>14 DEF PidsReused, Same
  <2>2. Exclusive'
    BY <1>0, <1>14, ExclusiveKept DEF PidsReused
  <2> QED
    BY <1>0, <1>14, <1>b, <2>1, <2>2, SameKeeps DEF PidsReused
<1>15. ASSUME NEW s \in Session, NEW status \in Override, TaskUpdate(s, status) PROVE Goal
  <2>1. \A t \in Session : Same(t)
    BY <1>15 DEF TaskUpdate, Same
  <2>2. Exclusive'
    BY <1>0, <1>15, ExclusiveKept DEF TaskUpdate
  <2> QED
    BY <1>0, <1>15, <1>b, <2>1, <2>2, SameKeeps DEF TaskUpdate
<1>16. ASSUME NEW h \in Host, Reboot(h) PROVE Goal
  <2>0. /\ boot' = [boot EXCEPT ![h] = @ + 1] /\ booted' = [booted EXCEPT ![h] = reboots + 1]
        /\ reboots' = reboots + 1
        /\ UNCHANGED <<home, run, native, witness, started, closedBy, abandoned>>
    BY <1>16 DEF Reboot
  <2>1. ASSUME NEW t \in Session, home[t][1] # h PROVE Sess(t)'
    <3>1. /\ pc'[t] = pc[t] /\ wrapper'[t] = wrapper[t] /\ child'[t] = child[t]
          /\ boot'[home[t][1]] = boot[home[t][1]] /\ booted'[home[t][1]] = booted[home[t][1]]
      BY <1>0, <1>16, <2>1, HomeHosts DEF Reboot, TypeOK
    <3> QED
      BY <1>0, <2>0, <3>1 DEF Sess, StageInv, BootInv, CloserInv, Alive
  <2>2. ASSUME NEW t \in Session, home[t][1] = h PROVE Sess(t)'
    <3>1. /\ wrapper'[t] # "alive" /\ child'[t] # "alive" /\ (child[t] = "none" => child'[t] = "none")
          /\ pc'[t] = IF pc[t] # "idle" THEN "exited" ELSE "idle"
      BY <1>0, <1>16, <2>2 DEF Reboot, AfterReboot, TypeOK
    <3> QED
      BY <1>0, <2>0, <3>1 DEF Sess, StageInv, BootInv, CloserInv, Alive
  <2>3. Exclusive'
    BY <1>0, <2>0, ExclusiveKept
  <2>4. BootsAreCounted'
    BY <1>0, <2>0 DEF BootsAreCounted, TypeOK
  <2> QED
    BY <2>1, <2>2, <2>3, <2>4
<1>17. ASSUME NEW p \in Place, NEW unread \in SUBSET Session, NEW legacy \in BOOLEAN, Reconcile(p, unread, legacy)
       PROVE  Goal
  <2> DEFINE D == {s \in Session : DeadReason(p, s, unread) \/ (legacy /\ Legacy(p, s))}
  <2>1. Close(D, FALSE, ByRecovery(p))
    BY <1>17 DEF Reconcile
  <2>c. Closes(D, ByRecovery(p))
    BY <1>0, <2>1, CloseFacts, ByTypes
  <2>2. UNCHANGED <<home, pc, wrapper, child, native, witness, started, boot, booted, reboots, abandoned>>
    BY <1>17 DEF Reconcile
  <2>3. ASSUME NEW t \in Session PROVE Sess(t)'
    <3>1. CASE run'[t] = run[t] /\ closedBy'[t] = closedBy[t]
      <4>1. Same(t)
        BY <2>2, <3>1 DEF Same
      <4> QED
        BY <1>0, <4>1, SameKeeps
    <3>2. CASE run[t] = "running" /\ run'[t] \in Ended /\ closedBy'[t] = ByRecovery(p)[t] /\ t \in D
      <4>1. CASE DeadReason(p, t, unread)
        <5>1. ~Alive(t) /\ closedBy'[t] = "recovery"
          BY <1>0, <3>2, <4>1 DEF DeadReason, Dead, Alive, Sess, BootInv, ByRecovery
        <5> QED
          BY <1>0, <2>2, <3>2, <5>1 DEF Sess, StageInv, BootInv, CloserInv, Alive, Ended
      <4>2. CASE Legacy(p, t)
        <5>1. closedBy'[t] = "foreign" \/ (closedBy'[t] = "legacy" /\ home[t][1] = p[1])
          BY <3>2, <4>2 DEF Legacy, ByRecovery
        <5>2. home[t][1] = p[1] => ~Alive(t)
          BY <1>0, <3>2, <4>2 DEF Legacy, Sess, BootInv
        <5> QED
          BY <1>0, <2>2, <3>2, <5>1, <5>2 DEF Sess, StageInv, BootInv, CloserInv, Alive, Ended
      <4> QED
        BY <3>2, <4>1, <4>2
    <3> QED
      BY <2>c, <3>1, <3>2 DEF Closes
  <2>4. Exclusive'
    BY <1>0, <2>c, <2>2, ExclusiveKept DEF Closes, Ended
  <2> QED
    BY <1>b, <2>2, <2>3, <2>4
<1> HIDE DEF planVars, procVars, rowVars, hostVars
<1> QED
  BY <1>1, <1>2, <1>3, <1>4, <1>5, <1>6, <1>7, <1>8, <1>9, <1>10, <1>11, <1>12, <1>13, <1>14,
     <1>15, <1>16, <1>17, NextIsAStep DEF Step

LEMMA AlwaysSessionInv == Spec => []SessionInv
<1>1. Init => SessionInv
  BY InvInit
<1>2. SessionInv /\ [Next]_vars => SessionInv'
  BY InvStep
<1> QED
  BY <1>1, <1>2, PTL DEF Spec

-----------------------------------------------------------------------------
(* The theorems.                                                           *)

\* Sessions, processes and hosts keep their types, whatever fails.
THEOREM TypeCorrect == Spec => []TypeOK
<1>1. SessionInv => TypeOK
  BY DEF SessionInv
<1> QED
  BY <1>1, AlwaysSessionInv, PTL

\* What reconcile_sessions closed has neither a wrapper nor an agent that lives.
THEOREM RecoveryIsConservative == Spec => []RecoverySparesTheLiving
<1>1. SessionInv => RecoverySparesTheLiving
  BY DEF SessionInv, Sess, CloserInv, RecoverySparesTheLiving
<1> QED
  BY <1>1, AlwaysSessionInv, PTL

LEMMA OnRecord == SessionInv => LiveAgentsAreOnRecord
<1> SUFFICES ASSUME SessionInv, NEW s \in Session, child[s] = "alive"
             PROVE  run[s] = "running" \/ s \in abandoned \/ closedBy[s] = "foreign"
    BY DEF LiveAgentsAreOnRecord
<1>1. Sess(s) /\ closedBy[s] \in {"none", "wrapper", "recovery", "legacy", "foreign"}
  BY DEF SessionInv, TypeOK
<1>2. run[s] # "none"
  BY <1>1 DEF Sess, StageInv
<1>3. closedBy[s] = "none" => run[s] = "running"
  BY <1>1, <1>2 DEF Sess, CloserInv
<1>4. closedBy[s] = "wrapper" => s \in abandoned
  BY <1>1 DEF Sess, CloserInv
<1>5. closedBy[s] \notin {"recovery", "legacy"}
  BY <1>1 DEF Sess, CloserInv, Alive
<1> QED
  BY <1>1, <1>3, <1>4, <1>5

\* A live agent's session is open, but for an agent its wrapper could not wait for
\* and a row of another host that was closed by hand.
THEOREM AgentsAreOnRecord == Spec => []LiveAgentsAreOnRecord
  BY OnRecord, AlwaysSessionInv, PTL

\* bind_native_resume keeps a conversation that wrappers bound to one live agent,
\* with the same two exceptions.
THEOREM ConversationsAreExclusive == Spec => []OneAgentPerConversation
<1>1. SessionInv => OneAgentPerConversation
  <2> SUFFICES ASSUME SessionInv, NEW s \in Session, NEW t \in Session, s # t, child[s] = "alive",
                      child[t] = "alive", native[s] = native[t]
               PROVE  native[s] = None \/ \E u \in {s, t} : u \in abandoned \/ closedBy[u] = "foreign"
      BY DEF OneAgentPerConversation
  <2>1. \A u \in {s, t} : run[u] = "running" \/ u \in abandoned \/ closedBy[u] = "foreign"
    BY OnRecord DEF LiveAgentsAreOnRecord
  <2>2. run[s] = "running" /\ run[t] = "running" => native[s] = None
    BY DEF SessionInv, Exclusive
  <2> QED
    BY <2>1, <2>2
<1> QED
  BY <1>1, AlwaysSessionInv, PTL

(* What one step does to the session rows.                                 *)
Opens(s) ==
    /\ pc[s] = "idle" /\ closedBy' = closedBy
    /\ run' = [run EXCEPT ![s] = "running"] /\ task' = [task EXCEPT ![s] = "in_progress"]

RowStep ==
    \/ UNCHANGED <<run, task, closedBy>>
    \/ \E S \in SUBSET Session, by \in [Session -> Closer] : Closes(S, by)
    \/ \E s \in Session : Opens(s)
    \/ \E s \in Session, status \in Override : TaskUpdate(s, status)

LEMMA RowsMove == ASSUME TypeOK, [Next]_vars PROVE RowStep
<1> USE DEF planVars, procVars, rowVars, hostVars
<1>1. CASE UNCHANGED vars
  BY <1>1 DEF vars, RowStep
<1>2. ASSUME NEW s \in Session, NEW seen \in BOOLEAN, NEW ok \in BOOLEAN, Start(s, seen, ok) PROVE RowStep
  <2>1. CASE ok = TRUE
    BY <1>2, <2>1 DEF Start, Opens, RowStep
  <2>2. CASE ok = FALSE
    BY <1>2, <2>2 DEF Start, RowStep
  <2> QED
    BY <2>1, <2>2
<1>3. ASSUME NEW s \in Session, NEW ok \in BOOLEAN, Abort(s, ok) \/ FinishSession(s, ok) PROVE RowStep
  <2>1. \/ UNCHANGED <<run, task, closedBy>>
        \/ \E success \in BOOLEAN : Close({s}, success, ByWrapper)
    <3>1. CASE ok = TRUE
      <4>1. outcome[s] \in BOOLEAN
        BY DEF TypeOK
      <4> QED
        BY <1>3, <3>1, <4>1 DEF Abort, FinishSession
    <3>2. CASE ok = FALSE
      BY <1>3, <3>2 DEF Abort, FinishSession
    <3> QED
      BY <3>1, <3>2
  <2>2. {s} \in SUBSET Session
    OBVIOUS
  <2> QED
    BY <2>1, <2>2, CloseFacts, ByTypes DEF RowStep
<1>4. ASSUME NEW p \in Place, NEW unread \in SUBSET Session, NEW legacy \in BOOLEAN, Reconcile(p, unread, legacy)
      PROVE  RowStep
  <2> DEFINE D == {s \in Session : DeadReason(p, s, unread) \/ (legacy /\ Legacy(p, s))}
  <2>1. Close(D, FALSE, ByRecovery(p))
    BY <1>4 DEF Reconcile
  <2>2. Closes(D, ByRecovery(p))
    BY <2>1, CloseFacts, ByTypes
  <2>3. D \in SUBSET Session
    OBVIOUS
  <2> HIDE DEF D
  <2> QED
    BY <2>2, <2>3, ByTypes DEF RowStep
<1>6. ASSUME NEW s \in Session, NEW ok \in BOOLEAN, Bind(s, ok) \/ Spawn(s, ok) PROVE RowStep
  BY <1>6 DEF Bind, Spawn, RowStep
<1>7. ASSUME NEW s \in Session, NEW seen \in BOOLEAN, NEW ok \in BOOLEAN, Attach(s, seen, ok) PROVE RowStep
  BY <1>7 DEF Attach, RowStep
<1>8. ASSUME NEW s \in Session, NEW success \in BOOLEAN, Reap(s, success) PROVE RowStep
  BY <1>8 DEF Reap, RowStep
<1>9. ASSUME NEW s \in Session, BindNoDb(s) \/ Stop(s) \/ WaitFails(s) PROVE RowStep
  BY <1>9 DEF BindNoDb, Stop, WaitFails, RowStep
<1>10. ASSUME NEW s \in Session, AgentExits(s) \/ WrapperKilled(s) \/ PidsReused(s) PROVE RowStep
  BY <1>10 DEF AgentExits, WrapperKilled, PidsReused, RowStep
<1>11. ASSUME NEW s \in Session, NEW status \in Override, TaskUpdate(s, status) PROVE RowStep
  BY <1>11 DEF RowStep
<1>12. ASSUME NEW h \in Host, Reboot(h) PROVE RowStep
  BY <1>12 DEF Reboot, RowStep
<1> HIDE DEF planVars, procVars, rowVars, hostVars
<1> QED
  BY <1>1, <1>2, <1>3, <1>4, <1>6, <1>7, <1>8, <1>9, <1>10, <1>11, <1>12, NextIsAStep DEF Step

(* A session that was never recorded has no task.                          *)
TasksAreRecorded == \A s \in Session : run[s] = "none" => task[s] = "none"

LEMMA TasksRecordedStep ==
    ASSUME TypeOK, TasksAreRecorded, RowStep
    PROVE  TasksAreRecorded'
<1>1. CASE UNCHANGED <<run, task, closedBy>>
  BY <1>1 DEF TasksAreRecorded
<1>2. ASSUME NEW S \in SUBSET Session, NEW by \in [Session -> Closer], Closes(S, by)
      PROVE  TasksAreRecorded'
  BY <1>2 DEF TasksAreRecorded, Closes, Ended
<1>3. ASSUME NEW s \in Session, Opens(s) PROVE TasksAreRecorded'
  BY <1>3 DEF TasksAreRecorded, Opens, TypeOK
<1>4. ASSUME NEW s \in Session, NEW status \in Override, TaskUpdate(s, status) PROVE TasksAreRecorded'
  BY <1>4 DEF TasksAreRecorded, TaskUpdate, TypeOK
<1> QED
  BY <1>1, <1>2, <1>3, <1>4 DEF RowStep

\* The first end of a session counts, whoever closes it again later, and a task that
\* ended, or that the operator took out of the session's hands, is the operator's.
EndIsFinal ==
    [][\A s \in Session :
          /\ run[s] \in Ended => run'[s] = run[s] /\ closedBy'[s] = closedBy[s]
          /\ task[s] \notin {"none", "in_progress"} => task'[s] = task[s] \/ kills' = kills + 1]_vars

EndKept(s) ==
    /\ run[s] \in Ended => run'[s] = run[s] /\ closedBy'[s] = closedBy[s]
    /\ task[s] \notin {"none", "in_progress"} => task'[s] = task[s] \/ kills' = kills + 1

LEMMA EndStays ==
    ASSUME SessionInv, TasksAreRecorded, RowStep, NEW s \in Session
    PROVE  EndKept(s)
<1>0. TypeOK /\ \A t \in Session : Sess(t)
  BY DEF SessionInv
<1>1. CASE UNCHANGED <<run, task, closedBy>>
  BY <1>1 DEF EndKept
<1>2. ASSUME NEW S \in SUBSET Session, NEW by \in [Session -> Closer], Closes(S, by)
      PROVE  EndKept(s)
  BY <1>2 DEF EndKept, Closes, Ended
<1>3. ASSUME NEW t \in Session, Opens(t) PROVE EndKept(s)
  <2>1. run[t] = "none" /\ task[t] = "none"
    BY <1>0, <1>3 DEF Opens, Sess, StageInv, TasksAreRecorded
  <2> QED
    BY <1>0, <1>3, <2>1 DEF EndKept, Opens, Ended, TypeOK
<1>4. ASSUME NEW t \in Session, NEW status \in Override, TaskUpdate(t, status) PROVE EndKept(s)
  BY <1>4 DEF EndKept, TaskUpdate
<1> QED
  BY <1>1, <1>2, <1>3, <1>4 DEF RowStep

\* The first end of a session counts, and only the operator moves a task that has left
\* the session's hands, however late a wrapper or recovery closes it again.
THEOREM EndsAreFinal == Spec => EndIsFinal
<1>1. Init => TasksAreRecorded
  BY DEF Init, TasksAreRecorded
<1>2. SessionInv /\ TasksAreRecorded /\ [Next]_vars => TasksAreRecorded'
  BY RowsMove, TasksRecordedStep DEF SessionInv
<1>3. SessionInv /\ TasksAreRecorded /\ [Next]_vars =>
      [\A s \in Session :
          /\ run[s] \in Ended => run'[s] = run[s] /\ closedBy'[s] = closedBy[s]
          /\ task[s] \notin {"none", "in_progress"} => task'[s] = task[s] \/ kills' = kills + 1]_vars
  BY RowsMove, EndStays DEF SessionInv, EndKept
<1> QED
  BY <1>1, <1>2, <1>3, AlwaysSessionInv, PTL DEF Spec, EndIsFinal

-----------------------------------------------------------------------------
(* The rows implement the register.                                        *)

\* A wrapper reports success only of an agent it reaped.
SuccessIsReaped == \A s \in Session : outcome[s] = TRUE => pc[s] = "ending" /\ child[s] = "gone"

(* A session whose outcome is not set, or that stays where it is.          *)
LEMMA ReapedKept ==
    ASSUME SuccessIsReaped,
           \A s \in Session : \/ outcome'[s] = FALSE
                              \/ pc'[s] = "ending" /\ child'[s] = "gone"
                              \/ outcome'[s] = outcome[s] /\ pc'[s] = pc[s] /\ child'[s] = child[s]
    PROVE  SuccessIsReaped'
BY DEF SuccessIsReaped

(* A step of a wrapper moves nobody else's processes or place.             *)
OthersKept(s) ==
    \A t \in Session \ {s} : outcome'[t] = outcome[t] /\ pc'[t] = pc[t] /\ child'[t] = child[t]

LEMMA ReapedStep == SessionInv /\ SuccessIsReaped /\ [Next]_vars => SuccessIsReaped'
<1> SUFFICES ASSUME SessionInv, SuccessIsReaped, [Next]_vars PROVE SuccessIsReaped'
    OBVIOUS
<1>0. TypeOK /\ \A s \in Session : outcome[s] \in BOOLEAN /\ (pc[s] # "ending" => outcome[s] = FALSE)
  BY DEF SessionInv, TypeOK, SuccessIsReaped
<1> USE DEF planVars, procVars, rowVars, hostVars
<1>1. CASE UNCHANGED <<outcome, pc, child>>
  BY <1>1, ReapedKept
<1>2. ASSUME NEW s \in Session, Dies(s) PROVE SuccessIsReaped'
  <2>1. OthersKept(s) /\ outcome'[s] = FALSE
    BY <1>0, <1>2 DEF Dies, Goto, OthersKept, TypeOK
  <2> QED
    BY <2>1, ReapedKept DEF OthersKept
<1>3. ASSUME NEW s \in Session, OthersKept(s), outcome' = outcome, pc[s] # "ending" PROVE SuccessIsReaped'
  BY <1>0, <1>3, ReapedKept DEF OthersKept
<1>4. ASSUME NEW s \in Session, NEW seen \in BOOLEAN, NEW ok \in BOOLEAN, Start(s, seen, ok) \/ Attach(s, seen, ok)
      PROVE  SuccessIsReaped'
  <2>1. OthersKept(s) /\ outcome' = outcome /\ pc[s] # "ending"
    BY <1>0, <1>4 DEF Start, Attach, Goto, OthersKept, TypeOK
  <2> QED
    BY <1>3, <2>1
<1>5. ASSUME NEW s \in Session, NEW ok \in BOOLEAN, Bind(s, ok) \/ Spawn(s, ok) PROVE SuccessIsReaped'
  <2>1. OthersKept(s) /\ outcome' = outcome /\ pc[s] # "ending"
    BY <1>0, <1>5 DEF Bind, Spawn, Goto, OthersKept, TypeOK
  <2> QED
    BY <1>3, <2>1
<1>6. ASSUME NEW s \in Session, NEW success \in BOOLEAN, Reap(s, success) PROVE SuccessIsReaped'
  <2>1. OthersKept(s) /\ pc'[s] = "ending" /\ child'[s] = "gone"
    BY <1>0, <1>6 DEF Reap, Goto, OthersKept, TypeOK
  <2> QED
    BY <2>1, ReapedKept DEF OthersKept
<1>7. ASSUME NEW s \in Session, Stop(s) \/ WaitFails(s) PROVE SuccessIsReaped'
  <2>1. OthersKept(s) /\ outcome'[s] = FALSE
    BY <1>0, <1>7 DEF Stop, WaitFails, Goto, OthersKept, TypeOK
  <2> QED
    BY <2>1, ReapedKept DEF OthersKept
<1>8. ASSUME NEW s \in Session, AgentExits(s) PROVE SuccessIsReaped'
  <2>1. OthersKept(s) /\ outcome' = outcome /\ child[s] = "alive"
    BY <1>0, <1>8 DEF AgentExits, OthersKept, TypeOK
  <2>2. outcome[s] = FALSE
    BY <1>0, <2>1 DEF SuccessIsReaped
  <2> QED
    BY <2>1, <2>2, ReapedKept DEF OthersKept
<1>9. ASSUME NEW h \in Host, Reboot(h) PROVE SuccessIsReaped'
  <2>1. ASSUME NEW s \in Session, home[s][1] = h PROVE outcome'[s] = FALSE
    BY <1>9, <2>1 DEF Reboot
  <2>2. ASSUME NEW s \in Session, home[s][1] # h
        PROVE  outcome'[s] = outcome[s] /\ pc'[s] = pc[s] /\ child'[s] = child[s]
    <3>1. pc'[s] = pc[s] /\ child'[s] = child[s]
      BY <1>9, <2>2 DEF Reboot
    <3>2. outcome'[s] = (TRUE /\ outcome[s])
      BY <1>9, <2>2 DEF Reboot
    <3> QED
      BY <1>0, <3>1, <3>2
  <2> QED
    BY <2>1, <2>2, ReapedKept
<1>10. ASSUME NEW s \in Session, NEW ok \in BOOLEAN, Abort(s, ok) \/ FinishSession(s, ok) PROVE SuccessIsReaped'
  BY <1>2, <1>10 DEF Abort, FinishSession
<1>11. ASSUME NEW s \in Session, BindNoDb(s) \/ WrapperKilled(s) PROVE SuccessIsReaped'
  BY <1>2, <1>11 DEF BindNoDb, WrapperKilled
<1>12. ASSUME NEW s \in Session, PidsReused(s) PROVE SuccessIsReaped'
  BY <1>1, <1>12 DEF PidsReused
<1>13. ASSUME NEW s \in Session, NEW status \in Override, TaskUpdate(s, status) PROVE SuccessIsReaped'
  BY <1>1, <1>13 DEF TaskUpdate
<1>14. ASSUME NEW p \in Place, NEW unread \in SUBSET Session, NEW legacy \in BOOLEAN, Reconcile(p, unread, legacy)
       PROVE  SuccessIsReaped'
  BY <1>1, <1>14 DEF Reconcile
<1>15. CASE UNCHANGED vars
  BY <1>1, <1>15 DEF vars
<1> HIDE DEF planVars, procVars, rowVars, hostVars
<1> QED
  BY <1>4, <1>5, <1>6, <1>7, <1>8, <1>9, <1>10, <1>11, <1>12, <1>13, <1>14, <1>15, NextIsAStep DEF Step

LEMMA RegisterInit == Init => Register!Init
BY DEF Init, Register!Init, agentState, outOfHand

(* What the register does not see.                                         *)
LEMMA RegisterKept ==
    ASSUME UNCHANGED <<run, task, native, abandoned, closedBy>>,
           \A s \in Session : agentState'[s] = agentState[s]
    PROVE  UNCHANGED Register!vars
<1>1. agentState' = agentState
  BY DEF agentState
<1> QED
  BY <1>1 DEF Register!vars, outOfHand

(* Sessions closed by their wrapper or by recovery are closed in the       *)
(* register: those that still ran, and as given up those of another host.  *)
LEMMA CloseCloses ==
    ASSUME SessionInv, NEW S \in SUBSET Session, NEW success \in BOOLEAN, NEW by \in [Session -> Closer],
           Close(S, success, by), UNCHANGED <<native, abandoned>>,
           \A s \in Session : agentState'[s] = agentState[s],
           \A s \in S : run[s] = "running" /\ by[s] # "foreign" => child[s] # "alive" \/ s \in abandoned,
           success = TRUE => \A s \in S : child[s] = "gone"
    PROVE  Register!Next
<1> DEFINE C == {s \in S : run[s] = "running"}
           L == {s \in C : by[s] = "foreign"}
<1>0. TypeOK /\ \A s \in Session : run[s] = "running" => closedBy[s] = "none"
  BY DEF SessionInv, Sess, CloserInv
<1>1. C \in SUBSET Session /\ L \in SUBSET C
  OBVIOUS
<1>2. agentState' = agentState
  BY DEF agentState
<1>3. outOfHand' = outOfHand \cup L
  <2>1. \A s \in Session : closedBy'[s] = IF s \in C THEN by[s] ELSE closedBy[s]
    BY DEF Close
  <2>2. \A s \in C : closedBy[s] = "none"
    BY <1>0
  <2> QED
    BY <2>1, <2>2 DEF outOfHand
<1>4. \A s \in C : run[s] = "running"
  OBVIOUS
<1>5. \A s \in C \ (L \cup outOfHand) : agentState[s] # "alive"
  BY DEF agentState, outOfHand
<1>6. success = TRUE => \A s \in C : agentState[s] = "ended"
  BY DEF agentState
<1>7. run' = [s \in Session |-> IF s \notin C THEN run[s] ELSE IF success THEN "succeeded" ELSE "failed"]
  BY DEF Close, Final
<1>8. task' = [s \in Session |-> IF s \notin C \/ task[s] # "in_progress" THEN task[s]
                                 ELSE IF success THEN "completed" ELSE "failed"]
  BY DEF Close
<1> HIDE DEF C, L
<1>9. Register!Close(C, success, L)
  BY <1>2, <1>3, <1>4, <1>5, <1>6, <1>7, <1>8 DEF Register!Close
<1> QED
  BY <1>1, <1>9 DEF Register!Next

LEMMA EndIsClosed ==
    ASSUME SessionInv, NEW s \in Session, Dies(s), NEW success \in BOOLEAN,
           Close({s}, success, ByWrapper) \/ UNCHANGED <<run, task, closedBy>>,
           UNCHANGED <<native, abandoned>>,
           child[s] = "alive" => s \in abandoned, success = TRUE => child[s] = "gone"
    PROVE  Register!Next \/ UNCHANGED Register!vars
<1>1. \A t \in Session : agentState'[t] = agentState[t]
  BY DEF SessionInv, TypeOK, Dies, agentState
<1>2. CASE UNCHANGED <<run, task, closedBy>>
  BY <1>1, <1>2, RegisterKept
<1>3. CASE Close({s}, success, ByWrapper)
  <2>1. {s} \in SUBSET Session
    OBVIOUS
  <2>2. \A t \in {s} : run[t] = "running" /\ ByWrapper[t] # "foreign" => child[t] # "alive" \/ t \in abandoned
    OBVIOUS
  <2>3. success = TRUE => \A t \in {s} : child[t] = "gone"
    OBVIOUS
  <2>4. ByWrapper \in [Session -> Closer]
    BY ByTypes
  <2>5. Register!Next
    BY <1>1, <1>3, <2>1, <2>2, <2>3, <2>4, CloseCloses, Zenon
  <2> QED
    BY <2>5
<1> QED
  BY <1>2, <1>3

LEMMA RegisterStep ==
    ASSUME SessionInv, SessionInv', SuccessIsReaped, [Next]_vars
    PROVE  Register!Next \/ UNCHANGED Register!vars
<1> DEFINE Goal == Register!Next \/ UNCHANGED Register!vars
<1> SUFFICES Goal
    OBVIOUS
<1>0. TypeOK /\ \A s \in Session : Sess(s)
  BY DEF SessionInv
<1> USE DEF planVars, procVars, rowVars, hostVars
<1>1. CASE UNCHANGED <<run, task, native, abandoned, closedBy, child>>
  BY <1>1, RegisterKept DEF agentState
<1>2. ASSUME NEW s \in Session, NEW seen \in BOOLEAN, NEW ok \in BOOLEAN, Start(s, seen, ok) PROVE Goal
  <2>1. CASE ok = TRUE
    <3>1. /\ run[s] = "none" /\ run' = [run EXCEPT ![s] = "running"]
          /\ task' = [task EXCEPT ![s] = "in_progress"]
          /\ UNCHANGED <<native, child, abandoned, closedBy>>
      BY <1>0, <1>2, <2>1 DEF Start, Sess, StageInv
    <3>2. Register!Open(s)
      BY <3>1 DEF Register!Open, agentState, outOfHand
    <3> QED
      BY <3>2 DEF Register!Next
  <2>2. CASE ok = FALSE
    BY <1>1, <1>2, <2>2 DEF Start
  <2> QED
    BY <2>1, <2>2
<1>3. ASSUME NEW s \in Session, NEW ok \in BOOLEAN, Bind(s, ok) PROVE Goal
  <2>1. /\ pc[s] = "started" /\ want[s] \in Conversation \cup {None}
        /\ UNCHANGED <<run, task, child, abandoned, closedBy>>
    BY <1>0, <1>3 DEF Bind, TypeOK
  <2>2. CASE native' = native
    BY <1>1, <2>1, <2>2
  <2>3. CASE want[s] # None /\ ~Taken(s) /\ native[s] = None /\ run[s] = "running"
             /\ native' = [native EXCEPT ![s] = want[s]]
    <3>1. agentState[s] = "none" /\ agentState' = agentState /\ outOfHand' = outOfHand
      BY <1>0, <2>1 DEF Sess, StageInv, agentState, outOfHand
    <3>2. PICK c \in Conversation : c = want[s]
      BY <2>1, <2>3
    <3>3. Register!Reserve(s, c)
      BY <2>1, <2>3, <3>1, <3>2 DEF Register!Reserve, Taken
    <3> QED
      BY <3>3 DEF Register!Next
  <2> QED
    BY <1>3, <2>2, <2>3 DEF Bind
<1>4. ASSUME NEW s \in Session, NEW ok \in BOOLEAN, Spawn(s, ok) PROVE Goal
  <2>1. CASE ok = TRUE
    <3>1. /\ pc[s] = "bound" /\ child' = [child EXCEPT ![s] = "alive"]
          /\ UNCHANGED <<run, task, native, abandoned, closedBy>>
      BY <1>4, <2>1 DEF Spawn
    <3>2. child[s] = "none" /\ wrapper[s] = "alive" /\ run[s] # "none"
      BY <1>0, <3>1 DEF Sess, StageInv
    <3>3. run[s] = "running" \/ s \in outOfHand
      BY <1>0, <3>2 DEF Sess, CloserInv, Alive, TypeOK, outOfHand
    <3>4. agentState' = [agentState EXCEPT ![s] = "alive"]
      BY <1>0, <3>1 DEF agentState, TypeOK
    <3>5. Register!Launch(s)
      BY <3>1, <3>2, <3>3, <3>4 DEF Register!Launch, agentState, outOfHand
    <3> QED
      BY <3>5 DEF Register!Next
  <2>2. CASE ok = FALSE
    BY <1>1, <1>4, <2>2 DEF Spawn
  <2> QED
    BY <2>1, <2>2
<1>5. ASSUME NEW s \in Session, NEW ok \in BOOLEAN, Abort(s, ok) PROVE Goal
  <2>1. /\ Dies(s) /\ UNCHANGED <<native, abandoned>> /\ child[s] # "alive"
        /\ (Close({s}, FALSE, ByWrapper) \/ UNCHANGED <<run, task, closedBy>>)
    BY <1>0, <1>5 DEF Abort, Sess, StageInv
  <2> QED
    BY <2>1, EndIsClosed
<1>6. ASSUME NEW s \in Session, NEW ok \in BOOLEAN, FinishSession(s, ok) PROVE Goal
  <2>1. /\ Dies(s) /\ UNCHANGED <<native, abandoned>> /\ (child[s] = "alive" => s \in abandoned)
        /\ (Close({s}, outcome[s], ByWrapper) \/ UNCHANGED <<run, task, closedBy>>)
    BY <1>0, <1>6 DEF FinishSession, Sess, StageInv
  <2>2. outcome[s] \in BOOLEAN /\ (outcome[s] = TRUE => child[s] = "gone")
    BY <1>0 DEF TypeOK, SuccessIsReaped
  <2> QED
    BY <2>1, <2>2, EndIsClosed
<1>7. ASSUME NEW s \in Session, child[s] = "alive", child'[s] \in {"zombie", "gone"},
             \A t \in Session \ {s} : child'[t] = child[t],
             UNCHANGED <<run, task, native, abandoned, closedBy>>
      PROVE  Goal
  <2>1. agentState[s] = "alive" /\ agentState' = [t \in Session |-> IF t \in {s} THEN "ended" ELSE agentState[t]]
    BY <1>7 DEF agentState
  <2>2. Register!End({s})
    BY <1>7, <2>1 DEF Register!End, outOfHand
  <2>3. {s} \in SUBSET Session
    OBVIOUS
  <2> QED
    BY <2>2, <2>3 DEF Register!Next
<1>8. ASSUME NEW s \in Session, Stop(s) \/ AgentExits(s) PROVE Goal
  <2>1. /\ child[s] = "alive" /\ child'[s] \in {"zombie", "gone"}
        /\ \A t \in Session \ {s} : child'[t] = child[t]
        /\ UNCHANGED <<run, task, native, abandoned, closedBy>>
    BY <1>0, <1>8 DEF Stop, AgentExits, TypeOK
  <2> QED
    BY <1>7, <2>1
<1>9. ASSUME NEW s \in Session, NEW success \in BOOLEAN, Reap(s, success) PROVE Goal
  BY <1>0, <1>9, RegisterKept DEF Reap, agentState, TypeOK
<1>10. ASSUME NEW s \in Session, WaitFails(s) PROVE Goal
  <2>1. /\ pc[s] = "waiting" /\ abandoned' = abandoned \cup {s}
        /\ UNCHANGED <<run, task, native, child, closedBy>>
    BY <1>10 DEF WaitFails
  <2>2. run[s] # "none"
    BY <1>0, <2>1 DEF Sess, StageInv
  <2>3. outOfHand' = outOfHand \cup {s} /\ agentState' = agentState
    BY <2>1 DEF outOfHand, agentState
  <2>4. Register!LoseHold(s)
    BY <2>1, <2>2, <2>3 DEF Register!LoseHold
  <2> QED
    BY <2>4 DEF Register!Next
<1>11. ASSUME NEW s \in Session, BindNoDb(s) \/ WrapperKilled(s) PROVE Goal
  <2>1. Dies(s) /\ UNCHANGED <<run, task, native, abandoned, closedBy>>
    BY <1>11 DEF BindNoDb, WrapperKilled
  <2> QED
    BY <1>0, <2>1, RegisterKept DEF Dies, agentState, TypeOK
<1>12. ASSUME NEW s \in Session, NEW seen \in BOOLEAN, NEW ok \in BOOLEAN, Attach(s, seen, ok) PROVE Goal
  BY <1>1, <1>12 DEF Attach
<1>13. ASSUME NEW s \in Session, PidsReused(s) PROVE Goal
  BY <1>1, <1>13 DEF PidsReused
<1>14. ASSUME NEW s \in Session, NEW status \in Override, TaskUpdate(s, status) PROVE Goal
  <2>1. Register!Overrule(s, status)
    BY <1>14 DEF TaskUpdate, Register!Overrule, agentState, outOfHand
  <2> QED
    BY <2>1 DEF Register!Next
<1>15. ASSUME NEW h \in Host, Reboot(h) PROVE Goal
  <2> DEFINE E == {s \in Session : home[s][1] = h /\ child[s] = "alive"}
  <2>1. UNCHANGED <<run, task, native, abandoned, closedBy>>
    BY <1>15 DEF Reboot
  <2>2. \A s \in Session : agentState'[s] = IF s \in E THEN "ended" ELSE agentState[s]
    BY <1>0, <1>15 DEF Reboot, AfterReboot, agentState, TypeOK
  <2>3. E \in SUBSET Session /\ \A s \in E : agentState[s] = "alive"
    BY DEF agentState
  <2> HIDE DEF E
  <2>4. agentState' = [s \in Session |-> IF s \in E THEN "ended" ELSE agentState[s]]
    BY <2>2 DEF agentState
  <2>5. Register!End(E)
    BY <2>1, <2>3, <2>4 DEF Register!End, outOfHand
  <2> QED
    BY <2>3, <2>5 DEF Register!Next
<1>16. ASSUME NEW p \in Place, NEW unread \in SUBSET Session, NEW legacy \in BOOLEAN, Reconcile(p, unread, legacy)
       PROVE  Goal
  <2> DEFINE D == {s \in Session : DeadReason(p, s, unread) \/ (legacy /\ Legacy(p, s))}
  <2>1. Close(D, FALSE, ByRecovery(p)) /\ UNCHANGED <<native, abandoned, child>>
    BY <1>16 DEF Reconcile
  <2>2. Closes(D, ByRecovery(p))
    BY <1>0, <2>1, CloseFacts, ByTypes
  <2>3. D \in SUBSET Session
    OBVIOUS
  <2> HIDE DEF D
  <2>4. ASSUME NEW s \in D, run[s] = "running", ByRecovery(p)[s] # "foreign" PROVE child[s] # "alive"
    <3>1. s \in Session /\ closedBy'[s] \in {"recovery", "legacy"}
      BY <2>2, <2>3, <2>4 DEF Closes, ByRecovery
    <3>2. child'[s] # "alive"
      BY <3>1 DEF SessionInv, Sess, CloserInv, Alive
    <3> QED
      BY <2>1, <3>2
  <2>5. \A s \in Session : agentState'[s] = agentState[s]
    BY <2>1 DEF agentState
  <2>6. \A s \in D : run[s] = "running" /\ ByRecovery(p)[s] # "foreign" => child[s] # "alive" \/ s \in abandoned
    BY <2>4
  <2>7. ByRecovery(p) \in [Session -> Closer] /\ FALSE \in BOOLEAN
        /\ (FALSE = TRUE => \A s \in D : child[s] = "gone")
    BY ByTypes
  <2>8. UNCHANGED <<native, abandoned>>
    BY <2>1
  <2>9. Register!Next
    BY <2>1, <2>3, <2>5, <2>6, <2>7, <2>8, CloseCloses, Zenon
  <2> QED
    BY <2>9
<1>17. CASE UNCHANGED vars
  BY <1>1, <1>17 DEF vars
<1> HIDE DEF planVars, procVars, rowVars, hostVars, Goal
<1> QED
  BY <1>2, <1>3, <1>4, <1>5, <1>6, <1>8, <1>9, <1>10, <1>11, <1>12, <1>13, <1>14, <1>15, <1>16, <1>17,
     NextIsAStep DEF Step

\* The session rows, written by wrappers that die anywhere, by recovery from any place
\* and by operators, implement the register of sessions that end once.
THEOREM SessionsImplementRegister == Spec => RefinesRegister
<1>1. Init => SuccessIsReaped
  BY DEF Init, SuccessIsReaped
<1>2. SessionInv /\ SessionInv' /\ SuccessIsReaped /\ [Next]_vars => [Register!Next]_(Register!vars)
  BY RegisterStep
<1> QED
  BY <1>1, <1>2, RegisterInit, ReapedStep, AlwaysSessionInv, PTL DEF Spec, RefinesRegister, Register!Spec
=============================================================================
