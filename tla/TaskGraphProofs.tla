-------------------------- MODULE TaskGraphProofs --------------------------
(***************************************************************************)
(* The safety of task graphs, for every set of nodes, every shape of the   *)
(* graph, every number of executors and every number of failures.          *)
(***************************************************************************)
EXTENDS TaskGraph, TLAPS

USE TaskGraphAssumption

(* The facts of one step, action by action.                                *)
Step ==
    \/ ValidateGraph \/ CreateGraph \/ Crash
    \/ \E e \in Executor :
         \/ Execute(e) \/ ListReady(e) \/ EndPass(e)
         \/ ListFallback(e) \/ GateFails(e) \/ Timeout(e)
         \/ \E dbOk \in BOOLEAN : Sweep(e, dbOk) \/ StartRun(e, dbOk)
         \/ \E n \in Node : Promote(e, n) \/ Gate(e, n)
         \/ \E n \in Node, dbOk \in BOOLEAN : StartTask(e, n, dbOk)
    \/ \E n \in Node :
         \/ \E ok \in BOOLEAN : Exit(n, ok) \/ EndTask(n, ok) \/ EndRun(n, ok)
         \/ \E p \in JobPhase : JobLost(n, p)
         \/ \E s \in OperatorStatus : TaskUpdate(n, s)
    \/ \E s \in {"allow", "exhausted", "incapable"} : StandingChanges(s)

LEMMA NextIsAStep == Next => Step
BY DEF Next, Step, Pass, JobEnds

Jobs == [JobPhase -> [Node -> Nat]]

(* What the counts of a node's jobs are after one of them moved or ended.  *)
LEMMA MoveFacts ==
    ASSUME jobs \in Jobs, NEW n \in Node, NEW p \in JobPhase, NEW q \in JobPhase,
           p # q, jobs[p][n] > 0
    PROVE  /\ Move(n, p, q) \in Jobs
           /\ Move(n, p, q)[q][n] = jobs[q][n] + 1 /\ Move(n, p, q)[p][n] = jobs[p][n] - 1
           /\ \A m \in Node, x \in JobPhase : (m # n \/ x \notin {p, q}) => Move(n, p, q)[x][m] = jobs[x][m]
<1> DEFINE less == [jobs[p] EXCEPT ![n] = @ - 1]
           first == [jobs EXCEPT ![p] = less]
           more == [jobs[q] EXCEPT ![n] = @ + 1]
<1>1. jobs[p] \in [Node -> Nat] /\ jobs[q] \in [Node -> Nat]
  BY DEF Jobs
<1>2. jobs[p][n] - 1 \in Nat
  BY <1>1
<1>3. less \in [Node -> Nat] /\ more \in [Node -> Nat]
  BY <1>1, <1>2
<1>4. Move(n, p, q) = [first EXCEPT ![q] = more]
  BY DEF Move, Jobs
<1>5. first \in Jobs /\ first[q] = jobs[q]
  BY <1>3 DEF Jobs
<1>6. /\ more[n] = jobs[q][n] + 1 /\ less[n] = jobs[p][n] - 1
      /\ \A m \in Node \ {n} : more[m] = jobs[q][m] /\ less[m] = jobs[p][m]
  BY <1>1
<1> HIDE DEF less, more
<1> QED
  BY <1>1, <1>3, <1>4, <1>5, <1>6 DEF Jobs

LEMMA DropFacts ==
    ASSUME jobs \in Jobs, NEW n \in Node, NEW p \in JobPhase, jobs[p][n] > 0
    PROVE  /\ Drop(n, p) \in Jobs /\ Drop(n, p)[p][n] = jobs[p][n] - 1
           /\ \A m \in Node, x \in JobPhase : (m # n \/ x # p) => Drop(n, p)[x][m] = jobs[x][m]
<1> DEFINE less == [jobs[p] EXCEPT ![n] = @ - 1]
<1>1. jobs[p] \in [Node -> Nat] /\ jobs[p][n] - 1 \in Nat
  BY DEF Jobs
<1>2. /\ less \in [Node -> Nat] /\ less[n] = jobs[p][n] - 1
      /\ \A m \in Node \ {n} : less[m] = jobs[p][m]
  BY <1>1
<1>3. Drop(n, p) = [jobs EXCEPT ![p] = less]
  BY DEF Drop, Jobs
<1> HIDE DEF less
<1> QED
  BY <1>1, <1>2, <1>3 DEF Jobs

LEMMA SubmitFacts ==
    ASSUME jobs \in Jobs, starts \in [Executor -> [Node -> Nat]],
           NEW e \in Executor, NEW n \in Node, Submit(e, n)
    PROVE  /\ jobs' \in Jobs /\ starts' \in [Executor -> [Node -> Nat]]
           /\ jobs'["running"][n] = jobs["running"][n] + 1
           /\ \A m \in Node, x \in JobPhase : (m # n \/ x # "running") => jobs'[x][m] = jobs[x][m]
           /\ starts'[e][n] = starts[e][n] + 1
           /\ \A m \in Node, f \in Executor : (m # n \/ f # e) => starts'[f][m] = starts[f][m]
<1> DEFINE more == [jobs["running"] EXCEPT ![n] = @ + 1]
           again == [starts[e] EXCEPT ![n] = @ + 1]
<1>1. jobs["running"] \in [Node -> Nat] /\ starts[e] \in [Node -> Nat]
  BY DEF Jobs, JobPhase
<1>2. /\ more \in [Node -> Nat] /\ more[n] = jobs["running"][n] + 1
      /\ \A m \in Node \ {n} : more[m] = jobs["running"][m]
  BY <1>1
<1>3. /\ again \in [Node -> Nat] /\ again[n] = starts[e][n] + 1
      /\ \A m \in Node \ {n} : again[m] = starts[e][m]
  BY <1>1
<1>4. jobs' = [jobs EXCEPT !["running"] = more] /\ starts' = [starts EXCEPT ![e] = again]
  BY DEF Submit
<1> HIDE DEF more, again
<1> QED
  BY <1>1, <1>2, <1>3, <1>4 DEF Jobs, JobPhase

(* A node is started with its task row marked, or, after a failure, without. *)
StartMarked(e, n) ==
    /\ task' = [task EXCEPT ![n] = "running"] /\ marking' = [marking EXCEPT ![e] = n]
    /\ UNCHANGED <<jobs, starts, faults>>
StartUnmarked(e, n) == Submit(e, n) /\ UNCHANGED <<task, marking>> /\ faults' = faults + 1

LEMMA StartTaskFacts ==
    ASSUME NEW e \in Executor, NEW n \in Node, NEW dbOk \in BOOLEAN, StartTask(e, n, dbOk)
    PROVE  /\ Chosen(e) /\ n \in runnable[e]
           /\ runnable' = [runnable EXCEPT ![e] = @ \ {n}] /\ pc' = [pc EXCEPT ![e] = "start"]
           /\ StartMarked(e, n) \/ StartUnmarked(e, n)
           /\ UNCHANGED <<phase, deps, searchVars, run, batch, succeeded, standing, byHand, crashes, changes>>
<1>1. CASE dbOk = TRUE
  BY <1>1, Zenon DEF StartTask, StartMarked, Outcome, Goto, graphVars, envVars
<1>2. CASE dbOk = FALSE
  BY <1>2, Zenon DEF StartTask, StartUnmarked, Outcome, Goto, graphVars, envVars
<1> QED
  BY <1>1, <1>2

(* Validation touches the draft of the graph and nothing else.             *)
LEMMA ValidateFacts ==
    ASSUME GraphTypeOK, ValidateGraph
    PROVE  /\ GraphTypeOK' /\ deps' = deps
           /\ phase # "accepted" /\ phase' # "accepted"
           /\ UNCHANGED <<task, run, pc, batch, runnable, marking, starts, jobs, succeeded,
                          standing, byHand, faults, crashes, changes>>
<1>1. UNCHANGED <<task, run, pc, batch, runnable, marking, starts, jobs, succeeded,
                  standing, byHand, faults, crashes, changes>>
  BY DEF ValidateGraph, rowVars, execVars, envVars, upsetVars
<1>2. /\ deps' = deps /\ phase \in {"draft", "search"} /\ phase' \in {"search", "refused"}
  BY DEF ValidateGraph, Validate, CheckDeps, Return, CallRoot, CallDep, Call
<1>3. GraphTypeOK'
  <2>0. ASSUME GraphTypeOK, NEW n \in Node, Call(n)
        PROVE  visited' \subseteq Node /\ in_stack' \subseteq Node /\ calls' \in Seq(Node)
    BY <2>0 DEF GraphTypeOK, Call
  <2>1. CASE CheckDeps
    BY <1>2, <2>1 DEF GraphTypeOK, CheckDeps
  <2>2. CASE Return
    BY <1>2, <2>2 DEF GraphTypeOK, Return
  <2>3. ASSUME NEW n \in Node, CallRoot(n) PROVE GraphTypeOK'
    BY <1>2, <2>0, <2>3 DEF GraphTypeOK, CallRoot
  <2>4. ASSUME NEW n \in Node, CallDep(n) PROVE GraphTypeOK'
    BY <1>2, <2>0, <2>4 DEF GraphTypeOK, CallDep
  <2> QED
    BY <2>1, <2>2, <2>3, <2>4 DEF ValidateGraph, Validate
<1> QED
  BY <1>1, <1>2, <1>3

LEMMA OnlyThreeTouchTheGraph ==
    ASSUME [Next]_vars
    PROVE  ValidateGraph \/ CreateGraph \/ Crash \/ UNCHANGED graphVars
BY NextIsAStep DEF Step, Execute, ListReady, EndPass, ListFallback, GateFails, Timeout, Sweep,
       StartRun, Promote, Gate, StartTask, Exit, EndTask, EndRun, JobLost, TaskUpdate,
       StandingChanges, vars

LEMMA GraphTypeStep ==
    ASSUME GraphTypeOK, [Next]_vars
    PROVE  GraphTypeOK'
<1>1. CASE ValidateGraph
  BY <1>1, ValidateFacts
<1>2. CASE CreateGraph \/ Crash
  BY <1>2 DEF CreateGraph, Crash, GraphTypeOK, searchVars
<1>3. CASE UNCHANGED graphVars
  BY <1>3 DEF graphVars, searchVars, GraphTypeOK
<1> QED
  BY <1>1, <1>2, <1>3, OnlyThreeTouchTheGraph

LEMMA TypeInit == Init => TypeOK
BY DEF Init, GraphInit, TypeOK, GraphTypeOK, NoJobs, TaskStatus, RunStatus, JobPhase

LEMMA TypeStep == TypeOK /\ [Next]_vars => TypeOK'
<1> SUFFICES ASSUME TypeOK, [Next]_vars PROVE TypeOK'
    OBVIOUS
<1>0. GraphTypeOK'
  BY GraphTypeStep DEF TypeOK
<1> USE <1>0 DEF TypeOK, TaskStatus, RunStatus, JobPhase, graphVars, rowVars, execVars, envVars, upsetVars
<1>1. CASE UNCHANGED vars
  BY <1>1 DEF vars
<1>2. CASE CreateGraph
  BY <1>2 DEF CreateGraph, FirstStatus
<1>3. CASE Crash
  BY <1>3 DEF Crash, Upset, NoJobs
<1>4. ASSUME NEW e \in Executor, Execute(e) PROVE TypeOK'
  BY <1>4 DEF Execute, Goto
<1>5. ASSUME NEW e \in Executor, ListReady(e) PROVE TypeOK'
  BY <1>5 DEF ListReady, Goto
<1>6. ASSUME NEW e \in Executor, EndPass(e) PROVE TypeOK'
  BY <1>6 DEF EndPass, Goto
<1>7. ASSUME NEW e \in Executor, ListFallback(e) PROVE TypeOK'
  BY <1>7 DEF ListFallback, Goto, Outcome, DepsDone
<1>8. ASSUME NEW e \in Executor, GateFails(e) PROVE TypeOK'
  BY <1>8 DEF GateFails, Outcome
<1>9. ASSUME NEW e \in Executor, Timeout(e) PROVE TypeOK'
  BY <1>9 DEF Timeout, Goto, Upset
<1>10. ASSUME NEW e \in Executor, NEW dbOk \in BOOLEAN, Sweep(e, dbOk) PROVE TypeOK'
  BY <1>10 DEF Sweep, Goto, Outcome, DepsDone
<1>11. ASSUME NEW e \in Executor, NEW dbOk \in BOOLEAN, StartRun(e, dbOk) PROVE TypeOK'
  BY <1>11, SubmitFacts DEF StartRun, Outcome, Jobs
<1>12. ASSUME NEW e \in Executor, NEW n \in Node, Promote(e, n) PROVE TypeOK'
  BY <1>12 DEF Promote
<1>13. ASSUME NEW e \in Executor, NEW n \in Node, Gate(e, n) PROVE TypeOK'
  BY <1>13 DEF Gate
<1>14. ASSUME NEW e \in Executor, NEW n \in Node, NEW dbOk \in BOOLEAN, StartTask(e, n, dbOk)
       PROVE TypeOK'
  <2>0. /\ runnable' = [runnable EXCEPT ![e] = @ \ {n}] /\ pc' = [pc EXCEPT ![e] = "start"]
        /\ StartMarked(e, n) \/ StartUnmarked(e, n)
        /\ UNCHANGED <<phase, deps, searchVars, run, batch, succeeded, standing, byHand, crashes, changes>>
    BY <1>14, StartTaskFacts
  <2>1. CASE StartMarked(e, n)
    BY <2>0, <2>1 DEF StartMarked
  <2>2. CASE StartUnmarked(e, n)
    BY <2>0, <2>2, SubmitFacts DEF StartUnmarked, Jobs
  <2> QED
    BY <2>0, <2>1, <2>2
<1>15. ASSUME NEW n \in Node, NEW ok \in BOOLEAN, Exit(n, ok) PROVE TypeOK'
  BY <1>15, MoveFacts DEF Exit, Jobs
<1>16. ASSUME NEW n \in Node, NEW ok \in BOOLEAN, EndTask(n, ok) PROVE TypeOK'
  BY <1>16, MoveFacts DEF EndTask, Jobs
<1>17. ASSUME NEW n \in Node, NEW ok \in BOOLEAN, EndRun(n, ok) PROVE TypeOK'
  BY <1>17, DropFacts DEF EndRun, Jobs
<1>18. ASSUME NEW n \in Node, NEW p \in JobPhase, JobLost(n, p) PROVE TypeOK'
  BY <1>18, DropFacts DEF JobLost, Jobs, Outcome
<1>19. ASSUME NEW n \in Node, NEW s \in OperatorStatus, TaskUpdate(n, s) PROVE TypeOK'
  BY <1>19 DEF TaskUpdate, Upset, OperatorStatus
<1>20. ASSUME NEW s \in {"allow", "exhausted", "incapable"}, StandingChanges(s) PROVE TypeOK'
  BY <1>20 DEF StandingChanges, Upset
<1>21. CASE ValidateGraph
  BY <1>21, ValidateFacts
<1> HIDE DEF TypeOK
<1> QED
  BY <1>1, <1>2, <1>3, <1>4, <1>5, <1>6, <1>7, <1>8, <1>9, <1>10, <1>11, <1>12, <1>13, <1>14,
     <1>15, <1>16, <1>17, <1>18, <1>19, <1>20, <1>21, NextIsAStep DEF Step

\* Type correctness of the rows, the executors and the jobs.
THEOREM TypeCorrect == Spec => []TypeOK
BY TypeInit, TypeStep, PTL DEF Spec

-----------------------------------------------------------------------------
(* Dependencies first. Done only grows and the dependencies never change,  *)
(* so it is enough that a completed task is done, that a task is ready     *)
(* only if its dependencies are, and that no list holds another node.      *)

CompletedIsDone == \A n \in Node : task[n] = "completed" => n \in Done
ReadyIsFree == \A n \in Node : task[n] = "ready" => deps[n] \subseteq Done
ListedIsFree ==
    \A e \in Executor, n \in Node :
        n \in batch[e] \/ n \in runnable[e] \/ n = marking[e] => deps[n] \subseteq Done
ExitedIsDone == \A n \in Node : jobs["ok"][n] > 0 => n \in succeeded
StartedIsFree ==
    \A e \in Executor, n \in Node : starts[e][n] > 0 => deps[n] \subseteq Done

DepInv == CompletedIsDone /\ ReadyIsFree /\ ListedIsFree /\ ExitedIsDone /\ StartedIsFree

LEMMA DepInit == Init => DepInv
BY DEF Init, DepInv, CompletedIsDone, ReadyIsFree, ListedIsFree, ExitedIsDone, StartedIsFree,
       NoJobs, JobPhase

LEMMA DepStep == TypeOK /\ DepInv /\ [Next]_vars => DepInv'
<1> SUFFICES ASSUME TypeOK, DepInv, [Next]_vars PROVE DepInv'
    OBVIOUS
<1> USE DEF TypeOK, JobPhase, DepInv, CompletedIsDone, ReadyIsFree, ListedIsFree, ExitedIsDone,
            StartedIsFree, Done, graphVars, rowVars, execVars, envVars, upsetVars
<1>1. CASE UNCHANGED vars
  BY <1>1 DEF vars
<1>2. CASE CreateGraph
  BY <1>2 DEF CreateGraph, FirstStatus
<1>3. CASE Crash
  BY <1>3 DEF Crash, Upset, NoJobs
<1>4. ASSUME NEW e \in Executor, Execute(e) PROVE DepInv'
  BY <1>4 DEF Execute
<1>5. ASSUME NEW e \in Executor, ListReady(e) PROVE DepInv'
  BY <1>5 DEF ListReady
<1>6. ASSUME NEW e \in Executor, EndPass(e) PROVE DepInv'
  BY <1>6 DEF EndPass
<1>7. ASSUME NEW e \in Executor, ListFallback(e) PROVE DepInv'
  BY <1>7 DEF ListFallback, DepsDone, Completed
<1>8. ASSUME NEW e \in Executor, GateFails(e) PROVE DepInv'
  BY <1>8 DEF GateFails
<1>9. ASSUME NEW e \in Executor, Timeout(e) PROVE DepInv'
  BY <1>9 DEF Timeout
<1>10. ASSUME NEW e \in Executor, NEW dbOk \in BOOLEAN, Sweep(e, dbOk) PROVE DepInv'
  BY <1>10 DEF Sweep, DepsDone, Completed
<1>11. ASSUME NEW e \in Executor, NEW dbOk \in BOOLEAN, StartRun(e, dbOk) PROVE DepInv'
  <2> DEFINE n == marking[e]
  <2>1. /\ n \in Node /\ Submit(e, n) /\ marking' = [marking EXCEPT ![e] = None]
        /\ UNCHANGED <<deps, task, batch, runnable, succeeded, byHand>>
    BY <1>11 DEF StartRun
  <2>2. deps[n] \subseteq Done
    BY <2>1
  <2>3. /\ jobs["ok"] = jobs'["ok"]
        /\ \A f \in Executor, m \in Node : (m # n \/ f # e) => starts'[f][m] = starts[f][m]
    BY <2>1, SubmitFacts DEF Jobs
  <2> HIDE DEF n
  <2>4. ListedIsFree'
    BY <2>1
  <2>5. ASSUME NEW f \in Executor, NEW m \in Node, starts'[f][m] > 0 PROVE (deps[m] \subseteq Done)'
    <3>1. deps[m] \subseteq Done
      BY <2>2, <2>3, <2>5
    <3> QED
      BY <2>1, <3>1
  <2> QED
    BY <2>1, <2>3, <2>4, <2>5
<1>12. ASSUME NEW e \in Executor, NEW n \in Node, Promote(e, n) PROVE DepInv'
  BY <1>12 DEF Promote
<1>13. ASSUME NEW e \in Executor, NEW n \in Node, Gate(e, n) PROVE DepInv'
  BY <1>13 DEF Gate
<1>14. ASSUME NEW e \in Executor, NEW n \in Node, NEW dbOk \in BOOLEAN, StartTask(e, n, dbOk)
       PROVE DepInv'
  <2>0. /\ n \in runnable[e] /\ runnable' = [runnable EXCEPT ![e] = @ \ {n}]
        /\ StartMarked(e, n) \/ StartUnmarked(e, n)
        /\ UNCHANGED <<phase, deps, searchVars, run, batch, succeeded, standing, byHand, crashes, changes>>
    BY <1>14, StartTaskFacts
  <2>1. CASE StartMarked(e, n)
    BY <2>0, <2>1 DEF StartMarked
  <2>2. CASE StartUnmarked(e, n)
    <3>1. /\ jobs["ok"] = jobs'["ok"]
          /\ \A f \in Executor, m \in Node : (m # n \/ f # e) => starts'[f][m] = starts[f][m]
      BY <2>2, SubmitFacts DEF StartUnmarked, Jobs
    <3>2. deps[n] \subseteq Done /\ UNCHANGED <<deps, batch, task, marking, succeeded, byHand>>
      BY <2>0, <2>2 DEF StartUnmarked
    <3>3. ListedIsFree'
      BY <2>0, <3>2
    <3>4. StartedIsFree'
      BY <3>1, <3>2
    <3> QED
      BY <3>1, <3>2, <3>3, <3>4
  <2> HIDE DEF DepInv
  <2> QED
    BY <2>0, <2>1, <2>2
<1>15. ASSUME NEW n \in Node, NEW ok \in BOOLEAN, Exit(n, ok) PROVE DepInv'
  BY <1>15, MoveFacts DEF Exit, Jobs
<1>16. ASSUME NEW n \in Node, NEW ok \in BOOLEAN, EndTask(n, ok) PROVE DepInv'
  <2>1. \A m \in Node : jobs'["ok"][m] > 0 => jobs["ok"][m] > 0
    <3>1. CASE ok = TRUE
      <4>1. jobs["ok"][n] > 0 /\ jobs' = Move(n, "ok", "ok_marked")
        BY <1>16, <3>1, Zenon DEF EndTask
      <4> QED
        <5>1. \A m \in Node : m # n => jobs'["ok"][m] = jobs["ok"][m]
          BY <4>1, MoveFacts DEF Jobs
        <5> QED
          BY <4>1, <5>1
    <3>2. CASE ok = FALSE
      <4>1. jobs["failed"][n] > 0 /\ jobs' = Move(n, "failed", "failed_marked")
        BY <1>16, <3>2, Zenon DEF EndTask
      <4> QED
        BY <4>1, MoveFacts DEF Jobs
    <3> QED
      BY <3>1, <3>2
  <2>2. ok => n \in succeeded
    BY <1>16 DEF EndTask
  <2> QED
    BY <1>16, <2>1, <2>2 DEF EndTask
<1>17. ASSUME NEW n \in Node, NEW ok \in BOOLEAN, EndRun(n, ok) PROVE DepInv'
  BY <1>17, DropFacts DEF EndRun, Jobs
<1>18. ASSUME NEW n \in Node, NEW p \in JobPhase, JobLost(n, p) PROVE DepInv'
  <2>1. \A m \in Node : jobs'["ok"][m] > 0 => jobs["ok"][m] > 0
    <3>1. jobs[p][n] > 0 /\ jobs' = Drop(n, p)
      BY <1>18 DEF JobLost
    <3> QED
      <4>1. \A m \in Node : (m # n \/ p # "ok") => jobs'["ok"][m] = jobs["ok"][m]
        BY <3>1, DropFacts DEF Jobs
      <4> QED
        BY <3>1, <4>1
  <2> QED
    BY <1>18, <2>1 DEF JobLost
<1>19. ASSUME NEW n \in Node, NEW s \in OperatorStatus, TaskUpdate(n, s) PROVE DepInv'
  BY <1>19 DEF TaskUpdate, OperatorStatus
<1>20. ASSUME NEW s \in {"allow", "exhausted", "incapable"}, StandingChanges(s) PROVE DepInv'
  BY <1>20 DEF StandingChanges
<1>21. CASE ValidateGraph
  BY <1>21, ValidateFacts
<1> HIDE DEF DepInv
<1> QED
  BY <1>1, <1>2, <1>3, <1>4, <1>5, <1>6, <1>7, <1>8, <1>9, <1>10, <1>11, <1>12, <1>13, <1>14,
     <1>15, <1>16, <1>17, <1>18, <1>19, <1>20, <1>21, NextIsAStep DEF Step

\* No command starts before a command of each of its dependencies succeeded or
\* the operator declared the dependency completed, whatever executors, gates,
\* jobs, crashes and failures of execute_graph_async interleave.
THEOREM DependenciesComeFirst == Spec => []DependenciesFirst
<1>1. DepInv => DependenciesFirst
  BY DEF DepInv, StartedIsFree, DependenciesFirst
<1> QED
  BY <1>1, TypeInit, TypeStep, DepInit, DepStep, PTL DEF Spec

-----------------------------------------------------------------------------
(* Started once. No task becomes queued or ready again once an executor    *)
(* has marked it, and what an executor has started or is about to start    *)
(* is in no list of its own any more.                                      *)

NothingBeforeAcceptance ==
    phase # "accepted" =>
        \A e \in Executor : pc[e] = "idle" /\ marking[e] = None /\ \A n \in Node : starts[e][n] = 0

Gone(e, n) ==
    /\ task[n] \notin {"queued", "ready"} /\ n \notin runnable[e]
    /\ pc[e] = "gate" => n \notin batch[e]

OnceInv ==
    /\ NothingBeforeAcceptance
    /\ faults = 0 =>
          \A e \in Executor :
              /\ pc[e] # "fallback"
              /\ marking[e] # None => pc[e] = "start"
              /\ \A n \in Node :
                    /\ starts[e][n] <= 1
                    /\ starts[e][n] = 1 => Gone(e, n)
                    /\ marking[e] = n => starts[e][n] = 0 /\ Gone(e, n)

LEMMA OnceInit == Init => OnceInv
BY DEF Init, GraphInit, OnceInv, NothingBeforeAcceptance

LEMMA OnceStep == TypeOK /\ OnceInv /\ [Next]_vars => OnceInv'
<1> SUFFICES ASSUME TypeOK, OnceInv, [Next]_vars PROVE OnceInv'
    OBVIOUS
<1> USE DEF TypeOK, OnceInv, NothingBeforeAcceptance, Gone,
            graphVars, rowVars, execVars, envVars, upsetVars
<1>1. CASE UNCHANGED vars
  BY <1>1 DEF vars
<1>2. CASE CreateGraph
  BY <1>2 DEF CreateGraph, SearchOver, FirstStatus
<1>3. CASE Crash
  BY <1>3 DEF Crash, Upset, NoJobs
<1>4. ASSUME NEW e \in Executor, Execute(e) PROVE OnceInv'
  BY <1>4 DEF Execute, Goto, Outcome
<1>5. ASSUME NEW e \in Executor, ListReady(e) PROVE OnceInv'
  BY <1>5 DEF ListReady, Goto, Outcome
<1>6. ASSUME NEW e \in Executor, EndPass(e) PROVE OnceInv'
  BY <1>6 DEF EndPass, Goto, Chosen
<1>7. ASSUME NEW e \in Executor, ListFallback(e) PROVE OnceInv'
  BY <1>7 DEF ListFallback, Goto, Outcome
<1>8. ASSUME NEW e \in Executor, GateFails(e) PROVE OnceInv'
  BY <1>8 DEF GateFails, Goto, Outcome
<1>9. ASSUME NEW e \in Executor, Timeout(e) PROVE OnceInv'
  BY <1>9 DEF Timeout, Goto, Upset
<1>10. ASSUME NEW e \in Executor, NEW dbOk \in BOOLEAN, Sweep(e, dbOk) PROVE OnceInv'
  BY <1>10 DEF Sweep, Goto, Outcome
<1>11. ASSUME NEW e \in Executor, NEW dbOk \in BOOLEAN, StartRun(e, dbOk) PROVE OnceInv'
  <2> DEFINE n == marking[e]
  <2>1. /\ n \in Node /\ Submit(e, n) /\ marking' = [marking EXCEPT ![e] = None]
        /\ UNCHANGED <<phase, task, pc, batch, runnable>>
        /\ faults' = 0 => faults = 0
    BY <1>11 DEF StartRun, Outcome
  <2>2. faults = 0 => starts[e][n] = 0 /\ Gone(e, n)
    BY <2>1
  <2>3. /\ starts'[e][n] = starts[e][n] + 1
        /\ \A f \in Executor, m \in Node : (m # n \/ f # e) => starts'[f][m] = starts[f][m]
    BY <2>1, SubmitFacts DEF Jobs
  <2> HIDE DEF n
  <2>4. NothingBeforeAcceptance'
    BY <2>1, <1>11 DEF StartRun, n
  <2>5. ASSUME faults' = 0, NEW f \in Executor
        PROVE  /\ pc'[f] # "fallback" /\ (marking'[f] # None => pc'[f] = "start")
               /\ \A m \in Node : /\ starts'[f][m] <= 1 /\ (starts'[f][m] = 1 => Gone(f, m)')
                                /\ (marking'[f] = m => starts'[f][m] = 0 /\ Gone(f, m)')
    <3>1. CASE f = e
      BY <2>1, <2>2, <2>3, <2>5, <3>1
    <3>2. CASE f # e
      BY <2>1, <2>3, <2>5, <3>2
    <3> QED
      BY <3>1, <3>2
  <2> QED
    BY <2>4, <2>5
<1>12. ASSUME NEW e \in Executor, NEW n \in Node, Promote(e, n) PROVE OnceInv'
  BY <1>12 DEF Promote
<1>13. ASSUME NEW e \in Executor, NEW n \in Node, Gate(e, n) PROVE OnceInv'
  BY <1>13 DEF Gate
<1>14. ASSUME NEW e \in Executor, NEW n \in Node, NEW dbOk \in BOOLEAN, StartTask(e, n, dbOk)
       PROVE OnceInv'
  <2>0. /\ n \in runnable[e] /\ runnable' = [runnable EXCEPT ![e] = @ \ {n}] /\ Chosen(e)
        /\ pc' = [pc EXCEPT ![e] = "start"]
        /\ StartMarked(e, n) \/ StartUnmarked(e, n)
        /\ UNCHANGED <<phase, deps, searchVars, run, batch, succeeded, standing, byHand, crashes, changes>>
    BY <1>14, StartTaskFacts
  <2>1. CASE StartMarked(e, n)
    <3>1. /\ batch[e] = {} /\ marking[e] = None /\ pc[e] # "idle" /\ phase = "accepted"
          /\ faults = 0 => starts[e][n] = 0
      <4>1. batch[e] = {} /\ marking[e] = None /\ pc[e] # "idle"
        BY <2>0 DEF Chosen
      <4>2. starts[e][n] \in Nat
        OBVIOUS
      <4>3. faults = 0 => starts[e][n] <= 1 /\ starts[e][n] # 1
        BY <2>0
      <4>4. phase = "accepted"
        BY <4>1
      <4> HIDE DEF OnceInv, TypeOK
      <4> QED
        BY <4>1, <4>2, <4>3, <4>4
    <3>2. NothingBeforeAcceptance'
      BY <2>0, <3>1
    <3>3. ASSUME faults' = 0, NEW f \in Executor
          PROVE  /\ pc'[f] # "fallback" /\ (marking'[f] # None => pc'[f] = "start")
                 /\ \A m \in Node : /\ starts'[f][m] <= 1 /\ (starts'[f][m] = 1 => Gone(f, m)')
                                  /\ (marking'[f] = m => starts'[f][m] = 0 /\ Gone(f, m)')
      <4>1. CASE f = e
        BY <2>0, <2>1, <3>1, <3>3, <4>1 DEF StartMarked
      <4>2. CASE f # e
        BY <2>0, <2>1, <3>3, <4>2 DEF StartMarked
      <4> QED
        BY <4>1, <4>2
    <3> QED
      BY <3>2, <3>3
  <2>2. CASE StartUnmarked(e, n)
    BY <2>0, <2>2 DEF StartUnmarked, Chosen
  <2> HIDE DEF OnceInv
  <2> QED
    BY <2>0, <2>1, <2>2
<1>15. ASSUME NEW n \in Node, NEW ok \in BOOLEAN, Exit(n, ok) PROVE OnceInv'
  BY <1>15 DEF Exit
<1>16. ASSUME NEW n \in Node, NEW ok \in BOOLEAN, EndTask(n, ok) PROVE OnceInv'
  BY <1>16 DEF EndTask
<1>17. ASSUME NEW n \in Node, NEW ok \in BOOLEAN, EndRun(n, ok) PROVE OnceInv'
  BY <1>17 DEF EndRun
<1>18. ASSUME NEW n \in Node, NEW p \in JobPhase, JobLost(n, p) PROVE OnceInv'
  BY <1>18 DEF JobLost, Outcome
<1>19. ASSUME NEW n \in Node, NEW s \in OperatorStatus, TaskUpdate(n, s) PROVE OnceInv'
  BY <1>19 DEF TaskUpdate, OperatorStatus, Upset
<1>20. ASSUME NEW s \in {"allow", "exhausted", "incapable"}, StandingChanges(s) PROVE OnceInv'
  BY <1>20 DEF StandingChanges, Upset
<1>21. CASE ValidateGraph
  BY <1>21, ValidateFacts
<1> HIDE DEF OnceInv
<1> QED
  BY <1>1, <1>2, <1>3, <1>4, <1>5, <1>6, <1>7, <1>8, <1>9, <1>10, <1>11, <1>12, <1>13, <1>14,
     <1>15, <1>16, <1>17, <1>18, <1>19, <1>20, <1>21, NextIsAStep DEF Step

\* As long as no database call fails, no executor starts a node twice, requested
\* once or many times, before and after a restart of the daemon.
THEOREM NoNodeStartedTwice == Spec => []StartedOncePerExecutor
<1>1. TypeOK /\ OnceInv => StartedOncePerExecutor
  BY DEF OnceInv, StartedOncePerExecutor
<1> QED
  BY <1>1, TypeInit, TypeStep, OnceInit, OnceStep, PTL DEF Spec

-----------------------------------------------------------------------------
(* A running node has a job: the invariant is inductive as it stands.      *)

LEMMA RunningInit == Init => RunningHasAJob
BY DEF Init, RunningHasAJob

LEMMA RunningStep == TypeOK /\ RunningHasAJob /\ [Next]_vars => RunningHasAJob'
<1> SUFFICES ASSUME TypeOK, RunningHasAJob, [Next]_vars PROVE RunningHasAJob'
    OBVIOUS
<1> USE DEF TypeOK, JobPhase, RunningHasAJob, InFlight,
            graphVars, rowVars, execVars, envVars, upsetVars
<1>1. CASE UNCHANGED vars
  BY <1>1 DEF vars
<1>2. CASE CreateGraph
  BY <1>2 DEF CreateGraph, FirstStatus
<1>3. CASE Crash
  BY <1>3 DEF Crash, Upset, NoJobs
<1>4. ASSUME NEW e \in Executor, Execute(e) PROVE RunningHasAJob'
  BY <1>4 DEF Execute, Goto, Outcome
<1>5. ASSUME NEW e \in Executor, ListReady(e) PROVE RunningHasAJob'
  BY <1>5 DEF ListReady, Goto, Outcome
<1>6. ASSUME NEW e \in Executor, EndPass(e) PROVE RunningHasAJob'
  BY <1>6 DEF EndPass, Goto, Outcome
<1>7. ASSUME NEW e \in Executor, ListFallback(e) PROVE RunningHasAJob'
  BY <1>7 DEF ListFallback, Goto, Outcome
<1>8. ASSUME NEW e \in Executor, GateFails(e) PROVE RunningHasAJob'
  BY <1>8 DEF GateFails, Goto, Outcome
<1>9. ASSUME NEW e \in Executor, Timeout(e) PROVE RunningHasAJob'
  BY <1>9 DEF Timeout, Goto, Upset
<1>10. ASSUME NEW e \in Executor, NEW dbOk \in BOOLEAN, Sweep(e, dbOk) PROVE RunningHasAJob'
  BY <1>10 DEF Sweep, Goto, Outcome
<1>11. ASSUME NEW e \in Executor, NEW dbOk \in BOOLEAN, StartRun(e, dbOk) PROVE RunningHasAJob'
  <2>1. CASE faults' # 0
    BY <2>1
  <2>2. CASE faults' = 0
    <3> DEFINE m == marking[e]
    <3>1. m \in Node /\ Submit(e, m) /\ marking' = [marking EXCEPT ![e] = None] /\ UNCHANGED <<task, crashes>>
      BY <1>11 DEF StartRun, Outcome
    <3>2. faults = 0
      BY <1>11, <2>2 DEF StartRun, Outcome
    <3>3. /\ jobs'["running"][m] > 0
          /\ \A n \in Node, x \in JobPhase : jobs[x][n] > 0 => jobs'[x][n] > 0
      <4>1. /\ jobs'["running"][m] = jobs["running"][m] + 1 /\ jobs["running"][m] \in Nat
            /\ \A n \in Node, x \in JobPhase : (n # m \/ x # "running") => jobs'[x][n] = jobs[x][n]
        BY <3>1, SubmitFacts DEF Jobs
      <4> HIDE DEF m
      <4>2. jobs'["running"][m] > 0
        BY <4>1
      <4>3. ASSUME NEW n \in Node, NEW x \in JobPhase, jobs[x][n] > 0 PROVE jobs'[x][n] > 0
        <5>1. CASE n = m /\ x = "running"
          BY <4>2, <5>1
        <5>2. CASE n # m \/ x # "running"
          BY <4>1, <4>3, <5>2
        <5> QED
          BY <5>1, <5>2
      <4> QED
        BY <4>2, <4>3
    <3>5. \A f \in Executor : f # e => marking'[f] = marking[f]
      BY <3>1
    <3>6. marking[e] = m
      OBVIOUS
    <3> HIDE DEF m
    <3>4. ASSUME NEW n \in Node, task'[n] = "running", crashes' = 0 PROVE InFlight(n)'
      <4>1. InFlight(n)
        BY <3>1, <3>2, <3>4
      <4>2. CASE n = m
        BY <3>3, <4>2
      <4>3. CASE n # m
        BY <3>1, <3>3, <3>5, <3>6, <4>1, <4>3
      <4> QED
        BY <4>2, <4>3
    <3> HIDE DEF InFlight
    <3> QED
      BY <3>4
  <2> QED
    BY <2>1, <2>2
<1>12. ASSUME NEW e \in Executor, NEW n \in Node, Promote(e, n) PROVE RunningHasAJob'
  BY <1>12 DEF Promote
<1>13. ASSUME NEW e \in Executor, NEW n \in Node, Gate(e, n) PROVE RunningHasAJob'
  BY <1>13 DEF Gate
<1>14. ASSUME NEW e \in Executor, NEW n \in Node, NEW dbOk \in BOOLEAN, StartTask(e, n, dbOk)
       PROVE RunningHasAJob'
  <2>0. /\ n \in runnable[e] /\ runnable' = [runnable EXCEPT ![e] = @ \ {n}] /\ Chosen(e)
        /\ pc' = [pc EXCEPT ![e] = "start"]
        /\ StartMarked(e, n) \/ StartUnmarked(e, n)
        /\ UNCHANGED <<phase, deps, searchVars, run, batch, succeeded, standing, byHand, crashes, changes>>
    BY <1>14, StartTaskFacts
  <2>1. CASE StartMarked(e, n)
    BY <2>0, <2>1 DEF StartMarked, Chosen
  <2>2. CASE StartUnmarked(e, n)
    BY <2>0, <2>2 DEF StartUnmarked
  <2> HIDE DEF RunningHasAJob
  <2> QED
    BY <2>0, <2>1, <2>2
<1>15. ASSUME NEW n \in Node, NEW ok \in BOOLEAN, Exit(n, ok) PROVE RunningHasAJob'
  <2> DEFINE q == IF ok THEN "ok" ELSE "failed"
  <2>1. jobs["running"][n] > 0 /\ jobs' = Move(n, "running", q) /\ UNCHANGED <<task, marking, faults, crashes>>
    BY <1>15 DEF Exit
  <2>2. q \in {"ok", "failed"}
    OBVIOUS
  <2> HIDE DEF q
  <2>3. /\ jobs'[q][n] > 0
        /\ \A m \in Node, x \in JobPhase : m # n => jobs'[x][m] = jobs[x][m]
    BY <2>1, <2>2, MoveFacts DEF Jobs
  <2> QED
    BY <2>1, <2>2, <2>3
<1>16. ASSUME NEW n \in Node, NEW ok \in BOOLEAN, EndTask(n, ok) PROVE RunningHasAJob'
  <2> DEFINE p == IF ok THEN "ok" ELSE "failed"
             q == IF ok THEN "ok_marked" ELSE "failed_marked"
  <2>1. /\ jobs[p][n] > 0 /\ jobs' = Move(n, p, q) /\ UNCHANGED <<marking, faults, crashes>>
        /\ task'[n] # "running" /\ \A m \in Node : m # n => task'[m] = task[m]
    BY <1>16 DEF EndTask
  <2>2. p \in JobPhase /\ q \in JobPhase /\ p # q
    OBVIOUS
  <2> HIDE DEF p, q
  <2>3. \A m \in Node, x \in JobPhase : m # n => jobs'[x][m] = jobs[x][m]
    BY <2>1, <2>2, MoveFacts DEF Jobs
  <2> QED
    BY <2>1, <2>3
<1>17. ASSUME NEW n \in Node, NEW ok \in BOOLEAN, EndRun(n, ok) PROVE RunningHasAJob'
  <2> DEFINE p == IF ok THEN "ok_marked" ELSE "failed_marked"
  <2>1. jobs[p][n] > 0 /\ jobs' = Drop(n, p) /\ UNCHANGED <<task, marking, faults, crashes>>
    BY <1>17 DEF EndRun
  <2>2. p \in {"ok_marked", "failed_marked"}
    OBVIOUS
  <2> HIDE DEF p
  <2>3. \A m \in Node, x \in {"running", "ok", "failed"} : jobs'[x][m] = jobs[x][m]
    BY <2>1, <2>2, DropFacts DEF Jobs
  <2> QED
    BY <2>1, <2>3
<1>18. ASSUME NEW n \in Node, NEW p \in JobPhase, JobLost(n, p) PROVE RunningHasAJob'
  BY <1>18 DEF JobLost, Outcome
<1>19. ASSUME NEW n \in Node, NEW s \in OperatorStatus, TaskUpdate(n, s) PROVE RunningHasAJob'
  BY <1>19 DEF TaskUpdate, OperatorStatus, Upset
<1>20. ASSUME NEW s \in {"allow", "exhausted", "incapable"}, StandingChanges(s) PROVE RunningHasAJob'
  BY <1>20 DEF StandingChanges, Upset
<1>21. CASE ValidateGraph
  BY <1>21, ValidateFacts
<1> HIDE DEF RunningHasAJob
<1> QED
  BY <1>1, <1>2, <1>3, <1>4, <1>5, <1>6, <1>7, <1>8, <1>9, <1>10, <1>11, <1>12, <1>13, <1>14,
     <1>15, <1>16, <1>17, <1>18, <1>19, <1>20, <1>21, NextIsAStep DEF Step

\* Unless the daemon or its database failed, a node shown as running has a job
\* that will record its end or an executor about to submit one.
THEOREM RunningNodesHaveJobs == Spec => []RunningHasAJob
BY TypeInit, TypeStep, RunningInit, RunningStep, PTL DEF Spec
-----------------------------------------------------------------------------
(* The two rows of a node. A node nobody has started has no job; one that  *)
(* a single executor has started has one job or none, and where that job   *)
(* is tells both rows. A second executor that has marked the node is about *)
(* to become its second starter.                                           *)

Calm == faults = 0 /\ crashes = 0 /\ changes = 0
Marked(n) == \E e \in Executor : marking[e] = n
NotStarted(n) == \A e \in Executor : starts[e][n] = 0
OneStarter(n) == \A e, f \in Executor : starts[e][n] > 0 /\ starts[f][n] > 0 => e = f

NoJobOf(n) == \A p \in JobPhase : jobs[p][n] = 0
OneJob(n, q) == \A p \in JobPhase : jobs[p][n] = IF p = q THEN 1 ELSE 0

OneStory(n) ==
    \/ /\ task[n] = "running" /\ run[n] = "running"
       /\ \E q \in {"running", "ok", "failed"} : OneJob(n, q)
    \/ task[n] = "completed" /\ run[n] = "running" /\ OneJob(n, "ok_marked")
    \/ task[n] = "failed" /\ run[n] = "running" /\ OneJob(n, "failed_marked")
    \/ task[n] = "completed" /\ run[n] = "succeeded" /\ NoJobOf(n)
    \/ task[n] = "failed" /\ run[n] = "failed" /\ NoJobOf(n)

StoryInv(n) ==
    /\ NotStarted(n) =>
         /\ NoJobOf(n) /\ run[n] = "pending"
         /\ IF Marked(n) THEN task[n] = "running" ELSE task[n] \in {"queued", "ready"}
    /\ ~NotStarted(n) /\ OneStarter(n) => Marked(n) \/ OneStory(n)

AgreeInv == Calm => standing = "allow" /\ \A n \in Node : StoryInv(n)

LEMMA AgreeInit == Init => AgreeInv
<1> SUFFICES ASSUME Init PROVE AgreeInv
    OBVIOUS
<1>1. ASSUME NEW n \in Node PROVE StoryInv(n)
  <2>1. NotStarted(n) /\ ~Marked(n) /\ NoJobOf(n) /\ run[n] = "pending" /\ task[n] = "queued"
    BY DEF Init, NotStarted, Marked, NoJobOf, NoJobs
  <2> QED
    BY <2>1 DEF StoryInv
<1> QED
  BY <1>1 DEF AgreeInv, Init

\* A step that leaves a node's rows, jobs and starters alone leaves its story alone.
SameNode(n) ==
    /\ task'[n] = task[n] /\ run'[n] = run[n]
    /\ \A p \in JobPhase : jobs'[p][n] = jobs[p][n]
    /\ \A e \in Executor : starts'[e][n] = starts[e][n]
    /\ Marked(n)' <=> Marked(n)

LEMMA StoryKept ==
    ASSUME NEW n \in Node, StoryInv(n), SameNode(n)
    PROVE  StoryInv(n)'
<1>1. NotStarted(n)' <=> NotStarted(n)
  BY DEF SameNode, NotStarted
<1>2. OneStarter(n)' <=> OneStarter(n)
  BY DEF SameNode, OneStarter
<1>3. NoJobOf(n)' <=> NoJobOf(n)
  BY DEF SameNode, NoJobOf
<1>4. OneStory(n)' <=> OneStory(n)
  BY <1>3 DEF SameNode, OneStory, OneJob
<1> QED
  BY <1>1, <1>2, <1>3, <1>4 DEF SameNode, StoryInv

\* A job that goes on moves its node to the next chapter; one that is not there
\* cannot, and a node marked by a second executor has no story to keep.
LEMMA JobStory ==
    ASSUME TypeOK, NEW n \in Node, StoryInv(n), UNCHANGED <<marking, starts>>,
           NEW p \in JobPhase, jobs[p][n] > 0, OneStory(n) => OneStory(n)'
    PROVE  StoryInv(n)'
<1>1. ~NoJobOf(n)
  BY DEF NoJobOf, TypeOK
<1>2. ~NotStarted(n)
  BY <1>1 DEF StoryInv
<1> QED
  BY <1>2 DEF StoryInv, NotStarted, OneStarter, Marked

LEMMA ExitStory ==
    ASSUME TypeOK, NEW n \in Node, NEW ok \in BOOLEAN, Exit(n, ok), OneStory(n)
    PROVE  OneStory(n)'
<1> DEFINE q == IF ok THEN "ok" ELSE "failed"
<1>1. q \in {"ok", "failed"} /\ jobs["running"][n] > 0 /\ jobs' = Move(n, "running", q) /\ UNCHANGED <<task, run>>
  BY DEF Exit, rowVars
<1> HIDE DEF q
<1>2. jobs \in Jobs
  BY DEF TypeOK, Jobs
<1>3. /\ jobs'[q][n] = jobs[q][n] + 1 /\ jobs'["running"][n] = jobs["running"][n] - 1
      /\ \A x \in JobPhase : x \notin {"running", q} => jobs'[x][n] = jobs[x][n]
  BY <1>1, <1>2, MoveFacts DEF JobPhase
<1>4. OneJob(n, "running") /\ task[n] = "running" /\ run[n] = "running"
  BY <1>1 DEF OneStory, OneJob, NoJobOf, JobPhase
<1>5. OneJob(n, q)'
  BY <1>1, <1>3, <1>4 DEF OneJob, JobPhase
<1> QED
  BY <1>1, <1>4, <1>5 DEF OneStory

LEMMA EndTaskStory ==
    ASSUME TypeOK, NEW n \in Node, NEW ok \in BOOLEAN, EndTask(n, ok), OneStory(n)
    PROVE  OneStory(n)'
<1>0. jobs \in Jobs /\ task \in [Node -> TaskStatus]
  BY DEF TypeOK, Jobs
<1>1. CASE ok = TRUE
  <2>1. /\ jobs["ok"][n] > 0 /\ jobs' = Move(n, "ok", "ok_marked")
        /\ task' = [task EXCEPT ![n] = "completed"] /\ UNCHANGED run
    BY <1>1, Zenon DEF EndTask
  <2>2. /\ jobs'["ok_marked"][n] = jobs["ok_marked"][n] + 1 /\ jobs'["ok"][n] = jobs["ok"][n] - 1
        /\ \A x \in JobPhase : x \notin {"ok", "ok_marked"} => jobs'[x][n] = jobs[x][n]
    BY <1>0, <2>1, MoveFacts DEF JobPhase
  <2>3. OneJob(n, "ok") /\ run[n] = "running"
    BY <2>1 DEF OneStory, OneJob, NoJobOf, JobPhase
  <2>4. OneJob(n, "ok_marked")'
    BY <2>2, <2>3 DEF OneJob, JobPhase
  <2> QED
    BY <1>0, <2>1, <2>3, <2>4 DEF OneStory
<1>2. CASE ok = FALSE
  <2>1. /\ jobs["failed"][n] > 0 /\ jobs' = Move(n, "failed", "failed_marked")
        /\ task' = [task EXCEPT ![n] = "failed"] /\ UNCHANGED run
    BY <1>2, Zenon DEF EndTask
  <2>2. /\ jobs'["failed_marked"][n] = jobs["failed_marked"][n] + 1
        /\ jobs'["failed"][n] = jobs["failed"][n] - 1
        /\ \A x \in JobPhase : x \notin {"failed", "failed_marked"} => jobs'[x][n] = jobs[x][n]
    BY <1>0, <2>1, MoveFacts DEF JobPhase
  <2>3. OneJob(n, "failed") /\ run[n] = "running"
    BY <2>1 DEF OneStory, OneJob, NoJobOf, JobPhase
  <2>4. OneJob(n, "failed_marked")'
    BY <2>2, <2>3 DEF OneJob, JobPhase
  <2> QED
    BY <1>0, <2>1, <2>3, <2>4 DEF OneStory
<1> QED
  BY <1>1, <1>2

LEMMA EndRunStory ==
    ASSUME TypeOK, NEW n \in Node, NEW ok \in BOOLEAN, EndRun(n, ok), OneStory(n)
    PROVE  OneStory(n)'
<1>0. jobs \in Jobs /\ run \in [Node -> RunStatus]
  BY DEF TypeOK, Jobs
<1>1. CASE ok = TRUE
  <2>1. /\ jobs["ok_marked"][n] > 0 /\ jobs' = Drop(n, "ok_marked")
        /\ run' = [run EXCEPT ![n] = "succeeded"] /\ UNCHANGED task
    BY <1>1, Zenon DEF EndRun
  <2>2. /\ jobs'["ok_marked"][n] = jobs["ok_marked"][n] - 1
        /\ \A x \in JobPhase : x # "ok_marked" => jobs'[x][n] = jobs[x][n]
    BY <1>0, <2>1, DropFacts DEF JobPhase
  <2>3. OneJob(n, "ok_marked") /\ task[n] = "completed"
    BY <2>1 DEF OneStory, OneJob, NoJobOf, JobPhase
  <2>4. NoJobOf(n)'
    BY <2>2, <2>3 DEF OneJob, NoJobOf, JobPhase
  <2> QED
    BY <1>0, <2>1, <2>3, <2>4 DEF OneStory
<1>2. CASE ok = FALSE
  <2>1. /\ jobs["failed_marked"][n] > 0 /\ jobs' = Drop(n, "failed_marked")
        /\ run' = [run EXCEPT ![n] = "failed"] /\ UNCHANGED task
    BY <1>2, Zenon DEF EndRun
  <2>2. /\ jobs'["failed_marked"][n] = jobs["failed_marked"][n] - 1
        /\ \A x \in JobPhase : x # "failed_marked" => jobs'[x][n] = jobs[x][n]
    BY <1>0, <2>1, DropFacts DEF JobPhase
  <2>3. OneJob(n, "failed_marked") /\ task[n] = "failed"
    BY <2>1 DEF OneStory, OneJob, NoJobOf, JobPhase
  <2>4. NoJobOf(n)'
    BY <2>2, <2>3 DEF OneJob, NoJobOf, JobPhase
  <2> QED
    BY <1>0, <2>1, <2>3, <2>4 DEF OneStory
<1> QED
  BY <1>1, <1>2
\* The end of a job is recorded for its own node only.
LEMMA OtherJobsKept ==
    ASSUME TypeOK, NEW m \in Node, NEW ok \in BOOLEAN,
           Exit(m, ok) \/ EndTask(m, ok) \/ EndRun(m, ok), NEW n \in Node, n # m
    PROVE  SameNode(n)
<1>0. /\ jobs \in Jobs /\ task \in [Node -> TaskStatus] /\ run \in [Node -> RunStatus]
  BY DEF TypeOK, Jobs
<1>1. UNCHANGED <<marking, starts>> /\ task'[n] = task[n] /\ run'[n] = run[n]
  BY <1>0 DEF Exit, EndTask, EndRun, rowVars, execVars
<1>2. \A p \in JobPhase : jobs'[p][n] = jobs[p][n]
  <2>1. ASSUME NEW p \in JobPhase, NEW q \in JobPhase, p # q, jobs[p][m] > 0, jobs' = Move(m, p, q)
        PROVE  \A x \in JobPhase : jobs'[x][n] = jobs[x][n]
    BY <1>0, <2>1, MoveFacts
  <2>2. ASSUME NEW p \in JobPhase, jobs[p][m] > 0, jobs' = Drop(m, p)
        PROVE  \A x \in JobPhase : jobs'[x][n] = jobs[x][n]
    BY <1>0, <2>2, DropFacts
  <2>3. CASE Exit(m, ok)
    <3>1. /\ jobs["running"][m] > 0
          /\ jobs' = Move(m, "running", "ok") \/ jobs' = Move(m, "running", "failed")
      BY <2>3 DEF Exit
    <3> QED
      BY <2>1, <3>1 DEF JobPhase
  <2>4. CASE EndTask(m, ok)
    <3>1. \/ jobs["ok"][m] > 0 /\ jobs' = Move(m, "ok", "ok_marked")
          \/ jobs["failed"][m] > 0 /\ jobs' = Move(m, "failed", "failed_marked")
      BY <2>4 DEF EndTask
    <3> QED
      BY <2>1, <3>1 DEF JobPhase
  <2>5. CASE EndRun(m, ok)
    <3>1. \/ jobs["ok_marked"][m] > 0 /\ jobs' = Drop(m, "ok_marked")
          \/ jobs["failed_marked"][m] > 0 /\ jobs' = Drop(m, "failed_marked")
      BY <2>5 DEF EndRun
    <3> QED
      BY <2>2, <3>1 DEF JobPhase
  <2> QED
    BY <2>3, <2>4, <2>5
<1> QED
  BY <1>1, <1>2 DEF SameNode, Marked

\* The job of a node nobody had started is its first; it is the second
\* executor's that ends its story.
LEMMA StartRunStory ==
    ASSUME TypeOK, OnceInv, faults = 0, NEW e \in Executor, NEW m \in Node, marking[e] = m,
           Submit(e, m), run' = [run EXCEPT ![m] = "running"], UNCHANGED task,
           marking' = [marking EXCEPT ![e] = None],
           NEW n \in Node, StoryInv(n)
    PROVE  StoryInv(n)'
<1>0. /\ jobs \in Jobs /\ starts \in [Executor -> [Node -> Nat]]
      /\ run \in [Node -> RunStatus] /\ marking \in [Executor -> Node \cup {None}]
  BY DEF TypeOK, Jobs
<1>1. /\ jobs'["running"][m] = jobs["running"][m] + 1
      /\ \A k \in Node, x \in JobPhase : (k # m \/ x # "running") => jobs'[x][k] = jobs[x][k]
      /\ starts'[e][m] = starts[e][m] + 1
      /\ \A k \in Node, f \in Executor : (k # m \/ f # e) => starts'[f][k] = starts[f][k]
  BY <1>0, SubmitFacts
<1>2. \A f \in Executor : f # e => marking'[f] = marking[f]
  BY <1>0
<1>3. marking'[e] = None
  BY <1>0
<1>4. CASE n # m
  <2>1. Marked(n)' <=> Marked(n)
    BY <1>2, <1>3, <1>4 DEF Marked
  <2>2. SameNode(n)
    BY <1>0, <1>1, <1>4, <2>1 DEF SameNode
  <2> QED
    BY <2>2, StoryKept
<1>5. CASE n = m
  <2>1. starts[e][m] = 0 /\ starts'[e][m] = 1
    BY <1>1 DEF OnceInv
  <2>2. ~NotStarted(m)'
    BY <2>1 DEF NotStarted
  <2>3. CASE NotStarted(m)
    <3>1. NoJobOf(m) /\ task[m] = "running"
      BY <1>5, <2>3 DEF StoryInv, Marked
    <3>2. OneJob(m, "running")'
      BY <1>1, <3>1 DEF OneJob, NoJobOf, JobPhase
    <3>3. task'[m] = "running" /\ run'[m] = "running"
      BY <1>0, <3>1
    <3>4. OneStory(m)'
      BY <3>2, <3>3 DEF OneStory
    <3> QED
      BY <1>5, <2>2, <3>4 DEF StoryInv
  <2>4. CASE ~NotStarted(m)
    <3>1. PICK f \in Executor : starts[f][m] > 0
      BY <1>0, <2>4 DEF NotStarted
    <3>2. f # e /\ starts'[f][m] > 0 /\ starts'[e][m] > 0
      BY <1>1, <2>1, <3>1
    <3>3. ~OneStarter(m)'
      BY <3>2 DEF OneStarter
    <3> QED
      BY <1>5, <2>2, <3>3 DEF StoryInv
  <2> QED
    BY <2>3, <2>4
<1> QED
  BY <1>4, <1>5

LEMMA AgreeStep == TypeOK /\ OnceInv /\ AgreeInv /\ [Next]_vars => AgreeInv'
<1> SUFFICES ASSUME TypeOK, OnceInv, AgreeInv, [Next]_vars, Calm'
             PROVE  standing' = "allow" /\ \A n \in Node : StoryInv(n)'
    BY DEF AgreeInv
<1> DEFINE Goal == standing' = "allow" /\ \A n \in Node : StoryInv(n)'
<1> SUFFICES Goal
    OBVIOUS
<1>t. /\ faults \in Nat /\ crashes \in Nat /\ changes \in Nat
      /\ task \in [Node -> TaskStatus] /\ marking \in [Executor -> Node \cup {None}]
      /\ starts \in [Executor -> [Node -> Nat]]
  BY DEF TypeOK
<1>a. ASSUME Calm PROVE standing = "allow" /\ \A n \in Node : StoryInv(n)
  BY <1>a DEF AgreeInv
<1>b. ASSUME Calm, UNCHANGED <<task, run, jobs, starts, marking, standing>> PROVE Goal
  <2>1. \A n \in Node : SameNode(n)
    BY <1>b DEF SameNode, Marked
  <2> QED
    BY <1>a, <1>b, <2>1, StoryKept
<1>c. UNCHANGED <<faults, crashes, changes>> => Calm
  BY DEF Calm
<1>d. ASSUME NEW ok \in BOOLEAN, Outcome(ok) PROVE Calm /\ ok = TRUE
  BY <1>t, <1>d DEF Outcome, Calm
<1>1. CASE UNCHANGED vars
  BY <1>b, <1>c, <1>1 DEF vars, rowVars, execVars, envVars, upsetVars
<1>2. CASE CreateGraph
  <2>1. /\ Calm /\ UNCHANGED <<run, jobs, starts, marking, standing>> /\ phase # "accepted"
        /\ \A n \in Node : task'[n] \in {"queued", "ready"}
    BY <1>c, <1>2 DEF CreateGraph, SearchOver, FirstStatus, execVars, envVars, upsetVars
  <2>2. ASSUME NEW n \in Node PROVE NotStarted(n) /\ ~Marked(n)
    BY <2>1 DEF OnceInv, NothingBeforeAcceptance, NotStarted, Marked
  <2>3. ASSUME NEW n \in Node PROVE StoryInv(n)'
    <3>1. NoJobOf(n) /\ run[n] = "pending" /\ task[n] \in {"queued", "ready"}
      BY <1>a, <2>1, <2>2 DEF StoryInv
    <3>2. NotStarted(n)' /\ ~Marked(n)' /\ NoJobOf(n)' /\ run'[n] = "pending"
      BY <2>1, <2>2, <3>1 DEF NotStarted, Marked, NoJobOf
    <3> QED
      BY <2>1, <3>1, <3>2 DEF StoryInv
  <2> QED
    BY <1>a, <2>1, <2>3
<1>3. CASE Crash
  BY <1>t, <1>3 DEF Crash, Upset, Calm
<1>4. ASSUME NEW e \in Executor, Execute(e) \/ ListReady(e) \/ EndPass(e) PROVE Goal
  BY <1>b, <1>c, <1>4 DEF Execute, ListReady, EndPass, rowVars, envVars, upsetVars
<1>5. ASSUME NEW e \in Executor, ListFallback(e) \/ GateFails(e) \/ Timeout(e) PROVE Goal
  <2>1. CASE ListFallback(e) \/ GateFails(e)
    BY <1>d, <2>1 DEF ListFallback, GateFails
  <2>2. CASE Timeout(e)
    BY <1>t, <2>2 DEF Timeout, Upset, Calm
  <2> QED
    BY <1>5, <2>1, <2>2
<1>6. ASSUME NEW e \in Executor, NEW dbOk \in BOOLEAN, Sweep(e, dbOk) PROVE Goal
  <2>1. Outcome(dbOk) /\ UNCHANGED <<task, run, jobs, starts, marking, standing>>
    BY <1>6 DEF Sweep, rowVars, envVars
  <2> QED
    BY <1>b, <1>d, <2>1
<1>7. ASSUME NEW e \in Executor, NEW dbOk \in BOOLEAN, StartRun(e, dbOk) PROVE Goal
  <2>1. Calm /\ dbOk = TRUE
    BY <1>d, <1>7 DEF StartRun
  <2>2. PICK m \in Node : marking[e] = m
    BY <1>t, <1>7 DEF StartRun
  <2>3. /\ run' = [run EXCEPT ![m] = "running"] /\ Submit(e, m) /\ UNCHANGED <<task, standing>>
        /\ marking' = [marking EXCEPT ![e] = None]
    BY <1>7, <2>1, <2>2, Zenon DEF StartRun, envVars
  <2>4. faults = 0
    BY <2>1 DEF Calm
  <2> QED
    BY <1>a, <2>1, <2>2, <2>3, <2>4, StartRunStory
<1>8. ASSUME NEW e \in Executor, NEW m \in Node, Promote(e, m) PROVE Goal
  <2>1. /\ Calm /\ UNCHANGED <<run, jobs, starts, marking, standing>>
        /\ \A n \in Node : \/ task'[n] = task[n]
                           \/ task[n] = "queued" /\ task'[n] = "ready"
    BY <1>c, <1>t, <1>8 DEF Promote, envVars, upsetVars
  <2>2. ASSUME NEW n \in Node PROVE StoryInv(n)'
    <3>1. CASE task'[n] = task[n]
      <4>1. SameNode(n)
        BY <2>1, <3>1 DEF SameNode, Marked
      <4> QED
        BY <1>a, <2>1, <4>1, StoryKept
    <3>2. CASE task[n] = "queued" /\ task'[n] = "ready"
      <4>1. StoryInv(n) /\ ~OneStory(n)
        BY <1>a, <2>1, <3>2 DEF OneStory
      <4>2. /\ NotStarted(n)' <=> NotStarted(n)
            /\ OneStarter(n)' <=> OneStarter(n)
            /\ Marked(n)' <=> Marked(n)
            /\ NoJobOf(n)' <=> NoJobOf(n)
        BY <2>1 DEF NotStarted, OneStarter, Marked, NoJobOf
      <4> QED
        BY <2>1, <3>2, <4>1, <4>2 DEF StoryInv
    <3> QED
      BY <2>1, <3>1, <3>2
  <2> QED
    BY <1>a, <2>1, <2>2
<1>9. ASSUME NEW e \in Executor, NEW m \in Node, Gate(e, m) PROVE Goal
  <2>1. Calm /\ standing = "allow"
    BY <1>a, <1>c, <1>9 DEF Gate, upsetVars
  <2>2. UNCHANGED <<task, run, jobs, starts, marking, standing>>
    BY <1>9, <2>1 DEF Gate, envVars
  <2> QED
    BY <1>b, <2>1, <2>2
<1>10. ASSUME NEW e \in Executor, NEW m \in Node, NEW dbOk \in BOOLEAN, StartTask(e, m, dbOk)
       PROVE Goal
  <2>0. /\ Chosen(e) /\ (StartMarked(e, m) \/ StartUnmarked(e, m))
        /\ UNCHANGED <<run, standing>>
    BY <1>10, StartTaskFacts
  <2>1. Calm
    BY <1>d, <1>10 DEF StartTask
  <2>2. /\ task' = [task EXCEPT ![m] = "running"] /\ marking' = [marking EXCEPT ![e] = m]
        /\ UNCHANGED <<jobs, starts>> /\ marking[e] = None
    BY <1>t, <2>0, <2>1 DEF StartMarked, StartUnmarked, Calm, Chosen
  <2>3. ASSUME NEW n \in Node PROVE StoryInv(n)'
    <3>1. CASE n = m
      <4>1. Marked(n)' /\ task'[n] = "running"
        BY <1>t, <2>2, <3>1 DEF Marked
      <4>2. /\ NotStarted(n)' <=> NotStarted(n)
            /\ NoJobOf(n)' <=> NoJobOf(n)
        BY <2>2 DEF NotStarted, NoJobOf
      <4>3. NotStarted(n) => NoJobOf(n) /\ run[n] = "pending"
        BY <1>a, <2>1 DEF StoryInv
      <4> QED
        BY <2>0, <4>1, <4>2, <4>3 DEF StoryInv
    <3>2. CASE n # m
      <4>1. Marked(n)' <=> Marked(n)
        BY <1>t, <2>2, <3>2 DEF Marked
      <4>2. SameNode(n)
        BY <1>t, <2>0, <2>2, <3>2, <4>1 DEF SameNode
      <4> QED
        BY <1>a, <2>1, <4>2, StoryKept
    <3> QED
      BY <3>1, <3>2
  <2> QED
    BY <1>a, <2>0, <2>1, <2>3
<1>11. ASSUME NEW m \in Node, NEW ok \in BOOLEAN, Exit(m, ok) \/ EndTask(m, ok) \/ EndRun(m, ok)
       PROVE Goal
  <2>1. Calm /\ UNCHANGED <<marking, starts, standing>>
    BY <1>c, <1>11 DEF Exit, EndTask, EndRun, execVars, envVars, upsetVars
  <2>2. \E p \in JobPhase : jobs[p][m] > 0
    BY <1>11 DEF Exit, EndTask, EndRun, JobPhase
  <2>3. OneStory(m) => OneStory(m)'
    BY <1>11, ExitStory, EndTaskStory, EndRunStory
  <2>4. StoryInv(m)'
    BY <1>a, <2>1, <2>2, <2>3, JobStory
  <2>5. \A n \in Node : n # m => SameNode(n)
    BY <1>11, OtherJobsKept
  <2>6. \A n \in Node : n # m => StoryInv(n)'
    BY <1>a, <2>1, <2>5, StoryKept
  <2> QED
    BY <1>a, <2>1, <2>4, <2>6
<1>12. ASSUME NEW m \in Node, NEW p \in JobPhase, JobLost(m, p) PROVE Goal
  <2>1. Outcome(FALSE)
    BY <1>12 DEF JobLost
  <2> QED
    BY <1>d, <2>1
<1>13. ASSUME NEW m \in Node, NEW s \in OperatorStatus, TaskUpdate(m, s) PROVE Goal
  BY <1>t, <1>13 DEF TaskUpdate, Upset, Calm
<1>14. ASSUME NEW s \in {"allow", "exhausted", "incapable"}, StandingChanges(s) PROVE Goal
  BY <1>t, <1>14 DEF StandingChanges, Upset, Calm
<1>15. CASE ValidateGraph
  BY <1>b, <1>c, <1>15, ValidateFacts DEF TypeOK
<1> HIDE DEF Goal
<1> QED
  BY <1>1, <1>2, <1>3, <1>4, <1>5, <1>6, <1>7, <1>8, <1>9, <1>10, <1>11, <1>12, <1>13, <1>14,
     <1>15, NextIsAStep DEF Step

\* As long as nothing failed and nobody but one executor touched a node, its
\* cp_tasks row and its cp_agent_runs row, written by separate statements of
\* mark_node_running, mark_node_complete and mark_node_failed, tell the same
\* story whenever neither the executor nor the job is between two of them.
THEOREM TaskAndRunRowsAgree == Spec => []RowsAgree
<1>1. TypeOK /\ AgreeInv => RowsAgree
  <2> SUFFICES ASSUME TypeOK, AgreeInv, NEW n \in Node,
                      faults + crashes + changes = 0, ~InFlight(n),
                      jobs["ok_marked"][n] + jobs["failed_marked"][n] = 0, OneStarter(n)
               PROVE  <<task[n], run[n]>> \in {<<"queued", "pending">>, <<"ready", "pending">>,
                                              <<"completed", "succeeded">>, <<"failed", "failed">>}
      BY DEF RowsAgree, OneStarter
  <2>1. StoryInv(n)
    BY DEF TypeOK, AgreeInv, Calm
  <2>2. ~Marked(n)
    BY DEF InFlight, Marked
  <2>3. \A p \in JobPhase : jobs[p][n] = 0
    <3>1. \A p \in JobPhase : jobs[p][n] \in Nat
      BY DEF TypeOK
    <3>2. \A p \in {"running", "ok", "failed"} : ~(jobs[p][n] > 0)
      BY DEF InFlight
    <3> QED
      BY <3>1, <3>2 DEF JobPhase
  <2>4. \A q \in JobPhase : ~OneJob(n, q)
    BY <2>3 DEF OneJob
  <2>5. CASE NotStarted(n)
    BY <2>1, <2>2, <2>5 DEF StoryInv
  <2>6. CASE ~NotStarted(n)
    <3>1. OneStory(n)
      BY <2>1, <2>2, <2>6 DEF StoryInv
    <3> QED
      BY <2>4, <3>1 DEF OneStory, JobPhase
  <2> QED
    BY <2>5, <2>6
<1> QED
  BY <1>1, TypeInit, TypeStep, OnceInit, OnceStep, AgreeInit, AgreeStep, PTL DEF Spec

-----------------------------------------------------------------------------
(* The search for a cycle. A node is finished when its call has returned.  *)
(* The finished nodes are closed under dependencies and hold no cycle; the *)
(* calls under way are a path through the graph, and what a call has tried *)
(* is finished, but for the dependency whose call it waits for. No rank of *)
(* the nodes is needed: the last call to return joins a set that nothing   *)
(* leads out of.                                                           *)

Finished == visited \ in_stack
Tried(n) == deps[n] \ untried[n]

OnStack ==
    /\ in_stack = {calls[i] : i \in 1..Len(calls)}
    /\ \A i, j \in 1..Len(calls) : calls[i] = calls[j] => i = j
CallsArePath == \A i \in 1..Len(calls) - 1 : calls[i + 1] \in deps[calls[i]]
FramesTried ==
    \A i \in 1..Len(calls) :
        /\ untried[calls[i]] \subseteq deps[calls[i]]
        /\ Tried(calls[i]) \subseteq Finished \cup (IF i < Len(calls) THEN {calls[i + 1]} ELSE {})
FinishedClosed == \A n \in Finished : deps[n] \subseteq Finished
FinishedAcyclic == \A C \in SUBSET Finished : C # {} => \E n \in C : deps[n] \cap C = {}
Unvisited == Node \ roots \subseteq visited /\ \A n \in Node \ visited : untried[n] = deps[n]

SearchInv ==
    phase = "search" =>
        /\ DepsKnown(deps) /\ OnStack /\ in_stack \subseteq visited /\ CallsArePath
        /\ FramesTried /\ FinishedClosed /\ FinishedAcyclic /\ Unvisited

LEMMA PushFacts ==
    ASSUME NEW s \in Seq(Node), NEW n \in Node
    PROVE  /\ Len(Append(s, n)) = Len(s) + 1 /\ Len(s) \in Nat
           /\ Append(s, n)[Len(s) + 1] = n
           /\ \A i \in 1..Len(s) : Append(s, n)[i] = s[i]
OBVIOUS

LEMMA PrefixFacts ==
    ASSUME NEW s \in Seq(Node), NEW k \in Nat, k <= Len(s)
    PROVE  Len(SubSeq(s, 1, k)) = k /\ \A i \in 1..k : SubSeq(s, 1, k)[i] = s[i]
OBVIOUS

LEMMA PopFacts ==
    ASSUME NEW s \in Seq(Node), s # << >>
    PROVE  /\ Len(s) \in Nat \ {0} /\ s[Len(s)] \in Node
           /\ Len(SubSeq(s, 1, Len(s) - 1)) = Len(s) - 1
           /\ \A i \in 1..Len(s) - 1 : SubSeq(s, 1, Len(s) - 1)[i] = s[i]
<1>1. Len(s) \in Nat \ {0} /\ Len(s) - 1 \in Nat /\ Len(s) - 1 <= Len(s)
  OBVIOUS
<1>2. s[Len(s)] \in Node
  BY <1>1
<1> QED
  BY <1>1, <1>2, PrefixFacts

\* has_cycle enters a node it has not visited, from validate_dag or from the
\* call of a node that depends on it.
LEMMA SearchEnters ==
    ASSUME GraphTypeOK, SearchInv, phase = "search", NEW n \in Node, n \notin visited \cup in_stack,
           visited' = visited \cup {n}, in_stack' = in_stack \cup {n}, calls' = Append(calls, n),
           UNCHANGED <<phase, deps>>, roots \ {n} \subseteq roots',
           IF calls = << >> THEN untried' = untried
           ELSE n \in untried[Current] /\ untried' = [untried EXCEPT ![Current] = @ \ {n}]
    PROVE  SearchInv'
<1>0. /\ deps \in [Node -> SUBSET (Node \cup Stranger)] /\ untried \in [Node -> SUBSET (Node \cup Stranger)]
      /\ calls \in Seq(Node) /\ roots \subseteq Node
  BY DEF GraphTypeOK
<1>1. /\ DepsKnown(deps) /\ OnStack /\ in_stack \subseteq visited /\ CallsArePath
      /\ FramesTried /\ FinishedClosed /\ FinishedAcyclic /\ Unvisited
  BY DEF SearchInv
<1>2. /\ Len(calls') = Len(calls) + 1 /\ Len(calls) \in Nat
      /\ calls'[Len(calls) + 1] = n
      /\ \A i \in 1..Len(calls) : calls'[i] = calls[i] /\ calls[i] \in Node
  BY <1>0, PushFacts
<1>3. Finished' = Finished
  BY <1>1 DEF Finished
<1>4. \A i \in 1..Len(calls) : calls[i] # n /\ calls[i] \in visited
  BY <1>1 DEF OnStack
<1>5. OnStack'
  <2>1. in_stack' = {calls'[i] : i \in 1..Len(calls')}
    BY <1>1, <1>2 DEF OnStack
  <2>2. \A i, j \in 1..Len(calls') : calls'[i] = calls'[j] => i = j
    BY <1>1, <1>2, <1>4 DEF OnStack
  <2> QED
    BY <2>1, <2>2 DEF OnStack
<1>6. calls # << >> => Len(calls) > 0 /\ Current = calls[Len(calls)] /\ Current \in Node
  BY <1>0 DEF Current
<1>7. CallsArePath'
  <2>1. calls # << >> => n \in deps[Current]
    BY <1>1, <1>2, <1>6 DEF FramesTried
  <2> QED
    BY <1>0, <1>1, <1>2, <1>6, <2>1 DEF CallsArePath
<1>8. \A m \in Node : (calls = << >> \/ m # Current) => untried'[m] = untried[m]
  BY <1>0, <1>6
<1>9. calls # << >> => untried'[Current] = untried[Current] \ {n}
  BY <1>0, <1>6
<1>10. FramesTried'
  <2> SUFFICES ASSUME NEW i \in 1..Len(calls')
               PROVE  /\ untried'[calls'[i]] \subseteq deps[calls'[i]]
                      /\ deps[calls'[i]] \ untried'[calls'[i]]
                           \subseteq Finished \cup (IF i < Len(calls') THEN {calls'[i + 1]} ELSE {})
    BY <1>3 DEF FramesTried, Tried
  <2>1. CASE i = Len(calls) + 1
    <3>1. untried'[n] = deps[n]
      <4>1. calls # << >> => Current # n
        BY <1>2, <1>4, <1>6
      <4> QED
        BY <1>1, <1>8, <4>1 DEF Unvisited
    <3> QED
      BY <1>2, <2>1, <3>1
  <2>2. CASE i = Len(calls) /\ calls # << >>
    BY <1>1, <1>2, <1>6, <1>9, <2>2 DEF FramesTried, Tried
  <2>3. CASE i \in 1..Len(calls) - 1
    <3>1. calls # << >> => calls[i] # Current
      BY <1>1, <1>2, <1>6, <2>3 DEF OnStack
    <3>2. untried'[calls[i]] = untried[calls[i]]
      BY <1>2, <1>8, <2>3, <3>1
    <3>3. calls'[i] = calls[i] /\ calls'[i + 1] = calls[i + 1]
      BY <1>2, <2>3
    <3>4. /\ untried[calls[i]] \subseteq deps[calls[i]]
          /\ Tried(calls[i]) \subseteq Finished \cup {calls[i + 1]}
      BY <1>1, <1>2, <2>3 DEF FramesTried
    <3> QED
      BY <1>2, <2>3, <3>2, <3>3, <3>4 DEF Tried
  <2> QED
    BY <1>0, <1>2, <2>1, <2>2, <2>3
<1>11. Unvisited'
  <2>1. \A m \in Node \ visited' : untried'[m] = deps[m]
    BY <1>1, <1>2, <1>4, <1>6, <1>8 DEF Unvisited
  <2> QED
    BY <1>0, <1>1, <2>1 DEF Unvisited
<1>12. FinishedClosed' /\ FinishedAcyclic'
  BY <1>1, <1>3 DEF FinishedClosed, FinishedAcyclic
<1>13. DepsKnown(deps)' /\ (in_stack \subseteq visited)'
  BY <1>1 DEF DepsKnown
<1> QED
  BY <1>5, <1>7, <1>10, <1>11, <1>12, <1>13 DEF SearchInv

\* has_cycle returns at once from a node it has finished.
LEMMA SearchPasses ==
    ASSUME GraphTypeOK, SearchInv, phase = "search", NEW n \in Node, n \in visited \ in_stack,
           UNCHANGED <<phase, deps, visited, in_stack, calls>>, roots \ {n} \subseteq roots',
           IF calls = << >> THEN untried' = untried
           ELSE n \in untried[Current] /\ untried' = [untried EXCEPT ![Current] = @ \ {n}]
    PROVE  SearchInv'
<1>0. /\ deps \in [Node -> SUBSET (Node \cup Stranger)] /\ untried \in [Node -> SUBSET (Node \cup Stranger)]
      /\ calls \in Seq(Node) /\ roots \subseteq Node /\ Len(calls) \in Nat
      /\ \A i \in 1..Len(calls) : calls[i] \in Node
  BY DEF GraphTypeOK
<1>1. /\ DepsKnown(deps) /\ OnStack /\ in_stack \subseteq visited /\ CallsArePath
      /\ FramesTried /\ FinishedClosed /\ FinishedAcyclic /\ Unvisited
  BY DEF SearchInv
<1>2. Finished' = Finished /\ n \in Finished
  BY DEF Finished
<1>3. /\ OnStack' /\ CallsArePath' /\ FinishedClosed' /\ FinishedAcyclic'
      /\ DepsKnown(deps)' /\ (in_stack \subseteq visited)'
  BY <1>1, <1>2 DEF OnStack, CallsArePath, FinishedClosed, FinishedAcyclic, DepsKnown
<1>4. calls # << >> => Len(calls) > 0 /\ Current = calls[Len(calls)] /\ Current \in visited /\ Current \in Node
  BY <1>0, <1>1 DEF Current, OnStack
<1>5. \A m \in Node : untried'[m] = untried[m] \/ (calls # << >> /\ m = Current /\ untried'[m] = untried[m] \ {n})
  BY <1>0, <1>4
<1>6. FramesTried'
  <2>1. ASSUME NEW i \in 1..Len(calls)
        PROVE  /\ untried'[calls[i]] \subseteq deps[calls[i]]
               /\ deps[calls[i]] \ untried'[calls[i]]
                    \subseteq Finished \cup (IF i < Len(calls) THEN {calls[i + 1]} ELSE {})
    <3>1. /\ untried[calls[i]] \subseteq deps[calls[i]]
          /\ deps[calls[i]] \ untried[calls[i]]
               \subseteq Finished \cup (IF i < Len(calls) THEN {calls[i + 1]} ELSE {})
      BY <1>1 DEF FramesTried, Tried
    <3>2. untried'[calls[i]] = untried[calls[i]] \/ untried'[calls[i]] = untried[calls[i]] \ {n}
      BY <1>0, <1>5
    <3> QED
      BY <1>2, <3>1, <3>2
  <2> QED
    BY <1>2, <2>1 DEF FramesTried, Tried
<1>7. Unvisited'
  <2>1. \A m \in Node \ visited' : untried'[m] = deps[m]
    BY <1>1, <1>4, <1>5 DEF Unvisited
  <2> QED
    BY <1>0, <1>1, <2>1 DEF Unvisited
<1> QED
  BY <1>3, <1>6, <1>7 DEF SearchInv

\* A call that has tried every dependency returns: nothing its node depends on
\* leads back to it.
LEMMA SearchReturns ==
    ASSUME GraphTypeOK, SearchInv, Return
    PROVE  SearchInv'
<1> DEFINE k == Len(calls)
           n == calls[k]
<1>0. /\ deps \in [Node -> SUBSET (Node \cup Stranger)] /\ untried \in [Node -> SUBSET (Node \cup Stranger)]
      /\ calls \in Seq(Node)
  BY DEF GraphTypeOK
<1>1. /\ DepsKnown(deps) /\ OnStack /\ in_stack \subseteq visited /\ CallsArePath
      /\ FramesTried /\ FinishedClosed /\ FinishedAcyclic /\ Unvisited
  BY DEF SearchInv, Return
<1>2. /\ calls # << >> /\ untried[n] = {} /\ in_stack' = in_stack \ {n}
      /\ calls' = SubSeq(calls, 1, k - 1) /\ UNCHANGED <<phase, deps, roots, visited, untried>>
  BY DEF Return, Current
<1>3. /\ k \in Nat \ {0} /\ n \in Node /\ Len(calls') = k - 1
      /\ \A i \in 1..k - 1 : calls'[i] = calls[i] /\ calls[i] \in Node
  BY <1>0, <1>2, PopFacts
<1>4. n \in in_stack
  BY <1>1, <1>3 DEF OnStack
<1>5. deps[n] \subseteq Finished
  BY <1>1, <1>2, <1>3 DEF FramesTried, Tried
<1>6. Finished' = Finished \cup {n} /\ n \notin Finished
  BY <1>1, <1>2, <1>4 DEF Finished
<1>7. OnStack'
  <2>1. \A i \in 1..k - 1 : calls[i] # n
    BY <1>1, <1>3 DEF OnStack
  <2>2. \A i \in 1..k : i \in 1..k - 1 \/ i = k
    BY <1>3
  <2>3. in_stack' = {calls'[i] : i \in 1..Len(calls')}
    BY <1>1, <1>2, <1>3, <2>1, <2>2 DEF OnStack
  <2> QED
    BY <1>1, <1>3, <2>3 DEF OnStack
<1>8. CallsArePath'
  BY <1>1, <1>2, <1>3 DEF CallsArePath
<1>9. FramesTried'
  <2> SUFFICES ASSUME NEW i \in 1..k - 1
               PROVE  /\ untried'[calls'[i]] \subseteq deps'[calls'[i]]
                      /\ deps'[calls'[i]] \ untried'[calls'[i]]
                           \subseteq Finished' \cup (IF i < k - 1 THEN {calls'[i + 1]} ELSE {})
    BY <1>3 DEF FramesTried, Tried
  <2>0. i \in 1..Len(calls) /\ i < Len(calls)
    BY <1>3
  <2>1. /\ untried'[calls'[i]] \subseteq deps'[calls'[i]]
        /\ deps'[calls'[i]] \ untried'[calls'[i]] \subseteq Finished \cup {calls[i + 1]}
    BY <1>1, <1>2, <1>3, <2>0 DEF FramesTried, Tried
  <2>2. CASE i < k - 1
    BY <1>3, <1>6, <2>1, <2>2
  <2>3. CASE i = k - 1
    BY <1>3, <1>6, <2>1, <2>3
  <2> QED
    BY <1>3, <2>2, <2>3
<1> HIDE DEF n, k
<1>10. FinishedClosed'
  BY <1>1, <1>2, <1>5, <1>6 DEF FinishedClosed
<1>11. FinishedAcyclic'
  <2> SUFFICES ASSUME NEW C \in SUBSET (Finished \cup {n}), C # {}
               PROVE  \E m \in C : deps[m] \cap C = {}
    BY <1>2, <1>6 DEF FinishedAcyclic
  <2>1. CASE C \subseteq Finished
    BY <1>1, <2>1 DEF FinishedAcyclic
  <2>2. CASE C \cap Finished = {}
    BY <1>5, <1>6, <2>2
  <2>3. CASE C \cap Finished # {}
    <3>1. PICK m \in C \cap Finished : deps[m] \cap (C \cap Finished) = {}
      BY <1>1, <2>3 DEF FinishedAcyclic
    <3>2. deps[m] \subseteq Finished
      BY <1>1, <3>1 DEF FinishedClosed
    <3> QED
      BY <3>1, <3>2
  <2> QED
    BY <2>2, <2>3
<1>12. Unvisited' /\ DepsKnown(deps)' /\ (in_stack \subseteq visited)'
  BY <1>1, <1>2 DEF Unvisited, DepsKnown
<1> QED
  BY <1>7, <1>8, <1>9, <1>10, <1>11, <1>12 DEF SearchInv

\* A dependency still on the stack closes the path of the calls to a cycle.
LEMMA StackedDependencyIsACycle ==
    ASSUME GraphTypeOK, SearchInv, phase = "search", calls # << >>,
           NEW d \in untried[Current], d \in in_stack
    PROVE  CyclicIn(deps)
<1>0. calls \in Seq(Node) /\ Len(calls) \in Nat \ {0} /\ \A i \in 1..Len(calls) : calls[i] \in Node
  BY PopFacts DEF GraphTypeOK
<1>1. OnStack /\ CallsArePath /\ FramesTried
  BY DEF SearchInv
<1>2. d \in deps[calls[Len(calls)]]
  BY <1>0, <1>1 DEF FramesTried, Current
<1>3. PICK j \in 1..Len(calls) : d = calls[j]
  BY <1>1 DEF OnStack
<1> DEFINE C == {calls[i] : i \in j..Len(calls)}
<1>4. C \in SUBSET Node /\ d \in C
  BY <1>0, <1>3
<1>5. ASSUME NEW n \in C PROVE deps[n] \cap C # {}
  <2>1. PICK i \in j..Len(calls) : n = calls[i]
    OBVIOUS
  <2>2. CASE i = Len(calls)
    BY <1>2, <1>4, <2>1, <2>2
  <2>3. CASE i < Len(calls)
    <3>1. i \in 1..Len(calls) - 1 /\ i + 1 \in j..Len(calls)
      BY <1>0, <2>3
    <3> QED
      BY <1>1, <2>1, <3>1 DEF CallsArePath
  <2> QED
    BY <1>0, <2>2, <2>3
<1> QED
  BY <1>4, <1>5 DEF CyclicIn

\* When every root has been called, every node is finished.
LEMMA SearchOverIsValid ==
    GraphTypeOK /\ SearchInv /\ SearchOver => ValidDag(deps)
<1> SUFFICES ASSUME GraphTypeOK, SearchInv, SearchOver PROVE ValidDag(deps)
    OBVIOUS
<1>1. DepsKnown(deps) /\ OnStack /\ FinishedAcyclic /\ Unvisited /\ calls = << >> /\ roots = {}
  BY DEF SearchInv, SearchOver
<1>2. in_stack = {}
  BY <1>1 DEF OnStack
<1>3. Node \subseteq Finished
  BY <1>1, <1>2 DEF Unvisited, Finished
<1> QED
  BY <1>1, <1>3 DEF FinishedAcyclic, ValidDag, CyclicIn

Verdict ==
    /\ phase = "accepted" => ValidDag(deps)
    /\ phase = "refused" => ~ValidDag(deps)

LEMMA SearchInit == Init => SearchInv /\ Verdict
BY DEF Init, GraphInit, SearchInv, Verdict

LEMMA ValidateStep ==
    ASSUME GraphTypeOK, SearchInv, ValidateGraph
    PROVE  SearchInv' /\ (phase' = "refused" => ~ValidDag(deps))
<1>1. CASE CheckDeps
  <2>1. phase' = "search" => DepsKnown(deps)
    BY <1>1 DEF CheckDeps
  <2>2. phase' = "refused" => ~DepsKnown(deps)
    BY <1>1 DEF CheckDeps
  <2>3. calls' = << >> /\ Len(calls') = 0 /\ in_stack' = {} /\ visited' = {} /\ roots' = Node
        /\ untried' = deps /\ deps' = deps
    BY <1>1 DEF CheckDeps
  <2>4. /\ OnStack' /\ CallsArePath' /\ FramesTried' /\ FinishedClosed' /\ FinishedAcyclic' /\ Unvisited'
    BY <2>3 DEF OnStack, CallsArePath, FramesTried, FinishedClosed, FinishedAcyclic, Unvisited, Finished
  <2> QED
    BY <2>1, <2>2, <2>3, <2>4 DEF SearchInv, ValidDag, DepsKnown
<1>2. CASE Return
  <2>1. phase' # "refused"
    BY <1>2 DEF Return
  <2> QED
    BY <1>2, <2>1, SearchReturns
<1>3. ASSUME NEW n \in Node, CallRoot(n) PROVE SearchInv' /\ (phase' = "refused" => ~ValidDag(deps))
  <2>1. /\ phase = "search" /\ calls = << >> /\ untried' = untried /\ UNCHANGED deps
        /\ roots \ {n} \subseteq roots' /\ Call(n)
    BY <1>3 DEF CallRoot
  <2>2. n \notin in_stack
    BY <2>1 DEF SearchInv, OnStack
  <2>3. phase' = "search"
    BY <2>1, <2>2 DEF Call
  <2>4. CASE n \in visited
    <3>1. UNCHANGED <<phase, visited, in_stack, calls>>
      BY <2>1, <2>2, <2>4 DEF Call
    <3> QED
      BY <2>1, <2>2, <2>3, <2>4, <3>1, SearchPasses
  <2>5. CASE n \notin visited
    <3>1. /\ visited' = visited \cup {n} /\ in_stack' = in_stack \cup {n} /\ calls' = Append(calls, n)
      BY <2>1, <2>2, <2>5 DEF Call
    <3> QED
      BY <2>1, <2>2, <2>3, <2>5, <3>1, SearchEnters
  <2> QED
    BY <2>4, <2>5
<1>4. ASSUME NEW n \in Node, CallDep(n) PROVE SearchInv' /\ (phase' = "refused" => ~ValidDag(deps))
  <2>1. /\ phase = "search" /\ calls # << >> /\ n \in untried[Current]
        /\ untried' = [untried EXCEPT ![Current] = @ \ {n}]
        /\ UNCHANGED <<deps, roots>> /\ roots \ {n} \subseteq roots' /\ Call(n)
    BY <1>4 DEF CallDep
  <2>2. CASE n \in in_stack
    <3>1. phase' = "refused" /\ CyclicIn(deps)
      BY <2>1, <2>2, StackedDependencyIsACycle DEF Call, SearchInv
    <3> QED
      BY <3>1 DEF SearchInv, ValidDag
  <2>3. CASE n \in visited \ in_stack
    <3>1. UNCHANGED <<phase, visited, in_stack, calls>>
      BY <2>1, <2>3 DEF Call
    <3> QED
      BY <2>1, <2>3, <3>1, SearchPasses
  <2>4. CASE n \notin visited \cup in_stack
    <3>1. /\ visited' = visited \cup {n} /\ in_stack' = in_stack \cup {n} /\ calls' = Append(calls, n)
          /\ UNCHANGED phase
      BY <2>1, <2>4 DEF Call
    <3> QED
      BY <2>1, <2>4, <3>1, SearchEnters
  <2> QED
    BY <2>2, <2>3, <2>4
<1> QED
  BY <1>1, <1>2, <1>3, <1>4 DEF ValidateGraph, Validate

LEMMA SearchStep == TypeOK /\ SearchInv /\ Verdict /\ [Next]_vars => SearchInv' /\ Verdict'
<1> SUFFICES ASSUME TypeOK, SearchInv, Verdict, [Next]_vars PROVE SearchInv' /\ Verdict'
    OBVIOUS
<1>0. GraphTypeOK
  BY DEF TypeOK
<1>1. CASE ValidateGraph
  <2>1. SearchInv' /\ (phase' = "refused" => ~ValidDag(deps)) /\ deps' = deps /\ phase' # "accepted"
    BY <1>0, <1>1, ValidateStep, ValidateFacts
  <2> QED
    BY <2>1 DEF Verdict, ValidDag, DepsKnown, CyclicIn
<1>2. CASE CreateGraph
  <2>1. ValidDag(deps) /\ deps' = deps /\ phase' = "accepted"
    BY <1>0, <1>2, SearchOverIsValid DEF CreateGraph
  <2> QED
    BY <2>1 DEF SearchInv, Verdict, ValidDag, DepsKnown, CyclicIn
<1>3. CASE Crash
  <2>1. deps' = deps /\ phase' # "search" /\ (phase' \in {"accepted", "refused"} => phase' = phase)
    BY <1>3 DEF Crash
  <2> QED
    BY <2>1 DEF SearchInv, Verdict, ValidDag, DepsKnown, CyclicIn
<1>4. CASE UNCHANGED graphVars
  <2>1. UNCHANGED <<phase, deps, roots, visited, in_stack, calls, untried>>
    BY <1>4 DEF graphVars, searchVars
  <2>2. Finished' = Finished
    BY <2>1 DEF Finished
  <2>3. /\ OnStack => OnStack'
        /\ CallsArePath => CallsArePath'
        /\ FramesTried => FramesTried'
        /\ FinishedClosed => FinishedClosed'
        /\ FinishedAcyclic => FinishedAcyclic'
        /\ Unvisited => Unvisited'
    BY <2>1, <2>2 DEF OnStack, CallsArePath, FramesTried, FinishedClosed, FinishedAcyclic, Unvisited, Tried
  <2>4. /\ DepsKnown(deps)' <=> DepsKnown(deps)
        /\ CyclicIn(deps)' <=> CyclicIn(deps)
    BY <2>1 DEF DepsKnown, CyclicIn
  <2> QED
    BY <2>1, <2>3, <2>4 DEF SearchInv, Verdict, ValidDag
<1> QED
  BY <1>1, <1>2, <1>3, <1>4, OnlyThreeTouchTheGraph

\* validate_dag accepts exactly the graphs without a cycle, an unknown or a self
\* dependency, for every set of nodes and every order of the request's lists.
THEOREM SearchIsExact == Spec => []SearchFindsTheCycles
<1>1. TypeOK /\ SearchInv /\ Verdict => SearchFindsTheCycles
  BY SearchOverIsValid DEF TypeOK, Verdict, SearchFindsTheCycles
<1> QED
  BY <1>1, TypeInit, TypeStep, SearchInit, SearchStep, PTL DEF Spec

=============================================================================
