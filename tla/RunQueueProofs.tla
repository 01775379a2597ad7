--------------------------- MODULE RunQueueProofs ---------------------------
(***************************************************************************)
(* Proofs about the run queue, for every number of runs, workers, requests, *)
(* crashes and orphaned graph tasks.                                        *)
(***************************************************************************)
EXTENDS RunQueue, TLAPS

USE NoneIsNobody, BoundsAreNat

-----------------------------------------------------------------------------
(* What the helpers do to the types of the columns and of the graph tasks.  *)

\* Replacing one graph task by another keeps the type of all of them.
LEMMA PutGraphType ==
  ASSUME TypeOK, NEW w \in Worker, NEW i \in Slot, NEW g \in GraphTask \cup {NoGraph},
         PutGraph(w, i, g)
  PROVE  graph' \in [Worker -> [Slot -> GraphTask \cup {NoGraph}]]
  BY DEF TypeOK, PutGraph

\* A status written by a session is a status, whatever the session had seen.
LEMMA WriteStatusType ==
  ASSUME TypeOK, NEW r, NEW view, NEW s \in RunStatus, WriteStatus(r, view, s)
  PROVE  /\ status' \in [Run -> RunStatus \cup Gone]
         /\ touched' \in [Run -> {"fresh", "stale"}]
<1>1. status \in [Run -> RunStatus \cup Gone] /\ touched \in [Run -> {"fresh", "stale"}]
  BY DEF TypeOK
<1>2. /\ status' = status \/ status' = [status EXCEPT ![r] = s]
      /\ touched' = touched \/ touched' = [touched EXCEPT ![r] = "fresh"]
  BY DEF WriteStatus
<1> QED
  BY <1>1, <1>2

\* Counting one more claim or one more offer of a run.
LEMMA CountType ==
  ASSUME NEW f \in [Run -> Nat], NEW r
  PROVE  [f EXCEPT ![r] = @ + 1] \in [Run -> Nat]
  <1> DEFINE h == [f EXCEPT ![r] = @ + 1]
  <1>1. ASSUME NEW x \in Run PROVE h[x] \in Nat
    <2>1. f[x] \in Nat
      OBVIOUS
    <2>2. CASE x = r
      BY <2>1, <2>2
    <2>3. CASE x # r
      BY <2>1, <2>3
    <2> QED
      BY <2>2, <2>3
  <1> QED
    BY <1>1

\* An idle request is a request.
LEMMA NoRequestType == NoRequest \in Request
  BY DEF NoRequest, Request, Gone

\* The current slot of a worker is one.
LEMMA CurType == ASSUME TypeOK, NEW w \in Worker PROVE cur[w] \in Slot
  BY DEF TypeOK

\* The end of a graph task keeps the types.
LEMMA EndGraphType ==
  ASSUME TypeOK, NEW w \in Worker, NEW i \in Slot, NEW label \in Pc,
         EndGraph(w, i, label)
  PROVE  /\ graph' \in [Worker -> [Slot -> GraphTask \cup {NoGraph}]]
         /\ pc' \in [Worker -> Pc]
         /\ GraphLives(w, i) => \A x \in Worker : pc'[x] \in Busy => job[x] # None
  <1>1. PutGraph(w, i, NoGraph)
    BY DEF EndGraph
  <1>2. pc' \in [Worker -> Pc]
    BY DEF EndGraph, TypeOK
  <1>3. ASSUME GraphLives(w, i), NEW x \in Worker, pc'[x] \in Busy
        PROVE  job[x] # None
    <2>1. i = cur[w] => pc[w] \in Busy
      BY <1>3 DEF GraphLives, TypeOK, Slot, Busy
    <2> QED
      BY <1>3, <2>1 DEF EndGraph, TypeOK
  <1> QED
    BY <1>1, <1>2, <1>3, PutGraphType

\* One node of a graph, for every phase and status it can be given.
LEMMA NodeType ==
  ASSUME TypeOK, NEW w \in Worker, NEW i \in Slot, NEW from, NEW to \in Phase,
         NEW s \in RunStatus, Node(w, i, from, to, s), escalated' \in [Run -> BOOLEAN]
  PROVE  TypeOK'
  <1> DEFINE g == graph[w][i]
             h == [g EXCEPT !.phase = to, !.view = s]
  <1>1. g \in GraphTask
    BY DEF Node, GraphLives, TypeOK
  <1>2. h \in GraphTask
    BY <1>1 DEF GraphTask
  <1>3. PutGraph(w, i, h) /\ WriteStatus(g.run, g.view, s)
    BY DEF Node
  <1>4. graph' \in [Worker -> [Slot -> GraphTask \cup {NoGraph}]]
    BY <1>2, <1>3, PutGraphType
  <1>5. status' \in [Run -> RunStatus \cup Gone] /\ touched' \in [Run -> {"fresh", "stale"}]
    BY <1>3, WriteStatusType
  <1> QED
    BY <1>4, <1>5 DEF Node, TypeOK, history, workers, bounds

-----------------------------------------------------------------------------
(* Type correctness: each action on its own, then the specification.        *)

\* The steps of the worker loop and of the heartbeat keep the types.
LEMMA WorkerType ==
  ASSUME TypeOK, NEW w \in Worker,
         \/ WorkerStep(w) \/ RenewLease(w) \/ AbandonRun(w) \/ RenewRaises(w)
         \/ Crash(w)
  PROVE  TypeOK'
<1> USE DEF columns, history, graphs, bounds, GoTo, Busy, Pc
<1> DEFINE HeldTypes == /\ pc' \in [Worker -> Pc]
                        /\ job' \in [Worker -> Run \cup {None}]
                        /\ stuck' \in [Worker -> SUBSET Snapshot]
                        /\ seen' \in [Worker -> RunStatus \cup Gone]
                        /\ graph' \in [Worker -> [Slot -> GraphTask \cup {NoGraph}]]
                        /\ \A x \in Worker : pc'[x] \in Busy => job'[x] # None
<1>0. ASSUME Exit(w) PROVE HeldTypes
  <2>1. [i \in Slot |-> NoGraph] \in [Slot -> GraphTask \cup {NoGraph}]
    OBVIOUS
  <2> QED
    BY <1>0, <2>1 DEF Exit, TypeOK, Pc, Gone
<1>1. CASE DetectStuck(w)
  BY <1>1 DEF DetectStuck, TypeOK, Pc, Snapshot
<1>2. CASE MarkStuck(w)
  BY <1>2 DEF MarkStuck, TypeOK, Pc, RunStatus
<1>3. CASE MarkStuckRaises(w)
  BY <1>0, <1>3 DEF MarkStuckRaises, TypeOK
<1>4. CASE SelectCandidate(w)
  <2>1. pc' \in [Worker -> Pc]
    BY <1>4 DEF SelectCandidate, TypeOK, Pc
  <2>2. job' \in [Worker -> Run \cup {None}]
    BY <1>4 DEF SelectCandidate, TypeOK, Oldest, Queued
  <2>3. \A x \in Worker : pc'[x] \in Busy => job'[x] # None
    BY <1>4 DEF SelectCandidate, TypeOK, Oldest, Queued
  <2> QED
    BY <1>4, <2>1, <2>2, <2>3 DEF SelectCandidate, TypeOK
<1>5. CASE ClaimRun(w)
  <2> DEFINE g == [run |-> job[w], phase |-> "load", view |-> "absent",
                   left |-> MaxPhases]
  <2>1. g \in GraphTask
    <3>1. job[w] \in Run
      BY <1>5 DEF ClaimRun, TypeOK
    <3> QED
      BY <3>1 DEF GraphTask, Phase, Gone
  <2>2. graph' \in [Worker -> [Slot -> GraphTask \cup {NoGraph}]]
    BY <1>5, <2>1, CurType, PutGraphType DEF ClaimRun
  <2>3. /\ status' \in [Run -> RunStatus \cup Gone]
        /\ lease_owner' \in [Run -> Worker \cup {None}]
        /\ lease' \in [Run -> {"none", "live", "expired"}]
        /\ touched' \in [Run -> {"fresh", "stale"}]
    BY <1>5 DEF ClaimRun, TypeOK, RunStatus, ACTIVE_STATUSES
  <2>4. execution_attempts' \in [Run -> Nat]
    BY <1>5 DEF ClaimRun, TypeOK
  <2>5. pc' \in [Worker -> Pc] /\ \A x \in Worker : pc'[x] \in Busy => job[x] # None
    BY <1>5 DEF ClaimRun, TypeOK
  <2> QED
    BY <1>5, <2>2, <2>3, <2>4, <2>5 DEF ClaimRun, TypeOK
<1>6. CASE LoseClaim(w)
  BY <1>6 DEF LoseClaim, TypeOK, Pc
<1>7. CASE RenewLease(w)
  BY <1>7 DEF RenewLease, TypeOK, workers
<1>8. CASE AbandonRun(w)
  <2>1. graph' \in [Worker -> [Slot -> GraphTask \cup {NoGraph}]]
    BY <1>8, CurType, PutGraphType DEF AbandonRun
  <2> QED
    BY <1>8, <2>1 DEF AbandonRun, TypeOK, Pc
<1>9. CASE RenewRaises(w)
  BY <1>9 DEF RenewRaises, TypeOK, Pc, Slot
<1>10. CASE CompleteRun(w)
  BY <1>10 DEF CompleteRun, ClearLease, LeaveJob, TypeOK, Pc
<1>11. CASE ReadFailedRun(w)
  <2>1. CASE OwnsLease(w)
    <3>0. status[job[w]] \in RunStatus \cup Gone
      BY <2>1 DEF OwnsLease, TypeOK
    <3>1. seen' \in [Worker -> RunStatus \cup Gone]
      BY <1>11, <2>1, <3>0 DEF ReadFailedRun, TypeOK
    <3>2. pc' \in [Worker -> Pc] /\ \A x \in Worker : pc'[x] \in Busy => job[x] # None
      BY <1>11, <2>1 DEF ReadFailedRun, TypeOK
    <3> QED
      BY <1>11, <2>1, <3>1, <3>2 DEF ReadFailedRun, TypeOK
  <2>2. CASE ~OwnsLease(w)
    BY <1>11, <2>2 DEF ReadFailedRun, LeaveJob, TypeOK
  <2> QED
    BY <2>1, <2>2
<1>12. CASE RecordFailure(w)
  BY <1>12 DEF RecordFailure, ClearLease, LeaveJob, TypeOK, Pc, RunStatus, Gone
<1>13. CASE RecordFailureRaises(w)
  BY <1>0, <1>13 DEF RecordFailureRaises, TypeOK
<1>14. CASE Crash(w)
  BY <1>0, <1>14 DEF Crash, TypeOK
<1> QED
  BY <1>1, <1>2, <1>3, <1>4, <1>5, <1>6, <1>7, <1>8, <1>9, <1>10, <1>11, <1>12,
     <1>13, <1>14 DEF WorkerStep

\* The nodes of a graph keep the types.
LEMMA GraphStepType ==
  ASSUME TypeOK, NEW w \in Worker, NEW i \in Slot, GraphStep(w, i)
  PROVE  TypeOK'
<1> DEFINE g == graph[w][i]
<1> USE DEF columns, history, workers, bounds
<1>0. GraphLives(w, i) => g \in GraphTask
  BY DEF TypeOK, GraphLives
<1>p. "planning" \in RunStatus /\ "needs_review" \in RunStatus /\ "failed" \in RunStatus
      /\ "executing" \in RunStatus /\ "verifying" \in RunStatus
      /\ "completed" \in RunStatus
  BY DEF RunStatus, ACTIVE_STATUSES
<1>q. {"plan", "planned", "executing", "verifying", "escalate", "finish"} \subseteq Phase
  BY DEF Phase
<1>1. CASE GraphLoad(w, i)
  <2>1. [g EXCEPT !.phase = "plan", !.view = status[g.run]] \in GraphTask
    BY <1>0, <1>1, <1>q DEF GraphLoad, GraphTask, Exists
  <2>2. graph' \in [Worker -> [Slot -> GraphTask \cup {NoGraph}]]
    BY <1>1, <2>1, PutGraphType DEF GraphLoad
  <2> QED
    BY <1>1, <2>2 DEF GraphLoad, TypeOK
<1>2. CASE GraphPlan(w, i)
  <2>1. status' \in [Run -> RunStatus \cup Gone] /\ touched' \in [Run -> {"fresh", "stale"}]
    BY <1>2, <1>p, WriteStatusType DEF GraphPlan
  <2>2. status'[g.run] \in RunStatus
    BY <1>2, <1>p DEF GraphPlan, WriteStatus, Exists, TypeOK
  <2>3. [g EXCEPT !.phase = "planned", !.view = status'[g.run]] \in GraphTask
    BY <1>0, <1>2, <1>q, <2>2 DEF GraphPlan, GraphTask
  <2>4. graph' \in [Worker -> [Slot -> GraphTask \cup {NoGraph}]]
    BY <1>2, <2>3, PutGraphType DEF GraphPlan
  <2> QED
    BY <1>2, <2>1, <2>4 DEF GraphPlan, TypeOK
<1>3. CASE GraphPlanFails(w, i)
  <2>1. escalated' \in [Run -> BOOLEAN]
    BY <1>3 DEF GraphPlanFails, TypeOK
  <2> QED
    BY <1>3, <1>p, <1>q, <2>1, NodeType DEF GraphPlanFails
<1>4. CASE GraphExecute(w, i)
  <2>1. [g EXCEPT !.phase = "executing", !.view = "executing", !.left = @ - 1] \in GraphTask
    <3>1. g \in GraphTask /\ g.left > 0
      BY <1>0, <1>4 DEF GraphExecute
    <3>2. g.left - 1 \in 0 .. MaxPhases
      BY <3>1 DEF GraphTask
    <3> QED
      BY <3>1, <3>2, <1>p, <1>q DEF GraphTask
  <2>2. graph' \in [Worker -> [Slot -> GraphTask \cup {NoGraph}]]
    BY <1>4, <2>1, PutGraphType DEF GraphExecute
  <2>3. status' \in [Run -> RunStatus \cup Gone] /\ touched' \in [Run -> {"fresh", "stale"}]
    BY <1>4, <1>p, WriteStatusType DEF GraphExecute
  <2> QED
    BY <1>4, <2>2, <2>3 DEF GraphExecute, TypeOK
<1>5. CASE GraphVerify(w, i)
  BY <1>5, <1>p, <1>q, NodeType DEF GraphVerify, TypeOK
<1>6. CASE GraphEscalate(w, i)
  BY <1>6, <1>p, <1>q, NodeType DEF GraphEscalate, TypeOK
<1>7. CASE GraphCreateEscalation(w, i)
  <2>1. escalated' \in [Run -> BOOLEAN]
    BY <1>7 DEF GraphCreateEscalation, TypeOK
  <2> QED
    BY <1>7, <1>p, <1>q, <2>1, NodeType DEF GraphCreateEscalation
<1>8. CASE GraphFinish(w, i)
  <2>1. escalated' \in [Run -> BOOLEAN]
    BY <1>8 DEF GraphFinish, TypeOK
  <2> QED
    BY <1>8, <1>p, <1>q, <2>1, NodeType DEF GraphFinish
<1>9. CASE GraphReturns(w, i)
  <2>1. "completing" \in Pc
    BY DEF Pc
  <2>2. graph' \in [Worker -> [Slot -> GraphTask \cup {NoGraph}]] /\ pc' \in [Worker -> Pc]
       /\ \A x \in Worker : pc'[x] \in Busy => job[x] # None
    BY <1>9, <2>1, EndGraphType DEF GraphReturns
  <2> QED
    BY <1>9, <2>2 DEF GraphReturns, TypeOK
<1>10. CASE GraphRaises(w, i)
  <2>1. "failing" \in Pc
    BY DEF Pc
  <2>2. graph' \in [Worker -> [Slot -> GraphTask \cup {NoGraph}]] /\ pc' \in [Worker -> Pc]
       /\ \A x \in Worker : pc'[x] \in Busy => job[x] # None
    BY <1>10, <2>1, EndGraphType DEF GraphRaises
  <2>3. /\ status' \in [Run -> RunStatus \cup Gone]
        /\ touched' \in [Run -> {"fresh", "stale"}]
        /\ escalated' \in [Run -> BOOLEAN]
    <3>1. CASE UNCHANGED <<status, touched, escalated>>
      BY <3>1 DEF TypeOK
    <3>2. CASE WriteStatus(g.run, g.view, "failed")
               /\ escalated' \in {escalated, [escalated EXCEPT ![g.run] = TRUE]}
      <4>1. escalated' \in [Run -> BOOLEAN]
        BY <3>2 DEF TypeOK
      <4> QED
        BY <3>2, <4>1, <1>p, WriteStatusType
    <3> QED
      BY <1>10, <3>1, <3>2 DEF GraphRaises
  <2> QED
    BY <1>10, <2>2, <2>3 DEF GraphRaises, TypeOK
<1> QED
  BY <1>1, <1>2, <1>3, <1>4, <1>5, <1>6, <1>7, <1>8, <1>9, <1>10 DEF GraphStep

\* What clients, reviewers and clocks do keeps the types.
LEMMA OutsideType ==
  ASSUME TypeOK,
         \/ \E c \in Client : RequestStep(c)
         \/ \E r \in Run : CreateRun(r) \/ DeleteRun(r) \/ TimePasses(r)
  PROVE  TypeOK'
<1> USE DEF columns, history, workers, graphs, bounds
<1>q. QUEUED \in RunStatus /\ "pending" \in RunStatus /\ "deleted" \in Gone
      /\ "absent" \in Gone
  BY DEF QUEUED, RunStatus, Gone
<1>0. ASSUME NEW c \in Client, NEW q \in Request, q.pc # "idle" => q.run # None,
             req' = [req EXCEPT ![c] = q]
      PROVE  /\ req' \in [Client -> Request]
             /\ \A d \in Client : req'[d].pc # "idle" => req'[d].run # None
  BY <1>0 DEF TypeOK
<1>n. NoRequest.pc = "idle"
  BY DEF NoRequest
<1>1. ASSUME NEW c \in Client, NEW r \in Run, ReadEscalation(c, r) PROVE TypeOK'
  <2>1. [pc |-> "deciding", run |-> r, view |-> status[r], owner |-> None] \in Request
    BY DEF TypeOK, Request
  <2> QED
    BY <1>0, <1>1, <2>1 DEF ReadEscalation, TypeOK
<1>2. ASSUME NEW c \in Client, NEW s \in RunStatus, NEW b \in BOOLEAN,
             CommitDecision(c, s, b)
      PROVE  TypeOK'
  <2> DEFINE q == [NoRequest EXCEPT !.pc = "decided", !.run = req[c].run]
  <2>1. req[c] \in Request /\ req[c].run # None
    BY <1>2 DEF CommitDecision, TypeOK
  <2>2. q \in Request /\ q.run # None
    BY <2>1 DEF NoRequest, Request, Gone
  <2>3. /\ req' \in [Client -> Request]
        /\ \A d \in Client : req'[d].pc # "idle" => req'[d].run # None
    <3>1. CASE b
      BY <1>0, <1>2, <2>2, <3>1 DEF CommitDecision
    <3>2. CASE ~b
      BY <1>0, <1>n, <1>2, <3>2, NoRequestType DEF CommitDecision
    <3> QED
      BY <3>1, <3>2
  <2>4. status' \in [Run -> RunStatus \cup Gone] /\ touched' \in [Run -> {"fresh", "stale"}]
    BY <1>2 DEF CommitDecision, TypeOK
  <2>5. escalated' \in [Run -> BOOLEAN]
    BY <1>2 DEF CommitDecision, TypeOK
  <2> QED
    BY <1>2, <2>3, <2>4, <2>5 DEF CommitDecision, TypeOK
<1>3. ASSUME NEW c \in Client, LoadRun(c) PROVE TypeOK'
  <2> DEFINE q == [req[c] EXCEPT !.pc = "loaded", !.view = status[req[c].run],
                                 !.owner = lease_owner[req[c].run]]
  <2>1. req[c] \in Request /\ req[c].run \in Run
    BY <1>3 DEF LoadRun, TypeOK, Request
  <2>2. q \in Request /\ q.run # None
    BY <2>1 DEF TypeOK, Request
  <2>3. req' = [req EXCEPT ![c] = q]
    BY <1>3 DEF LoadRun, TypeOK
  <2> HIDE DEF q
  <2> QED
    BY <1>0, <1>3, <2>2, <2>3 DEF LoadRun, TypeOK
<1>4. ASSUME NEW c \in Client, EnqueueRun(c) PROVE TypeOK'
  <2>1. /\ req' \in [Client -> Request]
        /\ \A d \in Client : req'[d].pc # "idle" => req'[d].run # None
    BY <1>0, <1>n, <1>4, NoRequestType DEF EnqueueRun
  <2>2. status' \in [Run -> RunStatus \cup Gone]
    BY <1>4, <1>q DEF EnqueueRun, TypeOK
  <2>3. lease_owner' \in [Run -> Worker \cup {None}]
        /\ lease' \in [Run -> {"none", "live", "expired"}]
    BY <1>4 DEF EnqueueRun, ClearLease, TypeOK
  <2>4. touched' \in [Run -> {"fresh", "stale"}] /\ queued_at' \in [Run -> Nat]
    BY <1>4 DEF EnqueueRun, TypeOK
  <2>5. offered' \in [Run -> Nat]
    BY <1>4, CountType DEF EnqueueRun, TypeOK
  <2>6. now' \in Nat
    <3>1. now \in Nat /\ now' = now + 1
      BY <1>4 DEF EnqueueRun, TypeOK
    <3> QED
      BY <3>1
  <2> QED
    BY <1>4, <2>1, <2>2, <2>3, <2>4, <2>5, <2>6 DEF EnqueueRun, TypeOK
<1>5. ASSUME NEW c \in Client, AbortRequest(c) PROVE TypeOK'
  BY <1>0, <1>n, <1>5, NoRequestType DEF AbortRequest, TypeOK
<1>6. ASSUME NEW r \in Run, CreateRun(r) PROVE TypeOK'
  <2>1. offered' \in [Run -> Nat]
    BY <1>6, CountType DEF CreateRun, TypeOK
  <2>2. now \in Nat /\ now' = now + 1
    BY <1>6 DEF CreateRun, TypeOK
  <2>3. now' \in Nat
    BY <2>2
  <2>4. status' \in [Run -> RunStatus \cup Gone] /\ queued_at' \in [Run -> Nat]
    BY <1>6, <1>q, <2>2 DEF CreateRun, TypeOK
  <2> QED
    BY <1>6, <2>1, <2>3, <2>4 DEF CreateRun, TypeOK
<1>7. ASSUME NEW r \in Run, DeleteRun(r) PROVE TypeOK'
  <2>1. deletes' \in 0 .. MaxDeletes
    BY <1>7 DEF DeleteRun, TypeOK
  <2> QED
    BY <1>7, <1>q, <2>1 DEF DeleteRun, ClearLease, TypeOK
<1>8. ASSUME NEW r \in Run, TimePasses(r) PROVE TypeOK'
  <2>1. /\ lease' = lease \/ lease' = [lease EXCEPT ![r] = "expired"]
        /\ touched' = touched \/ touched' = [touched EXCEPT ![r] = "stale"]
    BY <1>8 DEF TimePasses, LeaseExpires, RowGoesStale
  <2>2. lease' \in [Run -> {"none", "live", "expired"}] /\ touched' \in [Run -> {"fresh", "stale"}]
    BY <2>1 DEF TypeOK
  <2>3. UNCHANGED <<status, lease_owner, queued_at, execution_attempts, escalated, history,
                    workers, graphs, req, bounds>>
    BY <1>8 DEF TimePasses, LeaseExpires, RowGoesStale
  <2> QED
    BY <2>2, <2>3 DEF TypeOK
<1> QED
  BY <1>1, <1>2, <1>3, <1>4, <1>5, <1>6, <1>7, <1>8 DEF RequestStep

\* Every step keeps the types.
LEMMA StepType == TypeOK /\ [Next]_vars => TypeOK'
<1> SUFFICES ASSUME TypeOK, [Next]_vars PROVE TypeOK'
  OBVIOUS
<1>1. CASE UNCHANGED vars
  BY <1>1 DEF vars, columns, history, workers, graphs, bounds, TypeOK
<1>2. CASE Next
  BY <1>2, WorkerType, GraphStepType, OutsideType DEF Next
<1> QED
  BY <1>1, <1>2

\* Every column, every process and every request keeps its type in every
\* behaviour; a worker that is busy has a job.
THEOREM TypeCorrect == Spec => []TypeOK
<1>1. Init => TypeOK
  <2>1. NoGraph \in GraphTask \cup {NoGraph} /\ 0 \in Slot
    BY DEF Slot
  <2>2. NoRequest.pc = "idle"
    BY DEF NoRequest
  <2> QED
    BY <2>1, <2>2, NoRequestType DEF Init, TypeOK, Pc, Busy, Gone
<1> QED
  BY <1>1, StepType, PTL DEF Spec

-----------------------------------------------------------------------------
(* What the graph cannot touch.  A graph task is not told whether its worker  *)
(* still owns the run, so every invariant about leases and claims rests on    *)
(* the columns it never writes.                                              *)

\* A status that a session writes and that is not "queued" makes no run queued.
LEMMA WriteStatusQueued ==
  ASSUME TypeOK, NEW r, NEW view, NEW s, s # QUEUED, WriteStatus(r, view, s)
  PROVE  Queued' \subseteq Queued
  BY DEF TypeOK, WriteStatus, Queued

\* A node of the graph leaves leases, claims and workers alone and queues
\* nothing.
LEMMA GraphFrame ==
  ASSUME TypeOK, NEW w \in Worker, NEW i \in Slot, GraphStep(w, i)
  PROVE  /\ UNCHANGED <<lease_owner, lease, execution_attempts, offered, job>>
         /\ Queued' \subseteq Queued
         /\ \/ UNCHANGED pc
            \/ /\ pc[w] = "running"
               /\ \E label \in {"completing", "failing"} :
                    pc' = [pc EXCEPT ![w] = label]
<1> USE DEF columns, history, workers
<1>q. \A s \in {"planning", "executing", "verifying", "needs_review", "failed",
                 "completed"} : s # QUEUED
  BY DEF QUEUED
<1>n. ASSUME NEW from, NEW to, NEW s, s # QUEUED, Node(w, i, from, to, s)
      PROVE  /\ UNCHANGED <<lease_owner, lease, execution_attempts, offered, job, pc>>
             /\ Queued' \subseteq Queued
  BY <1>n, WriteStatusQueued DEF Node
<1>e. ASSUME NEW label, EndGraph(w, i, label), GraphLives(w, i)
      PROVE  UNCHANGED pc \/ (pc[w] = "running" /\ pc' = [pc EXCEPT ![w] = label])
  BY <1>e DEF EndGraph, GraphLives, TypeOK, Slot
<1>1. CASE GraphLoad(w, i)
  BY <1>1 DEF GraphLoad, Queued
<1>2. CASE GraphPlan(w, i)
  BY <1>2, <1>q, WriteStatusQueued DEF GraphPlan
<1>3. CASE GraphPlanFails(w, i)
  BY <1>3, <1>n, <1>q DEF GraphPlanFails
<1>4. CASE GraphExecute(w, i)
  BY <1>4, <1>q, WriteStatusQueued DEF GraphExecute
<1>5. CASE GraphVerify(w, i)
  BY <1>5, <1>n, <1>q DEF GraphVerify
<1>6. CASE GraphEscalate(w, i)
  BY <1>6, <1>n, <1>q DEF GraphEscalate
<1>7. CASE GraphCreateEscalation(w, i)
  BY <1>7, <1>n, <1>q DEF GraphCreateEscalation
<1>8. CASE GraphFinish(w, i)
  BY <1>8, <1>n, <1>q DEF GraphFinish
<1>9. CASE GraphReturns(w, i)
  <2>1. UNCHANGED <<lease_owner, lease, execution_attempts, offered, job, status>>
    BY <1>9 DEF GraphReturns
  <2>2. Queued' = Queued
    BY <2>1 DEF Queued
  <2>3. UNCHANGED pc \/ (pc[w] = "running" /\ pc' = [pc EXCEPT ![w] = "completing"])
    BY <1>9, <1>e DEF GraphReturns
  <2> QED
    BY <2>1, <2>2, <2>3
<1>10. CASE GraphRaises(w, i)
  <2>1. UNCHANGED <<lease_owner, lease, execution_attempts, offered, job>>
    BY <1>10 DEF GraphRaises
  <2>2. Queued' \subseteq Queued
    BY <1>10, <1>q, WriteStatusQueued DEF GraphRaises, Queued
  <2>3. UNCHANGED pc \/ (pc[w] = "running" /\ pc' = [pc EXCEPT ![w] = "failing"])
    BY <1>10, <1>e DEF GraphRaises
  <2> QED
    BY <2>1, <2>2, <2>3
<1> QED
  BY <1>1, <1>2, <1>3, <1>4, <1>5, <1>6, <1>7, <1>8, <1>9, <1>10 DEF GraphStep

\* Only a claim counts an execution, only a request queues a run; every other
\* step leaves the counts alone and can only take a run off the queue.
LEMMA QuietSteps ==
  ASSUME TypeOK, [Next]_vars
  PROVE  \/ \E w \in Worker : ClaimRun(w)
         \/ \E r \in Run : CreateRun(r)
         \/ \E c \in Client : EnqueueRun(c)
         \/ /\ UNCHANGED <<execution_attempts, offered>>
            /\ Queued' \subseteq Queued
<1> USE DEF columns, history
<1> DEFINE Quiet == UNCHANGED <<execution_attempts, offered>> /\ Queued' \subseteq Queued
<1>s. UNCHANGED <<execution_attempts, offered, status>> => Quiet
  BY DEF Queued
<1>q. "failed" # QUEUED /\ "deleted" # QUEUED
  BY DEF QUEUED
<1>1. CASE UNCHANGED vars
  BY <1>1, <1>s DEF vars
<1>2. ASSUME NEW w \in Worker, WorkerStep(w) PROVE ClaimRun(w) \/ Quiet
  <2>1. CASE MarkStuck(w)
    BY <2>1, <1>q DEF MarkStuck, Queued
  <2>2. CASE RecordFailure(w)
    BY <2>2, <1>q DEF RecordFailure, Queued, TypeOK
  <2>3. CASE DetectStuck(w) \/ MarkStuckRaises(w) \/ SelectCandidate(w) \/ LoseClaim(w)
             \/ CompleteRun(w) \/ ReadFailedRun(w) \/ RecordFailureRaises(w)
    BY <2>3, <1>s DEF DetectStuck, MarkStuckRaises, SelectCandidate, LoseClaim,
       CompleteRun, ReadFailedRun, RecordFailureRaises
  <2> QED
    BY <1>2, <2>1, <2>2, <2>3 DEF WorkerStep
<1>3. ASSUME NEW w \in Worker,
             RenewLease(w) \/ AbandonRun(w) \/ RenewRaises(w) \/ Crash(w)
      PROVE  Quiet
  BY <1>3, <1>s DEF RenewLease, AbandonRun, RenewRaises, Crash
<1>4. ASSUME NEW w \in Worker, NEW i \in Slot, GraphStep(w, i) PROVE Quiet
  BY <1>4, GraphFrame
<1>5. ASSUME NEW c \in Client, RequestStep(c) PROVE EnqueueRun(c) \/ Quiet
  <2>1. ASSUME NEW t \in RunStatus \ {QUEUED, "planning", "verifying"}, NEW b,
               CommitDecision(c, t, b)
        PROVE  Quiet
    BY <2>1 DEF CommitDecision, Queued, TypeOK
  <2>2. CASE (\E r \in Run : ReadEscalation(c, r)) \/ LoadRun(c) \/ AbortRequest(c)
    BY <2>2, <1>s DEF ReadEscalation, LoadRun, AbortRequest
  <2> QED
    BY <1>5, <2>1, <2>2 DEF RequestStep
<1>6. ASSUME NEW r \in Run, DeleteRun(r) PROVE Quiet
  BY <1>6, <1>q DEF DeleteRun, Queued, TypeOK
<1>7. ASSUME NEW r \in Run, TimePasses(r) PROVE Quiet
  BY <1>7, <1>s DEF TimePasses, LeaseExpires, RowGoesStale
<1> QED
  BY <1>1, <1>2, <1>3, <1>4, <1>5, <1>6, <1>7 DEF Next

-----------------------------------------------------------------------------
(* At most one execution per enqueue.                                        *)

\* A claim uses up the offer its run was queued for, and a request that queues a
\* run makes a new one: no step breaks the bound.
LEMMA OneClaimStep ==
  ASSUME TypeOK, OneClaimPerEnqueue, [Next]_vars
  PROVE  OneClaimPerEnqueue'
<1>1. ASSUME NEW w \in Worker, ClaimRun(w) PROVE OneClaimPerEnqueue'
  <2>1. job[w] \in Run /\ status[job[w]] = QUEUED
    BY <1>1 DEF ClaimRun, Claimable, Busy, TypeOK
  <2>2. execution_attempts[job[w]] < offered[job[w]]
    BY <2>1 DEF OneClaimPerEnqueue
  <2>3. /\ offered' = offered
        /\ execution_attempts' = [execution_attempts EXCEPT ![job[w]] = @ + 1]
        /\ status' = [status EXCEPT ![job[w]] = "planning"]
    BY <1>1 DEF ClaimRun, history
  <2>4. ASSUME NEW r \in Run
        PROVE  /\ execution_attempts'[r] <= offered'[r]
               /\ status'[r] = QUEUED => execution_attempts'[r] < offered'[r]
    <3>1. CASE r = job[w]
      BY <2>1, <2>2, <2>3, <3>1 DEF TypeOK, QUEUED
    <3>2. CASE r # job[w]
      BY <2>3, <3>2 DEF TypeOK, OneClaimPerEnqueue
    <3> QED
      BY <3>1, <3>2
  <2> QED
    BY <2>4 DEF OneClaimPerEnqueue
<1>2. ASSUME NEW x \in Run, UNCHANGED execution_attempts,
             offered' = [offered EXCEPT ![x] = @ + 1],
             Queued' \subseteq Queued \cup {x}
      PROVE  OneClaimPerEnqueue'
  <2>1. ASSUME NEW r \in Run
        PROVE  /\ execution_attempts'[r] <= offered'[r]
               /\ status'[r] = QUEUED => execution_attempts'[r] < offered'[r]
    <3>1. /\ execution_attempts[r] \in Nat /\ offered[r] \in Nat
          /\ execution_attempts[r] <= offered[r]
          /\ execution_attempts'[r] = execution_attempts[r]
      BY <1>2 DEF TypeOK, OneClaimPerEnqueue
    <3>2. CASE r = x
      <4>1. offered'[r] = offered[r] + 1
        BY <1>2, <3>2 DEF TypeOK
      <4> QED
        BY <3>1, <4>1
    <3>3. CASE r # x
      <4>1. offered'[r] = offered[r] /\ (status'[r] = QUEUED => status[r] = QUEUED)
        BY <1>2, <3>3 DEF TypeOK, Queued
      <4> QED
        BY <3>1, <4>1 DEF OneClaimPerEnqueue
    <3> QED
      BY <3>2, <3>3
  <2> QED
    BY <2>1 DEF OneClaimPerEnqueue
<1>3. ASSUME NEW r \in Run, CreateRun(r) PROVE OneClaimPerEnqueue'
  BY <1>2, <1>3 DEF CreateRun, Queued, TypeOK
<1>4. ASSUME NEW c \in Client, EnqueueRun(c) PROVE OneClaimPerEnqueue'
  <2>1. req[c].run \in Run
    BY <1>4 DEF EnqueueRun, TypeOK, Request
  <2> QED
    BY <1>2, <1>4, <2>1 DEF EnqueueRun, Queued, TypeOK
<1>5. ASSUME UNCHANGED <<execution_attempts, offered>>, Queued' \subseteq Queued
      PROVE  OneClaimPerEnqueue'
  BY <1>5 DEF OneClaimPerEnqueue, Queued
<1> QED
  BY <1>1, <1>3, <1>4, <1>5, QuietSteps

\* No run is executed more often than it was enqueued, for any number of workers,
\* reviewers, crashes, orphaned graph tasks and lost updates.
THEOREM AtMostOneClaim == Spec => []OneClaimPerEnqueue
<1>1. Init => OneClaimPerEnqueue
  BY DEF Init, OneClaimPerEnqueue, QUEUED
<1>2. Spec => []TypeOK
  BY TypeCorrect
<1> QED
  BY <1>1, <1>2, OneClaimStep, PTL DEF Spec

-----------------------------------------------------------------------------
(* The leases.  Both invariants are inductive relative to TypeOK: the first  *)
(* is about the two lease columns only, the second ties the owner column to *)
(* what the process it names is doing.                                      *)

\* Only these steps write the lease columns; all others leave both alone.
LEMMA LeaseWriters ==
  ASSUME TypeOK, [Next]_vars
  PROVE  \/ \E w \in Worker : \/ MarkStuck(w) \/ ClaimRun(w) \/ RenewLease(w)
                              \/ CompleteRun(w) \/ RecordFailure(w)
         \/ \E r \in Run : DeleteRun(r) \/ LeaseExpires(r)
         \/ \E c \in Client : EnqueueRun(c)
         \/ UNCHANGED <<lease_owner, lease>>
<1> USE DEF columns
<1>1. CASE UNCHANGED vars
  BY <1>1 DEF vars
<1>2. ASSUME NEW w \in Worker, WorkerStep(w)
      PROVE  \/ MarkStuck(w) \/ ClaimRun(w) \/ CompleteRun(w) \/ RecordFailure(w)
             \/ UNCHANGED <<lease_owner, lease>>
  BY <1>2 DEF WorkerStep, DetectStuck, MarkStuckRaises, SelectCandidate, LoseClaim,
     ReadFailedRun, RecordFailureRaises
<1>3. ASSUME NEW w \in Worker, AbandonRun(w) \/ RenewRaises(w) \/ Crash(w)
      PROVE  UNCHANGED <<lease_owner, lease>>
  BY <1>3 DEF AbandonRun, RenewRaises, Crash
<1>4. ASSUME NEW w \in Worker, NEW i \in Slot, GraphStep(w, i)
      PROVE  UNCHANGED <<lease_owner, lease>>
  BY <1>4, GraphFrame
<1>5. ASSUME NEW c \in Client, RequestStep(c)
      PROVE  EnqueueRun(c) \/ UNCHANGED <<lease_owner, lease>>
  BY <1>5 DEF RequestStep, ReadEscalation, CommitDecision, LoadRun, AbortRequest
<1>6. ASSUME NEW r \in Run, CreateRun(r) \/ RowGoesStale(r)
      PROVE  UNCHANGED <<lease_owner, lease>>
  BY <1>6 DEF CreateRun, RowGoesStale
<1> QED
  BY <1>1, <1>2, <1>3, <1>4, <1>5, <1>6 DEF Next, TimePasses

-----------------------------------------------------------------------------
(* The two lease columns agree.                                              *)

\* Whatever a session sends, it sends both lease columns or neither.
LEMMA LeaseHasOwnerStep ==
  ASSUME TypeOK, LeaseHasOwner, [Next]_vars
  PROVE  LeaseHasOwner'
<1> USE DEF LeaseHasOwner
<1>0. ASSUME NEW r \in Run, ClearLease(r) PROVE LeaseHasOwner'
  BY <1>0 DEF ClearLease, TypeOK
<1>1. ASSUME NEW w \in Worker, MarkStuck(w) PROVE LeaseHasOwner'
  BY <1>1 DEF MarkStuck, TypeOK
<1>2. ASSUME NEW w \in Worker, ClaimRun(w) PROVE LeaseHasOwner'
  BY <1>2 DEF ClaimRun, TypeOK
<1>3. ASSUME NEW w \in Worker, RenewLease(w) PROVE LeaseHasOwner'
  BY <1>3 DEF RenewLease, OwnsLease, TypeOK
<1>4. ASSUME NEW w \in Worker, CompleteRun(w) PROVE LeaseHasOwner'
  BY <1>0, <1>4 DEF CompleteRun, OwnsLease
<1>5. ASSUME NEW w \in Worker, RecordFailure(w) PROVE LeaseHasOwner'
  <2>1. job[w] \in Run
    BY <1>5 DEF RecordFailure, Busy, TypeOK
  <2> QED
    BY <1>0, <1>5, <2>1 DEF RecordFailure
<1>6. ASSUME NEW r \in Run, DeleteRun(r) PROVE LeaseHasOwner'
  BY <1>0, <1>6 DEF DeleteRun
<1>7. ASSUME NEW r \in Run, LeaseExpires(r) PROVE LeaseHasOwner'
  BY <1>7 DEF LeaseExpires, TypeOK
<1>8. ASSUME NEW c \in Client, EnqueueRun(c) PROVE LeaseHasOwner'
  <2>1. req[c].run \in Run
    BY <1>8 DEF EnqueueRun, TypeOK, Request
  <2> QED
    BY <1>0, <1>8, <2>1 DEF EnqueueRun
<1>9. CASE UNCHANGED <<lease_owner, lease>>
  BY <1>9
<1> QED
  BY <1>1, <1>2, <1>3, <1>4, <1>5, <1>6, <1>7, <1>8, <1>9, LeaseWriters

\* A row never has an expiry without an owner or an owner without an expiry,
\* although recovery, workers and requests write the columns on stale readings.
THEOREM LeaseColumnsAgree == Spec => []LeaseHasOwner
<1>1. Init => LeaseHasOwner
  BY DEF Init, LeaseHasOwner
<1>2. Spec => []TypeOK
  BY TypeCorrect
<1> QED
  BY <1>1, <1>2, LeaseHasOwnerStep, PTL DEF Spec

-----------------------------------------------------------------------------
(* The owner of a lease works on the run.                                    *)

\* The worker w still answers for every run that names it as its owner.
Answers(w) ==
  \A r \in Run : lease_owner[r] = w =>
    \/ pc[w] = "stopped"
    \/ job[w] = r /\ pc[w] \in {"running", "completing", "failing", "failed_read"}

\* A step that gives no row to w and leaves w at its work keeps its promise.
LEMMA AnswersFrame ==
  ASSUME TypeOK, NEW w \in Worker, Answers(w), pc'[w] = pc[w], job'[w] = job[w],
         \A r \in Run : lease_owner'[r] = w => lease_owner[r] = w
  PROVE  Answers(w)'
  BY DEF Answers

\* A worker that is between two runs owns none.
LEMMA IdleOwnsNothing ==
  ASSUME TypeOK, NEW w \in Worker, Answers(w),
         pc[w] \in {"recover", "recovering", "claim", "claiming"}
  PROVE  \A r \in Run : lease_owner[r] # w
  BY DEF Answers

\* A worker's own steps: it leaves a run only with the lease given back, taken
\* away, or because the process ends.
LEMMA AnswersWorker ==
  ASSUME TypeOK, NEW w \in Worker, Answers(w),
         \/ WorkerStep(w) \/ RenewLease(w) \/ AbandonRun(w) \/ RenewRaises(w)
         \/ Crash(w)
  PROVE  Answers(w)'
<1> USE DEF columns, workers, GoTo
<1>0. ASSUME Exit(w) PROVE Answers(w)'
  BY <1>0 DEF Exit, Answers, TypeOK
<1>i. ASSUME \A r \in Run : lease_owner'[r] # w PROVE Answers(w)'
  BY <1>i DEF Answers
<1>1. CASE DetectStuck(w)
  BY <1>1, <1>i, IdleOwnsNothing DEF DetectStuck
<1>2. CASE MarkStuck(w)
  <2>1. \A r \in Run : lease_owner[r] # w
    BY <1>2, IdleOwnsNothing DEF MarkStuck
  <2> QED
    BY <1>2, <1>i, <2>1 DEF MarkStuck
<1>3. CASE SelectCandidate(w)
  BY <1>3, <1>i, IdleOwnsNothing DEF SelectCandidate
<1>4. CASE ClaimRun(w)
  <2>1. \A r \in Run : lease_owner[r] # w
    BY <1>4, IdleOwnsNothing DEF ClaimRun
  <2>2. \A r \in Run : lease_owner'[r] = w => r = job[w]
    BY <1>4, <2>1 DEF ClaimRun, TypeOK
  <2>3. pc'[w] = "running" /\ job' = job
    BY <1>4 DEF ClaimRun, TypeOK
  <2> QED
    BY <2>2, <2>3 DEF Answers
<1>5. CASE LoseClaim(w)
  BY <1>5, <1>i, IdleOwnsNothing DEF LoseClaim
<1>6. CASE RenewLease(w)
  BY <1>6 DEF RenewLease, Answers
<1>7. CASE AbandonRun(w)
  BY <1>7, <1>i DEF AbandonRun, OwnsLease, Answers, TypeOK
<1>8. CASE RenewRaises(w)
  BY <1>8 DEF RenewRaises, Answers, TypeOK
<1>9. CASE CompleteRun(w)
  BY <1>9, <1>i DEF CompleteRun, OwnsLease, ClearLease, Answers, TypeOK
<1>10. CASE ReadFailedRun(w)
  <2>1. CASE OwnsLease(w)
    <3>1. pc'[w] = "failed_read" /\ UNCHANGED <<job, lease_owner>> /\ pc[w] = "failing"
      BY <1>10, <2>1 DEF ReadFailedRun, TypeOK
    <3> QED
      BY <3>1 DEF Answers
  <2>2. CASE ~OwnsLease(w)
    BY <1>10, <1>i, <2>2 DEF ReadFailedRun, OwnsLease, Answers
  <2> QED
    BY <2>1, <2>2
<1>11. CASE RecordFailure(w)
  BY <1>11, <1>i DEF RecordFailure, ClearLease, Answers, TypeOK
<1>12. CASE MarkStuckRaises(w) \/ RecordFailureRaises(w) \/ Crash(w)
  BY <1>0, <1>12 DEF MarkStuckRaises, RecordFailureRaises, Crash
<1> QED
  BY <1>1, <1>2, <1>3, <1>4, <1>5, <1>6, <1>7, <1>8, <1>9, <1>10, <1>11, <1>12
     DEF WorkerStep

\* The steps of another worker.
LEMMA AnswersOther ==
  ASSUME TypeOK, NEW w \in Worker, Answers(w), NEW v \in Worker, v # w,
         \/ WorkerStep(v) \/ RenewLease(v) \/ AbandonRun(v) \/ RenewRaises(v)
         \/ Crash(v)
  PROVE  Answers(w)'
<1> USE DEF columns, workers
<1>1. pc'[w] = pc[w]
  BY DEF WorkerStep, DetectStuck, MarkStuck, MarkStuckRaises, SelectCandidate, ClaimRun,
     LoseClaim, RenewLease, AbandonRun, RenewRaises, CompleteRun, ReadFailedRun,
     RecordFailure, RecordFailureRaises, Crash, Exit, LeaveJob, GoTo, TypeOK
<1>2. job'[w] = job[w]
  BY DEF WorkerStep, DetectStuck, MarkStuck, MarkStuckRaises, SelectCandidate, ClaimRun,
     LoseClaim, RenewLease, AbandonRun, RenewRaises, CompleteRun, ReadFailedRun,
     RecordFailure, RecordFailureRaises, Crash, Exit, LeaveJob, TypeOK
<1>3. \A r \in Run : lease_owner'[r] = w => lease_owner[r] = w
  <2>1. CASE MarkStuck(v)
    BY <2>1 DEF MarkStuck, TypeOK
  <2>2. CASE ClaimRun(v)
    BY <2>2 DEF ClaimRun, TypeOK
  <2>3. CASE CompleteRun(v) \/ RecordFailure(v)
    BY <2>3 DEF CompleteRun, RecordFailure, ClearLease, TypeOK
  <2>4. CASE UNCHANGED lease_owner
    BY <2>4
  <2> QED
    BY <2>1, <2>2, <2>3, <2>4 DEF WorkerStep, DetectStuck, MarkStuckRaises,
       SelectCandidate, LoseClaim, RenewLease, AbandonRun, RenewRaises, ReadFailedRun,
       RecordFailureRaises, Crash
<1> QED
  BY <1>1, <1>2, <1>3, AnswersFrame

\* Every step keeps a lease with a worker that answers for it.
LEMMA AnswersStep ==
  ASSUME TypeOK, NEW w \in Worker, Answers(w), [Next]_vars
  PROVE  Answers(w)'
<1> USE DEF columns, workers
<1>1. CASE UNCHANGED vars
  BY <1>1, AnswersFrame DEF vars
<1>2. ASSUME NEW v \in Worker,
             \/ WorkerStep(v) \/ RenewLease(v) \/ AbandonRun(v) \/ RenewRaises(v)
             \/ Crash(v)
      PROVE  Answers(w)'
  BY <1>2, AnswersWorker, AnswersOther
<1>3. ASSUME NEW v \in Worker, NEW i \in Slot, GraphStep(v, i) PROVE Answers(w)'
  <2>1. CASE UNCHANGED pc
    BY <1>3, <2>1, GraphFrame, AnswersFrame
  <2>2. CASE /\ pc[v] = "running"
             /\ \E label \in {"completing", "failing"} : pc' = [pc EXCEPT ![v] = label]
    BY <1>3, <2>2, GraphFrame DEF Answers, TypeOK
  <2> QED
    BY <1>3, <2>1, <2>2, GraphFrame
<1>4. ASSUME NEW c \in Client, RequestStep(c) PROVE Answers(w)'
  <2>1. UNCHANGED <<pc, job>>
    BY <1>4 DEF RequestStep, ReadEscalation, CommitDecision, LoadRun, EnqueueRun,
       AbortRequest
  <2>2. \A r \in Run : lease_owner'[r] = w => lease_owner[r] = w
    BY <1>4 DEF RequestStep, ReadEscalation, CommitDecision, LoadRun, EnqueueRun,
       AbortRequest, ClearLease, TypeOK
  <2> QED
    BY <2>1, <2>2, AnswersFrame
<1>5. ASSUME NEW r \in Run, CreateRun(r) \/ DeleteRun(r) \/ TimePasses(r)
      PROVE  Answers(w)'
  <2>1. UNCHANGED <<pc, job>>
    BY <1>5 DEF CreateRun, DeleteRun, TimePasses, LeaseExpires, RowGoesStale
  <2>2. \A x \in Run : lease_owner'[x] = w => lease_owner[x] = w
    BY <1>5 DEF CreateRun, DeleteRun, TimePasses, LeaseExpires, RowGoesStale,
       ClearLease, TypeOK
  <2> QED
    BY <2>1, <2>2, AnswersFrame
<1> QED
  BY <1>1, <1>2, <1>3, <1>4, <1>5 DEF Next

\* A lease names a process that died, or one that is still answering for the run.
THEOREM LeaseHoldersWork == Spec => []LeaseHolderWorks
<1> DEFINE AllAnswer == \A w \in Worker : Answers(w)
<1>1. Init => AllAnswer
  BY DEF Init, Answers
<1>2. TypeOK /\ AllAnswer /\ [Next]_vars => AllAnswer'
  BY AnswersStep
<1>3. AllAnswer => LeaseHolderWorks
  BY DEF Answers, LeaseHolderWorks
<1>4. Spec => []TypeOK
  BY TypeCorrect
<1> QED
  BY <1>1, <1>2, <1>3, <1>4, PTL DEF Spec

-----------------------------------------------------------------------------
(* The run queue implements WorkQueue: the queued rows are the waiting      *)
(* jobs, the committed enqueues the offers, the successful claims the       *)
(* deliveries.                                                              *)

\* The queue starts as the abstract one does.
LEMMA InitRefines == Init => Abstract!Init
  BY DEF Init, Abstract!Init, Queued, QUEUED

\* Every step of a worker, a request, the graph or a clock is an offer, a delivery
\* or a withdrawal of the abstract queue, or leaves it alone.
LEMMA StepRefines ==
  ASSUME TypeOK, [Next]_vars
  PROVE  [Abstract!Next]_Abstract!vars
<1>1. ASSUME NEW w \in Worker, ClaimRun(w) PROVE Abstract!Deliver(job[w]) /\ job[w] \in Run
  <2>1. job[w] \in Run /\ job[w] \in Queued
    BY <1>1 DEF ClaimRun, Claimable, Queued, Busy, TypeOK
  <2>2. Queued' = Queued \ {job[w]}
    BY <1>1, <2>1 DEF ClaimRun, Queued, QUEUED, TypeOK
  <2> QED
    BY <1>1, <2>1, <2>2 DEF ClaimRun, Abstract!Deliver, history
<1>2. ASSUME NEW r \in Run, CreateRun(r) PROVE Abstract!Offer(r)
  <2>1. Queued' = Queued \cup {r}
    BY <1>2 DEF CreateRun, Queued, TypeOK
  <2> QED
    BY <1>2, <2>1 DEF CreateRun, Abstract!Offer
<1>3. ASSUME NEW c \in Client, EnqueueRun(c)
      PROVE  Abstract!Offer(req[c].run) /\ req[c].run \in Run
  <2>1. req[c].run \in Run
    BY <1>3 DEF EnqueueRun, TypeOK, Request
  <2>2. Queued' \in {Queued, Queued \cup {req[c].run}}
    BY <1>3, <2>1 DEF EnqueueRun, Queued, TypeOK
  <2> QED
    BY <1>3, <2>1, <2>2 DEF EnqueueRun, Abstract!Offer
<1>4. ASSUME UNCHANGED <<execution_attempts, offered>>, Queued' \subseteq Queued
      PROVE  Abstract!Withdraw
  BY <1>4 DEF Abstract!Withdraw
<1> QED
  BY <1>1, <1>2, <1>3, <1>4, QuietSteps DEF Abstract!Next

\* Recovery, lost leases, crashes, orphaned graph tasks and reviewers included, the
\* run queue is a work queue that delivers each offer at most once.
THEOREM QueueRefinesWorkQueue == Spec => Refines
<1>1. Spec => []TypeOK
  BY TypeCorrect
<1>2. Init => Abstract!Init
  BY InitRefines
<1>3. TypeOK /\ [Next]_vars => [Abstract!Next]_Abstract!vars
  BY StepRefines
<1> QED
  BY <1>1, <1>2, <1>3, PTL DEF Spec, Refines, Abstract!Spec
=============================================================================
