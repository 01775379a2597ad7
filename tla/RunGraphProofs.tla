--------------------------- MODULE RunGraphProofs ---------------------------
(***************************************************************************)
(* Proofs about the orchestration graph of one run, for every number of     *)
(* passes, reviewers, tasks, retries, faults, crashes and deletions: types, *)
(* and the records of a run: what is verified is so on the record, and      *)
(* every call of a tool has an attempt of its own.                          *)
(***************************************************************************)
EXTENDS RunGraph, FiniteSetTheorems, SequenceTheorems, TLAPS

USE NoneIsNoPass, SizesAreNat

-----------------------------------------------------------------------------
(* The inductive invariant behind the types.                                *)

\* The nodes that work on a task, and those that do so after its attempt began.
Attempting == {"tool", "verify", "check", "judge", "decide", "escalate", "escalating", "escalated"}
AtTask == Attempting \cup {"execute", "attempt"}

\* A node that works on a task has one, and the attempt it began.
HasTask(p) ==
  /\ pass[p].node \in AtTask => pass[p].current \in Index
  /\ pass[p].node \in Attempting => pass[p].attempt \in Nat

\* A request that has read an escalation can find its row, deleted or not.
HasRow(c) ==
  req[c].pc \in {"deciding", "decided"} => req[c].escalation \in DOMAIN escalations

IInv ==
  /\ TypeOK
  /\ \A p \in Pass : HasTask(p)
  /\ \A c \in Reviewer : HasRow(c)

-----------------------------------------------------------------------------
(* What the helpers do to the types.                                        *)

\* There is a first task.
LEMMA ZeroIsIndex == 0 \in Index /\ Index \subseteq Nat /\ None \notin Index
  BY DEF Index

\* A task that was never planned is a task.
LEMMA NoTaskRowType ==
  /\ [status |-> NoRow, retry_count |-> 0] \in Task
  /\ NoTask \in Task
  /\ Unplanned \in [Index -> Task]
  BY DEF NoTask, Task, Unplanned

\* An idle pass is a pass.
LEMMA IdlePassType == IdlePass \in PassState
  BY NoTaskRowType DEF IdlePass, PassState, RunStatus, ACTIVE_STATUSES, Verdict

\* An idle request is a request.
LEMMA IdleRequestType == IdleRequest \in Request
  BY NoTaskRowType DEF IdleRequest, Request, Decision, RunStatus

\* The tasks a session sees are tasks.
LEMMA SeenType ==
  ASSUME TypeOK, NEW p \in Pass
  PROVE  Seen(p) \in [Index -> Task]
  BY DEF TypeOK, Seen, PassState

\* A status a session sends, or not, is a status.
LEMMA SendRunType ==
  ASSUME TypeOK, NEW p \in Pass, NEW s \in RunStatus, SendRun(p, s)
  PROVE  status' \in RunStatus
  BY DEF TypeOK, SendRun, Sent

\* A task a session sends, or parts of it, is a task.
LEMMA SendTaskType ==
  ASSUME TypeOK, NEW p \in Pass, NEW i \in Index, NEW new \in Task, SendTask(p, i, new)
  PROVE  task' \in [Index -> Task]
  BY DEF TypeOK, SendTask, Sent, Task

\* A step of one pass leaves the other passes where they are.
LEMMA BecomeType ==
  ASSUME TypeOK, \A q \in Pass : HasTask(q), NEW p \in Pass, NEW next \in PassState,
         next.node \in AtTask => next.current \in Index,
         next.node \in Attempting => next.attempt \in Nat,
         Become(p, next)
  PROVE  pass' \in [Pass -> PassState] /\ \A q \in Pass : HasTask(q)'
  BY DEF TypeOK, Become, HasTask

\* The pass is over, in whatever way.
LEMMA OverType ==
  ASSUME TypeOK, \A q \in Pass : HasTask(q), NEW p \in Pass,
         \/ Become(p, IdlePass) \/ Over(p, "failing") \/ Over(p, "finished")
  PROVE  pass' \in [Pass -> PassState] /\ \A q \in Pass : HasTask(q)'
<1> DEFINE Ended(node) == [IdlePass EXCEPT !.node = node]
<1>1. /\ IdlePass.node = "idle"
      /\ Ended("failing").node = "failing" /\ Ended("finished").node = "finished"
  BY DEF IdlePass
<1>2. Ended("failing") \in PassState /\ Ended("finished") \in PassState
  BY IdlePassType DEF PassState, Node
<1> QED
  BY <1>1, <1>2, IdlePassType, BecomeType DEF Over, AtTask, Attempting

\* What a node knows after its commit.
LEMMA CommittedType ==
  ASSUME TypeOK, NEW p \in Pass, NEW s \in RunStatus, NEW i \in Index, NEW new \in Task
  PROVE  /\ Committed(p, s, i, new) \in PassState
         /\ Committed(p, s, i, new).current = pass[p].current
         /\ Committed(p, s, i, new).attempt = pass[p].attempt
<1>1. pass[p] \in PassState
  BY DEF TypeOK
<1>2. [Seen(p) EXCEPT ![i] = new] \in [Index -> Task]
  BY SeenType
<1> QED
  BY <1>1, <1>2 DEF Committed, PassState

\* A pass without a task.
LEMMA WithoutType ==
  ASSUME TypeOK, NEW p \in Pass, NEW node \in Node
  PROVE  Without(p, node) \in PassState /\ Without(p, node).node = node
<1>1. pass[p] \in PassState
  BY DEF TypeOK
<1>2. IdlePass.verdict \in Verdict
  BY DEF IdlePass, Verdict
<1> QED
  BY <1>1, <1>2 DEF Without, PassState

\* A row of the review queue.
LEMMA EscalationType ==
  ASSUME TypeOK, NEW e \in DOMAIN escalations
  PROVE  e \in Nat /\ escalations[e] \in Escalation /\ escalations[e].task \in Index
<1>1. e \in 1 .. Len(escalations) /\ Len(escalations) \in Nat
  BY LenProperties DEF TypeOK
<1>2. escalations[e] \in Escalation
  BY <1>1, ElementOfSeq DEF TypeOK
<1> QED
  BY <1>1, <1>2 DEF Escalation

\* A new row of the review queue.
LEMMA NewEscalationType ==
  ASSUME TypeOK, NEW i \in Index, escalations' = Append(escalations, NewEscalation(i))
  PROVE  /\ escalations' \in Seq(Escalation)
         /\ Len(escalations') = Len(escalations) + 1
         /\ DOMAIN escalations \subseteq DOMAIN escalations'
         /\ \A e \in DOMAIN escalations : escalations'[e] = escalations[e]
         /\ escalations'[Len(escalations')] = NewEscalation(i)
<1>1. NewEscalation(i) \in Escalation
  BY DEF NewEscalation, Escalation
<1> QED
  BY <1>1, AppendProperties, LenProperties DEF TypeOK

-----------------------------------------------------------------------------
(* Each action keeps the invariant.                                         *)

\* Rows of the review queue stay where they are.
LEMMA RowsStay ==
  ASSUME IInv, req' = req, DOMAIN escalations \subseteq DOMAIN escalations'
  PROVE  \A c \in Reviewer : HasRow(c)'
  BY DEF IInv, HasRow

\* Every status a node writes is one the constraints allow.
LEMMA StatusTypes ==
  /\ {"planning", "executing", "verifying", "failed", "needs_review", "queued"} \subseteq RunStatus
  /\ {"pending", "executing", "claimed", "verified", "failed", "escalated"} \subseteq TaskStatus
  BY DEF RunStatus, ACTIVE_STATUSES, TaskStatus

\* What a worker does outside the graph leaves the rows of the tasks alone.
LEMMA WorkerFrame ==
  ASSUME NEW p \in Pass, WorkerStep(p) \/ DetectHeld(p) \/ Abandon(p) \/ Crash(p)
  PROVE  UNCHANGED <<task, attempts, escalations, ledger, req, calls, sent_back, enqueues,
                     faults, deletes>>
  BY DEF WorkerStep, Claim, Complete, DetectStuck, DetectHeld, Detect, MarkStuck, ReadFailedRun,
     RecordFailure, Abandon, Crash, database, history, bounds

\* Outside the graph a worker writes a claim, or that the run failed.
LEMMA WorkerStatus ==
  ASSUME NEW p \in Pass, WorkerStep(p) \/ DetectHeld(p) \/ Abandon(p) \/ Crash(p), ~Claim(p)
  PROVE  status' = status \/ (status' = "failed" /\ (MarkStuck(p) \/ RecordFailure(p)))
  BY DEF WorkerStep, Complete, DetectStuck, DetectHeld, Detect, MarkStuck, ReadFailedRun,
     RecordFailure, Abandon, Crash, SendRun, Sent, database

\* A worker that is not at a node of the graph has no session and no task.
Outside(next) ==
  /\ next \in PassState
  /\ next.node \in {"idle", "recovering", "recording"}
  /\ ~next.cached /\ next.current = None /\ next.attempt = None

\* Wherever a worker comes to outside the graph, it is at none of its nodes.
LEMMA Aside ==
  ASSUME TypeOK, NEW p \in Pass,
         WorkerStep(p) \/ DetectHeld(p) \/ Abandon(p) \/ Crash(p), ~Claim(p)
  PROVE  \E next : Become(p, next) /\ Outside(next)
<1> DEFINE detecting == [IdlePass EXCEPT !.node = "recovering", !.leased = (owner # None)]
           reading == [IdlePass EXCEPT !.node = "recording", !.run = status]
<1>1. Outside(IdlePass)
  BY IdlePassType DEF Outside, IdlePass
<1>2. Outside(detecting)
  BY IdlePassType DEF Outside, IdlePass, PassState
<1>3. Outside(reading)
  BY IdlePassType DEF Outside, IdlePass, PassState, TypeOK
<1>4. Become(p, IdlePass) \/ Become(p, detecting) \/ Become(p, reading)
  BY DEF WorkerStep, Complete, DetectStuck, DetectHeld, Detect, MarkStuck, ReadFailedRun,
     RecordFailure, Abandon, Crash
<1> QED
  BY <1>1, <1>2, <1>3, <1>4

\* Claiming a run, recovering it, and ending a pass.
LEMMA WorkerKeeps ==
  ASSUME IInv, NEW p \in Pass, WorkerStep(p) \/ DetectHeld(p) \/ Abandon(p) \/ Crash(p)
  PROVE  IInv'
<1> USE DEF database, history, bounds
<1>1. CASE Claim(p)
  <2> DEFINE next == [IdlePass EXCEPT !.node = "load"]
  <2>1. next \in PassState /\ next.node = "load"
    BY IdlePassType DEF PassState, Node, IdlePass
  <2>2. pass' \in [Pass -> PassState] /\ \A q \in Pass : HasTask(q)'
    BY <1>1, <2>1, BecomeType DEF Claim, IInv, AtTask, Attempting
  <2> QED
    BY <1>1, <2>2, RowsStay, StatusTypes DEF Claim, IInv, TypeOK
<1>2. CASE ~Claim(p)
  <2>1. PICK next : Become(p, next) /\ Outside(next)
    BY <1>2, Aside DEF IInv
  <2>2. pass' \in [Pass -> PassState] /\ \A q \in Pass : HasTask(q)'
    BY <2>1, BecomeType DEF IInv, Outside, AtTask, Attempting
  <2>3. torn' \subseteq Index
    <3>1. TornBy(p) \subseteq Index
      BY DEF TornBy, IInv, TypeOK, HasTask, AtTask, Attempting
    <3> QED
      BY <1>2, <3>1 DEF WorkerStep, Complete, DetectStuck, DetectHeld, Detect, MarkStuck,
         ReadFailedRun, RecordFailure, Abandon, Crash, IInv, TypeOK
  <2>4. status' \in RunStatus /\ owner' \in Pass \cup {None}
    <3>1. status' = status \/ status' = "failed" \/ SendRun(p, "failed")
      BY <1>2 DEF WorkerStep, Complete, DetectStuck, DetectHeld, Detect, MarkStuck, ReadFailedRun,
         RecordFailure, Abandon, Crash
    <3>2. owner' \in {owner, None}
      BY <1>2 DEF WorkerStep, Complete, DetectStuck, DetectHeld, Detect, MarkStuck, ReadFailedRun,
         RecordFailure, Abandon, Crash
    <3>3. status \in RunStatus /\ owner \in Pass \cup {None}
      BY DEF IInv, TypeOK
    <3> QED
      BY <3>1, <3>2, <3>3, SendRunType, StatusTypes DEF IInv
  <2>5. crashes' \in 0 .. MaxCrashes /\ expiries' \in 0 .. MaxExpiries
    <3>1. \/ crashes' = crashes
          \/ crashes < MaxCrashes /\ crashes' = crashes + 1
      BY <1>2 DEF WorkerStep, Complete, DetectStuck, DetectHeld, Detect, MarkStuck, ReadFailedRun,
         RecordFailure, Abandon, Crash
    <3>2. \/ expiries' = expiries
          \/ expiries < MaxExpiries /\ expiries' = expiries + 1
      BY <1>2 DEF WorkerStep, Complete, DetectStuck, DetectHeld, Detect, MarkStuck, ReadFailedRun,
         RecordFailure, Abandon, Crash
    <3>3. crashes \in 0 .. MaxCrashes /\ expiries \in 0 .. MaxExpiries
      BY DEF IInv, TypeOK
    <3> QED
      BY <3>1, <3>2, <3>3, SizesAreNat
  <2> QED
    BY <2>2, <2>3, <2>4, <2>5, WorkerFrame, RowsStay DEF IInv, TypeOK
<1> QED
  BY <1>1, <1>2

\* The nodes before the first task.
LEMMA PlanningKeeps ==
  ASSUME IInv, NEW p \in Pass,
         Load(p) \/ Plan(p) \/ KeepTasks(p) \/ CreateTasks(p) \/ FailPlanning(p)
  PROVE  IInv'
<1> USE DEF database, history, bounds
<1>0. pass[p] \in PassState
  BY DEF IInv, TypeOK
<1>n. ASSUME NEW next \in PassState, next.node \notin AtTask, Become(p, next)
      PROVE  pass' \in [Pass -> PassState] /\ \A q \in Pass : HasTask(q)'
  BY <1>n, BecomeType DEF IInv, AtTask
<1>1. CASE Load(p)
  <2> DEFINE next == [pass[p] EXCEPT !.node = "plan", !.run = status,
                                     !.planned = Planned(task) # {}]
  <2>1. next \in PassState /\ next.node \notin AtTask
    BY <1>0 DEF IInv, TypeOK, PassState, Node, AtTask, Attempting
  <2> QED
    BY <1>1, <2>1, <1>n, RowsStay DEF Load, IInv, TypeOK
<1>2. CASE Plan(p)
  <2> DEFINE next == [pass[p] EXCEPT !.node = "planner", !.run = status']
  <2>1. status' \in RunStatus
    BY <1>2, SendRunType, StatusTypes DEF Plan, IInv
  <2>2. next \in PassState /\ next.node \notin AtTask
    BY <1>0, <2>1 DEF PassState, Node, AtTask, Attempting
  <2> QED
    BY <1>2, <2>1, <2>2, <1>n, RowsStay DEF Plan, IInv, TypeOK
<1>a. [pass[p] EXCEPT !.node = "pick_task", !.planned = FALSE] \in PassState
  BY <1>0 DEF PassState, Node
<1>b. [pass[p] EXCEPT !.node = "pick_task", !.planned = FALSE].node \notin AtTask
  BY <1>0 DEF PassState, AtTask, Attempting
<1>3. CASE KeepTasks(p)
  BY <1>3, <1>a, <1>b, <1>n, RowsStay DEF KeepTasks, IInv, TypeOK
<1>4. CASE CreateTasks(p)
  <2>1. [status |-> "pending", retry_count |-> 0] \in Task
    BY StatusTypes DEF Task
  <2>2. task' \in [Index -> Task]
    BY <1>4, <2>1 DEF CreateTasks, IInv, TypeOK
  <2> QED
    BY <1>4, <2>2, <1>a, <1>b, <1>n, RowsStay DEF CreateTasks, IInv, TypeOK
<1>5. CASE FailPlanning(p)
  <2> DEFINE next == [pass[p] EXCEPT !.node = "finish", !.run = "needs_review"]
  <2>1. PICK i \in Index : /\ task' = [task EXCEPT ![i] = [status |-> "escalated", retry_count |-> 0]]
                           /\ escalations' = Append(escalations, NewEscalation(i))
    BY <1>5 DEF FailPlanning
  <2>2. [status |-> "escalated", retry_count |-> 0] \in Task
    BY StatusTypes DEF Task
  <2>3. task' \in [Index -> Task]
    BY <2>1, <2>2 DEF IInv, TypeOK
  <2>4. escalations' \in Seq(Escalation) /\ DOMAIN escalations \subseteq DOMAIN escalations'
    BY <2>1, NewEscalationType DEF IInv
  <2>5. status' \in RunStatus
    BY <1>5, SendRunType, StatusTypes DEF FailPlanning, IInv
  <2>6. next \in PassState /\ next.node \notin AtTask
    BY <1>0, StatusTypes DEF PassState, Node, AtTask, Attempting
  <2> QED
    BY <1>5, <2>3, <2>4, <2>5, <2>6, <1>n, RowsStay DEF FailPlanning, IInv, TypeOK
<1> QED
  BY <1>1, <1>2, <1>3, <1>4, <1>5

\* A node that commits the statuses of the run and of its task.
LEMMA CommitStatusesKeeps ==
  ASSUME IInv, NEW p \in Pass, NEW from \in AtTask, NEW to \in AtTask,
         NEW s \in RunStatus, NEW t \in TaskStatus, to \in Attempting => from \in Attempting,
         CommitStatuses(p, from, to, s, t)
  PROVE  IInv'
<1> DEFINE i == pass[p].current
           new == [Seen(p)[i] EXCEPT !.status = t]
           next == [Committed(p, s, i, new) EXCEPT !.node = to]
<1>1. i \in Index /\ (from \in Attempting => pass[p].attempt \in Nat)
  BY DEF IInv, HasTask, CommitStatuses, At
<1>2. new \in Task
  BY <1>1, SeenType DEF IInv, Task
<1>3. /\ Committed(p, s, i, new) \in PassState
      /\ Committed(p, s, i, new).current = i
      /\ Committed(p, s, i, new).attempt = pass[p].attempt
  BY <1>1, <1>2, CommittedType DEF IInv
<1>4. to \in Node
  BY DEF AtTask, Attempting, Node
<1>5. next \in PassState /\ next.node = to /\ next.current = i /\ next.attempt = pass[p].attempt
  <2> HIDE DEF i, new
  <2> QED BY <1>3, <1>4 DEF PassState
<1>6. Become(p, next) /\ SendTask(p, i, new) /\ SendRun(p, s)
  BY DEF CommitStatuses
<1>7. pass' \in [Pass -> PassState] /\ \A q \in Pass : HasTask(q)'
  <2> HIDE DEF next
  <2> QED BY <1>1, <1>5, <1>6, BecomeType DEF IInv
<1>8. task' \in [Index -> Task]
  <2> HIDE DEF i, new
  <2> QED BY <1>1, <1>2, <1>6, SendTaskType DEF IInv
<1>9. status' \in RunStatus
  BY <1>6, SendRunType DEF IInv
<1> QED
  BY <1>7, <1>8, <1>9, RowsStay DEF CommitStatuses, IInv, TypeOK, history, bounds

\* A ledger entry of a task and an attempt.
LEMMA RecordType ==
  ASSUME IInv, NEW p \in Pass, pass[p].node \in Attempting, NEW v \in BOOLEAN, Record(p, v)
  PROVE  ledger' \subseteq Entry
  BY DEF IInv, HasTask, AtTask, Record, TypeOK, Entry

\* The attempt, the call, the verification and the judge.
LEMMA AttemptKeeps ==
  ASSUME IInv, NEW p \in Pass,
         \/ Execute(p) \/ StartAttempt(p) \/ AttemptConflict(p) \/ CallTool(p)
         \/ Verify(p) \/ Check(p) \/ Judge(p)
  PROVE  IInv'
<1> USE DEF database, history, bounds
<1>0. pass[p] \in PassState /\ HasTask(p) /\ Seen(p) \in [Index -> Task]
  BY SeenType DEF IInv, TypeOK
<1>n. ASSUME NEW next \in PassState, next.node \in AtTask => next.current \in Index,
             next.node \in Attempting => next.attempt \in Nat, Become(p, next)
      PROVE  pass' \in [Pass -> PassState] /\ \A q \in Pass : HasTask(q)'
  BY <1>n, BecomeType DEF IInv
<1>1. CASE Execute(p)
  BY <1>1, CommitStatusesKeeps, StatusTypes DEF Execute, AtTask, Attempting
<1>2. CASE StartAttempt(p)
  <2> DEFINE a == Seen(p)[pass[p].current].retry_count
             next == [pass[p] EXCEPT !.node = "tool", !.attempt = a]
  <2>1. pass[p].current \in Index
    BY <1>0, <1>2 DEF StartAttempt, At, HasTask, AtTask, Attempting
  <2>2. a \in Nat
    BY <1>0, <2>1 DEF Task
  <2>3. next \in PassState /\ next.current = pass[p].current /\ next.attempt = a
    BY <1>0, <2>2 DEF PassState, Node
  <2>4. Become(p, next) /\ attempts' = attempts \cup {<<pass[p].current, a>>}
    BY <1>2 DEF StartAttempt
  <2>5. attempts' \subseteq Index \X Nat
    BY <2>1, <2>2, <2>4 DEF IInv, TypeOK
  <2>6. pass' \in [Pass -> PassState] /\ \A q \in Pass : HasTask(q)'
    <3> HIDE DEF next
    <3> QED BY <2>1, <2>2, <2>3, <2>4, <1>n
  <2> QED
    BY <1>2, <2>5, <2>6, RowsStay DEF StartAttempt, IInv, TypeOK
<1>3. CASE AttemptConflict(p)
  BY <1>3, OverType, RowsStay DEF AttemptConflict, IInv, TypeOK
<1>4. CASE CallTool(p)
  <2> DEFINE i == pass[p].current
             next == [pass[p] EXCEPT !.node = "verify", !.task[i] = task[i]]
  <2>1. i \in Index /\ pass[p].attempt \in Nat
    BY <1>0, <1>4 DEF CallTool, At, HasTask, AtTask, Attempting
  <2>2. [pass[p].task EXCEPT ![i] = task[i]] \in [Index -> Task]
    BY <1>0, <2>1 DEF IInv, TypeOK, PassState
  <2>3. next \in PassState /\ next.current = i /\ next.attempt = pass[p].attempt
    BY <1>0, <2>2 DEF PassState, Node
  <2>4. Become(p, next)
    BY <1>4 DEF CallTool
  <2>5. pass' \in [Pass -> PassState] /\ \A q \in Pass : HasTask(q)'
    <3> HIDE DEF next
    <3> QED BY <2>1, <2>3, <2>4, <1>n
  <2>6. calls' \in [Index -> Nat] /\ sent_back' \subseteq Index
    <3> HIDE DEF next
    <3>1. calls' = [calls EXCEPT ![i] = @ + 1] /\ sent_back' = sent_back \ {i}
      BY <1>4 DEF CallTool
    <3>2. calls \in [Index -> Nat] /\ sent_back \subseteq Index
      BY DEF IInv, TypeOK
    <3> HIDE DEF i
    <3> QED
      BY <2>1, <3>1, <3>2
  <2> QED
    BY <1>4, <2>5, <2>6, RowsStay DEF CallTool, IInv, TypeOK
<1>5. CASE Verify(p)
  BY <1>5, CommitStatusesKeeps, StatusTypes DEF Verify, AtTask, Attempting
<1>v. ASSUME NEW v \in Verdict, pass[p].node \in Attempting,
             Become(p, [pass[p] EXCEPT !.node = "decide", !.verdict = v])
      PROVE  pass' \in [Pass -> PassState] /\ \A q \in Pass : HasTask(q)'
  <2> DEFINE next == [pass[p] EXCEPT !.node = "decide", !.verdict = v]
  <2>1. next \in PassState /\ next.current = pass[p].current /\ next.attempt = pass[p].attempt
    BY <1>0 DEF PassState, Node
  <2> HIDE DEF next
  <2> QED
    BY <1>0, <1>v, <2>1, <1>n DEF next, HasTask, AtTask
<1>6. CASE Check(p)
  <2> DEFINE next == [pass[p] EXCEPT !.node = "judge"]
  <2>1. next \in PassState /\ next.current = pass[p].current /\ next.attempt = pass[p].attempt
    BY <1>0 DEF PassState, Node
  <2>2. pass[p].node \in Attempting
    BY <1>6 DEF Check, At, Attempting
  <2>3. ASSUME Become(p, next) PROVE pass' \in [Pass -> PassState] /\ \A q \in Pass : HasTask(q)'
    <3> HIDE DEF next
    <3> QED BY <1>0, <2>1, <2>2, <2>3, <1>n DEF HasTask, AtTask
  <2>4. ledger' \subseteq Entry
    BY <1>6, <2>2, RecordType DEF Check
  <2>5. pass' \in [Pass -> PassState] /\ \A q \in Pass : HasTask(q)'
    BY <1>6, <1>v, <2>2, <2>3 DEF Check
  <2> QED
    BY <1>6, <2>4, <2>5, RowsStay DEF Check, IInv, TypeOK
<1>7. CASE Judge(p)
  <2>1. pass[p].node \in Attempting
    BY <1>7 DEF Judge, At, Attempting
  <2>2. ledger' \subseteq Entry
    BY <1>7, <2>1, RecordType DEF Judge
  <2>3. pass' \in [Pass -> PassState] /\ \A q \in Pass : HasTask(q)'
    BY <1>7, <1>v, <2>1 DEF Judge
  <2> QED
    BY <1>7, <2>2, <2>3, RowsStay DEF Judge, IInv, TypeOK
<1> QED
  BY <1>1, <1>2, <1>3, <1>4, <1>5, <1>6, <1>7

\* The decision.
LEMMA DecideKeeps ==
  ASSUME IInv, NEW p \in Pass, DecideVerified(p) \/ DecideRetry(p) \/ DecideEscalate(p)
  PROVE  IInv'
<1>0. pass[p] \in PassState /\ HasTask(p) /\ Seen(p) \in [Index -> Task]
  BY SeenType DEF IInv, TypeOK
<1>1. pass[p].current \in Index /\ pass[p].attempt \in Nat
  BY <1>0 DEF DecideVerified, DecideRetry, DecideEscalate, Decide, At, HasTask, AtTask, Attempting
<1>2. ASSUME NEW new \in Task, NEW to \in Node, Decide(p, new, to) PROVE IInv'
  <2> DEFINE i == pass[p].current
             done == Committed(p, pass[p].run, i, new)
             next == [done EXCEPT !.node = to, !.retry_count = new.retry_count,
                                  !.verdict = IdlePass.verdict]
  <2>1. done \in PassState /\ done.current = i /\ done.attempt = pass[p].attempt
    <3>1. pass[p].run \in RunStatus
      BY <1>0 DEF PassState
    <3> QED
      BY <1>1, <3>1, CommittedType DEF IInv
  <2>2. IdlePass.verdict \in Verdict /\ new.retry_count \in Nat
    BY DEF IdlePass, Verdict, Task
  <2>3. next \in PassState /\ next.current = i /\ next.attempt = pass[p].attempt
    <3> HIDE DEF done
    <3> QED BY <2>1, <2>2 DEF PassState
  <2>4. Become(p, next) /\ SendTask(p, i, new)
    BY <1>2 DEF Decide
  <2>5. pass' \in [Pass -> PassState] /\ \A q \in Pass : HasTask(q)'
    <3> HIDE DEF next
    <3> QED BY <1>1, <2>3, <2>4, BecomeType DEF IInv
  <2>6. task' \in [Index -> Task]
    BY <1>1, <2>4, SendTaskType DEF IInv
  <2> QED
    BY <1>2, <2>5, <2>6, RowsStay DEF Decide, IInv, TypeOK, history, bounds
<1> DEFINE old == Seen(p)[pass[p].current]
<1>3. /\ [old EXCEPT !.status = "verified"] \in Task
      /\ [old EXCEPT !.status = "failed"] \in Task
      /\ [old EXCEPT !.status = "pending", !.retry_count = @ + 1] \in Task
  <2>1. old \in Task
    BY <1>0, <1>1
  <2> HIDE DEF old
  <2>2. old.retry_count + 1 \in Nat
    BY <2>1 DEF Task
  <2>3. [old EXCEPT !.status = "verified"] \in Task /\ [old EXCEPT !.status = "failed"] \in Task
    BY <2>1, StatusTypes DEF Task
  <2>4. [old EXCEPT !.status = "pending", !.retry_count = @ + 1] \in Task
    BY <2>1, <2>2, StatusTypes DEF Task
  <2> QED
    BY <2>3, <2>4
<1> QED
  BY <1>2, <1>3 DEF DecideVerified, DecideRetry, DecideEscalate, Node

\* Picking a task, escalating it, and the end.
LEMMA RestKeeps ==
  ASSUME IInv, NEW p \in Pass,
         \/ PickTask(p) \/ Escalate(p) \/ CreateEscalation(p) \/ RecordEscalation(p)
         \/ Finish(p) \/ TaskGone(p) \/ SkipEscalation(p)
  PROVE  IInv'
<1> USE DEF database, history, bounds
<1>0. pass[p] \in PassState /\ HasTask(p) /\ Seen(p) \in [Index -> Task]
  BY SeenType DEF IInv, TypeOK
<1>w. /\ Without(p, "finish") \in PassState /\ Without(p, "finish").node = "finish"
      /\ Without(p, "execute") \in PassState
  BY WithoutType DEF IInv, Node
<1>f. ASSUME Become(p, Without(p, "finish"))
      PROVE  pass' \in [Pass -> PassState] /\ \A q \in Pass : HasTask(q)'
  BY <1>f, <1>w, BecomeType DEF IInv, AtTask, Attempting
<1>1. CASE PickTask(p)
  <2>1. CASE Become(p, Without(p, "finish"))
    BY <1>1, <1>f, <2>1, RowsStay DEF PickTask, IInv, TypeOK
  <2>2. ASSUME NEW i \in Pending(p),
               Become(p, [Without(p, "execute") EXCEPT !.current = i,
                                                       !.retry_count = Seen(p)[i].retry_count])
        PROVE  IInv'
    <3> DEFINE start == Without(p, "execute")
               next == [start EXCEPT !.current = i, !.retry_count = Seen(p)[i].retry_count]
    <3>1. i \in Index /\ Seen(p)[i].retry_count \in Nat
      BY <1>0 DEF Pending, Task
    <3>2. start \in PassState /\ start.node = "execute"
      BY WithoutType DEF IInv, Node
    <3>3. next \in PassState /\ next.node = "execute" /\ next.current = i
      <4> HIDE DEF start
      <4> QED BY <3>1, <3>2 DEF PassState
    <3>4. pass' \in [Pass -> PassState] /\ \A q \in Pass : HasTask(q)'
      <4>1. Become(p, next)
        BY <2>2
      <4> HIDE DEF next
      <4> QED BY <3>1, <3>3, <4>1, BecomeType DEF IInv, Attempting
    <3> QED
      BY <1>1, <3>4, RowsStay DEF PickTask, IInv, TypeOK
  <2> QED
    BY <1>1, <2>1, <2>2 DEF PickTask
<1>2. CASE Escalate(p)
  BY <1>2, CommitStatusesKeeps, StatusTypes DEF Escalate, AtTask, Attempting
<1>3. CASE CreateEscalation(p)
  <2> DEFINE next == [pass[p] EXCEPT !.node = "escalated"]
  <2>1. pass[p].current \in Index /\ pass[p].attempt \in Nat
    BY <1>0, <1>3 DEF CreateEscalation, At, HasTask, AtTask, Attempting
  <2>2. next \in PassState /\ next.current = pass[p].current /\ next.attempt = pass[p].attempt
    BY <1>0 DEF PassState, Node
  <2>3. escalations' \in Seq(Escalation) /\ DOMAIN escalations \subseteq DOMAIN escalations'
    BY <1>3, <2>1, NewEscalationType DEF CreateEscalation, IInv
  <2>4. Become(p, next)
    BY <1>3 DEF CreateEscalation
  <2>5. pass' \in [Pass -> PassState] /\ \A q \in Pass : HasTask(q)'
    <3> HIDE DEF next
    <3> QED BY <2>1, <2>2, <2>4, BecomeType DEF IInv
  <2> QED
    BY <1>3, <2>3, <2>5, RowsStay DEF CreateEscalation, IInv, TypeOK
<1>4. CASE RecordEscalation(p)
  <2>1. ledger' \subseteq Entry
    BY <1>4, RecordType DEF RecordEscalation, At, Attempting
  <2> QED
    BY <1>4, <1>f, <2>1, RowsStay DEF RecordEscalation, IInv, TypeOK
<1>5. CASE Finish(p)
  <2>1. FinalStatus(Seen(p)) \in RunStatus
    BY StatusTypes DEF FinalStatus, RunStatus
  <2>2. status' \in RunStatus
    BY <1>5, <2>1, SendRunType DEF Finish, IInv
  <2> QED
    BY <1>5, <2>2, OverType, RowsStay DEF Finish, IInv, TypeOK
<1>6. CASE TaskGone(p)
  <2>1. status' \in RunStatus
    BY <1>6, SendRunType, StatusTypes DEF TaskGone, IInv, TypeOK
  <2>2. calls' \in [Index -> Nat]
    BY <1>0, <1>6 DEF TaskGone, IInv, TypeOK, HasTask, AtTask, Attempting
  <2> QED
    BY <1>6, <2>1, <2>2, OverType, RowsStay DEF TaskGone, IInv, TypeOK
<1>7. CASE SkipEscalation(p)
  BY <1>7, <1>f, RowsStay DEF SkipEscalation, IInv, TypeOK
<1> QED
  BY <1>1, <1>2, <1>3, <1>4, <1>5, <1>6, <1>7

\* A pass has a task to escalate wherever it raises, or none.
LEMMA RaiseKeeps ==
  ASSUME IInv, NEW p \in Pass, Raise(p)
  PROVE  IInv'
<1> DEFINE i == pass[p].current
           new == FailedTask(Seen(p)[i])
<1>0. pass[p] \in PassState /\ HasTask(p) /\ Seen(p) \in [Index -> Task]
  BY SeenType DEF IInv, TypeOK
<1>1. pass' \in [Pass -> PassState] /\ \A q \in Pass : HasTask(q)'
  BY OverType DEF Raise, IInv
<1>2. ASSUME PersistFailure(p)
      PROVE  /\ status' \in RunStatus
             /\ task' \in [Index -> Task]
             /\ attempts' \subseteq Index \X Nat
             /\ escalations' \in Seq(Escalation)
             /\ DOMAIN escalations \subseteq DOMAIN escalations'
             /\ ledger' \subseteq Entry
  <2>1. status' \in RunStatus
    BY <1>2, SendRunType, StatusTypes DEF PersistFailure, PersistWith, IInv
  <2>2. CASE i = None \/ Gone(i)
    BY <1>2, <2>1, <2>2 DEF PersistFailure, PersistWith, IInv, TypeOK
  <2>3. CASE ~(i = None \/ Gone(i))
    <3> DEFINE a == IF pass[p].attempt = None THEN Seen(p)[i].retry_count ELSE pass[p].attempt
    <3>1. i \in Index
      BY <1>0, <2>3 DEF PassState
    <3>2. Seen(p)[i] \in Task
      BY <1>0, <3>1
    <3>3. a \in Nat
      BY <1>0, <3>2 DEF PassState, Task
    <3>4. new \in Task
      BY <3>2, StatusTypes DEF FailedTask, Task
    <3>5. /\ attempts' = attempts \cup {<<i, a>>}
          /\ SendTask(p, i, new)
          /\ escalations' \in {escalations, Append(escalations, NewEscalation(i))}
          /\ ledger' = ledger \cup {[task |-> i, attempt |-> a, verified |-> FALSE]}
      BY <1>2, <2>3 DEF PersistFailure, PersistWith
    <3>6. task' \in [Index -> Task]
      <4> HIDE DEF new, i
      <4> QED BY <3>1, <3>4, <3>5, SendTaskType DEF IInv
    <3>7. attempts' \subseteq Index \X Nat /\ ledger' \subseteq Entry
      <4>1. attempts \subseteq Index \X Nat /\ ledger \subseteq Entry
        BY DEF IInv, TypeOK
      <4>2. [task |-> i, attempt |-> a, verified |-> FALSE] \in Entry
        <5> HIDE DEF i, a
        <5> QED BY <3>1, <3>3 DEF Entry
      <4>3. <<i, a>> \in Index \X Nat
        BY <3>1, <3>3
      <4>4. /\ attempts' = attempts \cup {<<i, a>>}
            /\ ledger' = ledger \cup {[task |-> i, attempt |-> a, verified |-> FALSE]}
        BY <3>5
      <4> HIDE DEF i, a
      <4> QED BY <4>1, <4>2, <4>3, <4>4
    <3>8. escalations' \in Seq(Escalation) /\ DOMAIN escalations \subseteq DOMAIN escalations'
      BY <3>1, <3>5, NewEscalationType DEF IInv, TypeOK
    <3> QED
      BY <2>1, <3>6, <3>7, <3>8
  <2> QED
    BY <2>2, <2>3
<1>3. CASE PersistFailure(p) /\ UNCHANGED torn
  BY <1>1, <1>2, <1>3, RowsStay DEF Raise, IInv, TypeOK, history
<1>4. CASE torn' = TornBy(p) /\ UNCHANGED <<status, task, attempts, escalations, ledger>>
  <2>1. TornBy(p) \subseteq Index
    BY <1>0 DEF TornBy, IInv, TypeOK, HasTask, AtTask, Attempting
  <2> QED
    BY <1>1, <1>4, <2>1, RowsStay DEF Raise, IInv, TypeOK, history
<1> QED
  BY <1>3, <1>4 DEF Raise

-----------------------------------------------------------------------------
\* The status a decision leaves the run in.
LEMMA ReconciledType == ASSUME NEW tasks PROVE Reconciled(tasks) \in RunStatus
  BY DEF Reconciled, RunStatus, ACTIVE_STATUSES

\* A decision leaves a task.
LEMMA DecidedType ==
  ASSUME NEW t \in Task, NEW d \in Decision
  PROVE  Decided(t, d) \in Task
  BY StatusTypes DEF Decided, Decision, Task

\* A resolved escalation is an escalation.
LEMMA ResolvedType ==
  ASSUME NEW row \in Escalation, NEW d \in Decision
  PROVE  /\ Resolved(row, d) \in Escalation
         /\ Resolved(row, d).task = row.task
         /\ Resolved(row, d).decisions = Append(row.decisions, d)
         /\ Resolved(row, d).status \in {"approved", "rejected", "sent_back"}
<1>1. Append(row.decisions, d) \in Seq(Decision)
  BY AppendProperties DEF Escalation
<1>2. (CASE d = "approve" -> "approved" [] d = "reject" -> "rejected"
         [] d = "send_back" -> "sent_back") \in {"approved", "rejected", "sent_back"}
  BY DEF Decision
<1> QED
  BY <1>1, <1>2 DEF Resolved, Escalation

\* A request that becomes another leaves the other requests where they are.
LEMMA RequestType ==
  ASSUME IInv, NEW c \in Reviewer, NEW q \in Request,
         q.pc \in {"deciding", "decided"} => q.escalation \in DOMAIN escalations',
         DOMAIN escalations \subseteq DOMAIN escalations', req' = [req EXCEPT ![c] = q]
  PROVE  req' \in [Reviewer -> Request] /\ \A d \in Reviewer : HasRow(d)'
  BY DEF IInv, TypeOK, HasRow

\* The steps of a request.
LEMMA ReviewKeeps ==
  ASSUME IInv, NEW c \in Reviewer,
         \/ \E e \in DOMAIN escalations, d \in Decision : ReadEscalation(c, e, d)
         \/ ReviewStep(c) \/ LoseRequest(c)
  PROVE  IInv'
<1> USE DEF database, history, bounds
<1>0. req[c] \in Request
  BY DEF IInv, TypeOK
<1>i. ASSUME req' = [req EXCEPT ![c] = IdleRequest], DOMAIN escalations \subseteq DOMAIN escalations'
      PROVE  req' \in [Reviewer -> Request] /\ \A d \in Reviewer : HasRow(d)'
  <2>1. IdleRequest.pc = "idle"
    BY DEF IdleRequest
  <2> QED
    BY <1>i, <2>1, IdleRequestType, RequestType
<1>1. ASSUME NEW e \in DOMAIN escalations, NEW d \in Decision, ReadEscalation(c, e, d)
      PROVE  IInv'
  <2> DEFINE i == escalations[e].task
             target == Reconciled([task EXCEPT ![i] = Decided(@, d)])
             q == [IdleRequest EXCEPT !.pc = "deciding", !.escalation = e, !.decision = d,
                                      !.task = task[i], !.run = status, !.target = target]
  <2>1. e \in Nat /\ i \in Index
    BY EscalationType DEF IInv
  <2>2. target \in RunStatus
    BY ReconciledType
  <2>3. q \in Request /\ q.escalation = e
    <3> HIDE DEF i, target
    <3> QED BY <2>1, <2>2, IdleRequestType DEF Request, IInv, TypeOK
  <2>4. req' = [req EXCEPT ![c] = q]
    BY <1>1 DEF ReadEscalation
  <2>5. req' \in [Reviewer -> Request] /\ \A r \in Reviewer : HasRow(r)'
    <3>1. escalations' = escalations
      BY <1>1 DEF ReadEscalation
    <3> HIDE DEF q
    <3> QED BY <2>3, <2>4, <3>1, RequestType
  <2>6. enqueues' \in 0 .. MaxEnqueues
    <3>1. enqueues' = enqueues \/ (enqueues < MaxEnqueues /\ enqueues' = enqueues + 1)
      BY <1>1 DEF ReadEscalation
    <3> QED
      BY <3>1 DEF IInv, TypeOK
  <2> QED
    BY <1>1, <2>5, <2>6 DEF ReadEscalation, IInv, TypeOK, HasTask
<1>2. CASE CommitDecision(c)
  <2> DEFINE q == req[c]
             e == q.escalation
             i == escalations[e].task
             d == q.decision
             new == Decided(q.task, d)
             next == IF d = "send_back" THEN [IdleRequest EXCEPT !.pc = "decided", !.escalation = e]
                                        ELSE IdleRequest
             row == Resolved(escalations[e], d)
  <2>1. e \in DOMAIN escalations /\ d \in Decision /\ q.task \in Task /\ q.target \in RunStatus
    BY <1>0, <1>2 DEF CommitDecision, IInv, HasRow, Request
  <2>2. escalations[e] \in Escalation /\ e \in Nat /\ i \in Index
    BY <2>1, EscalationType DEF IInv
  <2>3. row \in Escalation
    BY <2>1, <2>2, ResolvedType
  <2>4. escalations' = [escalations EXCEPT ![e] = row]
    BY <1>2 DEF CommitDecision
  <2>5. escalations' \in Seq(Escalation) /\ DOMAIN escalations' = DOMAIN escalations
    <3> HIDE DEF row, e
    <3> QED BY <2>1, <2>3, <2>4, LenProperties, ExceptSeq DEF IInv, TypeOK
  <2>6. i \in Index /\ new \in Task
    BY <2>1, <2>2, DecidedType
  <2>7. task' \in [Index -> Task]
    <3>1. task' = [task EXCEPT ![i] =
                     [status |-> Sent(q.task.status, new.status, @.status),
                      retry_count |-> Sent(q.task.retry_count, new.retry_count, @.retry_count)]]
      BY <1>2 DEF CommitDecision
    <3> HIDE DEF q, i, new
    <3> QED BY <2>6, <3>1 DEF IInv, TypeOK, Task, Sent
  <2>8. status' \in RunStatus /\ sent_back' \subseteq Index
    BY <1>2, <2>1, <2>6 DEF CommitDecision, Sent, IInv, TypeOK
  <2>9. next \in Request /\ (next.pc \in {"deciding", "decided"} => next.escalation = e)
    BY <2>2, IdleRequestType DEF Request, IdleRequest
  <2>10. req' \in [Reviewer -> Request] /\ \A r \in Reviewer : HasRow(r)'
    <3>1. req' = [req EXCEPT ![c] = next]
      BY <1>2 DEF CommitDecision
    <3> HIDE DEF next, e
    <3> QED BY <2>1, <2>5, <2>9, <3>1, RequestType
  <2> QED
    BY <1>2, <2>5, <2>7, <2>8, <2>10 DEF CommitDecision, IInv, TypeOK, HasTask
<1>3. CASE LoadRun(c)
  <2> DEFINE q == [IdleRequest EXCEPT !.pc = "loaded", !.run = status, !.owner = owner]
  <2>1. q \in Request /\ q.pc = "loaded"
    BY IdleRequestType DEF Request, IInv, TypeOK
  <2>2. req' = [req EXCEPT ![c] = q] /\ escalations' = escalations
    BY <1>3 DEF LoadRun
  <2>3. req' \in [Reviewer -> Request] /\ \A r \in Reviewer : HasRow(r)'
    <3> HIDE DEF q
    <3> QED BY <2>1, <2>2, RequestType
  <2> QED
    BY <1>3, <2>3 DEF LoadRun, IInv, TypeOK, HasTask
<1>4. CASE EnqueueRun(c)
  <2>1. status' \in RunStatus /\ owner' \in Pass \cup {None}
    BY <1>4, StatusTypes DEF EnqueueRun, Sent, IInv, TypeOK
  <2> QED
    BY <1>4, <1>i, <2>1 DEF EnqueueRun, IInv, TypeOK, HasTask
<1>5. CASE EscalationGone(c)
  BY <1>5, <1>i DEF EscalationGone, IInv, TypeOK, HasTask
<1>6. CASE LoseRequest(c)
  BY <1>6, <1>i DEF LoseRequest, IInv, TypeOK, HasTask
<1> QED
  BY <1>1, <1>2, <1>3, <1>4, <1>5, <1>6 DEF ReviewStep

-----------------------------------------------------------------------------
\* A task is deleted under everybody.
LEMMA DeleteKeeps ==
  ASSUME IInv, NEW i \in Index, DeleteTask(i)
  PROVE  IInv'
<1> DEFINE Hidden(p) == IF pass[p].cached THEN [pass[p] EXCEPT !.task[i] = NoTask] ELSE pass[p]
           Mark(e) == IF escalations[e].task = i THEN [escalations[e] EXCEPT !.status = Deleted]
                                                 ELSE escalations[e]
<1>1. ASSUME NEW p \in Pass
      PROVE  /\ Hidden(p) \in PassState
             /\ Hidden(p).node = pass[p].node
             /\ Hidden(p).current = pass[p].current
             /\ Hidden(p).attempt = pass[p].attempt
  <2>1. pass[p] \in PassState
    BY DEF IInv, TypeOK
  <2>2. [pass[p].task EXCEPT ![i] = NoTask] \in [Index -> Task]
    BY <2>1, NoTaskRowType DEF PassState
  <2> QED
    BY <2>1, <2>2 DEF PassState
<1>2. pass' = [p \in Pass |-> Hidden(p)]
  BY DEF DeleteTask
<1>3. pass' \in [Pass -> PassState] /\ \A p \in Pass : HasTask(p)'
  <2> HIDE DEF Hidden
  <2> QED BY <1>1, <1>2 DEF IInv, HasTask
<1>4. escalations' = [e \in DOMAIN escalations |-> Mark(e)]
  BY DEF DeleteTask
<1>5. ASSUME NEW e \in DOMAIN escalations PROVE Mark(e) \in Escalation
  BY EscalationType DEF IInv, Escalation
<1>6. escalations' \in Seq(Escalation) /\ DOMAIN escalations' = DOMAIN escalations
  <2> HIDE DEF Mark
  <2>1. Len(escalations) \in Nat /\ DOMAIN escalations = 1 .. Len(escalations)
    BY LenProperties DEF IInv, TypeOK
  <2>2. escalations' \in [1 .. Len(escalations) -> Escalation]
    BY <1>4, <1>5, <2>1
  <2> QED
    BY <1>4, <2>1, <2>2, SeqDef
<1>7. task' \in [Index -> Task]
  BY NoTaskRowType DEF DeleteTask, IInv, TypeOK
<1>8. deletes' \in 0 .. MaxDeletes
  BY DEF DeleteTask, IInv, TypeOK
<1>9. \A c \in Reviewer : HasRow(c)'
  BY <1>6 DEF DeleteTask, IInv, HasRow
<1> QED
  BY <1>3, <1>6, <1>7, <1>8, <1>9 DEF DeleteTask, IInv, TypeOK

-----------------------------------------------------------------------------
\* A run starts queued, with nothing planned.
LEMMA InitIInv == Init => IInv
<1> SUFFICES ASSUME Init PROVE IInv
  OBVIOUS
<1>1. \A p \in Pass : pass[p] = IdlePass /\ pass[p].node = "idle"
  BY DEF Init, IdlePass
<1>2. \A c \in Reviewer : req[c] = IdleRequest /\ req[c].pc = "idle"
  BY DEF Init, IdleRequest
<1>3. pass \in [Pass -> PassState] /\ req \in [Reviewer -> Request]
  BY IdlePassType, IdleRequestType DEF Init
<1>4. 1 \in 0 .. MaxEnqueues
  BY DEF Init
<1> QED
  BY <1>1, <1>2, <1>3, <1>4, NoTaskRowType, StatusTypes, EmptySeq, ZeroIsIndex
  DEF Init, IInv, TypeOK, HasTask, HasRow, AtTask, Attempting

\* Every step keeps the invariant.
LEMMA NextIInv == ASSUME IInv, [Next]_vars PROVE IInv'
<1>1. CASE UNCHANGED vars
  BY <1>1 DEF vars, database, history, bounds, IInv, TypeOK, HasTask, HasRow
<1>2. CASE Next
  BY <1>2, WorkerKeeps, PlanningKeeps, AttemptKeeps, DecideKeeps, RestKeeps,
     RaiseKeeps, ReviewKeeps, DeleteKeeps DEF Next, GraphStep
<1> QED
  BY <1>1, <1>2

\* The invariant holds in every reachable state.
LEMMA Inductive == Spec => []IInv
  BY InitIInv, NextIInv, PTL DEF Spec

\* Types: no node, decision, recovery or deletion writes a status the tables refuse.
THEOREM TypeCorrect == Spec => []TypeOK
<1>1. IInv => TypeOK
  BY DEF IInv
<1> QED
  BY <1>1, Inductive, PTL

-----------------------------------------------------------------------------
(* Who writes.                                                              *)

\* A session of a pass sends the version `new` of its current task, which is there.
\* It sends "verified" only after the decision, or if it saw the task so.
Sends(p, new) ==
  /\ pass[p].current \in Index /\ ~Gone(pass[p].current)
  /\ new.status \in TaskStatus
  /\ new.status = "verified" => DecideVerified(p) \/ Seen(p)[pass[p].current].status = "verified"
  /\ SendTask(p, pass[p].current, new)

\* A node with a task finds it.
LEMMA HasCurrent ==
  ASSUME IInv, NEW p \in Pass, pass[p].node \in AtTask
  PROVE  pass[p].current \in Index /\ Seen(p)[pass[p].current] \in Task
  BY SeenType DEF IInv, HasTask

\* What a node that commits statuses makes of the task it has.
LEMMA CommitStatusesSends ==
  ASSUME IInv, NEW p \in Pass, NEW from \in AtTask, NEW to, NEW s, NEW t \in TaskStatus \ {"verified"},
         CommitStatuses(p, from, to, s, t)
  PROVE  \E new \in Task : Sends(p, new)
<1> DEFINE new == [Seen(p)[pass[p].current] EXCEPT !.status = t]
<1>1. pass[p].current \in Index /\ Seen(p)[pass[p].current] \in Task
  BY HasCurrent DEF CommitStatuses, At
<1>2. new \in Task /\ new.status = t
  BY <1>1 DEF Task
<1>3. ~Gone(pass[p].current) /\ SendTask(p, pass[p].current, new)
  BY DEF CommitStatuses, At
<1> HIDE DEF new
<1> QED
  BY <1>1, <1>2, <1>3 DEF Sends

\* What a decision makes of the task it is about.
LEMMA DecideSends ==
  ASSUME IInv, NEW p \in Pass, DecideVerified(p) \/ DecideRetry(p) \/ DecideEscalate(p)
  PROVE  \E new \in Task : Sends(p, new)
<1> DEFINE old == Seen(p)[pass[p].current]
<1>1. pass[p].current \in Index /\ old \in Task
  BY HasCurrent DEF DecideVerified, DecideRetry, DecideEscalate, Decide, At, AtTask, Attempting
<1>2. ASSUME NEW new \in Task, NEW to, Decide(p, new, to)
      PROVE  ~Gone(pass[p].current) /\ SendTask(p, pass[p].current, new)
  BY <1>2 DEF Decide, At
<1>3. CASE DecideVerified(p)
  <2> DEFINE new == [old EXCEPT !.status = "verified"]
  <2>1. new \in Task /\ new.status = "verified"
    BY <1>1, StatusTypes DEF Task
  <2>2. Decide(p, new, "pick_task")
    BY <1>3 DEF DecideVerified
  <2> HIDE DEF new
  <2> QED
    BY <1>1, <1>2, <1>3, <2>1, <2>2, StatusTypes DEF Sends
<1>4. CASE DecideRetry(p)
  <2> DEFINE new == [old EXCEPT !.status = "pending", !.retry_count = @ + 1]
  <2>0. old.retry_count + 1 \in Nat
    BY <1>1 DEF Task
  <2>1. new \in Task /\ new.status = "pending"
    <3> HIDE DEF old
    <3> QED BY <1>1, <2>0, StatusTypes DEF Task
  <2>2. Decide(p, new, "execute")
    BY <1>4 DEF DecideRetry
  <2> HIDE DEF new
  <2> QED
    BY <1>1, <1>2, <2>1, <2>2, StatusTypes DEF Sends
<1>5. CASE DecideEscalate(p)
  <2> DEFINE new == [old EXCEPT !.status = "failed"]
  <2>1. new \in Task /\ new.status = "failed"
    BY <1>1, StatusTypes DEF Task
  <2>2. Decide(p, new, "escalate")
    BY <1>5 DEF DecideEscalate
  <2> HIDE DEF new
  <2> QED
    BY <1>1, <1>2, <2>1, <2>2, StatusTypes DEF Sends
<1> QED
  BY <1>3, <1>4, <1>5

\* What persist_catastrophic_failure writes of the task, if there is one.
LEMMA PersistSends ==
  ASSUME IInv, NEW p \in Pass, PersistFailure(p), pass[p].current # None, ~Gone(pass[p].current)
  PROVE  \E new \in Task : Sends(p, new)
<1> DEFINE old == Seen(p)[pass[p].current]
           new == FailedTask(old)
<1>1. pass[p].current \in Index /\ old \in Task
  <2>1. pass[p] \in PassState
    BY DEF IInv, TypeOK
  <2>2. pass[p].current \in Index
    BY <2>1 DEF PassState
  <2> QED
    BY <2>2, SeenType DEF IInv
<1>2. /\ new \in Task /\ new.status \in TaskStatus
      /\ new.status = "verified" => old.status = "verified"
  BY <1>1, StatusTypes DEF FailedTask, Task
<1>3. SendTask(p, pass[p].current, new)
  BY DEF PersistFailure, PersistWith
<1> HIDE DEF new
<1> QED
  BY <1>1, <1>2, <1>3 DEF Sends

\* The steps that write tasks.
LEMMA TaskWriters ==
  ASSUME IInv, Next
  PROVE  \/ task' = task
         \/ \E p \in Pass : CreateTasks(p) \/ FailPlanning(p) \/ \E new \in Task : Sends(p, new)
         \/ \E c \in Reviewer : CommitDecision(c)
         \/ \E i \in Index : DeleteTask(i)
<1> USE DEF database
<1>1. ASSUME NEW p \in Pass, GraphStep(p)
      PROVE  task' = task \/ CreateTasks(p) \/ FailPlanning(p) \/ \E new \in Task : Sends(p, new)
  <2>1. CASE \/ Load(p) \/ Plan(p) \/ KeepTasks(p) \/ PickTask(p) \/ StartAttempt(p)
             \/ AttemptConflict(p) \/ CallTool(p) \/ Check(p) \/ Judge(p) \/ CreateEscalation(p)
             \/ RecordEscalation(p) \/ Finish(p) \/ TaskGone(p) \/ SkipEscalation(p)
    BY <2>1 DEF Load, Plan, KeepTasks, PickTask, StartAttempt, AttemptConflict, CallTool, Check,
       Judge, CreateEscalation, RecordEscalation, Finish, TaskGone, SkipEscalation
  <2>2. CASE Execute(p) \/ Verify(p) \/ Escalate(p)
    BY <2>2, CommitStatusesSends, StatusTypes DEF Execute, Verify, Escalate, AtTask, Attempting
  <2>3. CASE DecideVerified(p) \/ DecideRetry(p) \/ DecideEscalate(p)
    BY <2>3, DecideSends
  <2> QED
    BY <1>1, <2>1, <2>2, <2>3 DEF GraphStep
<1>2. ASSUME NEW p \in Pass, WorkerStep(p) \/ DetectHeld(p) \/ Abandon(p) \/ Crash(p)
      PROVE  task' = task
  BY <1>2, WorkerFrame
<1>3. ASSUME NEW p \in Pass, Raise(p)
      PROVE  task' = task \/ \E new \in Task : Sends(p, new)
  <2>1. CASE PersistFailure(p) /\ pass[p].current # None /\ ~Gone(pass[p].current)
    BY <2>1, PersistSends
  <2>2. CASE ~(PersistFailure(p) /\ pass[p].current # None /\ ~Gone(pass[p].current))
    BY <1>3, <2>2 DEF Raise, PersistFailure, PersistWith
  <2> QED
    BY <2>1, <2>2
<1>4. ASSUME NEW c \in Reviewer,
             \/ \E e \in DOMAIN escalations, d \in Decision : ReadEscalation(c, e, d)
             \/ ReviewStep(c) \/ LoseRequest(c)
      PROVE  task' = task \/ CommitDecision(c)
  BY <1>4 DEF ReviewStep, ReadEscalation, LoadRun, EnqueueRun, EscalationGone, LoseRequest
<1> QED
  BY <1>1, <1>2, <1>3, <1>4 DEF Next

\* What a session sends of a task does not delete it, nor does it bring it back.
LEMMA SendsOneTask ==
  ASSUME IInv, NEW p \in Pass, NEW new \in Task, Sends(p, new), NEW i \in Index
  PROVE  \/ task'[i] = task[i]
         \/ /\ i = pass[p].current /\ ~Gone(i) /\ task'[i].status # Deleted
            /\ task'[i].status = "verified" => DecideVerified(p) \/ task[i].status = "verified"
<1>1. task \in [Index -> Task]
  BY DEF IInv, TypeOK
<1>2. i # pass[p].current => task'[i] = task[i]
  BY <1>1 DEF Sends, SendTask
<1>3. ASSUME i = pass[p].current
      PROVE  task'[i].status = Sent(Seen(p)[i].status, new.status, task[i].status)
  BY <1>1, <1>3 DEF Sends, SendTask
<1>4. ASSUME i = pass[p].current
      PROVE  \/ task'[i].status = task[i].status
             \/ task'[i].status = new.status /\ Seen(p)[i].status # new.status
  BY <1>3, <1>4 DEF Sent
<1>5. Deleted \notin TaskStatus
  BY DEF Deleted, TaskStatus
<1> QED
  BY <1>2, <1>4, <1>5 DEF Sends, Gone

-----------------------------------------------------------------------------
(* Deleted tasks stay deleted, and nothing of the review queue is left of    *)
(* them.                                                                    *)

RowsOfTasks ==
  \A e \in DOMAIN escalations : escalations[e].status # Deleted => ~Gone(escalations[e].task)

\* The task a decision is about.
Subject(c) == escalations[req[c].escalation].task

\* What a decision makes of its task, which is there.
LEMMA DecisionStep ==
  ASSUME IInv, RowsOfTasks, NEW c \in Reviewer, CommitDecision(c), NEW i \in Index
  PROVE  \/ task'[i] = task[i]
         \/ /\ i = Subject(c) /\ ~Gone(i) /\ task'[i].status # Deleted
            /\ task'[i].status = "verified" =>
                 req[c].decision = "approve" \/ task[i].status = "verified"
<1> DEFINE q == req[c]
           new == Decided(q.task, q.decision)
<1>1. task \in [Index -> Task] /\ q \in Request
  BY DEF IInv, TypeOK
<1>2. /\ q.escalation \in DOMAIN escalations /\ escalations[q.escalation].status # Deleted
      /\ q.task \in Task /\ q.decision \in Decision
  BY <1>1 DEF CommitDecision, IInv, HasRow, Request
<1>3. Subject(c) \in Index /\ ~Gone(Subject(c))
  BY <1>2, EscalationType DEF IInv, RowsOfTasks, Subject
<1>4. task' = [task EXCEPT ![Subject(c)] =
                 [status |-> Sent(q.task.status, new.status, @.status),
                  retry_count |-> Sent(q.task.retry_count, new.retry_count, @.retry_count)]]
  BY DEF CommitDecision, Subject
<1>5. i # Subject(c) => task'[i] = task[i]
  BY <1>1, <1>4
<1>6. ASSUME i = Subject(c)
      PROVE  task'[i].status = Sent(q.task.status, new.status, task[i].status)
  <2> HIDE DEF q, new
  <2> QED BY <1>1, <1>4, <1>6
<1>7. /\ new.status \in {"verified", "failed", "pending"}
      /\ new.status = "verified" => q.decision = "approve"
  <2> HIDE DEF q
  <2> QED BY <1>2 DEF Decided, Decision, Task
<1>8. ASSUME i = Subject(c)
      PROVE  task'[i].status = task[i].status \/ task'[i].status = new.status
  BY <1>6, <1>8 DEF Sent
<1> QED
  BY <1>3, <1>5, <1>7, <1>8 DEF Gone, Deleted

\* What a step makes of a task.
LEMMA TaskStep ==
  ASSUME IInv, RowsOfTasks, NEW i \in Index, [Next]_vars
  PROVE  /\ Gone(i) => Gone(i)'
         /\ Gone(i)' => Gone(i) \/ DeleteTask(i)
         /\ task'[i].status = "verified" =>
              \/ task[i].status = "verified"
              \/ \E p \in Pass : DecideVerified(p) /\ i = pass[p].current
              \/ \E c \in Reviewer : CommitDecision(c) /\ req[c].decision = "approve" /\ i = Subject(c)
<1>0. task \in [Index -> Task]
  BY DEF IInv, TypeOK
<1>1. CASE task'[i] = task[i]
  BY <1>1 DEF Gone
<1>2. ASSUME NEW p \in Pass, CreateTasks(p)
      PROVE  task'[i] = task[i] \/ (~Gone(i) /\ task'[i].status = "pending")
  BY <1>0, <1>2 DEF CreateTasks
<1>3. ASSUME NEW p \in Pass, FailPlanning(p)
      PROVE  task'[i] = task[i] \/ (~Gone(i) /\ task'[i].status = "escalated")
  <2>1. PICK k \in Index : /\ \A j \in Index : task[j].status = NoRow <=> j >= k
                           /\ task' = [task EXCEPT ![k] = [status |-> "escalated", retry_count |-> 0]]
    BY <1>3 DEF FailPlanning
  <2>2. k >= k
    BY ZeroIsIndex
  <2> QED
    BY <1>0, <2>1, <2>2 DEF Gone, NoRow, Deleted
<1>4. ASSUME NEW j \in Index, DeleteTask(j)
      PROVE  task'[i] = IF i = j THEN NoTask ELSE task[i]
  BY <1>0, <1>4 DEF DeleteTask
<1>5. CASE UNCHANGED vars
  BY <1>1, <1>5 DEF vars, database
<1>6. CASE \E p \in Pass : CreateTasks(p) \/ FailPlanning(p)
  BY <1>1, <1>2, <1>3, <1>6 DEF Gone, Deleted
<1>7. CASE \E p \in Pass : \E new \in Task : Sends(p, new)
  BY <1>1, <1>7, SendsOneTask DEF Gone
<1>8. CASE \E c \in Reviewer : CommitDecision(c)
  BY <1>1, <1>8, DecisionStep DEF Gone
<1>9. CASE \E j \in Index : DeleteTask(j)
  BY <1>1, <1>4, <1>9 DEF Gone, NoTask, Deleted
<1> QED
  BY <1>1, <1>5, <1>6, <1>7, <1>8, <1>9, TaskWriters

\* What persist_catastrophic_failure leaves in the review queue.
LEMMA PersistEscalates ==
  ASSUME IInv, NEW p \in Pass, PersistFailure(p)
  PROVE  \/ escalations' = escalations
         \/ \E i \in Index : ~Gone(i) /\ escalations' = Append(escalations, NewEscalation(i))
<1>1. CASE pass[p].current = None \/ Gone(pass[p].current)
  BY <1>1 DEF PersistFailure, PersistWith
<1>2. CASE pass[p].current # None /\ ~Gone(pass[p].current)
  <2>1. pass[p] \in PassState
    BY DEF IInv, TypeOK
  <2>2. pass[p].current \in Index
    BY <1>2, <2>1 DEF PassState
  <2> QED
    BY <1>2, <2>2 DEF PersistFailure, PersistWith
<1> QED
  BY <1>1, <1>2

\* The steps that write into the review queue.
LEMMA EscalationWriters ==
  ASSUME IInv, Next
  PROVE  \/ escalations' = escalations
         \/ \E i \in Index : ~Gone(i) /\ escalations' = Append(escalations, NewEscalation(i))
         \/ \E c \in Reviewer : CommitDecision(c)
         \/ \E i \in Index : DeleteTask(i)
<1> USE DEF database
<1> DEFINE New == \E i \in Index : ~Gone(i) /\ escalations' = Append(escalations, NewEscalation(i))
<1>1. ASSUME NEW p \in Pass, GraphStep(p)
      PROVE  escalations' = escalations \/ New
  <2>1. CASE \/ Load(p) \/ Plan(p) \/ KeepTasks(p) \/ CreateTasks(p) \/ PickTask(p)
             \/ StartAttempt(p) \/ AttemptConflict(p) \/ CallTool(p) \/ Check(p) \/ Judge(p)
             \/ RecordEscalation(p) \/ Finish(p) \/ TaskGone(p) \/ SkipEscalation(p)
    BY <2>1 DEF Load, Plan, KeepTasks, CreateTasks, PickTask, StartAttempt, AttemptConflict,
       CallTool, Check, Judge, RecordEscalation, Finish, TaskGone, SkipEscalation
  <2>2. CASE \/ Execute(p) \/ Verify(p) \/ Escalate(p)
             \/ DecideVerified(p) \/ DecideRetry(p) \/ DecideEscalate(p)
    BY <2>2 DEF Execute, Verify, Escalate, CommitStatuses, DecideVerified, DecideRetry,
       DecideEscalate, Decide
  <2>3. CASE CreateEscalation(p)
    BY <2>3, HasCurrent DEF CreateEscalation, At, AtTask, Attempting
  <2>4. CASE FailPlanning(p)
    <3>1. PICK i \in Index : /\ \A j \in Index : task[j].status = NoRow <=> j >= i
                             /\ escalations' = Append(escalations, NewEscalation(i))
      BY <2>4 DEF FailPlanning
    <3>2. i >= i
      BY ZeroIsIndex
    <3> QED
      BY <3>1, <3>2 DEF Gone, NoRow, Deleted
  <2> QED
    BY <1>1, <2>1, <2>2, <2>3, <2>4 DEF GraphStep
<1>2. ASSUME NEW p \in Pass, WorkerStep(p) \/ DetectHeld(p) \/ Abandon(p) \/ Crash(p)
      PROVE  escalations' = escalations
  BY <1>2, WorkerFrame
<1>3. ASSUME NEW p \in Pass, Raise(p)
      PROVE  escalations' = escalations \/ New
  BY <1>3, PersistEscalates DEF Raise
<1>4. ASSUME NEW c \in Reviewer,
             \/ \E e \in DOMAIN escalations, d \in Decision : ReadEscalation(c, e, d)
             \/ ReviewStep(c) \/ LoseRequest(c)
      PROVE  escalations' = escalations \/ CommitDecision(c)
  BY <1>4 DEF ReviewStep, ReadEscalation, LoadRun, EnqueueRun, EscalationGone, LoseRequest
<1> QED
  BY <1>1, <1>2, <1>3, <1>4 DEF Next

\* What a step makes of a row of the review queue: its task and the decisions on it stay,
\* and a row that is gone does not come back.
LEMMA RowStep ==
  ASSUME IInv, NEW e \in DOMAIN escalations, [Next]_vars
  PROVE  /\ e \in DOMAIN escalations'
         /\ escalations'[e].task = escalations[e].task
         /\ escalations[e].status = Deleted => escalations'[e].status = Deleted
         /\ \A n \in DOMAIN escalations[e].decisions :
              /\ n \in DOMAIN escalations'[e].decisions
              /\ escalations'[e].decisions[n] = escalations[e].decisions[n]
<1>0. escalations[e] \in Escalation /\ escalations[e].decisions \in Seq(Decision)
  BY EscalationType DEF IInv, Escalation
<1>1. CASE escalations' = escalations
  BY <1>1
<1>2. ASSUME NEW i \in Index, escalations' = Append(escalations, NewEscalation(i))
      PROVE  e \in DOMAIN escalations' /\ escalations'[e] = escalations[e]
  BY <1>2, NewEscalationType DEF IInv
<1>3. ASSUME NEW c \in Reviewer, CommitDecision(c)
      PROVE  /\ e \in DOMAIN escalations'
             /\ \/ escalations'[e] = escalations[e]
                \/ /\ escalations[e].status # Deleted
                   /\ escalations'[e] = Resolved(escalations[e], req[c].decision)
  BY <1>3 DEF CommitDecision
<1>4. ASSUME NEW d \in Decision
      PROVE  LET row == Resolved(escalations[e], d) IN
             /\ row.task = escalations[e].task
             /\ \A n \in DOMAIN escalations[e].decisions :
                  n \in DOMAIN row.decisions /\ row.decisions[n] = escalations[e].decisions[n]
  <2> DEFINE s == escalations[e].decisions
  <2>1. /\ Resolved(escalations[e], d).task = escalations[e].task
        /\ Resolved(escalations[e], d).decisions = Append(s, d)
    BY <1>0, ResolvedType
  <2>2. \A n \in DOMAIN s : n \in DOMAIN Append(s, d) /\ Append(s, d)[n] = s[n]
    <3>1. s \in Seq(Decision)
      BY <1>0
    <3> HIDE DEF s
    <3> QED BY <3>1, AppendProperties, LenProperties
  <2> QED
    BY <2>1, <2>2
<1>5. ASSUME NEW c \in Reviewer, CommitDecision(c)
      PROVE  req[c].decision \in Decision
  BY DEF IInv, TypeOK, Request
<1>6. ASSUME NEW i \in Index, DeleteTask(i)
      PROVE  /\ e \in DOMAIN escalations'
             /\ \/ escalations'[e] = escalations[e]
                \/ escalations'[e] = [escalations[e] EXCEPT !.status = Deleted]
  BY <1>6 DEF DeleteTask
<1>7. LET row == [escalations[e] EXCEPT !.status = Deleted] IN
        row.task = escalations[e].task /\ row.decisions = escalations[e].decisions /\ row.status = Deleted
  BY <1>0 DEF Escalation
<1>8. CASE UNCHANGED vars
  BY <1>1, <1>8 DEF vars, database
<1>9. CASE \E c \in Reviewer : CommitDecision(c)
  BY <1>3, <1>4, <1>5, <1>9
<1>10. CASE \E i \in Index : DeleteTask(i)
  BY <1>6, <1>7, <1>10
<1> QED
  BY <1>1, <1>2, <1>8, <1>9, <1>10, EscalationWriters

\* The rows of deleted tasks are gone.
LEMMA RowsOfTasksStep == ASSUME IInv, RowsOfTasks, [Next]_vars PROVE RowsOfTasks'
<1> SUFFICES ASSUME NEW e \in DOMAIN escalations', escalations'[e].status # Deleted
             PROVE  ~Gone(escalations[e].task)'
  BY DEF RowsOfTasks
<1>1. CASE e \in DOMAIN escalations
  <2> DEFINE i == escalations[e].task
  <2>1. i \in Index /\ escalations'[e].task = i /\ ~Gone(i)
    BY <1>1, RowStep, EscalationType DEF IInv, RowsOfTasks
  <2>2. ASSUME DeleteTask(i) PROVE FALSE
    <3>1. escalations'[e] = [escalations[e] EXCEPT !.status = Deleted] /\ escalations[e] \in Escalation
      BY <1>1, <2>2, EscalationType DEF DeleteTask, IInv
    <3> QED
      BY <3>1 DEF Escalation
  <2> QED
    BY <2>1, <2>2, TaskStep DEF Gone
<1>2. CASE e \notin DOMAIN escalations
  <2>1. DOMAIN escalations' # DOMAIN escalations
    BY <1>2
  <2>2. PICK i \in Index : ~Gone(i) /\ escalations' = Append(escalations, NewEscalation(i))
    BY <2>1, EscalationWriters DEF vars, database, CommitDecision, DeleteTask
  <2>3. escalations'[e].task = i
    BY <1>2, <2>2, NewEscalationType, AppendProperties, LenProperties DEF IInv, TypeOK, NewEscalation
  <2>4. ASSUME DeleteTask(i) PROVE FALSE
    BY <2>1, <2>4 DEF DeleteTask
  <2> QED
    BY <2>2, <2>3, <2>4, TaskStep DEF Gone
<1> QED
  BY <1>1, <1>2

-----------------------------------------------------------------------------
(* Where passes are.                                                        *)

\* The pass p is left where it is.
Rests(p) ==
  /\ pass'[p].node = pass[p].node /\ pass'[p].current = pass[p].current
  /\ pass'[p].attempt = pass[p].attempt /\ pass'[p].verdict = pass[p].verdict

\* The pass p comes to a node in which it neither calls a tool nor decides.
Moves(p) == pass'[p].node \notin {"tool", "decide"}

\* A pass moves and the others do not.
LEMMA BecomeMoves ==
  ASSUME IInv, NEW p \in Pass, NEW q \in Pass, NEW next, next.node \notin {"tool", "decide"},
         Become(q, next)
  PROVE  Rests(p) \/ Moves(p)
  BY DEF IInv, TypeOK, Become, Rests, Moves

\* A pass that is over has no current task.
LEMMA OverMoves ==
  ASSUME IInv, NEW p \in Pass, NEW q \in Pass,
         \/ Become(q, IdlePass) \/ Over(q, "failing") \/ Over(q, "finished")
         \/ Become(q, Without(q, "finish"))
  PROVE  Rests(p) \/ Moves(p)
<1>1. IdlePass.node = "idle" /\ Without(q, "finish").node = "finish"
  BY WithoutType DEF IInv, IdlePass, Node
<1>2. /\ [IdlePass EXCEPT !.node = "failing"].node = "failing"
      /\ [IdlePass EXCEPT !.node = "finished"].node = "finished"
  BY DEF IdlePass
<1> QED
  BY <1>1, <1>2, BecomeMoves DEF Over

\* A node that commits statuses keeps its task and its attempt.
LEMMA CommitStatusesMoves ==
  ASSUME IInv, NEW p \in Pass, NEW q \in Pass, NEW from \in AtTask, NEW to \in AtTask \ {"tool", "decide"},
         NEW s \in RunStatus, NEW t \in TaskStatus, CommitStatuses(q, from, to, s, t)
  PROVE  Rests(p) \/ Moves(p)
<1> DEFINE i == pass[q].current
           new == [Seen(q)[i] EXCEPT !.status = t]
           done == Committed(q, s, i, new)
<1>1. i \in Index /\ Seen(q)[i] \in Task
  BY HasCurrent DEF CommitStatuses, At
<1>2. new \in Task
  BY <1>1 DEF Task
<1>3. done \in PassState
  <2> HIDE DEF i, new
  <2> QED BY <1>1, <1>2, CommittedType DEF IInv
<1>4. [done EXCEPT !.node = to].node = to
  <2> HIDE DEF done
  <2> QED BY <1>3 DEF PassState
<1>5. Become(q, [done EXCEPT !.node = to])
  BY DEF CommitStatuses
<1> HIDE DEF done
<1> QED
  BY <1>4, <1>5, BecomeMoves

\* ... and so does a decision.
LEMMA DecideMoves ==
  ASSUME IInv, NEW p \in Pass, NEW q \in Pass, DecideVerified(q) \/ DecideRetry(q) \/ DecideEscalate(q)
  PROVE  Rests(p) \/ Moves(p)
<1>1. ASSUME NEW new, NEW to \in Node \ {"tool", "decide"}, Decide(q, new, to)
      PROVE  Rests(p) \/ Moves(p)
  <2> DEFINE done == Committed(q, pass[q].run, pass[q].current, new)
             next == [done EXCEPT !.node = to, !.retry_count = new.retry_count,
                                  !.verdict = IdlePass.verdict]
  <2>1. pass[q] \in PassState
    BY DEF IInv, TypeOK
  <2>2. next.node = to
    BY <2>1 DEF Committed, PassState
  <2>3. Become(q, next)
    BY <1>1 DEF Decide
  <2> HIDE DEF next
  <2> QED
    BY <2>2, <2>3, BecomeMoves
<1> QED
  BY <1>1 DEF DecideVerified, DecideRetry, DecideEscalate, Node

\* How a pass comes to its tool and to its decision.
LEMMA PassStep ==
  ASSUME IInv, NEW p \in Pass, [Next]_vars
  PROVE  Rests(p) \/ Moves(p) \/ StartAttempt(p) \/ Check(p) \/ Judge(p)
<1> USE DEF database, history, bounds
<1>0. pass \in [Pass -> PassState]
  BY DEF IInv, TypeOK
<1>1. ASSUME NEW q \in Pass, NEW next, Become(q, next), q # p
      PROVE  Rests(p)
  BY <1>0, <1>1 DEF Become, Rests
<1>2. ASSUME NEW q \in Pass, GraphStep(q)
      PROVE  Rests(p) \/ Moves(p) \/ StartAttempt(p) \/ Check(p) \/ Judge(p)
  <2>0. pass[q] \in PassState
    BY <1>0
  <2>1. CASE Load(q) \/ Plan(q) \/ KeepTasks(q) \/ CreateTasks(q) \/ FailPlanning(q)
    <3>1. /\ [pass[q] EXCEPT !.node = "plan", !.run = status, !.planned = Planned(task) # {}].node = "plan"
          /\ [pass[q] EXCEPT !.node = "planner", !.run = status'].node = "planner"
          /\ [pass[q] EXCEPT !.node = "pick_task", !.planned = FALSE].node = "pick_task"
          /\ [pass[q] EXCEPT !.node = "finish", !.run = "needs_review"].node = "finish"
      BY <2>0 DEF PassState
    <3> QED
      BY <2>1, <3>1, BecomeMoves DEF Load, Plan, KeepTasks, CreateTasks, FailPlanning
  <2>2. CASE \/ AttemptConflict(q) \/ RecordEscalation(q) \/ Finish(q) \/ TaskGone(q) \/ SkipEscalation(q)
    BY <2>2, OverMoves DEF AttemptConflict, RecordEscalation, Finish, TaskGone, SkipEscalation
  <2>3. CASE Execute(q) \/ Verify(q) \/ Escalate(q)
    BY <2>3, CommitStatusesMoves, StatusTypes DEF Execute, Verify, Escalate, AtTask, Attempting
  <2>4. CASE DecideVerified(q) \/ DecideRetry(q) \/ DecideEscalate(q)
    BY <2>4, DecideMoves
  <2>5. CASE CallTool(q)
    <3>1. [pass[q] EXCEPT !.node = "verify", !.task[pass[q].current] = task[pass[q].current]].node = "verify"
      BY <2>0 DEF PassState
    <3> QED
      BY <2>5, <3>1, BecomeMoves DEF CallTool
  <2>6. CASE CreateEscalation(q)
    <3>1. [pass[q] EXCEPT !.node = "escalated"].node = "escalated"
      BY <2>0 DEF PassState
    <3> QED
      BY <2>6, <3>1, BecomeMoves DEF CreateEscalation
  <2>7. CASE PickTask(q)
    <3>1. CASE Become(q, Without(q, "finish"))
      BY <3>1, OverMoves
    <3>2. ASSUME NEW i, Become(q, [Without(q, "execute") EXCEPT !.current = i,
                                                       !.retry_count = Seen(q)[i].retry_count])
          PROVE  Rests(p) \/ Moves(p)
      <4> DEFINE start == Without(q, "execute")
                 next == [start EXCEPT !.current = i, !.retry_count = Seen(q)[i].retry_count]
      <4>1. start \in PassState /\ start.node = "execute"
        BY WithoutType DEF IInv, Node
      <4>2. next.node = "execute"
        <5> HIDE DEF start
        <5> QED BY <4>1 DEF PassState
      <4>3. Become(q, next)
        BY <3>2
      <4> HIDE DEF next
      <4> QED
        BY <4>2, <4>3, BecomeMoves
    <3> QED
      BY <2>7, <3>1, <3>2 DEF PickTask
  <2>8. CASE StartAttempt(q) \/ Check(q) \/ Judge(q)
    BY <1>1, <2>8 DEF StartAttempt, Check, Judge
  <2> QED
    BY <1>2, <2>1, <2>2, <2>3, <2>4, <2>5, <2>6, <2>7, <2>8 DEF GraphStep
<1>3. ASSUME NEW q \in Pass, Claim(q)
      PROVE  Rests(p) \/ Moves(p)
  <2>1. [IdlePass EXCEPT !.node = "load"].node = "load"
    BY DEF IdlePass
  <2> QED
    BY <1>3, <2>1, BecomeMoves DEF Claim
<1>4. ASSUME NEW q \in Pass, ~Claim(q),
             WorkerStep(q) \/ DetectHeld(q) \/ Abandon(q) \/ Crash(q) \/ Raise(q)
      PROVE  Rests(p) \/ Moves(p)
  <2>1. CASE Raise(q)
    BY <2>1, OverMoves DEF Raise
  <2>2. CASE ~Raise(q)
    <3>1. PICK next : Become(q, next) /\ Outside(next)
      BY <1>4, <2>2, Aside DEF IInv
    <3> QED
      BY <3>1, BecomeMoves DEF Outside
  <2> QED
    BY <2>1, <2>2
<1>5. CASE UNCHANGED vars
  BY <1>5 DEF vars, Rests
<1>6. ASSUME NEW c \in Reviewer,
             \/ \E e \in DOMAIN escalations, d \in Decision : ReadEscalation(c, e, d)
             \/ ReviewStep(c) \/ LoseRequest(c)
      PROVE  Rests(p)
  BY <1>6 DEF ReviewStep, ReadEscalation, CommitDecision, LoadRun, EnqueueRun, EscalationGone,
     LoseRequest, Rests
<1>7. ASSUME NEW i \in Index, DeleteTask(i)
      PROVE  Rests(p)
  <2>1. pass[p] \in PassState
    BY <1>0
  <2>2. pass'[p] = IF pass[p].cached THEN [pass[p] EXCEPT !.task[i] = NoTask] ELSE pass[p]
    BY <1>7 DEF DeleteTask
  <2> QED
    BY <2>1, <2>2 DEF PassState, Rests
<1> QED
  BY <1>2, <1>3, <1>4, <1>5, <1>6, <1>7 DEF Next

-----------------------------------------------------------------------------
(* What is verified is verified on the record.                              *)

Positive(i) == \E x \in ledger : x.task = i /\ x.verified
OnRecord(i) == Approvals(i) # {} \/ Positive(i)

\* A pass that decides that its task is verified has said so in the ledger.
DecidesOnRecord ==
  \A p \in Pass :
    /\ pass[p].node = "decide" /\ pass[p].verdict = "verified" /\ ~Gone(pass[p].current)
    => Positive(pass[p].current)

\* Entries of the ledger are only deleted, with their task.
LEMMA LedgerStep ==
  ASSUME [Next]_vars
  PROVE  ledger \subseteq ledger' \/ \E i \in Index : DeleteTask(i)
<1> USE DEF database
<1>1. ASSUME NEW p \in Pass, GraphStep(p)
      PROVE  ledger \subseteq ledger'
  <2>1. CASE \/ Load(p) \/ Plan(p) \/ KeepTasks(p) \/ CreateTasks(p) \/ FailPlanning(p) \/ PickTask(p)
             \/ StartAttempt(p) \/ AttemptConflict(p) \/ CallTool(p) \/ CreateEscalation(p)
             \/ Finish(p) \/ TaskGone(p) \/ SkipEscalation(p)
    BY <2>1 DEF Load, Plan, KeepTasks, CreateTasks, FailPlanning, PickTask, StartAttempt,
       AttemptConflict, CallTool, CreateEscalation, Finish, TaskGone, SkipEscalation
  <2>2. CASE \/ Execute(p) \/ Verify(p) \/ Escalate(p)
             \/ DecideVerified(p) \/ DecideRetry(p) \/ DecideEscalate(p)
    BY <2>2 DEF Execute, Verify, Escalate, CommitStatuses, DecideVerified, DecideRetry,
       DecideEscalate, Decide
  <2>3. CASE Check(p) \/ Judge(p) \/ RecordEscalation(p)
    BY <2>3 DEF Check, Judge, RecordEscalation, Record
  <2> QED
    BY <1>1, <2>1, <2>2, <2>3 DEF GraphStep
<1>2. ASSUME NEW p \in Pass, WorkerStep(p) \/ DetectHeld(p) \/ Abandon(p) \/ Crash(p)
      PROVE  ledger' = ledger
  BY <1>2, WorkerFrame
<1>3. ASSUME NEW p \in Pass, Raise(p)
      PROVE  ledger \subseteq ledger'
  BY <1>3 DEF Raise, PersistFailure, PersistWith
<1>4. ASSUME NEW c \in Reviewer,
             \/ \E e \in DOMAIN escalations, d \in Decision : ReadEscalation(c, e, d)
             \/ ReviewStep(c) \/ LoseRequest(c)
      PROVE  ledger' = ledger
  BY <1>4 DEF ReviewStep, ReadEscalation, CommitDecision, LoadRun, EnqueueRun, EscalationGone,
     LoseRequest
<1>5. UNCHANGED vars => ledger' = ledger
  BY DEF vars
<1> QED
  BY <1>1, <1>2, <1>3, <1>4, <1>5 DEF Next

\* What is on record of a task stays there as long as the task does.
LEMMA RecordStays ==
  ASSUME IInv, [Next]_vars, NEW i \in Index, ~Gone(i)'
  PROVE  /\ Positive(i) => Positive(i)'
         /\ Approvals(i) # {} => Approvals(i)' # {}
<1>1. ASSUME NEW x \in ledger, x.task = i, x.verified
      PROVE  Positive(i)'
  <2>1. CASE ledger \subseteq ledger'
    BY <1>1, <2>1 DEF Positive
  <2>2. ASSUME NEW j \in Index, DeleteTask(j)
        PROVE  x \in ledger'
    <3>1. j # i
      BY <2>2 DEF DeleteTask, Gone, NoTask, IInv, TypeOK
    <3> QED
      BY <1>1, <2>2, <3>1 DEF DeleteTask
  <2> QED
    BY <1>1, <2>1, <2>2, LedgerStep DEF Positive
<1>2. ASSUME NEW e \in Approvals(i)
      PROVE  e \in Approvals(i)'
  BY <1>2, RowStep DEF Approvals
<1> QED
  BY <1>1, <1>2 DEF Positive

\* The verdict "verified" is recorded before it is decided on.
LEMMA DecidesOnRecordStep ==
  ASSUME IInv, RowsOfTasks, DecidesOnRecord, [Next]_vars
  PROVE  DecidesOnRecord'
<1> SUFFICES ASSUME NEW p \in Pass, pass'[p].node = "decide", pass'[p].verdict = "verified",
                    ~Gone(pass[p].current)'
             PROVE  Positive(pass[p].current)'
  BY DEF DecidesOnRecord
<1>1. CASE Rests(p)
  <2>1. pass[p].node = "decide" /\ pass[p].verdict = "verified" /\ pass'[p].current = pass[p].current
    BY <1>1 DEF Rests
  <2>2. pass[p].current \in Index
    BY <2>1, HasCurrent DEF AtTask, Attempting
  <2>3. ~Gone(pass[p].current) /\ task'[pass[p].current].status # Deleted
    BY <2>1, <2>2, TaskStep DEF Gone
  <2>4. Positive(pass[p].current)
    BY <2>1, <2>3 DEF DecidesOnRecord
  <2> DEFINE i == pass[p].current
  <2>5. \E x \in ledger' : x.task = i /\ x.verified
    <3>1. i \in Index /\ ~Gone(i)' /\ Positive(i)
      BY <2>2, <2>3, <2>4 DEF Gone
    <3> QED
      BY <2>2, <2>3, <2>4, RecordStays DEF Gone, Positive
  <2> QED
    BY <2>1, <2>5 DEF Positive
<1>2. CASE Check(p) \/ Judge(p)
  <2>1. pass[p] \in PassState
    BY DEF IInv, TypeOK
  <2>2. PICK v \in Verdict : /\ Record(p, v = "verified")
                             /\ pass'[p] = [pass[p] EXCEPT !.node = "decide", !.verdict = v]
    <3>1. ASSUME Become(p, [pass[p] EXCEPT !.node = "judge"])
          PROVE  FALSE
      BY <2>1, <3>1 DEF Become, PassState, IInv, TypeOK
    <3> QED
      BY <1>2, <3>1 DEF Check, Judge, Become, IInv, TypeOK
  <2>3. v = "verified" /\ pass'[p].current = pass[p].current
    BY <2>1, <2>2 DEF PassState
  <2>4. [task |-> pass[p].current, attempt |-> pass[p].attempt, verified |-> TRUE] \in ledger'
    BY <2>2, <2>3 DEF Record
  <2> QED
    BY <2>3, <2>4 DEF Positive
<1>3. CASE StartAttempt(p)
  <2>1. pass'[p] = [pass[p] EXCEPT !.node = "tool",
                                   !.attempt = Seen(p)[pass[p].current].retry_count]
    BY <1>3 DEF StartAttempt, Become, IInv, TypeOK
  <2>2. pass[p] \in PassState
    BY DEF IInv, TypeOK
  <2> QED
    BY <2>1, <2>2 DEF PassState
<1> QED
  BY <1>1, <1>2, <1>3, PassStep DEF Moves

\* No task becomes verified without a record.
LEMMA VerifiedStep ==
  ASSUME IInv, RowsOfTasks, DecidesOnRecord, VerifiedIsOnRecord, [Next]_vars
  PROVE  VerifiedIsOnRecord'
<1> SUFFICES ASSUME NEW i \in Index, task'[i].status = "verified"
             PROVE  OnRecord(i)'
  BY DEF VerifiedIsOnRecord, OnRecord, Positive
<1>1. ~Gone(i)'
  BY DEF Gone, Deleted
<1>2. CASE task[i].status = "verified"
  BY <1>1, <1>2, RecordStays DEF VerifiedIsOnRecord, OnRecord, Positive
<1>3. ASSUME NEW p \in Pass, DecideVerified(p), i = pass[p].current
      PROVE  OnRecord(i)'
  <2>1. Positive(i)
    BY <1>3 DEF DecidesOnRecord, DecideVerified, Decide, At
  <2> QED
    BY <1>1, <2>1, RecordStays DEF OnRecord
<1>4. ASSUME NEW c \in Reviewer, CommitDecision(c), req[c].decision = "approve", i = Subject(c)
      PROVE  OnRecord(i)'
  <2> DEFINE e == req[c].escalation
             s == escalations[e].decisions
  <2>1. e \in DOMAIN escalations /\ escalations[e] \in Escalation
    BY <1>4, EscalationType DEF CommitDecision, IInv, HasRow
  <2>2. escalations'[e] = Resolved(escalations[e], "approve") /\ e \in DOMAIN escalations'
    BY <1>4, <2>1 DEF CommitDecision
  <2>3. /\ escalations'[e].task = i
        /\ escalations'[e].decisions = Append(s, "approve")
    BY <1>4, <2>1, <2>2, ResolvedType DEF Decision, Subject
  <2>4. s \in Seq(Decision)
    BY <2>1 DEF Escalation
  <2>5. \E n \in DOMAIN Append(s, "approve") : Append(s, "approve")[n] = "approve"
    <3> HIDE DEF s
    <3>1. Len(s) \in Nat /\ DOMAIN Append(s, "approve") = 1 .. Len(s) + 1
      BY <2>4, AppendProperties, LenProperties DEF Decision
    <3>2. Append(s, "approve")[Len(s) + 1] = "approve"
      BY <2>4, AppendProperties DEF Decision
    <3> QED
      BY <3>1, <3>2
  <2> QED
    BY <2>2, <2>3, <2>5 DEF OnRecord, Approvals
<1> QED
  BY <1>2, <1>3, <1>4, TaskStep

LInv == IInv /\ RowsOfTasks /\ DecidesOnRecord /\ VerifiedIsOnRecord

\* At the start nothing is verified.
LEMMA InitLInv == Init => LInv
<1> SUFFICES ASSUME Init PROVE LInv
  OBVIOUS
<1>1. DOMAIN escalations = {}
  BY DEF Init
<1>2. \A i \in Index : task[i].status = NoRow
  BY DEF Init, Unplanned
<1>3. \A p \in Pass : pass[p].node = "idle"
  BY DEF Init, IdlePass
<1> QED
  BY <1>1, <1>2, <1>3, InitIInv DEF LInv, RowsOfTasks, DecidesOnRecord, VerifiedIsOnRecord, NoRow

\* For any number of passes and reviewers, and whatever they interleave, a task is verified
\* only on the record: a positive entry of the ledger, or an approval of a reviewer.
THEOREM VerifiedOnRecord == Spec => []VerifiedIsOnRecord
<1>1. LInv /\ [Next]_vars => LInv'
  BY NextIInv, RowsOfTasksStep, DecidesOnRecordStep, VerifiedStep DEF LInv
<1>2. LInv => VerifiedIsOnRecord
  BY DEF LInv
<1> QED
  BY InitLInv, <1>1, <1>2, PTL DEF Spec

-----------------------------------------------------------------------------
(* Every call of a tool has an attempt of its own.                          *)

Calling(p, i, a) == pass[p].node = "tool" /\ pass[p].current = i /\ pass[p].attempt = a

\* The attempts of a task whose tool is not being called, and will not be.
Spent(i) == {row \in attempts : row[1] = i /\ ~\E p \in Pass : Calling(p, i, row[2])}

\* A pass that is about to call a tool has an attempt, nobody else has it, and it is not
\* among those that account for the calls so far.
CallsOnRecord ==
  /\ IsFiniteSet(attempts)
  /\ \A p \in Pass, i \in Index, a \in Nat :
       Calling(p, i, a) /\ ~Gone(i) => <<i, a>> \in attempts
  /\ \A p, q \in Pass, i \in Index, a \in Nat :
       Calling(p, i, a) /\ Calling(q, i, a) /\ ~Gone(i) => p = q
  /\ \A i \in Index : ~Gone(i) => calls[i] <= Cardinality(Spent(i))

\* The steps that write attempts.
LEMMA AttemptWriters ==
  ASSUME [Next]_vars
  PROVE  \/ attempts' = attempts
         \/ \E p \in Pass : StartAttempt(p) \/ (Raise(p) /\ PersistFailure(p))
         \/ \E i \in Index : DeleteTask(i)
<1> USE DEF database
<1>1. ASSUME NEW p \in Pass, GraphStep(p)
      PROVE  attempts' = attempts \/ StartAttempt(p)
  <2>1. CASE \/ Load(p) \/ Plan(p) \/ KeepTasks(p) \/ CreateTasks(p) \/ FailPlanning(p) \/ PickTask(p)
             \/ AttemptConflict(p) \/ CallTool(p) \/ Check(p) \/ Judge(p) \/ CreateEscalation(p)
             \/ RecordEscalation(p) \/ Finish(p) \/ TaskGone(p) \/ SkipEscalation(p)
    BY <2>1 DEF Load, Plan, KeepTasks, CreateTasks, FailPlanning, PickTask, AttemptConflict,
       CallTool, Check, Judge, CreateEscalation, RecordEscalation, Finish, TaskGone, SkipEscalation
  <2>2. CASE \/ Execute(p) \/ Verify(p) \/ Escalate(p)
             \/ DecideVerified(p) \/ DecideRetry(p) \/ DecideEscalate(p)
    BY <2>2 DEF Execute, Verify, Escalate, CommitStatuses, DecideVerified, DecideRetry,
       DecideEscalate, Decide
  <2> QED
    BY <1>1, <2>1, <2>2 DEF GraphStep
<1>2. ASSUME NEW p \in Pass, WorkerStep(p) \/ DetectHeld(p) \/ Abandon(p) \/ Crash(p)
      PROVE  attempts' = attempts
  BY <1>2, WorkerFrame
<1>3. ASSUME NEW p \in Pass, Raise(p)
      PROVE  attempts' = attempts \/ PersistFailure(p)
  BY <1>3 DEF Raise
<1>4. ASSUME NEW c \in Reviewer,
             \/ \E e \in DOMAIN escalations, d \in Decision : ReadEscalation(c, e, d)
             \/ ReviewStep(c) \/ LoseRequest(c)
      PROVE  attempts' = attempts
  BY <1>4 DEF ReviewStep, ReadEscalation, CommitDecision, LoadRun, EnqueueRun, EscalationGone,
     LoseRequest
<1>5. UNCHANGED vars => attempts' = attempts
  BY DEF vars
<1> QED
  BY <1>1, <1>2, <1>3, <1>4, <1>5 DEF Next

\* Attempts are added, and deleted with their task.
LEMMA AttemptsStep ==
  ASSUME [Next]_vars
  PROVE  \/ attempts' = attempts
         \/ \E row : attempts' = attempts \cup {row}
         \/ \E i \in Index : DeleteTask(i)
<1>1. ASSUME NEW p \in Pass, StartAttempt(p)
      PROVE  \E row : attempts' = attempts \cup {row}
  BY <1>1 DEF StartAttempt
<1>2. ASSUME NEW p \in Pass, PersistFailure(p)
      PROVE  attempts' = attempts \/ \E row : attempts' = attempts \cup {row}
  BY <1>2 DEF PersistFailure, PersistWith
<1> QED
  BY <1>1, <1>2, AttemptWriters

\* The steps that call a tool.
LEMMA CallsStep ==
  ASSUME IInv, NEW i \in Index, [Next]_vars
  PROVE  \/ calls'[i] = calls[i]
         \/ \E p \in Pass :
              /\ pass[p].node = "tool" /\ i = pass[p].current
              /\ CallTool(p) \/ (TaskGone(p) /\ Gone(i))
              /\ calls'[i] = calls[i] + 1
<1> USE DEF database, history
<1>0. calls \in [Index -> Nat]
  BY DEF IInv, TypeOK
<1>1. ASSUME NEW p \in Pass, GraphStep(p)
      PROVE  \/ calls'[i] = calls[i]
             \/ /\ pass[p].node = "tool" /\ i = pass[p].current
                /\ CallTool(p) \/ (TaskGone(p) /\ Gone(i))
                /\ calls'[i] = calls[i] + 1
  <2>1. CASE \/ Load(p) \/ Plan(p) \/ KeepTasks(p) \/ CreateTasks(p) \/ FailPlanning(p) \/ PickTask(p)
             \/ StartAttempt(p) \/ AttemptConflict(p) \/ Check(p) \/ Judge(p) \/ CreateEscalation(p)
             \/ RecordEscalation(p) \/ Finish(p) \/ SkipEscalation(p)
    BY <2>1 DEF Load, Plan, KeepTasks, CreateTasks, FailPlanning, PickTask, StartAttempt,
       AttemptConflict, Check, Judge, CreateEscalation, RecordEscalation, Finish, SkipEscalation
  <2>2. CASE \/ Execute(p) \/ Verify(p) \/ Escalate(p)
             \/ DecideVerified(p) \/ DecideRetry(p) \/ DecideEscalate(p)
    BY <2>2 DEF Execute, Verify, Escalate, CommitStatuses, DecideVerified, DecideRetry,
       DecideEscalate, Decide
  <2>3. CASE CallTool(p)
    BY <1>0, <2>3 DEF CallTool, At
  <2>4. CASE TaskGone(p)
    BY <1>0, <2>4 DEF TaskGone
  <2> QED
    BY <1>1, <2>1, <2>2, <2>3, <2>4 DEF GraphStep
<1>2. ASSUME NEW p \in Pass, WorkerStep(p) \/ DetectHeld(p) \/ Abandon(p) \/ Crash(p) \/ Raise(p)
      PROVE  calls' = calls
  BY <1>2, WorkerFrame DEF Raise
<1>3. ASSUME NEW c \in Reviewer,
             \/ \E e \in DOMAIN escalations, d \in Decision : ReadEscalation(c, e, d)
             \/ ReviewStep(c) \/ LoseRequest(c)
      PROVE  calls' = calls
  BY <1>3 DEF ReviewStep, ReadEscalation, CommitDecision, LoadRun, EnqueueRun, EscalationGone,
     LoseRequest
<1>4. ASSUME \/ UNCHANGED vars \/ \E j \in Index : DeleteTask(j)
      PROVE  calls' = calls
  BY <1>4 DEF vars, DeleteTask
<1> QED
  BY <1>1, <1>2, <1>3, <1>4 DEF Next

\* A pass comes to its call with an attempt nobody had.
LEMMA CallingStep ==
  ASSUME IInv, NEW p \in Pass, NEW i \in Index, NEW a \in Nat, [Next]_vars, Calling(p, i, a)'
  PROVE  \/ Calling(p, i, a)
         \/ /\ StartAttempt(p) /\ <<i, a>> \notin attempts /\ attempts' = attempts \cup {<<i, a>>}
            /\ pass' = [pass EXCEPT ![p] = pass'[p]]
<1>0. pass \in [Pass -> PassState] /\ pass[p] \in PassState
  BY DEF IInv, TypeOK
<1>1. CASE Rests(p)
  BY <1>1 DEF Rests, Calling
<1>2. CASE StartAttempt(p)
  <2> DEFINE b == Seen(p)[pass[p].current].retry_count
  <2>1. pass' = [pass EXCEPT ![p] = [pass[p] EXCEPT !.node = "tool", !.attempt = b]]
    BY <1>2 DEF StartAttempt, Become
  <2>2. pass'[p] = [pass[p] EXCEPT !.node = "tool", !.attempt = b]
    BY <1>0, <2>1
  <2>3. pass'[p].current = pass[p].current /\ pass'[p].attempt = b
    <3> HIDE DEF b
    <3> QED BY <1>0, <2>2 DEF PassState
  <2>4. i = pass[p].current /\ a = b
    BY <2>3 DEF Calling
  <2>5. <<i, b>> \notin attempts /\ attempts' = attempts \cup {<<i, b>>}
    BY <1>2, <2>4 DEF StartAttempt
  <2> QED
    BY <1>2, <2>1, <2>2, <2>4, <2>5
<1>3. CASE Check(p) \/ Judge(p)
  <2>1. \/ \E v \in Verdict : pass'[p] = [pass[p] EXCEPT !.node = "decide", !.verdict = v]
        \/ pass'[p] = [pass[p] EXCEPT !.node = "judge"]
    BY <1>0, <1>3 DEF Check, Judge, Become
  <2> QED
    BY <1>0, <2>1 DEF Calling, PassState
<1> QED
  BY <1>1, <1>2, <1>3, PassStep DEF Moves, Calling

\* The attempts that are no longer waiting for a call stay so, as long as their task does.
LEMMA SpentStays ==
  ASSUME IInv, RowsOfTasks, CallsOnRecord, NEW i \in Index, ~Gone(i)', [Next]_vars
  PROVE  /\ Spent(i) \subseteq Spent(i)'
         /\ IsFiniteSet(attempts') /\ IsFiniteSet(Spent(i)) /\ IsFiniteSet(Spent(i)')
<1>0. task \in [Index -> Task] /\ attempts \subseteq Index \X Nat
  BY DEF IInv, TypeOK
<1>1. IsFiniteSet(attempts')
  <2>1. ASSUME NEW j \in Index, DeleteTask(j)
        PROVE  attempts' \in SUBSET attempts
    BY <2>1 DEF DeleteTask
  <2> QED
    BY <2>1, AttemptsStep, FS_Subset, FS_AddElement DEF CallsOnRecord
<1>2. ASSUME NEW row \in attempts, row[1] = i
      PROVE  row \in attempts'
  <2>1. ASSUME NEW j \in Index, DeleteTask(j)
        PROVE  j # i
    BY <1>0, <2>1 DEF DeleteTask, Gone, NoTask
  <2>2. ASSUME NEW j \in Index, DeleteTask(j)
        PROVE  row \in attempts'
    BY <1>2, <2>1, <2>2 DEF DeleteTask
  <2> QED
    BY <1>2, <2>2, AttemptsStep
<1>3. ASSUME NEW row \in Spent(i), NEW p \in Pass, Calling(p, i, row[2])'
      PROVE  FALSE
  <2>1. row = <<i, row[2]>> /\ row[2] \in Nat
    BY <1>0 DEF Spent
  <2> QED
    BY <1>3, <2>1, CallingStep DEF Spent
<1>4. Spent(i) \subseteq Spent(i)'
  BY <1>2, <1>3 DEF Spent
<1>5. Spent(i) \in SUBSET attempts /\ Spent(i)' \in SUBSET attempts'
  BY DEF Spent
<1> QED
  BY <1>1, <1>4, <1>5, FS_Subset DEF CallsOnRecord

\* No step calls a tool without a row in task_attempts to spare.
LEMMA CallsOnRecordStep ==
  ASSUME IInv, RowsOfTasks, CallsOnRecord, [Next]_vars
  PROVE  CallsOnRecord'
<1>0. IInv' /\ task \in [Index -> Task] /\ calls \in [Index -> Nat]
  BY NextIInv DEF IInv, TypeOK
<1>g. ASSUME NEW i \in Index, ~Gone(i)'
      PROVE  ~Gone(i)
  BY <1>g, TaskStep
<1>1. IsFiniteSet(attempts')
  <2>1. CASE \E i \in Index : DeleteTask(i)
    <3>1. attempts' \in SUBSET attempts
      BY <2>1 DEF DeleteTask
    <3> QED
      BY <3>1, FS_Subset DEF CallsOnRecord
  <2> QED
    BY <2>1, AttemptsStep, FS_AddElement DEF CallsOnRecord
<1>2. ASSUME NEW p \in Pass, NEW i \in Index, NEW a \in Nat, Calling(p, i, a)', ~Gone(i)'
      PROVE  <<i, a>> \in attempts'
  <2>1. CASE Calling(p, i, a)
    <3>1. <<i, a>> \in attempts
      BY <1>2, <1>g, <2>1 DEF CallsOnRecord
    <3>2. ASSUME NEW j \in Index, DeleteTask(j)
          PROVE  <<i, a>> \in attempts'
      <4>1. j # i
        BY <1>0, <1>2, <3>2 DEF DeleteTask, Gone, NoTask
      <4> QED
        BY <3>1, <3>2, <4>1 DEF DeleteTask
    <3> QED
      BY <3>1, <3>2, AttemptsStep
  <2> QED
    BY <1>2, <2>1, CallingStep
<1>3. ASSUME NEW p \in Pass, NEW q \in Pass, NEW i \in Index, NEW a \in Nat,
             Calling(p, i, a)', Calling(q, i, a)', ~Gone(i)'
      PROVE  p = q
  <2>1. CASE Calling(p, i, a) /\ Calling(q, i, a)
    BY <1>3, <1>g, <2>1 DEF CallsOnRecord
  <2>2. ASSUME NEW r \in Pass, NEW s \in Pass, ~Calling(r, i, a), Calling(r, i, a)', Calling(s, i, a)'
        PROVE  r = s
    <3>1. /\ <<i, a>> \notin attempts /\ pass' = [pass EXCEPT ![r] = pass'[r]]
      BY <2>2, CallingStep
    <3>2. ~Calling(s, i, a)
      BY <1>3, <1>g, <3>1 DEF CallsOnRecord
    <3>3. r # s => pass'[s] = pass[s]
      BY <3>1 DEF IInv, TypeOK
    <3> QED
      BY <2>2, <3>2, <3>3 DEF Calling
  <2> QED
    BY <1>3, <2>1, <2>2
<1>4. ASSUME NEW i \in Index, ~Gone(i)'
      PROVE  calls'[i] <= Cardinality(Spent(i)')
  <2>1. /\ Spent(i) \subseteq Spent(i)'
        /\ IsFiniteSet(Spent(i)) /\ IsFiniteSet(Spent(i)')
    BY <1>4, SpentStays
  <2>2. calls[i] <= Cardinality(Spent(i)) /\ calls[i] \in Nat
    BY <1>0, <1>4, <1>g DEF CallsOnRecord
  <2>3. Cardinality(Spent(i)) \in Nat /\ Cardinality(Spent(i)') \in Nat
    BY <2>1, FS_CardinalityType
  <2>4. CASE calls'[i] = calls[i]
    <3>1. Spent(i) \in SUBSET Spent(i)'
      BY <2>1
    <3>2. Cardinality(Spent(i)) <= Cardinality(Spent(i)')
      <4> DEFINE S == Spent(i)
                 T == Spent(i)'
      <4> HIDE DEF S, T
      <4>1. S \in SUBSET T /\ IsFiniteSet(T)
        BY <2>1, <3>1 DEF S, T
      <4>2. Cardinality(S) <= Cardinality(T)
        BY <4>1, FS_Subset
      <4> QED
        BY <4>2 DEF S, T
    <3> QED
      BY <2>2, <2>3, <2>4, <3>2
  <2>5. ASSUME NEW p \in Pass, CallTool(p), i = pass[p].current
        PROVE  calls'[i] <= Cardinality(Spent(i)')
    <3>1. pass[p].attempt \in Nat /\ pass[p] \in PassState
      BY <2>5 DEF IInv, TypeOK, HasTask, CallTool, At, Attempting
    <3>a. PICK a \in Nat : a = pass[p].attempt
      BY <3>1
    <3> DEFINE row == <<i, a>>
               S == Spent(i)
               T == Spent(i)'
    <3>2. Calling(p, i, a)
      BY <2>5, <3>a DEF Calling, CallTool, At
    <3>3. row \in attempts /\ row \notin S
      BY <1>4, <1>g, <3>1, <3>2 DEF CallsOnRecord, Spent
    <3>4. attempts' = attempts /\ ~Calling(p, i, a)'
      <4>1. pass'[p] = [pass[p] EXCEPT !.node = "verify", !.task[i] = task[i]]
        BY <2>5 DEF CallTool, Become, IInv, TypeOK
      <4>2. pass'[p].node = "verify"
        BY <3>1, <4>1 DEF PassState
      <4> QED
        BY <2>5, <4>2 DEF CallTool, database, Calling
    <3>5. ASSUME NEW q \in Pass, Calling(q, i, a)'
          PROVE  FALSE
      <4>1. q # p
        BY <3>4, <3>5
      <4>2. pass'[q] = pass[q]
        BY <2>5, <4>1 DEF CallTool, Become, IInv, TypeOK
      <4>3. Calling(q, i, a)
        BY <3>5, <4>2 DEF Calling
      <4> QED
        BY <1>4, <1>g, <3>2, <4>1, <4>3 DEF CallsOnRecord
    <3>6. row \in T
      BY <3>3, <3>4, <3>5 DEF Spent
    <3>7. S \cup {row} \in SUBSET T
      BY <2>1, <3>6
    <3>8. calls'[i] = calls[i] + 1
      BY <1>0, <2>5 DEF CallTool
    <3>9. Cardinality(S) + 1 <= Cardinality(T)
      <4>1. IsFiniteSet(S) /\ IsFiniteSet(T)
        BY <2>1
      <4> HIDE DEF S, T, row
      <4>2. Cardinality(S \cup {row}) = Cardinality(S) + 1
        BY <3>3, <4>1, FS_AddElement
      <4>3. Cardinality(S \cup {row}) <= Cardinality(T)
        BY <3>7, <4>1, FS_Subset
      <4> QED
        BY <4>2, <4>3
    <3> QED
      BY <2>2, <2>3, <3>8, <3>9
  <2> QED
    BY <1>4, <1>g, <2>4, <2>5, CallsStep
<1> QED
  BY <1>1, <1>2, <1>3, <1>4 DEF CallsOnRecord

RInv == IInv /\ RowsOfTasks /\ CallsOnRecord

\* At the start no tool was called.
LEMMA InitRInv == Init => RInv
<1> SUFFICES ASSUME Init PROVE RInv
  OBVIOUS
<1>1. DOMAIN escalations = {}
  BY DEF Init
<1>2. \A p \in Pass : pass[p].node = "idle"
  BY DEF Init, IdlePass
<1>3. \A i \in Index : Spent(i) = {} /\ calls[i] = 0
  BY DEF Init, Spent
<1>4. IsFiniteSet(attempts) /\ Cardinality({}) = 0
  BY FS_EmptySet DEF Init
<1>5. RowsOfTasks
  BY <1>1 DEF RowsOfTasks
<1>6. CallsOnRecord
  <2>1. ASSUME NEW i \in Index PROVE calls[i] <= Cardinality(Spent(i))
    <3>1. Cardinality(Spent(i)) = 0 /\ calls[i] = 0
      BY <1>3, <1>4
    <3> QED
      BY <3>1
  <2> QED
    BY <1>2, <1>4, <2>1 DEF CallsOnRecord, Calling
<1> QED
  BY <1>5, <1>6, InitIInv DEF RInv

\* For any number of passes and reviewers, whichever of them die or raise: every call of the
\* tool of a task has a row of its own in task_attempts, written before the call.
THEOREM CallsHaveAttempts == Spec => []ToolCallsOnRecord
<1>1. RInv /\ [Next]_vars => RInv'
  BY NextIInv, RowsOfTasksStep, CallsOnRecordStep DEF RInv
<1>2. ASSUME RInv PROVE ToolCallsOnRecord
  <2> SUFFICES ASSUME NEW i \in Planned(task)
               PROVE  calls[i] <= Cardinality({a \in attempts : a[1] = i})
    BY DEF ToolCallsOnRecord
  <2> DEFINE T == {a \in attempts : a[1] = i}
  <2>1. i \in Index /\ ~Gone(i)
    BY DEF Planned, Gone, TaskStatus, Deleted
  <2>2. T \in SUBSET attempts /\ Spent(i) \in SUBSET T
    BY DEF Spent
  <2>3. IsFiniteSet(T)
    BY <1>2, <2>2, FS_Subset DEF RInv, CallsOnRecord
  <2> HIDE DEF T
  <2>4. IsFiniteSet(Spent(i)) /\ Cardinality(Spent(i)) <= Cardinality(T)
    BY <2>2, <2>3, FS_Subset
  <2>5. Cardinality(T) \in Nat /\ Cardinality(Spent(i)) \in Nat
    BY <2>3, <2>4, FS_CardinalityType
  <2>6. calls[i] <= Cardinality(Spent(i)) /\ calls[i] \in Nat
    BY <1>2, <2>1 DEF RInv, CallsOnRecord, IInv, TypeOK
  <2> QED
    BY <2>4, <2>5, <2>6 DEF T
<1> QED
  BY InitRInv, <1>1, <1>2, PTL DEF Spec

=============================================================================
