-------------------------- MODULE RunGraphOutcomes --------------------------
(***************************************************************************)
(* Proofs about what becomes of a run whose reviewers decide one at a time, *)
(* for every number of passes, tasks, retries, faults, crashes and          *)
(* deletions: what is escalated can be reviewed, what is sent back is       *)
(* executed, and what is reported as completed is verified.                 *)
(***************************************************************************)
EXTENDS RunGraphOneReviewer

-----------------------------------------------------------------------------
(* What is left to review.                                                  *)

\* A decision under way knows the task it is about, unless its escalation was deleted.
Remembers(c) ==
  req[c].pc = "deciding" /\ Waits(req[c].escalation) => req[c].task = task[Subject(c)]

\* An escalated task is in the review queue, or the pass that escalated it is about to put it
\* there, or was cut off when it was.
Escalating(i) == \E p \in Pass : pass[p].node = "escalating" /\ pass[p].current = i
Listed ==
  \A i \in Index \ torn : task[i].status = "escalated" => HasPending(i) \/ Escalating(i)

EInv == HInv /\ (\A c \in Reviewer : Remembers(c)) /\ Listed

\* Only a pass that has the run writes tasks, or a decision, or a deletion.
LEMMA TaskHolders ==
  ASSUME HInv, [Next]_vars, \A p \in Pass : ~Holds(p)
  PROVE  \/ task' = task
         \/ \E c \in Reviewer : CommitDecision(c)
         \/ \E i \in Index : DeleteTask(i)
<1> USE DEF database
<1>1. ASSUME NEW p \in Pass, GraphStep(p)
      PROVE  task' = task
  <2>1. pass[p].node \notin Working
    BY DEF Holds
  <2>2. CASE \/ Load(p) \/ Plan(p) \/ KeepTasks(p) \/ CreateTasks(p) \/ FailPlanning(p)
             \/ PickTask(p) \/ Execute(p) \/ StartAttempt(p) \/ AttemptConflict(p) \/ CallTool(p)
             \/ Verify(p) \/ Check(p) \/ Judge(p)
             \/ DecideVerified(p) \/ DecideRetry(p) \/ DecideEscalate(p)
             \/ Escalate(p) \/ CreateEscalation(p) \/ SkipEscalation(p)
    BY <2>1, <2>2 DEF Working, Node, Load, Plan, KeepTasks, CreateTasks, FailPlanning, PickTask,
       Execute, StartAttempt, AttemptConflict, CallTool, Verify, Check, Judge, DecideVerified,
       DecideRetry, DecideEscalate, Decide, Escalate, CreateEscalation, SkipEscalation,
       CommitStatuses, At
  <2>3. CASE RecordEscalation(p) \/ Finish(p) \/ TaskGone(p)
    BY <2>3 DEF RecordEscalation, Finish, TaskGone
  <2> QED
    BY <1>1, <2>2, <2>3 DEF GraphStep
<1>2. ASSUME NEW p \in Pass, WorkerStep(p) \/ DetectHeld(p) \/ Abandon(p) \/ Crash(p) \/ Raise(p)
      PROVE  task' = task
  BY <1>2, PersistsNothing, WorkerFrame DEF Raise
<1>3. ASSUME NEW c \in Reviewer,
             \/ \E e \in DOMAIN escalations, d \in Decision : ReadEscalation(c, e, d)
             \/ ReviewStep(c) \/ LoseRequest(c)
      PROVE  task' = task \/ CommitDecision(c)
  BY <1>3 DEF ReviewStep, ReadEscalation, LoadRun, EnqueueRun, EscalationGone, LoseRequest
<1>4. UNCHANGED vars => task' = task
  BY DEF vars
<1> QED
  BY <1>1, <1>2, <1>3, <1>4 DEF Next

\* An escalation waits from its insertion until it is decided on or deleted.
LEMMA WaitingStep ==
  ASSUME IInv, NEW e \in DOMAIN escalations, [Next]_vars
  PROVE  Waits(e)' <=> /\ Waits(e) /\ ~DeleteTask(escalations[e].task)
                       /\ ~\E c \in Reviewer : CommitDecision(c) /\ e = req[c].escalation
<1>0. escalations[e] \in Escalation /\ escalations[e].task \in Index
  BY EscalationType DEF IInv
<1>1. escalations' = escalations => Waits(e)' = Waits(e)
  BY DEF Waits
<1>2. ASSUME NEW i \in Index, escalations' = Append(escalations, NewEscalation(i))
      PROVE  Waits(e)' = Waits(e)
  <2>1. escalations'[e] = escalations[e]
    BY <1>2, NewEscalationType DEF IInv
  <2> QED
    BY <2>1 DEF Waits
<1>3. ASSUME NEW c \in Reviewer, CommitDecision(c)
      PROVE  /\ e = req[c].escalation => ~Waits(e)'
             /\ e # req[c].escalation => Waits(e)' = Waits(e)
  <2> DEFINE row == Resolved(escalations[req[c].escalation], req[c].decision)
  <2>1. escalations' = [escalations EXCEPT ![req[c].escalation] = row]
    BY <1>3 DEF CommitDecision
  <2>2. e = req[c].escalation => row.status # "pending_review"
    <3>1. req[c].decision \in Decision
      BY DEF IInv, TypeOK, Request
    <3> QED
      BY <1>0, <3>1, ResolvedType
  <2> HIDE DEF row
  <2> QED
    BY <2>1, <2>2 DEF Waits
<1>4. ASSUME NEW i \in Index, DeleteTask(i)
      PROVE  /\ i = escalations[e].task => ~Waits(e)'
             /\ i # escalations[e].task => Waits(e)' = Waits(e)
  <2>1. escalations'[e] = IF escalations[e].task = i THEN [escalations[e] EXCEPT !.status = Deleted]
                                                     ELSE escalations[e]
    BY <1>4 DEF DeleteTask
  <2>2. [escalations[e] EXCEPT !.status = Deleted].status = Deleted
    BY <1>0 DEF Escalation
  <2> QED
    BY <2>1, <2>2 DEF Waits, Deleted
<1>5. UNCHANGED vars => escalations' = escalations
  BY DEF vars, database
<1>6. \/ Waits(e)' = Waits(e)
      \/ DeleteTask(escalations[e].task)
      \/ \E c \in Reviewer : CommitDecision(c) /\ e = req[c].escalation
  BY <1>1, <1>2, <1>3, <1>4, <1>5, EscalationWriters
<1> QED
  BY <1>0, <1>3, <1>4, <1>6

\* While an escalation waits that is not decided on, its task and the others stay, unless
\* one of the others is deleted.
LEMMA StillWaiting ==
  ASSUME HInv, [Next]_vars, NEW e \in DOMAIN escalations, Waits(e)',
         ~\E c \in Reviewer : CommitDecision(c)
  PROVE  /\ Waits(e) /\ escalations'[e].task = escalations[e].task
         /\ \A j \in Index : task'[j] = task[j] \/ (task'[j] = NoTask /\ j # escalations[e].task)
<1>1. Waits(e) /\ ~DeleteTask(escalations[e].task) /\ escalations'[e].task = escalations[e].task
  BY WaitingStep, RowStep DEF HInv
<1>2. \A p \in Pass : ~Holds(p)
  BY <1>1 DEF HInv, Held, OneHolder
<1>3. ASSUME NEW i \in Index, DeleteTask(i), NEW j \in Index
      PROVE  task'[j] = task[j] \/ (task'[j] = NoTask /\ j # escalations[e].task)
  BY <1>1, <1>3 DEF DeleteTask, HInv, IInv, TypeOK
<1> QED
  BY <1>1, <1>2, <1>3, TaskHolders

\* Only requests write requests.
LEMMA RequestStep ==
  ASSUME [Next]_vars
  PROVE  \/ req' = req /\ ~\E c \in Reviewer : CommitDecision(c)
         \/ \E c \in Reviewer : \/ \E e \in DOMAIN escalations, d \in Decision :
                                     ReadEscalation(c, e, d)
                                \/ ReviewStep(c) \/ LoseRequest(c)
<1>1. ASSUME NEW p \in Pass, GraphStep(p)
      PROVE  req' = req
  BY <1>1 DEF GraphStep, Load, Plan, KeepTasks, CreateTasks, FailPlanning, PickTask, Execute,
     StartAttempt, AttemptConflict, CallTool, Verify, Check, Judge, DecideVerified, DecideRetry,
     DecideEscalate, Decide, Escalate, CreateEscalation, RecordEscalation, Finish, TaskGone,
     SkipEscalation, CommitStatuses
<1>2. ASSUME NEW p \in Pass, WorkerStep(p) \/ DetectHeld(p) \/ Abandon(p) \/ Crash(p) \/ Raise(p)
      PROVE  req' = req
  BY <1>2, WorkerFrame DEF Raise
<1>3. UNCHANGED vars \/ (\E i \in Index : DeleteTask(i)) => req' = req
  BY DEF vars, DeleteTask
<1> QED
  BY <1>1, <1>2, <1>3 DEF Next, ReviewStep

\* What a request knows of its task stays true while the escalation waits: nobody else has
\* the run then.
LEMMA RemembersStep ==
  ASSUME OneReviewer, HInv, [Next]_vars, NEW c \in Reviewer, Remembers(c)
  PROVE  Remembers(c)'
<1> USE DEF database
<1> DEFINE e == req[c].escalation
<1>1. ASSUME NEW f \in DOMAIN escalations, NEW d \in Decision, ReadEscalation(c, f, d)
      PROVE  Remembers(c)'
  <2> DEFINE target == Reconciled([task EXCEPT ![escalations[f].task] = Decided(@, d)])
             q == [IdleRequest EXCEPT
                     !.pc = "deciding", !.escalation = f, !.decision = d,
                     !.task = task[escalations[f].task], !.run = status, !.target = target]
  <2>1. q.escalation = f /\ q.task = task[escalations[f].task]
    BY DEF IdleRequest
  <2>2. req' = [req EXCEPT ![c] = q] /\ UNCHANGED <<task, escalations>>
    BY <1>1 DEF ReadEscalation
  <2> HIDE DEF q
  <2>3. req'[c] = q
    BY <2>2, OneRequest
  <2> QED
    BY <2>1, <2>2, <2>3 DEF Remembers, Subject
<1>2. ASSUME NEW q, req' = [req EXCEPT ![c] = q], q.pc # "deciding"
      PROVE  Remembers(c)'
  <2>1. req'[c] = q
    BY <1>2, OneRequest
  <2> QED
    BY <1>2, <2>1 DEF Remembers
<1>3. CASE CommitDecision(c)
  <2> DEFINE q == IF req[c].decision = "send_back"
                    THEN [IdleRequest EXCEPT !.pc = "decided", !.escalation = e] ELSE IdleRequest
  <2>1. q.pc # "deciding" /\ req' = [req EXCEPT ![c] = q]
    BY <1>3 DEF CommitDecision, IdleRequest
  <2> HIDE DEF q
  <2> QED
    BY <1>2, <2>1
<1>4. CASE LoadRun(c) \/ EnqueueRun(c) \/ EscalationGone(c) \/ LoseRequest(c)
  <2>1. /\ IdleRequest.pc # "deciding"
        /\ [IdleRequest EXCEPT !.pc = "loaded", !.run = status, !.owner = owner].pc # "deciding"
    BY DEF IdleRequest
  <2> QED
    BY <1>2, <1>4, <2>1 DEF LoadRun, EnqueueRun, EscalationGone, LoseRequest
<1>5. ASSUME req' = req, ~\E d \in Reviewer : CommitDecision(d)
      PROVE  Remembers(c)'
  <2> SUFFICES ASSUME NEW f \in DOMAIN escalations, f = req[c].escalation,
                      req[c].pc = "deciding", Waits(f)'
               PROVE  req[c].task = task'[escalations'[f].task]
    BY <1>5 DEF Remembers, Subject, HInv, IInv, HasRow
  <2>1. /\ Waits(f) /\ escalations'[f].task = escalations[f].task
        /\ task'[escalations[f].task] = task[escalations[f].task]
    BY <1>5, StillWaiting, EscalationType DEF HInv, IInv
  <2> QED
    BY <2>1 DEF Remembers, Subject
<1>6. \A d \in Reviewer : d = c
  BY DEF OneReviewer
<1> QED
  BY <1>1, <1>2, <1>3, <1>4, <1>5, <1>6, RequestStep DEF ReviewStep

\* Faults and deletions are counted.
LEMMA BoundsStep ==
  ASSUME IInv, [Next]_vars
  PROVE  /\ faults' = 0 => faults = 0 /\ \A p \in Pass : ~Raise(p)
         /\ deletes' = 0 => deletes = 0 /\ \A i \in Index : ~DeleteTask(i)
<1> USE DEF history, bounds
<1>0. faults \in Nat /\ deletes \in Nat
  BY SizesAreNat DEF IInv, TypeOK
<1>1. ASSUME NEW p \in Pass, GraphStep(p)
      PROVE  UNCHANGED bounds
  BY <1>1 DEF GraphStep, Load, Plan, KeepTasks, CreateTasks, FailPlanning, PickTask, Execute,
     StartAttempt, AttemptConflict, CallTool, Verify, Check, Judge, DecideVerified, DecideRetry,
     DecideEscalate, Decide, Escalate, CreateEscalation, RecordEscalation, Finish, TaskGone,
     SkipEscalation, CommitStatuses
<1>2. ASSUME NEW p \in Pass, WorkerStep(p) \/ DetectHeld(p) \/ Abandon(p) \/ Crash(p) \/ Raise(p)
      PROVE  faults' \in {faults, faults + 1} /\ deletes' = deletes
  BY <1>2, WorkerFrame DEF Raise
<1>3. ASSUME NEW c \in Reviewer,
             \/ \E e \in DOMAIN escalations, d \in Decision : ReadEscalation(c, e, d)
             \/ ReviewStep(c) \/ LoseRequest(c)
      PROVE  faults' = faults /\ deletes' = deletes
  BY <1>3 DEF ReviewStep, ReadEscalation, CommitDecision, LoadRun, EnqueueRun, EscalationGone,
     LoseRequest
<1>4. ASSUME NEW i \in Index, DeleteTask(i)
      PROVE  faults' = faults /\ deletes' = deletes + 1
  BY <1>4 DEF DeleteTask
<1>5. UNCHANGED vars => UNCHANGED bounds
  BY DEF vars
<1>6. faults' \in {faults, faults + 1} /\ deletes' \in {deletes, deletes + 1}
  BY <1>1, <1>2, <1>3, <1>4, <1>5 DEF Next
<1>7. \A p \in Pass : Raise(p) => faults' = faults + 1
  BY DEF Raise
<1> QED
  BY <1>0, <1>4, <1>6, <1>7

\* A task whose pass was cut off stays so, and a pass that escalates is cut off by a crash, by
\* the loss of its run, and by an exception that is not persisted.
LEMMA TornStep ==
  ASSUME [Next]_vars
  PROVE  /\ torn \subseteq torn'
         /\ \A p \in Pass : pass[p].node = "escalating" =>
              /\ Abandon(p) \/ Crash(p) => pass[p].current \in torn'
              /\ Raise(p) => pass[p].current \in torn' \/ PersistFailure(p)
<1> USE DEF history, bounds
<1>1. ASSUME NEW p \in Pass, GraphStep(p)
      PROVE  torn' = torn
  BY <1>1 DEF GraphStep, Load, Plan, KeepTasks, CreateTasks, FailPlanning, PickTask, Execute,
     StartAttempt, AttemptConflict, CallTool, Verify, Check, Judge, DecideVerified, DecideRetry,
     DecideEscalate, Decide, Escalate, CreateEscalation, RecordEscalation, Finish, TaskGone,
     SkipEscalation, CommitStatuses
<1>2. ASSUME NEW p \in Pass, WorkerStep(p) \/ DetectHeld(p) \/ Abandon(p) \/ Crash(p) \/ Raise(p)
      PROVE  torn \subseteq torn'
  BY <1>2 DEF WorkerStep, Claim, Complete, DetectStuck, DetectHeld, Detect, MarkStuck,
     ReadFailedRun, RecordFailure, Abandon, Crash, Raise, TornBy
<1>3. ASSUME NEW c \in Reviewer,
             \/ \E e \in DOMAIN escalations, d \in Decision : ReadEscalation(c, e, d)
             \/ ReviewStep(c) \/ LoseRequest(c)
      PROVE  torn' = torn
  BY <1>3 DEF ReviewStep, ReadEscalation, CommitDecision, LoadRun, EnqueueRun, EscalationGone,
     LoseRequest
<1>4. (\E i \in Index : DeleteTask(i)) \/ UNCHANGED vars => torn' = torn
  BY DEF DeleteTask, vars
<1>5. ASSUME NEW p \in Pass, pass[p].node = "escalating"
      PROVE  /\ Abandon(p) \/ Crash(p) => pass[p].current \in torn'
             /\ Raise(p) => pass[p].current \in torn' \/ PersistFailure(p)
  BY <1>5 DEF Abandon, Crash, Raise, TornBy
<1> QED
  BY <1>1, <1>2, <1>3, <1>4, <1>5 DEF Next

\* A pass that raises while it has the run puts its task in the review queue.
LEMMA FailureIsListed ==
  ASSUME HInv, NEW p \in Pass, Holds(p), PersistFailure(p), NEW i \in Index,
         pass[p].current = i, ~Gone(i)
  PROVE  HasPending(i)'
<1>1. \A e \in DOMAIN escalations : ~Waits(e)
  BY DEF HInv, Held, OneHolder
<1>2. NeedsEscalation(p)
  BY <1>1 DEF NeedsEscalation, HasPending, Waits, Holds, Working
<1>3. i # None
  BY NoneIsNoPass DEF Index
<1>4. escalations' = Append(escalations, NewEscalation(i))
  BY <1>2, <1>3 DEF PersistFailure, PersistWith
<1>5. /\ Len(escalations') \in DOMAIN escalations'
      /\ escalations'[Len(escalations')] = NewEscalation(i)
  BY <1>4, NewEscalationType, AppendProperties, LenProperties DEF HInv, IInv, TypeOK
<1> QED
  BY <1>5 DEF HasPending, NewEscalation

\* A node that raises puts the task it escalates in the review queue.
LEMMA RaiseEscalates ==
  ASSUME HInv, NEW p \in Pass, Raise(p), NEW i \in Index, task'[i].status = "escalated",
         task[i].status # "escalated"
  PROVE  HasPending(i)'
<1>1. PersistFailure(p) /\ pass[p].node \in Node
  BY DEF Raise
<1>2. Holds(p)
  BY <1>1, PersistsNothing
<1>3. pass[p].current # None /\ ~Gone(pass[p].current)
  BY <1>1 DEF PersistFailure, PersistWith
<1>4. pass[p].current \in Index
  BY <1>3 DEF HInv, IInv, TypeOK, PassState
<1>5. i = pass[p].current
  BY <1>1, <1>3, <1>4 DEF PersistFailure, PersistWith, SendTask, HInv, IInv, TypeOK
<1> QED
  BY <1>1, <1>2, <1>3, <1>5, FailureIsListed

\* A pass that is about to insert its escalation does, unless it is cut off.
LEMMA EscalatingStep ==
  ASSUME HInv, [Next]_vars, NEW i \in Index, Escalating(i), ~Gone(i)', i \notin torn'
  PROVE  HasPending(i)' \/ Escalating(i)'
<1>0. PICK p \in Pass : pass[p].node = "escalating" /\ pass[p].current = i
  BY DEF Escalating
<1>1. /\ ~Gone(i) /\ Holds(p)
      /\ ~Abandon(p) /\ ~Crash(p) /\ (Raise(p) => PersistFailure(p))
  BY <1>0, TaskStep, TornStep DEF HInv, Holds, Working, Node
<1>2. CASE pass'[p].node = pass[p].node /\ pass'[p].current = pass[p].current
  BY <1>0, <1>2 DEF Escalating
<1>3. CASE CreateEscalation(p)
  <2>1. escalations' = Append(escalations, NewEscalation(i))
    BY <1>0, <1>3 DEF CreateEscalation
  <2>2. /\ Len(escalations') \in DOMAIN escalations'
        /\ escalations'[Len(escalations')] = NewEscalation(i)
    BY <2>1, NewEscalationType, AppendProperties, LenProperties DEF HInv, IInv, TypeOK
  <2> QED
    BY <2>2 DEF HasPending, NewEscalation
<1>4. ASSUME NEW q \in Pass, q # p, NEW next, Become(q, next)
      PROVE  pass'[p] = pass[p]
  BY <1>4, Moved DEF HInv
<1>5. ASSUME NEW q \in Pass, GraphStep(q)
      PROVE  pass'[p] = pass[p] \/ CreateEscalation(p)
  <2>1. \E next : Become(q, next)
    BY <1>5 DEF GraphStep, Load, Plan, KeepTasks, CreateTasks, FailPlanning, PickTask, Execute,
       StartAttempt, AttemptConflict, CallTool, Verify, Check, Judge, DecideVerified, DecideRetry,
       DecideEscalate, Decide, Escalate, CreateEscalation, RecordEscalation, Finish, TaskGone,
       SkipEscalation, CommitStatuses, Over
  <2>2. CASE q = p
    BY <1>0, <1>1, <1>5, <2>2 DEF GraphStep, Load, Plan, KeepTasks, CreateTasks, FailPlanning,
       PickTask, Execute, StartAttempt, AttemptConflict, CallTool, Verify, Check, Judge,
       DecideVerified, DecideRetry, DecideEscalate, Decide, Escalate, RecordEscalation, Finish,
       TaskGone, SkipEscalation, CommitStatuses, At
  <2> QED
    BY <1>4, <2>1, <2>2
<1>6. ASSUME NEW q \in Pass, WorkerStep(q) \/ DetectHeld(q) \/ Abandon(q) \/ Crash(q)
      PROVE  pass'[p] = pass[p]
  <2>1. \E next : Become(q, next)
    BY <1>6, Aside DEF HInv, IInv, Claim
  <2>2. q # p
    BY <1>0, <1>1, <1>6 DEF WorkerStep, Claim, Complete, DetectStuck, DetectHeld, Detect,
       MarkStuck, ReadFailedRun, RecordFailure
  <2> QED
    BY <1>4, <2>1, <2>2
<1>10. ASSUME NEW q \in Pass, Raise(q)
       PROVE  pass'[p] = pass[p] \/ HasPending(i)'
  <2>1. CASE q = p
    BY <1>0, <1>1, <1>10, <2>1, FailureIsListed
  <2>2. CASE q # p
    BY <1>4, <1>10, <2>2 DEF Raise, Over
  <2> QED
    BY <2>1, <2>2
<1>7. ASSUME NEW k \in Index, DeleteTask(k)
      PROVE  pass'[p].node = pass[p].node /\ pass'[p].current = pass[p].current
  <2>1. /\ pass[p] \in PassState
        /\ pass'[p] = IF pass[p].cached THEN [pass[p] EXCEPT !.task[k] = NoTask] ELSE pass[p]
    BY <1>7 DEF DeleteTask, HInv, IInv, TypeOK
  <2> QED
    BY <2>1 DEF PassState
<1>8. ASSUME NEW c \in Reviewer,
             \/ \E e \in DOMAIN escalations, d \in Decision : ReadEscalation(c, e, d)
             \/ ReviewStep(c) \/ LoseRequest(c)
      PROVE  pass' = pass
  BY <1>8 DEF ReviewStep, ReadEscalation, CommitDecision, LoadRun, EnqueueRun, EscalationGone,
     LoseRequest
<1>9. UNCHANGED vars => pass' = pass
  BY DEF vars
<1> QED
  BY <1>2, <1>3, <1>5, <1>6, <1>7, <1>8, <1>9, <1>10 DEF Next

\* A task that is decided on is not escalated any more.
LEMMA DecisionSettles ==
  ASSUME HInv, NEW c \in Reviewer, Remembers(c), CommitDecision(c), NEW i \in Index
  PROVE  /\ Waits(req[c].escalation) /\ Subject(c) \in Index
         /\ i # Subject(c) => task'[i] = task[i]
         /\ task'[Subject(c)].status = Decided(req[c].task, req[c].decision).status
         /\ task'[Subject(c)].status \in {"verified", "failed", "pending"}
<1> DEFINE q == req[c]
           k == Subject(c)
           new == Decided(q.task, q.decision)
<1>1. q \in Request /\ q.pc = "deciding" /\ q.escalation \in DOMAIN escalations
  BY DEF CommitDecision, HInv, IInv, TypeOK, HasRow
<1>2. Waits(q.escalation) /\ q.task = task[k] /\ k \in Index
  BY <1>1, EscalationType DEF CommitDecision, HInv, IInv, Held, Deciding, Remembers, Subject
<1>3. q.task \in Task /\ q.decision \in Decision
  BY <1>1 DEF Request
<1>4. new.status \in {"verified", "failed", "pending"}
  <2> HIDE DEF q
  <2> QED BY <1>3 DEF Decided, Decision, Task
<1>5. task' = [task EXCEPT ![k] =
                 [status |-> Sent(q.task.status, new.status, @.status),
                  retry_count |-> Sent(q.task.retry_count, new.retry_count, @.retry_count)]]
  BY DEF CommitDecision, Subject
<1> HIDE DEF q, k, new
<1>6. task \in [Index -> Task]
  BY DEF HInv, IInv, TypeOK
<1>7. task'[k].status = Sent(q.task.status, new.status, task[k].status)
  BY <1>2, <1>5, <1>6
<1>8. task'[k].status = new.status
  BY <1>2, <1>7 DEF Sent
<1>9. i # k => task'[i] = task[i]
  BY <1>5, <1>6
<1> QED
  BY <1>2, <1>4, <1>8, <1>9 DEF q, k, new

\* The status a pass writes is "escalated" only on its way to insert the escalation.
LEMMA PassEscalates ==
  ASSUME HInv, NEW p \in Pass, GraphStep(p), NEW i \in Index, task'[i].status = "escalated"
  PROVE  task[i].status = "escalated" \/ HasPending(i)' \/ Escalating(i)'
<1> USE DEF database
<1>0. task \in [Index -> Task] /\ pass[p] \in PassState
  BY DEF HInv, IInv, TypeOK
<1>1. CASE \/ Load(p) \/ Plan(p) \/ KeepTasks(p) \/ PickTask(p) \/ StartAttempt(p)
           \/ AttemptConflict(p) \/ CallTool(p) \/ Check(p) \/ Judge(p) \/ CreateEscalation(p)
           \/ RecordEscalation(p) \/ Finish(p) \/ TaskGone(p) \/ SkipEscalation(p)
  BY <1>1 DEF Load, Plan, KeepTasks, PickTask, StartAttempt, AttemptConflict, CallTool, Check,
     Judge, CreateEscalation, RecordEscalation, Finish, TaskGone, SkipEscalation
<1>2. CASE CreateTasks(p)
  BY <1>2 DEF CreateTasks
<1>3. CASE FailPlanning(p)
  <2>1. PICK k \in Index : /\ task' = [task EXCEPT ![k] = [status |-> "escalated", retry_count |-> 0]]
                           /\ escalations' = Append(escalations, NewEscalation(k))
    BY <1>3 DEF FailPlanning
  <2>2. CASE i # k
    BY <1>0, <2>1, <2>2
  <2>3. CASE i = k
    <3>1. /\ Len(escalations') \in DOMAIN escalations'
          /\ escalations'[Len(escalations')] = NewEscalation(i)
      BY <2>1, <2>3, NewEscalationType, AppendProperties, LenProperties DEF HInv, IInv, TypeOK
    <3> QED
      BY <3>1 DEF HasPending, NewEscalation
  <2> QED
    BY <2>2, <2>3
<1>4. ASSUME NEW from \in AtTask \ {"escalated"}, NEW to, NEW s, NEW t \in TaskStatus,
             CommitStatuses(p, from, to, s, t)
      PROVE  /\ i = pass[p].current => task'[i].status = t
             /\ i # pass[p].current => task'[i] = task[i]
             /\ pass'[p].node = to /\ pass'[p].current = pass[p].current
  <2> DEFINE k == pass[p].current
             new == [Seen(p)[k] EXCEPT !.status = t]
             next == [Committed(p, s, k, new) EXCEPT !.node = to]
  <2>1. /\ pass[p].node = from /\ SendTask(p, k, new) /\ Become(p, next) /\ Holds(p)
    BY <1>4 DEF CommitStatuses, At, Holds, AtTask, Attempting, Working, Node
  <2>2. k \in Index /\ Seen(p)[k] \in Task
    BY <2>1, HasCurrent DEF HInv
  <2>3. new \in Task /\ new.status = t
    BY <2>2 DEF Task
  <2>4. next.node = to /\ next.current = k
    <3> HIDE DEF new
    <3> QED BY <1>0 DEF Committed, PassState
  <2> HIDE DEF new, next, k
  <2>5. task' = [task EXCEPT ![k] = new] /\ pass'[p] = next
    BY <2>1, <2>2, <2>3, Writes, Moved DEF HInv
  <2> QED
    BY <1>0, <2>2, <2>3, <2>4, <2>5 DEF k
<1>5. CASE Execute(p) \/ Verify(p)
  BY <1>4, <1>5, StatusTypes DEF Execute, Verify, AtTask, Attempting
<1>6. CASE Escalate(p)
  BY <1>4, <1>6, StatusTypes DEF Escalate, AtTask, Attempting, Escalating
<1>7. ASSUME NEW new \in Task, NEW to, Decide(p, new, to), new.status # "escalated"
      PROVE  task[i].status = "escalated"
  <2> DEFINE k == pass[p].current
  <2>1. pass[p].node = "decide" /\ SendTask(p, k, new)
    BY <1>7 DEF Decide, At
  <2>2. Holds(p) /\ k \in Index
    BY <2>1, HasCurrent DEF HInv, Holds, AtTask, Attempting, Working, Node
  <2>3. task' = [task EXCEPT ![k] = new]
    BY <2>1, <2>2, Writes
  <2> QED
    BY <1>0, <1>7, <2>2, <2>3
<1>8. CASE DecideVerified(p) \/ DecideRetry(p) \/ DecideEscalate(p)
  <2> DEFINE old == Seen(p)[pass[p].current]
             again == [old EXCEPT !.status = "pending", !.retry_count = @ + 1]
  <2>1. pass[p].node = "decide"
    BY <1>8 DEF DecideVerified, DecideRetry, DecideEscalate, Decide, At
  <2>2. old \in Task
    BY <2>1, HasCurrent DEF HInv, AtTask, Attempting
  <2>3. old.retry_count + 1 \in Nat
    BY <2>2 DEF Task
  <2>4. /\ \A s \in {"verified", "failed"} :
             [old EXCEPT !.status = s] \in Task /\ [old EXCEPT !.status = s].status = s
        /\ again \in Task /\ again.status = "pending"
    <3> HIDE DEF old
    <3> QED BY <2>2, <2>3, StatusTypes DEF Task
  <2>5. \/ Decide(p, [old EXCEPT !.status = "verified"], "pick_task")
        \/ Decide(p, again, "execute")
        \/ Decide(p, [old EXCEPT !.status = "failed"], "escalate")
    BY <1>8 DEF DecideVerified, DecideRetry, DecideEscalate
  <2> HIDE DEF old, again
  <2> QED
    BY <1>7, <2>4, <2>5
<1> QED
  BY <1>1, <1>2, <1>3, <1>5, <1>6, <1>8 DEF GraphStep

\* The row of an escalated task stays in the review queue until it is decided on.
LEMMA PendingStep ==
  ASSUME HInv, \A c \in Reviewer : Remembers(c), [Next]_vars, NEW i \in Index, HasPending(i),
         task'[i].status = "escalated"
  PROVE  HasPending(i)'
<1>1. PICK e \in DOMAIN escalations : escalations[e].task = i /\ Waits(e)
  BY DEF HasPending, Waits
<1>2. e \in DOMAIN escalations' /\ escalations'[e].task = i
  BY <1>1, RowStep DEF HInv
<1>3. ASSUME NEW c \in Reviewer, CommitDecision(c), e = req[c].escalation PROVE FALSE
  <2>1. task'[Subject(c)].status # "escalated"
    BY <1>3, ZeroIsIndex, DecisionSettles
  <2> QED
    BY <1>1, <1>3, <2>1 DEF Subject
<1>4. ~DeleteTask(i)
  BY DEF DeleteTask, NoTask, Deleted, HInv, IInv, TypeOK
<1>5. Waits(e)'
  BY <1>1, <1>3, <1>4, WaitingStep DEF HInv
<1> QED
  BY <1>2, <1>5 DEF HasPending, Waits

\* Every escalated task stays listed.
LEMMA ListedStep == ASSUME OneReviewer, EInv, [Next]_vars PROVE Listed'
<1> SUFFICES ASSUME NEW i \in Index, i \notin torn', task'[i].status = "escalated"
             PROVE  HasPending(i)' \/ Escalating(i)'
  BY DEF Listed
<1>0. task \in [Index -> Task] /\ HInv
  BY DEF EInv, HInv, IInv, TypeOK
<1>1. task[i].status = "escalated" => HasPending(i) \/ Escalating(i)
  BY TornStep DEF EInv, Listed
<1>2. CASE task[i].status = "escalated"
  <2>1. ~Gone(i)'
    BY DEF Gone, Deleted
  <2> QED
    BY <1>0, <1>1, <1>2, <2>1, PendingStep, EscalatingStep DEF EInv
<1>3. CASE task[i].status # "escalated"
  <2>1. ASSUME NEW p \in Pass, GraphStep(p)
        PROVE  HasPending(i)' \/ Escalating(i)'
    BY <1>0, <1>3, <2>1, PassEscalates
  <2>2. ASSUME NEW p \in Pass, WorkerStep(p) \/ DetectHeld(p) \/ Abandon(p) \/ Crash(p)
        PROVE  task' = task
    BY <2>2, WorkerFrame DEF database
  <2>3. ASSUME NEW p \in Pass, Raise(p) PROVE HasPending(i)'
    BY <1>0, <1>3, <2>3, RaiseEscalates
  <2>4. ASSUME NEW c \in Reviewer, CommitDecision(c) PROVE FALSE
    <3>1. /\ i # Subject(c) => task'[i] = task[i]
          /\ task'[Subject(c)].status # "escalated"
      BY <2>4, DecisionSettles DEF EInv
    <3> QED
      BY <1>3, <3>1
  <2>5. ASSUME NEW c \in Reviewer,
               \/ \E e \in DOMAIN escalations, d \in Decision : ReadEscalation(c, e, d)
               \/ ReviewStep(c) \/ LoseRequest(c), ~CommitDecision(c)
        PROVE  task' = task
    BY <2>5 DEF ReviewStep, ReadEscalation, LoadRun, EnqueueRun, EscalationGone, LoseRequest, database
  <2>6. ASSUME NEW k \in Index, DeleteTask(k) PROVE task'[i] \in {task[i], NoTask}
    BY <1>0, <2>6 DEF DeleteTask
  <2>7. UNCHANGED vars => task' = task
    BY DEF vars, database
  <2>8. NoTask.status # "escalated"
    BY DEF NoTask, Deleted
  <2> QED
    BY <1>3, <2>1, <2>2, <2>3, <2>4, <2>5, <2>6, <2>7, <2>8 DEF Next
<1> QED
  BY <1>2, <1>3

\* At the start nothing is escalated and nothing decided.
LEMMA InitEInv == Init => EInv
<1> SUFFICES ASSUME Init PROVE EInv
  OBVIOUS
<1>1. \A i \in Index : task[i].status # "escalated"
  BY DEF Init, Unplanned, NoRow
<1>2. \A c \in Reviewer : req[c].pc # "deciding"
  BY DEF Init, IdleRequest
<1> QED
  BY <1>1, <1>2, InitHInv DEF EInv, Remembers, Listed

\* Every step keeps the invariant.
LEMMA NextEInv == ASSUME OneReviewer, EInv, [Next]_vars PROVE EInv'
<1>1. HInv' /\ Listed'
  BY NextHInv, ListedStep DEF EInv
<1>2. \A c \in Reviewer : Remembers(c)'
  BY RemembersStep DEF EInv
<1> QED
  BY <1>1, <1>2 DEF EInv

\* A run at rest has every escalated task in the review queue whose pass was not cut off
\* between the two commits of escalate_node, as long as one reviewer decides at a time, however
\* many nodes raised, processes died, live passes lost their run and tasks were deleted.
THEOREM EscalationsAreListed == ASSUME OneReviewer PROVE Spec => []EscalatedIsReviewable
<1>1. EInv => EscalatedIsReviewable
  BY DEF EInv, Listed, EscalatedIsReviewable, AtRest, Escalating
<1>2. EInv /\ [Next]_vars => EInv'
  BY NextEInv
<1> QED
  BY InitEInv, <1>1, <1>2, PTL DEF Spec

-----------------------------------------------------------------------------
(* What happens to a run that is queued again.                              *)

\* The run has come to its end: nothing takes it up any more.
Nobody ==
  /\ status # "queued" /\ \A p \in Pass : ~Holds(p)
  /\ \A e \in DOMAIN escalations : ~Waits(e)
  /\ \A c \in Reviewer : ~SendsBack(c)

\* A pass that has lost or given away the run will write nothing that is not written yet, or
\* the run has come to its end.
Parted(p) ==
  /\ pass[p].node \in {"escalating", "escalated"} => pass[p].run = "needs_review"
  /\ pass[p].node = "finish" /\ pass[p].cached /\ deletes = 0 =>
       \/ Nobody
       \/ /\ pass[p].run = "needs_review"
          /\ \E i \in Index : pass[p].task[i].status = "escalated"

NoneGone == deletes = 0 => \A i \in Index : ~Gone(i)

PInv == HInv /\ (\A p \in Pass : Parted(p)) /\ NoneGone

\* What a pass does without the run.
LEMMA AwayStep ==
  ASSUME HInv, NEW p \in Pass, ~Holds(p), ~Claim(p),
         GraphStep(p) \/ WorkerStep(p) \/ DetectHeld(p) \/ Abandon(p) \/ Crash(p) \/ Raise(p)
  PROVE  /\ UNCHANGED <<task, escalations, req>>
         /\ status' = "queued" => status = "queued"
         /\ \E next : Become(p, next) /\ next.node \notin Working
<1> USE DEF database, history, bounds
<1>0. pass[p].node \notin Working /\ pass[p] \in PassState
  BY DEF Holds, HInv, IInv, TypeOK
<1>1. /\ Over(p, "failing") => \E next : Become(p, next) /\ next.node \notin Working
      /\ Over(p, "finished") => \E next : Become(p, next) /\ next.node \notin Working
      /\ Become(p, IdlePass) => \E next : Become(p, next) /\ next.node \notin Working
  BY OverSeated DEF HInv
<1>2. CASE \/ Load(p) \/ Plan(p) \/ KeepTasks(p) \/ CreateTasks(p) \/ FailPlanning(p)
           \/ PickTask(p) \/ Execute(p) \/ StartAttempt(p) \/ AttemptConflict(p) \/ CallTool(p)
           \/ Verify(p) \/ Check(p) \/ Judge(p)
           \/ DecideVerified(p) \/ DecideRetry(p) \/ DecideEscalate(p)
           \/ Escalate(p) \/ CreateEscalation(p) \/ SkipEscalation(p)
  BY <1>0, <1>2 DEF Working, Node, Load, Plan, KeepTasks, CreateTasks, FailPlanning, PickTask,
     Execute, StartAttempt, AttemptConflict, CallTool, Verify, Check, Judge, DecideVerified,
     DecideRetry, DecideEscalate, Decide, Escalate, CreateEscalation, SkipEscalation,
     CommitStatuses, At
<1>3. CASE RecordEscalation(p)
  <2>1. Without(p, "finish").node \notin Working
    BY <1>0 DEF Without, PassState, Working
  <2> QED
    BY <1>3, <2>1 DEF RecordEscalation
<1>4. CASE Finish(p)
  <2>1. FinalStatus(Seen(p)) # "queued"
    BY DEF FinalStatus
  <2> QED
    BY <1>1, <1>4, <2>1, NotQueued DEF Finish
<1>5. CASE TaskGone(p)
  <2>1. status' = "queued" => status = "queued"
    BY <1>5, NotQueued DEF TaskGone
  <2> QED
    BY <1>1, <1>5, <2>1 DEF TaskGone
<1>6. CASE WorkerStep(p) \/ DetectHeld(p) \/ Abandon(p) \/ Crash(p)
  <2>1. PICK next : Become(p, next) /\ Outside(next)
    BY <1>6, Aside DEF HInv, IInv
  <2>2. next.node \notin Working
    BY <2>1 DEF Outside, Working, Node
  <2> QED
    BY <1>6, <2>1, <2>2, WorkerFrame, WorkerStatus
<1>7. CASE Raise(p)
  <2>1. pass[p].node \in Node /\ Over(p, "failing") /\ req' = req
    BY <1>7 DEF Raise
  <2>2. UNCHANGED <<status, task, escalations>> \/ PersistFailure(p)
    BY <1>7 DEF Raise
  <2>3. ASSUME PersistFailure(p) PROVE status' = "queued" => status = "queued"
    BY <2>3, NotQueued DEF PersistFailure, PersistWith
  <2>4. ASSUME PersistFailure(p) PROVE UNCHANGED <<task, escalations>>
    BY <2>1, <2>4, PersistsNothing
  <2> QED
    BY <1>1, <2>1, <2>2, <2>3, <2>4
<1> QED
  BY <1>2, <1>3, <1>4, <1>5, <1>6, <1>7 DEF GraphStep

\* A pass that stops while it has the run leaves nobody with it.
LEMMA Forsakes ==
  ASSUME HInv, NEW p \in Pass, Holds(p), NEW next, Become(p, next), next.node \notin Working,
         UNCHANGED <<status, escalations, req>>
  PROVE  Nobody'
<1>1. /\ status # "queued" /\ \A q \in Pass : Holds(q) => q = p
      /\ \A e \in DOMAIN escalations : ~Waits(e)
      /\ \A c \in Reviewer : ~SendsBack(c)
  BY DEF HInv, Held, OneHolder
<1>2. \A q \in Pass : ~Holds(q)'
  BY <1>1, Moved DEF HInv, Holds
<1> QED
  BY <1>1, <1>2 DEF Nobody, Waits, SendsBack

\* A run that has come to its end is not taken up again.
LEMMA NobodyStep ==
  ASSUME HInv, [Next]_vars, Nobody
  PROVE  Nobody'
<1> USE DEF database
<1>1. ASSUME NEW p \in Pass, GraphStep(p) \/ WorkerStep(p) \/ DetectHeld(p) \/ Abandon(p) \/ Crash(p) \/ Raise(p)
      PROVE  Nobody'
  <2>1. ~Claim(p) /\ ~Holds(p)
    BY DEF Nobody, Claim
  <2>2. /\ UNCHANGED <<escalations, req>>
        /\ status' # "queued"
    BY <1>1, <2>1, AwayStep DEF Nobody
  <2>3. PICK next : Become(p, next) /\ next.node \notin Working
    BY <1>1, <2>1, AwayStep
  <2>4. \A q \in Pass : ~Holds(q)'
    BY <2>3, Moved DEF HInv, Nobody, Holds
  <2> QED
    BY <2>2, <2>4 DEF Nobody, Waits, SendsBack
<1>2. ASSUME NEW c \in Reviewer, CommitDecision(c) \/ EnqueueRun(c)
      PROVE  FALSE
  BY <1>2 DEF Nobody, SendsBack, CommitDecision, EnqueueRun, HInv, IInv, HasRow, Held, Deciding
<1>3. ASSUME NEW c \in Reviewer,
             \/ \E e \in DOMAIN escalations, d \in Decision : ReadEscalation(c, e, d)
             \/ LoadRun(c) \/ EscalationGone(c) \/ LoseRequest(c)
      PROVE  Nobody'
  <2>1. UNCHANGED <<status, escalations, pass>>
    BY <1>3 DEF ReadEscalation, LoadRun, EscalationGone, LoseRequest
  <2>2. ~SendsBack(c) /\ \A d \in Reviewer : ~SendsBack(d)
    BY DEF Nobody
  <2>3. \E q : req' = [req EXCEPT ![c] = q] /\ q.pc \in {"deciding", "idle"}
    <3>1. CASE \E e \in DOMAIN escalations, d \in Decision : ReadEscalation(c, e, d)
      <4>1. PICK e \in DOMAIN escalations, d \in Decision : ReadEscalation(c, e, d)
        BY <3>1
      <4> DEFINE target == Reconciled([task EXCEPT ![escalations[e].task] = Decided(@, d)])
                 q == [IdleRequest EXCEPT
                         !.pc = "deciding", !.escalation = e, !.decision = d,
                         !.task = task[escalations[e].task], !.run = status, !.target = target]
      <4>2. q.pc = "deciding"
        BY DEF IdleRequest
      <4>3. req' = [req EXCEPT ![c] = q]
        BY <4>1 DEF ReadEscalation
      <4> HIDE DEF q
      <4> QED
        BY <4>2, <4>3
    <3>2. CASE EscalationGone(c) \/ LoseRequest(c)
      <4>1. IdleRequest.pc = "idle" /\ req' = [req EXCEPT ![c] = IdleRequest]
        BY <3>2 DEF EscalationGone, LoseRequest, IdleRequest
      <4> QED
        BY <4>1
    <3> QED
      BY <1>3, <2>2, <3>1, <3>2 DEF LoadRun, SendsBack
  <2>4. \A d \in Reviewer : ~SendsBack(d)'
    BY <2>2, <2>3 DEF SendsBack, HInv, IInv, TypeOK
  <2> QED
    BY <2>1, <2>4 DEF Nobody, Holds, Waits
<1>4. ASSUME NEW i \in Index, DeleteTask(i)
      PROVE  Nobody'
  <2>1. UNCHANGED <<status, req>> /\ DOMAIN escalations' = DOMAIN escalations
    BY <1>4 DEF DeleteTask
  <2>2. \A e \in DOMAIN escalations : ~Waits(e)'
    BY WaitingStep DEF HInv, Nobody
  <2>3. ASSUME NEW p \in Pass PROVE ~Holds(p)'
    <3>1. /\ pass[p] \in PassState
          /\ pass'[p] = IF pass[p].cached THEN [pass[p] EXCEPT !.task[i] = NoTask] ELSE pass[p]
      BY <1>4 DEF DeleteTask, HInv, IInv, TypeOK
    <3>2. pass'[p].node = pass[p].node
      BY <3>1 DEF PassState
    <3> QED
      BY <3>2 DEF Nobody, Holds
  <2> QED
    BY <2>1, <2>2, <2>3 DEF Nobody, SendsBack
<1>5. CASE UNCHANGED vars
  <2>1. UNCHANGED <<escalations, pass, req>> /\ status' # "queued"
    BY <1>5 DEF vars, Nobody
  <2> QED
    BY <2>1 DEF Nobody, Holds, Waits, SendsBack
<1> QED
  BY <1>1, <1>2, <1>3, <1>4, <1>5 DEF Next, ReviewStep

\* What a pass that has the run leaves of itself.
LEMMA PartedStays ==
  ASSUME HInv, [Next]_vars, NEW p \in Pass, Parted(p),
         deletes' = 0 => deletes = 0,
         pass'[p].node = pass[p].node, pass'[p].cached = pass[p].cached,
         pass'[p].run = pass[p].run, deletes' = 0 => pass'[p].task = pass[p].task
  PROVE  Parted(p)'
<1>1. Nobody => Nobody'
  BY NobodyStep
<1> QED
  BY <1>1 DEF Parted

\* A pass comes to a place where it has nothing to answer for.
LEMMA Elsewhere ==
  ASSUME IInv, NEW p \in Pass, NEW next, Become(p, next),
         next.node \notin {"escalating", "escalated", "finish"}
  PROVE  Parted(p)'
  BY Moved DEF Parted

\* Every pass of the graph parts with the run as it should.
LEMMA GraphParts ==
  ASSUME PInv, [Next]_vars, NEW p \in Pass, GraphStep(p)
  PROVE  Parted(p)'
<1> USE DEF database, history, bounds
<1>0. pass[p] \in PassState /\ HInv /\ Parted(p) /\ NoneGone /\ Seated(p)
  BY DEF PInv, HInv, Held, IInv, TypeOK
<1>1. CASE \/ Load(p) \/ Plan(p) \/ KeepTasks(p) \/ CreateTasks(p) \/ StartAttempt(p)
           \/ CallTool(p) \/ Check(p) \/ Judge(p) \/ Finish(p)
  <2>1. ASSUME Load(p) \/ Plan(p) \/ KeepTasks(p) \/ CreateTasks(p) \/ Finish(p)
        PROVE  Parted(p)'
    <3>1. PICK next : /\ Become(p, next)
                      /\ next \in {[pass[p] EXCEPT !.node = "plan", !.run = status,
                                                   !.planned = Planned(task) # {}],
                                   [pass[p] EXCEPT !.node = "planner", !.run = status'],
                                   [pass[p] EXCEPT !.node = "pick_task", !.planned = FALSE],
                                   [IdlePass EXCEPT !.node = "finished"]}
      BY <2>1 DEF Load, Plan, KeepTasks, CreateTasks, Finish, Over
    <3>2. next.node \in {"plan", "planner", "pick_task", "finished"}
      BY <1>0, <3>1 DEF PassState, IdlePass
    <3> QED
      BY <1>0, <3>1, <3>2, Elsewhere DEF HInv
  <2>2. ASSUME CallTool(p) \/ Check(p) \/ Judge(p)
        PROVE  Parted(p)'
    <3>1. PICK next : /\ Become(p, next)
                      /\ \/ next = [pass[p] EXCEPT !.node = "verify",
                                                   !.task[pass[p].current] = task[pass[p].current]]
                         \/ \E v \in Verdict : next = [pass[p] EXCEPT !.node = "decide", !.verdict = v]
                         \/ next = [pass[p] EXCEPT !.node = "judge"]
      BY <2>2 DEF CallTool, Check, Judge
    <3>2. next.node \in {"verify", "decide", "judge"}
      BY <1>0, <3>1 DEF PassState
    <3> QED
      BY <1>0, <3>1, <3>2, Elsewhere DEF HInv
  <2>3. ASSUME StartAttempt(p)
        PROVE  Parted(p)'
    <3> DEFINE a == Seen(p)[pass[p].current].retry_count
               next == [pass[p] EXCEPT !.node = "tool", !.attempt = a]
    <3>1. next.node = "tool" /\ Become(p, next)
      BY <1>0, <2>3 DEF StartAttempt, PassState
    <3> HIDE DEF next
    <3> QED
      BY <1>0, <3>1, Elsewhere DEF HInv
  <2> QED
    BY <1>1, <2>1, <2>2, <2>3
<1>2. CASE FailPlanning(p)
  <2> DEFINE next == [pass[p] EXCEPT !.node = "finish", !.run = "needs_review"]
  <2>1. next.node = "finish" /\ next.cached = pass[p].cached
    BY <1>0 DEF PassState
  <2>2. pass'[p] = next /\ pass[p].node = "planner"
    BY <1>0, <1>2, Moved DEF FailPlanning, HInv
  <2> HIDE DEF next
  <2> QED
    BY <1>0, <2>1, <2>2 DEF Seated, Parted
<1>3. CASE PickTask(p)
  <2>1. Holds(p) /\ UNCHANGED <<status, escalations, req>>
    BY <1>3 DEF PickTask, Holds, Working, Node
  <2>2. CASE Become(p, Without(p, "finish"))
    <3>1. Without(p, "finish").node = "finish"
      BY <1>0 DEF Without, PassState
    <3>2. Nobody'
      BY <1>0, <2>1, <2>2, <3>1, Forsakes DEF Working
    <3>3. pass'[p].node = "finish"
      <4> DEFINE next == Without(p, "finish")
      <4>1. Become(p, next) /\ next.node = "finish"
        BY <2>2, <3>1
      <4> HIDE DEF next
      <4> QED
        BY <1>0, <4>1, Moved DEF HInv
    <3> QED
      BY <3>2, <3>3 DEF Parted
  <2>3. ASSUME NEW i, Become(p, [Without(p, "execute") EXCEPT !.current = i,
                                                              !.retry_count = Seen(p)[i].retry_count])
        PROVE  Parted(p)'
    <3>1. [Without(p, "execute") EXCEPT !.current = i, !.retry_count = Seen(p)[i].retry_count].node
            = "execute"
      BY <1>0 DEF Without, PassState
    <3> QED
      BY <1>0, <2>3, <3>1, Elsewhere DEF HInv
  <2> QED
    BY <1>3, <2>2, <2>3 DEF PickTask
<1>4. CASE Execute(p) \/ Verify(p) \/ Escalate(p)
  <2>1. ASSUME NEW from, NEW to, NEW s, NEW t, CommitStatuses(p, from, to, s, t)
        PROVE  pass'[p].node = to /\ pass'[p].run = s
    <3> DEFINE new == [Seen(p)[pass[p].current] EXCEPT !.status = t]
               next == [Committed(p, s, pass[p].current, new) EXCEPT !.node = to]
    <3>1. Become(p, next)
      BY <2>1 DEF CommitStatuses
    <3>2. next.node = to /\ next.run = s
      <4> HIDE DEF new
      <4> QED BY <1>0 DEF Committed, PassState
    <3> HIDE DEF next
    <3> QED
      BY <1>0, <3>1, <3>2, Moved DEF HInv
  <2> QED
    BY <1>4, <2>1 DEF Execute, Verify, Escalate, Parted
<1>5. CASE DecideVerified(p) \/ DecideRetry(p) \/ DecideEscalate(p)
  <2>1. ASSUME NEW new, NEW to \in {"pick_task", "execute", "escalate"}, Decide(p, new, to)
        PROVE  Parted(p)'
    <3>1. pass'[p].node = to
      BY <1>0, <2>1, DecideBecomes DEF HInv
    <3> QED
      BY <3>1 DEF Parted
  <2> QED
    BY <1>5, <2>1 DEF DecideVerified, DecideRetry, DecideEscalate
<1>6. CASE CreateEscalation(p)
  <2> DEFINE next == [pass[p] EXCEPT !.node = "escalated"]
  <2>1. next.node = "escalated" /\ next.run = pass[p].run
    BY <1>0 DEF PassState
  <2>2. pass'[p] = next /\ pass[p].node = "escalating"
    BY <1>0, <1>6, Moved DEF CreateEscalation, At, HInv
  <2> HIDE DEF next
  <2> QED
    BY <1>0, <2>1, <2>2 DEF Parted
<1>7. CASE RecordEscalation(p)
  <2> DEFINE next == Without(p, "finish")
             i == pass[p].current
  <2>1. next.node = "finish" /\ next.run = pass[p].run /\ next.task = pass[p].task
    BY <1>0 DEF Without, PassState
  <2>2. Become(p, next) /\ pass[p].node = "escalated" /\ ~Gone(i)
    BY <1>7 DEF RecordEscalation, At
  <2> HIDE DEF next
  <2>3. pass'[p] = next /\ i \in Index
    BY <1>0, <2>2, Moved, HasCurrent DEF HInv, AtTask, Attempting
  <2>4. pass[p].task[i].status = "escalated"
    BY <1>0, <2>2 DEF Seated, Seen, StatusAt, AtTask, Attempting
  <2> QED
    BY <1>0, <2>1, <2>2, <2>3, <2>4 DEF Parted
<1>8. CASE AttemptConflict(p)
  <2>1. Holds(p) /\ UNCHANGED <<status, escalations, req>> /\ Over(p, "failing")
    BY <1>8 DEF AttemptConflict, At, Holds, Working, Node
  <2>2. PICK next : Become(p, next) /\ next.node = "failing"
    BY <2>1 DEF Over, IdlePass
  <2>3. Nobody' /\ pass'[p] = next
    BY <1>0, <2>1, <2>2, Forsakes, Moved DEF HInv, Working, Node
  <2> QED
    BY <2>2, <2>3 DEF Parted
<1>9. CASE TaskGone(p) \/ SkipEscalation(p)
  <2>1. deletes' = deletes /\ Gone(pass[p].current) /\ pass[p].current \in Index
    BY <1>0, <1>9, HasCurrent DEF TaskGone, SkipEscalation, HInv, AtTask, Attempting
  <2>2. deletes' # 0
    BY <1>0, <2>1 DEF NoneGone
  <2>3. \E next : Become(p, next) /\ next.node \in {"failing", "finish"}
    <3>1. [IdlePass EXCEPT !.node = "failing"].node = "failing"
      BY DEF IdlePass
    <3>2. Without(p, "finish").node = "finish"
      BY <1>0 DEF Without, PassState
    <3> QED
      BY <1>9, <3>1, <3>2 DEF TaskGone, SkipEscalation, Over
  <2>4. pass'[p].node \in {"failing", "finish"}
    BY <1>0, <2>3, Moved DEF HInv
  <2> QED
    BY <2>2, <2>4 DEF Parted
<1> QED
  BY <1>1, <1>2, <1>3, <1>4, <1>5, <1>6, <1>7, <1>8, <1>9 DEF GraphStep

\* And so does every other step.
LEMMA PartedStep ==
  ASSUME PInv, [Next]_vars, NEW p \in Pass
  PROVE  Parted(p)'
<1> USE DEF database, history, bounds
<1>0. /\ pass[p] \in PassState /\ HInv /\ Parted(p)
      /\ deletes' = 0 => deletes = 0
  BY BoundsStep DEF PInv, HInv, IInv, TypeOK
<1>1. pass'[p] = pass[p] => Parted(p)'
  BY <1>0, PartedStays
<1>2. ASSUME NEW q \in Pass, q # p, \E next : Become(q, next)
      PROVE  Parted(p)'
  BY <1>0, <1>1, <1>2, Moved DEF HInv
<1>3. ASSUME NEW q \in Pass, GraphStep(q)
      PROVE  Parted(p)'
  <2>1. \E next : Become(q, next)
    BY <1>3 DEF GraphStep, Load, Plan, KeepTasks, CreateTasks, FailPlanning, PickTask, Execute,
       StartAttempt, AttemptConflict, CallTool, Verify, Check, Judge, DecideVerified, DecideRetry,
       DecideEscalate, Decide, Escalate, CreateEscalation, RecordEscalation, Finish, TaskGone,
       SkipEscalation, CommitStatuses, Over
  <2> QED
    BY <1>2, <1>3, <2>1, GraphParts
<1>4. ASSUME NEW q \in Pass, WorkerStep(q) \/ DetectHeld(q) \/ Abandon(q) \/ Crash(q)
      PROVE  Parted(p)'
  <2>1. PICK next : Become(q, next) /\ next.node \in {"load", "idle", "recovering", "recording"}
    <3>1. [IdlePass EXCEPT !.node = "load"].node = "load"
      BY DEF IdlePass
    <3> QED
      BY <1>0, <1>4, <3>1, Aside DEF Claim, Outside, HInv, IInv
  <2> QED
    BY <1>0, <1>2, <2>1, Elsewhere DEF HInv
<1>5. ASSUME NEW q \in Pass, Raise(q)
      PROVE  Parted(p)'
  <2>1. PICK next : Become(q, next) /\ next.node = "failing"
    BY <1>5 DEF Raise, Over, IdlePass
  <2> QED
    BY <1>0, <1>2, <2>1, Elsewhere DEF HInv
<1>6. ASSUME NEW i \in Index, DeleteTask(i)
      PROVE  Parted(p)'
  <2>1. /\ pass'[p] = IF pass[p].cached THEN [pass[p] EXCEPT !.task[i] = NoTask] ELSE pass[p]
    BY <1>6 DEF DeleteTask
  <2>2. /\ pass'[p].node = pass[p].node /\ pass'[p].cached = pass[p].cached
        /\ pass'[p].run = pass[p].run
    BY <1>0, <2>1 DEF PassState
  <2>3. deletes' # 0
    BY <1>0, <1>6, BoundsStep DEF HInv
  <2> QED
    BY <1>0, <2>2, <2>3, PartedStays
<1>7. ASSUME NEW c \in Reviewer,
             \/ \E e \in DOMAIN escalations, d \in Decision : ReadEscalation(c, e, d)
             \/ ReviewStep(c) \/ LoseRequest(c)
      PROVE  pass' = pass
  BY <1>7 DEF ReviewStep, ReadEscalation, CommitDecision, LoadRun, EnqueueRun, EscalationGone,
     LoseRequest
<1>8. UNCHANGED vars => pass' = pass
  BY DEF vars
<1> QED
  BY <1>1, <1>3, <1>4, <1>5, <1>6, <1>7, <1>8 DEF Next

\* A status that says "queued" is replaced by a claim, by the end of a pass that has no task
\* to escalate, or by who fails the run.
LEMMA QueuedStep ==
  ASSUME PInv, [Next]_vars, status = "queued", status' # "queued"
  PROVE  \E p \in Pass : Claim(p) \/ WritesFailed(p) \/ FinishesLate(p)
<1> USE DEF database, history, bounds
<1>0. HInv /\ ~Nobody /\ deletes \in Nat
  BY SizesAreNat DEF PInv, Nobody, HInv, IInv, TypeOK
<1>1. /\ \A p \in Pass : ~Holds(p) /\ Parted(p)
      /\ \A e \in DOMAIN escalations : ~Waits(e)
      /\ \A c \in Reviewer : ~SendsBack(c)
  BY <1>0 DEF PInv, HInv, Held, OneHolder
<1>2. ASSUME NEW p \in Pass, GraphStep(p)
      PROVE  WritesFailed(p) \/ FinishesLate(p)
  <2>1. pass[p].node \notin Working
    BY <1>1 DEF Holds
  <2>2. CASE \/ Load(p) \/ Plan(p) \/ KeepTasks(p) \/ CreateTasks(p) \/ FailPlanning(p)
             \/ PickTask(p) \/ Execute(p) \/ StartAttempt(p) \/ AttemptConflict(p) \/ CallTool(p)
             \/ Verify(p) \/ Check(p) \/ Judge(p)
             \/ DecideVerified(p) \/ DecideRetry(p) \/ DecideEscalate(p)
             \/ Escalate(p) \/ CreateEscalation(p) \/ SkipEscalation(p) \/ RecordEscalation(p)
    BY <2>1, <2>2 DEF Working, Node, Load, Plan, KeepTasks, CreateTasks, FailPlanning, PickTask,
       Execute, StartAttempt, AttemptConflict, CallTool, Verify, Check, Judge, DecideVerified,
       DecideRetry, DecideEscalate, Decide, Escalate, CreateEscalation, SkipEscalation,
       RecordEscalation, CommitStatuses, At
  <2>3. CASE TaskGone(p)
    BY <2>3 DEF TaskGone, SendRun, Sent, WritesFailed
  <2>4. CASE Finish(p)
    <3> SUFFICES ASSUME pass[p].cached, deletes = 0 PROVE FALSE
      BY <1>0, <2>4 DEF FinishesLate
    <3>1. /\ pass[p].run = "needs_review"
          /\ \E i \in Index : pass[p].task[i].status = "escalated"
      BY <1>0, <1>1, <2>4 DEF Finish, Parted
    <3>2. "escalated" \in StatusesOf(Seen(p))
      BY <3>1, StatusTypes DEF Seen, StatusesOf, Planned
    <3>3. FinalStatus(Seen(p)) = "needs_review"
      BY <3>2 DEF FinalStatus
    <3> QED
      BY <2>4, <3>1, <3>3 DEF Finish, SendRun, Sent
  <2> QED
    BY <1>2, <2>2, <2>3, <2>4 DEF GraphStep
<1>3. ASSUME NEW p \in Pass, WorkerStep(p) \/ DetectHeld(p) \/ Abandon(p) \/ Crash(p) \/ Raise(p),
             ~Claim(p)
      PROVE  WritesFailed(p)
  BY <1>3, WorkerStatus DEF Raise, PersistFailure, PersistWith, SendRun, Sent, WritesFailed
<1>4. ASSUME NEW c \in Reviewer,
             \/ \E e \in DOMAIN escalations, d \in Decision : ReadEscalation(c, e, d)
             \/ ReviewStep(c) \/ LoseRequest(c)
      PROVE  FALSE
  <2>1. ~CommitDecision(c) /\ ~EnqueueRun(c)
    BY <1>1 DEF SendsBack, CommitDecision, EnqueueRun, PInv, HInv, IInv, HasRow, Held, Deciding
  <2> QED
    BY <1>4, <2>1 DEF ReviewStep, ReadEscalation, LoadRun, EscalationGone, LoseRequest
<1>5. ~UNCHANGED vars /\ \A i \in Index : ~DeleteTask(i)
  BY DEF vars, DeleteTask
<1> QED
  BY <1>1, <1>2, <1>3, <1>4, <1>5 DEF Next

\* At the start no pass has been.
LEMMA InitPInv == Init => PInv
<1> SUFFICES ASSUME Init PROVE PInv
  OBVIOUS
<1>1. \A p \in Pass : pass[p].node = "idle"
  BY DEF Init, IdlePass
<1>2. NoneGone
  BY DEF Init, Unplanned, NoRow, Deleted, Gone, NoneGone
<1> QED
  BY <1>1, <1>2, InitHInv DEF PInv, Parted

\* Every step keeps the invariant.
LEMMA NextPInv == ASSUME OneReviewer, PInv, [Next]_vars PROVE PInv'
<1>1. HInv' /\ \A p \in Pass : Parted(p)'
  BY NextHInv, PartedStep DEF PInv
<1>2. NoneGone'
  BY BoundsStep, TaskStep DEF PInv, HInv, NoneGone
<1> QED
  BY <1>1, <1>2 DEF PInv

\* A run that is queued again stays so until a worker takes it, except for who fails it and for
\* the finish node of a pass that has no task to escalate, as long as one reviewer decides at a
\* time: no other pass and no decision writes what it believed.
THEOREM RequeuesAreKept == ASSUME OneReviewer PROVE Spec => RequeueIsKept
<1> DEFINE A == (status = "queued" /\ status' # "queued") =>
                  \E p \in Pass : Claim(p) \/ WritesFailed(p) \/ FinishesLate(p)
<1>1. PInv /\ [Next]_vars => A
  BY QueuedStep
<1>2. PInv /\ [Next]_vars => PInv'
  BY NextPInv
<1> HIDE DEF A
<1>3. Spec => [][A]_vars
  BY InitPInv, <1>1, <1>2, PTL DEF Spec
<1> QED
  BY <1>3 DEF A, RequeueIsKept

-----------------------------------------------------------------------------
(* When a run is reported as completed.                                     *)

AllVerified == \A i \in Planned(task) : task[i].status = "verified"

\* What waits for a reviewer is escalated.
Awaited == \A e \in DOMAIN escalations : Waits(e) => task[escalations[e].task].status = "escalated"

\* A run that says it is completed is; only deletions take its tasks away.
Done == status = "completed" => AllVerified /\ (Planned(task) = {} => \E i \in Index : Gone(i))

\* What a pass that gave the run away remembers as planned is, and what it remembers as
\* verified is.
Believes(p) ==
  pass[p].node \in {"escalated", "finish"} /\ pass[p].cached =>
    \/ Planned(pass[p].task) = {}
    \/ /\ Planned(pass[p].task) = Planned(task)
       /\ \A i \in Index : pass[p].task[i].status = "verified" => task[i].status = "verified"

\* A pass does not begin to plan a run that says it is completed.
Starts(p) ==
  pass[p].node \in {"plan", "planner"} /\ ~pass[p].planned /\ status = "completed" =>
    pass[p].node = "plan" /\ pass[p].run # "planning"

\* A decision that completes the run is about the last task that is not verified.
Completes(c) ==
  req[c].pc = "deciding" /\ Waits(req[c].escalation) /\ req[c].target = "completed" =>
    /\ req[c].decision = "approve"
    /\ \A i \in Planned(task) \ {Subject(c)} : task[i].status = "verified"

Truthful ==
  /\ Awaited /\ Done
  /\ \A p \in Pass : Believes(p) /\ Starts(p)
  /\ \A c \in Reviewer : Completes(c)

CInv == HInv /\ (\A c \in Reviewer : Remembers(c)) /\ (faults = 0 => Truthful)

\* What a pass of the graph writes of the tasks: the plan, or the task it works on.
LEMMA PassWrites ==
  ASSUME HInv, NEW p \in Pass, GraphStep(p)
  PROVE  \/ task' = task
         \/ CreateTasks(p) \/ FailPlanning(p)
         \/ /\ Holds(p)
            /\ \E k \in Planned(task), new \in Task :
                 /\ task[k].status # "verified" /\ new.status \in TaskStatus
                 /\ task' = [task EXCEPT ![k] = new]
<1> USE DEF database
<1>0. task \in [Index -> Task]
  BY DEF HInv, IInv, TypeOK
<1>1. CASE \/ Load(p) \/ Plan(p) \/ KeepTasks(p) \/ PickTask(p) \/ StartAttempt(p)
           \/ AttemptConflict(p) \/ CallTool(p) \/ Check(p) \/ Judge(p) \/ CreateEscalation(p)
           \/ RecordEscalation(p) \/ Finish(p) \/ TaskGone(p) \/ SkipEscalation(p)
  BY <1>1 DEF Load, Plan, KeepTasks, PickTask, StartAttempt, AttemptConflict, CallTool, Check,
     Judge, CreateEscalation, RecordEscalation, Finish, TaskGone, SkipEscalation
<1>2. ASSUME pass[p].node \in AtTask \ {"escalated"}, ~Gone(pass[p].current),
             NEW new \in Task, new.status \in TaskStatus, SendTask(p, pass[p].current, new)
      PROVE  /\ Holds(p)
             /\ \E k \in Planned(task), n \in Task :
                  /\ task[k].status # "verified" /\ n.status \in TaskStatus
                  /\ task' = [task EXCEPT ![k] = n]
  <2> DEFINE k == pass[p].current
  <2>1. Holds(p) /\ k \in Index /\ Seated(p)
    BY <1>2, HasCurrent DEF HInv, Held, Holds, AtTask, Attempting, Working, Node
  <2>2. Seen(p) = task /\ task' = [task EXCEPT ![k] = new]
    BY <1>2, <2>1, Writes
  <2>3. task[k].status = StatusAt(pass[p].node)
    BY <1>2, <2>1, <2>2 DEF Seated
  <2>4. StatusAt(pass[p].node) \in TaskStatus \ {"verified"}
    BY StatusTypes DEF StatusAt
  <2> QED
    BY <1>2, <2>1, <2>2, <2>3, <2>4 DEF Planned
<1>3. ASSUME NEW from \in AtTask \ {"escalated"}, NEW to, NEW s, NEW t \in TaskStatus,
             CommitStatuses(p, from, to, s, t)
      PROVE  /\ pass[p].node \in AtTask \ {"escalated"} /\ ~Gone(pass[p].current)
             /\ \E new \in Task : new.status \in TaskStatus /\ SendTask(p, pass[p].current, new)
  <2> DEFINE new == [Seen(p)[pass[p].current] EXCEPT !.status = t]
  <2>1. pass[p].node = from /\ ~Gone(pass[p].current) /\ SendTask(p, pass[p].current, new)
    BY <1>3 DEF CommitStatuses, At
  <2>2. new \in Task /\ new.status = t
    BY <2>1, HasCurrent DEF HInv, Task
  <2> HIDE DEF new
  <2> QED
    BY <2>1, <2>2
<1>4. CASE Execute(p) \/ Verify(p) \/ Escalate(p)
  BY <1>2, <1>3, <1>4, StatusTypes DEF Execute, Verify, Escalate, AtTask, Attempting
<1>5. CASE DecideVerified(p) \/ DecideRetry(p) \/ DecideEscalate(p)
  <2> DEFINE old == Seen(p)[pass[p].current]
             again == [old EXCEPT !.status = "pending", !.retry_count = @ + 1]
  <2>1. pass[p].node = "decide" /\ ~Gone(pass[p].current)
    BY <1>5 DEF DecideVerified, DecideRetry, DecideEscalate, Decide, At
  <2>2. old \in Task
    BY <2>1, HasCurrent DEF HInv, AtTask, Attempting
  <2>3. old.retry_count + 1 \in Nat
    BY <2>2 DEF Task
  <2>4. /\ \A s \in {"verified", "failed"} :
             [old EXCEPT !.status = s] \in Task /\ [old EXCEPT !.status = s].status \in TaskStatus
        /\ again \in Task /\ again.status \in TaskStatus
    <3> HIDE DEF old
    <3> QED BY <2>2, <2>3, StatusTypes DEF Task
  <2>5. \/ SendTask(p, pass[p].current, [old EXCEPT !.status = "verified"])
        \/ SendTask(p, pass[p].current, again)
        \/ SendTask(p, pass[p].current, [old EXCEPT !.status = "failed"])
    BY <1>5 DEF DecideVerified, DecideRetry, DecideEscalate, Decide
  <2> HIDE DEF old, again
  <2> QED
    BY <1>2, <2>1, <2>4, <2>5 DEF AtTask, Attempting
<1> QED
  BY <1>1, <1>4, <1>5 DEF GraphStep

\* What any step does to the tasks, if nothing raises.
LEMMA TasksMove ==
  ASSUME HInv, [Next]_vars, faults' = 0
  PROVE  \/ task' = task
         \/ \E p \in Pass : /\ Holds(p)
                            /\ \/ CreateTasks(p) \/ FailPlanning(p)
                               \/ \E k \in Planned(task), new \in Task :
                                    /\ task[k].status # "verified" /\ new.status \in TaskStatus
                                    /\ task' = [task EXCEPT ![k] = new]
         \/ \E c \in Reviewer : CommitDecision(c)
         \/ \E i \in Index : DeleteTask(i)
<1> USE DEF database
<1>1. ASSUME NEW p \in Pass, CreateTasks(p) \/ FailPlanning(p) PROVE Holds(p)
  BY <1>1 DEF CreateTasks, FailPlanning, Holds, Working, Node
<1>2. ASSUME NEW p \in Pass, WorkerStep(p) \/ DetectHeld(p) \/ Abandon(p) \/ Crash(p) \/ Raise(p)
      PROVE  task' = task
  BY <1>2, BoundsStep, WorkerFrame DEF HInv
<1>3. ASSUME NEW c \in Reviewer,
             \/ \E e \in DOMAIN escalations, d \in Decision : ReadEscalation(c, e, d)
             \/ ReviewStep(c) \/ LoseRequest(c)
      PROVE  task' = task \/ CommitDecision(c)
  BY <1>3 DEF ReviewStep, ReadEscalation, LoadRun, EnqueueRun, EscalationGone, LoseRequest
<1>4. UNCHANGED vars => task' = task
  BY DEF vars
<1> QED
  BY <1>1, <1>2, <1>3, <1>4, PassWrites DEF Next

\* A verification stays, and so does the plan, but for deletions.
LEMMA PlanStays ==
  ASSUME OneReviewer, CInv, Truthful, [Next]_vars, faults' = 0, ~\E i \in Index : DeleteTask(i)
  PROVE  /\ Planned(task) = {} \/ Planned(task)' = Planned(task)
         /\ \A i \in Index : task[i].status = "verified" => task'[i].status = "verified"
<1>0. task \in [Index -> Task] /\ HInv
  BY DEF CInv, HInv, IInv, TypeOK
<1>1. ASSUME NEW p \in Pass, CreateTasks(p) \/ FailPlanning(p)
      PROVE  Planned(task) = {}
  BY <1>0, <1>1 DEF CreateTasks, FailPlanning, HInv, Held, Seated
<1>2. ASSUME NEW c \in Reviewer, CommitDecision(c)
      PROVE  /\ Subject(c) \in Planned(task) /\ task[Subject(c)].status # "verified"
             /\ task'[Subject(c)].status \in TaskStatus
             /\ \A i \in Index : i # Subject(c) => task'[i] = task[i]
  <2>1. /\ Waits(req[c].escalation) /\ Subject(c) \in Index
        /\ task'[Subject(c)].status \in {"verified", "failed", "pending"}
        /\ \A i \in Index : i # Subject(c) => task'[i] = task[i]
    BY <1>2, DecisionSettles, ZeroIsIndex DEF CInv
  <2>2. req[c].escalation \in DOMAIN escalations
    BY <1>0, <1>2 DEF CommitDecision, HInv, IInv, HasRow
  <2>3. task[Subject(c)].status = "escalated"
    BY <2>1, <2>2 DEF Truthful, Awaited, Subject
  <2> QED
    BY <2>1, <2>3, StatusTypes DEF Planned
<1>3. ASSUME NEW k \in Planned(task), task[k].status # "verified", task'[k].status \in TaskStatus,
             \A i \in Index : i # k => task'[i] = task[i]
      PROVE  /\ Planned(task)' = Planned(task)
             /\ \A i \in Index : task[i].status = "verified" => task'[i].status = "verified"
  BY <1>3 DEF Planned
<1>4. CASE task' = task
  BY <1>4 DEF Planned
<1>5. ASSUME NEW k \in Planned(task), NEW new \in Task,
             task[k].status # "verified" /\ new.status \in TaskStatus,
             task' = [task EXCEPT ![k] = new]
      PROVE  /\ task'[k].status \in TaskStatus
             /\ \A i \in Index : i # k => task'[i] = task[i]
  BY <1>0, <1>5 DEF Planned
<1>6. Planned(task) = {} => \A i \in Index : task[i].status # "verified"
  BY StatusTypes DEF Planned
<1> QED
  BY <1>0, <1>1, <1>2, <1>3, <1>4, <1>5, <1>6, TasksMove

\* A pass that is left where it is.
Rested(p) ==
  /\ pass'[p].node = pass[p].node /\ pass'[p].cached = pass[p].cached
  /\ pass'[p].run = pass[p].run /\ pass'[p].planned = pass[p].planned
  /\ (~\E i \in Index : DeleteTask(i)) => pass'[p].task = pass[p].task

\* How a pass comes to the nodes before the plan and after the last task.
LEMMA PassMoves ==
  ASSUME IInv, [Next]_vars, NEW p \in Pass
  PROVE  \/ Rested(p)
         \/ Load(p) \/ Plan(p) \/ FailPlanning(p) \/ PickTask(p)
         \/ CreateEscalation(p) \/ RecordEscalation(p) \/ SkipEscalation(p)
         \/ pass'[p].node \notin {"plan", "planner", "escalated", "finish"}
<1> USE DEF database, history, bounds
<1> DEFINE Apart(node) == node \notin {"plan", "planner", "escalated", "finish"}
<1>0. pass[p] \in PassState
  BY DEF IInv, TypeOK
<1>1. pass'[p] = pass[p] => Rested(p)
  BY DEF Rested
<1>2. ASSUME NEW q \in Pass, q # p, \E next : Become(q, next)
      PROVE  Rested(p)
  BY <1>1, <1>2, Moved
<1>3. ASSUME NEW next, Become(p, next), Apart(next.node)
      PROVE  Apart(pass'[p].node)
  BY <1>3, Moved
<1>4. ASSUME NEW q \in Pass, GraphStep(q)
      PROVE  \E next : Become(q, next)
  BY <1>4 DEF GraphStep, Load, Plan, KeepTasks, CreateTasks, FailPlanning, PickTask, Execute,
     StartAttempt, AttemptConflict, CallTool, Verify, Check, Judge, DecideVerified, DecideRetry,
     DecideEscalate, Decide, Escalate, CreateEscalation, RecordEscalation, Finish, TaskGone,
     SkipEscalation, CommitStatuses, Over
<1>5. ASSUME NEW q \in Pass, WorkerStep(q) \/ DetectHeld(q) \/ Abandon(q) \/ Crash(q) \/ Raise(q)
      PROVE  \E next : Become(q, next) /\ Apart(next.node)
  <2>1. /\ IdlePass.node = "idle" /\ [IdlePass EXCEPT !.node = "load"].node = "load"
        /\ [IdlePass EXCEPT !.node = "failing"].node = "failing"
    BY DEF IdlePass
  <2> QED
    BY <1>5, <2>1, Aside DEF Claim, Outside, HInv, IInv, Raise, Over
<1>6. CASE AttemptConflict(p) \/ Finish(p) \/ TaskGone(p)
  <2>1. /\ [IdlePass EXCEPT !.node = "finished"].node = "finished"
        /\ [IdlePass EXCEPT !.node = "failing"].node = "failing"
    BY DEF IdlePass
  <2>2. \E next : Become(p, next) /\ Apart(next.node)
    BY <1>6, <2>1 DEF AttemptConflict, Finish, TaskGone, Over
  <2> QED
    BY <1>3, <2>2
<1>7. CASE Execute(p) \/ Verify(p) \/ Escalate(p)
  <2>1. ASSUME NEW from, NEW to, NEW s, NEW t, CommitStatuses(p, from, to, s, t), Apart(to)
        PROVE  Apart(pass'[p].node)
    <3> DEFINE new == [Seen(p)[pass[p].current] EXCEPT !.status = t]
               next == [Committed(p, s, pass[p].current, new) EXCEPT !.node = to]
    <3>1. Become(p, next)
      BY <2>1 DEF CommitStatuses
    <3>2. next.node = to
      <4> HIDE DEF new
      <4> QED BY <1>0 DEF Committed, PassState
    <3> HIDE DEF next
    <3> QED
      BY <1>3, <2>1, <3>1, <3>2
  <2> QED
    BY <1>7, <2>1 DEF Execute, Verify, Escalate
<1>8. CASE DecideVerified(p) \/ DecideRetry(p) \/ DecideEscalate(p)
  <2>1. ASSUME NEW new, NEW to \in {"pick_task", "execute", "escalate"}, Decide(p, new, to)
        PROVE  Apart(pass'[p].node)
    BY <2>1, DecideBecomes
  <2> QED
    BY <1>8, <2>1 DEF DecideVerified, DecideRetry, DecideEscalate
<1>9. CASE CallTool(p) \/ Check(p) \/ Judge(p) \/ KeepTasks(p) \/ CreateTasks(p)
  <2>1. PICK next : /\ Become(p, next)
                    /\ \/ next = [pass[p] EXCEPT !.node = "verify",
                                                 !.task[pass[p].current] = task[pass[p].current]]
                       \/ \E v \in Verdict : next = [pass[p] EXCEPT !.node = "decide", !.verdict = v]
                       \/ next = [pass[p] EXCEPT !.node = "judge"]
                       \/ next = [pass[p] EXCEPT !.node = "pick_task", !.planned = FALSE]
    BY <1>9 DEF CallTool, Check, Judge, KeepTasks, CreateTasks
  <2>2. next.node \in {"verify", "decide", "judge", "pick_task"}
    BY <1>0, <2>1 DEF PassState
  <2> QED
    BY <1>3, <2>1, <2>2
<1>10. CASE StartAttempt(p)
  <2> DEFINE a == Seen(p)[pass[p].current].retry_count
             next == [pass[p] EXCEPT !.node = "tool", !.attempt = a]
  <2>1. next.node = "tool" /\ Become(p, next)
    BY <1>0, <1>10 DEF StartAttempt, PassState
  <2> HIDE DEF next
  <2> QED
    BY <1>3, <2>1
<1>11. ASSUME NEW i \in Index, DeleteTask(i)
       PROVE  Rested(p)
  <2>1. pass'[p] = IF pass[p].cached THEN [pass[p] EXCEPT !.task[i] = NoTask] ELSE pass[p]
    BY <1>11 DEF DeleteTask
  <2> QED
    BY <1>0, <1>11, <2>1 DEF PassState, Rested
<1>12. ASSUME NEW c \in Reviewer,
              \/ \E e \in DOMAIN escalations, d \in Decision : ReadEscalation(c, e, d)
              \/ ReviewStep(c) \/ LoseRequest(c)
       PROVE  pass' = pass
  BY <1>12 DEF ReviewStep, ReadEscalation, CommitDecision, LoadRun, EnqueueRun, EscalationGone,
     LoseRequest
<1>13. UNCHANGED vars => pass' = pass
  BY DEF vars
<1>14. CASE \E q \in Pass : q # p /\ \/ GraphStep(q) \/ WorkerStep(q) \/ DetectHeld(q) \/ Abandon(q)
                                     \/ Crash(q) \/ Raise(q)
  BY <1>2, <1>4, <1>5, <1>14
<1>15. CASE GraphStep(p)
  BY <1>6, <1>7, <1>8, <1>9, <1>10, <1>15 DEF GraphStep
<1>16. CASE WorkerStep(p) \/ DetectHeld(p) \/ Abandon(p) \/ Crash(p) \/ Raise(p)
  BY <1>3, <1>5, <1>16
<1> QED
  BY <1>1, <1>11, <1>12, <1>13, <1>14, <1>15, <1>16 DEF Next

\* What a pass that gave the run away believes stays true.
LEMMA BelievesStep ==
  ASSUME OneReviewer, CInv, Truthful, [Next]_vars, faults' = 0, NEW p \in Pass
  PROVE  Believes(p)'
<1> USE DEF database
<1>0. /\ pass[p] \in PassState /\ HInv /\ Believes(p) /\ Seated(p)
      /\ task \in [Index -> Task] /\ pass[p].task \in [Index -> Task]
  BY DEF CInv, HInv, Held, IInv, TypeOK, PassState, Truthful
<1>1. CASE Rested(p) /\ ~\E i \in Index : DeleteTask(i)
  <2> SUFFICES ASSUME pass[p].node \in {"escalated", "finish"}, pass[p].cached
               PROVE  \/ Planned(pass[p].task) = {}
                      \/ /\ Planned(pass[p].task) = Planned(task)'
                         /\ \A i \in Index : pass[p].task[i].status = "verified" =>
                                               task'[i].status = "verified"
    BY <1>1 DEF Rested, Believes
  <2> QED
    BY <1>0, <1>1, PlanStays DEF Believes
<1>2. ASSUME NEW i \in Index, DeleteTask(i)
      PROVE  Believes(p)'
  <2> SUFFICES ASSUME pass'[p].node \in {"escalated", "finish"}, pass'[p].cached
               PROVE  \/ Planned(pass'[p].task) = {}
                      \/ /\ Planned(pass'[p].task) = Planned(task)'
                         /\ \A j \in Index : pass'[p].task[j].status = "verified" =>
                                               task'[j].status = "verified"
    BY DEF Believes
  <2>1. /\ pass'[p] = IF pass[p].cached THEN [pass[p] EXCEPT !.task[i] = NoTask] ELSE pass[p]
        /\ task' = [task EXCEPT ![i] = NoTask]
    BY <1>2 DEF DeleteTask
  <2>2. /\ pass[p].node \in {"escalated", "finish"} /\ pass[p].cached
        /\ pass'[p].task = [pass[p].task EXCEPT ![i] = NoTask]
    BY <1>0, <2>1 DEF PassState
  <2>3. NoTask.status \notin TaskStatus /\ NoTask.status # "verified"
    BY DEF NoTask, Deleted, TaskStatus
  <2>4. /\ Planned(pass'[p].task) = Planned(pass[p].task) \ {i}
        /\ Planned(task)' = Planned(task) \ {i}
    BY <1>0, <2>1, <2>2, <2>3 DEF Planned
  <2>5. CASE Planned(pass[p].task) = {}
    BY <2>4, <2>5
  <2>6. CASE /\ Planned(pass[p].task) = Planned(task)
             /\ \A j \in Index : pass[p].task[j].status = "verified" => task[j].status = "verified"
    BY <1>0, <2>1, <2>2, <2>3, <2>4, <2>6
  <2> QED
    BY <1>0, <2>2, <2>5, <2>6 DEF Believes
<1>3. CASE PickTask(p) \/ CreateEscalation(p) \/ SkipEscalation(p)
  <2>1. Holds(p) /\ task' = task
    BY <1>3 DEF PickTask, CreateEscalation, SkipEscalation, At, Holds, Working, Node
  <2>2. pass'[p].node = "finish" \/ pass'[p].node = "escalated" =>
          pass'[p].cached = pass[p].cached /\ pass'[p].task = pass[p].task
    <3> DEFINE done == Without(p, "finish")
               next == [pass[p] EXCEPT !.node = "escalated"]
    <3>1. /\ done.cached = pass[p].cached /\ done.task = pass[p].task
          /\ next.cached = pass[p].cached /\ next.task = pass[p].task
      BY <1>0 DEF Without, PassState
    <3>2. \/ Become(p, done) \/ Become(p, next)
          \/ \E i : Become(p, [Without(p, "execute") EXCEPT !.current = i,
                                                            !.retry_count = Seen(p)[i].retry_count])
      BY <1>3 DEF PickTask, CreateEscalation, SkipEscalation
    <3>3. ASSUME NEW i, Become(p, [Without(p, "execute") EXCEPT !.current = i,
                                                                !.retry_count = Seen(p)[i].retry_count])
          PROVE  pass'[p].node = "execute"
      <4> DEFINE n == [Without(p, "execute") EXCEPT !.current = i,
                                                    !.retry_count = Seen(p)[i].retry_count]
      <4>1. n.node = "execute" /\ Become(p, n)
        BY <1>0, <3>3 DEF Without, PassState
      <4> HIDE DEF n
      <4> QED
        BY <1>0, <4>1, Moved DEF HInv
    <3> HIDE DEF done, next
    <3>4. (Become(p, done) => pass'[p] = done) /\ (Become(p, next) => pass'[p] = next)
      BY <1>0, Moved DEF HInv
    <3> QED
      BY <3>1, <3>2, <3>3, <3>4
  <2>3. pass[p].cached => pass[p].task = task
    BY <1>0, <2>1 DEF Seated
  <2> QED
    BY <2>1, <2>2, <2>3 DEF Believes
<1>4. CASE RecordEscalation(p)
  <2> DEFINE next == Without(p, "finish")
  <2>1. next.cached = pass[p].cached /\ next.task = pass[p].task
    BY <1>0 DEF Without, PassState
  <2>2. Become(p, next) /\ pass[p].node = "escalated" /\ task' = task
    BY <1>4 DEF RecordEscalation, At
  <2> HIDE DEF next
  <2>3. pass'[p] = next
    BY <1>0, <2>2, Moved DEF HInv
  <2> QED
    BY <1>0, <2>1, <2>2, <2>3 DEF Believes
<1>5. CASE FailPlanning(p)
  <2> DEFINE next == [pass[p] EXCEPT !.node = "finish", !.run = "needs_review"]
  <2>1. next.cached = pass[p].cached
    BY <1>0 DEF PassState
  <2>2. pass'[p] = next /\ pass[p].node = "planner"
    BY <1>0, <1>5, Moved DEF FailPlanning, HInv
  <2> HIDE DEF next
  <2> QED
    BY <1>0, <2>1, <2>2 DEF Seated, Believes
<1>6. CASE Load(p) \/ Plan(p)
  <2>1. PICK next : /\ Become(p, next)
                    /\ next \in {[pass[p] EXCEPT !.node = "plan", !.run = status,
                                                 !.planned = Planned(task) # {}],
                                 [pass[p] EXCEPT !.node = "planner", !.run = status']}
    BY <1>6 DEF Load, Plan
  <2>2. next.node \in {"plan", "planner"}
    BY <1>0, <2>1 DEF PassState
  <2> QED
    BY <1>0, <2>1, <2>2, Moved DEF HInv, Believes
<1>7. pass'[p].node \notin {"plan", "planner", "escalated", "finish"} => Believes(p)'
  BY DEF Believes
<1> QED
  BY <1>0, <1>1, <1>2, <1>3, <1>4, <1>5, <1>6, <1>7, PassMoves DEF HInv

\* A run comes to be completed by the end of a pass or by a decision.
LEMMA CompletedBy ==
  ASSUME HInv, [Next]_vars, faults' = 0, status # "completed", status' = "completed"
  PROVE  (\E p \in Pass : Finish(p)) \/ \E c \in Reviewer : CommitDecision(c)
<1> USE DEF database
<1>1. ASSUME NEW p \in Pass, GraphStep(p)
      PROVE  Finish(p)
  BY <1>1 DEF GraphStep, Load, Plan, KeepTasks, CreateTasks, FailPlanning, PickTask, Execute,
     StartAttempt, AttemptConflict, CallTool, Verify, Check, Judge, DecideVerified, DecideRetry,
     DecideEscalate, Decide, Escalate, CreateEscalation, RecordEscalation, TaskGone,
     SkipEscalation, CommitStatuses, SendRun, Sent
<1>2. ASSUME NEW p \in Pass, WorkerStep(p) \/ DetectHeld(p) \/ Abandon(p) \/ Crash(p) \/ Raise(p)
      PROVE  FALSE
  BY <1>2, BoundsStep, WorkerStatus DEF HInv, Claim
<1>3. ASSUME NEW c \in Reviewer,
             \/ \E e \in DOMAIN escalations, d \in Decision : ReadEscalation(c, e, d)
             \/ ReviewStep(c) \/ LoseRequest(c)
      PROVE  CommitDecision(c)
  BY <1>3 DEF ReviewStep, ReadEscalation, LoadRun, EnqueueRun, EscalationGone, LoseRequest, Sent
<1>4. ~UNCHANGED vars /\ \A i \in Index : ~DeleteTask(i)
  BY DEF vars, DeleteTask
<1> QED
  BY <1>1, <1>2, <1>3, <1>4 DEF Next

\* What a pass finds when it completes the run is true.
LEMMA FinishTrue ==
  ASSUME CInv, Truthful, NEW p \in Pass, Finish(p), status # "completed", status' = "completed"
  PROVE  Planned(task) # {} /\ AllVerified
<1>1. FinalStatus(Seen(p)) = "completed" /\ pass[p].node = "finish"
  BY DEF Finish, SendRun, Sent
<1>2. StatusesOf(Seen(p)) = {"verified"}
  BY <1>1 DEF FinalStatus
<1>3. Planned(Seen(p)) # {} /\ \A i \in Planned(Seen(p)) : Seen(p)[i].status = "verified"
  BY <1>2 DEF StatusesOf
<1>4. CASE pass[p].cached
  BY <1>1, <1>3, <1>4 DEF Truthful, Believes, Seen, AllVerified, Planned
<1>5. CASE ~pass[p].cached
  BY <1>3, <1>5 DEF Seen, AllVerified
<1> QED
  BY <1>4, <1>5

\* A pass that is to plan the run finds no task, so nobody reports it as completed.
LEMMA StartsStep ==
  ASSUME OneReviewer, CInv, Truthful, [Next]_vars, faults' = 0, NEW p \in Pass
  PROVE  Starts(p)'
<1> USE DEF database
<1>0. pass[p] \in PassState /\ HInv /\ Starts(p) /\ Seated(p)
  BY DEF CInv, HInv, Held, IInv, TypeOK, Truthful
<1> SUFFICES ASSUME pass'[p].node \in {"plan", "planner"}, ~pass'[p].planned, status' = "completed"
             PROVE  pass'[p].node = "plan" /\ pass'[p].run # "planning"
  BY DEF Starts
<1>1. CASE Load(p)
  <2> DEFINE next == [pass[p] EXCEPT !.node = "plan", !.run = status,
                                     !.planned = Planned(task) # {}]
  <2>1. next.node = "plan" /\ next.run = status
    BY <1>0 DEF PassState
  <2>2. Become(p, next) /\ status' = status
    BY <1>1 DEF Load
  <2> HIDE DEF next
  <2> QED
    BY <1>0, <2>1, <2>2, Moved DEF HInv
<1>2. CASE Plan(p)
  <2> DEFINE next == [pass[p] EXCEPT !.node = "planner", !.run = status']
  <2>1. next.planned = pass[p].planned
    BY <1>0 DEF PassState
  <2>2. Become(p, next) /\ pass[p].node = "plan" /\ SendRun(p, "planning")
    BY <1>2 DEF Plan
  <2> HIDE DEF next
  <2>3. pass'[p] = next
    BY <1>0, <2>2, Moved DEF HInv
  <2>4. pass[p].run = "planning" /\ status = "completed"
    BY <2>2 DEF SendRun, Sent
  <2> QED
    BY <1>0, <2>1, <2>2, <2>3, <2>4 DEF Starts
<1>3. CASE Rested(p)
  <2>1. CASE status = "completed"
    BY <1>0, <1>3, <2>1 DEF Rested, Starts
  <2>2. CASE status # "completed"
    <3>1. Holds(p) /\ Planned(task) = {}
      BY <1>0, <1>3 DEF Rested, Seated, Holds, Working, Node
    <3>2. ASSUME NEW q \in Pass, Finish(q) PROVE FALSE
      BY <2>2, <3>1, <3>2, FinishTrue
    <3>3. ASSUME NEW c \in Reviewer, CommitDecision(c) PROVE FALSE
      BY <1>0, <3>1, <3>3 DEF CommitDecision, HInv, IInv, HasRow, Held, Deciding, OneHolder
    <3> QED
      BY <1>0, <2>2, <3>2, <3>3, CompletedBy
  <2> QED
    BY <2>1, <2>2
<1>4. CASE FailPlanning(p) \/ PickTask(p) \/ CreateEscalation(p) \/ RecordEscalation(p) \/ SkipEscalation(p)
  <2>1. \E next : Become(p, next) /\ next.node \in {"finish", "escalated", "execute"}
    <3> DEFINE Take(i, n) == [Without(p, "execute") EXCEPT !.current = i, !.retry_count = n]
    <3>1. /\ [pass[p] EXCEPT !.node = "finish", !.run = "needs_review"].node = "finish"
          /\ [pass[p] EXCEPT !.node = "escalated"].node = "escalated"
          /\ Without(p, "finish").node = "finish"
          /\ \A i, n : Take(i, n).node = "execute"
      BY <1>0 DEF Without, PassState
    <3>2. CASE FailPlanning(p) \/ CreateEscalation(p) \/ RecordEscalation(p) \/ SkipEscalation(p)
      BY <3>1, <3>2 DEF FailPlanning, CreateEscalation, RecordEscalation, SkipEscalation
    <3>3. CASE PickTask(p)
      <4>1. Become(p, Without(p, "finish")) \/ \E i, n : Become(p, Take(i, n))
        BY <3>3 DEF PickTask
      <4> HIDE DEF Take
      <4> QED
        BY <3>1, <4>1
    <3> QED
      BY <1>4, <3>2, <3>3
  <2> QED
    BY <1>0, <2>1, Moved DEF HInv
<1> QED
  BY <1>0, <1>1, <1>2, <1>3, <1>4, PassMoves DEF HInv

\* What a decision promises of the other tasks stays true while its escalation waits.
LEMMA CompletesStep ==
  ASSUME OneReviewer, CInv, Truthful, [Next]_vars, NEW c \in Reviewer
  PROVE  Completes(c)'
<1> USE DEF database
<1>0. HInv /\ Completes(c) /\ task \in [Index -> Task]
  BY DEF CInv, HInv, IInv, TypeOK, Truthful
<1>1. ASSUME NEW e \in DOMAIN escalations, NEW d \in Decision, ReadEscalation(c, e, d)
      PROVE  Completes(c)'
  <2> DEFINE i == escalations[e].task
             left == [task EXCEPT ![i] = Decided(@, d)]
             target == Reconciled(left)
             q == [IdleRequest EXCEPT
                     !.pc = "deciding", !.escalation = e, !.decision = d,
                     !.task = task[i], !.run = status, !.target = target]
  <2>1. q.escalation = e /\ q.decision = d /\ q.target = target
    BY DEF IdleRequest
  <2>2. req' = [req EXCEPT ![c] = q] /\ UNCHANGED <<task, escalations>>
    BY <1>1 DEF ReadEscalation
  <2>3. i \in Index /\ task[i] \in Task
    BY <1>0, EscalationType DEF HInv, IInv
  <2>4. /\ Decided(task[i], d).status \in TaskStatus
        /\ Decided(task[i], d).status = "verified" => d = "approve"
    BY <2>3, StatusTypes DEF Decided, Decision, Task
  <2> HIDE DEF q
  <2>5. req'[c] = q
    BY <1>0, <2>2, OneRequest
  <2>6. ASSUME target = "completed"
        PROVE  d = "approve" /\ \A j \in Planned(task) \ {i} : task[j].status = "verified"
    <3>1. StatusesOf(left) = {"verified"}
      BY <2>6 DEF Reconciled
    <3>2. \A j \in Planned(left) : left[j].status = "verified"
      BY <3>1 DEF StatusesOf
    <3> HIDE DEF i
    <3>3. left[i] = Decided(task[i], d) /\ \A j \in Index : j # i => left[j] = task[j]
      BY <1>0, <2>3
    <3> HIDE DEF left
    <3>4. i \in Planned(left) /\ \A j \in Planned(task) \ {i} : j \in Planned(left)
      BY <2>3, <2>4, <3>3 DEF Planned
    <3>5. Planned(task) \subseteq Index
      BY DEF Planned
    <3> QED
      BY <2>4, <3>2, <3>3, <3>4, <3>5
  <2>7. Subject(c)' = i
    BY <2>1, <2>2, <2>5 DEF Subject
  <2> HIDE DEF target
  <2> QED
    BY <2>1, <2>2, <2>5, <2>6, <2>7 DEF Completes, Planned
<1>2. ASSUME NEW q, req' = [req EXCEPT ![c] = q], q.pc # "deciding"
      PROVE  Completes(c)'
  <2>1. req'[c] = q
    BY <1>0, <1>2, OneRequest
  <2> QED
    BY <1>2, <2>1 DEF Completes
<1>3. CASE CommitDecision(c)
  <2> DEFINE q == IF req[c].decision = "send_back"
                    THEN [IdleRequest EXCEPT !.pc = "decided", !.escalation = req[c].escalation]
                    ELSE IdleRequest
  <2>1. q.pc # "deciding" /\ req' = [req EXCEPT ![c] = q]
    BY <1>3 DEF CommitDecision, IdleRequest
  <2> HIDE DEF q
  <2> QED
    BY <1>2, <2>1
<1>4. CASE LoadRun(c) \/ EnqueueRun(c) \/ EscalationGone(c) \/ LoseRequest(c)
  <2>1. /\ IdleRequest.pc # "deciding"
        /\ [IdleRequest EXCEPT !.pc = "loaded", !.run = status, !.owner = owner].pc # "deciding"
    BY DEF IdleRequest
  <2> QED
    BY <1>2, <1>4, <2>1 DEF LoadRun, EnqueueRun, EscalationGone, LoseRequest
<1>5. ASSUME req' = req, ~\E d \in Reviewer : CommitDecision(d)
      PROVE  Completes(c)'
  <2> SUFFICES ASSUME NEW f \in DOMAIN escalations, f = req[c].escalation,
                      req[c].pc = "deciding", Waits(f)', req[c].target = "completed"
               PROVE  /\ req[c].decision = "approve"
                      /\ \A i \in Planned(task)' \ {escalations'[f].task} : task'[i].status = "verified"
    BY <1>0, <1>5 DEF Completes, Subject, HInv, IInv, HasRow
  <2>1. /\ Waits(f) /\ escalations'[f].task = escalations[f].task
        /\ \A j \in Index : task'[j] = task[j] \/ task'[j] = NoTask
    BY <1>0, <1>5, StillWaiting
  <2>2. NoTask.status \notin TaskStatus
    BY DEF NoTask, Deleted, TaskStatus
  <2> QED
    BY <1>0, <2>1, <2>2 DEF Completes, Subject, Planned
<1>6. \A d \in Reviewer : d = c
  BY DEF OneReviewer
<1> QED
  BY <1>1, <1>2, <1>3, <1>4, <1>5, <1>6, RequestStep DEF ReviewStep

\* A row is inserted into the review queue when its task is escalated.
LEMMA NewRow ==
  ASSUME HInv, Next, faults' = 0, NEW f \in DOMAIN escalations', f \notin DOMAIN escalations
  PROVE  task'[escalations'[f].task].status = "escalated"
<1> USE DEF database
<1>0. task \in [Index -> Task]
  BY DEF HInv, IInv, TypeOK
<1>1. ASSUME NEW i \in Index, escalations' = Append(escalations, NewEscalation(i))
      PROVE  escalations'[f].task = i
  <2>1. /\ escalations'[Len(escalations')] = NewEscalation(i)
        /\ Len(escalations') = Len(escalations) + 1
        /\ DOMAIN escalations' = 1 .. Len(escalations') /\ DOMAIN escalations = 1 .. Len(escalations)
        /\ Len(escalations) \in Nat
    BY <1>1, NewEscalationType, LenProperties DEF HInv, IInv, TypeOK
  <2>2. f = Len(escalations')
    BY <2>1
  <2> QED
    BY <2>1, <2>2 DEF NewEscalation
<1>2. ASSUME NEW p \in Pass, CreateEscalation(p)
      PROVE  task'[escalations'[f].task].status = "escalated"
  <2> DEFINE i == pass[p].current
  <2>1. /\ pass[p].node = "escalating" /\ ~Gone(i) /\ task' = task
        /\ escalations' = Append(escalations, NewEscalation(i))
    BY <1>2 DEF CreateEscalation, At
  <2>2. i \in Index /\ Seated(p) /\ Holds(p)
    BY <2>1, HasCurrent DEF HInv, Held, Holds, AtTask, Attempting, Working, Node
  <2>3. task[i].status = "escalated"
    BY <2>1, <2>2 DEF Seated, Seen, StatusAt, AtTask, Attempting
  <2> QED
    BY <1>1, <2>1, <2>2, <2>3
<1>3. ASSUME NEW p \in Pass, FailPlanning(p)
      PROVE  task'[escalations'[f].task].status = "escalated"
  <2>1. PICK i \in Index : /\ task' = [task EXCEPT ![i] = [status |-> "escalated", retry_count |-> 0]]
                           /\ escalations' = Append(escalations, NewEscalation(i))
    BY <1>3 DEF FailPlanning
  <2> QED
    BY <1>0, <1>1, <2>1
<1>4. ASSUME NEW p \in Pass, GraphStep(p), ~CreateEscalation(p), ~FailPlanning(p)
      PROVE  escalations' = escalations
  BY <1>4 DEF GraphStep, Load, Plan, KeepTasks, CreateTasks, PickTask, Execute,
     StartAttempt, AttemptConflict, CallTool, Verify, Check, Judge, DecideVerified, DecideRetry,
     DecideEscalate, Decide, Escalate, RecordEscalation, Finish, TaskGone,
     SkipEscalation, CommitStatuses
<1>5. ASSUME NEW p \in Pass, WorkerStep(p) \/ DetectHeld(p) \/ Abandon(p) \/ Crash(p) \/ Raise(p)
      PROVE  escalations' = escalations
  BY <1>5, BoundsStep, WorkerFrame DEF HInv
<1>6. ASSUME NEW c \in Reviewer,
             \/ \E e \in DOMAIN escalations, d \in Decision : ReadEscalation(c, e, d)
             \/ ReviewStep(c) \/ LoseRequest(c)
      PROVE  DOMAIN escalations' = DOMAIN escalations
  BY <1>6 DEF ReviewStep, ReadEscalation, CommitDecision, LoadRun, EnqueueRun, EscalationGone,
     LoseRequest
<1>7. (\E i \in Index : DeleteTask(i)) => DOMAIN escalations' = DOMAIN escalations
  BY DEF DeleteTask
<1> QED
  BY <1>2, <1>3, <1>4, <1>5, <1>6, <1>7 DEF Next

\* The task of a row that waits is escalated: nobody writes tasks while it waits.
LEMMA AwaitedStep ==
  ASSUME OneReviewer, CInv, Truthful, [Next]_vars, faults' = 0
  PROVE  Awaited'
<1> SUFFICES ASSUME NEW e \in DOMAIN escalations', Waits(e)'
             PROVE  task'[escalations'[e].task].status = "escalated"
  BY DEF Awaited
<1>0. HInv
  BY DEF CInv
<1>1. CASE e \in DOMAIN escalations
  <2>1. Waits(e) /\ ~\E c \in Reviewer : CommitDecision(c) /\ e = req[c].escalation
    BY <1>0, <1>1, WaitingStep DEF HInv
  <2>2. ASSUME NEW c \in Reviewer, CommitDecision(c) PROVE FALSE
    <3>1. Waits(req[c].escalation) /\ req[c].escalation \in DOMAIN escalations
      BY <1>0, <2>2, ZeroIsIndex, DecisionSettles DEF CInv, CommitDecision, HInv, IInv, HasRow
    <3> QED
      BY <1>0, <1>1, <2>1, <2>2, <3>1 DEF HInv, Held, OneHolder
  <2>3. /\ escalations'[e].task = escalations[e].task /\ escalations[e].task \in Index
        /\ task'[escalations[e].task] = task[escalations[e].task]
    BY <1>0, <1>1, <2>2, StillWaiting, EscalationType DEF HInv, IInv
  <2> QED
    BY <1>1, <2>1, <2>3 DEF Truthful, Awaited
<1>2. CASE e \notin DOMAIN escalations
  <2>1. Next
    BY <1>2 DEF vars, database
  <2> QED
    BY <1>0, <1>2, <2>1, NewRow
<1> QED
  BY <1>1, <1>2

\* What has verified every task of a run stays so, but for deletions.
LEMMA DoneStep ==
  ASSUME OneReviewer, CInv, Truthful, [Next]_vars, faults' = 0
  PROVE  Done'
<1> USE DEF database
<1>0. HInv /\ task \in [Index -> Task] /\ Done
  BY DEF CInv, HInv, IInv, TypeOK, Truthful
<1> SUFFICES ASSUME status' = "completed"
             PROVE  AllVerified' /\ (Planned(task)' = {} => \E i \in Index : Gone(i)')
  BY DEF Done
<1>1. ASSUME task' = task, AllVerified /\ (Planned(task) = {} => \E i \in Index : Gone(i))
      PROVE  AllVerified' /\ (Planned(task)' = {} => \E i \in Index : Gone(i)')
  BY <1>1 DEF AllVerified, Planned, Gone
<1>2. ASSUME NEW p \in Pass, Finish(p), status # "completed"
      PROVE  AllVerified' /\ (Planned(task)' = {} => \E i \in Index : Gone(i)')
  <2>1. task' = task
    BY <1>2 DEF Finish
  <2> QED
    BY <1>1, <1>2, <2>1, FinishTrue
<1>3. ASSUME NEW c \in Reviewer, CommitDecision(c)
      PROVE  AllVerified' /\ (Planned(task)' = {} => \E i \in Index : Gone(i)')
  <2> DEFINE k == Subject(c)
  <2>1. /\ Waits(req[c].escalation) /\ k \in Index
        /\ task'[k].status = Decided(req[c].task, req[c].decision).status
        /\ \A i \in Index : i # k => task'[i] = task[i]
        /\ task'[k].status \in {"verified", "failed", "pending"}
    BY <1>0, <1>3, DecisionSettles, ZeroIsIndex DEF CInv
  <2>2. req[c].escalation \in DOMAIN escalations /\ req[c] \in Request /\ req[c].pc = "deciding"
    BY <1>0, <1>3 DEF CommitDecision, HInv, IInv, HasRow, TypeOK
  <2>3. task[k].status = "escalated"
    BY <2>1, <2>2 DEF Truthful, Awaited, Subject
  <2>4. k \in Planned(task)
    BY <2>1, <2>3, StatusTypes DEF Planned
  <2>5. status # "completed"
    BY <1>0, <2>3, <2>4 DEF Done, AllVerified
  <2>6. req[c].target = "completed"
    BY <1>3, <2>5 DEF CommitDecision, Sent
  <2>7. /\ req[c].decision = "approve"
        /\ \A i \in Planned(task) \ {k} : task[i].status = "verified"
    BY <2>1, <2>2, <2>6 DEF Truthful, Completes
  <2>8. Decided(req[c].task, req[c].decision).status = "verified"
    BY <2>2, <2>7 DEF Decided, Request, Task
  <2> HIDE DEF k
  <2>9. Planned(task)' = Planned(task)
    BY <2>1, <2>4, StatusTypes DEF Planned
  <2> QED
    BY <2>1, <2>4, <2>7, <2>8, <2>9 DEF AllVerified, Planned
<1>4. ASSUME NEW i \in Index, DeleteTask(i)
      PROVE  AllVerified' /\ (Planned(task)' = {} => \E j \in Index : Gone(j)')
  <2>1. task' = [task EXCEPT ![i] = NoTask] /\ status = "completed"
    BY <1>4 DEF DeleteTask
  <2>2. NoTask.status \notin TaskStatus /\ NoTask.status = Deleted
    BY DEF NoTask, Deleted, TaskStatus
  <2>3. AllVerified
    BY <1>0, <2>1 DEF Done
  <2> QED
    BY <1>0, <2>1, <2>2, <2>3 DEF AllVerified, Planned, Gone
<1>5. ASSUME NEW p \in Pass, Holds(p), CreateTasks(p) \/ FailPlanning(p), status = "completed"
      PROVE  FALSE
  <2>1. pass[p].node = "planner" /\ ~pass[p].planned
    BY <1>5 DEF CreateTasks, FailPlanning
  <2> QED
    BY <1>5, <2>1 DEF Truthful, Starts
<1>6. ASSUME NEW k \in Planned(task), task[k].status # "verified", status = "completed"
      PROVE  FALSE
  BY <1>0, <1>6 DEF Done, AllVerified
<1>7. CASE status = "completed"
  <2>1. AllVerified /\ (Planned(task) = {} => \E i \in Index : Gone(i))
    BY <1>0, <1>7 DEF Done
  <2> QED
    BY <1>0, <1>1, <1>3, <1>4, <1>5, <1>6, <1>7, <2>1, TasksMove
<1>8. CASE status # "completed"
  BY <1>0, <1>2, <1>3, <1>8, CompletedBy
<1> QED
  BY <1>7, <1>8

\* At the start the run is queued, nothing waits and nothing is planned.
LEMMA InitCInv == Init => CInv
<1> SUFFICES ASSUME Init PROVE CInv
  OBVIOUS
<1>1. DOMAIN escalations = {} /\ status # "completed"
  BY DEF Init
<1>2. \A p \in Pass : pass[p].node = "idle"
  BY DEF Init, IdlePass
<1>3. \A c \in Reviewer : req[c].pc # "deciding"
  BY DEF Init, IdleRequest
<1> QED
  BY <1>1, <1>2, <1>3, InitHInv DEF CInv, Remembers, Truthful, Awaited, Done, Believes, Starts,
     Completes

\* Every step keeps the invariant.
LEMMA NextCInv == ASSUME OneReviewer, CInv, [Next]_vars PROVE CInv'
<1>1. HInv'
  BY NextHInv DEF CInv
<1>2. \A c \in Reviewer : Remembers(c)'
  BY RemembersStep DEF CInv
<1>3. ASSUME faults' = 0 PROVE Truthful'
  <2>1. Truthful
    BY <1>3, BoundsStep DEF CInv, HInv
  <2>2. \A p \in Pass : Believes(p)' /\ Starts(p)'
    BY <1>3, <2>1, BelievesStep, StartsStep
  <2>3. \A c \in Reviewer : Completes(c)'
    BY <2>1, CompletesStep
  <2> QED
    BY <1>3, <2>1, <2>2, <2>3, AwaitedStep, DoneStep DEF Truthful
<1> QED
  BY <1>1, <1>2, <1>3 DEF CInv

\* A run of which nothing raised is reported as completed only if its tasks are verified, as
\* long as one reviewer decides at a time, whatever overlaps, dies and is deleted.
THEOREM CompletionIsTrue == ASSUME OneReviewer PROVE Spec => []CompletedIsVerified
<1>1. CInv => CompletedIsVerified
  BY DEF CInv, Truthful, Done, AllVerified, CompletedIsVerified, StatusesOf
<1>2. CInv /\ [Next]_vars => CInv'
  BY NextCInv
<1> QED
  BY InitCInv, <1>1, <1>2, PTL DEF Spec

-----------------------------------------------------------------------------
(* What there is to review when nodes raise.                                *)

\* No pass was cut off before it inserted its escalation and no task was deleted.
Unharmed == torn = {} /\ deletes = 0

\* A pass that has only to finish does not put a run in review.
Closes(p) ==
  pass[p].node = "finish" =>
    \/ pass[p].run = "needs_review"
    \/ Nobody /\ \A i \in Index : Seen(p)[i].status # "escalated"

\* A decision under way takes the run out of review.
TakesOut(c) ==
  req[c].pc = "deciding" /\ Waits(req[c].escalation) =>
    /\ req[c].target # "needs_review"
    /\ status = "needs_review" => req[c].run = "needs_review"

\* A run in review has a row that waits, or a pass that is about to insert one.
InReview ==
  status = "needs_review" =>
    (\E e \in DOMAIN escalations : Waits(e)) \/ \E i \in Index : Escalating(i)

Reviewable == InReview /\ (\A p \in Pass : Closes(p)) /\ \A c \in Reviewer : TakesOut(c)

VInv == EInv /\ PInv /\ (Unharmed => Reviewable)

\* A run comes into review by a pass that escalates, or by a decision.
LEMMA ComesIntoReview ==
  ASSUME Reviewable, [Next]_vars, status # "needs_review", status' = "needs_review"
  PROVE  \/ \E p \in Pass : Escalate(p) \/ FailPlanning(p)
         \/ \E c \in Reviewer : CommitDecision(c)
<1> USE DEF database
<1>1. ASSUME NEW p \in Pass, Finish(p)
      PROVE  FALSE
  <2>1. pass[p].run # "needs_review" /\ FinalStatus(Seen(p)) = "needs_review"
    BY <1>1 DEF Finish, SendRun, Sent
  <2>2. \A i \in Index : Seen(p)[i].status # "escalated"
    BY <1>1, <2>1 DEF Reviewable, Closes, Finish
  <2> QED
    BY <2>1, <2>2 DEF FinalStatus, StatusesOf, Planned
<1>2. ASSUME NEW p \in Pass, GraphStep(p)
      PROVE  Escalate(p) \/ FailPlanning(p) \/ Finish(p)
  BY <1>2 DEF GraphStep, Load, Plan, KeepTasks, CreateTasks, PickTask, Execute,
     StartAttempt, AttemptConflict, CallTool, Verify, Check, Judge, DecideVerified, DecideRetry,
     DecideEscalate, Decide, CreateEscalation, RecordEscalation, TaskGone,
     SkipEscalation, CommitStatuses, SendRun, Sent
<1>3. ASSUME NEW p \in Pass, WorkerStep(p) \/ DetectHeld(p) \/ Abandon(p) \/ Crash(p) \/ Raise(p)
      PROVE  FALSE
  BY <1>3 DEF WorkerStep, Claim, Complete, DetectStuck, DetectHeld, Detect, MarkStuck, ReadFailedRun,
     RecordFailure, Abandon, Crash, Raise, PersistFailure,
     PersistWith, SendRun, Sent
<1>4. ASSUME NEW c \in Reviewer,
             \/ \E e \in DOMAIN escalations, d \in Decision : ReadEscalation(c, e, d)
             \/ ReviewStep(c) \/ LoseRequest(c)
      PROVE  CommitDecision(c)
  BY <1>4 DEF ReviewStep, ReadEscalation, LoadRun, EnqueueRun, EscalationGone, LoseRequest, Sent
<1>5. ~UNCHANGED vars /\ \A i \in Index : ~DeleteTask(i)
  BY DEF vars, DeleteTask
<1> QED
  BY <1>1, <1>2, <1>3, <1>4, <1>5 DEF Next

\* No step mends a pass that was cut off, or brings a deleted task back.
LEMMA StaysUnharmed == ASSUME HInv, [Next]_vars, Unharmed' PROVE Unharmed
  BY BoundsStep, TornStep DEF HInv, Unharmed

\* What a pass that has only to finish knows of the run stays.
LEMMA ClosesStep ==
  ASSUME OneReviewer, VInv, Reviewable, [Next]_vars, Unharmed', NEW p \in Pass
  PROVE  Closes(p)'
<1> USE DEF database
<1>0. /\ pass[p] \in PassState /\ HInv /\ Seated(p) /\ Parted(p) /\ Closes(p)
      /\ \A k \in Index : ~DeleteTask(k) /\ ~Gone(k)
      /\ \A k \in Index : task[k].status = "escalated" => HasPending(k) \/ Escalating(k)
  BY StaysUnharmed, BoundsStep DEF VInv, EInv, Listed, PInv, HInv, Held, IInv, TypeOK, Unharmed,
     NoneGone, Reviewable
<1>1. CASE Rested(p)
  <2> SUFFICES ASSUME pass[p].node = "finish", pass[p].run # "needs_review"
               PROVE  Nobody' /\ \A i \in Index : Seen(p)'[i].status # "escalated"
    BY <1>1 DEF Rested, Closes
  <2>1. Nobody /\ \A i \in Index : Seen(p)[i].status # "escalated"
    BY <1>0 DEF Closes
  <2>2. \A c \in Reviewer : ~CommitDecision(c)
    BY <2>1 DEF Nobody, CommitDecision, HInv, IInv, HasRow, Held, Deciding, PInv, VInv
  <2>3. task' = task
    BY <1>0, <2>1, <2>2, TaskHolders DEF Nobody
  <2> QED
    BY <1>0, <1>1, <2>1, <2>3, NobodyStep DEF Rested, Seen
<1>2. CASE PickTask(p)
  <2>1. Holds(p) /\ UNCHANGED <<status, task, escalations, req>> /\ pass[p].node = "pick_task"
    BY <1>2 DEF PickTask, Holds, Working, Node
  <2>2. CASE Become(p, Without(p, "finish"))
    <3> DEFINE next == Without(p, "finish")
    <3>1. next.node = "finish" /\ next.cached = pass[p].cached /\ next.task = pass[p].task
      BY <1>0 DEF Without, PassState
    <3>2. Become(p, next)
      BY <2>2
    <3> HIDE DEF next
    <3>3. Nobody' /\ pass'[p] = next
      BY <1>0, <2>1, <3>1, <3>2, Forsakes, Moved DEF Working, HInv
    <3>4. Seen(p)' = task
      BY <1>0, <2>1, <3>1, <3>3 DEF Seen, Seated
    <3>5. ASSUME NEW i \in Index, task[i].status = "escalated"
          PROVE  FALSE
      <4>1. ~HasPending(i) /\ ~Escalating(i)
        BY <1>0, <2>1 DEF HInv, Held, OneHolder, HasPending, Waits, Escalating, Holds, Working,
           Node
      <4> QED
        BY <1>0, <3>5, <4>1
    <3> QED
      BY <3>3, <3>4, <3>5 DEF Closes
  <2>3. ASSUME NEW i, NEW n, Become(p, [Without(p, "execute") EXCEPT !.current = i, !.retry_count = n])
        PROVE  Closes(p)'
    <3> DEFINE next == [Without(p, "execute") EXCEPT !.current = i, !.retry_count = n]
    <3>1. next.node = "execute" /\ Become(p, next)
      BY <1>0, <2>3 DEF Without, PassState
    <3> HIDE DEF next
    <3> QED
      BY <1>0, <3>1, Moved DEF HInv, Closes
  <2> QED
    BY <1>2, <2>2, <2>3 DEF PickTask
<1>3. CASE RecordEscalation(p)
  <2> DEFINE next == Without(p, "finish")
  <2>1. next.run = pass[p].run
    BY <1>0 DEF Without, PassState
  <2>2. Become(p, next) /\ pass[p].node = "escalated"
    BY <1>3 DEF RecordEscalation, At
  <2> HIDE DEF next
  <2>3. pass'[p] = next
    BY <1>0, <2>2, Moved DEF HInv
  <2> QED
    BY <1>0, <2>1, <2>2, <2>3 DEF Parted, Closes
<1>4. CASE FailPlanning(p)
  <2> DEFINE next == [pass[p] EXCEPT !.node = "finish", !.run = "needs_review"]
  <2>1. next.run = "needs_review"
    BY <1>0 DEF PassState
  <2>2. Become(p, next)
    BY <1>4 DEF FailPlanning
  <2> HIDE DEF next
  <2> QED
    BY <1>0, <2>1, <2>2, Moved DEF HInv, Closes
<1>5. ~SkipEscalation(p)
  <2>1. pass[p].node = "escalate" => pass[p].current \in Index
    BY <1>0, HasCurrent DEF HInv, AtTask, Attempting
  <2> QED
    BY <1>0, <2>1 DEF SkipEscalation
<1>6. CASE Load(p) \/ Plan(p) \/ CreateEscalation(p)
  <2>1. PICK next : /\ Become(p, next)
                    /\ next \in {[pass[p] EXCEPT !.node = "plan", !.run = status,
                                                 !.planned = Planned(task) # {}],
                                 [pass[p] EXCEPT !.node = "planner", !.run = status'],
                                 [pass[p] EXCEPT !.node = "escalated"]}
    BY <1>6 DEF Load, Plan, CreateEscalation
  <2>2. next.node \in {"plan", "planner", "escalated"}
    BY <1>0, <2>1 DEF PassState
  <2> QED
    BY <1>0, <2>1, <2>2, Moved DEF HInv, Closes
<1>7. pass'[p].node # "finish" => Closes(p)'
  BY DEF Closes
<1> QED
  BY <1>0, <1>1, <1>2, <1>3, <1>4, <1>5, <1>6, <1>7, PassMoves DEF HInv

\* A decision still takes the run out of review while its escalation waits.
LEMMA TakesOutStep ==
  ASSUME OneReviewer, VInv, Reviewable, [Next]_vars, Unharmed', NEW c \in Reviewer
  PROVE  TakesOut(c)'
<1> USE DEF database
<1>0. /\ HInv /\ TakesOut(c) /\ task \in [Index -> Task]
      /\ \A k \in Index : task[k].status = "escalated" => HasPending(k) \/ Escalating(k)
  BY StaysUnharmed DEF VInv, EInv, Listed, Unharmed, PInv, HInv, IInv, TypeOK, Reviewable
<1>1. ASSUME NEW e \in DOMAIN escalations, NEW d \in Decision, ReadEscalation(c, e, d)
      PROVE  TakesOut(c)'
  <2> DEFINE i == escalations[e].task
             left == [task EXCEPT ![i] = Decided(@, d)]
             target == Reconciled(left)
             q == [IdleRequest EXCEPT
                     !.pc = "deciding", !.escalation = e, !.decision = d,
                     !.task = task[i], !.run = status, !.target = target]
  <2>1. q.target = target /\ q.run = status
    BY DEF IdleRequest
  <2>2. req' = [req EXCEPT ![c] = q] /\ UNCHANGED <<status, task, escalations>> /\ Waits(e)
    BY <1>1 DEF ReadEscalation, Waits
  <2>3. i \in Index /\ task[i] \in Task
    BY <1>0, EscalationType DEF HInv, IInv
  <2>4. Decided(task[i], d).status # "escalated"
    BY <2>3 DEF Decided, Decision, Task
  <2> HIDE DEF q
  <2>5. req'[c] = q
    BY <1>0, <2>2, OneRequest
  <2>6. ASSUME NEW j \in Index, j # i, task[j].status = "escalated"
        PROVE  FALSE
    <3>1. ~Escalating(j)
      BY <1>0, <2>2 DEF HInv, Held, OneHolder, Escalating, Holds, Working, Node
    <3>2. HasPending(j)
      BY <1>0, <2>6, <3>1
    <3>3. PICK f \in DOMAIN escalations : escalations[f].task = j /\ Waits(f)
      BY <3>2 DEF HasPending, Waits
    <3>4. f = e
      BY <1>0, <2>2, <3>3 DEF HInv, Held, OneHolder
    <3> QED
      BY <2>6, <3>3, <3>4
  <2>7. target # "needs_review"
    <3>1. \A j \in Index : left[j].status # "escalated"
      <4> HIDE DEF i
      <4> QED BY <1>0, <2>3, <2>4, <2>6
    <3>2. "escalated" \notin StatusesOf(left)
      <4> HIDE DEF left
      <4> QED BY <3>1 DEF StatusesOf, Planned
    <3> HIDE DEF left
    <3> QED
      BY <3>2 DEF Reconciled
  <2> HIDE DEF target
  <2> QED
    BY <2>1, <2>2, <2>5, <2>7 DEF TakesOut
<1>2. ASSUME NEW q, req' = [req EXCEPT ![c] = q], q.pc # "deciding"
      PROVE  TakesOut(c)'
  <2>1. req'[c] = q
    BY <1>0, <1>2, OneRequest
  <2> QED
    BY <1>2, <2>1 DEF TakesOut
<1>3. CASE CommitDecision(c)
  <2> DEFINE q == IF req[c].decision = "send_back"
                    THEN [IdleRequest EXCEPT !.pc = "decided", !.escalation = req[c].escalation]
                    ELSE IdleRequest
  <2>1. q.pc # "deciding" /\ req' = [req EXCEPT ![c] = q]
    BY <1>3 DEF CommitDecision, IdleRequest
  <2> HIDE DEF q
  <2> QED
    BY <1>2, <2>1
<1>4. CASE LoadRun(c) \/ EnqueueRun(c) \/ EscalationGone(c) \/ LoseRequest(c)
  <2>1. /\ IdleRequest.pc # "deciding"
        /\ [IdleRequest EXCEPT !.pc = "loaded", !.run = status, !.owner = owner].pc # "deciding"
    BY DEF IdleRequest
  <2> QED
    BY <1>2, <1>4, <2>1 DEF LoadRun, EnqueueRun, EscalationGone, LoseRequest
<1>5. ASSUME req' = req, ~\E d \in Reviewer : CommitDecision(d)
      PROVE  TakesOut(c)'
  <2> SUFFICES ASSUME NEW f \in DOMAIN escalations, f = req[c].escalation,
                      req[c].pc = "deciding", Waits(f)'
               PROVE  /\ req[c].target # "needs_review"
                      /\ status' = "needs_review" => req[c].run = "needs_review"
    BY <1>0, <1>5 DEF TakesOut, HInv, IInv, HasRow
  <2>1. Waits(f)
    BY <1>0, <1>5, StillWaiting
  <2>2. ASSUME NEW p \in Pass, Escalate(p) \/ FailPlanning(p)
        PROVE  FALSE
    <3>1. Holds(p)
      BY <2>2 DEF Escalate, CommitStatuses, At, FailPlanning, Holds, Working, Node
    <3> QED
      BY <1>0, <2>1, <3>1 DEF HInv, Held, OneHolder
  <2>3. status' = "needs_review" => status = "needs_review"
    BY <1>5, <2>2, ComesIntoReview
  <2> QED
    BY <1>0, <2>1, <2>3 DEF TakesOut
<1>6. \A d \in Reviewer : d = c
  BY DEF OneReviewer
<1> QED
  BY <1>1, <1>2, <1>3, <1>4, <1>5, <1>6, RequestStep DEF ReviewStep

\* A run in review stays reviewable.
LEMMA InReviewStep ==
  ASSUME OneReviewer, VInv, Reviewable, [Next]_vars, Unharmed'
  PROVE  InReview'
<1> USE DEF database
<1>0. /\ HInv /\ \A c \in Reviewer : Remembers(c) /\ TakesOut(c)
      /\ \A k \in Index : ~DeleteTask(k) /\ ~Gone(k) /\ ~Gone(k)'
  <2>1. deletes' = 0 => \A k \in Index : ~Gone(k)'
    BY BoundsStep, TaskStep DEF VInv, PInv, HInv, NoneGone
  <2> QED
    BY <2>1, BoundsStep DEF VInv, EInv, PInv, HInv, NoneGone, Unharmed, Reviewable
<1> SUFFICES ASSUME status' = "needs_review"
             PROVE  \/ \E e \in DOMAIN escalations' : Waits(e)'
                    \/ \E i \in Index : Escalating(i)'
  BY DEF InReview
<1>1. ASSUME NEW i \in Index, HasPending(i)'
      PROVE  \E e \in DOMAIN escalations' : Waits(e)'
  BY <1>1 DEF HasPending, Waits
<1>2. ASSUME NEW c \in Reviewer, CommitDecision(c)
      PROVE  FALSE
  <2>1. Waits(req[c].escalation) /\ req[c].pc = "deciding"
    BY <1>0, <1>2, ZeroIsIndex, DecisionSettles DEF CommitDecision
  <2>2. req[c].target # "needs_review" /\ (status = "needs_review" => req[c].run = "needs_review")
    BY <1>0, <2>1 DEF TakesOut
  <2> QED
    BY <1>2, <2>2 DEF CommitDecision, Sent
<1>3. CASE status # "needs_review"
  <2>1. ASSUME NEW p \in Pass, Escalate(p)
        PROVE  \E i \in Index : Escalating(i)'
    <3> DEFINE k == pass[p].current
               new == [Seen(p)[k] EXCEPT !.status = "escalated"]
               next == [Committed(p, "needs_review", k, new) EXCEPT !.node = "escalating"]
    <3>1. pass[p].node = "escalate" /\ Become(p, next)
      BY <2>1 DEF Escalate, CommitStatuses, At
    <3>2. k \in Index /\ pass[p] \in PassState
      BY <1>0, <3>1, HasCurrent DEF HInv, IInv, TypeOK, AtTask, Attempting
    <3>3. next.node = "escalating" /\ next.current = k
      <4> HIDE DEF new
      <4> QED BY <3>2 DEF Committed, PassState
    <3> HIDE DEF next, k
    <3>4. pass'[p] = next
      BY <1>0, <3>1, Moved DEF HInv
    <3> QED
      BY <3>2, <3>3, <3>4 DEF Escalating
  <2>2. ASSUME NEW p \in Pass, FailPlanning(p)
        PROVE  \E e \in DOMAIN escalations' : Waits(e)'
    <3>1. PICK i \in Index : escalations' = Append(escalations, NewEscalation(i))
      BY <2>2 DEF FailPlanning
    <3>2. /\ Len(escalations') \in DOMAIN escalations'
          /\ escalations'[Len(escalations')] = NewEscalation(i)
      BY <1>0, <3>1, NewEscalationType, AppendProperties, LenProperties DEF HInv, IInv, TypeOK
    <3> QED
      BY <3>2 DEF Waits, NewEscalation
  <2> QED
    BY <1>2, <1>3, <2>1, <2>2, ComesIntoReview
<1>4. CASE status = "needs_review"
  <2>1. ASSUME NEW e \in DOMAIN escalations, Waits(e)
        PROVE  e \in DOMAIN escalations' /\ Waits(e)'
    <3>1. ~DeleteTask(escalations[e].task)
      BY <1>0, <2>1, EscalationType DEF HInv, IInv
    <3> QED
      BY <1>0, <1>2, <2>1, <3>1, WaitingStep, RowStep DEF HInv
  <2>2. ASSUME NEW i \in Index, Escalating(i)
        PROVE  HasPending(i)' \/ Escalating(i)'
    BY <1>0, <2>2, EscalatingStep DEF Unharmed
  <2>3. (\E e \in DOMAIN escalations : Waits(e)) \/ \E i \in Index : Escalating(i)
    BY <1>4 DEF Reviewable, InReview
  <2> QED
    BY <1>1, <2>1, <2>2, <2>3
<1> QED
  BY <1>3, <1>4

\* At the start nothing is escalated and nothing decided.
LEMMA InitVInv == Init => VInv
<1> SUFFICES ASSUME Init PROVE VInv
  OBVIOUS
<1>1. \A i \in Index : task[i].status # "escalated"
  BY DEF Init, Unplanned, NoRow
<1>2. \A c \in Reviewer : req[c].pc # "deciding"
  BY DEF Init, IdleRequest
<1>3. (\A p \in Pass : pass[p].node # "finish") /\ status # "needs_review"
  BY DEF Init, IdlePass
<1> QED
  BY <1>1, <1>2, <1>3, InitPInv, InitEInv DEF VInv, Reviewable, InReview, Closes,
     TakesOut

\* Every step keeps the invariant.
LEMMA NextVInv == ASSUME OneReviewer, VInv, [Next]_vars PROVE VInv'
<1>1. EInv' /\ PInv'
  BY NextEInv, NextPInv DEF VInv
<1>2. ASSUME Unharmed' PROVE Reviewable'
  <2>1. Reviewable
    BY <1>2, StaysUnharmed DEF VInv, EInv
  <2>2. (\A p \in Pass : Closes(p)') /\ \A c \in Reviewer : TakesOut(c)'
    BY <1>2, <2>1, ClosesStep, TakesOutStep
  <2> QED
    BY <1>2, <2>1, <2>2, InReviewStep DEF Reviewable
<1> QED
  BY <1>1, <1>2 DEF VInv

\* A run at rest that needs review has something to review, even if nodes raised, processes
\* died and live passes lost their run, as long as one reviewer decides at a time, no pass was
\* cut off between the two commits of escalate_node and no task was deleted.
THEOREM ReviewIsPossible == ASSUME OneReviewer PROVE Spec => []NeedsReviewIsReviewable
<1>1. VInv => NeedsReviewIsReviewable
  <2> SUFFICES ASSUME VInv, AtRest, Unharmed, status = "needs_review"
               PROVE  \E i \in Index : HasPending(i)
    BY DEF NeedsReviewIsReviewable, Unharmed
  <2>1. PICK e \in DOMAIN escalations : Waits(e)
    BY DEF VInv, Reviewable, InReview, AtRest, Escalating
  <2>2. escalations[e].task \in Index
    BY EscalationType DEF VInv, PInv, HInv, IInv
  <2> QED
    BY <2>1, <2>2 DEF HasPending, Waits
<1>2. VInv /\ [Next]_vars => VInv'
  BY NextVInv
<1> QED
  BY InitVInv, <1>1, <1>2, PTL DEF Spec

=============================================================================
