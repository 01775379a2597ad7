------------------------ MODULE RunGraphOneReviewer ------------------------
(***************************************************************************)
(* Proofs about one run whose reviewers decide one at a time, for every     *)
(* number of passes, tasks, retries, faults, crashes and deletions.  At any *)
(* time at most one of these holds the run: the queue, a pass that works on *)
(* it, a pending escalation, or a request that sends a task back.  What     *)
(* holds the run finds the tasks as it has left them.                       *)
(***************************************************************************)
EXTENDS RunGraphProofs

\* One review request at a time.
OneReviewer == \A c, d \in Reviewer : c = d

-----------------------------------------------------------------------------
(* The inductive invariant.                                                 *)

\* A pass that has escalated its task, or found nothing to do, has given the run away.
Working == Node \ {"escalated", "finish", "finished"}
Holds(p) == pass[p].node \in Working
Waits(e) == escalations[e].status = "pending_review"
SendsBack(c) == req[c].pc \in {"decided", "loaded"}

\* At most one of them has the run.
OneHolder ==
  /\ \A p, q \in Pass : Holds(p) /\ Holds(q) => p = q
  /\ \A e, f \in DOMAIN escalations : Waits(e) /\ Waits(f) => e = f
  /\ \A p \in Pass : Holds(p) =>
       /\ status # "queued"
       /\ \A e \in DOMAIN escalations : ~Waits(e)
       /\ \A c \in Reviewer : ~SendsBack(c)
  /\ \A e \in DOMAIN escalations : Waits(e) =>
       status # "queued" /\ \A c \in Reviewer : ~SendsBack(c)
  /\ \A c \in Reviewer : SendsBack(c) => status # "queued"

\* The status of the task a pass works on.
StatusAt(node) ==
  IF node = "execute" THEN "pending"
  ELSE IF node \in {"attempt", "tool", "verify"} THEN "executing"
  ELSE IF node \in {"check", "judge", "decide"} THEN "claimed"
  ELSE IF node = "escalate" THEN "failed"
  ELSE "escalated"

\* What a pass that has the run remembers of the tasks is true.
Seated(p) ==
  /\ Holds(p) /\ pass[p].cached => pass[p].task = task
  /\ pass[p].node \in {"load", "plan", "planner"} => ~pass[p].cached
  /\ pass[p].node \in {"escalating", "escalated"} => pass[p].cached
  /\ pass[p].node \in {"load", "plan", "planner", "finish", "finished"} => pass[p].current = None
  /\ pass[p].node \in {"plan", "planner"} /\ ~pass[p].planned => Planned(task) = {}
  /\ pass[p].node \in AtTask /\ ~Gone(pass[p].current) =>
       Seen(p)[pass[p].current].status = StatusAt(pass[p].node)

\* A decision under way is about an escalation that waits, unless it was deleted.
Deciding(c) ==
  req[c].pc = "deciding" =>
    /\ Waits(req[c].escalation) \/ escalations[req[c].escalation].status = Deleted
    /\ req[c].target # "queued"

Held == OneHolder /\ (\A p \in Pass : Seated(p)) /\ (\A c \in Reviewer : Deciding(c))

HInv == IInv /\ RowsOfTasks /\ Held

-----------------------------------------------------------------------------
(* One pass moves.                                                          *)

\* The others stay.
LEMMA Moved ==
  ASSUME IInv, NEW p \in Pass, NEW next, Become(p, next)
  PROVE  pass'[p] = next /\ \A q \in Pass : q # p => pass'[q] = pass[q]
  BY DEF IInv, TypeOK, Become

\* A pass that has given the run away is not disturbed by what others do with it.
LEMMA Bystander ==
  ASSUME HInv, [Next]_vars, NEW q \in Pass, ~Holds(q), pass'[q] = pass[q]
  PROVE  Seated(q)' /\ ~Holds(q)'
<1>1. ~Holds(q)' /\ Seated(q)
  BY DEF HInv, Held, Holds
<1>2. ASSUME pass[q].node \in AtTask, ~Gone(pass[q].current)'
      PROVE  /\ ~Gone(pass[q].current) /\ Seen(q)' = Seen(q)
  <2>1. pass[q].node = "escalated" /\ pass[q].current \in Index
    BY <1>2 DEF Holds, Working, Node, AtTask, Attempting, HInv, IInv, HasTask
  <2>2. pass[q].cached
    BY <1>1, <2>1 DEF Seated
  <2> QED
    BY <1>2, <2>1, <2>2, TaskStep DEF HInv, Seen
<1>3. pass[q].node \notin {"load", "plan", "planner"}
  BY DEF Holds, Working, Node
<1> QED
  BY <1>1, <1>2, <1>3 DEF Seated

\* A pass that stays where it is while the tasks do.
LEMMA Resting ==
  ASSUME HInv, NEW q \in Pass, pass'[q] = pass[q], task' = task
  PROVE  Seated(q)' /\ (Holds(q)' => Holds(q))
<1>1. Seated(q) /\ Seen(q)' = Seen(q)
  BY DEF HInv, Held, Seen
<1> QED
  BY <1>1 DEF Seated, Holds, Gone, Planned

\* Rows of the review queue that stay are still decided on.
LEMMA StillDeciding ==
  ASSUME HInv, req' = req,
         \A e \in DOMAIN escalations : e \in DOMAIN escalations' /\ escalations'[e] = escalations[e]
  PROVE  \A c \in Reviewer : Deciding(c)'
<1> SUFFICES ASSUME NEW c \in Reviewer, req[c].pc = "deciding"
             PROVE  Deciding(c)'
  BY DEF Deciding
<1>1. req[c].escalation \in DOMAIN escalations /\ Deciding(c)
  BY DEF HInv, IInv, HasRow, Held
<1> QED
  BY <1>1 DEF Deciding, Waits

\* A pass moves on with the run, or without it.
LEMMA MovesOn ==
  ASSUME HInv, [Next]_vars, NEW p \in Pass, NEW next, Become(p, next), Seated(p)',
         next.node \in Working => Holds(p),
         req' = req, escalations' = escalations, status' = "queued" => status = "queued",
         Holds(p) \/ task' = task
  PROVE  Held'
<1>1. /\ pass'[p] = next /\ \A q \in Pass : q # p => pass'[q] = pass[q]
  BY Moved DEF HInv
<1>2. ASSUME NEW q \in Pass
      PROVE  Seated(q)' /\ (Holds(q)' => Holds(q))
  <2>1. CASE q = p
    BY <1>1, <2>1 DEF Holds
  <2>2. CASE q # p /\ ~Holds(q)
    BY <1>1, <2>2, Bystander
  <2>3. CASE q # p /\ Holds(q)
    <3>1. ~Holds(p)
      BY <2>3 DEF HInv, Held, OneHolder
    <3> QED
      BY <1>1, <2>3, <3>1, Resting
  <2> QED
    BY <2>1, <2>2, <2>3
<1>3. OneHolder'
  BY <1>2 DEF HInv, Held, OneHolder, Waits, SendsBack
<1> QED
  BY <1>2, <1>3, StillDeciding DEF Held

\* A pass hands the run over to the reviewers.
LEMMA HandsOver ==
  ASSUME HInv, [Next]_vars, NEW p \in Pass, NEW next, Become(p, next), Seated(p)',
         Holds(p), next.node \notin Working, NEW i \in Index,
         req' = req, escalations' = Append(escalations, NewEscalation(i)),
         status' = "queued" => status = "queued"
  PROVE  Held'
<1>1. /\ pass'[p] = next /\ \A q \in Pass : q # p => pass'[q] = pass[q]
  BY Moved DEF HInv
<1>2. ASSUME NEW q \in Pass
      PROVE  Seated(q)' /\ ~Holds(q)'
  <2>1. CASE q = p
    BY <1>1, <2>1 DEF Holds
  <2>2. CASE q # p
    <3>1. ~Holds(q)
      BY <2>2 DEF HInv, Held, OneHolder
    <3> QED
      BY <1>1, <2>2, <3>1, Bystander
  <2> QED
    BY <2>1, <2>2
<1>3. /\ \A e \in DOMAIN escalations : e \in DOMAIN escalations' /\ escalations'[e] = escalations[e]
      /\ \A e \in DOMAIN escalations' : e \in DOMAIN escalations \/ e = Len(escalations')
  BY NewEscalationType, AppendProperties, LenProperties DEF HInv, IInv, TypeOK
<1>4. status # "queued" /\ (\A e \in DOMAIN escalations : ~Waits(e)) /\ (\A c \in Reviewer : ~SendsBack(c))
  BY DEF HInv, Held, OneHolder
<1>5. OneHolder'
  <2>1. \A e \in DOMAIN escalations' : Waits(e)' => e = Len(escalations')
    BY <1>3, <1>4 DEF Waits
  <2>2. status' # "queued" /\ \A c \in Reviewer : ~SendsBack(c)'
    BY <1>4 DEF SendsBack
  <2> QED
    BY <1>2, <2>1, <2>2 DEF OneHolder
<1> QED
  BY <1>2, <1>3, <1>5, StillDeciding DEF Held

-----------------------------------------------------------------------------
(* The steps of a pass.                                                     *)

\* A status that is not "queued" does not queue the run.
LEMMA NotQueued ==
  ASSUME NEW p \in Pass, NEW s, s # "queued", SendRun(p, s)
  PROVE  status' = "queued" => status = "queued"
  BY DEF SendRun, Sent

\* A pass that is over remembers nothing.
LEMMA OverSeated ==
  ASSUME IInv, NEW p \in Pass,
         \/ Become(p, IdlePass) \/ Over(p, "failing") \/ Over(p, "finished")
  PROVE  /\ Seated(p)'
         /\ \E next : Become(p, next) /\ next.node \notin Working
<1> DEFINE Ended(node) == [IdlePass EXCEPT !.node = node]
<1>1. /\ IdlePass.node = "idle" /\ ~IdlePass.cached /\ IdlePass.current = None
      /\ \A n \in {"failing", "finished"} :
           Ended(n).node = n /\ ~Ended(n).cached /\ Ended(n).current = None
  BY DEF IdlePass
<1>2. PICK next \in {IdlePass, Ended("failing"), Ended("finished")} : Become(p, next)
  BY DEF Over
<1>3. next.node \in {"idle", "failing", "finished"} /\ ~next.cached /\ next.current = None
  BY <1>1, <1>2
<1>4. pass'[p] = next
  BY <1>2 DEF IInv, TypeOK, Become
<1>5. next.node \notin Working
  BY <1>3 DEF Working, Node
<1> HIDE DEF Ended
<1> QED
  BY <1>2, <1>3, <1>4, <1>5 DEF Seated, Holds, AtTask, Attempting

\* The pass is over, whether it had the run or not.
LEMMA Ends ==
  ASSUME HInv, [Next]_vars, NEW p \in Pass,
         \/ Become(p, IdlePass) \/ Over(p, "failing") \/ Over(p, "finished"),
         req' = req, escalations' = escalations, status' = "queued" => status = "queued",
         Holds(p) \/ task' = task
  PROVE  Held'
<1>1. Seated(p)' /\ \E next : Become(p, next) /\ next.node \notin Working
  BY OverSeated DEF HInv
<1> QED
  BY <1>1, MovesOn

\* What a pass that has the run sees is true, and what it sends is written.
LEMMA Writes ==
  ASSUME HInv, NEW p \in Pass, Holds(p), NEW i \in Index, NEW new \in Task, SendTask(p, i, new)
  PROVE  Seen(p) = task /\ task' = [task EXCEPT ![i] = new]
<1>1. Seen(p) = task
  BY DEF HInv, Held, Seated, Seen
<1>2. new = [status |-> new.status, retry_count |-> new.retry_count]
  BY DEF Task
<1> QED
  BY <1>1, <1>2 DEF SendTask, Sent, HInv, IInv, TypeOK

\* A node of a pass that has the run commits its task and goes on.
LEMMA Commits ==
  ASSUME HInv, [Next]_vars, NEW p \in Pass, Holds(p), NEW i \in Index, NEW new \in Task,
         SendTask(p, i, new), NEW next, Become(p, next),
         next.cached, next.task = [Seen(p) EXCEPT ![i] = new], next.current = i,
         next.node \in Working \ {"load", "plan", "planner"},
         next.node \in AtTask => new.status = StatusAt(next.node),
         UNCHANGED <<req, escalations>>, status' = "queued" => status = "queued"
  PROVE  Held'
<1>1. Seen(p) = task /\ task' = [task EXCEPT ![i] = new]
  BY Writes DEF HInv, Held, Seated
<1>2. pass'[p] = next /\ next.task = task' /\ task'[i] = new
  BY <1>1, Moved DEF HInv, IInv, TypeOK
<1>3. Seated(p)'
  BY <1>1, <1>2 DEF Seated, Seen, Working
<1> QED
  BY <1>3, MovesOn

\* The nodes before the first task.
LEMMA PlanningHeld ==
  ASSUME HInv, [Next]_vars, NEW p \in Pass,
         Load(p) \/ Plan(p) \/ KeepTasks(p) \/ CreateTasks(p) \/ FailPlanning(p)
  PROVE  Held'
<1> USE DEF database, history, bounds
<1>0. /\ pass[p] \in PassState /\ pass[p].node \in {"load", "plan", "planner"}
      /\ Seated(p) /\ Holds(p)  /\ ~pass[p].cached /\ pass[p].current = None
  <2>1. pass[p] \in PassState /\ pass[p].node \in {"load", "plan", "planner"} /\ Seated(p)
    BY DEF HInv, Held, IInv, TypeOK, Load, Plan, KeepTasks, CreateTasks, FailPlanning
  <2> QED
    BY <2>1 DEF Seated, Holds, Working, Node
<1>1. CASE Load(p)
  <2> DEFINE next == [pass[p] EXCEPT !.node = "plan", !.run = status,
                                     !.planned = Planned(task) # {}]
  <2>1. /\ next.node = "plan" /\ next.planned = (Planned(task) # {})
        /\ next.cached = pass[p].cached /\ next.current = pass[p].current
    BY <1>0 DEF PassState
  <2>2. pass'[p] = next /\ Become(p, next)
    BY <1>1, Moved DEF Load, HInv
  <2> HIDE DEF next
  <2>3. Seated(p)'
    BY <1>0, <1>1, <2>1, <2>2 DEF Load, Seated, AtTask, Attempting, Planned
  <2> QED
    BY <1>0, <1>1, <2>2, <2>3, MovesOn DEF Load
<1>2. CASE Plan(p)
  <2> DEFINE next == [pass[p] EXCEPT !.node = "planner", !.run = status']
  <2>1. /\ next.node = "planner" /\ next.planned = pass[p].planned
        /\ next.cached = pass[p].cached /\ next.current = pass[p].current
    BY <1>0 DEF PassState
  <2>2. pass'[p] = next /\ Become(p, next)
    BY <1>2, Moved DEF Plan, HInv
  <2> HIDE DEF next
  <2>3. ~next.planned => Planned(task)' = {}
    <3>1. Planned(task)' = Planned(task)
      BY <1>2 DEF Plan, Planned
    <3>2. pass[p].node = "plan"
      BY <1>2 DEF Plan
    <3> QED
      BY <1>0, <2>1, <3>1, <3>2 DEF Seated
  <2>4. Seated(p)'
    BY <1>0, <1>2, <2>1, <2>2, <2>3 DEF Plan, Seated, AtTask, Attempting, Planned
  <2> QED
    BY <1>0, <1>2, <2>2, <2>4, MovesOn, NotQueued DEF Plan
<1>3. CASE KeepTasks(p) \/ CreateTasks(p)
  <2> DEFINE next == [pass[p] EXCEPT !.node = "pick_task", !.planned = FALSE]
  <2>1. next.node = "pick_task" /\ next.cached = pass[p].cached
    BY <1>0 DEF PassState
  <2>2. pass'[p] = next /\ Become(p, next)
    BY <1>3, Moved DEF KeepTasks, CreateTasks, HInv
  <2> HIDE DEF next
  <2>3. Seated(p)'
    BY <1>0, <1>3, <2>1, <2>2 DEF KeepTasks, CreateTasks, Seated, AtTask, Attempting
  <2> QED
    BY <1>0, <1>3, <2>2, <2>3, MovesOn DEF KeepTasks, CreateTasks
<1>4. CASE FailPlanning(p)
  <2> DEFINE next == [pass[p] EXCEPT !.node = "finish", !.run = "needs_review"]
  <2>1. next.node = "finish" /\ next.current = pass[p].current
    BY <1>0 DEF PassState
  <2>2. pass'[p] = next /\ Become(p, next)
    BY <1>4, Moved DEF FailPlanning, HInv
  <2>3. PICK i \in Index : escalations' = Append(escalations, NewEscalation(i))
    BY <1>4 DEF FailPlanning
  <2> HIDE DEF next
  <2>4. Seated(p)' /\ next.node \notin Working
    BY <1>0, <2>1, <2>2 DEF Seated, Holds, Working, Node, AtTask, Attempting
  <2> QED
    BY <1>0, <1>4, <2>2, <2>3, <2>4, HandsOver, NotQueued DEF FailPlanning
<1> QED
  BY <1>1, <1>2, <1>3, <1>4

\* A node that commits statuses.
LEMMA CommitStatusesHeld ==
  ASSUME HInv, [Next]_vars, NEW p \in Pass, NEW from \in AtTask \ {"escalated"},
         NEW to \in AtTask \ {"escalated"}, NEW s \in RunStatus \ {"queued"}, NEW t \in TaskStatus,
         t = StatusAt(to), CommitStatuses(p, from, to, s, t)
  PROVE  Held'
<1> DEFINE i == pass[p].current
           new == [Seen(p)[i] EXCEPT !.status = t]
           next == [Committed(p, s, i, new) EXCEPT !.node = to]
<1>1. i \in Index /\ Seen(p)[i] \in Task /\ pass[p] \in PassState /\ Holds(p)
  BY HasCurrent DEF CommitStatuses, At, HInv, IInv, TypeOK, Holds, Working, Node, AtTask, Attempting
<1>2. new \in Task /\ new.status = t
  BY <1>1 DEF Task
<1>3. /\ next.node = to /\ next.current = i /\ next.cached = TRUE
      /\ next.task = [Seen(p) EXCEPT ![i] = new]
  <2> HIDE DEF new
  <2> QED BY <1>1 DEF Committed, PassState
<1>4. to \in Working \ {"load", "plan", "planner"}
  BY DEF AtTask, Attempting, Working, Node
<1>5. /\ Become(p, next) /\ SendTask(p, i, new) /\ SendRun(p, s)
      /\ UNCHANGED <<req, escalations>>
  BY DEF CommitStatuses
<1> HIDE DEF next, new, i
<1>6. status' = "queued" => status = "queued"
  BY <1>5, NotQueued
<1> QED
  BY <1>1, <1>2, <1>3, <1>4, <1>5, <1>6, Commits

\* The first task that is left, or none.
LEMMA PickHeld ==
  ASSUME HInv, [Next]_vars, NEW p \in Pass, PickTask(p)
  PROVE  Held'
<1> USE DEF database, history, bounds
<1>0. /\ pass[p] \in PassState /\ pass[p].node = "pick_task"
      /\ Seated(p) /\ Holds(p) /\ Seen(p) = task
  <2>1. pass[p] \in PassState /\ pass[p].node = "pick_task" /\ Seated(p) /\ task' = task
    BY DEF HInv, Held, IInv, TypeOK, PickTask
  <2> QED
    BY <2>1 DEF Seated, Holds, Working, Node, Seen
<1>1. CASE Become(p, Without(p, "finish"))
  <2>1. Without(p, "finish").node = "finish" /\ Without(p, "finish").current = None
    BY <1>0 DEF Without, PassState
  <2>2. pass'[p] = Without(p, "finish")
    <3> DEFINE next == Without(p, "finish")
    <3>1. Become(p, next)
      BY <1>1
    <3> HIDE DEF next
    <3>2. pass'[p] = next
      BY <3>1, Moved DEF HInv
    <3> QED
      BY <3>2 DEF next
  <2>3. Seated(p)' /\ Without(p, "finish").node \notin Working
    BY <2>1, <2>2 DEF Seated, Holds, Working, Node, AtTask, Attempting
  <2> QED
    BY <1>0, <1>1, <2>3, MovesOn DEF PickTask
<1>2. ASSUME NEW i \in Pending(p),
             Become(p, [Without(p, "execute") EXCEPT !.current = i,
                                                     !.retry_count = Seen(p)[i].retry_count])
      PROVE  Held'
  <2> DEFINE start == Without(p, "execute")
             next == [start EXCEPT !.current = i, !.retry_count = Seen(p)[i].retry_count]
  <2>1. /\ start \in PassState /\ start.node = "execute" /\ start.cached = pass[p].cached
        /\ start.task = pass[p].task
    <3>1. start \in PassState /\ start.node = "execute"
      BY WithoutType DEF HInv, IInv, Node
    <3>2. start.cached = pass[p].cached /\ start.task = pass[p].task
      BY <1>0 DEF Without, PassState
    <3> QED
      BY <3>1, <3>2
  <2>2. /\ next.node = "execute" /\ next.cached = pass[p].cached
        /\ next.task = pass[p].task /\ next.current = i
    <3> HIDE DEF start
    <3> QED BY <2>1 DEF PassState
  <2>3. pass'[p] = next /\ Become(p, next) /\ UNCHANGED <<database, req>>
    BY <1>2, Moved DEF HInv, PickTask
  <2> HIDE DEF next
  <2>4. Seen(p)' = task /\ task[i].status = "pending"
    BY <1>0, <2>2, <2>3 DEF Pending, Seen
  <2>5. Seated(p)'
    BY <1>0, <2>2, <2>3, <2>4 DEF Seated, Seen, StatusAt
  <2> QED
    BY <1>0, <2>3, <2>5, MovesOn
<1> QED
  BY <1>1, <1>2 DEF PickTask

\* A node that leaves its task as it is.
LEMMA PassesOn ==
  ASSUME HInv, [Next]_vars, NEW p \in Pass, pass[p].node \in AtTask \ {"escalated"},
         NEW next, Become(p, next), next.node \in AtTask,
         StatusAt(next.node) = StatusAt(pass[p].node),
         next.cached = pass[p].cached, next.current = pass[p].current,
         pass[p].cached => next.task = pass[p].task,
         UNCHANGED <<status, task, req>>
  PROVE  /\ Holds(p) /\ Seated(p)' /\ pass[p].current \in Index
         /\ next.node # "escalated" /\ escalations' = escalations => Held'
<1>1. /\ Holds(p)  /\ pass[p].current \in Index
      /\ Seated(p)
  BY HasCurrent DEF HInv, Held, Seated, Holds, Working, Node, AtTask, Attempting
<1>2. pass'[p] = next /\ Seen(p)' = Seen(p) /\ Gone(pass[p].current)' = Gone(pass[p].current)
  BY Moved DEF HInv, Seen, Gone
<1>3. next.node \notin {"load", "plan", "planner", "finish", "finished"}
  BY DEF AtTask, Attempting
<1>4. next.node \in {"escalating", "escalated"} => pass[p].node = "escalating"
  BY DEF AtTask, Attempting, StatusAt
<1>5. Seated(p)'
  BY <1>1, <1>2, <1>3, <1>4 DEF Seated, Holds
<1> QED
  BY <1>1, <1>5, MovesOn

\* The attempt, the call, the verification and the judge.
LEMMA AttemptHeld ==
  ASSUME HInv, [Next]_vars, NEW p \in Pass,
         \/ StartAttempt(p) \/ AttemptConflict(p) \/ CallTool(p) \/ Check(p) \/ Judge(p)
  PROVE  Held'
<1> USE DEF database, history, bounds
<1>0. /\ pass[p] \in PassState /\ pass[p].node \in {"attempt", "tool", "check", "judge"}
      /\ pass[p].node \in AtTask \ {"escalated"} /\ Holds(p) /\ pass[p].current \in Index
  <2>1. pass[p] \in PassState /\ pass[p].node \in {"attempt", "tool", "check", "judge"}
    BY DEF HInv, IInv, TypeOK, StartAttempt, AttemptConflict, CallTool, Check, Judge, At
  <2> QED
    BY <2>1, HasCurrent DEF HInv, Holds, Working, Node, AtTask, Attempting
<1>1. CASE StartAttempt(p)
  <2> DEFINE a == Seen(p)[pass[p].current].retry_count
             next == [pass[p] EXCEPT !.node = "tool", !.attempt = a]
  <2>1. /\ next.node = "tool" /\ next.cached = pass[p].cached
        /\ next.current = pass[p].current /\ next.task = pass[p].task
    <3> HIDE DEF a
    <3> QED BY <1>0 DEF PassState
  <2>2. Become(p, next) /\ pass[p].node = "attempt" /\ UNCHANGED <<status, task, req, escalations>>
    BY <1>1 DEF StartAttempt, At
  <2> HIDE DEF next
  <2> QED
    BY <1>0, <2>1, <2>2, PassesOn DEF AtTask, Attempting, StatusAt
<1>2. CASE AttemptConflict(p)
  BY <1>0, <1>2, Ends DEF AttemptConflict
<1>3. CASE CallTool(p)
  <2> DEFINE i == pass[p].current
             next == [pass[p] EXCEPT !.node = "verify", !.task[i] = task[i]]
  <2>1. /\ next.node = "verify" /\ next.cached = pass[p].cached
        /\ next.current = pass[p].current /\ next.task = [pass[p].task EXCEPT ![i] = task[i]]
    BY <1>0 DEF PassState
  <2>2. pass[p].cached => next.task = pass[p].task
    <3>1. pass[p].cached => pass[p].task = task
      BY <1>0 DEF HInv, Held, Seated
    <3>2. [task EXCEPT ![i] = task[i]] = task
      BY <1>0 DEF HInv, IInv, TypeOK
    <3> QED
      BY <2>1, <3>1, <3>2
  <2>3. Become(p, next) /\ pass[p].node = "tool" /\ UNCHANGED <<status, task, req, escalations>>
    BY <1>3 DEF CallTool, At
  <2> HIDE DEF next
  <2> QED
    BY <1>0, <2>1, <2>2, <2>3, PassesOn DEF AtTask, Attempting, StatusAt
<1>4. CASE Check(p) \/ Judge(p)
  <2>1. PICK next : /\ Become(p, next)
                    /\ \/ \E v \in Verdict : next = [pass[p] EXCEPT !.node = "decide", !.verdict = v]
                       \/ next = [pass[p] EXCEPT !.node = "judge"]
    BY <1>4 DEF Check, Judge
  <2>2. /\ next.node \in {"decide", "judge"} /\ next.cached = pass[p].cached
        /\ next.current = pass[p].current /\ next.task = pass[p].task
    BY <1>0, <2>1 DEF PassState
  <2>3. pass[p].node \in {"check", "judge"} /\ UNCHANGED <<status, task, req, escalations>>
    BY <1>4 DEF Check, Judge, At
  <2> QED
    BY <1>0, <2>1, <2>2, <2>3, PassesOn DEF AtTask, Attempting, StatusAt
<1> QED
  BY <1>1, <1>2, <1>3, <1>4

\* The decision.
LEMMA DecideHeld ==
  ASSUME HInv, [Next]_vars, NEW p \in Pass, DecideVerified(p) \/ DecideRetry(p) \/ DecideEscalate(p)
  PROVE  Held'
<1> DEFINE i == pass[p].current
           old == Seen(p)[i]
<1>1. pass[p] \in PassState /\ i \in Index /\ old \in Task /\ Holds(p)
  <2>1. pass[p].node = "decide"
    BY DEF DecideVerified, DecideRetry, DecideEscalate, Decide, At
  <2> QED
    BY <2>1, HasCurrent DEF HInv, IInv, TypeOK, Holds, Working, Node, AtTask, Attempting
<1>2. ASSUME NEW new \in Task, NEW to \in {"pick_task", "execute", "escalate"}, Decide(p, new, to),
             to # "pick_task" => new.status = StatusAt(to)
      PROVE  Held'
  <2> DEFINE next == [Committed(p, pass[p].run, i, new) EXCEPT
                        !.node = to, !.retry_count = new.retry_count, !.verdict = IdlePass.verdict]
  <2>1. /\ next.node = to /\ next.cached = TRUE /\ next.current = i
        /\ next.task = [Seen(p) EXCEPT ![i] = new]
    BY <1>1 DEF Committed, PassState
  <2>2. Become(p, next) /\ SendTask(p, i, new) /\ UNCHANGED <<status, req, escalations>>
    BY <1>2 DEF Decide
  <2>3. to \in Working \ {"load", "plan", "planner"} /\ "pick_task" \notin AtTask
    BY DEF Working, Node, AtTask, Attempting
  <2> HIDE DEF next, i
  <2> QED
    BY <1>1, <1>2, <2>1, <2>2, <2>3, Commits
<1>3. CASE DecideVerified(p)
  <2>1. [old EXCEPT !.status = "verified"] \in Task
    BY <1>1, StatusTypes DEF Task
  <2> QED
    BY <1>2, <1>3, <2>1 DEF DecideVerified
<1>4. CASE DecideRetry(p)
  <2> DEFINE new == [old EXCEPT !.status = "pending", !.retry_count = @ + 1]
  <2>0. old.retry_count + 1 \in Nat
    BY <1>1 DEF Task
  <2>1. new \in Task /\ new.status = StatusAt("execute")
    <3> HIDE DEF old
    <3> QED BY <1>1, <2>0, StatusTypes DEF Task, StatusAt
  <2>2. Decide(p, new, "execute")
    BY <1>4 DEF DecideRetry
  <2> HIDE DEF new
  <2> QED
    BY <1>2, <2>1, <2>2
<1>5. CASE DecideEscalate(p)
  <2> DEFINE new == [old EXCEPT !.status = "failed"]
  <2>1. new \in Task /\ new.status = StatusAt("escalate")
    BY <1>1, StatusTypes DEF Task, StatusAt
  <2>2. Decide(p, new, "escalate")
    BY <1>5 DEF DecideEscalate
  <2> HIDE DEF new
  <2> QED
    BY <1>2, <2>1, <2>2
<1> QED
  BY <1>3, <1>4, <1>5

\* The statuses a node commits, the escalation, and the end.
LEMMA RestHeld ==
  ASSUME HInv, [Next]_vars, NEW p \in Pass,
         \/ Execute(p) \/ Verify(p) \/ Escalate(p) \/ CreateEscalation(p) \/ RecordEscalation(p)
         \/ Finish(p) \/ TaskGone(p) \/ SkipEscalation(p)
  PROVE  Held'
<1> USE DEF database, history, bounds
<1>0. pass[p] \in PassState
  BY DEF HInv, IInv, TypeOK
<1>1. CASE Execute(p)
  BY <1>1, CommitStatusesHeld, StatusTypes DEF Execute, AtTask, Attempting, StatusAt
<1>2. CASE Verify(p)
  BY <1>2, CommitStatusesHeld, StatusTypes DEF Verify, AtTask, Attempting, StatusAt
<1>3. CASE Escalate(p)
  BY <1>3, CommitStatusesHeld, StatusTypes DEF Escalate, AtTask, Attempting, StatusAt
<1>4. CASE CreateEscalation(p)
  <2> DEFINE next == [pass[p] EXCEPT !.node = "escalated"]
  <2>1. /\ next.node = "escalated" /\ next.cached = pass[p].cached
        /\ next.current = pass[p].current /\ next.task = pass[p].task
    BY <1>0 DEF PassState
  <2>2. /\ Become(p, next) /\ pass[p].node = "escalating"
        /\ UNCHANGED <<status, task, req>>
        /\ escalations' = Append(escalations, NewEscalation(pass[p].current))
    BY <1>4 DEF CreateEscalation, At
  <2> HIDE DEF next
  <2>3. Holds(p) /\ Seated(p)' /\ pass[p].current \in Index
    BY <2>1, <2>2, PassesOn DEF AtTask, Attempting, StatusAt
  <2>4. next.node \notin Working
    BY <2>1 DEF Working
  <2> QED
    BY <2>2, <2>3, <2>4, HandsOver
<1>5. CASE RecordEscalation(p) \/ SkipEscalation(p)
  <2> DEFINE next == Without(p, "finish")
  <2>1. next.node = "finish" /\ next.current = None
    BY <1>0 DEF Without, PassState
  <2>2. Become(p, next) /\ UNCHANGED <<status, task, req, escalations>>
    BY <1>5 DEF RecordEscalation, SkipEscalation
  <2> HIDE DEF next
  <2>3. pass'[p] = next
    BY <2>2, Moved DEF HInv
  <2>4. Seated(p)' /\ next.node \notin Working
    BY <2>1, <2>3 DEF Seated, Holds, Working, Node, AtTask, Attempting
  <2> QED
    BY <2>2, <2>4, MovesOn
<1>6. CASE Finish(p)
  <2>1. FinalStatus(Seen(p)) # "queued"
    BY DEF FinalStatus
  <2>2. status' = "queued" => status = "queued"
    BY <1>6, <2>1, NotQueued DEF Finish
  <2> QED
    BY <1>6, <2>2, Ends DEF Finish
<1>7. CASE TaskGone(p)
  <2>1. status' = "queued" => status = "queued"
    BY <1>7, NotQueued DEF TaskGone
  <2> QED
    BY <1>7, <2>1, Ends DEF TaskGone
<1> QED
  BY <1>1, <1>2, <1>3, <1>4, <1>5, <1>6, <1>7

\* A pass that has given the run away has nothing left to write when it raises.
LEMMA PersistsNothing ==
  ASSUME HInv, NEW p \in Pass, pass[p].node \in Node, ~Holds(p), PersistFailure(p)
  PROVE  task' = task /\ escalations' = escalations
<1>1. pass[p].node \in {"escalated", "finish", "finished"} /\ Seated(p)
  BY DEF Holds, Working, HInv, Held
<1>2. CASE pass[p].current = None \/ Gone(pass[p].current)
  BY <1>2 DEF PersistFailure, PersistWith
<1>3. CASE pass[p].node = "escalated" /\ ~(pass[p].current = None \/ Gone(pass[p].current))
  <2> DEFINE i == pass[p].current
             t == Seen(p)[i]
  <2>1. i \in Index /\ t \in Task /\ t.status = "escalated"
    BY <1>1, <1>3, HasCurrent DEF HInv, Seated, StatusAt, AtTask, Attempting
  <2>2. FailedTask(t) = t
    <3> HIDE DEF t
    <3> QED BY <2>1 DEF FailedTask, Task
  <2>3. SendTask(p, i, t) /\ ~NeedsEscalation(p)
    BY <1>3, <2>2 DEF PersistFailure, PersistWith, NeedsEscalation
  <2>4. task' = task
    BY <2>1, <2>3 DEF SendTask, Sent, HInv, IInv, TypeOK, Task
  <2> QED
    BY <1>3, <2>3, <2>4 DEF PersistFailure, PersistWith
<1> QED
  BY <1>1, <1>2, <1>3 DEF Seated

\* A node that raises: what it persists hands the run over, if the pass had it.
LEMMA RaiseHeld ==
  ASSUME HInv, [Next]_vars, NEW p \in Pass, Raise(p)
  PROVE  Held'
<1>1. Over(p, "failing") /\ pass[p].node \in Node /\ UNCHANGED <<owner, req>>
  BY DEF Raise, history
<1>2. CASE UNCHANGED <<status, task, escalations>>
  BY <1>1, <1>2, Ends
<1>3. CASE PersistFailure(p)
  <2>1. status' = "queued" => status = "queued"
    BY <1>3, NotQueued DEF PersistFailure, PersistWith
  <2>2. CASE ~Holds(p)
    BY <1>1, <1>3, <2>1, <2>2, PersistsNothing, Ends
  <2>3. CASE Holds(p) /\ escalations' = escalations
    BY <1>1, <2>1, <2>3, Ends
  <2>4. CASE Holds(p) /\ escalations' # escalations
    <3>1. PICK i \in Index : escalations' = Append(escalations, NewEscalation(i))
      BY <1>3, <2>4, PersistEscalates DEF HInv
    <3>2. Seated(p)' /\ \E next : Become(p, next) /\ next.node \notin Working
      BY <1>1, OverSeated DEF HInv
    <3> QED
      BY <1>1, <2>1, <2>4, <3>1, <3>2, HandsOver
  <2> QED
    BY <2>2, <2>3, <2>4
<1> QED
  BY <1>2, <1>3 DEF Raise

\* Claiming, completing and failing a run.
LEMMA WorkerHeld ==
  ASSUME HInv, [Next]_vars, NEW p \in Pass, WorkerStep(p) \/ DetectHeld(p) \/ Abandon(p) \/ Crash(p)
  PROVE  Held'
<1> USE DEF database, history, bounds
<1>1. CASE Claim(p)
  <2> DEFINE next == [IdlePass EXCEPT !.node = "load"]
  <2>1. next.node = "load" /\ ~next.cached /\ next.current = None
    BY DEF IdlePass
  <2>2. /\ Become(p, next) /\ status = "queued" /\ status' # "queued"
        /\ UNCHANGED <<task, escalations, req>>
    BY <1>1 DEF Claim
  <2> HIDE DEF next
  <2>3. /\ pass'[p] = next /\ \A q \in Pass : q # p => pass'[q] = pass[q]
    BY <2>2, Moved DEF HInv
  <2>4. /\ \A q \in Pass : ~Holds(q)
        /\ \A e \in DOMAIN escalations : ~Waits(e)
        /\ \A c \in Reviewer : ~SendsBack(c)
    BY <2>2 DEF HInv, Held, OneHolder
  <2>5. Seated(p)'
    BY <2>1, <2>2, <2>3 DEF Seated, AtTask, Attempting
  <2>6. ASSUME NEW q \in Pass, q # p
        PROVE  Seated(q)' /\ ~Holds(q)'
    BY <2>3, <2>4, <2>6, Bystander
  <2>7. OneHolder'
    <3>1. \A e \in DOMAIN escalations' : ~Waits(e)'
      BY <2>2, <2>4 DEF Waits
    <3>2. \A c \in Reviewer : ~SendsBack(c)'
      BY <2>2, <2>4 DEF SendsBack
    <3> QED
      BY <2>2, <2>6, <3>1, <3>2 DEF OneHolder
  <2>8. \A c \in Reviewer : Deciding(c)'
    BY <2>2, StillDeciding
  <2> QED
    BY <2>5, <2>6, <2>7, <2>8 DEF Held
<1>2. CASE ~Claim(p)
  <2>1. PICK next : Become(p, next) /\ Outside(next)
    BY <1>2, Aside DEF HInv, IInv
  <2>2. pass'[p] = next /\ next.node \notin Working
    BY <2>1, Moved DEF Outside, Working, Node, HInv
  <2>3. Seated(p)'
    BY <2>1, <2>2 DEF Seated, Outside, Holds, AtTask, Attempting
  <2>4. status' = "queued" => status = "queued"
    BY <1>2, NotQueued DEF WorkerStep, Complete, DetectStuck, DetectHeld, Detect, MarkStuck,
       ReadFailedRun, RecordFailure, Abandon, Crash
  <2> QED
    BY <2>1, <2>2, <2>3, <2>4, WorkerFrame, MovesOn
<1> QED
  BY <1>1, <1>2

-----------------------------------------------------------------------------
(* The steps of the others.                                                 *)

\* Nobody works on the run, and nobody comes to.
LEMMA NobodyWorks ==
  ASSUME HInv, [Next]_vars, \A q \in Pass : ~Holds(q), pass' = pass
  PROVE  \A q \in Pass : Seated(q)' /\ ~Holds(q)'
<1> TAKE q \in Pass
<1>1. pass'[q] = pass[q] /\ ~Holds(q)
  OBVIOUS
<1> QED
  BY <1>1, Bystander

\* What one request changes of the others, if it is the only one: nothing.
LEMMA OneRequest ==
  ASSUME OneReviewer, HInv, NEW c \in Reviewer, NEW q, req' = [req EXCEPT ![c] = q]
  PROVE  req'[c] = q /\ \A d \in Reviewer : req'[d] = q
  BY DEF OneReviewer, HInv, IInv, TypeOK

\* A request reads, or is over.
LEMMA ReadHeld ==
  ASSUME OneReviewer, HInv, [Next]_vars, NEW c \in Reviewer,
         \/ \E e \in DOMAIN escalations, d \in Decision : ReadEscalation(c, e, d)
         \/ LoadRun(c) \/ EscalationGone(c) \/ LoseRequest(c)
  PROVE  Held'
<1> USE DEF database, history, bounds
<1>0. UNCHANGED <<database, pass>>
  BY DEF ReadEscalation, LoadRun, EscalationGone, LoseRequest
<1>1. \A q \in Pass : Seated(q)' /\ (Holds(q)' => Holds(q))
  <2> TAKE q \in Pass
  <2>1. pass'[q] = pass[q] /\ task' = task
    BY <1>0
  <2> QED
    BY <2>1, Resting
<1>2. SendsBack(c)' => SendsBack(c)
  <2>1. ASSUME NEW e, NEW d, ReadEscalation(c, e, d) PROVE ~SendsBack(c)'
    <3> DEFINE q == [IdleRequest EXCEPT
                       !.pc = "deciding", !.escalation = e, !.decision = d,
                       !.task = task[escalations[e].task], !.run = status,
                       !.target = Reconciled([task EXCEPT ![escalations[e].task] = Decided(@, d)])]
    <3>1. q.pc = "deciding"
      BY DEF IdleRequest
    <3>2. req' = [req EXCEPT ![c] = q]
      BY <2>1 DEF ReadEscalation
    <3> HIDE DEF q
    <3> QED BY <3>1, <3>2, OneRequest DEF SendsBack
  <2>2. LoadRun(c) => SendsBack(c)
    BY DEF LoadRun, SendsBack
  <2>3. CASE EscalationGone(c) \/ LoseRequest(c)
    <3>1. req'[c] = IdleRequest
      BY <2>3, OneRequest DEF EscalationGone, LoseRequest
    <3> QED
      BY <3>1 DEF SendsBack, IdleRequest
  <2> QED
    BY <2>1, <2>2, <2>3
<1>3. OneHolder'
  <2>1. OneHolder
    BY DEF HInv, Held
  <2>2. \A e \in DOMAIN escalations' : e \in DOMAIN escalations /\ (Waits(e)' <=> Waits(e))
    BY <1>0 DEF Waits
  <2>3. status' = status
    BY <1>0
  <2>4. \A d \in Reviewer : SendsBack(d)' => SendsBack(d)
    BY <1>2 DEF OneReviewer
  <2>5. \A e \in DOMAIN escalations : e \in DOMAIN escalations'
    BY <1>0
  <2> QED
    BY <1>1, <2>1, <2>2, <2>3, <2>4 DEF OneHolder
<1>4. Deciding(c)'
  <2>1. ASSUME NEW e \in DOMAIN escalations, NEW d \in Decision, ReadEscalation(c, e, d)
        PROVE  Deciding(c)'
    <3> DEFINE target == Reconciled([task EXCEPT ![escalations[e].task] = Decided(@, d)])
               q == [IdleRequest EXCEPT
                       !.pc = "deciding", !.escalation = e, !.decision = d,
                       !.task = task[escalations[e].task], !.run = status, !.target = target]
    <3>1. q.pc = "deciding" /\ q.escalation = e /\ q.target = target
      BY DEF IdleRequest
    <3>2. req' = [req EXCEPT ![c] = q] /\ Waits(e)
      BY <2>1 DEF ReadEscalation, Waits
    <3>3. target # "queued"
      BY DEF Reconciled
    <3> HIDE DEF q, target
    <3>4. req'[c] = q
      BY <3>2, OneRequest
    <3> QED
      BY <1>0, <3>1, <3>2, <3>3, <3>4 DEF Deciding, Waits
  <2>2. ASSUME NEW q, req' = [req EXCEPT ![c] = q], q.pc # "deciding"
        PROVE  Deciding(c)'
    <3>1. req'[c] = q
      BY <2>2, OneRequest
    <3> QED
      BY <2>2, <3>1 DEF Deciding
  <2>3. /\ IdleRequest.pc # "deciding"
        /\ [IdleRequest EXCEPT !.pc = "loaded", !.run = status, !.owner = owner].pc # "deciding"
    BY DEF IdleRequest
  <2> QED
    BY <2>1, <2>2, <2>3 DEF LoadRun, EscalationGone, LoseRequest
<1>5. \A d \in Reviewer : Deciding(d)'
  BY <1>4 DEF OneReviewer
<1> QED
  BY <1>1, <1>3, <1>5 DEF Held

\* A decision takes its escalation off the queue.  Nobody has the run then but the request,
\* if it sends the task back.
LEMMA CommitHeld ==
  ASSUME OneReviewer, HInv, [Next]_vars, NEW c \in Reviewer, CommitDecision(c)
  PROVE  Held'
<1> DEFINE q == req[c]
           e == q.escalation
           row == Resolved(escalations[e], q.decision)
           next == IF q.decision = "send_back"
                     THEN [IdleRequest EXCEPT !.pc = "decided", !.escalation = e] ELSE IdleRequest
<1>0. /\ q \in Request /\ e \in DOMAIN escalations /\ q.decision \in Decision
      /\ escalations[e] \in Escalation
  <2>1. q \in Request
    BY DEF HInv, IInv, TypeOK
  <2> QED
    BY <2>1, EscalationType DEF CommitDecision, HInv, IInv, HasRow, Request
<1>1. Waits(e) /\ q.target # "queued"
  BY DEF HInv, Held, Deciding, CommitDecision
<1>2. /\ status # "queued" /\ \A p \in Pass : ~Holds(p)
      /\ \A f \in DOMAIN escalations : Waits(f) => f = e
  BY <1>0, <1>1 DEF HInv, Held, OneHolder
<1>3. \A p \in Pass : Seated(p)' /\ ~Holds(p)'
  BY <1>2, NobodyWorks DEF CommitDecision
<1>4. status' # "queued"
  BY <1>1, <1>2 DEF CommitDecision, Sent
<1>5. \A f \in DOMAIN escalations' : ~Waits(f)'
  <2>1. row.status \in {"approved", "rejected", "sent_back"}
    BY <1>0, ResolvedType
  <2>2. escalations' = [escalations EXCEPT ![e] = row]
    BY DEF CommitDecision
  <2> HIDE DEF row, e
  <2> QED
    BY <1>2, <2>1, <2>2 DEF Waits
<1>6. \A d \in Reviewer : Deciding(d)'
  <2>1. next.pc # "deciding"
    BY DEF IdleRequest
  <2>2. req' = [req EXCEPT ![c] = next]
    BY DEF CommitDecision
  <2> HIDE DEF next
  <2>3. \A d \in Reviewer : req'[d] = next
    BY <2>2, OneRequest
  <2> QED
    BY <2>1, <2>3 DEF Deciding
<1> QED
  BY <1>3, <1>4, <1>5, <1>6 DEF Held, OneHolder

\* The request gives the run to the queue.
LEMMA EnqueueHeld ==
  ASSUME OneReviewer, HInv, [Next]_vars, NEW c \in Reviewer, EnqueueRun(c)
  PROVE  Held'
<1>0. UNCHANGED <<task, escalations, pass>> /\ req' = [req EXCEPT ![c] = IdleRequest]
  BY DEF EnqueueRun
<1>1. /\ \A p \in Pass : ~Holds(p)
      /\ \A e \in DOMAIN escalations : ~Waits(e)
  BY DEF HInv, Held, OneHolder, EnqueueRun, SendsBack
<1>2. \A p \in Pass : Seated(p)' /\ ~Holds(p)'
  BY <1>0, <1>1, NobodyWorks
<1>3. \A e \in DOMAIN escalations' : ~Waits(e)'
  BY <1>0, <1>1 DEF Waits
<1>4. \A d \in Reviewer : ~SendsBack(d)' /\ Deciding(d)'
  <2>1. IdleRequest.pc = "idle"
    BY DEF IdleRequest
  <2>2. \A d \in Reviewer : req'[d] = IdleRequest
    BY <1>0, OneRequest
  <2> QED
    BY <2>1, <2>2 DEF SendsBack, Deciding
<1> QED
  BY <1>2, <1>3, <1>4 DEF Held, OneHolder

\* A task is deleted under everybody.
LEMMA DeleteHeld ==
  ASSUME HInv, [Next]_vars, NEW i \in Index, DeleteTask(i)
  PROVE  Held'
<1> DEFINE Hidden(p) == [pass[p] EXCEPT !.task[i] = NoTask]
<1>0. task' = [task EXCEPT ![i] = NoTask] /\ task' \in [Index -> Task] /\ UNCHANGED <<status, req>>
  BY NoTaskRowType DEF DeleteTask, HInv, IInv, TypeOK
<1>1. ASSUME NEW p \in Pass
      PROVE  /\ pass'[p].node = pass[p].node /\ pass'[p].cached = pass[p].cached
             /\ pass'[p].current = pass[p].current /\ pass'[p].planned = pass[p].planned
             /\ pass[p].cached => pass'[p].task = [pass[p].task EXCEPT ![i] = NoTask]
  <2>1. pass[p] \in PassState
    BY DEF HInv, IInv, TypeOK
  <2>2. pass'[p] = IF pass[p].cached THEN Hidden(p) ELSE pass[p]
    BY DEF DeleteTask
  <2> QED
    BY <2>1, <2>2 DEF PassState
<1>2. ASSUME NEW p \in Pass PROVE Seated(p)' /\ (Holds(p)' <=> Holds(p))
  <2>0. Seated(p) /\ Seen(p) \in [Index -> Task]
    BY SeenType DEF HInv, Held, IInv
  <2>1. Holds(p)' <=> Holds(p)
    BY <1>1 DEF Holds
  <2>2. Holds(p) /\ pass[p].cached => pass'[p].task = task'
    BY <1>0, <1>1, <2>0 DEF Seated
  <2>3. Planned(task) = {} => Planned(task)' = {}
    <3>1. task \in [Index -> Task] /\ NoTask.status \notin TaskStatus
      BY DEF HInv, IInv, TypeOK, NoTask, TaskStatus, Deleted
    <3> QED
      BY <1>0, <3>1 DEF Planned
  <2>4. ASSUME pass[p].node \in AtTask, ~Gone(pass[p].current)'
        PROVE  /\ ~Gone(pass[p].current)
               /\ Seen(p)'[pass[p].current] = Seen(p)[pass[p].current]
    <3>1. pass[p].current \in Index /\ pass'[p].current = pass[p].current
      BY <1>1, <2>4, HasCurrent DEF HInv
    <3>2. pass[p].current # i
      BY <1>0, <1>1, <2>4, <3>1 DEF Gone, NoTask, HInv, IInv, TypeOK
    <3>3. pass[p].task \in [Index -> Task] /\ task \in [Index -> Task]
      BY DEF HInv, IInv, TypeOK, PassState
    <3> QED
      BY <1>0, <1>1, <2>4, <3>1, <3>2, <3>3 DEF Gone, Seen
  <2> QED
    BY <1>0, <1>1, <2>0, <2>1, <2>2, <2>3, <2>4 DEF Seated
<1>3. \A e \in DOMAIN escalations' : e \in DOMAIN escalations /\ (Waits(e)' => Waits(e))
  <2> SUFFICES ASSUME NEW e \in DOMAIN escalations PROVE Waits(e)' => Waits(e)
    BY DEF DeleteTask
  <2>1. /\ escalations[e] \in Escalation
        /\ escalations'[e] \in {escalations[e], [escalations[e] EXCEPT !.status = Deleted]}
    BY EscalationType DEF DeleteTask, HInv, IInv
  <2> QED
    BY <2>1 DEF Waits, Escalation, Deleted
<1>4. OneHolder'
  <2>1. OneHolder /\ \A c \in Reviewer : SendsBack(c)' <=> SendsBack(c)
    BY <1>0 DEF HInv, Held, SendsBack
  <2> QED
    BY <1>0, <1>2, <1>3, <2>1 DEF OneHolder
<1>5. ASSUME NEW c \in Reviewer, req[c].pc = "deciding" PROVE Deciding(c)'
  <2> DEFINE e == req[c].escalation
  <2>1. e \in DOMAIN escalations /\ Deciding(c) /\ req' = req
    BY <1>0, <1>5 DEF HInv, IInv, HasRow, Held
  <2>2. /\ escalations[e] \in Escalation
        /\ escalations'[e] \in {escalations[e], [escalations[e] EXCEPT !.status = Deleted]}
    BY <2>1, EscalationType DEF DeleteTask, HInv, IInv
  <2>3. escalations'[e].status \in {escalations[e].status, Deleted}
    BY <2>2 DEF Escalation
  <2> QED
    BY <1>5, <2>1, <2>3 DEF Deciding, Waits
<1>6. \A c \in Reviewer : Deciding(c)'
  BY <1>0, <1>5 DEF Deciding
<1> QED
  BY <1>2, <1>4, <1>6 DEF Held

-----------------------------------------------------------------------------
\* At the start the queue has the run.
LEMMA InitHInv == Init => HInv
<1> SUFFICES ASSUME Init PROVE HInv
  OBVIOUS
<1>1. DOMAIN escalations = {}
  BY DEF Init
<1>2. \A p \in Pass : pass[p].node = "idle" /\ ~Holds(p)
  BY DEF Init, IdlePass, Holds, Working, Node
<1>3. \A c \in Reviewer : req[c].pc = "idle"
  BY DEF Init, IdleRequest
<1>4. \A p \in Pass : Seated(p)
  BY <1>2 DEF Seated, AtTask, Attempting
<1>5. RowsOfTasks /\ OneHolder /\ \A c \in Reviewer : Deciding(c)
  BY <1>1, <1>2, <1>3 DEF RowsOfTasks, OneHolder, SendsBack, Deciding
<1> QED
  BY <1>4, <1>5, InitIInv DEF HInv, Held

\* Every step keeps the invariant.
LEMMA NextHInv == ASSUME OneReviewer, HInv, [Next]_vars PROVE HInv'
<1>1. IInv' /\ RowsOfTasks'
  BY NextIInv, RowsOfTasksStep DEF HInv
<1>2. CASE Next
  <2>1. Held'
    BY <1>2, PlanningHeld, PickHeld, AttemptHeld, DecideHeld, RestHeld, WorkerHeld, RaiseHeld,
       ReadHeld, CommitHeld, EnqueueHeld, DeleteHeld DEF Next, GraphStep, ReviewStep
  <2> QED
    BY <1>1, <2>1 DEF HInv
<1>3. CASE UNCHANGED vars
  <2>1. UNCHANGED <<status, task, escalations, pass, req>>
    BY <1>3 DEF vars, database
  <2>2. ASSUME NEW q \in Pass PROVE Seated(q)' /\ (Holds(q)' => Holds(q))
    <3>1. pass'[q] = pass[q] /\ task' = task
      BY <2>1
    <3> QED
      BY <3>1, Resting
  <2>3. OneHolder'
    BY <2>1, <2>2 DEF HInv, Held, OneHolder, Waits, SendsBack
  <2>4. \A c \in Reviewer : Deciding(c)'
    BY <2>1, StillDeciding
  <2> QED
    BY <1>1, <2>2, <2>3, <2>4 DEF HInv, Held
<1> QED
  BY <1>2, <1>3

\* The invariant holds in every state that one reviewer at a time can bring about.
LEMMA OneHolderAlways == ASSUME OneReviewer PROVE Spec => []HInv
<1>1. HInv /\ [Next]_vars => HInv'
  BY NextHInv
<1> QED
  BY InitHInv, <1>1, PTL DEF Spec

\* A task is never twice in the review queue, whichever passes overlap, raise or crash, as
\* long as one reviewer decides at a time: the run itself is held by one row of the queue.
THEOREM NeverTwiceInReview == ASSUME OneReviewer PROVE Spec => []OnePendingEscalation
<1>1. ASSUME HInv PROVE OnePendingEscalation
  <2> SUFFICES ASSUME NEW i \in Index
               PROVE  Cardinality({e \in DOMAIN escalations :
                        /\ escalations[e].task = i
                        /\ escalations[e].status = "pending_review"}) <= 1
    BY DEF OnePendingEscalation
  <2> DEFINE S == {e \in DOMAIN escalations :
                     escalations[e].task = i /\ escalations[e].status = "pending_review"}
  <2>1. \A e, f \in S : e = f
    BY <1>1 DEF HInv, Held, OneHolder, Waits
  <2> HIDE DEF S
  <2>2. S = {} \/ \E e : S = {e}
    BY <2>1
  <2>3. CASE S = {}
    BY <2>3, FS_EmptySet DEF S
  <2>4. CASE \E e : S = {e}
    <3>1. PICK e : S = {e}
      BY <2>4
    <3>2. Cardinality({e}) = 1
      BY FS_Singleton
    <3> QED
      BY <3>1, <3>2 DEF S
  <2> QED
    BY <2>2, <2>3, <2>4
<1> QED
  BY <1>1, OneHolderAlways, PTL

\* What a pass at one of the nodes of a task writes of a verified task is nothing: the task
\* it works on is not verified.
LEMMA WritesUnverified ==
  ASSUME HInv, NEW p \in Pass, pass[p].node \in AtTask \ {"escalated"}, ~Gone(pass[p].current),
         NEW new \in Task, SendTask(p, pass[p].current, new),
         NEW i \in Index, task[i].status = "verified"
  PROVE  task'[i] = task[i]
<1>1. Holds(p) /\ pass[p].current \in Index /\ Seated(p)
  BY HasCurrent DEF HInv, Held, Holds, Working, Node, AtTask, Attempting
<1>2. Seen(p) = task /\ task' = [task EXCEPT ![pass[p].current] = new]
  BY <1>1, Writes
<1>3. i # pass[p].current
  BY <1>1, <1>2 DEF Seated, StatusAt
<1> QED
  BY <1>2, <1>3 DEF HInv, IInv, TypeOK

\* What a failed pass writes of a verified task is that it is verified.
LEMMA PersistsVerified ==
  ASSUME HInv, NEW p \in Pass, pass[p].node \in Node, PersistFailure(p),
         NEW i \in Index, task[i].status = "verified"
  PROVE  task'[i].status = "verified"
<1>1. CASE ~Holds(p)
  BY <1>1, PersistsNothing
<1>2. CASE pass[p].current = None \/ Gone(pass[p].current)
  BY <1>2 DEF PersistFailure, PersistWith
<1>3. CASE Holds(p) /\ ~(pass[p].current = None \/ Gone(pass[p].current))
  <2> DEFINE k == pass[p].current
             new == FailedTask(Seen(p)[k])
  <2>1. k \in Index /\ Seen(p)[k] \in Task
    <3>1. pass[p] \in PassState
      BY DEF HInv, IInv, TypeOK
    <3>2. k \in Index
      BY <1>3, <3>1 DEF PassState
    <3> QED
      BY <3>2, SeenType DEF HInv, IInv
  <2>2. new \in Task /\ (Seen(p)[k].status = "verified" => new.status = "verified")
    BY <2>1, StatusTypes DEF FailedTask, Task
  <2>3. SendTask(p, k, new)
    BY <1>3 DEF PersistFailure, PersistWith
  <2> HIDE DEF new, k
  <2>4. Seen(p) = task /\ task' = [task EXCEPT ![k] = new]
    BY <1>3, <2>1, <2>2, <2>3, Writes
  <2> QED
    BY <2>1, <2>2, <2>4 DEF HInv, IInv, TypeOK
<1> QED
  BY <1>1, <1>2, <1>3

\* No step of a pass takes a verification back.
LEMMA KeepsVerified ==
  ASSUME HInv, [Next]_vars, NEW i \in Index, task[i].status = "verified"
  PROVE  task'[i].status \in {"verified", Deleted} \/ \E c \in Reviewer : CommitDecision(c)
<1> USE DEF database
<1>0. task \in [Index -> Task]
  BY DEF HInv, IInv, TypeOK
<1>1. ASSUME NEW p \in Pass, GraphStep(p)
      PROVE  task'[i].status = "verified"
  <2>0. pass[p] \in PassState
    BY DEF HInv, IInv, TypeOK
  <2>1. CASE \/ Load(p) \/ Plan(p) \/ KeepTasks(p) \/ PickTask(p) \/ StartAttempt(p)
             \/ AttemptConflict(p) \/ CallTool(p) \/ Check(p) \/ Judge(p) \/ CreateEscalation(p)
             \/ RecordEscalation(p) \/ Finish(p) \/ TaskGone(p) \/ SkipEscalation(p)
    BY <2>1 DEF Load, Plan, KeepTasks, PickTask, StartAttempt, AttemptConflict, CallTool, Check,
       Judge, CreateEscalation, RecordEscalation, Finish, TaskGone, SkipEscalation
  <2>2. ASSUME NEW from \in AtTask \ {"escalated"}, NEW to, NEW s, NEW t \in TaskStatus,
               CommitStatuses(p, from, to, s, t)
        PROVE  task'[i].status = "verified"
    <3> DEFINE new == [Seen(p)[pass[p].current] EXCEPT !.status = t]
    <3>1. pass[p].node = from /\ ~Gone(pass[p].current) /\ SendTask(p, pass[p].current, new)
      BY <2>2 DEF CommitStatuses, At
    <3>2. new \in Task
      BY <3>1, HasCurrent DEF HInv, Task
    <3> HIDE DEF new
    <3> QED
      BY <3>1, <3>2, WritesUnverified
  <2>3. CASE Execute(p) \/ Verify(p) \/ Escalate(p)
    BY <2>2, <2>3, StatusTypes DEF Execute, Verify, Escalate, AtTask, Attempting
  <2>4. CASE DecideVerified(p) \/ DecideRetry(p) \/ DecideEscalate(p)
    <3>1. pass[p].node = "decide" /\ ~Gone(pass[p].current)
      BY <2>4 DEF DecideVerified, DecideRetry, DecideEscalate, Decide, At
    <3>2. PICK new \in Task : SendTask(p, pass[p].current, new)
      BY <2>4, DecideSends DEF HInv, Sends
    <3> QED
      BY <3>1, <3>2, WritesUnverified DEF AtTask, Attempting
  <2>5. CASE CreateTasks(p)
    <3>1. Planned(task) = {}
      BY <2>5 DEF CreateTasks, HInv, Held, Seated
    <3> QED
      BY <3>1, StatusTypes DEF Planned
  <2>6. CASE FailPlanning(p)
    <3>1. PICK k \in Index : /\ \A j \in Index : task[j].status = NoRow <=> j >= k
                             /\ task' = [task EXCEPT ![k] = [status |-> "escalated", retry_count |-> 0]]
      BY <2>6 DEF FailPlanning
    <3>2. k \in Nat /\ k >= k
      BY SMT DEF Index
    <3>3. i # k
      BY <3>1, <3>2 DEF NoRow
    <3> QED
      BY <1>0, <3>1, <3>3
  <2> QED
    BY <1>1, <2>1, <2>3, <2>4, <2>5, <2>6 DEF GraphStep
<1>2. ASSUME NEW p \in Pass, WorkerStep(p) \/ DetectHeld(p) \/ Abandon(p) \/ Crash(p)
      PROVE  task' = task
  BY <1>2, WorkerFrame
<1>3. ASSUME NEW p \in Pass, Raise(p)
      PROVE  task'[i].status = "verified"
  BY <1>3, PersistsVerified DEF Raise
<1>4. ASSUME NEW c \in Reviewer,
             \/ \E e \in DOMAIN escalations, d \in Decision : ReadEscalation(c, e, d)
             \/ ReviewStep(c) \/ LoseRequest(c)
      PROVE  task' = task \/ CommitDecision(c)
  BY <1>4 DEF ReviewStep, ReadEscalation, LoadRun, EnqueueRun, EscalationGone, LoseRequest
<1>5. ASSUME NEW j \in Index, DeleteTask(j)
      PROVE  task'[i].status \in {"verified", Deleted}
  BY <1>0, <1>5 DEF DeleteTask, NoTask
<1>6. UNCHANGED vars => task' = task
  BY DEF vars
<1> QED
  BY <1>1, <1>2, <1>3, <1>4, <1>5, <1>6 DEF Next

\* Only a reviewer takes the verification of a task back, or its deletion: no pass does,
\* however late, and no failure, as long as one reviewer decides at a time.
THEOREM VerificationStays == ASSUME OneReviewer PROVE Spec => VerifiedStays
<1> DEFINE A == \A i \in Index :
                  (task[i].status = "verified" /\ task'[i].status \notin {"verified", Deleted}) =>
                  \E c \in Reviewer : CommitDecision(c)
<1>1. HInv /\ [Next]_vars => A
  BY KeepsVerified
<1> HIDE DEF A
<1>2. Spec => [][A]_vars
  BY <1>1, OneHolderAlways, PTL DEF Spec
<1> QED
  BY <1>2 DEF VerifiedStays, A

-----------------------------------------------------------------------------
(* A tool is called at most 1 + max_retries times.                          *)

\* The pass p is left where it is.
Stays(p) ==
  /\ pass'[p].node = pass[p].node /\ pass'[p].current = pass[p].current
  /\ pass'[p].attempt = pass[p].attempt /\ pass'[p].retry_count = pass[p].retry_count

\* It goes on with its task, neither to a new attempt nor to the call.
GoesOn(p) ==
  /\ pass[p].node \in AtTask \ {"escalated"} /\ pass'[p].node \in AtTask \ {"execute", "tool"}
  /\ pass'[p].current = pass[p].current /\ pass'[p].attempt = pass[p].attempt
  /\ pass'[p].retry_count = pass[p].retry_count

\* It has no task any more, or is between two.
Leaves(p) == pass'[p].node \notin AtTask /\ pass'[p].attempt \in {pass[p].attempt, None}

\* It begins an attempt, has one more, escalates its task, or takes a task up.
Begins(p) ==
  /\ StartAttempt(p) /\ pass'[p].node = "tool"
  /\ pass'[p].current = pass[p].current /\ pass'[p].retry_count = pass[p].retry_count
  /\ pass'[p].attempt = Seen(p)[pass[p].current].retry_count
Decides(p) ==
  /\ pass[p].node = "decide" /\ pass'[p].current = pass[p].current /\ pass'[p].attempt = pass[p].attempt
  /\ LET n == Seen(p)[pass[p].current].retry_count IN
       \/ DecideRetry(p) /\ pass'[p].node = "execute" /\ pass'[p].retry_count = n + 1
       \/ DecideEscalate(p) /\ pass'[p].node = "escalate" /\ pass'[p].retry_count = n
Picks(p) ==
  /\ pass[p].node = "pick_task" /\ pass'[p].node = "execute"
  /\ pass'[p].attempt = None /\ pass'[p].current \in Index
  /\ pass'[p].retry_count = Seen(p)[pass'[p].current].retry_count

\* A pass that becomes another one with no task.
LEMMA BecomeLeaves ==
  ASSUME IInv, NEW p \in Pass, NEW next, Become(p, next), next.node \notin AtTask,
         next.attempt \in {pass[p].attempt, None}
  PROVE  Leaves(p)
  BY Moved DEF Leaves

\* ... because it is over, or has none left.
LEMMA OverLeaves ==
  ASSUME IInv, NEW p \in Pass,
         \/ Become(p, IdlePass) \/ Over(p, "failing") \/ Over(p, "finished")
         \/ Become(p, Without(p, "finish")) \/ Become(p, [IdlePass EXCEPT !.node = "load"])
  PROVE  Leaves(p)
<1> DEFINE Ended(node) == [IdlePass EXCEPT !.node = node]
<1>1. /\ IdlePass.node = "idle" /\ IdlePass.attempt = None
      /\ \A n \in {"failing", "finished", "load"} : Ended(n).node = n /\ Ended(n).attempt = None
  BY DEF IdlePass
<1>2. Without(p, "finish").node = "finish" /\ Without(p, "finish").attempt = None
  <2>1. pass[p] \in PassState
    BY DEF IInv, TypeOK
  <2> QED
    BY <2>1 DEF Without, PassState
<1>3. PICK next \in {IdlePass, Ended("failing"), Ended("finished"), Ended("load"), Without(p, "finish")} :
        Become(p, next)
  BY DEF Over
<1>4. next.node \in {"idle", "failing", "finished", "load", "finish"} /\ next.attempt = None
  BY <1>1, <1>2, <1>3
<1> HIDE DEF Ended
<1> QED
  BY <1>3, <1>4, BecomeLeaves DEF AtTask, Attempting

\* A pass that goes on with its task.
LEMMA BecomeGoesOn ==
  ASSUME IInv, NEW p \in Pass, NEW next, Become(p, next),
         pass[p].node \in AtTask \ {"escalated"}, next.node \in AtTask \ {"execute", "tool"},
         next.current = pass[p].current, next.attempt = pass[p].attempt,
         next.retry_count = pass[p].retry_count
  PROVE  GoesOn(p)
  BY Moved DEF GoesOn

\* What a decision leaves of its pass.
LEMMA DecideBecomes ==
  ASSUME IInv, NEW p \in Pass, NEW new, NEW to, Decide(p, new, to)
  PROVE  /\ pass[p].node = "decide" /\ pass'[p].node = to /\ pass'[p].current = pass[p].current
         /\ pass'[p].attempt = pass[p].attempt /\ pass'[p].retry_count = new.retry_count
<1>0. pass[p] \in PassState
  BY DEF IInv, TypeOK
<1> DEFINE next == [Committed(p, pass[p].run, pass[p].current, new) EXCEPT
                      !.node = to, !.retry_count = new.retry_count, !.verdict = IdlePass.verdict]
<1>1. /\ next.node = to /\ next.current = pass[p].current /\ next.attempt = pass[p].attempt
      /\ next.retry_count = new.retry_count
  BY <1>0 DEF Committed, PassState
<1>2. Become(p, next) /\ pass[p].node = "decide"
  BY DEF Decide, At
<1> HIDE DEF next
<1>3. pass'[p] = next
  BY <1>2, Moved
<1> QED
  BY <1>1, <1>2, <1>3

\* One more attempt goes back to the execute node.
LEMMA RetryBecomes ==
  ASSUME IInv, NEW p \in Pass, DecideRetry(p)
  PROVE  pass[p].node = "decide" /\ pass'[p].node = "execute"
  BY DecideBecomes DEF DecideRetry

\* What one step of a pass makes of its task, its attempt and its count of retries.
LEMMA CountStep ==
  ASSUME IInv, NEW p \in Pass, GraphStep(p)
  PROVE  GoesOn(p) \/ Leaves(p) \/ Begins(p) \/ Decides(p) \/ Picks(p)
<1>0. pass[p] \in PassState
  BY DEF IInv, TypeOK
<1>1. CASE Load(p) \/ Plan(p) \/ KeepTasks(p) \/ CreateTasks(p) \/ FailPlanning(p)
  <2>1. PICK next : /\ Become(p, next)
                    /\ next \in {[pass[p] EXCEPT !.node = "plan", !.run = status, !.planned = Planned(task) # {}],
                                 [pass[p] EXCEPT !.node = "planner", !.run = status'],
                                 [pass[p] EXCEPT !.node = "pick_task", !.planned = FALSE],
                                 [pass[p] EXCEPT !.node = "finish", !.run = "needs_review"]}
    BY <1>1 DEF Load, Plan, KeepTasks, CreateTasks, FailPlanning
  <2>2. next.node \in {"plan", "planner", "pick_task", "finish"} /\ next.attempt = pass[p].attempt
    BY <1>0, <2>1 DEF PassState
  <2> QED
    BY <2>1, <2>2, BecomeLeaves DEF AtTask, Attempting
<1>2. CASE \/ AttemptConflict(p) \/ RecordEscalation(p) \/ Finish(p) \/ TaskGone(p) \/ SkipEscalation(p)
  BY <1>2, OverLeaves DEF AttemptConflict, RecordEscalation, Finish, TaskGone, SkipEscalation
<1>3. CASE Execute(p) \/ Verify(p) \/ Escalate(p)
  <2>1. ASSUME NEW from \in AtTask \ {"escalated"}, NEW to \in AtTask \ {"execute", "tool"}, NEW s, NEW t,
               CommitStatuses(p, from, to, s, t)
        PROVE  GoesOn(p)
    <3> DEFINE new == [Seen(p)[pass[p].current] EXCEPT !.status = t]
               next == [Committed(p, s, pass[p].current, new) EXCEPT !.node = to]
    <3>1. /\ next.node = to /\ next.current = pass[p].current /\ next.attempt = pass[p].attempt
          /\ next.retry_count = pass[p].retry_count
      <4> HIDE DEF new
      <4> QED BY <1>0 DEF Committed, PassState
    <3>2. Become(p, next) /\ pass[p].node = from
      BY <2>1 DEF CommitStatuses, At
    <3> HIDE DEF next
    <3> QED
      BY <3>1, <3>2, BecomeGoesOn
  <2> QED
    BY <1>3, <2>1 DEF Execute, Verify, Escalate, AtTask, Attempting
<1>4. CASE CallTool(p) \/ Check(p) \/ Judge(p) \/ CreateEscalation(p)
  <2>1. PICK next : /\ Become(p, next)
                    /\ \/ next = [pass[p] EXCEPT !.node = "verify", !.task[pass[p].current] = task[pass[p].current]]
                       \/ \E v \in Verdict : next = [pass[p] EXCEPT !.node = "decide", !.verdict = v]
                       \/ next = [pass[p] EXCEPT !.node = "judge"]
                       \/ next = [pass[p] EXCEPT !.node = "escalated"]
    BY <1>4 DEF CallTool, Check, Judge, CreateEscalation
  <2>2. /\ next.node \in {"verify", "decide", "judge", "escalated"} /\ next.current = pass[p].current
        /\ next.attempt = pass[p].attempt /\ next.retry_count = pass[p].retry_count
    BY <1>0, <2>1 DEF PassState
  <2>3. pass[p].node \in {"tool", "check", "judge", "escalating"}
    BY <1>4 DEF CallTool, Check, Judge, CreateEscalation, At
  <2> QED
    BY <2>1, <2>2, <2>3, BecomeGoesOn DEF AtTask, Attempting
<1>5. CASE StartAttempt(p)
  <2> DEFINE a == Seen(p)[pass[p].current].retry_count
             next == [pass[p] EXCEPT !.node = "tool", !.attempt = a]
  <2>1. /\ next.node = "tool" /\ next.current = pass[p].current /\ next.attempt = a
        /\ next.retry_count = pass[p].retry_count
    <3> HIDE DEF a
    <3> QED BY <1>0 DEF PassState
  <2>2. Become(p, next)
    BY <1>5 DEF StartAttempt
  <2> HIDE DEF next
  <2>3. pass'[p] = next
    BY <2>2, Moved
  <2> QED
    BY <1>5, <2>1, <2>3 DEF Begins
<1>6. CASE DecideVerified(p) \/ DecideRetry(p) \/ DecideEscalate(p)
  <2> DEFINE old == Seen(p)[pass[p].current]
  <2>1. old \in Task
    BY <1>6, HasCurrent DEF DecideVerified, DecideRetry, DecideEscalate, Decide, At, AtTask, Attempting
  <2>2. /\ [old EXCEPT !.status = "pending", !.retry_count = @ + 1].retry_count = old.retry_count + 1
        /\ [old EXCEPT !.status = "failed"].retry_count = old.retry_count
    <3> HIDE DEF old
    <3> QED BY <2>1 DEF Task
  <2>3. CASE DecideVerified(p)
    <3>1. pass'[p].node = "pick_task" /\ pass'[p].attempt = pass[p].attempt
      BY <2>3, DecideBecomes DEF DecideVerified
    <3> QED
      BY <3>1 DEF Leaves, AtTask, Attempting
  <2>4. CASE DecideRetry(p)
    <3> DEFINE new == [old EXCEPT !.status = "pending", !.retry_count = @ + 1]
    <3>1. Decide(p, new, "execute") /\ new.retry_count = old.retry_count + 1
      BY <2>2, <2>4 DEF DecideRetry
    <3> HIDE DEF new
    <3> QED
      BY <2>4, <3>1, DecideBecomes DEF Decides
  <2>5. CASE DecideEscalate(p)
    <3> DEFINE new == [old EXCEPT !.status = "failed"]
    <3>1. Decide(p, new, "escalate") /\ new.retry_count = old.retry_count
      BY <2>2, <2>5 DEF DecideEscalate
    <3> HIDE DEF new
    <3> QED
      BY <2>5, <3>1, DecideBecomes DEF Decides
  <2> QED
    BY <1>6, <2>3, <2>4, <2>5
<1>7. CASE PickTask(p)
  <2>1. CASE Become(p, Without(p, "finish"))
    BY <2>1, OverLeaves
  <2>2. ASSUME NEW i \in Pending(p),
               Become(p, [Without(p, "execute") EXCEPT !.current = i,
                                                       !.retry_count = Seen(p)[i].retry_count])
        PROVE  Picks(p)
    <3> DEFINE n == Seen(p)[i].retry_count
               start == Without(p, "execute")
               next == [start EXCEPT !.current = i, !.retry_count = n]
    <3>1. start \in PassState /\ start.node = "execute"
      BY WithoutType DEF IInv, Node
    <3>2. start.attempt = None
      BY <1>0 DEF Without, PassState
    <3>3. next.node = "execute" /\ next.attempt = None /\ next.current = i /\ next.retry_count = n
      <4> HIDE DEF start, n
      <4> QED BY <3>1, <3>2 DEF PassState
    <3>4. Become(p, next)
      BY <2>2
    <3> HIDE DEF next
    <3>5. pass'[p] = next
      BY <3>4, Moved
    <3> QED
      BY <1>7, <3>3, <3>5 DEF Picks, PickTask, Pending
  <2> QED
    BY <1>7, <2>1, <2>2 DEF PickTask
<1> QED
  BY <1>1, <1>2, <1>3, <1>4, <1>5, <1>6, <1>7 DEF GraphStep

\* ... and one of anybody.
LEMMA AnyCountStep ==
  ASSUME IInv, NEW p \in Pass, [Next]_vars
  PROVE  Stays(p) \/ GoesOn(p) \/ Leaves(p) \/ Begins(p) \/ Decides(p) \/ Picks(p)
<1> USE DEF database, history, bounds
<1>1. ASSUME NEW q \in Pass, q # p,
             \/ GraphStep(q) \/ WorkerStep(q) \/ DetectHeld(q) \/ Abandon(q) \/ Crash(q) \/ Raise(q)
      PROVE  Stays(p)
  <2>1. ASSUME NEW next, Become(q, next) PROVE Stays(p)
    BY <1>1, <2>1, Moved DEF Stays
  <2>2. \E next : Become(q, next)
    BY <1>1 DEF GraphStep, WorkerStep, Abandon, Crash, Raise, Load, Plan, KeepTasks, CreateTasks,
       FailPlanning, PickTask, Execute, StartAttempt, AttemptConflict, CallTool, Verify, Check, Judge,
       DecideVerified, DecideRetry, DecideEscalate, Decide, Escalate, CommitStatuses, CreateEscalation,
       RecordEscalation, Finish, TaskGone, SkipEscalation, Claim, Complete, DetectStuck, DetectHeld,
       Detect, MarkStuck, ReadFailedRun, RecordFailure, Over
  <2> QED
    BY <2>1, <2>2
<1>2. ASSUME WorkerStep(p) \/ DetectHeld(p) \/ Abandon(p) \/ Crash(p) \/ Raise(p)
      PROVE  Leaves(p)
  <2>1. CASE Claim(p) \/ Raise(p)
    BY <2>1, OverLeaves DEF Claim, Raise
  <2>2. CASE ~Claim(p) /\ ~Raise(p)
    <3>1. PICK next : Become(p, next) /\ Outside(next)
      BY <1>2, <2>2, Aside DEF IInv
    <3> QED
      BY <3>1, BecomeLeaves DEF Outside, AtTask, Attempting
  <2> QED
    BY <2>1, <2>2
<1>3. CASE pass' = pass
  BY <1>3 DEF Stays
<1>4. ASSUME NEW c \in Reviewer,
             \/ \E e \in DOMAIN escalations, d \in Decision : ReadEscalation(c, e, d)
             \/ ReviewStep(c) \/ LoseRequest(c)
      PROVE  pass' = pass
  BY <1>4 DEF ReviewStep, ReadEscalation, CommitDecision, LoadRun, EnqueueRun, EscalationGone,
     LoseRequest
<1>5. ASSUME NEW i \in Index, DeleteTask(i)
      PROVE  Stays(p)
  <2>1. pass[p] \in PassState
    BY DEF IInv, TypeOK
  <2>2. pass'[p] = IF pass[p].cached THEN [pass[p] EXCEPT !.task[i] = NoTask] ELSE pass[p]
    BY <1>5 DEF DeleteTask
  <2> QED
    BY <2>1, <2>2 DEF PassState, Stays
<1>6. UNCHANGED vars => pass' = pass
  BY DEF vars
<1> QED
  BY <1>1, <1>2, <1>3, <1>4, <1>5, <1>6, CountStep DEF Next

\* A session that does not change the count does not send it.
LEMMA KeepsCount ==
  ASSUME IInv, NEW p \in Pass, NEW new \in Task, NEW k \in Index, SendTask(p, k, new),
         new.retry_count = Seen(p)[k].retry_count, NEW i \in Index
  PROVE  task'[i].retry_count = task[i].retry_count
<1>1. task \in [Index -> Task]
  BY DEF IInv, TypeOK
<1>2. i # k => task'[i] = task[i]
  BY <1>1 DEF SendTask
<1>3. ASSUME i = k PROVE task'[i].retry_count = Sent(Seen(p)[k].retry_count, new.retry_count, task[i].retry_count)
  BY <1>1, <1>3 DEF SendTask
<1> QED
  BY <1>2, <1>3 DEF Sent

\* The steps that change the count of a task.
LEMMA RetryStep ==
  ASSUME IInv, [Next]_vars, NEW i \in Index
  PROVE  \/ task'[i].retry_count = task[i].retry_count
         \/ \E p \in Pass : CreateTasks(p) \/ FailPlanning(p) \/ (DecideRetry(p) /\ i = pass[p].current)
         \/ \E c \in Reviewer : CommitDecision(c)
         \/ DeleteTask(i)
<1> USE DEF database
<1>0. task \in [Index -> Task]
  BY DEF IInv, TypeOK
<1> DEFINE Same == task'[i].retry_count = task[i].retry_count
<1>1. ASSUME NEW p \in Pass, GraphStep(p)
      PROVE  Same \/ CreateTasks(p) \/ FailPlanning(p) \/ (DecideRetry(p) /\ i = pass[p].current)
  <2> DEFINE k == pass[p].current
             old == Seen(p)[k]
  <2>1. CASE \/ Load(p) \/ Plan(p) \/ KeepTasks(p) \/ PickTask(p) \/ StartAttempt(p)
             \/ AttemptConflict(p) \/ CallTool(p) \/ Check(p) \/ Judge(p) \/ CreateEscalation(p)
             \/ RecordEscalation(p) \/ Finish(p) \/ TaskGone(p) \/ SkipEscalation(p)
    BY <2>1 DEF Load, Plan, KeepTasks, PickTask, StartAttempt, AttemptConflict, CallTool, Check,
       Judge, CreateEscalation, RecordEscalation, Finish, TaskGone, SkipEscalation
  <2>2. ASSUME NEW s \in TaskStatus, k \in Index, old \in Task, SendTask(p, k, [old EXCEPT !.status = s])
        PROVE  Same
    <3> DEFINE new == [old EXCEPT !.status = s]
    <3>1. new \in Task /\ new.retry_count = old.retry_count
      BY <2>2 DEF Task
    <3>2. SendTask(p, k, new) /\ k \in Index
      BY <2>2
    <3> HIDE DEF new, k
    <3> QED BY <3>1, <3>2, KeepsCount
  <2>3. ASSUME NEW from \in AtTask, NEW to, NEW s, NEW t \in TaskStatus, CommitStatuses(p, from, to, s, t)
        PROVE  Same
    <3>1. k \in Index /\ old \in Task
      BY <2>3, HasCurrent DEF CommitStatuses, At
    <3>2. SendTask(p, k, [old EXCEPT !.status = t])
      BY <2>3 DEF CommitStatuses
    <3> QED
      BY <2>2, <3>1, <3>2
  <2>4. CASE Execute(p) \/ Verify(p) \/ Escalate(p)
    BY <2>3, <2>4, StatusTypes DEF Execute, Verify, Escalate, AtTask, Attempting
  <2>5. CASE DecideVerified(p) \/ DecideEscalate(p)
    <3>1. k \in Index /\ old \in Task
      BY <2>5, HasCurrent DEF DecideVerified, DecideEscalate, Decide, At, AtTask, Attempting
    <3>2. \E s \in TaskStatus : SendTask(p, k, [old EXCEPT !.status = s])
      BY <2>5, StatusTypes DEF DecideVerified, DecideEscalate, Decide
    <3> QED
      BY <2>2, <3>1, <3>2
  <2>6. CASE DecideRetry(p)
    BY <1>0, <2>6 DEF DecideRetry, Decide, SendTask
  <2> QED
    BY <1>1, <2>1, <2>4, <2>5, <2>6 DEF GraphStep
<1>2. ASSUME NEW p \in Pass, WorkerStep(p) \/ DetectHeld(p) \/ Abandon(p) \/ Crash(p)
      PROVE  task' = task
  BY <1>2, WorkerFrame
<1>3. ASSUME NEW p \in Pass, Raise(p)
      PROVE  Same
  <2>1. CASE PersistFailure(p) /\ pass[p].current # None /\ ~Gone(pass[p].current)
    <3> DEFINE k == pass[p].current
               old == Seen(p)[k]
               new == FailedTask(old)
    <3>1. k \in Index /\ old \in Task
      <4>1. pass[p] \in PassState
        BY DEF IInv, TypeOK
      <4>2. k \in Index
        BY <2>1, <4>1 DEF PassState
      <4> QED
        BY <4>2, SeenType DEF IInv
    <3>2. new \in Task /\ new.retry_count = old.retry_count
      <4> HIDE DEF old
      <4> QED BY <3>1, StatusTypes DEF FailedTask, Task
    <3>3. SendTask(p, k, new)
      BY <2>1 DEF PersistFailure, PersistWith
    <3> HIDE DEF new, k
    <3> QED
      BY <3>1, <3>2, <3>3, KeepsCount
  <2>2. CASE ~(PersistFailure(p) /\ pass[p].current # None /\ ~Gone(pass[p].current))
    BY <1>3, <2>2 DEF Raise, PersistFailure, PersistWith
  <2> QED
    BY <2>1, <2>2
<1>4. ASSUME NEW c \in Reviewer,
             \/ \E e \in DOMAIN escalations, d \in Decision : ReadEscalation(c, e, d)
             \/ ReviewStep(c) \/ LoseRequest(c)
      PROVE  task' = task \/ CommitDecision(c)
  BY <1>4 DEF ReviewStep, ReadEscalation, LoadRun, EnqueueRun, EscalationGone, LoseRequest
<1>5. ASSUME NEW j \in Index, DeleteTask(j)
      PROVE  Same \/ DeleteTask(i)
  BY <1>0, <1>5 DEF DeleteTask
<1>6. UNCHANGED vars => task' = task
  BY DEF vars
<1> QED
  BY <1>1, <1>2, <1>3, <1>4, <1>5, <1>6 DEF Next

\* The attempts of a pass and of its task count from 0 to max_retries, and a pass that is
\* about to call a tool has a call left.
Counts(p) ==
  /\ pass[p].attempt # None => pass[p].attempt <= MAX_RETRIES
  /\ Holds(p) /\ pass[p].node \in AtTask /\ ~Gone(pass[p].current) =>
       pass[p].retry_count = Seen(p)[pass[p].current].retry_count
  /\ pass[p].node = "tool" => calls[pass[p].current] <= MAX_RETRIES
Few ==
  /\ \A i \in Index : task[i].retry_count <= MAX_RETRIES
  /\ \A row \in attempts : row[2] <= MAX_RETRIES
  /\ \A p \in Pass : Counts(p)
  /\ ToolCallsBounded

FInv == HInv /\ CallsOnRecord /\ Few

\* What a pass that has the run sees.
LEMMA SeesTruth ==
  ASSUME HInv, NEW p \in Pass, Holds(p)
  PROVE  Seen(p) = task
  BY DEF HInv, Held, Seated, Seen

\* A decision that sends no task back keeps its count; one that does resets it.
LEMMA DecisionCount ==
  ASSUME IInv, NEW c \in Reviewer, CommitDecision(c), NEW i \in Index
  PROVE  task'[i].retry_count \in {task[i].retry_count, 0}
<1> DEFINE q == req[c]
           new == Decided(q.task, q.decision)
           k == escalations[q.escalation].task
<1>1. task \in [Index -> Task] /\ q \in Request
  BY DEF IInv, TypeOK
<1>2. q.task \in Task /\ q.decision \in Decision
  BY <1>1 DEF Request
<1>3. task' = [task EXCEPT ![k] =
                 [status |-> Sent(q.task.status, new.status, @.status),
                  retry_count |-> Sent(q.task.retry_count, new.retry_count, @.retry_count)]]
  BY DEF CommitDecision
<1>4. new.retry_count \in {q.task.retry_count, 0}
  <2> HIDE DEF q
  <2> QED BY <1>2 DEF Decided, Decision, Task
<1> HIDE DEF q, new, k
<1>5. task'[i] = task[i] \/ task'[i].retry_count = Sent(q.task.retry_count, new.retry_count, task[i].retry_count)
  BY <1>1, <1>3
<1> QED
  BY <1>4, <1>5 DEF Sent

\* No task is retried more often than that.
LEMMA TasksFew ==
  ASSUME FInv, [Next]_vars, NEW i \in Index
  PROVE  task'[i].retry_count <= MAX_RETRIES
<1>0. /\ task \in [Index -> Task] /\ task[i].retry_count \in Nat /\ task[i].retry_count <= MAX_RETRIES
      /\ 0 <= MAX_RETRIES /\ MAX_RETRIES \in Nat
  BY SizesAreNat DEF FInv, HInv, IInv, TypeOK, Few, Task
<1>1. ASSUME NEW p \in Pass, CreateTasks(p) PROVE task'[i].retry_count \in {task[i].retry_count, 0}
  <2>1. PICK n \in 1 .. NTasks :
          task' = [j \in Index |-> IF j < n /\ ~Gone(j)
                                     THEN [status |-> "pending", retry_count |-> 0] ELSE task[j]]
    BY <1>1 DEF CreateTasks
  <2> QED
    BY <2>1
<1>2. ASSUME NEW p \in Pass, FailPlanning(p) PROVE task'[i].retry_count \in {task[i].retry_count, 0}
  <2>1. PICK k \in Index : task' = [task EXCEPT ![k] = [status |-> "escalated", retry_count |-> 0]]
    BY <1>2 DEF FailPlanning
  <2> QED
    BY <1>0, <2>1
<1>3. ASSUME NEW p \in Pass, DecideRetry(p), i = pass[p].current PROVE task'[i].retry_count <= MAX_RETRIES
  <2> DEFINE old == Seen(p)[i]
             new == [old EXCEPT !.status = "pending", !.retry_count = @ + 1]
  <2>1. pass[p].node = "decide" /\ ~Gone(i) /\ pass[p].retry_count < MAX_RETRIES /\ SendTask(p, i, new)
    BY <1>3 DEF DecideRetry, MayRetry, Decide, At
  <2>2. Holds(p) /\ pass[p].retry_count = old.retry_count
    BY <1>3, <2>1 DEF FInv, Few, Counts, Holds, Working, Node, AtTask, Attempting
  <2>3. old \in Task
    BY SeenType DEF FInv, HInv, IInv
  <2>4. new \in Task /\ new.retry_count = old.retry_count + 1
    <3>1. old.retry_count + 1 \in Nat
      BY <2>3 DEF Task
    <3> HIDE DEF old
    <3> QED BY <2>3, <3>1, StatusTypes DEF Task
  <2> HIDE DEF new, old
  <2>5. task' = [task EXCEPT ![i] = new]
    BY <2>1, <2>2, <2>4, Writes DEF FInv
  <2>6. task'[i].retry_count = old.retry_count + 1
    BY <1>0, <2>4, <2>5
  <2> QED
    BY <1>0, <2>1, <2>2, <2>3, <2>6 DEF Task
<1>4. ASSUME NEW c \in Reviewer, CommitDecision(c) PROVE task'[i].retry_count \in {task[i].retry_count, 0}
  BY <1>4, DecisionCount DEF FInv, HInv
<1>5. ASSUME DeleteTask(i) PROVE task'[i].retry_count = 0
  BY <1>0, <1>5 DEF DeleteTask, NoTask
<1> QED
  BY <1>0, <1>1, <1>2, <1>3, <1>4, <1>5, RetryStep DEF FInv, HInv

\* No attempt has a higher index.
LEMMA AttemptsFew ==
  ASSUME FInv, [Next]_vars, NEW row \in attempts'
  PROVE  row[2] <= MAX_RETRIES
<1>0. /\ \A r \in attempts : r[2] <= MAX_RETRIES
      /\ \A i \in Index : task[i].retry_count <= MAX_RETRIES
  BY DEF FInv, Few
<1>1. ASSUME NEW p \in Pass, StartAttempt(p) PROVE row[2] <= MAX_RETRIES
  <2>1. pass[p].node = "attempt" /\ attempts' = attempts \cup {<<pass[p].current, Seen(p)[pass[p].current].retry_count>>}
    BY <1>1 DEF StartAttempt, At
  <2>2. Holds(p) /\ pass[p].current \in Index
    BY <2>1, HasCurrent DEF FInv, HInv, Holds, Working, Node, AtTask, Attempting
  <2> QED
    BY <1>0, <2>1, <2>2, SeesTruth DEF FInv
<1>2. ASSUME NEW p \in Pass, Raise(p), PersistFailure(p) PROVE row[2] <= MAX_RETRIES
  <2> DEFINE i == pass[p].current
             a == IF pass[p].attempt = None THEN Seen(p)[i].retry_count ELSE pass[p].attempt
  <2>1. attempts' = attempts \/ (i # None /\ attempts' = attempts \cup {<<i, a>>})
    BY <1>2 DEF PersistFailure, PersistWith
  <2>2. ASSUME i # None PROVE a <= MAX_RETRIES
    <3>1. pass[p] \in PassState
      BY DEF FInv, HInv, IInv, TypeOK
    <3>2. i \in Index
      BY <2>2, <3>1 DEF PassState
    <3>3. CASE pass[p].attempt # None
      BY <3>3 DEF FInv, Few, Counts
    <3>4. CASE pass[p].attempt = None
      <4>1. pass[p].node \in Node /\ pass[p].node # "escalated"
        BY <1>2, <3>4, NoneIsNoPass DEF Raise, FInv, HInv, IInv, HasTask, Attempting
      <4>2. pass[p].node \notin {"finish", "finished"}
        BY <2>2 DEF FInv, HInv, Held, Seated
      <4>3. Holds(p)
        BY <4>1, <4>2 DEF Holds, Working
      <4> QED
        BY <1>0, <3>2, <3>4, <4>3, SeesTruth DEF FInv
    <3> QED
      BY <3>3, <3>4
  <2> HIDE DEF a, i
  <2> QED
    BY <1>0, <2>1, <2>2
<1>3. ASSUME NEW i \in Index, DeleteTask(i) PROVE row[2] <= MAX_RETRIES
  BY <1>0, <1>3 DEF DeleteTask
<1> QED
  BY <1>0, <1>1, <1>2, <1>3, AttemptWriters

\* A task that has an attempt left has used up at most max_retries.
LEMMA SpentFew ==
  ASSUME FInv, NEW i \in Index, NEW a \in 0 .. MAX_RETRIES, <<i, a>> \notin attempts
  PROVE  Cardinality(Spent(i)) <= MAX_RETRIES
<1> DEFINE S == Spent(i)
           T == (0 .. MAX_RETRIES) \ {a}
           f == [row \in S |-> row[2]]
<1>0. MAX_RETRIES \in Nat
  BY SizesAreNat
<1>1. ASSUME NEW row \in S PROVE row = <<i, row[2]>> /\ row[2] \in T
  <2>1. row \in attempts /\ row[1] = i /\ row \in Index \X Nat
    BY DEF FInv, HInv, IInv, TypeOK, Spent
  <2>2. row = <<i, row[2]>> /\ row[2] \in Nat
    BY <2>1
  <2>3. row[2] <= MAX_RETRIES /\ row[2] # a
    BY <2>1, <2>2 DEF FInv, Few
  <2> QED
    BY <1>0, <2>2, <2>3
<1> HIDE DEF S, T
<1>2. f \in Injection(S, T)
  BY <1>1 DEF Injection, IsInjective
<1>3. IsFiniteSet(T) /\ Cardinality(T) = MAX_RETRIES
  <2> DEFINE R == 0 .. MAX_RETRIES
  <2>1. IsFiniteSet(R) /\ Cardinality(R) = MAX_RETRIES + 1 /\ a \in R /\ T = R \ {a}
    BY <1>0, FS_Interval DEF T
  <2> HIDE DEF R
  <2>2. IsFiniteSet(R \ {a}) /\ Cardinality(R \ {a}) = Cardinality(R) - 1
    BY <2>1, FS_RemoveElement
  <2> QED
    BY <1>0, <2>1, <2>2
<1> HIDE DEF f
<1>4. Cardinality(S) <= Cardinality(T)
  BY <1>2, <1>3, FS_Injection
<1> QED
  BY <1>3, <1>4 DEF S

\* A step that calls the tool of a task leaves the node that calls it.
LEMMA CallLeaves ==
  ASSUME IInv, NEW p \in Pass, pass[p].node = "tool", CallTool(p) \/ TaskGone(p)
  PROVE  pass'[p].node # "tool"
<1>1. GoesOn(p) \/ Leaves(p) \/ Begins(p) \/ Decides(p) \/ Picks(p)
  BY CountStep DEF GraphStep
<1> QED
  BY <1>1 DEF GoesOn, Leaves, Begins, StartAttempt, At, Decides, Picks, AtTask, Attempting

\* Only the pass that has the run calls the tool of its task.
LEMMA CallsOfOthers ==
  ASSUME FInv, [Next]_vars, NEW p \in Pass, pass[p].node = "tool", pass'[p].node = "tool"
  PROVE  calls'[pass[p].current] = calls[pass[p].current]
<1>1. pass[p].current \in Index /\ IInv
  BY HasCurrent DEF FInv, HInv, AtTask, Attempting
<1>2. ASSUME NEW q \in Pass, pass[q].node = "tool", CallTool(q) \/ TaskGone(q) PROVE FALSE
  <2>1. Holds(p) /\ Holds(q)
    BY <1>2 DEF Holds, Working, Node
  <2>2. q = p
    BY <2>1 DEF FInv, HInv, Held, OneHolder
  <2> QED
    BY <1>1, <1>2, <2>2, CallLeaves
<1> QED
  BY <1>1, <1>2, CallsStep

\* A pass that has the run: nobody else changes the count of its task.
LEMMA OwnCount ==
  ASSUME HInv, [Next]_vars, NEW p \in Pass, Holds(p), NEW i \in Index, ~Gone(i)',
         pass[p].node # "planner", ~DecideRetry(p)
  PROVE  task'[i].retry_count = task[i].retry_count
<1>1. ASSUME NEW q \in Pass, CreateTasks(q) \/ FailPlanning(q) \/ DecideRetry(q) PROVE FALSE
  <2>1. pass[q].node \in {"planner", "decide"}
    BY <1>1 DEF CreateTasks, FailPlanning, DecideRetry, Decide, At
  <2>2. Holds(q)
    BY <2>1 DEF Holds, Working, Node
  <2>3. q = p
    BY <2>2 DEF HInv, Held, OneHolder
  <2> QED
    BY <1>1, <2>3 DEF CreateTasks, FailPlanning
<1>2. ASSUME NEW c \in Reviewer, CommitDecision(c) PROVE FALSE
  <2>1. req[c].escalation \in DOMAIN escalations /\ Waits(req[c].escalation)
    BY <1>2 DEF CommitDecision, HInv, IInv, HasRow, Held, Deciding
  <2> QED
    BY <2>1 DEF HInv, Held, OneHolder
<1>3. ASSUME DeleteTask(i) PROVE FALSE
  BY <1>3 DEF DeleteTask, Gone, NoTask, HInv, IInv, TypeOK
<1> QED
  BY <1>1, <1>2, <1>3, RetryStep DEF HInv

\* The counts of a pass after a step of anybody.
LEMMA CountsStep ==
  ASSUME FInv, HInv', [Next]_vars, NEW p \in Pass
  PROVE  Counts(p)'
<1> DEFINE i == pass[p].current
<1>0. /\ Counts(p) /\ IInv
      /\ \A k \in Index : task[k].retry_count <= MAX_RETRIES /\ task[k] \in Task
  BY DEF FInv, Few, HInv, IInv, TypeOK
<1>1. Stays(p) \/ GoesOn(p) \/ Leaves(p) \/ Begins(p) \/ Decides(p) \/ Picks(p)
  BY <1>0, AnyCountStep
<1>2. ASSUME Begins(p)
      PROVE  /\ Holds(p) /\ i \in Index /\ ~Gone(i) /\ pass[p].node = "attempt" /\ Seen(p) = task
             /\ task' = task /\ calls' = calls /\ <<i, task[i].retry_count>> \notin attempts
  <2>1. pass[p].node = "attempt" /\ ~Gone(i) /\ task' = task /\ calls' = calls
    BY <1>2 DEF Begins, StartAttempt, At, history
  <2>2. Holds(p) /\ i \in Index
    BY <1>0, <2>1, HasCurrent DEF Holds, Working, Node, AtTask, Attempting
  <2>3. Seen(p) = task
    BY <2>2, SeesTruth DEF FInv
  <2>4. <<i, Seen(p)[i].retry_count>> \notin attempts
    BY <1>2 DEF Begins, StartAttempt
  <2> QED
    BY <2>1, <2>2, <2>3, <2>4
<1>3. pass'[p].attempt # None => pass'[p].attempt <= MAX_RETRIES
  BY <1>0, <1>1, <1>2 DEF Stays, GoesOn, Leaves, Begins, Decides, Picks, Counts
<1>4. ASSUME Holds(p)', pass'[p].node \in AtTask, ~Gone(pass[p].current)'
      PROVE  pass'[p].retry_count = task'[pass'[p].current].retry_count
  <2>1. CASE Stays(p) \/ GoesOn(p)
    <3>1. /\ pass'[p].current = i /\ pass'[p].retry_count = pass[p].retry_count
          /\ Holds(p) /\ pass[p].node \in AtTask
      BY <1>4, <2>1 DEF Stays, GoesOn, Holds, Working, Node, AtTask, Attempting
    <3>2. i \in Index /\ ~Gone(i)' /\ ~Gone(i)
      <4>1. i \in Index
        BY <1>0, <3>1, HasCurrent
      <4> QED
        BY <1>4, <3>1, <4>1, TaskStep DEF FInv, HInv, Gone
    <3>3. ~DecideRetry(p)
      BY <1>0, <2>1, RetryBecomes DEF Stays, GoesOn
    <3>4. task'[i].retry_count = task[i].retry_count
      BY <3>1, <3>2, <3>3, OwnCount DEF FInv, AtTask, Attempting
    <3>5. pass[p].retry_count = task[i].retry_count
      BY <1>0, <3>1, <3>2, SeesTruth DEF FInv, Counts
    <3> QED
      BY <3>1, <3>4, <3>5
  <2>2. CASE Begins(p)
    BY <1>0, <1>2, <2>2 DEF Begins, Counts, AtTask, Attempting
  <2>3. CASE Leaves(p)
    BY <1>4, <2>3 DEF Leaves
  <2>4. CASE Decides(p)
    <3>1. i \in Index /\ ~Gone(i) /\ Holds(p) /\ Seen(p) = task /\ pass'[p].current = i
      <4>1. pass[p].node = "decide" /\ pass'[p].current = i /\ ~Gone(i)
        BY <2>4 DEF Decides, DecideRetry, DecideEscalate, Decide, At
      <4>2. Holds(p) /\ i \in Index
        BY <1>0, <4>1, HasCurrent DEF Holds, Working, Node, AtTask, Attempting
      <4> QED
        BY <4>1, <4>2, SeesTruth DEF FInv
    <3>2. CASE DecideEscalate(p) /\ pass'[p].retry_count = Seen(p)[i].retry_count
      <4>1. ~DecideRetry(p) /\ pass[p].node # "planner"
        BY <3>2 DEF DecideEscalate, DecideRetry, Decide, At
      <4>2. ~Gone(i)'
        BY <1>4, <3>1
      <4>3. task'[i].retry_count = task[i].retry_count
        BY <3>1, <4>1, <4>2, OwnCount DEF FInv
      <4> QED
        BY <3>1, <3>2, <4>3
    <3>3. CASE DecideRetry(p) /\ pass'[p].retry_count = Seen(p)[i].retry_count + 1
      <4> DEFINE new == [Seen(p)[i] EXCEPT !.status = "pending", !.retry_count = @ + 1]
      <4>1. SendTask(p, i, new)
        BY <3>3 DEF DecideRetry, Decide
      <4>2. new \in Task /\ new.retry_count = Seen(p)[i].retry_count + 1
        <5>1. Seen(p)[i] \in Task
          BY <1>0, <3>1
        <5>2. Seen(p)[i].retry_count + 1 \in Nat
          BY <5>1 DEF Task
        <5> QED
          BY <5>1, <5>2, StatusTypes DEF Task
      <4> HIDE DEF new, i
      <4>3. task' = [task EXCEPT ![i] = new] /\ task \in [Index -> Task]
        <5>1. HInv
          BY DEF FInv
        <5>2. task \in [Index -> Task]
          BY <5>1 DEF HInv, IInv, TypeOK
        <5> QED
          BY <3>1, <4>1, <4>2, <5>1, <5>2, Writes
      <4>4. task'[i] = new
        BY <3>1, <4>3
      <4> QED
        BY <3>1, <3>3, <4>2, <4>4
    <3> QED
      BY <2>4, <3>2, <3>3 DEF Decides
  <2>5. CASE Picks(p)
    <3>1. Holds(p) /\ Seen(p) = task
      BY <2>5, SeesTruth DEF Picks, Holds, Working, Node, FInv
    <3>2. ~DecideRetry(p) /\ pass[p].node # "planner"
      BY <2>5 DEF Picks, DecideRetry, Decide, At
    <3>3. pass'[p].current \in Index /\ ~Gone(pass[p].current)'
      BY <1>4, <2>5 DEF Picks
    <3> DEFINE k == pass'[p].current
    <3>4. k \in Index /\ task'[k].status # Deleted
      BY <3>3 DEF Gone
    <3> HIDE DEF k
    <3>5. task'[k].retry_count = task[k].retry_count
      BY <3>1, <3>2, <3>4, OwnCount DEF FInv, Gone
    <3> QED
      BY <2>5, <3>1, <3>5 DEF Picks, k
  <2> QED
    BY <1>1, <2>1, <2>2, <2>3, <2>4, <2>5
<1>5. ASSUME Holds(p)', pass'[p].node \in AtTask, ~Gone(pass[p].current)'
      PROVE  pass'[p].retry_count = Seen(p)'[pass'[p].current].retry_count
  <2>1. Seen(p)' = task'
    <3>1. Seated(p)' /\ pass'[p].node \in Working
      BY <1>5 DEF HInv, Held, Holds
    <3> QED
      BY <1>5, <3>1 DEF Seated, Seen
  <2> QED
    BY <1>4, <1>5, <2>1
<1>6. ASSUME pass'[p].node = "tool" PROVE calls'[pass'[p].current] <= MAX_RETRIES
  <2>1. CASE Stays(p)
    BY <1>0, <1>6, <2>1, CallsOfOthers DEF Stays, Counts
  <2>2. CASE Begins(p)
    <3>1. pass'[p].current = i
      BY <2>2 DEF Begins
    <3> DEFINE a == task[i].retry_count
    <3>2. a \in 0 .. MAX_RETRIES /\ <<i, a>> \notin attempts /\ i \in Index /\ ~Gone(i) /\ calls' = calls
      BY <1>0, <1>2, <2>2, SizesAreNat DEF Task
    <3> HIDE DEF a, i
    <3>3. Cardinality(Spent(i)) <= MAX_RETRIES
      BY <3>2, SpentFew
    <3>4. calls[i] <= Cardinality(Spent(i)) /\ calls[i] \in Nat
      BY <3>2 DEF FInv, CallsOnRecord, HInv, IInv, TypeOK
    <3>5. Cardinality(Spent(i)) \in Nat
      <4>1. Spent(i) \in SUBSET attempts /\ IsFiniteSet(attempts)
        BY DEF FInv, CallsOnRecord, Spent
      <4> QED
        BY <4>1, FS_Subset, FS_CardinalityType
    <3> QED
      BY <3>1, <3>2, <3>3, <3>4, <3>5, SizesAreNat
  <2> QED
    BY <1>1, <1>6, <2>1, <2>2 DEF GoesOn, Leaves, Decides, Picks, AtTask, Attempting
<1> QED
  BY <1>3, <1>5, <1>6 DEF Counts

\* The bound after a step of anybody.
LEMMA CallsBoundedStep ==
  ASSUME FInv, [Next]_vars
  PROVE  ToolCallsBounded'
<1> SUFFICES ASSUME NEW i \in Index PROVE calls'[i] <= MAX_RETRIES + 1
  BY DEF ToolCallsBounded
<1>0. calls[i] \in Nat /\ calls[i] <= MAX_RETRIES + 1 /\ MAX_RETRIES \in Nat
  BY SizesAreNat DEF FInv, Few, ToolCallsBounded, HInv, IInv, TypeOK
<1>1. ASSUME NEW p \in Pass, pass[p].node = "tool", i = pass[p].current, calls'[i] = calls[i] + 1
      PROVE  calls'[i] <= MAX_RETRIES + 1
  <2>1. calls[i] <= MAX_RETRIES
    BY <1>1 DEF FInv, Few, Counts
  <2> QED
    BY <1>0, <1>1, <2>1
<1> QED
  BY <1>0, <1>1, CallsStep DEF FInv, HInv

\* At the start nothing was attempted.
LEMMA InitFInv == Init => FInv
<1> SUFFICES ASSUME Init PROVE FInv
  OBVIOUS
<1>1. \A p \in Pass : pass[p].node = "idle" /\ pass[p].attempt = None
  BY DEF Init, IdlePass
<1>2. \A p \in Pass : Counts(p)
  BY <1>1 DEF Counts, Holds, Working, Node
<1>3. /\ \A i \in Index : task[i].retry_count = 0 /\ calls[i] = 0
      /\ attempts = {}
  BY DEF Init, Unplanned
<1>4. ToolCallsBounded /\ \A i \in Index : task[i].retry_count <= MAX_RETRIES
  BY <1>3, SizesAreNat DEF ToolCallsBounded
<1> QED
  BY <1>2, <1>3, <1>4, InitHInv, InitRInv DEF FInv, Few, RInv

\* A tool acts on the outside world: however often its task is retried and sent back, and
\* whatever passes crash, raise or overlap, it is called at most 1 + max_retries times, as
\* long as one reviewer decides at a time.
THEOREM CallsAreBounded == ASSUME OneReviewer PROVE Spec => []ToolCallsBounded
<1>1. ASSUME FInv, [Next]_vars PROVE FInv'
  <2>1. HInv' /\ CallsOnRecord'
    BY <1>1, NextHInv, CallsOnRecordStep DEF FInv, HInv
  <2>2. \A i \in Index : task'[i].retry_count <= MAX_RETRIES
    BY <1>1, TasksFew
  <2>3. \A row \in attempts' : row[2] <= MAX_RETRIES
    BY <1>1, AttemptsFew
  <2>4. \A p \in Pass : Counts(p)'
    BY <1>1, <2>1, CountsStep
  <2>5. ToolCallsBounded'
    BY <1>1, CallsBoundedStep
  <2> QED
    BY <2>1, <2>2, <2>3, <2>4, <2>5 DEF FInv, Few
<1>2. FInv => ToolCallsBounded
  BY DEF FInv, Few
<1> QED
  BY InitFInv, <1>1, <1>2, PTL DEF Spec

=============================================================================
