------------------------------ MODULE RunGraph ------------------------------
(***************************************************************************)
(* One run: the passes of the orchestration graph over its tasks, and the   *)
(* decisions reviewers take on the tasks a pass escalates.                  *)
(*                                                                          *)
(* An action is one committed transaction of a node, with the reads before  *)
(* it.  A pass works on the objects its session has loaded: from its first  *)
(* execute node on it sees the tasks as they were then, plus its own        *)
(* writes, and it sends only what differs from what it saw.                 *)
(*                                                                          *)
(* What tools, verifiers and models answer is a verdict chosen freely.  The *)
(* queue, leases and heartbeats are those of RunQueue, reduced to what a    *)
(* pass notices of them: it is started once per enqueue, it can be          *)
(* cancelled when the run is no longer its own, its process can die.        *)
(***************************************************************************)
EXTENDS Naturals, Sequences, FiniteSets

CONSTANTS
  Pass,          \* workers that can be executing a pass of this run
  Reviewer,      \* review requests that can be in progress at the same time
  None,          \* SQL NULL, Python None
  NTasks,        \* bound: tasks a plan can have
  MAX_RETRIES,   \* settings.max_retries
  MaxEnqueues,   \* bound: how often the run is queued, the first time included
  MaxFaults,     \* bound: nodes that raise
  MaxCrashes,    \* bound: processes (workers, API) that die
  MaxExpiries,   \* bound: times the run is found stuck although its worker lives
  MaxDeletes     \* bound: tasks that are deleted, so few that another plan has room

ASSUME NoneIsNoPass == None \notin Pass /\ None \notin Nat
ASSUME SizesAreNat ==
  /\ NTasks \in Nat \ {0} /\ MAX_RETRIES \in Nat
  /\ MaxEnqueues \in Nat \ {0} /\ MaxFaults \in Nat /\ MaxCrashes \in Nat
  /\ MaxExpiries \in Nat
  /\ MaxDeletes \in 0 .. NTasks - 1

VARIABLES
  status,        \* runs.status
  owner,         \* runs.lease_owner
  task,          \* tasks: status and retry_count by index
  attempts,      \* task_attempts: the pairs (task, attempt_index)
  escalations,   \* escalations, in the order they were inserted
  ledger,        \* ledger_entries
  pass,          \* the passes in progress
  req,           \* the review requests in progress
  calls,         \* history: how often the tool of each task was called
  sent_back,     \* history: the tasks sent back and not executed since
  torn,          \* history: the tasks whose pass was cut off between the two commits of
                 \* escalate_node
  enqueues, faults, crashes, expiries, deletes

database == <<status, owner, task, attempts, escalations, ledger>>
history == <<calls, sent_back, torn>>
bounds == <<enqueues, faults, crashes, expiries, deletes>>
vars == <<database, pass, req, history, bounds>>

-----------------------------------------------------------------------------
Index == 0 .. NTasks - 1
ACTIVE_STATUSES == {"planning", "executing", "verifying"}
RunStatus == ACTIVE_STATUSES \cup {"pending", "queued", "completed", "failed", "needs_review"}
TaskStatus == {"pending", "executing", "claimed", "verified", "failed", "escalated"}
NoRow == "none"            \* a task that was not planned
Deleted == "deleted"       \* a row that is gone
Task == [status: TaskStatus \cup {NoRow, Deleted}, retry_count: Nat]
Decision == {"approve", "reject", "send_back"}
Escalation == [task: Index, decisions: Seq(Decision),
               status: {"pending_review", "approved", "rejected", "sent_back", Deleted}]

\* "verified" is above the confidence threshold; the others are told apart by
\* classify_retryability.
Verdict == {"verified", "retryable", "terminal"}
Entry == [task: Index, attempt: Nat, verified: BOOLEAN]

Node == {"load", "plan", "planner", "pick_task", "execute", "attempt", "tool", "verify",
         "check", "judge", "decide", "escalate", "escalating", "escalated", "finish",
         "finished"}
PassState == [node: Node \cup {"idle", "recovering", "failing", "recording"}, run: RunStatus,
              planned: BOOLEAN, cached: BOOLEAN, task: [Index -> Task],
              current: Index \cup {None}, attempt: Nat \cup {None}, retry_count: Nat,
              verdict: Verdict, leased: BOOLEAN]
Request == [pc: {"idle", "deciding", "decided", "loaded"}, escalation: Nat,
            decision: Decision, task: Task, run: RunStatus, target: RunStatus,
            owner: Pass \cup {None}]

Unplanned == [i \in Index |-> [status |-> NoRow, retry_count |-> 0]]
IdlePass == [node |-> "idle", run |-> "queued", planned |-> FALSE, cached |-> FALSE,
             task |-> Unplanned, current |-> None, attempt |-> None, retry_count |-> 0,
             verdict |-> "terminal", leased |-> FALSE]
IdleRequest == [pc |-> "idle", escalation |-> 0, decision |-> "approve",
                task |-> [status |-> NoRow, retry_count |-> 0], run |-> "queued",
                target |-> "queued", owner |-> None]

Init ==
  /\ status = "queued"
  /\ owner = None
  /\ task = Unplanned
  /\ attempts = {}
  /\ escalations = <<>>
  /\ ledger = {}
  /\ pass = [p \in Pass |-> IdlePass]
  /\ req = [c \in Reviewer |-> IdleRequest]
  /\ calls = [i \in Index |-> 0]
  /\ sent_back = {}
  /\ torn = {}
  /\ enqueues = 1
  /\ faults = 0
  /\ crashes = 0
  /\ expiries = 0
  /\ deletes = 0

-----------------------------------------------------------------------------
(* What a session reads and writes.                                         *)

Planned(tasks) == {i \in Index : tasks[i].status \in TaskStatus}
StatusesOf(tasks) == {tasks[i].status : i \in Planned(tasks)}

Gone(i) == task[i].status = Deleted

\* The tasks as the session of p sees them.
Seen(p) == IF pass[p].cached THEN pass[p].task ELSE task

\* A node that needs the current task finds it.
At(p, node) == pass[p].node = node /\ ~Gone(pass[p].current)

\* Mutant of SendRun: the status is sent whether it differs or not.
SendAnyway(p, s) == status' = s

\* A column is sent only if it differs from what the session saw.
Sent(seen, new, old) == IF new = seen THEN old ELSE new
SendRun(p, s) == status' = Sent(pass[p].run, s, status)
SendTask(p, i, new) ==
  task' = [task EXCEPT ![i] =
             [status |-> Sent(Seen(p)[i].status, new.status, @.status),
              retry_count |-> Sent(Seen(p)[i].retry_count, new.retry_count, @.retry_count)]]

\* The pass p after it committed the run status s and the version `new` of task i.
Committed(p, s, i, new) ==
  [pass[p] EXCEPT !.run = s, !.cached = TRUE, !.task = [Seen(p) EXCEPT ![i] = new]]

Become(p, next) == pass' = [pass EXCEPT ![p] = next]

\* The pass is over: what it knew is not used any more.
Over(p, node) == Become(p, [IdlePass EXCEPT !.node = node])

\* The pass p at a node that has no current task.
Without(p, node) == [pass[p] EXCEPT !.node = node, !.current = None, !.attempt = None,
                                    !.retry_count = 0, !.verdict = IdlePass.verdict]

-----------------------------------------------------------------------------
(* The worker, as far as a pass notices it.                                 *)

Claim(p) ==
  /\ pass[p].node = "idle"
  /\ status = "queued"
  /\ status' = "planning"
  /\ owner' = p
  /\ Become(p, [IdlePass EXCEPT !.node = "load"])
  /\ UNCHANGED <<task, attempts, escalations, ledger, req, history, bounds>>

\* complete_claimed_run after a pass that returned.
Complete(p) ==
  /\ pass[p].node = "finished"
  /\ owner' = IF owner = p THEN None ELSE owner
  /\ Become(p, IdlePass)
  /\ UNCHANGED <<status, task, attempts, escalations, ledger, req, history, bounds>>

\* Mutant of ReadFailedRun: a worker that lost the run is left in the failed pass.
ReadOwnedRun(p) ==
  /\ pass[p].node = "failing" /\ owner = p
  /\ Become(p, [IdlePass EXCEPT !.node = "recording", !.run = status])
  /\ UNCHANGED <<database, req, history, bounds>>

\* record_worker_failure, after a pass that raised, reads the run ...
ReadFailedRun(p) ==
  /\ pass[p].node = "failing"
  /\ Become(p, IF owner = p THEN [IdlePass EXCEPT !.node = "recording", !.run = status]
                            ELSE IdlePass)
  /\ UNCHANGED <<database, req, history, bounds>>

\* ... and writes on that reading.
RecordFailure(p) ==
  /\ pass[p].node = "recording"
  /\ SendRun(p, "failed")
  /\ owner' = None
  /\ Become(p, IdlePass)
  /\ UNCHANGED <<task, attempts, escalations, ledger, req, history, bounds>>

\* The tasks that are torn once p stops where it is.
TornBy(p) == IF pass[p].node = "escalating" THEN torn \cup {pass[p].current} ELSE torn

\* The heartbeat finds that the run has another owner and cancels the pass.
Abandon(p) ==
  /\ pass[p].node \in Node \ {"finished"}
  /\ owner # p
  /\ torn' = TornBy(p)
  /\ Become(p, IdlePass)
  /\ UNCHANGED <<database, req, calls, sent_back, bounds>>

Crash(p) ==
  /\ pass[p].node # "idle"
  /\ crashes < MaxCrashes
  /\ crashes' = crashes + 1
  /\ torn' = TornBy(p)
  /\ Become(p, IdlePass)
  /\ UNCHANGED <<database, req, calls, sent_back, enqueues, faults, expiries, deletes>>

\* The worker that has the run lives.
HasWorker == \E p \in Pass : owner = p /\ pass[p].node \notin {"idle", "recovering"}

\* detect_stuck_runs, by a worker between two jobs, finds the run active, with a lease that
\* expired or nothing written for long; which it can be although its worker lives.
Detect(p) ==
  /\ pass[p].node = "idle"
  /\ status \in ACTIVE_STATUSES
  /\ Become(p, [IdlePass EXCEPT !.node = "recovering", !.leased = (owner # None)])
  /\ UNCHANGED <<database, req, history, enqueues, faults, crashes, deletes>>

\* Mutants of DetectStuck: only old rows are looked for, not expired leases; or only leases.
DetectLeased(p) == owner # None /\ ~HasWorker /\ Detect(p) /\ UNCHANGED expiries
DetectUnleased(p) == owner = None /\ Detect(p) /\ UNCHANGED expiries

DetectStuck(p) == ~HasWorker /\ Detect(p) /\ UNCHANGED expiries

DetectHeld(p) ==
  /\ HasWorker
  /\ expiries < MaxExpiries
  /\ expiries' = expiries + 1
  /\ Detect(p)

\* mark_stuck_runs_failed writes on that reading: the status always differs from it.
MarkStuck(p) ==
  /\ pass[p].node = "recovering"
  /\ status' = "failed"
  /\ owner' = IF pass[p].leased THEN None ELSE owner
  /\ Become(p, IdlePass)
  /\ UNCHANGED <<task, attempts, escalations, ledger, req, history, bounds>>

-----------------------------------------------------------------------------
(* The nodes of the graph.                                                  *)

\* run_graph loads the run and serialises the tasks it finds.
Load(p) ==
  /\ pass[p].node = "load"
  /\ Become(p, [pass[p] EXCEPT !.node = "plan", !.run = status,
                               !.planned = Planned(task) # {}])
  /\ UNCHANGED <<database, req, history, bounds>>

\* plan_node refreshes the run after its commit.
Plan(p) ==
  /\ pass[p].node = "plan"
  /\ SendRun(p, "planning")
  /\ Become(p, [pass[p] EXCEPT !.node = "planner", !.run = status'])
  /\ UNCHANGED <<owner, task, attempts, escalations, ledger, req, history, bounds>>

\* planner.plan: a run that has tasks is not planned again.
KeepTasks(p) ==
  /\ pass[p].node = "planner"
  /\ pass[p].planned
  /\ Become(p, [pass[p] EXCEPT !.node = "pick_task", !.planned = FALSE])
  /\ UNCHANGED <<database, req, history, bounds>>

CreateTasks(p) ==
  /\ pass[p].node = "planner"
  /\ ~pass[p].planned
  /\ \E n \in 1 .. NTasks :
       task' = [i \in Index |-> IF i < n /\ ~Gone(i)
                                  THEN [status |-> "pending", retry_count |-> 0] ELSE task[i]]
  /\ task' # task
  /\ Become(p, [pass[p] EXCEPT !.node = "pick_task", !.planned = FALSE])
  /\ UNCHANGED <<status, owner, attempts, escalations, ledger, req, history, bounds>>

\* One commit inserts the task "planner.manual_review" and its escalation.
NewEscalation(i) == [task |-> i, status |-> "pending_review", decisions |-> <<>>]
FailPlanning(p) ==
  /\ pass[p].node = "planner"
  /\ ~pass[p].planned
  /\ \E i \in Index :
       /\ \A j \in Index : task[j].status = NoRow <=> j >= i
       /\ task' = [task EXCEPT ![i] = [status |-> "escalated", retry_count |-> 0]]
       /\ escalations' = Append(escalations, NewEscalation(i))
  /\ SendRun(p, "needs_review")
  /\ Become(p, [pass[p] EXCEPT !.node = "finish", !.run = "needs_review"])
  /\ UNCHANGED <<owner, attempts, ledger, req, history, bounds>>

\* The first pending task, in the order of the plan.
Pending(p) == {i \in Index : Seen(p)[i].status = "pending"}
PickTask(p) ==
  /\ pass[p].node = "pick_task"
  /\ \/ /\ Pending(p) = {}
        /\ Become(p, Without(p, "finish"))
     \/ \E i \in Pending(p) :
          /\ \A j \in Pending(p) : i <= j
          /\ Become(p, [Without(p, "execute") EXCEPT !.current = i,
                                                     !.retry_count = Seen(p)[i].retry_count])
  /\ UNCHANGED <<database, req, history, bounds>>

\* A node commits the status of the run and of its current task, and goes on.
CommitStatuses(p, from, to, run_status, task_status) ==
  LET i == pass[p].current
      new == [Seen(p)[i] EXCEPT !.status = task_status]
  IN /\ At(p, from)
     /\ SendRun(p, run_status)
     /\ SendTask(p, i, new)
     /\ Become(p, [Committed(p, run_status, i, new) EXCEPT !.node = to])
     /\ UNCHANGED <<owner, attempts, escalations, ledger, req, history, bounds>>

Execute(p) == CommitStatuses(p, "execute", "attempt", "executing", "executing")

\* Mutant of StartAttempt: nothing makes (task_id, attempt_index) unique.
StartAnyAttempt(p) ==
  LET row == <<pass[p].current, Seen(p)[pass[p].current].retry_count>> IN
  /\ At(p, "attempt")
  /\ attempts' = attempts \cup {row}
  /\ Become(p, [pass[p] EXCEPT !.node = "tool", !.attempt = row[2]])
  /\ UNCHANGED <<status, owner, task, escalations, ledger, req, history, bounds>>

\* start_task_attempt: (task_id, attempt_index) is unique.
StartAttempt(p) ==
  LET row == <<pass[p].current, Seen(p)[pass[p].current].retry_count>> IN
  /\ At(p, "attempt")
  /\ row \notin attempts
  /\ attempts' = attempts \cup {row}
  /\ Become(p, [pass[p] EXCEPT !.node = "tool", !.attempt = row[2]])
  /\ UNCHANGED <<status, owner, task, escalations, ledger, req, history, bounds>>

\* The failed INSERT leaves a session that refuses every further statement, so
\* the handler of run_graph cannot persist anything either.
AttemptConflict(p) ==
  /\ At(p, "attempt")
  /\ <<pass[p].current, Seen(p)[pass[p].current].retry_count>> \in attempts
  /\ Over(p, "failing")
  /\ UNCHANGED <<database, req, history, bounds>>

\* executor.execute calls the tool; an exception of the tool becomes a claim.  It
\* refreshes the task, and nothing else, after it committed the claim.
CallTool(p) ==
  LET i == pass[p].current IN
  /\ At(p, "tool")
  /\ calls' = [calls EXCEPT ![i] = @ + 1]
  /\ sent_back' = sent_back \ {i}
  /\ Become(p, [pass[p] EXCEPT !.node = "verify", !.task[i] = task[i]])
  /\ UNCHANGED <<database, req, torn, bounds>>

Verify(p) == CommitStatuses(p, "verify", "check", "verifying", "claimed")

\* Mutant of Record: one entry for a task, whatever it says.
RecordOnce(p, verified) ==
  IF \E x \in ledger : x.task = pass[p].current
    THEN UNCHANGED ledger
    ELSE ledger' = ledger \cup {[task |-> pass[p].current, attempt |-> pass[p].attempt,
                                 verified |-> verified]}

\* An entry of the ledger that is there already is not inserted again.
Record(p, verified) ==
  ledger' = ledger \cup {[task |-> pass[p].current, attempt |-> pass[p].attempt,
                           verified |-> verified]}

\* The deterministic verifier answers, or leaves the question to the judge.
Check(p) ==
  /\ At(p, "check")
  /\ \/ \E v \in Verdict :
          /\ Record(p, v = "verified")
          /\ Become(p, [pass[p] EXCEPT !.node = "decide", !.verdict = v])
     \/ /\ Record(p, FALSE)
        /\ Become(p, [pass[p] EXCEPT !.node = "judge"])
  /\ UNCHANGED <<status, owner, task, attempts, escalations, req, history, bounds>>

\* judge_node assigns the statuses verify_node has committed.
Judge(p) ==
  /\ At(p, "judge")
  /\ \E v \in Verdict :
       /\ Record(p, v = "verified")
       /\ Become(p, [pass[p] EXCEPT !.node = "decide", !.verdict = v])
  /\ UNCHANGED <<status, owner, task, attempts, escalations, req, history, bounds>>

\* decide_node commits the task in version `new`.
Decide(p, new, to) ==
  LET i == pass[p].current IN
  /\ At(p, "decide")
  /\ SendTask(p, i, new)
  /\ Become(p, [Committed(p, pass[p].run, i, new) EXCEPT
                  !.node = to, !.retry_count = new.retry_count, !.verdict = IdlePass.verdict])
  /\ UNCHANGED <<status, owner, attempts, escalations, ledger, req, history, bounds>>

MayRetry(p) == pass[p].verdict = "retryable" /\ pass[p].retry_count < MAX_RETRIES

DecideVerified(p) ==
  /\ pass[p].verdict = "verified"
  /\ Decide(p, [Seen(p)[pass[p].current] EXCEPT !.status = "verified"], "pick_task")

DecideRetry(p) ==
  /\ MayRetry(p)
  /\ Decide(p, [Seen(p)[pass[p].current] EXCEPT !.status = "pending",
                                                !.retry_count = @ + 1], "execute")

\* Mutant of DecideEscalate: the attempt is forgotten before it is escalated.
DecideForgets(p) ==
  /\ pass[p].verdict # "verified" /\ ~MayRetry(p) /\ At(p, "decide")
  /\ SendTask(p, pass[p].current, [Seen(p)[pass[p].current] EXCEPT !.status = "failed"])
  /\ Become(p, [pass[p] EXCEPT !.node = "escalate", !.attempt = None])
  /\ UNCHANGED <<status, owner, attempts, escalations, ledger, req, history, bounds>>

DecideEscalate(p) ==
  /\ pass[p].verdict # "verified"
  /\ ~MayRetry(p)
  /\ Decide(p, [Seen(p)[pass[p].current] EXCEPT !.status = "failed"], "escalate")

\* escalate_node: the statuses in one commit, the escalation in the next, the
\* ledger entry in a third.
Escalate(p) == CommitStatuses(p, "escalate", "escalating", "needs_review", "escalated")

\* Mutant of CreateEscalation: a task that was escalated before is not escalated again.
CreateFirstEscalation(p) ==
  /\ At(p, "escalating")
  /\ escalations' = IF \E e \in DOMAIN escalations : escalations[e].task = pass[p].current
                      THEN escalations
                      ELSE Append(escalations, NewEscalation(pass[p].current))
  /\ Become(p, [pass[p] EXCEPT !.node = "escalated"])
  /\ UNCHANGED <<status, owner, task, attempts, ledger, req, history, bounds>>

CreateEscalation(p) ==
  /\ At(p, "escalating")
  /\ escalations' = Append(escalations, NewEscalation(pass[p].current))
  /\ Become(p, [pass[p] EXCEPT !.node = "escalated"])
  /\ UNCHANGED <<status, owner, task, attempts, ledger, req, history, bounds>>

RecordEscalation(p) ==
  /\ At(p, "escalated")
  /\ Record(p, FALSE)
  /\ Become(p, Without(p, "finish"))
  /\ UNCHANGED <<status, owner, task, attempts, escalations, req, history, bounds>>

\* Mutant of FinalStatus: what is not escalated is taken for done.
FinalUnlessEscalated(tasks) ==
  IF "escalated" \in StatusesOf(tasks) THEN "needs_review" ELSE "completed"

FinalStatus(tasks) ==
  IF "escalated" \in StatusesOf(tasks) THEN "needs_review"
  ELSE IF StatusesOf(tasks) = {"verified"} THEN "completed"
  ELSE "failed"

Finish(p) ==
  /\ pass[p].node = "finish"
  /\ SendRun(p, FinalStatus(Seen(p)))
  /\ Over(p, "finished")
  /\ UNCHANGED <<owner, task, attempts, escalations, ledger, req, history, bounds>>

-----------------------------------------------------------------------------
(* A node raises.                                                           *)

HasPending(i) ==
  \E e \in DOMAIN escalations :
    escalations[e].task = i /\ escalations[e].status = "pending_review"

\* persist_catastrophic_failure: the run is failed and its current task, if any,
\* escalated, with an attempt and a ledger entry, all in one commit.
PersistWith(p, new, escalate) ==
  LET i == pass[p].current
      a == IF pass[p].attempt = None THEN Seen(p)[i].retry_count ELSE pass[p].attempt
  IN /\ SendRun(p, "failed")
     /\ IF i = None \/ Gone(i)
          THEN UNCHANGED <<task, attempts, escalations, ledger>>
          ELSE /\ pass[p].attempt = None => <<i, a>> \notin attempts
               /\ attempts' = attempts \cup {<<i, a>>}
               /\ SendTask(p, i, new)
               /\ escalations' = IF escalate THEN Append(escalations, NewEscalation(i))
                                             ELSE escalations
               /\ ledger' = ledger \cup {[task |-> i, attempt |-> a, verified |-> FALSE]}

\* Mutants of FailedTask and NeedsEscalation: what is there is not looked at.
EscalatedTask(t) == [t EXCEPT !.status = "escalated"]
AlwaysEscalate(p) == TRUE

\* What is already verified stays so.
FailedTask(t) == IF t.status = "verified" THEN t ELSE [t EXCEPT !.status = "escalated"]

\* A pending escalation is not repeated; one the failing node has just inserted is
\* seen as it was inserted.
NeedsEscalation(p) == ~HasPending(pass[p].current) /\ pass[p].node # "escalated"

PersistFailure(p) ==
  PersistWith(p, FailedTask(Seen(p)[pass[p].current]), NeedsEscalation(p))

\* run_graph persists the failure unless its session is unusable or the run
\* was not loaded yet.
Raise(p) ==
  /\ pass[p].node \in Node
  /\ faults < MaxFaults
  /\ faults' = faults + 1
  /\ \/ torn' = TornBy(p) /\ UNCHANGED <<status, task, attempts, escalations, ledger>>
     \/ pass[p].node # "load" /\ PersistFailure(p) /\ UNCHANGED torn
  /\ Over(p, "failing")
  /\ UNCHANGED <<owner, req, calls, sent_back, enqueues, crashes, expiries, deletes>>

\* The current task was deleted.  A query for the task, or for a row that went with it,
\* finds nothing, and the handler fails the run; an UPDATE or an INSERT for it breaks the
\* session.  A task deleted before the last query of decide_node sends the graph in circles
\* without a task until the library gives up.
TaskGone(p) ==
  /\ pass[p].node \in {"execute", "attempt", "tool", "verify", "check", "judge", "decide",
                       "escalate", "escalating", "escalated"}
  /\ Gone(pass[p].current)
  /\ \/ UNCHANGED status
     \/ pass[p].node \notin {"attempt", "check", "escalating"} /\ SendRun(p, "failed")
  /\ \/ UNCHANGED calls
     \/ pass[p].node = "tool" /\ calls' = [calls EXCEPT ![pass[p].current] = @ + 1]
  /\ Over(p, "failing")
  /\ UNCHANGED <<owner, task, attempts, escalations, ledger, req, sent_back, torn, bounds>>

\* ... and escalate_node, which then has no task either, goes on to finish.
SkipEscalation(p) ==
  /\ pass[p].node = "escalate" /\ Gone(pass[p].current)
  /\ Become(p, Without(p, "finish"))
  /\ UNCHANGED <<database, req, history, bounds>>

-----------------------------------------------------------------------------
(* Reviewers.                                                               *)

\* Mutant of Reconciled: a rejected task still waits for a reviewer.
ReconciledForReview(tasks) ==
  LET s == StatusesOf(tasks) IN
  IF s = {"verified"} THEN "completed"
  ELSE IF s \cap {"escalated", "failed"} # {} THEN "needs_review"
  ELSE "pending"

\* The status a decision leaves the run in.
Reconciled(tasks) ==
  LET s == StatusesOf(tasks) IN
  IF s = {"verified"} THEN "completed"
  ELSE IF "pending" \in s THEN "pending"
  ELSE IF s \cap {"executing", "claimed"} # {} THEN "executing"
  ELSE IF "escalated" \in s THEN "needs_review"
  ELSE IF "failed" \in s THEN "failed"
  ELSE "pending"

\* The task as the decision d leaves it.
Decided(t, d) ==
  CASE d = "approve" -> [t EXCEPT !.status = "verified"]
    [] d = "reject" -> [t EXCEPT !.status = "failed"]
    [] d = "send_back" -> [t EXCEPT !.status = "pending", !.retry_count = 0]

\* The escalation as the decision d leaves it.
Resolved(row, d) ==
  [row EXCEPT !.status = CASE d = "approve" -> "approved"
                           [] d = "reject" -> "rejected"
                           [] d = "send_back" -> "sent_back",
              !.decisions = Append(@, d)]

\* A request reads the escalation, which must be pending, its task and the run ...
ReadEscalation(c, e, d) ==
  LET i == escalations[e].task IN
  /\ req[c].pc = "idle"
  /\ escalations[e].status = "pending_review"
  /\ d = "send_back" => enqueues < MaxEnqueues
  /\ enqueues' = IF d = "send_back" THEN enqueues + 1 ELSE enqueues
  /\ req' = [req EXCEPT ![c] =
               [IdleRequest EXCEPT
                  !.pc = "deciding", !.escalation = e, !.decision = d, !.task = task[i],
                  !.run = status, !.target = Reconciled([task EXCEPT ![i] = Decided(@, d)])]]
  /\ UNCHANGED <<database, pass, history, faults, crashes, expiries, deletes>>

\* ... and commits the decision on what it read.
CommitDecision(c) ==
  LET q == req[c]
      i == escalations[q.escalation].task
      new == Decided(q.task, q.decision)
  IN /\ q.pc = "deciding"
     /\ escalations[q.escalation].status # Deleted
     /\ escalations' = [escalations EXCEPT ![q.escalation] = Resolved(@, q.decision)]
     /\ task' = [task EXCEPT ![i] =
                   [status |-> Sent(q.task.status, new.status, @.status),
                    retry_count |-> Sent(q.task.retry_count, new.retry_count, @.retry_count)]]
     /\ status' = Sent(q.run, q.target, status)
     /\ sent_back' = IF q.decision = "send_back" THEN sent_back \cup {i} ELSE sent_back
     /\ req' = [req EXCEPT ![c] =
                  IF q.decision = "send_back"
                    THEN [IdleRequest EXCEPT !.pc = "decided", !.escalation = q.escalation]
                    ELSE IdleRequest]
     /\ UNCHANGED <<owner, attempts, ledger, pass, calls, torn, bounds>>

\* After a send_back the request loads the run again ...
LoadRun(c) ==
  /\ req[c].pc = "decided"
  /\ req' = [req EXCEPT ![c] = [IdleRequest EXCEPT !.pc = "loaded", !.run = status,
                                                   !.owner = owner]]
  /\ UNCHANGED <<database, pass, history, bounds>>

\* ... and enqueue_run sends the columns that differ from what it loaded.
EnqueueRun(c) ==
  /\ req[c].pc = "loaded"
  /\ status' = Sent(req[c].run, "queued", status)
  /\ owner' = Sent(req[c].owner, None, owner)
  /\ req' = [req EXCEPT ![c] = IdleRequest]
  /\ UNCHANGED <<task, attempts, escalations, ledger, pass, history, bounds>>

\* The escalation is deleted under a request, which ends when it is written or read again.
EscalationGone(c) ==
  /\ req[c].pc \in {"deciding", "decided"}
  /\ escalations[req[c].escalation].status = Deleted
  /\ req' = [req EXCEPT ![c] = IdleRequest]
  /\ UNCHANGED <<database, pass, history, bounds>>

\* The API process dies between the steps of a request.
LoseRequest(c) ==
  /\ req[c].pc # "idle"
  /\ crashes < MaxCrashes
  /\ crashes' = crashes + 1
  /\ req' = [req EXCEPT ![c] = IdleRequest]
  /\ UNCHANGED <<database, pass, history, enqueues, faults, expiries, deletes>>

NoTask == [status |-> Deleted, retry_count |-> 0]

\* delete_task: the rows that refer to the task go with it, and no session finds it any more.
DeleteTask(i) ==
  /\ task[i].status \in TaskStatus
  /\ deletes < MaxDeletes
  /\ deletes' = deletes + 1
  /\ task' = [task EXCEPT ![i] = NoTask]
  /\ pass' = [p \in Pass |-> IF pass[p].cached THEN [pass[p] EXCEPT !.task[i] = NoTask]
                                               ELSE pass[p]]
  /\ attempts' = {a \in attempts : a[1] # i}
  /\ escalations' = [e \in DOMAIN escalations |->
                       IF escalations[e].task = i THEN [escalations[e] EXCEPT !.status = Deleted]
                                                  ELSE escalations[e]]
  /\ ledger' = {x \in ledger : x.task # i}
  /\ sent_back' = sent_back \ {i}
  /\ UNCHANGED <<status, owner, req, calls, torn, enqueues, faults, crashes, expiries>>

-----------------------------------------------------------------------------
GraphStep(p) ==
  \/ Load(p) \/ Plan(p) \/ KeepTasks(p) \/ CreateTasks(p) \/ FailPlanning(p)
  \/ PickTask(p) \/ Execute(p) \/ StartAttempt(p) \/ AttemptConflict(p) \/ CallTool(p)
  \/ Verify(p) \/ Check(p) \/ Judge(p)
  \/ DecideVerified(p) \/ DecideRetry(p) \/ DecideEscalate(p)
  \/ Escalate(p) \/ CreateEscalation(p) \/ RecordEscalation(p) \/ Finish(p)
  \/ TaskGone(p) \/ SkipEscalation(p)

WorkerStep(p) ==
  \/ DetectStuck(p) \/ MarkStuck(p) \/ Claim(p) \/ Complete(p)
  \/ ReadFailedRun(p) \/ RecordFailure(p)

ReviewStep(c) == CommitDecision(c) \/ LoadRun(c) \/ EnqueueRun(c) \/ EscalationGone(c)

Next ==
  \/ \E p \in Pass : GraphStep(p) \/ WorkerStep(p) \/ DetectHeld(p) \/ Abandon(p)
                        \/ Crash(p) \/ Raise(p)
  \/ \E c \in Reviewer : \/ \E e \in DOMAIN escalations, d \in Decision :
                              ReadEscalation(c, e, d)
                         \/ ReviewStep(c) \/ LoseRequest(c)
  \/ \E i \in Index : DeleteTask(i)

Spec == Init /\ [][Next]_vars

\* Workers that are alive work, recovery runs, a request that was begun goes on.
\* Nobody has to review anything.
Fairness ==
  /\ \A p \in Pass : WF_vars(GraphStep(p) \/ WorkerStep(p))
  /\ \A c \in Reviewer : WF_vars(ReviewStep(c))

FairSpec == Spec /\ Fairness

-----------------------------------------------------------------------------
(* Properties.                                                              *)

\* Every variable has its type: no node, decision or recovery writes a status that the
\* constraints of the tables refuse, and what the ledger records has an attempt.
TypeOK ==
  /\ status \in RunStatus
  /\ owner \in Pass \cup {None}
  /\ task \in [Index -> Task]
  /\ attempts \subseteq Index \X Nat
  /\ escalations \in Seq(Escalation)
  /\ ledger \subseteq Entry
  /\ pass \in [Pass -> PassState]
  /\ req \in [Reviewer -> Request]
  /\ calls \in [Index -> Nat]
  /\ sent_back \subseteq Index
  /\ torn \subseteq Index
  /\ enqueues \in 0 .. MaxEnqueues
  /\ faults \in 0 .. MaxFaults
  /\ crashes \in 0 .. MaxCrashes
  /\ expiries \in 0 .. MaxExpiries
  /\ deletes \in 0 .. MaxDeletes

\* max_retries bounds the calls of a tool that acts on the outside world: a task is
\* executed at most 1 + max_retries times in its life, although it can be sent back
\* with its retry_count reset, and although passes crash, fail and overlap.
\* (One review request at a time: see DecidedOnce for two.)
ToolCallsBounded == \A i \in Index : calls[i] <= MAX_RETRIES + 1

\* Every call of a tool has a row in task_attempts of its own, written before the call,
\* whatever happens to the pass and to the task meanwhile (start_task_attempt).
ToolCallsOnRecord ==
  \A i \in Planned(task) : calls[i] <= Cardinality({a \in attempts : a[1] = i})

\* A run is reported as completed only if it has tasks (or had, before they were deleted)
\* and each is verified: finish_node decides on what its session saw, reviewers decide and
\* tasks are deleted meanwhile.  A node that
\* raises after it verified a task opens an escalation of a verified task, with
\* which this can fail.
CompletedIsVerified ==
  (status = "completed" /\ faults = 0) =>
    /\ StatusesOf(task) \subseteq {"verified"}
    /\ Planned(task) = {} => \E i \in Index : Gone(i)

\* A task is verified only on the record: the ledger has a positive entry of it, or
\* reviewer_decisions has an approval (decide_node, record_reviewer_decision).
Approvals(i) ==
  {e \in DOMAIN escalations : /\ escalations[e].task = i
                              /\ \E n \in DOMAIN escalations[e].decisions :
                                   escalations[e].decisions[n] = "approve"}
VerifiedIsOnRecord ==
  \A i \in Index : task[i].status = "verified" =>
    Approvals(i) # {} \/ \E x \in ledger : x.task = i /\ x.verified

\* No pass works on the run any more.
AtRest == status \notin ACTIVE_STATUSES /\ \A p \in Pass : pass[p].node = "idle"

\* A task that waits for a reviewer is in the review queue, although nodes raise, processes
\* die and live passes lose their run: unless one of these hit the pass just between the
\* commit of "escalated" and the commit of the escalation.
EscalatedIsReviewable ==
  AtRest => \A i \in Index \ torn : task[i].status = "escalated" => HasPending(i)

\* A run that is left in needs_review has something to review, with the same exception, and
\* unless the escalated task was deleted: finish_node, persist_catastrophic_failure and the
\* reviewers agree with the escalations, whoever writes last.
NeedsReviewIsReviewable ==
  (AtRest /\ status = "needs_review" /\ torn = {} /\ deletes = 0) => \E i \in Index : HasPending(i)

\* A task is never twice in the review queue: escalate_node does not look for an
\* escalation that is pending, persist_catastrophic_failure does.
OnePendingEscalation ==
  \A i \in Index :
    Cardinality({e \in DOMAIN escalations : /\ escalations[e].task = i
                                            /\ escalations[e].status = "pending_review"}) <= 1

\* What the ValueError of record_reviewer_decision says: an escalation that is resolved
\* accepts no other decision.
DecidedOnce == \A e \in DOMAIN escalations : Len(escalations[e].decisions) <= 1

\* Only a reviewer takes the verification of a task back, unless the task is deleted: no
\* pass, however late or stale, and no failure does.
VerifiedStays ==
  [][\A i \in Index :
        (task[i].status = "verified" /\ task'[i].status \notin {"verified", Deleted}) =>
        \E c \in Reviewer : CommitDecision(c)]_vars

\* A run that is queued again stays so until a worker takes it: what the pass that escalated
\* its task, or a decision on a stale reading, still writes does not undo the requeue.  What
\* does is a write of "failed" by one who has read the run before it was queued (a recovery, a
\* failure record, or a pass that raises, as it does when its task is deleted), or the
\* finish_node of a failed planning or of a pass whose escalated task was deleted.
WritesFailed(p) ==
  status' = "failed" /\ (MarkStuck(p) \/ RecordFailure(p) \/ Raise(p) \/ TaskGone(p))
FinishesLate(p) == Finish(p) /\ (~pass[p].cached \/ deletes > 0)
RequeueIsKept ==
  [][(status = "queued" /\ status' # "queued") =>
        \E p \in Pass : Claim(p) \/ WritesFailed(p) \/ FinishesLate(p)]_vars

\* Every pass ends: retries run out, and a pass that is cut off from its run, whose session
\* is broken or whose task is deleted still comes back to the worker loop.
PassEnds == \A p \in Pass : pass[p].node # "idle" ~> pass[p].node = "idle"

\* A run does not stay queued or active: it is executed or recovered, whatever stale
\* passes and reviewers write into it.
RunSettles == status \in ACTIVE_STATUSES \cup {"queued"}
                ~> status \notin ACTIVE_STATUSES \cup {"queued"}

\* What the README says of the review queue: a task that is sent back gets another
\* queued run, in which its tool is called.  Of tasks that were attempted before.
SentBackIsExecuted ==
  \A i \in Index : (i \in sent_back /\ calls[i] > 0) ~> i \notin sent_back
=============================================================================
