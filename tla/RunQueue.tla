------------------------------ MODULE RunQueue ------------------------------
(***************************************************************************)
(* The durable run queue: rows of the table "runs", the workers that claim  *)
(* and execute them under a lease, the recovery of stuck runs every worker  *)
(* performs, and the HTTP requests that create, delete and re-enqueue runs. *)
(*                                                                          *)
(* One action is one database transaction, or one SELECT of a transaction   *)
(* that is followed by a write: the code reads rows through the ORM, keeps  *)
(* what it saw, and its later UPDATE carries only the columns whose value    *)
(* differs from what it saw (autoflush=False, expire_on_commit=False,        *)
(* READ COMMITTED).  What a session saw is therefore part of the state.      *)
(*                                                                          *)
(* Time is abstracted to what the guards compare: a lease is live or         *)
(* expired, the column updated_at is fresh or older than the stuck cutoff.  *)
(***************************************************************************)
EXTENDS Naturals, FiniteSets

CONSTANTS
  Run,          \* identities of runs
  Worker,       \* identities of worker processes (a restarted worker is new)
  Client,       \* HTTP requests that can be in progress at the same time
  None,         \* SQL NULL
  MaxEnqueues,  \* bound: how often runs are enqueued altogether
  MaxPhases,    \* bound: execute nodes in one pass of the graph
  MaxOrphans,   \* bound: heartbeat exceptions a worker can meet
  MaxCrashes,   \* bound: worker processes killed from outside
  MaxDeletes    \* bound: runs deleted

ASSUME NoneIsNobody == None \notin Worker /\ None \notin Run
ASSUME BoundsAreNat ==
  /\ MaxEnqueues \in Nat /\ MaxPhases \in Nat /\ MaxOrphans \in Nat
  /\ MaxCrashes \in Nat /\ MaxDeletes \in Nat

VARIABLES
  \* columns of "runs"
  status, lease_owner, lease, touched, queued_at, execution_attempts,
  escalated,   \* the run has an escalation in status pending_review (a pass stops
               \* at the first task it escalates, so one is enough)
  offered,     \* history: committed create_run and enqueue_run calls per run
  now,         \* the next queued_at timestamp
  \* worker processes
  pc, job, stuck, seen,
  graph, cur,  \* graph tasks of each process, and the slot of the current one
  \* HTTP requests
  req,
  crashes, deletes

columns == <<status, lease_owner, lease, touched, queued_at, execution_attempts>>
history == <<offered, now>>
workers == <<pc, job, stuck, seen>>
graphs  == <<graph, cur>>
bounds  == <<crashes, deletes>>
vars == <<columns, escalated, history, workers, graphs, req, bounds>>

-----------------------------------------------------------------------------
QUEUED == "queued"
ACTIVE_STATUSES == {"planning", "executing", "verifying"}
RunStatus == ACTIVE_STATUSES
               \cup {"pending", QUEUED, "completed", "failed", "needs_review"}
Gone == {"absent", "deleted"}     \* no such row, yet or any more
Slot == 0 .. MaxOrphans

Pc == {"recover", "recovering", "claim", "claiming", "running", "completing",
       "failing", "failed_read", "stopped"}
Busy == {"claiming", "running", "completing", "failing", "failed_read"}
Phase == {"load", "plan", "planned", "executing", "verifying", "escalate", "finish"}
Snapshot == [run: Run, owner: Worker \cup {None}]
NoGraph == [run |-> None, phase |-> "none", view |-> "absent", left |-> 0]
GraphTask == [run: Run, phase: Phase, view: RunStatus \cup Gone, left: 0 .. MaxPhases]
Request == [pc: {"idle", "deciding", "decided", "loaded"}, run: Run \cup {None},
            view: RunStatus \cup Gone, owner: Worker \cup {None}]

NoRequest == [pc |-> "idle", run |-> None, view |-> "absent", owner |-> None]

Init ==
  /\ status = [r \in Run |-> "absent"]
  /\ lease_owner = [r \in Run |-> None]
  /\ lease = [r \in Run |-> "none"]
  /\ touched = [r \in Run |-> "fresh"]
  /\ queued_at = [r \in Run |-> 0]
  /\ execution_attempts = [r \in Run |-> 0]
  /\ escalated = [r \in Run |-> FALSE]
  /\ offered = [r \in Run |-> 0]
  /\ now = 0
  /\ pc = [w \in Worker |-> "recover"]
  /\ job = [w \in Worker |-> None]
  /\ stuck = [w \in Worker |-> {}]
  /\ seen = [w \in Worker |-> "absent"]
  /\ graph = [w \in Worker |-> [i \in Slot |-> NoGraph]]
  /\ cur = [w \in Worker |-> 0]
  /\ req = [c \in Client |-> NoRequest]
  /\ crashes = 0
  /\ deletes = 0

Exists(r) == status[r] \in RunStatus
GoTo(w, label) == pc' = [pc EXCEPT ![w] = label]
PutGraph(w, i, g) == graph' = [graph EXCEPT ![w][i] = g]

\* The UPDATE of a status column whose session last saw `view`: the column is
\* sent only if it changed, so a value equal to what was seen writes nothing.
WriteStatus(r, view, s) ==
  IF s = view
    THEN UNCHANGED <<status, touched>>
    ELSE /\ status' = [status EXCEPT ![r] = s]
         /\ touched' = [touched EXCEPT ![r] = "fresh"]

-----------------------------------------------------------------------------
(* Recovery of stuck runs, at the top of every worker iteration.            *)

\* Mutant of Stuck: only the lease is looked at.
StuckByLease(r) == status[r] \in ACTIVE_STATUSES /\ lease[r] = "expired"

\* An active run is stuck when its lease expired or nothing was written to it
\* for longer than the cutoff.
Stuck(r) ==
  /\ status[r] \in ACTIVE_STATUSES
  /\ lease[r] = "expired" \/ touched[r] = "stale"

DetectStuck(w) ==
  /\ pc[w] = "recover"
  /\ stuck' = [stuck EXCEPT ![w] =
                 {[run |-> r, owner |-> lease_owner[r]] : r \in {x \in Run : Stuck(x)}}]
  /\ GoTo(w, IF \E r \in Run : Stuck(r) THEN "recovering" ELSE "claim")
  /\ UNCHANGED <<columns, escalated, history, job, seen, graphs, req, bounds>>

\* All rows seen stuck are failed in one commit.  Their status was active when
\* seen, so "failed" is always sent; the lease columns are sent only where a
\* lease was seen.
MarkStuck(w) ==
  LET marked == {s.run : s \in stuck[w]}
      leased == {s.run : s \in {x \in stuck[w] : x.owner # None}}
  IN /\ pc[w] = "recovering"
     /\ \A r \in marked : Exists(r)
     /\ status' = [r \in Run |-> IF r \in marked THEN "failed" ELSE status[r]]
     /\ touched' = [r \in Run |-> IF r \in marked THEN "fresh" ELSE touched[r]]
     /\ lease_owner' = [r \in Run |-> IF r \in leased THEN None ELSE lease_owner[r]]
     /\ lease' = [r \in Run |-> IF r \in leased THEN "none" ELSE lease[r]]
     /\ stuck' = [stuck EXCEPT ![w] = {}]
     /\ GoTo(w, "claim")
     /\ UNCHANGED <<queued_at, execution_attempts, escalated, history, job, seen,
                    graphs, req, bounds>>

\* The process dies: its orphaned graph tasks die with it.
Exit(w) ==
  /\ GoTo(w, "stopped")
  /\ job' = [job EXCEPT ![w] = None]
  /\ stuck' = [stuck EXCEPT ![w] = {}]
  /\ seen' = [seen EXCEPT ![w] = "absent"]
  /\ graph' = [graph EXCEPT ![w] = [i \in Slot |-> NoGraph]]

\* The UPDATE of a row that was deleted since it was read matches no row; the
\* exception leaves worker_loop, which ends the process.
MarkStuckRaises(w) ==
  /\ pc[w] = "recovering"
  /\ \E s \in stuck[w] : ~Exists(s.run)
  /\ Exit(w)
  /\ UNCHANGED <<columns, escalated, history, cur, req, bounds>>

-----------------------------------------------------------------------------
(* Claiming.                                                                *)

Queued == {r \in Run : status[r] = QUEUED}
Oldest == {r \in Queued : \A q \in Queued : queued_at[r] <= queued_at[q]}

\* Mutant of SelectCandidate: an empty result is not checked.
SelectUnchecked(w) ==
  /\ pc[w] = "claim"
  /\ job' \in {[job EXCEPT ![w] = r] : r \in IF Queued = {} THEN {None} ELSE Oldest}
  /\ GoTo(w, "claiming")
  /\ UNCHANGED <<columns, escalated, history, stuck, seen, graphs, req, bounds>>

SelectCandidate(w) ==
  /\ pc[w] = "claim"
  /\ \/ /\ Queued = {}
        /\ GoTo(w, "recover")
        /\ UNCHANGED job
     \/ \E r \in Oldest : /\ job' = [job EXCEPT ![w] = r]
                          /\ GoTo(w, "claiming")
  /\ UNCHANGED <<columns, escalated, history, stuck, seen, graphs, req, bounds>>

\* Mutant of Claimable: the UPDATE asks for the id only.
ClaimableById(r) == Exists(r)

\* UPDATE ... WHERE status = 'queued': at most one of the workers that selected
\* the run gets a row count of 1.
Claimable(r) == status[r] = QUEUED

ClaimRun(w) ==
  LET r == job[w] IN
  /\ pc[w] = "claiming"
  /\ Claimable(r)
  /\ status' = [status EXCEPT ![r] = "planning"]
  /\ lease_owner' = [lease_owner EXCEPT ![r] = w]
  /\ lease' = [lease EXCEPT ![r] = "live"]
  /\ touched' = [touched EXCEPT ![r] = "fresh"]
  /\ execution_attempts' = [execution_attempts EXCEPT ![r] = @ + 1]
  /\ PutGraph(w, cur[w], [run |-> r, phase |-> "load", view |-> "absent",
                          left |-> MaxPhases])
  /\ GoTo(w, "running")
  /\ UNCHANGED <<queued_at, escalated, history, job, stuck, seen, cur, req, bounds>>

\* Mutant of LoseClaim: a lost claim ends the worker.
LoseClaimStops(w) ==
  /\ pc[w] = "claiming"
  /\ ~Claimable(job[w])
  /\ Exit(w)
  /\ UNCHANGED <<columns, escalated, history, cur, req, bounds>>

LoseClaim(w) ==
  /\ pc[w] = "claiming"
  /\ ~Claimable(job[w])
  /\ job' = [job EXCEPT ![w] = None]
  /\ GoTo(w, "recover")
  /\ UNCHANGED <<columns, escalated, history, stuck, seen, graphs, req, bounds>>

-----------------------------------------------------------------------------
(* The heartbeat task that runs beside the graph task.                      *)

OwnsLease(w) == job[w] \in Run /\ lease_owner[job[w]] = w

\* The UPDATE asks only for the owner: an expired lease is renewed as well.
RenewLease(w) ==
  /\ pc[w] = "running"
  /\ OwnsLease(w)
  /\ lease' = [lease EXCEPT ![job[w]] = "live"]
  /\ touched' = [touched EXCEPT ![job[w]] = "fresh"]
  /\ UNCHANGED <<status, lease_owner, queued_at, execution_attempts, escalated,
                 history, workers, graphs, req, bounds>>

\* Mutant of AbandonRun: the heartbeat stops, the graph task is not cancelled.
StopHeartbeat(w) == pc[w] = "running" /\ ~OwnsLease(w) /\ UNCHANGED vars

\* The lease is gone: the graph task is cancelled and the run abandoned.
AbandonRun(w) ==
  /\ pc[w] = "running"
  /\ ~OwnsLease(w)
  /\ PutGraph(w, cur[w], NoGraph)
  /\ job' = [job EXCEPT ![w] = None]
  /\ GoTo(w, "recover")
  /\ UNCHANGED <<columns, escalated, history, stuck, seen, cur, req, bounds>>

\* The renewal raises (the database is briefly unreachable).  The exception
\* leaves _run_graph_with_lease_heartbeat without cancelling the graph task,
\* which keeps running in its slot while the worker goes on.
RenewRaises(w) ==
  /\ pc[w] = "running"
  /\ cur[w] < MaxOrphans
  /\ cur' = [cur EXCEPT ![w] = @ + 1]
  /\ GoTo(w, "failing")
  /\ UNCHANGED <<columns, escalated, history, job, stuck, seen, graph, req, bounds>>

-----------------------------------------------------------------------------
(* Graph tasks.  What a pass does to tasks and attempts is the subject of    *)
(* RunGraph; here a pass is the sequence of statuses it writes to the row.   *)
(* No node looks at the lease.                                               *)

GraphLives(w, i) ==
  /\ pc[w] # "stopped"
  /\ graph[w][i] # NoGraph
  /\ i < cur[w] \/ pc[w] = "running"

\* One node: the task in slot i moves from phase `from` to phase `to`, and its
\* session assigns the status s and commits.
Node(w, i, from, to, s) ==
  LET g == graph[w][i] IN
  /\ GraphLives(w, i)
  /\ g.phase = from
  /\ Exists(g.run)
  /\ PutGraph(w, i, [g EXCEPT !.phase = to, !.view = s])
  /\ WriteStatus(g.run, g.view, s)
  /\ UNCHANGED <<lease_owner, lease, queued_at, execution_attempts, history,
                 workers, cur, req, bounds>>

\* run_graph loads the run before it enters the graph.
GraphLoad(w, i) ==
  LET g == graph[w][i] IN
  /\ GraphLives(w, i)
  /\ g.phase = "load"
  /\ Exists(g.run)
  /\ PutGraph(w, i, [g EXCEPT !.phase = "plan", !.view = status[g.run]])
  /\ UNCHANGED <<columns, escalated, history, workers, cur, req, bounds>>

\* plan_node assigns "planning", commits, and then refreshes the run: this is
\* the only node that learns what others wrote.
GraphPlan(w, i) ==
  LET g == graph[w][i] IN
  /\ GraphLives(w, i)
  /\ g.phase = "plan"
  /\ Exists(g.run)
  /\ WriteStatus(g.run, g.view, "planning")
  /\ PutGraph(w, i, [g EXCEPT !.phase = "planned", !.view = status'[g.run]])
  /\ UNCHANGED <<lease_owner, lease, queued_at, execution_attempts, escalated,
                 history, workers, cur, req, bounds>>

\* A goal that cannot be planned is escalated in one commit.
GraphPlanFails(w, i) ==
  /\ Node(w, i, "planned", "finish", "needs_review")
  /\ escalated' = [escalated EXCEPT ![graph[w][i].run] = TRUE]

\* The retry bound of the graph bounds the number of execute nodes.
GraphExecute(w, i) ==
  LET g == graph[w][i] IN
  /\ GraphLives(w, i)
  /\ g.phase \in {"planned", "verifying"}
  /\ g.left > 0
  /\ Exists(g.run)
  /\ PutGraph(w, i, [g EXCEPT !.phase = "executing", !.view = "executing",
                              !.left = @ - 1])
  /\ WriteStatus(g.run, g.view, "executing")
  /\ UNCHANGED <<lease_owner, lease, queued_at, execution_attempts, escalated,
                 history, workers, cur, req, bounds>>

GraphVerify(w, i) ==
  /\ Node(w, i, "executing", "verifying", "verifying")
  /\ UNCHANGED escalated

\* escalate_node commits the statuses first and the escalation afterwards.
GraphEscalate(w, i) ==
  /\ Node(w, i, "verifying", "escalate", "needs_review")
  /\ UNCHANGED escalated

\* The escalation; finish_node then assigns the status the session has
\* already seen, which writes nothing.
GraphCreateEscalation(w, i) ==
  /\ Node(w, i, "escalate", "finish", "needs_review")
  /\ escalated' = [escalated EXCEPT ![graph[w][i].run] = TRUE]

\* finish_node, when no task is pending.
GraphFinish(w, i) ==
  /\ \E from \in {"planned", "verifying"},
        s \in {"completed", "failed", "needs_review"} : Node(w, i, from, "finish", s)
  /\ UNCHANGED escalated

\* The graph task of slot i ends; if it is the current one the worker goes on
\* at `label`.
EndGraph(w, i, label) ==
  /\ PutGraph(w, i, NoGraph)
  /\ pc' = IF i = cur[w] THEN [pc EXCEPT ![w] = label] ELSE pc

GraphReturns(w, i) ==
  /\ GraphLives(w, i)
  /\ graph[w][i].phase = "finish"
  /\ EndGraph(w, i, "completing")
  /\ UNCHANGED <<columns, escalated, history, job, stuck, seen, cur, req, bounds>>

\* Any node may raise.  Unless the session is unusable or the run is gone,
\* the failure is persisted, with an escalation when a task was current.
GraphRaises(w, i) ==
  LET g == graph[w][i] IN
  /\ GraphLives(w, i)
  /\ EndGraph(w, i, "failing")
  /\ \/ UNCHANGED <<status, touched, escalated>>
     \/ /\ g.phase # "load"
        /\ Exists(g.run)
        /\ WriteStatus(g.run, g.view, "failed")
        /\ escalated' \in {escalated, [escalated EXCEPT ![g.run] = TRUE]}
  /\ UNCHANGED <<lease_owner, lease, queued_at, execution_attempts, history, job,
                 stuck, seen, cur, req, bounds>>

GraphStep(w, i) ==
  \/ GraphLoad(w, i) \/ GraphPlan(w, i) \/ GraphPlanFails(w, i)
  \/ GraphExecute(w, i) \/ GraphVerify(w, i) \/ GraphEscalate(w, i)
  \/ GraphCreateEscalation(w, i) \/ GraphFinish(w, i)
  \/ GraphReturns(w, i) \/ GraphRaises(w, i)

-----------------------------------------------------------------------------
(* The end of a job.                                                        *)

\* Mutant of ClearLease: the expiry is forgotten.
ClearOwner(r) ==
  /\ lease_owner' = [lease_owner EXCEPT ![r] = None]
  /\ UNCHANGED lease

ClearLease(r) ==
  /\ lease_owner' = [lease_owner EXCEPT ![r] = None]
  /\ lease' = [lease EXCEPT ![r] = "none"]

LeaveJob(w) ==
  /\ GoTo(w, "recover")
  /\ job' = [job EXCEPT ![w] = None]

\* Mutant of CompleteRun: the lease is kept.
CompleteKeepsLease(w) ==
  /\ pc[w] = "completing"
  /\ LeaveJob(w)
  /\ UNCHANGED <<columns, escalated, history, stuck, seen, graphs, req, bounds>>

CompleteRun(w) ==
  /\ pc[w] = "completing"
  /\ IF OwnsLease(w)
       THEN /\ ClearLease(job[w])
            /\ touched' = [touched EXCEPT ![job[w]] = "fresh"]
       ELSE UNCHANGED <<lease_owner, lease, touched>>
  /\ LeaveJob(w)
  /\ UNCHANGED <<status, queued_at, execution_attempts, escalated, history, stuck,
                 seen, graphs, req, bounds>>

\* record_worker_failure reads the run ...
ReadFailedRun(w) ==
  /\ pc[w] = "failing"
  /\ IF OwnsLease(w)
       THEN /\ seen' = [seen EXCEPT ![w] = status[job[w]]]
            /\ GoTo(w, "failed_read")
            /\ UNCHANGED job
       ELSE /\ LeaveJob(w)
            /\ UNCHANGED seen
  /\ UNCHANGED <<columns, escalated, history, stuck, graphs, req, bounds>>

\* Mutant of RecordFailure: the run is queued again instead of failed.
RecordFailureRequeues(w) ==
  LET r == job[w] IN
  /\ pc[w] = "failed_read"
  /\ Exists(r)
  /\ status' = [status EXCEPT ![r] = QUEUED]
  /\ touched' = [touched EXCEPT ![r] = "fresh"]
  /\ ClearLease(r)
  /\ seen' = [seen EXCEPT ![w] = "absent"]
  /\ LeaveJob(w)
  /\ UNCHANGED <<queued_at, execution_attempts, escalated, history, stuck, graphs,
                 req, bounds>>

\* Mutant of RecordFailure: the lease is kept.
RecordFailureKeepsLease(w) ==
  LET r == job[w] IN
  /\ pc[w] = "failed_read"
  /\ Exists(r)
  /\ status' = [status EXCEPT ![r] = "failed"]
  /\ touched' = [touched EXCEPT ![r] = "fresh"]
  /\ seen' = [seen EXCEPT ![w] = "absent"]
  /\ LeaveJob(w)
  /\ UNCHANGED <<lease_owner, lease, queued_at, execution_attempts, escalated, history,
                 stuck, graphs, req, bounds>>

\* ... and writes what it decided on that reading.
RecordFailure(w) ==
  LET r == job[w] IN
  /\ pc[w] = "failed_read"
  /\ Exists(r)
  /\ status' = IF seen[w] = "failed" THEN status ELSE [status EXCEPT ![r] = "failed"]
  /\ touched' = [touched EXCEPT ![r] = "fresh"]
  /\ ClearLease(r)
  /\ seen' = [seen EXCEPT ![w] = "absent"]
  /\ LeaveJob(w)
  /\ UNCHANGED <<queued_at, execution_attempts, escalated, history, stuck, graphs,
                 req, bounds>>

RecordFailureRaises(w) ==
  /\ pc[w] = "failed_read"
  /\ ~Exists(job[w])
  /\ Exit(w)
  /\ UNCHANGED <<columns, escalated, history, cur, req, bounds>>

Crash(w) ==
  /\ pc[w] # "stopped"
  /\ crashes < MaxCrashes
  /\ crashes' = crashes + 1
  /\ Exit(w)
  /\ UNCHANGED <<columns, escalated, history, cur, req, deletes>>

-----------------------------------------------------------------------------
(* Requests and the passage of time.                                        *)

CreateRun(r) ==
  /\ status[r] = "absent"
  /\ now < MaxEnqueues
  /\ now' = now + 1
  /\ status' = [status EXCEPT ![r] = QUEUED]
  /\ queued_at' = [queued_at EXCEPT ![r] = now]
  /\ offered' = [offered EXCEPT ![r] = @ + 1]
  /\ UNCHANGED <<lease_owner, lease, touched, execution_attempts, escalated,
                 workers, graphs, req, bounds>>

\* A run can be deleted in any status, also while a worker executes it.
DeleteRun(r) ==
  /\ Exists(r)
  /\ deletes < MaxDeletes
  /\ deletes' = deletes + 1
  /\ status' = [status EXCEPT ![r] = "deleted"]
  /\ ClearLease(r)
  /\ escalated' = [escalated EXCEPT ![r] = FALSE]
  /\ UNCHANGED <<touched, queued_at, execution_attempts, history, workers, graphs,
                 req, crashes>>

\* A reviewer's request reads the escalation and the run ...
ReadEscalation(c, r) ==
  /\ req[c].pc = "idle"
  /\ Exists(r)
  /\ escalated[r]
  /\ req' = [req EXCEPT ![c] =
               [pc |-> "deciding", run |-> r, view |-> status[r], owner |-> None]]
  /\ UNCHANGED <<columns, escalated, history, workers, graphs, bounds>>

\* ... and commits the decision with the reconciled status of the run: "pending"
\* when the task is sent back, otherwise whatever the tasks' statuses say.
CommitDecision(c, s, sent_back) ==
  LET r == req[c].run IN
  /\ req[c].pc = "deciding"
  /\ Exists(r)
  /\ sent_back => s = "pending"
  /\ status' = IF s = req[c].view THEN status ELSE [status EXCEPT ![r] = s]
  /\ touched' = [touched EXCEPT ![r] = "fresh"]
  /\ escalated' = [escalated EXCEPT ![r] = FALSE]
  /\ req' = [req EXCEPT ![c] = IF sent_back
                                THEN [NoRequest EXCEPT !.pc = "decided", !.run = r]
                                ELSE NoRequest]
  /\ UNCHANGED <<lease_owner, lease, queued_at, execution_attempts, history, workers,
                 graphs, bounds>>

\* After a send_back the request loads the run again ...
LoadRun(c) ==
  LET r == req[c].run IN
  /\ req[c].pc = "decided"
  /\ Exists(r)
  /\ req' = [req EXCEPT ![c] = [@ EXCEPT !.pc = "loaded", !.view = status[r],
                                         !.owner = lease_owner[r]]]
  /\ UNCHANGED <<columns, escalated, history, workers, graphs, bounds>>

\* ... and enqueue_run writes the columns that differ from what it loaded.
EnqueueRun(c) ==
  LET r == req[c].run IN
  /\ req[c].pc = "loaded"
  /\ Exists(r)
  /\ now < MaxEnqueues
  /\ now' = now + 1
  /\ status' = IF req[c].view = QUEUED THEN status ELSE [status EXCEPT ![r] = QUEUED]
  /\ queued_at' = [queued_at EXCEPT ![r] = now]
  /\ touched' = [touched EXCEPT ![r] = "fresh"]
  /\ IF req[c].owner = None THEN UNCHANGED <<lease_owner, lease>> ELSE ClearLease(r)
  /\ offered' = [offered EXCEPT ![r] = @ + 1]
  /\ req' = [req EXCEPT ![c] = NoRequest]
  /\ UNCHANGED <<execution_attempts, escalated, workers, graphs, bounds>>

\* The API process dies, or the row is gone, between two steps of a request.
AbortRequest(c) ==
  /\ req[c].pc # "idle"
  /\ req' = [req EXCEPT ![c] = NoRequest]
  /\ UNCHANGED <<columns, escalated, history, workers, graphs, bounds>>

LeaseExpires(r) ==
  /\ lease[r] = "live"
  /\ lease' = [lease EXCEPT ![r] = "expired"]
  /\ UNCHANGED <<status, lease_owner, touched, queued_at, execution_attempts,
                 escalated, history, workers, graphs, req, bounds>>

\* The stuck cutoff (3600 s) is longer than a lease (1800 s): a row that is
\* stale has no live lease.  Only the staleness of an active row is ever read.
RowGoesStale(r) ==
  /\ status[r] \in ACTIVE_STATUSES
  /\ touched[r] = "fresh"
  /\ lease[r] # "live"
  /\ touched' = [touched EXCEPT ![r] = "stale"]
  /\ UNCHANGED <<status, lease_owner, lease, queued_at, execution_attempts,
                 escalated, history, workers, graphs, req, bounds>>

-----------------------------------------------------------------------------
WorkerStep(w) ==
  \/ DetectStuck(w) \/ MarkStuck(w) \/ MarkStuckRaises(w)
  \/ SelectCandidate(w) \/ ClaimRun(w) \/ LoseClaim(w)
  \/ CompleteRun(w)
  \/ ReadFailedRun(w) \/ RecordFailure(w) \/ RecordFailureRaises(w)

RequestStep(c) ==
  \/ \E r \in Run : ReadEscalation(c, r)
  \/ \E s \in RunStatus \ {QUEUED, "planning", "verifying"}, b \in BOOLEAN :
       CommitDecision(c, s, b)
  \/ LoadRun(c) \/ EnqueueRun(c) \/ AbortRequest(c)

TimePasses(r) == LeaseExpires(r) \/ RowGoesStale(r)

Next ==
  \/ \E w \in Worker : \/ WorkerStep(w) \/ RenewLease(w) \/ AbandonRun(w)
                        \/ RenewRaises(w) \/ Crash(w)
                        \/ \E i \in Slot : GraphStep(w, i)
  \/ \E c \in Client : RequestStep(c)
  \/ \E r \in Run : CreateRun(r) \/ DeleteRun(r) \/ TimePasses(r)

Spec == Init /\ [][Next]_vars

\* The worker loop and the heartbeat are scheduled by the event loop of a
\* process that has not died, and clocks advance.  Nothing is assumed of the
\* requests, of crashes, or of the graph.
Fairness ==
  /\ \A w \in Worker : /\ WF_vars(WorkerStep(w))
                       /\ WF_vars(RenewLease(w))
                       /\ WF_vars(AbandonRun(w))
  /\ \A r \in Run : WF_vars(TimePasses(r))

FairSpec == Spec /\ Fairness

\* Every node of a graph terminates: an assumption about tools and models that
\* a property states where it needs it.
NodesTerminate == \A w \in Worker, i \in Slot : WF_vars(GraphStep(w, i))

-----------------------------------------------------------------------------
(* Properties.                                                              *)

TypeOK ==
  /\ status \in [Run -> RunStatus \cup Gone]
  /\ lease_owner \in [Run -> Worker \cup {None}]
  /\ lease \in [Run -> {"none", "live", "expired"}]
  /\ touched \in [Run -> {"fresh", "stale"}]
  /\ queued_at \in [Run -> Nat]
  /\ execution_attempts \in [Run -> Nat]
  /\ escalated \in [Run -> BOOLEAN]
  /\ offered \in [Run -> Nat]
  /\ now \in Nat
  /\ pc \in [Worker -> Pc]
  /\ job \in [Worker -> Run \cup {None}]
  /\ stuck \in [Worker -> SUBSET Snapshot]
  /\ seen \in [Worker -> RunStatus \cup Gone]
  /\ \A w \in Worker : pc[w] \in Busy => job[w] # None
  /\ graph \in [Worker -> [Slot -> GraphTask \cup {NoGraph}]]
  /\ cur \in [Worker -> Slot]
  /\ req \in [Client -> Request]
  /\ \A c \in Client : req[c].pc # "idle" => req[c].run # None
  /\ crashes \in 0 .. MaxCrashes
  /\ deletes \in 0 .. MaxDeletes

\* A run is executed at most once for every time it was created or enqueued,
\* however many workers select it, renew it, recover it or fail it on stale
\* information (claim_next_queued_run and all writers of the status column).
OneClaimPerEnqueue ==
  \A r \in Run : /\ execution_attempts[r] <= offered[r]
                 /\ status[r] = QUEUED => execution_attempts[r] < offered[r]

\* A live worker never forgets a lease: if a row names it as the owner, the
\* worker is executing that run or about to complete or fail it.  (A forgotten
\* lease would block nobody but would be shown forever, and its run would be
\* failed as stuck although nobody works on it.)
LeaseHolderWorks ==
  \A r \in Run, w \in Worker :
    lease_owner[r] = w =>
      \/ pc[w] = "stopped"
      \/ job[w] = r /\ pc[w] \in {"running", "completing", "failing", "failed_read"}

\* A row has a lease exactly when it has an owner, although the two columns are
\* sent or left out by each ORM session on its own reading of the row.
LeaseHasOwner == \A r \in Run : lease[r] = "none" <=> lease_owner[r] = None

\* A worker whose lease was taken from it stops working on the run, even if the
\* graph itself never returns (the heartbeat cancels it).
LostLeaseStopsWork ==
  \A w \in Worker, r \in Run :
    (pc[w] = "running" /\ job[w] = r /\ lease_owner[r] # w)
      ~> ~(pc[w] = "running" /\ job[w] = r /\ lease_owner[r] # w)

\* No run stays planning, executing or verifying for ever, whether its worker
\* crashed, lost its lease, or wrote to it after it had lost its lease.
ActiveRunsSettle ==
  NodesTerminate =>
    \A r \in Run : (status[r] \in ACTIVE_STATUSES) ~> (status[r] \notin ACTIVE_STATUSES)

\* A queued run does not stay queued while a worker is alive.
QueuedRunsAreTaken ==
  NodesTerminate =>
    \A r \in Run : (status[r] = QUEUED) ~> (status[r] # QUEUED)

\* "clears its lease when finished" (README.md:34): a worker that is between
\* two runs has no graph task left.
NoGraphOutlivesItsJob ==
  \A w \in Worker : pc[w] \in {"recover", "claim"} =>
                      \A i \in Slot : graph[w][i] = NoGraph

\* "Run was stuck ... beyond the allowed worker lease" (run_queue.py:222): a run
\* that recovery fails has no live lease at that moment.
RecoveryRespectsLease ==
  [][\A w \in Worker : MarkStuck(w) => \A s \in stuck[w] : lease[s.run] # "live"]_vars

\* The queue implements the abstract work queue: a queued row is a waiting job.
Abstract == INSTANCE WorkQueue WITH
  Job <- Run, waiting <- Queued, delivered <- execution_attempts
Refines == Abstract!Spec
=============================================================================
