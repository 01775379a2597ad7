------------------------------ MODULE RunStream -------------------------------
(***************************************************************************)
(* One page that follows one run with one task: the row of the run as the   *)
(* graph and the reviewers change it, the server that polls the row and     *)
(* listens for escalations, the connection between the two, and the page,   *)
(* which reconnects when the connection ends early and reloads when the     *)
(* run is over.                                                             *)
(*                                                                          *)
(* The row is RunGraph's reduced to the commits that change what is shown,  *)
(* in their order.  The run is planned already, and one reviewer decides at *)
(* a time: then a pass that starts over may meet the last steps of the one  *)
(* before, which are those of `owed` and `failing`, and nothing more of it. *)
(***************************************************************************)
EXTENDS Naturals, Sequences

CONSTANTS
  STREAM_MAX_RECONNECT_ATTEMPTS,
  MaxSent,   \* bound: the generator goes on when fewer events are on their way
  MaxWrites  \* bound: a task written that often is neither retried nor sent back any more

ASSUME BoundsAreNat ==
  STREAM_MAX_RECONNECT_ATTEMPTS \in Nat /\ MaxSent \in Nat \ {0} /\ MaxWrites \in Nat

VARIABLES
  run, task,      \* the statuses in the database; the run may be deleted
  version,        \* history: how often the task's status was written
  pass,           \* what is at work on the run: the next node of a pass, or an enqueue
  reviewable,     \* an escalation is pending
  owed,           \* the escalations, by version, whose pg_notify is still to come
  decided,        \* history: the escalated versions of the task a reviewer has decided on
  failing,        \* somebody has concluded that the run failed and is still to write it
  server,         \* the generator of the connection: what it does next
  listening,      \* ... whether its listener is registered
  last_status,    \* ... last_statuses
  queue,          \* ... escalations it was notified of
  wire,           \* events on their way to the page
  page,           \* what the page does about the stream
  attempt,        \* ... the connections it has lost
  token,          \* the cached API token
  shown,          \* what the page shows: the task, and the run as it was loaded last
  streamError,    \* ... whether it shows an error
  completed,      \* run_complete was received on this connection
  refreshing,     \* router.refresh is under way
  missed          \* history: the last load found the run under way again, as if nothing was

row == <<run, task, version, pass, reviewable, owed, decided, failing>>
stream == <<server, listening, last_status, queue>>
view == <<shown, streamError, refreshing, missed>>
client == <<page, attempt, token, completed>>
page_vars == <<stream, wire, view, client>>
vars == <<row, stream, wire, view, client>>

Final == {"completed", "failed", "needs_review"}
ACTIVE_STATUSES == {"planning", "executing", "verifying"}
Streaming == ACTIVE_STATUSES \cup {"pending", "queued"}   \* isStreamingStatus
RunStatus == Streaming \cup Final \cup {"deleted"}
TaskStatus == {"pending", "executing", "claimed", "verified", "failed", "escalated"}
Working == {"execute", "verify", "decide", "escalate", "escalating", "finish"}

\* Events carry the version of the task they tell of, which the page does not see.
Event == [type : {"task_update"}, status : TaskStatus, version : Nat]
         \cup [type : {"escalation"}, version : Nat]
         \cup [type : {"run_complete", "error"}]

TypeOK ==
  /\ run \in RunStatus /\ task \in TaskStatus /\ version \in Nat
  /\ pass \in Working \cup {"none", "enqueue"}
  /\ reviewable \in BOOLEAN /\ failing \in BOOLEAN
  /\ owed \in SUBSET Nat /\ decided \in SUBSET Nat
  /\ server \in {"poll", "drain", "ended"} /\ listening \in BOOLEAN
  /\ last_status \in TaskStatus \cup {"none"} /\ queue \in Seq(Nat)
  /\ wire \in Seq(Event)
  /\ page \in {"connecting", "reading", "waiting", "off"}
  /\ attempt \in 0..STREAM_MAX_RECONNECT_ATTEMPTS
  /\ token \in {"none", "valid", "expired"}
  /\ shown \in [run : RunStatus, task : TaskStatus, version : Nat]
  /\ streamError \in BOOLEAN /\ completed \in BOOLEAN
  /\ refreshing \in BOOLEAN /\ missed \in BOOLEAN

Init ==
  /\ \E s \in {<<"pending", "pending", "enqueue">>, <<"queued", "pending", "none">>,
               <<"executing", "executing", "verify">>, <<"verifying", "claimed", "decide">>} :
       run = s[1] /\ task = s[2] /\ pass = s[3]
  /\ version = 0 /\ reviewable = FALSE /\ failing = FALSE
  /\ owed = {} /\ decided = {}
  /\ server = "ended" /\ listening = FALSE /\ last_status = "none" /\ queue = <<>>
  /\ wire = <<>>
  /\ page = "connecting" /\ attempt = 0
  /\ token \in {"none", "valid"}
  /\ shown = [run |-> run, task |-> task, version |-> 0]
  /\ streamError = FALSE /\ completed = FALSE /\ refreshing = FALSE /\ missed = FALSE

-----------------------------------------------------------------------------
(* A pass.  It sends each status it commits, as each differs from the one   *)
(* it has seen before, whatever the row says by now.                        *)

\* The row has the run at r; the task at t is written.
Writes(r, t) == run' = r /\ task' = t /\ version' = version + 1

\* A node commits the statuses, and `next` is the next one.
Commit(node, next, r, t) ==
  /\ pass = node /\ pass' = next
  /\ Writes(r, t)
  /\ UNCHANGED <<reviewable, owed, decided, failing, page_vars>>

Claim ==
  /\ pass = "none" /\ run = "queued"
  /\ run' = "planning" /\ pass' = "execute"
  /\ UNCHANGED <<task, version, reviewable, owed, decided, failing, page_vars>>

Execute == Commit("execute", "verify", "executing", "executing")
Verify == Commit("verify", "decide", "verifying", "claimed")

\* How often a task is retried is RunGraph's.
DecideVerified == Commit("decide", "finish", run, "verified")
DecideRetry == version < MaxWrites /\ Commit("decide", "execute", run, "pending")
DecideEscalate == Commit("decide", "escalate", run, "failed")

\* escalate_node, in three commits.
Escalate == Commit("escalate", "escalating", "needs_review", "escalated")

\* Afterwards finish_node finds the run as its pass has left it, and writes nothing more.
CreateEscalation ==
  /\ pass = "escalating" /\ pass' = "none"
  /\ reviewable' = TRUE /\ owed' = owed \cup {version}
  /\ UNCHANGED <<run, task, version, decided, failing, page_vars>>

\* Notifications reach only a listener that is registered already.  What is left of the
\* pass may still raise.
Notify ==
  \E v \in owed :
    /\ owed' = owed \ {v}
    /\ failing' \in {failing, TRUE}
    /\ \/ queue' = IF listening THEN Append(queue, v) ELSE queue
       \/ failing' /\ UNCHANGED queue
    /\ UNCHANGED <<run, task, version, pass, reviewable, decided>>
    /\ UNCHANGED <<server, listening, last_status, wire, view, client>>

Finish ==
  /\ pass = "finish" /\ pass' = "none"
  /\ run' = "completed"
  /\ UNCHANGED <<task, version, reviewable, owed, decided, failing, page_vars>>

-----------------------------------------------------------------------------
(* What happens to a pass, and to the run.                                  *)

\* persist_catastrophic_failure fails the run and escalates its task, and notifies nobody.
Raise ==
  /\ pass \in Working /\ pass' = "none"
  /\ reviewable' = TRUE
  /\ IF task \in {"verified", "escalated"}
     THEN run' = "failed" /\ UNCHANGED <<task, version>>
     ELSE Writes("failed", "escalated")
  /\ UNCHANGED <<owed, decided, failing, page_vars>>

\* The pass raises and only the worker is to record it, or it is cancelled or dies; and so
\* may the request that is to enqueue the run.
Abandon ==
  /\ pass # "none" /\ pass' = "none"
  /\ failing' \in {failing, failing \/ pass \in Working}
  /\ UNCHANGED <<run, task, version, reviewable, owed, decided, page_vars>>

\* A worker reads that the run is stuck, or its own heartbeat raises.
Suspect ==
  /\ run \in ACTIVE_STATUSES \/ pass \in Working
  /\ ~failing /\ failing' = TRUE
  /\ UNCHANGED <<run, task, version, pass, reviewable, owed, decided, page_vars>>

\* ... and writes, whatever was written since.
MarkFailed ==
  /\ failing /\ failing' = FALSE
  /\ run' = IF run = "deleted" THEN run ELSE "failed"
  /\ UNCHANGED <<task, version, pass, reviewable, owed, decided, page_vars>>

\* Nothing finds the run any more.
Delete ==
  /\ run # "deleted" /\ run' = "deleted"
  /\ pass' = "none" /\ reviewable' = FALSE
  /\ UNCHANGED <<task, version, owed, decided, failing, page_vars>>

-----------------------------------------------------------------------------
(* The reviewer decides the escalation that is pending.                     *)

Decides(r, t) ==
  /\ reviewable /\ reviewable' = FALSE
  /\ decided' = decided \cup {version}
  /\ Writes(r, t)
  /\ UNCHANGED <<owed, failing, page_vars>>

Approve == Decides("completed", "verified") /\ UNCHANGED pass
Reject == Decides("failed", "failed") /\ UNCHANGED pass
SendBack == version < MaxWrites /\ Decides("pending", "pending") /\ pass' = "enqueue"

Enqueue ==
  /\ pass = "enqueue" /\ pass' = "none"
  /\ run' = "queued"
  /\ UNCHANGED <<task, version, reviewable, owed, decided, failing, page_vars>>

Environment ==
  \/ Claim \/ Execute \/ Verify \/ DecideVerified \/ DecideRetry \/ DecideEscalate
  \/ Escalate \/ CreateEscalation \/ Notify \/ Finish
  \/ Raise \/ Abandon \/ Suspect \/ MarkFailed \/ Delete
  \/ Approve \/ Reject \/ SendBack \/ Enqueue

-----------------------------------------------------------------------------
(* stream_run.                                                              *)

\* listen_for_escalations has connected; it may never.
Listen ==
  /\ page = "reading" /\ server # "ended" /\ ~listening
  /\ listening' = TRUE
  /\ UNCHANGED <<row, server, last_status, queue, wire, view, client>>

Updates ==
  IF last_status = task THEN <<>>
  ELSE <<[type |-> "task_update", status |-> task, version |-> version]>>

Ends(events) ==
  /\ wire' = wire \o events
  /\ server' = "ended" /\ listening' = FALSE /\ queue' = <<>>
  /\ UNCHANGED <<last_status>>

\* One escalation event per notification.
Escalations == [i \in DOMAIN queue |-> [type |-> "escalation", version |-> queue[i]]]

\* Mutant of Poll: a run that needs a review is not over.
PollOverlooksReview ==
  /\ page = "reading" /\ server = "poll" /\ Len(wire) < MaxSent
  /\ \/ run = "deleted" /\ Ends(<<[type |-> "error"]>>)
     \/ run \in {"completed", "failed"} /\ Ends(Updates \o <<[type |-> "run_complete"]>>)
     \/ /\ run \in Streaming \cup {"needs_review"}
        /\ wire' = wire \o Updates
        /\ server' = "drain" /\ last_status' = task
        /\ UNCHANGED <<listening, queue>>
  /\ UNCHANGED <<row, view, client>>

\* The row is read and what changed is sent; a final status ends the stream at once, and
\* what is still in the queue is not sent.  The run and its task are read together: nothing
\* here depends on both being of the same moment.
Poll ==
  /\ page = "reading" /\ server = "poll" /\ Len(wire) < MaxSent
  /\ \/ run = "deleted" /\ Ends(<<[type |-> "error"]>>)
     \/ run \in Final /\ Ends(Updates \o <<[type |-> "run_complete"]>>)
     \/ /\ run \in Streaming
        /\ wire' = wire \o Updates
        /\ server' = "drain" /\ last_status' = task
        /\ UNCHANGED <<listening, queue>>
  /\ UNCHANGED <<row, view, client>>

PollFails ==
  /\ page = "reading" /\ server = "poll" /\ Len(wire) < MaxSent
  /\ Ends(<<[type |-> "error"]>>)
  /\ UNCHANGED <<row, view, client>>

\* ... and sleeps a second.
Drain ==
  /\ page = "reading" /\ server = "drain" /\ Len(wire) < MaxSent
  /\ wire' = wire \o Escalations
  /\ server' = "poll" /\ queue' = <<>>
  /\ UNCHANGED <<row, listening, last_status, view, client>>

-----------------------------------------------------------------------------
(* streamRun.                                                               *)

\* Mutant of Disconnected: what the old connection has sent is still delivered.
KeptOnReading ==
  /\ server' = "ended" /\ listening' = FALSE /\ queue' = <<>> /\ last_status' = "none"
  /\ UNCHANGED wire

\* No generator serves the page, and nothing that was sent is delivered any more.
Disconnected ==
  /\ server' = "ended" /\ listening' = FALSE /\ queue' = <<>> /\ last_status' = "none"
  /\ wire' = <<>>

\* Mutants of scheduleReconnect: one attempt too many; the page gives up without a word.
ReconnectOnceMore ==
  /\ streamError' = TRUE
  /\ page' = IF attempt <= STREAM_MAX_RECONNECT_ATTEMPTS THEN "waiting" ELSE "off"
GiveUpSilently ==
  /\ streamError' = (attempt < STREAM_MAX_RECONNECT_ATTEMPTS)
  /\ page' = IF attempt < STREAM_MAX_RECONNECT_ATTEMPTS THEN "waiting" ELSE "off"

scheduleReconnect ==
  /\ streamError' = TRUE
  /\ page' = IF attempt < STREAM_MAX_RECONNECT_ATTEMPTS THEN "waiting" ELSE "off"

Expire ==
  /\ token = "valid" /\ token' = "expired"
  /\ UNCHANGED <<row, stream, wire, view, page, attempt, completed>>

\* getApiToken, then the request: there is no session any more; the token is refused and
\* forgotten; the run is not there; the request fails; the stream opens.
Connect ==
  /\ page = "connecting"
  /\ \/ /\ token = "none" /\ UNCHANGED token
        /\ streamError' = TRUE /\ page' = "off"
        /\ UNCHANGED <<stream, wire, completed>>
     \/ /\ token = "expired" /\ token' = "none"
        /\ scheduleReconnect
        /\ UNCHANGED <<stream, wire, completed>>
     \/ /\ token # "expired" /\ token' = "valid"
        /\ \/ /\ run = "deleted"
              /\ streamError' = TRUE /\ page' = "off"
              /\ UNCHANGED <<stream, wire, completed>>
           \/ scheduleReconnect /\ UNCHANGED <<stream, wire, completed>>
           \/ /\ run # "deleted"
              /\ page' = "reading" /\ completed' = FALSE
              /\ server' = "poll"
              /\ UNCHANGED <<listening, queue, last_status, wire, streamError>>
  /\ UNCHANGED <<row, shown, refreshing, missed, attempt>>

\* The timer.
Reconnect ==
  /\ page = "waiting"
  /\ page' = "connecting" /\ attempt' = attempt + 1
  /\ UNCHANGED <<row, stream, wire, view, token, completed>>

\* readRunStream, and the handler of the page.
Receive ==
  /\ page = "reading" /\ wire # <<>>
  /\ wire' = Tail(wire)
  /\ LET event == Head(wire) IN
     /\ streamError' = (event.type = "error")
     /\ shown' = CASE event.type = "task_update" ->
                          [shown EXCEPT !.task = event.status, !.version = event.version]
                   [] event.type = "escalation" ->
                          [shown EXCEPT !.task = "escalated", !.version = event.version]
                   [] OTHER -> shown
     /\ completed' = (completed \/ event.type = "run_complete")
     /\ refreshing' = (refreshing \/ event.type = "run_complete")
  /\ UNCHANGED <<row, stream, page, attempt, token, missed>>

StreamEnds ==
  /\ page = "reading" /\ server = "ended" /\ wire = <<>>
  /\ Disconnected
  /\ IF completed THEN page' = "off" /\ UNCHANGED streamError ELSE scheduleReconnect
  /\ UNCHANGED <<row, shown, refreshing, missed, attempt, token, completed>>

\* The connection breaks: what was on its way is lost, and run_complete is forgotten.
Break ==
  /\ page = "reading"
  /\ Disconnected
  /\ scheduleReconnect
  /\ UNCHANGED <<row, shown, refreshing, missed, attempt, token, completed>>

\* The page is loaded anew.  Only a status other than the one it had ends the old stream,
\* and opens another if the run is still, or again, under way.  What is loaded is shown at once.
Refreshed ==
  /\ refreshing /\ refreshing' = FALSE
  /\ shown' = [run |-> run, task |-> task, version |-> version]
  /\ IF run = shown.run
     THEN /\ missed' = TRUE
          /\ UNCHANGED <<stream, wire, page, attempt, completed>>
     ELSE /\ missed' = FALSE
          /\ Disconnected
          /\ page' = IF run \in Streaming THEN "connecting" ELSE "off"
          /\ attempt' = 0 /\ completed' = FALSE
  /\ UNCHANGED <<row, token, streamError>>

-----------------------------------------------------------------------------

Server == Listen \/ Poll \/ PollFails \/ Drain
Client == Expire \/ Connect \/ Reconnect \/ Receive \/ StreamEnds \/ Break \/ Refreshed

Next == Environment \/ Server \/ Client

\* The generator and the page go on; the graph, the listener and the reviewers need not.
Fairness ==
  /\ WF_vars(Poll \/ Drain)
  /\ WF_vars(Connect \/ Reconnect) /\ WF_vars(Receive \/ StreamEnds) /\ WF_vars(Refreshed)

Spec == Init /\ [][Next]_vars
FairSpec == Spec /\ Fairness

-----------------------------------------------------------------------------
(* Properties.                                                              *)

\* A page that shows a run under way and no longer follows it says so.  The one it misses
\* is a run that was sent back, or went on in spite of a worker that had it failed, before the
\* page has loaded that it was over.
SilentPageFollows ==
  shown.run \in Streaming /\ page = "off" /\ ~refreshing => streamError \/ missed

\* Polls and notifications reach the page by two ways, connections come and go, and workers
\* write on what they read long ago; yet no event takes the page back to a status the task had
\* before the one that is shown.  There are two exceptions: the notification of an escalation a
\* reviewer has decided on by now, and a page that missed a restart, which reads on although
\* it was loaded anew.
StatusesDoNotGoBack ==
  [][Receive => \/ shown.version <= shown'.version
                \/ missed
                \/ Head(wire).type = "escalation" /\ Head(wire).version \in decided]_vars

\* If the run comes to an end and stays there, the page comes to show that it is over, or that
\* it has lost track; again except for a run that was under way again too early.
PageSettles ==
  <>[](run \notin Streaming) => <>[](shown.run \notin Streaming \/ streamError \/ missed)
=============================================================================
