---------------------------- MODULE RunStreamProofs ----------------------------
(***************************************************************************)
(* What the page can rely on, for every number of reconnects and however    *)
(* often the task is written.  Events never take the page back because the  *)
(* updates on their way are in the order of the row, from what the page     *)
(* shows up to what the row says, and because nobody writes to a task that  *)
(* was escalated and announced before a reviewer has decided on it.         *)
(***************************************************************************)
EXTENDS RunStream, SequenceTheorems, TLAPS

-----------------------------------------------------------------------------
(* Events.                                                                  *)

\* Which events change what the page shows.
IsUpdate(e) == e.type = "task_update"
IsEscalation(e) == e.type = "escalation"
Shows(e) == IsUpdate(e) \/ IsEscalation(e)

\* Such an event has a version, and an update a status.
LEMMA EventType ==
  \A e \in Event : /\ Shows(e) => e.version \in Nat
                   /\ IsUpdate(e) => e.status \in TaskStatus
  BY DEF Event, Shows, IsUpdate, IsEscalation

\* The versions events tell of are not above `to`; those of updates are not below `from`, nor
\* below any that was sent before.
Grow(s, from, to) ==
  /\ \A i \in 1..Len(s) : Shows(s[i]) => s[i].version <= to
  /\ \A i \in 1..Len(s) : IsUpdate(s[i]) => from <= s[i].version
  /\ \A i, j \in 1..Len(s) :
       i < j /\ Shows(s[i]) /\ IsUpdate(s[j]) => s[i].version <= s[j].version

\* Nothing on its way, nothing to take back.
LEMMA EmptyGrows == \A from, to : Grow(<<>>, from, to)
  BY EmptySeq DEF Grow

\* What is left when one event was received.
LEMMA GrowTail ==
  ASSUME NEW s \in Seq(Event), s # <<>>, NEW from, NEW to, Grow(s, from, to)
  PROVE  /\ Grow(Tail(s), from, to)
         /\ Shows(Head(s)) => Grow(Tail(s), Head(s).version, to) /\ Head(s).version <= to
         /\ IsUpdate(Head(s)) => from <= Head(s).version
<1> DEFINE t == Tail(s)
<1>1. /\ Len(s) \in Nat \ {0} /\ Len(t) = Len(s) - 1
      /\ \A i \in 1..Len(t) : i + 1 \in 1..Len(s) /\ t[i] = s[i + 1]
      /\ Head(s) = s[1] /\ 1 \in 1..Len(s)
  BY HeadTailProperties, EmptySeq
<1> HIDE DEF t
<1>2. Grow(t, from, to)
  <2>1. /\ \A i \in 1..Len(t) : Shows(t[i]) => t[i].version <= to
        /\ \A i \in 1..Len(t) : IsUpdate(t[i]) => from <= t[i].version
    BY <1>1 DEF Grow
  <2>2. ASSUME NEW i \in 1..Len(t), NEW j \in 1..Len(t), i < j, Shows(t[i]), IsUpdate(t[j])
        PROVE  t[i].version <= t[j].version
    <3>1. i + 1 \in 1..Len(s) /\ j + 1 \in 1..Len(s) /\ i + 1 < j + 1
      BY <1>1, <2>2
    <3> QED
      BY <1>1, <2>2, <3>1 DEF Grow
  <2> QED
    BY <2>1, <2>2 DEF Grow
<1>3. ASSUME Shows(s[1]) PROVE Grow(t, s[1].version, to) /\ s[1].version <= to
  <2>1. \A i \in 1..Len(t) : IsUpdate(t[i]) => s[1].version <= t[i].version
    <3> SUFFICES ASSUME NEW i \in 1..Len(t), IsUpdate(t[i]) PROVE s[1].version <= t[i].version
      OBVIOUS
    <3>1. i + 1 \in 1..Len(s) /\ 1 < i + 1 /\ t[i] = s[i + 1]
      BY <1>1
    <3> QED
      BY <1>1, <1>3, <3>1 DEF Grow
  <2> QED
    BY <1>1, <1>2, <1>3, <2>1 DEF Grow
<1>4. IsUpdate(s[1]) => from <= s[1].version
  BY <1>1 DEF Grow
<1> QED
  BY <1>1, <1>2, <1>3, <1>4 DEF t

\* Updates of the newest version, and notifications, can follow whatever was sent.
LEMMA GrowConcat ==
  ASSUME NEW s \in Seq(Event), NEW t \in Seq(Event), NEW from \in Nat, NEW to \in Nat,
         from <= to, Grow(s, from, to),
         \A i \in 1..Len(t) : /\ Shows(t[i]) => t[i].version <= to
                              /\ IsUpdate(t[i]) => t[i].version = to
  PROVE  Grow(s \o t, from, to)
<1> DEFINE u == s \o t
<1>1. /\ Len(s) \in Nat /\ Len(t) \in Nat /\ Len(u) = Len(s) + Len(t)
      /\ \A i \in 1..Len(u) : u[i] = IF i <= Len(s) THEN s[i] ELSE t[i - Len(s)]
  BY ConcatProperties
<1> HIDE DEF u
<1>2. ASSUME NEW i \in 1..Len(u)
      PROVE  \/ i \in 1..Len(s) /\ u[i] = s[i]
             \/ i > Len(s) /\ i - Len(s) \in 1..Len(t) /\ u[i] = t[i - Len(s)]
  BY <1>1
<1>3. ASSUME NEW i \in 1..Len(u)
      PROVE  /\ Shows(u[i]) => u[i].version <= to
             /\ IsUpdate(u[i]) => from <= u[i].version
             /\ IsUpdate(u[i]) /\ i > Len(s) => u[i].version = to
  <2>1. CASE i \in 1..Len(s) /\ u[i] = s[i]
    BY <1>1, <2>1 DEF Grow
  <2>2. CASE i > Len(s) /\ i - Len(s) \in 1..Len(t) /\ u[i] = t[i - Len(s)]
    BY <2>2
  <2> QED
    BY <1>2, <2>1, <2>2
<1>4. ASSUME NEW i \in 1..Len(u), NEW j \in 1..Len(u), i < j, Shows(u[i]), IsUpdate(u[j])
      PROVE  u[i].version <= u[j].version
  <2>1. CASE j > Len(s)
    BY <1>3, <1>4, <2>1
  <2>2. CASE j <= Len(s)
    <3>1. i \in 1..Len(s) /\ u[i] = s[i] /\ j \in 1..Len(s) /\ u[j] = s[j]
      BY <1>1, <1>4, <2>2
    <3> QED
      BY <1>4, <3>1 DEF Grow
  <2> QED
    BY <1>1, <2>1, <2>2
<1> QED
  BY <1>3, <1>4 DEF Grow, u

\* The row may have moved on.
LEMMA GrowFurther ==
  ASSUME NEW s \in Seq(Event), NEW from \in Nat, NEW mid \in Nat, NEW to \in Nat,
         mid <= to, Grow(s, from, mid)
  PROVE  Grow(s, from, to)
<1>1. \A i \in 1..Len(s) : Shows(s[i]) => s[i].version \in Nat
  BY EventType
<1> QED
  BY <1>1 DEF Grow

-----------------------------------------------------------------------------
(* The inductive invariant.                                                 *)

\* A page that waits has an attempt left.
Waits == page = "waiting" => attempt < STREAM_MAX_RECONNECT_ATTEMPTS

\* A page that was told of the end reloads.
Told == completed => refreshing \/ missed

\* An escalation is of the task as it is, and then nothing works on the run, unless a reviewer
\* has decided on it.
Known(v) ==
  /\ v <= version
  /\ v \in decided \/ (v = version /\ pass = "none" /\ run # "queued")

\* This holds of each that is to be notified, was notified, or is on its way.
KnownOnWire(s) == \A i \in 1..Len(s) : IsEscalation(s[i]) => Known(s[i].version)
Announced ==
  /\ pass = "escalating" => run # "queued"
  /\ \A v \in owed : Known(v)
  /\ \A i \in 1..Len(queue) : Known(queue[i])
  /\ KnownOnWire(wire)

\* The page is not ahead of the row, and what is on its way is in between.
From == IF missed THEN 0 ELSE shown.version
Ahead == shown.version <= version /\ Grow(wire, From, version)

IInv == TypeOK /\ Waits /\ Told /\ SilentPageFollows /\ Announced /\ Ahead

\* At first the page shows what the row says, and nothing is on its way.
LEMMA InitIInv == Init => IInv
<1> SUFFICES ASSUME Init PROVE IInv
  OBVIOUS
<1>1. run \in Streaming /\ task \in TaskStatus /\ pass \in Working \cup {"none", "enqueue"}
      /\ pass # "escalating"
  <2>1. PICK s \in {<<"pending", "pending", "enqueue">>, <<"queued", "pending", "none">>,
                    <<"executing", "executing", "verify">>, <<"verifying", "claimed", "decide">>} :
          run = s[1] /\ task = s[2] /\ pass = s[3]
    BY DEF Init
  <2>2. \/ s = <<"pending", "pending", "enqueue">> \/ s = <<"queued", "pending", "none">>
        \/ s = <<"executing", "executing", "verify">> \/ s = <<"verifying", "claimed", "decide">>
    BY <2>1
  <2> QED
    BY <2>1, <2>2 DEF Streaming, ACTIVE_STATUSES, TaskStatus, Working
<1>2. shown \in [run : RunStatus, task : TaskStatus, version : Nat] /\ shown.version = 0
  BY <1>1 DEF Init, RunStatus
<1>3. TypeOK
  <2>1. /\ reviewable \in BOOLEAN /\ failing \in BOOLEAN /\ listening \in BOOLEAN
        /\ streamError \in BOOLEAN /\ completed \in BOOLEAN
        /\ refreshing \in BOOLEAN /\ missed \in BOOLEAN
    BY DEF Init
  <2>2. /\ attempt \in 0..STREAM_MAX_RECONNECT_ATTEMPTS /\ version \in Nat
        /\ queue \in Seq(Nat) /\ wire \in Seq(Event)
        /\ owed \in SUBSET Nat /\ decided \in SUBSET Nat
    BY EmptySeq, BoundsAreNat DEF Init
  <2>3. /\ server \in {"poll", "drain", "ended"} /\ last_status \in TaskStatus \cup {"none"}
        /\ page \in {"connecting", "reading", "waiting", "off"}
        /\ token \in {"none", "valid", "expired"} /\ run \in RunStatus
    BY <1>1 DEF Init, RunStatus
  <2> QED
    BY <1>1, <1>2, <2>1, <2>2, <2>3 DEF TypeOK
<1>4. Waits /\ Told /\ SilentPageFollows
  BY DEF Init, Waits, Told, SilentPageFollows
<1>5. Announced
  BY <1>1, EmptySeq DEF Init, Announced, KnownOnWire
<1>6. Ahead
  BY <1>2, EmptyGrows DEF Init, Ahead
<1> QED
  BY <1>3, <1>4, <1>5, <1>6 DEF IInv

-----------------------------------------------------------------------------
(* The row.                                                                 *)

\* The steps that leave the server and the page alone.
RowStep ==
  \/ Claim \/ Execute \/ Verify \/ DecideVerified \/ DecideRetry \/ DecideEscalate
  \/ Escalate \/ CreateEscalation \/ Finish
  \/ Raise \/ Abandon \/ Suspect \/ MarkFailed \/ Delete
  \/ Approve \/ Reject \/ SendBack \/ Enqueue

\* Such a step leaves the row with its types, and does not take the task back.
LEMMA RowTypes ==
  ASSUME TypeOK, RowStep
  PROVE  /\ run' \in RunStatus /\ task' \in TaskStatus
         /\ version' \in Nat /\ version <= version'
         /\ pass' \in Working \cup {"none", "enqueue"}
         /\ reviewable' \in BOOLEAN /\ failing' \in BOOLEAN
         /\ owed' \in SUBSET Nat /\ decided' \in SUBSET Nat
         /\ UNCHANGED page_vars
<1> USE DEF Commit, Writes, Decides
<1>1. run' \in RunStatus /\ task' \in TaskStatus /\ pass' \in Working \cup {"none", "enqueue"}
  BY DEF TypeOK, RowStep, Claim, Execute, Verify, DecideVerified, DecideRetry, DecideEscalate,
     Escalate, CreateEscalation, Finish, Raise, Abandon, Suspect, MarkFailed, Delete, Approve,
     Reject, SendBack, Enqueue, RunStatus, Streaming, ACTIVE_STATUSES, Final, TaskStatus, Working
<1>2. version' \in Nat /\ version <= version'
  BY DEF TypeOK, RowStep, Claim, Execute, Verify, DecideVerified, DecideRetry, DecideEscalate,
     Escalate, CreateEscalation, Finish, Raise, Abandon, Suspect, MarkFailed, Delete, Approve,
     Reject, SendBack, Enqueue
<1>3. owed' \in SUBSET Nat /\ decided' \in SUBSET Nat
  BY DEF TypeOK, RowStep, Claim, Execute, Verify, DecideVerified, DecideRetry, DecideEscalate,
     Escalate, CreateEscalation, Finish, Raise, Abandon, Suspect, MarkFailed, Delete, Approve,
     Reject, SendBack, Enqueue
<1>4. /\ reviewable' = reviewable \/ reviewable' = TRUE \/ reviewable' = FALSE
      /\ \/ failing' = failing \/ failing' = TRUE \/ failing' = FALSE
         \/ failing' = (failing \/ pass \in Working)
  BY DEF RowStep, Claim, Execute, Verify, DecideVerified, DecideRetry, DecideEscalate,
     Escalate, CreateEscalation, Finish, Raise, Abandon, Suspect, MarkFailed, Delete, Approve,
     Reject, SendBack, Enqueue
<1>5. reviewable' \in BOOLEAN /\ failing' \in BOOLEAN
  BY <1>4, Zenon DEF TypeOK
<1>6. UNCHANGED page_vars
  BY DEF RowStep, Claim, Execute, Verify, DecideVerified, DecideRetry, DecideEscalate,
     Escalate, CreateEscalation, Finish, Raise, Abandon, Suspect, MarkFailed, Delete, Approve,
     Reject, SendBack, Enqueue
<1> QED
  BY <1>1, <1>2, <1>3, <1>5, <1>6

\* Only a reviewer writes to a task whose escalation was announced, and is on record for it.
LEMMA KnownStays ==
  ASSUME TypeOK, RowStep, NEW v \in Nat, Known(v)
  PROVE  Known(v)'
<1> USE DEF Commit, Writes, Decides, Known, TypeOK
<1>1. CASE Claim \/ Execute \/ Verify \/ DecideVerified \/ DecideRetry \/ DecideEscalate \/ Escalate
           \/ CreateEscalation \/ Finish
  BY <1>1 DEF Claim, Execute, Verify, DecideVerified, DecideRetry, DecideEscalate, Escalate,
     CreateEscalation, Finish
<1>2. CASE Raise
  BY <1>2 DEF Raise, Working
<1>3. CASE Abandon \/ Suspect \/ MarkFailed \/ Delete
  BY <1>3 DEF Abandon, Suspect, MarkFailed, Delete
<1>4. CASE Approve \/ Reject \/ SendBack \/ Enqueue
  BY <1>4 DEF Approve, Reject, SendBack, Enqueue
<1> QED
  BY <1>1, <1>2, <1>3, <1>4 DEF RowStep

\* What is on the wire stays known if what is known does.
LEMMA WireStays ==
  ASSUME wire \in Seq(Event), KnownOnWire(wire), UNCHANGED wire,
         \A v \in Nat : Known(v) => Known(v)'
  PROVE  KnownOnWire(wire)'
<1>1. \A i \in 1..Len(wire) : IsEscalation(wire[i]) => wire[i].version \in Nat
  BY EventType DEF Shows
<1> QED
  BY <1>1 DEF KnownOnWire, IsEscalation

\* The row goes on.
LEMMA RowKeeps == ASSUME IInv, RowStep PROVE IInv'
<1>t. TypeOK
  BY DEF IInv
<1>0. /\ UNCHANGED <<server, listening, last_status, queue, wire, shown, streamError, refreshing,
                     missed, page, attempt, token, completed>>
      /\ run' \in RunStatus /\ task' \in TaskStatus /\ version' \in Nat /\ version <= version'
      /\ pass' \in Working \cup {"none", "enqueue"}
      /\ reviewable' \in BOOLEAN /\ failing' \in BOOLEAN
      /\ owed' \in SUBSET Nat /\ decided' \in SUBSET Nat
  BY <1>t, RowTypes DEF page_vars, stream, view, client
<1>1. TypeOK'
  <2>1. /\ server' \in {"poll", "drain", "ended"} /\ listening' \in BOOLEAN
        /\ last_status' \in TaskStatus \cup {"none"} /\ queue' \in Seq(Nat) /\ wire' \in Seq(Event)
    BY <1>0, <1>t DEF TypeOK
  <2>2. /\ page' \in {"connecting", "reading", "waiting", "off"}
        /\ attempt' \in 0..STREAM_MAX_RECONNECT_ATTEMPTS /\ token' \in {"none", "valid", "expired"}
        /\ shown' \in [run : RunStatus, task : TaskStatus, version : Nat]
        /\ streamError' \in BOOLEAN /\ completed' \in BOOLEAN
        /\ refreshing' \in BOOLEAN /\ missed' \in BOOLEAN
    BY <1>0, <1>t DEF TypeOK
  <2> QED
    BY <1>0, <2>1, <2>2, Zenon DEF TypeOK
<1>2. Waits' /\ Told' /\ SilentPageFollows'
  BY <1>0 DEF IInv, Waits, Told, SilentPageFollows
<1>3. \A v \in Nat : Known(v) => Known(v)'
  BY <1>t, KnownStays
<1>4. pass' = "escalating" => run' # "queued"
  BY <1>t DEF IInv, Announced, RowStep, Commit, Writes, Decides, Claim, Execute, Verify, DecideVerified,
     DecideRetry, DecideEscalate, Escalate, CreateEscalation, Finish, Raise, Abandon, Suspect,
     MarkFailed, Delete, Approve, Reject, SendBack, Enqueue
<1>5. \A v \in owed' : Known(v)'
  <2>1. CASE CreateEscalation
    <3>1. Known(version)'
      BY <1>t, <2>1 DEF CreateEscalation, Known, IInv, Announced, TypeOK
    <3> QED
      BY <1>3, <1>t, <2>1, <3>1 DEF CreateEscalation, IInv, Announced, TypeOK
  <2>2. CASE ~CreateEscalation
    <3>1. owed' = owed
      BY <2>2 DEF RowStep, Commit, Decides, Claim, Execute, Verify, DecideVerified,
         DecideRetry, DecideEscalate, Escalate, Finish, Raise, Abandon, Suspect,
         MarkFailed, Delete, Approve, Reject, SendBack, Enqueue
    <3> QED
      BY <1>3, <1>t, <3>1 DEF IInv, Announced, TypeOK
  <2> QED
    BY <2>1, <2>2
<1>6. (\A i \in 1..Len(queue) : Known(queue[i]))'
  <2>1. \A i \in 1..Len(queue) : queue[i] \in Nat /\ Known(queue[i])
    BY <1>t DEF IInv, Announced, TypeOK
  <2>2. \A v \in Nat : Known(v) => /\ v <= version'
                                   /\ v \in decided' \/ (v = version' /\ pass' = "none" /\ run' # "queued")
    BY <1>3 DEF Known
  <2> QED
    BY <1>0, <2>1, <2>2 DEF Known
<1>7. Announced'
  BY <1>0, <1>3, <1>4, <1>5, <1>6, <1>t, WireStays DEF IInv, Announced, TypeOK
<1>8. Ahead'
  <2>1. From' = From /\ From \in Nat /\ shown.version \in Nat
    BY <1>0, <1>t DEF From, TypeOK
  <2> QED
    BY <1>0, <1>t, <2>1, GrowFurther DEF IInv, Ahead, TypeOK
<1> QED
  BY <1>1, <1>2, <1>7, <1>8 DEF IInv

\* The notification of an escalation, or what is left of its pass, comes late; neither changes
\* what is known of it.
LEMMA NotifyKeeps == ASSUME IInv, Notify PROVE IInv'
<1>t. TypeOK /\ Announced
  BY DEF IInv
<1>1. PICK v \in owed :
        /\ owed' = owed \ {v}
        /\ queue' = queue \/ queue' = Append(queue, v)
        /\ failing' = failing \/ failing' = TRUE
        /\ UNCHANGED <<run, task, version, pass, reviewable, decided, server, listening, last_status,
                       wire, shown, streamError, refreshing, missed, page, attempt, token, completed>>
  BY DEF Notify, view, client
<1>2. v \in Nat /\ owed' \in SUBSET Nat /\ queue' \in Seq(Nat)
  <2>1. v \in Nat /\ queue \in Seq(Nat)
    BY <1>t DEF TypeOK
  <2>2. Append(queue, v) \in Seq(Nat)
    BY <2>1, AppendProperties
  <2> QED
    BY <1>1, <1>t, <2>1, <2>2 DEF TypeOK
<1>3. TypeOK'
  <2>1. failing' \in BOOLEAN
    BY <1>1, <1>t, Zenon DEF TypeOK
  <2> QED
    BY <1>1, <1>2, <1>t, <2>1 DEF TypeOK
<1>4. Waits' /\ Told' /\ SilentPageFollows'
  BY <1>1 DEF IInv, Waits, Told, SilentPageFollows
<1>5. \A w : Known(w)' <=> Known(w)
  BY <1>1 DEF Known
<1>6. (\A i \in 1..Len(queue) : Known(queue[i]))'
  <2>1. Known(v) /\ \A i \in 1..Len(queue) : Known(queue[i])
    BY <1>t DEF Announced
  <2>2. \A i \in 1..Len(queue') : queue'[i] = v \/ (i \in 1..Len(queue) /\ queue'[i] = queue[i])
    <3>1. queue \in Seq(Nat)
      BY <1>t DEF TypeOK
    <3>2. CASE queue' = queue
      BY <3>1, <3>2
    <3>3. CASE queue' = Append(queue, v)
      BY <1>2, <3>1, <3>3, AppendProperties
    <3> QED
      BY <1>1, <3>2, <3>3
  <2>3. \A i \in 1..Len(queue') : Known(queue'[i])
    BY <2>1, <2>2
  <2> QED
    BY <1>1, <2>3 DEF Known
<1>7. KnownOnWire(wire)'
  BY <1>1, <1>t DEF Announced, KnownOnWire, IsEscalation, Known
<1>8. Announced'
  BY <1>1, <1>5, <1>6, <1>7, <1>t DEF Announced
<1>9. Ahead'
  BY <1>1 DEF IInv, Ahead, From, Grow, Shows, IsUpdate, IsEscalation
<1> QED
  BY <1>3, <1>4, <1>8, <1>9 DEF IInv

-----------------------------------------------------------------------------
(* The server, and the connection.                                          *)

\* The row is left alone.
RowStays == UNCHANGED <<run, task, version, pass, reviewable, owed, decided, failing>>

\* The types of the row do not change without it.
LEMMA RowStaysTypes ==
  ASSUME TypeOK, RowStays
  PROVE  /\ run' \in RunStatus /\ task' \in TaskStatus /\ version' \in Nat
         /\ pass' \in Working \cup {"none", "enqueue"}
         /\ reviewable' \in BOOLEAN /\ failing' \in BOOLEAN
         /\ owed' \in SUBSET Nat /\ decided' \in SUBSET Nat
  BY DEF TypeOK, RowStays

\* What is known stays so without the row.
LEMMA RowStaysKnown ==
  ASSUME Announced, RowStays,
         queue' = queue \/ queue' = <<>>, KnownOnWire(wire')
  PROVE  Announced'
<1>1. (\A i \in 1..Len(queue) : Known(queue[i]))'
  <2>1. \A i \in 1..Len(queue') : Known(queue'[i])
    BY EmptySeq DEF Announced
  <2> QED
    BY <2>1 DEF Known, RowStays
<1>2. KnownOnWire(wire)'
  BY DEF KnownOnWire, IsEscalation, Known, RowStays
<1>3. (\A v \in owed : Known(v))'
  BY DEF Announced, Known, RowStays
<1>4. (pass = "escalating" => run # "queued")'
  BY DEF Announced, RowStays
<1> QED
  BY <1>1, <1>2, <1>3, <1>4 DEF Announced

\* Nothing is on the way: nothing to know, and nothing to take back.
LEMMA NothingSent ==
  ASSUME TypeOK, wire = <<>>
  PROVE  KnownOnWire(wire) /\ \A from \in Nat : Grow(wire, from, version)
  BY EmptySeq, EmptyGrows DEF KnownOnWire

\* The generator, its listener and the connection: what they send may follow what was sent.
LEMMA SendKeeps ==
  ASSUME IInv, NEW t \in Seq(Event), wire' = wire \o t, row' = row, view' = view, client' = client,
         \A i \in 1..Len(t) : /\ IsEscalation(t[i]) => Known(t[i].version)
                              /\ IsUpdate(t[i]) => t[i].version = version,
         server' \in {"poll", "drain", "ended"}, listening' \in BOOLEAN,
         last_status' \in TaskStatus \cup {"none"}, queue' = queue \/ queue' = <<>>
  PROVE  IInv'
<1>t. TypeOK /\ Announced
  BY DEF IInv
<1>0. /\ RowStays
      /\ UNCHANGED <<shown, streamError, refreshing, missed, page, attempt, token, completed>>
  BY DEF row, view, client, RowStays
<1>1. wire \in Seq(Event) /\ wire' \in Seq(Event) /\ queue' \in Seq(Nat) /\ version \in Nat
  <2>1. wire \in Seq(Event) /\ queue \in Seq(Nat) /\ version \in Nat /\ <<>> \in Seq(Nat)
    BY <1>t, EmptySeq DEF TypeOK
  <2>2. wire \o t \in Seq(Event)
    BY <2>1, ConcatProperties
  <2> QED
    BY <2>1, <2>2
<1>2. TypeOK'
  <2>1. /\ page' \in {"connecting", "reading", "waiting", "off"}
        /\ attempt' \in 0..STREAM_MAX_RECONNECT_ATTEMPTS /\ token' \in {"none", "valid", "expired"}
        /\ shown' \in [run : RunStatus, task : TaskStatus, version : Nat]
    BY <1>0, <1>t DEF TypeOK
  <2>2. /\ streamError' \in BOOLEAN /\ completed' \in BOOLEAN
        /\ refreshing' \in BOOLEAN /\ missed' \in BOOLEAN
    BY <1>0, <1>t DEF TypeOK
  <2> QED
    BY <1>0, <1>1, <1>t, <2>1, <2>2, RowStaysTypes, Zenon DEF TypeOK
<1>3. Waits' /\ Told' /\ SilentPageFollows'
  BY <1>0 DEF IInv, Waits, Told, SilentPageFollows
<1>4. KnownOnWire(wire')
  <2>1. /\ Len(wire) \in Nat /\ Len(t) \in Nat /\ Len(wire') = Len(wire) + Len(t)
        /\ \A i \in 1..Len(wire') : wire'[i] = IF i <= Len(wire) THEN wire[i] ELSE t[i - Len(wire)]
    BY <1>1, ConcatProperties
  <2>2. ASSUME NEW i \in 1..Len(wire'), IsEscalation(wire'[i]) PROVE Known(wire'[i].version)
    <3>1. CASE i <= Len(wire)
      BY <1>t, <2>1, <2>2, <3>1 DEF Announced, KnownOnWire
    <3>2. CASE i > Len(wire)
      <4>1. i - Len(wire) \in 1..Len(t) /\ wire'[i] = t[i - Len(wire)]
        BY <2>1, <3>2
      <4> QED
        BY <2>2, <4>1
    <3> QED
      BY <2>1, <3>1, <3>2
  <2> QED
    BY <2>2 DEF KnownOnWire
<1>5. Announced'
  BY <1>0, <1>4, <1>t, RowStaysKnown
<1>6. Ahead'
  <2>1. /\ From \in Nat /\ From <= version /\ shown.version <= version
        /\ shown.version \in Nat /\ Grow(wire, From, version)
    BY <1>t DEF IInv, Ahead, From, TypeOK
  <2>2. \A i \in 1..Len(t) : Shows(t[i]) => t[i].version <= version
    BY <1>1 DEF Shows, Known
  <2>3. Grow(wire', From, version)
    BY <1>1, <2>1, <2>2, GrowConcat
  <2>4. From' = From /\ version' = version /\ shown' = shown
    BY <1>0 DEF From, RowStays
  <2> QED
    BY <2>1, <2>3, <2>4 DEF Ahead
<1> QED
  BY <1>2, <1>3, <1>5, <1>6 DEF IInv

\* The listener is registered.
LEMMA ListenKeeps == ASSUME IInv, Listen PROVE IInv'
<1> DEFINE t == <<>>
<1>1. t \in Seq(Event) /\ wire' = wire \o t /\ \A i \in 1..Len(t) : FALSE
  <2>1. wire \in Seq(Event) /\ <<>> \in Seq(Event) /\ Len(<<>>) = 0
    BY EmptySeq DEF IInv, TypeOK
  <2> QED
    BY <2>1, ConcatEmptySeq DEF Listen
<1> HIDE DEF t
<1>2. /\ server' \in {"poll", "drain", "ended"} /\ listening' \in BOOLEAN
      /\ last_status' \in TaskStatus \cup {"none"} /\ queue' = queue
      /\ row' = row /\ view' = view /\ client' = client
  BY DEF IInv, TypeOK, Listen
<1> QED
  BY <1>1, <1>2, SendKeeps

\* What a poll has to say of the task is of the newest version.
LEMMA UpdatesSay ==
  ASSUME TypeOK
  PROVE  /\ Updates \in Seq(Event)
         /\ \A i \in 1..Len(Updates) : ~IsEscalation(Updates[i]) /\ Updates[i].version = version
<1> DEFINE e == [type |-> "task_update", status |-> task, version |-> version]
<1>1. e \in Event /\ ~IsEscalation(e) /\ e.version = version
  BY DEF TypeOK, Event, IsEscalation
<1> HIDE DEF e
<1>2. CASE Updates = <<>>
  BY <1>2, EmptySeq
<1>3. CASE Updates = <<e>>
  <2>1. <<e>> \in Seq(Event) /\ Len(<<e>>) = 1 /\ <<e>>[1] = e
    BY <1>1
  <2> QED
    BY <1>1, <1>3, <2>1
<1> QED
  BY <1>2, <1>3 DEF Updates, e

\* What it adds at the end is not about the task.
LEMMA LastSays ==
  ASSUME NEW type \in {"error", "run_complete"}
  PROVE  LET t == <<[type |-> type]>> IN
         t \in Seq(Event) /\ Len(t) = 1 /\ ~IsEscalation(t[1]) /\ ~IsUpdate(t[1])
  BY DEF Event, IsEscalation, IsUpdate

\* Each notification is made an escalation of the same version.
LEMMA EscalationsSay ==
  ASSUME TypeOK
  PROVE  /\ Escalations \in Seq(Event) /\ Len(Escalations) = Len(queue)
         /\ \A i \in 1..Len(queue) : /\ ~IsUpdate(Escalations[i])
                                     /\ Escalations[i].version = queue[i]
<1>1. queue \in Seq(Nat) /\ Len(queue) \in Nat /\ DOMAIN queue = 1..Len(queue)
  BY DEF TypeOK
<1>2. \A i \in 1..Len(queue) : [type |-> "escalation", version |-> queue[i]] \in Event
  BY <1>1 DEF Event
<1> QED
  BY <1>1, <1>2 DEF Escalations, IsUpdate

\* A poll says what the row says, and how the stream ends.
LEMMA PollKeeps == ASSUME IInv, Poll \/ PollFails PROVE IInv'
<1>t. TypeOK
  BY DEF IInv
<1>0. row' = row /\ view' = view /\ client' = client
  BY DEF Poll, PollFails
<1>1. /\ Updates \in Seq(Event) /\ Len(Updates) \in Nat
      /\ \A i \in 1..Len(Updates) : ~IsEscalation(Updates[i]) /\ Updates[i].version = version
  BY <1>t, UpdatesSay
<1>2. ASSUME NEW t \in Seq(Event), Ends(t),
             \A i \in 1..Len(t) : ~IsEscalation(t[i]) /\ (IsUpdate(t[i]) => t[i].version = version)
      PROVE  IInv'
  <2>1. /\ wire' = wire \o t /\ server' = "ended" /\ listening' = FALSE /\ queue' = <<>>
        /\ last_status' = last_status
    BY <1>2 DEF Ends
  <2>2. listening' \in BOOLEAN /\ last_status' \in TaskStatus \cup {"none"}
        /\ server' \in {"poll", "drain", "ended"}
    BY <1>t, <2>1 DEF TypeOK
  <2> QED
    BY <1>0, <1>2, <2>1, <2>2, SendKeeps
<1>3. CASE PollFails \/ (Poll /\ run = "deleted" /\ Ends(<<[type |-> "error"]>>))
  <2> DEFINE t == <<[type |-> "error"]>>
  <2>1. t \in Seq(Event) /\ Len(t) = 1 /\ ~IsEscalation(t[1]) /\ ~IsUpdate(t[1])
    BY LastSays
  <2>2. Ends(t)
    BY <1>3 DEF PollFails
  <2> HIDE DEF t
  <2>3. \A i \in 1..Len(t) : ~IsEscalation(t[i]) /\ ~IsUpdate(t[i])
    BY <2>1
  <2> QED
    BY <1>2, <2>1, <2>2, <2>3
<1>4. CASE Poll /\ run \in Final /\ Ends(Updates \o <<[type |-> "run_complete"]>>)
  <2> DEFINE last == <<[type |-> "run_complete"]>>
             t == Updates \o last
  <2>1. last \in Seq(Event) /\ Len(last) = 1 /\ ~IsEscalation(last[1]) /\ ~IsUpdate(last[1])
    BY LastSays
  <2>2. Ends(t)
    BY <1>4
  <2> HIDE DEF last
  <2>3. /\ t \in Seq(Event) /\ Len(t) = Len(Updates) + 1
        /\ \A i \in 1..Len(t) : t[i] = IF i <= Len(Updates) THEN Updates[i] ELSE last[i - Len(Updates)]
    <3>1. /\ t \in Seq(Event) /\ Len(t) = Len(Updates) + Len(last)
          /\ \A i \in 1..(Len(Updates) + Len(last)) :
               t[i] = IF i <= Len(Updates) THEN Updates[i] ELSE last[i - Len(Updates)]
      BY <1>1, <2>1, ConcatProperties, Zenon
    <3> QED
      BY <1>1, <2>1, <3>1
  <2> HIDE DEF t
  <2>4. \A i \in 1..Len(t) : ~IsEscalation(t[i]) /\ (IsUpdate(t[i]) => t[i].version = version)
    <3> SUFFICES ASSUME NEW i \in 1..Len(t)
                 PROVE  ~IsEscalation(t[i]) /\ (IsUpdate(t[i]) => t[i].version = version)
      OBVIOUS
    <3>1. CASE i <= Len(Updates)
      BY <1>1, <2>3, <3>1
    <3>2. CASE i > Len(Updates)
      <4>1. t[i] = last[1]
        BY <1>1, <2>3, <3>2
      <4> QED
        BY <2>1, <4>1
    <3> QED
      BY <1>1, <2>3, <3>1, <3>2
  <2> QED
    BY <1>2, <2>2, <2>3, <2>4
<1>5. CASE /\ wire' = wire \o Updates
           /\ server' = "drain" /\ last_status' = task
           /\ UNCHANGED <<listening, queue>>
  <2>1. listening' \in BOOLEAN /\ last_status' \in TaskStatus \cup {"none"}
        /\ server' \in {"poll", "drain", "ended"} /\ queue' = queue
    BY <1>5, <1>t DEF TypeOK
  <2> QED
    BY <1>0, <1>1, <1>5, <2>1, SendKeeps
<1> QED
  BY <1>3, <1>4, <1>5 DEF Poll

\* Every notification is sent as an escalation that is known.
LEMMA DrainKeeps == ASSUME IInv, Drain PROVE IInv'
<1>t. TypeOK
  BY DEF IInv
<1>0. /\ row' = row /\ view' = view /\ client' = client
      /\ wire' = wire \o Escalations /\ queue' = <<>>
      /\ server' \in {"poll", "drain", "ended"} /\ listening' \in BOOLEAN
      /\ last_status' \in TaskStatus \cup {"none"}
  BY <1>t DEF Drain, TypeOK
<1>1. /\ Escalations \in Seq(Event) /\ Len(Escalations) = Len(queue)
      /\ \A i \in 1..Len(queue) : ~IsUpdate(Escalations[i]) /\ Escalations[i].version = queue[i]
  BY <1>t, EscalationsSay
<1>2. \A i \in 1..Len(Escalations) : Known(Escalations[i].version) /\ ~IsUpdate(Escalations[i])
  BY <1>1 DEF IInv, Announced
<1> QED
  BY <1>0, <1>1, <1>2, SendKeeps

-----------------------------------------------------------------------------
(* The page.                                                                *)

\* Types, for steps of the page.
LEMMA PageTypes ==
  ASSUME TypeOK, RowStays,
         queue' = queue \/ queue' = <<>>, wire' \in Seq(Event),
         server' \in {"poll", "drain", "ended"}, last_status' \in TaskStatus \cup {"none"},
         page' \in {"connecting", "reading", "waiting", "off"},
         attempt' \in 0..STREAM_MAX_RECONNECT_ATTEMPTS,
         token' \in {"none", "valid", "expired"},
         shown' \in [run : RunStatus, task : TaskStatus, version : Nat],
         listening' \in BOOLEAN, streamError' \in BOOLEAN, completed' \in BOOLEAN,
         refreshing' \in BOOLEAN, missed' \in BOOLEAN
  PROVE  TypeOK'
<1>1. queue' \in Seq(Nat)
  BY EmptySeq DEF TypeOK
<1> QED
  BY <1>1, RowStaysTypes, Zenon DEF TypeOK

\* A step of the page that shows what it showed, and loses what was on its way or does not.
LEMMA LossKeeps ==
  ASSUME TypeOK, Announced, Ahead, RowStays, UNCHANGED <<shown, missed>>,
         wire' = wire \/ wire' = <<>>, queue' = queue \/ queue' = <<>>
  PROVE  Announced' /\ Ahead'
<1>1. KnownOnWire(wire')
  BY EmptySeq DEF Announced, KnownOnWire
<1>2. From' = From /\ version' = version
  BY DEF From, RowStays
<1>3. Grow(wire', From, version)
  BY EmptyGrows DEF Ahead
<1> QED
  BY <1>1, <1>2, <1>3, RowStaysKnown DEF Ahead

\* A reconnect is scheduled, or the page gives up and says so.
LEMMA ScheduleKeeps ==
  ASSUME scheduleReconnect
  PROVE  /\ streamError' = TRUE /\ page' \in {"waiting", "off"}
         /\ page' = "waiting" => attempt < STREAM_MAX_RECONNECT_ATTEMPTS
  BY DEF scheduleReconnect

\* The token expires, or the timer fires.
LEMMA TimeKeeps == ASSUME IInv, Expire \/ Reconnect PROVE IInv'
<1>t. TypeOK /\ Announced /\ Ahead
  BY DEF IInv
<1>0. /\ RowStays
      /\ UNCHANGED <<server, listening, last_status, queue, wire, shown, streamError, refreshing,
                     missed, completed>>
  BY DEF Expire, Reconnect, row, stream, view, RowStays
<1>1. /\ page' \in {"connecting", "reading", "waiting", "off"} /\ token' \in {"none", "valid", "expired"}
      /\ attempt' \in 0..STREAM_MAX_RECONNECT_ATTEMPTS
      /\ page' = "off" => page = "off"
      /\ Waits'
  BY <1>t, BoundsAreNat DEF IInv, TypeOK, Waits, Expire, Reconnect
<1>2. /\ listening' \in BOOLEAN /\ streamError' \in BOOLEAN /\ completed' \in BOOLEAN
      /\ refreshing' \in BOOLEAN /\ missed' \in BOOLEAN
  BY <1>0, <1>t DEF TypeOK
<1>3. TypeOK'
  <2>1. /\ wire' \in Seq(Event) /\ server' \in {"poll", "drain", "ended"}
        /\ last_status' \in TaskStatus \cup {"none"} /\ queue' = queue
        /\ shown' \in [run : RunStatus, task : TaskStatus, version : Nat]
    BY <1>0, <1>t DEF TypeOK
  <2> QED
    BY <1>0, <1>1, <1>2, <1>t, <2>1, PageTypes
<1>4. Told' /\ SilentPageFollows'
  BY <1>0, <1>1 DEF IInv, Told, SilentPageFollows
<1> QED
  BY <1>0, <1>1, <1>3, <1>4, <1>t, LossKeeps DEF IInv

\* A connection is opened, refused or put off.
LEMMA ConnectKeeps == ASSUME IInv, Connect PROVE IInv'
<1>t. TypeOK /\ Announced /\ Ahead
  BY DEF IInv
<1>0. /\ RowStays
      /\ UNCHANGED <<listening, queue, last_status, wire, shown, refreshing, missed, attempt>>
      /\ page = "connecting" /\ server' \in {server, "poll"} /\ token' \in {"none", "valid"}
      /\ \/ /\ scheduleReconnect \/ (streamError' = TRUE /\ page' = "off")
            /\ completed' = completed
         \/ page' = "reading" /\ completed' = FALSE /\ streamError' = streamError
  BY <1>t DEF Connect, row, stream, RowStays, TypeOK
<1>1. /\ page' \in {"connecting", "reading", "waiting", "off"}
      /\ page' = "waiting" => attempt < STREAM_MAX_RECONNECT_ATTEMPTS
      /\ page' = "off" => streamError'
      /\ completed' => completed
      /\ streamError' = TRUE \/ streamError' = streamError
      /\ completed' = completed \/ completed' = FALSE
  <2>1. CASE scheduleReconnect /\ completed' = completed
    BY <2>1, ScheduleKeeps, Zenon
  <2>2. CASE streamError' = TRUE /\ page' = "off" /\ completed' = completed
    BY <2>2
  <2>3. CASE page' = "reading" /\ completed' = FALSE /\ streamError' = streamError
    BY <2>3
  <2> QED
    BY <1>0, <2>1, <2>2, <2>3
<1>2. /\ listening' \in BOOLEAN /\ streamError' \in BOOLEAN /\ completed' \in BOOLEAN
      /\ refreshing' \in BOOLEAN /\ missed' \in BOOLEAN
  <2>1. /\ listening \in BOOLEAN /\ streamError \in BOOLEAN /\ completed \in BOOLEAN
        /\ refreshing \in BOOLEAN /\ missed \in BOOLEAN
    BY <1>t DEF TypeOK
  <2>2. listening' = listening /\ refreshing' = refreshing /\ missed' = missed
    BY <1>0
  <2> QED
    BY <1>1, <2>1, <2>2, Zenon
<1>3. TypeOK'
  <2>1. /\ wire' \in Seq(Event) /\ server' \in {"poll", "drain", "ended"}
        /\ last_status' \in TaskStatus \cup {"none"} /\ queue' = queue
        /\ shown' \in [run : RunStatus, task : TaskStatus, version : Nat]
        /\ token' \in {"none", "valid", "expired"} /\ attempt' \in 0..STREAM_MAX_RECONNECT_ATTEMPTS
    BY <1>0, <1>t DEF TypeOK
  <2> QED
    BY <1>0, <1>1, <1>2, <1>t, <2>1, PageTypes
<1>4. Waits' /\ Told' /\ SilentPageFollows'
  BY <1>0, <1>1 DEF IInv, Waits, Told, SilentPageFollows
<1> QED
  BY <1>0, <1>3, <1>4, <1>t, LossKeeps DEF IInv

\* The stream ends or breaks: what was on its way is lost.
LEMMA LostKeeps == ASSUME IInv, StreamEnds \/ Break PROVE IInv'
<1>t. TypeOK /\ Announced /\ Ahead
  BY DEF IInv
<1>0. /\ RowStays
      /\ UNCHANGED <<shown, refreshing, missed, attempt, token, completed>>
      /\ server' = "ended" /\ listening' = FALSE /\ queue' = <<>> /\ last_status' = "none"
      /\ wire' = <<>>
      /\ scheduleReconnect \/ (completed /\ page' = "off" /\ streamError' = streamError)
  BY DEF StreamEnds, Break, Disconnected, row, RowStays
<1>1. /\ page' \in {"connecting", "reading", "waiting", "off"}
      /\ page' = "waiting" => attempt < STREAM_MAX_RECONNECT_ATTEMPTS
      /\ page' = "off" => streamError' \/ completed
      /\ streamError' = TRUE \/ streamError' = streamError
  BY <1>0, ScheduleKeeps
<1>2. /\ listening' \in BOOLEAN /\ streamError' \in BOOLEAN /\ completed' \in BOOLEAN
      /\ refreshing' \in BOOLEAN /\ missed' \in BOOLEAN
  <2>1. /\ streamError \in BOOLEAN /\ completed \in BOOLEAN
        /\ refreshing \in BOOLEAN /\ missed \in BOOLEAN
    BY <1>t DEF TypeOK
  <2>2. listening' = FALSE /\ refreshing' = refreshing /\ missed' = missed /\ completed' = completed
    BY <1>0
  <2> QED
    BY <1>1, <2>1, <2>2, Zenon
<1>3. TypeOK'
  <2>1. /\ wire' \in Seq(Event) /\ server' \in {"poll", "drain", "ended"}
        /\ last_status' \in TaskStatus \cup {"none"} /\ queue' = <<>>
        /\ shown' \in [run : RunStatus, task : TaskStatus, version : Nat]
        /\ token' \in {"none", "valid", "expired"} /\ attempt' \in 0..STREAM_MAX_RECONNECT_ATTEMPTS
    BY <1>0, <1>t, EmptySeq DEF TypeOK
  <2> QED
    BY <1>0, <1>1, <1>2, <1>t, <2>1, PageTypes
<1>4. Waits' /\ Told' /\ SilentPageFollows'
  BY <1>0, <1>1 DEF IInv, Waits, Told, SilentPageFollows
<1> QED
  BY <1>0, <1>3, <1>4, <1>t, LossKeeps DEF IInv

\* What an event makes of the page.
LEMMA ReceiveShows ==
  ASSUME TypeOK, Receive
  PROVE  /\ Head(wire) \in Event
         /\ shown' \in [run : RunStatus, task : TaskStatus, version : Nat]
         /\ shown'.run = shown.run
         /\ shown'.version = IF Shows(Head(wire)) THEN Head(wire).version ELSE shown.version
<1> DEFINE e == Head(wire)
<1>0. e \in Event /\ shown \in [run : RunStatus, task : TaskStatus, version : Nat]
  BY HeadTailProperties DEF Receive, TypeOK
<1>1. LET event == e IN
      shown' = CASE event.type = "task_update" ->
                      [shown EXCEPT !.task = event.status, !.version = event.version]
                 [] event.type = "escalation" ->
                      [shown EXCEPT !.task = "escalated", !.version = event.version]
                 [] OTHER -> shown
  BY DEF Receive
<1>2. /\ Shows(e) => e.version \in Nat
      /\ IsUpdate(e) => e.status \in TaskStatus
      /\ "escalated" \in TaskStatus
  BY <1>0, EventType DEF TaskStatus
<1> HIDE DEF e
<1> DEFINE Shown == /\ shown' \in [run : RunStatus, task : TaskStatus, version : Nat]
                    /\ shown'.run = shown.run
                    /\ shown'.version = IF Shows(e) THEN e.version ELSE shown.version
<1>3. ASSUME e.type = "task_update" PROVE Shown
  <2>1. shown' = [shown EXCEPT !.task = e.status, !.version = e.version]
    BY <1>1, <1>3, Zenon
  <2> QED
    BY <1>0, <1>2, <1>3, <2>1 DEF Shows, IsUpdate
<1>4. ASSUME e.type = "escalation" PROVE Shown
  <2>1. shown' = [shown EXCEPT !.task = "escalated", !.version = e.version]
    <3>1. e.type # "task_update"
      BY <1>4
    <3> QED
      BY <1>1, <1>4, <3>1, Zenon
  <2> QED
    BY <1>0, <1>2, <1>4, <2>1 DEF Shows, IsEscalation
<1>5. ASSUME e.type # "task_update", e.type # "escalation" PROVE Shown
  <2>1. shown' = shown
    BY <1>1, <1>5, Zenon
  <2> QED
    BY <1>0, <1>5, <2>1 DEF Shows, IsUpdate, IsEscalation
<1> QED
  BY <1>0, <1>3, <1>4, <1>5 DEF e

\* What the page comes to show is not ahead of the row, nor of what is still on its way.
LEMMA ReceiveKeeps == ASSUME IInv, Receive PROVE IInv'
<1> DEFINE e == Head(wire)
<1>t. TypeOK /\ Announced /\ Ahead
  BY DEF IInv
<1>0. /\ RowStays
      /\ UNCHANGED <<server, listening, last_status, queue, missed, page, attempt, token>>
      /\ wire \in Seq(Event) /\ wire # <<>> /\ wire' = Tail(wire)
      /\ completed' <=> completed \/ e.type = "run_complete"
      /\ refreshing' <=> refreshing \/ e.type = "run_complete"
  BY <1>t DEF Receive, row, stream, RowStays, TypeOK
<1>1. /\ e \in Event /\ shown' \in [run : RunStatus, task : TaskStatus, version : Nat]
      /\ shown'.run = shown.run
      /\ shown'.version = IF Shows(e) THEN e.version ELSE shown.version
  BY <1>t, ReceiveShows
<1>2. wire' \in Seq(Event)
  BY <1>0, HeadTailProperties
<1>3. TypeOK'
  <2>1. /\ listening' \in BOOLEAN /\ missed' \in BOOLEAN
        /\ completed' \in BOOLEAN /\ refreshing' \in BOOLEAN /\ streamError' \in BOOLEAN
    <3>1. listening' \in BOOLEAN /\ missed' \in BOOLEAN
      BY <1>0, <1>t DEF TypeOK
    <3>2. completed' \in BOOLEAN /\ refreshing' \in BOOLEAN /\ streamError' \in BOOLEAN
      BY Zenon DEF Receive
    <3> QED
      BY <3>1, <3>2
  <2>2. /\ server' \in {"poll", "drain", "ended"} /\ last_status' \in TaskStatus \cup {"none"}
        /\ page' \in {"connecting", "reading", "waiting", "off"} /\ queue' = queue
        /\ token' \in {"none", "valid", "expired"} /\ attempt' \in 0..STREAM_MAX_RECONNECT_ATTEMPTS
    BY <1>0, <1>t DEF TypeOK
  <2> QED
    BY <1>0, <1>1, <1>2, <1>t, <2>1, <2>2, PageTypes
<1>4. Waits' /\ Told' /\ SilentPageFollows'
  <2>1. page # "off" /\ page' = page
    BY <1>0 DEF Receive
  <2> QED
    BY <1>0, <2>1 DEF IInv, Waits, Told, SilentPageFollows
<1>5. Announced'
  <2>1. /\ Len(wire) \in Nat \ {0} /\ Len(wire') = Len(wire) - 1
        /\ \A i \in 1..Len(wire') : i + 1 \in 1..Len(wire) /\ wire'[i] = wire[i + 1]
    BY <1>0, HeadTailProperties, EmptySeq
  <2>2. KnownOnWire(wire')
    BY <1>t, <2>1 DEF Announced, KnownOnWire
  <2> QED
    BY <1>0, <1>t, <2>2, RowStaysKnown
<1>6. Ahead'
  <2>1. /\ Grow(Tail(wire), From, version)
        /\ Shows(e) => Grow(Tail(wire), e.version, version) /\ e.version <= version
    BY <1>0, <1>t, GrowTail DEF Ahead
  <2>2. shown'.version <= version /\ version' = version
    BY <1>0, <1>1, <1>t, <2>1 DEF Ahead, RowStays
  <2>3. Grow(wire', From', version)
    <3>1. CASE missed
      BY <1>0, <2>1, <3>1 DEF From
    <3>2. CASE ~missed
      BY <1>0, <1>1, <2>1, <3>2 DEF From
    <3> QED
      BY <3>1, <3>2
  <2> QED
    BY <2>2, <2>3 DEF Ahead
<1> QED
  BY <1>3, <1>4, <1>5, <1>6 DEF IInv

\* The page is loaded: it shows what the row says, and another connection starts from there,
\* unless the page takes the run for the one it has followed.
LEMMA RefreshedKeeps == ASSUME IInv, Refreshed PROVE IInv'
<1>t. TypeOK /\ Announced /\ Ahead
  BY DEF IInv
<1>0. /\ RowStays /\ token' = token /\ streamError' = streamError
      /\ refreshing /\ refreshing' = FALSE
      /\ shown' \in [run : RunStatus, task : TaskStatus, version : Nat]
      /\ shown'.run = run /\ shown'.version = version
  BY <1>t DEF Refreshed, row, RowStays, TypeOK
<1>1. CASE run = shown.run /\ missed' = TRUE
           /\ UNCHANGED <<stream, wire, page, attempt, completed>>
  <2>0. UNCHANGED <<server, listening, last_status, queue, wire, page, attempt, completed>>
    BY <1>1 DEF stream
  <2>1. TypeOK'
    <3>1. /\ listening' \in BOOLEAN /\ completed' \in BOOLEAN /\ streamError' \in BOOLEAN
          /\ refreshing' \in BOOLEAN /\ missed' \in BOOLEAN
      BY <1>0, <1>1, <1>t, <2>0 DEF TypeOK
    <3>2. /\ wire' \in Seq(Event) /\ server' \in {"poll", "drain", "ended"}
          /\ last_status' \in TaskStatus \cup {"none"} /\ queue' = queue
          /\ page' \in {"connecting", "reading", "waiting", "off"}
          /\ token' \in {"none", "valid", "expired"} /\ attempt' \in 0..STREAM_MAX_RECONNECT_ATTEMPTS
      BY <1>0, <1>t, <2>0 DEF TypeOK
    <3> QED
      BY <1>0, <1>t, <3>1, <3>2, PageTypes
  <2>2. Waits' /\ Told' /\ SilentPageFollows'
    BY <1>1, <2>0 DEF IInv, Waits, Told, SilentPageFollows
  <2>3. Announced'
    <3>1. KnownOnWire(wire')
      BY <1>t, <2>0 DEF Announced
    <3> QED
      BY <1>0, <1>t, <2>0, <3>1, RowStaysKnown
  <2>4. Ahead'
    <3>1. Grow(wire, 0, version)
      BY <1>t, EventType DEF Ahead, From, Grow, Shows, TypeOK
    <3>2. version' = version /\ From' = 0 /\ wire' = wire /\ version \in Nat
      BY <1>0, <1>1, <1>t, <2>0 DEF From, RowStays, TypeOK
    <3> QED
      BY <1>0, <3>1, <3>2 DEF Ahead
  <2> QED
    BY <2>1, <2>2, <2>3, <2>4 DEF IInv
<1>2. CASE /\ run # shown.run /\ missed' = FALSE
           /\ Disconnected
           /\ page' = IF run \in Streaming THEN "connecting" ELSE "off"
           /\ attempt' = 0 /\ completed' = FALSE
  <2>0. /\ server' = "ended" /\ listening' = FALSE /\ queue' = <<>> /\ last_status' = "none"
        /\ wire' = <<>> /\ missed' = FALSE /\ completed' = FALSE
    BY <1>2 DEF Disconnected
  <2>1. TypeOK'
    <3>1. /\ listening' \in BOOLEAN /\ completed' \in BOOLEAN /\ streamError' \in BOOLEAN
          /\ refreshing' \in BOOLEAN /\ missed' \in BOOLEAN
      BY <1>0, <1>t, <2>0 DEF TypeOK
    <3>2. /\ wire' \in Seq(Event) /\ server' \in {"poll", "drain", "ended"}
          /\ last_status' \in TaskStatus \cup {"none"} /\ queue' = <<>>
          /\ page' \in {"connecting", "reading", "waiting", "off"}
          /\ token' \in {"none", "valid", "expired"} /\ attempt' \in 0..STREAM_MAX_RECONNECT_ATTEMPTS
      BY <1>0, <1>2, <1>t, <2>0, EmptySeq, BoundsAreNat DEF TypeOK
    <3> QED
      BY <1>0, <1>t, <3>1, <3>2, PageTypes
  <2>2. Waits' /\ Told' /\ SilentPageFollows'
    BY <1>0, <1>2, <2>0 DEF IInv, Waits, Told, SilentPageFollows
  <2>3. Announced'
    <3>1. KnownOnWire(wire')
      BY <2>0, EmptySeq DEF KnownOnWire
    <3> QED
      BY <1>0, <1>t, <2>0, <3>1, RowStaysKnown
  <2>4. Ahead'
    <3>1. version' = version /\ shown'.version = version /\ version \in Nat
      BY <1>0, <1>t DEF RowStays, TypeOK
    <3>2. Grow(wire', From', version')
      BY <2>0, EmptyGrows
    <3> QED
      BY <3>1, <3>2 DEF Ahead
  <2> QED
    BY <2>1, <2>2, <2>3, <2>4 DEF IInv
<1> QED
  BY <1>1, <1>2 DEF Refreshed

-----------------------------------------------------------------------------

\* Every step keeps the invariant.
LEMMA NextIInv == IInv /\ [Next]_vars => IInv'
<1> SUFFICES ASSUME IInv, [Next]_vars PROVE IInv'
  OBVIOUS
<1>1. CASE UNCHANGED vars
  <2>1. /\ RowStays
        /\ UNCHANGED <<server, listening, last_status, queue, wire, shown,
                       streamError, refreshing, missed, page, attempt, token, completed>>
    BY <1>1 DEF vars, row, stream, view, client, RowStays
  <2>2. TypeOK'
    BY <2>1 DEF IInv, TypeOK, RowStays
  <2>3. Waits' /\ Told' /\ SilentPageFollows'
    BY <2>1 DEF IInv, Waits, Told, SilentPageFollows
  <2> QED
    BY <2>1, <2>2, <2>3, LossKeeps DEF IInv
<1>2. CASE Environment
  BY <1>2, RowKeeps, NotifyKeeps DEF Environment, RowStep
<1>3. CASE Server
  BY <1>3, ListenKeeps, PollKeeps, DrainKeeps DEF Server
<1>4. CASE Client
  BY <1>4, TimeKeeps, ConnectKeeps, ReceiveKeeps, LostKeeps, RefreshedKeeps DEF Client
<1> QED
  BY <1>1, <1>2, <1>3, <1>4 DEF Next

\* The invariant holds in every reachable state.
LEMMA Inductive == Spec => []IInv
  BY InitIInv, NextIInv, PTL DEF Spec

\* The page, the server and the connection keep their types, whatever is lost.
THEOREM TypeCorrect == Spec => []TypeOK
<1>1. IInv => TypeOK
  BY DEF IInv
<1> QED
  BY <1>1, Inductive, PTL

\* Whenever the connection breaks, however often: a page that no longer follows a run under
\* way shows an error, but for a run that was under way again too early.
THEOREM PageFollowsOrSays == Spec => []SilentPageFollows
<1>1. IInv => SilentPageFollows
  BY DEF IInv
<1> QED
  BY <1>1, Inductive, PTL

\* Whatever the passes, the workers and the reviewer write, and in whatever order polls and
\* notifications arrive: an event takes the page back only if it is the notification of an
\* escalation that was decided on, or if the page missed a restart.
THEOREM EventsGoForward == Spec => StatusesDoNotGoBack
<1>1. ASSUME IInv, [Next]_vars
      PROVE  Receive => \/ shown.version <= shown'.version
                        \/ missed
                        \/ Head(wire).type = "escalation" /\ Head(wire).version \in decided
  <2> SUFFICES ASSUME Receive, ~missed, ~(IsEscalation(Head(wire)) /\ Head(wire).version \in decided)
               PROVE  shown.version <= shown'.version
    BY DEF IsEscalation
  <2>t. TypeOK /\ Announced /\ Ahead /\ shown.version \in Nat
    BY <1>1 DEF IInv, TypeOK
  <2>1. /\ wire # <<>> /\ wire \in Seq(Event)
        /\ shown'.version = IF Shows(Head(wire)) THEN Head(wire).version ELSE shown.version
    BY <2>t, ReceiveShows DEF Receive, TypeOK
  <2>2. CASE IsUpdate(Head(wire))
    <3>1. From <= Head(wire).version
      BY <2>1, <2>2, <2>t, GrowTail DEF Ahead
    <3> QED
      BY <2>1, <2>2, <3>1 DEF From, Shows
  <2>3. CASE IsEscalation(Head(wire))
    <3>1. Known(Head(wire).version)
      <4>1. 1 \in 1..Len(wire) /\ Head(wire) = wire[1]
        BY <2>1, HeadTailProperties, EmptySeq
      <4> QED
        BY <2>3, <2>t, <4>1 DEF Announced, KnownOnWire
    <3>2. Head(wire).version = version
      BY <2>3, <3>1 DEF Known
    <3> QED
      BY <2>1, <2>3, <2>t, <3>2 DEF Ahead, Shows
  <2>4. CASE ~Shows(Head(wire))
    BY <2>1, <2>4, <2>t
  <2> QED
    BY <2>2, <2>3, <2>4 DEF Shows
<1> QED
  BY <1>1, Inductive, PTL DEF Spec, StatusesDoNotGoBack
=============================================================================
