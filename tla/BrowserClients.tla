---------------------------- MODULE BrowserClients ----------------------------
(***************************************************************************)
(* The browsers of a worker process.  They are kept in two module globals   *)
(* of the executor, used by whatever pass of the graph runs in the process, *)
(* and closed when a pass ends.  The worker runs one pass at a time, except *)
(* that a pass whose heartbeat raised goes on beside the ones that follow;  *)
(* a pass whose lease is lost is cancelled wherever it waits.               *)
(***************************************************************************)
EXTENDS Naturals, Sequences

CONSTANTS
  Pass,        \* the runs of the graph in this process
  Channels,    \* settings.browser_channels, in order of preference
  None,
  MaxCalls,    \* bound: browser tasks of a pass
  MaxClients,  \* bound: servers ever started
  MaxOrphans   \* bound: passes that outlive their job

Channel == {Channels[i] : i \in DOMAIN Channels}
Client == 1..MaxClients

ASSUME ChannelsAreConfigured == Channels \in Seq(Channel) /\ Channels # <<>>
ASSUME BoundsAreNat == MaxCalls \in Nat /\ MaxClients \in Nat /\ MaxOrphans \in Nat
ASSUME NoneIsNothing == None \notin Pass \cup Channel \cup Client

VARIABLES
  browser_clients,         \* _browser_clients
  active_browser_channel,  \* _active_browser_channel
  session,                 \* per client: what became of its server
  owner,                   \* ... and the pass that opened it
  worker,                  \* the pass the worker waits for
  at,                      \* per pass: the await it is in
  channels,                \* ... the channels its call has still to try, the first under way
  client,                  \* ... the browser its call acts in
  closing,                 \* ... the clients its reset has still to close after this one
  calls,                   \* ... calls made
  home,                    \* history, per pass: the browser its last good call acted in
  cancelled,               \* passes that were cancelled, which happens once
  orphans, shared,         \* history: passes that outlived their job, or ran beside another
  lost,                    \* history: the clients whose session never came up
  cut                      \* history: the last reset was cancelled before it was through

globals == <<browser_clients, active_browser_channel>>
history == <<orphans, shared, lost>>
vars == <<globals, session, owner, worker, at, channels, client, closing, calls, home,
          cancelled, history, cut>>

Running == {"running", "opening", "initializing", "acting", "closing"}

TypeOK ==
  /\ browser_clients \in [Channel -> Client \cup {None}]
  /\ active_browser_channel \in Channel \cup {None}
  /\ session \in [Client -> {"unused", "open", "closed"}]
  /\ owner \in [Client -> Pass \cup {None}]
  /\ worker \in Pass \cup {None}
  /\ at \in [Pass -> Running \cup {"waiting", "over"}]
  /\ channels \in [Pass -> Seq(Channel)]
  /\ client \in [Pass -> Client \cup {None}]
  /\ closing \in [Pass -> SUBSET Client]
  /\ calls \in [Pass -> 0..MaxCalls]
  /\ home \in [Pass -> Client \cup {None}]
  /\ cancelled \subseteq Pass
  /\ orphans \in 0..MaxOrphans /\ shared \subseteq Pass /\ lost \subseteq Client /\ cut \in BOOLEAN

Init ==
  /\ browser_clients = [c \in Channel |-> None]
  /\ active_browser_channel = None
  /\ session = [b \in Client |-> "unused"]
  /\ owner = [b \in Client |-> None]
  /\ worker = None
  /\ at = [p \in Pass |-> "waiting"]
  /\ channels = [p \in Pass |-> <<>>]
  /\ client = [p \in Pass |-> None]
  /\ closing = [p \in Pass |-> {}]
  /\ calls = [p \in Pass |-> 0]
  /\ home = [p \in Pass |-> None]
  /\ cancelled = {} /\ orphans = 0 /\ shared = {} /\ lost = {} /\ cut = FALSE

-----------------------------------------------------------------------------
(* The worker.                                                              *)

Others(p) == {q \in Pass \ {p} : at[q] \in Running}

Start(p) ==
  /\ worker = None /\ at[p] = "waiting"
  /\ worker' = p
  /\ at' = [at EXCEPT ![p] = "running"]
  /\ shared' = IF Others(p) = {} THEN shared ELSE shared \cup {p} \cup Others(p)
  /\ UNCHANGED <<globals, session, owner, channels, client, closing, calls, home, cancelled,
                 orphans, lost, cut>>

\* The heartbeat raises: the job ends, and the task of its graph goes on.
Orphan(p) ==
  /\ worker = p /\ at[p] \in Running /\ orphans < MaxOrphans
  /\ worker' = None
  /\ orphans' = orphans + 1
  /\ UNCHANGED <<globals, session, owner, at, channels, client, closing, calls, home,
                 cancelled, shared, lost, cut>>

-----------------------------------------------------------------------------
(* _call_browser.                                                           *)

\* Mutant of ChannelsFor: every channel is tried on every call.
AllChannels == Channels

\* Only the channel that was opened last is tried once there is one.
ChannelsFor ==
  IF active_browser_channel \in Channel THEN <<active_browser_channel>> ELSE Channels

\* The head of the channels is tried: its client is taken, or waited for.  With none left
\* the last exception is raised, and recorded as the claim of the task.
Try(p, rest) ==
  /\ channels' = [channels EXCEPT ![p] = rest]
  /\ IF rest = <<>>
     THEN /\ at' = [at EXCEPT ![p] = "running"]
          /\ client' = [client EXCEPT ![p] = None]
          /\ UNCHANGED active_browser_channel
     ELSE LET found == browser_clients[Head(rest)] IN
          /\ at' = [at EXCEPT ![p] = IF found = None THEN "opening" ELSE "acting"]
          /\ client' = [client EXCEPT ![p] = found]
          /\ active_browser_channel' =
               IF found = None THEN active_browser_channel ELSE Head(rest)

Call(p) ==
  /\ at[p] = "running" /\ calls[p] < MaxCalls
  /\ calls' = [calls EXCEPT ![p] = @ + 1]
  /\ Try(p, ChannelsFor)
  /\ UNCHANGED <<browser_clients, session, owner, worker, closing, home, cancelled, history, cut>>

\* _get_browser_client has started the server of the channel, which has yet to answer.
Started(p) ==
  /\ at[p] = "opening"
  /\ \E b \in Client :
       /\ session[b] = "unused" /\ \A a \in Client : session[a] = "unused" => b <= a
       /\ session' = [session EXCEPT ![b] = "open"]
       /\ owner' = [owner EXCEPT ![b] = p]
       /\ client' = [client EXCEPT ![p] = b]
  /\ at' = [at EXCEPT ![p] = "initializing"]
  /\ UNCHANGED <<globals, worker, channels, closing, calls, home, cancelled, history, cut>>

\* Mutant of Opened: the client is used, and not registered.
OpenedUnregistered(p) ==
  /\ at[p] = "initializing"
  /\ active_browser_channel' = Head(channels[p])
  /\ at' = [at EXCEPT ![p] = "acting"]
  /\ UNCHANGED <<browser_clients, session, owner, worker, channels, client, closing, calls, home,
                 cancelled, history, cut>>

\* Its session is initialized: the client is registered, whatever was during the await.
Opened(p) ==
  /\ at[p] = "initializing"
  /\ browser_clients' = [browser_clients EXCEPT ![Head(channels[p])] = client[p]]
  /\ active_browser_channel' = Head(channels[p])
  /\ at' = [at EXCEPT ![p] = "acting"]
  /\ UNCHANGED <<session, owner, worker, channels, client, closing, calls, home, cancelled,
                 history, cut>>

\* A client whose __aenter__ does not return is known to nobody, and its server goes on.
LostBy(p) == IF at[p] = "initializing" THEN lost \cup {client[p]} ELSE lost

\* The server does not start, its session does not come up, the browser does not answer, or
\* its session is closed.
Fails(p) ==
  /\ at[p] \in {"opening", "initializing", "acting"}
  /\ Try(p, Tail(channels[p]))
  /\ lost' = LostBy(p)
  /\ UNCHANGED <<browser_clients, session, owner, worker, closing, calls, home, cancelled, orphans,
                 shared, cut>>

Acts(p) ==
  /\ at[p] = "acting" /\ session[client[p]] = "open"
  /\ home' = [home EXCEPT ![p] = client[p]]
  /\ at' = [at EXCEPT ![p] = "running"]
  /\ channels' = [channels EXCEPT ![p] = <<>>]
  /\ client' = [client EXCEPT ![p] = None]
  /\ UNCHANGED <<globals, session, owner, worker, closing, calls, cancelled, history, cut>>

-----------------------------------------------------------------------------
(* reset_browser_clients.                                                   *)

\* Mutants of Registered: channels without a client are not left out; only the active
\* channel is closed.
RegisteredAll == {browser_clients[c] : c \in Channel}
RegisteredActive ==
  IF active_browser_channel = None THEN {} ELSE {browser_clients[active_browser_channel]}

Registered == {browser_clients[c] : c \in Channel} \ {None}

Over(p) ==
  /\ at' = [at EXCEPT ![p] = "over"]
  /\ worker' = IF worker = p THEN None ELSE worker
  /\ channels' = [channels EXCEPT ![p] = <<>>]
  /\ client' = [client EXCEPT ![p] = None]

\* Mutant of Clear: the active channel is kept.
ClearClients ==
  /\ browser_clients' = [c \in Channel |-> None]
  /\ UNCHANGED active_browser_channel

Clear ==
  /\ browser_clients' = [c \in Channel |-> None]
  /\ active_browser_channel' = None

\* One of the clients, in the order they were registered, which is not kept here, loses its
\* session at once, and is waited for; after the last, the registry is cleared, whatever is
\* in it by now.
CloseNext(p, rest) ==
  IF rest = {}
  THEN Over(p) /\ Clear /\ cut' = FALSE /\ UNCHANGED <<session, closing>>
  ELSE /\ \E b \in rest : /\ session' = [session EXCEPT ![b] = "closed"]
                         /\ closing' = [closing EXCEPT ![p] = rest \ {b}]
       /\ at' = [at EXCEPT ![p] = "closing"]
       /\ channels' = [channels EXCEPT ![p] = <<>>]
       /\ client' = [client EXCEPT ![p] = None]
       /\ UNCHANGED <<globals, worker, cut>>

\* The graph ends, or raises.
End(p) ==
  /\ at[p] = "running"
  /\ CloseNext(p, Registered)
  /\ UNCHANGED <<owner, calls, home, cancelled, history>>

\* __aexit__ has returned, or raised an Exception, which is ignored.
Closed(p) ==
  /\ at[p] = "closing"
  /\ CloseNext(p, closing[p])
  /\ UNCHANGED <<owner, calls, home, cancelled, history>>

\* Mutant of Cancel: the pass is gone without a reset.
CancelWithoutReset(p) ==
  /\ worker = p /\ at[p] \in Running \ {"closing"}
  /\ Over(p)
  /\ cancelled' = cancelled \cup {p}
  /\ lost' = LostBy(p)
  /\ UNCHANGED <<globals, session, owner, closing, calls, home, orphans, shared, cut>>

\* The lease is lost: the pass is cancelled where it waits, and its reset is still made,
\* unless that is what it waits in; then what is left of the reset is skipped.
Cancel(p) ==
  /\ worker = p /\ at[p] \in Running /\ p \notin cancelled
  /\ cancelled' = cancelled \cup {p}
  /\ lost' = LostBy(p)
  /\ \/ at[p] # "closing" /\ CloseNext(p, Registered)
     \/ /\ at[p] = "closing"
        /\ Over(p)
        /\ closing' = [closing EXCEPT ![p] = {}]
        /\ cut' = TRUE
        /\ UNCHANGED <<globals, session>>
  /\ UNCHANGED <<owner, calls, home, orphans, shared>>

-----------------------------------------------------------------------------

\* Nothing more to run in this process.
Idle == (\A p \in Pass : at[p] = "over") /\ UNCHANGED vars

Next ==
  \/ \E p \in Pass :
       \/ Start(p) \/ Orphan(p) \/ Call(p) \/ Started(p) \/ Opened(p) \/ Fails(p) \/ Acts(p)
       \/ End(p) \/ Closed(p) \/ Cancel(p)
  \/ Idle

Spec == Init /\ [][Next]_vars

-----------------------------------------------------------------------------
(* Properties.                                                              *)

\* Whatever overlaps, once no pass is in progress nothing is left of the last ones in the
\* globals: the next run opens browsers of its own, trying the channels in their order.
\* Only a reset that was itself cancelled leaves something, until the next one is through.
CleanStart ==
  (\A p \in Pass : at[p] \notin Running) /\ ~cut =>
    active_browser_channel = None /\ \A c \in Channel : browser_clients[c] = None

\* A run acts in no browser with the pages and cookies of another run, unless the two
\* passes overlap, or the reset between them was cancelled.
OwnBrowser ==
  \A p \in Pass : at[p] = "acting" /\ p \notin shared /\ ~cut => owner[client[p]] = p

\* A pass that was alone leaves no server running, whichever channels it tried, and however it
\* ended, but for two exceptions.  A cancelled reset, again, which the next one makes good.
\* And a client that failed, or was cancelled, between the start of its server and the end of
\* its initialization: it was never registered, so that no reset ever closes it.
NoBrowserLeft ==
  \A b \in Client :
    session[b] = "open" /\ owner[b] \notin shared /\ ~cut =>
      at[owner[b]] \in Running \/ b \in lost

\* The tasks of a run continue where the ones before have been: a pass that was alone, and
\* for which one browser has worked, never goes on in another, however calls fail.
StaysInItsBrowser ==
  [][\A p \in Pass \ shared' : home[p] # None => home'[p] = home[p]]_vars
=============================================================================
