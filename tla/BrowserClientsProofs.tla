------------------------- MODULE BrowserClientsProofs -------------------------
(***************************************************************************)
(* What keeps the browsers of passes apart.  All of it follows from two     *)
(* facts: passes that overlap are known to, and a browser that a pass by    *)
(* itself has opened, and that came up, stays registered until a reset that *)
(* closes it is through.                                                    *)
(***************************************************************************)
EXTENDS BrowserClients, SequenceTheorems, TLAPS

-----------------------------------------------------------------------------
(* The inductive invariant.                                                 *)

Active(p) == at[p] \in Running

\* A pass that has run by itself so far.
Alone(p) == Active(p) /\ p \notin shared

\* What a pass that waits has at hand.
AwaitOK ==
  \A p \in Pass :
    /\ at[p] \in {"opening", "initializing", "acting"} => channels[p] # <<>>
    /\ at[p] \in {"initializing", "acting"} => client[p] \in Client
    /\ at[p] = "initializing" => owner[client[p]] = p

\* Passes that overlap know of each other.
Overlap == \A p, q \in Pass : p # q /\ Active(p) /\ Active(q) => p \in shared

\* Every session that is open was opened by a pass, and one that was not has no owner.
OpenedBySome ==
  \A b \in Client : /\ session[b] = "open" => owner[b] \in Pass
                    /\ session[b] = "unused" => owner[b] = None

\* The browsers a pass finds are those it has opened, if what ran before has cleared up.
FindsItsOwn ==
  ~cut => \A p \in Pass, c \in Channel :
            Alone(p) /\ browser_clients[c] # None => owner[browser_clients[c]] = p

\* A browser that a pass has left open comes up, or it is registered, and resets under way
\* will close it.
Known(b) ==
  /\ \E c \in Channel : browser_clients[c] = b
  /\ \A p \in Pass : at[p] = "closing" => b \in closing[p]
OpenIsKnown ==
  \A b \in Client :
    session[b] = "open" /\ owner[b] \notin shared /\ b \notin lost =>
      \/ at[owner[b]] = "initializing" /\ client[owner[b]] = b
      \/ Known(b)

\* A channel that a pass opens has no browser, unless one of a pass that runs beside it.
OpensWhatIsMissing ==
  \A p \in Pass :
    at[p] \in {"opening", "initializing"} /\ browser_clients[Head(channels[p])] # None =>
      owner[browser_clients[Head(channels[p])]] \in shared

\* A pass acts in the browser of the active channel.
ActsInActive ==
  \A p \in Pass :
    Alone(p) /\ at[p] = "acting" =>
      /\ active_browser_channel \in Channel
      /\ browser_clients[active_browser_channel] = client[p]

\* ... which is the one that has worked for it, once one has.
HomeIsActive ==
  \A p \in Pass :
    Alone(p) /\ home[p] # None =>
      /\ at[p] \notin {"opening", "initializing"}
      /\ at[p] = "acting" => client[p] = home[p] /\ Tail(channels[p]) = <<>>
      /\ active_browser_channel \in Channel
      /\ browser_clients[active_browser_channel] = home[p]
HomeOnlyOnce == \A p \in Pass : at[p] = "waiting" => home[p] = None

IInv ==
  /\ TypeOK /\ AwaitOK /\ Overlap
  /\ CleanStart /\ FindsItsOwn
  /\ OpenedBySome /\ OpenIsKnown /\ OpensWhatIsMissing /\ NoBrowserLeft
  /\ ActsInActive /\ HomeIsActive /\ HomeOnlyOnce

\* Why a pass in its own browser is in a browser it opened.
LEMMA ActsInItsOwn == IInv => OwnBrowser
<1> SUFFICES ASSUME IInv, NEW p \in Pass, at[p] = "acting", p \notin shared, ~cut
             PROVE  owner[client[p]] = p
  BY DEF OwnBrowser
<1>1. Alone(p) /\ client[p] # None
  BY NoneIsNothing DEF IInv, AwaitOK, Alone, Active, Running
<1> QED
  BY <1>1 DEF IInv, ActsInActive, FindsItsOwn

\* A process starts with nothing open.
LEMMA InitIInv == Init => IInv
<1> SUFFICES ASSUME Init PROVE IInv
  OBVIOUS
<1>0. <<>> \in Seq(Channel) /\ 0 \in 0..MaxCalls /\ 0 \in 0..MaxOrphans
  BY EmptySeq, BoundsAreNat
<1>1. TypeOK
  BY <1>0 DEF Init, TypeOK
<1>2. \A p \in Pass : at[p] = "waiting" /\ home[p] = None /\ ~Active(p)
  BY DEF Init, Active, Running
<1>3. \A b \in Client : session[b] # "open" /\ owner[b] = None
  BY DEF Init
<1>4. AwaitOK /\ Overlap /\ HomeOnlyOnce /\ ActsInActive /\ HomeIsActive /\ OpensWhatIsMissing
  BY <1>2 DEF AwaitOK, Overlap, HomeOnlyOnce, ActsInActive, HomeIsActive, OpensWhatIsMissing, Alone
<1>5. OpenedBySome /\ OpenIsKnown /\ NoBrowserLeft
  BY <1>3 DEF OpenedBySome, OpenIsKnown, NoBrowserLeft
<1>6. CleanStart /\ FindsItsOwn
  BY DEF Init, CleanStart, FindsItsOwn
<1> QED
  BY <1>1, <1>4, <1>5, <1>6 DEF IInv

-----------------------------------------------------------------------------
(* The worker.                                                              *)

\* A pass that starts alone finds no globals and has no browser yet.
LEMMA StartKeeps == ASSUME IInv, NEW p \in Pass, Start(p) PROVE IInv'
<1> USE DEF globals, history
<1>1. /\ at[p] = "waiting" /\ at' = [at EXCEPT ![p] = "running"] /\ at \in [Pass -> Running \cup {"waiting", "over"}]
      /\ UNCHANGED <<browser_clients, active_browser_channel, session, owner, channels, client,
                     closing, calls, home, cancelled, orphans, lost, cut>>
  BY DEF Start, IInv, TypeOK
<1>2. shared \subseteq shared' /\ \A q \in Pass : q # p /\ Active(q) => {p, q} \subseteq shared'
  BY DEF Start, Others, Active
<1>3. \A q \in Pass : /\ Active(q)' <=> q = p \/ Active(q)
                      /\ q # p => at'[q] = at[q]
  BY <1>1 DEF Active, Running
<1>4. TypeOK'
  BY <1>1 DEF Start, Others, IInv, TypeOK, Running
<1>5. AwaitOK' /\ HomeOnlyOnce' /\ OpenedBySome'
  BY <1>1 DEF IInv, AwaitOK, HomeOnlyOnce, OpenedBySome
<1>6. Overlap'
  BY <1>2, <1>3 DEF IInv, Overlap
<1>7. CleanStart'
  BY <1>1 DEF CleanStart, Running
<1>8. ASSUME Alone(p)', ~cut PROVE \A c \in Channel : browser_clients[c] = None
  <2>1. \A q \in Pass : at[q] \notin Running
    BY <1>1, <1>2, <1>8 DEF Alone, Active, Running
  <2> QED
    BY <1>8, <2>1 DEF IInv, CleanStart
<1>9. \A q \in Pass : q # p => (Alone(q)' => Alone(q))
  BY <1>2, <1>3 DEF Alone
<1>10. FindsItsOwn'
  BY <1>1, <1>8, <1>9 DEF IInv, FindsItsOwn
<1>11. OpenIsKnown' /\ OpensWhatIsMissing'
  BY <1>1, <1>2 DEF IInv, OpenIsKnown, Known, OpensWhatIsMissing, OpenedBySome
<1>12. NoBrowserLeft'
  BY <1>1, <1>2 DEF IInv, NoBrowserLeft, Running, OpenedBySome
<1>13. ActsInActive'
  BY <1>1, <1>9 DEF IInv, ActsInActive
<1>14. HomeIsActive'
  BY <1>1, <1>9, NoneIsNothing DEF IInv, HomeIsActive, HomeOnlyOnce
<1> QED
  BY <1>4, <1>5, <1>6, <1>7, <1>10, <1>11, <1>12, <1>13, <1>14 DEF IInv

\* A pass that is left behind goes on, but is never alone again.
LEMMA OrphanKeeps == ASSUME IInv, NEW p \in Pass, Orphan(p) PROVE IInv'
<1>0. orphans' \in 0..MaxOrphans
  BY BoundsAreNat DEF Orphan, IInv, TypeOK
<1>1. TypeOK'
  BY <1>0 DEF Orphan, IInv, TypeOK, globals
<1>2. UNCHANGED <<browser_clients, active_browser_channel, session, owner, at, channels, client,
                  closing, home, shared, lost, cut>>
  BY DEF Orphan, globals
<1>3. AwaitOK' /\ HomeOnlyOnce' /\ OpenedBySome' /\ OpenIsKnown' /\ OpensWhatIsMissing'
  BY <1>2 DEF IInv, AwaitOK, HomeOnlyOnce, OpenedBySome, OpenIsKnown, Known, OpensWhatIsMissing
<1>4. CleanStart' /\ NoBrowserLeft' /\ Overlap' /\ FindsItsOwn'
  BY <1>2 DEF IInv, CleanStart, NoBrowserLeft, Overlap, FindsItsOwn, Active, Alone
<1>5. ActsInActive' /\ HomeIsActive'
  BY <1>2 DEF IInv, ActsInActive, HomeIsActive, Active, Alone
<1> QED
  BY <1>1, <1>3, <1>4, <1>5 DEF IInv

-----------------------------------------------------------------------------
(* _call_browser.                                                           *)

\* A call, or a pass over to the next channel, leaves everybody else alone.
LEMMA TryKeeps ==
  ASSUME IInv, NEW p \in Pass, at[p] \in {"running", "opening", "initializing", "acting"},
         NEW rest \in Seq(Channel), Try(p, rest),
         home[p] # None /\ p \notin shared => rest = <<>> \/ rest = <<active_browser_channel>>,
         calls' \in [Pass -> 0..MaxCalls], lost' = LostBy(p),
         UNCHANGED <<browser_clients, session, owner, worker, closing, home, cancelled, orphans,
                     shared, cut>>
  PROVE  IInv'
<1> DEFINE found == browser_clients[Head(rest)]
<1>t. TypeOK
  BY DEF IInv
<1>1. /\ \A q \in Pass : q # p => /\ at'[q] = at[q] /\ channels'[q] = channels[q]
                                  /\ client'[q] = client[q]
      /\ channels'[p] = rest /\ channels' \in [Pass -> Seq(Channel)]
      /\ UNCHANGED <<browser_clients, session, owner, worker, closing, home, cancelled, orphans,
                     shared>>
      /\ lost \subseteq lost' /\ (at[p] = "initializing" => client[p] \in lost')
      /\ cut' <=> cut
  BY <1>t DEF Try, TypeOK, LostBy
<1>2. \/ /\ rest = <<>> /\ at'[p] = "running" /\ client'[p] = None
         /\ active_browser_channel' = active_browser_channel
      \/ /\ rest # <<>> /\ found = None /\ at'[p] = "opening" /\ client'[p] = None
         /\ active_browser_channel' = active_browser_channel
      \/ /\ rest # <<>> /\ found # None /\ at'[p] = "acting" /\ client'[p] = found
         /\ active_browser_channel' = Head(rest)
  BY <1>t DEF Try, TypeOK
<1>3. rest # <<>> => Head(rest) \in Channel /\ found \in Client \cup {None}
  BY <1>t, HeadTailProperties DEF TypeOK
<1>4. TypeOK'
  <2>1. /\ at' \in [Pass -> Running \cup {"waiting", "over"}]
        /\ client' \in [Pass -> Client \cup {None}]
        /\ active_browser_channel' \in Channel \cup {None}
    BY <1>t, <1>3 DEF Try, TypeOK, Running
  <2>2. cut' \in BOOLEAN
    BY <1>t, Zenon DEF TypeOK
  <2>3. lost' \subseteq Client
    BY <1>t DEF LostBy, IInv, AwaitOK, TypeOK
  <2> QED
    BY <1>1, <1>t, <2>1, <2>2, <2>3 DEF TypeOK
<1>5. /\ Active(p) /\ Active(p)'
      /\ \A q \in Pass : (Active(q)' <=> Active(q)) /\ (Alone(q)' <=> Alone(q))
  BY <1>1, <1>2 DEF Active, Alone, Running
<1>6. \A q \in Pass : q # p => ~Alone(q)
  BY <1>5 DEF IInv, Overlap, Alone
<1>7. AwaitOK'
  BY <1>1, <1>2, <1>3 DEF IInv, AwaitOK
<1>8. Overlap' /\ OpenedBySome'
  BY <1>1, <1>5 DEF IInv, Overlap, OpenedBySome
<1>9. CleanStart'
  BY <1>5 DEF CleanStart, Active
<1>10. FindsItsOwn'
  BY <1>1, <1>5 DEF IInv, FindsItsOwn
<1>11. OpenIsKnown'
  <2> SUFFICES ASSUME NEW b \in Client, session[b] = "open", owner[b] \notin shared, b \notin lost'
               PROVE  \/ at'[owner[b]] = "initializing" /\ client'[owner[b]] = b
                      \/ /\ \E c \in Channel : browser_clients[c] = b
                         /\ \A q \in Pass : at'[q] = "closing" => b \in closing[q]
    BY <1>1, SMTT(30) DEF OpenIsKnown, Known
  <2>1. CASE at[owner[b]] = "initializing" /\ client[owner[b]] = b
    <3>1. owner[b] \in Pass /\ owner[b] # p
      BY <1>1, <2>1 DEF IInv, OpenedBySome
    <3> QED
      BY <1>1, <2>1, <3>1
  <2>2. CASE Known(b)
    BY <1>1, <1>2, <2>2 DEF Known
  <2> QED
    BY <1>1, <2>1, <2>2 DEF IInv, OpenIsKnown
<1>12. OpensWhatIsMissing'
  BY <1>1, <1>2 DEF IInv, OpensWhatIsMissing
<1>13. NoBrowserLeft'
  BY <1>1, <1>5 DEF IInv, NoBrowserLeft, OpenedBySome, Active
<1>14. ActsInActive'
  BY <1>1, <1>2, <1>3, <1>5, <1>6 DEF ActsInActive
<1>15. HomeOnlyOnce'
  BY <1>1, <1>2 DEF IInv, HomeOnlyOnce
<1>16. HomeIsActive'
  <2>1. SUFFICES ASSUME Alone(p), home[p] # None
        PROVE  /\ at'[p] \notin {"opening", "initializing"}
               /\ at'[p] = "acting" => client'[p] = home[p] /\ Tail(channels'[p]) = <<>>
               /\ active_browser_channel' \in Channel
               /\ browser_clients[active_browser_channel'] = home[p]
    BY <1>1, <1>5, <1>6 DEF HomeIsActive
  <2>2. active_browser_channel \in Channel /\ browser_clients[active_browser_channel] = home[p]
    BY <2>1 DEF IInv, HomeIsActive
  <2>3. CASE rest = <<>>
    BY <1>2, <2>2, <2>3
  <2>4. CASE rest = <<active_browser_channel>>
    <3>1. Head(rest) = active_browser_channel /\ Tail(rest) = <<>> /\ rest # <<>>
      BY <2>4
    <3> QED
      BY <1>1, <1>2, <2>1, <2>2, <3>1
  <2> QED
    BY <2>1, <2>3, <2>4 DEF Alone
<1> QED
  BY <1>4, <1>7, <1>8, <1>9, <1>10, <1>11, <1>12, <1>13, <1>14, <1>15, <1>16 DEF IInv

\* A call begins: it looks up the channels and tries the first one.
LEMMA CallKeeps == ASSUME IInv, NEW p \in Pass, Call(p) PROVE IInv'
<1>1. ChannelsFor \in Seq(Channel)
  BY ChannelsAreConfigured DEF ChannelsFor
<1>2. calls' \in [Pass -> 0..MaxCalls] /\ lost' = LostBy(p) /\ UNCHANGED <<orphans, shared>>
  BY BoundsAreNat DEF Call, IInv, TypeOK, LostBy, history
<1>3. home[p] # None /\ p \notin shared => ChannelsFor = <<active_browser_channel>>
  BY DEF Call, IInv, HomeIsActive, Alone, Active, Running, ChannelsFor
<1> QED
  BY <1>1, <1>2, <1>3, TryKeeps DEF Call

\* A channel that fails leaves the globals as they are.
LEMMA FailsKeeps == ASSUME IInv, NEW p \in Pass, Fails(p) PROVE IInv'
<1>1. channels[p] # <<>> /\ channels[p] \in Seq(Channel) /\ at[p] \in {"opening", "initializing", "acting"}
  BY DEF Fails, IInv, AwaitOK, TypeOK
<1>2. Tail(channels[p]) \in Seq(Channel)
  BY <1>1, HeadTailProperties
<1>3. calls' \in [Pass -> 0..MaxCalls]
  BY DEF Fails, IInv, TypeOK
<1>4. home[p] # None /\ p \notin shared => Tail(channels[p]) = <<>>
  BY <1>1 DEF IInv, HomeIsActive, Alone, Active, Running
<1> QED
  BY <1>1, <1>2, <1>3, <1>4, TryKeeps DEF Fails

\* A server is started, and only the pass that waits for it knows of it.
LEMMA StartedKeeps == ASSUME IInv, NEW p \in Pass, Started(p) PROVE IInv'
<1>t. TypeOK
  BY DEF IInv
<1>1. PICK b \in Client :
        /\ session[b] = "unused"
        /\ session' = [session EXCEPT ![b] = "open"]
        /\ owner' = [owner EXCEPT ![b] = p]
        /\ client' = [client EXCEPT ![p] = b]
  BY DEF Started
<1>2. /\ \A q \in Pass : q # p => at'[q] = at[q] /\ client'[q] = client[q]
      /\ at[p] = "opening" /\ at'[p] = "initializing" /\ client'[p] = b
      /\ \A a \in Client : a # b => session'[a] = session[a] /\ owner'[a] = owner[a]
      /\ session'[b] = "open" /\ owner'[b] = p
      /\ UNCHANGED <<browser_clients, active_browser_channel, worker, channels, closing, calls,
                     home, cancelled, orphans, shared, lost>>
      /\ cut' <=> cut
  BY <1>1, <1>t DEF Started, TypeOK, globals, history
<1>3. TypeOK'
  <2>1. at' \in [Pass -> Running \cup {"waiting", "over"}]
    BY <1>t DEF Started, TypeOK, Running
  <2>2. cut' \in BOOLEAN
    BY <1>t, Zenon DEF TypeOK, Started
  <2>3. /\ session' \in [Client -> {"unused", "open", "closed"}]
        /\ owner' \in [Client -> Pass \cup {None}]
        /\ client' \in [Pass -> Client \cup {None}]
    BY <1>t, <1>1 DEF TypeOK
  <2> QED
    BY <1>2, <1>t, <2>1, <2>2, <2>3 DEF TypeOK
<1>4. /\ Active(p) /\ Active(p)'
      /\ \A q \in Pass : (Active(q)' <=> Active(q)) /\ (Alone(q)' <=> Alone(q))
  BY <1>2 DEF Active, Alone, Running
<1>5. \A q \in Pass : q # p => ~Alone(q) /\ (Active(q) => p \in shared)
  BY <1>4 DEF IInv, Overlap, Alone
<1>6. AwaitOK'
  BY <1>1, <1>2, NoneIsNothing DEF IInv, AwaitOK, OpenedBySome
<1>7. Overlap' /\ OpenedBySome' /\ CleanStart'
  BY <1>2, <1>4 DEF IInv, Overlap, OpenedBySome, CleanStart, Active
<1>8. FindsItsOwn'
  <2> SUFFICES ASSUME ~cut, NEW c \in Channel, Alone(p), browser_clients[c] # None
               PROVE  owner'[browser_clients[c]] = p
    BY <1>2, <1>4, <1>5 DEF FindsItsOwn
  <2>1. browser_clients[c] \in Client /\ owner[browser_clients[c]] = p
    BY <1>t DEF IInv, FindsItsOwn, TypeOK
  <2> QED
    BY <1>2, <2>1
<1>9. OpenIsKnown'
  <2> SUFFICES ASSUME NEW a \in Client, a # b, session[a] = "open", owner[a] \notin shared, a \notin lost
               PROVE  \/ at'[owner[a]] = "initializing" /\ client'[owner[a]] = a
                      \/ /\ \E c \in Channel : browser_clients[c] = a
                         /\ \A q \in Pass : at'[q] = "closing" => a \in closing[q]
    BY <1>2 DEF OpenIsKnown, Known
  <2> QED
    BY <1>2 DEF IInv, OpenIsKnown, Known, OpenedBySome
<1>10. OpensWhatIsMissing'
  <2> SUFFICES ASSUME NEW q \in Pass, at'[q] \in {"opening", "initializing"},
                      browser_clients[Head(channels[q])] # None
               PROVE  owner'[browser_clients[Head(channels[q])]] \in shared
    BY <1>2 DEF OpensWhatIsMissing
  <2>1. at[q] \in {"opening", "initializing"} /\ Head(channels[q]) \in Channel
    BY <1>t, <1>2, HeadTailProperties DEF IInv, AwaitOK, TypeOK
  <2>2. /\ browser_clients[Head(channels[q])] \in Client
        /\ owner[browser_clients[Head(channels[q])]] \in shared
    BY <1>t, <2>1 DEF IInv, OpensWhatIsMissing, TypeOK
  <2>3. browser_clients[Head(channels[q])] # b
    BY <1>1, <1>t, <2>2, NoneIsNothing DEF IInv, OpenedBySome, TypeOK
  <2> QED
    BY <1>2, <2>2, <2>3
<1>11. NoBrowserLeft'
  BY <1>2, <1>4 DEF IInv, NoBrowserLeft, OpenedBySome, Active
<1>12. ActsInActive' /\ HomeIsActive' /\ HomeOnlyOnce'
  BY <1>2, <1>4, <1>5 DEF IInv, ActsInActive, HomeIsActive, HomeOnlyOnce
<1> QED
  BY <1>3, <1>6, <1>7, <1>8, <1>9, <1>10, <1>11, <1>12 DEF IInv

\* A client is registered, whatever was registered during the await.
LEMMA OpenedKeeps == ASSUME IInv, NEW p \in Pass, Opened(p) PROVE IInv'
<1> DEFINE h == Head(channels[p])
           b == client[p]
<1>t. TypeOK
  BY DEF IInv
<1>1. /\ at[p] = "initializing" /\ channels[p] # <<>> /\ h \in Channel
      /\ b \in Client /\ owner[b] = p
  BY <1>t, HeadTailProperties DEF Opened, IInv, AwaitOK, TypeOK
<1>2. /\ \A q \in Pass : q # p => at'[q] = at[q]
      /\ at'[p] = "acting"
      /\ \A c \in Channel : c # h => browser_clients'[c] = browser_clients[c]
      /\ browser_clients'[h] = b
      /\ active_browser_channel' = h
      /\ UNCHANGED <<session, owner, worker, channels, client, closing, calls, home, cancelled,
                     orphans, shared, lost>>
      /\ cut' <=> cut
  BY <1>1, <1>t DEF Opened, TypeOK, history
<1>3. TypeOK'
  <2>1. at' \in [Pass -> Running \cup {"waiting", "over"}]
    BY <1>t DEF Opened, TypeOK, Running
  <2>2. cut' \in BOOLEAN
    BY <1>t, Zenon DEF TypeOK, Opened
  <2>3. browser_clients' \in [Channel -> Client \cup {None}]
    BY <1>t, <1>1 DEF TypeOK, Opened
  <2> HIDE DEF h
  <2> QED
    BY <1>1, <1>2, <1>t, <2>1, <2>2, <2>3 DEF TypeOK
<1> HIDE DEF h
<1>4. /\ Active(p) /\ Active(p)'
      /\ \A q \in Pass : (Active(q)' <=> Active(q)) /\ (Alone(q)' <=> Alone(q))
  BY <1>1, <1>2 DEF Active, Alone, Running
<1>5. \A q \in Pass : q # p => ~Alone(q) /\ (Active(q) => p \in shared)
  BY <1>4 DEF IInv, Overlap, Alone
<1>6. AwaitOK'
  BY <1>1, <1>2 DEF IInv, AwaitOK
<1>7. Overlap' /\ OpenedBySome' /\ CleanStart'
  BY <1>2, <1>4 DEF IInv, Overlap, OpenedBySome, CleanStart, Active
<1>8. FindsItsOwn'
  <2> SUFFICES ASSUME ~cut, NEW c \in Channel, Alone(p), browser_clients'[c] # None
               PROVE  owner[browser_clients'[c]] = p
    BY <1>2, <1>4, <1>5 DEF FindsItsOwn
  <2> QED
    BY <1>1, <1>2 DEF IInv, FindsItsOwn
<1>9. OpenIsKnown'
  <2> SUFFICES ASSUME NEW a \in Client, session[a] = "open", owner[a] \notin shared, a \notin lost
               PROVE  \/ at'[owner[a]] = "initializing" /\ client[owner[a]] = a
                      \/ /\ \E c \in Channel : browser_clients'[c] = a
                         /\ \A q \in Pass : at'[q] = "closing" => a \in closing[q]
    BY <1>2 DEF OpenIsKnown, Known
  <2>1. CASE a = b
    <3>1. \A q \in Pass : at'[q] # "closing"
      BY <1>1, <1>2, <1>5, <2>1 DEF Active, Running
    <3> QED
      BY <1>1, <1>2, <2>1, <3>1
  <2>2. CASE a # b
    <3>1. CASE at[owner[a]] = "initializing" /\ client[owner[a]] = a
      BY <1>2, <2>2, <3>1 DEF IInv, OpenedBySome
    <3>2. CASE Known(a)
      <4>1. PICK c \in Channel : browser_clients[c] = a
        BY <3>2 DEF Known
      <4>2. c # h
        BY <1>1, <4>1, NoneIsNothing DEF IInv, OpensWhatIsMissing, h
      <4> QED
        BY <1>2, <3>2, <4>1, <4>2 DEF Known
    <3> QED
      BY <3>1, <3>2 DEF IInv, OpenIsKnown
  <2> QED
    BY <2>1, <2>2
<1>10. OpensWhatIsMissing'
  <2> SUFFICES ASSUME NEW q \in Pass, q # p, at[q] \in {"opening", "initializing"},
                      browser_clients'[Head(channels[q])] # None
               PROVE  owner[browser_clients'[Head(channels[q])]] \in shared
    BY <1>2 DEF OpensWhatIsMissing
  <2>1. Head(channels[q]) \in Channel /\ p \in shared
    BY <1>t, <1>5, HeadTailProperties DEF IInv, AwaitOK, TypeOK, Active, Running
  <2> QED
    BY <1>1, <1>2, <2>1 DEF IInv, OpensWhatIsMissing
<1>11. NoBrowserLeft'
  BY <1>2, <1>4 DEF IInv, NoBrowserLeft, OpenedBySome, Active
<1>12. ActsInActive'
  BY <1>1, <1>2, <1>4, <1>5 DEF ActsInActive
<1>13. HomeOnlyOnce' /\ HomeIsActive'
  BY <1>1, <1>2, <1>4, <1>5 DEF IInv, HomeOnlyOnce, HomeIsActive
<1> QED
  BY <1>3, <1>6, <1>7, <1>8, <1>9, <1>10, <1>11, <1>12, <1>13 DEF IInv

\* A call acts in the browser it has found, which is its own.
LEMMA ActsKeeps == ASSUME IInv, NEW p \in Pass, Acts(p) PROVE IInv'
<1>t. TypeOK
  BY DEF IInv
<1>1. at[p] = "acting" /\ client[p] \in Client
  BY DEF Acts, IInv, AwaitOK
<1>2. /\ \A q \in Pass : q # p => /\ at'[q] = at[q] /\ client'[q] = client[q]
                                  /\ channels'[q] = channels[q] /\ home'[q] = home[q]
      /\ at'[p] = "running" /\ home'[p] = client[p]
      /\ UNCHANGED <<browser_clients, active_browser_channel, session, owner, worker, closing,
                     calls, cancelled, orphans, shared, lost>>
      /\ cut' <=> cut
  BY <1>t DEF Acts, TypeOK, globals, history
<1>3. TypeOK'
  <2>1. /\ at' \in [Pass -> Running \cup {"waiting", "over"}]
        /\ client' \in [Pass -> Client \cup {None}]
        /\ home' \in [Pass -> Client \cup {None}]
    BY <1>1, <1>t DEF Acts, TypeOK, Running
  <2>2. channels' \in [Pass -> Seq(Channel)]
    BY <1>t, EmptySeq DEF Acts, TypeOK
  <2>3. cut' \in BOOLEAN
    BY <1>t, Zenon DEF TypeOK, Acts
  <2> QED
    BY <1>2, <1>t, <2>1, <2>2, <2>3 DEF TypeOK
<1>4. /\ Active(p) /\ Active(p)'
      /\ \A q \in Pass : (Active(q)' <=> Active(q)) /\ (Alone(q)' <=> Alone(q))
  BY <1>1, <1>2 DEF Active, Alone, Running
<1>5. \A q \in Pass : q # p => ~Alone(q)
  BY <1>4 DEF IInv, Overlap, Alone
<1>6. AwaitOK' /\ HomeOnlyOnce'
  BY <1>2 DEF IInv, AwaitOK, HomeOnlyOnce
<1>7. Overlap' /\ OpenedBySome' /\ CleanStart' /\ FindsItsOwn'
  BY <1>2, <1>4 DEF IInv, Overlap, OpenedBySome, CleanStart, FindsItsOwn, Active
<1>8. OpenIsKnown'
  BY <1>1, <1>2 DEF IInv, OpenIsKnown, Known, OpenedBySome
<1>9. OpensWhatIsMissing'
  BY <1>2 DEF IInv, OpensWhatIsMissing
<1>10. NoBrowserLeft'
  BY <1>2, <1>4 DEF IInv, NoBrowserLeft, OpenedBySome, Active
<1>11. ActsInActive' /\ HomeIsActive'
  BY <1>1, <1>2, <1>4, <1>5 DEF IInv, ActsInActive, HomeIsActive
<1> QED
  BY <1>3, <1>6, <1>7, <1>8, <1>9, <1>10, <1>11 DEF IInv

-----------------------------------------------------------------------------
(* reset_browser_clients.                                                   *)

\* What a reset of p that is about to begin, or to go on, will close.
Covers(p, rest) ==
  \A b \in Client : session[b] = "open" /\ owner[b] \notin shared /\ b \notin LostBy(p) => b \in rest

\* What a pass by itself has left open when it comes to its reset is registered.
LEMMA LeftIsKnown ==
  ASSUME IInv, NEW p \in Pass, Active(p)
  PROVE  /\ \A b \in Client : session[b] = "open" /\ owner[b] \notin shared /\ b \notin LostBy(p) => Known(b)
         /\ lost \subseteq LostBy(p) /\ LostBy(p) \subseteq Client
         /\ at[p] # "initializing" => LostBy(p) = lost
<1>1. /\ lost \subseteq LostBy(p) /\ LostBy(p) \subseteq Client
      /\ at[p] # "initializing" => LostBy(p) = lost
  BY DEF LostBy, IInv, AwaitOK, TypeOK
<1>2. ASSUME NEW b \in Client, session[b] = "open", owner[b] \notin shared, b \notin LostBy(p)
      PROVE  Known(b)
  <2> SUFFICES ASSUME at[owner[b]] = "initializing", client[owner[b]] = b PROVE FALSE
    BY <1>1, <1>2 DEF IInv, OpenIsKnown
  <2>1. owner[b] \in Pass /\ Active(owner[b])
    BY <1>2 DEF IInv, OpenedBySome, Active, Running
  <2>2. owner[b] = p
    BY <1>2, <2>1 DEF IInv, Overlap
  <2> QED
    BY <1>2, <2>2 DEF LostBy
<1> QED
  BY <1>1, <1>2

\* A pass that is over: its own part of the state.
LEMMA OverWrites ==
  ASSUME TypeOK, NEW p \in Pass, Active(p), Over(p)
  PROVE  /\ \A q \in Pass : q # p => /\ at'[q] = at[q] /\ channels'[q] = channels[q]
                                     /\ client'[q] = client[q]
         /\ at'[p] = "over" /\ at' \in [Pass -> Running \cup {"waiting", "over"}]
         /\ worker' \in Pass \cup {None}
         /\ channels' \in [Pass -> Seq(Channel)]
         /\ client' \in [Pass -> Client \cup {None}]
         /\ ~Active(p)' /\ \A q \in Pass : q # p => (Active(q)' <=> Active(q))
<1>1. /\ \A q \in Pass : q # p => /\ at'[q] = at[q] /\ channels'[q] = channels[q]
                                  /\ client'[q] = client[q]
      /\ at'[p] = "over" /\ at' \in [Pass -> Running \cup {"waiting", "over"}]
      /\ worker' \in Pass \cup {None}
      /\ client' \in [Pass -> Client \cup {None}]
  BY DEF Over, TypeOK
<1>2. channels' \in [Pass -> Seq(Channel)]
  BY EmptySeq DEF Over, TypeOK
<1> QED
  BY <1>1, <1>2 DEF Active, Running

\* The last client is closed: nothing that a pass by itself has opened is open any more.
LEMMA CloseLast ==
  ASSUME IInv, NEW p \in Pass, Active(p), Over(p), Clear, cut' = FALSE, Covers(p, {}),
         cancelled' \subseteq Pass, lost' = LostBy(p),
         UNCHANGED <<session, closing, owner, calls, home, orphans, shared>>
  PROVE  IInv'
<1>t. TypeOK
  BY DEF IInv
<1>1. /\ \A q \in Pass : q # p => /\ at'[q] = at[q] /\ channels'[q] = channels[q]
                                  /\ client'[q] = client[q]
      /\ at'[p] = "over" /\ ~Active(p)' /\ \A q \in Pass : q # p => (Active(q)' <=> Active(q))
      /\ active_browser_channel' = None /\ browser_clients' = [c \in Channel |-> None]
      /\ UNCHANGED <<session, closing, owner, calls, home, orphans, shared>>
  BY <1>t, OverWrites DEF Clear
<1>2. TypeOK'
  <2>1. cut' \in BOOLEAN
    OBVIOUS
  <2> QED
    BY <1>1, <1>t, <2>1, OverWrites, LeftIsKnown DEF TypeOK
<1>3. \A q \in Pass : ~Alone(q)'
  BY <1>1 DEF IInv, Overlap, Alone
<1>4. AwaitOK' /\ HomeOnlyOnce'
  BY <1>1 DEF IInv, AwaitOK, HomeOnlyOnce
<1>5. Overlap' /\ OpenedBySome' /\ CleanStart'
  BY <1>1 DEF IInv, Overlap, OpenedBySome, CleanStart
<1>6. OpenIsKnown' /\ NoBrowserLeft'
  BY <1>1 DEF Covers, OpenIsKnown, Known, NoBrowserLeft
<1>7. FindsItsOwn' /\ ActsInActive' /\ HomeIsActive'
  BY <1>3 DEF FindsItsOwn, ActsInActive, HomeIsActive
<1>8. OpensWhatIsMissing'
  <2> SUFFICES ASSUME NEW q \in Pass, at'[q] \in {"opening", "initializing"}
               PROVE  browser_clients'[Head(channels'[q])] = None
    BY DEF OpensWhatIsMissing
  <2>1. channels[q] # <<>> /\ channels[q] \in Seq(Channel) /\ channels'[q] = channels[q]
    BY <1>1, <1>t DEF IInv, AwaitOK, TypeOK
  <2>2. Head(channels'[q]) \in Channel
    BY <2>1, HeadTailProperties
  <2> QED
    BY <1>1, <2>2
<1> QED
  BY <1>2, <1>4, <1>5, <1>6, <1>7, <1>8 DEF IInv

\* One more client loses its session.
LEMMA CloseOne ==
  ASSUME IInv, NEW p \in Pass, Active(p), NEW rest \in SUBSET Client, NEW b \in rest,
         Covers(p, rest), lost' = LostBy(p),
         session' = [session EXCEPT ![b] = "closed"],
         closing' = [closing EXCEPT ![p] = rest \ {b}],
         at' = [at EXCEPT ![p] = "closing"],
         channels' = [channels EXCEPT ![p] = <<>>],
         client' = [client EXCEPT ![p] = None],
         cancelled' \subseteq Pass,
         UNCHANGED <<globals, worker, cut, owner, calls, home, orphans, shared>>
  PROVE  IInv'
<1>t. TypeOK
  BY DEF IInv
<1>1. /\ \A q \in Pass : q # p => /\ at'[q] = at[q] /\ channels'[q] = channels[q]
                                  /\ client'[q] = client[q] /\ closing'[q] = closing[q]
      /\ at'[p] = "closing" /\ closing'[p] = rest \ {b}
      /\ \A a \in Client : a # b => session'[a] = session[a]
      /\ session'[b] = "closed" /\ b \in Client
      /\ UNCHANGED <<browser_clients, active_browser_channel, worker, owner, calls, home,
                     orphans, shared>>
      /\ lost \subseteq lost' /\ lost' \subseteq Client
      /\ cut' <=> cut
  BY <1>t, LeftIsKnown DEF TypeOK, globals
<1>2. TypeOK'
  <2>1. /\ at' \in [Pass -> Running \cup {"waiting", "over"}]
        /\ client' \in [Pass -> Client \cup {None}]
        /\ session' \in [Client -> {"unused", "open", "closed"}]
        /\ closing' \in [Pass -> SUBSET Client]
    BY <1>t DEF TypeOK, Running
  <2>2. channels' \in [Pass -> Seq(Channel)]
    BY <1>t, EmptySeq DEF TypeOK
  <2>3. cut' \in BOOLEAN
    BY <1>t, Zenon DEF TypeOK
  <2> QED
    BY <1>1, <1>t, <2>1, <2>2, <2>3 DEF TypeOK
<1>3. Active(p)' /\ \A q \in Pass : (Active(q)' <=> Active(q)) /\ (Alone(q)' <=> Alone(q))
  BY <1>1 DEF Active, Alone, Running
<1>4. AwaitOK' /\ HomeOnlyOnce'
  BY <1>1 DEF IInv, AwaitOK, HomeOnlyOnce
<1>5. Overlap' /\ OpenedBySome' /\ CleanStart' /\ FindsItsOwn'
  BY <1>1, <1>3 DEF IInv, Overlap, OpenedBySome, CleanStart, FindsItsOwn, Active
<1>6. OpenIsKnown'
  <2> SUFFICES ASSUME NEW a \in Client, session'[a] = "open", owner[a] \notin shared, a \notin lost'
               PROVE  /\ \E c \in Channel : browser_clients[c] = a
                      /\ \A q \in Pass : at'[q] = "closing" => a \in closing'[q]
    BY <1>1 DEF OpenIsKnown, Known
  <2>1. a # b /\ session[a] = "open"
    BY <1>1
  <2>2. Known(a) /\ a \in rest
    BY <2>1, LeftIsKnown DEF Covers
  <2> QED
    BY <1>1, <2>1, <2>2 DEF Known
<1>7. OpensWhatIsMissing'
  BY <1>1 DEF IInv, OpensWhatIsMissing
<1>8. NoBrowserLeft'
  BY <1>1, <1>3 DEF IInv, NoBrowserLeft, OpenedBySome, Active
<1>9. ActsInActive' /\ HomeIsActive'
  BY <1>1, <1>3 DEF IInv, ActsInActive, HomeIsActive
<1> QED
  BY <1>2, <1>4, <1>5, <1>6, <1>7, <1>8, <1>9 DEF IInv

\* One more client is closed, or all are and the globals are cleared.
LEMMA CloseNextKeeps ==
  ASSUME IInv, NEW p \in Pass, Active(p), NEW rest \in SUBSET Client, CloseNext(p, rest),
         Covers(p, rest), lost' = LostBy(p),
         cancelled' \subseteq Pass, UNCHANGED <<owner, calls, home, orphans, shared>>
  PROVE  IInv'
<1>1. CASE rest = {}
  BY <1>1, CloseLast DEF CloseNext
<1>2. CASE rest # {}
  <2>1. PICK b \in rest : /\ session' = [session EXCEPT ![b] = "closed"]
                          /\ closing' = [closing EXCEPT ![p] = rest \ {b}]
    BY <1>2 DEF CloseNext
  <2> QED
    BY <1>2, <2>1, CloseOne DEF CloseNext
<1> QED
  BY <1>1, <1>2

\* A reset closes all that is registered, and so all that a pass by itself has left open.
LEMMA RegisteredCovers ==
  ASSUME IInv, NEW p \in Pass, Active(p)
  PROVE  Registered \in SUBSET Client /\ Covers(p, Registered)
<1>1. Registered \in SUBSET Client
  BY DEF Registered, IInv, TypeOK
<1>2. Covers(p, Registered)
  BY NoneIsNothing, LeftIsKnown DEF Covers, Registered, Known
<1> QED
  BY <1>1, <1>2

\* A pass that ends begins to close what is registered.
LEMMA EndKeeps == ASSUME IInv, NEW p \in Pass, End(p) PROVE IInv'
<1>1. /\ Active(p) /\ cancelled' \subseteq Pass /\ lost' = LostBy(p)
      /\ UNCHANGED <<orphans, shared>>
  BY DEF End, Active, Running, IInv, TypeOK, LostBy, history
<1> QED
  BY <1>1, RegisteredCovers, CloseNextKeeps DEF End

\* ... goes on with what is left to close.
LEMMA ClosedKeeps == ASSUME IInv, NEW p \in Pass, Closed(p) PROVE IInv'
<1>1. /\ Active(p) /\ cancelled' \subseteq Pass /\ closing[p] \in SUBSET Client
      /\ lost' = LostBy(p) /\ UNCHANGED <<orphans, shared>>
  BY DEF Closed, Active, Running, IInv, TypeOK, LostBy, history
<1>2. Covers(p, closing[p])
  BY <1>1, LeftIsKnown DEF Closed, Covers, Known
<1> QED
  BY <1>1, <1>2, CloseNextKeeps DEF Closed

\* A reset that is itself cut off leaves what it has not closed, and the registry, behind.
LEMMA CutKeeps ==
  ASSUME IInv, NEW p \in Pass, at[p] = "closing", Over(p), cut' = TRUE, cancelled' \subseteq Pass,
         closing' = [closing EXCEPT ![p] = {}],
         UNCHANGED <<globals, session, owner, calls, home, history>>
  PROVE  IInv'
<1>t. TypeOK
  BY DEF IInv
<1>1. /\ \A q \in Pass : q # p => /\ at'[q] = at[q] /\ channels'[q] = channels[q]
                                  /\ client'[q] = client[q] /\ closing'[q] = closing[q]
      /\ at'[p] = "over" /\ ~Active(p)' /\ \A q \in Pass : q # p => (Active(q)' <=> Active(q))
      /\ UNCHANGED <<browser_clients, active_browser_channel, session, owner, calls, home,
                     orphans, shared, lost>>
  BY <1>t, OverWrites DEF globals, history, TypeOK, Active, Running
<1>2. TypeOK'
  <2>1. cut' \in BOOLEAN
    OBVIOUS
  <2>2. closing' \in [Pass -> SUBSET Client]
    BY <1>t DEF TypeOK
  <2>3. Active(p)
    BY DEF Active, Running
  <2> QED
    BY <1>1, <1>t, <2>1, <2>2, <2>3, OverWrites DEF TypeOK
<1>3. \A q \in Pass : Alone(q)' => q # p /\ Alone(q)
  BY <1>1 DEF Alone
<1>4. AwaitOK' /\ HomeOnlyOnce'
  BY <1>1 DEF IInv, AwaitOK, HomeOnlyOnce
<1>5. Overlap' /\ OpenedBySome'
  BY <1>1 DEF IInv, Overlap, OpenedBySome
<1>6. CleanStart' /\ FindsItsOwn' /\ NoBrowserLeft'
  BY DEF CleanStart, FindsItsOwn, NoBrowserLeft
<1>7. OpenIsKnown' /\ OpensWhatIsMissing'
  BY <1>1 DEF IInv, OpenIsKnown, Known, OpensWhatIsMissing, OpenedBySome
<1>8. ActsInActive' /\ HomeIsActive'
  BY <1>1, <1>3 DEF IInv, ActsInActive, HomeIsActive
<1> QED
  BY <1>2, <1>4, <1>5, <1>6, <1>7, <1>8 DEF IInv

\* A cancelled pass closes its browsers too, unless it was closing them.
LEMMA CancelKeeps == ASSUME IInv, NEW p \in Pass, Cancel(p) PROVE IInv'
<1>1. Active(p) /\ cancelled' \subseteq Pass /\ lost' = LostBy(p) /\ UNCHANGED <<orphans, shared>>
  BY DEF Cancel, Active, IInv, TypeOK
<1>2. CASE at[p] # "closing" /\ CloseNext(p, Registered)
  BY <1>1, <1>2, RegisteredCovers, CloseNextKeeps DEF Cancel
<1>3. CASE at[p] = "closing" /\ Over(p) /\ closing' = [closing EXCEPT ![p] = {}] /\ cut' = TRUE
           /\ UNCHANGED <<globals, session>>
  <2>1. UNCHANGED history
    BY <1>1, <1>3 DEF LostBy, history
  <2> QED
    BY <1>1, <1>3, <2>1, CutKeeps DEF Cancel
<1> QED
  BY <1>2, <1>3 DEF Cancel

-----------------------------------------------------------------------------

\* Every step keeps the invariant.
LEMMA NextIInv == IInv /\ [Next]_vars => IInv'
<1> SUFFICES ASSUME IInv, [Next]_vars PROVE IInv'
  OBVIOUS
<1>1. CASE UNCHANGED vars
  <2>1. UNCHANGED <<browser_clients, active_browser_channel, session, owner, worker, at, channels,
                    client, closing, calls, home, cancelled, orphans, shared, lost, cut>>
    BY <1>1 DEF vars, globals, history
  <2>2. TypeOK'
    BY <2>1 DEF IInv, TypeOK
  <2>3. AwaitOK' /\ HomeOnlyOnce' /\ OpenedBySome' /\ OpenIsKnown' /\ OpensWhatIsMissing'
    BY <2>1 DEF IInv, AwaitOK, HomeOnlyOnce, OpenedBySome, OpenIsKnown, Known, OpensWhatIsMissing
  <2>4. CleanStart' /\ NoBrowserLeft' /\ Overlap' /\ FindsItsOwn'
    BY <2>1 DEF IInv, CleanStart, NoBrowserLeft, Overlap, FindsItsOwn, Active, Alone
  <2>5. ActsInActive' /\ HomeIsActive'
    BY <2>1 DEF IInv, ActsInActive, HomeIsActive, Active, Alone
  <2> QED
    BY <2>2, <2>3, <2>4, <2>5 DEF IInv
<1> QED
  BY <1>1, StartKeeps, OrphanKeeps, CallKeeps, StartedKeeps, OpenedKeeps, FailsKeeps, ActsKeeps, EndKeeps,
     ClosedKeeps, CancelKeeps DEF Next, Idle

\* The invariant holds in every reachable state.
LEMMA Inductive == Spec => []IInv
  BY InitIInv, NextIInv, PTL DEF Spec

\* The globals, the sessions and the passes are what the executor keeps of them.
THEOREM TypeCorrect == Spec => []TypeOK
<1>1. IInv => TypeOK
  BY DEF IInv
<1> QED
  BY <1>1, Inductive, PTL

\* However many passes overlap, fail or are cancelled: once none is in progress, and the last
\* reset was not cut off, the globals are empty.
THEOREM NothingIsHandedOn == Spec => []CleanStart
<1>1. IInv => CleanStart
  BY DEF IInv
<1> QED
  BY <1>1, Inductive, PTL

\* A pass by itself acts in no browser that another run has opened.
THEOREM RunsAreApart == Spec => []OwnBrowser
  BY ActsInItsOwn, Inductive, PTL

\* A pass by itself leaves no browser open, but those whose session never came up.
THEOREM BrowsersAreClosed == Spec => []NoBrowserLeft
<1>1. IInv => NoBrowserLeft
  BY DEF IInv
<1> QED
  BY <1>1, Inductive, PTL

\* A pass by itself, once a browser has worked for it, never goes on in another one.
THEOREM OneBrowserPerRun == Spec => StaysInItsBrowser
<1>1. ASSUME IInv, [Next]_vars
      PROVE  \A p \in Pass \ shared' : home[p] # None => home'[p] = home[p]
  <2>t. TypeOK
    BY <1>1 DEF IInv
  <2> SUFFICES ASSUME NEW p \in Pass, p \notin shared', home[p] # None PROVE home'[p] = home[p]
    OBVIOUS
  <2>1. CASE \E q \in Pass : Acts(q)
    <3>1. PICK q \in Pass : Acts(q)
      BY <2>1
    <3>2. CASE p = q
      <4>1. at[p] = "acting" /\ shared' = shared
        BY <3>1, <3>2 DEF Acts, history
      <4>2. home'[p] = client[p]
        BY <2>t, <3>1, <3>2 DEF Acts, TypeOK
      <4>3. Alone(p)
        BY <4>1 DEF Alone, Active, Running
      <4> QED
        BY <1>1, <4>1, <4>2, <4>3 DEF IInv, HomeIsActive
    <3>3. CASE p # q
      BY <2>t, <3>1, <3>3 DEF Acts, TypeOK
    <3> QED
      BY <3>2, <3>3
  <2>2. CASE ~\E q \in Pass : Acts(q)
    <3>1. home' = home
      BY <1>1, <2>2 DEF Next, vars, Idle, Start, Orphan, Call, Started, Opened, Fails, End, Closed,
         Cancel
    <3> QED
      BY <3>1
  <2> QED
    BY <2>1, <2>2
<1> QED
  BY <1>1, Inductive, PTL DEF Spec, StaysInItsBrowser

=============================================================================
