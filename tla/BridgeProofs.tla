----------------------------- MODULE BridgeProofs -----------------------------
(***************************************************************************)
(* What the bridge does beside serving pages, and the page that shows it:   *)
(*   - the telemetry stream, for any number of sessions, crashes and visits *)
(*     (LiveFeed): whose rates are shown, on which feed, which link fades;  *)
(*   - the supervisor of the daemon, for any number of clients (Daemon);    *)
(*   - the recorder of experiments, for any number of requests (Runs).      *)
(***************************************************************************)
EXTENDS LiveFeed, DaemonSupervisor, Sessions, TLAPS

-----------------------------------------------------------------------------
(* The bridge                                                                *)

\* What the bridge has read is of the session at the other end of its socket,
\* and it has nothing while it waits for one.
SourceInv ==
  /\ session \in Nat /\ sessions \in Nat /\ peer \in Nat
  /\ stage \in {"waiting", "reading", "closing"}
  /\ last \in [session : Nat, link : Links \cup {"none"}]
  /\ history \in Seq(Nat \X Nat)
  /\ stage = "waiting" => last = NoRaw
  /\ stage # "waiting" => peer # Down
  /\ last # NoRaw => last.session = peer
  /\ last = NoRaw => history = <<>>
  /\ RatesWithinSession

\* The last n of a sequence are elements of it.
LEMMA LastOfIsPart ==
  ASSUME NEW S, NEW s \in Seq(S), NEW n \in Nat \ {0}
  PROVE  /\ LastOf(s, n) \in Seq(S)
         /\ \A i \in DOMAIN LastOf(s, n) : \E j \in DOMAIN s : LastOf(s, n)[i] = s[j]
<1>1. CASE Len(s) <= n
  BY <1>1 DEF LastOf
<1>2. CASE ~(Len(s) <= n)
  <2>1. LastOf(s, n) = SubSeq(s, Len(s) - n + 1, Len(s))
    BY <1>2 DEF LastOf
  <2>2. Len(s) \in Nat /\ Len(s) - n + 1 \in 1 .. Len(s)
    BY <1>2
  <2>3. LastOf(s, n) \in Seq(S) /\ Len(LastOf(s, n)) = n
    BY <2>1, <2>2
  <2>4. \A i \in 1 .. n : LastOf(s, n)[i] = s[Len(s) - n + i]
    BY <2>1, <2>2
  <2>5. \A i \in 1 .. n : Len(s) - n + i \in DOMAIN s
    BY <2>2
  <2> QED
    BY <2>3, <2>4, <2>5
<1> QED
  BY <1>1, <1>2

LEMMA SourceInit == Init => SourceInv
BY DEF Init, SourceInv, NewSource, NoRaw, Down, Links, RatesWithinSession

\* A frame is of the session read, and so was the one before it.
LEMMA IngestKeepsSource ==
  ASSUME FeedAssumption, SourceInv, NEW l \in Links, Ingest(l)
  PROVE  SourceInv'
<1> USE DEF SourceInv, Ingest, daemon
<1>1. /\ peer \in Nat /\ peer # Down
      /\ last' = [session |-> peer, link |-> l] /\ last' # NoRaw
  BY DEF NoRaw, Links
<1>2. last' \in [session : Nat, link : Links \cup {"none"}] /\ last'.session = peer
  BY <1>1
<1>3. CASE history' = history
  <2>1. \A i \in DOMAIN history : history[i] = <<peer, peer>>
    BY DEF RatesWithinSession
  <2> QED
    BY <1>1, <1>2, <1>3, <2>1 DEF RatesWithinSession
<1>4. CASE last # NoRaw /\ history' = LastOf(Append(history, <<last.session, peer>>), HistorySamples)
  <2> DEFINE more == Append(history, <<peer, peer>>)
  <2>1. history' = LastOf(more, HistorySamples)
    BY <1>4
  <2>2. more \in Seq(Nat \X Nat) /\ \A i \in DOMAIN more : more[i] = <<peer, peer>>
    BY <1>1, <1>4 DEF RatesWithinSession
  <2>3. /\ history' \in Seq(Nat \X Nat)
        /\ \A i \in DOMAIN history' : \E j \in DOMAIN more : history'[i] = more[j]
    <3> HIDE DEF more
    <3> QED
      BY <2>1, <2>2, LastOfIsPart DEF FeedAssumption
  <2>4. \A i \in DOMAIN history' : history'[i] = <<peer, peer>>
    BY <2>2, <2>3
  <2> QED
    BY <1>1, <1>2, <2>3, <2>4 DEF RatesWithinSession
<1> QED
  BY <1>3, <1>4

LEMMA SourceStep == FeedAssumption /\ SourceInv /\ [Next]_vars => SourceInv'
<1> SUFFICES ASSUME FeedAssumption, SourceInv, [Next]_vars PROVE SourceInv'
  OBVIOUS
<1>1. ASSUME UNCHANGED source, session' \in Nat, sessions' \in Nat PROVE SourceInv'
  BY <1>1 DEF SourceInv, source, RatesWithinSession
<1>2. ASSUME stage' = "waiting", peer' = Down, last' = NoRaw, history' = <<>>, UNCHANGED daemon
      PROVE  SourceInv'
  BY <1>2 DEF SourceInv, daemon, NoRaw, Down, Links, RatesWithinSession
<1>3. CASE DaemonStarts
  BY <1>1, <1>3 DEF DaemonStarts, SourceInv
<1>4. CASE DaemonEnds
  BY <1>1, <1>4 DEF DaemonEnds, SourceInv, Down
<1>5. CASE OpenSocket
  BY <1>5 DEF OpenSocket, SourceInv, daemon, RatesWithinSession, NoRaw
<1>6. ASSUME NEW l \in Links, Ingest(l) PROVE SourceInv'
  BY <1>6, IngestKeepsSource
<1>7. CASE EndOfFile
  BY <1>7 DEF EndOfFile, SourceInv, daemon, RatesWithinSession
<1>8. CASE Closed
  BY <1>2, <1>8 DEF Closed
<1>9. CASE BridgeEnds
  BY <1>2, <1>9 DEF BridgeEnds
<1>10. CASE Mount \/ Unmount \/ OnOpen \/ OnMessage \/ Refused \/ Lose \/ Reconnect
            \/ FallbackTick \/ BridgeStarts
  BY <1>1, <1>10 DEF Mount, Unmount, OnOpen, OnMessage, Refused, Lose, Reconnect,
     FallbackTick, BridgeStarts, daemon, SourceInv
<1>11. CASE UNCHANGED vars
  BY <1>1, <1>11 DEF vars, daemon, source, SourceInv
<1> QED
  BY <1>3, <1>4, <1>5, <1>6, <1>7, <1>8, <1>9, <1>10, <1>11 DEF Next

\* The bridge's source keeps its invariant.
THEOREM SourceSound == Spec => []SourceInv
<1>1. Init => SourceInv
  BY SourceInit
<1>2. FeedAssumption /\ SourceInv /\ [Next]_vars => SourceInv'
  BY SourceStep
<1> QED
  BY <1>1, <1>2, FeedAssumption, PTL DEF Spec

\* The bridge's rates never span a restart of the daemon.
THEOREM RatesStayWithinSession == Spec => []RatesWithinSession
<1>1. SourceInv => RatesWithinSession
  BY DEF SourceInv
<1> QED
  BY <1>1, SourceSound, FeedAssumption, PTL

-----------------------------------------------------------------------------
(* The page                                                                  *)

\* The values of the page's variables, and what a snapshot on show came from.
PageInv ==
  /\ mounted \in BOOLEAN /\ fallback \in BOOLEAN /\ reconnect \in BOOLEAN
  /\ ws \in {"none", "opening", "open"}
  /\ connection \in {"connecting", "live", "demo"}
  /\ mounted => /\ ws = "none" <=> reconnect
                /\ connection = "demo" <=> fallback
                /\ connection = "live" <=> ws = "open"
  /\ ~mounted => ws = "none" /\ ~reconnect /\ ~fallback
  /\ snap.source = "gateway" => snap.session # Down
  /\ fallback => snap.source = "mock-local"

LEMMA PageIsOneFeed == PageInv => OneFeed
<1> SUFFICES ASSUME PageInv PROVE OneFeed
  OBVIOUS
<1>1. Pill = "LIVE GATEWAY" => connection = "live" /\ snap.source = "gateway"
  BY DEF Pill, PageInv
<1>2. Pill = "DEMO NO BRIDGE" => connection = "demo"
  BY DEF Pill, PageInv
<1> QED
  BY <1>1, <1>2 DEF OneFeed, PageInv

LEMMA PageInit == Init => PageInv
<1> SUFFICES ASSUME Init PROVE PageInv
  OBVIOUS
<1>1. snap.source = "none"
  BY DEF Init, NoSnap
<1>2. /\ mounted = FALSE /\ fallback = FALSE /\ reconnect = FALSE
      /\ ws = "none" /\ connection = "connecting"
  BY DEF Init
<1> QED
  BY <1>1, <1>2 DEF PageInv

\* A snapshot of the gateway's has its session.
LEMMA SnapshotsKnown ==
  ASSUME SourceInv, NEW s \in Snapshots
  PROVE  s.source = "gateway" => s.session # Down
<1>1. CASE stage = "reading" /\ last # NoRaw
  BY <1>1 DEF Snapshots, SourceInv
<1>2. CASE ~(stage = "reading" /\ last # NoRaw)
  BY <1>2 DEF Snapshots
<1> QED
  BY <1>1, <1>2

\* A lost connection leaves the simulation and a reconnect timer.
LEMMA HandleLostKeeps ==
  ASSUME PageInv, ws # "none", HandleLost
  PROVE  PageInv'
<1>1. mounted /\ mounted' /\ ws' = "none" /\ reconnect'
  BY DEF PageInv, HandleLost
<1>2. CASE fallback
  BY <1>1, <1>2 DEF PageInv, HandleLost, StartFallback, shown
<1>3. CASE ~fallback
  <2>1. fallback' = TRUE /\ connection' = "demo" /\ snap'.source = "mock-local"
    BY <1>3 DEF HandleLost, StartFallback, LocalSnapshots, ShowSnap
  <2> QED
    BY <1>1, <2>1 DEF PageInv, HandleLost
<1> QED
  BY <1>2, <1>3 DEF PageInv

LEMMA PageStep == SourceInv /\ PageInv /\ [Next]_vars => PageInv'
<1> SUFFICES ASSUME SourceInv, PageInv, [Next]_vars PROVE PageInv'
  OBVIOUS
<1>1. ASSUME UNCHANGED <<feed, shown>> PROVE PageInv'
  BY <1>1 DEF PageInv, feed, shown
<1>2. CASE DaemonStarts \/ DaemonEnds \/ OpenSocket \/ (\E l \in Links : Ingest(l))
           \/ EndOfFile \/ Closed \/ BridgeEnds \/ BridgeStarts \/ UNCHANGED vars
  BY <1>1, <1>2 DEF DaemonStarts, DaemonEnds, OpenSocket, Ingest, EndOfFile, Closed,
     BridgeEnds, BridgeStarts, vars
<1>3. CASE Mount
  BY <1>3 DEF Mount, PageInv, NoSnap
<1>4. CASE Unmount
  BY <1>4 DEF Unmount, PageInv, shown
<1>5. CASE OnOpen
  BY <1>5 DEF OnOpen, PageInv, shown
<1>6. CASE OnMessage
  <2>1. PICK s \in Snapshots : snap' = s
    BY <1>6 DEF OnMessage, ShowSnap
  <2>2. mounted /\ ~fallback
    BY <1>6 DEF OnMessage, PageInv
  <2> QED
    BY <1>6, <2>1, <2>2, SnapshotsKnown DEF OnMessage, PageInv, feed
<1>7. CASE Refused
  BY <1>7, HandleLostKeeps DEF Refused
<1>8. CASE Lose
  BY <1>8, HandleLostKeeps DEF Lose
<1>9. CASE Reconnect
  BY <1>9 DEF Reconnect, PageInv, shown
<1>10. CASE FallbackTick
  <2>1. snap'.source = "mock-local"
    BY <1>10 DEF FallbackTick, LocalSnapshots, ShowSnap
  <2> QED
    BY <1>10, <2>1 DEF FallbackTick, PageInv, feed
<1> QED
  BY <1>2, <1>3, <1>4, <1>5, <1>6, <1>7, <1>8, <1>9, <1>10 DEF Next

\* The page has a socket or a timer, simulates exactly while it says so, and
\* calls what it shows the gateway's only when it is.
THEOREM PageHasOneFeed == Spec => []OneFeed
<1>1. Init => PageInv
  BY PageInit
<1>2. SourceInv /\ PageInv /\ [Next]_vars => PageInv'
  BY PageStep
<1>3. PageInv => OneFeed
  BY PageIsOneFeed
<1> QED
  BY <1>1, <1>2, <1>3, SourceSound, FeedAssumption, PTL DEF Spec

-----------------------------------------------------------------------------
(* The fades of the link status page                                         *)

Fade == [open : BOOLEAN, to : Links \cup {"none"}]
OpenAtEnd(f) == Len(f) # 0 /\ f[Len(f)].open

\* Of all the fades only the last can be open; it is while the link is not online
\* and was before, and it says where the link is now.
FadesFit(f, was, now) ==
  /\ f \in Seq(Fade) /\ was \in BOOLEAN /\ now \in Links \cup {"none"}
  /\ \A i \in 1 .. Len(f) : f[i].open => i = Len(f)
  /\ OpenAtEnd(f) <=> was /\ now # "online"
  /\ OpenAtEnd(f) => f[Len(f)].to = now
  /\ now = "online" => was

FadesInv == FadesFit(fades, wasOnline, lastState)

\* Two facts of sequences: an element is of the set, and one of them is replaced.
LEMMA ElementOf ==
  ASSUME NEW S, NEW s \in Seq(S), NEW i \in 1 .. Len(s)
  PROVE  s[i] \in S
OBVIOUS

LEMMA ReplaceOne ==
  ASSUME NEW S, NEW s \in Seq(S), NEW i \in 1 .. Len(s), NEW e \in S
  PROVE  /\ [s EXCEPT ![i] = e] \in Seq(S) /\ Len([s EXCEPT ![i] = e]) = Len(s)
         /\ [s EXCEPT ![i] = e][i] = e
         /\ \A j \in 1 .. Len(s) : j # i => [s EXCEPT ![i] = e][j] = s[j]
OBVIOUS

LEMMA LastReplaced ==
  ASSUME NEW f \in Seq(Fade), Len(f) # 0, \A i \in 1 .. Len(f) : f[i].open => i = Len(f),
         NEW e \in Fade, NEW g, g = [f EXCEPT ![Len(f)] = e]
  PROVE  /\ g \in Seq(Fade) /\ Len(g) = Len(f) /\ g[Len(g)] = e
         /\ \A i \in 1 .. Len(g) : g[i].open => i = Len(g)
<1>1. Len(f) \in 1 .. Len(f)
  OBVIOUS
<1>2. /\ g \in Seq(Fade) /\ Len(g) = Len(f) /\ g[Len(f)] = e
      /\ \A j \in 1 .. Len(f) : j # Len(f) => g[j] = f[j]
  BY <1>1, ReplaceOne
<1>3. ASSUME NEW i \in 1 .. Len(g), g[i].open PROVE i = Len(g)
  BY <1>2, <1>3
<1> QED
  BY <1>2, <1>3

\* The effect on a snapshot: one of four things happens to the fades.
LEMMA FadesAfterFit ==
  ASSUME FadesInv, NEW link \in Links \cup {"none"}
  PROVE  FadesFit(FadesAfter(link), wasOnline \/ link = "online", link)
<1> DEFINE n == Len(fades)
<1>0. /\ fades \in Seq(Fade) /\ n \in Nat /\ (Open <=> OpenAtEnd(fades))
      /\ wasOnline \in BOOLEAN /\ lastState \in Links \cup {"none"}
      /\ \A i \in 1 .. n : fades[i].open => i = n
  BY DEF Open, Last, OpenAtEnd, FadesInv, FadesFit
<1>1. /\ OpenAtEnd(fades) <=> wasOnline /\ lastState # "online"
      /\ OpenAtEnd(fades) => fades[n].to = lastState
      /\ lastState = "online" => wasOnline
  BY DEF FadesInv, FadesFit
<1>2. CASE lastState = "online" /\ link # "online"
  <2> DEFINE e == [open |-> TRUE, to |-> link]
             f == Append(fades, e)
  <2>1. e \in Fade /\ e.open /\ e.to = link /\ FadesAfter(link) = f
    BY <1>2 DEF Fade, FadesAfter
  <2> HIDE DEF e
  <2>2. /\ f \in Seq(Fade) /\ Len(f) = n + 1 /\ f[n + 1] = e
        /\ \A i \in 1 .. n : f[i] = fades[i]
    BY <1>0, <2>1
  <2>3. \A i \in 1 .. n : ~fades[i].open
    BY <1>0, <1>1, <1>2 DEF OpenAtEnd
  <2> HIDE DEF f
  <2>4. \A i \in 1 .. n + 1 : f[i].open => i = n + 1
    BY <1>0, <2>2, <2>3
  <2>5. OpenAtEnd(f) /\ f[Len(f)].to = link
    BY <1>0, <2>1, <2>2 DEF OpenAtEnd
  <2> QED
    BY <1>0, <1>1, <1>2, <2>1, <2>2, <2>4, <2>5 DEF FadesFit
<1>3. CASE ~(lastState = "online" /\ link # "online") /\ lastState # link /\ Open
  <2> DEFINE e == IF link = "online" THEN [fades[n] EXCEPT !.open = FALSE]
                                     ELSE [fades[n] EXCEPT !.to = link]
  <2>1. n # 0 /\ fades[n].open /\ wasOnline
    BY <1>0, <1>1, <1>3 DEF OpenAtEnd
  <2>2. n \in 1 .. n
    BY <1>0, <2>1
  <2>3. fades[n] \in Fade
    BY <1>0, <2>2
  <2>4. e \in Fade /\ (e.open <=> link # "online") /\ (link # "online" => e.to = link)
    BY <2>1, <2>3 DEF Fade
  <2>5. FadesAfter(link) = [fades EXCEPT ![n] = e]
    BY <1>3 DEF FadesAfter
  <2> HIDE DEF e
  <2>6. PICK f : f = FadesAfter(link)
    OBVIOUS
  <2>7. /\ f \in Seq(Fade) /\ Len(f) = n /\ f[Len(f)] = e
        /\ \A i \in 1 .. Len(f) : f[i].open => i = Len(f)
    BY <1>0, <2>1, <2>4, <2>5, <2>6, LastReplaced
  <2>8. FadesFit(f, wasOnline \/ link = "online", link)
    BY <2>1, <2>4, <2>7 DEF FadesFit, OpenAtEnd
  <2> QED
    BY <2>6, <2>8
<1>4. CASE ~(lastState = "online" /\ link # "online") /\ ~(lastState # link /\ Open)
  <2>1. FadesAfter(link) = fades
    BY <1>4 DEF FadesAfter
  <2>2. CASE lastState = link
    BY <1>0, <1>1, <2>1, <2>2 DEF FadesFit, OpenAtEnd
  <2>3. CASE lastState # link
    <3>1. ~OpenAtEnd(fades) /\ ~wasOnline
      BY <1>0, <1>1, <1>4, <2>3
    <3>2. CASE link = "online"
      BY <1>0, <2>1, <3>1, <3>2 DEF FadesFit
    <3>3. CASE link # "online"
      BY <1>0, <2>1, <3>1, <3>3 DEF FadesFit
    <3> QED
      BY <3>2, <3>3
  <2> QED
    BY <2>2, <2>3
<1> QED
  BY <1>2, <1>3, <1>4

\* Dropping the oldest fades leaves the last one where it is.
LEMMA LastOfFit ==
  ASSUME NEW f, NEW was, NEW now, FadesFit(f, was, now), NEW n \in Nat \ {0}
  PROVE  FadesFit(LastOf(f, n), was, now)
<1>1. CASE Len(f) <= n
  BY <1>1 DEF LastOf
<1>2. CASE ~(Len(f) <= n)
  <2> DEFINE g == LastOf(f, n)
  <2>0. f \in Seq(Fade)
    BY DEF FadesFit
  <2>1. Len(f) \in Nat /\ Len(f) - n + 1 \in 1 .. Len(f)
    BY <1>2, <2>0
  <2>2. g \in Seq(Fade) /\ Len(g) = n /\ \A i \in 1 .. n : g[i] = f[Len(f) - n + i]
    BY <1>2, <2>0, <2>1 DEF LastOf
  <2> HIDE DEF g
  <2>3. \A i \in 1 .. n : Len(f) - n + i \in 1 .. Len(f)
    BY <2>1
  <2>4. Len(f) # 0 /\ g[n] = f[Len(f)]
    BY <2>0, <2>1, <2>2
  <2>5. ASSUME NEW i \in 1 .. n, g[i].open PROVE i = n
    <3>1. Len(f) - n + i \in 1 .. Len(f) /\ f[Len(f) - n + i].open
      BY <2>2, <2>3, <2>5
    <3>2. Len(f) - n + i = Len(f)
      BY <3>1 DEF FadesFit
    <3> QED BY <2>1, <3>2
  <2>6. FadesFit(g, was, now)
    BY <2>2, <2>4, <2>5 DEF FadesFit, OpenAtEnd
  <2> QED
    BY <2>6 DEF g
<1> QED
  BY <1>1, <1>2

\* What the page shows next, and after it is opened anew.
LEMMA ShowSnapKeepsFades ==
  ASSUME FeedAssumption, FadesInv, NEW s, s.link \in Links \cup {"none"}, ShowSnap(s)
  PROVE  FadesInv'
<1> DEFINE f == FadesAfter(s.link)
<1>1. FadesFit(f, wasOnline \/ s.link = "online", s.link)
  BY FadesAfterFit
<1>2. FadesFit(LastOf(f, MaxFades), wasOnline \/ s.link = "online", s.link)
  <2> HIDE DEF f
  <2> QED
    BY <1>1, LastOfFit DEF FeedAssumption
<1>3. /\ fades' = LastOf(f, MaxFades) /\ lastState' = s.link
      /\ wasOnline' = (wasOnline \/ s.link = "online")
  BY DEF ShowSnap
<1> HIDE DEF f
<1> QED
  BY <1>2, <1>3 DEF FadesInv

LEMMA FreshFades == FadesFit(<<>>, FALSE, "none")
BY DEF FadesFit, OpenAtEnd

LEMMA SnapshotsHaveLink ==
  ASSUME SourceInv, NEW s \in Snapshots \cup LocalSnapshots
  PROVE  s.link \in Links \cup {"none"}
<1>1. CASE stage = "reading" /\ last # NoRaw /\ s \in Snapshots
  BY <1>1 DEF Snapshots, SourceInv
<1>2. CASE ~(stage = "reading" /\ last # NoRaw) \/ s \in LocalSnapshots
  BY <1>2 DEF Snapshots, LocalSnapshots
<1> QED
  BY <1>1, <1>2

LEMMA HandleLostKeepsFades ==
  ASSUME FeedAssumption, SourceInv, FadesInv, HandleLost
  PROVE  FadesInv'
<1>1. CASE fallback
  BY <1>1 DEF FadesInv, HandleLost, StartFallback, shown
<1>2. CASE ~fallback
  <2>1. PICK s \in LocalSnapshots : ShowSnap(s)
    BY <1>2 DEF HandleLost, StartFallback
  <2> QED
    BY <2>1, SnapshotsHaveLink, ShowSnapKeepsFades
<1> QED
  BY <1>1, <1>2

LEMMA FadesStep == FeedAssumption /\ SourceInv /\ FadesInv /\ [Next]_vars => FadesInv'
<1> SUFFICES ASSUME FeedAssumption, SourceInv, FadesInv, [Next]_vars PROVE FadesInv'
  OBVIOUS
<1>1. ASSUME UNCHANGED shown PROVE FadesInv'
  BY <1>1 DEF FadesInv, shown
<1>2. CASE DaemonStarts \/ DaemonEnds \/ OpenSocket \/ (\E l \in Links : Ingest(l))
           \/ EndOfFile \/ Closed \/ BridgeEnds \/ BridgeStarts \/ Unmount \/ OnOpen
           \/ Reconnect \/ UNCHANGED vars
  BY <1>1, <1>2 DEF DaemonStarts, DaemonEnds, OpenSocket, Ingest, EndOfFile, Closed,
     BridgeEnds, BridgeStarts, Unmount, OnOpen, Reconnect, vars
<1>3. CASE Mount
  BY <1>3, FreshFades DEF Mount, FadesInv
<1>4. CASE OnMessage
  <2>1. PICK s \in Snapshots : ShowSnap(s)
    BY <1>4 DEF OnMessage
  <2> QED
    BY <2>1, SnapshotsHaveLink, ShowSnapKeepsFades
<1>5. CASE FallbackTick
  <2>1. PICK s \in LocalSnapshots : ShowSnap(s)
    BY <1>5 DEF FallbackTick
  <2> QED
    BY <2>1, SnapshotsHaveLink, ShowSnapKeepsFades
<1>6. CASE Refused \/ Lose
  BY <1>6, HandleLostKeepsFades DEF Refused, Lose
<1> QED
  BY <1>2, <1>3, <1>4, <1>5, <1>6 DEF Next

LEMMA FadesInit == Init => FadesInv
BY FreshFades DEF Init, FadesInv

\* The first open fade is the last fade, and the timeline begins with it.
LEMMA FadesFitTell == FadesInv => FadesTellTheLink
<1> SUFFICES ASSUME FadesInv PROVE FadesTellTheLink
  OBVIOUS
<1> DEFINE n == Len(fades)
           m == IF n < 8 THEN n ELSE 8
<1>1. /\ fades \in Seq(Fade) /\ n \in Nat
      /\ \A i \in 1 .. n : fades[i].open => i = n
      /\ OpenAtEnd(fades) <=> wasOnline /\ lastState # "online"
      /\ OpenAtEnd(fades) => fades[n].to = lastState
      /\ OpenAtEnd(fades) <=> n # 0 /\ fades[n].open
  BY DEF FadesInv, FadesFit, OpenAtEnd
<1>2. DOMAIN fades = 1 .. n
  BY <1>1
<1> HIDE DEF n
<1>3. ActiveFade = IF OpenAtEnd(fades) THEN n ELSE 0
  <2>1. CASE OpenAtEnd(fades)
    <3> DEFINE First(i) == fades[i].open /\ \A j \in 1 .. i - 1 : ~fades[j].open
    <3>1. n \in 1 .. n
      BY <1>1, <2>1
    <3>2. First(n)
      BY <1>1, <2>1
    <3>3. \A i \in 1 .. n : First(i) => i = n
      BY <1>1
    <3>4. ActiveFade = CHOOSE i \in 1 .. n : First(i)
      BY <1>1, <1>2, <2>1, <3>1 DEF ActiveFade
    <3> HIDE DEF First
    <3> QED
      BY <2>1, <3>1, <3>2, <3>3, <3>4
  <2>2. CASE ~OpenAtEnd(fades)
    <3>1. \A i \in 1 .. n : ~fades[i].open
      BY <1>1, <2>2
    <3> QED
      BY <1>2, <2>2, <3>1 DEF ActiveFade
  <2> QED
    BY <2>1, <2>2
<1>4. m \in 0 .. n /\ (n # 0 => m # 0)
  BY <1>1
<1>5. /\ Timeline \in Seq(Fade) /\ DOMAIN Timeline = 1 .. m
      /\ \A i \in 1 .. m : Timeline[i] = fades[n - i + 1]
  <2> DEFINE r == Reverse(fades)
  <2>1. r = [i \in 1 .. n |-> fades[n - i + 1]] /\ Timeline = SubSeq(r, 1, m)
    BY DEF Reverse, Timeline, n
  <2>2. \A i \in 1 .. n : n - i + 1 \in 1 .. n
    BY <1>1
  <2>3. \A i \in 1 .. n : fades[n - i + 1] \in Fade
    BY <1>1, <1>2, <2>2, ElementOf
  <2>4. r \in Seq(Fade) /\ Len(r) = n
    BY <1>1, <2>1, <2>3
  <2> HIDE DEF r, m
  <2>5. /\ SubSeq(r, 1, m) \in Seq(Fade) /\ Len(SubSeq(r, 1, m)) = m
        /\ \A i \in 1 .. m : SubSeq(r, 1, m)[i] = r[i]
    BY <1>1, <1>4, <2>4
  <2>6. Timeline \in Seq(Fade) /\ Len(Timeline) = m
    BY <2>1, <2>5
  <2>7. \A i \in 1 .. m : i \in 1 .. n /\ Timeline[i] = r[i]
    BY <1>1, <1>4, <2>1, <2>5
  <2>8. \A i \in 1 .. m : Timeline[i] = fades[n - i + 1]
    BY <2>1, <2>7
  <2> QED
    BY <2>6, <2>8
<1> HIDE DEF m
<1>6. \A i \in 1 .. m : n - i + 1 \in 1 .. n /\ (n - i + 1 = n => i = 1)
  BY <1>1, <1>4
<1>7. \A i \in DOMAIN Timeline : Timeline[i].open => i = 1
  BY <1>1, <1>5, <1>6
<1>8. OpenAtEnd(fades) => Timeline[1] = fades[n]
  <2>1. OpenAtEnd(fades) => 1 \in 1 .. m
    BY <1>1, <1>4
  <2> QED
    BY <1>1, <1>5, <2>1
<1>9. (ActiveFade # 0) <=> (wasOnline /\ lastState # "online")
  BY <1>1, <1>3
<1> QED
  BY <1>1, <1>3, <1>7, <1>8, <1>9 DEF FadesTellTheLink

\* The page tells of an active fade exactly while the link it shows is down after
\* it was up: useLinkHistory()'s list, through fallbacks, reconnections and any
\* number of fades, and however many of them are kept.
THEOREM FadesAreTold == Spec => []FadesTellTheLink
<1>1. Init => FadesInv
  BY FadesInit
<1>2. FeedAssumption /\ SourceInv /\ FadesInv /\ [Next]_vars => FadesInv'
  BY FadesStep
<1>3. FadesInv => FadesTellTheLink
  BY FadesFitTell
<1> QED
  BY <1>1, <1>2, <1>3, SourceSound, FeedAssumption, PTL DEF Spec

-----------------------------------------------------------------------------
(* The supervisor of the daemon                                              *)

Pcs == {"idle", "start", "load", "launch", "probe", "stop", "wait", "answered", "done"}
CallRec ==
  [op : {"none", "start", "stop", "restart"}, pc : Pcs,
   by : Views \cup {"none"}, target : Calls \cup {NoProc}, since : 0 .. MaxSaves,
   answer : States \cup {"none"}]

\* What a step that moves one call may do to it.
LEMMA CallMoves ==
  ASSUME call \in [Calls -> CallRec], NEW c \in Calls
  PROVE  /\ \A pc \in Pcs : Goto(c, pc) => call' \in [Calls -> CallRec]
         /\ \A s \in States : Return(c, s)
               => call' \in [Calls -> CallRec]
         /\ \A t \in Calls : [call EXCEPT ![c].pc = "wait", ![c].target = t]
                                      \in [Calls -> CallRec]
         /\ \A s \in States : AfterStop(c, s)
               => call' \in [Calls -> CallRec]
<1> DEFINE r == call[c]
<1>1. r \in CallRec
  OBVIOUS
<1> HIDE DEF r
<1>2. \A pc \in Pcs : [r EXCEPT !.pc = pc] \in CallRec
  BY <1>1 DEF CallRec
<1>3. \A s \in States : [r EXCEPT !.pc = "answered", !.answer = s] \in CallRec
  BY <1>1 DEF CallRec, Pcs
<1>4. \A t \in Calls : [r EXCEPT !.pc = "wait", !.target = t] \in CallRec
  BY <1>1 DEF CallRec, Pcs
<1>5. [r EXCEPT !.pc = "start", !.target = NoProc] \in CallRec
  BY <1>1 DEF CallRec, Pcs
<1>6. \A s \in States :
        [r EXCEPT !.pc = "answered", !.answer = s, !.target = NoProc] \in CallRec
  BY <1>1 DEF CallRec, Pcs
<1>7. ASSUME NEW pc \in Pcs, Goto(c, pc) PROVE call' \in [Calls -> CallRec]
  BY <1>2, <1>7 DEF r, Goto
<1>8. ASSUME NEW s \in States, Return(c, s) PROVE call' \in [Calls -> CallRec]
  BY <1>3, <1>8 DEF r, Return
<1>9. \A t \in Calls : [call EXCEPT ![c].pc = "wait", ![c].target = t]
                               \in [Calls -> CallRec]
  BY <1>4 DEF r
<1>10. ASSUME NEW s \in States, AfterStop(c, s)
       PROVE  call' \in [Calls -> CallRec]
  BY <1>5, <1>6, <1>10 DEF r, AfterStop
<1> QED
  BY <1>7, <1>8, <1>9, <1>10

\* Typed, and the lock is held by the one call between its load and its probe,
\* which alone makes the state "starting".
LockInv ==
  /\ DaemonTypeOK
  /\ \A c \in Calls : lock = c <=> call[c].pc \in {"load", "launch", "probe"}
  /\ \A c \in Calls : call[c].pc = "probe" => state = "starting" /\ proc = c
  /\ state = "starting" => lock # NoCall /\ call[lock].pc = "probe"
  /\ state = "running" => proc # NoProc
  /\ \A c \in Calls : c > used => call[c].pc = "idle"

LEMMA TypeIs ==
  DaemonTypeOK <=>
    /\ state \in States
    /\ proc \in Calls \cup {NoProc}
    /\ watcher_task \in Calls \cup {NoProc}
    /\ lock \in Calls \cup {NoCall}
    /\ watching \subseteq Calls
    /\ os \in [Calls -> {"none", "alive", "told", "exit0", "exit1"}]
    /\ cfg \in 0 .. MaxSaves /\ loaded \in 0 .. MaxSaves /\ stored \in 0 .. MaxSaves
    /\ call \in [Calls -> CallRec]
    /\ used \in 0 .. NumCalls
    /\ view \in [Views -> States \cup {"none"}]
    /\ poll \in [Views -> States \cup {"none"}]
    /\ overlapped \in BOOLEAN /\ faults \in 0 .. MaxFaults
BY DEF DaemonTypeOK, CallRec, Pcs

LEMMA LockInit == DaemonAssumption /\ DaemonInit => LockInv
<1> SUFFICES ASSUME DaemonAssumption, DaemonInit PROVE LockInv
  OBVIOUS
<1>1. NumCalls \in Nat /\ MaxSaves \in Nat /\ MaxFaults \in Nat
  BY DEF DaemonAssumption
<1>2. Idle \in CallRec /\ Idle.pc = "idle"
  BY <1>1 DEF Idle, CallRec, Pcs, NoProc
<1>3. call \in [Calls -> CallRec] /\ \A c \in Calls : call[c].pc = "idle"
  BY <1>2 DEF DaemonInit
<1>4. DaemonTypeOK
  <2>1. /\ state \in States /\ proc = NoProc /\ watcher_task = NoProc
        /\ lock = NoCall /\ watching \subseteq Calls
    BY DEF DaemonInit, States
  <2>2. os \in [Calls -> {"none", "alive", "told", "exit0", "exit1"}]
    BY DEF DaemonInit
  <2>3. /\ cfg \in 0 .. MaxSaves /\ loaded \in 0 .. MaxSaves /\ stored \in 0 .. MaxSaves
        /\ used \in 0 .. NumCalls /\ faults \in 0 .. MaxFaults
    <3>1. cfg = 0 /\ loaded = 0 /\ stored = 0 /\ used = 0 /\ faults = 0
      BY DEF DaemonInit
    <3> QED
      BY <1>1, <3>1
  <2>4. /\ view \in [Views -> States \cup {"none"}]
        /\ poll \in [Views -> States \cup {"none"}]
        /\ overlapped \in BOOLEAN
    BY DEF DaemonInit
  <2> QED
    BY <1>3, <2>1, <2>2, <2>3, <2>4, TypeIs
<1>5. \A c \in Calls : lock # c
  BY <1>1 DEF DaemonInit, NoCall, Calls
<1> QED
  BY <1>3, <1>4, <1>5 DEF DaemonInit, LockInv

LEMMA DaemonTyped ==
  DaemonAssumption /\ LockInv /\ [DaemonNext]_daemonVars => DaemonTypeOK'
<1> SUFFICES ASSUME DaemonAssumption, LockInv, [DaemonNext]_daemonVars
             PROVE  DaemonTypeOK'
  OBVIOUS
<1>1. /\ NoProc = 0 /\ NoCall = 0 /\ Calls = 1 .. NumCalls
      /\ NumCalls \in Nat /\ MaxSaves \in Nat /\ MaxFaults \in Nat
  BY DEF NoProc, NoCall, Calls, DaemonAssumption
<1>0. /\ state \in States
      /\ proc \in Calls \cup {NoProc}
      /\ watcher_task \in Calls \cup {NoProc}
      /\ lock \in Calls \cup {NoCall}
      /\ watching \subseteq Calls
      /\ os \in [Calls -> {"none", "alive", "told", "exit0", "exit1"}]
      /\ cfg \in 0 .. MaxSaves /\ loaded \in 0 .. MaxSaves /\ stored \in 0 .. MaxSaves
      /\ call \in [Calls -> CallRec]
      /\ used \in 0 .. NumCalls
      /\ view \in [Views -> States \cup {"none"}]
      /\ poll \in [Views -> States \cup {"none"}]
      /\ overlapped \in BOOLEAN /\ faults \in 0 .. MaxFaults
  BY TypeIs DEF LockInv
<1>2. /\ state' \in States
      /\ proc' \in Calls \cup {NoProc}
      /\ watcher_task' \in Calls \cup {NoProc}
      /\ lock' \in Calls \cup {NoCall}
      /\ watching' \subseteq Calls
      /\ os' \in [Calls -> {"none", "alive", "told", "exit0", "exit1"}]
      /\ cfg' \in 0 .. MaxSaves /\ loaded' \in 0 .. MaxSaves /\ stored' \in 0 .. MaxSaves
      /\ call' \in [Calls -> CallRec]
      /\ used' \in 0 .. NumCalls
      /\ view' \in [Views -> States \cup {"none"}]
      /\ poll' \in [Views -> States \cup {"none"}]
      /\ overlapped' \in BOOLEAN /\ faults' \in 0 .. MaxFaults
      => DaemonTypeOK'
  BY DEF DaemonTypeOK, CallRec, Pcs
<1> USE DEF server, launch, world, pages
<1>3. ASSUME NEW v \in Views, NEW op \in {"start", "stop", "restart"}, Press(v, op)
      PROVE  DaemonTypeOK'
  <2>1. used + 1 \in Calls /\ used + 1 \in 0 .. NumCalls
    BY <1>0, <1>1, <1>3 DEF Press
  <2>2. \A i \in 0 .. MaxSaves, pc \in Pcs :
          [Idle EXCEPT !.op = op, !.by = v, !.since = i, !.pc = pc] \in CallRec
    BY <1>1 DEF Idle, CallRec, NoProc
  <2>0. /\ (IF op = "restart" THEN stored ELSE 0) \in 0 .. MaxSaves
        /\ (IF op = "start" THEN "start" ELSE "stop") \in Pcs
    BY <1>0, <1>1 DEF Pcs
  <2>3. call' \in [Calls -> CallRec]
    BY <1>0, <1>3, <2>0, <2>1, <2>2 DEF Press
  <2>4. overlapped' \in BOOLEAN
    BY <1>0, <1>1, <1>3 DEF Press
  <2> QED
    BY <1>0, <1>1, <1>2, <1>3, <2>1, <2>3, <2>4 DEF Press
<1>4. ASSUME NEW v \in Views, Poll(v) \/ Refresh(v) PROVE DaemonTypeOK'
  BY <1>0, <1>1, <1>2, <1>4 DEF Poll, Refresh
<1>5. ASSUME NEW v \in Views, NEW c \in Calls, Answered(c, v)
      PROVE  DaemonTypeOK'
  <2>1. [Idle EXCEPT !.pc = "done"] \in CallRec /\ call[c].answer \in States \cup {"none"}
    BY <1>0, <1>1, SMTT(30) DEF Idle, CallRec, Pcs, NoProc
  <2>2. call' \in [Calls -> CallRec] /\ view' \in [Views -> States \cup {"none"}]
    BY <1>0, <1>1, <1>5, <2>1 DEF Answered
  <2> QED
    BY <1>0, <1>1, <1>2, <1>5, <2>2 DEF Answered
<1>6. ASSUME NEW c \in Calls, AnswerLost(c) PROVE DaemonTypeOK'
  <2>1. [Idle EXCEPT !.pc = "done"] \in CallRec
    BY <1>0, <1>1, SMTT(30) DEF Idle, CallRec, Pcs, NoProc
  <2>2. call' \in [Calls -> CallRec] /\ faults' \in 0 .. MaxFaults
    BY <1>0, <1>1, <1>6, <2>1, SMTT(30) DEF AnswerLost, Fault
  <2> QED
    BY <1>0, <1>1, <1>2, <1>6, <2>2 DEF AnswerLost
<1> USE DEF At
<1>7. ASSUME NEW c \in Calls, StartEnter(c) PROVE DaemonTypeOK'
  <2>1. call' \in [Calls -> CallRec]
    BY <1>0, <1>1, <1>7, CallMoves DEF StartEnter, Pcs
  <2> QED
    BY <1>0, <1>1, <1>2, <1>7, <2>1 DEF StartEnter, Pcs
<1>8. ASSUME NEW c \in Calls, StartLoad(c) PROVE DaemonTypeOK'
  <2>1. call' \in [Calls -> CallRec]
    BY <1>0, <1>8, CallMoves DEF StartLoad, Pcs
  <2> QED
    BY <1>0, <1>2, <1>8, <2>1 DEF StartLoad
<1>19. ASSUME NEW c \in Calls, StartLaunch(c) PROVE DaemonTypeOK'
  <2>1. call' \in [Calls -> CallRec] /\ "starting" \in States
    BY <1>0, <1>19, CallMoves DEF StartLaunch, States, Pcs
  <2>2. os' \in [Calls -> {"none", "alive", "told", "exit0", "exit1"}]
    BY <1>0, <1>19 DEF StartLaunch
  <2> QED
    BY <1>0, <1>1, <1>2, <1>19, <2>1, <2>2 DEF StartLaunch
<1>9. ASSUME NEW c \in Calls, StartFails(c) PROVE DaemonTypeOK'
  <2>1. call' \in [Calls -> CallRec] /\ "failed" \in States
    BY <1>0, <1>1, <1>9, CallMoves DEF StartFails, States
  <2> QED
    BY <1>0, <1>1, <1>2, <1>9, <2>1 DEF StartFails, Fault
<1>10. ASSUME NEW c \in Calls, StartProbe(c) PROVE DaemonTypeOK'
  <2>1. state' \in States /\ proc \in Calls
    BY <1>0, <1>1, <1>10 DEF StartProbe, States, LockInv
  <2>2. call' \in [Calls -> CallRec]
    BY <1>0, <1>1, <1>10, <2>1, CallMoves DEF StartProbe
  <2> QED
    BY <1>0, <1>1, <1>2, <1>10, <2>1, <2>2 DEF StartProbe
<1>11. ASSUME NEW c \in Calls, StopNothing(c) PROVE DaemonTypeOK'
  <2>1. call' \in [Calls -> CallRec]
    BY <1>0, <1>1, <1>11, CallMoves DEF StopNothing
  <2> QED
    BY <1>0, <1>1, <1>2, <1>11, <2>1 DEF StopNothing
<1>12. ASSUME NEW c \in Calls, StopSignal(c) PROVE DaemonTypeOK'
  <2>1. call' \in [Calls -> CallRec] /\ "stopping" \in States
    BY <1>0, <1>1, <1>12, CallMoves DEF StopSignal, States
  <2>2. os' \in [Calls -> {"none", "alive", "told", "exit0", "exit1"}]
    BY <1>0, <1>1, <1>12 DEF StopSignal
  <2> QED
    BY <1>0, <1>1, <1>2, <1>12, <2>1, <2>2 DEF StopSignal
<1>13. ASSUME NEW c \in Calls, StopKill(c) PROVE DaemonTypeOK'
  BY <1>0, <1>1, <1>2, <1>13 DEF StopKill
<1>14. ASSUME NEW c \in Calls, StopEnd(c) PROVE DaemonTypeOK'
  <2>1. call' \in [Calls -> CallRec] /\ "stopped" \in States
    BY <1>0, <1>1, <1>14, CallMoves DEF StopEnd, States
  <2> QED
    BY <1>0, <1>1, <1>2, <1>14, <2>1 DEF StopEnd
<1>15. ASSUME NEW p \in Calls, Watch(p) PROVE DaemonTypeOK'
  BY <1>0, <1>1, <1>2, <1>15 DEF Watch, States
<1>16. ASSUME NEW p \in Calls, ProcessEnds(p) PROVE DaemonTypeOK'
  BY <1>0, <1>2, <1>16 DEF ProcessEnds
<1>20. ASSUME NEW p \in Calls, ProcessDies(p) PROVE DaemonTypeOK'
  <2>1. os' \in [Calls -> {"none", "alive", "told", "exit0", "exit1"}]
    BY <1>0, <1>20 DEF ProcessDies
  <2>2. faults' \in 0 .. MaxFaults
    BY <1>0, <1>1, <1>20 DEF ProcessDies, Fault
  <2> QED
    BY <1>0, <1>2, <1>20, <2>1, <2>2 DEF ProcessDies
<1>17. CASE Save
  BY <1>0, <1>1, <1>2, <1>17 DEF Save
<1>18. CASE UNCHANGED daemonVars
  BY <1>0, <1>1, <1>2, <1>18 DEF daemonVars
<1> QED
  BY <1>3, <1>4, <1>5, <1>6, <1>7, <1>8, <1>9, <1>10, <1>11, <1>12, <1>13, <1>14, <1>15, <1>16,
     <1>17, <1>18, <1>19, <1>20 DEF DaemonNext, StartStep, StopStep

\* A step of a call leaves the others alone, and what was asked.
CallAt(c, pc) ==
  /\ call' \in [Calls -> CallRec]
  /\ call'[c].pc = pc /\ call'[c].op = call[c].op /\ call'[c].since = call[c].since
  /\ \A d \in Calls : d # c => call'[d] = call[d]

LEMMA CallChanges ==
  ASSUME DaemonTypeOK, NEW c \in Calls
  PROVE  /\ \A pc \in Pcs : Goto(c, pc) =>
              CallAt(c, pc) /\ call'[c].target = call[c].target
         /\ \A s \in States : Return(c, s) =>
              CallAt(c, "answered") /\ call'[c].answer = s
         /\ \A t \in Calls :
              call' = [call EXCEPT ![c].pc = "wait", ![c].target = t] =>
                CallAt(c, "wait") /\ call'[c].target = t
         /\ \A s \in States : AfterStop(c, s) =>
              /\ CallAt(c, IF call[c].op = "restart" THEN "start" ELSE "answered")
              /\ call[c].op # "restart" => call'[c].answer = s
<1>1. call \in [Calls -> CallRec]
  BY TypeIs
<1>2. call[c] \in CallRec
  BY <1>1
<1>3. ASSUME NEW pc \in Pcs, Goto(c, pc)
      PROVE  CallAt(c, pc) /\ call'[c].target = call[c].target
  <2>1. call' \in [Calls -> CallRec]
    BY <1>1, <1>3, CallMoves
  <2> QED
    BY <1>1, <1>2, <1>3, <2>1 DEF Goto, CallRec, CallAt
<1>4. ASSUME NEW s \in States, Return(c, s)
      PROVE  CallAt(c, "answered") /\ call'[c].answer = s
  <2>1. call' \in [Calls -> CallRec]
    BY <1>1, <1>4, CallMoves
  <2> QED
    BY <1>1, <1>2, <1>4, <2>1 DEF Return, CallRec, CallAt
<1>5. ASSUME NEW t \in Calls, call' = [call EXCEPT ![c].pc = "wait", ![c].target = t]
      PROVE  CallAt(c, "wait") /\ call'[c].target = t
  <2>1. call' \in [Calls -> CallRec]
    BY <1>1, <1>5, CallMoves
  <2> QED
    BY <1>1, <1>2, <1>5, <2>1 DEF CallRec, CallAt
<1>6. ASSUME NEW s \in States, AfterStop(c, s)
      PROVE  /\ CallAt(c, IF call[c].op = "restart" THEN "start" ELSE "answered")
             /\ call[c].op # "restart" => call'[c].answer = s
  <2>1. call' \in [Calls -> CallRec]
    BY <1>1, <1>6, CallMoves
  <2> QED
    BY <1>1, <1>2, <1>6, <2>1 DEF AfterStop, CallRec, CallAt
<1> QED
  BY <1>3, <1>4, <1>5, <1>6

\* The answer is shown or lost: the call is over.
LEMMA CallOver ==
  ASSUME DaemonTypeOK, NEW c \in Calls,
         call' = [call EXCEPT ![c] = [Idle EXCEPT !.pc = "done"]]
  PROVE  /\ call'[c].pc = "done" /\ call'[c].op = "none" /\ call'[c].since = 0
         /\ \A d \in Calls : d # c => call'[d] = call[d]
<1>1. call \in [Calls -> CallRec]
  BY TypeIs
<1> QED
  BY <1>1 DEF Idle

\* A button is pressed: a call that was idle begins.
LEMMA CallBegins ==
  ASSUME DaemonAssumption, LockInv, NEW v \in Views,
         NEW op \in {"start", "stop", "restart"}, Press(v, op)
  PROVE  \E c \in Calls :
           /\ c = used + 1 /\ used' = c /\ call[c].pc = "idle"
           /\ call'[c].pc = (IF op = "start" THEN "start" ELSE "stop")
           /\ call'[c].op = op /\ call'[c].since = (IF op = "restart" THEN stored ELSE 0)
           /\ \A d \in Calls : d # c => call'[d] = call[d]
           /\ overlapped' = (overlapped \/ Pending # {})
           /\ UNCHANGED <<server, world, stored, faults>>
<1> DEFINE c == used + 1
<1>1. used \in 0 .. NumCalls /\ NumCalls \in Nat /\ call \in [Calls -> CallRec]
  BY TypeIs DEF DaemonAssumption, LockInv
<1>2. c \in Calls /\ c > used
  BY <1>1 DEF Press, Calls
<1>3. call[c].pc = "idle"
  BY <1>2 DEF LockInv
<1>4. call'[c] = [Idle EXCEPT !.op = op, !.by = v,
                     !.since = IF op = "restart" THEN stored ELSE 0,
                     !.pc = IF op = "start" THEN "start" ELSE "stop"]
      /\ \A d \in Calls : d # c => call'[d] = call[d]
  BY <1>1, <1>2 DEF Press
<1>5. /\ call'[c].pc = (IF op = "start" THEN "start" ELSE "stop")
      /\ call'[c].op = op /\ call'[c].since = (IF op = "restart" THEN stored ELSE 0)
  BY <1>4 DEF Idle
<1>6. /\ overlapped' = (overlapped \/ Pending # {}) /\ used' = c
      /\ UNCHANGED <<server, world, stored, faults>>
  BY DEF Press
<1> HIDE DEF c
<1> QED
  BY <1>2, <1>3, <1>4, <1>5, <1>6 DEF c

LEMMA LockStep ==
  DaemonAssumption /\ LockInv /\ [DaemonNext]_daemonVars => LockInv'
<1> SUFFICES ASSUME DaemonAssumption, LockInv, [DaemonNext]_daemonVars PROVE LockInv'
  OBVIOUS
<1>1. DaemonTypeOK /\ DaemonTypeOK'
  BY DaemonTyped DEF LockInv
<1>2. /\ state \in States /\ proc \in Calls \cup {NoProc}
      /\ lock \in Calls \cup {NoCall} /\ call \in [Calls -> CallRec]
      /\ NoProc \notin Calls /\ NoCall \notin Calls
  BY <1>1, TypeIs DEF NoProc, NoCall, Calls, DaemonAssumption
<1>3. /\ \A c \in Calls : lock = c <=> call[c].pc \in {"load", "launch", "probe"}
      /\ \A c \in Calls : call[c].pc = "probe" => state = "starting" /\ proc = c
      /\ state = "starting" => lock # NoCall /\ call[lock].pc = "probe"
      /\ state = "running" => proc # NoProc
      /\ \A c \in Calls : c > used => call[c].pc = "idle"
  BY DEF LockInv
<1>4. /\ \A c \in Calls : lock' = c <=> call'[c].pc \in {"load", "launch", "probe"}
      /\ \A c \in Calls : call'[c].pc = "probe" => state' = "starting" /\ proc' = c
      /\ state' = "starting" => lock' # NoCall /\ call'[lock'].pc = "probe"
      /\ state' = "running" => proc' # NoProc
      /\ \A c \in Calls : c > used' => call'[c].pc = "idle"
      => LockInv'
  BY <1>1 DEF LockInv
<1>5. ASSUME UNCHANGED <<state, proc, lock, call, used>> PROVE LockInv'
  BY <1>3, <1>4, <1>5
<1> USE DEF server, launch, world, pages
<1>6. ASSUME NEW v \in Views, NEW op \in {"start", "stop", "restart"}, Press(v, op)
      PROVE  LockInv'
  <2>1. PICK c \in Calls :
           /\ c = used + 1 /\ used' = c /\ call[c].pc = "idle"
           /\ call'[c].pc = (IF op = "start" THEN "start" ELSE "stop")
           /\ \A d \in Calls : d # c => call'[d] = call[d]
           /\ UNCHANGED <<state, proc, lock>>
    BY <1>6, CallBegins
  <2>2. \A d \in Calls : d > used' => d # c /\ d > used
    BY <1>1, <2>1, TypeIs DEF Calls
  <2> QED
    BY <1>2, <1>3, <1>4, <2>1, <2>2
<1>7. ASSUME NEW v \in Views, Poll(v) \/ Refresh(v) PROVE LockInv'
  BY <1>5, <1>7 DEF Poll, Refresh
<1>8. ASSUME NEW c \in Calls, AnswerLost(c) \/ \E v \in Views : Answered(c, v)
      PROVE  LockInv'
  <2>1. /\ call[c].pc = "answered" /\ UNCHANGED <<state, proc, lock, used>>
        /\ call' = [call EXCEPT ![c] = [Idle EXCEPT !.pc = "done"]]
    BY <1>8 DEF AnswerLost, Answered
  <2>2. call'[c].pc = "done" /\ \A d \in Calls : d # c => call'[d] = call[d]
    BY <1>1, <2>1, CallOver
  <2> QED
    BY <1>2, <1>3, <1>4, <2>1, <2>2
<1> USE DEF At, CallAt
<1>9. ASSUME NEW c \in Calls, StartEnter(c) PROVE LockInv'
  <2>1. CASE state \in {"starting", "running"}
    <3>1. CallAt(c, "answered")
      BY <1>1, <1>2, <1>9, <2>1, CallChanges DEF StartEnter
    <3> QED
      BY <1>2, <1>3, <1>4, <1>9, <2>1, <3>1 DEF StartEnter
  <2>2. CASE state \notin {"starting", "running"}
    <3>1. CallAt(c, "load")
      BY <1>1, <1>2, <1>9, <2>2, CallChanges DEF StartEnter, Pcs
    <3> QED
      BY <1>2, <1>3, <1>4, <1>9, <2>2, <3>1 DEF StartEnter
  <2> QED
    BY <2>1, <2>2
<1>10. ASSUME NEW c \in Calls, StartLoad(c) PROVE LockInv'
  <2>1. CallAt(c, "launch")
    BY <1>1, <1>10, CallChanges DEF StartLoad, Pcs
  <2> QED
    BY <1>2, <1>3, <1>4, <1>10, <2>1 DEF StartLoad
<1>11. ASSUME NEW c \in Calls, StartLaunch(c) PROVE LockInv'
  <2>1. CallAt(c, "probe")
    BY <1>1, <1>11, CallChanges DEF StartLaunch, Pcs
  <2> QED
    BY <1>2, <1>3, <1>4, <1>11, <2>1 DEF StartLaunch
<1>12. ASSUME NEW c \in Calls, StartFails(c) PROVE LockInv'
  <2>1. CallAt(c, "answered")
    BY <1>1, <1>12, CallChanges DEF StartFails, States
  <2> QED
    BY <1>2, <1>3, <1>4, <1>12, <2>1 DEF StartFails
<1>13. ASSUME NEW c \in Calls, StartProbe(c) PROVE LockInv'
  <2>1. state' \in {"failed", "running"} /\ state' \in States
    BY <1>13 DEF StartProbe, States
  <2>2. CallAt(c, "answered")
    BY <1>1, <1>13, <2>1, CallChanges DEF StartProbe
  <2> QED
    BY <1>2, <1>3, <1>4, <1>13, <2>1, <2>2 DEF StartProbe
<1>14. ASSUME NEW c \in Calls, StopNothing(c) \/ StopEnd(c) PROVE LockInv'
  <2>1. CallAt(c, IF call[c].op = "restart" THEN "start" ELSE "answered")
    <3>1. PICK s \in States : AfterStop(c, s)
      BY <1>2, <1>14 DEF StopNothing, StopEnd, States
    <3> QED BY <1>1, <3>1, CallChanges
  <2> QED
    BY <1>2, <1>3, <1>4, <1>14, <2>1 DEF StopNothing, StopEnd
<1>15. ASSUME NEW c \in Calls, StopSignal(c) PROVE LockInv'
  <2>1. CallAt(c, "wait")
    BY <1>1, <1>2, <1>15, CallChanges DEF StopSignal
  <2> QED
    BY <1>2, <1>3, <1>4, <1>15, <2>1 DEF StopSignal
<1>16. ASSUME NEW c \in Calls,
              StopKill(c) \/ ProcessEnds(c) \/ ProcessDies(c)
       PROVE  LockInv'
  BY <1>5, <1>16 DEF StopKill, ProcessEnds, ProcessDies
<1>17. ASSUME NEW p \in Calls, Watch(p) PROVE LockInv'
  <2>1. /\ UNCHANGED <<lock, call, used>> /\ lock = NoCall
        /\ (UNCHANGED <<state, proc>> \/ state' \in {"stopped", "failed"})
    BY <1>17 DEF Watch
  <2> QED
    BY <1>2, <1>3, <1>4, <2>1
<1>18. CASE Save
  BY <1>5, <1>18 DEF Save
<1>19. CASE UNCHANGED daemonVars
  BY <1>5, <1>19 DEF daemonVars
<1> QED
  BY <1>6, <1>7, <1>8, <1>9, <1>10, <1>11, <1>12, <1>13, <1>14, <1>15, <1>16, <1>17, <1>18, <1>19
     DEF DaemonNext, StartStep, StopStep

\* The lock of the supervisor is held as its comments say.
THEOREM DaemonLocked == DaemonSpec => []LockInv
<1>1. DaemonInit => LockInv
  BY LockInit, DaemonAssumption
<1>2. LockInv /\ [DaemonNext]_daemonVars => LockInv'
  BY LockStep, DaemonAssumption
<1> QED
  BY <1>1, <1>2, PTL DEF DaemonSpec

-----------------------------------------------------------------------------
(* A restart applies what was stored                                         *)

\* The restarts whose stop is over, and which have not returned.
Restarting(c) ==
  call[c].op = "restart" /\ call[c].pc \in {"start", "load", "launch", "probe"}

\* Whatever is launched once the stop of a restart is over, by whomever, is launched
\* with a configuration as new as the one stored when the restart was asked for.
RestartInv ==
  /\ \A c \in Calls : call[c].since <= stored
  /\ state \in {"starting", "running"} =>
       \A c \in Calls : Restarting(c) => cfg >= call[c].since
  /\ (\E d \in Calls : call[d].pc = "launch") =>
       \A c \in Calls : Restarting(c) => loaded >= call[c].since

LEMMA RestartInit == DaemonAssumption /\ DaemonInit => RestartInv
<1> SUFFICES ASSUME DaemonAssumption, DaemonInit PROVE RestartInv
  OBVIOUS
<1>1. \A c \in Calls : call[c].pc = "idle" /\ call[c].since = 0
  BY DEF DaemonInit, Idle
<1>2. stored = 0 /\ state = "stopped"
  BY DEF DaemonInit
<1> QED
  BY <1>1, <1>2 DEF RestartInv, Restarting

\* A step keeps the invariant, and answers "running" only for such a gateway.
LEMMA RestartStep ==
  ASSUME DaemonAssumption, LockInv, RestartInv, [DaemonNext]_daemonVars
  PROVE  /\ RestartInv'
         /\ \A c \in Calls :
              call[c].op = "restart" /\ call[c].pc # "answered" /\ call'[c].pc = "answered"
                /\ call'[c].answer = "running"
              => cfg' >= call[c].since
<1> DEFINE Applied ==
             \A c \in Calls :
               call[c].op = "restart" /\ call[c].pc # "answered" /\ call'[c].pc = "answered"
                 /\ call'[c].answer = "running"
               => cfg' >= call[c].since
<1>1. /\ DaemonTypeOK /\ state \in States /\ proc \in Calls \cup {NoProc}
      /\ lock \in Calls \cup {NoCall} /\ call \in [Calls -> CallRec]
      /\ NoProc \notin Calls /\ NoCall \notin Calls
  BY TypeIs DEF NoProc, NoCall, Calls, DaemonAssumption, LockInv
<1>2. /\ stored \in Int /\ loaded \in Int /\ cfg \in Int /\ stored >= 0
      /\ \A c \in Calls : call[c].since \in Int
  BY <1>1, TypeIs DEF CallRec, DaemonAssumption
<1>3. /\ \A c \in Calls : lock = c <=> call[c].pc \in {"load", "launch", "probe"}
      /\ \A c \in Calls : call[c].pc = "probe" => state = "starting" /\ proc = c
      /\ state = "starting" => lock # NoCall /\ call[lock].pc = "probe"
      /\ state = "running" => proc # NoProc
  BY DEF LockInv
<1>4. /\ \A c \in Calls : call[c].since <= stored
      /\ state \in {"starting", "running"} =>
           \A c \in Calls : Restarting(c) => cfg >= call[c].since
      /\ (\E d \in Calls : call[d].pc = "launch") =>
           \A c \in Calls : Restarting(c) => loaded >= call[c].since
  BY DEF RestartInv
<1>5. ASSUME UNCHANGED <<state, call, cfg, loaded>>, stored' \in Int, stored' >= stored
      PROVE  RestartInv' /\ Applied
  BY <1>2, <1>4, <1>5 DEF RestartInv, Restarting
<1> USE DEF server, launch, world, pages
<1>6. ASSUME NEW v \in Views, NEW op \in {"start", "stop", "restart"}, Press(v, op)
      PROVE  RestartInv' /\ Applied
  <2>1. PICK c \in Calls :
           /\ call'[c].pc = (IF op = "start" THEN "start" ELSE "stop")
           /\ call'[c].op = op /\ call'[c].since = (IF op = "restart" THEN stored ELSE 0)
           /\ \A d \in Calls : d # c => call'[d] = call[d]
           /\ UNCHANGED <<state, cfg, loaded, stored>>
    BY <1>6, CallBegins
  <2>2. ~Restarting(c)' /\ call'[c].since <= stored /\ call'[c].pc \notin {"launch", "answered"}
    BY <1>2, <2>1 DEF Restarting
  <2>3. \A d \in Calls : d # c => (Restarting(d)' <=> Restarting(d))
    BY <2>1 DEF Restarting
  <2> QED
    BY <1>2, <1>4, <2>1, <2>2, <2>3 DEF RestartInv
<1>7. ASSUME NEW v \in Views, Poll(v) \/ Refresh(v)
      PROVE  RestartInv' /\ Applied
  BY <1>2, <1>5, <1>7 DEF Poll, Refresh
<1>8. ASSUME NEW c \in Calls, AnswerLost(c) \/ \E v \in Views : Answered(c, v)
      PROVE  RestartInv' /\ Applied
  <2>1. /\ UNCHANGED <<state, cfg, loaded, stored>>
        /\ call' = [call EXCEPT ![c] = [Idle EXCEPT !.pc = "done"]]
    BY <1>8 DEF AnswerLost, Answered
  <2>2. /\ call'[c].pc = "done" /\ call'[c].op = "none" /\ call'[c].since = 0
        /\ \A d \in Calls : d # c => call'[d] = call[d]
    BY <1>1, <2>1, CallOver
  <2>3. ~Restarting(c)' /\ \A d \in Calls : d # c => (Restarting(d)' <=> Restarting(d))
    BY <2>2 DEF Restarting
  <2> QED
    BY <1>2, <1>4, <2>1, <2>2, <2>3 DEF RestartInv
<1> USE DEF At, CallAt
<1>9. ASSUME NEW c \in Calls, StartEnter(c) PROVE RestartInv' /\ Applied
  <2>1. CASE state \in {"starting", "running"}
    <3>1. CallAt(c, "answered") /\ (Restarting(c) <=> call[c].op = "restart")
      BY <1>1, <1>9, <2>1, CallChanges DEF StartEnter, Restarting
    <3> QED
      BY <1>2, <1>4, <1>9, <2>1, <3>1 DEF StartEnter, RestartInv, Restarting
  <2>2. CASE state \notin {"starting", "running"}
    <3>1. CallAt(c, "load")
      BY <1>1, <1>9, <2>2, CallChanges DEF StartEnter, Pcs
    <3> QED
      BY <1>1, <1>2, <1>3, <1>4, <1>9, <2>2, <3>1 DEF StartEnter, RestartInv, Restarting
  <2> QED
    BY <2>1, <2>2
<1>10. ASSUME NEW c \in Calls, StartLoad(c) PROVE RestartInv' /\ Applied
  <2>1. CallAt(c, "launch")
    BY <1>1, <1>10, CallChanges DEF StartLoad, Pcs
  <2> QED
    BY <1>2, <1>4, <1>10, <2>1 DEF StartLoad, RestartInv, Restarting
<1>11. ASSUME NEW c \in Calls, StartLaunch(c) PROVE RestartInv' /\ Applied
  <2>1. CallAt(c, "probe")
    BY <1>1, <1>11, CallChanges DEF StartLaunch, Pcs
  <2>2. \A d \in Calls : call'[d].pc # "launch"
    BY <1>3, <1>11, <2>1 DEF StartLaunch
  <2>3. \A d \in Calls : Restarting(d)' => Restarting(d) /\ call'[d].since = call[d].since
    BY <1>11, <2>1 DEF StartLaunch, Restarting
  <2>4. \A d \in Calls : Restarting(d) => loaded >= call[d].since
    BY <1>4, <1>11 DEF StartLaunch
  <2>5. cfg' = loaded /\ stored' = stored /\ \A d \in Calls : call'[d].since = call[d].since
    BY <1>11, <2>1 DEF StartLaunch
  <2>6. \A d \in Calls : call'[d].pc = "answered" => call[d].pc = "answered"
    BY <2>1
  <2> QED
    BY <1>2, <1>4, <2>2, <2>3, <2>4, <2>5, <2>6 DEF RestartInv
<1>12. ASSUME NEW c \in Calls, StartFails(c) PROVE RestartInv' /\ Applied
  <2>1. CallAt(c, "answered") /\ call'[c].answer = "failed"
    BY <1>1, <1>12, CallChanges DEF StartFails, States
  <2>2. \A d \in Calls : call'[d].pc # "launch"
    BY <1>3, <1>12, <2>1 DEF StartFails
  <2> QED
    BY <1>2, <1>4, <1>12, <2>1, <2>2 DEF StartFails, RestartInv
<1>13. ASSUME NEW c \in Calls, StartProbe(c) PROVE RestartInv' /\ Applied
  <2>1. state' \in {"failed", "running"} /\ state' \in States
    BY <1>13 DEF StartProbe, States
  <2>2. CallAt(c, "answered")
    BY <1>1, <1>13, <2>1, CallChanges DEF StartProbe
  <2>3. /\ UNCHANGED <<cfg, loaded, stored>> /\ state = "starting"
        /\ Restarting(c) <=> call[c].op = "restart"
    BY <1>3, <1>13 DEF StartProbe, Restarting
  <2> QED
    BY <1>2, <1>4, <2>2, <2>3 DEF RestartInv, Restarting
<1>14. ASSUME NEW c \in Calls, StopNothing(c) \/ StopEnd(c)
       PROVE  RestartInv' /\ Applied
  <2>1. /\ CallAt(c, IF call[c].op = "restart" THEN "start" ELSE "answered")
        /\ UNCHANGED <<cfg, loaded, stored>> /\ lock = NoCall
    <3>1. state \in States
      BY <1>1 DEF DaemonTypeOK
    <3>2. PICK s \in States : AfterStop(c, s)
      BY <1>14, <3>1 DEF StopNothing, StopEnd, States
    <3>3. lock = NoCall /\ lock' = lock /\ UNCHANGED <<cfg, loaded, stored>>
      BY <1>14 DEF StopNothing, StopEnd, server, world
    <3> QED BY <1>1, <3>2, <3>3, CallChanges
  <2>2. state' \notin {"starting", "running"}
    BY <1>3, <1>14 DEF StopNothing, StopEnd
  <2>3. \A d \in Calls : call'[d].pc # "launch"
    BY <1>1, <1>3, <2>1
  <2> QED
    BY <1>2, <1>4, <2>1, <2>2, <2>3 DEF RestartInv
<1>15. ASSUME NEW c \in Calls, StopSignal(c) PROVE RestartInv' /\ Applied
  <2>1. CallAt(c, "wait") /\ lock = NoCall /\ UNCHANGED <<cfg, loaded, stored>>
    BY <1>1, <1>15, CallChanges DEF StopSignal
  <2>2. state' = "stopping" /\ \A d \in Calls : call'[d].pc # "launch"
    BY <1>1, <1>3, <1>15, <2>1 DEF StopSignal
  <2> QED
    BY <1>2, <1>4, <2>1, <2>2 DEF RestartInv
<1>16. ASSUME NEW c \in Calls,
              StopKill(c) \/ ProcessEnds(c) \/ ProcessDies(c)
       PROVE  RestartInv' /\ Applied
  BY <1>2, <1>5, <1>16 DEF StopKill, ProcessEnds, ProcessDies
<1>17. ASSUME NEW p \in Calls, Watch(p) PROVE RestartInv' /\ Applied
  <2>1. /\ UNCHANGED <<call, cfg, loaded, stored>>
        /\ state' = state \/ state' \in {"stopped", "failed"}
    BY <1>17 DEF Watch
  <2> QED
    BY <1>2, <1>4, <2>1 DEF RestartInv, Restarting
<1>18. CASE Save
  BY <1>2, <1>5, <1>18 DEF Save
<1>19. CASE UNCHANGED daemonVars
  BY <1>2, <1>5, <1>19 DEF daemonVars
<1> QED
  BY <1>6, <1>7, <1>8, <1>9, <1>10, <1>11, <1>12, <1>13, <1>14, <1>15, <1>16, <1>17, <1>18, <1>19
     DEF DaemonNext, StartStep, StopStep

\* daemon.py's restart(), for any number of pages, requests, faults and stored
\* configurations: an answer "running" means a gateway as new as was asked for.
THEOREM RestartsApply == DaemonSpec => RestartApplies
<1>1. DaemonInit => RestartInv
  BY RestartInit, DaemonAssumption
<1>2. LockInv /\ RestartInv /\ [DaemonNext]_daemonVars => RestartInv'
  BY RestartStep, DaemonAssumption
<1>3. LockInv /\ RestartInv /\ [DaemonNext]_daemonVars
        => [\A c \in Calls :
              call[c].op = "restart" /\ call[c].pc # "answered" /\ call'[c].pc = "answered"
                /\ call'[c].answer = "running"
              => cfg' >= call[c].since]_daemonVars
  BY RestartStep, DaemonAssumption
<1>4. DaemonSpec => []LockInv
  BY DaemonLocked
<1> QED
  BY <1>1, <1>2, <1>3, <1>4, PTL DEF DaemonSpec, RestartApplies

-----------------------------------------------------------------------------
(* The only manager of its own child                                         *)

UnderWay(c) == call[c].pc \notin {"idle", "answered", "done"}

\* What the supervisor knows while requests do not overlap: the process that may be
\* alive is _proc, watched by the one task there is, until a stop has seen it end.
Serial ==
  /\ \A c, d \in Calls : UnderWay(c) /\ UnderWay(d) => c = d
  /\ \A p \in Calls : Alive(p) => p = proc
  /\ state \in {"stopped", "failed"} => proc = NoProc /\ watching = {}
  /\ state = "starting" => watching = {}
  /\ state = "running" => watching = {proc} /\ watcher_task = proc
  /\ state = "stopping" =>
       /\ proc # NoProc /\ watcher_task = proc /\ watching \subseteq {proc}
       /\ \E c \in Calls : call[c].pc = "wait"
  /\ \A c \in Calls : call[c].pc \in {"load", "launch"} => state \in {"stopped", "failed"}
  /\ \A c \in Calls : call[c].pc = "wait" => state = "stopping" /\ call[c].target = proc

SerialInv == ~overlapped => Serial

LEMMA SerialInit == DaemonInit => SerialInv
<1> SUFFICES ASSUME DaemonInit PROVE Serial
  BY DEF SerialInv
<1>1. \A c \in Calls : call[c].pc = "idle" /\ os[c] = "none"
  BY DEF DaemonInit, Idle
<1> QED
  BY <1>1 DEF Serial, DaemonInit, UnderWay, Alive

LEMMA SerialStep ==
  DaemonAssumption /\ LockInv /\ SerialInv /\ [DaemonNext]_daemonVars => SerialInv'
<1> SUFFICES ASSUME DaemonAssumption, LockInv, SerialInv, [DaemonNext]_daemonVars,
                    ~overlapped'
             PROVE  Serial'
  BY DEF SerialInv
<1>1. /\ DaemonTypeOK /\ state \in States /\ proc \in Calls \cup {NoProc}
      /\ lock \in Calls \cup {NoCall} /\ call \in [Calls -> CallRec]
      /\ watching \subseteq Calls
      /\ os \in [Calls -> {"none", "alive", "told", "exit0", "exit1"}]
      /\ NoProc \notin Calls /\ NoCall \notin Calls
  BY TypeIs DEF NoProc, NoCall, Calls, DaemonAssumption, LockInv
<1>2. /\ \A c \in Calls : lock = c <=> call[c].pc \in {"load", "launch", "probe"}
      /\ \A c \in Calls : call[c].pc = "probe" => state = "starting" /\ proc = c
      /\ state = "starting" => lock # NoCall /\ call[lock].pc = "probe"
      /\ state = "running" => proc # NoProc
  BY DEF LockInv
<1>3. ~overlapped
  BY DEF DaemonNext, daemonVars, Press, Poll, Refresh, Answered,
     StartStep, StartEnter, StartLoad, StartLaunch, StartProbe,
     StartFails, StopStep, StopNothing, StopSignal, StopKill,
     StopEnd, AnswerLost, Watch, ProcessEnds, ProcessDies,
     Save, At
<1>4. /\ \A c, d \in Calls : UnderWay(c) /\ UnderWay(d) => c = d
      /\ \A p \in Calls : Alive(p) => p = proc
      /\ state \in {"stopped", "failed"} => proc = NoProc /\ watching = {}
      /\ state = "starting" => watching = {}
      /\ state = "running" => watching = {proc} /\ watcher_task = proc
      /\ state = "stopping" =>
           /\ proc # NoProc /\ watcher_task = proc /\ watching \subseteq {proc}
           /\ \E c \in Calls : call[c].pc = "wait"
      /\ \A c \in Calls : call[c].pc \in {"load", "launch"} => state \in {"stopped", "failed"}
      /\ \A c \in Calls : call[c].pc = "wait" => state = "stopping" /\ call[c].target = proc
  BY <1>3 DEF SerialInv, Serial
<1>5. ASSUME UNCHANGED <<state, proc, watching, watcher_task, call>>,
             \A p \in Calls : Alive(p)' => Alive(p)
      PROVE  Serial'
  BY <1>4, <1>5 DEF Serial, UnderWay
<1> USE DEF server, launch, world, pages
<1>6. ASSUME NEW v \in Views, NEW op \in {"start", "stop", "restart"}, Press(v, op)
      PROVE  Serial'
  <2>1. PICK c \in Calls :
           /\ call'[c].pc = (IF op = "start" THEN "start" ELSE "stop")
           /\ \A d \in Calls : d # c => call'[d] = call[d]
           /\ overlapped' = (overlapped \/ Pending # {})
           /\ UNCHANGED <<state, proc, watching, watcher_task, os>>
    BY <1>6, CallBegins
  <2>2. \A d \in Calls : ~UnderWay(d)
    BY <2>1 DEF Pending, UnderWay
  <2>3. \A d \in Calls : call'[d].pc \notin {"load", "launch", "wait"}
    BY <2>1, <2>2 DEF UnderWay
  <2>4. state # "stopping"
    BY <1>4, <2>2 DEF UnderWay
  <2> QED
    BY <1>4, <2>1, <2>2, <2>3, <2>4 DEF Serial, UnderWay, Alive
<1>7. ASSUME NEW v \in Views, Poll(v) \/ Refresh(v) PROVE Serial'
  BY <1>5, <1>7 DEF Poll, Refresh, Alive
<1>8. ASSUME NEW c \in Calls, AnswerLost(c) \/ \E v \in Views : Answered(c, v)
      PROVE  Serial'
  <2>1. /\ UNCHANGED <<state, proc, watching, watcher_task, os>> /\ call[c].pc = "answered"
        /\ call' = [call EXCEPT ![c] = [Idle EXCEPT !.pc = "done"]]
    BY <1>8 DEF AnswerLost, Answered
  <2>2. call'[c].pc = "done" /\ \A d \in Calls : d # c => call'[d] = call[d]
    BY <1>1, <2>1, CallOver
  <2> QED
    BY <1>4, <2>1, <2>2 DEF Serial, UnderWay, Alive
<1> USE DEF At, CallAt
\* The call that moves is the only one under way.
<1>9. ASSUME NEW c \in Calls, UnderWay(c),
             NEW pc, CallAt(c, pc), \A p \in Calls : Alive(p)' => p = proc',
             state' \in {"stopped", "failed"} => proc' = NoProc /\ watching' = {},
             state' = "starting" => watching' = {},
             state' = "running" => watching' = {proc'} /\ watcher_task' = proc',
             state' = "stopping" => /\ proc' # NoProc /\ watcher_task' = proc'
                                    /\ watching' \subseteq {proc'} /\ pc = "wait",
             pc \in {"load", "launch"} => state' \in {"stopped", "failed"},
             pc = "wait" => state' = "stopping" /\ call'[c].target = proc'
      PROVE  Serial'
  <2>1. \A d \in Calls : d # c => ~UnderWay(d) /\ ~UnderWay(d)'
    BY <1>4, <1>9 DEF UnderWay
  <2>2. \A d \in Calls : call'[d].pc \in {"load", "launch", "wait"} => d = c
    BY <2>1 DEF UnderWay
  <2> QED
    BY <1>9, <2>1, <2>2 DEF Serial
\* It is not behind a stop that waits.
<1>10. ASSUME NEW c \in Calls, UnderWay(c), call[c].pc # "wait" PROVE state # "stopping"
  BY <1>4, <1>10 DEF UnderWay
<1>11. ASSUME NEW c \in Calls, StartEnter(c) PROVE Serial'
  <2>1. UnderWay(c) /\ state # "stopping"
    BY <1>10, <1>11 DEF StartEnter, UnderWay
  <2>2. CASE state \in {"starting", "running"}
    <3>1. CallAt(c, "answered")
      BY <1>1, <1>11, <2>2, CallChanges DEF StartEnter
    <3> QED
      BY <1>4, <1>9, <1>11, <2>1, <2>2, <3>1 DEF StartEnter, Alive
  <2>3. CASE state \notin {"starting", "running"}
    <3>1. CallAt(c, "load") /\ state \in {"stopped", "failed"}
      BY <1>1, <1>11, <2>1, <2>3, CallChanges DEF StartEnter, States, Pcs
    <3> QED
      BY <1>4, <1>9, <1>11, <2>1, <2>3, <3>1 DEF StartEnter, Alive
  <2> QED
    BY <2>2, <2>3
<1>12. ASSUME NEW c \in Calls, StartLoad(c) PROVE Serial'
  <2>1. CallAt(c, "launch") /\ UnderWay(c) /\ state \in {"stopped", "failed"}
    BY <1>1, <1>4, <1>12, CallChanges DEF StartLoad, UnderWay, Pcs
  <2> QED
    BY <1>4, <1>9, <1>12, <2>1 DEF StartLoad, Alive
<1>13. ASSUME NEW c \in Calls, StartLaunch(c) PROVE Serial'
  <2>1. /\ CallAt(c, "probe") /\ UnderWay(c) /\ state \in {"stopped", "failed"}
        /\ proc = NoProc /\ watching = {}
    BY <1>1, <1>4, <1>13, CallChanges DEF StartLaunch, UnderWay, Pcs
  <2>2. \A p \in Calls : Alive(p)' => p = c
    BY <1>1, <1>4, <1>13, <2>1 DEF StartLaunch, Alive
  <2> QED
    BY <1>9, <1>13, <2>1, <2>2 DEF StartLaunch
<1>14. ASSUME NEW c \in Calls, StartFails(c) PROVE Serial'
  <2>1. /\ CallAt(c, "answered") /\ UnderWay(c) /\ state \in {"stopped", "failed"}
        /\ proc = NoProc /\ watching = {}
    BY <1>1, <1>4, <1>14, CallChanges DEF StartFails, UnderWay, States
  <2> QED
    BY <1>4, <1>9, <1>14, <2>1 DEF StartFails, Alive
<1>15. ASSUME NEW c \in Calls, StartProbe(c) PROVE Serial'
  <2>1. state' \in {"failed", "running"} /\ state' \in States
    BY <1>15 DEF StartProbe, States
  <2>2. CallAt(c, "answered") /\ UnderWay(c) /\ state = "starting" /\ proc = c /\ watching = {}
    BY <1>1, <1>2, <1>4, <1>15, <2>1, CallChanges DEF StartProbe, UnderWay
  <2>3. CASE Exited(proc)
    <3>1. \A p \in Calls : ~Alive(p)'
      BY <1>4, <1>15, <2>3 DEF StartProbe, Exited, Alive
    <3> QED
      BY <1>9, <1>15, <2>2, <2>3, <3>1 DEF StartProbe
  <2>4. CASE ~Exited(proc)
    BY <1>4, <1>9, <1>15, <2>2, <2>4 DEF StartProbe, Alive
  <2> QED
    BY <2>3, <2>4
<1>16. ASSUME NEW c \in Calls, StopNothing(c) PROVE Serial'
  <2>1. /\ CallAt(c, IF call[c].op = "restart" THEN "start" ELSE "answered")
        /\ UnderWay(c) /\ call[c].pc # "wait"
    BY <1>1, <1>16, CallChanges DEF StopNothing, UnderWay
  <2>2. state # "stopping"
    BY <1>10, <2>1
  <2> QED
    BY <1>4, <1>9, <1>16, <2>1, <2>2 DEF StopNothing, Alive
<1>17. ASSUME NEW c \in Calls, StopSignal(c) PROVE Serial'
  <2>1. proc \in Calls /\ UnderWay(c) /\ call[c].pc # "wait" /\ lock = NoCall
    BY <1>1, <1>17 DEF StopSignal, UnderWay
  <2>2. CallAt(c, "wait") /\ call'[c].target = proc
    BY <1>1, <1>17, <2>1, CallChanges DEF StopSignal
  <2>3. state = "running"
    BY <1>1, <1>2, <1>4, <1>17, <2>1 DEF StopSignal, States
  <2>4. \A p \in Calls : Alive(p)' => p = proc
    BY <1>1, <1>4, <1>17 DEF StopSignal, Alive
  <2> QED
    BY <1>4, <1>9, <1>17, <2>1, <2>2, <2>3, <2>4 DEF StopSignal
<1>18. ASSUME NEW c \in Calls, StopEnd(c) PROVE Serial'
  <2>1. /\ CallAt(c, IF call[c].op = "restart" THEN "start" ELSE "answered") /\ UnderWay(c)
        /\ state = "stopping" /\ call[c].target = proc
    BY <1>1, <1>4, <1>18, CallChanges DEF StopEnd, UnderWay, States
  <2>2. \A p \in Calls : ~Alive(p)'
    BY <1>4, <1>18, <2>1 DEF StopEnd, Alive, Exited
  <2>3. watching' = {}
    BY <1>4, <1>18, <2>1 DEF StopEnd
  <2> QED
    BY <1>9, <1>18, <2>1, <2>2, <2>3 DEF StopEnd
<1>19. ASSUME NEW c \in Calls, StopKill(c) PROVE Serial'
  <2>1. \A p \in Calls : Alive(p)' => Alive(p)
    BY <1>1, <1>19 DEF StopKill, Alive
  <2> QED
    BY <1>5, <1>19, <2>1 DEF StopKill
<1>20. ASSUME NEW p \in Calls, ProcessEnds(p) \/ ProcessDies(p) PROVE Serial'
  <2>1. \A q \in Calls : Alive(q)' => Alive(q)
    BY <1>1, <1>20 DEF ProcessEnds, ProcessDies, Alive
  <2> QED
    BY <1>5, <1>20, <2>1 DEF ProcessEnds, ProcessDies
<1>21. ASSUME NEW p \in Calls, Watch(p) PROVE Serial'
  <2>1. UNCHANGED <<call, os, watcher_task>> /\ p \in watching /\ lock = NoCall
    BY <1>21 DEF Watch
  <2>2. CASE state = "stopping"
    BY <1>4, <1>21, <2>1, <2>2 DEF Watch, Serial, UnderWay, Alive
  <2>3. CASE state # "stopping"
    <3>1. state = "running" /\ p = proc
      BY <1>1, <1>4, <2>1, <2>3 DEF States
    <3>2. /\ proc' = NoProc /\ watching' = {} /\ state' \in {"stopped", "failed"}
          /\ \A q \in Calls : ~Alive(q)'
      BY <1>4, <1>21, <2>1, <2>3, <3>1 DEF Watch, Exited, Alive
    <3>3. \A d \in Calls : call[d].pc \notin {"load", "launch", "wait"}
      BY <1>4, <3>1
    <3> QED
      BY <1>4, <2>1, <3>2, <3>3 DEF Serial, UnderWay
  <2> QED
    BY <2>2, <2>3
<1>22. CASE Save
  BY <1>5, <1>22 DEF Save, Alive
<1>23. CASE UNCHANGED daemonVars
  BY <1>5, <1>23 DEF daemonVars, Alive
<1> QED
  BY <1>6, <1>7, <1>8, <1>11, <1>12, <1>13, <1>14, <1>15, <1>16, <1>17, <1>18, <1>19, <1>20,
     <1>21, <1>22, <1>23 DEF DaemonNext, StartStep, StopStep

\* daemon.py's "always considers itself the only manager of its own child", for any
\* number of pages, requests and faults, as long as requests do not overlap.
THEOREM DaemonSupervised == DaemonSpec => []SupervisedIfSerial
<1>1. DaemonInit => SerialInv
  BY SerialInit
<1>2. LockInv /\ SerialInv /\ [DaemonNext]_daemonVars => SerialInv'
  BY SerialStep, DaemonAssumption
<1>3. DaemonSpec => []LockInv
  BY DaemonLocked
<1>4. LockInv /\ SerialInv => SupervisedIfSerial
  BY DEF LockInv, SerialInv, Serial, SupervisedIfSerial, Live
<1> QED
  BY <1>1, <1>2, <1>3, <1>4, PTL DEF DaemonSpec

-----------------------------------------------------------------------------
(* The experiment recorder                                                   *)

ReqPcs == {"idle", "new", "insert", "activate", "end", "deactivate", "delete", "remove",
           "answered", "listing", "done"}
Going(r) == req[r].pc \notin {"idle", "answered", "listing", "done"}

RunsTyped ==
  /\ rows \in [Ids -> [status : {"none", "open", "ended"}, n : Nat]]
  /\ created \in 0 .. MaxRuns /\ pressed \in Nat
  /\ DOMAIN req = Requests
  /\ \A r \in Requests :
       /\ req[r] = [op |-> req[r].op, id |-> req[r].id, pc |-> req[r].pc, sel |-> req[r].sel]
       /\ req[r].pc \in ReqPcs

\* The run the bridge would sample.
Sampled == IF active = NoRun THEN {} ELSE {active}

\* While requests do not overlap, the table and the bridge's memory differ only in
\* the middle of the one request there is, and in the way its next step mends.
OneRequest ==
  /\ \A r, s \in Requests : Going(r) /\ Going(s) => r = s
  /\ \A r \in Requests :
       /\ req[r].pc \in {"new", "end", "delete", "remove"} => OpenRuns = Sampled
       /\ req[r].pc = "remove" => req[r].id # active
       /\ req[r].pc = "insert" => OpenRuns = {}
       /\ req[r].pc = "activate" => OpenRuns = {req[r].id} /\ req[r].id # NoRun
       /\ req[r].pc = "deactivate" => OpenRuns = {} /\ active = req[r].id
  /\ (\A r \in Requests : ~Going(r)) => OpenRuns = Sampled

RunsInv == RunsTyped /\ (~crossed => OneRequest)

LEMMA RunsInit == SessionsAssumption /\ SessionsInit => RunsInv
<1> SUFFICES ASSUME SessionsAssumption, SessionsInit PROVE RunsInv
  OBVIOUS
<1>1. MaxRuns \in Nat \ {0} /\ 1 \in Ids
  BY DEF SessionsAssumption, Ids
<1>2. req = [r \in Requests |-> NoRequest] /\ \A r \in Requests : req[r].pc = "idle"
  BY DEF SessionsInit, NoRequest
<1>3. rows = [i \in Ids |-> IF i = 1 THEN [status |-> "open", n |-> 0]
                                            ELSE [status |-> "none", n |-> 0]]
  BY DEF SessionsInit, Row
<1>4. rows \in [Ids -> [status : {"none", "open", "ended"}, n : Nat]]
  BY <1>3
<1>5. OpenRuns = {1}
  BY <1>1, <1>3 DEF OpenRuns
<1>6. created = 1 /\ active = 1 /\ pressed = 0
  BY DEF SessionsInit
<1>7. RunsTyped
  BY <1>1, <1>2, <1>4, <1>6 DEF RunsTyped, ReqPcs, NoRequest
<1>8. OneRequest
  BY <1>2, <1>5, <1>6 DEF OneRequest, Going, Sampled, NoRun
<1> QED
  BY <1>7, <1>8 DEF RunsInv

\* A step of a request leaves the others alone, and what was asked.
Went(r, pc) ==
  /\ DOMAIN req' = Requests
  /\ req'[r] = [op |-> req[r].op, id |-> req[r].id, pc |-> pc, sel |-> req[r].sel]
  /\ \A s \in Requests : s # r => req'[s] = req[s]

LEMMA RequestMoves ==
  ASSUME RunsTyped, NEW r \in Requests
  PROVE  /\ Answer(r) => Went(r, "answered")
         /\ Refuse(r) => Went(r, "done")
         /\ \A pc \in ReqPcs : ReqGoto(r, pc) => Went(r, pc)
<1>1. \A pc \in ReqPcs : ReqGoto(r, pc) => Went(r, pc)
  <2> SUFFICES ASSUME NEW pc \in ReqPcs, ReqGoto(r, pc) PROVE Went(r, pc)
    OBVIOUS
  <2>1. req' = [req EXCEPT ![r] = [req[r] EXCEPT !.pc = pc]]
    BY DEF ReqGoto
  <2>2. [req[r] EXCEPT !.pc = pc]
          = [op |-> req[r].op, id |-> req[r].id, pc |-> pc, sel |-> req[r].sel]
    BY DEF RunsTyped
  <2> QED
    BY <2>1, <2>2 DEF RunsTyped, Went
<1> QED
  BY <1>1 DEF Answer, Refuse, ReqPcs

\* Types after a step that moves at most one request.
LEMMA MoveTyped ==
  ASSUME RunsTyped, NEW r \in Requests, NEW pc \in ReqPcs, Went(r, pc),
         rows' \in [Ids -> [status : {"none", "open", "ended"}, n : Nat]],
         created' \in 0 .. MaxRuns, pressed' \in Nat
  PROVE  RunsTyped'
BY DEF RunsTyped, Went

\* The request that moves is the only one.
LEMMA MoveAlone ==
  ASSUME RunsTyped, OneRequest, NEW r \in Requests, Going(r), NEW pc \in ReqPcs, Went(r, pc),
         pc \in {"new", "end", "delete", "remove", "answered", "done"} => OpenRuns' = Sampled',
         pc = "remove" => req[r].id # active',
         pc = "insert" => OpenRuns' = {},
         pc = "activate" => OpenRuns' = {req[r].id} /\ req[r].id # NoRun,
         pc = "deactivate" => OpenRuns' = {} /\ active' = req[r].id,
         pc \notin {"idle", "listing"}
  PROVE  OneRequest'
<1>1. \A s \in Requests : s # r => ~Going(s) /\ ~Going(s)'
  BY DEF OneRequest, Going, Went
<1>2. req'[r].pc = pc /\ req'[r].id = req[r].id
  BY DEF Went
<1>3. \A s \in Requests : s # r =>
        req'[s].pc \notin {"new", "end", "delete", "remove", "insert", "activate", "deactivate"}
  BY <1>1 DEF Going
<1>4. (\A s \in Requests : ~Going(s)') => pc \in {"answered", "done"}
  BY <1>2 DEF Going
<1> QED
  BY <1>1, <1>2, <1>3, <1>4 DEF OneRequest

LEMMA InsertedRequest ==
  ASSUME NEW q, NEW i, q = [op |-> q.op, id |-> q.id, pc |-> q.pc, sel |-> q.sel]
  PROVE  [q EXCEPT !.pc = "activate", !.id = i]
           = [op |-> q.op, id |-> i, pc |-> "activate", sel |-> q.sel]
<1> DEFINE p == [q EXCEPT !.pc = "activate"]
<1>1. p = [op |-> q.op, id |-> q.id, pc |-> "activate", sel |-> q.sel]
  OBVIOUS
<1>2. [q EXCEPT !.pc = "activate", !.id = i] = [p EXCEPT !.id = i]
  OBVIOUS
<1> HIDE DEF p
<1>3. [p EXCEPT !.id = i] = [op |-> q.op, id |-> i, pc |-> "activate", sel |-> q.sel]
  BY <1>1
<1> QED
  BY <1>2, <1>3

LEMMA RunsStep ==
  SessionsAssumption /\ RunsInv /\ [SessionsNext]_sessionsVars => RunsInv'
<1> SUFFICES ASSUME SessionsAssumption, RunsInv, [SessionsNext]_sessionsVars PROVE RunsInv'
  OBVIOUS
<1> DEFINE Table == [Ids -> [status : {"none", "open", "ended"}, n : Nat]]
<1>1. /\ RunsTyped /\ rows \in Table /\ created \in 0 .. MaxRuns /\ pressed \in Nat
      /\ DOMAIN req = Requests
      /\ ~crossed => OneRequest
      /\ Ids = 1 .. MaxRuns /\ Requests = 1 .. NumRequests /\ NoRun = 0
      /\ MaxRuns \in Nat /\ NumRequests \in Nat
  BY DEF RunsInv, RunsTyped, Ids, Requests, NoRun, SessionsAssumption
<1> USE DEF table, events, page
\* Nothing that matters moves.
<1>2. ASSUME UNCHANGED <<created, active, req, crossed>>, pressed' \in Nat, rows' \in Table,
             OpenRuns' = OpenRuns
      PROVE  RunsInv'
  <2>1. RunsTyped'
    BY <1>1, <1>2 DEF RunsTyped
  <2>2. ~crossed' => OneRequest'
    BY <1>1, <1>2 DEF OneRequest, Going, Sampled
  <2> QED
    BY <2>1, <2>2 DEF RunsInv
<1>3. ASSUME UNCHANGED <<rows, created, active, req, crossed>>, pressed' \in Nat PROVE RunsInv'
  BY <1>1, <1>2, <1>3 DEF OpenRuns
<1>4. CASE Record
  BY <1>1, <1>3, <1>4 DEF Record
<1>5. CASE AppendSample
  <2>1. /\ \A i \in Ids : rows'[i].status = rows[i].status
        /\ rows' \in Table
    <3>1. CASE picked \in Ids
      <4> DEFINE n == IF rows[picked].status = "none" THEN rows[picked].n ELSE rows[picked].n + 1
      <4>1. rows' = [rows EXCEPT ![picked] = [rows[picked] EXCEPT !.n = n]]
        BY <1>5 DEF AppendSample
      <4>2. n \in Nat /\ rows[picked] \in [status : {"none", "open", "ended"}, n : Nat]
        BY <1>1, <3>1
      <4> HIDE DEF n
      <4>3. /\ [rows[picked] EXCEPT !.n = n] \in [status : {"none", "open", "ended"}, n : Nat]
            /\ [rows[picked] EXCEPT !.n = n].status = rows[picked].status
        BY <4>2
      <4> QED
        BY <1>1, <3>1, <4>1, <4>3
    <3>2. CASE picked \notin Ids
      <4>1. rows' = rows
        BY <1>1, <1>5, <3>2 DEF AppendSample
      <4> QED
        BY <1>1, <4>1
    <3> QED
      BY <3>1, <3>2
  <2>2. OpenRuns' = OpenRuns
    BY <2>1 DEF OpenRuns
  <2> QED
    BY <1>1, <1>2, <1>5, <2>1, <2>2 DEF AppendSample
<1>6. CASE Restart
  <2>1. PICK answered \in {"answered", "listing", "done"} :
          req' = [r \in Requests |->
                    [req[r] EXCEPT !.pc = IF r \in Running THEN "done"
                                          ELSE IF @ = "answered" THEN answered ELSE @]]
    BY <1>6 DEF Restart
  <2> DEFINE after(r) == IF r \in Running THEN "done"
                          ELSE IF req[r].pc = "answered" THEN answered ELSE req[r].pc
  <2>0. \A r \in Requests : after(r) \in {"idle", "answered", "listing", "done"}
    BY DEF Running
  <2>2. ASSUME NEW r \in Requests
        PROVE  req'[r] = [op |-> req[r].op, id |-> req[r].id, pc |-> after(r), sel |-> req[r].sel]
    <3>1. req'[r] = [req[r] EXCEPT !.pc = after(r)]
      BY <2>1
    <3>2. req[r] = [op |-> req[r].op, id |-> req[r].id, pc |-> req[r].pc, sel |-> req[r].sel]
      BY <1>1 DEF RunsTyped
    <3> HIDE DEF after
    <3> QED
      BY <3>1, <3>2
  <2> HIDE DEF after
  <2>3. ASSUME NEW r \in Requests
        PROVE  /\ req'[r].pc \in {"idle", "answered", "listing", "done"}
               /\ req'[r] = [op |-> req'[r].op, id |-> req'[r].id, pc |-> req'[r].pc,
                             sel |-> req'[r].sel]
    <3>1. req'[r] = [op |-> req[r].op, id |-> req[r].id, pc |-> after(r), sel |-> req[r].sel]
      BY <2>2
    <3>2. req'[r].pc = after(r)
      BY <3>1
    <3>3. req'[r].op = req[r].op /\ req'[r].id = req[r].id /\ req'[r].sel = req[r].sel
      BY <3>1
    <3>4. after(r) \in {"idle", "answered", "listing", "done"}
      BY <2>0
    <3> QED
      BY <3>1, <3>2, <3>3, <3>4
  <2>4. rows' = [[i \in Ids |-> IF rows[i].status = "open"
                                     THEN [status |-> "ended", n |-> rows[i].n] ELSE rows[i]]
                 EXCEPT ![created + 1] = [status |-> "open", n |-> 0]]
        /\ created + 1 \in Ids /\ created' = created + 1 /\ active' = created + 1
        /\ pressed' = pressed
    BY <1>1, <1>6 DEF Restart, EndAll, Row
  <2>5. rows' \in Table /\ OpenRuns' = {created + 1}
    BY <1>1, <2>4 DEF OpenRuns
  <2>6. RunsTyped'
    <3>1. DOMAIN req' = Requests
      BY <2>1
    <3>2. created' \in 0 .. MaxRuns /\ pressed' \in Nat
      BY <1>1, <2>4
    <3> QED
      BY <2>3, <2>5, <3>1, <3>2 DEF RunsTyped, ReqPcs
  <2>7. OneRequest'
    <3>1. OpenRuns' = Sampled'
      BY <1>1, <2>4, <2>5 DEF Sampled, NoRun
    <3> QED
      BY <2>3, <3>1 DEF OneRequest, Going
  <2> QED
    BY <2>6, <2>7 DEF RunsInv
<1>7. ASSUME NEW op \in {"new", "end", "delete"}, PressRun(op) PROVE RunsInv'
  <2> DEFINE r == pressed + 1
  <2>1. r \in Requests /\ pressed' \in Nat
    BY <1>1, <1>7 DEF PressRun
  <2>2. /\ req'[r].pc = op
        /\ req'[r] = [op |-> req'[r].op, id |-> req'[r].id, pc |-> req'[r].pc, sel |-> req'[r].sel]
        /\ \A s \in Requests : s # r => req'[s] = req[s]
        /\ DOMAIN req' = Requests
    BY <1>1, <1>7, <2>1 DEF PressRun
  <2>3. UNCHANGED <<rows, created, active>> /\ crossed' = (crossed \/ Running # {})
    BY <1>7 DEF PressRun
  <2> HIDE DEF r
  <2>4. RunsTyped'
    BY <1>1, <2>1, <2>2, <2>3 DEF RunsTyped, ReqPcs
  <2>5. ASSUME ~crossed' PROVE OneRequest'
    <3>1. OneRequest /\ \A s \in Requests : ~Going(s)
      BY <1>1, <2>3, <2>5 DEF Running, Going
    <3>2. OpenRuns' = Sampled'
      BY <2>3, <3>1 DEF OneRequest, Sampled, OpenRuns
    <3>3. \A s \in Requests : s # r => ~Going(s)'
      BY <2>2, <3>1 DEF Going
    <3> QED
      BY <2>1, <2>2, <3>2, <3>3 DEF OneRequest, Going
  <2> QED
    BY <2>4, <2>5 DEF RunsInv
<1> USE DEF ReqAt
\* A step of the API: of the only request, when requests do not overlap.
<1>8. ASSUME NEW r \in Requests, Going(r), NEW pc \in ReqPcs \ {"idle", "listing"},
             Went(r, pc), UNCHANGED <<crossed, pressed>>, rows' \in Table,
             created' \in 0 .. MaxRuns,
             OneRequest =>
               /\ pc \in {"new", "end", "delete", "remove", "answered", "done"} =>
                    OpenRuns' = Sampled'
               /\ pc = "remove" => req[r].id # active'
               /\ pc = "insert" => OpenRuns' = {}
               /\ pc = "activate" => OpenRuns' = {req[r].id} /\ req[r].id # NoRun
               /\ pc = "deactivate" => OpenRuns' = {} /\ active' = req[r].id
      PROVE  RunsInv'
  <2>1. RunsTyped'
    BY <1>1, <1>8, MoveTyped
  <2>2. OneRequest => OneRequest'
    BY <1>1, <1>8, MoveAlone
  <2> QED
    BY <1>1, <1>8, <2>1, <2>2 DEF RunsInv
<1>9. ASSUME NEW r \in Requests, NewEndOthers(r) PROVE RunsInv'
  <2>1. /\ Went(r, "insert") /\ Going(r) /\ "insert" \in ReqPcs \ {"idle", "listing"}
        /\ UNCHANGED <<created, crossed, pressed>>
    BY <1>1, <1>9, RequestMoves DEF NewEndOthers, ReqPcs, Going
  <2>2. rows' = [i \in Ids |-> IF rows[i].status = "open"
                                    THEN [status |-> "ended", n |-> rows[i].n] ELSE rows[i]]
    BY <1>9 DEF NewEndOthers, EndAll, Row
  <2>3. rows' \in Table /\ OpenRuns' = {}
    BY <1>1, <2>2 DEF OpenRuns
  <2> QED
    BY <1>1, <1>8, <2>1, <2>3
<1>10. ASSUME NEW r \in Requests, NewInsert(r) PROVE RunsInv'
  <2>1. /\ created + 1 \in Ids /\ created' = created + 1
        /\ rows' = [rows EXCEPT ![created + 1] = [status |-> "open", n |-> 0]]
        /\ UNCHANGED <<active, crossed, pressed>> /\ req[r].pc = "insert"
    BY <1>1, <1>10 DEF NewInsert, Row
  <2>2. rows' \in Table /\ OpenRuns' = OpenRuns \cup {created + 1}
    BY <1>1, <2>1 DEF OpenRuns
  <2>3. /\ req'[r] = [op |-> req[r].op, id |-> created + 1, pc |-> "activate", sel |-> req[r].sel]
        /\ \A s \in Requests : s # r => req'[s] = req[s]
        /\ DOMAIN req' = Requests
    <3>1. req' = [req EXCEPT ![r] = [req[r] EXCEPT !.pc = "activate", !.id = created + 1]]
      BY <1>10 DEF NewInsert
    <3>2. req[r] = [op |-> req[r].op, id |-> req[r].id, pc |-> req[r].pc, sel |-> req[r].sel]
      BY <1>1 DEF RunsTyped
    <3>3. [req[r] EXCEPT !.pc = "activate", !.id = created + 1]
            = [op |-> req[r].op, id |-> created + 1, pc |-> "activate", sel |-> req[r].sel]
      BY <3>2, InsertedRequest
    <3> QED
      BY <1>1, <3>1, <3>3
  <2>4. RunsTyped'
    <3>1. \A s \in Requests :
            /\ req'[s] = [op |-> req'[s].op, id |-> req'[s].id, pc |-> req'[s].pc,
                          sel |-> req'[s].sel]
            /\ req'[s].pc \in ReqPcs
      <4>1. ASSUME NEW s \in Requests, s # r
            PROVE  /\ req'[s] = [op |-> req'[s].op, id |-> req'[s].id, pc |-> req'[s].pc,
                                sel |-> req'[s].sel]
                   /\ req'[s].pc \in ReqPcs
        BY <1>1, <2>3, <4>1 DEF RunsTyped
      <4>2. /\ req'[r] = [op |-> req'[r].op, id |-> req'[r].id, pc |-> req'[r].pc,
                          sel |-> req'[r].sel]
            /\ req'[r].pc \in ReqPcs
        BY <2>3 DEF ReqPcs
      <4> QED BY <4>1, <4>2
    <3>2. created' \in 0 .. MaxRuns /\ pressed' \in Nat
      BY <1>1, <2>1 DEF RunsTyped, Ids
    <3> QED BY <2>2, <2>3, <3>1, <3>2 DEF RunsTyped
  <2>5. ASSUME OneRequest PROVE OneRequest'
    <3>0. OpenRuns = {}
      BY <2>1, <2>5 DEF OneRequest
    <3>1. OpenRuns' = {created + 1} /\ created + 1 # NoRun
      BY <1>1, <2>2, <3>0
    <3>2. \A s \in Requests : s # r => ~Going(s) /\ ~Going(s)'
      BY <2>1, <2>3, <2>5 DEF OneRequest, Going
    <3>3. \A s \in Requests : s # r =>
            req'[s].pc \notin {"new", "end", "delete", "remove", "insert", "activate", "deactivate"}
      BY <3>2 DEF Going
    <3>4. req'[r].pc = "activate" /\ req'[r].id = created + 1 /\ Going(r)'
      BY <2>3 DEF Going
    <3> QED
      BY <3>1, <3>2, <3>3, <3>4 DEF OneRequest
  <2> QED
    BY <1>1, <2>1, <2>4, <2>5 DEF RunsInv
<1>11. ASSUME NEW r \in Requests, NewActivate(r) PROVE RunsInv'
  <2>1. /\ Went(r, "answered") /\ Going(r) /\ "answered" \in ReqPcs \ {"idle", "listing"}
        /\ UNCHANGED <<rows, created, crossed, pressed>> /\ req[r].pc = "activate"
        /\ active' = req[r].id
    BY <1>1, <1>11, RequestMoves DEF NewActivate, ReqPcs, Going
  <2>2. OneRequest => OpenRuns' = Sampled'
    BY <2>1 DEF OneRequest, Sampled, OpenRuns
  <2> QED
    BY <1>1, <1>8, <2>1, <2>2
<1>12. ASSUME NEW r \in Requests, EndRow(r) PROVE RunsInv'
  <2>1. /\ Going(r) /\ UNCHANGED <<created, active, crossed, pressed>> /\ req[r].pc = "end"
    BY <1>12 DEF EndRow, Going
  <2>2. CASE req[r].id \in OpenRuns
    <3>1. Went(r, "deactivate") /\ "deactivate" \in ReqPcs \ {"idle", "listing"}
      BY <1>1, <1>12, <2>2, RequestMoves DEF EndRow, ReqPcs
    <3>2. /\ rows' = [rows EXCEPT ![req[r].id].status = "ended"] /\ req[r].id \in Ids
      BY <1>12, <2>2 DEF EndRow, OpenRuns
    <3>3. rows' \in Table /\ OpenRuns' = OpenRuns \ {req[r].id}
      BY <1>1, <3>2 DEF OpenRuns
    <3>4. OneRequest => OpenRuns' = {} /\ active' = req[r].id
      BY <2>1, <2>2, <3>3 DEF OneRequest, Sampled
    <3> QED
      BY <1>1, <1>8, <2>1, <3>1, <3>3, <3>4
  <2>3. CASE req[r].id \notin OpenRuns
    <3>1. Went(r, "done") /\ rows' = rows /\ "done" \in ReqPcs \ {"idle", "listing"}
      BY <1>1, <1>12, <2>3, RequestMoves DEF EndRow, ReqPcs
    <3>2. OneRequest => OpenRuns' = Sampled'
      BY <2>1, <3>1 DEF OneRequest, Sampled, OpenRuns
    <3> QED
      BY <1>1, <1>8, <2>1, <3>1, <3>2
  <2> QED
    BY <2>2, <2>3
<1>13. ASSUME NEW r \in Requests, EndDeactivate(r) PROVE RunsInv'
  <2>1. /\ Went(r, "answered") /\ Going(r) /\ "answered" \in ReqPcs \ {"idle", "listing"}
        /\ UNCHANGED <<rows, created, crossed, pressed>> /\ req[r].pc = "deactivate"
        /\ active' = IF active = req[r].id THEN NoRun ELSE active
    BY <1>1, <1>13, RequestMoves DEF EndDeactivate, ReqPcs, Going
  <2>2. OneRequest => OpenRuns' = Sampled'
    BY <2>1 DEF OneRequest, Sampled, OpenRuns
  <2> QED
    BY <1>1, <1>8, <2>1, <2>2
<1>14. ASSUME NEW r \in Requests, DeleteCheck(r) PROVE RunsInv'
  <2>1. /\ Going(r) /\ UNCHANGED <<rows, created, active, crossed, pressed>>
        /\ req[r].pc = "delete" /\ {"done", "remove"} \subseteq ReqPcs \ {"idle", "listing"}
    BY <1>14 DEF DeleteCheck, Going, ReqPcs
  <2>2. \/ Went(r, "done")
        \/ Went(r, "remove") /\ active # req[r].id
    BY <1>1, <1>14, RequestMoves DEF DeleteCheck, ReqPcs
  <2>3. OneRequest => OpenRuns' = Sampled'
    BY <2>1 DEF OneRequest, Sampled, OpenRuns
  <2> QED
    BY <1>1, <1>8, <2>1, <2>2, <2>3
<1>15. ASSUME NEW r \in Requests, DeleteRow(r) PROVE RunsInv'
  <2>1. /\ Going(r) /\ UNCHANGED <<created, active, crossed, pressed>>
        /\ req[r].pc = "remove" /\ {"answered", "done"} \subseteq ReqPcs \ {"idle", "listing"}
        /\ rows' = [rows EXCEPT ![req[r].id] = [status |-> "none", n |-> 0]]
    BY <1>15 DEF DeleteRow, Going, ReqPcs, Row
  <2>2. Went(r, "answered") \/ Went(r, "done")
    BY <1>1, <1>15, RequestMoves DEF DeleteRow
  <2>3. rows' \in Table /\ OpenRuns' = OpenRuns \ {req[r].id}
    BY <1>1, <2>1 DEF OpenRuns
  <2>4. OneRequest => OpenRuns' = Sampled'
    BY <2>1, <2>3 DEF OneRequest, Sampled
  <2> QED
    BY <1>1, <1>8, <2>1, <2>2, <2>3, <2>4
\* After the answer: the list is asked for and shown.
<1>16. ASSUME NEW r \in Requests, ~Going(r), NEW pc \in {"listing", "done"}, Went(r, pc),
              UNCHANGED <<rows, created, active, crossed, pressed>>
       PROVE  RunsInv'
  <2>1. RunsTyped' /\ OpenRuns' = OpenRuns /\ Sampled' = Sampled
    <3>1. pc \in ReqPcs /\ rows' \in Table /\ created' \in 0 .. MaxRuns /\ pressed' \in Nat
      BY <1>1, <1>16 DEF ReqPcs, RunsTyped
    <3>2. RunsTyped'
      BY <1>1, <1>16, <3>1, MoveTyped
    <3> QED BY <1>16, <3>2 DEF OpenRuns, Sampled
  <2>2. /\ req'[r].pc = pc /\ pc \in {"listing", "done"}
        /\ \A s \in Requests : s # r => req'[s] = req[s]
    BY <1>16 DEF Went
  <2>3. \A s \in Requests : s # r => /\ Going(s)' <=> Going(s)
                                      /\ req'[s].pc = req[s].pc /\ req'[s].id = req[s].id
    BY <2>2 DEF Going
  <2>4. ~Going(r)' /\ ~Going(r)
    BY <1>16, <2>2 DEF Going
  <2>5. active' = active
    BY <1>16
  <2>6. OneRequest => OneRequest'
    BY <2>1, <2>2, <2>3, <2>4, <2>5 DEF OneRequest
  <2> QED
    BY <1>1, <1>16, <2>1, <2>6 DEF RunsInv
<1>17. ASSUME NEW s \in ListSlots, ListRows(s) PROVE RunsInv'
  <2>1. CASE s = 0
    BY <1>1, <1>3, <1>17, <2>1 DEF ListRows
  <2>2. CASE s # 0
    <3>1. s \in Requests /\ ~Going(s) /\ Went(s, "listing")
      BY <1>1, <1>17, <2>2, RequestMoves DEF ListRows, ListSlots, Going, ReqPcs
    <3> QED
      BY <1>16, <1>17, <3>1 DEF ListRows
  <2> QED
    BY <2>1, <2>2
<1>18. ASSUME NEW r \in Requests, Finish(r) PROVE RunsInv'
  <2>1. ~Going(r) /\ Went(r, "done")
    BY <1>1, <1>18, RequestMoves DEF Finish, Going, ReqPcs
  <2> QED
    BY <1>16, <1>18, <2>1 DEF Finish
<1>19. ASSUME NEW id \in Ids, Choose(id) PROVE RunsInv'
  BY <1>1, <1>3, <1>19 DEF Choose
<1>20. ASSUME NEW s \in ListSlots, ListActive(s) \/ ListShown(s) PROVE RunsInv'
  BY <1>1, <1>3, <1>20 DEF ListActive, ListShown
<1>21. CASE Tick \/ \E s \in Slots : GetDetail(s) \/ ShowDetail(s)
  BY <1>1, <1>3, <1>21 DEF Tick, GetDetail, ShowDetail
<1>22. CASE UNCHANGED sessionsVars
  BY <1>1, <1>3, <1>22 DEF sessionsVars
<1> QED
  BY <1>4, <1>5, <1>6, <1>7, <1>9, <1>10, <1>11, <1>12, <1>13, <1>14, <1>15, <1>17, <1>18, <1>19,
     <1>20, <1>21, <1>22 DEF SessionsNext, Serve

\* fieldHints.ts's "the bridge is sampling telemetry to SQLite at 1 Hz under this run
\* ID", for any number of runs, requests and restarts of the bridge: the active run
\* and the open one are the same between requests that do not overlap.
THEOREM RunIsRecorded == SessionsSpec => []ActiveIsOpen
<1>1. SessionsInit => RunsInv
  BY RunsInit, SessionsAssumption
<1>2. RunsInv /\ [SessionsNext]_sessionsVars => RunsInv'
  BY RunsStep, SessionsAssumption
<1>3. RunsInv => ActiveIsOpen
  BY DEF RunsInv, OneRequest, Going, Sampled, ActiveIsOpen, Running
<1> QED
  BY <1>1, <1>2, <1>3, PTL DEF SessionsSpec
=============================================================================
