---------------------------- MODULE TimeTracking ----------------------------
(***************************************************************************)
(* Who is paid for streaming and for watching: TimeTrackingService and the *)
(* handlers that start and end its sessions.                               *)
(*                                                                         *)
(* A session starts at once; it ends in two steps, for the time it lasted  *)
(* is written to the database before it is deleted.  Half of the callers   *)
(* do not await that.  The interval that pays a user every 25 s is kept by *)
(* user, viewing sessions by socket, and most callers know the user by the *)
(* IP address alone.                                                       *)
(*                                                                         *)
(* The slot is reduced to its holder; cooldowns and refusals leave no      *)
(* trace here.  Takeover has them.                                         *)
(***************************************************************************)
EXTENDS Naturals, FiniteSets

CONSTANTS
  Tab,            \* sockets of people
  User, NoUser,   \* accounts; null
  Ip,             \* Ip[t]: the address of tab t
  Account,        \* Account[t]: the user of its token, or NoUser
  Bot,            \* a viewbot socket
  Relay,          \* any streamer that is no socket
  NoStreamer,     \* null
  MaxArrivals     \* bound on the requests and outside events of a behaviour

ASSUME AccountAssumption ==
  /\ NoUser \notin User
  /\ Account \in [Tab -> User \cup {NoUser}]
  /\ DOMAIN Ip = Tab
ASSUME StreamerAssumption ==
  /\ Bot \notin Tab /\ Relay \notin Tab /\ NoStreamer \notin Tab
  /\ Bot # Relay /\ Bot # NoStreamer /\ Relay # NoStreamer
ASSUME BoundAssumption == MaxArrivals \in Nat

VARIABLES
  viewing,       \* viewingSessions: the user each tab watches for
  streaming,     \* activeSessions: the tab each user streams from
  paid,          \* updateIntervals: what the interval of a user pays for
  viewEnds,      \* calls of endViewingSession nobody awaits, by tab
  streamEnds,    \* calls of endStreamingSession nobody awaits, by user
  currentStreamer,
  streamerRoom, viewersRoom,
  ipUser,        \* the userId of the session of an address
  joining,       \* what join-as-viewer read of the slot
  restarting,    \* tabs restartSessionsAfterLogin has still to visit
  section,       \* the running takeover
  stop, leave,   \* stop-streaming and disconnect of each tab
  overtaken,     \* history: users with a session that started during its end
  arrivals

sessions == <<viewing, streaming, paid, viewEnds, streamEnds, overtaken>>
slot == <<currentStreamer, streamerRoom, viewersRoom>>
handlers == <<joining, restarting, section, stop, leave>>
vars == <<sessions, slot, ipUser, handlers, arrivals>>

-----------------------------------------------------------------------------
Someone == User \cup {NoUser}
Streamer == Tab \cup {Bot, Relay, NoStreamer}
Address == {Ip[t] : t \in Tab}
NoTab == NoStreamer
At(step, user) == [step |-> step, user |-> user]
Free == [step |-> "free", tab |-> NoTab, seen |-> NoStreamer, user |-> NoUser]

TypeOK ==
  /\ viewing \in [Tab -> Someone]
  /\ streaming \in [User -> Tab \cup {NoTab}]
  /\ paid \in [User -> {"none", "viewing", "streaming"}]
  /\ viewEnds \in [Tab -> Nat]
  /\ streamEnds \in [User -> Nat]
  /\ currentStreamer \in Streamer
  /\ streamerRoom \subseteq Tab \cup {Bot}
  /\ viewersRoom \subseteq Tab
  /\ ipUser \in [Address -> Someone]
  /\ joining \in [Tab -> {"no", "live", "dark"}]
  /\ restarting \in [Tab -> Someone]
  /\ section \in [step : {"free", "checking", "ousting", "ousted", "live",
                          "joined", "logging", "unviewing"},
                  tab : Tab \cup {NoTab}, seen : Streamer, user : Someone]
  /\ stop \in [Tab -> [step : {"idle", "asked", "flushing", "clearing"}, user : Someone]]
  /\ leave \in [Tab -> [step : {"new", "up", "streaming", "viewing",
                                "clearing", "gone"}, user : Someone]]
  /\ overtaken \subseteq User
  /\ arrivals \in 0..MaxArrivals

Init ==
  /\ viewing = [t \in Tab |-> NoUser]
  /\ streaming = [u \in User |-> NoTab]
  /\ paid = [u \in User |-> "none"]
  /\ viewEnds = [t \in Tab |-> 0] /\ streamEnds = [u \in User |-> 0]
  /\ currentStreamer = NoStreamer /\ streamerRoom = {} /\ viewersRoom = {}
  /\ ipUser = [i \in Address |-> NoUser]
  /\ joining = [t \in Tab |-> "no"]
  /\ restarting = [t \in Tab |-> NoUser]
  /\ section = Free
  /\ stop = [t \in Tab |-> At("idle", NoUser)]
  /\ leave = [t \in Tab |-> At("new", NoUser)]
  /\ overtaken = {}
  /\ arrivals = 0

Arrival ==
  /\ arrivals < MaxArrivals
  /\ arrivals' = arrivals + 1

-----------------------------------------------------------------------------
\* Connections and accounts

Connected == {t \in Tab : leave[t].step = "up"}
Registered == {t \in Tab : leave[t].step \in {"up", "streaming", "viewing"}}

\* The account of the session of the address of t, if there is a session.
IpAccount(t) ==
  IF \E q \in Registered : Ip[q] = Ip[t] THEN ipUser[Ip[t]] ELSE NoUser

\* getUserIdBySocketId
SocketAccount(s) == IF s \in Registered THEN Account[s] ELSE NoUser

\* A token links its user to the socket and to the whole address; a socket
\* without one clears the address.
Connect(t) ==
  /\ leave[t].step = "new"
  /\ leave' = [leave EXCEPT ![t] = At("up", NoUser)]
  /\ ipUser' = [ipUser EXCEPT ![Ip[t]] = Account[t]]
  /\ UNCHANGED <<sessions, slot, joining, restarting, section, stop, arrivals>>

-----------------------------------------------------------------------------
\* Sessions

\* Calls that have still to delete the session of t, or of u.
EndingView(t) ==
  \/ viewEnds[t] > 0
  \/ leave[t].step = "viewing"
  \/ section.step = "unviewing" /\ section.tab = t
EndingStream(u) ==
  \/ streamEnds[u] > 0
  \/ section.step = "ousting" /\ section.user = u
  \/ \E t \in Tab : stop[t] = At("flushing", u) \/ leave[t] = At("streaming", u)

StopPaying(p, U) == [u \in User |-> IF u \in U THEN "none" ELSE p[u]]

Watched(T) == {t \in T : viewing[t] # NoUser}
WatchersOf(T) == {viewing[t] : t \in Watched(T)}

\* startViewingSession of each tab t of T for u[t].  The old sessions are ended
\* and not awaited: those of 5 s or less are deleted at once, the long ones by
\* a call that comes later.
ReplaceViewing(T, u, live, long) ==
  /\ viewEnds' = [t \in Tab |-> viewEnds[t] + (IF t \in long THEN 1 ELSE 0)]
  /\ viewing' = [t \in Tab |-> IF t \in T /\ live THEN u[t]
                               ELSE IF t \in Watched(T) \ long THEN NoUser
                               ELSE viewing[t]]

\* The users whose viewing session is about to be deleted when it starts.
OvertakenViewers(T, u, long) == {u[t] : t \in {q \in T : q \in long \/ EndingView(q)}}

\* One interval a user: the last call of the loop decides (late).
StartViewing(T, u, live) ==
  LET who == IF live THEN {u[t] : t \in T} ELSE {}
      lost == {v \in who : \E t \in Watched(T) : viewing[t] = v /\ u[t] # v}
  IN
  \E long \in SUBSET Watched(T), late \in SUBSET lost :
    /\ ReplaceViewing(T, u, live, long)
    /\ paid' = [v \in User |-> IF v \in who \ late THEN "viewing"
                               ELSE StopPaying(paid, WatchersOf(T))[v]]
    /\ overtaken' = overtaken \cup (IF live THEN OvertakenViewers(T, u, long) ELSE {})

\* Mutant of StartStreaming: the arguments of the session are swapped.
StartStreamingSwapped(u, t, p) ==
  /\ streamEnds' = [streamEnds EXCEPT ![u] = @ + (IF streaming[u] = NoTab THEN 0 ELSE 1)]
  /\ streaming' = [streaming EXCEPT ![u] = u]
  /\ paid' = [p EXCEPT ![u] = "streaming"]

\* startStreamingSession(u, t), when the intervals are p.
StartStreaming(u, t, p) ==
  /\ streamEnds' = [streamEnds EXCEPT ![u] = @ + (IF streaming[u] = NoTab THEN 0 ELSE 1)]
  /\ streaming' = [streaming EXCEPT ![u] = t]
  /\ paid' = [p EXCEPT ![u] = "streaming"]

\* The users whose streaming session is about to be deleted when it starts.
Overtaken(u) == IF streaming[u] # NoTab \/ EndingStream(u) THEN {u} ELSE {}

\* Mutant of StopStreamPay: the interval runs until the time is written.
StopStreamPayLater(U) == paid' = paid

\* endStreamingSession of the users U up to its await.
StopStreamPay(U) == paid' = StopPaying(paid, U)

\* notifyViewersStreamEnded
NotifyEnded ==
  /\ viewEnds' = [t \in Tab |-> viewEnds[t] + (IF t \in Watched(Tab) THEN 1 ELSE 0)]
  /\ paid' = StopPaying(paid, WatchersOf(Tab))

\* The time is written, or could not be: the session is deleted, whichever it
\* is by now.
ViewEndFlushed(t) ==
  /\ viewEnds[t] > 0
  /\ viewEnds' = [viewEnds EXCEPT ![t] = @ - 1]
  /\ viewing' = [viewing EXCEPT ![t] = NoUser]
  /\ UNCHANGED <<streaming, paid, streamEnds, overtaken, slot, ipUser, handlers, arrivals>>

StreamEndFlushed(u) ==
  /\ streamEnds[u] > 0
  /\ streamEnds' = [streamEnds EXCEPT ![u] = @ - 1]
  /\ streaming' = [streaming EXCEPT ![u] = NoTab]
  /\ UNCHANGED <<viewing, paid, viewEnds, overtaken, slot, ipUser, handlers, arrivals>>

\* Mutant of Stale: raw age ends a streaming session.
StaleByAge(u) == streaming[u] # NoTab /\ streamEnds[u] = 0

\* A session over 1 h old whose socket is not in the room.
Stale(u) ==
  /\ streaming[u] # NoTab /\ streamEnds[u] = 0
  /\ streaming[u] \notin streamerRoom

\* cleanupStaleSessions, session by session; age is left open.  Its end is
\* written before the next round.
SweepStreaming(u) ==
  /\ Stale(u)
  /\ StopStreamPay({u})
  /\ streamEnds' = [streamEnds EXCEPT ![u] = @ + 1]
  /\ UNCHANGED <<viewing, streaming, viewEnds, overtaken, slot, ipUser, handlers, arrivals>>

\* Mutant of SweepViewing: sessions of live sockets only.
SweepConnected(t) ==
  /\ t \in Connected
  /\ viewing[t] # NoUser /\ viewEnds[t] = 0
  /\ paid' = StopPaying(paid, {viewing[t]})
  /\ viewEnds' = [viewEnds EXCEPT ![t] = @ + 1]
  /\ UNCHANGED <<viewing, streaming, streamEnds, overtaken, slot, ipUser, handlers, arrivals>>

SweepViewing(t) ==
  /\ viewing[t] # NoUser /\ viewEnds[t] = 0
  /\ paid' = StopPaying(paid, {viewing[t]})
  /\ viewEnds' = [viewEnds EXCEPT ![t] = @ + 1]
  /\ UNCHANGED <<viewing, streaming, streamEnds, overtaken, slot, ipUser, handlers, arrivals>>

-----------------------------------------------------------------------------
\* join-as-viewer

JoinAsViewer(t) ==
  /\ t \in Connected
  /\ joining[t] = "no"
  /\ Arrival
  /\ viewersRoom' = viewersRoom \cup {t}
  /\ joining' = [joining EXCEPT ![t] = IF currentStreamer # NoStreamer THEN "live" ELSE "dark"]
  /\ UNCHANGED <<sessions, currentStreamer, streamerRoom, ipUser, restarting, section, stop, leave>>

\* enrichStreamStatus answered; the slot is not read again.
JoinDone(t) ==
  /\ joining[t] # "no"
  /\ joining' = [joining EXCEPT ![t] = "no"]
  /\ IF IpAccount(t) = NoUser
       THEN UNCHANGED <<viewing, paid, viewEnds, overtaken>>
       ELSE StartViewing({t}, [q \in {t} |-> IpAccount(q)], joining[t] = "live")
  /\ UNCHANGED <<streaming, streamEnds, slot, ipUser, restarting, section, stop, leave, arrivals>>

-----------------------------------------------------------------------------
\* Signing in

\* Users with one tab, alone at its address.
Solo == {u \in User : \E t \in Tab :
           Account[t] = u /\ \A q \in Tab \ {t} : Account[q] # u /\ Ip[q] # Ip[t]}

\* The address of t has a session without a user: it gets one, and the
\* sockets there are visited in turn.  (The session is taken not to change
\* while its statistics are transferred.)
Login(t, u) ==
  /\ t \in Registered /\ ipUser[Ip[t]] = NoUser
  /\ Arrival
  /\ ipUser' = [ipUser EXCEPT ![Ip[t]] = u]
  /\ restarting' = [q \in Tab |-> IF q \in Connected /\ Ip[q] = Ip[t] THEN u ELSE restarting[q]]
  /\ UNCHANGED <<sessions, slot, joining, section, stop, leave>>

\* restartSessionsAfterLogin, for one socket.
LoginVisits(t) ==
  LET u == restarting[t]
      watches == t \in viewersRoom /\ streamerRoom # {}
  IN
  /\ u # NoUser
  /\ restarting' = [restarting EXCEPT ![t] = NoUser]
  /\ \/ /\ watches /\ t \notin streamerRoom
        /\ StartViewing({t}, [q \in {t} |-> u], TRUE)
        /\ UNCHANGED <<streaming, streamEnds>>
     \/ /\ t \in streamerRoom
        /\ \E long \in IF watches THEN SUBSET Watched({t}) ELSE {{}} :
             /\ IF watches THEN ReplaceViewing({t}, [q \in {t} |-> u], TRUE, long)
                           ELSE UNCHANGED <<viewing, viewEnds>>
             /\ overtaken' = overtaken \cup Overtaken(u) \cup
                  IF watches THEN OvertakenViewers({t}, [q \in {t} |-> u], long) ELSE {}
        /\ StartStreaming(u, t, StopPaying(paid, IF watches THEN WatchersOf({t}) ELSE {}))
     \/ /\ ~watches /\ t \notin streamerRoom
        /\ UNCHANGED sessions
  /\ UNCHANGED <<slot, ipUser, joining, section, stop, leave, arrivals>>

-----------------------------------------------------------------------------
\* request-to-stream, inside runExclusiveTakeover

Step(step) == section' = [section EXCEPT !.step = step]

TakeoverStarts(t) ==
  /\ section = Free
  /\ t \in Connected
  /\ Arrival
  /\ section' = [Free EXCEPT !.step = "checking", !.tab = t, !.seen = currentStreamer]
  /\ UNCHANGED <<sessions, slot, ipUser, joining, restarting, stop, leave>>

\* Mutant of Oust: the session of the ousted user is left to the sweep.
OustKeepsSession ==
  /\ section.step = "checking"
  /\ section' = [section EXCEPT !.step = "ousted"]
  /\ streamerRoom' = streamerRoom \ {section.seen}
  /\ UNCHANGED <<sessions, currentStreamer, viewersRoom, ipUser>>
  /\ UNCHANGED <<joining, restarting, stop, leave, arrivals>>

\* The streamer read on entry is a person: its session is ended and awaited.
Oust ==
  LET u == SocketAccount(section.seen)
      pays == u # NoUser /\ streaming[u] # NoTab
  IN
  /\ section.step = "checking"
  /\ section.seen \in Tab
  /\ IF pays
       THEN /\ StopStreamPay({u})
            /\ section' = [section EXCEPT !.step = "ousting", !.user = u]
            /\ UNCHANGED streamerRoom
       ELSE /\ Step("ousted")
            /\ streamerRoom' = streamerRoom \ ({section.seen} \cap Connected)
            /\ UNCHANGED paid
  /\ UNCHANGED <<viewing, streaming, viewEnds, streamEnds, overtaken, currentStreamer>>
  /\ UNCHANGED <<viewersRoom, ipUser, joining, restarting, stop, leave, arrivals>>

Ousted ==
  /\ section.step = "ousting"
  /\ streaming' = [streaming EXCEPT ![section.user] = NoTab]
  /\ section' = [section EXCEPT !.step = "ousted", !.user = NoUser]
  /\ streamerRoom' = streamerRoom \ ({section.seen} \cap Connected)
  /\ UNCHANGED <<viewing, paid, viewEnds, streamEnds, overtaken, currentStreamer>>
  /\ UNCHANGED <<viewersRoom, ipUser, joining, restarting, stop, leave, arrivals>>

GoLive ==
  /\ \/ section.step = "ousted"
     \/ section.step = "checking" /\ section.seen \notin Tab
  /\ Step("live")
  /\ currentStreamer' = section.tab
  /\ UNCHANGED <<sessions, streamerRoom, viewersRoom, ipUser>>
  /\ UNCHANGED <<joining, restarting, stop, leave, arrivals>>

\* The rooms take a socket that has gone in the meantime.
JoinRoom ==
  /\ section.step = "live"
  /\ Step("joined")
  /\ streamerRoom' = streamerRoom \cup {section.tab}
  /\ viewersRoom' = viewersRoom \ {section.tab}
  /\ UNCHANGED <<sessions, currentStreamer, ipUser, joining, restarting, stop, leave, arrivals>>

\* The connection is logged; then the session of the address is read, once.
ReadAccount ==
  /\ section.step = "joined"
  /\ section' = IF IpAccount(section.tab) = NoUser THEN Free
                ELSE [section EXCEPT !.step = "logging", !.user = IpAccount(section.tab)]
  /\ UNCHANGED <<sessions, slot, ipUser, joining, restarting, stop, leave, arrivals>>

\* The streaming log is written; a viewing session of the user on the socket
\* is ended and awaited.
EndOwnViewing ==
  /\ section.step = "logging"
  /\ viewing[section.tab] = section.user
  /\ Step("unviewing")
  /\ paid' = StopPaying(paid, {section.user})
  /\ UNCHANGED <<viewing, streaming, viewEnds, streamEnds, overtaken, slot>>
  /\ UNCHANGED <<ipUser, joining, restarting, stop, leave, arrivals>>

StartOwnStreaming ==
  /\ \/ /\ section.step = "unviewing"
        /\ viewing' = [viewing EXCEPT ![section.tab] = NoUser]
     \/ /\ section.step = "logging" /\ viewing[section.tab] # section.user
        /\ UNCHANGED viewing
  /\ StartStreaming(section.user, section.tab, paid)
  /\ overtaken' = overtaken \cup Overtaken(section.user)
  /\ section' = Free
  /\ UNCHANGED <<viewEnds, slot, ipUser, joining, restarting, stop, leave, arrivals>>

\* A viewbot socket takes over and is ready at once: notifyViewersStreamStarted.
BotGoesLive ==
  LET T == {t \in Connected \cap viewersRoom : IpAccount(t) # NoUser} IN
  /\ section = Free
  /\ currentStreamer \notin Tab /\ Bot \notin streamerRoom
  /\ Arrival
  /\ currentStreamer' = Bot
  /\ streamerRoom' = streamerRoom \cup {Bot}
  /\ StartViewing(T, [t \in T |-> IpAccount(t)], TRUE)
  /\ UNCHANGED <<streaming, streamEnds, viewersRoom, ipUser, handlers>>

-----------------------------------------------------------------------------
\* The other writers of the slot

\* A relay registers, a LiveKit viewbot starts: no session is started.
RelayGoesLive ==
  /\ section = Free
  /\ currentStreamer \notin Tab
  /\ Arrival
  /\ currentStreamer' = Relay
  /\ UNCHANGED <<sessions, streamerRoom, viewersRoom, ipUser, handlers>>

\* The health check, an admin or the end of a relay: rooms and sessions stay.
SlotCleared ==
  /\ currentStreamer # NoStreamer
  /\ Arrival
  /\ currentStreamer' = NoStreamer
  /\ UNCHANGED <<sessions, streamerRoom, viewersRoom, ipUser, handlers>>

BotDisconnects ==
  /\ Bot \in streamerRoom
  /\ streamerRoom' = streamerRoom \ {Bot}
  /\ IF currentStreamer = Bot
       THEN currentStreamer' = NoStreamer /\ NotifyEnded
       ELSE UNCHANGED <<currentStreamer, viewEnds, paid>>
  /\ UNCHANGED <<viewing, streaming, streamEnds, overtaken>>
  /\ UNCHANGED <<viewersRoom, ipUser, handlers, arrivals>>

-----------------------------------------------------------------------------
\* stop-streaming

StopStreaming(t) ==
  /\ t \in Connected /\ currentStreamer = t
  /\ stop[t].step = "idle"
  /\ Arrival
  /\ stop' = [stop EXCEPT ![t] = At("asked", NoUser)]
  /\ UNCHANGED <<sessions, slot, ipUser, joining, restarting, section, leave>>

\* The logs are written; the session of the user of the address is ended.
StopEndsSession(t) ==
  LET u == IpAccount(t) IN
  /\ stop[t].step = "asked"
  /\ IF u # NoUser /\ streaming[u] # NoTab
       THEN StopStreamPay({u}) /\ stop' = [stop EXCEPT ![t] = At("flushing", u)]
       ELSE UNCHANGED paid /\ stop' = [stop EXCEPT ![t] = At("clearing", NoUser)]
  /\ UNCHANGED <<viewing, streaming, viewEnds, streamEnds, overtaken, slot>>
  /\ UNCHANGED <<ipUser, joining, restarting, section, leave, arrivals>>

StopFlushed(t) ==
  /\ stop[t].step = "flushing"
  /\ streaming' = [streaming EXCEPT ![stop[t].user] = NoTab]
  /\ stop' = [stop EXCEPT ![t] = At("clearing", NoUser)]
  /\ UNCHANGED <<viewing, paid, viewEnds, streamEnds, overtaken, slot>>
  /\ UNCHANGED <<ipUser, joining, restarting, section, leave, arrivals>>

\* The cooldown is set; the slot is cleared, whoever holds it by now.
StopClears(t) ==
  /\ stop[t].step = "clearing"
  /\ currentStreamer' = NoStreamer
  /\ streamerRoom' = streamerRoom \ {t}
  /\ viewersRoom' = viewersRoom \cup {t}
  /\ NotifyEnded
  /\ stop' = [stop EXCEPT ![t] = At("idle", NoUser)]
  /\ UNCHANGED <<viewing, streaming, streamEnds, overtaken>>
  /\ UNCHANGED <<ipUser, joining, restarting, section, leave, arrivals>>

-----------------------------------------------------------------------------
\* disconnect

\* unregisterSocket, and the end of the handler of a viewer.
Unregister(t) ==
  leave' = [leave EXCEPT ![t] = At(IF currentStreamer = t THEN "clearing" ELSE "gone", NoUser)]

\* endViewingSessionBySocket, the second half of handleUserDisconnect: without
\* a session of t nothing is awaited before the socket is unregistered.
EndViewingOf(t) ==
  /\ IF viewing[t] = NoUser THEN Unregister(t)
     ELSE leave' = [leave EXCEPT ![t] = At("viewing", NoUser)]
  /\ paid' = StopPaying(paid, WatchersOf({t}))

\* The socket has left its rooms; the user of its address is disconnected.
Disconnect(t) ==
  LET u == IpAccount(t) IN
  /\ t \in Connected
  /\ Arrival
  /\ streamerRoom' = streamerRoom \ {t}
  /\ viewersRoom' = viewersRoom \ {t}
  /\ IF u = NoUser
       THEN Unregister(t) /\ UNCHANGED paid
       ELSE IF streaming[u] = NoTab THEN EndViewingOf(t)
       ELSE StopStreamPay({u}) /\ leave' = [leave EXCEPT ![t] = At("streaming", u)]
  /\ UNCHANGED <<viewing, streaming, viewEnds, streamEnds, overtaken, currentStreamer>>
  /\ UNCHANGED <<ipUser, joining, restarting, section, stop>>

DisconnectStreamFlushed(t) ==
  /\ leave[t].step = "streaming"
  /\ streaming' = [streaming EXCEPT ![leave[t].user] = NoTab]
  /\ EndViewingOf(t)
  /\ UNCHANGED <<viewing, viewEnds, streamEnds, overtaken, slot>>
  /\ UNCHANGED <<ipUser, joining, restarting, section, stop, arrivals>>

DisconnectViewFlushed(t) ==
  /\ leave[t].step = "viewing"
  /\ viewing' = [viewing EXCEPT ![t] = NoUser]
  /\ Unregister(t)
  /\ UNCHANGED <<streaming, paid, viewEnds, streamEnds, overtaken, slot>>
  /\ UNCHANGED <<ipUser, joining, restarting, section, stop, arrivals>>

\* The log and the cooldown of a streamer are written.
DisconnectClears(t) ==
  /\ leave[t].step = "clearing"
  /\ currentStreamer' = NoStreamer
  /\ NotifyEnded
  /\ leave' = [leave EXCEPT ![t] = At("gone", NoUser)]
  /\ UNCHANGED <<viewing, streaming, streamEnds, overtaken, streamerRoom, viewersRoom>>
  /\ UNCHANGED <<ipUser, joining, restarting, section, stop, arrivals>>

-----------------------------------------------------------------------------
SectionStep ==
  \/ Oust \/ Ousted \/ GoLive \/ JoinRoom \/ ReadAccount
  \/ EndOwnViewing \/ StartOwnStreaming

StopStep(t) == StopEndsSession(t) \/ StopFlushed(t) \/ StopClears(t)

LeaveStep(t) ==
  DisconnectStreamFlushed(t) \/ DisconnectViewFlushed(t) \/ DisconnectClears(t)

HandlerStep(t) == JoinDone(t) \/ LoginVisits(t) \/ StopStep(t) \/ LeaveStep(t)

\* What the server does of itself.
ServerStep ==
  \/ SectionStep
  \/ \E t \in Tab : HandlerStep(t) \/ ViewEndFlushed(t) \/ SweepViewing(t)
  \/ \E u \in User : StreamEndFlushed(u) \/ SweepStreaming(u)

Next ==
  \/ \E t \in Tab : Connect(t) \/ JoinAsViewer(t) \/ TakeoverStarts(t)
                      \/ StopStreaming(t) \/ Disconnect(t)
  \/ \E t \in Tab, u \in User \ Solo : Login(t, u)
  \/ BotGoesLive \/ BotDisconnects \/ RelayGoesLive \/ SlotCleared
  \/ ServerStep

Spec == Init /\ [][Next]_vars

\* Database calls settle, well or not, and the sweep runs every 5 min: as long
\* as something of the kind is due, something is done.
Fairness == WF_vars(ServerStep)

FairSpec == Spec /\ Fairness

-----------------------------------------------------------------------------
\* Properties

Has(u, kind) ==
  IF kind = "streaming" THEN streaming[u] # NoTab
  ELSE \E t \in Tab : viewing[t] = u

\* sendRealTimeUpdate "fires every 25 seconds during an active session"
\* (docs/features/points-and-economy.md:19): nobody is paid without one.
PaidOnlyDuringSessions ==
  \A u \in User : paid[u] # "none" => Has(u, paid[u])

\* Whoever is paid has a session of that kind, so that there is something
\* left whose end stops the pay, unless a session of theirs was started while
\* its predecessor was being ended: every other order of starts, ends, sweeps
\* and disconnects of several tabs stops the interval no later than it deletes
\* the session.
PaidUsersHaveSessions ==
  \A u \in User \ overtaken : paid[u] # "none" => Has(u, paid[u])

\* What an interval pays for is a session that no call is ending any more.  With
\* what a takeover knows of its user this is inductive: an end stops the pay
\* before it is under way, and a start makes a session or is overtaken.
PayHasASource ==
  \A u \in User \ overtaken :
    /\ paid[u] = "streaming" => streaming[u] # NoTab /\ ~EndingStream(u)
    /\ paid[u] = "viewing" => \E t \in Tab : viewing[t] = u /\ ~EndingView(t)

HandlersKnowWhom ==
  /\ section.step # "free" => section.tab \in Tab
  /\ section.step \in {"ousting", "logging", "unviewing"} => section.user \in User

Inductive == HandlersKnowWhom /\ PayHasASource

\* Nothing of the tab t is under way.
Settled(t) ==
  /\ section.tab # t /\ section.seen # t
  /\ stop[t].step = "idle"
  /\ t \in Connected

\* A person alone at their address who holds the slot keeps the streaming
\* session, however long they stream: the sweep ends the sessions of dead
\* sockets only (TimeTrackingService.js:146-152).
StreamersKeepTheirSession ==
  \A u \in Solo \ overtaken, t \in Tab :
    Account[t] = u /\ currentStreamer = t /\ Settled(t)
      => streaming[u] = t /\ ~EndingStream(u)

\* ... until someone takes it: once the newcomer is live, the streamer it found
\* has no session any more and gets none, as long as its socket is registered,
\* which it stays without streaming (takeover.js:271-286).
OustedStreamersLoseTheirSession ==
  \A u \in Solo :
    section.step \in {"live", "joined", "logging", "unviewing"} /\ section.seen \in Registered
      => streaming[u] # section.seen

\* Once no more requests arrive, sessions that no handler ends any more end all
\* the same: the sweep finds those of closed sockets and those of streamers
\* outside the room, which stay when a disconnect or a stop comes before the
\* end of a join or a takeover, or when the account of the address changes.
ForgottenSessionsEnd ==
  <>[] /\ \A t \in Tab : leave[t].step = "gone" => viewing[t] = NoUser
       /\ \A u \in User : streaming[u] # NoTab => streaming[u] \in streamerRoom

=============================================================================
