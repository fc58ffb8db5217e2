------------------------------ MODULE Takeover ------------------------------
(***************************************************************************)
(* The stream slot of the main server and everyone who writes it.          *)
(*                                                                         *)
(* StreamService holds one current streamer, a strictly growing            *)
(* generation, and the promise chain that serializes request-to-stream.    *)
(* Node runs one handler at a time between two awaits, so every action     *)
(* below is the code of one handler from one await to the next.  The       *)
(* handlers of different sockets, and the request, stop and disconnect     *)
(* handlers of one socket, interleave at those awaits.                     *)
(*                                                                         *)
(* URL relays appear here by what they may do to the slot (the gated       *)
(* registration and the conditional clear); UrlRelay has their life cycle. *)
(***************************************************************************)
EXTENDS Naturals, Sequences, FiniteSets

CONSTANTS
  Socket,         \* Socket.IO connections
  ViewbotSocket,  \* the connections whose requests carry isViewBot
  IpOf,           \* the address SessionService records for a connection
  Relay,          \* ids of URL relays, url-stream-...
  TestStream,     \* the id of the test pattern, test-...
  NoStreamer,     \* null
  MaxArrivals     \* bound on the outside events of one behaviour

ASSUME SocketAssumption == ViewbotSocket \subseteq Socket
ASSUME DistinctIds ==
  /\ Socket \cap Relay = {}
  /\ TestStream \notin Socket \cup Relay
  /\ NoStreamer \notin Socket \cup Relay \cup {TestStream}
ASSUME BoundAssumption == MaxArrivals \in Nat

Streamer == Socket \cup Relay \cup {TestStream}
Human == Socket \ ViewbotSocket

VARIABLES
  connected,           \* sockets the server can still talk to
  registered,          \* SessionService.socketToIp
  botUsers,            \* sockets linked to a negative user id
  viewers,             \* StreamService.viewers
  currentStreamer, streamGeneration,
  settled,             \* the stream is older than the 30 s grace period
  webrtcStreamer,      \* LiveKitService.currentStreamer, the mirror
  takeoverInProgress,
  takeoverChain,       \* tasks waiting on StreamService._takeoverChain
  seen,                \* the streamer the running task read on entry
  request, stopping, leaving,  \* where each socket's handlers are
  globalCooldown,      \* less than 30 s since the last recorded takeover
  cooling,             \* identifiers with an individual cooldown
  check,               \* the health check that awaits its answer
  game,                \* GameStreamService
  testActive,          \* TestStreamService.isTestStreamActive
  arrivals

slot == <<currentStreamer, streamGeneration, settled, viewers, webrtcStreamer>>
section == <<takeoverInProgress, takeoverChain, seen>>
sessions == <<connected, registered, botUsers>>
cooldowns == <<globalCooldown, cooling>>
others == <<check, game, testActive>>
vars == <<slot, section, sessions, cooldowns, others,
          request, stopping, leaving, arrivals>>

-----------------------------------------------------------------------------
\* Where the handlers of a socket can be.

InSection == {"checking", "ousting", "pausing", "live", "recorded"}
RequestStep == {"idle", "banCheck", "queued"} \cup InSection
StopStep == {"idle", "closing", "clearing"}
LeaveStep == {"here", "leaving", "closing", "clearing", "gone"}
GameStep == {"off", "starting", "on"}
NoCheck == [id |-> NoStreamer, generation |-> 0]
Check == [id : Streamer \cup {NoStreamer}, generation : Nat]

\* Every identifier a cooldown can be filed under: an address, or the
\* streamer's own id when no address is known for it.
Identifiers == {IpOf[s] : s \in Socket} \cup Streamer

\* getSessionBySocketId(id)?.ip || id
Identifier(x) == IF x \in registered THEN IpOf[x] ELSE x

TypeOK ==
  /\ connected \subseteq Socket
  /\ registered \subseteq Socket
  /\ botUsers \subseteq Socket
  /\ viewers \subseteq Streamer
  /\ currentStreamer \in Streamer \cup {NoStreamer}
  /\ streamGeneration \in Nat
  /\ settled \in BOOLEAN
  /\ webrtcStreamer \in Streamer \cup {NoStreamer}
  /\ takeoverInProgress \in BOOLEAN
  /\ takeoverChain \in Seq(Socket)
  /\ seen \in Streamer \cup {NoStreamer}
  /\ request \in [Socket -> RequestStep]
  /\ stopping \in [Socket -> StopStep]
  /\ leaving \in [Socket -> LeaveStep]
  /\ globalCooldown \in BOOLEAN
  /\ cooling \subseteq Identifiers
  /\ check \in Check
  /\ game \in GameStep
  /\ testActive \in BOOLEAN
  /\ arrivals \in 0..MaxArrivals

Init ==
  /\ connected = Socket
  /\ registered = Socket
  /\ botUsers = {}
  /\ viewers = {}
  /\ currentStreamer = NoStreamer
  /\ streamGeneration = 0
  /\ settled = FALSE
  /\ webrtcStreamer = NoStreamer
  /\ takeoverInProgress = FALSE
  /\ takeoverChain = <<>>
  /\ seen = NoStreamer
  /\ request = [s \in Socket |-> "idle"]
  /\ stopping = [s \in Socket |-> "idle"]
  /\ leaving = [s \in Socket |-> "here"]
  /\ globalCooldown = FALSE
  /\ cooling = {}
  /\ check = NoCheck
  /\ game = "off"
  /\ testActive = FALSE
  /\ arrivals = 0

Arrival ==
  /\ arrivals < MaxArrivals
  /\ arrivals' = arrivals + 1

-----------------------------------------------------------------------------
\* StreamService

SetStreamer(x) ==
  /\ currentStreamer' = x
  /\ streamGeneration' = streamGeneration + 1
  /\ settled' = FALSE
  /\ viewers' = viewers \ {x}
  /\ webrtcStreamer' = x

\* Mutants of ClearStreamer.
ClearStreamerAddsNull ==
  /\ currentStreamer' = NoStreamer
  /\ streamGeneration' = streamGeneration + 1
  /\ settled' = FALSE
  /\ viewers' = viewers \cup {currentStreamer}
  /\ webrtcStreamer' = NoStreamer

ClearStreamerKeepsMirror ==
  /\ currentStreamer' = NoStreamer
  /\ streamGeneration' = streamGeneration + 1
  /\ settled' = FALSE
  /\ viewers' = viewers \cup ({currentStreamer} \ {NoStreamer})
  /\ UNCHANGED webrtcStreamer

\* The previous streamer becomes a viewer, connected or not.
ClearStreamer ==
  /\ currentStreamer' = NoStreamer
  /\ streamGeneration' = streamGeneration + 1
  /\ settled' = FALSE
  /\ viewers' = viewers \cup ({currentStreamer} \ {NoStreamer})
  /\ webrtcStreamer' = NoStreamer

\* LiveKitService.cleanup(x): forget x, keep the rest of the slot.
CleanupMirror(x) ==
  /\ webrtcStreamer' = IF webrtcStreamer = x THEN NoStreamer ELSE webrtcStreamer
  /\ UNCHANGED <<currentStreamer, streamGeneration, settled, viewers>>

\* Mutant of LeaveSection: no finally.
LeaveSectionKeepsFlag(s) ==
  /\ UNCHANGED takeoverInProgress
  /\ seen' = NoStreamer
  /\ request' = [request EXCEPT ![s] = "idle"]

LeaveSection(s) ==
  /\ takeoverInProgress' = FALSE
  /\ seen' = NoStreamer
  /\ request' = [request EXCEPT ![s] = "idle"]

-----------------------------------------------------------------------------
\* request-to-stream.  The permission gate changes nothing and is left out.

RequestToStream(s) ==
  /\ s \in connected
  /\ request[s] = "idle"
  /\ Arrival
  /\ request' = [request EXCEPT ![s] = "banCheck"]
  /\ UNCHANGED <<slot, section, sessions, cooldowns, others, stopping, leaving>>

\* isIPBanned answered; the address is banned.
RefuseBanned(s) ==
  /\ request[s] = "banCheck"
  /\ request' = [request EXCEPT ![s] = "idle"]
  /\ UNCHANGED <<slot, section, sessions, cooldowns, others, stopping, leaving, arrivals>>

\* isIPBanned answered; the task joins the takeover chain.  Nothing looks
\* at whether the socket is still connected.
JoinChain(s) ==
  /\ request[s] = "banCheck"
  /\ request' = [request EXCEPT ![s] = "queued"]
  /\ takeoverChain' = Append(takeoverChain, s)
  /\ UNCHANGED <<takeoverInProgress, seen>>
  /\ UNCHANGED <<slot, sessions, cooldowns, others, stopping, leaving, arrivals>>

\* Mutants of TakeTurn: no serialization; serialization only up to setStreamer.
TakeTurnAtOnce(s) ==
  /\ takeoverChain # <<>>
  /\ Head(takeoverChain) = s
  /\ takeoverChain' = Tail(takeoverChain)

TakeTurnOnceLive(s) ==
  /\ \A t \in Socket : request[t] \notin {"checking", "ousting", "pausing"}
  /\ takeoverChain # <<>>
  /\ Head(takeoverChain) = s
  /\ takeoverChain' = Tail(takeoverChain)

\* The next task of the chain, when none is running.
TakeTurn(s) ==
  /\ ~takeoverInProgress
  /\ takeoverChain # <<>>
  /\ Head(takeoverChain) = s
  /\ takeoverChain' = Tail(takeoverChain)

\* On entry a streamer counts as a viewbot only if its socket is linked to a
\* negative user id: relays and the test stream count as real users.
RealOnEntry == currentStreamer # NoStreamer /\ currentStreamer \notin botUsers

DenyOnEntry(s) ==
  /\ TakeTurn(s)
  /\ \/ s \in ViewbotSocket /\ RealOnEntry
     \/ s \in Human /\ (game = "on" \/ Identifier(s) \in cooling)
  /\ request' = [request EXCEPT ![s] = "idle"]
  /\ UNCHANGED <<takeoverInProgress, seen>>
  /\ UNCHANGED <<slot, sessions, cooldowns, others, stopping, leaving, arrivals>>

\* A human's task starts and awaits canTakeOver.
EnterSection(s) ==
  /\ TakeTurn(s)
  /\ s \in Human
  /\ game # "on" /\ Identifier(s) \notin cooling
  /\ takeoverInProgress' = TRUE
  /\ seen' = currentStreamer
  /\ request' = [request EXCEPT ![s] = "checking"]
  /\ UNCHANGED <<slot, sessions, cooldowns, others, stopping, leaving, arrivals>>

\* A viewbot's task skips the cooldowns and, on a free slot, goes live at once.
EnterViewbot(s) ==
  /\ TakeTurn(s)
  /\ s \in ViewbotSocket
  /\ ~RealOnEntry
  /\ takeoverInProgress' = TRUE
  /\ seen' = currentStreamer
  /\ IF currentStreamer = NoStreamer
       THEN /\ SetStreamer(s)
            /\ request' = [request EXCEPT ![s] = "live"]
       ELSE /\ request' = [request EXCEPT ![s] = "ousting"]
            /\ UNCHANGED slot
  /\ UNCHANGED <<sessions, cooldowns, others, stopping, leaving, arrivals>>

\* setStreamer, or first the pause of a rotation that is enabled (humans only).
GoLive(s) ==
  /\ SetStreamer(s)
  /\ request' = [request EXCEPT ![s] = "live"]

PauseRotation(s) ==
  /\ s \in Human
  /\ request' = [request EXCEPT ![s] = "pausing"]

\* canTakeOver answered: the global cooldown runs.
DenyGlobal(s) ==
  /\ request[s] = "checking"
  /\ globalCooldown
  /\ LeaveSection(s)
  /\ UNCHANGED <<takeoverChain, slot, sessions, cooldowns, others, stopping, leaving, arrivals>>

\* canTakeOver answered: allowed, and there is nobody to take over from.
GrantFree(s) ==
  /\ request[s] = "checking"
  /\ ~globalCooldown
  /\ seen = NoStreamer
  /\ \/ GoLive(s)
     \/ PauseRotation(s) /\ UNCHANGED slot
  /\ UNCHANGED <<section, sessions, cooldowns, others, stopping, leaving, arrivals>>

\* canTakeOver answered: allowed.  A streamer that is neither a relay nor a
\* linked viewbot is put on an individual cooldown.
GrantOver(s) ==
  /\ request[s] = "checking"
  /\ ~globalCooldown
  /\ seen # NoStreamer
  /\ cooling' = IF seen \in Relay \cup botUsers
                  THEN cooling ELSE cooling \cup {Identifier(seen)}
  /\ request' = [request EXCEPT ![s] = "ousting"]
  /\ UNCHANGED globalCooldown
  /\ UNCHANGED <<slot, section, sessions, others, stopping, leaving, arrivals>>

\* The awaits of the teardown are over: the old streamer's resources go.
OustDone(s) ==
  /\ request[s] = "ousting"
  /\ \/ GoLive(s)
     \/ PauseRotation(s) /\ CleanupMirror(seen)
  /\ UNCHANGED <<section, sessions, cooldowns, others, stopping, leaving, arrivals>>

PauseDone(s) ==
  /\ request[s] = "pausing"
  /\ GoLive(s)
  /\ UNCHANGED <<section, sessions, cooldowns, others, stopping, leaving, arrivals>>

\* Mutant of RecordTakeover: viewbots start the global cooldown too.
RecordEveryTakeover(s) ==
  /\ request[s] = "live"
  /\ globalCooldown' = TRUE
  /\ request' = [request EXCEPT ![s] = "recorded"]
  /\ UNCHANGED cooling
  /\ UNCHANGED <<slot, section, sessions, others, stopping, leaving, arrivals>>

\* Lookups, buffs and the status broadcast are done; only now does
\* recordTakeover start the global cooldown, and only for humans.
RecordTakeover(s) ==
  /\ request[s] = "live"
  /\ globalCooldown' = (globalCooldown \/ s \in Human)
  /\ request' = [request EXCEPT ![s] = "recorded"]
  /\ UNCHANGED cooling
  /\ UNCHANGED <<slot, section, sessions, others, stopping, leaving, arrivals>>

\* Logs and time tracking, whose failures are caught; a viewbot is linked to a
\* negative user id, even if its socket is gone by now.
FinishTakeover(s) ==
  /\ request[s] = "recorded"
  /\ LeaveSection(s)
  /\ botUsers' = botUsers \cup ({s} \cap ViewbotSocket)
  /\ UNCHANGED <<connected, registered, takeoverChain>>
  /\ UNCHANGED <<slot, cooldowns, others, stopping, leaving, arrivals>>

-----------------------------------------------------------------------------
\* stop-streaming: the guard is read once, before four awaits.

StopStreaming(s) ==
  /\ s \in connected
  /\ stopping[s] = "idle"
  /\ currentStreamer = s
  /\ Arrival
  /\ stopping' = [stopping EXCEPT ![s] = "closing"]
  /\ UNCHANGED <<slot, section, sessions, cooldowns, others, request, leaving>>

StopCooldown(s) ==
  /\ stopping[s] = "closing"
  /\ cooling' = cooling \cup {Identifier(s)}
  /\ stopping' = [stopping EXCEPT ![s] = "clearing"]
  /\ UNCHANGED <<slot, section, sessions, globalCooldown, others, request, leaving, arrivals>>

StopClear(s) ==
  /\ stopping[s] = "clearing"
  /\ ClearStreamer
  /\ stopping' = [stopping EXCEPT ![s] = "idle"]
  /\ UNCHANGED <<section, sessions, cooldowns, others, request, leaving, arrivals>>

-----------------------------------------------------------------------------
\* disconnect: the same shape, after the session is already gone.

Disconnect(s) ==
  /\ s \in connected
  /\ Arrival
  /\ connected' = connected \ {s}
  /\ leaving' = [leaving EXCEPT ![s] = "leaving"]
  /\ UNCHANGED <<registered, botUsers>>
  /\ UNCHANGED <<slot, section, cooldowns, others, request, stopping>>

DisconnectStreamer(s) ==
  /\ leaving[s] = "leaving"
  /\ currentStreamer = s
  /\ registered' = registered \ {s}
  /\ botUsers' = botUsers \ {s}
  /\ CleanupMirror(s)
  /\ leaving' = [leaving EXCEPT ![s] = "closing"]
  /\ UNCHANGED connected
  /\ UNCHANGED <<section, cooldowns, others, request, stopping, arrivals>>

DisconnectViewer(s) ==
  /\ leaving[s] = "leaving"
  /\ currentStreamer # s
  /\ registered' = registered \ {s}
  /\ botUsers' = botUsers \ {s}
  /\ webrtcStreamer' = IF webrtcStreamer = s THEN NoStreamer ELSE webrtcStreamer
  /\ viewers' = viewers \ {s}
  /\ leaving' = [leaving EXCEPT ![s] = "gone"]
  /\ UNCHANGED <<connected, currentStreamer, streamGeneration, settled>>
  /\ UNCHANGED <<section, cooldowns, others, request, stopping, arrivals>>

\* The user id is gone too, so the socket never counts as a viewbot here.
DisconnectCooldown(s) ==
  /\ leaving[s] = "closing"
  /\ cooling' = cooling \cup {Identifier(s)}
  /\ leaving' = [leaving EXCEPT ![s] = "clearing"]
  /\ UNCHANGED <<slot, section, sessions, globalCooldown, others, request, stopping, arrivals>>

DisconnectClear(s) ==
  /\ leaving[s] = "clearing"
  /\ ClearStreamer
  /\ leaving' = [leaving EXCEPT ![s] = "gone"]
  /\ UNCHANGED <<section, sessions, cooldowns, others, request, stopping, arrivals>>

-----------------------------------------------------------------------------
\* The other writers of the slot.

JoinAsViewer(s) ==
  /\ s \in connected
  /\ Arrival
  /\ viewers' = viewers \cup {s}
  /\ UNCHANGED <<currentStreamer, streamGeneration, settled, webrtcStreamer>>
  /\ UNCHANGED <<section, sessions, cooldowns, others, request, stopping, leaving>>

\* Mutants of Superseded: one of its two conditions.
SupersededBySlot == currentStreamer \notin Relay \cup {NoStreamer}

SupersededByFlag == takeoverInProgress

\* ViewBotURLService._supersededByRealStreamer
Superseded ==
  \/ takeoverInProgress
  \/ currentStreamer \notin Relay \cup {NoStreamer}

\* _registerAsCurrentStreamer: at the start of a relay and after a restart.
RelayRegister(r) ==
  /\ ~Superseded
  /\ Arrival
  /\ SetStreamer(r)
  /\ UNCHANGED <<section, sessions, cooldowns, others, request, stopping, leaving>>

\* handleStreamEnd clears the slot only if the relay still holds it.
RelayEnd(r) ==
  /\ currentStreamer = r
  /\ ClearStreamer
  /\ UNCHANGED <<section, sessions, cooldowns, others, request, stopping, leaving, arrivals>>

\* request-test-stream and /admin/test-stream/start: no gate on the slot.
TestStart ==
  /\ ~testActive
  /\ Arrival
  /\ testActive' = TRUE
  /\ SetStreamer(TestStream)
  /\ UNCHANGED <<section, sessions, cooldowns, check, game, request, stopping, leaving>>

TestStop ==
  /\ testActive
  /\ testActive' = FALSE
  /\ IF currentStreamer = TestStream THEN ClearStreamer ELSE UNCHANGED slot
  /\ UNCHANGED <<section, sessions, cooldowns, check, game, request, stopping, leaving, arrivals>>

\* POST /admin/clear-stream
AdminClear ==
  /\ Arrival
  /\ ClearStreamer
  /\ UNCHANGED <<section, sessions, cooldowns, others, request, stopping, leaving>>

\* The game takes a generation of its own and leaves the streamer alone.
BumpGeneration ==
  /\ streamGeneration' = streamGeneration + 1
  /\ UNCHANGED <<currentStreamer, settled, viewers, webrtcStreamer>>

GameStart ==
  /\ game # "on"
  /\ Arrival
  /\ game' = "starting"
  /\ BumpGeneration
  /\ UNCHANGED <<section, sessions, cooldowns, check, testActive, request, stopping, leaving>>

GameStarted ==
  /\ game = "starting"
  /\ game' \in {"on", "off"}
  /\ UNCHANGED <<slot, section, sessions, cooldowns, check, testActive>>
  /\ UNCHANGED <<request, stopping, leaving, arrivals>>

GameStop ==
  /\ game = "on"
  /\ game' = "off"
  /\ BumpGeneration
  /\ UNCHANGED <<section, sessions, cooldowns, check, testActive, request, stopping, leaving, arrivals>>

-----------------------------------------------------------------------------
\* LiveKitService's streamer health check: snapshot, RPC, compare-and-clear.

\* Mutant of HealthCheck: sockets the server has lost are passed over.
HealthCheckConnected ==
  /\ check = NoCheck
  /\ currentStreamer # NoStreamer
  /\ settled
  /\ currentStreamer \in connected \cup Relay
  /\ check' = [id |-> currentStreamer, generation |-> streamGeneration]
  /\ UNCHANGED <<slot, section, sessions, cooldowns, game, testActive>>
  /\ UNCHANGED <<request, stopping, leaving, arrivals>>

HealthCheck ==
  /\ check = NoCheck
  /\ currentStreamer # NoStreamer
  /\ settled
  /\ check' = [id |-> currentStreamer, generation |-> streamGeneration]
  /\ UNCHANGED <<slot, section, sessions, cooldowns, game, testActive>>
  /\ UNCHANGED <<request, stopping, leaving, arrivals>>

\* LiveKit (external): a browser that is gone publishes nothing, and the test
\* pattern never did.
MayPublish(x) == x \in connected \cup Relay

HealthOk ==
  /\ check # NoCheck
  /\ MayPublish(check.id)
  /\ check' = NoCheck
  /\ UNCHANGED <<slot, section, sessions, cooldowns, game, testActive>>
  /\ UNCHANGED <<request, stopping, leaving, arrivals>>

\* Mutant of HealthBad: the id is compared, the generation is not.
HealthBadById ==
  /\ check # NoCheck
  /\ check' = NoCheck
  /\ IF currentStreamer = check.id
       THEN ClearStreamer ELSE UNCHANGED slot
  /\ UNCHANGED <<section, sessions, cooldowns, game, testActive>>
  /\ UNCHANGED <<request, stopping, leaving, arrivals>>

\* No active tracks: clearStreamerIfCurrent(check.id, check.generation).
HealthBad ==
  /\ check # NoCheck
  /\ check' = NoCheck
  /\ IF currentStreamer = check.id /\ streamGeneration = check.generation
       THEN ClearStreamer ELSE UNCHANGED slot
  /\ UNCHANGED <<section, sessions, cooldowns, game, testActive>>
  /\ UNCHANGED <<request, stopping, leaving, arrivals>>

-----------------------------------------------------------------------------
\* Time.

GraceEnds ==
  /\ currentStreamer # NoStreamer /\ ~settled
  /\ settled' = TRUE
  /\ UNCHANGED <<currentStreamer, streamGeneration, viewers, webrtcStreamer>>
  /\ UNCHANGED <<section, sessions, cooldowns, others, request, stopping, leaving, arrivals>>

GlobalCooldownEnds ==
  /\ globalCooldown
  /\ globalCooldown' = FALSE
  /\ UNCHANGED <<slot, section, sessions, cooling, others, request, stopping, leaving, arrivals>>

IndividualCooldownEnds(k) ==
  /\ k \in cooling
  /\ cooling' = cooling \ {k}
  /\ UNCHANGED <<slot, section, sessions, globalCooldown, others, request, stopping, leaving, arrivals>>

-----------------------------------------------------------------------------
\* What a handler that has begun still does.
Answering(s) ==
  \/ RefuseBanned(s) \/ JoinChain(s)
  \/ DenyOnEntry(s) \/ EnterSection(s) \/ EnterViewbot(s)
  \/ DenyGlobal(s) \/ GrantFree(s) \/ GrantOver(s)
  \/ OustDone(s) \/ PauseDone(s) \/ RecordTakeover(s) \/ FinishTakeover(s)

Stopping(s) == StopCooldown(s) \/ StopClear(s)

Leaving(s) ==
  \/ DisconnectStreamer(s) \/ DisconnectViewer(s)
  \/ DisconnectCooldown(s) \/ DisconnectClear(s)

OtherNext ==
  \/ TestStart \/ TestStop \/ AdminClear
  \/ GameStart \/ GameStarted \/ GameStop
  \/ HealthCheck \/ HealthOk \/ HealthBad
  \/ GraceEnds \/ GlobalCooldownEnds

Next ==
  \/ \E s \in Socket :
       \/ RequestToStream(s) \/ Answering(s)
       \/ StopStreaming(s) \/ Stopping(s)
       \/ Disconnect(s) \/ Leaving(s)
       \/ JoinAsViewer(s)
  \/ \E r \in Relay : RelayRegister(r) \/ RelayEnd(r)
  \/ OtherNext
  \/ \E k \in Identifiers : IndividualCooldownEnds(k)

Spec == Init /\ [][Next]_vars

\* Every await of a handler settles, timers fire and the health check, an
\* interval of 10 s, comes round and is answered.  Nobody has to arrive, and no
\* cooldown has to end.
Fairness ==
  /\ \A s \in Socket : /\ WF_vars(Answering(s))
                       /\ WF_vars(Stopping(s))
                       /\ WF_vars(Leaving(s))
  /\ WF_vars(GraceEnds)
  /\ WF_vars(HealthCheck)
  /\ WF_vars(HealthOk \/ HealthBad)

FairSpec == Spec /\ Fairness

-----------------------------------------------------------------------------
(* Safety *)

\* runExclusiveTakeover: at most one task is between its entry and its end,
\* and the flag that relays and rotation consult is up exactly then.
OneTakeoverAtATime ==
  /\ \A s, t \in Socket :
       request[s] \in InSection /\ request[t] \in InSection => s = t
  /\ takeoverInProgress <=> \E s \in Socket : request[s] \in InSection

\* ADR-0033: whatever handlers interleave, nobody goes live while the global
\* cooldown runs, nor between another person's setStreamer and recordTakeover.
GrantsRespectTheGlobalCooldown ==
  [][currentStreamer' \in Human /\ currentStreamer' # currentStreamer
       => /\ ~globalCooldown
          /\ \A t \in Human : request[t] # "live"]_vars

\* A request replaces nobody but the streamer its task tore down: no relay
\* or viewbot slips in during the awaits of the teardown, whose publisher
\* would then be left running over the new stream.  The test pattern may: its
\* start is not gated.
RequestsReplaceWhatTheyToreDown ==
  [][currentStreamer' \in Socket /\ currentStreamer' # currentStreamer
       => currentStreamer \in {seen, NoStreamer, TestStream}]_vars

\* "Viewbots can NEVER take over from real users", and neither can relays.
BotsNeverReplaceHumans ==
  [][currentStreamer' \in ViewbotSocket \cup Relay => currentStreamer \notin Human]_vars

\* The health check's answer is about a snapshot: it never ends a stream that
\* was installed while it waited, be it by the same streamer.
HealthSparesFreshStreams ==
  [][check # NoCheck /\ check' = NoCheck /\ currentStreamer' # currentStreamer
       => settled /\ currentStreamer = check.id]_vars

\* getStreamStatus falls back on LiveKitService.currentStreamer: it never
\* finds a streamer there that the slot has already dropped or replaced.
StatusNamesNoEndedStreamer == webrtcStreamer \in {NoStreamer, currentStreamer}

\* What makes the properties above inductive.  Only humans await canTakeOver
\* and the pause, only viewbots are linked; until a request goes live, the slot
\* holds what its task saw, or nothing, or the test pattern; the cooldown it
\* found at rest stays at rest, and a viewbot's task saw no person; a health
\* check whose generation is still current was about a settled stream.
TasksKnowTheSlot ==
  /\ botUsers \subseteq ViewbotSocket
  /\ \A s \in Socket :
       /\ request[s] \in {"checking", "pausing"} => s \in Human
       /\ request[s] \in {"checking", "ousting", "pausing"}
            => currentStreamer \in {seen, NoStreamer, TestStream}
       /\ request[s] \in {"ousting", "pausing"} =>
            IF s \in Human THEN ~globalCooldown ELSE seen \notin Human

ChecksAgeWithTheSlot ==
  /\ check.generation <= streamGeneration
  /\ check # NoCheck /\ check.generation = streamGeneration => settled

Inductive ==
  /\ OneTakeoverAtATime
  /\ TasksKnowTheSlot
  /\ ChecksAgeWithTheSlot
  /\ StatusNamesNoEndedStreamer

\* All of it together: the handlers implement the abstract slot, in which a
\* claim is one step.
Slot == INSTANCE StreamSlot WITH
  Bot <- ViewbotSocket \cup Relay,
  streamer <- currentStreamer,
  generation <- streamGeneration,
  cooldown <- globalCooldown,
  unfinished <- {s \in Human : request[s] = "live"}

ImplementsStreamSlot == Slot!Spec

-----------------------------------------------------------------------------
(* Liveness *)

\* A request that has joined the chain is decided: no task leaves the flag up
\* or blocks the chain, whatever its own outcome.
QueuedRequestsAreDecided ==
  \A s \in Socket : request[s] = "queued" ~> request[s] = "idle"

\* A streamer whose connection is gone leaves the slot, also when the request
\* of a socket that disconnected in the queue put it there.
DeadStreamersAreCleared ==
  \A s \in Socket :
    currentStreamer = s /\ s \notin connected ~> currentStreamer # s

-----------------------------------------------------------------------------
\* lifecycle.js logs "Cleared <socket> from both services" after its clear, and
\* DisconnectHandler.js the same: a leaving socket ends its own stream, never
\* that of another person.  But nothing is read again after the awaits.
LeaversEndNobodyElsesStream ==
  [][\A s \in Socket :
       (\/ stopping[s] = "clearing" /\ stopping'[s] = "idle"
        \/ leaving[s] = "clearing" /\ leaving'[s] = "gone")
         => currentStreamer \notin Human \ {s}]_vars
=============================================================================
