------------------------------ MODULE UrlRelay ------------------------------
(***************************************************************************)
(* The life of URL relays: ViewBotURLService and its collaborators         *)
(* StreamReconnector, IngressJanitor, FFmpegPipeline and ViewerNotifier,   *)
(* against the takeovers of the stream slot.                               *)
(*                                                                         *)
(* Starting, reconnecting, refreshing a token, stopping, ending and        *)
(* cleaning up are async functions that interleave at their awaits.  Only  *)
(* two flags order them: _startingStream and _reconnecting.  An action is  *)
(* one of these functions from one await to the next.                      *)
(*                                                                         *)
(* The slot is reduced to what relays can tell apart: one of them, some    *)
(* human, or nobody.  Takeover has the slot in full.                       *)
(***************************************************************************)
EXTENDS Naturals, FiniteSets

CONSTANTS
  Relay,        \* url-stream-... ids, each used by one startURLStream
  KickRelay,    \* the relays with a kickUsername
  Human,        \* any human streamer
  NoStreamer,   \* null
  MaxArrivals   \* bound on the outside events of one behaviour

ASSUME RelayAssumption ==
  /\ KickRelay \subseteq Relay
  /\ Human \notin Relay
  /\ NoStreamer \notin Relay \cup {Human}
ASSUME BoundAssumption == MaxArrivals \in Nat

VARIABLES
  minted,           \* ids given out
  startingStream,   \* _startingStream
  reconnecting,     \* _reconnecting
  activeStreams,    \* the ids with an entry
  at,               \* where each pipeline handler of each relay is
  closing,          \* stopURLStream and handleStreamEnd calls in flight
  janitor,          \* the background cleanup each start leaves behind
  notifying,        \* relays whose ready-poll runs
  running, dying,   \* encoders that publish; encoders told to exit
  listed,           \* live encoders in the processes of their entry
  currentStreamer,
  takeover, seen,   \* the running takeover and the streamer it read
  arrivals

service == <<minted, startingStream, reconnecting, activeStreams>>
calls == <<at, closing, janitor, notifying>>
encoders == <<running, dying, listed>>
slot == <<currentStreamer, takeover, seen>>
vars == <<service, calls, encoders, slot, arrivals>>

-----------------------------------------------------------------------------
Restart == {"reconnect", "refresh"}
Handler == {"start"} \cup Restart
Phase == {"idle", "validating", "clearing", "extracting", "refusing",
          "fetching", "killing", "backoff", "ending",
          "creating", "waiting"}

\* Who closes a relay: stopURLStream has three callers, handleStreamEnd two.
Stopper == {"start", "takeover", "operator"}
Ender == {"reconnect", "error"}
Closer == Stopper \cup Ender

TakeoverStep == {"idle", "checking", "ousting", "pausing", "live"}

\* A live encoder, by the relay it feeds and a number.
Encoder == Relay \X (Nat \ {0})

TypeOK ==
  /\ minted \subseteq Relay
  /\ startingStream \in BOOLEAN
  /\ reconnecting \in BOOLEAN
  /\ activeStreams \subseteq minted
  /\ at \in [Handler -> [Relay -> Phase]]
  /\ closing \in [Closer -> [Relay -> {"idle", "killing", "deleting"}]]
  /\ janitor \in [Relay -> {"idle", "listing", "stopping"}]
  /\ notifying \subseteq minted
  /\ running \subseteq Encoder
  /\ dying \subseteq Encoder \ running
  /\ listed \subseteq running \cup dying
  /\ currentStreamer \in Relay \cup {Human, NoStreamer}
  /\ takeover \in TakeoverStep
  /\ seen \in Relay \cup {Human, NoStreamer}
  /\ arrivals \in 0..MaxArrivals

Init ==
  /\ minted = {} /\ activeStreams = {} /\ notifying = {}
  /\ startingStream = FALSE /\ reconnecting = FALSE
  /\ at = [h \in Handler |-> [r \in Relay |-> "idle"]]
  /\ closing = [c \in Closer |-> [r \in Relay |-> "idle"]]
  /\ janitor = [r \in Relay |-> "idle"]
  /\ running = {} /\ dying = {} /\ listed = {}
  /\ currentStreamer = NoStreamer
  /\ takeover = "idle" /\ seen = NoStreamer
  /\ arrivals = 0

Arrival ==
  /\ arrivals < MaxArrivals
  /\ arrivals' = arrivals + 1

-----------------------------------------------------------------------------
\* Helpers

Of(r, encs) == {p \in encs : p[1] = r}

\* _supersededByRealStreamer
Superseded == takeover # "idle" \/ currentStreamer = Human

\* Mutant of Kill: an encoder that was signalled still counts as publishing.
KillKeepsRunning(R, gone) ==
  LET told == {p \in listed \cap running : p[1] \in R} IN
  /\ running' = running \ gone
  /\ dying' = (dying \cup told) \ gone
  /\ listed' = listed \ gone

\* The encoders in gone are dead; the listed ones of the relays R are told
\* to exit.
Kill(R, gone) ==
  LET told == {p \in listed \cap running : p[1] \in R} IN
  /\ running' = running \ (gone \cup told)
  /\ dying' = (dying \cup told) \ gone
  /\ listed' = listed \ gone

Goto(h, r, phase) == at' = [at EXCEPT ![h][r] = phase]

\* Mutant of Release: a restart is no reason to lower the flag.
ReleaseStartsOnly(h) ==
  /\ startingStream' = (startingStream /\ h # "start")
  /\ UNCHANGED reconnecting

\* The finally blocks.  A token refresh holds no flag.
Release(h) ==
  /\ startingStream' = (startingStream /\ h # "start")
  /\ reconnecting' = (reconnecting /\ h # "reconnect")

\* stopURLStream or handleStreamEnd up to the await of stopProcesses: a relay
\* without an entry is left alone.
Close(c, R, gone) ==
  LET found == {r \in R \cap activeStreams : closing[c][r] = "idle"} IN
  /\ closing' = [closing EXCEPT ![c] =
                   [r \in Relay |-> IF r \in found THEN "killing" ELSE @[r]]]
  /\ Kill(found, gone)

\* Nobody else is told to exit.
NoClose(gone) == UNCHANGED closing /\ Kill({}, gone)

StillExiting(r) == Of(r, dying) # {}

-----------------------------------------------------------------------------
\* The two ways to close a relay

\* stopProcesses resolved: whatever the entry lists by now is forgotten.
CloseKilled(c, r) ==
  /\ closing[c][r] = "killing"
  /\ ~StillExiting(r)
  /\ listed' = listed \ Of(r, listed)
  /\ closing' = [closing EXCEPT ![c][r] = "deleting"]
  /\ UNCHANGED <<service, at, janitor, notifying, running, dying, slot, arrivals>>

\* Mutant of CloseDone: an entry is dropped by stopURLStream only.
CloseDoneKeepsEntry(c, r) ==
  /\ closing[c][r] = "deleting"
  /\ closing' = [closing EXCEPT ![c][r] = "idle"]
  /\ activeStreams' = IF c \in Stopper THEN activeStreams \ {r} ELSE activeStreams
  /\ currentStreamer' = IF c \in Ender /\ currentStreamer = r
                          THEN NoStreamer ELSE currentStreamer
  /\ UNCHANGED <<minted, startingStream, reconnecting, at, janitor, notifying>>
  /\ UNCHANGED <<encoders, takeover, seen, arrivals>>

\* The ingress is deleted and the entry goes.  Only handleStreamEnd frees the
\* slot, and only if the relay still holds it.
CloseDone(c, r) ==
  /\ closing[c][r] = "deleting"
  /\ closing' = [closing EXCEPT ![c][r] = "idle"]
  /\ activeStreams' = activeStreams \ {r}
  /\ currentStreamer' = IF c \in Ender /\ currentStreamer = r
                          THEN NoStreamer ELSE currentStreamer
  /\ UNCHANGED <<minted, startingStream, reconnecting, at, janitor, notifying>>
  /\ UNCHANGED <<encoders, takeover, seen, arrivals>>

\* Admin routes, the whitelist enforcer, the rotation.
OperatorStops(r) ==
  /\ r \in activeStreams
  /\ closing["operator"][r] = "idle"
  /\ Arrival
  /\ Close("operator", {r}, {})
  /\ UNCHANGED <<service, at, janitor, notifying, slot>>

\* The encoder reports the end of its source.
SourceEnds(r) ==
  /\ Of(r, running) # {}
  /\ Arrival
  /\ Close("error", {r}, {})
  /\ UNCHANGED <<service, at, janitor, notifying, slot>>

-----------------------------------------------------------------------------
\* startURLStream

\* Mutant of StartURLStream: the flag is not looked at.
StartTwice(r) ==
  /\ r \notin minted
  /\ ~Superseded
  /\ Arrival
  /\ minted' = minted \cup {r}
  /\ startingStream' = TRUE
  /\ Goto("start", r, "validating")
  /\ janitor' = [janitor EXCEPT ![r] = "listing"]
  /\ UNCHANGED <<reconnecting, activeStreams, closing, notifying, encoders, slot>>

\* A start that either gate refuses changes nothing.
StartURLStream(r) ==
  /\ r \notin minted
  /\ ~startingStream
  /\ ~Superseded
  /\ Arrival
  /\ minted' = minted \cup {r}
  /\ startingStream' = TRUE
  /\ Goto("start", r, "validating")
  /\ janitor' = [janitor EXCEPT ![r] = "listing"]
  /\ UNCHANGED <<reconnecting, activeStreams, closing, notifying, encoders, slot>>

\* Any await of the start fails, the whitelist refuses or waitForStream times
\* out: the entry goes, an encoder that was spawned stays.
StartFails(r) ==
  /\ at["start"][r] \in {"validating", "extracting", "creating", "waiting"}
  /\ activeStreams' = activeStreams \ {r}
  /\ Goto("start", r, "idle")
  /\ Release("start")
  /\ UNCHANGED <<minted, closing, janitor, notifying, encoders, slot, arrivals>>

StartValidated(r) ==
  /\ at["start"][r] = "validating"
  /\ Close("start", activeStreams, {})
  /\ Goto("start", r, IF activeStreams = {} THEN "extracting" ELSE "clearing")
  /\ UNCHANGED <<service, janitor, notifying, slot, arrivals>>

\* stopAllURLStreams settled; killOrphans signals every encoder there is.
StartCleared(r) ==
  /\ at["start"][r] = "clearing"
  /\ \A q \in Relay : closing["start"][q] = "idle"
  /\ running' = {}
  /\ dying' = dying \cup running
  /\ Goto("start", r, "extracting")
  /\ UNCHANGED <<service, closing, janitor, notifying, listed, slot, arrivals>>

StartTracked(r) ==
  /\ at["start"][r] = "extracting"
  /\ activeStreams' = activeStreams \cup {r}
  /\ Goto("start", r, "creating")
  /\ UNCHANGED <<minted, startingStream, reconnecting, closing, janitor, notifying>>
  /\ UNCHANGED <<encoders, slot, arrivals>>

\* A number none of the live encoders of r has.
Fresh(r) ==
  LET used == {p[2] : p \in Of(r, running \cup dying)} IN
  CHOOSE n \in 1..(Cardinality(used) + 1) : n \notin used

\* _startPipeline: createIngress answered, the encoder is spawned.
PipelineSpawns(h, r) ==
  /\ at[h][r] = "creating"
  /\ running' = running \cup {<<r, Fresh(r)>>}
  /\ listed' = listed \cup {<<r, Fresh(r)>>}
  /\ Goto(h, r, "waiting")
  /\ UNCHANGED <<service, closing, janitor, notifying, dying, slot, arrivals>>

\* waitForStream resolves only on output of an encoder that has not exited.
PipelineUp(h, r) ==
  /\ at[h][r] = "waiting"
  /\ Of(r, running \cup dying) # {}

\* Mutant of Registered: the gate is not read again.
RegisteredUnchecked(h, r) ==
  /\ PipelineUp(h, r)
  /\ currentStreamer' = r
  /\ Goto(h, r, "idle")
  /\ Release(h)

\* _registerAsCurrentStreamer accepts.
Registered(h, r) ==
  /\ PipelineUp(h, r)
  /\ ~Superseded
  /\ currentStreamer' = r
  /\ Goto(h, r, "idle")
  /\ Release(h)

StartRegistered(r) ==
  /\ Registered("start", r)
  /\ notifying' = notifying \cup {r}
  /\ UNCHANGED <<minted, activeStreams, closing, janitor, encoders, takeover, seen, arrivals>>

\* It refuses: stopURLStream is awaited, if there is still something to stop.
StartRefused(r) ==
  /\ PipelineUp("start", r)
  /\ Superseded
  /\ Close("start", {r}, {})
  /\ Goto("start", r, "refusing")
  /\ UNCHANGED <<service, janitor, notifying, slot, arrivals>>

StartTornDown(r) ==
  /\ at["start"][r] = "refusing"
  /\ closing["start"][r] = "idle"
  /\ Goto("start", r, "idle")
  /\ Release("start")
  /\ UNCHANGED <<minted, activeStreams, closing, janitor, notifying, encoders, slot, arrivals>>

\* ViewerNotifier: the poll is over and registers the relay once more.
NotifyViewers(r) ==
  /\ r \in notifying
  /\ notifying' = notifying \ {r}
  /\ currentStreamer' = IF r \in activeStreams /\ ~Superseded
                          THEN r ELSE currentStreamer
  /\ UNCHANGED <<service, at, closing, janitor, encoders, takeover, seen, arrivals>>

-----------------------------------------------------------------------------
\* handleStreamError

Ignored(r) == r \notin activeStreams \/ reconnecting \/ startingStream

\* Mutant of HandleStreamError: the old processes are left to themselves.
HandleStreamErrorKillsNothing(r, gone) ==
  \/ /\ Ignored(r)
     /\ NoClose(gone)
     /\ UNCHANGED <<reconnecting, at>>
  \/ /\ ~Ignored(r)
     /\ reconnecting' = TRUE
     /\ Goto("reconnect", r, "killing")
     /\ NoClose(gone)

\* The encoders in gone are dead.  What is not ignored becomes a reconnect, a
\* token refresh or, after too many of them or an HTTP 4xx, the end.
HandleStreamError(r, gone) ==
  \/ /\ Ignored(r)
     /\ NoClose(gone)
     /\ UNCHANGED <<reconnecting, at>>
  \/ /\ ~Ignored(r)
     /\ reconnecting' = TRUE
     /\ Goto("reconnect", r, "killing")
     /\ Kill({r}, gone)
     /\ UNCHANGED closing
  \/ /\ ~Ignored(r)
     /\ r \in KickRelay
     /\ ~Superseded
     /\ at["refresh"][r] = "idle"
     /\ Goto("refresh", r, "fetching")
     /\ NoClose(gone)
     /\ UNCHANGED reconnecting
  \/ /\ ~Ignored(r)
     /\ Close("error", {r}, gone)
     /\ UNCHANGED <<reconnecting, at>>

\* The health service finds the source offline or stale, or streamlink fails.
HealthReport(r) ==
  /\ r \in activeStreams
  /\ Arrival
  /\ HandleStreamError(r, {})
  /\ UNCHANGED <<minted, startingStream, activeStreams, janitor, notifying, slot>>

\* Its poll finds no progress on a relay that is supposed to stream.
StaleReport(r) ==
  /\ r \in activeStreams
  /\ \A h \in Handler : at[h][r] = "idle"
  /\ Of(r, running \cup dying) = {}
  /\ HandleStreamError(r, {})
  /\ UNCHANGED <<minted, startingStream, activeStreams, janitor, notifying, slot, arrivals>>

\* An encoder exits.  Killed by signal, or with code 0 before it streamed, it
\* is no error; a SIGTERM it handles is one (it exits with 255).
Exits(p) ==
  /\ \/ HandleStreamError(p[1], {p})
     \/ NoClose({p}) /\ UNCHANGED <<reconnecting, at>>
  /\ UNCHANGED <<minted, startingStream, activeStreams, janitor, notifying, slot>>

EncoderCrashes(p) ==
  /\ Arrival
  /\ Exits(p)

EncoderTerminates(p) ==
  /\ Exits(p)
  /\ UNCHANGED arrivals

\* getPlaybackUrl answered; the old processes are stopped.
RefreshFetched(r) ==
  /\ at["refresh"][r] = "fetching"
  /\ Kill({r}, {})
  /\ Goto("refresh", r, "killing")
  /\ UNCHANGED <<service, closing, janitor, notifying, slot, arrivals>>

\* stopProcesses resolved; the teardown of the ingress and the backoff (or the
\* 500 ms delay) follow, with nothing read in between.
RestartKilled(h, r) ==
  /\ at[h][r] = "killing"
  /\ ~StillExiting(r)
  /\ listed' = listed \ Of(r, listed)
  /\ Goto(h, r, "backoff")
  /\ UNCHANGED <<service, closing, janitor, notifying, running, dying, slot, arrivals>>

\* The entry was removed during the delay.
RestartAbandoned(h, r) ==
  /\ at[h][r] = "backoff"
  /\ r \notin activeStreams
  /\ Goto(h, r, "idle")
  /\ Release(h)
  /\ UNCHANGED <<minted, activeStreams, closing, janitor, notifying, encoders, slot, arrivals>>

\* A reconnect stands down for a human after the backoff, or when the
\* registration after its restart is refused: handleStreamEnd is awaited.
ReconnectSuperseded(r) ==
  /\ \/ at["reconnect"][r] = "backoff" /\ r \in activeStreams
     \/ PipelineUp("reconnect", r)
  /\ Superseded
  /\ Close("reconnect", {r}, {})
  /\ Goto("reconnect", r, "ending")
  /\ UNCHANGED <<service, janitor, notifying, slot, arrivals>>

ReconnectEnded(r) ==
  /\ at["reconnect"][r] = "ending"
  /\ closing["reconnect"][r] = "idle"
  /\ Goto("reconnect", r, "idle")
  /\ Release("reconnect")
  /\ UNCHANGED <<minted, activeStreams, closing, janitor, notifying, encoders, slot, arrivals>>

\* A refresh does not look at the slot again before it restarts.
RestartProceeds(h, r) ==
  /\ at[h][r] = "backoff"
  /\ r \in activeStreams
  /\ h = "reconnect" => ~Superseded
  /\ Goto(h, r, "creating")
  /\ UNCHANGED <<service, closing, janitor, notifying, encoders, slot, arrivals>>

RestartRegistered(h, r) ==
  /\ Registered(h, r)
  /\ UNCHANGED <<minted, activeStreams, closing, janitor, notifying, encoders, takeover, seen, arrivals>>

\* The pipeline fails, a refresh has no new URL or its registration is
\* refused: handleStreamEnd is called and not awaited.
RestartFails(h, r) ==
  /\ \/ at[h][r] \in {"creating", "waiting", "fetching"}
     \/ h = "refresh" /\ PipelineUp(h, r) /\ Superseded
  /\ Close("error", {r}, {})
  /\ Goto(h, r, "idle")
  /\ Release(h)
  /\ UNCHANGED <<minted, activeStreams, janitor, notifying, slot, arrivals>>

-----------------------------------------------------------------------------
\* IngressJanitor.cleanupAll(r), in the background of the start of r

\* Every other ingress is deleted, so its encoder exits; the processes of the
\* other tracked relays are told to.
JanitorDeletes(r) ==
  /\ janitor[r] = "listing"
  /\ LET others == running \ Of(r, running) IN
       /\ running' = running \ others
       /\ dying' = dying \cup others
  /\ janitor' = [janitor EXCEPT ![r] = "stopping"]
  /\ UNCHANGED <<service, at, closing, notifying, listed, slot, arrivals>>

JanitorFails(r) ==
  /\ janitor[r] = "listing"
  /\ janitor' = [janitor EXCEPT ![r] = "idle"]
  /\ UNCHANGED <<service, at, closing, notifying, encoders, slot, arrivals>>

\* Every entry but the excluded one is dropped, whenever it was made.
JanitorClears(r) ==
  /\ janitor[r] = "stopping"
  /\ \A q \in activeStreams \ {r} : ~StillExiting(q)
  /\ listed' = {p \in listed : p[1] \notin activeStreams \ {r}}
  /\ activeStreams' = activeStreams \cap {r}
  /\ janitor' = [janitor EXCEPT ![r] = "idle"]
  /\ UNCHANGED <<minted, startingStream, reconnecting, at, closing, notifying>>
  /\ UNCHANGED <<running, dying, slot, arrivals>>

-----------------------------------------------------------------------------
\* The takeover of a human, and the other writers of the slot

TakeoverStarts ==
  /\ takeover = "idle"
  /\ Arrival
  /\ takeover' = "checking"
  /\ seen' = currentStreamer
  /\ UNCHANGED <<service, calls, encoders, currentStreamer>>

TakeoverDenied ==
  /\ takeover = "checking"
  /\ takeover' = "idle"
  /\ seen' = NoStreamer
  /\ UNCHANGED <<service, calls, encoders, currentStreamer, arrivals>>

\* The relay that was current on entry is stopped.
TakeoverOusts ==
  /\ takeover = "checking"
  /\ seen \in Relay
  /\ Close("takeover", {seen}, {})
  /\ takeover' = "ousting"
  /\ UNCHANGED <<service, at, janitor, notifying, currentStreamer, seen, arrivals>>

\* Nothing, or nothing more, to stop.
OustedAll ==
  /\ \/ takeover \in {"ousting", "pausing"}
     \/ takeover = "checking" /\ seen \notin Relay
  /\ \A r \in Relay : closing["takeover"][r] = "idle"

\* An enabled rotation is paused, which stops the relay it drives.
TakeoverPauses(r) ==
  /\ OustedAll
  /\ takeover # "pausing"
  /\ r \in activeStreams
  /\ Close("takeover", {r}, {})
  /\ takeover' = "pausing"
  /\ UNCHANGED <<service, at, janitor, notifying, currentStreamer, seen, arrivals>>

TakeoverGoesLive ==
  /\ OustedAll
  /\ currentStreamer' = Human
  /\ takeover' = "live"
  /\ UNCHANGED <<service, calls, encoders, seen, arrivals>>

TakeoverEnds ==
  /\ takeover = "live"
  /\ takeover' = "idle"
  /\ seen' = NoStreamer
  /\ UNCHANGED <<service, calls, encoders, currentStreamer, arrivals>>

HumanLeaves ==
  /\ currentStreamer = Human
  /\ currentStreamer' = NoStreamer
  /\ UNCHANGED <<service, calls, encoders, takeover, seen, arrivals>>

\* LiveKitService finds no participant for the relay in the slot.
HealthCheckClears(r) ==
  /\ currentStreamer = r
  /\ Of(r, running) = {}
  /\ currentStreamer' = NoStreamer
  /\ UNCHANGED <<service, calls, encoders, takeover, seen, arrivals>>

-----------------------------------------------------------------------------
CloserStep == \E c \in Closer, r \in Relay : CloseKilled(c, r) \/ CloseDone(c, r)

StartStep(r) ==
  \/ StartFails(r) \/ StartValidated(r) \/ StartCleared(r) \/ StartTracked(r)
  \/ PipelineSpawns("start", r)
  \/ StartRegistered(r) \/ StartRefused(r) \/ StartTornDown(r)

RestartStep(h, r) ==
  \/ RestartKilled(h, r) \/ RestartAbandoned(h, r)
  \/ RestartProceeds(h, r) \/ PipelineSpawns(h, r)
  \/ RestartRegistered(h, r) \/ RestartFails(h, r)

ReconnectStep(r) == ReconnectSuperseded(r) \/ ReconnectEnded(r)

JanitorStep(r) == JanitorDeletes(r) \/ JanitorFails(r) \/ JanitorClears(r)

TakeoverNext ==
  \/ TakeoverDenied \/ TakeoverOusts \/ TakeoverGoesLive \/ TakeoverEnds
  \/ \E r \in Relay : TakeoverPauses(r)

\* What happens to the service from outside.
Outside ==
  \/ \E r \in Relay : StartURLStream(r) \/ OperatorStops(r) \/ SourceEnds(r) \/ HealthReport(r)
  \/ \E p \in running : EncoderCrashes(p)
  \/ TakeoverStarts
  \/ HumanLeaves

Next ==
  \/ CloserStep
  \/ \E r \in Relay :
       \/ StartStep(r) \/ ReconnectStep(r) \/ RefreshFetched(r) \/ JanitorStep(r)
       \/ NotifyViewers(r) \/ HealthCheckClears(r) \/ StaleReport(r)
       \/ \E h \in Restart : RestartStep(h, r)
  \/ \E p \in dying : EncoderTerminates(p)
  \/ TakeoverNext
  \/ Outside

Spec == Init /\ [][Next]_vars

\* Awaits settle, timers fire, processes told to exit do (SIGKILL after 3 s),
\* and the health service polls every 30 s.  Nothing makes humans leave,
\* encoders crash or anyone start, stop or take over.
Fairness ==
  /\ WF_vars(CloserStep)
  /\ WF_vars(\E r \in Relay : StartStep(r))
  /\ WF_vars(\E r \in Relay : RestartStep("reconnect", r) \/ ReconnectStep(r))
  /\ WF_vars(\E r \in Relay : RestartStep("refresh", r) \/ RefreshFetched(r))
  /\ WF_vars(\E r \in Relay : JanitorStep(r))
  /\ WF_vars(\E r \in Relay : StaleReport(r))
  /\ WF_vars(\E p \in dying : EncoderTerminates(p))
  /\ WF_vars(TakeoverNext)

FairSpec == Spec /\ Fairness

-----------------------------------------------------------------------------
\* Properties

\* A relay takes the slot neither from a human nor while a takeover runs,
\* whatever happened between the gate at its start and its registration
\* (_registerAsCurrentStreamer re-reads the gate at every write).
RelaysYieldToHumans ==
  [][currentStreamer' \in Relay /\ currentStreamer' # currentStreamer
       => takeover = "idle" /\ currentStreamer # Human]_vars

\* _startingStream and _reconnecting are mutexes: one start and one reconnect
\* at most, and a flag is up exactly while its handler runs
\* (ViewBotURLService.js:52-59).
MutexesHold ==
  /\ \A r, q \in Relay :
       at["start"][r] # "idle" /\ at["start"][q] # "idle" => r = q
  /\ \A r, q \in Relay :
       at["reconnect"][r] # "idle" /\ at["reconnect"][q] # "idle" => r = q
  /\ startingStream <=> \E r \in Relay : at["start"][r] # "idle"
  /\ reconnecting <=> \E r \in Relay : at["reconnect"][r] # "idle"

\* Nothing is restarting or closing r.
Settled(r) ==
  /\ \A h \in Handler : at[h][r] = "idle"
  /\ \A c \in Closer : closing[c][r] = "idle"

\* A settled relay with an entry has at most one live encoder and lists it, so
\* that stopping the relay stops all of its media, however often it was
\* restarted.  (Token refreshes escape the reconnect mutex: Kick relays may
\* break this.)
SettledRelaysOwnTheirEncoder ==
  \A r \in activeStreams \ KickRelay : Settled(r) =>
    /\ Of(r, running) \subseteq listed
    /\ Cardinality(Of(r, running)) <= 1

\* Whoever waits for a flag waits for a bounded time: a start, a reconnect and
\* a takeover that stops relays all come to an end, on every error path.
FlagsComeDown ==
  /\ startingStream ~> ~startingStream
  /\ reconnecting ~> ~reconnecting
  /\ takeover # "idle" ~> takeover = "idle"

\* A tracked relay without a live encoder is restarted or dropped, also when
\* the error that killed the encoder was ignored because of a flag.
DeadRelaysRecoverOrGo ==
  \A r \in Relay :
    r \in activeStreams /\ Of(r, running) = {}
      ~> r \notin activeStreams \/ Of(r, running) # {}

\* No call of the service is in flight.
Quiescent ==
  /\ \A h \in Handler, r \in Relay : at[h][r] = "idle"
  /\ \A c \in Closer, r \in Relay : closing[c][r] = "idle"
  /\ \A r \in Relay : janitor[r] = "idle"

\* "takeover stops active relays": once a human streams and nothing is in
\* flight any more, no relay publishes into the room.
HumansStreamAlone ==
  currentStreamer = Human /\ takeover = "idle" /\ Quiescent => running = {}

=============================================================================
