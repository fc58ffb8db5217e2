------------------------------ MODULE Rotation ------------------------------
(***************************************************************************)
(* The random stream rotation: RandomStreamRotationService with its        *)
(* scheduler, retry state, timer verbs, recovery monitor and the listener  *)
(* of relays that end.                                                     *)
(*                                                                         *)
(* Six kinds of caller run _rotateToNewStream, and they interleave at its  *)
(* awaits: the rotation timer with its chain of retries, forceRotate, the  *)
(* moderation arbiter, the listener, the recovery monitor and start().     *)
(* What keeps them apart is isRestarting, the two timer handles and the    *)
(* start flag of the relay service.  A handle is not reset when its timer  *)
(* fires, so each has three values: null, armed, or spent.                 *)
(*                                                                         *)
(* Relays carry no id here.  What the code compares ids for is whether a   *)
(* stop names the relay that is on air, and that is kept for each caller   *)
(* in aimed.  UrlRelay has the relays in full, Takeover the slot.          *)
(***************************************************************************)
EXTENDS Naturals, FiniteSets

CONSTANTS
  Chain,        \* runs of executeRotationWithRetry, each with its retries
  NoChain,      \* null, for currentRetryTimer
  Attempts,     \* maxInitialRetries
  MaxArrivals   \* bound on the outside events of one behaviour

ASSUME ChainAssumption ==
  /\ NoChain \notin Chain
  /\ Chain \cap {"start", "restart", "listener", "recover", "force", "arbiter",
               "stop", "takeover"} = {}
ASSUME BoundAssumption == Attempts \in Nat \ {0} /\ MaxArrivals \in Nat

VARIABLES
  isEnabled, shouldAutoRestart, isRestarting, isLocked,
  rotationTimer,       \* "null", "armed" or "spent"
  scheduled,           \* nextRotationAt lies ahead
  currentRetryTimer,   \* the chain whose backoff set the handle, or NoChain
  nested,              \* chains whose backoff is that of a retry
  at,                  \* where each caller is
  tries,               \* failed attempts of each start()
  currentStream,       \* "null", "onAir" or "gone"
  startingStream, reconnecting,
  onAir,               \* a relay is in activeStreams
  aimed,               \* callers whose stopURLStream names that relay
  takeover, human,     \* the takeover section; a human holds the slot
  arrivals

switches == <<isEnabled, shouldAutoRestart, isLocked>>
timers == <<rotationTimer, scheduled, currentRetryTimer, nested>>
calls == <<at, tries, isRestarting>>
relays == <<currentStream, startingStream, reconnecting, onAir, aimed>>
slot == <<takeover, human>>
vars == <<switches, timers, calls, relays, slot, arrivals>>

-----------------------------------------------------------------------------
Starter == {"start", "restart"}          \* start() of an operator, of the monitor
Recoverer == {"listener", "recover"}
Restarter == Recoverer \cup {"restart"}   \* the holders of isRestarting
Rotator == Chain \cup Starter \cup Recoverer \cup {"force", "arbiter"}
Caller == Rotator \cup {"stop"}
Phase == {"idle", "waiting", "stopping", "searching", "starting", "aborting",
          "backoff"}

TypeOK ==
  /\ isEnabled \in BOOLEAN /\ shouldAutoRestart \in BOOLEAN
  /\ isRestarting \in BOOLEAN /\ isLocked \in BOOLEAN
  /\ rotationTimer \in {"null", "armed", "spent"}
  /\ scheduled \in BOOLEAN
  /\ currentRetryTimer \in Chain \cup {NoChain}
  /\ nested \subseteq Chain
  /\ at \in [Caller -> Phase]
  /\ tries \in [Starter -> 0..Attempts - 1]
  /\ currentStream \in {"null", "onAir", "gone"}
  /\ startingStream \in BOOLEAN /\ reconnecting \in BOOLEAN
  /\ onAir \in BOOLEAN
  /\ aimed \subseteq Caller \cup {"takeover"}
  /\ takeover \in {"idle", "checking", "ousting", "pausing", "live"}
  /\ human \in BOOLEAN
  /\ arrivals \in 0..MaxArrivals

\* The process is up; the state file may say that the rotation was running.
Init ==
  /\ isEnabled = FALSE /\ shouldAutoRestart \in BOOLEAN
  /\ isRestarting = FALSE /\ isLocked = FALSE
  /\ rotationTimer = "null" /\ scheduled = FALSE
  /\ currentRetryTimer = NoChain /\ nested = {}
  /\ at = [a \in Caller |-> "idle"]
  /\ tries = [a \in Starter |-> 0]
  /\ currentStream = "null" /\ onAir = FALSE /\ aimed = {}
  /\ startingStream = FALSE /\ reconnecting = FALSE
  /\ takeover = "idle" /\ human = FALSE
  /\ arrivals = 0

Arrival ==
  /\ arrivals < MaxArrivals
  /\ arrivals' = arrivals + 1

-----------------------------------------------------------------------------
\* Helpers

\* scheduleNext
ScheduleNext == rotationTimer' = "armed" /\ scheduled' = TRUE

\* The chain that clearTimer settles: its await returns "cancelled".
Cancelled == {c \in Chain : c = currentRetryTimer /\ at[c] = "backoff"}

At(a, phase) == [at EXCEPT ![a] = phase]

Goto(a, phase) == at' = At(a, phase)

\* clearTimer, with which recordSuccess ends; pcs says where the callers are.
ClearRetry(pcs) ==
  /\ at' = [c \in Caller |-> IF c \in Cancelled THEN "idle" ELSE pcs[c]]
  /\ currentRetryTimer' = NoChain
  /\ nested' = {c \in nested : at'[c] # "idle"}

\* A cancelled backoff says so to its own caller only: if that is itself a
\* retry, the caller of the caller sees undefined and takes the defensive
\* branch, which schedules where nothing is armed.
Unwound(timer) ==
  IF Cancelled \cap nested # {} /\ isEnabled /\ timer = "null"
    THEN ScheduleNext
    ELSE rotationTimer' = timer /\ UNCHANGED scheduled

\* The relay leaves the air.
OffAir ==
  /\ onAir' = FALSE
  /\ currentStream' = IF currentStream = "onAir" THEN "gone" ELSE currentStream
  /\ aimed' = {}

\* stopURLStream of caller a resolves.
StopEnds(a) ==
  IF a \in aimed THEN OffAir ELSE UNCHANGED <<onAir, currentStream, aimed>>

\* stopURLStream(currentStream.urlId): it may be another relay by now.
AimAtCurrent(a) ==
  aimed' = IF currentStream = "onAir" THEN aimed \cup {a} ELSE aimed

\* isBusy
Busy == startingStream \/ reconnecting

\* _supersededByRealStreamer
Superseded == takeover # "idle" \/ human

-----------------------------------------------------------------------------
\* _rotateToNewStream

\* Up to the first await: the stop of the current stream, if there is one.
BeginRotate(a) ==
  /\ Goto(a, IF currentStream = "null" THEN "searching" ELSE "stopping")
  /\ AimAtCurrent(a)
  /\ UNCHANGED <<currentStream, startingStream, reconnecting, onAir>>

CurrentStopped(a) ==
  /\ at[a] = "stopping"
  /\ a \in Rotator
  /\ StopEnds(a)
  /\ Goto(a, "searching")
  /\ UNCHANGED <<switches, timers, tries, isRestarting>>
  /\ UNCHANGED <<startingStream, reconnecting, slot, arrivals>>

\* Who holds isRestarting lets go of it.
Restarted(a) ==
  isRestarting' = (isRestarting /\ a \notin Restarter)

\* Its loop over the attempts is left.
Returned(a) == tries' = [b \in Starter |-> IF b = a THEN 0 ELSE tries[b]]

\* executeRotationWithRetry arms a backoff.  The handle of another chain's
\* backoff is overwritten; its timer runs on.
ChainFails(a) ==
  /\ a \in Chain
  /\ Goto(a, "backoff")
  /\ currentRetryTimer' = a
  /\ UNCHANGED <<rotationTimer, scheduled, nested, tries, isRestarting>>

\* Mutant of AttemptFails: one attempt too many.
AttemptFailsOnceMore(a) ==
  /\ a \in Starter
  /\ tries[a] < Attempts
  /\ Goto(a, "waiting")
  /\ tries' = [tries EXCEPT ![a] = @ + 1]
  /\ UNCHANGED <<timers, isRestarting>>

\* _startFirstStreamWithRetry has attempts left.
AttemptFails(a) ==
  /\ a \in Starter
  /\ tries[a] + 1 < Attempts
  /\ Goto(a, "waiting")
  /\ tries' = [tries EXCEPT ![a] = @ + 1]
  /\ UNCHANGED <<timers, isRestarting>>

\* Mutant of ReportsFailure: a failed recovery leaves isRestarting set.
ReportsFailureRestarting(a) ==
  /\ a \notin Chain
  /\ a \in Starter => tries[a] + 1 = Attempts
  /\ IF a = "restart"
       THEN ClearRetry(At(a, "idle")) /\ Unwound(rotationTimer)
       ELSE Goto(a, "idle") /\ UNCHANGED timers
  /\ Returned(a)
  /\ UNCHANGED isRestarting

\* The others report the failure.  The monitor takes a start() that returned
\* for a success, whatever it returned.
ReportsFailure(a) ==
  /\ a \notin Chain
  /\ a \in Starter => tries[a] + 1 = Attempts
  /\ IF a = "restart"
       THEN ClearRetry(At(a, "idle")) /\ Unwound(rotationTimer)
       ELSE Goto(a, "idle") /\ UNCHANGED timers
  /\ Restarted(a) /\ Returned(a)

Fails(a) == ChainFails(a) \/ AttemptFails(a) \/ ReportsFailure(a)

\* Mutant of Succeeds: a recovery leaves isRestarting set.
SucceedsRestarting(a) ==
  /\ IF a = "arbiter"
       THEN Goto(a, "idle") /\ UNCHANGED <<currentRetryTimer, nested>>
       ELSE ClearRetry(At(a, "idle"))
  /\ IF a = "arbiter" \/ (a \in Recoverer /\ rotationTimer # "null")
       THEN UNCHANGED <<rotationTimer, scheduled>>
       ELSE ScheduleNext
  /\ Returned(a)
  /\ UNCHANGED isRestarting

\* Whoever rotated clears the retry and schedules the next rotation: the
\* listener and the monitor only where no handle is left, the arbiter not at
\* all.  None looks at isEnabled or isLocked.
Succeeds(a) ==
  /\ IF a = "arbiter"
       THEN Goto(a, "idle") /\ UNCHANGED <<currentRetryTimer, nested>>
       ELSE ClearRetry(At(a, "idle"))
  /\ IF a = "arbiter" \/ (a \in Recoverer /\ rotationTimer # "null")
       THEN UNCHANGED <<rotationTimer, scheduled>>
       ELSE ScheduleNext
  /\ Restarted(a) /\ Returned(a)

\* No platform, no streamer, an exception.
SearchFails(a) ==
  /\ at[a] = "searching"
  /\ Arrival
  /\ Fails(a)
  /\ UNCHANGED <<switches, relays, slot>>

\* startURLStream refuses at its flag or at its gate.
StartRefused(a) ==
  /\ at[a] = "searching"
  /\ startingStream \/ Superseded
  /\ Fails(a)
  /\ UNCHANGED <<switches, relays, slot, arrivals>>

StartBegins(a) ==
  /\ at[a] = "searching"
  /\ ~startingStream /\ ~Superseded
  /\ startingStream' = TRUE
  /\ Goto(a, "starting")
  /\ UNCHANGED <<switches, timers, tries, isRestarting>>
  /\ UNCHANGED <<currentStream, reconnecting, onAir, aimed, slot, arrivals>>

\* Before it stopped the relay on air, or after.
StartFails(a) ==
  /\ at[a] = "starting"
  /\ Arrival
  /\ startingStream' = FALSE
  /\ OffAir \/ UNCHANGED <<onAir, currentStream, aimed>>
  /\ Fails(a)
  /\ UNCHANGED <<switches, reconnecting, slot>>

\* Mutant of StartDone: the gate is not looked at again.
StartDoneUnchecked(a) ==
  /\ at[a] = "starting"
  /\ startingStream' = FALSE
  /\ onAir' = TRUE /\ currentStream' = "onAir" /\ aimed' = {}
  /\ Succeeds(a)
  /\ UNCHANGED <<switches, reconnecting, slot, arrivals>>

\* The relay publishes, in the place of any other, and becomes the current
\* stream.
StartDone(a) ==
  /\ at[a] = "starting"
  /\ ~Superseded
  /\ startingStream' = FALSE
  /\ onAir' = TRUE /\ currentStream' = "onAir" /\ aimed' = {}
  /\ Succeeds(a)
  /\ UNCHANGED <<switches, reconnecting, slot, arrivals>>

\* A takeover came first: registration is refused and the relay is stopped,
\* inside startURLStream.
StartSuperseded(a) ==
  /\ at[a] = "starting"
  /\ Superseded
  /\ onAir' = TRUE /\ aimed' = {a}
  /\ currentStream' = IF currentStream = "onAir" THEN "gone" ELSE currentStream
  /\ Goto(a, "aborting")
  /\ UNCHANGED <<switches, timers, tries, isRestarting>>
  /\ UNCHANGED <<startingStream, reconnecting, slot, arrivals>>

AbortDone(a) ==
  /\ at[a] = "aborting"
  /\ StopEnds(a)
  /\ startingStream' = FALSE
  /\ Fails(a)
  /\ UNCHANGED <<switches, reconnecting, slot, arrivals>>

-----------------------------------------------------------------------------
\* The rotation timer and the retries

\* A rotation that is off or locked lets its timer pass.  During a restart or
\* a takeover the timer is armed again, which changes nothing here.
TimerSkips ==
  /\ rotationTimer = "armed"
  /\ ~isEnabled \/ isLocked
  /\ rotationTimer' = "spent" /\ scheduled' = FALSE
  /\ UNCHANGED <<switches, currentRetryTimer, nested, calls, relays, slot, arrivals>>

TimerRotates(c) ==
  /\ rotationTimer = "armed"
  /\ isEnabled /\ ~isLocked /\ ~isRestarting /\ takeover = "idle"
  /\ at[c] = "idle"
  /\ rotationTimer' = "spent" /\ scheduled' = FALSE
  /\ BeginRotate(c)
  /\ UNCHANGED <<switches, currentRetryTimer, nested, tries>>
  /\ UNCHANGED <<isRestarting, slot, arrivals>>

\* nextRotationAt goes by without a timer.
TimePasses ==
  /\ scheduled /\ rotationTimer # "armed"
  /\ scheduled' = FALSE
  /\ UNCHANGED <<switches, rotationTimer, currentRetryTimer, nested>>
  /\ UNCHANGED <<calls, relays, slot, arrivals>>

RetryMayRun == isEnabled /\ ~isLocked /\ takeover = "idle"

RetryRotates(c) ==
  /\ at[c] = "backoff"
  /\ RetryMayRun
  /\ nested' = nested \cup {c}
  /\ BeginRotate(c)
  /\ UNCHANGED <<switches, rotationTimer, scheduled, currentRetryTimer>>
  /\ UNCHANGED <<tries, isRestarting, slot, arrivals>>

\* The retry ends without a rotation and its handle stays.  The chain
\* schedules only where both handles are null.
RetryGivesUp(c) ==
  /\ at[c] = "backoff"
  /\ ~RetryMayRun
  /\ Goto(c, "idle")
  /\ nested' = nested \ {c}
  /\ IF isEnabled /\ rotationTimer = "null" /\ currentRetryTimer = NoChain
       THEN ScheduleNext
       ELSE UNCHANGED <<rotationTimer, scheduled>>
  /\ UNCHANGED <<switches, currentRetryTimer, tries, isRestarting>>
  /\ UNCHANGED <<relays, slot, arrivals>>

-----------------------------------------------------------------------------
\* The verbs of RotationTimerController

ForceRotate ==
  /\ at["force"] = "idle"
  /\ isEnabled /\ takeover = "idle"
  /\ Arrival
  /\ isLocked' = FALSE
  /\ rotationTimer' = "null"
  /\ BeginRotate("force")
  /\ UNCHANGED <<isEnabled, shouldAutoRestart, scheduled, currentRetryTimer>>
  /\ UNCHANGED <<nested, tries, isRestarting, slot>>

\* extend, reduce and their admin forms.  Only the latter mind the lock.
Reschedule ==
  /\ isEnabled /\ scheduled
  /\ Arrival
  /\ ScheduleNext
  /\ UNCHANGED <<switches, currentRetryTimer, nested, calls, relays, slot>>

Lock ==
  /\ isEnabled /\ ~isLocked /\ scheduled
  /\ Arrival
  /\ isLocked' = TRUE
  /\ ClearRetry(at)
  /\ Unwound("null")
  /\ UNCHANGED <<isEnabled, shouldAutoRestart, tries, isRestarting>>
  /\ UNCHANGED <<relays, slot>>

Unlock ==
  /\ isEnabled /\ isLocked
  /\ Arrival
  /\ isLocked' = FALSE
  /\ ScheduleNext
  /\ UNCHANGED <<isEnabled, shouldAutoRestart, currentRetryTimer, nested>>
  /\ UNCHANGED <<calls, relays, slot>>

\* A ban or a second strike rotates, whatever state the rotation is in.
ArbiterRotates ==
  /\ at["arbiter"] = "idle"
  /\ Arrival
  /\ BeginRotate("arbiter")
  /\ UNCHANGED <<switches, timers, tries, isRestarting, slot>>

-----------------------------------------------------------------------------
\* start, stop and pause

Starts(a) ==
  /\ at[a] = "idle"
  /\ ~isEnabled
  /\ isEnabled' = TRUE /\ shouldAutoRestart' = TRUE
  /\ Goto(a, "waiting")
  /\ UNCHANGED <<isLocked, timers, tries, relays, slot>>

OperatorStarts ==
  /\ Starts("start")
  /\ Arrival
  /\ UNCHANGED isRestarting

\* The viewbots are stopped, or the delay of a failed attempt is over.
Attempt(a) ==
  /\ at[a] = "waiting"
  /\ BeginRotate(a)
  /\ UNCHANGED <<switches, timers, tries, isRestarting, slot, arrivals>>

OperatorStops ==
  /\ at["stop"] = "idle"
  /\ isEnabled \/ shouldAutoRestart
  /\ Arrival
  /\ isEnabled' = FALSE /\ shouldAutoRestart' = FALSE
  /\ rotationTimer' = "null"
  /\ ClearRetry(At("stop", IF currentStream = "null" THEN "idle" ELSE "stopping"))
  /\ AimAtCurrent("stop")
  /\ UNCHANGED <<isLocked, scheduled, tries, isRestarting>>
  /\ UNCHANGED <<currentStream, startingStream, reconnecting, onAir, slot>>

\* Whatever the current stream is by then, it is forgotten.
Stopped ==
  /\ at["stop"] = "stopping"
  /\ Goto("stop", "idle")
  /\ onAir' = (onAir /\ "stop" \notin aimed)
  /\ aimed' = IF "stop" \in aimed THEN {} ELSE aimed
  /\ currentStream' = "null"
  /\ UNCHANGED <<switches, timers, tries, isRestarting>>
  /\ UNCHANGED <<startingStream, reconnecting, slot, arrivals>>

-----------------------------------------------------------------------------
\* The recovery monitor and the listener

\* Mutant of MonitorMayAct: isRestarting is not looked at.
MonitorIgnoresRestarts ==
  /\ currentRetryTimer = NoChain
  /\ takeover = "idle"
  /\ ~Busy
  /\ ~human

\* The conditions under which a check of the monitor goes on.
MonitorMayAct ==
  /\ ~isRestarting
  /\ currentRetryTimer = NoChain
  /\ takeover = "idle"
  /\ ~Busy
  /\ ~human

MonitorStarts ==
  /\ MonitorMayAct
  /\ shouldAutoRestart
  /\ Starts("restart")
  /\ isRestarting' = TRUE
  /\ UNCHANGED arrivals

MonitorRecovers ==
  /\ MonitorMayAct
  /\ isEnabled /\ ~onAir
  /\ at["recover"] = "idle"
  /\ isRestarting' = TRUE
  /\ BeginRotate("recover")
  /\ UNCHANGED <<switches, timers, tries, slot, arrivals>>

MonitorReschedules ==
  /\ MonitorMayAct
  /\ isEnabled /\ onAir /\ rotationTimer = "null"
  /\ ScheduleNext
  /\ UNCHANGED <<switches, currentRetryTimer, nested, calls, relays, slot, arrivals>>

\* The relay on air ends by itself; an enabled rotation waits a moment.
RelayEnds ==
  /\ onAir
  /\ at["listener"] = "idle"
  /\ Arrival
  /\ OffAir
  /\ IF isEnabled THEN Goto("listener", "waiting") ELSE UNCHANGED at
  /\ UNCHANGED <<switches, timers, tries, isRestarting>>
  /\ UNCHANGED <<startingStream, reconnecting, slot>>

ListenerMayAct == ~Busy /\ ~isRestarting /\ currentRetryTimer = NoChain /\ ~onAir

ListenerSkips ==
  /\ at["listener"] = "waiting"
  /\ ~ListenerMayAct
  /\ Goto("listener", "idle")
  /\ UNCHANGED <<switches, timers, tries, isRestarting>>
  /\ UNCHANGED <<relays, slot, arrivals>>

ListenerRotates ==
  /\ at["listener"] = "waiting"
  /\ ListenerMayAct
  /\ isRestarting' = TRUE
  /\ BeginRotate("listener")
  /\ UNCHANGED <<switches, timers, tries, slot, arrivals>>

-----------------------------------------------------------------------------
\* Around the rotation: reconnects of the relay, and takeovers

RelayFalters ==
  /\ onAir /\ ~Busy
  /\ Arrival
  /\ reconnecting' = TRUE
  /\ UNCHANGED <<switches, timers, calls, currentStream, startingStream>>
  /\ UNCHANGED <<onAir, aimed, slot>>

ReconnectEnds ==
  /\ reconnecting
  /\ reconnecting' = FALSE
  /\ UNCHANGED <<switches, timers, calls, currentStream, startingStream>>
  /\ UNCHANGED <<onAir, aimed, slot, arrivals>>

TakeoverBegins ==
  /\ takeover = "idle"
  /\ Arrival
  /\ takeover' = "checking"
  /\ UNCHANGED <<switches, timers, calls, relays, human>>

TakeoverDenied ==
  /\ takeover = "checking"
  /\ takeover' = "idle"
  /\ UNCHANGED <<switches, timers, calls, relays, human, arrivals>>

\* The relay that holds the slot is stopped; one that aborts never held it.
TakeoverOusts ==
  /\ takeover = "checking"
  /\ takeover' = "ousting"
  /\ aimed' = IF onAir /\ \A a \in Rotator : at[a] # "aborting"
                THEN aimed \cup {"takeover"} ELSE aimed
  /\ UNCHANGED <<switches, timers, calls, currentStream, startingStream>>
  /\ UNCHANGED <<reconnecting, onAir, human, arrivals>>

\* pause()
TakeoverPauses ==
  /\ takeover = "ousting"
  /\ isEnabled
  /\ StopEnds("takeover")
  /\ isEnabled' = FALSE
  /\ rotationTimer' = "null"
  /\ ClearRetry(at)
  /\ takeover' = "pausing"
  /\ UNCHANGED <<shouldAutoRestart, isLocked, scheduled, tries>>
  /\ UNCHANGED <<isRestarting, startingStream, reconnecting, human, arrivals>>

\* setStreamer, after the pause or without one.
TakeoverInstalls ==
  /\ \/ /\ takeover = "ousting" /\ ~isEnabled
        /\ StopEnds("takeover")
     \/ /\ takeover = "pausing"
        /\ currentStream' = "null"
        /\ UNCHANGED <<onAir, aimed>>
  /\ takeover' = "live"
  /\ human' = TRUE
  /\ UNCHANGED <<switches, timers, calls, startingStream, reconnecting, arrivals>>

TakeoverEnds ==
  /\ takeover = "live"
  /\ takeover' = "idle"
  /\ UNCHANGED <<switches, timers, calls, relays, human, arrivals>>

HumanLeaves ==
  /\ human
  /\ Arrival
  /\ human' = FALSE
  /\ UNCHANGED <<switches, timers, calls, relays, takeover>>

-----------------------------------------------------------------------------
Rotates(a) ==
  \/ CurrentStopped(a) \/ SearchFails(a) \/ StartRefused(a) \/ StartBegins(a)
  \/ StartFails(a) \/ StartDone(a) \/ StartSuperseded(a) \/ AbortDone(a)

Retries(c) == RetryRotates(c) \/ RetryGivesUp(c)

Timer == TimerSkips \/ \E c \in Chain : TimerRotates(c)

Verbs ==
  \/ ForceRotate \/ Reschedule \/ Lock \/ Unlock \/ ArbiterRotates
  \/ OperatorStarts \/ OperatorStops

Monitor == MonitorStarts \/ MonitorRecovers \/ MonitorReschedules

Listener == ListenerSkips \/ ListenerRotates

Takes ==
  \/ TakeoverDenied \/ TakeoverOusts \/ TakeoverPauses
  \/ TakeoverInstalls \/ TakeoverEnds

Next ==
  \/ \E a \in Rotator : Rotates(a)
  \/ \E c \in Chain : Retries(c)
  \/ \E a \in Starter : Attempt(a)
  \/ Timer \/ TimePasses \/ Verbs \/ Stopped
  \/ Monitor \/ Listener \/ RelayEnds \/ RelayFalters \/ ReconnectEnds
  \/ TakeoverBegins \/ Takes \/ HumanLeaves

Spec == Init /\ [][Next]_vars

\* Awaits resolve, timers fire, the monitor keeps polling and a takeover runs
\* to its end.  Nothing makes anyone come, leave or fail.
Fairness ==
  /\ \A a \in Rotator : WF_vars(Rotates(a))
  /\ \A c \in Chain : WF_vars(Retries(c))
  /\ WF_vars(Timer) /\ WF_vars(Monitor) /\ WF_vars(Listener)
  /\ \A a \in Starter : WF_vars(Attempt(a))
  /\ WF_vars(Stopped) /\ WF_vars(ReconnectEnds) /\ WF_vars(Takes)

FairSpec == Spec /\ Fairness

-----------------------------------------------------------------------------
\* Properties

\* The listener, the recovery monitor and a start() of the monitor run one at
\* a time, and isRestarting is up exactly while one of them runs: each waits
\* between its decision and its rotation, and any may start meanwhile
\* (RotationRecoveryMonitor, RotationDependencyWiring).
InRestart ==
  {a \in Restarter : at[a] # "idle" /\ ~(a = "listener" /\ at[a] = "waiting")}

OneRecoveryAtATime ==
  /\ Cardinality(InRestart) <= 1
  /\ isRestarting <=> InRestart # {}

\* Once a human is installed no relay of the rotation is on air, save one
\* that is being stopped: rotations that passed their checks before the
\* takeover finish after it (startURLStream, pause, the takeover section).
RotationsYieldToHumans ==
  human /\ takeover = "idle" /\ onAir => \E a \in Caller : a \in aimed

\* isRestarting comes down again: nothing else would let the monitor act.
RestartsEnd == isRestarting ~> ~isRestarting

\* The rotation should be running: it was started, and no human streams.
Wanted == shouldAutoRestart /\ ~human /\ takeover = "idle"

\* The handle of a retry that ended without a rotation.
StaleRetry == currentRetryTimer # NoChain /\ at[currentRetryTimer] = "idle"

\* A rotation that should run gets a relay on air again, whatever failed,
\* unless the handle of a retry that is over keeps the monitor away: that
\* handle is the only thing that can (the recovery monitor's three cases).
RecoversUnlessStale == Wanted ~> (onAir \/ ~Wanted \/ StaleRetry)

\* A paused rotation resumes when the human has left: pause() is said to keep
\* auto-restart enabled "so it resumes when the real streamer stops".
PausedRotationResumes == (Wanted /\ ~isEnabled) ~> (isEnabled \/ ~Wanted)
=============================================================================
