---------------------------- MODULE RotationProofs ----------------------------
(***************************************************************************)
(* Proofs about Rotation, for any number of retry chains and of attempts.  *)
(***************************************************************************)
EXTENDS Rotation, FiniteSetTheorems, TLAPS

-----------------------------------------------------------------------------
(* The inductive invariant *)

SwitchTypes == isEnabled \in BOOLEAN /\ shouldAutoRestart \in BOOLEAN /\ isLocked \in BOOLEAN

TimerTypes ==
  /\ rotationTimer \in {"null", "armed", "spent"}
  /\ scheduled \in BOOLEAN
  /\ currentRetryTimer \in Chain \cup {NoChain}
  /\ nested \subseteq Chain

AtType == at \in [Caller -> Phase]
TriesType == tries \in [Starter -> 0..Attempts - 1]

AirTypes ==
  /\ currentStream \in {"null", "onAir", "gone"}
  /\ onAir \in BOOLEAN
  /\ aimed \subseteq Caller \cup {"takeover"}

SlotTypes ==
  /\ takeover \in {"idle", "checking", "ousting", "pausing", "live"}
  /\ human \in BOOLEAN

\* TypeOK by the groups of variables that the actions change together.
Types ==
  /\ SwitchTypes /\ TimerTypes
  /\ AtType /\ TriesType
  /\ isRestarting \in BOOLEAN
  /\ startingStream \in BOOLEAN /\ reconnecting \in BOOLEAN
  /\ AirTypes /\ SlotTypes
  /\ arrivals \in 0..MaxArrivals

LEMMA TypeGroups == TypeOK <=> Types
BY DEF TypeOK, Types, SwitchTypes, TimerTypes, AtType, TriesType, AirTypes, SlotTypes

\* Caller a runs under isRestarting, or inside startURLStream.
Restarting(a) == a \in Restarter /\ at[a] # "idle" /\ ~(a = "listener" /\ at[a] = "waiting")
Holding(a) == at[a] \in {"starting", "aborting"}

\* isRestarting is up exactly while one caller restarts ...
OneRestart ==
  /\ \A a, b \in Caller : Restarting(a) /\ Restarting(b) => a = b
  /\ isRestarting <=> \E a \in Caller : Restarting(a)

\* ... and so is the start flag of the relay service while one starts a relay.
OneStart ==
  /\ \A a, b \in Caller : Holding(a) /\ Holding(b) => a = b
  /\ startingStream <=> \E a \in Caller : Holding(a)

\* A relay whose start is being aborted is aimed at by that abort.
AbortsAim == \A a \in Caller : at[a] = "aborting" /\ onAir => a \in aimed

CallersAim == \E a \in Caller : a \in aimed

\* From the moment the takeover has stopped what it saw on air, whatever is on
\* air is being stopped; so it is as long as a human has the slot.
TakeoversAim ==
  /\ takeover = "ousting" /\ onAir => aimed # {}
  /\ takeover \in {"pausing", "live"} /\ onAir => CallersAim
  /\ takeover \in {"idle", "checking"} /\ human /\ onAir => CallersAim

Inv == Types /\ OneRestart /\ OneStart /\ AbortsAim /\ TakeoversAim

-----------------------------------------------------------------------------
(* Where the callers are *)

\* A step of caller a cancels, besides, at most a retry in its backoff.
Same(b) == at'[b] = at[b] \/ (b \in Chain /\ at[b] = "backoff" /\ at'[b] = "idle")
OthersSame(a) == AtType' /\ \A b \in Caller \ {a} : Same(b)

LEMMA GotoMoves ==
  ASSUME AtType, NEW a \in Caller, NEW phase \in Phase, Goto(a, phase)
  PROVE  at'[a] = phase /\ OthersSame(a)
BY DEF AtType, Goto, At, OthersSame, Same

\* clearTimer and the end of a rotation.
LEMMA ClearMoves ==
  ASSUME AtType, NEW a \in Caller, NEW phase \in Phase, at[a] # "backoff",
         ClearRetry(At(a, phase))
  PROVE  at'[a] = phase /\ OthersSame(a)
<1>1. a \notin Cancelled
  BY DEF Cancelled
<1>2. \A b \in Caller : at'[b] = IF b \in Cancelled THEN "idle" ELSE At(a, phase)[b]
  BY DEF ClearRetry
<1>3. AtType'
  BY DEF AtType, ClearRetry, At, Phase
<1>4. \A b \in Caller \ {a} : Same(b)
  BY <1>2 DEF Cancelled, Same, At, AtType
<1> QED
  BY <1>1, <1>2, <1>3, <1>4 DEF OthersSame, At, AtType

\* clearTimer of lock and pause.
LEMMA ClearSame ==
  ASSUME AtType, ClearRetry(at)
  PROVE  AtType' /\ \A b \in Caller : Same(b)
<1>1. \A b \in Caller : at'[b] = IF b \in Cancelled THEN "idle" ELSE at[b]
  BY DEF ClearRetry
<1>2. AtType'
  BY DEF AtType, ClearRetry, Phase
<1> QED
  BY <1>1, <1>2 DEF Cancelled, Same

\* Retries restart nothing and a cancelled one holds no start.
LEMMA SameEffect ==
  ASSUME AtType, NEW b \in Caller, Same(b)
  PROVE  /\ Restarting(b)' <=> Restarting(b)
         /\ Holding(b)' <=> Holding(b)
         /\ (at'[b] = "aborting") <=> (at[b] = "aborting")
<1>1. b \in Chain => b \notin Restarter
  BY ChainAssumption DEF Restarter, Recoverer
<1> QED
  BY <1>1 DEF Same, Restarting, Holding

\* A step of caller a neither enters nor leaves the restart, leaves it, or
\* enters it.
LEMMA RestartKept ==
  ASSUME AtType, OneRestart, NEW a \in Caller, OthersSame(a),
         isRestarting' = isRestarting, Restarting(a)' <=> Restarting(a)
  PROVE  OneRestart'
<1>1. \A b \in Caller : Restarting(b)' <=> Restarting(b)
  BY SameEffect DEF OthersSame
<1> QED
  BY <1>1, Zenon DEF OneRestart

LEMMA RestartLeft ==
  ASSUME AtType, OneRestart, NEW a \in Caller, OthersSame(a),
         isRestarting' = FALSE, Restarting(a), ~Restarting(a)'
  PROVE  OneRestart'
<1>1. \A b \in Caller : ~Restarting(b)'
  BY SameEffect DEF OneRestart, OthersSame
<1> QED
  BY <1>1 DEF OneRestart

LEMMA RestartEntered ==
  ASSUME AtType, OneRestart, NEW a \in Caller, OthersSame(a),
         ~isRestarting, isRestarting' = TRUE, Restarting(a)'
  PROVE  OneRestart'
<1>1. \A b \in Caller \ {a} : ~Restarting(b)'
  BY SameEffect DEF OneRestart, OthersSame
<1> QED
  BY <1>1 DEF OneRestart

\* The same for the start flag.
LEMMA StartKept ==
  ASSUME AtType, OneStart, NEW a \in Caller, OthersSame(a),
         startingStream' = startingStream, Holding(a)' <=> Holding(a)
  PROVE  OneStart'
<1>1. \A b \in Caller : Holding(b)' <=> Holding(b)
  BY SameEffect DEF OthersSame
<1> QED
  BY <1>1, Zenon DEF OneStart

LEMMA StartLeft ==
  ASSUME AtType, OneStart, NEW a \in Caller, OthersSame(a),
         startingStream' = FALSE, Holding(a), ~Holding(a)'
  PROVE  OneStart'
<1>1. \A b \in Caller : ~Holding(b)'
  BY SameEffect DEF OneStart, OthersSame
<1> QED
  BY <1>1 DEF OneStart

LEMMA StartEntered ==
  ASSUME AtType, OneStart, NEW a \in Caller, OthersSame(a),
         ~startingStream, startingStream' = TRUE, Holding(a)'
  PROVE  OneStart'
<1>1. \A b \in Caller \ {a} : ~Holding(b)'
  BY SameEffect DEF OneStart, OthersSame
<1> QED
  BY <1>1 DEF OneStart

-----------------------------------------------------------------------------
(* How a rotation ends *)

LEMMA Names ==
  /\ Chain \subseteq Rotator /\ Starter \subseteq Rotator /\ Recoverer \subseteq Rotator
  /\ Rotator \subseteq Caller /\ Restarter \subseteq Rotator
  /\ {"force", "arbiter"} \subseteq Rotator /\ "stop" \in Caller
  /\ Chain \cap (Starter \cup Restarter \cup {"force", "arbiter", "stop", "takeover"}) = {}
  /\ "stop" \notin Restarter
BY ChainAssumption DEF Rotator, Starter, Recoverer, Restarter, Caller

\* What clearTimer leaves of the timers has its type.
LEMMA ClearTypes ==
  ASSUME TimerTypes, NEW pcs, ClearRetry(pcs)
  PROVE  currentRetryTimer' \in Chain \cup {NoChain} /\ nested' \subseteq Chain
BY DEF TimerTypes, ClearRetry

LEMMA UnwoundTypes ==
  ASSUME TimerTypes, NEW timer \in {"null", "armed", "spent"}, Unwound(timer)
  PROVE  rotationTimer' \in {"null", "armed", "spent"} /\ scheduled' \in BOOLEAN
BY Zenon DEF TimerTypes, Unwound, ScheduleNext

LEMMA ReturnedType ==
  ASSUME TriesType, NEW a, Returned(a)
  PROVE  TriesType'
<1>1. 0 \in 0..Attempts - 1
  BY BoundAssumption
<1> QED
  BY <1>1 DEF TriesType, Returned

\* A caller that holds isRestarting lets go of it, another leaves it alone.
LEMMA RestartedKeeps ==
  ASSUME AtType, OneRestart, NEW a \in Caller, OthersSame(a), Restarted(a),
         isRestarting \in BOOLEAN, at[a] # "idle", at[a] # "waiting", at'[a] = "idle"
  PROVE  OneRestart' /\ isRestarting' \in BOOLEAN
<1>1. CASE a \in Restarter
  <2>1. isRestarting' = FALSE
    BY <1>1 DEF Restarted
  <2>2. Restarting(a) /\ ~Restarting(a)'
    BY <1>1 DEF Restarting
  <2> QED
    BY <2>1, <2>2, RestartLeft
<1>2. CASE a \notin Restarter
  <2>1. isRestarting' = isRestarting
    BY <1>2, Zenon DEF Restarted
  <2>2. Restarting(a)' <=> Restarting(a)
    BY <1>2 DEF Restarting
  <2> QED
    BY <2>1, <2>2, RestartKept
<1> QED
  BY <1>1, <1>2

InRotation(a) == at[a] \in {"searching", "starting", "aborting"}

\* A rotation that ended holds no start.
EndsWell(a) ==
  /\ OthersSame(a)
  /\ at'[a] \in {"idle", "waiting", "backoff"}
  /\ TimerTypes' /\ TriesType'
  /\ OneRestart' /\ isRestarting' \in BOOLEAN

LEMMA FailsEnds ==
  ASSUME Types, OneRestart, NEW a \in Rotator, InRotation(a), Fails(a)
  PROVE  EndsWell(a)
<1> USE Names
<1>0. AtType /\ TriesType /\ TimerTypes /\ isRestarting \in BOOLEAN
  BY DEF Types
<1>1. CASE ChainFails(a)
  <2>1. a \in Chain /\ a \notin Restarter
    BY <1>1 DEF ChainFails
  <2>2. at'[a] = "backoff" /\ OthersSame(a)
    BY <1>0, <1>1, GotoMoves DEF ChainFails, Phase
  <2>3. TimerTypes'
    BY <1>0, <1>1 DEF ChainFails, TimerTypes
  <2>4. Restarting(a)' <=> Restarting(a)
    BY <2>1 DEF Restarting
  <2>5. isRestarting' = isRestarting /\ tries' = tries
    BY <1>1 DEF ChainFails
  <2> QED
    BY <1>0, <2>2, <2>3, <2>4, <2>5, RestartKept DEF EndsWell, TriesType
<1>2. CASE AttemptFails(a)
  <2>1. a \in Starter /\ a # "listener"
    BY <1>2 DEF AttemptFails, Starter
  <2>2. at'[a] = "waiting" /\ OthersSame(a)
    BY <1>0, <1>2, GotoMoves DEF AttemptFails, Phase
  <2>3. TimerTypes'
    BY <1>0, <1>2 DEF AttemptFails, TimerTypes, timers
  <2>4. Restarting(a)' <=> Restarting(a)
    BY <2>1, <2>2 DEF Restarting, InRotation
  <2>5. isRestarting' = isRestarting
    BY <1>2 DEF AttemptFails
  <2>6. TriesType'
    <3>1. tries[a] \in 0..Attempts - 1
      BY <1>0, <2>1 DEF TriesType
    <3>2. tries[a] + 1 \in 0..Attempts - 1
      BY <1>2, <3>1, BoundAssumption DEF AttemptFails
    <3> QED
      BY <1>0, <1>2, <3>2 DEF AttemptFails, TriesType
  <2> QED
    BY <1>0, <2>2, <2>3, <2>4, <2>5, <2>6, RestartKept DEF EndsWell
<1>3. CASE ReportsFailure(a)
  <2>1. TriesType'
    BY <1>0, <1>3, ReturnedType DEF ReportsFailure
  <2>2. at'[a] = "idle" /\ OthersSame(a)
    <3>1. CASE a = "restart"
      BY <1>0, <1>3, <3>1, ClearMoves DEF ReportsFailure, InRotation, Phase
    <3>2. CASE a # "restart"
      BY <1>0, <1>3, <3>2, GotoMoves DEF ReportsFailure, Phase
    <3> QED
      BY <3>1, <3>2
  <2>3. TimerTypes'
    <3>1. CASE a = "restart"
      <4>1. ClearRetry(At(a, "idle")) /\ Unwound(rotationTimer)
        BY <1>3, <3>1 DEF ReportsFailure
      <4>2. rotationTimer \in {"null", "armed", "spent"}
        BY <1>0 DEF TimerTypes
      <4> QED
        BY <1>0, <4>1, <4>2, ClearTypes, UnwoundTypes DEF TimerTypes
    <3>2. CASE a # "restart"
      BY <1>0, <1>3, <3>2 DEF ReportsFailure, TimerTypes, timers
    <3> QED
      BY <3>1, <3>2
  <2>4. OneRestart' /\ isRestarting' \in BOOLEAN
    BY <1>0, <1>3, <2>2, RestartedKeeps DEF ReportsFailure, InRotation
  <2> QED
    BY <2>1, <2>2, <2>3, <2>4 DEF EndsWell
<1> QED
  BY <1>1, <1>2, <1>3 DEF Fails

LEMMA SucceedsEnds ==
  ASSUME Types, OneRestart, NEW a \in Rotator, InRotation(a), Succeeds(a)
  PROVE  EndsWell(a)
<1> USE Names
<1>0. AtType /\ TriesType /\ TimerTypes /\ isRestarting \in BOOLEAN
  BY DEF Types
<1>1. TriesType'
  BY <1>0, ReturnedType DEF Succeeds
<1>2. at'[a] = "idle" /\ OthersSame(a)
  <2>1. CASE a = "arbiter"
    BY <1>0, <2>1, GotoMoves DEF Succeeds, Phase
  <2>2. CASE a # "arbiter"
    BY <1>0, <2>2, ClearMoves DEF Succeeds, InRotation, Phase
  <2> QED
    BY <2>1, <2>2
<1>3. TimerTypes'
  <2>1. currentRetryTimer' \in Chain \cup {NoChain} /\ nested' \subseteq Chain
    <3>1. CASE a = "arbiter"
      BY <1>0, <3>1 DEF Succeeds, TimerTypes
    <3>2. CASE a # "arbiter"
      BY <1>0, <3>2, ClearTypes DEF Succeeds
    <3> QED
      BY <3>1, <3>2
  <2>2. rotationTimer' \in {"null", "armed", "spent"} /\ scheduled' \in BOOLEAN
    BY <1>0, Zenon DEF Succeeds, ScheduleNext, TimerTypes
  <2> QED
    BY <2>1, <2>2 DEF TimerTypes
<1>4. OneRestart' /\ isRestarting' \in BOOLEAN
  BY <1>0, <1>2, RestartedKeeps DEF Succeeds, InRotation
<1> QED
  BY <1>1, <1>2, <1>3, <1>4 DEF EndsWell

-----------------------------------------------------------------------------
(* What is on air and who aims at it *)

\* Nothing comes on air and nobody's aim is lost while something is.
AirKept == onAir' => onAir /\ aimed \subseteq aimed'

NoNewAbort == \A b \in Caller : at'[b] = "aborting" => at[b] = "aborting"

LEMMA StepAborts ==
  ASSUME AtType, NEW a \in Caller, OthersSame(a), at'[a] # "aborting"
  PROVE  NoNewAbort
BY SameEffect DEF OthersSame, NoNewAbort

LEMMA AimsKept ==
  ASSUME AbortsAim, TakeoversAim, NoNewAbort, AirKept, UNCHANGED slot
  PROVE  AbortsAim' /\ TakeoversAim'
<1>1. AbortsAim'
  BY DEF AbortsAim, NoNewAbort, AirKept
<1>2. onAir' /\ CallersAim => CallersAim'
  BY DEF CallersAim, AirKept
<1>3. onAir' /\ aimed # {} => aimed' # {}
  BY DEF AirKept
<1>4. TakeoversAim'
  BY <1>2, <1>3 DEF TakeoversAim, AirKept, slot
<1> QED
  BY <1>1, <1>4

LEMMA StopAir ==
  ASSUME AirTypes, NEW a, StopEnds(a)
  PROVE  AirTypes' /\ AirKept /\ (a \in aimed => ~onAir')
BY DEF AirTypes, StopEnds, OffAir, AirKept

LEMMA AimAir ==
  ASSUME AirTypes, NEW a \in Caller, AimAtCurrent(a), UNCHANGED <<onAir, currentStream>>
  PROVE  AirTypes' /\ AirKept
BY DEF AirTypes, AimAtCurrent, AirKept

LEMMA SameAir ==
  ASSUME AirTypes, UNCHANGED <<onAir, currentStream, aimed>>
  PROVE  AirTypes' /\ AirKept
BY DEF AirTypes, AirKept

LEMMA ArrivalTypes ==
  ASSUME arrivals \in 0..MaxArrivals, Arrival
  PROVE  arrivals' \in 0..MaxArrivals
BY BoundAssumption DEF Arrival

\* The start of a rotation.
LEMMA Begins ==
  ASSUME Types, NEW a \in Rotator, at[a] # "aborting", BeginRotate(a)
  PROVE  /\ OthersSame(a)
         /\ at'[a] \in {"searching", "stopping"}
         /\ AirTypes' /\ AirKept /\ NoNewAbort
         /\ startingStream' = startingStream /\ reconnecting' = reconnecting
<1> USE Names
<1>0. AtType /\ AirTypes
  BY DEF Types
<1>1. OthersSame(a) /\ at'[a] \in {"searching", "stopping"}
  BY <1>0, GotoMoves DEF BeginRotate, Phase
<1>2. AirTypes' /\ AirKept
  BY <1>0, AimAir DEF BeginRotate
<1>3. NoNewAbort
  BY <1>0, <1>1, StepAborts
<1> QED
  BY <1>1, <1>2, <1>3 DEF BeginRotate

\* A rotation that begins outside a restart.
LEMMA BeginsPlain ==
  ASSUME Inv, NEW a \in Rotator, BeginRotate(a), UNCHANGED <<isRestarting, slot>>,
         at[a] \in {"idle", "waiting", "backoff"},
         a \in Restarter => a = "restart" /\ at[a] = "waiting"
  PROVE  OneRestart' /\ OneStart' /\ AbortsAim' /\ TakeoversAim' /\ AtType' /\ AirTypes'
<1> USE Names
<1>1. OthersSame(a) /\ at'[a] \in {"searching", "stopping"} /\ AirTypes' /\ AirKept /\ NoNewAbort
  BY Begins DEF Inv
<1>2. Restarting(a)' <=> Restarting(a)
  BY <1>1 DEF Restarting
<1>3. Holding(a)' <=> Holding(a)
  BY <1>1 DEF Holding
<1>4. startingStream' = startingStream
  BY Begins DEF Inv
<1>5. OneRestart' /\ OneStart'
  BY <1>1, <1>2, <1>3, <1>4, RestartKept, StartKept DEF Inv, Types
<1>6. AbortsAim' /\ TakeoversAim'
  BY <1>1, AimsKept DEF Inv
<1> QED
  BY <1>1, <1>5, <1>6 DEF OthersSame

\* A rotation that begins a restart.
LEMMA BeginsRestart ==
  ASSUME Inv, NEW a \in Recoverer, BeginRotate(a), UNCHANGED slot,
         at[a] \in {"idle", "waiting"}, ~isRestarting, isRestarting' = TRUE
  PROVE  OneRestart' /\ OneStart' /\ AbortsAim' /\ TakeoversAim' /\ AtType' /\ AirTypes'
<1> USE Names
<1>0. a \in Restarter
  BY DEF Restarter
<1>1. OthersSame(a) /\ at'[a] \in {"searching", "stopping"} /\ AirTypes' /\ AirKept /\ NoNewAbort
  BY Begins DEF Inv
<1>2. Restarting(a)'
  BY <1>0, <1>1 DEF Restarting
<1>3. Holding(a)' <=> Holding(a)
  BY <1>1 DEF Holding
<1>4. startingStream' = startingStream
  BY Begins DEF Inv
<1>5. OneRestart' /\ OneStart'
  BY <1>1, <1>2, <1>3, <1>4, RestartEntered, StartKept DEF Inv, Types
<1>6. AbortsAim' /\ TakeoversAim'
  BY <1>1, AimsKept DEF Inv
<1> QED
  BY <1>1, <1>5, <1>6 DEF OthersSame

-----------------------------------------------------------------------------
(* The steps of a rotation *)

LEMMA SameTypes ==
  /\ SwitchTypes /\ UNCHANGED switches => SwitchTypes'
  /\ TimerTypes /\ UNCHANGED timers => TimerTypes'
  /\ TriesType /\ UNCHANGED tries => TriesType'
  /\ AtType /\ UNCHANGED at => AtType'
  /\ SlotTypes /\ UNCHANGED slot => SlotTypes'
BY DEF SwitchTypes, TimerTypes, TriesType, AtType, SlotTypes, switches, timers, slot

\* A rotation that moves on without beginning or ending a start.
LEMMA MovesOn ==
  ASSUME Inv, NEW a \in Caller, OthersSame(a), AirKept, UNCHANGED slot,
         UNCHANGED <<isRestarting, startingStream>>,
         Restarting(a)' <=> Restarting(a), Holding(a)' <=> Holding(a),
         at'[a] # "aborting"
  PROVE  OneRestart' /\ OneStart' /\ AbortsAim' /\ TakeoversAim'
<1>1. OneRestart' /\ OneStart'
  BY RestartKept, StartKept DEF Inv, Types
<1>2. NoNewAbort
  BY StepAborts DEF Inv, Types
<1> QED
  BY <1>1, <1>2, AimsKept DEF Inv

\* A rotation that ends: at most the air and the start flag change besides.
LEMMA EndsRotation ==
  ASSUME Inv, NEW a \in Rotator, EndsWell(a), AirTypes', AirKept, OneStart',
         startingStream' \in BOOLEAN, reconnecting' \in BOOLEAN,
         UNCHANGED <<switches, slot>>, arrivals' \in 0..MaxArrivals
  PROVE  Inv'
<1> USE Names
<1>1. OthersSame(a) /\ at'[a] # "aborting"
  BY DEF EndsWell
<1>2. NoNewAbort
  BY <1>1, StepAborts DEF Inv, Types
<1>3. AbortsAim' /\ TakeoversAim'
  BY <1>2, AimsKept DEF Inv
<1>4. SwitchTypes' /\ SlotTypes'
  BY SameTypes DEF Inv, Types
<1>5. TimerTypes' /\ TriesType' /\ AtType' /\ OneRestart' /\ isRestarting' \in BOOLEAN
  BY DEF EndsWell, OthersSame
<1> QED
  BY <1>3, <1>4, <1>5 DEF Inv, Types

LEMMA StoppedStep ==
  ASSUME Inv, NEW a \in Rotator, CurrentStopped(a)
  PROVE  Inv'
<1> USE Names
<1>1. OthersSame(a) /\ at'[a] = "searching"
  BY GotoMoves DEF CurrentStopped, Inv, Types, Phase
<1>2. AirTypes' /\ AirKept
  BY StopAir DEF CurrentStopped, Inv, Types
<1>3. Restarting(a)' <=> Restarting(a)
  BY <1>1 DEF Restarting, CurrentStopped
<1>4. Holding(a)' <=> Holding(a)
  BY <1>1 DEF Holding, CurrentStopped
<1>5. OneRestart' /\ OneStart' /\ AbortsAim' /\ TakeoversAim'
  BY <1>1, <1>2, <1>3, <1>4, MovesOn DEF CurrentStopped
<1>6. SwitchTypes' /\ TimerTypes' /\ TriesType' /\ SlotTypes'
  BY SameTypes DEF CurrentStopped, Inv, Types
<1>7. AtType'
  BY <1>1 DEF OthersSame
<1>8. UNCHANGED <<isRestarting, startingStream, reconnecting, arrivals>>
  BY DEF CurrentStopped
<1> QED
  BY <1>2, <1>5, <1>6, <1>7, <1>8 DEF Inv, Types

LEMMA SearchEndsStep ==
  ASSUME Inv, NEW a \in Rotator, SearchFails(a) \/ StartRefused(a)
  PROVE  Inv'
<1> USE Names
<1>1. at[a] = "searching" /\ Fails(a)
  BY DEF SearchFails, StartRefused
<1>2. EndsWell(a)
  BY <1>1, FailsEnds DEF Inv, InRotation
<1>3. UNCHANGED <<switches, relays, slot>>
  BY DEF SearchFails, StartRefused
<1>4. AirTypes' /\ AirKept
  BY <1>3, SameAir DEF Inv, Types, relays
<1>5. Holding(a)' <=> Holding(a)
  BY <1>1, <1>2 DEF Holding, EndsWell
<1>6. startingStream' = startingStream /\ reconnecting' = reconnecting
  BY <1>3 DEF relays
<1>7. OneStart'
  BY <1>2, <1>5, <1>6, StartKept DEF Inv, Types, EndsWell
<1>8. arrivals' \in 0..MaxArrivals
  BY ArrivalTypes DEF SearchFails, StartRefused, Inv, Types
<1>9. startingStream' \in BOOLEAN /\ reconnecting' \in BOOLEAN
  BY <1>6 DEF Inv, Types
<1> QED
  BY <1>2, <1>3, <1>4, <1>7, <1>8, <1>9, EndsRotation

LEMMA StartBeginsStep ==
  ASSUME Inv, NEW a \in Rotator, StartBegins(a)
  PROVE  Inv'
<1> USE Names
<1>1. OthersSame(a) /\ at'[a] = "starting"
  BY GotoMoves DEF StartBegins, Inv, Types, Phase
<1>2. AirTypes' /\ AirKept
  BY SameAir DEF StartBegins, Inv, Types
<1>3. Restarting(a)' <=> Restarting(a)
  BY <1>1 DEF Restarting, StartBegins
<1>4. Holding(a)'
  BY <1>1 DEF Holding
<1>5. ~startingStream /\ startingStream' = TRUE
  BY DEF StartBegins
<1>6. OneRestart' /\ OneStart'
  BY <1>1, <1>3, <1>4, <1>5, RestartKept, StartEntered DEF StartBegins, Inv, Types
<1>7. NoNewAbort
  BY <1>1, StepAborts DEF Inv, Types
<1>8. AbortsAim' /\ TakeoversAim'
  BY <1>2, <1>7, AimsKept DEF StartBegins, Inv
<1>9. SwitchTypes' /\ TimerTypes' /\ TriesType' /\ SlotTypes' /\ AtType'
  BY <1>1, SameTypes DEF StartBegins, Inv, Types, OthersSame
<1>10. UNCHANGED <<isRestarting, reconnecting, arrivals>>
  BY DEF StartBegins
<1> QED
  BY <1>2, <1>5, <1>6, <1>8, <1>9, <1>10 DEF Inv, Types

LEMMA StartFailsStep ==
  ASSUME Inv, NEW a \in Rotator, StartFails(a)
  PROVE  Inv'
<1> USE Names
<1>1. at[a] = "starting" /\ startingStream' = FALSE
  BY DEF StartFails
<1>2. EndsWell(a)
  BY <1>1, FailsEnds DEF StartFails, Inv, InRotation
<1>3. AirTypes' /\ AirKept
  BY SameAir DEF StartFails, Inv, Types, OffAir, AirTypes, AirKept
<1>4. Holding(a) /\ ~Holding(a)'
  BY <1>1, <1>2 DEF Holding, EndsWell
<1>5. OneStart'
  BY <1>1, <1>2, <1>4, StartLeft DEF Inv, Types, EndsWell
<1>6. arrivals' \in 0..MaxArrivals
  BY ArrivalTypes DEF StartFails, Inv, Types
<1>7. reconnecting' \in BOOLEAN
  BY DEF StartFails, Inv, Types
<1> QED
  BY <1>1, <1>2, <1>3, <1>5, <1>6, <1>7, EndsRotation DEF StartFails

\* No other caller holds a start, and no takeover runs.
LEMMA StartDoneStep ==
  ASSUME Inv, NEW a \in Rotator, StartDone(a)
  PROVE  Inv'
<1> USE Names
<1>1. at[a] = "starting" /\ startingStream' = FALSE
  BY DEF StartDone
<1>2. EndsWell(a)
  BY <1>1, SucceedsEnds DEF StartDone, Inv, InRotation
<1>3. AirTypes'
  BY DEF StartDone, AirTypes
<1>4. Holding(a) /\ ~Holding(a)'
  BY <1>1, <1>2 DEF Holding, EndsWell
<1>5. OneStart'
  BY <1>1, <1>2, <1>4, StartLeft DEF Inv, Types, EndsWell
<1>6. AbortsAim'
  BY <1>1, <1>5 DEF OneStart, Holding, AbortsAim
<1>7. TakeoversAim'
  BY Zenon DEF StartDone, Superseded, TakeoversAim, slot
<1>8. SwitchTypes' /\ SlotTypes'
  BY SameTypes DEF StartDone, Inv, Types
<1>9. TimerTypes' /\ TriesType' /\ AtType' /\ OneRestart' /\ isRestarting' \in BOOLEAN
  BY <1>2 DEF EndsWell, OthersSame
<1>10. UNCHANGED <<reconnecting, arrivals>>
  BY DEF StartDone
<1> QED
  BY <1>1, <1>3, <1>5, <1>6, <1>7, <1>8, <1>9, <1>10 DEF Inv, Types

LEMMA StartSupersededStep ==
  ASSUME Inv, NEW a \in Rotator, StartSuperseded(a)
  PROVE  Inv'
<1> USE Names
<1>1. OthersSame(a) /\ at'[a] = "aborting" /\ at[a] = "starting"
  BY GotoMoves DEF StartSuperseded, Inv, Types, Phase
<1>2. AirTypes'
  BY DEF StartSuperseded, AirTypes, Inv, Types
<1>3. Restarting(a)' <=> Restarting(a)
  BY <1>1 DEF Restarting
<1>4. Holding(a)' <=> Holding(a)
  BY <1>1 DEF Holding
<1>5. OneRestart' /\ OneStart'
  BY <1>1, <1>3, <1>4, RestartKept, StartKept DEF StartSuperseded, Inv, Types
<1>6. aimed' = {a}
  BY DEF StartSuperseded
<1>7. AbortsAim'
  <2>1. \A b \in Caller : at'[b] = "aborting" => b = a
    BY <1>1, <1>5 DEF OneStart, Holding
  <2> QED
    BY <1>6, <2>1 DEF AbortsAim
<1>8. TakeoversAim'
  BY <1>6 DEF TakeoversAim, CallersAim
<1>9. SwitchTypes' /\ TimerTypes' /\ TriesType' /\ SlotTypes' /\ AtType'
  BY <1>1, SameTypes DEF StartSuperseded, Inv, Types, OthersSame
<1>10. UNCHANGED <<isRestarting, startingStream, reconnecting, arrivals>>
  BY DEF StartSuperseded
<1> QED
  BY <1>2, <1>5, <1>7, <1>8, <1>9, <1>10 DEF Inv, Types

LEMMA AbortDoneStep ==
  ASSUME Inv, NEW a \in Rotator, AbortDone(a)
  PROVE  Inv'
<1> USE Names
<1>1. at[a] = "aborting" /\ startingStream' = FALSE
  BY DEF AbortDone
<1>2. EndsWell(a)
  BY <1>1, FailsEnds DEF AbortDone, Inv, InRotation
<1>3. AirTypes' /\ AirKept
  BY StopAir DEF AbortDone, Inv, Types
<1>4. Holding(a) /\ ~Holding(a)'
  BY <1>1, <1>2 DEF Holding, EndsWell
<1>5. OneStart'
  BY <1>1, <1>2, <1>4, StartLeft DEF Inv, Types, EndsWell
<1>6. arrivals' \in 0..MaxArrivals /\ reconnecting' \in BOOLEAN
  BY DEF AbortDone, Inv, Types
<1> QED
  BY <1>1, <1>2, <1>3, <1>5, <1>6, EndsRotation DEF AbortDone

-----------------------------------------------------------------------------
(* The timer, the retries and the verbs *)

\* The callers stay where they are and what is on air is let alone.
LEMMA NobodyMoves ==
  ASSUME Inv, UNCHANGED <<calls, onAir, currentStream, aimed, startingStream, slot>>
  PROVE  /\ OneRestart' /\ OneStart' /\ AbortsAim' /\ TakeoversAim'
         /\ AtType' /\ TriesType' /\ AirTypes' /\ SlotTypes'
         /\ isRestarting' \in BOOLEAN /\ startingStream' \in BOOLEAN
<1>1. at' = at /\ isRestarting' = isRestarting /\ tries' = tries
  BY DEF calls
<1>2. \A a \in Caller : (Restarting(a)' <=> Restarting(a)) /\ (Holding(a)' <=> Holding(a))
  BY <1>1 DEF Restarting, Holding
<1>3. OneRestart' /\ OneStart'
  BY <1>1, <1>2, Zenon DEF Inv, OneRestart, OneStart
<1>4. AirTypes' /\ AirKept /\ NoNewAbort
  BY <1>1, SameAir DEF Inv, Types, NoNewAbort
<1>5. AbortsAim' /\ TakeoversAim'
  BY <1>4, AimsKept DEF Inv
<1>6. AtType' /\ TriesType' /\ SlotTypes'
  BY <1>1, SameTypes DEF Inv, Types
<1> QED
  BY <1>1, <1>3, <1>4, <1>5, <1>6 DEF Inv, Types

\* Only timers, switches, reconnects and the count of arrivals change.
LEMMA QuietStep ==
  ASSUME Inv,
         \/ TimerSkips \/ TimePasses \/ Reschedule \/ Unlock \/ MonitorReschedules
         \/ RelayFalters \/ ReconnectEnds
  PROVE  Inv'
<1>1. UNCHANGED <<calls, onAir, currentStream, aimed, startingStream, slot>>
  BY DEF TimerSkips, TimePasses, Reschedule, Unlock, MonitorReschedules, RelayFalters,
         ReconnectEnds, calls, relays, slot
<1>2. SwitchTypes'
  BY DEF TimerSkips, TimePasses, Reschedule, Unlock, MonitorReschedules, RelayFalters,
         ReconnectEnds, switches, SwitchTypes, Inv, Types
<1>3. TimerTypes'
  BY DEF TimerSkips, TimePasses, Reschedule, Unlock, MonitorReschedules, RelayFalters,
         ReconnectEnds, timers, ScheduleNext, TimerTypes, Inv, Types
<1>4. reconnecting' \in BOOLEAN
  BY DEF TimerSkips, TimePasses, Reschedule, Unlock, MonitorReschedules, RelayFalters,
         ReconnectEnds, relays, Inv, Types
<1>5. arrivals' \in 0..MaxArrivals
  BY ArrivalTypes DEF TimerSkips, TimePasses, Reschedule, Unlock, MonitorReschedules,
         RelayFalters, ReconnectEnds, Inv, Types
<1> QED
  BY <1>1, <1>2, <1>3, <1>4, <1>5, NobodyMoves DEF Inv, Types

\* A rotation begins outside a restart, with its timers and switches.
LEMMA PlainStep ==
  ASSUME Inv, NEW a \in Rotator, BeginRotate(a), UNCHANGED <<isRestarting, tries, slot>>,
         at[a] \in {"idle", "waiting", "backoff"},
         a \in Restarter => a = "restart" /\ at[a] = "waiting",
         SwitchTypes', TimerTypes', arrivals' \in 0..MaxArrivals
  PROVE  Inv'
<1>1. OneRestart' /\ OneStart' /\ AbortsAim' /\ TakeoversAim' /\ AtType' /\ AirTypes'
  BY BeginsPlain
<1>2. UNCHANGED <<startingStream, reconnecting>>
  BY DEF BeginRotate
<1>3. TriesType' /\ SlotTypes'
  BY SameTypes DEF Inv, Types
<1> QED
  BY <1>1, <1>2, <1>3 DEF Inv, Types

LEMMA TimerRotatesStep ==
  ASSUME Inv, NEW c \in Chain, TimerRotates(c)
  PROVE  Inv'
<1> USE Names
<1>1. c \in Rotator /\ c \notin Restarter /\ at[c] = "idle"
  BY DEF TimerRotates
<1>2. SwitchTypes' /\ TimerTypes' /\ arrivals' \in 0..MaxArrivals
  BY DEF TimerRotates, switches, SwitchTypes, TimerTypes, Inv, Types
<1>3. BeginRotate(c) /\ UNCHANGED <<isRestarting, tries, slot>>
  BY DEF TimerRotates
<1> QED
  BY <1>1, <1>2, <1>3, PlainStep

LEMMA RetryRotatesStep ==
  ASSUME Inv, NEW c \in Chain, RetryRotates(c)
  PROVE  Inv'
<1> USE Names
<1>1. c \in Rotator /\ c \notin Restarter /\ at[c] = "backoff"
  BY DEF RetryRotates
<1>2. SwitchTypes' /\ TimerTypes' /\ arrivals' \in 0..MaxArrivals
  BY DEF RetryRotates, switches, SwitchTypes, TimerTypes, Inv, Types
<1>3. BeginRotate(c) /\ UNCHANGED <<isRestarting, tries, slot>>
  BY DEF RetryRotates
<1> QED
  BY <1>1, <1>2, <1>3, PlainStep

LEMMA RetryGivesUpStep ==
  ASSUME Inv, NEW c \in Chain, RetryGivesUp(c)
  PROVE  Inv'
<1> USE Names
<1>1. OthersSame(c) /\ at'[c] = "idle" /\ at[c] = "backoff" /\ c \in Caller
  BY GotoMoves DEF RetryGivesUp, Inv, Types, Phase
<1>2. Restarting(c)' <=> Restarting(c)
  BY DEF Restarting
<1>3. Holding(c)' <=> Holding(c)
  BY <1>1 DEF Holding
<1>4. AirTypes' /\ AirKept
  BY SameAir DEF RetryGivesUp, relays, Inv, Types
<1>5. UNCHANGED <<isRestarting, startingStream, reconnecting, slot, arrivals>>
  BY DEF RetryGivesUp, relays
<1>6. OneRestart' /\ OneStart' /\ AbortsAim' /\ TakeoversAim'
  BY <1>1, <1>2, <1>3, <1>4, <1>5, MovesOn
<1>7. TimerTypes'
  BY DEF RetryGivesUp, TimerTypes, ScheduleNext, Inv, Types
<1>8. SwitchTypes' /\ TriesType' /\ SlotTypes' /\ AtType'
  BY <1>1, SameTypes DEF RetryGivesUp, Inv, Types, OthersSame
<1> QED
  BY <1>4, <1>5, <1>6, <1>7, <1>8 DEF Inv, Types

LEMMA ForceStep ==
  ASSUME Inv, ForceRotate
  PROVE  Inv'
<1> USE Names
<1>1. "force" \in Rotator /\ "force" \notin Restarter /\ at["force"] = "idle"
  BY DEF ForceRotate, Restarter, Recoverer
<1>2. SwitchTypes' /\ TimerTypes'
  BY DEF ForceRotate, SwitchTypes, TimerTypes, Inv, Types
<1>3. arrivals' \in 0..MaxArrivals
  BY ArrivalTypes DEF ForceRotate, Inv, Types
<1>4. BeginRotate("force") /\ UNCHANGED <<isRestarting, tries, slot>>
  BY DEF ForceRotate
<1> QED
  BY <1>1, <1>2, <1>3, <1>4, PlainStep

LEMMA ArbiterStep ==
  ASSUME Inv, ArbiterRotates
  PROVE  Inv'
<1> USE Names
<1>1. "arbiter" \in Rotator /\ "arbiter" \notin Restarter /\ at["arbiter"] = "idle"
  BY DEF ArbiterRotates, Restarter, Recoverer
<1>2. SwitchTypes' /\ TimerTypes'
  BY SameTypes DEF ArbiterRotates, Inv, Types
<1>3. arrivals' \in 0..MaxArrivals
  BY ArrivalTypes DEF ArbiterRotates, Inv, Types
<1>4. BeginRotate("arbiter") /\ UNCHANGED <<isRestarting, tries, slot>>
  BY DEF ArbiterRotates
<1> QED
  BY <1>1, <1>2, <1>3, <1>4, PlainStep

LEMMA AttemptStep ==
  ASSUME Inv, NEW a \in Starter, Attempt(a)
  PROVE  Inv'
<1> USE Names
<1>1. a \in Rotator /\ at[a] = "waiting" /\ (a \in Restarter => a = "restart")
  BY DEF Attempt, Starter, Restarter, Recoverer
<1>2. SwitchTypes' /\ TimerTypes' /\ arrivals' \in 0..MaxArrivals
  BY SameTypes DEF Attempt, Inv, Types
<1>3. BeginRotate(a) /\ UNCHANGED <<isRestarting, tries, slot>>
  BY DEF Attempt
<1> QED
  BY <1>1, <1>2, <1>3, PlainStep

\* lock() and pause(): at most a backoff is cancelled.
LEMMA Cleared ==
  ASSUME Inv, ClearRetry(at), UNCHANGED <<isRestarting, startingStream>>
  PROVE  AtType' /\ OneRestart' /\ OneStart' /\ NoNewAbort
<1>1. AtType' /\ \A b \in Caller : Same(b)
  BY ClearSame DEF Inv, Types
<1>2. \A b \in Caller : /\ Restarting(b)' <=> Restarting(b)
                        /\ Holding(b)' <=> Holding(b)
                        /\ (at'[b] = "aborting") <=> (at[b] = "aborting")
  BY <1>1, SameEffect DEF Inv, Types
<1>3. OneRestart' /\ OneStart'
  BY <1>2, Zenon DEF Inv, OneRestart, OneStart
<1> QED
  BY <1>1, <1>2, <1>3 DEF NoNewAbort

LEMMA LockStep ==
  ASSUME Inv, Lock
  PROVE  Inv'
<1>1. ClearRetry(at) /\ Unwound("null") /\ UNCHANGED <<isRestarting, tries, relays, slot>>
  BY DEF Lock
<1>2. UNCHANGED <<onAir, currentStream, aimed, startingStream, reconnecting>>
  BY <1>1 DEF relays
<1>3. AtType' /\ OneRestart' /\ OneStart' /\ NoNewAbort
  BY <1>1, <1>2, Cleared
<1>4. AirTypes' /\ AirKept
  BY <1>2, SameAir DEF Inv, Types
<1>5. AbortsAim' /\ TakeoversAim'
  BY <1>1, <1>3, <1>4, AimsKept DEF Inv
<1>6. TimerTypes'
  <2>1. currentRetryTimer' \in Chain \cup {NoChain} /\ nested' \subseteq Chain
    BY <1>1, ClearTypes DEF Inv, Types
  <2>2. rotationTimer' \in {"null", "armed", "spent"} /\ scheduled' \in BOOLEAN
    BY <1>1, UnwoundTypes DEF Inv, Types
  <2> QED
    BY <2>1, <2>2 DEF TimerTypes
<1>7. SwitchTypes'
  BY DEF Lock, SwitchTypes, Inv, Types
<1>8. arrivals' \in 0..MaxArrivals
  BY ArrivalTypes DEF Lock, Inv, Types
<1>9. TriesType' /\ SlotTypes'
  BY <1>1, SameTypes DEF Inv, Types
<1> QED
  BY <1>1, <1>2, <1>3, <1>4, <1>5, <1>6, <1>7, <1>8, <1>9 DEF Inv, Types

\* What start() does to its caller, whoever calls it.
LEMMA StartsWell ==
  ASSUME Inv, NEW a \in Starter, Starts(a)
  PROVE  /\ OthersSame(a) /\ at[a] = "idle" /\ at'[a] = "waiting"
         /\ SwitchTypes' /\ TimerTypes' /\ AtType' /\ TriesType' /\ AirTypes' /\ SlotTypes'
         /\ AirKept /\ NoNewAbort /\ AbortsAim' /\ TakeoversAim' /\ OneStart'
         /\ UNCHANGED <<startingStream, reconnecting, slot>>
<1> USE Names
<1>1. OthersSame(a) /\ at[a] = "idle" /\ at'[a] = "waiting"
  BY GotoMoves DEF Starts, Inv, Types, Phase
<1>2. UNCHANGED <<onAir, currentStream, aimed, startingStream, reconnecting, slot>>
  BY DEF Starts, relays
<1>3. AirTypes' /\ AirKept
  BY <1>2, SameAir DEF Inv, Types
<1>4. NoNewAbort
  BY <1>1, StepAborts DEF Inv, Types
<1>5. AbortsAim' /\ TakeoversAim'
  BY <1>2, <1>3, <1>4, AimsKept DEF Inv
<1>6. Holding(a)' <=> Holding(a)
  BY <1>1 DEF Holding
<1>7. OneStart'
  BY <1>1, <1>2, <1>6, StartKept DEF Inv, Types
<1>8. SwitchTypes'
  BY DEF Starts, SwitchTypes, Inv, Types
<1>9. TimerTypes' /\ TriesType' /\ SlotTypes' /\ AtType'
  BY <1>1, SameTypes DEF Starts, Inv, Types, OthersSame
<1> QED
  BY <1>1, <1>2, <1>3, <1>4, <1>5, <1>7, <1>8, <1>9

LEMMA OperatorStartsStep ==
  ASSUME Inv, OperatorStarts
  PROVE  Inv'
<1>1. "start" \in Starter /\ "start" \in Caller /\ "start" \notin Restarter
  BY DEF Starter, Caller, Rotator, Restarter, Recoverer
<1>2. /\ OthersSame("start") /\ UNCHANGED <<startingStream, reconnecting>>
      /\ SwitchTypes' /\ TimerTypes' /\ AtType' /\ TriesType' /\ AirTypes' /\ SlotTypes'
      /\ AbortsAim' /\ TakeoversAim' /\ OneStart'
  BY <1>1, StartsWell DEF OperatorStarts
<1>3. Restarting("start")' <=> Restarting("start")
  BY <1>1 DEF Restarting
<1>4. isRestarting' = isRestarting
  BY DEF OperatorStarts
<1>5. OneRestart'
  BY <1>1, <1>2, <1>3, <1>4, RestartKept DEF Inv, Types
<1>6. arrivals' \in 0..MaxArrivals
  BY ArrivalTypes DEF OperatorStarts, Inv, Types
<1> QED
  BY <1>2, <1>4, <1>5, <1>6 DEF Inv, Types

LEMMA MonitorStartsStep ==
  ASSUME Inv, MonitorStarts
  PROVE  Inv'
<1>1. "restart" \in Starter /\ "restart" \in Caller /\ "restart" \in Restarter
  BY DEF Starter, Caller, Rotator, Restarter
<1>2. /\ OthersSame("restart") /\ UNCHANGED <<startingStream, reconnecting>>
      /\ SwitchTypes' /\ TimerTypes' /\ AtType' /\ TriesType' /\ AirTypes' /\ SlotTypes'
      /\ AbortsAim' /\ TakeoversAim' /\ OneStart' /\ at'["restart"] = "waiting"
  BY <1>1, StartsWell DEF MonitorStarts
<1>3. Restarting("restart")'
  BY <1>1, <1>2 DEF Restarting
<1>4. ~isRestarting /\ isRestarting' = TRUE /\ arrivals' = arrivals
  BY DEF MonitorStarts, MonitorMayAct
<1>5. OneRestart'
  BY <1>1, <1>2, <1>3, <1>4, RestartEntered DEF Inv, Types
<1> QED
  BY <1>2, <1>4, <1>5 DEF Inv, Types

LEMMA RecoversStep ==
  ASSUME Inv, MonitorRecovers \/ ListenerRotates
  PROVE  Inv'
<1>1. PICK a \in Recoverer : at[a] \in {"idle", "waiting"} /\ BeginRotate(a)
  BY DEF MonitorRecovers, ListenerRotates, Recoverer
<1>2. /\ ~isRestarting /\ isRestarting' = TRUE
      /\ UNCHANGED <<switches, timers, tries, slot, arrivals>>
  BY DEF MonitorRecovers, ListenerRotates, MonitorMayAct, ListenerMayAct
<1>3. OneRestart' /\ OneStart' /\ AbortsAim' /\ TakeoversAim' /\ AtType' /\ AirTypes'
  BY <1>1, <1>2, BeginsRestart
<1>4. UNCHANGED <<startingStream, reconnecting>>
  BY <1>1 DEF BeginRotate
<1>5. SwitchTypes' /\ TimerTypes' /\ TriesType' /\ SlotTypes'
  BY <1>2, SameTypes DEF Inv, Types
<1> QED
  BY <1>2, <1>3, <1>4, <1>5 DEF Inv, Types

LEMMA ListenerSkipsStep ==
  ASSUME Inv, ListenerSkips
  PROVE  Inv'
<1>0. "listener" \in Caller
  BY DEF Caller, Rotator, Recoverer
<1>1. OthersSame("listener") /\ at'["listener"] = "idle" /\ at["listener"] = "waiting"
  BY <1>0, GotoMoves DEF ListenerSkips, Inv, Types, Phase
<1>2. Restarting("listener")' <=> Restarting("listener")
  BY <1>1 DEF Restarting
<1>3. Holding("listener")' <=> Holding("listener")
  BY <1>1 DEF Holding
<1>4. AirTypes' /\ AirKept
  BY SameAir DEF ListenerSkips, relays, Inv, Types
<1>5. UNCHANGED <<isRestarting, startingStream, reconnecting, slot, arrivals>>
  BY DEF ListenerSkips, relays
<1>6. OneRestart' /\ OneStart' /\ AbortsAim' /\ TakeoversAim'
  BY <1>0, <1>1, <1>2, <1>3, <1>4, <1>5, MovesOn
<1>7. SwitchTypes' /\ TimerTypes' /\ TriesType' /\ SlotTypes' /\ AtType'
  BY <1>1, SameTypes DEF ListenerSkips, Inv, Types, OthersSame
<1> QED
  BY <1>4, <1>5, <1>6, <1>7 DEF Inv, Types

\* Nothing is on air afterwards, and the listener has yet to decide.
LEMMA RelayEndsStep ==
  ASSUME Inv, RelayEnds
  PROVE  Inv'
<1>0. "listener" \in Caller
  BY DEF Caller, Rotator, Recoverer
<1>1. OthersSame("listener") /\ at'["listener"] \in {"idle", "waiting"} /\ at["listener"] = "idle"
  <2>1. CASE isEnabled
    BY <1>0, <2>1, GotoMoves DEF RelayEnds, Inv, Types, Phase
  <2>2. CASE ~isEnabled
    BY <1>0, <2>2 DEF RelayEnds, Inv, Types, OthersSame, Same, AtType
  <2> QED
    BY <2>1, <2>2
<1>2. Restarting("listener")' <=> Restarting("listener")
  BY <1>1 DEF Restarting
<1>3. Holding("listener")' <=> Holding("listener")
  BY <1>1 DEF Holding
<1>4. AirTypes' /\ AirKept
  BY DEF RelayEnds, OffAir, Inv, Types, AirTypes, AirKept
<1>5. UNCHANGED <<isRestarting, startingStream, reconnecting, slot>>
  BY DEF RelayEnds
<1>6. OneRestart' /\ OneStart' /\ AbortsAim' /\ TakeoversAim'
  BY <1>0, <1>1, <1>2, <1>3, <1>4, <1>5, MovesOn
<1>7. SwitchTypes' /\ TimerTypes' /\ TriesType' /\ SlotTypes' /\ AtType'
  BY <1>1, SameTypes DEF RelayEnds, Inv, Types, OthersSame
<1>8. arrivals' \in 0..MaxArrivals
  BY ArrivalTypes DEF RelayEnds, Inv, Types
<1> QED
  BY <1>4, <1>5, <1>6, <1>7, <1>8 DEF Inv, Types

LEMMA OperatorStopsStep ==
  ASSUME Inv, OperatorStops
  PROVE  Inv'
<1>0. "stop" \in Caller /\ "stop" \notin Restarter
  BY DEF Caller, Restarter, Recoverer
<1>1. /\ OthersSame("stop") /\ at["stop"] = "idle"
      /\ at'["stop"] \in {"idle", "stopping"}
  <2>1. PICK p \in {"idle", "stopping"} : ClearRetry(At("stop", p))
    BY DEF OperatorStops
  <2>2. p \in Phase /\ at["stop"] = "idle" /\ AtType
    BY DEF Phase, OperatorStops, Inv, Types
  <2> QED
    BY <1>0, <2>1, <2>2, ClearMoves
<1>2. Restarting("stop")' <=> Restarting("stop")
  BY <1>0 DEF Restarting
<1>3. Holding("stop")' <=> Holding("stop")
  BY <1>1 DEF Holding
<1>4. AirTypes' /\ AirKept
  BY <1>0, AimAir DEF OperatorStops, Inv, Types
<1>5. UNCHANGED <<isRestarting, startingStream, reconnecting, tries, slot>>
  BY DEF OperatorStops
<1>6. OneRestart' /\ OneStart' /\ AbortsAim' /\ TakeoversAim'
  BY <1>0, <1>1, <1>2, <1>3, <1>4, <1>5, MovesOn
<1>7. TimerTypes'
  <2>1. PICK pcs : ClearRetry(pcs)
    BY DEF OperatorStops
  <2>2. currentRetryTimer' \in Chain \cup {NoChain} /\ nested' \subseteq Chain
    BY <2>1, ClearTypes DEF Inv, Types
  <2> QED
    BY <2>2 DEF OperatorStops, TimerTypes, Inv, Types
<1>8. SwitchTypes'
  BY DEF OperatorStops, SwitchTypes, Inv, Types
<1>9. arrivals' \in 0..MaxArrivals
  BY ArrivalTypes DEF OperatorStops, Inv, Types
<1>10. AtType' /\ TriesType' /\ SlotTypes'
  BY <1>1, <1>5, SameTypes DEF Inv, Types, OthersSame
<1> QED
  BY <1>4, <1>5, <1>6, <1>7, <1>8, <1>9, <1>10 DEF Inv, Types

LEMMA StopDoneStep ==
  ASSUME Inv, Stopped
  PROVE  Inv'
<1>0. "stop" \in Caller /\ "stop" \notin Restarter
  BY DEF Caller, Restarter, Recoverer
<1>1. OthersSame("stop") /\ at'["stop"] = "idle" /\ at["stop"] = "stopping"
  BY <1>0, GotoMoves DEF Stopped, Inv, Types, Phase
<1>2. Restarting("stop")' <=> Restarting("stop")
  BY <1>0 DEF Restarting
<1>3. Holding("stop")' <=> Holding("stop")
  BY <1>1 DEF Holding
<1>4. AirTypes' /\ AirKept
  BY DEF Stopped, AirTypes, AirKept, Inv, Types
<1>5. UNCHANGED <<isRestarting, startingStream, reconnecting, slot, arrivals>>
  BY DEF Stopped
<1>6. OneRestart' /\ OneStart' /\ AbortsAim' /\ TakeoversAim'
  BY <1>0, <1>1, <1>2, <1>3, <1>4, <1>5, MovesOn
<1>7. SwitchTypes' /\ TimerTypes' /\ TriesType' /\ SlotTypes' /\ AtType'
  BY <1>1, SameTypes DEF Stopped, Inv, Types, OthersSame
<1> QED
  BY <1>4, <1>5, <1>6, <1>7 DEF Inv, Types

-----------------------------------------------------------------------------
(* Takeovers *)

\* Only the takeover section and the human change.
LEMMA SlotStep ==
  ASSUME Inv, TakeoverBegins \/ TakeoverDenied \/ TakeoverEnds \/ HumanLeaves
  PROVE  Inv'
<1>1. UNCHANGED <<switches, timers, calls, relays>>
  BY DEF TakeoverBegins, TakeoverDenied, TakeoverEnds, HumanLeaves
<1>2. at' = at /\ isRestarting' = isRestarting /\ tries' = tries
  BY <1>1 DEF calls
<1>3. UNCHANGED <<currentStream, startingStream, reconnecting, onAir, aimed>>
  BY <1>1 DEF relays
<1>4. OneRestart' /\ OneStart'
  BY <1>2, <1>3 DEF Inv, OneRestart, OneStart, Restarting, Holding
<1>5. AbortsAim'
  BY <1>2, <1>3 DEF Inv, AbortsAim
<1>6. TakeoversAim'
  <2>1. CallersAim' <=> CallersAim
    BY <1>3 DEF CallersAim
  <2>2. CASE TakeoverBegins \/ TakeoverDenied
    BY <1>3, <2>1, <2>2 DEF TakeoverBegins, TakeoverDenied, TakeoversAim, Inv
  <2>3. CASE TakeoverEnds
    BY <1>3, <2>1, <2>3 DEF TakeoverEnds, TakeoversAim, Inv
  <2>4. CASE HumanLeaves
    BY <1>3, <2>1, <2>4 DEF HumanLeaves, TakeoversAim, Inv
  <2> QED
    BY <2>2, <2>3, <2>4
<1>7. SlotTypes'
  BY DEF TakeoverBegins, TakeoverDenied, TakeoverEnds, HumanLeaves, SlotTypes, Inv, Types
<1>8. arrivals' \in 0..MaxArrivals
  BY ArrivalTypes DEF TakeoverBegins, TakeoverDenied, TakeoverEnds, HumanLeaves, Inv, Types
<1>9. SwitchTypes' /\ TimerTypes' /\ TriesType' /\ AtType' /\ AirTypes'
  BY <1>1, <1>2, <1>3, SameTypes, SameAir DEF Inv, Types
<1> QED
  BY <1>2, <1>3, <1>4, <1>5, <1>6, <1>7, <1>8, <1>9 DEF Inv, Types

\* A relay on air is aimed at, by the takeover or by the abort of its start.
LEMMA OustsStep ==
  ASSUME Inv, TakeoverOusts
  PROVE  Inv'
<1> USE Names
<1>1. UNCHANGED <<switches, timers, at, tries, isRestarting>>
  BY DEF TakeoverOusts, calls
<1>2. UNCHANGED <<currentStream, startingStream, reconnecting, onAir, human, arrivals>>
  BY DEF TakeoverOusts
<1>3. takeover' = "ousting"
  BY DEF TakeoverOusts
<1>4. AirTypes' /\ aimed \subseteq aimed'
  BY <1>2 DEF TakeoverOusts, AirTypes, Inv, Types
<1>5. OneRestart' /\ OneStart'
  BY <1>1, <1>2 DEF Inv, OneRestart, OneStart, Restarting, Holding
<1>6. AbortsAim'
  BY <1>1, <1>2, <1>4 DEF Inv, AbortsAim
<1>7. onAir => aimed' # {}
  <2>1. CASE \A a \in Rotator : at[a] # "aborting"
    BY <2>1 DEF TakeoverOusts
  <2>2. CASE \E a \in Rotator : at[a] = "aborting"
    BY <1>4, <2>2 DEF Inv, AbortsAim
  <2> QED
    BY <2>1, <2>2
<1>8. TakeoversAim'
  BY <1>2, <1>3, <1>7 DEF TakeoversAim
<1>9. SlotTypes'
  BY <1>2, <1>3 DEF SlotTypes, Inv, Types
<1>10. SwitchTypes' /\ TimerTypes' /\ TriesType' /\ AtType'
  BY <1>1, SameTypes DEF Inv, Types
<1> QED
  BY <1>1, <1>2, <1>4, <1>5, <1>6, <1>8, <1>9, <1>10 DEF Inv, Types

\* When the takeover's own stop has resolved, a relay still on air is one that
\* a caller aims at.
LEMMA OustedAim ==
  ASSUME Inv, takeover = "ousting", StopEnds("takeover"), onAir'
  PROVE  CallersAim'
<1>1. "takeover" \notin aimed /\ aimed' = aimed /\ onAir
  BY DEF StopEnds, OffAir
<1>2. aimed # {}
  BY <1>1 DEF Inv, TakeoversAim
<1> QED
  BY <1>1, <1>2 DEF CallersAim, Inv, Types, AirTypes

LEMMA PausesStep ==
  ASSUME Inv, TakeoverPauses
  PROVE  Inv'
<1>1. StopEnds("takeover") /\ ClearRetry(at) /\ takeover = "ousting" /\ takeover' = "pausing"
  BY DEF TakeoverPauses
<1>2. UNCHANGED <<tries, isRestarting, startingStream, reconnecting, human, arrivals>>
  BY DEF TakeoverPauses
<1>3. AtType' /\ OneRestart' /\ OneStart' /\ NoNewAbort
  BY <1>1, <1>2, Cleared
<1>4. AirTypes' /\ AirKept
  BY <1>1, StopAir DEF Inv, Types
<1>5. AbortsAim'
  BY <1>3, <1>4 DEF Inv, AbortsAim, NoNewAbort, AirKept
<1>6. TakeoversAim'
  BY <1>1, OustedAim DEF TakeoversAim
<1>7. TimerTypes'
  <2>1. currentRetryTimer' \in Chain \cup {NoChain} /\ nested' \subseteq Chain
    BY <1>1, ClearTypes DEF Inv, Types
  <2> QED
    BY <2>1 DEF TakeoverPauses, TimerTypes, Inv, Types
<1>8. SwitchTypes'
  BY DEF TakeoverPauses, SwitchTypes, Inv, Types
<1>9. TriesType' /\ SlotTypes'
  BY <1>1, <1>2, SameTypes DEF Inv, Types, SlotTypes
<1> QED
  BY <1>2, <1>3, <1>4, <1>5, <1>6, <1>7, <1>8, <1>9 DEF Inv, Types

LEMMA InstallsStep ==
  ASSUME Inv, TakeoverInstalls
  PROVE  Inv'
<1>1. takeover' = "live" /\ human' = TRUE
  BY DEF TakeoverInstalls
<1>2. UNCHANGED <<switches, timers, calls, startingStream, reconnecting, arrivals>>
  BY DEF TakeoverInstalls
<1>3. at' = at /\ tries' = tries /\ isRestarting' = isRestarting
  BY <1>2 DEF calls
<1>4. AirTypes' /\ AirKept
  <2>1. CASE takeover = "ousting" /\ StopEnds("takeover")
    BY <2>1, StopAir DEF Inv, Types
  <2>2. CASE currentStream' = "null" /\ UNCHANGED <<onAir, aimed>>
    BY <2>2 DEF AirTypes, AirKept, Inv, Types
  <2> QED
    BY <2>1, <2>2 DEF TakeoverInstalls
<1>5. OneRestart' /\ OneStart'
  BY <1>2, <1>3 DEF Inv, OneRestart, OneStart, Restarting, Holding
<1>6. AbortsAim'
  BY <1>3, <1>4 DEF Inv, AbortsAim, AirKept
<1>7. onAir' => CallersAim'
  <2>1. CASE takeover = "ousting" /\ StopEnds("takeover")
    BY <2>1, OustedAim
  <2>2. CASE takeover = "pausing" /\ onAir' = onAir /\ aimed' = aimed
    BY <2>2 DEF Inv, TakeoversAim, CallersAim
  <2> QED
    BY <2>1, <2>2 DEF TakeoverInstalls
<1>8. TakeoversAim'
  BY <1>1, <1>7 DEF TakeoversAim
<1>9. SwitchTypes' /\ TimerTypes' /\ TriesType' /\ AtType' /\ SlotTypes'
  BY <1>1, <1>2, <1>3, SameTypes DEF Inv, Types, SlotTypes
<1> QED
  BY <1>2, <1>3, <1>4, <1>5, <1>6, <1>8, <1>9 DEF Inv, Types

-----------------------------------------------------------------------------
(* The invariant and the theorems *)

LEMMA InitInv == Init => Inv
<1> SUFFICES ASSUME Init PROVE Inv
  OBVIOUS
<1>1. SwitchTypes /\ TimerTypes /\ SlotTypes /\ AirTypes
  BY DEF Init, SwitchTypes, TimerTypes, SlotTypes, AirTypes
<1>2. AtType /\ TriesType
  BY BoundAssumption DEF Init, AtType, TriesType, Phase
<1>3. arrivals \in 0..MaxArrivals
  BY BoundAssumption DEF Init
<1>4. OneRestart /\ OneStart /\ AbortsAim
  BY DEF Init, OneRestart, OneStart, AbortsAim, Restarting, Holding
<1>5. TakeoversAim
  BY DEF Init, TakeoversAim
<1> QED
  BY <1>1, <1>2, <1>3, <1>4, <1>5 DEF Init, Inv, Types

LEMMA StutterInv == Inv /\ UNCHANGED vars => Inv'
<1> SUFFICES ASSUME Inv, UNCHANGED vars PROVE Inv'
  OBVIOUS
<1>1. UNCHANGED <<switches, timers, calls, relays, slot, arrivals>>
  BY DEF vars
<1>2. UNCHANGED <<currentStream, startingStream, reconnecting, onAir, aimed>>
  BY <1>1 DEF relays
<1>3. /\ OneRestart' /\ OneStart' /\ AbortsAim' /\ TakeoversAim'
      /\ AtType' /\ TriesType' /\ AirTypes' /\ SlotTypes'
      /\ isRestarting' \in BOOLEAN /\ startingStream' \in BOOLEAN
  BY <1>1, <1>2, NobodyMoves
<1>4. SwitchTypes' /\ TimerTypes'
  BY <1>1, SameTypes DEF Inv, Types
<1> QED
  BY <1>1, <1>2, <1>3, <1>4 DEF Inv, Types

LEMMA NextInv == Inv /\ [Next]_vars => Inv'
<1> SUFFICES ASSUME Inv, [Next]_vars PROVE Inv'
  OBVIOUS
<1>1. ASSUME NEW a \in Rotator, Rotates(a) PROVE Inv'
  BY <1>1, StoppedStep, SearchEndsStep, StartBeginsStep, StartFailsStep, StartDoneStep,
     StartSupersededStep, AbortDoneStep DEF Rotates
<1>2. ASSUME NEW c \in Chain, Retries(c) PROVE Inv'
  BY <1>2, RetryRotatesStep, RetryGivesUpStep DEF Retries
<1>3. ASSUME NEW a \in Starter, Attempt(a) PROVE Inv'
  BY <1>3, AttemptStep
<1>4. CASE Timer
  BY <1>4, QuietStep, TimerRotatesStep DEF Timer
<1>5. CASE Verbs
  BY <1>5, QuietStep, ForceStep, LockStep, ArbiterStep, OperatorStartsStep,
     OperatorStopsStep DEF Verbs
<1>6. CASE Monitor
  BY <1>6, QuietStep, MonitorStartsStep, RecoversStep DEF Monitor
<1>7. CASE Listener
  BY <1>7, ListenerSkipsStep, RecoversStep DEF Listener
<1>8. CASE Takes
  BY <1>8, SlotStep, OustsStep, PausesStep, InstallsStep DEF Takes
<1>9. CASE TimePasses \/ RelayFalters \/ ReconnectEnds
  BY <1>9, QuietStep
<1>10. CASE Stopped \/ RelayEnds
  BY <1>10, StopDoneStep, RelayEndsStep
<1>11. CASE TakeoverBegins \/ HumanLeaves
  BY <1>11, SlotStep
<1>12. CASE UNCHANGED vars
  BY <1>12, StutterInv
<1> QED
  BY <1>1, <1>2, <1>3, <1>4, <1>5, <1>6, <1>7, <1>8, <1>9, <1>10, <1>11, <1>12 DEF Next

LEMMA Invariance == Spec => []Inv
<1> QED
  BY InitInv, NextInv, PTL DEF Spec

\* Every variable of the rotation keeps its type.
THEOREM RotationTypeCorrect == Spec => []TypeOK
<1>1. Inv => TypeOK
  BY TypeGroups DEF Inv
<1> QED
  BY <1>1, Invariance, PTL

\* The listener, the monitor's restart and its recovery exclude one another,
\* and isRestarting is up exactly while one of them runs.
THEOREM OneRecovery == Spec => []OneRecoveryAtATime
<1>1. Inv => OneRecoveryAtATime
  <2> SUFFICES ASSUME Inv PROVE OneRecoveryAtATime
    OBVIOUS
  <2>1. \A a : a \in InRestart <=> Restarting(a)
    BY DEF InRestart, Restarting
  <2>2. InRestart \subseteq Caller
    BY Names DEF InRestart
  <2>3. isRestarting <=> InRestart # {}
    BY <2>1, <2>2, Zenon DEF Inv, OneRestart
  <2>4. Cardinality(InRestart) <= 1
    <3>1. CASE InRestart = {}
      BY <3>1, FS_EmptySet
    <3>2. CASE InRestart # {}
      <4>1. PICK a : a \in InRestart
        BY <3>2
      <4>2. InRestart = {a}
        BY <2>1, <2>2, <4>1 DEF Inv, OneRestart
      <4> QED
        BY <4>2, FS_Singleton
    <3> QED
      BY <3>1, <3>2
  <2> QED
    BY <2>3, <2>4 DEF OneRecoveryAtATime
<1> QED
  BY <1>1, Invariance, PTL

\* Once a human is installed, a relay on air is one that is being stopped,
\* whatever rotations were on their way when the takeover came.
THEOREM RotationsYield == Spec => []RotationsYieldToHumans
<1>1. Inv => RotationsYieldToHumans
  BY DEF Inv, TakeoversAim, CallersAim, RotationsYieldToHumans
<1> QED
  BY <1>1, Invariance, PTL

\* A check of the monitor would start the rotation, or look for a new relay.
MonitorCanRecover ==
  /\ MonitorMayAct
  /\ IF isEnabled THEN at["recover"] = "idle" ELSE at["restart"] = "idle"

\* A rotation that should run and has no relay on air.
Dark == Wanted /\ ~onAir

\* Why RecoversUnlessStale holds: a rotation that is dark is never left to
\* nobody.  A call of the rotation is under way, a reconnect is, or the next
\* check of the monitor acts; only the handle of a retry that is over can keep
\* it away.  (The flags isRestarting and _startingStream, which the monitor
\* waits for, are never up without the call that will lower them.)
THEOREM NeverLeftDark ==
  Spec => [](Dark => \/ \E a \in Caller : at[a] # "idle"
                     \/ reconnecting \/ MonitorCanRecover \/ StaleRetry)
<1>1. ASSUME Inv, Dark, \A a \in Caller : at[a] = "idle", ~reconnecting, ~StaleRetry
      PROVE  MonitorCanRecover
  <2>1. ~isRestarting
    BY <1>1 DEF Inv, OneRestart, Restarting
  <2>2. ~Busy
    BY <1>1 DEF Inv, OneStart, Holding, Busy
  <2>3. currentRetryTimer = NoChain
    <3>1. currentRetryTimer \in Chain \cup {NoChain} /\ Chain \subseteq Caller
      BY <1>1 DEF Inv, Types, TimerTypes, Caller, Rotator
    <3> QED
      BY <1>1, <3>1 DEF StaleRetry
  <2>4. takeover = "idle" /\ ~human
    BY <1>1 DEF Dark, Wanted
  <2>5. at["recover"] = "idle" /\ at["restart"] = "idle"
    BY <1>1 DEF Caller, Rotator, Recoverer, Starter
  <2> QED
    BY <2>1, <2>2, <2>3, <2>4, <2>5 DEF MonitorCanRecover, MonitorMayAct
<1>2. Inv => (Dark => \/ \E a \in Caller : at[a] # "idle"
                      \/ reconnecting \/ MonitorCanRecover \/ StaleRetry)
  BY <1>1
<1> QED
  BY <1>2, Invariance, PTL

=============================================================================
