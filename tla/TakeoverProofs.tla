--------------------------- MODULE TakeoverProofs ---------------------------
(***************************************************************************)
(* Proofs about Takeover, for any sockets, viewbots, relays and addresses. *)
(***************************************************************************)
EXTENDS Takeover, TLAPS

-----------------------------------------------------------------------------
(* Types *)

SlotTypeOK ==
  /\ viewers \subseteq Streamer
  /\ currentStreamer \in Streamer \cup {NoStreamer}
  /\ streamGeneration \in Nat
  /\ settled \in BOOLEAN
  /\ webrtcStreamer \in Streamer \cup {NoStreamer}

\* setStreamer of a streamer keeps the slot in its types.
LEMMA SetStreamerType ==
  ASSUME SlotTypeOK, NEW x \in Streamer, SetStreamer(x) PROVE SlotTypeOK'
<1>1. streamGeneration' \in Nat
  BY DEF SlotTypeOK, SetStreamer
<1>2. settled' \in BOOLEAN
  BY DEF SetStreamer
<1> QED
  BY <1>1, <1>2, Zenon DEF SlotTypeOK, SetStreamer

\* clearStreamer keeps the slot in its types.
LEMMA ClearStreamerType ==
  ASSUME SlotTypeOK, ClearStreamer PROVE SlotTypeOK'
<1>1. streamGeneration' \in Nat
  BY DEF SlotTypeOK, ClearStreamer
<1>2. settled' \in BOOLEAN
  BY DEF ClearStreamer
<1>3. viewers' \subseteq Streamer
  BY DEF SlotTypeOK, ClearStreamer
<1> QED
  BY <1>1, <1>2, <1>3, Zenon DEF SlotTypeOK, ClearStreamer

\* A cooldown is filed under an address or under a bare socket id.
LEMMA IdentifierType ==
  ASSUME NEW x \in Streamer, registered \subseteq Socket PROVE Identifier(x) \in Identifiers
BY DEF Identifier, Identifiers

\* Every handler step keeps every variable in its type.
LEMMA TypeStep == TypeOK /\ [Next]_vars => TypeOK'
<1> SUFFICES ASSUME TypeOK, [Next]_vars PROVE TypeOK'
  OBVIOUS
<1>0. SlotTypeOK
  BY DEF TypeOK, SlotTypeOK
<1> USE SocketAssumption, DistinctIds, BoundAssumption DEF TypeOK, Streamer, Human, RequestStep, InSection,
      StopStep, LeaveStep, GameStep, NoCheck, Check, Identifiers,
      slot, section, sessions, cooldowns, others
<1>1. ASSUME NEW s \in Socket, RequestToStream(s) PROVE TypeOK'
  BY <1>1 DEF RequestToStream, Arrival
<1>2. ASSUME NEW s \in Socket, Answering(s) PROVE TypeOK'
  <2>1. CASE RefuseBanned(s) BY <2>1 DEF RefuseBanned
  <2>2. CASE JoinChain(s) BY <2>2 DEF JoinChain
  <2>3. CASE DenyOnEntry(s) BY <2>3 DEF DenyOnEntry, TakeTurn
  <2>4. CASE EnterSection(s) BY <2>4 DEF EnterSection, TakeTurn
  <2>5. CASE EnterViewbot(s)
    <3>1. SlotTypeOK'
      BY <1>0, <2>5, SetStreamerType DEF SlotTypeOK, EnterViewbot
    <3>2. request' \in [Socket -> RequestStep]
      BY <2>5 DEF EnterViewbot
    <3>3. takeoverInProgress' \in BOOLEAN
      BY <2>5 DEF EnterViewbot
    <3> QED BY <2>5, <3>1, <3>2, <3>3 DEF EnterViewbot, TakeTurn, SlotTypeOK
  <2>6. CASE DenyGlobal(s) BY <2>6, ZenonT(40) DEF DenyGlobal, LeaveSection
  <2>7. CASE GrantFree(s)
    <3>1. SlotTypeOK'
      BY <1>0, <2>7, SetStreamerType DEF SlotTypeOK, GrantFree, GoLive
    <3> QED BY <2>7, <3>1 DEF GrantFree, GoLive, PauseRotation, SlotTypeOK
  <2>8. CASE GrantOver(s) BY <2>8 DEF GrantOver, Identifier
  <2>9. CASE OustDone(s)
    <3>1. SlotTypeOK'
      BY <1>0, <2>9, SetStreamerType DEF SlotTypeOK, OustDone, GoLive, CleanupMirror
    <3> QED BY <2>9, <3>1 DEF OustDone, GoLive, PauseRotation, SlotTypeOK
  <2>10. CASE PauseDone(s)
    <3>1. SlotTypeOK'
      BY <1>0, <2>10, SetStreamerType DEF SlotTypeOK, PauseDone, GoLive
    <3> QED BY <2>10, <3>1 DEF PauseDone, GoLive, SlotTypeOK
  <2>11. CASE RecordTakeover(s) BY <2>11 DEF RecordTakeover
  <2>12. CASE FinishTakeover(s) BY <2>12, ZenonT(40) DEF FinishTakeover, LeaveSection
  <2> QED BY <1>2, <2>1, <2>2, <2>3, <2>4, <2>5, <2>6, <2>7, <2>8, <2>9, <2>10,
             <2>11, <2>12 DEF Answering
<1>3. ASSUME NEW s \in Socket, StopStreaming(s) \/ Stopping(s) PROVE TypeOK'
  <2>1. CASE StopStreaming(s) BY <2>1 DEF StopStreaming, Arrival
  <2>2. CASE StopCooldown(s) BY <2>2 DEF StopCooldown, Identifier
  <2>3. CASE StopClear(s)
    <3>1. SlotTypeOK'
      BY <1>0, <2>3, ClearStreamerType DEF SlotTypeOK, StopClear
    <3> QED BY <2>3, <3>1 DEF StopClear, SlotTypeOK
  <2> QED BY <1>3, <2>1, <2>2, <2>3 DEF Stopping
<1>4. ASSUME NEW s \in Socket, Disconnect(s) \/ Leaving(s) PROVE TypeOK'
  <2>1. CASE Disconnect(s) BY <2>1 DEF Disconnect, Arrival
  <2>2. CASE DisconnectStreamer(s) BY <2>2 DEF DisconnectStreamer, CleanupMirror
  <2>3. CASE DisconnectViewer(s) BY <2>3 DEF DisconnectViewer
  <2>4. CASE DisconnectCooldown(s) BY <2>4 DEF DisconnectCooldown, Identifier
  <2>5. CASE DisconnectClear(s)
    <3>1. SlotTypeOK'
      BY <1>0, <2>5, ClearStreamerType DEF SlotTypeOK, DisconnectClear
    <3> QED BY <2>5, <3>1 DEF DisconnectClear, SlotTypeOK
  <2> QED BY <1>4, <2>1, <2>2, <2>3, <2>4, <2>5 DEF Leaving
<1>5. ASSUME NEW s \in Socket, JoinAsViewer(s) PROVE TypeOK'
  BY <1>5 DEF JoinAsViewer, Arrival
<1>6. ASSUME NEW r \in Relay, RelayRegister(r) \/ RelayEnd(r) PROVE TypeOK'
  <2>1. SlotTypeOK'
    BY <1>0, <1>6, SetStreamerType, ClearStreamerType DEF RelayRegister, RelayEnd
  <2> QED BY <1>6, <2>1 DEF RelayRegister, RelayEnd, Arrival, SlotTypeOK
<1>7. CASE OtherNext
  <2>1. CASE TestStart
    <3>1. SlotTypeOK'
      BY <1>0, <2>1, SetStreamerType DEF SlotTypeOK, TestStart
    <3> QED BY <2>1, <3>1 DEF TestStart, Arrival, SlotTypeOK
  <2>2. CASE TestStop
    <3>1. SlotTypeOK'
      BY <1>0, <2>2, ClearStreamerType DEF SlotTypeOK, TestStop
    <3> QED BY <2>2, <3>1 DEF TestStop, SlotTypeOK
  <2>3. CASE AdminClear
    <3>1. SlotTypeOK'
      BY <1>0, <2>3, ClearStreamerType DEF SlotTypeOK, AdminClear
    <3> QED BY <2>3, <3>1 DEF AdminClear, Arrival, SlotTypeOK
  <2>4. CASE GameStart \/ GameStarted \/ GameStop
    BY <2>4 DEF GameStart, GameStarted, GameStop, Arrival, BumpGeneration
  <2>5. CASE HealthCheck \/ HealthOk
    BY <2>5 DEF HealthCheck, HealthOk
  <2>7. CASE HealthBad
    <3>1. SlotTypeOK'
      BY <1>0, <2>7, ClearStreamerType DEF SlotTypeOK, HealthBad
    <3> QED BY <2>7, <3>1 DEF HealthBad, SlotTypeOK
  <2>6. CASE GraceEnds \/ GlobalCooldownEnds
    BY <2>6, ZenonT(40) DEF GraceEnds, GlobalCooldownEnds
  <2> QED BY <1>7, <2>1, <2>2, <2>3, <2>4, <2>5, <2>6, <2>7 DEF OtherNext
<1>8. ASSUME NEW k \in Identifiers, IndividualCooldownEnds(k) PROVE TypeOK'
  BY <1>8 DEF IndividualCooldownEnds
<1>9. CASE UNCHANGED vars
  BY <1>9 DEF vars
<1> QED BY <1>1, <1>2, <1>3, <1>4, <1>5, <1>6, <1>7, <1>8, <1>9 DEF Next

\* The first state is well typed.
LEMMA TypeInit == Init => TypeOK
<1> SUFFICES ASSUME Init PROVE TypeOK
  OBVIOUS
<1>1. /\ request \in [Socket -> RequestStep]
      /\ stopping \in [Socket -> StopStep]
      /\ leaving \in [Socket -> LeaveStep]
      /\ takeoverChain \in Seq(Socket)
  BY DEF Init, RequestStep, InSection, StopStep, LeaveStep
<1>2. check \in Check /\ game \in GameStep
  BY DEF Init, NoCheck, Check, GameStep
<1>3. streamGeneration \in Nat /\ arrivals \in 0..MaxArrivals
  BY BoundAssumption DEF Init
<1>4. /\ settled \in BOOLEAN /\ takeoverInProgress \in BOOLEAN
      /\ globalCooldown \in BOOLEAN /\ testActive \in BOOLEAN
  BY DEF Init
<1> QED
  BY <1>1, <1>2, <1>3, <1>4 DEF Init, TypeOK

\* Every variable of the streaming core keeps its type.
THEOREM TypeCorrect == Spec => []TypeOK
BY TypeInit, TypeStep, PTL DEF Spec

-----------------------------------------------------------------------------
(* Frames: what the steps outside request-to-stream leave alone. *)

Outside ==
  \/ \E s \in Socket :
       \/ StopStreaming(s) \/ Stopping(s)
       \/ Disconnect(s) \/ Leaving(s)
       \/ JoinAsViewer(s)
  \/ \E r \in Relay : RelayRegister(r) \/ RelayEnd(r)
  \/ OtherNext
  \/ \E k \in Identifiers : IndividualCooldownEnds(k)

\* The steps of Next sorted by what they can touch: a request, or the rest.
LEMMA NextSplit ==
  ASSUME [Next]_vars
  PROVE \/ UNCHANGED vars \/ Outside
        \/ \E s \in Socket : RequestToStream(s) \/ Answering(s)
BY DEF Next, Outside

\* No step outside a request touches a request or the section it runs in, and
\* none links a viewbot or starts the global cooldown.
LEMMA OutsideSection ==
  ASSUME Outside
  PROVE /\ UNCHANGED <<request, takeoverInProgress, takeoverChain, seen>>
        /\ botUsers' \subseteq botUsers
        /\ globalCooldown' => globalCooldown
<1> DEFINE P == /\ UNCHANGED <<request, takeoverInProgress, takeoverChain, seen>>
                /\ botUsers' \subseteq botUsers
                /\ globalCooldown' => globalCooldown
<1> USE DEF section, sessions, cooldowns
<1>1. ASSUME NEW s \in Socket, StopStreaming(s) \/ Stopping(s) \/ JoinAsViewer(s) PROVE P
  BY <1>1 DEF StopStreaming, Stopping, StopCooldown, StopClear, JoinAsViewer
<1>2. ASSUME NEW s \in Socket, Disconnect(s) \/ Leaving(s) PROVE P
  BY <1>2 DEF Disconnect, Leaving, DisconnectStreamer, DisconnectViewer,
              DisconnectCooldown, DisconnectClear
<1>3. ASSUME NEW r \in Relay, RelayRegister(r) \/ RelayEnd(r) PROVE P
  BY <1>3 DEF RelayRegister, RelayEnd
<1>4. ASSUME OtherNext PROVE P
  BY <1>4 DEF OtherNext, TestStart, TestStop, AdminClear, GameStart, GameStarted,
              GameStop, HealthCheck, HealthOk, HealthBad, GraceEnds, GlobalCooldownEnds
<1>5. ASSUME NEW k \in Identifiers, IndividualCooldownEnds(k) PROVE P
  BY <1>5 DEF IndividualCooldownEnds
<1> QED BY <1>1, <1>2, <1>3, <1>4, <1>5 DEF Outside

\* What those steps do to the slot: nothing, or one new generation under which
\* the streamer stays, leaves, gives way to the test pattern, or, when no
\* takeover runs and no person streams, to a relay.
Renewed ==
  /\ streamGeneration' = streamGeneration + 1
  /\ \/ currentStreamer' \in {currentStreamer, NoStreamer, TestStream}
     \/ /\ ~takeoverInProgress
        /\ currentStreamer \in Relay \cup {NoStreamer}
        /\ currentStreamer' \in Relay

\* A step outside a request leaves the slot alone, or renews it and not the
\* global cooldown.
LEMMA OutsideSlot ==
  ASSUME Outside
  PROVE \/ UNCHANGED <<currentStreamer, streamGeneration>>
        \/ Renewed /\ UNCHANGED globalCooldown
<1> DEFINE P == \/ UNCHANGED <<currentStreamer, streamGeneration>>
                \/ Renewed /\ UNCHANGED globalCooldown
<1> USE DEF slot, cooldowns, Renewed, SetStreamer, ClearStreamer
<1>1. ASSUME NEW s \in Socket, StopStreaming(s) \/ Stopping(s) \/ JoinAsViewer(s) PROVE P
  BY <1>1 DEF StopStreaming, Stopping, StopCooldown, StopClear, JoinAsViewer
<1>2. ASSUME NEW s \in Socket, Disconnect(s) \/ Leaving(s) PROVE P
  BY <1>2 DEF Disconnect, Leaving, DisconnectStreamer, DisconnectViewer,
              DisconnectCooldown, DisconnectClear, CleanupMirror
<1>3. ASSUME NEW r \in Relay, RelayRegister(r) \/ RelayEnd(r) PROVE P
  BY <1>3 DEF RelayRegister, RelayEnd, Superseded
<1>4. ASSUME OtherNext PROVE P
  BY <1>4 DEF OtherNext, TestStart, TestStop, AdminClear, GameStart, GameStarted,
              GameStop, BumpGeneration, HealthCheck, HealthOk, HealthBad, GraceEnds,
              GlobalCooldownEnds
<1>5. ASSUME NEW k \in Identifiers, IndividualCooldownEnds(k) PROVE P
  BY <1>5 DEF IndividualCooldownEnds
<1> QED BY <1>1, <1>2, <1>3, <1>4, <1>5 DEF Outside

-----------------------------------------------------------------------------
(* Mutual exclusion *)

\* One takeover at a time is inductive as it stands.
LEMMA SectionStep ==
  ASSUME TypeOK, OneTakeoverAtATime, [Next]_vars PROVE OneTakeoverAtATime'
<1> USE DEF OneTakeoverAtATime, InSection, TypeOK
<1>1. CASE Outside
  BY <1>1, OutsideSection
<1>2. CASE UNCHANGED vars
  BY <1>2 DEF vars, section
<1>3. ASSUME NEW s \in Socket, RequestToStream(s) PROVE OneTakeoverAtATime'
  BY <1>3 DEF RequestToStream, section
<1>4. ASSUME NEW s \in Socket, Answering(s) PROVE OneTakeoverAtATime'
  <2>1. CASE RefuseBanned(s) \/ JoinChain(s) \/ DenyOnEntry(s)
    BY <2>1 DEF RefuseBanned, JoinChain, DenyOnEntry, TakeTurn, section
  <2>2. CASE EnterSection(s)
    BY <2>2 DEF EnterSection, TakeTurn
  <2>3. CASE EnterViewbot(s)
    <3>1. /\ ~takeoverInProgress /\ takeoverInProgress' = TRUE
          /\ \/ request' = [request EXCEPT ![s] = "live"]
             \/ request' = [request EXCEPT ![s] = "ousting"]
      BY <2>3 DEF EnterViewbot, TakeTurn
    <3> QED BY <3>1
  <2>4. CASE DenyGlobal(s) \/ FinishTakeover(s)
    BY <2>4 DEF DenyGlobal, FinishTakeover, LeaveSection
  <2>5. CASE GrantFree(s) \/ GrantOver(s)
    BY <2>5 DEF GrantFree, GrantOver, GoLive, PauseRotation, section
  <2>6. CASE OustDone(s) \/ PauseDone(s) \/ RecordTakeover(s)
    BY <2>6 DEF OustDone, PauseDone, RecordTakeover, GoLive, PauseRotation, section
  <2> QED BY <1>4, <2>1, <2>2, <2>3, <2>4, <2>5, <2>6 DEF Answering
<1> QED BY <1>1, <1>2, <1>3, <1>4, NextSplit

\* runExclusiveTakeover is a mutual exclusion, and its flag tells the truth.
THEOREM MutualExclusion == Spec => []OneTakeoverAtATime
<1>1. Init => OneTakeoverAtATime
  BY DEF Init, OneTakeoverAtATime, InSection
<1> QED BY <1>1, SectionStep, TypeCorrect, PTL DEF Spec

-----------------------------------------------------------------------------
(* The inductive invariant *)

\* What a task in the section has torn down is still true after any step.
LEMMA TasksStep ==
  ASSUME TypeOK, OneTakeoverAtATime, TasksKnowTheSlot, [Next]_vars
  PROVE  TasksKnowTheSlot'
<1> USE SocketAssumption, DistinctIds DEF TasksKnowTheSlot, OneTakeoverAtATime, InSection, Human, TypeOK
<1>1. CASE Outside
  <2>1. /\ UNCHANGED <<request, takeoverInProgress, takeoverChain, seen>>
        /\ botUsers' \subseteq botUsers
        /\ globalCooldown' => globalCooldown
    BY <1>1, OutsideSection
  <2>2. \/ currentStreamer' \in {currentStreamer, NoStreamer, TestStream}
        \/ ~takeoverInProgress
    BY <1>1, OutsideSlot DEF Renewed
  <2> QED BY <2>1, <2>2
<1>2. CASE UNCHANGED vars
  BY <1>2 DEF vars, slot, section, sessions, cooldowns
<1>3. ASSUME NEW s \in Socket, RequestToStream(s) PROVE TasksKnowTheSlot'
  BY <1>3 DEF RequestToStream, slot, section, sessions, cooldowns
<1>4. ASSUME NEW s \in Socket, Answering(s) PROVE TasksKnowTheSlot'
  <2>1. CASE RefuseBanned(s) \/ JoinChain(s) \/ DenyOnEntry(s)
    BY <2>1 DEF RefuseBanned, JoinChain, DenyOnEntry, slot, section, sessions, cooldowns
  <2>2. CASE EnterSection(s)
    BY <2>2 DEF EnterSection, TakeTurn, slot, sessions, cooldowns
  <2>3. CASE EnterViewbot(s)
    <3>1. CASE currentStreamer = NoStreamer
      BY <2>3, <3>1 DEF EnterViewbot, TakeTurn, SetStreamer, sessions, cooldowns
    <3>2. CASE currentStreamer # NoStreamer
      BY <2>3, <3>2 DEF EnterViewbot, TakeTurn, RealOnEntry, slot, sessions, cooldowns
    <3> QED BY <3>1, <3>2
  <2>4. CASE DenyGlobal(s) \/ FinishTakeover(s)
    BY <2>4 DEF DenyGlobal, FinishTakeover, LeaveSection, slot, sessions, cooldowns
  <2>5. CASE GrantFree(s)
    BY <2>5 DEF GrantFree, GoLive, PauseRotation, SetStreamer, slot, section, sessions, cooldowns
  <2>6. CASE GrantOver(s)
    BY <2>6 DEF GrantOver, slot, section, sessions
  <2>7. CASE OustDone(s)
    BY <2>7 DEF OustDone, GoLive, PauseRotation, SetStreamer, CleanupMirror, section, sessions, cooldowns
  <2>8. CASE PauseDone(s)
    BY <2>8 DEF PauseDone, GoLive, SetStreamer, section, sessions, cooldowns
  <2>9. CASE RecordTakeover(s)
    BY <2>9 DEF RecordTakeover, slot, section, sessions
  <2> QED BY <1>4, <2>1, <2>2, <2>3, <2>4, <2>5, <2>6, <2>7, <2>8, <2>9 DEF Answering
<1> QED BY <1>1, <1>2, <1>3, <1>4, NextSplit

\* What any step does to the slot, seen from the health check and the mirror: it
\* keeps the generation and unsettles nothing, or takes the next one.
Kept ==
  /\ UNCHANGED <<currentStreamer, streamGeneration>>
  /\ settled => settled'
  /\ webrtcStreamer' \in {webrtcStreamer, NoStreamer}

Advanced ==
  /\ streamGeneration' = streamGeneration + 1
  /\ \/ UNCHANGED <<currentStreamer, webrtcStreamer>>
     \/ webrtcStreamer' \in {currentStreamer', NoStreamer}

\* Any step leaves the slot and its generation alone, or installs or clears a
\* streamer under a new generation; the mirror follows.
LEMMA SlotEffect == ASSUME [Next]_vars PROVE Kept \/ Advanced
<1> USE DEF Kept, Advanced, slot, SetStreamer, ClearStreamer
<1>1. ASSUME NEW s \in Socket, StopStreaming(s) \/ Stopping(s) \/ JoinAsViewer(s)
      PROVE Kept \/ Advanced
  BY <1>1 DEF StopStreaming, Stopping, StopCooldown, StopClear, JoinAsViewer
<1>2. ASSUME NEW s \in Socket, Disconnect(s) \/ Leaving(s) PROVE Kept \/ Advanced
  BY <1>2 DEF Disconnect, Leaving, DisconnectStreamer, DisconnectViewer,
              DisconnectCooldown, DisconnectClear, CleanupMirror
<1>3. ASSUME NEW r \in Relay, RelayRegister(r) \/ RelayEnd(r) PROVE Kept \/ Advanced
  BY <1>3 DEF RelayRegister, RelayEnd
<1>4. ASSUME OtherNext PROVE Kept \/ Advanced
  BY <1>4 DEF OtherNext, TestStart, TestStop, AdminClear, GameStart, GameStarted,
              GameStop, BumpGeneration, HealthCheck, HealthOk, HealthBad, GraceEnds,
              GlobalCooldownEnds
<1>5. ASSUME NEW k \in Identifiers, IndividualCooldownEnds(k) PROVE Kept \/ Advanced
  BY <1>5 DEF IndividualCooldownEnds
<1>6. ASSUME NEW s \in Socket, RequestToStream(s) \/ Answering(s) PROVE Kept \/ Advanced
  BY <1>6 DEF RequestToStream, Answering, RefuseBanned, JoinChain, DenyOnEntry,
              EnterSection, EnterViewbot, DenyGlobal, GrantFree, GrantOver, OustDone,
              PauseDone, RecordTakeover, FinishTakeover, GoLive, PauseRotation,
              CleanupMirror
<1>7. CASE UNCHANGED vars
  BY <1>7 DEF vars
<1> QED BY <1>1, <1>2, <1>3, <1>4, <1>5, <1>6, <1>7 DEF Next

\* A health check that begins takes the slot as it is; a running one is kept.
LEMMA CheckEffect ==
  ASSUME [Next]_vars
  PROVE \/ check' \in {check, NoCheck}
        \/ /\ settled /\ UNCHANGED <<settled, streamGeneration>>
           /\ check'.generation = streamGeneration
<1> DEFINE P == \/ check' \in {check, NoCheck}
                \/ /\ settled /\ UNCHANGED <<settled, streamGeneration>>
                   /\ check'.generation = streamGeneration
<1> USE DEF others, slot
<1>1. ASSUME NEW s \in Socket,
             StopStreaming(s) \/ Stopping(s) \/ JoinAsViewer(s) \/ Disconnect(s) \/ Leaving(s)
      PROVE P
  BY <1>1 DEF StopStreaming, Stopping, StopCooldown, StopClear, JoinAsViewer,
              Disconnect, Leaving, DisconnectStreamer, DisconnectViewer,
              DisconnectCooldown, DisconnectClear
<1>2. ASSUME NEW r \in Relay, RelayRegister(r) \/ RelayEnd(r) PROVE P
  BY <1>2 DEF RelayRegister, RelayEnd
<1>3. ASSUME OtherNext PROVE P
  <2>1. CASE HealthCheck BY <2>1 DEF HealthCheck
  <2>2. CASE ~HealthCheck
    BY <1>3, <2>2 DEF OtherNext, TestStart, TestStop, AdminClear, GameStart,
         GameStarted, GameStop, HealthOk, HealthBad, GraceEnds, GlobalCooldownEnds
  <2> QED BY <2>1, <2>2
<1>4. ASSUME NEW k \in Identifiers, IndividualCooldownEnds(k) PROVE P
  BY <1>4 DEF IndividualCooldownEnds
<1>5. ASSUME NEW s \in Socket, RequestToStream(s) \/ Answering(s) PROVE P
  BY <1>5 DEF RequestToStream, Answering, RefuseBanned, JoinChain, DenyOnEntry,
              EnterSection, EnterViewbot, DenyGlobal, GrantFree, GrantOver, OustDone,
              PauseDone, RecordTakeover, FinishTakeover
<1>6. CASE UNCHANGED vars
  BY <1>6 DEF vars
<1> QED BY <1>1, <1>2, <1>3, <1>4, <1>5, <1>6 DEF Next

\* The generation a health check holds is never ahead of the slot's, and while
\* it is the same the stream has settled.
LEMMA ChecksStep ==
  ASSUME TypeOK, ChecksAgeWithTheSlot, [Next]_vars PROVE ChecksAgeWithTheSlot'
<1>1. /\ check.generation \in Nat /\ streamGeneration \in Nat
      /\ NoCheck.generation = 0
  BY DEF TypeOK, Check, NoCheck
<1>2. CASE check' \in {check, NoCheck}
  <2>1. CASE Kept
    BY <1>1, <1>2, <2>1 DEF Kept, ChecksAgeWithTheSlot
  <2>2. CASE Advanced
    BY <1>1, <1>2, <2>2 DEF Advanced, ChecksAgeWithTheSlot
  <2> QED BY <2>1, <2>2, SlotEffect
<1>3. CASE check' \notin {check, NoCheck}
  BY <1>1, <1>3, CheckEffect DEF ChecksAgeWithTheSlot
<1> QED BY <1>2, <1>3

\* Everything the safety properties need is an invariant.
THEOREM InductiveInvariant == Spec => []Inductive
<1>1. Init => Inductive
  <2> SUFFICES ASSUME Init PROVE Inductive
    OBVIOUS
  <2>1. OneTakeoverAtATime /\ TasksKnowTheSlot /\ StatusNamesNoEndedStreamer
    BY DEF Init, OneTakeoverAtATime, InSection, TasksKnowTheSlot, StatusNamesNoEndedStreamer
  <2>2. ChecksAgeWithTheSlot
    BY DEF Init, ChecksAgeWithTheSlot, NoCheck
  <2> QED BY <2>1, <2>2 DEF Inductive
<1>2. ASSUME TypeOK, Inductive, [Next]_vars PROVE Inductive'
  <2>1. StatusNamesNoEndedStreamer'
    BY <1>2, SlotEffect DEF Inductive, StatusNamesNoEndedStreamer, Kept, Advanced
  <2> QED BY <1>2, <2>1, SectionStep, TasksStep, ChecksStep DEF Inductive
<1> QED BY <1>1, <1>2, TypeCorrect, PTL DEF Spec

-----------------------------------------------------------------------------
(* Going live *)

\* A step of a request either leaves streamer and generation alone, and is not
\* the one that goes live, or it is that one, from one of its three places.
Quiet(s) ==
  /\ UNCHANGED <<currentStreamer, streamGeneration>>
  /\ \E step \in RequestStep \ {"live"} : request' = [request EXCEPT ![s] = step]
  /\ \/ UNCHANGED globalCooldown /\ request[s] # "live"
     \/ request[s] = "live" /\ globalCooldown' = (globalCooldown \/ s \in Human)

Live(s) ==
  /\ currentStreamer' = s
  /\ streamGeneration' = streamGeneration + 1
  /\ request' = [request EXCEPT ![s] = "live"]
  /\ UNCHANGED globalCooldown
  /\ \/ s \in ViewbotSocket /\ ~takeoverInProgress /\ currentStreamer = NoStreamer
     \/ request[s] = "checking" /\ ~globalCooldown /\ seen = NoStreamer
     \/ request[s] \in {"ousting", "pausing"}

\* A queued task is at no other place of its handler: its socket waits in the
\* chain, and nothing takes the same request into the section twice.
LEMMA AnsweringEffect ==
  ASSUME TypeOK, NEW s \in Socket, Answering(s), request[s] # "live" \/ takeoverInProgress
  PROVE  Quiet(s) \/ Live(s)
<1> USE DEF Quiet, Live, RequestStep, InSection, slot, cooldowns, TypeOK
<1>1. CASE RefuseBanned(s) \/ JoinChain(s)
  BY <1>1 DEF RefuseBanned, JoinChain
<1>2. CASE DenyOnEntry(s)
  BY <1>2 DEF DenyOnEntry, TakeTurn
<1>3. CASE EnterSection(s)
  BY <1>3 DEF EnterSection, TakeTurn
<1>4. CASE EnterViewbot(s)
  BY <1>4 DEF EnterViewbot, TakeTurn, SetStreamer
<1>5. CASE DenyGlobal(s)
  BY <1>5 DEF DenyGlobal, LeaveSection
<1>6. CASE GrantFree(s)
  BY <1>6 DEF GrantFree, GoLive, PauseRotation, SetStreamer
<1>7. CASE GrantOver(s)
  BY <1>7 DEF GrantOver
<1>8. CASE OustDone(s)
  BY <1>8 DEF OustDone, GoLive, PauseRotation, SetStreamer, CleanupMirror
<1>9. CASE PauseDone(s)
  BY <1>9 DEF PauseDone, GoLive, SetStreamer
<1>10. CASE RecordTakeover(s)
  BY <1>10 DEF RecordTakeover
<1>11. CASE FinishTakeover(s)
  BY <1>11 DEF FinishTakeover, LeaveSection
<1> QED BY <1>1, <1>2, <1>3, <1>4, <1>5, <1>6, <1>7, <1>8, <1>9, <1>10, <1>11 DEF Answering

\* Who goes live, and over whom: the cooldown is at rest if it is a person, no
\* other person is between setStreamer and recordTakeover, and the slot holds
\* what the task tore down.
LEMMA GoingLive ==
  ASSUME TypeOK, Inductive, NEW s \in Socket, Live(s)
  PROVE  /\ s \in Human => ~globalCooldown
         /\ \A t \in Socket : request[t] # "live"
         /\ currentStreamer \in {seen, NoStreamer, TestStream}
         /\ s \in ViewbotSocket => currentStreamer \notin Human
BY SocketAssumption, DistinctIds
DEF Live, Inductive, TasksKnowTheSlot, OneTakeoverAtATime, InSection, Human

\* The generic form of the four action theorems below.
LEMMA StreamerStep ==
  ASSUME TypeOK, Inductive, [Next]_vars, currentStreamer' # currentStreamer
  PROVE  \/ currentStreamer' \in {NoStreamer, TestStream}
         \/ currentStreamer' \in Relay /\ currentStreamer \in Relay \cup {NoStreamer}
         \/ \E s \in Socket : Live(s)
<1>1. CASE Outside
  BY <1>1, OutsideSlot DEF Renewed
<1>2. CASE UNCHANGED vars
  BY <1>2 DEF vars, slot
<1>3. ASSUME NEW s \in Socket, RequestToStream(s) PROVE FALSE
  BY <1>3 DEF RequestToStream, slot
<1>4. ASSUME NEW s \in Socket, Answering(s) PROVE Live(s)
  <2>1. request[s] # "live" \/ takeoverInProgress
    BY DEF Inductive, OneTakeoverAtATime, InSection
  <2> QED BY <1>4, <2>1, AnsweringEffect DEF Quiet
<1> QED BY <1>1, <1>2, <1>3, <1>4, NextSplit

\* ADR-0033 for any number of sockets: no grant inside the global cooldown, nor
\* between another person's setStreamer and recordTakeover.
THEOREM CooldownRespected == Spec => GrantsRespectTheGlobalCooldown
<1>1. ASSUME TypeOK, Inductive, [Next]_vars
      PROVE  [currentStreamer' \in Human /\ currentStreamer' # currentStreamer
                => /\ ~globalCooldown
                   /\ \A t \in Human : request[t] # "live"]_vars
  BY <1>1, StreamerStep, GoingLive, DistinctIds DEF Human, Live
<1> QED BY <1>1, TypeCorrect, InductiveInvariant, PTL DEF Spec, GrantsRespectTheGlobalCooldown

\* Nobody slips in between a task's teardown and its setStreamer.
THEOREM TeardownHolds == Spec => RequestsReplaceWhatTheyToreDown
<1>1. ASSUME TypeOK, Inductive, [Next]_vars
      PROVE  [currentStreamer' \in Socket /\ currentStreamer' # currentStreamer
                => currentStreamer \in {seen, NoStreamer, TestStream}]_vars
  BY <1>1, StreamerStep, GoingLive, DistinctIds
<1> QED BY <1>1, TypeCorrect, InductiveInvariant, PTL DEF Spec, RequestsReplaceWhatTheyToreDown

\* The priority rule: neither a viewbot nor a relay ever replaces a person.
THEOREM HumansHavePriority == Spec => BotsNeverReplaceHumans
<1>1. ASSUME TypeOK, Inductive, [Next]_vars
      PROVE  [currentStreamer' \in ViewbotSocket \cup Relay => currentStreamer \notin Human]_vars
  BY <1>1, StreamerStep, GoingLive, SocketAssumption, DistinctIds DEF Human, Live
<1> QED BY <1>1, TypeCorrect, InductiveInvariant, PTL DEF Spec, BotsNeverReplaceHumans

-----------------------------------------------------------------------------
(* The health check and the mirror *)

\* Only the health check itself ends a health check.
LEMMA CheckEnds ==
  ASSUME TypeOK, [Next]_vars, check # NoCheck, check' = NoCheck
  PROVE  HealthOk \/ HealthBad
<1> USE DEF others
<1>1. CASE Outside
  <2>1. ASSUME NEW s \in Socket,
               StopStreaming(s) \/ Stopping(s) \/ JoinAsViewer(s) \/ Disconnect(s) \/ Leaving(s)
        PROVE FALSE
    BY <2>1 DEF StopStreaming, Stopping, StopCooldown, StopClear, JoinAsViewer,
                Disconnect, Leaving, DisconnectStreamer, DisconnectViewer,
                DisconnectCooldown, DisconnectClear
  <2>2. ASSUME NEW r \in Relay, RelayRegister(r) \/ RelayEnd(r) PROVE FALSE
    BY <2>2 DEF RelayRegister, RelayEnd
  <2>3. ASSUME OtherNext PROVE HealthOk \/ HealthBad
    BY <2>3 DEF OtherNext, TestStart, TestStop, AdminClear, GameStart, GameStarted,
                GameStop, HealthCheck, GraceEnds, GlobalCooldownEnds
  <2>4. ASSUME NEW k \in Identifiers, IndividualCooldownEnds(k) PROVE FALSE
    BY <2>4 DEF IndividualCooldownEnds
  <2> QED BY <1>1, <2>1, <2>2, <2>3, <2>4 DEF Outside
<1>2. CASE UNCHANGED vars
  BY <1>2 DEF vars
<1>3. ASSUME NEW s \in Socket, RequestToStream(s) \/ Answering(s) PROVE FALSE
  BY <1>3 DEF RequestToStream, Answering, RefuseBanned, JoinChain, DenyOnEntry,
              EnterSection, EnterViewbot, DenyGlobal, GrantFree, GrantOver, OustDone,
              PauseDone, RecordTakeover, FinishTakeover
<1> QED BY <1>1, <1>2, <1>3, NextSplit

\* The compare-and-clear of the health check: however long LiveKit takes to
\* answer, a stream installed meanwhile survives the answer.
THEOREM FreshStreamsSurvive == Spec => HealthSparesFreshStreams
<1>1. ASSUME TypeOK, Inductive, [Next]_vars
      PROVE  [check # NoCheck /\ check' = NoCheck /\ currentStreamer' # currentStreamer
                => settled /\ currentStreamer = check.id]_vars
  <2>1. CASE HealthOk
    BY <2>1 DEF HealthOk, slot
  <2>2. CASE HealthBad
    BY <1>1, <2>2 DEF HealthBad, slot, Inductive, ChecksAgeWithTheSlot
  <2> QED BY <1>1, <2>1, <2>2, CheckEnds
<1> QED BY <1>1, TypeCorrect, InductiveInvariant, PTL DEF Spec, HealthSparesFreshStreams

\* The fallback of getStreamStatus never resurrects an ended stream.
THEOREM MirrorFollows == Spec => []StatusNamesNoEndedStreamer
<1>1. Inductive => StatusNamesNoEndedStreamer
  BY DEF Inductive
<1> QED BY <1>1, InductiveInvariant, PTL

-----------------------------------------------------------------------------
(* The queue *)

\* The chain holds the requests that wait, each of them once.
ChainHoldsTheQueued ==
  /\ \A i \in 1..Len(takeoverChain) : request[takeoverChain[i]] = "queued"
  /\ \A s \in Socket :
       request[s] = "queued" => \E i \in 1..Len(takeoverChain) : takeoverChain[i] = s
  /\ \A i, j \in 1..Len(takeoverChain) :
       takeoverChain[i] = takeoverChain[j] => i = j

\* A task that takes its turn is the first of the chain and waits no more.
LEMMA TurnTaken ==
  ASSUME TypeOK, ChainHoldsTheQueued, NEW s \in Socket, TakeTurn(s),
         NEW step \in RequestStep \ {"queued"}, request' = [request EXCEPT ![s] = step]
  PROVE  ChainHoldsTheQueued'
<1> DEFINE n == Len(takeoverChain)
           q == takeoverChain
<1>1. /\ q \in Seq(Socket) /\ q # <<>> /\ q[1] = s /\ takeoverChain' = Tail(q)
  BY DEF TypeOK, TakeTurn
<1>2. /\ n \in Nat \ {0} /\ Len(takeoverChain') = n - 1
      /\ \A i \in 1..(n - 1) : takeoverChain'[i] = q[i + 1]
  BY <1>1
<1>3. \A i \in 1..n : q[i] \in Socket
  BY <1>1
<1> HIDE DEF n, q
<1>4. ASSUME NEW i \in 1..(n - 1) PROVE request'[q[i + 1]] = "queued"
  <2>1. i + 1 \in 1..n /\ 1 \in 1..n /\ i + 1 # 1
    BY <1>2, <1>4
  <2>2. q[i + 1] # q[1] /\ request[q[i + 1]] = "queued"
    BY <2>1 DEF ChainHoldsTheQueued, n, q
  <2>3. q[i + 1] # s /\ q[i + 1] \in Socket
    BY <1>1, <1>3, <2>1, <2>2
  <2> QED BY <2>2, <2>3 DEF TypeOK
<1>5. ASSUME NEW t \in Socket, request'[t] = "queued"
      PROVE  \E i \in 1..(n - 1) : q[i + 1] = t
  <2>1. t # s /\ request[t] = "queued"
    BY <1>5 DEF TypeOK
  <2>2. PICK i \in 1..n : q[i] = t
    BY <2>1 DEF ChainHoldsTheQueued, n, q
  <2>3. i # 1
    BY <1>1, <2>1, <2>2
  <2>4. i - 1 \in 1..(n - 1) /\ (i - 1) + 1 = i
    BY <1>2, <2>2, <2>3
  <2> QED BY <2>2, <2>4
<1>6. ASSUME NEW i \in 1..(n - 1), NEW j \in 1..(n - 1), q[i + 1] = q[j + 1] PROVE i = j
  <2>1. i + 1 \in 1..n /\ j + 1 \in 1..n
    BY <1>2, <1>6
  <2>2. i + 1 = j + 1
    BY <1>6, <2>1 DEF ChainHoldsTheQueued, n, q
  <2> QED BY <1>6, <2>2
<1>7. \A i \in 1..Len(takeoverChain') : request'[takeoverChain'[i]] = "queued"
  BY <1>2, <1>4
<1>8. \A t \in Socket : request'[t] = "queued"
        => \E i \in 1..Len(takeoverChain') : takeoverChain'[i] = t
  BY <1>2, <1>5
<1>9. \A i, j \in 1..Len(takeoverChain') : takeoverChain'[i] = takeoverChain'[j] => i = j
  BY <1>2, <1>6
<1> QED BY <1>7, <1>8, <1>9 DEF ChainHoldsTheQueued

LEMMA QueueStep ==
  ASSUME TypeOK, ChainHoldsTheQueued, [Next]_vars PROVE ChainHoldsTheQueued'
<1> DEFINE Same == /\ takeoverChain' = takeoverChain
                   /\ \A t \in Socket : request'[t] = "queued" <=> request[t] = "queued"
<1>0. \A i \in 1..Len(takeoverChain) : takeoverChain[i] \in Socket
  BY DEF TypeOK
<1>1. ASSUME Same PROVE ChainHoldsTheQueued'
  BY <1>0, <1>1 DEF ChainHoldsTheQueued
<1>2. ASSUME NEW s \in Socket, NEW step, step # "queued", request[s] # "queued",
             request' = [request EXCEPT ![s] = step], UNCHANGED takeoverChain
      PROVE  ChainHoldsTheQueued'
  BY <1>1, <1>2 DEF TypeOK
<1>3. ASSUME NEW s \in Socket, JoinChain(s) PROVE ChainHoldsTheQueued'
  <2>1. /\ request[s] = "banCheck" /\ request' = [request EXCEPT ![s] = "queued"]
        /\ takeoverChain' = Append(takeoverChain, s) /\ takeoverChain \in Seq(Socket)
    BY <1>3 DEF JoinChain, TypeOK
  <2>2. /\ Len(takeoverChain') = Len(takeoverChain) + 1 /\ Len(takeoverChain) \in Nat
        /\ takeoverChain'[Len(takeoverChain) + 1] = s
        /\ \A i \in 1..Len(takeoverChain) : takeoverChain'[i] = takeoverChain[i]
    BY <2>1
  <2>3. \A i \in 1..Len(takeoverChain) : takeoverChain[i] # s
    BY <2>1 DEF ChainHoldsTheQueued
  <2>4. ASSUME NEW i \in 1..Len(takeoverChain')
        PROVE  i \in 1..Len(takeoverChain) \/ i = Len(takeoverChain) + 1
    BY <2>2, <2>4
  <2>5. \A i \in 1..Len(takeoverChain') : request'[takeoverChain'[i]] = "queued"
    BY <1>0, <2>1, <2>2, <2>4 DEF ChainHoldsTheQueued, TypeOK
  <2>6. \A t \in Socket : request'[t] = "queued"
          => \E i \in 1..Len(takeoverChain') : takeoverChain'[i] = t
    <3> SUFFICES ASSUME NEW t \in Socket, request'[t] = "queued"
                 PROVE  \E i \in 1..Len(takeoverChain') : takeoverChain'[i] = t
      OBVIOUS
    <3>1. CASE t = s
      BY <2>2, <3>1
    <3>2. CASE t # s
      <4>1. request[t] = "queued"
        BY <2>1, <3>2 DEF TypeOK
      <4>2. PICK i \in 1..Len(takeoverChain) : takeoverChain[i] = t
        BY <4>1 DEF ChainHoldsTheQueued
      <4> QED BY <2>2, <4>2
    <3> QED BY <3>1, <3>2
  <2>7. \A i, j \in 1..Len(takeoverChain') : takeoverChain'[i] = takeoverChain'[j] => i = j
    BY <2>2, <2>3, <2>4 DEF ChainHoldsTheQueued
  <2> QED BY <2>5, <2>6, <2>7 DEF ChainHoldsTheQueued
<1>4. ASSUME NEW s \in Socket, DenyOnEntry(s) PROVE ChainHoldsTheQueued'
  <2>1. TakeTurn(s) /\ request' = [request EXCEPT ![s] = "idle"]
    BY <1>4 DEF DenyOnEntry
  <2> QED BY <2>1, TurnTaken DEF RequestStep
<1>5. ASSUME NEW s \in Socket, EnterSection(s) \/ EnterViewbot(s) PROVE ChainHoldsTheQueued'
  <2>1. PICK step \in {"checking", "live", "ousting"} :
          TakeTurn(s) /\ request' = [request EXCEPT ![s] = step]
    BY <1>5 DEF EnterSection, EnterViewbot
  <2> QED BY <2>1, TurnTaken DEF RequestStep, InSection
<1>6. ASSUME NEW s \in Socket,
             \/ RequestToStream(s) \/ RefuseBanned(s) \/ DenyGlobal(s) \/ GrantFree(s)
             \/ GrantOver(s) \/ OustDone(s) \/ PauseDone(s) \/ RecordTakeover(s)
             \/ FinishTakeover(s)
      PROVE  ChainHoldsTheQueued'
  <2>1. PICK step : /\ step # "queued" /\ request[s] # "queued"
                    /\ request' = [request EXCEPT ![s] = step] /\ UNCHANGED takeoverChain
    BY <1>6 DEF RequestToStream, RefuseBanned, DenyGlobal, GrantFree, GrantOver, OustDone,
                PauseDone, RecordTakeover, FinishTakeover, GoLive, PauseRotation,
                LeaveSection, section
  <2> QED BY <1>2, <2>1
<1>7. ASSUME Outside \/ UNCHANGED vars PROVE ChainHoldsTheQueued'
  <2>1. UNCHANGED <<takeoverChain, request>>
    BY <1>7, OutsideSection DEF vars, section
  <2> QED BY <1>1, <2>1
<1> QED
  BY <1>3, <1>4, <1>5, <1>6, <1>7, NextSplit DEF Answering

\* Task t is first on _takeoverChain and nothing runs before it.
HasTurn(t) ==
  /\ ~takeoverInProgress
  /\ takeoverChain # <<>> /\ Head(takeoverChain) = t
  /\ request[t] = "queued"

\* Why QueuedRequestsAreDecided holds: while a request waits, a task runs in the
\* section or the first of the chain has its turn.  No refusal, disconnect or
\* failure leaves the flag up without a task, drops a request from the chain or
\* leaves one on it that waits no more.
THEOREM TheQueueMoves ==
  Spec => [](\A s \in Socket : request[s] = "queued"
               => \E t \in Socket : request[t] \in InSection \/ HasTurn(t))
<1>1. Init => ChainHoldsTheQueued
  BY DEF Init, ChainHoldsTheQueued
<1>2. TypeOK /\ ChainHoldsTheQueued /\ [Next]_vars => ChainHoldsTheQueued'
  BY QueueStep
<1>3. ASSUME TypeOK, Inductive, ChainHoldsTheQueued, NEW s \in Socket, request[s] = "queued"
      PROVE  \E t \in Socket : request[t] \in InSection \/ HasTurn(t)
  <2>1. CASE takeoverInProgress
    BY <1>3, <2>1 DEF Inductive, OneTakeoverAtATime
  <2>2. CASE ~takeoverInProgress
    <3>1. PICK i \in 1..Len(takeoverChain) : takeoverChain[i] = s
      BY <1>3 DEF ChainHoldsTheQueued
    <3>2. takeoverChain \in Seq(Socket) /\ takeoverChain # <<>>
      BY <1>3, <3>1 DEF TypeOK
    <3>3. 1 \in 1..Len(takeoverChain) /\ Head(takeoverChain) = takeoverChain[1]
          /\ takeoverChain[1] \in Socket
      BY <3>1, <3>2
    <3> QED BY <1>3, <2>2, <3>2, <3>3 DEF ChainHoldsTheQueued, HasTurn
  <2> QED BY <2>1, <2>2
<1>4. TypeOK /\ Inductive /\ ChainHoldsTheQueued
        => \A s \in Socket : request[s] = "queued"
             => \E t \in Socket : request[t] \in InSection \/ HasTurn(t)
  BY <1>3
<1> QED BY <1>1, <1>2, <1>4, TypeCorrect, InductiveInvariant, PTL DEF Spec

-----------------------------------------------------------------------------
(* Refinement *)

Unfinished == {s \in Human : request[s] = "live"}

\* Every step of a handler is a step of the abstract slot or a stutter.
THEOREM Refinement == Spec => ImplementsStreamSlot
<1>1. Init => Slot!Init
  BY DEF Init, Slot!Init, Human
<1>2. ASSUME TypeOK, Inductive, [Next]_vars PROVE [Slot!Next]_(Slot!slotVars)
  <2> USE DEF Slot!Next, Slot!slotVars
  <2>1. CASE UNCHANGED vars
    BY <2>1 DEF vars, slot, cooldowns
  <2>2. CASE Outside
    <3>1. UNCHANGED request
      BY <2>2, OutsideSection
    <3>2. CASE UNCHANGED <<currentStreamer, streamGeneration>>
      <4>1. globalCooldown' = globalCooldown \/ (globalCooldown /\ globalCooldown' = FALSE)
        BY <1>2, <2>2, OutsideSection, TypeStep DEF TypeOK
      <4>2. CASE UNCHANGED globalCooldown
        BY <3>1, <3>2, <4>2
      <4>3. CASE globalCooldown /\ globalCooldown' = FALSE
        BY <3>1, <3>2, <4>3 DEF Slot!CooldownEnds
      <4> QED BY <4>1, <4>2, <4>3
    <3>3. CASE Renewed /\ UNCHANGED globalCooldown
      <4>1. CASE currentStreamer' = currentStreamer
        BY <3>1, <3>3, <4>1 DEF Renewed, Slot!Announce
      <4>2. CASE currentStreamer' = NoStreamer
        BY <3>1, <3>3, <4>2 DEF Renewed, Slot!End, Slot!Install
      <4>3. CASE currentStreamer' = TestStream
        BY <3>1, <3>3, <4>3 DEF Renewed, Slot!ShowTest, Slot!Install
      <4>4. CASE /\ ~takeoverInProgress /\ currentStreamer' \in Relay
                 /\ currentStreamer \in Relay \cup {NoStreamer}
        <5>1. Unfinished = {} /\ currentStreamer \notin Human
          BY <1>2, <4>4, DistinctIds
          DEF Unfinished, Human, Inductive, OneTakeoverAtATime, InSection
        <5>2. Slot!BotClaim(currentStreamer')
          BY <3>1, <3>3, <5>1 DEF Unfinished, Renewed, Slot!BotClaim, Slot!Install
        <5> QED BY <4>4, <5>2
      <4> QED BY <3>3, <4>1, <4>2, <4>3, <4>4 DEF Renewed
    <3> QED BY <2>2, <3>2, <3>3, OutsideSlot
  <2>3. ASSUME NEW s \in Socket, RequestToStream(s) PROVE [Slot!Next]_(Slot!slotVars)
    BY <1>2, <2>3 DEF RequestToStream, slot, cooldowns, TypeOK, RequestStep, Human
  <2>4. ASSUME NEW s \in Socket, Answering(s) PROVE [Slot!Next]_(Slot!slotVars)
    <3>1. request[s] # "live" \/ takeoverInProgress
      BY <1>2 DEF Inductive, OneTakeoverAtATime, InSection
    <3>2. CASE Live(s)
      <4>1. Unfinished = {}
        BY <1>2, <3>2, GoingLive DEF Unfinished, Human
      <4>2. Unfinished' = {s} \cap Human
        BY <1>2, <3>2, <4>1 DEF Live, Unfinished, Human, TypeOK
      <4>3. CASE s \in Human
        <5>1. ~globalCooldown
          BY <1>2, <3>2, <4>3, GoingLive
        <5>2. Slot!Claim(s)
          BY <3>2, <4>1, <4>2, <4>3, <5>1 DEF Unfinished, Live, Slot!Claim, Slot!Install
        <5> QED BY <4>3, <5>2
      <4>4. CASE s \notin Human
        <5>1. s \in ViewbotSocket /\ currentStreamer \notin Human
          BY <1>2, <3>2, <4>4, GoingLive DEF Human
        <5>2. Slot!BotClaim(s)
          BY <3>2, <4>1, <4>2, <4>4, <5>1 DEF Unfinished, Live, Slot!BotClaim, Slot!Install
        <5> QED BY <5>1, <5>2
      <4> QED BY <4>3, <4>4
    <3>3. CASE Quiet(s) /\ request[s] # "live"
      <4>1. Unfinished' = Unfinished
        BY <1>2, <3>3 DEF Quiet, Unfinished, Human, TypeOK
      <4> QED BY <3>3, <4>1 DEF Quiet, Unfinished
    <3>4. CASE Quiet(s) /\ request[s] = "live"
      <4>1. Unfinished = {s} \cap Human
        BY <1>2, <3>4 DEF Unfinished, Human, Inductive, OneTakeoverAtATime, InSection
      <4>2. Unfinished' = {}
        BY <1>2, <3>4, <4>1 DEF Quiet, Unfinished, Human, TypeOK
      <4>3. CASE s \in Human
        <5>1. Slot!StartCooldown
          BY <3>4, <4>1, <4>2, <4>3 DEF Quiet, Unfinished, Slot!StartCooldown
        <5> QED BY <5>1
      <4>4. CASE s \notin Human
        <5>1. UNCHANGED globalCooldown
          BY <1>2, <3>4, <4>4 DEF Quiet, TypeOK
        <5> QED BY <3>4, <4>1, <4>2, <4>4, <5>1 DEF Quiet, Unfinished
      <4> QED BY <4>3, <4>4
    <3> QED BY <1>2, <2>4, <3>1, <3>2, <3>3, <3>4, AnsweringEffect
  <2> QED BY <1>2, <2>1, <2>2, <2>3, <2>4, NextSplit
<1> QED BY <1>1, <1>2, TypeCorrect, InductiveInvariant, PTL DEF Spec, ImplementsStreamSlot, Slot!Spec
=============================================================================
