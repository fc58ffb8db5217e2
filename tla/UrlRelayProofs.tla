---------------------------- MODULE UrlRelayProofs ----------------------------
(***************************************************************************)
(* Proofs about UrlRelay, for any relays and any number of events.         *)
(***************************************************************************)
EXTENDS UrlRelay, FiniteSetTheorems, TLAPS

-----------------------------------------------------------------------------
(* The inductive invariant *)

AtType == at \in [Handler -> [Relay -> Phase]]
ClosingType == closing \in [Closer -> [Relay -> {"idle", "killing", "deleting"}]]

ServiceTypes ==
  /\ minted \subseteq Relay
  /\ startingStream \in BOOLEAN
  /\ reconnecting \in BOOLEAN
  /\ activeStreams \subseteq minted
  /\ notifying \subseteq minted

EncoderTypes ==
  /\ running \subseteq Encoder
  /\ dying \subseteq Encoder \ running
  /\ listed \subseteq running \cup dying

SlotTypes ==
  /\ currentStreamer \in Relay \cup {Human, NoStreamer}
  /\ takeover \in TakeoverStep
  /\ seen \in Relay \cup {Human, NoStreamer}

JanitorType == janitor \in [Relay -> {"idle", "listing", "stopping"}]

\* TypeOK by the groups of variables that the actions change together.
LEMMA TypeGroups ==
  TypeOK <=> /\ AtType /\ ClosingType /\ JanitorType
             /\ ServiceTypes /\ EncoderTypes /\ SlotTypes
             /\ arrivals \in 0..MaxArrivals
BY DEF TypeOK, AtType, ClosingType, JanitorType, ServiceTypes, EncoderTypes, SlotTypes

\* A number is always left for a new encoder: there are finitely many.
EncodersFinite == IsFiniteSet(running) /\ IsFiniteSet(dying)

\* The id of a start was given out.
StartsAreMinted == \A r \in Relay : at["start"][r] # "idle" => r \in minted

-----------------------------------------------------------------------------
(* Helpers *)

\* The finally blocks and the steps of a handler change one place.
LEMMA GotoEffect ==
  ASSUME AtType, NEW h \in Handler, NEW r \in Relay, NEW phase \in Phase, Goto(h, r, phase)
  PROVE  /\ AtType'
         /\ at'[h][r] = phase
         /\ \A g \in Handler, q \in Relay : g # h \/ q # r => at'[g][q] = at[g][q]
BY DEF AtType, Goto

\* stopProcesses leaves the encoders in their types, and makes no new ones.
LEMMA KillEffect ==
  ASSUME EncoderTypes, EncodersFinite, NEW R, NEW gone, Kill(R, gone)
  PROVE  EncoderTypes' /\ EncodersFinite'
<1>1. EncoderTypes'
  BY DEF EncoderTypes, Kill
<1>2. running' \subseteq running /\ dying' \subseteq dying \cup running
  BY DEF EncoderTypes, Kill
<1>3. IsFiniteSet(running') /\ IsFiniteSet(dying')
  BY <1>2, FS_Subset, FS_Union DEF EncodersFinite
<1> QED
  BY <1>1, <1>3 DEF EncodersFinite

\* stopURLStream and handleStreamEnd, up to their await.
LEMMA CloseEffect ==
  ASSUME ClosingType, EncoderTypes, EncodersFinite, NEW c \in Closer, NEW R, NEW gone,
         Close(c, R, gone)
  PROVE  ClosingType' /\ EncoderTypes' /\ EncodersFinite'
<1>1. ClosingType'
  BY DEF ClosingType, Close
<1> QED
  BY <1>1, KillEffect DEF Close

\* A free number for an encoder exists.
LEMMA FreshNumber ==
  ASSUME EncoderTypes, EncodersFinite, NEW r \in Relay
  PROVE  Fresh(r) \in Nat \ {0} /\ <<r, Fresh(r)>> \notin running \cup dying
<1> DEFINE live == Of(r, running \cup dying)
           used == {p[2] : p \in live}
           n == Cardinality(used)
<1>1. IsFiniteSet(used)
  <2>1. IsFiniteSet(running \cup dying)
    BY FS_Union DEF EncodersFinite
  <2>2. IsFiniteSet(live)
    BY <2>1, FS_Subset DEF Of
  <2>3. [p \in live |-> p[2]] \in Surjection(live, used)
    BY DEF Surjection
  <2> QED
    BY <2>2, <2>3, FS_Surjection
<1>2. n \in Nat
  BY <1>1, FS_CardinalityType
<1>3. \E k \in 1..(n + 1) : k \notin used
  <2>1. SUFFICES ASSUME 1..(n + 1) \subseteq used PROVE FALSE
    OBVIOUS
  <2>2. Cardinality(1..(n + 1)) <= n
    BY <1>1, <2>1, FS_Subset
  <2>3. Cardinality(1..(n + 1)) = n + 1
    BY <1>2, FS_Interval
  <2> QED
    BY <1>2, <2>2, <2>3
<1>4. Fresh(r) \in 1..(n + 1) /\ Fresh(r) \notin used
  BY <1>3 DEF Fresh
<1>5. \A m : <<r, m>> \in running \cup dying => m \in used
  BY DEF Of
<1>6. Fresh(r) \in Nat \ {0}
  BY <1>2, <1>4
<1>7. <<r, Fresh(r)>> \notin running \cup dying
  <2> HIDE DEF used
  <2> QED
    BY <1>4, <1>5
<1> QED
  BY <1>6, <1>7

-----------------------------------------------------------------------------
(* The flags and the handlers that hold them *)

CallsHold == MutexesHold /\ StartsAreMinted

IInv == TypeOK /\ EncodersFinite /\ CallsHold

\* The parts of IInv, one for each group of variables.
Parts ==
  /\ AtType /\ CallsHold
  /\ ClosingType
  /\ JanitorType
  /\ ServiceTypes
  /\ EncoderTypes /\ EncodersFinite
  /\ SlotTypes
  /\ arrivals \in 0..MaxArrivals

LEMMA InvParts == IInv <=> Parts
BY TypeGroups DEF IInv, Parts

\* Nothing of the handlers changes.
LEMMA CallsFrame ==
  ASSUME CallsHold, UNCHANGED <<at, startingStream, reconnecting, minted>>
  PROVE  CallsHold'
BY DEF CallsHold, MutexesHold, StartsAreMinted

\* A handler goes on, or a token refresh begins.
LEMMA HandlerMoves ==
  ASSUME AtType, CallsHold, NEW h \in Handler, NEW r \in Relay, NEW phase \in Phase \ {"idle"},
         at[h][r] # "idle" \/ h = "refresh", Goto(h, r, phase),
         UNCHANGED <<startingStream, reconnecting, minted>>
  PROVE  AtType' /\ CallsHold'
<1>1. /\ AtType'
      /\ at'[h][r] = phase
      /\ \A g \in Handler, q \in Relay : g # h \/ q # r => at'[g][q] = at[g][q]
  BY GotoEffect
<1>2. \A g \in {"start", "reconnect"}, q \in Relay :
        at'[g][q] # "idle" <=> at[g][q] # "idle"
  BY <1>1 DEF Handler, Restart
<1>3. StartsAreMinted'
  BY <1>2 DEF CallsHold, StartsAreMinted
<1>4. MutexesHold'
  BY <1>2, Zenon DEF CallsHold, MutexesHold
<1> QED
  BY <1>1, <1>3, <1>4 DEF CallsHold

\* A handler returns, and its finally block lowers its flag.
LEMMA HandlerEnds ==
  ASSUME AtType, CallsHold, startingStream \in BOOLEAN, reconnecting \in BOOLEAN,
         NEW h \in Handler, NEW r \in Relay,
         at[h][r] # "idle", Goto(h, r, "idle"), Release(h), UNCHANGED minted
  PROVE  AtType' /\ CallsHold' /\ startingStream' \in BOOLEAN /\ reconnecting' \in BOOLEAN
<1>1. /\ AtType'
      /\ at'[h][r] = "idle"
      /\ \A g \in Handler, q \in Relay : g # h \/ q # r => at'[g][q] = at[g][q]
  BY GotoEffect DEF Phase
<1>2. startingStream' \in BOOLEAN /\ reconnecting' \in BOOLEAN
  BY Zenon DEF Release
<1>3. StartsAreMinted'
  BY <1>1 DEF CallsHold, StartsAreMinted, Handler, Restart
<1>4. MutexesHold'
  <2>1. CASE h = "start"
    <3>1. startingStream' = FALSE /\ reconnecting' = reconnecting
      BY <2>1 DEF Release
    <3>2. \A q \in Relay : at'["start"][q] = "idle"
      BY <1>1, <2>1 DEF CallsHold, MutexesHold, Handler, Restart
    <3>3. \A q \in Relay : at'["reconnect"][q] = at["reconnect"][q]
      BY <1>1, <2>1 DEF Handler, Restart
    <3> QED
      BY <3>1, <3>2, <3>3, Zenon DEF CallsHold, MutexesHold
  <2>2. CASE h = "reconnect"
    <3>1. startingStream' = startingStream /\ reconnecting' = FALSE
      BY <2>2 DEF Release
    <3>2. \A q \in Relay : at'["reconnect"][q] = "idle"
      BY <1>1, <2>2 DEF CallsHold, MutexesHold, Handler, Restart
    <3>3. \A q \in Relay : at'["start"][q] = at["start"][q]
      BY <1>1, <2>2 DEF Handler, Restart
    <3> QED
      BY <3>1, <3>2, <3>3, Zenon DEF CallsHold, MutexesHold
  <2>3. CASE h = "refresh"
    <3>1. startingStream' = startingStream /\ reconnecting' = reconnecting
      BY <2>3 DEF Release
    <3>2. \A g \in {"start", "reconnect"}, q \in Relay : at'[g][q] = at[g][q]
      BY <1>1, <2>3 DEF Handler, Restart
    <3> QED
      BY <3>1, <3>2, Zenon DEF CallsHold, MutexesHold
  <2> QED
    BY <2>1, <2>2, <2>3 DEF Handler, Restart
<1> QED
  BY <1>1, <1>2, <1>3, <1>4 DEF CallsHold

\* startURLStream raises its flag, which was down.
LEMMA StartTakes ==
  ASSUME AtType, CallsHold, NEW r \in Relay, ~startingStream, startingStream' = TRUE,
         Goto("start", r, "validating"), minted' = minted \cup {r}, UNCHANGED reconnecting
  PROVE  AtType' /\ CallsHold'
<1>1. /\ AtType'
      /\ at'["start"][r] = "validating"
      /\ \A g \in Handler, q \in Relay : g # "start" \/ q # r => at'[g][q] = at[g][q]
  BY GotoEffect DEF Phase, Handler
<1>2. \A q \in Relay \ {r} : at'["start"][q] = "idle"
  BY <1>1 DEF CallsHold, MutexesHold, Handler
<1>3. \A q \in Relay : at'["reconnect"][q] = at["reconnect"][q]
  BY <1>1 DEF Handler, Restart
<1>4. StartsAreMinted'
  BY <1>2 DEF StartsAreMinted
<1>5. MutexesHold'
  BY <1>1, <1>2, <1>3, Zenon DEF CallsHold, MutexesHold
<1> QED
  BY <1>1, <1>4, <1>5 DEF CallsHold

\* handleStreamError raises the flag of a reconnect, which was down.
LEMMA ReconnectTakes ==
  ASSUME AtType, CallsHold, NEW r \in Relay, ~reconnecting, reconnecting' = TRUE,
         Goto("reconnect", r, "killing"), UNCHANGED <<startingStream, minted>>
  PROVE  AtType' /\ CallsHold'
<1>1. /\ AtType'
      /\ at'["reconnect"][r] = "killing"
      /\ \A g \in Handler, q \in Relay : g # "reconnect" \/ q # r => at'[g][q] = at[g][q]
  BY GotoEffect DEF Phase, Handler, Restart
<1>2. \A q \in Relay \ {r} : at'["reconnect"][q] = "idle"
  BY <1>1 DEF CallsHold, MutexesHold, Handler, Restart
<1>3. \A q \in Relay : at'["start"][q] = at["start"][q]
  BY <1>1 DEF Handler
<1>4. StartsAreMinted'
  BY <1>3 DEF CallsHold, StartsAreMinted
<1>5. MutexesHold'
  BY <1>1, <1>2, <1>3, Zenon DEF CallsHold, MutexesHold
<1> QED
  BY <1>1, <1>4, <1>5 DEF CallsHold

\* The bound on the events from outside.
LEMMA ArrivalType ==
  ASSUME arrivals \in 0..MaxArrivals, Arrival
  PROVE  arrivals' \in 0..MaxArrivals
BY BoundAssumption DEF Arrival

-----------------------------------------------------------------------------
(* The steps *)

\* The ends of stopURLStream and handleStreamEnd.
LEMMA CloserStepInv ==
  ASSUME Parts, NEW c \in Closer, NEW r \in Relay, CloseKilled(c, r) \/ CloseDone(c, r)
  PROVE  Parts'
<1> USE DEF service, slot, encoders
<1>1. CASE CloseKilled(c, r)
  <2>1. ClosingType'
    BY <1>1 DEF Parts, ClosingType, CloseKilled
  <2>2. EncoderTypes' /\ EncodersFinite'
    BY <1>1 DEF Parts, EncoderTypes, EncodersFinite, CloseKilled
  <2>3. CallsHold'
    BY <1>1, CallsFrame DEF Parts, CloseKilled
  <2> QED
    BY <1>1, <2>1, <2>2, <2>3
    DEF Parts, CloseKilled, AtType, JanitorType, ServiceTypes, SlotTypes
<1>2. CASE CloseDone(c, r)
  <2>1. ClosingType'
    BY <1>2 DEF Parts, ClosingType, CloseDone
  <2>2. EncoderTypes' /\ EncodersFinite'
    BY <1>2 DEF Parts, EncoderTypes, EncodersFinite, CloseDone
  <2>3. CallsHold'
    BY <1>2, CallsFrame DEF Parts, CloseDone
  <2> QED
    BY <1>2, <2>1, <2>2, <2>3
    DEF Parts, CloseDone, AtType, JanitorType, ServiceTypes, SlotTypes
<1> QED
  BY <1>1, <1>2

\* A step that closes relays and moves no handler.
LEMMA ClosingInv ==
  ASSUME Parts, NEW c \in Closer, NEW R, NEW gone, Close(c, R, gone),
         UNCHANGED <<at, service, janitor, notifying>>,
         SlotTypes', arrivals' \in 0..MaxArrivals
  PROVE  Parts'
<1> USE DEF service
<1>1. ClosingType' /\ EncoderTypes' /\ EncodersFinite'
  BY CloseEffect DEF Parts
<1>2. CallsHold'
  BY CallsFrame DEF Parts
<1> QED
  BY <1>1, <1>2 DEF Parts, AtType, JanitorType, ServiceTypes

\* The operator, and the end of a source.
LEMMA OutsideClosingInv ==
  ASSUME Parts, NEW r \in Relay, OperatorStops(r) \/ SourceEnds(r)
  PROVE  Parts'
<1>1. SlotTypes'
  BY DEF Parts, SlotTypes, OperatorStops, SourceEnds, slot
<1>2. arrivals' \in 0..MaxArrivals
  BY ArrivalType DEF Parts, OperatorStops, SourceEnds
<1> QED
  BY <1>1, <1>2, ClosingInv DEF OperatorStops, SourceEnds, Closer, Stopper, Ender

\* A step that closes relays and moves one handler.
LEMMA ClosingMoveInv ==
  ASSUME Parts, NEW c \in Closer, NEW R, NEW gone, Close(c, R, gone),
         NEW h \in Handler, NEW r \in Relay, NEW phase \in Phase \ {"idle"},
         at[h][r] # "idle", Goto(h, r, phase),
         UNCHANGED <<service, janitor, notifying, slot, arrivals>>
  PROVE  Parts'
<1> USE DEF service, slot
<1>1. ClosingType' /\ EncoderTypes' /\ EncodersFinite'
  BY CloseEffect DEF Parts
<1>2. AtType' /\ CallsHold'
  BY HandlerMoves DEF Parts
<1> QED
  BY <1>1, <1>2 DEF Parts, JanitorType, ServiceTypes, SlotTypes

\* A step that moves one handler and nothing else of the relays.
LEMMA MoveInv ==
  ASSUME Parts, NEW h \in Handler, NEW r \in Relay, NEW phase \in Phase \ {"idle"},
         at[h][r] # "idle", Goto(h, r, phase),
         UNCHANGED <<minted, startingStream, reconnecting, closing, janitor, notifying>>,
         UNCHANGED <<slot, arrivals>>,
         activeStreams' \subseteq minted,
         EncoderTypes', EncodersFinite'
  PROVE  Parts'
<1> USE DEF slot
<1>1. AtType' /\ CallsHold'
  BY HandlerMoves DEF Parts
<1> QED
  BY <1>1 DEF Parts, ClosingType, JanitorType, ServiceTypes, SlotTypes

\* A step that ends one handler.
LEMMA EndInv ==
  ASSUME Parts, NEW h \in Handler, NEW r \in Relay,
         at[h][r] # "idle", Goto(h, r, "idle"), Release(h),
         UNCHANGED <<minted, janitor, takeover, seen, arrivals>>,
         activeStreams' \subseteq activeStreams, notifying' \subseteq notifying \cup {r},
         h = "start" \/ notifying' = notifying,
         currentStreamer' \in {currentStreamer, r},
         ClosingType', EncoderTypes', EncodersFinite'
  PROVE  Parts'
<1>1. /\ AtType' /\ CallsHold'
      /\ startingStream' \in BOOLEAN /\ reconnecting' \in BOOLEAN
  BY HandlerEnds DEF Parts, ServiceTypes
<1>2. ServiceTypes'
  <2>1. notifying' \subseteq minted
    BY DEF Parts, ServiceTypes, CallsHold, StartsAreMinted
  <2>2. minted' \subseteq Relay /\ activeStreams' \subseteq minted'
    BY DEF Parts, ServiceTypes
  <2> QED
    BY <1>1, <2>1, <2>2 DEF ServiceTypes
<1>3. SlotTypes'
  BY DEF Parts, SlotTypes
<1> QED
  BY <1>1, <1>2, <1>3 DEF Parts, JanitorType

\* The start of a relay is accepted.
LEMMA StartInv ==
  ASSUME Parts, NEW r \in Relay, StartURLStream(r)
  PROVE  Parts'
<1> USE DEF encoders, slot
<1>1. AtType' /\ CallsHold'
  BY StartTakes DEF Parts, StartURLStream
<1>2. arrivals' \in 0..MaxArrivals
  BY ArrivalType DEF Parts, StartURLStream
<1>3. JanitorType' /\ ServiceTypes'
  BY DEF Parts, StartURLStream, JanitorType, ServiceTypes
<1> QED
  BY <1>1, <1>2, <1>3
  DEF Parts, StartURLStream, ClosingType, EncoderTypes, EncodersFinite, SlotTypes

\* _startPipeline spawns an encoder of a free number.
LEMMA SpawnInv ==
  ASSUME Parts, NEW h \in Handler, NEW r \in Relay, PipelineSpawns(h, r)
  PROVE  Parts'
<1> DEFINE p == <<r, Fresh(r)>>
<1>1. p \in Encoder /\ p \notin running \cup dying
  BY FreshNumber DEF Parts, Encoder
<1>2. running' = running \cup {p} /\ listed' = listed \cup {p} /\ dying' = dying
  BY DEF PipelineSpawns
<1> HIDE DEF p
<1>3. EncoderTypes'
  BY <1>1, <1>2 DEF Parts, EncoderTypes
<1>4. EncodersFinite'
  BY <1>2, FS_AddElement DEF Parts, EncodersFinite
<1>5. activeStreams' \subseteq minted
  BY DEF PipelineSpawns, service, Parts, ServiceTypes
<1>6. "waiting" \in Phase \ {"idle"} /\ at[h][r] # "idle" /\ Goto(h, r, "waiting")
  BY DEF PipelineSpawns, Phase
<1> QED
  BY <1>3, <1>4, <1>5, <1>6, MoveInv DEF PipelineSpawns, service

\* The start between its gate and its end.
LEMMA StartStepInv ==
  ASSUME Parts, NEW r \in Relay, StartStep(r)
  PROVE  Parts'
<1> USE DEF service, slot, encoders
<1>0. "start" \in Handler /\ "start" \in Closer
  BY DEF Handler, Closer, Stopper
<1>1. CASE StartFails(r)
  <2>1. ClosingType' /\ EncoderTypes' /\ EncodersFinite'
    BY <1>1 DEF Parts, StartFails, ClosingType, EncoderTypes, EncodersFinite
  <2> QED
    BY <1>0, <1>1, <2>1, EndInv DEF StartFails
<1>2. CASE StartValidated(r)
  <2>1. PICK phase \in {"extracting", "clearing"} : Goto("start", r, phase)
    BY <1>2 DEF StartValidated
  <2>2. phase \in Phase \ {"idle"}
    BY <2>1 DEF Phase
  <2> QED
    BY <1>0, <1>2, <2>1, <2>2, ClosingMoveInv DEF StartValidated
<1>3. CASE StartCleared(r)
  <2>1. EncoderTypes'
    BY <1>3 DEF Parts, StartCleared, EncoderTypes
  <2>2. EncodersFinite'
    BY <1>3, FS_EmptySet, FS_Union DEF Parts, StartCleared, EncodersFinite
  <2>3. activeStreams' \subseteq minted /\ "extracting" \in Phase \ {"idle"}
    BY <1>3 DEF Parts, ServiceTypes, StartCleared, Phase
  <2> QED
    BY <1>0, <1>3, <2>1, <2>2, <2>3, MoveInv DEF StartCleared
<1>4. CASE StartTracked(r)
  <2>1. activeStreams' \subseteq minted /\ "creating" \in Phase \ {"idle"}
    BY <1>4 DEF Parts, ServiceTypes, CallsHold, StartsAreMinted, StartTracked, Phase
  <2>2. EncoderTypes' /\ EncodersFinite'
    BY <1>4 DEF Parts, StartTracked, EncoderTypes, EncodersFinite
  <2> QED
    BY <1>0, <1>4, <2>1, <2>2, MoveInv DEF StartTracked
<1>5. CASE PipelineSpawns("start", r)
  BY <1>0, <1>5, SpawnInv
<1>6. CASE StartRegistered(r)
  <2>1. ClosingType' /\ EncoderTypes' /\ EncodersFinite'
    BY <1>6 DEF Parts, StartRegistered, ClosingType, EncoderTypes, EncodersFinite
  <2> QED
    BY <1>0, <1>6, <2>1, EndInv DEF StartRegistered, Registered, PipelineUp
<1>7. CASE StartRefused(r)
  <2>1. "refusing" \in Phase \ {"idle"}
    BY DEF Phase
  <2> QED
    BY <1>0, <1>7, <2>1, ClosingMoveInv DEF StartRefused, PipelineUp
<1>8. CASE StartTornDown(r)
  <2>1. ClosingType' /\ EncoderTypes' /\ EncodersFinite'
    BY <1>8 DEF Parts, StartTornDown, ClosingType, EncoderTypes, EncodersFinite
  <2> QED
    BY <1>0, <1>8, <2>1, EndInv DEF StartTornDown
<1> QED
  BY <1>1, <1>2, <1>3, <1>4, <1>5, <1>6, <1>7, <1>8 DEF StartStep

\* ViewerNotifier, and the writers of the slot that are no relays.
LEMMA SlotInv ==
  ASSUME Parts,
         \/ \E r \in Relay : NotifyViewers(r) \/ HealthCheckClears(r)
         \/ TakeoverStarts \/ TakeoverDenied \/ TakeoverGoesLive \/ TakeoverEnds \/ HumanLeaves
  PROVE  Parts'
<1> USE DEF service, calls, encoders
<1>1. SlotTypes'
  BY DEF Parts, SlotTypes, NotifyViewers, HealthCheckClears, TakeoverStarts, TakeoverDenied,
     TakeoverGoesLive, TakeoverEnds, HumanLeaves, TakeoverStep
<1>2. arrivals' \in 0..MaxArrivals
  BY ArrivalType DEF Parts, NotifyViewers, HealthCheckClears, TakeoverStarts, TakeoverDenied,
     TakeoverGoesLive, TakeoverEnds, HumanLeaves
<1>3. /\ UNCHANGED <<service, at, closing, janitor, encoders>>
      /\ notifying' \subseteq notifying
  BY DEF NotifyViewers, HealthCheckClears, TakeoverStarts, TakeoverDenied, TakeoverGoesLive,
     TakeoverEnds, HumanLeaves
<1>4. CallsHold'
  BY <1>3, CallsFrame DEF Parts
<1> QED
  BY <1>1, <1>2, <1>3, <1>4
  DEF Parts, AtType, ClosingType, JanitorType, ServiceTypes, EncoderTypes, EncodersFinite

\* A takeover stops relays.
LEMMA OustInv ==
  ASSUME Parts, TakeoverOusts \/ \E r \in Relay : TakeoverPauses(r)
  PROVE  Parts'
<1>1. SlotTypes' /\ arrivals' \in 0..MaxArrivals
  BY DEF Parts, SlotTypes, TakeoverOusts, TakeoverPauses, TakeoverStep
<1>2. \E R : Close("takeover", R, {})
  BY DEF TakeoverOusts, TakeoverPauses
<1>3. UNCHANGED <<at, service, janitor, notifying>>
  BY DEF TakeoverOusts, TakeoverPauses
<1> QED
  BY <1>1, <1>2, <1>3, ClosingInv DEF Closer, Stopper

\* handleStreamError: ignored, a reconnect, a token refresh or the end.
LEMMA ErrorInv ==
  ASSUME Parts, NEW r \in Relay, NEW gone,
         \/ HandleStreamError(r, gone)
         \/ NoClose(gone) /\ UNCHANGED <<reconnecting, at>>,
         UNCHANGED <<minted, startingStream, activeStreams, janitor, notifying, slot>>,
         arrivals' \in 0..MaxArrivals
  PROVE  Parts'
<1> USE DEF slot
<1>1. CASE NoClose(gone) /\ UNCHANGED <<reconnecting, at>>
  <2>1. EncoderTypes' /\ EncodersFinite' /\ UNCHANGED closing
    BY <1>1, KillEffect DEF Parts, NoClose
  <2>2. CallsHold'
    BY <1>1, CallsFrame DEF Parts
  <2> QED
    BY <1>1, <2>1, <2>2
    DEF Parts, AtType, ClosingType, JanitorType, ServiceTypes, SlotTypes
<1>2. CASE /\ ~Ignored(r)
           /\ reconnecting' = TRUE
           /\ Goto("reconnect", r, "killing")
           /\ Kill({r}, gone)
           /\ UNCHANGED closing
  <2>1. EncoderTypes' /\ EncodersFinite'
    BY <1>2, KillEffect DEF Parts
  <2>2. AtType' /\ CallsHold'
    BY <1>2, ReconnectTakes DEF Parts, Ignored
  <2> QED
    BY <1>2, <2>1, <2>2 DEF Parts, ClosingType, JanitorType, ServiceTypes, SlotTypes
<1>3. CASE /\ Goto("refresh", r, "fetching")
           /\ NoClose(gone)
           /\ UNCHANGED reconnecting
  <2>1. EncoderTypes' /\ EncodersFinite' /\ UNCHANGED closing
    BY <1>3, KillEffect DEF Parts, NoClose
  <2>2. "refresh" \in Handler /\ "fetching" \in Phase \ {"idle"}
    BY DEF Handler, Restart, Phase
  <2>3. AtType' /\ CallsHold'
    BY <1>3, <2>2, HandlerMoves DEF Parts
  <2> QED
    BY <1>3, <2>1, <2>3 DEF Parts, ClosingType, JanitorType, ServiceTypes, SlotTypes
<1>4. CASE Close("error", {r}, gone) /\ UNCHANGED <<reconnecting, at>>
  <2>1. SlotTypes' /\ "error" \in Closer
    BY DEF Parts, SlotTypes, Closer, Ender
  <2> QED
    BY <1>4, <2>1, ClosingInv DEF service
<1> QED
  BY <1>1, <1>2, <1>3, <1>4 DEF HandleStreamError

\* Reports of the health service and exits of encoders.
LEMMA ReportInv ==
  ASSUME Parts, NEW r \in Relay, HealthReport(r) \/ StaleReport(r)
  PROVE  Parts'
<1>1. arrivals' \in 0..MaxArrivals
  BY ArrivalType DEF Parts, HealthReport, StaleReport
<1> QED
  BY <1>1, ErrorInv DEF HealthReport, StaleReport

LEMMA ExitInv ==
  ASSUME Parts, NEW p \in running \cup dying, EncoderCrashes(p) \/ EncoderTerminates(p)
  PROVE  Parts'
<1>1. p[1] \in Relay
  BY DEF Parts, EncoderTypes, Encoder
<1>2. arrivals' \in 0..MaxArrivals
  BY ArrivalType DEF Parts, EncoderCrashes, EncoderTerminates
<1>3. Exits(p)
  BY DEF EncoderCrashes, EncoderTerminates
<1> QED
  BY <1>1, <1>2, <1>3, ErrorInv DEF Exits

\* Reconnects and token refreshes.
LEMMA RestartStepInv ==
  ASSUME Parts, NEW h \in Restart, NEW r \in Relay, RestartStep(h, r)
  PROVE  Parts'
<1> USE DEF service, slot, encoders
<1>0. h \in Handler /\ "error" \in Closer
  BY DEF Handler, Closer, Ender
<1>1. CASE RestartKilled(h, r)
  <2>1. EncoderTypes' /\ EncodersFinite'
    BY <1>1 DEF Parts, RestartKilled, EncoderTypes, EncodersFinite
  <2>2. activeStreams' \subseteq minted /\ "backoff" \in Phase \ {"idle"}
    BY <1>1 DEF Parts, ServiceTypes, RestartKilled, Phase
  <2> QED
    BY <1>0, <1>1, <2>1, <2>2, MoveInv DEF RestartKilled
<1>2. CASE RestartAbandoned(h, r)
  <2>1. ClosingType' /\ EncoderTypes' /\ EncodersFinite'
    BY <1>2 DEF Parts, RestartAbandoned, ClosingType, EncoderTypes, EncodersFinite
  <2> QED
    BY <1>0, <1>2, <2>1, EndInv DEF RestartAbandoned
<1>3. CASE RestartProceeds(h, r)
  <2>1. EncoderTypes' /\ EncodersFinite'
    BY <1>3 DEF Parts, RestartProceeds, EncoderTypes, EncodersFinite
  <2>2. activeStreams' \subseteq minted /\ "creating" \in Phase \ {"idle"}
    BY <1>3 DEF Parts, ServiceTypes, RestartProceeds, Phase
  <2> QED
    BY <1>0, <1>3, <2>1, <2>2, MoveInv DEF RestartProceeds
<1>4. CASE PipelineSpawns(h, r)
  BY <1>0, <1>4, SpawnInv
<1>5. CASE RestartRegistered(h, r)
  <2>1. ClosingType' /\ EncoderTypes' /\ EncodersFinite'
    BY <1>5 DEF Parts, RestartRegistered, ClosingType, EncoderTypes, EncodersFinite
  <2> QED
    BY <1>0, <1>5, <2>1, EndInv DEF RestartRegistered, Registered, PipelineUp
<1>6. CASE RestartFails(h, r)
  <2>1. ClosingType' /\ EncoderTypes' /\ EncodersFinite'
    BY <1>0, <1>6, CloseEffect DEF Parts, RestartFails
  <2>2. at[h][r] # "idle"
    BY <1>6 DEF RestartFails, PipelineUp
  <2> QED
    BY <1>0, <1>6, <2>1, <2>2, EndInv DEF RestartFails
<1> QED
  BY <1>1, <1>2, <1>3, <1>4, <1>5, <1>6 DEF RestartStep

LEMMA ReconnectStepInv ==
  ASSUME Parts, NEW r \in Relay, ReconnectStep(r) \/ RefreshFetched(r)
  PROVE  Parts'
<1> USE DEF service, slot, encoders
<1>0. {"reconnect", "refresh"} \subseteq Handler /\ "reconnect" \in Closer
  BY DEF Handler, Restart, Closer, Ender
<1>1. CASE ReconnectSuperseded(r)
  <2>1. "ending" \in Phase \ {"idle"} /\ at["reconnect"][r] # "idle"
    BY <1>1 DEF ReconnectSuperseded, PipelineUp, Phase
  <2> QED
    BY <1>0, <1>1, <2>1, ClosingMoveInv DEF ReconnectSuperseded
<1>2. CASE ReconnectEnded(r)
  <2>1. ClosingType' /\ EncoderTypes' /\ EncodersFinite'
    BY <1>2 DEF Parts, ReconnectEnded, ClosingType, EncoderTypes, EncodersFinite
  <2> QED
    BY <1>0, <1>2, <2>1, EndInv DEF ReconnectEnded
<1>3. CASE RefreshFetched(r)
  <2>1. EncoderTypes' /\ EncodersFinite'
    BY <1>3, KillEffect DEF Parts, RefreshFetched
  <2>2. activeStreams' \subseteq minted /\ "killing" \in Phase \ {"idle"}
    BY <1>3 DEF Parts, ServiceTypes, RefreshFetched, Phase
  <2> QED
    BY <1>0, <1>3, <2>1, <2>2, MoveInv DEF RefreshFetched
<1> QED
  BY <1>1, <1>2, <1>3 DEF ReconnectStep

\* IngressJanitor.cleanupAll.
LEMMA JanitorStepInv ==
  ASSUME Parts, NEW r \in Relay, JanitorStep(r)
  PROVE  Parts'
<1> USE DEF service, slot, encoders
<1>1. /\ JanitorType'
      /\ UNCHANGED <<minted, startingStream, reconnecting, at, closing, notifying, slot, arrivals>>
      /\ activeStreams' \subseteq activeStreams
  BY DEF Parts, JanitorType, JanitorStep, JanitorDeletes, JanitorFails, JanitorClears
<1>2. EncoderTypes' /\ EncodersFinite'
  <2>1. CASE JanitorDeletes(r)
    <3>1. EncoderTypes'
      BY <2>1 DEF Parts, EncoderTypes, JanitorDeletes
    <3>2. running' \subseteq running /\ dying' \subseteq dying \cup running
      BY <2>1 DEF JanitorDeletes
    <3> QED
      BY <3>1, <3>2, FS_Subset, FS_Union DEF Parts, EncodersFinite
  <2>2. CASE JanitorFails(r) \/ JanitorClears(r)
    BY <2>2 DEF Parts, EncoderTypes, EncodersFinite, JanitorFails, JanitorClears
  <2> QED
    BY <2>1, <2>2 DEF JanitorStep
<1>3. CallsHold'
  BY <1>1, CallsFrame DEF Parts
<1> QED
  BY <1>1, <1>2, <1>3 DEF Parts, AtType, ClosingType, ServiceTypes, SlotTypes

-----------------------------------------------------------------------------
(* Relays own their encoders.                                              *)
(*                                                                         *)
(* The argument.  An id enters the table once and, dropped, never again.   *)
(* While it is there and no call closes it, its encoder is listed; a start *)
(* has none before it spawns one, and a reconnect kills the listed one and *)
(* waits for its exit before it spawns the next.  Once a call closes the   *)
(* relay, whatever a restart still spawns may escape the list, but the     *)
(* entry goes when that call ends.                                         *)

\* The start of r has not put it into the table yet.
Untracked(r) ==
  r \notin minted \/ at["start"][r] \in {"validating", "clearing", "extracting"}

\* r has an entry, and no call is closing it.
Open(r) == r \in activeStreams /\ \A c \in Closer : closing[c][r] = "idle"

\* A handler of r will spawn an encoder.
Replacing(r) ==
  at["start"][r] = "creating" \/ at["reconnect"][r] \in {"killing", "backoff", "creating"}

Owns(r) ==
  /\ at["refresh"][r] = "idle"
  /\ at["reconnect"][r] # "idle" => at["start"][r] = "idle"
  /\ Untracked(r) => /\ r \notin activeStreams
                     /\ Of(r, running) = {}
                     /\ at["reconnect"][r] = "idle"
  /\ Open(r) => /\ Of(r, running) \subseteq listed
                /\ \A p, q \in Of(r, running) : p = q
                /\ Replacing(r) => Of(r, running) = {}

RelaysOwnEncoders == \A r \in Relay \ KickRelay : Owns(r)

\* What a step that spawns nothing for r and puts it into no table does to r.
Keeps(r) ==
  /\ r \in minted' <=> r \in minted
  /\ r \in activeStreams' => r \in activeStreams
  /\ Of(r, running') \subseteq Of(r, running)
  /\ Open(r)' => Open(r) /\ Of(r, running') \cap listed \subseteq listed'

\* No handler of r moves.
Rests(r) == \A h \in Handler : at'[h][r] = at[h][r]

LEMMA KeepsOwn ==
  ASSUME NEW r \in Relay, Owns(r), Keeps(r), Rests(r)
  PROVE  Owns(r)'
BY DEF Owns, Keeps, Rests, Untracked, Replacing, Of, Handler, Restart

\* stopProcesses: what it leaves of the encoders of r was listed and still is.
LEMMA KillKeeps ==
  ASSUME NEW r \in Relay, NEW R, NEW gone, Kill(R, gone),
         r \in minted' <=> r \in minted, r \in activeStreams' => r \in activeStreams,
         closing' = closing
  PROVE  Keeps(r)
BY DEF Keeps, Kill, Open, Of

\* stopURLStream and handleStreamEnd: a relay they do not close keeps its list.
LEMMA CloseKeeps ==
  ASSUME ClosingType, NEW r \in Relay, NEW c \in Closer, NEW R, NEW gone, Close(c, R, gone),
         r \in minted' <=> r \in minted, r \in activeStreams' => r \in activeStreams
  PROVE  Keeps(r)
<1> DEFINE found == {q \in R \cap activeStreams : closing[c][q] = "idle"}
<1>1. /\ closing' = [closing EXCEPT ![c] = [q \in Relay |-> IF q \in found THEN "killing" ELSE @[q]]]
      /\ Kill(found, gone)
  BY DEF Close
<1>2. \A d \in Closer : closing'[d][r] = "idle" => closing[d][r] = "idle"
  BY <1>1 DEF ClosingType
<1>3. Open(r)' => Open(r)
  BY <1>2 DEF Open
<1>4. /\ Of(r, running') \subseteq Of(r, running)
      /\ Of(r, running') \cap listed \subseteq listed'
  <2> HIDE DEF found
  <2> QED
    BY <1>1 DEF Kill, Of
<1> QED
  BY <1>3, <1>4 DEF Keeps

\* A handler of one relay moves: those of the others rest.
LEMMA OthersRest ==
  ASSUME AtType, NEW h \in Handler, NEW q \in Relay, NEW phase \in Phase, Goto(h, q, phase),
         NEW r \in Relay, r # q
  PROVE  Rests(r)
BY GotoEffect DEF Rests

\* A start that has left "creating" behind, or fails before it.
LEMMA StartMovesOn ==
  ASSUME AtType, CallsHold, NEW r \in Relay, Owns(r), Keeps(r),
         at["start"][r] # "idle", NEW phase \in {"idle", "refusing"}, Goto("start", r, phase)
  PROVE  Owns(r)'
<1>1. /\ at'["start"][r] = phase
      /\ \A h \in Restart : at'[h][r] = at[h][r]
  BY GotoEffect DEF Handler, Restart, Phase
<1>2. at["reconnect"][r] = "idle" /\ r \in minted
  BY DEF Owns, CallsHold, StartsAreMinted
<1>3. ~Untracked(r)' /\ ~Replacing(r)'
  BY <1>1, <1>2 DEF Keeps, Untracked, Replacing, Restart
<1> QED
  BY <1>1, <1>2, <1>3 DEF Owns, Keeps, Of, Restart

\* A start on its way to the table.
LEMMA StartApproaches ==
  ASSUME AtType, NEW r \in Relay, Owns(r), Keeps(r),
         at["start"][r] \in {"validating", "clearing"},
         NEW phase \in {"clearing", "extracting"}, Goto("start", r, phase)
  PROVE  Owns(r)'
<1>1. /\ at'["start"][r] = phase
      /\ \A h \in Restart : at'[h][r] = at[h][r]
  BY GotoEffect DEF Handler, Restart, Phase
<1>2. Untracked(r) /\ Of(r, running') = {} /\ r \notin activeStreams'
  BY DEF Owns, Untracked, Keeps
<1> QED
  BY <1>1, <1>2 DEF Owns, Open, Untracked, Restart, Of

\* A reconnect that spawns nothing any more.
LEMMA ReconnectMovesOn ==
  ASSUME AtType, NEW r \in Relay, Owns(r), Keeps(r),
         at["reconnect"][r] # "idle", NEW phase \in {"idle", "ending"},
         Goto("reconnect", r, phase)
  PROVE  Owns(r)'
<1>1. /\ at'["reconnect"][r] = phase
      /\ at'["start"][r] = at["start"][r] /\ at'["refresh"][r] = at["refresh"][r]
  BY GotoEffect DEF Handler, Restart, Phase
<1>2. at["start"][r] = "idle" /\ ~Untracked(r)
  BY DEF Owns
<1>3. ~Untracked(r)' /\ ~Replacing(r)'
  BY <1>1, <1>2 DEF Keeps, Untracked, Replacing
<1> QED
  BY <1>1, <1>2, <1>3 DEF Owns, Keeps, Of

\* A pipeline spawns the encoder of its relay, which had none if it is open.
LEMMA SpawnOwn ==
  ASSUME Parts, NEW h \in {"start", "reconnect"}, NEW r \in Relay, Owns(r), PipelineSpawns(h, r)
  PROVE  Owns(r)'
<1>1. /\ at'[h][r] = "waiting"
      /\ \A g \in Handler : g # h => at'[g][r] = at[g][r]
  BY GotoEffect DEF Parts, PipelineSpawns, Handler, Restart, Phase
<1>2. at[h][r] = "creating" /\ r \in minted /\ UNCHANGED <<minted, activeStreams, closing>>
  BY DEF PipelineSpawns, Owns, Untracked, Parts, CallsHold, StartsAreMinted, service
<1>3. ~Untracked(r)' /\ ~Replacing(r)'
  BY <1>1, <1>2 DEF Owns, Untracked, Replacing, Handler, Restart
<1>4. Open(r)' => Open(r) /\ Replacing(r)
  BY <1>2 DEF Open, Replacing
<1> DEFINE p == <<r, Fresh(r)>>
<1>5. running' = running \cup {p} /\ listed' = listed \cup {p}
  BY DEF PipelineSpawns
<1>6. Open(r)' => Of(r, running') = {p} /\ p \in listed'
  BY <1>4, <1>5 DEF Owns, Of
<1>7. /\ at'["refresh"][r] = "idle"
      /\ at'["reconnect"][r] # "idle" => at'["start"][r] = "idle"
  BY <1>1, <1>2 DEF Owns, Handler, Restart
<1> HIDE DEF p
<1> QED
  BY <1>3, <1>6, <1>7 DEF Owns, Of

\* The ends of stopURLStream and handleStreamEnd.
LEMMA CloserStepOwn ==
  ASSUME Parts, NEW r \in Relay, Owns(r),
         NEW c \in Closer, NEW q \in Relay, CloseKilled(c, q) \/ CloseDone(c, q)
  PROVE  Owns(r)'
<1>1. Rests(r)
  BY DEF CloseKilled, CloseDone, Rests
<1>2. CASE CloseKilled(c, q)
  <2>1. closing' = [closing EXCEPT ![c][q] = "deleting"] /\ listed' = listed \ Of(q, listed)
    BY <1>2 DEF CloseKilled
  <2>2. Open(r)' => Open(r) /\ r # q
    BY <1>2, <2>1 DEF Parts, ClosingType, Open, CloseKilled, service
  <2>3. r # q => Of(r, running) \cap listed \subseteq listed'
    BY <2>1 DEF Of
  <2>4. Keeps(r)
    BY <1>2, <2>2, <2>3 DEF Keeps, CloseKilled, service, Of
  <2> QED
    BY <1>1, <2>4, KeepsOwn
<1>3. CASE CloseDone(c, q)
  <2>1. /\ closing' = [closing EXCEPT ![c][q] = "idle"]
        /\ activeStreams' = activeStreams \ {q}
        /\ UNCHANGED <<minted, running, listed>>
    BY <1>3 DEF CloseDone, encoders
  <2>2. Open(r)' => Open(r)
    BY <2>1 DEF Parts, ClosingType, Open
  <2>3. Keeps(r)
    BY <2>1, <2>2 DEF Keeps, Of
  <2> QED
    BY <1>1, <2>3, KeepsOwn
<1> QED
  BY <1>2, <1>3

\* A step that closes relays and moves no handler.
LEMMA ClosingOwn ==
  ASSUME Parts, NEW r \in Relay, Owns(r), NEW c \in Closer, NEW R, NEW gone,
         Close(c, R, gone), UNCHANGED <<at, service>>
  PROVE  Owns(r)'
<1>1. Keeps(r)
  BY CloseKeeps DEF Parts, service
<1> QED
  BY <1>1, KeepsOwn DEF Rests

\* The start of a new id, and the steps of a start.
LEMMA StartOwn ==
  ASSUME Parts, NEW r \in Relay, Owns(r), NEW q \in Relay, StartURLStream(q)
  PROVE  Owns(r)'
<1>1. /\ Goto("start", q, "validating") /\ "start" \in Handler /\ "validating" \in Phase
      /\ q \notin minted /\ minted' = minted \cup {q}
      /\ UNCHANGED <<activeStreams, closing, running, listed>>
  BY DEF StartURLStream, Handler, Phase, encoders
<1>2. CASE q = r
  <2>1. /\ at'["start"][r] = "validating"
        /\ \A h \in Restart : at'[h][r] = at[h][r]
    BY <1>1, <1>2, GotoEffect DEF Parts, Handler, Restart
  <2>2. /\ Untracked(r)
        /\ r \notin activeStreams' /\ Of(r, running') = {} /\ at["reconnect"][r] = "idle"
    BY <1>1, <1>2 DEF Owns, Untracked
  <2> QED
    BY <2>1, <2>2 DEF Owns, Open, Restart, Of
<1>3. CASE q # r
  <2>1. Rests(r)
    BY <1>1, <1>3, OthersRest DEF Parts
  <2>2. Keeps(r)
    BY <1>1, <1>3 DEF Keeps, Open, Of
  <2> QED
    BY <2>1, <2>2, KeepsOwn
<1> QED
  BY <1>2, <1>3

LEMMA StartStepOwn ==
  ASSUME Parts, NEW r \in Relay, Owns(r), NEW q \in Relay, StartStep(q)
  PROVE  Owns(r)'
<1> USE DEF service, encoders
<1>0. "start" \in Handler /\ "start" \in Closer
  BY DEF Handler, Closer, Stopper
<1>1. CASE PipelineSpawns("start", q)
  <2>1. CASE q = r
    BY <1>1, <2>1, SpawnOwn
  <2>2. CASE q # r
    <3>1. Rests(r)
      BY <1>0, <1>1, <2>2, OthersRest DEF Parts, PipelineSpawns, Phase
    <3>2. Keeps(r)
      BY <1>1, <2>2 DEF Keeps, Open, Of, PipelineSpawns
    <3> QED
      BY <3>1, <3>2, KeepsOwn
  <2> QED
    BY <2>1, <2>2
<1>2. CASE StartTracked(q)
  <2>0. /\ Goto("start", q, "creating") /\ "creating" \in Phase
        /\ at["start"][q] = "extracting"
        /\ activeStreams' = activeStreams \cup {q}
        /\ UNCHANGED <<minted, closing, running, listed>>
    BY <1>2 DEF StartTracked, Phase
  <2>1. CASE q = r
    <3>1. /\ at'["start"][r] = "creating"
          /\ \A h \in Restart : at'[h][r] = at[h][r]
      BY <1>0, <2>0, <2>1, GotoEffect DEF Parts, Handler, Restart
    <3>2. Of(r, running') = {} /\ at["reconnect"][r] = "idle" /\ r \in minted
      BY <1>0, <2>0, <2>1 DEF Owns, Untracked, Parts, CallsHold, StartsAreMinted
    <3>3. ~Untracked(r)'
      BY <2>0, <3>1, <3>2 DEF Untracked
    <3> QED
      BY <3>1, <3>2, <3>3 DEF Owns, Restart, Of
  <2>2. CASE q # r
    <3>1. Rests(r)
      BY <1>0, <2>0, <2>2, OthersRest DEF Parts
    <3>2. Keeps(r)
      BY <2>0, <2>2 DEF Keeps, Open, Of
    <3> QED
      BY <3>1, <3>2, KeepsOwn
  <2> QED
    BY <2>1, <2>2
<1>3. CASE StartValidated(q) \/ StartCleared(q)
  <2>1. Keeps(r)
    <3>1. CASE StartValidated(q)
      BY <1>0, <3>1, CloseKeeps DEF StartValidated, Parts
    <3>2. CASE StartCleared(q)
      BY <3>2 DEF StartCleared, Keeps, Open, Of
    <3> QED
      BY <1>3, <3>1, <3>2
  <2>2. PICK phase \in {"clearing", "extracting"} : Goto("start", q, phase)
    BY <1>3 DEF StartValidated, StartCleared
  <2>3. at["start"][q] \in {"validating", "clearing"} /\ phase \in Phase
    BY <1>3 DEF StartValidated, StartCleared, Phase
  <2>4. CASE q = r
    BY <2>1, <2>2, <2>3, <2>4, StartApproaches DEF Parts
  <2>5. CASE q # r
    <3>1. Rests(r)
      BY <1>0, <2>2, <2>3, <2>5, OthersRest DEF Parts
    <3> QED
      BY <2>1, <3>1, KeepsOwn
  <2> QED
    BY <2>4, <2>5
<1>4. CASE StartFails(q) \/ StartRegistered(q) \/ StartRefused(q) \/ StartTornDown(q)
  <2>1. Keeps(r)
    <3>1. CASE StartRefused(q)
      BY <1>0, <3>1, CloseKeeps DEF StartRefused, Parts
    <3>2. CASE StartFails(q) \/ StartRegistered(q) \/ StartTornDown(q)
      BY <3>2 DEF StartFails, StartRegistered, StartTornDown, Registered, Keeps, Open, Of
    <3> QED
      BY <1>4, <3>1, <3>2
  <2>2. PICK phase \in {"idle", "refusing"} : Goto("start", q, phase)
    BY <1>4 DEF StartFails, StartRegistered, Registered, StartRefused, StartTornDown
  <2>3. at["start"][q] # "idle" /\ phase \in Phase
    BY <1>4 DEF StartFails, StartRegistered, Registered, StartRefused, StartTornDown,
       PipelineUp, Phase
  <2>4. CASE q = r
    BY <2>1, <2>2, <2>3, <2>4, StartMovesOn DEF Parts
  <2>5. CASE q # r
    <3>1. Rests(r)
      BY <1>0, <2>2, <2>3, <2>5, OthersRest DEF Parts
    <3> QED
      BY <2>1, <3>1, KeepsOwn
  <2> QED
    BY <2>4, <2>5
<1> QED
  BY <1>1, <1>2, <1>3, <1>4 DEF StartStep

\* handleStreamError: a reconnect begins by killing the encoder of its relay.
LEMMA ErrorOwn ==
  ASSUME Parts, NEW r \in Relay \ KickRelay, Owns(r), NEW q \in Relay, NEW gone,
         \/ HandleStreamError(q, gone)
         \/ NoClose(gone) /\ UNCHANGED <<reconnecting, at>>,
         UNCHANGED <<minted, activeStreams>>
  PROVE  Owns(r)'
<1>1. CASE NoClose(gone) /\ UNCHANGED at
  <2>1. Keeps(r)
    BY <1>1, KillKeeps DEF NoClose
  <2> QED
    BY <1>1, <2>1, KeepsOwn DEF Rests
<1>2. CASE ~Ignored(q) /\ Goto("reconnect", q, "killing") /\ Kill({q}, gone) /\ UNCHANGED closing
  <2>1. Keeps(r)
    BY <1>2, KillKeeps
  <2>2. "reconnect" \in Handler /\ "killing" \in Phase
    BY DEF Handler, Restart, Phase
  <2>3. CASE q = r
    <3>1. /\ at'["reconnect"][r] = "killing"
          /\ at'["start"][r] = at["start"][r] /\ at'["refresh"][r] = at["refresh"][r]
      BY <1>2, <2>2, <2>3, GotoEffect DEF Parts, Handler, Restart
    <3>2. at["start"][r] = "idle" /\ r \in activeStreams
      BY <1>2, <2>3 DEF Ignored, Parts, CallsHold, MutexesHold
    <3>3. r \in minted' /\ ~Untracked(r)'
      BY <3>1, <3>2 DEF Parts, ServiceTypes, Untracked
    <3>4. Open(r) => Of(r, running') = {}
      BY <1>2, <2>3 DEF Owns, Kill, Of
    <3>5. Open(r)' => Of(r, running') = {}
      BY <2>1, <3>4 DEF Keeps
    <3> QED
      BY <3>1, <3>2, <3>3, <3>5 DEF Owns, Of
  <2>4. CASE q # r
    <3>1. Rests(r)
      BY <1>2, <2>2, <2>4, OthersRest DEF Parts
    <3> QED
      BY <2>1, <3>1, KeepsOwn
  <2> QED
    BY <2>3, <2>4
<1>3. CASE q \in KickRelay /\ Goto("refresh", q, "fetching") /\ NoClose(gone)
  <2>1. Keeps(r)
    BY <1>3, KillKeeps DEF NoClose
  <2>2. Rests(r)
    BY <1>3, OthersRest DEF Parts, Handler, Restart, Phase
  <2> QED
    BY <2>1, <2>2, KeepsOwn
<1>4. CASE Close("error", {q}, gone) /\ UNCHANGED at
  <2>1. Keeps(r)
    BY <1>4, CloseKeeps DEF Parts, Closer, Ender
  <2> QED
    BY <1>4, <2>1, KeepsOwn DEF Rests
<1> QED
  BY <1>1, <1>2, <1>3, <1>4 DEF HandleStreamError

\* Reconnects and token refreshes; the latter are of other relays.
LEMMA RestartOwn ==
  ASSUME Parts, NEW r \in Relay, Owns(r), NEW h \in Restart, NEW q \in Relay,
         RestartStep(h, q) \/ (h = "reconnect" /\ ReconnectStep(q)) \/ (h = "refresh" /\ RefreshFetched(q))
  PROVE  Owns(r)'
<1> USE DEF service, encoders
<1>0. h \in Handler /\ "error" \in Closer /\ "reconnect" \in Closer
  BY DEF Handler, Closer, Ender
<1>1. PICK phase \in Phase : Goto(h, q, phase)
  BY DEF RestartStep, RestartKilled, RestartAbandoned, RestartProceeds, PipelineSpawns,
     RestartRegistered, Registered, RestartFails, ReconnectStep, ReconnectSuperseded,
     ReconnectEnded, RefreshFetched, Phase
<1>2. at[h][q] # "idle"
  BY DEF RestartStep, RestartKilled, RestartAbandoned, RestartProceeds, PipelineSpawns,
     RestartRegistered, Registered, RestartFails, ReconnectStep, ReconnectSuperseded,
     ReconnectEnded, RefreshFetched, PipelineUp
<1>3. CASE q # r
  <2>1. Rests(r)
    BY <1>0, <1>1, <1>3, OthersRest DEF Parts
  <2>2. CASE RestartKilled(h, q) \/ RestartAbandoned(h, q) \/ RestartProceeds(h, q)
             \/ PipelineSpawns(h, q) \/ RestartRegistered(h, q) \/ ReconnectEnded(q)
    <3>1. Keeps(r)
      BY <1>3, <2>2 DEF RestartKilled, RestartAbandoned, RestartProceeds, PipelineSpawns,
         RestartRegistered, Registered, ReconnectEnded, Keeps, Open, Of
    <3> QED
      BY <2>1, <3>1, KeepsOwn
  <2>3. CASE RestartFails(h, q) \/ ReconnectSuperseded(q)
    <3>1. Keeps(r)
      BY <1>0, <2>3, CloseKeeps DEF RestartFails, ReconnectSuperseded, Parts
    <3> QED
      BY <2>1, <3>1, KeepsOwn
  <2>4. CASE RefreshFetched(q)
    <3>1. Keeps(r)
      BY <2>4, KillKeeps DEF RefreshFetched
    <3> QED
      BY <2>1, <3>1, KeepsOwn
  <2> QED
    BY <2>2, <2>3, <2>4 DEF RestartStep, ReconnectStep
<1>4. CASE q = r
  <2>0. h = "reconnect"
    BY <1>2, <1>4 DEF Owns, Restart
  <2>1. CASE PipelineSpawns(h, r)
    BY <2>0, <2>1, SpawnOwn
  <2>2. CASE RestartAbandoned(h, r) \/ RestartRegistered(h, r) \/ ReconnectEnded(r)
    <3>1. Keeps(r)
      BY <2>2 DEF RestartAbandoned, RestartRegistered, Registered, ReconnectEnded, Keeps,
         Open, Of
    <3>2. Goto("reconnect", r, "idle")
      BY <2>0, <2>2 DEF RestartAbandoned, RestartRegistered, Registered, ReconnectEnded
    <3> QED
      BY <1>2, <1>4, <2>0, <3>1, <3>2, ReconnectMovesOn DEF Parts
  <2>3. CASE RestartFails(h, r) \/ ReconnectSuperseded(r)
    <3>1. Keeps(r)
      BY <1>0, <2>3, CloseKeeps DEF RestartFails, ReconnectSuperseded, Parts
    <3>2. PICK step \in {"idle", "ending"} : Goto("reconnect", r, step)
      BY <2>0, <2>3 DEF RestartFails, ReconnectSuperseded
    <3> QED
      BY <1>2, <1>4, <2>0, <3>1, <3>2, ReconnectMovesOn DEF Parts
  <2>4. CASE RestartKilled(h, r) \/ RestartProceeds(h, r)
    <3>1. at[h][r] \in {"killing", "backoff"} /\ UNCHANGED <<minted, activeStreams, closing, running>>
      BY <2>4 DEF RestartKilled, RestartProceeds
    <3>2. PICK step \in {"backoff", "creating"} : Goto(h, r, step)
      BY <2>4 DEF RestartKilled, RestartProceeds
    <3>3. /\ at'["reconnect"][r] = step
          /\ at'["start"][r] = at["start"][r] /\ at'["refresh"][r] = at["refresh"][r]
      BY <1>0, <2>0, <3>2, GotoEffect DEF Parts, Handler, Restart, Phase
    <3>4. at["start"][r] = "idle" /\ ~Untracked(r) /\ Replacing(r)
      BY <2>0, <3>1 DEF Owns, Replacing
    <3>5. ~Untracked(r)' /\ (Open(r)' => Open(r))
      BY <3>1, <3>3, <3>4 DEF Untracked, Open
    <3> QED
      BY <3>1, <3>3, <3>4, <3>5 DEF Owns, Of
  <2> QED
    BY <1>4, <2>0, <2>1, <2>2, <2>3, <2>4 DEF RestartStep, ReconnectStep
<1> QED
  BY <1>3, <1>4

\* IngressJanitor.cleanupAll drops every entry but one.
LEMMA JanitorOwn ==
  ASSUME NEW r \in Relay, Owns(r), NEW q \in Relay, JanitorStep(q)
  PROVE  Owns(r)'
<1> USE DEF service, encoders
<1>1. Rests(r)
  BY DEF JanitorStep, JanitorDeletes, JanitorFails, JanitorClears, Rests
<1>2. Keeps(r)
  <2>1. CASE JanitorDeletes(q) \/ JanitorFails(q)
    BY <2>1 DEF JanitorDeletes, JanitorFails, Keeps, Open, Of
  <2>2. CASE JanitorClears(q)
    BY <2>2 DEF JanitorClears, Keeps, Open, Of
  <2> QED
    BY <2>1, <2>2 DEF JanitorStep
<1> QED
  BY <1>1, <1>2, KeepsOwn

\* The steps that touch no relay.
LEMMA SlotOwn ==
  ASSUME NEW r \in Relay, Owns(r), UNCHANGED <<at, closing, minted, activeStreams, running, listed>>
  PROVE  Owns(r)'
BY DEF Owns, Untracked, Replacing, Open, Of

LEMMA OwnStep ==
  ASSUME Parts, RelaysOwnEncoders, [Next]_vars
  PROVE  RelaysOwnEncoders'
<1> SUFFICES ASSUME NEW r \in Relay \ KickRelay PROVE Owns(r)'
  BY DEF RelaysOwnEncoders
<1>0. Owns(r)
  BY DEF RelaysOwnEncoders
<1> USE DEF service, calls, encoders
<1>1. CASE CloserStep
  BY <1>0, <1>1, CloserStepOwn DEF CloserStep
<1>2. ASSUME NEW q \in Relay, StartStep(q) PROVE Owns(r)'
  BY <1>0, <1>2, StartStepOwn
<1>3. ASSUME NEW q \in Relay, NEW h \in Restart, RestartStep(h, q) PROVE Owns(r)'
  BY <1>0, <1>3, RestartOwn
<1>4. ASSUME NEW q \in Relay, ReconnectStep(q) \/ RefreshFetched(q) PROVE Owns(r)'
  BY <1>0, <1>4, RestartOwn DEF Restart
<1>5. ASSUME NEW q \in Relay, JanitorStep(q) PROVE Owns(r)'
  BY <1>0, <1>5, JanitorOwn
<1>6. ASSUME NEW q \in Relay, NotifyViewers(q) \/ HealthCheckClears(q) PROVE Owns(r)'
  BY <1>0, <1>6, SlotOwn DEF NotifyViewers, HealthCheckClears
<1>7. ASSUME NEW q \in Relay, StaleReport(q) \/ HealthReport(q) PROVE Owns(r)'
  BY <1>0, <1>7, ErrorOwn DEF StaleReport, HealthReport
<1>8. ASSUME NEW p \in running \cup dying, EncoderTerminates(p) \/ EncoderCrashes(p)
      PROVE  Owns(r)'
  <2>1. p[1] \in Relay
    BY DEF Parts, EncoderTypes, Encoder
  <2> QED
    BY <1>0, <1>8, <2>1, ErrorOwn DEF EncoderTerminates, EncoderCrashes, Exits
<1>9. CASE TakeoverNext
  <2>1. CASE TakeoverOusts \/ \E q \in Relay : TakeoverPauses(q)
    <3>1. \E R : Close("takeover", R, {})
      BY <2>1 DEF TakeoverOusts, TakeoverPauses
    <3> QED
      BY <1>0, <2>1, <3>1, ClosingOwn DEF TakeoverOusts, TakeoverPauses, Closer, Stopper
  <2>2. CASE TakeoverDenied \/ TakeoverGoesLive \/ TakeoverEnds
    BY <1>0, <2>2, SlotOwn DEF TakeoverDenied, TakeoverGoesLive, TakeoverEnds
  <2> QED
    BY <1>9, <2>1, <2>2 DEF TakeoverNext
<1>10. ASSUME NEW q \in Relay, StartURLStream(q) PROVE Owns(r)'
  BY <1>0, <1>10, StartOwn
<1>11. ASSUME NEW q \in Relay, OperatorStops(q) \/ SourceEnds(q) PROVE Owns(r)'
  BY <1>0, <1>11, ClosingOwn DEF OperatorStops, SourceEnds, Closer, Stopper, Ender
<1>12. CASE TakeoverStarts \/ HumanLeaves
  BY <1>0, <1>12, SlotOwn DEF TakeoverStarts, HumanLeaves
<1>13. CASE UNCHANGED vars
  BY <1>0, <1>13, SlotOwn DEF vars
<1> QED
  BY <1>1, <1>2, <1>3, <1>4, <1>5, <1>6, <1>7, <1>8, <1>9, <1>10, <1>11, <1>12, <1>13
  DEF Next, Outside

-----------------------------------------------------------------------------
(* One entry at a time.                                                    *)
(*                                                                         *)
(* A start closes every entry it finds and waits for its own calls to end  *)
(* before it makes one; the flag keeps other starts out meanwhile.         *)

OneEntry ==
  /\ \A q, r \in activeStreams : q = r
  /\ \A s \in Relay : at["start"][s] = "clearing" =>
       \A q \in activeStreams : closing["start"][q] # "idle"
  /\ \A s \in Relay : at["start"][s] = "extracting" => activeStreams = {}

\* No entry is made, and a call of a start that closes an entry goes on.
Shrinks ==
  /\ activeStreams' \subseteq activeStreams
  /\ \A q \in activeStreams' : closing["start"][q] # "idle" => closing'["start"][q] # "idle"

LEMMA ShrinksKeeps ==
  ASSUME OneEntry, Shrinks,
         \A s \in Relay : at'["start"][s] \in {at["start"][s], "idle", "validating", "creating",
                                               "waiting", "refusing"}
  PROVE  OneEntry'
BY DEF OneEntry, Shrinks

LEMMA CloseShrinks ==
  ASSUME ClosingType, NEW c \in Closer, NEW R, NEW gone, Close(c, R, gone),
         UNCHANGED activeStreams, activeStreams \subseteq Relay
  PROVE  /\ Shrinks
         /\ c = "start" => \A q \in R \cap activeStreams : closing'["start"][q] # "idle"
<1>1. closing' = [closing EXCEPT ![c] =
                    [q \in Relay |-> IF q \in R \cap activeStreams /\ closing[c][q] = "idle"
                                       THEN "killing" ELSE @[q]]]
  BY DEF Close
<1> QED
  BY <1>1 DEF Shrinks, ClosingType, Closer, Stopper

\* A handler that moves to phase leaves the other starts where they are.
LEMMA StartsRest ==
  ASSUME AtType, NEW h \in Handler, NEW r \in Relay, NEW phase \in Phase, Goto(h, r, phase)
  PROVE  \A s \in Relay : at'["start"][s] = IF h = "start" /\ s = r THEN phase
                                            ELSE at["start"][s]
BY GotoEffect DEF Handler

LEMMA StartStepEntry ==
  ASSUME Parts, OneEntry, NEW r \in Relay, StartStep(r)
  PROVE  OneEntry'
<1> USE DEF service
<1>0. "start" \in Handler /\ "start" \in Closer /\ activeStreams \subseteq Relay
  BY DEF Handler, Closer, Stopper, Parts, ServiceTypes
<1>1. \A s \in Relay : at["start"][r] # "idle" /\ at["start"][s] # "idle" => s = r
  BY DEF Parts, CallsHold, MutexesHold
<1>2. CASE StartValidated(r)
  <2>1. at["start"][r] = "validating" /\ Close("start", activeStreams, {})
    BY <1>2 DEF StartValidated
  <2>2. UNCHANGED activeStreams /\ \A q \in activeStreams : closing'["start"][q] # "idle"
    BY <1>0, <1>2, <2>1, CloseShrinks DEF StartValidated, Parts
  <2>3. \A s \in Relay : at'["start"][s] = IF s = r THEN IF activeStreams = {} THEN "extracting" ELSE "clearing"
                                           ELSE at["start"][s]
    BY <1>0, <1>2, StartsRest DEF StartValidated, Parts, Phase
  <2>4. \A s \in Relay \ {r} : at["start"][s] = "idle"
    BY <1>1, <2>1
  <2> QED
    BY <2>2, <2>3, <2>4 DEF OneEntry
<1>3. CASE StartCleared(r)
  <2>1. /\ at["start"][r] = "clearing"
        /\ \A q \in Relay : closing["start"][q] = "idle"
        /\ UNCHANGED <<activeStreams, closing>>
    BY <1>3 DEF StartCleared
  <2>2. activeStreams = {}
    BY <1>0, <2>1 DEF OneEntry
  <2> QED
    BY <2>1, <2>2 DEF OneEntry
<1>4. CASE StartTracked(r)
  <2>1. at["start"][r] = "extracting" /\ activeStreams' = activeStreams \cup {r}
    BY <1>4 DEF StartTracked
  <2>2. activeStreams' = {r}
    BY <2>1 DEF OneEntry
  <2>3. \A s \in Relay : at'["start"][s] = IF s = r THEN "creating" ELSE at["start"][s]
    BY <1>0, <1>4, StartsRest DEF StartTracked, Parts, Phase
  <2>4. \A s \in Relay \ {r} : at["start"][s] = "idle"
    BY <1>1, <2>1
  <2> QED
    BY <2>2, <2>3, <2>4 DEF OneEntry
<1>5. CASE \/ StartFails(r) \/ PipelineSpawns("start", r) \/ StartRegistered(r)
           \/ StartRefused(r) \/ StartTornDown(r)
  <2>1. Shrinks
    <3>1. CASE StartRefused(r)
      BY <1>0, <3>1, CloseShrinks DEF StartRefused, Parts
    <3>2. CASE \/ StartFails(r) \/ PipelineSpawns("start", r) \/ StartRegistered(r)
               \/ StartTornDown(r)
      BY <3>2 DEF StartFails, PipelineSpawns, StartRegistered, StartTornDown, Shrinks
    <3> QED
      BY <1>5, <3>1, <3>2
  <2>2. PICK phase \in {"idle", "waiting", "refusing"} : Goto("start", r, phase)
    BY <1>5 DEF StartFails, PipelineSpawns, StartRegistered, Registered, StartRefused,
       StartTornDown
  <2>3. \A s \in Relay : at'["start"][s] \in {at["start"][s], "idle", "waiting", "refusing"}
    BY <1>0, <2>2, StartsRest DEF Parts, Phase
  <2> QED
    BY <2>1, <2>3, ShrinksKeeps
<1> QED
  BY <1>2, <1>3, <1>4, <1>5 DEF StartStep

\* The steps of the other handlers.
LEMMA OtherStepEntry ==
  ASSUME Parts, OneEntry, Shrinks, UNCHANGED at \/ \E h \in Restart, r \in Relay, phase \in Phase : Goto(h, r, phase)
  PROVE  OneEntry'
<1>1. \A s \in Relay : at'["start"][s] = at["start"][s]
  BY StartsRest DEF Parts, Handler, Restart
<1> QED
  BY <1>1, ShrinksKeeps

LEMMA ErrorEntry ==
  ASSUME Parts, OneEntry, NEW r \in Relay, NEW gone,
         \/ HandleStreamError(r, gone)
         \/ NoClose(gone) /\ UNCHANGED <<reconnecting, at>>,
         UNCHANGED activeStreams
  PROVE  OneEntry'
<1>1. Shrinks
  <2>1. CASE UNCHANGED closing
    BY <2>1 DEF Shrinks
  <2>2. CASE Close("error", {r}, gone)
    BY <2>2, CloseShrinks DEF Parts, ServiceTypes, Closer, Ender
  <2> QED
    BY <2>1, <2>2 DEF HandleStreamError, NoClose
<1>2. UNCHANGED at \/ \E h \in Restart, q \in Relay, phase \in Phase : Goto(h, q, phase)
  BY DEF HandleStreamError, Restart, Phase
<1> QED
  BY <1>1, <1>2, OtherStepEntry

LEMMA RestartEntry ==
  ASSUME Parts, OneEntry, NEW r \in Relay, NEW h \in Restart,
         RestartStep(h, r) \/ ReconnectStep(r) \/ RefreshFetched(r)
  PROVE  OneEntry'
<1> USE DEF service
<1>1. Shrinks
  <2>1. CASE RestartFails(h, r) \/ ReconnectSuperseded(r)
    BY <2>1, CloseShrinks
    DEF RestartFails, ReconnectSuperseded, Parts, ServiceTypes, Closer, Ender
  <2>2. CASE \/ RestartKilled(h, r) \/ RestartAbandoned(h, r) \/ RestartProceeds(h, r)
             \/ PipelineSpawns(h, r) \/ RestartRegistered(h, r) \/ ReconnectEnded(r)
             \/ RefreshFetched(r)
    BY <2>2 DEF RestartKilled, RestartAbandoned, RestartProceeds, PipelineSpawns,
       RestartRegistered, ReconnectEnded, RefreshFetched, Shrinks
  <2> QED
    BY <2>1, <2>2 DEF RestartStep, ReconnectStep
<1>2. \E g \in Restart, phase \in Phase : Goto(g, r, phase)
  BY DEF RestartStep, RestartKilled, RestartAbandoned, RestartProceeds, PipelineSpawns,
     RestartRegistered, Registered, RestartFails, ReconnectStep, ReconnectSuperseded,
     ReconnectEnded, RefreshFetched, Restart, Phase
<1> QED
  BY <1>1, <1>2, OtherStepEntry

LEMMA EntryStep ==
  ASSUME Parts, OneEntry, [Next]_vars
  PROVE  OneEntry'
<1> USE DEF service, calls
<1>0. activeStreams \subseteq Relay /\ {"start", "takeover", "operator", "error"} \subseteq Closer
  BY DEF Parts, ServiceTypes, Closer, Stopper, Ender
<1>1. ASSUME NEW c \in Closer, NEW r \in Relay, CloseKilled(c, r) \/ CloseDone(c, r) PROVE OneEntry'
  <2>1. Shrinks
    BY <1>0, <1>1 DEF CloseKilled, CloseDone, Shrinks, Parts, ClosingType
  <2> QED
    BY <1>1, <2>1, OtherStepEntry DEF CloseKilled, CloseDone
<1>2. ASSUME NEW r \in Relay, StartStep(r) PROVE OneEntry'
  BY <1>2, StartStepEntry
<1>3. ASSUME NEW r \in Relay, NEW h \in Restart,
             RestartStep(h, r) \/ ReconnectStep(r) \/ RefreshFetched(r)
      PROVE  OneEntry'
  BY <1>3, RestartEntry
<1>4. ASSUME NEW r \in Relay, JanitorStep(r) PROVE OneEntry'
  <2>1. Shrinks /\ UNCHANGED at
    BY <1>4 DEF JanitorStep, JanitorDeletes, JanitorFails, JanitorClears, Shrinks
  <2> QED
    BY <2>1, OtherStepEntry
<1>5. CASE \/ \E r \in Relay : NotifyViewers(r) \/ HealthCheckClears(r)
           \/ TakeoverDenied \/ TakeoverGoesLive \/ TakeoverEnds
           \/ TakeoverStarts \/ HumanLeaves \/ UNCHANGED vars
  <2>1. UNCHANGED <<at, closing, activeStreams>>
    BY <1>5 DEF NotifyViewers, HealthCheckClears, TakeoverDenied, TakeoverGoesLive,
       TakeoverEnds, TakeoverStarts, HumanLeaves, vars
  <2> QED
    BY <2>1, OtherStepEntry DEF Shrinks
<1>6. ASSUME NEW r \in Relay, StaleReport(r) \/ HealthReport(r) PROVE OneEntry'
  BY <1>6, ErrorEntry DEF StaleReport, HealthReport
<1>7. ASSUME NEW p \in running \cup dying, EncoderTerminates(p) \/ EncoderCrashes(p)
      PROVE  OneEntry'
  <2>1. p[1] \in Relay
    BY DEF Parts, EncoderTypes, Encoder
  <2> QED
    BY <1>7, <2>1, ErrorEntry DEF EncoderTerminates, EncoderCrashes, Exits
<1>8. ASSUME NEW r \in Relay,
             OperatorStops(r) \/ SourceEnds(r) \/ TakeoverPauses(r) \/ TakeoverOusts
      PROVE  OneEntry'
  <2>1. PICK c \in {"operator", "error", "takeover"}, R \in {{r}, {seen}} : Close(c, R, {})
    BY <1>8 DEF OperatorStops, SourceEnds, TakeoverPauses, TakeoverOusts
  <2>2. UNCHANGED <<at, activeStreams>>
    BY <1>8 DEF OperatorStops, SourceEnds, TakeoverPauses, TakeoverOusts
  <2>3. Shrinks
    BY <1>0, <2>1, <2>2, CloseShrinks DEF Parts
  <2> QED
    BY <2>2, <2>3, OtherStepEntry
<1>9. CASE TakeoverOusts
  <2>1. seen \in Relay
    BY <1>9 DEF TakeoverOusts
  <2> QED
    BY <1>8, <1>9, <2>1
<1>10. ASSUME NEW r \in Relay, StartURLStream(r) PROVE OneEntry'
  <2>1. Shrinks
    BY <1>10 DEF StartURLStream, Shrinks
  <2>2. \A s \in Relay : at'["start"][s] \in {at["start"][s], "validating"}
    BY <1>10, StartsRest DEF StartURLStream, Parts, Handler, Phase
  <2> QED
    BY <2>1, <2>2, ShrinksKeeps
<1> QED
  BY <1>1, <1>2, <1>3, <1>4, <1>5, <1>6, <1>7, <1>8, <1>9, <1>10
  DEF Next, CloserStep, TakeoverNext, Outside, Restart

-----------------------------------------------------------------------------
(* The theorems *)

LEMMA RelayInit == Init => IInv
<1>1. Init => TypeOK
  <2> SUFFICES ASSUME Init PROVE TypeOK
    OBVIOUS
  <2>1. AtType
    BY DEF Init, AtType, Phase
  <2>2. ClosingType /\ JanitorType
    BY DEF Init, ClosingType, JanitorType
  <2>3. ServiceTypes /\ SlotTypes /\ arrivals \in 0..MaxArrivals
    <3>1. ServiceTypes
      BY Zenon DEF Init, ServiceTypes
    <3>2. SlotTypes
      BY DEF Init, SlotTypes, TakeoverStep
    <3>3. arrivals \in 0..MaxArrivals
      BY BoundAssumption DEF Init
    <3> QED
      BY <3>1, <3>2, <3>3
  <2>4. EncoderTypes
    BY DEF Init, EncoderTypes
  <2> QED
    BY <2>1, <2>2, <2>3, <2>4, TypeGroups
<1>2. Init => EncodersFinite
  BY FS_EmptySet DEF Init, EncodersFinite
<1>3. Init => CallsHold
  BY DEF Init, CallsHold, MutexesHold, StartsAreMinted, Handler, Restart
<1> QED
  BY <1>1, <1>2, <1>3 DEF IInv

LEMMA RelayStep ==
  ASSUME IInv, [Next]_vars
  PROVE  IInv'
<1>0. Parts
  BY InvParts
<1> SUFFICES Parts'
  <2>1. Parts' => IInv'
    BY InvParts, PTL
  <2> QED
    BY <2>1
<1>1. CASE CloserStep
  BY <1>0, <1>1, CloserStepInv DEF CloserStep
<1>2. ASSUME NEW r \in Relay, StartStep(r) PROVE Parts'
  BY <1>0, <1>2, StartStepInv
<1>3. ASSUME NEW r \in Relay, ReconnectStep(r) \/ RefreshFetched(r) PROVE Parts'
  BY <1>0, <1>3, ReconnectStepInv
<1>4. ASSUME NEW r \in Relay, JanitorStep(r) PROVE Parts'
  BY <1>0, <1>4, JanitorStepInv
<1>5. ASSUME NEW r \in Relay, NotifyViewers(r) \/ HealthCheckClears(r) PROVE Parts'
  BY <1>0, <1>5, SlotInv
<1>6. ASSUME NEW r \in Relay, StaleReport(r) \/ HealthReport(r) PROVE Parts'
  BY <1>0, <1>6, ReportInv
<1>7. ASSUME NEW r \in Relay, NEW h \in Restart, RestartStep(h, r) PROVE Parts'
  BY <1>0, <1>7, RestartStepInv
<1>8. ASSUME NEW p \in running \cup dying, EncoderTerminates(p) \/ EncoderCrashes(p)
      PROVE  Parts'
  BY <1>0, <1>8, ExitInv
<1>9. CASE TakeoverNext
  BY <1>0, <1>9, SlotInv, OustInv DEF TakeoverNext
<1>10. ASSUME NEW r \in Relay, StartURLStream(r) PROVE Parts'
  BY <1>0, <1>10, StartInv
<1>11. ASSUME NEW r \in Relay, OperatorStops(r) \/ SourceEnds(r) PROVE Parts'
  BY <1>0, <1>11, OutsideClosingInv
<1>12. CASE TakeoverStarts \/ HumanLeaves
  BY <1>0, <1>12, SlotInv
<1>13. CASE UNCHANGED vars
  <2>1. CallsHold'
    BY <1>0, <1>13, CallsFrame DEF Parts, vars, service, calls
  <2> QED
    BY <1>0, <1>13, <2>1 DEF vars, service, calls, encoders, slot, Parts, AtType, ClosingType,
       JanitorType, ServiceTypes, EncoderTypes, EncodersFinite, SlotTypes
<1> QED
  BY <1>1, <1>2, <1>3, <1>4, <1>5, <1>6, <1>7, <1>8, <1>9, <1>10, <1>11, <1>12, <1>13
  DEF Next, Outside

LEMMA RelayInv == Spec => []IInv
BY RelayInit, RelayStep, PTL DEF Spec

\* Every state has its type: relays the service tracks were given out, live
\* encoders belong to relays, and a signalled encoder publishes no more.
THEOREM RelayTypeCorrect == Spec => []TypeOK
<1>1. IInv => TypeOK
  BY DEF IInv
<1> QED
  BY <1>1, RelayInv, PTL

\* _startingStream and _reconnecting admit one start and one reconnect, and are
\* up exactly while these run, on every path through ViewBotURLService and
\* StreamReconnector.
THEOREM FlagsAreMutexes == Spec => []MutexesHold
<1>1. IInv => MutexesHold
  BY DEF IInv, CallsHold
<1> QED
  BY <1>1, RelayInv, PTL

\* No step of a relay writes it into the slot over a human or during a takeover.
THEOREM RelaysNeverOustHumans == Spec => RelaysYieldToHumans
<1>1. ASSUME TypeOK, [Next]_vars, currentStreamer' \in Relay, currentStreamer' # currentStreamer
      PROVE  takeover = "idle" /\ currentStreamer # Human
  <2>1. ASSUME NEW h \in Handler, NEW r \in Relay, Registered(h, r)
        PROVE  takeover = "idle" /\ currentStreamer # Human
    BY <2>1 DEF Registered, Superseded
  <2>2. ASSUME NEW r \in Relay, NotifyViewers(r)
        PROVE  takeover = "idle" /\ currentStreamer # Human
    BY <1>1, <2>2 DEF NotifyViewers, Superseded
  <2>3. CASE CloserStep \/ TakeoverNext \/ Outside
    BY <1>1, <2>3, RelayAssumption
    DEF CloserStep, CloseKilled, CloseDone, slot, TakeoverNext, TakeoverDenied, TakeoverOusts,
        TakeoverGoesLive, TakeoverEnds, TakeoverPauses, Outside, StartURLStream, OperatorStops,
        SourceEnds, HealthReport, EncoderCrashes, Exits, TakeoverStarts, HumanLeaves
  <2>4. ASSUME NEW r \in Relay, StartStep(r) PROVE takeover = "idle" /\ currentStreamer # Human
    BY <1>1, <2>1, <2>4
    DEF StartStep, StartFails, StartValidated, StartCleared, StartTracked, PipelineSpawns,
        StartRegistered, StartRefused, StartTornDown, slot, Handler
  <2>5. ASSUME NEW r \in Relay, NEW h \in Restart, RestartStep(h, r)
        PROVE  takeover = "idle" /\ currentStreamer # Human
    BY <1>1, <2>1, <2>5
    DEF RestartStep, RestartKilled, RestartAbandoned, RestartProceeds, PipelineSpawns,
        RestartRegistered, RestartFails, slot, Handler
  <2>6. ASSUME NEW r \in Relay,
               ReconnectStep(r) \/ RefreshFetched(r) \/ JanitorStep(r) \/ HealthCheckClears(r)
                 \/ StaleReport(r)
        PROVE  FALSE
    BY <1>1, <2>6, RelayAssumption
    DEF ReconnectStep, ReconnectSuperseded, ReconnectEnded, RefreshFetched, JanitorStep,
        JanitorDeletes, JanitorFails, JanitorClears, HealthCheckClears, StaleReport, slot
  <2>7. ASSUME NEW p \in dying, EncoderTerminates(p) PROVE FALSE
    BY <1>1, <2>7 DEF EncoderTerminates, Exits, slot
  <2>8. CASE UNCHANGED vars
    BY <1>1, <2>8 DEF vars, slot
  <2> QED
    BY <1>1, <2>2, <2>3, <2>4, <2>5, <2>6, <2>7, <2>8 DEF Next
<1>2. TypeOK /\ [Next]_vars =>
        [currentStreamer' \in Relay /\ currentStreamer' # currentStreamer
           => takeover = "idle" /\ currentStreamer # Human]_vars
  BY <1>1
<1> QED
  BY <1>2, RelayTypeCorrect, PTL DEF Spec, RelaysYieldToHumans

LEMMA OwnInit == Init => RelaysOwnEncoders
<1> SUFFICES ASSUME Init, NEW r \in Relay PROVE Owns(r)
  BY DEF RelaysOwnEncoders
<1> QED
  BY DEF Init, Owns, Untracked, Replacing, Open, Of, Handler, Restart

LEMMA OwnInv == Spec => []RelaysOwnEncoders
<1>1. IInv /\ RelaysOwnEncoders /\ [Next]_vars => RelaysOwnEncoders'
  BY InvParts, OwnStep
<1> QED
  BY <1>1, OwnInit, RelayInv, PTL DEF Spec

\* However often StreamReconnector restarted a relay, and whatever starts,
\* janitors and takeovers ran beside it: when its calls are over it has one
\* encoder at most, and stopping the relay reaches it.  (Token refreshes of Kick
\* relays escape the reconnect flag and are excepted.)
THEOREM RelaysOwnTheirEncoder == Spec => []SettledRelaysOwnTheirEncoder
<1>1. ASSUME IInv, RelaysOwnEncoders PROVE SettledRelaysOwnTheirEncoder
  <2> SUFFICES ASSUME NEW r \in activeStreams \ KickRelay, Settled(r)
               PROVE  Of(r, running) \subseteq listed /\ Cardinality(Of(r, running)) <= 1
    BY DEF SettledRelaysOwnTheirEncoder
  <2>1. r \in Relay /\ Open(r)
    BY <1>1 DEF IInv, TypeOK, Settled, Open
  <2>2. Of(r, running) \subseteq listed /\ \A p, q \in Of(r, running) : p = q
    BY <1>1, <2>1 DEF RelaysOwnEncoders, Owns
  <2>3. CASE Of(r, running) = {}
    <3>1. Cardinality(Of(r, running)) = 0
      BY <2>3, FS_EmptySet, Zenon
    <3> QED
      BY <2>2, <3>1
  <2>4. CASE Of(r, running) # {}
    <3>1. PICK p : Of(r, running) = {p}
      BY <2>2, <2>4
    <3>2. Cardinality(Of(r, running)) = 1
      BY <3>1, FS_Singleton, Zenon
    <3> QED
      BY <2>2, <3>2
  <2> QED
    BY <2>3, <2>4
<1> QED
  BY <1>1, RelayInv, OwnInv, PTL

\* An entry that was dropped is never put back, neither by the handlers of its
\* relay that are still on their way nor by the readiness poll.
THEOREM DroppedRelaysStayOut ==
  Spec => [][\A r \in Relay : ~Untracked(r) /\ r \notin activeStreams
                                 => r \notin activeStreams']_vars
<1>1. ASSUME [Next]_vars, NEW r \in Relay, r \notin activeStreams, r \in activeStreams'
      PROVE  Untracked(r)
  <2> USE <1>1 DEF service, calls
  <2>1. ASSUME NEW q \in Relay, StartStep(q) PROVE Untracked(r)
    BY <2>1 DEF StartStep, StartFails, StartValidated, StartCleared, StartTracked,
       PipelineSpawns, StartRegistered, StartRefused, StartTornDown, Untracked
  <2>2. ASSUME NEW q \in Relay, NEW h \in Restart, RestartStep(h, q) PROVE FALSE
    BY <2>2 DEF RestartStep, RestartKilled, RestartAbandoned, RestartProceeds, PipelineSpawns,
       RestartRegistered, RestartFails
  <2>3. ASSUME NEW q \in Relay,
               \/ ReconnectStep(q) \/ RefreshFetched(q) \/ JanitorStep(q) \/ NotifyViewers(q)
               \/ HealthCheckClears(q) \/ StaleReport(q)
        PROVE  FALSE
    BY <2>3 DEF ReconnectStep, ReconnectSuperseded, ReconnectEnded, RefreshFetched,
       JanitorStep, JanitorDeletes, JanitorFails, JanitorClears, NotifyViewers,
       HealthCheckClears, StaleReport
  <2>4. CASE CloserStep \/ TakeoverNext
    BY <2>4 DEF CloserStep, CloseKilled, CloseDone, TakeoverNext, TakeoverDenied,
       TakeoverOusts, TakeoverPauses, TakeoverGoesLive, TakeoverEnds
  <2>6. CASE Outside \/ \E p \in dying : EncoderTerminates(p)
    BY <2>6 DEF Outside, StartURLStream, OperatorStops, SourceEnds, HealthReport,
       EncoderCrashes, Exits, EncoderTerminates, TakeoverStarts, HumanLeaves
  <2>5. CASE UNCHANGED vars
    BY <2>5 DEF vars
  <2> QED
    BY <2>1, <2>2, <2>3, <2>4, <2>5, <2>6 DEF Next
<1>2. [Next]_vars =>
        [\A r \in Relay : ~Untracked(r) /\ r \notin activeStreams => r \notin activeStreams']_vars
  BY <1>1
<1> QED
  BY <1>2, PTL DEF Spec

\* startURLStream replaces: whatever interleaves with it, two relays are never in
\* the table at once.
THEOREM OneTrackedRelay == Spec => [](\A q, r \in activeStreams : q = r)
<1>1. Init => OneEntry
  BY DEF Init, OneEntry, Handler
<1>2. IInv /\ OneEntry /\ [Next]_vars => OneEntry'
  BY InvParts, EntryStep
<1>3. OneEntry => \A q, r \in activeStreams : q = r
  BY DEF OneEntry
<1> QED
  BY <1>1, <1>2, <1>3, RelayInv, PTL DEF Spec

=============================================================================
