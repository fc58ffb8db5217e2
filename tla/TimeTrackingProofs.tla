------------------------- MODULE TimeTrackingProofs -------------------------
(***************************************************************************)
(* Proofs about TimeTracking, for any tabs, users and addresses.           *)
(***************************************************************************)
EXTENDS TimeTracking, TLAPS

-----------------------------------------------------------------------------
(* Types *)

SessionTypes ==
  /\ viewing \in [Tab -> Someone]
  /\ streaming \in [User -> Tab \cup {NoTab}]
  /\ paid \in [User -> {"none", "viewing", "streaming"}]
  /\ viewEnds \in [Tab -> Nat]
  /\ streamEnds \in [User -> Nat]
  /\ overtaken \subseteq User

SlotTypes ==
  /\ currentStreamer \in Streamer
  /\ streamerRoom \subseteq Tab \cup {Bot}
  /\ viewersRoom \subseteq Tab
  /\ ipUser \in [Address -> Someone]

SectionType ==
  section \in [step : {"free", "checking", "ousting", "ousted", "live",
                       "joined", "logging", "unviewing"},
               tab : Tab \cup {NoTab}, seen : Streamer, user : Someone]

HandlerTypes ==
  /\ joining \in [Tab -> {"no", "live", "dark"}]
  /\ restarting \in [Tab -> Someone]
  /\ SectionType
  /\ stop \in [Tab -> [step : {"idle", "asked", "flushing", "clearing"}, user : Someone]]
  /\ leave \in [Tab -> [step : {"new", "up", "streaming", "viewing",
                                "clearing", "gone"}, user : Someone]]

\* TypeOK by the groups of variables that the actions leave unchanged.
LEMMA TypeGroups ==
  TypeOK <=> SessionTypes /\ SlotTypes /\ HandlerTypes /\ arrivals \in 0..MaxArrivals
BY DEF TypeOK, SessionTypes, SlotTypes, HandlerTypes, SectionType

\* stopRealTimeUpdates leaves the intervals in their types.
LEMMA StopPayingType ==
  ASSUME NEW p \in [User -> {"none", "viewing", "streaming"}], NEW U
  PROVE  StopPaying(p, U) \in [User -> {"none", "viewing", "streaming"}]
BY DEF StopPaying

\* The account of an address is a user or nobody.
LEMMA IpAccountType ==
  ASSUME SlotTypes, NEW t \in Tab
  PROVE  IpAccount(t) \in Someone
BY DEF SlotTypes, IpAccount, Address, Someone

\* startViewingSession leaves the sessions in their types.
LEMMA StartViewingType ==
  ASSUME SessionTypes, NEW T \in SUBSET Tab, NEW f \in [T -> User], NEW live \in BOOLEAN,
         StartViewing(T, f, live)
  PROVE  /\ viewing' \in [Tab -> Someone]
         /\ paid' \in [User -> {"none", "viewing", "streaming"}]
         /\ viewEnds' \in [Tab -> Nat]
         /\ overtaken' \subseteq User
<1>1. paid' \in [User -> {"none", "viewing", "streaming"}]
  BY StopPayingType DEF StartViewing, SessionTypes, StopPaying
<1>2. PICK long \in SUBSET Watched(T) :
        /\ ReplaceViewing(T, f, live, long)
        /\ overtaken' = overtaken \cup (IF live THEN OvertakenViewers(T, f, long) ELSE {})
  BY DEF StartViewing
<1>3. viewing' \in [Tab -> Someone]
  BY <1>2 DEF ReplaceViewing, SessionTypes, Someone
<1>4. viewEnds' \in [Tab -> Nat]
  BY <1>2 DEF ReplaceViewing, SessionTypes
<1>5. overtaken' \subseteq User
  BY <1>2 DEF OvertakenViewers, SessionTypes
<1> QED
  BY <1>1, <1>3, <1>4, <1>5

\* startStreamingSession leaves the sessions in their types.
LEMMA StartStreamingType ==
  ASSUME SessionTypes, NEW u \in User, NEW t \in Tab,
         NEW p \in [User -> {"none", "viewing", "streaming"}],
         StartStreaming(u, t, p)
  PROVE  /\ streaming' \in [User -> Tab \cup {NoTab}]
         /\ paid' \in [User -> {"none", "viewing", "streaming"}]
         /\ streamEnds' \in [User -> Nat]
BY DEF SessionTypes, StartStreaming

\* notifyViewersStreamEnded leaves the sessions in their types.
LEMMA NotifyEndedType ==
  ASSUME SessionTypes, NotifyEnded
  PROVE  /\ viewEnds' \in [Tab -> Nat]
         /\ paid' \in [User -> {"none", "viewing", "streaming"}]
BY StopPayingType DEF SessionTypes, NotifyEnded

-----------------------------------------------------------------------------
(* Type correctness *)

\* The history of arrivals stays within its bound.
LEMMA ArrivalType ==
  ASSUME arrivals \in 0..MaxArrivals, Arrival
  PROVE  arrivals' \in 0..MaxArrivals
BY BoundAssumption DEF Arrival

\* A socket connects.
LEMMA ConnectType ==
  ASSUME TypeOK, NEW t \in Tab, Connect(t)
  PROVE  TypeOK'
<1> USE DEF sessions, slot
<1>1. SessionTypes'
  BY TypeGroups DEF Connect, SessionTypes
<1>2. SlotTypes'
  BY TypeGroups, AccountAssumption DEF Connect, SlotTypes, Address, Someone
<1>3. HandlerTypes'
  BY TypeGroups DEF Connect, HandlerTypes, SectionType, At, Someone
<1> QED
  BY <1>1, <1>2, <1>3, TypeGroups DEF Connect, TypeOK, SessionTypes, SlotTypes, HandlerTypes,
     SectionType

\* The calls nobody awaits and the sweep.
LEMMA EndType ==
  ASSUME TypeOK,
         \/ \E t \in Tab : ViewEndFlushed(t) \/ SweepViewing(t)
         \/ \E u \in User : StreamEndFlushed(u) \/ SweepStreaming(u)
  PROVE  TypeOK'
<1> USE DEF slot, handlers
<1>1. UNCHANGED <<slot, ipUser, handlers, arrivals>>
  BY DEF ViewEndFlushed, SweepViewing, StreamEndFlushed, SweepStreaming
<1>2. SessionTypes'
  <2>1. ASSUME NEW t \in Tab, ViewEndFlushed(t) PROVE SessionTypes'
    BY <2>1, TypeGroups DEF ViewEndFlushed, SessionTypes, Someone
  <2>2. ASSUME NEW t \in Tab, SweepViewing(t) PROVE SessionTypes'
    BY <2>2, TypeGroups DEF SweepViewing, SessionTypes, StopPaying
  <2>3. ASSUME NEW u \in User, StreamEndFlushed(u) PROVE SessionTypes'
    BY <2>3, TypeGroups DEF StreamEndFlushed, SessionTypes
  <2>4. ASSUME NEW u \in User, SweepStreaming(u) PROVE SessionTypes'
    BY <2>4, TypeGroups DEF SweepStreaming, SessionTypes, StopStreamPay, StopPaying
  <2> QED
    BY <2>1, <2>2, <2>3, <2>4
<1> QED
  BY <1>1, <1>2, TypeGroups DEF TypeOK, SessionTypes

\* join-as-viewer and the visits after a sign-in.
LEMMA JoinType ==
  ASSUME TypeOK, NEW t \in Tab, JoinAsViewer(t) \/ JoinDone(t)
  PROVE  TypeOK'
<1> USE DEF sessions, slot
<1>1. CASE JoinAsViewer(t)
  <2>1. joining' \in [Tab -> {"no", "live", "dark"}] /\ viewersRoom' \subseteq Tab
    BY <1>1 DEF TypeOK, JoinAsViewer
  <2>2. arrivals' \in 0..MaxArrivals
    BY <1>1, ArrivalType DEF TypeOK, JoinAsViewer
  <2> QED
    BY <1>1, <2>1, <2>2 DEF TypeOK, JoinAsViewer
<1>2. CASE JoinDone(t)
  <2>1. joining' \in [Tab -> {"no", "live", "dark"}]
    BY <1>2 DEF TypeOK, JoinDone
  <2>2. SessionTypes'
    <3>1. CASE IpAccount(t) = NoUser
      BY <1>2, <3>1, TypeGroups DEF JoinDone, SessionTypes
    <3>2. CASE IpAccount(t) # NoUser
      <4>1. [q \in {t} |-> IpAccount(q)] \in [{t} -> User]
        BY <3>2, IpAccountType, TypeGroups DEF Someone
      <4>2. StartViewing({t}, [q \in {t} |-> IpAccount(q)], joining[t] = "live")
        BY <1>2, <3>2 DEF JoinDone
      <4>3. (joining[t] = "live") \in BOOLEAN /\ {t} \in SUBSET Tab
        OBVIOUS
      <4> QED
        BY <1>2, <4>1, <4>2, <4>3, StartViewingType, TypeGroups DEF JoinDone, SessionTypes
    <3> QED
      BY <3>1, <3>2
  <2> QED
    BY <1>2, <2>1, <2>2 DEF TypeOK, SessionTypes, JoinDone
<1> QED
  BY <1>1, <1>2

\* Signing in.
LEMMA LoginType ==
  ASSUME TypeOK, NEW t \in Tab,
         (\E u \in User : Login(t, u)) \/ LoginVisits(t)
  PROVE  TypeOK'
<1> USE DEF sessions, slot
<1>1. ASSUME NEW u \in User, Login(t, u) PROVE TypeOK'
  <2>1. ipUser' \in [Address -> Someone] /\ restarting' \in [Tab -> Someone]
    BY <1>1 DEF TypeOK, Login, Address, Someone
  <2>2. arrivals' \in 0..MaxArrivals
    BY <1>1, ArrivalType DEF TypeOK, Login
  <2> QED
    BY <1>1, <2>1, <2>2 DEF TypeOK, Login
<1>2. CASE LoginVisits(t)
  <2> DEFINE u == restarting[t]
             watches == t \in viewersRoom /\ streamerRoom # {}
             one == [q \in {t} |-> u]
  <2>1. u \in User /\ one \in [{t} -> User]
    BY <1>2 DEF TypeOK, LoginVisits, Someone
  <2>2. restarting' \in [Tab -> Someone]
    BY <1>2 DEF TypeOK, LoginVisits, Someone
  <2>3. SessionTypes'
    <3>1. CASE StartViewing({t}, one, TRUE) /\ UNCHANGED <<streaming, streamEnds>>
      BY <3>1, <2>1, StartViewingType, TypeGroups DEF SessionTypes
    <3>2. ASSUME NEW long \in SUBSET Watched({t}),
                 IF watches THEN ReplaceViewing({t}, one, TRUE, long)
                            ELSE UNCHANGED <<viewing, viewEnds>>,
                 overtaken' = overtaken \cup Overtaken(u) \cup
                   IF watches THEN OvertakenViewers({t}, one, long) ELSE {},
                 StartStreaming(u, t, StopPaying(paid, IF watches THEN WatchersOf({t}) ELSE {}))
          PROVE  SessionTypes'
      <4>1. viewing' \in [Tab -> Someone] /\ viewEnds' \in [Tab -> Nat]
        BY <3>2, <2>1 DEF TypeOK, ReplaceViewing, Someone
      <4>2. overtaken' \subseteq User
        BY <3>2, <2>1 DEF TypeOK, Overtaken, OvertakenViewers
      <4> QED
        BY <3>2, <2>1, <4>1, <4>2, StopPayingType, StartStreamingType, TypeGroups
        DEF SessionTypes
    <3>3. CASE UNCHANGED sessions
      BY <3>3, TypeGroups DEF SessionTypes
    <3>4. \/ StartViewing({t}, one, TRUE) /\ UNCHANGED <<streaming, streamEnds>>
          \/ \E long \in SUBSET Watched({t}) :
               /\ IF watches THEN ReplaceViewing({t}, one, TRUE, long)
                             ELSE UNCHANGED <<viewing, viewEnds>>
               /\ overtaken' = overtaken \cup Overtaken(u) \cup
                    IF watches THEN OvertakenViewers({t}, one, long) ELSE {}
               /\ StartStreaming(u, t,
                    StopPaying(paid, IF watches THEN WatchersOf({t}) ELSE {}))
          \/ UNCHANGED sessions
      BY <1>2 DEF LoginVisits
    <3> QED
      BY <3>1, <3>2, <3>3, <3>4
  <2> QED
    BY <1>2, <2>2, <2>3 DEF TypeOK, SessionTypes, LoginVisits
<1> QED
  BY <1>1, <1>2

\* request-to-stream; the section has a tab, and a user where it ends or starts
\* a session.
LEMMA SectionStepType ==
  ASSUME TypeOK, HandlersKnowWhom, SectionStep
  PROVE  TypeOK'
<1> USE DEF slot, sessions
<1>0. TypeOK /\ SessionTypes /\ SlotTypes /\ HandlerTypes /\ SectionType
  BY TypeGroups DEF HandlerTypes
<1>1. CASE Oust
  <2>1. SocketAccount(section.seen) \in Someone
    BY <1>1, AccountAssumption DEF Oust, SocketAccount, Someone
  <2>2. SectionType'
    BY <1>0, <1>1, <2>1 DEF Oust, SectionType, Step
  <2>3. paid' \in [User -> {"none", "viewing", "streaming"}]
    BY <1>0, <1>1 DEF Oust, SessionTypes, StopStreamPay, StopPaying
  <2>4. streamerRoom' \subseteq Tab \cup {Bot}
    BY <1>0, <1>1 DEF Oust, SlotTypes
  <2> QED
    BY <1>0, <1>1, <2>2, <2>3, <2>4 DEF Oust, TypeOK, SectionType
<1>2. CASE Ousted
  <2>1. SectionType' /\ streamerRoom' \subseteq Tab \cup {Bot}
    BY <1>0, <1>2 DEF Ousted, SectionType, SlotTypes, Someone
  <2>2. streaming' \in [User -> Tab \cup {NoTab}]
    BY <1>0, <1>2 DEF Ousted, SessionTypes
  <2> QED
    BY <1>0, <1>2, <2>1, <2>2 DEF Ousted, TypeOK, SectionType
<1>3. CASE GoLive
  <2>1. SectionType'
    BY <1>0, <1>3 DEF GoLive, SectionType, Step
  <2>2. currentStreamer' \in Streamer
    BY <1>0, <1>3 DEF GoLive, SectionType, Streamer, NoTab
  <2> QED
    BY <1>0, <1>3, <2>1, <2>2 DEF GoLive, TypeOK, SectionType
<1>4. CASE JoinRoom
  <2>1. SectionType'
    BY <1>0, <1>4 DEF JoinRoom, SectionType, Step
  <2> QED
    BY <1>0, <1>4, <2>1 DEF JoinRoom, TypeOK, SectionType, HandlersKnowWhom
<1>5. CASE ReadAccount
  <2>1. IpAccount(section.tab) \in Someone
    BY <1>0, <1>5, IpAccountType DEF ReadAccount, HandlersKnowWhom
  <2>2. SectionType'
    BY <1>0, <1>5, <2>1 DEF ReadAccount, SectionType, Free, Someone, Streamer
  <2> QED
    BY <1>0, <1>5, <2>2 DEF ReadAccount, TypeOK, SectionType
<1>6. CASE EndOwnViewing
  <2>1. SectionType'
    BY <1>0, <1>6 DEF EndOwnViewing, SectionType, Step
  <2>2. paid' \in [User -> {"none", "viewing", "streaming"}]
    BY <1>0, <1>6, StopPayingType DEF EndOwnViewing, SessionTypes
  <2> QED
    BY <1>0, <1>6, <2>1, <2>2 DEF EndOwnViewing, TypeOK, SectionType
<1>7. CASE StartOwnStreaming
  <2>1. SectionType'
    BY <1>7 DEF StartOwnStreaming, SectionType, Free, Someone, Streamer
  <2>2. SessionTypes'
    <3>1. section.user \in User /\ section.tab \in Tab
      BY <1>7 DEF StartOwnStreaming, HandlersKnowWhom
    <3>2. viewing' \in [Tab -> Someone]
      BY <1>0, <1>7 DEF StartOwnStreaming, SessionTypes, Someone
    <3>3. overtaken' \subseteq User
      BY <1>0, <1>7, <3>1 DEF StartOwnStreaming, Overtaken, SessionTypes
    <3> QED
      BY <1>0, <1>7, <3>1, <3>2, <3>3, StartStreamingType
      DEF StartOwnStreaming, SessionTypes
  <2> QED
    BY <1>0, <1>7, <2>1, <2>2 DEF StartOwnStreaming, TypeOK, SectionType, SessionTypes
<1> QED
  BY <1>1, <1>2, <1>3, <1>4, <1>5, <1>6, <1>7 DEF SectionStep

\* What the takeover knows of its tab and its user.
LEMMA SectionKnows ==
  ASSUME TypeOK, HandlersKnowWhom, SectionStep
  PROVE  HandlersKnowWhom'
<1>0. SectionType /\ SlotTypes
  BY TypeGroups DEF HandlerTypes
<1>1. CASE Oust
  <2>1. SocketAccount(section.seen) \in Someone
    BY <1>1, AccountAssumption DEF Oust, SocketAccount, Someone
  <2> QED
    BY <1>0, <1>1, <2>1 DEF Oust, Step, SectionType, HandlersKnowWhom, Someone
<1>2. CASE Ousted
  BY <1>0, <1>2 DEF Ousted, SectionType, HandlersKnowWhom
<1>3. CASE GoLive
  BY <1>0, <1>3 DEF GoLive, Step, SectionType, HandlersKnowWhom
<1>4. CASE JoinRoom
  BY <1>0, <1>4 DEF JoinRoom, Step, SectionType, HandlersKnowWhom
<1>5. CASE ReadAccount
  <2>1. IpAccount(section.tab) \in Someone
    BY <1>0, <1>5, IpAccountType DEF ReadAccount, HandlersKnowWhom
  <2> QED
    BY <1>0, <1>5, <2>1 DEF ReadAccount, Free, SectionType, HandlersKnowWhom, Someone
<1>6. CASE EndOwnViewing
  BY <1>0, <1>6 DEF EndOwnViewing, Step, SectionType, HandlersKnowWhom
<1>7. CASE StartOwnStreaming
  BY <1>7 DEF StartOwnStreaming, Free, HandlersKnowWhom
<1> QED
  BY <1>1, <1>2, <1>3, <1>4, <1>5, <1>6, <1>7 DEF SectionStep

\* The start of a takeover.
LEMMA TakeoverStartsType ==
  ASSUME TypeOK, NEW t \in Tab, TakeoverStarts(t)
  PROVE  TypeOK' /\ HandlersKnowWhom'
<1> USE DEF slot, sessions
<1>1. SectionType' /\ HandlersKnowWhom'
  BY DEF TypeOK, TakeoverStarts, Free, SectionType, Someone, HandlersKnowWhom
<1>2. arrivals' \in 0..MaxArrivals
  BY ArrivalType DEF TypeOK, TakeoverStarts
<1> QED
  BY <1>1, <1>2 DEF TakeoverStarts, TypeOK, SectionType

\* The streamers that are no people.
LEMMA OtherStreamersType ==
  ASSUME TypeOK, BotGoesLive \/ BotDisconnects \/ RelayGoesLive \/ SlotCleared
  PROVE  TypeOK'
<1> USE DEF slot, sessions, handlers
<1>0. SessionTypes /\ SlotTypes /\ SectionType
  BY TypeGroups DEF HandlerTypes
<1>1. CASE BotGoesLive
  <2> DEFINE T == {t \in Connected \cap viewersRoom : IpAccount(t) # NoUser}
  <2>1. T \in SUBSET Tab
    BY DEF Connected
  <2>2. [t \in T |-> IpAccount(t)] \in [T -> User]
    BY <1>0, <2>1, IpAccountType DEF Someone
  <2>3. StartViewing(T, [t \in T |-> IpAccount(t)], TRUE)
    BY <1>1 DEF BotGoesLive
  <2>4. SessionTypes'
    BY <1>0, <1>1, <2>1, <2>2, <2>3, StartViewingType DEF BotGoesLive, SessionTypes
  <2>5. arrivals' \in 0..MaxArrivals
    BY <1>1, ArrivalType DEF TypeOK, BotGoesLive
  <2> QED
    BY <1>1, <2>4, <2>5 DEF BotGoesLive, TypeOK, SessionTypes, Streamer
<1>2. CASE BotDisconnects
  <2>1. SessionTypes'
    BY <1>0, <1>2, NotifyEndedType DEF BotDisconnects, SessionTypes
  <2> QED
    BY <1>2, <2>1 DEF BotDisconnects, TypeOK, SessionTypes, Streamer
<1>3. CASE RelayGoesLive \/ SlotCleared
  <2>1. arrivals' \in 0..MaxArrivals
    BY <1>3, ArrivalType DEF TypeOK, RelayGoesLive, SlotCleared
  <2> QED
    BY <1>3, <2>1 DEF RelayGoesLive, SlotCleared, TypeOK, Streamer
<1> QED
  BY <1>1, <1>2, <1>3

\* stop-streaming.
LEMMA StopType ==
  ASSUME TypeOK, NEW t \in Tab, StopStreaming(t) \/ StopStep(t)
  PROVE  TypeOK'
<1> USE DEF slot, sessions
<1>0. SessionTypes /\ SlotTypes /\ HandlerTypes
  BY TypeGroups
<1> DEFINE StopTypes ==
      stop \in [Tab -> [step : {"idle", "asked", "flushing", "clearing"}, user : Someone]]
<1>1. CASE StopStreaming(t)
  <2>1. StopTypes'
    BY <1>0, <1>1 DEF StopStreaming, HandlerTypes, At, Someone
  <2>2. arrivals' \in 0..MaxArrivals
    BY <1>1, ArrivalType DEF TypeOK, StopStreaming
  <2> QED
    BY <1>1, <2>1, <2>2 DEF StopStreaming, TypeOK
<1>2. CASE StopEndsSession(t)
  <2>1. StopTypes'
    BY <1>0, <1>2, IpAccountType DEF StopEndsSession, HandlerTypes, At, Someone
  <2>2. paid' \in [User -> {"none", "viewing", "streaming"}]
    BY <1>0, <1>2, StopPayingType DEF StopEndsSession, SessionTypes, StopStreamPay
  <2> QED
    BY <1>2, <2>1, <2>2 DEF StopEndsSession, TypeOK
<1>3. CASE StopFlushed(t)
  <2>1. StopTypes' /\ streaming' \in [User -> Tab \cup {NoTab}]
    BY <1>0, <1>3 DEF StopFlushed, HandlerTypes, SessionTypes, At, Someone
  <2> QED
    BY <1>3, <2>1 DEF StopFlushed, TypeOK
<1>4. CASE StopClears(t)
  <2>1. StopTypes'
    BY <1>0, <1>4 DEF StopClears, HandlerTypes, At, Someone
  <2>2. /\ viewEnds' \in [Tab -> Nat]
        /\ paid' \in [User -> {"none", "viewing", "streaming"}]
    BY <1>0, <1>4, NotifyEndedType DEF StopClears
  <2> QED
    BY <1>4, <2>1, <2>2 DEF StopClears, TypeOK, Streamer
<1> QED
  BY <1>1, <1>2, <1>3, <1>4 DEF StopStep

\* Where a disconnect is.
LeaveTypes ==
  leave \in [Tab -> [step : {"new", "up", "streaming", "viewing", "clearing", "gone"},
                     user : Someone]]

\* The second half of handleUserDisconnect.
LEMMA EndViewingOfType ==
  ASSUME SessionTypes, LeaveTypes, NEW t \in Tab, EndViewingOf(t)
  PROVE  LeaveTypes' /\ paid' \in [User -> {"none", "viewing", "streaming"}]
<1>1. LeaveTypes'
  BY DEF EndViewingOf, Unregister, LeaveTypes, At, Someone
<1> QED
  BY <1>1, StopPayingType DEF EndViewingOf, SessionTypes

\* disconnect.
LEMMA DisconnectType ==
  ASSUME TypeOK, NEW t \in Tab, Disconnect(t) \/ LeaveStep(t)
  PROVE  TypeOK'
<1> USE DEF slot, sessions
<1>0. SessionTypes /\ SlotTypes /\ LeaveTypes
  BY TypeGroups DEF TypeOK, LeaveTypes
<1>1. CASE Disconnect(t)
  <2> DEFINE u == IpAccount(t)
  <2>0. u \in Someone
    BY <1>0, IpAccountType
  <2>1. LeaveTypes' /\ paid' \in [User -> {"none", "viewing", "streaming"}]
    <3>1. CASE u = NoUser
      BY <1>0, <1>1, <3>1 DEF Disconnect, Unregister, LeaveTypes, SessionTypes, At, Someone
    <3>2. CASE u # NoUser /\ streaming[u] = NoTab
      BY <1>0, <1>1, <3>2, EndViewingOfType DEF Disconnect
    <3>3. CASE u # NoUser /\ streaming[u] # NoTab
      <4>1. LeaveTypes'
        BY <1>0, <1>1, <2>0, <3>3 DEF Disconnect, LeaveTypes, At
      <4> QED
        BY <1>0, <1>1, <3>3, <4>1, StopPayingType DEF Disconnect, SessionTypes, StopStreamPay
    <3> QED
      BY <3>1, <3>2, <3>3
  <2>2. streamerRoom' \subseteq Tab \cup {Bot} /\ viewersRoom' \subseteq Tab
    BY <1>0, <1>1 DEF Disconnect, SlotTypes
  <2>3. arrivals' \in 0..MaxArrivals
    BY <1>1, ArrivalType DEF TypeOK, Disconnect
  <2> QED
    BY <1>1, <2>1, <2>2, <2>3 DEF Disconnect, TypeOK, LeaveTypes
<1>2. CASE DisconnectStreamFlushed(t)
  <2>1. streaming' \in [User -> Tab \cup {NoTab}]
    BY <1>0, <1>2 DEF DisconnectStreamFlushed, SessionTypes
  <2>2. LeaveTypes' /\ paid' \in [User -> {"none", "viewing", "streaming"}]
    BY <1>0, <1>2, EndViewingOfType DEF DisconnectStreamFlushed
  <2> QED
    BY <1>2, <2>1, <2>2 DEF DisconnectStreamFlushed, TypeOK, LeaveTypes
<1>3. CASE DisconnectViewFlushed(t)
  <2>1. LeaveTypes' /\ viewing' \in [Tab -> Someone]
    BY <1>0, <1>3 DEF DisconnectViewFlushed, Unregister, LeaveTypes, SessionTypes, At, Someone
  <2> QED
    BY <1>3, <2>1 DEF DisconnectViewFlushed, TypeOK, LeaveTypes
<1>4. CASE DisconnectClears(t)
  <2>1. LeaveTypes'
    BY <1>0, <1>4 DEF DisconnectClears, LeaveTypes, At, Someone
  <2>2. /\ viewEnds' \in [Tab -> Nat]
        /\ paid' \in [User -> {"none", "viewing", "streaming"}]
    BY <1>0, <1>4, NotifyEndedType DEF DisconnectClears
  <2> QED
    BY <1>4, <2>1, <2>2 DEF DisconnectClears, TypeOK, Streamer, LeaveTypes
<1> QED
  BY <1>1, <1>2, <1>3, <1>4 DEF LeaveStep

\* Only the section's own steps and its start change the section.
LEMMA SectionFrame ==
  ASSUME NEW t \in Tab,
         \/ Connect(t) \/ JoinAsViewer(t) \/ JoinDone(t) \/ LoginVisits(t)
         \/ StopStreaming(t) \/ StopStep(t) \/ Disconnect(t) \/ LeaveStep(t)
         \/ ViewEndFlushed(t) \/ SweepViewing(t)
  PROVE  section' = section
BY DEF Connect, JoinAsViewer, JoinDone, LoginVisits, StopStreaming, StopStep, StopEndsSession,
       StopFlushed, StopClears, Disconnect, LeaveStep, DisconnectStreamFlushed,
       DisconnectViewFlushed, DisconnectClears, ViewEndFlushed, SweepViewing, handlers

\* Every step keeps the types and what the takeover knows.
LEMMA TypeStep ==
  ASSUME TypeOK, HandlersKnowWhom, [Next]_vars
  PROVE  TypeOK' /\ HandlersKnowWhom'
<1>1. ASSUME section' = section PROVE HandlersKnowWhom'
  BY <1>1 DEF HandlersKnowWhom
<1>2. ASSUME NEW t \in Tab, Connect(t) \/ JoinAsViewer(t) \/ StopStreaming(t) \/ Disconnect(t)
      PROVE  TypeOK' /\ HandlersKnowWhom'
  BY <1>1, <1>2, SectionFrame, ConnectType, JoinType, StopType, DisconnectType
<1>3. ASSUME NEW t \in Tab, TakeoverStarts(t) PROVE TypeOK' /\ HandlersKnowWhom'
  BY <1>3, TakeoverStartsType
<1>4. ASSUME NEW t \in Tab, NEW u \in User, Login(t, u) PROVE TypeOK' /\ HandlersKnowWhom'
  BY <1>1, <1>4, LoginType DEF Login
<1>5. CASE BotGoesLive \/ BotDisconnects \/ RelayGoesLive \/ SlotCleared
  <2>1. section' = section
    BY <1>5 DEF BotGoesLive, BotDisconnects, RelayGoesLive, SlotCleared, handlers
  <2> QED
    BY <1>1, <1>5, <2>1, OtherStreamersType
<1>6. CASE SectionStep
  BY <1>6, SectionStepType, SectionKnows
<1>7. ASSUME NEW t \in Tab, HandlerStep(t) PROVE TypeOK' /\ HandlersKnowWhom'
  BY <1>1, <1>7, SectionFrame, JoinType, LoginType, StopType, DisconnectType DEF HandlerStep
<1>8. ASSUME NEW t \in Tab, ViewEndFlushed(t) \/ SweepViewing(t)
      PROVE  TypeOK' /\ HandlersKnowWhom'
  BY <1>1, <1>8, SectionFrame, EndType
<1>9. ASSUME NEW u \in User, StreamEndFlushed(u) \/ SweepStreaming(u)
      PROVE  TypeOK' /\ HandlersKnowWhom'
  <2>1. section' = section
    BY <1>9 DEF StreamEndFlushed, SweepStreaming, handlers
  <2> QED
    BY <1>1, <1>9, <2>1, EndType
<1>10. CASE UNCHANGED vars
  BY <1>1, <1>10 DEF vars, sessions, slot, handlers, TypeOK
<1> QED
  BY <1>2, <1>3, <1>4, <1>5, <1>6, <1>7, <1>8, <1>9, <1>10 DEF Next, ServerStep

LEMMA TypeInit == Init => TypeOK /\ HandlersKnowWhom
BY AccountAssumption, BoundAssumption
DEF Init, TypeOK, HandlersKnowWhom, Free, At, Someone, Streamer, NoTab, Address

\* Every state has its type, with TimeTrackingService's sessions of tabs and
\* users and the points at which the handlers of sockets wait.
THEOREM TimeTypeCorrect == Spec => []TypeOK
<1>1. TypeOK /\ HandlersKnowWhom /\ [Next]_vars => (TypeOK /\ HandlersKnowWhom)'
  BY TypeStep
<1> QED
  BY <1>1, TypeInit, PTL DEF Spec

-----------------------------------------------------------------------------
(* Pay *)

\* The pay of a step: kept or stopped, and where it is kept so is its session,
\* with nothing ending it that did not end it before.
PayIsKept ==
  /\ overtaken \subseteq overtaken'
  /\ \A u \in User : paid'[u] = paid[u] \/ paid'[u] = "none"
  /\ \A u \in User : paid'[u] = "streaming" =>
       streaming'[u] = streaming[u] /\ (EndingStream(u)' => EndingStream(u))
  /\ \A u \in User, t \in Tab : paid'[u] = "viewing" /\ viewing[t] = u /\ ~EndingView(t) =>
       viewing'[t] = u /\ ~EndingView(t)'

LEMMA PayKept ==
  ASSUME PayHasASource, PayIsKept
  PROVE  PayHasASource'
BY DEF PayHasASource, PayIsKept

\* Nothing of the sessions changes, and no call that ends one begins.
LEMMA PayFrame ==
  ASSUME UNCHANGED sessions,
         \A t \in Tab : EndingView(t)' => EndingView(t),
         \A u \in User : EndingStream(u)' => EndingStream(u)
  PROVE  PayIsKept
BY DEF PayIsKept, sessions

\* Steps that change neither the sessions nor where a handler waits.
LEMMA QuietPays ==
  ASSUME UNCHANGED <<sessions, section, stop, leave>>
  PROVE  PayIsKept
BY DEF PayIsKept, EndingView, EndingStream, sessions

LEMMA ConnectPays ==
  ASSUME TypeOK, NEW t \in Tab, Connect(t) \/ StopStreaming(t) \/ TakeoverStarts(t)
  PROVE  PayIsKept
<1>1. CASE Connect(t)
  <2>1. \A q \in Tab : leave'[q] = leave[q] \/ leave'[q].step = "up"
    BY <1>1 DEF Connect, TypeOK, At
  <2> QED
    BY <1>1, <2>1, PayFrame DEF Connect, EndingView, EndingStream, sessions, At
<1>2. CASE StopStreaming(t)
  <2>1. \A q \in Tab : stop'[q] = stop[q] \/ stop'[q].step = "asked"
    BY <1>2 DEF StopStreaming, TypeOK, At
  <2> QED
    BY <1>2, <2>1, PayFrame DEF StopStreaming, EndingView, EndingStream, sessions, At
<1>3. CASE TakeoverStarts(t)
  <2>1. section'.step = "checking"
    BY <1>3 DEF TakeoverStarts, Free
  <2> QED
    BY <1>3, <2>1, PayFrame DEF TakeoverStarts, EndingView, EndingStream, sessions
<1> QED
  BY <1>1, <1>2, <1>3

LEMMA EndPays ==
  ASSUME TypeOK,
         \/ \E t \in Tab : ViewEndFlushed(t) \/ SweepViewing(t)
         \/ \E u \in User : StreamEndFlushed(u) \/ SweepStreaming(u)
  PROVE  PayHasASource => PayHasASource'
<1> USE DEF handlers
<1>1. ASSUME NEW t \in Tab, ViewEndFlushed(t) PROVE PayIsKept
  BY <1>1, AccountAssumption DEF ViewEndFlushed, PayIsKept, EndingView, EndingStream, TypeOK
<1>2. ASSUME NEW t \in Tab, SweepViewing(t) PROVE PayIsKept
  BY <1>2 DEF SweepViewing, PayIsKept, EndingView, EndingStream, TypeOK, StopPaying, Someone
<1>3. ASSUME NEW u \in User, StreamEndFlushed(u), PayHasASource PROVE PayHasASource'
  BY <1>3 DEF StreamEndFlushed, PayHasASource, EndingView, EndingStream, TypeOK
<1>4. ASSUME NEW u \in User, SweepStreaming(u) PROVE PayIsKept
  BY <1>4 DEF SweepStreaming, PayIsKept, EndingView, EndingStream, TypeOK, StopStreamPay, StopPaying
<1> QED
  BY <1>1, <1>2, <1>3, <1>4, PayKept

\* The start of viewing sessions: whoever is paid for viewing afterwards has one
\* of them, or kept the pay and with it the session it came from.
LEMMA StartViewingPays ==
  ASSUME TypeOK, PayHasASource, NEW T \in SUBSET Tab, NEW f \in [T -> User], NEW live \in BOOLEAN,
         StartViewing(T, f, live), UNCHANGED <<streaming, streamEnds, section, stop, leave>>
  PROVE  PayHasASource'
<1> DEFINE who == IF live THEN {f[t] : t \in T} ELSE {}
<1>1. PICK long \in SUBSET Watched(T) :
        \E late \in SUBSET {v \in who : \E t \in Watched(T) : viewing[t] = v /\ f[t] # v} :
          /\ ReplaceViewing(T, f, live, long)
          /\ paid' = [v \in User |-> IF v \in who \ late THEN "viewing"
                                     ELSE StopPaying(paid, WatchersOf(T))[v]]
          /\ overtaken' = overtaken \cup (IF live THEN OvertakenViewers(T, f, long) ELSE {})
  BY DEF StartViewing
<1>2. \A u \in User : EndingStream(u)' = EndingStream(u)
  BY DEF EndingStream
<1>3. \A t \in Tab : t \notin long => (EndingView(t)' = EndingView(t))
  BY <1>1 DEF EndingView, ReplaceViewing, TypeOK
<1>4. SUFFICES ASSUME NEW u \in User \ overtaken'
      PROVE  /\ paid'[u] = "streaming" => streaming'[u] # NoTab /\ ~EndingStream(u)'
             /\ paid'[u] = "viewing" => \E t \in Tab : viewing'[t] = u /\ ~EndingView(t)'
  BY DEF PayHasASource
<1>5. u \notin overtaken
  BY <1>1, <1>4
<1>6. ASSUME paid'[u] = "streaming" PROVE streaming'[u] # NoTab /\ ~EndingStream(u)'
  <2>1. paid[u] = "streaming"
    BY <1>1, <1>6 DEF StopPaying
  <2> QED
    BY <1>2, <1>5, <2>1 DEF PayHasASource
<1>7. ASSUME paid'[u] = "viewing" PROVE \E t \in Tab : viewing'[t] = u /\ ~EndingView(t)'
  <2>1. CASE u \in who
    <3>1. PICK t \in T : f[t] = u
      BY <2>1
    <3>2. live
      BY <2>1
    <3>3. t \notin long /\ ~EndingView(t)
      BY <1>1, <1>4, <3>1, <3>2 DEF OvertakenViewers
    <3>4. viewing'[t] = u
      BY <1>1, <3>1, <3>2 DEF ReplaceViewing
    <3> QED
      BY <1>3, <3>3, <3>4
  <2>2. CASE u \notin who
    <3>1. paid[u] = "viewing" /\ u \notin WatchersOf(T)
      BY <1>1, <1>7, <2>2 DEF StopPaying
    <3>2. PICK t \in Tab : viewing[t] = u /\ ~EndingView(t)
      BY <1>5, <3>1 DEF PayHasASource
    <3>3. t \notin T
      BY <3>1, <3>2, AccountAssumption DEF WatchersOf, Watched
    <3>4. viewing'[t] = u
      BY <1>1, <3>2, <3>3 DEF ReplaceViewing, Watched
    <3> QED
      BY <1>1, <1>3, <3>2, <3>3, <3>4 DEF Watched
  <2> QED
    BY <2>1, <2>2
<1> QED
  BY <1>6, <1>7

\* join-as-viewer, and a viewbot that goes live.
LEMMA JoinPays ==
  ASSUME TypeOK, PayHasASource, NEW t \in Tab, JoinDone(t)
  PROVE  PayHasASource'
<1> USE DEF sessions, slot
<1>1. CASE IpAccount(t) = NoUser
  BY <1>1, QuietPays, PayKept DEF JoinDone, sessions, PayIsKept, EndingView, EndingStream
<1>2. CASE IpAccount(t) # NoUser
  <2>1. [q \in {t} |-> IpAccount(q)] \in [{t} -> User]
    BY <1>2, IpAccountType, TypeGroups DEF Someone
  <2>2. StartViewing({t}, [q \in {t} |-> IpAccount(q)], joining[t] = "live")
    BY <1>2 DEF JoinDone
  <2>3. (joining[t] = "live") \in BOOLEAN /\ {t} \in SUBSET Tab
    OBVIOUS
  <2> QED
    BY <2>1, <2>2, <2>3, StartViewingPays DEF JoinDone
<1> QED
  BY <1>1, <1>2

LEMMA OtherStreamersPay ==
  ASSUME TypeOK, PayHasASource, BotGoesLive \/ BotDisconnects \/ RelayGoesLive \/ SlotCleared
  PROVE  PayHasASource'
<1> USE DEF slot, handlers
<1>1. CASE BotGoesLive
  <2> DEFINE T == {t \in Connected \cap viewersRoom : IpAccount(t) # NoUser}
  <2>1. T \in SUBSET Tab
    BY DEF Connected
  <2>2. [t \in T |-> IpAccount(t)] \in [T -> User]
    BY TypeGroups, <2>1, IpAccountType DEF Someone
  <2>3. StartViewing(T, [t \in T |-> IpAccount(t)], TRUE)
    BY <1>1 DEF BotGoesLive
  <2> QED
    BY <1>1, <2>1, <2>2, <2>3, StartViewingPays DEF BotGoesLive
<1>2. CASE BotDisconnects
  BY <1>2, PayKept, AccountAssumption
  DEF BotDisconnects, PayIsKept, NotifyEnded, StopPaying, WatchersOf, Watched, EndingView,
      EndingStream, TypeOK, Someone
<1>3. CASE RelayGoesLive \/ SlotCleared
  BY <1>3, QuietPays, PayKept DEF RelayGoesLive, SlotCleared
<1> QED
  BY <1>1, <1>2, <1>3

\* The visits after a sign-in: a socket in both rooms starts both sessions.
LEMMA LoginPays ==
  ASSUME TypeOK, PayHasASource, NEW t \in Tab, LoginVisits(t)
  PROVE  PayHasASource'
<1> USE DEF sessions, slot
<1> DEFINE u == restarting[t]
           watches == t \in viewersRoom /\ streamerRoom # {}
           one == [q \in {t} |-> u]
<1>0. u \in User /\ one \in [{t} -> User]
  BY DEF TypeOK, LoginVisits, Someone
<1>1. CASE StartViewing({t}, one, TRUE) /\ UNCHANGED <<streaming, streamEnds>>
  BY <1>0, <1>1, StartViewingPays DEF LoginVisits
<1>2. ASSUME NEW long \in SUBSET Watched({t}),
             IF watches THEN ReplaceViewing({t}, one, TRUE, long)
                        ELSE UNCHANGED <<viewing, viewEnds>>,
             overtaken' = overtaken \cup Overtaken(u) \cup
               IF watches THEN OvertakenViewers({t}, one, long) ELSE {},
             StartStreaming(u, t, StopPaying(paid, IF watches THEN WatchersOf({t}) ELSE {}))
      PROVE  PayHasASource'
  <2> DEFINE stopped == IF watches THEN WatchersOf({t}) ELSE {}
  <2>1. SUFFICES ASSUME NEW v \in User \ overtaken'
        PROVE  /\ paid'[v] = "streaming" => streaming'[v] # NoTab /\ ~EndingStream(v)'
               /\ paid'[v] = "viewing" => \E q \in Tab : viewing'[q] = v /\ ~EndingView(q)'
    BY DEF PayHasASource
  <2>2. CASE v = u
    <3>1. streaming[v] = NoTab /\ ~EndingStream(v)
      BY <1>2, <2>1, <2>2 DEF Overtaken
    <3>2. streaming'[v] = t /\ streamEnds'[v] = streamEnds[v] /\ paid'[v] = "streaming"
      BY <1>0, <1>2, <2>2, <3>1 DEF StartStreaming, TypeOK, StopPaying
    <3>3. UNCHANGED <<section, stop, leave>>
      BY DEF LoginVisits
    <3>4. ~EndingStream(v)'
      BY <3>1, <3>2, <3>3 DEF EndingStream
    <3>5. t # NoTab
      BY StreamerAssumption DEF NoTab
    <3> QED
      BY <3>2, <3>4, <3>5
  <2>3. CASE v # u
    <3>1. /\ streaming'[v] = streaming[v] /\ streamEnds'[v] = streamEnds[v]
          /\ paid'[v] = StopPaying(paid, stopped)[v]
      BY <1>0, <1>2, <2>3 DEF StartStreaming, TypeOK, StopPaying
    <3>2. UNCHANGED <<section, stop, leave>>
      BY DEF LoginVisits
    <3>3. paid'[v] = "none" \/ (paid'[v] = paid[v] /\ v \notin stopped)
      <4>1. v \in User
        OBVIOUS
      <4> HIDE DEF stopped
      <4> QED
        BY <3>1, <4>1 DEF StopPaying
    <3>4. v \notin overtaken
      BY <1>2, <2>1
    <3>5. EndingStream(v)' = EndingStream(v)
      BY <3>1, <3>2 DEF EndingStream
    <3>6. ASSUME paid'[v] = "viewing"
          PROVE  \E q \in Tab : viewing'[q] = v /\ ~EndingView(q)'
      <4>1. PICK q \in Tab : viewing[q] = v /\ ~EndingView(q)
        BY <3>3, <3>4, <3>6 DEF PayHasASource
      <4>2. viewing'[q] = v /\ viewEnds'[q] = viewEnds[q]
        <5>1. CASE watches
          <6>1. q # t
            BY <3>3, <3>6, <4>1, <5>1, AccountAssumption DEF WatchersOf, Watched
          <6> QED
            BY <1>2, <4>1, <5>1, <6>1 DEF ReplaceViewing, Watched, TypeOK
        <5>2. CASE ~watches
          BY <1>2, <4>1, <5>2
        <5> QED
          BY <5>1, <5>2
      <4>3. ~EndingView(q)'
        BY <3>2, <4>1, <4>2 DEF EndingView
      <4> QED
        BY <4>2, <4>3
    <3> QED
      BY <3>1, <3>3, <3>4, <3>5, <3>6 DEF PayHasASource
  <2> QED
    BY <2>2, <2>3
<1>3. CASE UNCHANGED sessions
  BY <1>3, QuietPays, PayKept DEF LoginVisits
<1>4. \/ StartViewing({t}, one, TRUE) /\ UNCHANGED <<streaming, streamEnds>>
      \/ \E long \in SUBSET Watched({t}) :
           /\ IF watches THEN ReplaceViewing({t}, one, TRUE, long)
                         ELSE UNCHANGED <<viewing, viewEnds>>
           /\ overtaken' = overtaken \cup Overtaken(u) \cup
                IF watches THEN OvertakenViewers({t}, one, long) ELSE {}
           /\ StartStreaming(u, t,
                StopPaying(paid, IF watches THEN WatchersOf({t}) ELSE {}))
      \/ UNCHANGED sessions
  BY DEF LoginVisits
<1> QED
  BY <1>1, <1>2, <1>3, <1>4

\* request-to-stream: the old session is unpaid before its end is under way,
\* and the new one replaces whatever its user was paid for.
LEMMA SectionPays ==
  ASSUME TypeOK, HandlersKnowWhom, PayHasASource, SectionStep
  PROVE  PayHasASource'
<1> USE DEF slot, sessions
<1>0. SectionType
  BY DEF TypeOK, SectionType
<1>1. CASE Oust
  <2> DEFINE u == SocketAccount(section.seen)
  <2>1. CASE u # NoUser /\ streaming[u] # NoTab
    <3>1. /\ section'.step = "ousting" /\ section'.user = u
          /\ paid' = StopPaying(paid, {u})
          /\ UNCHANGED <<viewing, streaming, viewEnds, streamEnds, overtaken, stop, leave>>
      BY <1>0, <1>1, <2>1 DEF Oust, StopStreamPay, SectionType
    <3> QED
      BY <3>1, PayKept DEF PayIsKept, EndingView, EndingStream, StopPaying
  <2>2. CASE ~(u # NoUser /\ streaming[u] # NoTab)
    <3>1. /\ section'.step = "ousted"
          /\ UNCHANGED <<viewing, streaming, viewEnds, streamEnds, overtaken, stop, leave, paid>>
      BY <1>0, <1>1, <2>2 DEF Oust, Step, SectionType
    <3> QED
      BY <3>1, PayKept DEF PayIsKept, EndingView, EndingStream
  <2> QED
    BY <2>1, <2>2
<1>2. CASE Ousted
  <2>1. /\ section'.step = "ousted"
        /\ streaming' = [streaming EXCEPT ![section.user] = NoTab]
        /\ UNCHANGED <<viewing, viewEnds, streamEnds, overtaken, stop, leave, paid>>
    BY <1>0, <1>2 DEF Ousted, SectionType
  <2>2. EndingStream(section.user) /\ section.step = "ousting"
    BY <1>2 DEF Ousted, EndingStream
  <2>3. ASSUME NEW v \in User \ overtaken, paid[v] = "streaming"
        PROVE  streaming'[v] # NoTab /\ ~EndingStream(v)'
    <3>1. streaming[v] # NoTab /\ ~EndingStream(v)
      BY <2>3 DEF PayHasASource
    <3>2. v # section.user
      BY <2>2, <3>1
    <3> QED
      BY <2>1, <3>1, <3>2 DEF EndingStream, TypeOK
  <2>4. \A q \in Tab : EndingView(q)' = EndingView(q)
    BY <2>1, <2>2 DEF EndingView
  <2> QED
    BY <2>1, <2>3, <2>4 DEF PayHasASource
<1>3. CASE GoLive \/ JoinRoom \/ ReadAccount
  <2>1. /\ section'.step \in {"live", "joined", "free", "logging"}
        /\ UNCHANGED <<sessions, stop, leave>>
    <3>1. CASE GoLive
      BY <1>0, <3>1 DEF GoLive, Step, SectionType
    <3>2. CASE JoinRoom
      BY <1>0, <3>2 DEF JoinRoom, Step, SectionType
    <3>3. CASE ReadAccount
      BY <1>0, <3>3 DEF ReadAccount, Free, SectionType
    <3> QED
      BY <1>3, <3>1, <3>2, <3>3
  <2>2. \A q \in Tab : EndingView(q)' => EndingView(q)
    BY <2>1 DEF EndingView
  <2>3. \A v \in User : EndingStream(v)' => EndingStream(v)
    BY <2>1 DEF EndingStream
  <2> QED
    BY <2>1, <2>2, <2>3, PayFrame, PayKept
<1>4. CASE EndOwnViewing
  <2>1. /\ section'.step = "unviewing" /\ section'.tab = section.tab
        /\ viewing[section.tab] = section.user
        /\ paid' = StopPaying(paid, {section.user})
        /\ UNCHANGED <<viewing, streaming, viewEnds, streamEnds, overtaken, stop, leave>>
    BY <1>0, <1>4 DEF EndOwnViewing, Step, SectionType
  <2> QED
    BY <2>1, PayKept DEF PayIsKept, EndingView, EndingStream, StopPaying
<1>5. CASE StartOwnStreaming
  <2> DEFINE u == section.user
             t == section.tab
  <2>1. u \in User /\ t \in Tab
    BY <1>5 DEF StartOwnStreaming, HandlersKnowWhom
  <2>2. section'.step = "free" /\ UNCHANGED <<viewEnds, stop, leave>>
    BY <1>5 DEF StartOwnStreaming, Free
  <2>3. SUFFICES ASSUME NEW v \in User \ overtaken'
        PROVE  /\ paid'[v] = "streaming" => streaming'[v] # NoTab /\ ~EndingStream(v)'
               /\ paid'[v] = "viewing" => \E q \in Tab : viewing'[q] = v /\ ~EndingView(q)'
    BY DEF PayHasASource
  <2>4. CASE v = u
    <3>1. streaming[v] = NoTab /\ ~EndingStream(v)
      BY <1>5, <2>3, <2>4 DEF StartOwnStreaming, Overtaken
    <3>2. streaming'[v] = t /\ streamEnds'[v] = streamEnds[v] /\ paid'[v] = "streaming"
      BY <1>5, <2>1, <2>4, <3>1 DEF StartOwnStreaming, StartStreaming, TypeOK
    <3>3. ~EndingStream(v)'
      BY <2>2, <3>1, <3>2 DEF EndingStream
    <3>4. t # NoTab
      BY <2>1, StreamerAssumption DEF NoTab
    <3> QED
      BY <3>2, <3>3, <3>4
  <2>5. CASE v # u
    <3>1. /\ streaming'[v] = streaming[v] /\ streamEnds'[v] = streamEnds[v]
          /\ paid'[v] = paid[v] /\ v \notin overtaken
      BY <1>5, <2>1, <2>3, <2>5 DEF StartOwnStreaming, StartStreaming, TypeOK
    <3>2. EndingStream(v)' => EndingStream(v)
      BY <2>2, <3>1 DEF EndingStream
    <3>3. ASSUME NEW q \in Tab, viewing[q] = v, ~EndingView(q)
          PROVE  viewing'[q] = v /\ ~EndingView(q)'
      <4>1. viewing'[q] = viewing[q] \/ (section.step = "unviewing" /\ q = t)
        BY <1>5, <2>1 DEF StartOwnStreaming, TypeOK
      <4> QED
        BY <2>2, <3>3, <4>1 DEF EndingView
    <3> QED
      BY <3>1, <3>2, <3>3 DEF PayHasASource
  <2> QED
    BY <2>4, <2>5
<1> QED
  BY <1>1, <1>2, <1>3, <1>4, <1>5 DEF SectionStep

\* stop-streaming.
LEMMA StopPays ==
  ASSUME TypeOK, PayHasASource, NEW t \in Tab, StopStep(t)
  PROVE  PayHasASource'
<1> USE DEF slot, sessions
<1>1. CASE StopEndsSession(t)
  <2> DEFINE w == IpAccount(t)
  <2>1. CASE w # NoUser /\ streaming[w] # NoTab
    <3>1. /\ stop' = [stop EXCEPT ![t] = At("flushing", w)]
          /\ paid' = StopPaying(paid, {w})
          /\ UNCHANGED <<viewing, streaming, viewEnds, streamEnds, overtaken, section, leave>>
      BY <1>1, <2>1 DEF StopEndsSession, StopStreamPay
    <3>2. ASSUME NEW v \in User, EndingStream(v)' PROVE EndingStream(v) \/ v = w
      BY <3>1, <3>2 DEF EndingStream, At, TypeOK
    <3> HIDE DEF w
    <3> QED
      BY <3>1, <3>2, PayKept DEF PayIsKept, EndingView, StopPaying
  <2>2. CASE ~(w # NoUser /\ streaming[w] # NoTab)
    <3>1. /\ stop' = [stop EXCEPT ![t] = At("clearing", NoUser)]
          /\ UNCHANGED <<sessions, section, leave>>
      BY <1>1, <2>2 DEF StopEndsSession
    <3>2. \A v \in User : EndingStream(v)' => EndingStream(v)
      BY <3>1 DEF EndingStream, At, TypeOK
    <3>3. \A q \in Tab : EndingView(q)' => EndingView(q)
      BY <3>1 DEF EndingView
    <3> QED
      BY <3>1, <3>2, <3>3, PayFrame, PayKept
  <2> QED
    BY <2>1, <2>2
<1>2. CASE StopFlushed(t)
  <2>1. /\ stop' = [stop EXCEPT ![t] = At("clearing", NoUser)]
        /\ streaming' = [streaming EXCEPT ![stop[t].user] = NoTab]
        /\ UNCHANGED <<viewing, viewEnds, streamEnds, overtaken, section, leave, paid>>
    BY <1>2 DEF StopFlushed
  <2>2. stop[t] = At("flushing", stop[t].user)
    BY <1>2 DEF StopFlushed, TypeOK, At
  <2>3. ASSUME NEW v \in User \ overtaken, paid[v] = "streaming"
        PROVE  streaming'[v] # NoTab /\ ~EndingStream(v)'
    <3>1. streaming[v] # NoTab /\ ~EndingStream(v)
      BY <2>3 DEF PayHasASource
    <3>2. v # stop[t].user
      BY <2>2, <3>1 DEF EndingStream
    <3> QED
      BY <2>1, <3>1, <3>2 DEF EndingStream, TypeOK, At
  <2>4. \A q \in Tab : EndingView(q)' = EndingView(q)
    BY <2>1 DEF EndingView
  <2> QED
    BY <2>1, <2>3, <2>4 DEF PayHasASource
<1>3. CASE StopClears(t)
  <2>1. /\ stop' = [stop EXCEPT ![t] = At("idle", NoUser)]
        /\ paid' = StopPaying(paid, WatchersOf(Tab))
        /\ UNCHANGED <<viewing, streaming, streamEnds, overtaken, section, leave>>
    BY <1>3 DEF StopClears, NotifyEnded
  <2>2. \A v \in User : EndingStream(v)' => EndingStream(v)
    BY <2>1 DEF EndingStream, At, TypeOK
  <2> QED
    BY <2>1, <2>2, PayKept, AccountAssumption
    DEF PayIsKept, StopPaying, WatchersOf, Watched
<1> QED
  BY <1>1, <1>2, <1>3 DEF StopStep

\* The second half of handleUserDisconnect, and the step to the end.
LEMMA EndViewingOfPays ==
  ASSUME TypeOK, PayHasASource, NEW t \in Tab, NEW w \in Someone,
         EndViewingOf(t),
         leave[t].step = "up" \/ leave[t] = At("streaming", w),
         \/ UNCHANGED streaming
         \/ leave[t] = At("streaming", w) /\ streaming' = [streaming EXCEPT ![w] = NoTab],
         UNCHANGED <<viewing, viewEnds, streamEnds, overtaken, section, stop>>
  PROVE  PayHasASource'
<1>1. paid' = StopPaying(paid, WatchersOf({t}))
  BY DEF EndViewingOf
<1>2. /\ \A q \in Tab \ {t} : leave'[q] = leave[q]
      /\ leave'[t].step \in {"viewing", "clearing", "gone"}
      /\ viewing[t] = NoUser => leave'[t].step # "viewing"
  BY DEF EndViewingOf, Unregister, At, TypeOK
<1>3. \A v \in User : EndingStream(v)' => EndingStream(v)
  BY <1>2 DEF EndingStream, At
<1>4. ASSUME NEW v \in User \ overtaken, paid'[v] = "streaming"
      PROVE  streaming'[v] # NoTab /\ ~EndingStream(v)'
  <2>1. paid[v] = "streaming"
    BY <1>1, <1>4 DEF StopPaying
  <2>2. streaming[v] # NoTab /\ ~EndingStream(v)
    BY <2>1 DEF PayHasASource
  <2>3. streaming'[v] = streaming[v]
    BY <2>2 DEF EndingStream, TypeOK
  <2> QED
    BY <1>3, <2>2, <2>3
<1>5. ASSUME NEW v \in User \ overtaken, paid'[v] = "viewing"
      PROVE  \E q \in Tab : viewing'[q] = v /\ ~EndingView(q)'
  <2>1. paid[v] = "viewing" /\ v \notin WatchersOf({t})
    BY <1>1, <1>5 DEF StopPaying
  <2>2. PICK q \in Tab : viewing[q] = v /\ ~EndingView(q)
    BY <2>1 DEF PayHasASource
  <2>3. q # t
    BY <2>1, <2>2, AccountAssumption DEF WatchersOf, Watched
  <2> QED
    BY <1>2, <2>2, <2>3 DEF EndingView
<1> QED
  BY <1>4, <1>5 DEF PayHasASource

\* disconnect.
LEMMA DisconnectPays ==
  ASSUME TypeOK, PayHasASource, NEW t \in Tab, Disconnect(t) \/ LeaveStep(t)
  PROVE  PayHasASource'
<1> USE DEF slot, sessions
<1>1. CASE Disconnect(t)
  <2> DEFINE w == IpAccount(t)
  <2>0. /\ leave[t].step = "up" /\ w \in Someone
        /\ UNCHANGED <<viewing, streaming, viewEnds, streamEnds, overtaken, section, stop>>
    BY <1>1, IpAccountType, TypeGroups DEF Disconnect, Connected
  <2>1. CASE w = NoUser
    <3>1. /\ UNCHANGED sessions
          /\ \A q \in Tab : leave'[q] = leave[q] \/ leave'[q].step \in {"clearing", "gone"}
      BY <1>1, <2>0, <2>1 DEF Disconnect, Unregister, At, TypeOK
    <3>2. \A v \in User : EndingStream(v)' => EndingStream(v)
      BY <2>0, <3>1 DEF EndingStream, At
    <3>3. \A q \in Tab : EndingView(q)' => EndingView(q)
      BY <2>0, <3>1 DEF EndingView
    <3> QED
      BY <3>1, <3>2, <3>3, PayFrame, PayKept
  <2>2. CASE w # NoUser /\ streaming[w] = NoTab
    BY <1>1, <2>0, <2>2, EndViewingOfPays DEF Disconnect
  <2>3. CASE w # NoUser /\ streaming[w] # NoTab
    <3>1. /\ leave' = [leave EXCEPT ![t] = At("streaming", w)]
          /\ paid' = StopPaying(paid, {w})
      BY <1>1, <2>3 DEF Disconnect, StopStreamPay
    <3>2. ASSUME NEW v \in User, EndingStream(v)' PROVE EndingStream(v) \/ v = w
      BY <2>0, <3>1, <3>2 DEF EndingStream, At, TypeOK
    <3>3. \A q \in Tab : EndingView(q)' => EndingView(q)
      BY <2>0, <3>1 DEF EndingView, At, TypeOK
    <3> HIDE DEF w
    <3> QED
      BY <2>0, <3>1, <3>2, <3>3, PayKept DEF PayIsKept, StopPaying
  <2> QED
    BY <2>1, <2>2, <2>3
<1>2. CASE DisconnectStreamFlushed(t)
  <2>1. leave[t] = At("streaming", leave[t].user) /\ leave[t].user \in Someone
    BY <1>2 DEF DisconnectStreamFlushed, TypeOK, At
  <2> QED
    BY <1>2, <2>1, EndViewingOfPays DEF DisconnectStreamFlushed
<1>3. CASE DisconnectViewFlushed(t)
  <2>1. /\ viewing' = [viewing EXCEPT ![t] = NoUser]
        /\ \A q \in Tab : leave'[q] = leave[q] \/ leave'[q].step \in {"clearing", "gone"}
        /\ UNCHANGED <<streaming, paid, viewEnds, streamEnds, overtaken, section, stop>>
    BY <1>3 DEF DisconnectViewFlushed, Unregister, At, TypeOK
  <2>2. EndingView(t)
    BY <1>3 DEF DisconnectViewFlushed, EndingView
  <2>3. \A v \in User : EndingStream(v)' => EndingStream(v)
    BY <2>1 DEF EndingStream, At
  <2>4. \A q \in Tab : EndingView(q)' => EndingView(q)
    BY <2>1 DEF EndingView
  <2>5. \A q \in Tab : ~EndingView(q) => viewing'[q] = viewing[q]
    BY <2>1, <2>2 DEF TypeOK
  <2> QED
    BY <2>1, <2>3, <2>4, <2>5, PayKept DEF PayIsKept
<1>4. CASE DisconnectClears(t)
  <2>1. /\ \A q \in Tab : leave'[q] = leave[q] \/ leave'[q].step = "gone"
        /\ paid' = StopPaying(paid, WatchersOf(Tab))
        /\ UNCHANGED <<viewing, streaming, streamEnds, overtaken, section, stop>>
    BY <1>4 DEF DisconnectClears, NotifyEnded, At, TypeOK
  <2>2. \A v \in User : EndingStream(v)' => EndingStream(v)
    BY <2>1 DEF EndingStream, At, TypeOK
  <2> QED
    BY <2>1, <2>2, PayKept, AccountAssumption
    DEF PayIsKept, StopPaying, WatchersOf, Watched
<1> QED
  BY <1>1, <1>2, <1>3, <1>4 DEF LeaveStep

\* Every step leaves pay its source.
LEMMA PayStep ==
  ASSUME TypeOK, HandlersKnowWhom, PayHasASource, [Next]_vars
  PROVE  PayHasASource'
<1>1. ASSUME NEW t \in Tab, Connect(t) \/ StopStreaming(t) \/ TakeoverStarts(t)
      PROVE  PayHasASource'
  BY <1>1, ConnectPays, PayKept
<1>2. ASSUME NEW t \in Tab, JoinAsViewer(t) PROVE PayHasASource'
  BY <1>2, QuietPays, PayKept DEF JoinAsViewer
<1>3. ASSUME NEW t \in Tab, NEW u \in User, Login(t, u) PROVE PayHasASource'
  BY <1>3, QuietPays, PayKept DEF Login
<1>4. ASSUME NEW t \in Tab, Disconnect(t) PROVE PayHasASource'
  BY <1>4, DisconnectPays
<1>5. CASE BotGoesLive \/ BotDisconnects \/ RelayGoesLive \/ SlotCleared
  BY <1>5, OtherStreamersPay
<1>6. CASE SectionStep
  BY <1>6, SectionPays
<1>7. ASSUME NEW t \in Tab, HandlerStep(t) PROVE PayHasASource'
  BY <1>7, JoinPays, LoginPays, StopPays, DisconnectPays DEF HandlerStep
<1>8. ASSUME NEW t \in Tab, ViewEndFlushed(t) \/ SweepViewing(t) PROVE PayHasASource'
  BY <1>8, EndPays
<1>9. ASSUME NEW u \in User, StreamEndFlushed(u) \/ SweepStreaming(u) PROVE PayHasASource'
  BY <1>9, EndPays
<1>10. CASE UNCHANGED vars
  BY <1>10, QuietPays, PayKept DEF vars, handlers
<1> QED
  BY <1>1, <1>2, <1>3, <1>4, <1>5, <1>6, <1>7, <1>8, <1>9, <1>10 DEF Next, ServerStep

\* What the intervals of TimeTrackingService pay for is a session that no call
\* is ending, and the takeover knows its tab and its user.
THEOREM PayFollowsSessions == Spec => []Inductive
<1>1. Init => TypeOK /\ Inductive
  BY TypeInit DEF Init, Inductive, PayHasASource
<1>2. TypeOK /\ Inductive /\ [Next]_vars => (TypeOK /\ Inductive)'
  BY TypeStep, PayStep DEF Inductive
<1> QED
  BY <1>1, <1>2, PTL DEF Spec

\* Whoever sendRealTimeUpdate pays has a session of that kind, or had one
\* started while its predecessor was being ended.
THEOREM NobodyIsPaidForNothing == Spec => []PaidUsersHaveSessions
<1>1. TypeOK /\ Inductive => PaidUsersHaveSessions
  BY DEF TypeOK, Inductive, PayHasASource, PaidUsersHaveSessions, Has
<1> QED
  BY <1>1, TimeTypeCorrect, PayFollowsSessions, PTL

=============================================================================
