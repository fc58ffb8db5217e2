---------------------------- MODULE SessionProofs ----------------------------
(***************************************************************************)
(* Proofs about TimeTracking: a person alone at their address keeps the    *)
(* streaming session while they hold the slot, and loses it with the slot. *)
(*                                                                         *)
(* The server finds the user of a session by the address of the socket, in *)
(* calls that read it long before they use it.  So the invariant says that *)
(* whoever acts for such a person is their own tab: its address, the calls *)
(* that end a session, the takeover, and the session itself.               *)
(***************************************************************************)
EXTENDS TimeTrackingProofs

-----------------------------------------------------------------------------
(* The invariant *)

\* The address of a person alone there is linked to them, and no other is.
AddressesMatch ==
  /\ \A i \in Address, t \in Tab :
       ipUser[i] \in Solo /\ Account[t] = ipUser[i] => Ip[t] = i
  /\ \A t \in Registered : Account[t] \in Solo => ipUser[Ip[t]] = Account[t]

\* Only their own tab ends their session.
CallsMatch ==
  \A t \in Tab :
    /\ restarting[t] \notin Solo
    /\ stop[t].user \in Solo => Account[t] = stop[t].user
    /\ leave[t].user \in Solo => Account[t] = leave[t].user

\* A socket that never connected is nobody's streamer.
NewTabsAreUnknown ==
  \A t \in Tab :
    leave[t].step = "new" => t # currentStreamer /\ t # section.tab /\ t # section.seen

\* The slot during a takeover, and whose session it ends and starts.
SectionMatches ==
  /\ section.step = "free" => section = Free
  /\ section.step \in {"checking", "ousting", "ousted"} =>
       currentStreamer \in {section.seen, NoStreamer}
  /\ section.step \in {"live", "joined", "logging", "unviewing"} =>
       currentStreamer \in {section.tab, NoStreamer}
  /\ section.step = "ousting" =>
       section.seen \in Tab /\ section.user = Account[section.seen]
  /\ section.user \in Solo =>
       \/ section.step = "ousting"
       \/ section.step \in {"logging", "unviewing"} /\ Account[section.tab] = section.user
  /\ section.step \in {"logging", "unviewing"} /\ Account[section.tab] \in Solo =>
       section.user = Account[section.tab]

\* They stream from their own tab; the one a takeover has ousted does not.
SessionsMatch ==
  \A u \in Solo :
    /\ streaming[u] # NoTab => Account[streaming[u]] = u
    /\ /\ section.step \in {"ousted", "live", "joined", "logging", "unviewing"}
       /\ section.seen \in Registered /\ Account[section.seen] = u
       => streaming[u] = NoTab

\* The takeover has brought t to the room, or is over.
Arrived(t) ==
  section = Free \/ (section.tab = t /\ section.step \in {"joined", "logging", "unviewing"})

StreamersAreInTheRoom ==
  \A t \in Connected : currentStreamer = t /\ Arrived(t) => t \in streamerRoom

Streams(t) == streaming[Account[t]] = t /\ ~EndingStream(Account[t])

StreamersStream ==
  \A t \in Connected :
    /\ currentStreamer = t /\ section = Free /\ stop[t].step = "idle"
    /\ Account[t] \in Solo \ overtaken
    => Streams(t)

SlotInv ==
  /\ NewTabsAreUnknown /\ SectionMatches /\ SessionsMatch
  /\ StreamersAreInTheRoom /\ StreamersStream

SoloInv == AddressesMatch /\ CallsMatch /\ SlotInv

-----------------------------------------------------------------------------
(* People alone at their address *)

\* They have one tab, and no other tab its address.
LEMMA SoloAlone ==
  ASSUME NEW t \in Tab, Account[t] \in Solo
  PROVE  \A q \in Tab : q = t \/ (Account[q] # Account[t] /\ Ip[q] # Ip[t])
BY DEF Solo

LEMMA SoloUsers ==
  /\ \A u \in Solo : u \in User /\ u # NoUser /\ \E t \in Tab : Account[t] = u
  /\ NoUser \notin Solo
BY AccountAssumption DEF Solo

\* Whoever the address of a socket says is such a person owns the socket.
LEMMA AddressIsTheirs ==
  ASSUME TypeOK, AddressesMatch, NEW q \in Tab, IpAccount(q) \in Solo
  PROVE  Account[q] = IpAccount(q)
<1>1. IpAccount(q) = ipUser[Ip[q]] /\ Ip[q] \in Address
  BY SoloUsers DEF IpAccount, Address
<1>2. PICK t \in Tab : Account[t] = IpAccount(q)
  BY SoloUsers
<1>3. Ip[t] = Ip[q]
  BY <1>1, <1>2 DEF AddressesMatch
<1> QED
  BY <1>2, <1>3, SoloAlone

\* The address of their socket says who they are, or nothing.
LEMMA AddressIsKnown ==
  ASSUME AddressesMatch, NEW t \in Tab, Account[t] \in Solo,
         t \in Registered \/ IpAccount(t) # NoUser
  PROVE  IpAccount(t) = Account[t]
<1>1. t \in Registered
  BY SoloAlone DEF IpAccount, Registered
<1> QED
  BY <1>1 DEF AddressesMatch, IpAccount, Registered

-----------------------------------------------------------------------------
(* Who comes and goes *)

\* No socket connects.
NobodyComes ==
  \A q \in Tab :
    /\ leave'[q].step = "new" => leave[q].step = "new"
    /\ q \in Registered' => q \in Registered
    /\ q \in Connected' => q \in Connected

\* A disconnect concerns its own socket, and the user of its address.
LEMMA LeaveMoves ==
  ASSUME TypeOK, NEW t \in Tab, Disconnect(t) \/ LeaveStep(t)
  PROVE  /\ NobodyComes
         /\ \A q \in Tab \ {t} : leave'[q] = leave[q]
         /\ t \notin Connected'
         /\ \/ leave'[t].step = "streaming" /\ leave'[t].user = IpAccount(t)
            \/ leave'[t].step # "streaming" /\ leave'[t].user = NoUser
<1>0. leave \in [Tab -> [step : {"new", "up", "streaming", "viewing", "clearing", "gone"},
                          user : Someone]]
  BY DEF TypeOK
<1>1. CASE Disconnect(t)
  <2>1. leave[t].step = "up"
    BY <1>1 DEF Disconnect, Connected
  <2>2. \/ leave' = [leave EXCEPT ![t] = At("streaming", IpAccount(t))]
        \/ \E s \in {"viewing", "clearing", "gone"} :
             leave' = [leave EXCEPT ![t] = At(s, NoUser)]
    BY <1>1 DEF Disconnect, EndViewingOf, Unregister
  <2> QED
    BY <1>0, <2>1, <2>2 DEF NobodyComes, At, Registered, Connected
<1>2. CASE LeaveStep(t)
  <2>1. leave[t].step \in {"streaming", "viewing", "clearing"}
    BY <1>2 DEF LeaveStep, DisconnectStreamFlushed, DisconnectViewFlushed, DisconnectClears
  <2>2. \E s \in {"viewing", "clearing", "gone"} :
          leave' = [leave EXCEPT ![t] = At(s, NoUser)]
    BY <1>2 DEF LeaveStep, DisconnectStreamFlushed, DisconnectViewFlushed, DisconnectClears,
                EndViewingOf, Unregister
  <2>3. leave'[t].step = "viewing" => leave[t].step = "streaming"
    BY <1>0, <1>2 DEF LeaveStep, DisconnectStreamFlushed, DisconnectViewFlushed,
                DisconnectClears, EndViewingOf, Unregister, At
  <2> QED
    BY <1>0, <2>1, <2>2, <2>3 DEF NobodyComes, Registered, Connected, At
<1> QED
  BY <1>1, <1>2

\* The end of a streaming session by stop-streaming concerns its own socket,
\* and the user of its address.
LEMMA StopMoves ==
  ASSUME TypeOK, NEW t \in Tab, StopStreaming(t) \/ StopStep(t)
  PROVE  /\ \A q \in Tab \ {t} : stop'[q] = stop[q]
         /\ \/ stop'[t].step = "flushing" /\ stop'[t].user = IpAccount(t)
            \/ stop'[t].step # "flushing" /\ stop'[t].user = NoUser
         /\ stop'[t].step = "idle" => currentStreamer' = NoStreamer
<1>1. \/ stop' = [stop EXCEPT ![t] = At("flushing", IpAccount(t))]
      \/ \E s \in {"asked", "clearing"} : stop' = [stop EXCEPT ![t] = At(s, NoUser)]
      \/ stop' = [stop EXCEPT ![t] = At("idle", NoUser)] /\ currentStreamer' = NoStreamer
  BY DEF StopStreaming, StopStep, StopEndsSession, StopFlushed, StopClears
<1> QED
  BY <1>1 DEF At, TypeOK

\* What every other action leaves alone.
LEMMA CallsFrame ==
  ASSUME \/ \E t \in Tab : \/ TakeoverStarts(t) \/ JoinAsViewer(t) \/ JoinDone(t)
                           \/ ViewEndFlushed(t) \/ SweepViewing(t)
         \/ \E u \in User : StreamEndFlushed(u) \/ SweepStreaming(u)
         \/ SectionStep
         \/ BotGoesLive \/ BotDisconnects \/ RelayGoesLive \/ SlotCleared
         \/ UNCHANGED vars
  PROVE  UNCHANGED <<ipUser, restarting, stop, leave>>
<1> USE DEF handlers
<1>1. ASSUME NEW t \in Tab,
             \/ TakeoverStarts(t) \/ JoinAsViewer(t) \/ JoinDone(t)
             \/ ViewEndFlushed(t) \/ SweepViewing(t)
      PROVE  UNCHANGED <<ipUser, restarting, stop, leave>>
  <2>1. CASE JoinDone(t)
    BY <2>1 DEF JoinDone
  <2>2. CASE ViewEndFlushed(t) \/ SweepViewing(t)
    BY <2>2 DEF ViewEndFlushed, SweepViewing
  <2>3. CASE TakeoverStarts(t)
    <3>1. UNCHANGED <<sessions, slot, ipUser, joining, restarting, stop, leave>>
      BY <2>3, Zenon DEF TakeoverStarts
    <3> QED
      BY <3>1
  <2>4. CASE JoinAsViewer(t)
    BY <2>4 DEF JoinAsViewer
  <2> QED
    BY <1>1, <2>1, <2>2, <2>3, <2>4
<1>2. ASSUME NEW u \in User, StreamEndFlushed(u) \/ SweepStreaming(u)
      PROVE  UNCHANGED <<ipUser, restarting, stop, leave>>
  BY <1>2 DEF StreamEndFlushed, SweepStreaming
<1>3. CASE SectionStep
  BY <1>3 DEF SectionStep, Oust, Ousted, GoLive, JoinRoom, ReadAccount, EndOwnViewing,
              StartOwnStreaming
<1>4. CASE BotGoesLive \/ BotDisconnects \/ RelayGoesLive \/ SlotCleared
  BY <1>4 DEF BotGoesLive, BotDisconnects, RelayGoesLive, SlotCleared
<1> QED
  BY <1>1, <1>2, <1>3, <1>4 DEF vars

-----------------------------------------------------------------------------
(* Addresses and calls *)

LEMMA AddressesKept ==
  ASSUME AddressesMatch, ipUser' = ipUser, Registered' \subseteq Registered
  PROVE  AddressesMatch'
BY DEF AddressesMatch

\* A socket connects: its address is linked to its token's user, or to nobody.
LEMMA ConnectMatches ==
  ASSUME TypeOK, AddressesMatch, NEW t \in Tab, Connect(t)
  PROVE  AddressesMatch'
<1>1. ipUser' = [ipUser EXCEPT ![Ip[t]] = Account[t]] /\ Ip[t] \in Address
  BY DEF Connect, Address
<1>2. \A q \in Registered' : q = t \/ q \in Registered
  BY DEF Connect, Registered, TypeOK
<1>3. \A i \in Address : ipUser'[i] = IF i = Ip[t] THEN Account[t] ELSE ipUser[i]
  BY <1>1 DEF TypeOK
<1>4. ASSUME NEW i \in Address, NEW q \in Tab, ipUser'[i] \in Solo, Account[q] = ipUser'[i]
      PROVE  Ip[q] = i
  <2>1. CASE i = Ip[t]
    BY <1>3, <1>4, <2>1, SoloAlone
  <2>2. CASE i # Ip[t]
    BY <1>3, <1>4, <2>2 DEF AddressesMatch
  <2> QED
    BY <2>1, <2>2
<1>5. ASSUME NEW q \in Registered', Account[q] \in Solo PROVE ipUser'[Ip[q]] = Account[q]
  <2>1. q \in Tab /\ Ip[q] \in Address
    BY DEF Registered, Address
  <2>2. CASE q = t
    BY <1>3, <2>1, <2>2
  <2>3. CASE q # t
    <3>1. Ip[q] # Ip[t]
      BY <1>5, <2>1, <2>3, SoloAlone
    <3> QED
      BY <1>2, <1>3, <1>5, <2>1, <2>3, <3>1 DEF AddressesMatch
  <2> QED
    BY <2>2, <2>3
<1> QED
  BY <1>4, <1>5 DEF AddressesMatch

\* A sign-in links an address without a user, so not that of such a person.
LEMMA LoginMatches ==
  ASSUME TypeOK, AddressesMatch, NEW t \in Tab, NEW u \in User \ Solo, Login(t, u)
  PROVE  AddressesMatch'
<1>1. /\ ipUser' = [ipUser EXCEPT ![Ip[t]] = u] /\ Ip[t] \in Address
      /\ ipUser[Ip[t]] = NoUser /\ Registered' = Registered
  BY DEF Login, Address, Registered
<1>2. \A i \in Address : ipUser'[i] = IF i = Ip[t] THEN u ELSE ipUser[i]
  BY <1>1 DEF TypeOK
<1>3. ASSUME NEW q \in Registered, Account[q] \in Solo PROVE ipUser'[Ip[q]] = Account[q]
  <2>1. Ip[q] \in Address /\ ipUser[Ip[q]] = Account[q]
    BY <1>3 DEF AddressesMatch, Registered, Address
  <2> QED
    BY <1>1, <1>2, <1>3, <2>1, SoloUsers
<1> QED
  BY <1>1, <1>2, <1>3 DEF AddressesMatch

LEMMA AddressesStep ==
  ASSUME TypeOK, AddressesMatch, [Next]_vars
  PROVE  AddressesMatch'
<1>1. ASSUME UNCHANGED <<ipUser, leave>> PROVE AddressesMatch'
  BY <1>1, AddressesKept DEF Registered
<1>2. ASSUME NEW t \in Tab, Connect(t) PROVE AddressesMatch'
  BY <1>2, ConnectMatches
<1>3. ASSUME NEW t \in Tab, NEW u \in User \ Solo, Login(t, u) PROVE AddressesMatch'
  BY <1>3, LoginMatches
<1>4. ASSUME NEW t \in Tab, Disconnect(t) \/ LeaveStep(t) PROVE AddressesMatch'
  <2>1. ipUser' = ipUser
    BY <1>4 DEF Disconnect, LeaveStep, DisconnectStreamFlushed, DisconnectViewFlushed,
                DisconnectClears
  <2> QED
    BY <1>4, <2>1, LeaveMoves, AddressesKept DEF NobodyComes, Registered
<1>5. ASSUME NEW t \in Tab, StopStreaming(t) \/ StopStep(t) \/ LoginVisits(t)
      PROVE  AddressesMatch'
  BY <1>1, <1>5 DEF StopStreaming, StopStep, StopEndsSession, StopFlushed, StopClears, LoginVisits
<1>6. ASSUME UNCHANGED vars PROVE AddressesMatch'
  BY <1>1, <1>6 DEF vars, handlers
<1> QED
  BY <1>1, <1>2, <1>3, <1>4, <1>5, <1>6, CallsFrame
  DEF Next, ServerStep, HandlerStep

LEMMA CallsStep ==
  ASSUME TypeOK, AddressesMatch, CallsMatch, [Next]_vars
  PROVE  CallsMatch'
<1>1. ASSUME UNCHANGED <<restarting, stop, leave>> PROVE CallsMatch'
  BY <1>1 DEF CallsMatch
<1>2. ASSUME NEW t \in Tab, Connect(t) PROVE CallsMatch'
  BY <1>2, SoloUsers DEF Connect, CallsMatch, At, TypeOK
<1>3. ASSUME NEW t \in Tab, NEW u \in User \ Solo, Login(t, u) PROVE CallsMatch'
  BY <1>3 DEF Login, CallsMatch
<1>4. ASSUME NEW t \in Tab, Disconnect(t) \/ LeaveStep(t) PROVE CallsMatch'
  <2>1. UNCHANGED <<restarting, stop>>
    BY <1>4 DEF Disconnect, LeaveStep, DisconnectStreamFlushed, DisconnectViewFlushed,
                DisconnectClears
  <2>2. leave'[t].user \in Solo => Account[t] = leave'[t].user
    BY <1>4, LeaveMoves, AddressIsTheirs, SoloUsers
  <2> QED
    BY <1>4, <2>1, <2>2, LeaveMoves DEF CallsMatch
<1>5. ASSUME NEW t \in Tab, StopStreaming(t) \/ StopStep(t) PROVE CallsMatch'
  <2>1. UNCHANGED <<restarting, leave>>
    BY <1>5 DEF StopStreaming, StopStep, StopEndsSession, StopFlushed, StopClears
  <2>2. stop'[t].user \in Solo => Account[t] = stop'[t].user
    BY <1>5, StopMoves, AddressIsTheirs, SoloUsers
  <2> QED
    BY <1>5, <2>1, <2>2, StopMoves DEF CallsMatch
<1>6. ASSUME NEW t \in Tab, LoginVisits(t) PROVE CallsMatch'
  BY <1>6, SoloUsers DEF LoginVisits, CallsMatch, TypeOK
<1>7. ASSUME UNCHANGED vars PROVE CallsMatch'
  BY <1>1, <1>7 DEF vars, handlers
<1> QED
  BY <1>1, <1>2, <1>3, <1>4, <1>5, <1>6, <1>7, CallsFrame
  DEF Next, ServerStep, HandlerStep

-----------------------------------------------------------------------------
(* Steps outside the takeover *)

\* What they may do to it, to the slot and to the sessions of people alone at
\* their address: nobody but Connect brings a socket, a running takeover finds
\* the slot as it was or empty, and a streamer who stays keeps room and session.
StaysOut ==
  /\ section' = section
  /\ \A t \in Tab : currentStreamer' = t => currentStreamer = t
  /\ section # Free => currentStreamer' \in {currentStreamer, NoStreamer}
  /\ \A t \in Tab :
       /\ leave'[t].step = "new" => leave[t].step = "new"
       /\ t \in Registered' => t \in Registered \/ leave[t].step = "new"
       /\ t \in Connected' => t \in Connected \/ leave[t].step = "new"
       /\ t \in Connected' /\ currentStreamer' = t /\ t \in streamerRoom => t \in streamerRoom'
  /\ \A u \in Solo : streaming'[u] \in {streaming[u], NoTab}

\* A streamer who stays keeps the session.
KeepsSession(t) ==
  /\ t \in Connected' /\ currentStreamer' = t /\ stop'[t].step = "idle"
  /\ Account[t] \in Solo \ overtaken' /\ t \in streamerRoom
  => /\ stop[t].step = "idle" /\ Account[t] \notin overtaken
     /\ Streams(t) => Streams(t)'

LEMMA StaysOutKeeps ==
  ASSUME TypeOK, SlotInv, StaysOut, \A t \in Tab : KeepsSession(t)
  PROVE  SlotInv'
<1> USE DEF SlotInv
<1>1. NewTabsAreUnknown'
  BY DEF StaysOut, NewTabsAreUnknown
<1>2. SectionMatches'
  <2>1. section.step \in {"checking", "ousting", "ousted", "live", "joined", "logging", "unviewing"}
        => currentStreamer' \in {currentStreamer, NoStreamer}
    BY DEF StaysOut, Free
  <2> QED
    BY <2>1 DEF StaysOut, SectionMatches
<1>3. SessionsMatch'
  <2>1. ASSUME NEW u \in Solo, streaming'[u] # NoTab PROVE streaming'[u] = streaming[u]
    BY <2>1 DEF StaysOut
  <2>2. section.seen \in Registered' => section.seen \in Registered
    BY DEF StaysOut, NewTabsAreUnknown, Registered
  <2> QED
    BY <2>1, <2>2 DEF StaysOut, SessionsMatch
<1>4. ASSUME NEW t \in Connected', currentStreamer' = t
      PROVE  t \in Connected /\ currentStreamer = t
  BY <1>4 DEF StaysOut, NewTabsAreUnknown, Connected
<1>5. StreamersAreInTheRoom'
  <2>1. \A t \in Tab : Arrived(t)' => Arrived(t)
    BY DEF StaysOut, Arrived, Free
  <2> QED
    BY <1>4, <2>1 DEF StaysOut, StreamersAreInTheRoom, Connected
<1>6. StreamersStream'
  <2>1. SUFFICES ASSUME NEW t \in Connected',
                        currentStreamer' = t, section' = Free, stop'[t].step = "idle",
                        Account[t] \in Solo \ overtaken'
        PROVE  Streams(t)'
    BY DEF StreamersStream, Free
  <2>2. t \in Tab /\ t \in Connected /\ currentStreamer = t /\ section = Free
    BY <1>4, <2>1 DEF StaysOut, Connected
  <2>3. t \in streamerRoom
    BY <2>2 DEF StreamersAreInTheRoom, Arrived
  <2>4. stop[t].step = "idle" /\ Account[t] \notin overtaken /\ (Streams(t) => Streams(t)')
    BY <2>1, <2>2, <2>3 DEF KeepsSession
  <2> QED
    BY <2>1, <2>2, <2>4 DEF StreamersStream
<1> QED
  BY <1>1, <1>2, <1>3, <1>5, <1>6

\* Steps that touch neither slot, room, streaming sessions nor handlers, and
\* forget no history.
LEMMA QuietStaysOut ==
  ASSUME UNCHANGED <<currentStreamer, streamerRoom, streaming, streamEnds, section, stop, leave>>,
         overtaken \subseteq overtaken'
  PROVE  StaysOut /\ \A t \in Tab : KeepsSession(t)
BY DEF StaysOut, KeepsSession, Streams, EndingStream, Registered, Connected

\* The start of viewing sessions forgets no history.
LEMMA ViewingRemembers ==
  ASSUME NEW T, NEW f, NEW live, StartViewing(T, f, live)
  PROVE  overtaken \subseteq overtaken'
BY DEF StartViewing

\* Viewers, the calls nobody awaits that end their sessions, and sign-ins that
\* are recorded.
LEMMA ViewersStayOut ==
  ASSUME NEW t \in Tab,
         \/ JoinAsViewer(t) \/ JoinDone(t) \/ ViewEndFlushed(t) \/ SweepViewing(t)
         \/ \E u \in User \ Solo : Login(t, u)
  PROVE  StaysOut /\ \A q \in Tab : KeepsSession(q)
<1> USE DEF sessions, slot, handlers
<1>1. CASE JoinDone(t)
  <2>1. overtaken \subseteq overtaken'
    BY <1>1, ViewingRemembers DEF JoinDone
  <2> QED
    BY <1>1, <2>1, QuietStaysOut DEF JoinDone
<1>2. CASE JoinAsViewer(t)
  BY <1>2, QuietStaysOut DEF JoinAsViewer
<1>3. CASE ViewEndFlushed(t) \/ SweepViewing(t)
  BY <1>3, QuietStaysOut DEF ViewEndFlushed, SweepViewing
<1>4. ASSUME NEW u \in User \ Solo, Login(t, u) PROVE StaysOut /\ \A q \in Tab : KeepsSession(q)
  BY <1>4, QuietStaysOut DEF Login
<1> QED
  BY <1>1, <1>2, <1>3, <1>4

LEMMA ConnectStaysOut ==
  ASSUME TypeOK, NEW t \in Tab, Connect(t)
  PROVE  StaysOut /\ \A q \in Tab : KeepsSession(q)
<1> USE DEF sessions, slot
<1>1. /\ \A q \in Tab : leave'[q] = leave[q] \/ (leave[q].step = "new" /\ leave'[q].step = "up")
      /\ UNCHANGED <<currentStreamer, streamerRoom, streaming, streamEnds, section, stop, overtaken>>
  BY DEF Connect, TypeOK, At
<1> QED
  BY <1>1 DEF StaysOut, KeepsSession, Streams, EndingStream, Registered, Connected, At

\* Viewbots, relays and whoever clears the slot.
LEMMA OthersStayOut ==
  ASSUME TypeOK, BotGoesLive \/ BotDisconnects \/ RelayGoesLive \/ SlotCleared
  PROVE  StaysOut /\ \A q \in Tab : KeepsSession(q)
<1> USE DEF sessions, slot, handlers
<1>1. /\ UNCHANGED <<streaming, streamEnds, section, stop, leave>>
      /\ streamerRoom \ {Bot} \subseteq streamerRoom'
      /\ \/ currentStreamer' \in {currentStreamer, NoStreamer}
         \/ currentStreamer' \in {Bot, Relay} /\ section = Free
  BY DEF BotGoesLive, BotDisconnects, RelayGoesLive, SlotCleared
<1>2. overtaken \subseteq overtaken'
  BY ViewingRemembers DEF BotGoesLive, BotDisconnects, RelayGoesLive, SlotCleared
<1> QED
  BY <1>1, <1>2, StreamerAssumption
  DEF StaysOut, KeepsSession, Streams, EndingStream, Registered, Connected

\* A sign-in visits the tabs of an address: not of people alone at theirs.
LEMMA LoginStaysOut ==
  ASSUME TypeOK, CallsMatch, NEW t \in Tab, LoginVisits(t)
  PROVE  StaysOut /\ \A q \in Tab : KeepsSession(q)
<1> USE DEF sessions, slot
<1>1. /\ UNCHANGED <<currentStreamer, streamerRoom, section, stop, leave>>
      /\ overtaken \subseteq overtaken'
  BY ViewingRemembers DEF LoginVisits
<1>2. \A u \in Solo : streaming'[u] = streaming[u] /\ streamEnds'[u] = streamEnds[u]
  <2>1. \/ UNCHANGED <<streaming, streamEnds>>
        \/ \E p : StartStreaming(restarting[t], t, p)
    BY DEF LoginVisits
  <2>2. restarting[t] \notin Solo
    BY DEF CallsMatch
  <2> QED
    BY <2>1, <2>2, SoloUsers DEF StartStreaming, TypeOK
<1> QED
  BY <1>1, <1>2 DEF StaysOut, KeepsSession, Streams, EndingStream, Registered, Connected

\* The sweep, and the end of what it began: not of streamers in the room.
LEMMA SweepStaysOut ==
  ASSUME TypeOK, NEW u \in User, StreamEndFlushed(u) \/ SweepStreaming(u)
  PROVE  StaysOut /\ \A q \in Tab : KeepsSession(q)
<1> USE DEF slot, handlers
<1>1. UNCHANGED <<currentStreamer, streamerRoom, section, stop, leave, overtaken>>
  BY DEF StreamEndFlushed, SweepStreaming
<1>2. CASE StreamEndFlushed(u)
  <2>1. \A v \in User : /\ streaming'[v] = IF v = u THEN NoTab ELSE streaming[v]
                        /\ streamEnds'[v] = IF v = u THEN streamEnds[v] - 1 ELSE streamEnds[v]
    BY <1>2 DEF StreamEndFlushed, TypeOK
  <2>2. streamEnds[u] > 0
    BY <1>2 DEF StreamEndFlushed
  <2> QED
    BY <1>1, <2>1, <2>2, SoloUsers
    DEF StaysOut, KeepsSession, Streams, EndingStream, Registered, Connected
<1>3. CASE SweepStreaming(u)
  <2>1. /\ streaming' = streaming /\ streaming[u] \notin streamerRoom
        /\ \A v \in User : v # u => streamEnds'[v] = streamEnds[v]
    BY <1>3 DEF SweepStreaming, Stale, TypeOK
  <2> QED
    BY <1>1, <2>1, SoloUsers
    DEF StaysOut, KeepsSession, Streams, EndingStream, Registered, Connected
<1> QED
  BY <1>2, <1>3

\* stop-streaming ends the session of its own tab, which is not idle then.
LEMMA StopStaysOut ==
  ASSUME TypeOK, AddressesMatch, CallsMatch, NEW t \in Tab, StopStreaming(t) \/ StopStep(t)
  PROVE  StaysOut /\ \A q \in Tab : KeepsSession(q)
<1> USE DEF sessions, slot
<1>1. /\ UNCHANGED <<section, leave, streamEnds, overtaken>>
      /\ currentStreamer' \in {currentStreamer, NoStreamer}
      /\ streamerRoom \ {t} \subseteq streamerRoom'
      /\ streamerRoom' = streamerRoom \/ currentStreamer' = NoStreamer
  BY DEF StopStreaming, StopStep, StopEndsSession, StopFlushed, StopClears
<1>2. \/ streaming' = streaming
      \/ stop[t].step = "flushing" /\ streaming' = [streaming EXCEPT ![stop[t].user] = NoTab]
  BY DEF StopStreaming, StopStep, StopEndsSession, StopFlushed, StopClears
<1>3. StaysOut
  BY <1>1, <1>2, SoloUsers, StreamerAssumption DEF StaysOut, Registered, Connected, TypeOK
<1>4. ASSUME NEW q \in Tab, currentStreamer' = q, stop'[q].step = "idle",
             Account[q] \in Solo
      PROVE  stop[q].step = "idle" /\ (Streams(q) => Streams(q)')
  <2>1. q # t /\ stop'[q] = stop[q]
    BY <1>4, StopMoves, StreamerAssumption
  <2>2. Account[q] \in User /\ Account[t] # Account[q]
    BY <1>4, <2>1, SoloAlone, SoloUsers
  <2>3. streaming'[Account[q]] = streaming[Account[q]]
    <3>1. stop[t].user # Account[q]
      BY <1>4, <2>2 DEF CallsMatch
    <3> QED
      BY <1>2, <2>2, <3>1 DEF TypeOK
  <2>4. \A r \in Tab : stop'[r] # At("flushing", Account[q]) \/ stop'[r] = stop[r]
    <3>1. stop'[t] # At("flushing", Account[q])
      BY <1>4, <2>2, StopMoves, AddressIsTheirs DEF At
    <3> QED
      BY <3>1, StopMoves
  <2> QED
    BY <1>1, <1>4, <2>1, <2>3, <2>4 DEF Streams, EndingStream
<1> QED
  BY <1>1, <1>3, <1>4 DEF KeepsSession

\* disconnect ends the session of its own tab, which is gone then.
LEMMA LeaveStaysOut ==
  ASSUME TypeOK, AddressesMatch, CallsMatch, NEW t \in Tab, Disconnect(t) \/ LeaveStep(t)
  PROVE  StaysOut /\ \A q \in Tab : KeepsSession(q)
<1> USE DEF sessions, slot
<1>1. /\ UNCHANGED <<section, stop, streamEnds, overtaken>>
      /\ currentStreamer' \in {currentStreamer, NoStreamer}
      /\ streamerRoom \ {t} \subseteq streamerRoom'
  BY DEF Disconnect, LeaveStep, DisconnectStreamFlushed, DisconnectViewFlushed, DisconnectClears
<1>2. \/ streaming' = streaming
      \/ leave[t].step = "streaming" /\ streaming' = [streaming EXCEPT ![leave[t].user] = NoTab]
  BY DEF Disconnect, LeaveStep, DisconnectStreamFlushed, DisconnectViewFlushed, DisconnectClears
<1>3. StaysOut
  BY <1>1, <1>2, LeaveMoves, SoloUsers, StreamerAssumption
  DEF StaysOut, NobodyComes, Connected, TypeOK
<1>4. ASSUME NEW q \in Connected', currentStreamer' = q, Account[q] \in Solo
      PROVE  Streams(q) => Streams(q)'
  <2>1. q \in Tab /\ q # t
    BY <1>4, LeaveMoves DEF Connected
  <2>2. Account[q] \in User /\ Account[t] # Account[q]
    BY <1>4, <2>1, SoloAlone, SoloUsers
  <2>3. streaming'[Account[q]] = streaming[Account[q]]
    <3>1. leave[t].user # Account[q]
      BY <1>4, <2>2 DEF CallsMatch
    <3> QED
      BY <1>2, <2>2, <3>1 DEF TypeOK
  <2>4. \A r \in Tab : leave'[r] # At("streaming", Account[q]) \/ leave'[r] = leave[r]
    <3>1. leave'[t] # At("streaming", Account[q])
      BY <1>4, <2>2, LeaveMoves, AddressIsTheirs DEF At
    <3> QED
      BY <3>1, LeaveMoves
  <2> QED
    BY <1>1, <1>4, <2>1, <2>3, <2>4 DEF Streams, EndingStream
<1> QED
  BY <1>1, <1>3, <1>4 DEF KeepsSession

-----------------------------------------------------------------------------
(* The takeover *)

\* What its steps leave alone.
LEMMA SectionLeaves ==
  ASSUME SectionStep \/ \E t \in Tab : TakeoverStarts(t)
  PROVE  /\ UNCHANGED <<ipUser, stop, leave>>
         /\ Registered' = Registered /\ Connected' = Connected
BY CallsFrame DEF Registered, Connected

\* It starts with the tab of the request and the streamer it finds.
LEMMA StartMatches ==
  ASSUME TypeOK, SoloInv, NEW t \in Tab, TakeoverStarts(t)
  PROVE  SlotInv'
<1> USE DEF SoloInv, SlotInv, sessions, slot
<1>1. /\ section'.step = "checking" /\ section'.tab = t /\ section'.seen = currentStreamer
      /\ section'.user = NoUser /\ t \in Connected
  BY DEF TakeoverStarts, Free
<1>2. UNCHANGED <<currentStreamer, streamerRoom, streaming, streamEnds, overtaken, stop, leave>>
  BY CallsFrame DEF TakeoverStarts
<1>3. NewTabsAreUnknown'
  BY <1>1, <1>2 DEF NewTabsAreUnknown, Connected
<1>4. SectionMatches'
  BY <1>1, <1>2, SoloUsers DEF SectionMatches
<1>5. SessionsMatch'
  BY <1>1, <1>2 DEF SessionsMatch
<1>6. StreamersAreInTheRoom' /\ StreamersStream'
  BY <1>1 DEF StreamersAreInTheRoom, StreamersStream, Arrived, Free
<1> QED
  BY <1>3, <1>4, <1>5, <1>6

\* The streamer it found loses the session before the newcomer is live.
LEMMA OustMatches ==
  ASSUME TypeOK, HandlersKnowWhom, SoloInv, Oust \/ Ousted
  PROVE  SlotInv'
<1> USE DEF SoloInv, SlotInv, sessions, slot
<1>0. SectionType
  BY DEF TypeOK, SectionType
<1> DEFINE u == SocketAccount(section.seen)
<1>1. /\ UNCHANGED <<currentStreamer, streamEnds, overtaken, stop, leave>>
      /\ Registered' = Registered
      /\ section'.tab = section.tab /\ section'.seen = section.seen
      /\ section'.step \in {"ousting", "ousted"}
  BY <1>0 DEF Oust, Ousted, Step, SectionType, Registered
<1>2. section.step \in {"checking", "ousting"}
  BY DEF Oust, Ousted
<1>3. NewTabsAreUnknown'
  BY <1>1 DEF NewTabsAreUnknown
<1>4. StreamersAreInTheRoom' /\ StreamersStream'
  BY <1>1 DEF StreamersAreInTheRoom, StreamersStream, Arrived, Free
<1>5. CASE Oust
  <2>1. streaming' = streaming /\ section.seen \in Tab
    BY <1>5 DEF Oust
  <2>2. section.user \notin Solo
    BY <1>5 DEF Oust, SectionMatches
  <2>3. \/ section'.step = "ousting" /\ section'.user = u /\ u # NoUser
        \/ /\ section'.step = "ousted" /\ section'.user = section.user
           /\ u = NoUser \/ streaming[u] = NoTab
    BY <1>0, <1>5 DEF Oust, Step, SectionType
  <2>4. u # NoUser => Account[section.seen] = u
    BY DEF SocketAccount
  <2>5. SectionMatches'
    BY <1>1, <1>2, <2>1, <2>2, <2>3, <2>4 DEF SectionMatches
  <2>6. SessionsMatch'
    <3>1. ASSUME NEW v \in Solo, section.seen \in Registered, Account[section.seen] = v
          PROVE  u = v /\ v # NoUser
      BY <3>1, SoloUsers DEF SocketAccount
    <3> HIDE DEF u
    <3> QED
      BY <1>1, <2>1, <2>3, <3>1 DEF SessionsMatch
  <2> QED
    BY <1>3, <1>4, <2>5, <2>6
<1>6. CASE Ousted
  <2>1. /\ section.step = "ousting" /\ section'.step = "ousted" /\ section'.user = NoUser
        /\ streaming' = [streaming EXCEPT ![section.user] = NoTab]
    BY <1>0, <1>6 DEF Ousted, SectionType
  <2>2. SectionMatches'
    BY <1>1, <2>1, SoloUsers DEF SectionMatches
  <2>3. ASSUME NEW v \in Solo, section.seen \in Registered, Account[section.seen] = v
        PROVE  streaming'[v] = NoTab
    BY <2>1, <2>3, SoloUsers DEF SectionMatches, TypeOK
  <2>4. SessionsMatch'
    BY <1>1, <2>1, <2>3, SoloUsers DEF SessionsMatch, TypeOK
  <2> QED
    BY <1>3, <1>4, <2>2, <2>4
<1> QED
  BY <1>5, <1>6

\* The newcomer has the slot, then the room.
LEMMA ArrivalMatches ==
  ASSUME TypeOK, HandlersKnowWhom, SoloInv, GoLive \/ JoinRoom
  PROVE  SlotInv'
<1> USE DEF SoloInv, SlotInv, sessions, slot
<1>0. SectionType
  BY DEF TypeOK, SectionType
<1>1. /\ UNCHANGED <<streaming, streamEnds, overtaken, stop, leave>>
      /\ Registered' = Registered /\ Connected' = Connected
      /\ section'.tab = section.tab /\ section'.seen = section.seen
      /\ section'.user = section.user
  BY <1>0 DEF GoLive, JoinRoom, Step, SectionType, Registered, Connected
<1>2. \/ /\ GoLive /\ section'.step = "live" /\ currentStreamer' = section.tab
         /\ section.step = "ousted" \/ (section.step = "checking" /\ section.seen \notin Tab)
      \/ /\ JoinRoom /\ section'.step = "joined" /\ currentStreamer' = currentStreamer
         /\ section.step = "live" /\ streamerRoom' = streamerRoom \cup {section.tab}
  BY <1>0 DEF GoLive, JoinRoom, Step, SectionType
<1>3. NewTabsAreUnknown'
  BY <1>1, <1>2 DEF NewTabsAreUnknown
<1>4. SectionMatches'
  BY <1>1, <1>2 DEF SectionMatches
<1>5. SessionsMatch'
  BY <1>1, <1>2 DEF SessionsMatch, Registered
<1>6. StreamersAreInTheRoom'
  BY <1>1, <1>2 DEF SectionMatches, StreamersAreInTheRoom, Arrived, Free
<1>7. StreamersStream'
  BY <1>1, <1>2 DEF StreamersStream, Free
<1> QED
  BY <1>3, <1>4, <1>5, <1>6, <1>7

\* The takeover reads the account of the newcomer's address.
LEMMA ReadMatches ==
  ASSUME TypeOK, HandlersKnowWhom, SoloInv, ReadAccount \/ EndOwnViewing
  PROVE  SlotInv'
<1> USE DEF SoloInv, SlotInv, sessions, slot
<1>0. SectionType
  BY DEF TypeOK, SectionType
<1>1. /\ UNCHANGED <<streaming, streamEnds, overtaken, stop, leave, currentStreamer, streamerRoom>>
      /\ Registered' = Registered /\ Connected' = Connected
  BY DEF ReadAccount, EndOwnViewing, Registered, Connected
<1>2. /\ section.step \in {"joined", "logging"} /\ section.tab \in Tab
      /\ currentStreamer \in {section.tab, NoStreamer}
  BY DEF ReadAccount, EndOwnViewing, HandlersKnowWhom, SectionMatches
<1>3. CASE section' = Free
  <2>1. IpAccount(section.tab) = NoUser
    BY <1>0, <1>3 DEF ReadAccount, EndOwnViewing, Step, Free, SectionType
  <2>2. section.tab \in Registered => Account[section.tab] \notin Solo
    BY <1>2, <2>1, AddressIsKnown, SoloUsers
  <2>3. NewTabsAreUnknown' /\ SectionMatches' /\ SessionsMatch'
    BY <1>1, <1>3, SoloUsers, StreamerAssumption
    DEF NewTabsAreUnknown, SectionMatches, SessionsMatch, Free, NoTab
  <2>4. StreamersAreInTheRoom'
    BY <1>1, <1>2, StreamerAssumption DEF StreamersAreInTheRoom, Arrived, Connected
  <2>5. StreamersStream'
    BY <1>1, <1>2, <2>2, StreamerAssumption DEF StreamersStream, Connected, Registered
  <2> QED
    BY <2>3, <2>4, <2>5
<1>4. CASE section' # Free
  <2>1. /\ section'.step \in {"logging", "unviewing"} /\ section'.tab = section.tab
        /\ section'.seen = section.seen
        /\ \/ section.step = "joined" /\ section'.user = IpAccount(section.tab)
           \/ section.step = "logging" /\ section'.user = section.user
    BY <1>0, <1>4 DEF ReadAccount, EndOwnViewing, Step, Free, SectionType
  <2>2. NewTabsAreUnknown' /\ SessionsMatch'
    BY <1>1, <1>2, <2>1 DEF NewTabsAreUnknown, SessionsMatch
  <2>3. SectionMatches'
    <3>1. ASSUME section.step = "joined"
          PROVE  /\ section'.user \in Solo => Account[section.tab] = section'.user
                 /\ Account[section.tab] \in Solo => section'.user = Account[section.tab]
      <4>1. section'.user = IpAccount(section.tab)
        BY <2>1, <3>1
      <4>2. IpAccount(section.tab) # NoUser
        BY <1>4, <3>1 DEF ReadAccount, EndOwnViewing
      <4> QED
        BY <1>2, <4>1, <4>2, AddressIsTheirs, AddressIsKnown
    <3>2. CASE section.step = "joined"
      BY <1>1, <1>2, <2>1, <3>1, <3>2 DEF SectionMatches
    <3>3. CASE section.step = "logging"
      BY <1>1, <1>2, <2>1, <3>3 DEF SectionMatches
    <3> QED
      BY <1>2, <3>2, <3>3
  <2>4. StreamersAreInTheRoom'
    BY <1>1, <1>2, <1>4, <2>1 DEF StreamersAreInTheRoom, Arrived
  <2>5. StreamersStream'
    BY <1>4 DEF StreamersStream
  <2> QED
    BY <2>2, <2>3, <2>4, <2>5
<1> QED
  BY <1>3, <1>4

\* The newcomer's session starts: the streamer streams from now on.
LEMMA StartOwnMatches ==
  ASSUME TypeOK, HandlersKnowWhom, SoloInv, StartOwnStreaming
  PROVE  SlotInv'
<1> USE DEF SoloInv, SlotInv, sessions, slot
<1> DEFINE t == section.tab
           u == section.user
<1>1. /\ UNCHANGED <<stop, leave, currentStreamer, streamerRoom>>
      /\ Registered' = Registered /\ Connected' = Connected
      /\ section' = Free
  BY DEF StartOwnStreaming, Registered, Connected
<1>2. /\ section.step \in {"logging", "unviewing"} /\ t \in Tab /\ u \in User
      /\ currentStreamer \in {t, NoStreamer}
  BY DEF StartOwnStreaming, HandlersKnowWhom, SectionMatches
<1>3. /\ streaming' = [streaming EXCEPT ![u] = t]
      /\ streamEnds' = [streamEnds EXCEPT ![u] = @ + (IF streaming[u] = NoTab THEN 0 ELSE 1)]
      /\ overtaken' = overtaken \cup Overtaken(u)
  BY DEF StartOwnStreaming, StartStreaming
<1>4. NewTabsAreUnknown' /\ SectionMatches'
  BY <1>1, SoloUsers, StreamerAssumption DEF NewTabsAreUnknown, SectionMatches, Free, NoTab
<1>5. SessionsMatch'
  <2>1. u \in Solo => Account[t] = u
    BY <1>2 DEF SectionMatches
  <2> QED
    BY <1>1, <1>2, <1>3, <2>1, SoloUsers DEF SessionsMatch, Free, TypeOK
<1>6. StreamersAreInTheRoom'
  BY <1>1, <1>2, StreamerAssumption DEF StreamersAreInTheRoom, Arrived, Connected
<1>7. StreamersStream'
  <2>1. SUFFICES ASSUME NEW q \in Tab, currentStreamer = q, Account[q] \in Solo \ overtaken'
        PROVE  Streams(q)'
    BY <1>1 DEF StreamersStream, Connected
  <2>2. q = t /\ Account[q] = u
    BY <1>2, <2>1, StreamerAssumption DEF SectionMatches
  <2>3. streaming[u] = NoTab /\ ~EndingStream(u)
    BY <1>3, <2>1, <2>2 DEF Overtaken
  <2>4. streaming'[u] = t /\ streamEnds'[u] = streamEnds[u]
    BY <1>2, <1>3, <2>3 DEF TypeOK
  <2> QED
    BY <1>1, <2>2, <2>3, <2>4 DEF Streams, EndingStream, Free
<1> QED
  BY <1>4, <1>5, <1>6, <1>7

-----------------------------------------------------------------------------
(* Theorems *)

\* Every step keeps what people alone at their address rely on.
LEMMA SoloStep ==
  ASSUME TypeOK, HandlersKnowWhom, SoloInv, [Next]_vars
  PROVE  SoloInv'
<1>1. AddressesMatch' /\ CallsMatch'
  BY AddressesStep, CallsStep DEF SoloInv
<1>2. ASSUME StaysOut, \A q \in Tab : KeepsSession(q) PROVE SlotInv'
  BY <1>2, StaysOutKeeps DEF SoloInv
<1>3. ASSUME NEW t \in Tab, Connect(t) \/ JoinAsViewer(t) \/ StopStreaming(t) \/ Disconnect(t)
      PROVE  SlotInv'
  BY <1>2, <1>3, ConnectStaysOut, ViewersStayOut, StopStaysOut, LeaveStaysOut DEF SoloInv
<1>4. ASSUME NEW t \in Tab, TakeoverStarts(t) PROVE SlotInv'
  BY <1>4, StartMatches
<1>5. ASSUME NEW t \in Tab, NEW u \in User \ Solo, Login(t, u) PROVE SlotInv'
  BY <1>2, <1>5, ViewersStayOut
<1>6. ASSUME BotGoesLive \/ BotDisconnects \/ RelayGoesLive \/ SlotCleared
      PROVE  SlotInv'
  BY <1>2, <1>6, OthersStayOut
<1>7. ASSUME SectionStep PROVE SlotInv'
  BY <1>7, OustMatches, ArrivalMatches, ReadMatches, StartOwnMatches DEF SectionStep
<1>8. ASSUME NEW t \in Tab, HandlerStep(t) \/ ViewEndFlushed(t) \/ SweepViewing(t)
      PROVE  SlotInv'
  BY <1>2, <1>8, ViewersStayOut, LoginStaysOut, StopStaysOut, LeaveStaysOut
  DEF HandlerStep, SoloInv
<1>9. ASSUME NEW u \in User, StreamEndFlushed(u) \/ SweepStreaming(u) PROVE SlotInv'
  BY <1>2, <1>9, SweepStaysOut
<1>10. ASSUME UNCHANGED vars PROVE SlotInv'
  BY <1>2, <1>10, QuietStaysOut DEF vars, sessions, slot, handlers
<1>11. SlotInv'
  BY <1>3, <1>4, <1>5, <1>6, <1>7, <1>8, <1>9, <1>10 DEF Next, ServerStep
<1> QED
  BY <1>1, <1>11 DEF SoloInv

LEMMA SoloInit == Init => SoloInv
BY SoloUsers, StreamerAssumption
DEF Init, SoloInv, SlotInv, AddressesMatch, CallsMatch, NewTabsAreUnknown, SectionMatches, SessionsMatch,
    StreamersAreInTheRoom, StreamersStream, Registered, Connected, Free, At, NoTab

\* What the people alone at their address can rely on always holds.
LEMMA SoloHolds == Spec => []SoloInv
<1>1. TypeOK /\ HandlersKnowWhom /\ SoloInv /\ [Next]_vars => SoloInv'
  BY SoloStep
<1>2. Inductive => HandlersKnowWhom
  BY DEF Inductive
<1> QED
  BY <1>1, <1>2, SoloInit, TimeTypeCorrect, PayFollowsSessions, PTL DEF Spec

\* Whoever holds the slot, alone at their address, keeps the streaming session
\* that cleanupStaleSessions must spare, whatever others start, stop and leave.
THEOREM StreamersKeepTheirs == Spec => []StreamersKeepTheirSession
<1>1. TypeOK /\ SoloInv => StreamersKeepTheirSession
  <2>1. SUFFICES ASSUME TypeOK, SoloInv, NEW u \in Solo \ overtaken, NEW t \in Tab,
                        Account[t] = u, currentStreamer = t, Settled(t)
        PROVE  streaming[u] = t /\ ~EndingStream(u)
    BY DEF StreamersKeepTheirSession
  <2>2. section = Free
    BY <2>1, StreamerAssumption DEF SoloInv, SlotInv, SectionMatches, Settled, TypeOK
  <2> QED
    BY <2>1, <2>2 DEF SoloInv, SlotInv, StreamersStream, Streams, Settled
<1> QED
  BY <1>1, SoloHolds, TimeTypeCorrect, PTL

\* The streamer a takeover found has no session once the newcomer is live.
THEOREM OustedStreamersLoseTheirs == Spec => []OustedStreamersLoseTheirSession
<1>1. SoloInv => OustedStreamersLoseTheirSession
  <2>1. SUFFICES ASSUME SoloInv, NEW u \in Solo,
                        section.step \in {"live", "joined", "logging", "unviewing"},
                        section.seen \in Registered, streaming[u] = section.seen
        PROVE  FALSE
    BY DEF OustedStreamersLoseTheirSession
  <2>2. section.seen # NoTab
    BY <2>1, StreamerAssumption DEF Registered, NoTab
  <2> QED
    BY <2>1, <2>2 DEF SoloInv, SlotInv, SessionsMatch
<1> QED
  BY <1>1, SoloHolds, PTL

=============================================================================
