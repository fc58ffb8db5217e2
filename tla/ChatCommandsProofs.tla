-------------------------- MODULE ChatCommandsProofs --------------------------
(***************************************************************************)
(* Proofs about ChatCommands, for any viewers and addresses, any of the    *)
(* six votes and any bounds.                                               *)
(***************************************************************************)
EXTENDS ChatCommands, FiniteSetTheorems, TLAPS

-----------------------------------------------------------------------------
(* The inductive invariant *)

VoteTypes ==
  /\ active \in [Kinds -> Vote \cup {None}]
  /\ timers \in [Kinds -> SUBSET Moves]
  /\ cooling \subseteq Kinds
  /\ soloCooling \in BOOLEAN
  /\ votes \in 0 .. MaxMoves
  /\ acted \in [Moves -> Nat]

ClaimTypes ==
  /\ event \in Claim \cup {None}
  /\ events \in 0 .. MaxEvents
  /\ expiring \subseteq Events
  /\ awards \subseteq Award
  /\ awarded \in [Events -> Nat]

ChatTypes ==
  /\ present \subseteq Viewers
  /\ moves \in 0 .. MaxMoves
  /\ checking \in [Viewers -> Checked \cup {None}]

\* TypeOK by the groups of variables that the actions change together.
LEMMA TypeGroups == TypeOK <=> VoteTypes /\ ClaimTypes /\ ChatTypes
BY DEF TypeOK, VoteTypes, ClaimTypes, ChatTypes

\* The viewers whose lock or unlock awaits the lock status.
Waiting == {v \in Viewers : checking[v] # None}

\* A vote needs a command of its own, and one that still waits has started none.
VotesAreMoves == votes + Cardinality(Waiting) <= moves

\* Votes have numbers of their own, and the numbers to come have done nothing.
VotesAreNumbered ==
  /\ \A k \in Kinds : Open(k) => active[k].id <= votes
  /\ \A j, k \in Kinds : Open(j) /\ Open(k) /\ j # k => active[j].id # active[k].id
  /\ \A i \in Moves : i > votes => acted[i] = 0

\* The same for the events; what nobody has claimed has had no award.
EventsAreNumbered ==
  /\ event # None => /\ event.id <= events
                     /\ event.claimedBy = None => awarded[event.id] = 0
  /\ \A i \in Events : i > events => awarded[i] = 0

VoteInv  == VoteTypes /\ OrdinaryVotesExclude /\ VotesAreNumbered /\ VotesActOnce
ClaimInv == ClaimTypes /\ EventsAreNumbered /\ RewardsGoToOneWinner
Inv == ChatTypes /\ VotesAreMoves /\ VoteInv /\ ClaimInv

-----------------------------------------------------------------------------
(* Helpers *)

\* getUniqueViewerCount counts: the addresses present are finitely many.
LEMMA CrowdIsNumber == ASSUME present \subseteq Viewers PROVE Crowd \in Nat
<1> DEFINE S == {Address[v] : v \in present}
<1> DEFINE f == [v \in present |-> Address[v]]
<1>1. IsFiniteSet(present)
  BY ChatAssumption, FS_Subset
<1>2. f \in Surjection(present, S)
  BY DEF Surjection
<1>3. IsFiniteSet(S)
  <2> HIDE DEF S, f
  <2> QED
    BY <1>1, <1>2, FS_Surjection
<1> QED
  BY <1>3, FS_CardinalityType DEF Crowd

LEMMA HundredthIsNumber == ASSUME NEW p \in Nat PROVE (p + 99) \div 100 \in Nat
OBVIOUS

\* The bar of a vote is a number.
LEMMA RequiredIsNumber == ASSUME NEW k \in Kinds, NEW n \in Nat PROVE Required(k, n) \in Nat
<1> DEFINE t == Threshold[k]
<1>1. t \in Nat
  BY ChatAssumption DEF Threshold, AllKinds
<1>2. n * t \in Nat
  <2> HIDE DEF t
  <2> QED
    BY <1>1
<1>3. (n * t + 99) \div 100 \in Nat
  BY <1>2, HundredthIsNumber
<1> QED
  BY <1>3 DEF Required, MinVotes

\* end() keeps what is known of the votes, whatever the votes cast.
LEMMA TallyKeeps ==
  ASSUME VoteInv, NEW k \in Kinds, Open(k), NEW vote \in Vote, vote.id = active[k].id,
         Tally(k, vote), UNCHANGED <<soloCooling, votes>>
  PROVE  VoteInv'
<1>1. vote.id \in Moves /\ vote.id <= votes /\ votes \in Nat
  BY DEF VoteInv, VotesAreNumbered, VoteTypes, Vote
<1>2. acted[vote.id] = 0
  BY DEF VoteInv, VotesActOnce
<1>3. acted' = acted \/ acted' = [acted EXCEPT ![vote.id] = 1]
  BY <1>1, <1>2 DEF Tally, VoteInv, VoteTypes
<1>4. active' = [active EXCEPT ![k] = None]
  BY DEF Tally
<1>5. VoteTypes'
  BY <1>1, <1>3 DEF Tally, VoteInv, VoteTypes
<1>6. OrdinaryVotesExclude'
  BY <1>4 DEF VoteInv, VoteTypes, OrdinaryVotesExclude, Open
<1>7. \A j \in Kinds : Open(j)' => j # k /\ Open(j) /\ active'[j] = active[j]
  BY <1>4 DEF VoteInv, VoteTypes, Open
<1>8. votes' = votes
  OBVIOUS
<1>9. VotesAreNumbered'
  <2>1. \A j \in Kinds : Open(j)' => active'[j].id <= votes'
    BY <1>7, <1>8 DEF VoteInv, VotesAreNumbered
  <2>2. \A i, j \in Kinds : Open(i)' /\ Open(j)' /\ i # j => active'[i].id # active'[j].id
    BY <1>7 DEF VoteInv, VotesAreNumbered
  <2>3. ASSUME NEW i \in Moves, i > votes' PROVE acted'[i] = 0
    <3>1. acted[i] = 0 /\ i # vote.id
      BY <1>1, <1>8, <2>3 DEF VoteInv, VotesAreNumbered, Moves
    <3> QED
      BY <1>3, <3>1 DEF VoteInv, VoteTypes
  <2> QED
    BY <2>1, <2>2, <2>3 DEF VotesAreNumbered, Open
<1>10. VotesActOnce'
  <2>1. \A i \in Moves : acted'[i] <= 1
    BY <1>1, <1>3 DEF VoteInv, VoteTypes, VotesActOnce
  <2>2. ASSUME NEW j \in Kinds, Open(j)' PROVE acted'[active'[j].id] = 0
    <3>1. Open(j) /\ j # k /\ active'[j] = active[j]
      BY <1>7, <2>2
    <3>2. active[j].id \in Moves /\ active[j].id # vote.id /\ acted[active[j].id] = 0
      BY <3>1 DEF VoteInv, VoteTypes, VotesAreNumbered, VotesActOnce, Open, Vote
    <3> QED
      BY <1>1, <1>3, <3>1, <3>2 DEF VoteInv, VoteTypes
  <2> QED
    BY <2>1, <2>2 DEF VotesActOnce, Open
<1> QED
  BY <1>5, <1>6, <1>9, <1>10 DEF VoteInv

\* start() keeps it, when all other votes are closed or its own is a lock or an
\* unlock vote, and a number is left.
LEMMA StartKeeps ==
  ASSUME VoteInv, present \subseteq Viewers, NEW k \in Kinds, NEW v \in Viewers,
         Start(v, k), votes < MaxMoves,
         k \in Checked \/ \A j \in Kinds : active[j] = None
  PROVE  VoteInv'
<1> DEFINE new == [id |-> votes + 1, voters |-> {v}, required |-> Required(k, Crowd)]
<1>1. votes \in Nat /\ votes + 1 \in Moves
  BY ChatAssumption DEF VoteInv, VoteTypes, Moves
<1>2. new \in Vote
  BY <1>1, CrowdIsNumber, RequiredIsNumber DEF Vote
<1>3. new # None
  BY <1>2, ChatAssumption
<1>4. active' = [active EXCEPT ![k] = new] /\ votes' = votes + 1 /\ acted' = acted
  BY DEF Start
<1>5. new.id = votes + 1
  OBVIOUS
<1> HIDE DEF new
<1>6. VoteTypes'
  <2>1. active' \in [Kinds -> Vote \cup {None}]
    BY <1>2, <1>4 DEF VoteInv, VoteTypes
  <2>2. timers' \in [Kinds -> SUBSET Moves]
    BY <1>1 DEF Start, VoteInv, VoteTypes
  <2>3. votes' \in 0 .. MaxMoves
    BY <1>1, <1>4, ChatAssumption DEF Moves
  <2> QED
    BY <2>1, <2>2, <2>3 DEF Start, VoteInv, VoteTypes
<1>7. OrdinaryVotesExclude'
  <2>1. CASE k \in Checked
    BY <1>4, <2>1 DEF VoteInv, VoteTypes, OrdinaryVotesExclude, Open
  <2>2. CASE \A j \in Kinds : active[j] = None
    BY <1>4, <2>2 DEF VoteInv, VoteTypes, OrdinaryVotesExclude, Open
  <2> QED
    BY <2>1, <2>2
<1>8. VotesAreNumbered'
  BY <1>1, <1>3, <1>4, <1>5 DEF VoteInv, VoteTypes, VotesAreNumbered, Open, Moves, Vote
<1>9. VotesActOnce'
  BY <1>1, <1>3, <1>4, <1>5 DEF VoteInv, VoteTypes, VotesActOnce, VotesAreNumbered, Open, Moves
<1> QED
  BY <1>6, <1>7, <1>8, <1>9 DEF VoteInv

\* Solo mode uses up a number of its own.
LEMMA ActAloneKeeps ==
  ASSUME VoteInv, NEW k \in Kinds, ActAlone(k), votes < MaxMoves
  PROVE  VoteInv'
<1>1. votes \in Nat /\ votes + 1 \in Moves
  BY ChatAssumption DEF VoteInv, VoteTypes, Moves
<1>2. acted[votes + 1] = 0
  BY <1>1 DEF VoteInv, VotesAreNumbered
<1>3. /\ acted' = [acted EXCEPT ![votes + 1] = 1]
      /\ active' = active /\ votes' = votes + 1
  BY <1>1, <1>2 DEF ActAlone, VoteInv, VoteTypes
<1>4. VoteTypes'
  BY <1>1, <1>3, ChatAssumption DEF ActAlone, VoteInv, VoteTypes, Moves
<1>5. OrdinaryVotesExclude'
  BY <1>3 DEF VoteInv, OrdinaryVotesExclude, Open
<1>6. VotesAreNumbered'
  BY <1>1, <1>3 DEF VoteInv, VoteTypes, VotesAreNumbered, Open, Moves, Vote
<1>7. VotesActOnce'
  BY <1>1, <1>3 DEF VoteInv, VoteTypes, VotesActOnce, VotesAreNumbered, Open, Moves, Vote
<1> QED
  BY <1>4, <1>5, <1>6, <1>7 DEF VoteInv

\* Cooldowns do not matter to it.
LEMMA CooldownsKeep ==
  ASSUME VoteInv, UNCHANGED <<active, timers, votes, acted>>,
         cooling' \subseteq Kinds, soloCooling' \in BOOLEAN
  PROVE  VoteInv'
BY DEF VoteInv, VoteTypes, OrdinaryVotesExclude, VotesAreNumbered, VotesActOnce, Open

\* A vote that does not end the voting adds a voter and nothing else.
LEMMA RegisterKeeps ==
  ASSUME VoteInv, present \subseteq Viewers, NEW v \in Viewers, NEW k \in Kinds, Register(v, k)
  PROVE  VoteInv'
<1> DEFINE vote == [active[k] EXCEPT !.voters = @ \cup {v}]
<1>1. active[k] \in Vote
  BY DEF Register, VoteInv, VoteTypes
<1>2. vote \in Vote /\ vote.id = active[k].id
  BY <1>1 DEF Vote
<1>3. vote # None
  BY <1>2, ChatAssumption
<1>4. \/ Tally(k, vote)
      \/ active' = [active EXCEPT ![k] = vote] /\ UNCHANGED <<timers, cooling, acted>>
  BY DEF Register
<1>5. Open(k) /\ UNCHANGED <<soloCooling, votes>>
  BY DEF Register, Open
<1> HIDE DEF vote
<1>6. CASE Tally(k, vote)
  BY <1>2, <1>5, <1>6, TallyKeeps
<1>7. CASE active' = [active EXCEPT ![k] = vote] /\ UNCHANGED <<timers, cooling, acted>>
  <2>1. /\ \A j \in Kinds : Open(j)' <=> Open(j)
        /\ \A j \in Kinds : Open(j) => active'[j].id = active[j].id
    BY <1>2, <1>3, <1>5, <1>7 DEF VoteInv, VoteTypes, Open
  <2>2. VoteTypes'
    BY <1>2, <1>5, <1>7 DEF VoteInv, VoteTypes
  <2>3. OrdinaryVotesExclude' /\ VotesAreNumbered' /\ VotesActOnce'
    BY <2>1, <1>5, <1>7 DEF VoteInv, OrdinaryVotesExclude, VotesAreNumbered, VotesActOnce
  <2> QED
    BY <2>2, <2>3 DEF VoteInv
<1> QED
  BY <1>4, <1>6, <1>7

-----------------------------------------------------------------------------
(* Commands that wait *)

LEMMA WaitingIsFinite == IsFiniteSet(Waiting) /\ Cardinality(Waiting) \in Nat
BY ChatAssumption, FS_Subset, FS_CardinalityType DEF Waiting

\* One command more waits.
LEMMA AskAddsOne ==
  ASSUME ChatTypes, NEW v \in Viewers, NEW k \in Checked, checking[v] = None,
         checking' = [checking EXCEPT ![v] = k]
  PROVE  Cardinality(Waiting') = Cardinality(Waiting) + 1
<1>1. k # None
  BY ChatAssumption DEF Checked, AllKinds
<1>2. Waiting' = Waiting \cup {v} /\ v \notin Waiting
  BY <1>1 DEF ChatTypes, Waiting
<1> QED
  BY <1>2, WaitingIsFinite, FS_AddElement

\* One command less waits.
LEMMA AnswerTakesOne ==
  ASSUME ChatTypes, NEW v \in Viewers, checking[v] # None,
         checking' = [checking EXCEPT ![v] = None]
  PROVE  Cardinality(Waiting') = Cardinality(Waiting) - 1 /\ Cardinality(Waiting) >= 1
<1>1. Waiting' = Waiting \ {v} /\ v \in Waiting
  BY DEF ChatTypes, Waiting
<1>2. IsFiniteSet(Waiting') /\ Cardinality(Waiting') \in Nat
  BY <1>1, WaitingIsFinite, FS_RemoveElement, FS_CardinalityType
<1> QED
  BY <1>1, <1>2, WaitingIsFinite, FS_RemoveElement

-----------------------------------------------------------------------------
(* Claim events *)

\* An award that is awaited is that of the active event, so there is one at most.
LEMMA OneAward ==
  ASSUME ClaimInv
  PROVE  /\ awards # {} => event # None /\ event.claimedBy # None
         /\ \A a, b \in awards : a = b
<1>1. ASSUME NEW a \in awards PROVE event # None /\ event.claimedBy # None
  <2>1. a \in Award /\ event = [id |-> a.event, claimedBy |-> a.to]
    BY DEF ClaimInv, ClaimTypes, RewardsGoToOneWinner
  <2>2. event \in Claim /\ event.claimedBy = a.to /\ a.to \in Viewers
    BY <2>1 DEF Award, Claim
  <2> QED
    BY <2>2, ChatAssumption
<1>2. ASSUME NEW a \in awards, NEW b \in awards PROVE a = b
  <2>1. a \in Award /\ b \in Award
    BY DEF ClaimInv, ClaimTypes
  <2>2. [id |-> a.event, claimedBy |-> a.to] = [id |-> b.event, claimedBy |-> b.to]
    BY DEF ClaimInv, RewardsGoToOneWinner
  <2>3. a.event = b.event /\ a.to = b.to
    BY <2>2
  <2> QED
    BY <2>1, <2>3 DEF Award
<1> QED
  BY <1>1, <1>2

LEMMA StartEventKeeps == ASSUME ClaimInv, StartClaimEvent PROVE ClaimInv'
<1> DEFINE new == [id |-> events + 1, claimedBy |-> None]
<1>1. events \in Nat /\ events + 1 \in Events
  BY ChatAssumption DEF ClaimInv, ClaimTypes, Events, StartClaimEvent
<1>2. awards = {}
  BY OneAward DEF StartClaimEvent
<1>3. new \in Claim /\ new.id = events + 1 /\ new.claimedBy = None
  BY <1>1 DEF Claim
<1>4. /\ event' = new /\ events' = events + 1
      /\ awards' = {} /\ awarded' = awarded
      /\ expiring' = expiring \cup {events + 1}
  BY <1>2 DEF StartClaimEvent
<1>5. awarded[events + 1] = 0
  BY <1>1 DEF ClaimInv, EventsAreNumbered
<1> HIDE DEF new
<1>6. ClaimTypes'
  BY <1>1, <1>3, <1>4, ChatAssumption DEF ClaimInv, ClaimTypes, Events
<1>7. EventsAreNumbered'
  BY <1>1, <1>3, <1>4, <1>5 DEF ClaimInv, EventsAreNumbered, Events
<1>8. RewardsGoToOneWinner'
  BY <1>4 DEF ClaimInv, RewardsGoToOneWinner
<1> QED
  BY <1>6, <1>7, <1>8 DEF ClaimInv

LEMMA ClaimKeeps == ASSUME ClaimInv, NEW v \in Viewers, ClaimReward(v) PROVE ClaimInv'
<1>1. event \in Claim /\ event.claimedBy = None /\ event.id \in Events /\ event.id <= events
  BY DEF ClaimReward, ClaimInv, ClaimTypes, EventsAreNumbered, Claim
<1>2. awards = {}
  BY <1>1, OneAward
<1> DEFINE won == [event EXCEPT !.claimedBy = v]
           a == [event |-> event.id, to |-> v]
<1>3. won \in Claim /\ won = [id |-> event.id, claimedBy |-> v] /\ won.id = event.id
  BY <1>1 DEF Claim
<1>4. a \in Award /\ a.event = event.id /\ a.to = v
  BY <1>1 DEF Award
<1>5. v # None /\ won.claimedBy = v
  BY <1>3, ChatAssumption
<1>6. awarded[event.id] = 0
  BY <1>1 DEF ClaimReward, ClaimInv, EventsAreNumbered
<1>7. /\ event' = won /\ events' = events /\ expiring' = expiring
      /\ awards' = {a}
      /\ awarded' = [awarded EXCEPT ![event.id] = 1]
  BY <1>1, <1>2, <1>6 DEF ClaimReward, ClaimInv, ClaimTypes
<1> HIDE DEF won, a
<1>8. ClaimTypes'
  BY <1>1, <1>3, <1>4, <1>7 DEF ClaimInv, ClaimTypes
<1>9. EventsAreNumbered'
  <2>1. event' # None => event'.id <= events' /\ event'.claimedBy # None
    BY <1>1, <1>3, <1>5, <1>7
  <2>2. ASSUME NEW i \in Events, i > events' PROVE awarded'[i] = 0
    <3>1. awarded[i] = 0 /\ i # event.id
      BY <1>1, <1>7, <2>2 DEF ClaimInv, ClaimTypes, EventsAreNumbered, Events
    <3> QED
      BY <1>7, <3>1 DEF ClaimInv, ClaimTypes
  <2> QED
    BY <2>1, <2>2 DEF EventsAreNumbered
<1>10. RewardsGoToOneWinner'
  BY <1>1, <1>3, <1>4, <1>7 DEF ClaimInv, ClaimTypes, RewardsGoToOneWinner
<1> QED
  BY <1>8, <1>9, <1>10 DEF ClaimInv

LEMMA AnswerKeeps == ASSUME ClaimInv, NEW a \in Award, AwardAnswers(a) PROVE ClaimInv'
<1>1. awards' = {} /\ event' = None /\ UNCHANGED <<events, expiring, awarded>>
  BY OneAward DEF AwardAnswers
<1> QED
  BY <1>1 DEF ClaimInv, ClaimTypes, EventsAreNumbered, RewardsGoToOneWinner

LEMMA ExpiryKeeps == ASSUME ClaimInv, NEW i \in Events, EventExpires(i) PROVE ClaimInv'
<1>1. UNCHANGED <<events, awards, awarded>> /\ expiring' \subseteq Events
  BY DEF EventExpires, ClaimInv, ClaimTypes
<1>2. event' = event \/ (event' = None /\ awards = {})
  <2>1. event' = IF event # None /\ event.claimedBy = None THEN None ELSE event
    BY DEF EventExpires
  <2>2. event # None /\ event.claimedBy = None => awards = {}
    BY OneAward
  <2> QED
    BY <2>1, <2>2, Zenon
<1> QED
  BY <1>1, <1>2 DEF ClaimInv, ClaimTypes, EventsAreNumbered, RewardsGoToOneWinner

LEMMA ClaimsKeep == ASSUME ClaimInv, UNCHANGED claimVars PROVE ClaimInv'
BY DEF ClaimInv, ClaimTypes, EventsAreNumbered, RewardsGoToOneWinner, claimVars

LEMMA VotesKeep == ASSUME VoteInv, UNCHANGED <<active, timers, cooling, soloCooling, votes, acted>>
                   PROVE  VoteInv'
BY CooldownsKeep DEF VoteInv, VoteTypes

-----------------------------------------------------------------------------
(* The invariant *)

LEMMA InitInv == Init => Inv
<1> SUFFICES ASSUME Init PROVE Inv
  OBVIOUS
<1>1. ChatTypes /\ VoteInv /\ ClaimInv
  <2>1. ChatTypes
    BY ChatAssumption DEF Init, ChatTypes
  <2>2. VoteTypes
    <3>1. active \in [Kinds -> Vote \cup {None}] /\ timers \in [Kinds -> SUBSET Moves]
      BY DEF Init
    <3>2. cooling \subseteq Kinds /\ soloCooling \in BOOLEAN
      BY Zenon DEF Init
    <3>3. votes \in 0 .. MaxMoves /\ acted \in [Moves -> Nat]
      BY ChatAssumption DEF Init
    <3> QED
      BY <3>1, <3>2, <3>3 DEF VoteTypes
  <2>3. OrdinaryVotesExclude /\ VotesAreNumbered /\ VotesActOnce
    BY DEF Init, OrdinaryVotesExclude, VotesAreNumbered, VotesActOnce, Open
  <2>4. ClaimTypes
    BY ChatAssumption DEF Init, ClaimTypes
  <2>5. EventsAreNumbered /\ RewardsGoToOneWinner
    BY DEF Init, EventsAreNumbered, RewardsGoToOneWinner
  <2> QED
    BY <2>1, <2>2, <2>3, <2>4, <2>5 DEF VoteInv, ClaimInv
<1>2. Waiting = {}
  BY DEF Init, Waiting
<1>3. VotesAreMoves
  BY <1>2, FS_EmptySet DEF Init, VotesAreMoves
<1> QED
  BY <1>1, <1>3 DEF Inv

\* Steps that neither start a vote nor ask for the lock status.
LEMMA MovesKeep ==
  ASSUME ChatTypes, VotesAreMoves, votes \in Nat, UNCHANGED <<checking, votes>>,
         moves' = moves \/ Move, present' \subseteq Viewers
  PROVE  ChatTypes' /\ VotesAreMoves'
<1>1. moves' \in 0 .. MaxMoves /\ moves' >= moves
  BY ChatAssumption DEF ChatTypes, Move
<1>2. ChatTypes'
  BY <1>1 DEF ChatTypes
<1>3. Waiting' = Waiting
  BY DEF Waiting
<1> DEFINE c == Cardinality(Waiting)
<1>4. Cardinality(Waiting') = c /\ votes + c <= moves
  BY <1>3 DEF VotesAreMoves
<1>5. VotesAreMoves'
  <2> HIDE DEF c
  <2>1. c \in Nat
    BY WaitingIsFinite DEF c
  <2> QED
    BY <1>1, <1>4, <2>1 DEF VotesAreMoves, ChatTypes
<1> QED
  BY <1>2, <1>5

LEMMA NextInv == Inv /\ [Next]_vars => Inv'
<1> SUFFICES ASSUME Inv, [Next]_vars PROVE Inv'
  OBVIOUS
<1>1. ChatTypes /\ VotesAreMoves /\ VoteInv /\ ClaimInv /\ votes \in Nat /\ moves \in Nat
  BY DEF Inv, VoteInv, VoteTypes, ChatTypes
<1>2. present \subseteq Viewers /\ moves <= MaxMoves /\ votes <= moves
  BY <1>1, WaitingIsFinite, ChatAssumption DEF ChatTypes, VotesAreMoves
<1>3. ASSUME NEW v \in Viewers, Join(v) \/ Leave(v) PROVE Inv'
  <2>1. ChatTypes' /\ VotesAreMoves'
    BY <1>1, <1>2, <1>3, MovesKeep DEF Join, Leave, voteVars
  <2>2. VoteInv' /\ ClaimInv'
    BY <1>1, <1>3, VotesKeep, ClaimsKeep DEF Join, Leave, voteVars
  <2> QED
    BY <2>1, <2>2 DEF Inv
<1>4. ASSUME NEW v \in Viewers, NEW k \in Kinds, Register(v, k) PROVE Inv'
  <2>1. ChatTypes' /\ VotesAreMoves'
    BY <1>1, <1>2, <1>4, MovesKeep DEF Register
  <2>2. VoteInv'
    BY <1>1, <1>2, <1>4, RegisterKeeps
  <2>3. ClaimInv'
    BY <1>1, <1>4, ClaimsKeep DEF Register
  <2> QED
    BY <2>1, <2>2, <2>3 DEF Inv
<1>5. ASSUME NEW v \in Viewers, NEW k \in Kinds, Command(v, k) PROVE Inv'
  <2>1. /\ moves < MaxMoves /\ moves' = moves + 1 /\ UNCHANGED <<present, checking>>
        /\ votes' = votes + 1 /\ Proceed(v, k)
        /\ \A j \in Kinds : active[j] = None
    BY <1>5 DEF Command, Move, MayOpen, Proceed, Start, ActAlone
  <2>2. votes < MaxMoves
    BY <1>1, <1>2, <2>1, ChatAssumption
  <2>3. VoteInv'
    BY <1>1, <1>2, <2>1, <2>2, StartKeeps, ActAloneKeeps DEF Proceed
  <2>4. ChatTypes'
    BY <1>1, <2>1, ChatAssumption DEF ChatTypes
  <2>5. VotesAreMoves'
    <3>1. Waiting' = Waiting
      BY <2>1 DEF Waiting
    <3> DEFINE c == Cardinality(Waiting)
    <3>2. Cardinality(Waiting') = c /\ votes + c <= moves /\ c \in Nat
      BY <1>1, <3>1, WaitingIsFinite DEF VotesAreMoves
    <3> HIDE DEF c
    <3> QED
      BY <1>1, <2>1, <3>2 DEF VotesAreMoves
  <2>6. ClaimInv'
    BY <1>1, <1>5, ClaimsKeep DEF Command
  <2> QED
    BY <2>3, <2>4, <2>5, <2>6 DEF Inv
<1>6. ASSUME NEW v \in Viewers, NEW k \in Kinds, AskLockStatus(v, k) PROVE Inv'
  <2>1. /\ moves < MaxMoves /\ moves' = moves + 1 /\ UNCHANGED <<present, votes>>
        /\ k \in Checked /\ checking[v] = None
        /\ checking' = [checking EXCEPT ![v] = k]
    BY <1>6 DEF AskLockStatus, Move
  <2>2. ChatTypes'
    BY <1>1, <2>1, ChatAssumption DEF ChatTypes
  <2>3. VotesAreMoves'
    <3> DEFINE c == Cardinality(Waiting)
    <3>1. Cardinality(Waiting') = c + 1
      BY <1>1, <2>1, AskAddsOne
    <3>2. votes + c <= moves /\ c \in Nat
      BY <1>1, WaitingIsFinite DEF VotesAreMoves
    <3> HIDE DEF c
    <3> QED
      BY <1>1, <2>1, <3>1, <3>2 DEF VotesAreMoves
  <2>4. VoteInv' /\ ClaimInv'
    BY <1>1, <1>6, VotesKeep, ClaimsKeep DEF AskLockStatus
  <2> QED
    BY <2>2, <2>3, <2>4 DEF Inv
<1>7. ASSUME NEW v \in Viewers, LockStatusAnswers(v) PROVE Inv'
  <2> DEFINE k == checking[v]
             c == Cardinality(Waiting)
  <2>1. k \in Checked /\ k \in Kinds /\ k # None
    BY <1>1, <1>7 DEF LockStatusAnswers, ChatTypes, Checked
  <2>2. /\ UNCHANGED <<present, moves, claimVars>>
        /\ checking' = [checking EXCEPT ![v] = None]
        /\ Proceed(v, k) \/ UNCHANGED <<active, timers, cooling, soloCooling, votes, acted>>
    BY <1>7 DEF LockStatusAnswers
  <2>3. Cardinality(Waiting') = c - 1 /\ c >= 1 /\ c \in Nat /\ votes + c <= moves
    BY <1>1, <2>1, <2>2, AnswerTakesOne, WaitingIsFinite DEF VotesAreMoves
  <2> HIDE DEF k, c
  <2>4. votes < MaxMoves
    BY <1>1, <1>2, <2>3, ChatAssumption
  <2>5. VoteInv'
    BY <1>1, <1>2, <2>1, <2>2, <2>4, StartKeeps, ActAloneKeeps, VotesKeep DEF Proceed
  <2>6. ChatTypes'
    BY <1>1, <2>2 DEF ChatTypes
  <2>7. VotesAreMoves'
    <3>1. votes' = votes + 1 \/ votes' = votes
      BY <2>2 DEF Proceed, Start, ActAlone
    <3> QED
      BY <1>1, <2>2, <2>3, <3>1 DEF VotesAreMoves
  <2>8. ClaimInv'
    BY <1>1, <2>2, ClaimsKeep
  <2> QED
    BY <2>5, <2>6, <2>7, <2>8 DEF Inv
<1>8. ASSUME NEW k \in Kinds, NEW i \in Moves, EndTimer(k, i) PROVE Inv'
  <2>1. ChatTypes' /\ VotesAreMoves'
    BY <1>1, <1>2, <1>8, MovesKeep DEF EndTimer
  <2>2. active[k] \in Vote /\ Open(k) /\ Tally(k, active[k])
    BY <1>1, <1>8 DEF EndTimer, Open, VoteInv, VoteTypes
  <2>3. VoteInv'
    BY <1>1, <1>8, <2>2, TallyKeeps DEF EndTimer
  <2>4. ClaimInv'
    BY <1>1, <1>8, ClaimsKeep DEF EndTimer
  <2> QED
    BY <2>1, <2>3, <2>4 DEF Inv
<1>9. ASSUME SoloCooldownEnds \/ \E k \in Kinds : CooldownEnds(k) PROVE Inv'
  <2>1. ChatTypes' /\ VotesAreMoves'
    BY <1>1, <1>2, <1>9, MovesKeep DEF SoloCooldownEnds, CooldownEnds
  <2>2. VoteInv'
    BY <1>1, <1>9, CooldownsKeep DEF SoloCooldownEnds, CooldownEnds, VoteInv, VoteTypes
  <2>3. ClaimInv'
    BY <1>1, <1>9, ClaimsKeep DEF SoloCooldownEnds, CooldownEnds
  <2> QED
    BY <2>1, <2>2, <2>3 DEF Inv
<1>10. ASSUME NEW v \in Viewers, ClaimReward(v) PROVE Inv'
  <2>1. ChatTypes' /\ VotesAreMoves' /\ VoteInv'
    BY <1>1, <1>2, <1>10, MovesKeep, VotesKeep DEF ClaimReward, voteVars
  <2> QED
    BY <1>1, <1>10, <2>1, ClaimKeeps DEF Inv
<1>11. ASSUME StartClaimEvent PROVE Inv'
  <2>1. ChatTypes' /\ VotesAreMoves' /\ VoteInv'
    BY <1>1, <1>2, <1>11, MovesKeep, VotesKeep DEF StartClaimEvent, voteVars
  <2> QED
    BY <1>1, <1>11, <2>1, StartEventKeeps DEF Inv
<1>12. ASSUME NEW a \in Award, AwardAnswers(a) PROVE Inv'
  <2>1. ChatTypes' /\ VotesAreMoves' /\ VoteInv'
    BY <1>1, <1>2, <1>12, MovesKeep, VotesKeep DEF AwardAnswers, voteVars
  <2> QED
    BY <1>1, <1>12, <2>1, AnswerKeeps DEF Inv
<1>13. ASSUME NEW i \in Events, EventExpires(i) PROVE Inv'
  <2>1. ChatTypes' /\ VotesAreMoves' /\ VoteInv'
    BY <1>1, <1>2, <1>13, MovesKeep, VotesKeep DEF EventExpires, voteVars
  <2> QED
    BY <1>1, <1>13, <2>1, ExpiryKeeps DEF Inv
<1>14. CASE UNCHANGED vars
  <2>1. ChatTypes' /\ VotesAreMoves' /\ VoteInv' /\ ClaimInv'
    BY <1>1, <1>2, <1>14, MovesKeep, VotesKeep, ClaimsKeep DEF vars, voteVars
  <2> QED
    BY <2>1 DEF Inv
<1> QED
  BY <1>3, <1>4, <1>5, <1>6, <1>7, <1>8, <1>9, <1>10, <1>11, <1>12, <1>13, <1>14 DEF Next

LEMMA SpecInv == Spec => []Inv
BY InitInv, NextInv, PTL DEF Spec

-----------------------------------------------------------------------------
(* The theorems *)

\* Every reachable state of the votes and the claim events is well typed; above
\* all, there are never more votes and solo actions than commands.
THEOREM ChatTypeCorrect == Spec => []TypeOK
<1>1. Inv => TypeOK
  BY TypeGroups DEF Inv, VoteInv, ClaimInv
<1> QED
  BY <1>1, SpecInv, PTL

\* Only a lock or an unlock vote, which waits between its guards and its start,
\* is ever open beside another vote.
THEOREM VotesExclude == Spec => []OrdinaryVotesExclude
<1>1. Inv => OrdinaryVotesExclude
  BY DEF Inv, VoteInv
<1> QED
  BY <1>1, SpecInv, PTL

\* No vote and no solo action calls the main server twice.
THEOREM NoVoteActsTwice == Spec => []VotesActOnce
<1>1. Inv => VotesActOnce
  BY DEF Inv, VoteInv
<1> QED
  BY <1>1, SpecInv, PTL

\* No event is awarded twice, and an award never clears an event it is not for.
THEOREM OneWinner == Spec => []RewardsGoToOneWinner
<1>1. Inv => RewardsGoToOneWinner
  BY DEF Inv, ClaimInv
<1> QED
  BY <1>1, SpecInv, PTL

-----------------------------------------------------------------------------
(* Ends *)

\* An open vote has its end timer, and no other vote's of its kind, but for the
\* kinds whose late start may replace an open vote; no timer outlives the votes.
TimersAreTheirVotes ==
  \A k \in Kinds :
    /\ Open(k) => active[k].id \in timers[k]
    /\ ~Open(k) => timers[k] = {}
    /\ Open(k) /\ k \notin Checked => timers[k] = {active[k].id}

\* An unclaimed event has its expiry timer, a claimed one the award that clears it.
EventsAreOnTheirWay ==
  event # None =>
    IF event.claimedBy = None
      THEN event.id \in expiring
      ELSE [event |-> event.id, to |-> event.claimedBy] \in awards

LEMMA StartTimes ==
  ASSUME VoteTypes, TimersAreTheirVotes, NEW v, NEW k \in Kinds,
         k \in Checked \/ ~Open(k), Proceed(v, k),
         None \notin Vote, votes' \in Moves, present \subseteq Viewers, v \in Viewers
  PROVE  TimersAreTheirVotes'
<1> USE DEF TimersAreTheirVotes, VoteTypes, Open
<1>1. CASE Start(v, k)
  <2> DEFINE vote == [id |-> votes', voters |-> {v}, required |-> Required(k, Crowd)]
  <2>1. vote \in Vote
    BY CrowdIsNumber, RequiredIsNumber DEF Vote
  <2>2. vote # None /\ vote.id = votes'
    BY <2>1
  <2>3. /\ active' = [active EXCEPT ![k] = vote]
        /\ timers' = [timers EXCEPT ![k] = @ \cup {votes'}]
    BY <1>1 DEF Start
  <2> HIDE DEF vote
  <2> QED
    BY <2>2, <2>3
<1>2. CASE ActAlone(k)
  BY <1>2 DEF ActAlone
<1> QED
  BY <1>1, <1>2 DEF Proceed

LEMMA TimersStep ==
  ASSUME Inv, Inv', TimersAreTheirVotes, [Next]_vars PROVE TimersAreTheirVotes'
<1>0. VoteTypes /\ VoteTypes' /\ present \subseteq Viewers /\ None \notin Vote
  BY ChatAssumption DEF Inv, VoteInv, ChatTypes
<1>1. ASSUME NEW k \in Kinds, NEW vote, Tally(k, vote) PROVE TimersAreTheirVotes'
  BY <1>0, <1>1 DEF Tally, TimersAreTheirVotes, VoteTypes, Open
<1>2. ASSUME UNCHANGED <<active, timers>> PROVE TimersAreTheirVotes'
  BY <1>2 DEF TimersAreTheirVotes, Open
<1>3. ASSUME NEW v \in Viewers, NEW k \in Kinds, Register(v, k) PROVE TimersAreTheirVotes'
  <2> DEFINE vote == [active[k] EXCEPT !.voters = @ \cup {v}]
  <2>1. active[k] \in Vote /\ Open(k)
    BY <1>0, <1>3 DEF Register, VoteTypes, Open
  <2>2. vote \in Vote /\ vote.id = active[k].id
    BY <2>1 DEF Vote
  <2>3. \/ Tally(k, vote)
        \/ active' = [active EXCEPT ![k] = vote] /\ UNCHANGED timers
    BY <1>3 DEF Register
  <2> HIDE DEF vote
  <2>4. CASE active' = [active EXCEPT ![k] = vote] /\ UNCHANGED timers
    <3>1. active'[k] = vote /\ \A j \in Kinds \ {k} : active'[j] = active[j]
      BY <1>0, <2>4 DEF VoteTypes
    <3> QED
      BY <1>0, <2>1, <2>2, <2>4, <3>1 DEF TimersAreTheirVotes, Open
  <2> QED
    BY <1>1, <2>3, <2>4
<1>4. ASSUME NEW v \in Viewers, NEW k \in Kinds, Command(v, k) PROVE TimersAreTheirVotes'
  <2>1. ~Open(k) /\ Proceed(v, k) /\ votes' = votes + 1
    BY <1>4 DEF Command, MayOpen, Open, Proceed, Start, ActAlone
  <2>2. votes' \in Moves
    BY <1>0, <2>1, ChatAssumption DEF VoteTypes, Moves
  <2> QED
    BY <1>0, <2>1, <2>2, StartTimes
<1>5. ASSUME NEW v \in Viewers, LockStatusAnswers(v) PROVE TimersAreTheirVotes'
  <2>1. checking[v] \in Checked /\ checking[v] \in Kinds
    BY <1>5 DEF LockStatusAnswers, Inv, ChatTypes, Checked
  <2>2. CASE Proceed(v, checking[v])
    <3>1. votes' \in Moves
      BY <1>0, <2>2, ChatAssumption DEF VoteTypes, Moves, Proceed, Start, ActAlone
    <3> QED
      BY <1>0, <2>1, <2>2, <3>1, StartTimes
  <2> QED
    BY <1>2, <1>5, <2>2 DEF LockStatusAnswers
<1>6. ASSUME NEW k \in Kinds, NEW i \in Moves, EndTimer(k, i) PROVE TimersAreTheirVotes'
  BY <1>1, <1>6 DEF EndTimer
<1>7. ASSUME \/ \E v \in Viewers : \/ Join(v) \/ Leave(v) \/ ClaimReward(v)
                                  \/ \E k \in Kinds : AskLockStatus(v, k)
             \/ SoloCooldownEnds \/ \E k \in Kinds : CooldownEnds(k)
             \/ StartClaimEvent \/ \E a \in Award : AwardAnswers(a)
             \/ \E i \in Events : EventExpires(i)
             \/ UNCHANGED vars
      PROVE  UNCHANGED <<active, timers>>
  BY <1>7 DEF Join, Leave, ClaimReward, AskLockStatus, SoloCooldownEnds, CooldownEnds,
              StartClaimEvent, AwardAnswers, EventExpires, vars, voteVars
<1> QED
  BY <1>2, <1>3, <1>4, <1>5, <1>6, <1>7 DEF Next

LEMMA EventsStep ==
  ASSUME Inv, EventsAreOnTheirWay, [Next]_vars PROVE EventsAreOnTheirWay'
<1>0. /\ event \in Claim \cup {None} /\ events \in Nat
      /\ \A a \in awards : event = [id |-> a.event, claimedBy |-> a.to]
      /\ None \notin Claim /\ None \notin Viewers
  BY ChatAssumption DEF Inv, ClaimInv, ClaimTypes, RewardsGoToOneWinner
<1>1. ASSUME UNCHANGED claimVars PROVE EventsAreOnTheirWay'
  BY <1>1 DEF claimVars, EventsAreOnTheirWay
<1>2. CASE StartClaimEvent
  BY <1>2 DEF StartClaimEvent, EventsAreOnTheirWay
<1>3. ASSUME NEW v \in Viewers, ClaimReward(v) PROVE EventsAreOnTheirWay'
  <2>1. /\ event' = [event EXCEPT !.claimedBy = v] /\ event # None
        /\ [event |-> event.id, to |-> v] \in awards'
    BY <1>3 DEF ClaimReward
  <2>2. event'.id = event.id /\ event'.claimedBy = v
    BY <1>0, <2>1 DEF Claim
  <2> QED
    BY <1>0, <2>1, <2>2 DEF EventsAreOnTheirWay
<1>4. ASSUME NEW a \in Award, AwardAnswers(a) PROVE EventsAreOnTheirWay'
  BY <1>4 DEF AwardAnswers, EventsAreOnTheirWay
<1>5. ASSUME NEW i \in Events, EventExpires(i) PROVE EventsAreOnTheirWay'
  BY <1>5 DEF EventExpires, EventsAreOnTheirWay
<1>6. ASSUME \/ \E v \in Viewers : \/ Join(v) \/ Leave(v) \/ LockStatusAnswers(v)
                                  \/ \E k \in Kinds : Register(v, k) \/ Command(v, k)
                                                       \/ AskLockStatus(v, k)
             \/ \E k \in Kinds : CooldownEnds(k) \/ \E i \in Moves : EndTimer(k, i)
             \/ SoloCooldownEnds \/ UNCHANGED vars
      PROVE  UNCHANGED claimVars
  BY <1>6 DEF Join, Leave, LockStatusAnswers, Register, Command, AskLockStatus, CooldownEnds,
              EndTimer, SoloCooldownEnds, vars
<1> QED
  BY <1>1, <1>2, <1>3, <1>4, <1>5, <1>6 DEF Next

\* What is open has its end on the way: a vote its own timer, which no end of an
\* earlier vote has cleared; an event its expiry or the answer of its award.  No
\* timer of an ordinary vote is left to cut a later one short.
THEOREM EndsAreOnTheirWay == Spec => [](TimersAreTheirVotes /\ EventsAreOnTheirWay)
<1>1. Init => TimersAreTheirVotes /\ EventsAreOnTheirWay
  BY DEF Init, TimersAreTheirVotes, EventsAreOnTheirWay, Open
<1>2. Inv /\ Inv' /\ TimersAreTheirVotes /\ EventsAreOnTheirWay /\ [Next]_vars
        => TimersAreTheirVotes' /\ EventsAreOnTheirWay'
  BY TimersStep, EventsStep
<1> QED
  BY <1>1, <1>2, SpecInv, PTL DEF Spec

=============================================================================
