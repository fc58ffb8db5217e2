---------------------------- MODULE ChatCommands ----------------------------
(***************************************************************************)
(* The public chat commands that keep state: the six votes on the stream   *)
(* (next, swap, extend, reduce, lock, unlock) and the claim events.        *)
(*                                                                         *)
(* parse() runs one command from one await to the next.  Two kinds of      *)
(* command wait in the middle: lock and unlock ask the main server for the *)
(* lock status between their guards and the start of the vote, and a claim *)
(* awards its points after it has marked the event.  All the other races   *)
(* are with timers: the end of a vote, the expiry of an event.             *)
(*                                                                         *)
(* A viewer is what a vote counts once (voterKey: an account, or the       *)
(* address of who is not signed in); bars are set by the addresses         *)
(* present.  What the main server does when a vote has passed is           *)
(* Rotation's and UrlRelay's; here its calls are counted.  Commands that   *)
(* are refused change nothing and are left out.                            *)
(***************************************************************************)
EXTENDS Integers, FiniteSets

CONSTANTS Viewers,     \* who may be in the chat
          Address,     \* the address of each
          Kinds,       \* the votes of this instance
          MaxMoves,    \* bound on commands given and viewers that leave
          MaxEvents,   \* bound on claim events
          None

AllKinds == {"skip", "swap", "extend", "reduce", "lock", "unlock"}

\* The kinds whose command awaits the lock status before it starts a vote.
Checked == {"lock", "unlock"} \cap Kinds

\* Share of the viewers that must vote, in percent, and the least number of votes.
Threshold == [skip |-> 75, swap |-> 75, extend |-> 33, reduce |-> 33,
              lock |-> 100, unlock |-> 50]

MinVotes(k) == IF k \in {"skip", "swap"} THEN 1 ELSE 2

\* Viewers a vote needs to start at all.
MinViewers(k) == IF k \in {"extend", "reduce"} THEN 3 ELSE 2

Required(k, n) ==
  LET share == (n * Threshold[k] + 99) \div 100
  IN  IF share < MinVotes(k) THEN MinVotes(k) ELSE share

Moves  == 1 .. MaxMoves
Events == 1 .. MaxEvents

VARIABLES
  present,      \* viewers connected to the chat
  moves,        \* commands and leaves so far
  active,       \* state.active of each vote service
  timers,       \* votes whose end timer is in state.timers of each service
  cooling,      \* kinds whose lastEndTime is within the cooldown
  soloCooling,  \* lastSingleViewerActionTime is within its cooldown
  checking,     \* the command of each viewer that awaits the lock status
  votes,        \* number of votes and solo actions so far
  acted,        \* calls to the main server made for each of them
  event,        \* activeClaimEvent
  events,       \* number of claim events so far
  expiring,     \* events whose expiry timer is armed
  awards,       \* claims that await their award
  awarded       \* award calls made for each event

voteVars  == <<active, timers, cooling, soloCooling, checking, votes, acted>>
claimVars == <<event, events, expiring, awards, awarded>>
vars      == <<present, moves, voteVars, claimVars>>

Vote  == [id : Moves, voters : SUBSET Viewers, required : Nat]
Claim == [id : Events, claimedBy : Viewers \cup {None}]
Award == [event : Events, to : Viewers]

ASSUME ChatAssumption ==
  /\ IsFiniteSet(Viewers)
  /\ Kinds \subseteq AllKinds
  /\ MaxMoves \in Nat /\ MaxEvents \in Nat
  /\ None \notin AllKinds \cup Viewers \cup Vote \cup Claim

TypeOK ==
  /\ present \subseteq Viewers
  /\ moves \in 0 .. MaxMoves
  /\ active \in [Kinds -> Vote \cup {None}]
  /\ timers \in [Kinds -> SUBSET Moves]
  /\ cooling \subseteq Kinds
  /\ soloCooling \in BOOLEAN
  /\ checking \in [Viewers -> Checked \cup {None}]
  /\ votes \in 0 .. MaxMoves
  /\ acted \in [Moves -> Nat]
  /\ event \in Claim \cup {None}
  /\ events \in 0 .. MaxEvents
  /\ expiring \subseteq Events
  /\ awards \subseteq Award
  /\ awarded \in [Events -> Nat]

Init ==
  /\ present = {} /\ moves = 0
  /\ active = [k \in Kinds |-> None]
  /\ timers = [k \in Kinds |-> {}]
  /\ cooling = {} /\ soloCooling = FALSE
  /\ checking = [v \in Viewers |-> None]
  /\ votes = 0 /\ acted = [i \in Moves |-> 0]
  /\ event = None /\ events = 0
  /\ expiring = {} /\ awards = {}
  /\ awarded = [i \in Events |-> 0]

-----------------------------------------------------------------------------
(* Viewers *)

\* getUniqueViewerCount()
Crowd == Cardinality({Address[v] : v \in present})

Move == moves < MaxMoves /\ moves' = moves + 1

Join(v) ==
  /\ v \notin present
  /\ present' = present \cup {v}
  /\ UNCHANGED <<moves, voteVars, claimVars>>

Leave(v) ==
  /\ Move
  /\ v \in present
  /\ present' = present \ {v}
  /\ UNCHANGED <<voteVars, claimVars>>

-----------------------------------------------------------------------------
(* Votes *)

\* end(): the service is reset before the call of a passed vote is awaited.  The
\* bar is the one announced or that of the viewers left, whichever is lower.
Passes(k, vote) ==
  \/ Cardinality(vote.voters) >= vote.required
  \/ Cardinality(vote.voters) >= Required(k, Crowd)

\* Mutant of Tally: the vote is reset when its call has returned.
TallyAfterwards(k, vote) ==
  /\ active' = [active EXCEPT ![k] = IF Passes(k, vote) THEN vote ELSE None]
  /\ timers' = [timers EXCEPT ![k] = {}]
  /\ cooling' = cooling \cup {k}
  /\ acted' = IF Passes(k, vote) THEN [acted EXCEPT ![vote.id] = @ + 1] ELSE acted

Tally(k, vote) ==
  /\ active' = [active EXCEPT ![k] = None]
  /\ timers' = [timers EXCEPT ![k] = {}]
  /\ cooling' = cooling \cup {k}
  /\ acted' = IF Passes(k, vote) THEN [acted EXCEPT ![vote.id] = @ + 1] ELSE acted

\* register(): a viewer votes in the open vote; the last vote needed ends it.
Register(v, k) ==
  LET vote == [active[k] EXCEPT !.voters = @ \cup {v}]
  IN  /\ Move
      /\ v \in present
      /\ active[k] # None
      /\ v \notin active[k].voters
      /\ IF Cardinality(vote.voters) >= vote.required
           THEN Tally(k, vote)
           ELSE /\ active' = [active EXCEPT ![k] = vote]
                /\ UNCHANGED <<timers, cooling, acted>>
      /\ UNCHANGED <<present, soloCooling, checking, votes, claimVars>>

\* Mutant of MayOpen: the other votes are not looked at.
MayOpenBeside(k) == active[k] = None /\ k \notin cooling

\* What each command looks at before it starts anything: its own vote, the other
\* votes (otherActiveVoteMessage), its cooldown.
MayOpen(k) ==
  /\ \A j \in Kinds : active[j] = None
  /\ k \notin cooling

\* Mutant of Start: the number is taken before it is counted.
StartUncounted(v, k) ==
  /\ Crowd >= MinViewers(k)
  /\ votes' = votes + 1
  /\ active' = [active EXCEPT ![k] =
                  [id |-> votes, voters |-> {v}, required |-> Required(k, Crowd)]]
  /\ timers' = [timers EXCEPT ![k] = @ \cup {votes'}]
  /\ UNCHANGED <<cooling, soloCooling, acted>>

\* start(): seeds the vote and pushes its end timer to those already there.
Start(v, k) ==
  /\ Crowd >= MinViewers(k)
  /\ votes' = votes + 1
  /\ active' = [active EXCEPT ![k] =
                  [id |-> votes', voters |-> {v}, required |-> Required(k, Crowd)]]
  /\ timers' = [timers EXCEPT ![k] = @ \cup {votes'}]
  /\ UNCHANGED <<cooling, soloCooling, acted>>

\* Solo mode: the only viewer needs no vote.
ActAlone(k) ==
  /\ Crowd = 1
  /\ ~soloCooling
  /\ votes' = votes + 1
  /\ soloCooling' = TRUE
  /\ cooling' = cooling \cup {k}
  /\ acted' = [acted EXCEPT ![votes'] = @ + 1]
  /\ UNCHANGED <<active, timers>>

Proceed(v, k) == Start(v, k) \/ ActAlone(k)

\* !next, !swap, !extend and !reduce run to their end.
Command(v, k) ==
  /\ Move
  /\ v \in present
  /\ k \notin Checked
  /\ MayOpen(k)
  /\ Proceed(v, k)
  /\ UNCHANGED <<present, checking, claimVars>>

\* !lock and !unlock await the lock status when their guards have passed...
AskLockStatus(v, k) ==
  /\ Move
  /\ v \in present
  /\ k \in Checked
  /\ checking[v] = None
  /\ MayOpen(k)
  /\ checking' = [checking EXCEPT ![v] = k]
  /\ UNCHANGED <<present, active, timers, cooling, soloCooling, votes, acted, claimVars>>

\* ... and go on without a second look at the votes: the status refuses, or
\* permits, or could not be had, which permits too.
LockStatusAnswers(v) ==
  /\ checking[v] # None
  /\ checking' = [checking EXCEPT ![v] = None]
  /\ \/ Proceed(v, checking[v])
     \/ UNCHANGED <<active, timers, cooling, soloCooling, votes, acted>>
  /\ UNCHANGED <<present, moves, claimVars>>

\* The end timer of vote i ends whichever vote of its kind is open.
EndTimer(k, i) ==
  /\ i \in timers[k]
  /\ active[k] # None
  /\ Tally(k, active[k])
  /\ UNCHANGED <<present, moves, soloCooling, checking, votes, claimVars>>

CooldownEnds(k) ==
  /\ k \in cooling
  /\ cooling' = cooling \ {k}
  /\ UNCHANGED <<present, moves, active, timers, soloCooling, checking, votes, acted, claimVars>>

SoloCooldownEnds ==
  /\ soloCooling
  /\ soloCooling' = FALSE
  /\ UNCHANGED <<present, moves, active, timers, cooling, checking, votes, acted, claimVars>>

-----------------------------------------------------------------------------
(* Claim events *)

\* startClaimEvent(), by the schedule or by an operator.
StartClaimEvent ==
  /\ events < MaxEvents
  /\ event = None
  /\ events' = events + 1
  /\ event' = [id |-> events', claimedBy |-> None]
  /\ expiring' = expiring \cup {events'}
  /\ UNCHANGED <<present, moves, voteVars, awards, awarded>>

\* !claim with the right code: the event is marked before the award is awaited.
ClaimReward(v) ==
  /\ Move
  /\ v \in present
  /\ event # None
  /\ event.claimedBy = None
  /\ event' = [event EXCEPT !.claimedBy = v]
  /\ awards' = awards \cup {[event |-> event.id, to |-> v]}
  /\ awarded' = [awarded EXCEPT ![event.id] = @ + 1]
  /\ UNCHANGED <<present, voteVars, events, expiring>>

\* Mutant of AwardAnswers: an award that failed gives the event back.
AwardAnswersKeeping(a) ==
  /\ a \in awards
  /\ awards' = awards \ {a}
  /\ event' \in {None} \cup (IF event = None THEN {} ELSE {[event EXCEPT !.claimedBy = None]})
  /\ UNCHANGED <<present, moves, voteVars, events, expiring, awarded>>

\* The award is granted, refused or fails: each clears the active event.
AwardAnswers(a) ==
  /\ a \in awards
  /\ awards' = awards \ {a}
  /\ event' = None
  /\ UNCHANGED <<present, moves, voteVars, events, expiring, awarded>>

\* Mutant of EventExpires: claimed events expire too.
EventExpiresClaimed(i) ==
  /\ i \in expiring
  /\ expiring' = expiring \ {i}
  /\ event' = None
  /\ UNCHANGED <<present, moves, voteVars, events, awards, awarded>>

\* The expiry timer is never cancelled, and looks at the active event only for a
\* claim.
EventExpires(i) ==
  /\ i \in expiring
  /\ expiring' = expiring \ {i}
  /\ event' = IF event # None /\ event.claimedBy = None THEN None ELSE event
  /\ UNCHANGED <<present, moves, voteVars, events, awards, awarded>>

-----------------------------------------------------------------------------

Next ==
  \/ \E v \in Viewers :
       \/ Join(v) \/ Leave(v) \/ LockStatusAnswers(v) \/ ClaimReward(v)
       \/ \E k \in Kinds : Register(v, k) \/ Command(v, k) \/ AskLockStatus(v, k)
  \/ \E k \in Kinds : CooldownEnds(k) \/ \E i \in Moves : EndTimer(k, i)
  \/ SoloCooldownEnds
  \/ StartClaimEvent
  \/ \E a \in Award : AwardAnswers(a)
  \/ \E i \in Events : EventExpires(i)

\* Timers fire and calls to the main server return or time out.
Fairness ==
  /\ \A v \in Viewers : WF_vars(LockStatusAnswers(v))
  /\ \A k \in Kinds : WF_vars(\E i \in Moves : EndTimer(k, i))
  /\ \A a \in Award : WF_vars(AwardAnswers(a))
  /\ \A i \in Events : WF_vars(EventExpires(i))

Spec == Init /\ [][Next]_vars /\ Fairness

-----------------------------------------------------------------------------

Open(k) == active[k] # None

\* Two votes are never open together, unless one of them is a lock or an unlock
\* vote whose command awaited the lock status after it had looked at the others.
OrdinaryVotesExclude ==
  \A j, k \in Kinds : Open(j) /\ Open(k) /\ j # k => {j, k} \cap Checked # {}

\* The call of a passed vote is made once, whoever votes or whatever timer fires
\* while it is awaited, and not while its vote is still open.
VotesActOnce ==
  /\ \A i \in Moves : acted[i] <= 1
  /\ \A k \in Kinds : Open(k) => acted[active[k].id] = 0

\* Points are awarded once for each event, and the event that the answer of an
\* award clears is the one it was for.
RewardsGoToOneWinner ==
  /\ \A i \in Events : awarded[i] <= 1
  /\ \A a \in awards : event = [id |-> a.event, claimedBy |-> a.to]

\* Every vote is decided and every claim event goes, claimed or not, whether its
\* award succeeds or fails: an open vote refuses all others, an event all later ones.
VotesAndEventsEnd ==
  /\ \A k \in Kinds : []<>(active[k] = None)
  /\ []<>(event = None)

=============================================================================
