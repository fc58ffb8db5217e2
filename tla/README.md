# OneStreamer in TLA+

OneStreamer is a site with one stream at a time: whoever presses *go live* takes
the stream over from whoever has it, and when nobody streams the server relays
streams of other sites. These modules model the parts of the server where that
is hard: everything runs in one Node process, on one event loop, and every
`await` is a point where another handler may change what was just read.

Paths below are relative to the repository's root.

| module | what it is |
|---|---|
| `StreamSlot` | abstract specification of the stream slot |
| `Takeover` | the slot and every handler that writes it; implements `StreamSlot` |
| `UrlRelay` | life of the URL relays (ffmpeg encoders) against takeovers |
| `Rotation` | random rotation of relays: timer, retries, recovery |
| `AtomicStore` | abstract specification of the database as its callers see it |
| `TxGate` | the database transaction gate; implements `AtomicStore` |
| `Archive` | recordings on their way from the recorder to the bucket, and their deletion |
| `TimeTracking` | viewing and streaming sessions and the intervals that pay for them |
| `ChatCommands` | votes and claim events of the chat |
| `TakeoverProofs`, `UrlRelayProofs`, `RotationProofs`, `TxGateProofs`, `ArchiveProofs`, `TimeTrackingProofs`, `ChatCommandsProofs` | proofs about the module of that name |
| `SessionProofs` | proofs about `TimeTracking` that rest on those of `TimeTrackingProofs` |
| `MC...` | instances for TLC |

Run a check with `tlc -config MCTakeover.cfg MCTakeover.tla`, a proof with
`tlapm TakeoverProofs.tla`. `PROJECT.json` lists the runs, the lines each
definition stands for, one mutant of the code for each property, the hazards
and the findings.

## 1. Inventory

### Stream slot and takeover (modelled: `Takeover`)

*State.* `StreamService`: `currentStreamer`, `streamGeneration`, `viewers`,
`_takeoverChain`, `_takeoverInProgress`. `LiveKitService.currentStreamer`, a mirror
that `getStreamStatus` falls back on. `TakeoverService`: the start of the last
takeover (global cooldown, 30 s) and one cooldown per address.
`SessionService.socketToIp`.

*Operations.* `request-to-stream`, `stop-streaming`, `join-as-viewer`, disconnect,
relay registration and end, test stream, admin clear, game mode, the LiveKit
health check every 10 s.

*Interaction.* `request-to-stream` runs its body in `runExclusiveTakeover`, a chain of
promises; no other writer does. A takeover stops the relay on air
(`ViewBotURLService.stopURLStream`) and pauses the rotation before it writes the
slot; relays and rotation read `takeoverInProgress` and the slot in
`_isSupersededByRealStreamer`.

*Hard.* Checks made before an await and used after it; a cooldown that starts long
after the slot is written; requests whose socket leaves while they are queued;
a health check whose answer arrives after a takeover.

*Correct when* one takeover runs at a time, cooldowns and priorities hold whatever
interleaves, nobody's stream is ended by someone else's handler, and every
request is decided.

### URL relays (modelled: `UrlRelay`)

*State.* `ViewBotURLService`: `activeStreams`, `_startingStream`, `_reconnecting`,
`processes`; the ffmpeg and streamlink processes themselves; LiveKit ingresses.

*Operations.* `startURLStream`, `stopURLStream`, `handleStreamError`, `handleStreamEnd`,
`reconnectStream`, `refreshKickTokenAndRestart`, the ingress clean-up each start leaves in
the background, stall reports of `URLStreamHealthService`.

*Hard.* Two flags are the only order between them, and neither excludes the other.
An encoder that is told to exit reports an error a moment later. The
clean-up of one start may end during the life of another.

*Correct when* the flags are mutexes and come down, a relay never takes the slot
from a human, a live encoder is always known to the service, and a dead
relay is restarted or dropped.

### Random rotation (modelled: `Rotation`)

*State.* `isEnabled`, `shouldAutoRestart`, `isRestarting`, `isLocked`, two timer handles and
`nextRotationAt`, `currentStream`.

*Operations.* `start`, `stop`, `pause`, `forceRotate`, `reschedule`, `lock`, `unlock`, the rotation timer with
retries, the recovery monitor, the listener of ended relays, and a rotation
demanded by `ModerationActionArbiter`.

*Hard.* Six kinds of caller run `_rotateToNewStream` and wait inside it. Handles
are not reset when their timers fire, and guards read them.

*Correct when* recoveries exclude each other, no rotation stays on air over a
human, and a rotation that should run comes back whatever failed.

### Database transaction gate (modelled: `TxGate`)

*State.* The chain of promises, the token of the open scope, `stuckError`, and one SQLite
connection shared by the whole server.

*Operations.* `withTransaction`; `runAsync`, `getAsync` and `allAsync` behind the gate.

*Hard.* A bare statement must never run inside somebody else's transaction, whose
ROLLBACK would destroy it; a statement that a scope starts and does not await
may outlive its scope.

*Correct when* transactions hold their own writes only, scopes are all or
nothing and say which, and every call returns.

### Recording and upload (modelled: `Archive`)

*State.* `ContinuousRecordingService`: `currentSessionId` and the egress; rows of
`recording_sessions` (status, `end_time`, `b2_file_id`); one directory of segments per run;
`uploadQueue` with its attempts; the bucket (Backblaze B2).

*Operations.* Start and stop of a run; `processPendingUploads` every 5 min and `forceUpload`; the
disk scanner with its pending gate, grace period and disk budget; retention clean-up and the
admin's deletion; the migration at boot.

*Hard.* Five actors share rows, directories and the bucket, and no lock. Each reads, awaits and
acts on what it read. The upload writes one temporary file per session, whoever uploads, and its
ffmpeg reads the segments for minutes, while the scanner may remove them.

*Correct when* footage with a row is on the disk or in the bucket until the code gives it
up, an archive has its whole run unless that was given up, every finished run is settled, and no
directory the recorder has left stays for good.

### Time tracking (modelled: `TimeTracking`)

*State.* `viewingSessions` by socket, `activeSessions` and `updateIntervals` by user; the user of an
address in `SessionService`; the rooms.

*Operations.* Start and end of both kinds of session, by `join-as-viewer`, a takeover,
`stop-streaming`, disconnect, sign-in, the two notifications, and the sweep every 5 min.

*Hard.* An end writes to the database before it deletes by key, and half of its callers do not
await it. Callers know the user by the address, which tabs may share.

*Correct when* whoever is paid has a session, the streamer keeps theirs and loses it when
ousted, and sessions nobody ends are swept.

### Chat votes and claims (modelled: `ChatCommands`)

*State.* One vote service per kind (next, swap, extend, reduce, lock, unlock) with its voters and
end timers; cooldowns; the active claim event.

*Operations.* The commands of the chat, the end timers, solo mode, the start of an event, `!claim`, its
award, its expiry.

*Hard.* `!lock` and `!unlock` await the lock status between their guards and the start of the vote. The
last vote needed and an end timer may both end a vote. An award may fail after the
event was marked.

*Correct when* ordinary votes exclude each other, a vote acts once, an event has one
winner, and neither stays open.

### Not modelled

| component | state and operations | hard, and what should hold |
|---|---|---|
| client status feed (`StreamOrchestration.js`, `useStreamSocketListeners.ts`, `useStreamGenerationGuard.ts`) | snapshots of the slot, enriched after an await; guard by generation | `stream-ended` has no generation: a late `stream-status` must not revive an ended stream. Planned. |
| cooldown arithmetic (`TakeoverService.js`) | timestamps, extended cooldown, freeze, weapons, Redis | the cooldown shown is the cooldown applied; restarts keep it. Planned. |
| economy (`ShopService.js`, `PointsManager.js`, `InventoryService.js`, `ItemUseService.js`) | balances, stock, ledger over the gate | nothing is lost or made; no negative balance. Planned. |
| moderation arbiter | strikes, ban, rotation | its rotation is in `Rotation`; strikes are planned. The scores come from models outside the code. |
| account deletion, life cycle, client reconnect | schedulers | planned, late. |
| clips, whitelist, chat relay | job table, look-up, per-message | little concurrency; low in the plan. |
| viewbots | LiveKit fleet | `createViewBot` has no live caller; a viewbot request is a bot request in `Takeover`. |
| transcription, AI bots | pipelines to external models | read the slot, never write it. |
| admin routes, interface | forms and views | those that reach the slot, a relay, a recording or a vote are actions of the modules above. |

Most of the repository by lines is the interface of the browser, forms over single rows, and
media pipelines: sequential code without state of its own, for which tests are the better tool. The
models cover the state machines of the server.

## 2. Modules and code

An action is the code of one handler **from one await to the next**; nothing else
can run in between. An operation with several awaits has a program counter
per caller. Failing awaits are alternatives of the same step. Logging, messages to
clients and statistics are left out.

**`Takeover`.** `request[s]` is where the request of socket `s` is: `banCheck` (before the chain),
`queued`, then in the exclusive section `checking` (await `canTakeOver`), `ousting` (await the
relay's stop), `pausing`, `live` (slot written, `recordTakeover` to come), `recorded`. `stopping` and
`leaving` do the same for `stop-streaming` and `disconnect`, so that three handlers of one
socket may overlap. `seen` is the streamer the section read on entry. `settled` stands for
an age over the 30 s grace of the health check; `globalCooldown` and `cooling` say that a cooldown runs, by
the identifier it is filed under. `RelayRegister` and `RelayEnd` allow relays everything
`UrlRelay` does to the slot and more. `HealthCheck` and `HealthOk`/`HealthBad` are the two halves of the LiveKit
check. Its restart of one already running is left out (one check at a time), and so are
errors that the callees swallow (display names, logs, time tracking). `now` in
`canTakeOver` is read before its await; here cooldowns are read after it, which
allows more.

**`UrlRelay`.** The slot is reduced to a relay, some human, or nobody. `at[h][r]` is where the start,
reconnect or refresh of relay `r` is; `closing[c][r]` the same for the stops and ends of
each caller. An encoder is running, dying (told to exit; its exit
is an event of its own and reports an error, as ffmpeg exits with 255) or gone;
`listed` are those in the `processes` of their entry. Attempt counters, `autoReconnect` and HTTP
codes are abstracted to a free choice between reconnecting, refreshing (Kick only) and ending.
`killOrphans` signals every encoder. Ingress records are left out. Each caller has
at most one call per relay in flight; in particular there is no second Kick refresh of a relay beside the first, which the code
would allow, since the error handler has no flag up while it awaits the refresh (`StreamReconnector.js:60`).

**`Rotation`.** `at[a]` is where each caller is in `_rotateToNewStream`: waiting for its cue, stopping the
current relay, searching, starting, aborting, or in a backoff. Handles have the
values null, armed and spent. Relays have no ids: what the code compares them for, whether a
stop names the relay on air, is kept in `aimed`. Time, backoff lengths and
failure counters are abstract; `Attempts` is `maxInitialRetries`. A timer that fires during a restart or a
takeover re-arms itself, which changes nothing here. One start, stop, force, listener and arbiter
rotation each at a time. Which stream is picked, persistence and announcements are left out.

**`TxGate`.** Promise numbers stand for the chain: a call joins with `mutex + 1` and has its turn when the promise before
it is in `resolved`. `bornIn` is the async context of a statement, compared with
`activeScopeToken` as in the code. A write joins the connection's open transaction or is committed at once.
`ROLLBACK` may fail with the transaction open or already ended. `Crash` loses the process and the open transaction. The driver is
better-sqlite3, which runs a statement at the call. Left out: `busy_timeout`, the handle
that bypasses the gate, the sqlite3 driver, and scopes inside scopes (every caller passes its `tx`).

**`Archive`.** Actions are the steps of the five actors from one await to the next. Time is
an age per session in five classes (clip window, upload buffer, grace, retention, overdue): the
code compares ages with these limits only. `up[w]` is where the upload of the tick or of an admin
is; an upload whose directory is gone when ffmpeg would start is at `fail`. `torn` are the uploads whose file may miss a part:
another upload wrote the same temporary file, the run was still on, or the directory was removed under ffmpeg (`Reading`), which stops at a
segment that is not there and exits with 0. `orphans` are the sessions whose ffmpeg a crash left behind: the server is restarted
(`config/ecosystem.config.js`), its child may go on writing the temporary file. `waived` is history: the sessions whose footage the
code has given up. `BudgetVictims` leaves sizes open and keeps the order, oldest first. `Restart` loses all memory and applies the boot
migration. Left out: segments of identity, chat capture, playlists, and starts that overlap. The poll is not the only caller of
`startRecording`: the start of a stream (`index.js:1018`) and the admin's enable (`admin-recordings-ext.js:54`) call it too, and may do so
while a stop awaits LiveKit. That stop goes on with `currentSessionId`, which is then the new run's
(`ContinuousRecordingService.js:512`): it ends the row of the run that has just begun, and the row of the old one never
ends. `StartRecording` waits for the stop.

**`TimeTracking`.** An end is two steps, `...Ends` and `...Flushed`, awaited (then the handler has a program
counter) or counted in `viewEnds` and `streamEnds`. The slot is reduced to its holder; refusals and cooldowns
have no trace. `overtaken` is history: users for whom a session started while the previous one
was being ended. Amounts and durations are left out.

**`ChatCommands`.** A command runs in one step except where it awaits: `checking[v]` is the lock or unlock command
of a viewer that waits for the lock status, and its answer goes on without a second look at the
votes, as the code does; `awards` are the claims whose award is awaited. Every kind is one instance of
`VoteService`; `timers` keeps all end timers that were pushed, since `end()` ends whatever vote is open. A viewer is
a `voterKey`, and bars count addresses (`getUniqueViewerCount`). What the main server does with the
call of a passed vote is left out: here the calls are counted. A viewer has one lock command in flight; the code allows
more, but the rate limit of the chat bars most of them.

## 3. Runs

| run | instance | shows |
|---|---|---|
| `takeover` | 2 people, 1 viewbot, 1 relay, 3 outside events | `OneTakeoverAtATime`; `GrantsRespectTheGlobalCooldown`; `RequestsReplaceWhatTheyToreDown`; `BotsNeverReplaceHumans`; `HealthSparesFreshStreams`; `StatusNamesNoEndedStreamer`; refinement of `StreamSlot`; every queued request is decided; a streamer whose connection is gone leaves the slot |
| `leaver_ends_other_stream` | 2 people, 3 events | **violated**: a leaving streamer ends nobody else's stream |
| `relay` | 2 relays (1 Kick), 2 events | `MutexesHold`; `RelaysYieldToHumans`; `SettledRelaysOwnTheirEncoder`; flags come down on every error path; dead relays recover or go |
| `relay_over_human` | 1 relay, 3 events | **violated**: a human streams alone. A failed start leaves an encoder that publishes over them |
| `rotation` | 2 retry chains, 2 attempts, 2 events | `OneRecoveryAtATime`; `RotationsYieldToHumans`; `isRestarting` comes down; a wanted rotation recovers, unless a stale retry handle is left |
| `rotation_never_resumes` | 1 chain, 2 events | **violated**: a paused rotation resumes |
| `transactions` | 2 scopes of 2 writes, 2 statements | `ForeignWritesStayOut`; refinement of `AtomicStore`; every call returns |
| `stuck_connection` | the same | **violated**: a statement that returned is in the database |
| `archive` | 1 run, 2 attempts, 1 request of the admin, 1 fault | `FootageIsKept`; `ScheduledArchivesAreWhole`: whole, unless forced, given up or written by two encoders; finished runs are settled; directories leave the disk |
| `time` | 3 tabs, 2 users, 2 addresses, 4 events | `PaidUsersHaveSessions`; `StreamersKeepTheirSession`; `OustedStreamersLoseTheirSession`; forgotten sessions end |
| `paid_without_session` | the same | **violated**: nobody is paid without a session |
| `chat` | 3 viewers, 2 addresses, skip, swap and lock, 4 moves, 2 events | `OrdinaryVotesExclude`; `VotesActOnce`; `RewardsGoToOneWinner`; votes and events end |

### What was found

Each with a run that shows it:

1. **Leaver ends another stream** (`lifecycle.js:63`, `DisconnectHandler.js:160`). Stop and disconnect check
   who streams, await four calls and clear the slot whoever holds it. A takeover
   that finished in between loses its stream.
2. **Stuck connection** (`transaction.js:169`). After a failed `ROLLBACK` scopes are refused, but
   bare statements run inside the transaction left open, report success and are lost at the restart.
3. **Relay over a human** (`ViewBotURLService.js:559`). A start that times out forgets its entry and not its
   encoder.
4. **Rotation never resumes** (`RotationRetryState.js:124`). A retry armed after the pause fires, does
   nothing, and leaves its handle, at which the recovery monitor stands down for good.
   `RecoversUnlessStale` shows that this handle is the only thing that can stop a recovery.
5. **Paid without a session** (`TimeTrackingService.js:46`). A session that starts while the end of its
   predecessor awaits the database is deleted by that end, and its interval goes on paying.
   `PaidUsersHaveSessions` shows that nothing else leaves an interval behind.

Read off the models, without a run of their own:

- A reconnect whose entry was dropped while its ingress was made still goes on to
  `_registerAsCurrentStreamer`, which looks at the slot and not at the table: the relay in the slot is then not the
  one in the table, and a takeover stops the wrong one. It takes two relays and more events than `relay` has.
- The Kick refresh is awaited before the reconnect flag is set (`StreamReconnector.js:60`), so a refresh and a
  reconnect may restart one relay at once.
- `startRecording` forgets a run whose egress is over or records another target
  (`ContinuousRecordingService.js:336-343`): its row keeps the status `recording` and never ends. This is
  `AbandonRun`; the footage itself is kept and its directory leaves the disk.
- A forced upload takes no latch and looks at no status: during a run, or beside the tick, it may
  archive a part. `ScheduledArchivesAreWhole` leaves forced uploads out.
- The scanner removes a directory while ffmpeg reads it (`B2StorageService.js:105-163`), when the grace period ends
  (`RecordingDiskScanner.js:435-446`) or the disk budget is exceeded (538-548). Its comment (429-434) says that such an upload is never
  going to confirm; but ffmpeg ends as if the recording did, and the shortened file is recorded as the archive. An
  ffmpeg that outlives a crash of the server writes the same temporary file as the next attempt. `ScheduledArchivesAreWhole`
  shows that, without a forced upload, only a session that was given up or has such an encoder gets an archive that misses a part.
- `voteGuards.js:6-9` says that only one vote can be active. Two lock votes, or a lock vote beside
  another, can be, since `!lock` and `!unlock` await the lock status after their guards
  (`commandParser.js:1239`, `1327`). `OrdinaryVotesExclude` shows that there is no other way.
- The expiry timer of a claim event is never cancelled (`claimEventService.js:103`) and may expire
  a later event early.

### Bounds, and why they are enough

- `MaxArrivals` bounds the events nobody in the server decides: requests, stops, disconnects,
  crashes, operator and takeover events. Everything they set off runs
  unbounded. Races here need two handlers that overlap and a third actor that
  reads: three events in `Takeover`, two in the modules whose callers also start by
  themselves (timers, monitors, reports), four in `TimeTracking`, where tabs must first join.
- Two people and a viewbot: a person is ousted by a person, and a bot is between them.
  Each has an address of its own.
- Two relays: a start clears other relays, so one to start and one to lose. A violation
  needs one.
- Two retry chains: one in its backoff while another is armed over its handle.
- Two scopes and two statements: one scope open, one waiting, one statement inside,
  one outside. Each call is made once.
- One run of the recorder: the actors of `Archive` meet at one session, and what they keep
  for all of them (`list`, `pinned`, `todo`) is per session. `ArchiveProofs` has the invariants for any number. `MaxFaults` and
  `MaxRequests` are 1, which puts one failure or crash at every point; failures of ffmpeg and
  uploads are unbounded. The ages are the order of the defaults. A part in the bucket counts as kept in
  `FootageIsKept`: what a forced upload of a run still on leaves out is lost with the directory.
- Three tabs: a person alone at an address, and two tabs that share one, one of them without a token.
- Three viewers, two behind one address: a crowd of nobody, one (solo mode) or two. Skip and swap stand for
  the four kinds that run to their end (extend and reduce differ in numbers, and need three addresses), lock for the
  two that wait. Four moves: two commands that overlap, a vote and a leave.
- The generation in `Takeover` and the encoder numbers in `UrlRelay` are bounded by the events.

No state constraint and no symmetry is used. Deadlock is not checked: with the events used up, nothing has to happen.

### Fairness

On steps the event loop or a timer takes by itself: an await settles
(with whatever result), a timer fires, an interval comes round, a process told to exit exits.
The calls awaited have timeouts or are database and LiveKit requests whose errors
are caught. There is none on people, operators, crashes of encoders, a human leaving, or the
end of a cooldown. In `UrlRelay` it is per group of handlers, in `Takeover` and `TxGate` per socket and per call, in `TimeTracking`
one weak fairness for all steps of the server, in `ChatCommands` per viewer, kind, award and event.
`EveryCallReturns` further assumes that the body of a scope ends. All of it is weak but for one: `GrowOlder`
in `Archive` is strongly fair, as time passes however often the scanner, during whose query ages stand still, comes round.

## 4. Proofs

| module | theorem | states |
|---|---|---|
| `TakeoverProofs` | `TypeCorrect` | `TypeOK` |
| | `MutualExclusion` | `OneTakeoverAtATime` |
| | `InductiveInvariant` | `Inductive` |
| | `CooldownRespected` | `GrantsRespectTheGlobalCooldown` |
| | `TeardownHolds` | `RequestsReplaceWhatTheyToreDown` |
| | `HumansHavePriority` | `BotsNeverReplaceHumans` |
| | `FreshStreamsSurvive` | `HealthSparesFreshStreams` |
| | `MirrorFollows` | `StatusNamesNoEndedStreamer` |
| | `Refinement` | `Spec => Slot!Spec` |
| | `TheQueueMoves` | a queued request has a task before it that runs, or that has its turn |
| `UrlRelayProofs` | `RelayTypeCorrect` | `TypeOK` |
| | `FlagsAreMutexes` | `MutexesHold` |
| | `RelaysNeverOustHumans` | `RelaysYieldToHumans` |
| | `RelaysOwnTheirEncoder` | `SettledRelaysOwnTheirEncoder` |
| | `DroppedRelaysStayOut` | an entry that was dropped is never put back |
| | `OneTrackedRelay` | the table never has two entries |
| `RotationProofs` | `RotationTypeCorrect` | `TypeOK` |
| | `OneRecovery` | `OneRecoveryAtATime` |
| | `RotationsYield` | `RotationsYieldToHumans` |
| | `NeverLeftDark` | a wanted rotation without a relay has somebody to bring one, or a stale retry handle |
| `TxGateProofs` | `GateTypeCorrect` | `TypeOK` |
| | `TransactionsAreTheirScopes` | `ForeignWritesStayOut` |
| | `ScopesAllOrNothing` | `ScopesAreAtomic` |
| | `TheChainIsHeld` | a call that waits has one before it that no longer does |
| | `StoreIsAtomic` | `Spec => Store!Spec` |
| `ArchiveProofs` | `ArchiveTypeCorrect` | `TypeOK` |
| | `NoFootageIsLost` | `FootageIsKept` |
| | `SchedulerUploadsWholeRuns` | `ScheduledArchivesAreWhole` |
| `TimeTrackingProofs` | `TimeTypeCorrect` | `TypeOK` |
| | `PayFollowsSessions` | `Inductive` |
| | `NobodyIsPaidForNothing` | `PaidUsersHaveSessions` |
| `SessionProofs` | `StreamersKeepTheirs` | `StreamersKeepTheirSession` |
| | `OustedStreamersLoseTheirs` | `OustedStreamersLoseTheirSession` |
| `ChatCommandsProofs` | `ChatTypeCorrect` | `TypeOK` |
| | `VotesExclude` | `OrdinaryVotesExclude` |
| | `NoVoteActsTwice` | `VotesActOnce` |
| | `OneWinner` | `RewardsGoToOneWinner` |
| | `EndsAreOnTheirWay` | open votes have their own timer, events their expiry or their award |

They hold for any sets of sockets, relays, scopes, sessions, tabs and viewers and any bound. The only
assumptions are the named ones of the modules: ids are distinct, viewbots are
sockets, a scope has at least one write, the limits of the archive are positive and in their order, viewers are finitely many.

**Takeover.** Mutual exclusion is not enough to show that grants respect the cooldown: a task
reads the cooldown on one side of an await and writes the slot on the other. `Inductive`
adds what a task knows meanwhile (`TasksKnowTheSlot`): until it goes live the slot holds what it saw, or
nothing, or the test pattern; a cooldown it found at rest is at rest, since
only a takeover starts one and no other runs; and a viewbot's task saw no person.
`ChecksAgeWithTheSlot` does the same for the health check: if the generation it holds is
still the slot's, the stream had settled. Effect lemmas (`SlotEffect`,
`CheckEffect`, `OutsideSection`, ...) say once what a step does to each part of the
state, and the steps of the invariant are shown from them. The action properties and the refinement follow
from the invariant: `live` maps to a claim whose cooldown is to come.

**UrlRelay.** The invariant says of each flag that it is up exactly while one handler is between the step that sets it
and its `finally`, that the id of a start was given out (`StartsAreMinted`), and that encoders are finitely many, so that a
new one has a number. That a relay never takes the slot from a human follows step by step from it:
each registration looks at the slot with no await in between.

`SettledRelaysOwnTheirEncoder` needs to know what a relay owns while it is anything but settled (`RelaysOwnEncoders`). Until
its start has put it into the table it has no encoder and nobody restarts it. As long as no call closes it, its encoders are
listed and at most one; a start and a reconnect that are to spawn one find none, since a reconnect kills what is listed
and awaits the exit. Once a call closes it, what a restart spawns may escape the list; but
the entry goes with the end of that call and never comes back (`DroppedRelaysStayOut`), so nothing settled is left of
it. The invariant is per relay, and most steps are shown by one lemma: they spawn nothing for the relay and add no entry (`Keeps`).

**Rotation.** `OneRestart` and `OneStart` say that `isRestarting` and the start flag of the relay service are up
exactly while one caller restarts or starts a relay. `TakeoversAim`: from the moment the takeover has stopped what it saw,
a relay on air is one that somebody is stopping, and so it is as long as a human has the slot. It needs `AbortsAim`: whoever
put a relay on air and then found the takeover is about to stop it.

**TxGate.** `TurnsInOrder` says that promises are resolved in the order they were made, that
promises of different calls differ, and where a call that works has its own; from it
`OneHolder`: at most one call holds the chain. `TransactionHasItsScope` ties the open transaction,
the token and the phase of the scope together, and `WritesFollowTheScope` says for
each phase where the writes of the body are. The COMMIT step needs all of them: what it makes
durable is all the scope has written, and nothing of another scope.

`AtomicStore` is what is left of this for a caller: a scope's writes get into the database in one step, those of its statements
with them, and nobody is told anything else than what happened. Almost every step of chain and gate maps to a stutter;
COMMIT maps to the store, and a caller that hears of it later finds its writes there. For this `StatementsHaveTheirScope` says that a statement
started by a scope has a scope that is open or over, and that its write, if it ran while the body was at work, waits in
the transaction: the COMMIT that stores the scope stores it too.

**Archive.** `FootageIsKept` is not inductive: a directory is removed on what was read before an await. The invariant
adds what each remover knows. An upload past the encoder has a file in the bucket (`UploadsAreStored`), and the rows tell the truth
about the bucket (`RowsAreTrue`). `ScannerKnows`: what the scanner did not pin is, once it is old enough to be removed, without a
row, archived or given up, still when the answer comes; for that, a run that is on is fresh (`RunsAreFresh`), so that no row
appears for an old directory. For whole archives, `DueAreOld` says that what is due has aged past the buffer, and so is not being
recorded, and `TearsAreExcused` that without a request of the admin the tick is alone, is at a session it has not archived, and
has an excuse for a file that misses a part. When the scanner removes its directory, `ScannerKnows` gives the excuse: the session was
pinned and is given up, or its row was deleted, and then it never counts as archived (`RowsAreTrue`).

**TimeTracking.** `PayHasASource` strengthens `PaidUsersHaveSessions`: what an interval pays for is a session that no call
is ending any more, unless a start overtook. An end stops the pay before it is under way, so a
flush deletes nothing that is paid for.

`SessionProofs` is about people alone at their address (`Solo`). The server finds the user of a session by the address of a socket, and
a call reads it long before it ends a session by it. The invariant `SoloInv` says that whoever acts for such a person is
their own tab: the address (`AddressesMatch`), the calls under way (`CallsMatch`), the takeover (`SectionMatches`) and the session
(`SessionsMatch`). A streamer is then safe from all calls but their own, and safe from the sweep because they are in the
streamers' room from the join on (`StreamersAreInTheRoom`). The ousted streamer has lost the session before the newcomer is
live, and nothing starts one for a tab that is not the one in the section.

**ChatCommands.** Votes and solo actions are numbered, and numbers to come have done nothing (`VotesAreNumbered`). That the numbers
suffice (`VotesAreMoves`) needs a count: each vote comes from a command of its own, and one that still waits for the lock status has started none. An
awaited award is that of the active event (`RewardsGoToOneWinner` is inductive with `EventsAreNumbered`), so there is at most one.

**Somebody is in charge.** Liveness is out of the prover's reach, but some of the liveness properties fail only if a waiting party is
left with nobody who will serve it, and that no reachable state is such a state is a safety property. `TheQueueMoves` says it of
`QueuedRequestsAreDecided`: no refusal, disconnect or error leaves the flag up alone or the chain without a head. `TheChainIsHeld`
says it of `EveryCallReturns`, `EndsAreOnTheirWay` of the ends of votes and events, and `NeverLeftDark` of
`RecoversUnlessStale`, where the stale handle of the finding is the only exception. What TLC adds is that
those in charge come to an end, under fairness.

**Only model-checked.** Liveness, since the prover knows neither fairness nor `ENABLED`. All invariants and action properties of the
runs that pass, and both refinements, are proved. Results about recursive functions on all data would need induction
theorems with operator parameters, which the installed provers cannot use; no module so far has any.

## 5. Plan

Done: `StreamSlot`, `Takeover`, `UrlRelay`, `Rotation`, `AtomicStore`, `TxGate`, `Archive`, `TimeTracking`, `ChatCommands`, with proofs
about each.

Next, in this order:

1. `Cooldown`: a clock, individual, global and extended cooldowns, freeze and weapons, Redis and
   restart. Abstract specification: no grant before the promised time; the remainder shown is the
   one applied. Proofs of the arithmetic.
2. `StatusFeed`: snapshots enriched after an await, `stream-ended` without generation, the client's
   guard. Abstract specification: a client's view is one the slot had, and never goes back.
   Composes with `StreamSlot`.
3. `Economy` over `AtomicStore`: conservation of points and stock.
   Its first question is the item use outside a scope: `removeItemFromInventory`
   (`InventoryService.js:116`) decrements to zero in one statement and deletes the row in a
   second, unconditional one, and a unit added between the two goes with it.
4. Life cycle, account deletion, client reconnect, strikes of the arbiter.
5. The other half of "somebody is in charge": for `Archive`, that a finished recording is in the queue or found by the next tick.

Instances stay small: two or three actors, a handful of outside events, one run per module for
safety and liveness together, and one run per finding.
