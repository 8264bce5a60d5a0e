# A verification project for Poposya

Poposya is a Discord bot (Python, discord.py) and a web panel (FastAPI) over one
PostgreSQL database. This directory holds TLA+ models of its core, the TLC runs
that check them on small instances, and proofs, checked by TLAPS, that hold for
every value of the constants. Paths below are relative to the repository;
`PROJECT.json` maps every definition of a model to the lines it translates.

    tlc -workers 2 -config Members_all.cfg MCMembers.tla   # a run
    tlapm MembersProofs.tla                                # the proofs of a module

## 1. The system

Two processes share the database. The **bot** holds the gateway connection to
Discord and runs the cogs, the timers and the background loops; the **panel**
answers HTTP requests. They meet in three places: the tables, a queue of commands
(`bot_commands`) that the panel writes and the bot executes, and PostgreSQL
NOTIFYs that announce commands and changed settings, tariffs and personas. Within
a process everything runs on one asyncio loop: code is atomic between two
`await`s, and coroutines interleave at each of them. Use cases open a unit of work
(one transaction, READ COMMITTED), and the unit publishes the events they raise
after its commit.

### Inventory

State is in the database unless it says otherwise.

| Part | State | Operations | What is hard | What must hold |
|---|---|---|---|---|
| Command bridge (`infrastructure/commands`) | `bot_commands`; the LISTEN connection | enqueue, claim, execute, finish, recover stale, sweep, wait | lost NOTIFYs, crash between claim and finish, sweeps that overlap, an executor slower than its lease | no command is lost; one that must not be repeated acts once; a shown result is final |
| Commands of the panel (`discord/command_executor.py`) | roles, members, messages on Discord; the player | a handler per kind of command | a handler decides by what the bot has heard, makes several calls, and may be run again | repeated, it leaves the server as if it had run once |
| Roles (`role_sync.py`, `cogs/autorole.py`, `role_mirror.py`) | roles on Discord, their copy in rows | sync the status, give and take, backfill, copy | decisions on stale members, overlapping transactions, missed events | one status role per member; the panel sees the roles there are |
| Unit of work, bus, outbox (`unit_of_work.py`, `events/`) | `outbox_events`; subscribers in memory | commit, publish, mark, dispatch a batch | two commits per use case, publication by two actors, a batch under one commit, a panel without subscribers | handed to everybody before it is marked; eventually handed |
| Deferred timers (`discord/scheduler.py`) | in memory: key to task | schedule, cancel, cancel all | the done callback of an old task runs after its replacement | the last timer of a key fires |
| Film club (`application/cinema`, `cogs/cinema`) | nights, votes, movies, ratings; timers, messages | start, vote, close, cancel, rate, open and finalize ratings, remove a movie, restart | check-then-act across transactions, restarts with open timers, sends that fail | one active night, every rating counts, everything closes |
| Warns (`application/moderation`, `cogs/moderation.py`) | `warns`, `mod_cases`; mutes and bans on Discord | warn, clear, expire, escalate, enforce | two warns at the threshold, punishment after the commit | the ladder is climbed in order, and paid for |
| Bans (`cogs/moderation.py`, `command_executor.py`) | `temp_bans`; bans on Discord | ban, tempban, unban from both processes, the loop that ends terms | database and Discord change in different steps; retry after a crash | a temporary ban ends, a permanent one stays |
| Appeals (`application/appeals`, `cogs/appeals.py`) | `appeals`; cards, unbans, messages on Discord | file, decide on the card or in the panel | two moderators, look-up then insert, effects after the commit | one open appeal, one verdict, effects only after it |
| Points and "the only one" (`application/relationship`) | `relationships` | award, correct, decay, move the title | row locks, a unique index, decay that reads without a lock, deadlocks | no update is lost, one title, it moves by exceeding |
| Premium keys, tariffs (`premium_keys/`, `entitlements.py`) | keys, seats, trials; a copy in each process | redeem, revoke, grant, trial, reload | terms extended from a copy, concurrent reloads, revocation in many transactions | no paid term lost, seats within the batch, copies converge |
| Guild settings (`guild_settings.py`) | rows; a copy in each process | set, set many, reset, reload | checks between keys against a copy, reloads out of order | stored settings satisfy the checks, copies converge |
| Personas (`persona_service.py`) | personas, assignments, submissions; a copy in each process | create, edit, submit, approve, reject, assign, delete | an operator decides on what the panel's copy showed | members hear only what was approved |
| Music (`application/music`, `cogs/music`) | in memory: player, queue, flags, sessions; playlists | enqueue, skip, back, seek, repeat, stop, advance, radio, leave | flags read after awaits, loaders that overlap, callbacks of the voice client | what is shown is heard, no track is lost, the bot leaves in time |
| Night finds (`application/finds`) | finds, attempts, collections | spawn, claim, gift, walk, expire | atomic claim against attempts and gifts that are not | one owner, one reward |
| Activity and voice (`cogs/activity.py`) | counters in memory and in rows | count, flush, award, save | a flush that fails half-way, members who move during the walk | nothing counted twice or lost, nobody paid for more than they sat |
| Stay or leave, temporary voice channels | due kicks; channel registry | schedule, cancel, pop; create, claim, sweep | Discord and the database change in different steps | nobody kicked who stayed; empty rooms go |
| Privacy (`privacy_service.py`) | marks of servers left | mark, cancel, sweep, erase, forget a member | events that overtake each other, a pass that fails on the way | what was left is erased, what was not is kept |
| AI chat (`application/ai_chat`, `infrastructure/ai`) | in memory: sessions, queue, circuit breaker | reply, chime, sum up, evict | limits with concurrent calls, sessions taken by several coroutines | every call ends, the breaker closes again, talks are summed up once |
| News (Steam, Riot, GitHub) | tracked sources and marks; threads | add, poll, announce, mark | announce, then mark; two additions at once | nothing skipped, nothing twice |
| Ban watch, digest, achievements, surveys | rows, copies of Discord | CRUD, texts | little: reads and whole reloads | - |
| API, web panel, renderer, scripts | sessions' epochs, otherwise none | HTTP over the use cases | - | - |

The hazards of this code, each at its line and with the properties that would
notice it, are listed in `PROJECT.json`.

## 2. The modules

| Module | Models | State | Actions |
|---|---|---|---|
| `CommandBridge` | `bridge.py`, `listener.py`, `command_client.py` | rows (`status`, `attempts`, `expired` lease), the connection and its NOTIFYs, a program counter and local data per coroutine (listener, sweep, a task per NOTIFY), the panel's `answer` | one per transaction: `Enqueue`, `StartRecovery` (the SELECT of `recover_stale`), `RecoverRow`, `SelectPending`, `Claim`, `Execute`, `Finish`; `Crash`, `Restart`, `Disconnect`, `DatabaseError`, `LeaseExpires` |
| `CommandLifecycle` | what the bridge promises of a command that must not be repeated | `job` | `Submit`, `Take`, `End` |
| `PanelCommands` | every handler of `command_executor.py` | the server on Discord (`world`) and what the bot has heard of it, the player, per attempt the calls still to make | a command of each kind, `Start`, `Call`, `CallFails`, `Finish`, `Recover` (the bridge runs it again, also before the gateway has told of the server), `Hear`, somebody else's change, `Crash` |
| `Holders` | `role_sync.py`, `autorole.py`, `role_mirror.py` | roles of a member on Discord, in the bot's view and in the copy; events on their way; coroutines and transactions | `Reconcile`, `Call`, `AutoRole`, `JoinSync`, `Assign`, `Unassign`, `LevelMoves`; `Hears`, `Commit`, `Backfill`; leave, join, reconnect, crash |
| `Outbox` | `unit_of_work.py`, `outbox.py`, `in_memory_bus.py`, the role handler | outbox rows, what each publisher has still to hand to whom, the batch, the role in the database and on Discord | `Commit`, `Handle`, `Published`, `MarkPublished`, `Select`, `PublishNext`, `CommitBatch`, `Crash`, `Restart` |
| `Scheduler` | `scheduler.py` | the registry, the life of each task, calls per key | `Schedule`, `Cancel`, `CancelAll`, `Wake`, `Ends`, `DoneCallback` |
| `Cinema` | `cinema/use_cases.py`, `service.py`, `cog.py` | nights, winners, votes, movies, ratings, timers and messages, transactions between read and write (candidates, movies about to be removed) | start, click, close, cancel, remove, open and finalize ratings, each read and each write; `Crash`, `Restart` |
| `Player` | `GuildPlayer`, the loading of streams, the voice client's callback | queue, history, current track, repeat, flags of seek, skip and back, what is heard, a loader per slot that waits for a stream or for the announcement that there is none | the listeners' commands, `Loaded`, `LoadFails`, `TriesNext`, `TrackEnds`, `Answer`, `Settle` |
| `MusicRoom` | sessions of a server: joining, the idle timer, the empty channel, radio | sessions, voice connections, message, timer, grace period, a coroutine's program counter | `/play`, `/radio`, `Play`, `Pick`, `Found`, `NotFound`, `TriesNext`, `TrackEnds`, `Stop`, `Kicked`, `Move`, `Dragged`, timers |
| `Warns` | `WarnUserUseCase`, `ClearWarnsUseCase`, `_enforce_warn` | committed warns and cases, a program counter per warn with its own row and what it has counted | `Warn`, `Count`, `Keep`, `CountPrior`, `Delete`, `Punish`, `Enforce`, `Expire`, `Clear`, `Crash` |
| `TempBans` | ban and unban of both processes, `_unban_loop`, the effect of an appeal | ban and its intent on Discord, rows of `temp_bans` (fresh or due), a program counter per command | `Begin`, `CheckBanned`, `Ban`, `DeleteRows`, `InsertRow`, `Unban`, `RemoveRows`, `CallFails`, `Expire`, `Pop`, `LiftExpired`, `Crash` |
| `Appeals` | both use cases, the modal, the card, `resolve_from_panel` | rows, a form's and a decision's program counter, what was told and lifted | `SubmitForm`, `ReadPending`, `InsertAppeal`, `PostCard`, `Decide`, `ReadAppeal`, `SaveAppeal`, `EditCard`, `Lift`, `Notify`, `Crash` |
| `Relationship` | awards, corrections, decay, and the repository's locks and UPDATEs | points and titles, row locks, a transaction per worker | `Begin`, `LockRow`, `Locked`, `ReadTitle`, `Decide`, `UpdateOld`, `UpdateNew`, `Refused`, `Commit`, `Victim` |
| `NotifiedCache` | `load_all`, `reload_guild` and the listeners of settings and tariffs | the table, the copy of each process, its connection, the jobs that will change a copy | reads, answers and installs in any order, NOTIFY, lost connections, restarts |
| `GuildSettings` | `GuildSettingsService` over `NotifiedCache` | writers, the model `resolved()` keeps | `Begin`, `Write`, `Reset`, `Resolve` |
| `PremiumKeys` | `PremiumKeyService`, `EntitlementService` over `NotifiedCache` | activations statement by statement, the lock of a batch, seats, revocations, the journal of attempts | `Activate`, `Redeem`, `TurnedDown`, what the operator does, `Midnight`, `BotRestarts` |
| `Personas` | `persona_service.py`, its listener and routes | the table, two copies, a request's job and reload | create, edit, submit, approve, reject, assign, delete; `Commit`, `Reload`, `Notified`, `Disconnect`, `Reconnect`, `Restart` |
| `Finds` | spawning, announcing, claiming, gifts, walks | rows, owners, attempts, items, profile locks, views in memory | `Loop`, `Expire`, `Ask`, `Visit`, `CooldownEnds`, `Crash`, `Restart` |
| `StayKick` | the two buttons, reminders, due kicks | the row, what the loop has taken, the member's wish, whether the bot has heard of them, the module's switch | `Join`, `Depart`, `Hear`, `Toggle`, `Press`, `Pop`, `Kick`, `TakeReminder`, `Remind`, `Crash`, `Restart` |
| `TempVoice` | temporary voice channels | rooms, registry, places, a task per voice event | `Move`, `Handle`, `Claim`, `Sweep`, `CooldownEnds`, `Crash`, `Restart` |
| `Departures` | marks, the sweep, erasing, `/forgetme` | data (of tables that are erased, and of others) and mark of each server, handlers under way, the list of a pass | `Leave`, `Return`, `Handle`, `GraceEnds`, `Sweep`, `PurgeGuild`, `PurgeFails`, `ForgetUser`, `Crash`, `Start` |
| `Counters` | message and voice counters and their flush | buffer, what a flush has taken, stored counts | `Count`, `Flush`, `WriteMessages`, `WriteVoice`, `Unload`, `Crash`, `Ready` |
| `VoiceHours` | the walk over the voice channels and what it pays | minutes in memory and stored, the walk, hours paid | `Tick`, `Visit`, `Award`, `NextChannel`, `EndWalk`, `Save`, `Move`, failures, `Dies`, `Ready` |
| `AiCalls` | `AIQueue`, the circuit breaker, retries and the second provider | waiters of both semaphores, attempts, the breaker (decisions to chime in pass it by) | `Ask`, `Admit`, `Start`, `Respond`, `Cool`, `Sicken`, `Recover` |
| `Dialogs` | sessions, replies, summaries | the session, replies under way, summaries under way and stored | `Message`, `Award`, `Record`, `Send`, `Sweep`, `Summarise`, `Crash` |
| `News` | trackers of Steam, Riot and GitHub | feeds, rows and marks, threads, the poll, additions under way | `Add`, `Create`, `Insert`, `Poll`, `Fetch`, `Floor`, `Announcing`, `Untrack`, `Crash` |

`MCCinema`, `MCPremium`, `MCTempBans`, `MCWarns` and `MCRelationship` add to a
specification the history variables its properties need. `MCData`, `MCLedgers`,
`MCMembers`, `MCModeration`, `MCPanel`, `MCTalks` and `MCTimers` put components
that do not touch each other's state side by side: independent instances, of which the
variable `part` (`moves` in `MCData`) says the one that moves while the others stay
in their initial states. The states of such a run are the sum and not the product of
those of the components, each component is explored as if it were alone, and its
properties are those of its own module. A module named `...Proofs` extends the
module whose properties its theorems state.

**Granularity.** An action is what runs without an `await` that lets something else
in: one statement or one transaction where another session could see the
difference. Where a use case reads in one statement and writes in another, these
are two actions, because READ COMMITTED puts no order between sessions. A
`FOR UPDATE` is a lock that is taken and waited for. A crash clears everything in
memory, and the process comes back.

**Composition.** `GuildSettings` and `PremiumKeys` are built on `NotifiedCache`: their
writes commit to its table and become jobs on its copies. `TempBans` contains the
effect of an approved appeal (`approve`) and the bridge's retry of panel commands;
`Appeals`, `TempBans` and `PanelCommands` take from `CommandBridge` that a panel
command interrupted by a crash is run again; `PanelProofs` carries the bridge's
theorem over to the instance of the bridge whose executors outlive their lease;
`Outbox` contains the publication by the use cases of every other part; `Finds` and
`VoiceHours` award points as `Relationship` does, under the lock of the profile.

**History variables.** The code's checks are often not atomic, so several of its
promises hold only while two handlers do not overlap or no call fails. A model
never forbids the overlap; a history variable observes it: `met`, `formsMet`,
`resolversMet` become true when two handlers have been under way at the same time,
`broken` when a call has failed or the process has died, `disturbed` when either
has happened, and so on, each explained where it is declared. A property whose
name ends in `Alone`, `Unbroken`, `Calm`, `Undisturbed` or `Seen` is asserted as long as
that has not happened, so its name is the assumption, and a property without such a
suffix holds through all of it, except for what its comment excludes (`exposed` in
`Relationship`, for example, collects the members whose row decay has written
without having locked it).

**Mutants.** A definition marked `\* mutant` is a plausible bug (a dropped guard, a
swapped order, a missing reset). No specification uses it. `PROJECT.json` names,
for each property, the one that breaks it.

## 3. The runs

Bounds are constants of the `.cfg` files; each is named where it is declared. They
are as large as it takes for the interesting case to happen: two of whatever can race,
three where a third is the one that is passed over, one fault to be met at every step.
Every property of a passing run has a mutant of the code that breaks it under the
run's own bounds, which shows that the bounds reach the case.

| Run | Bounds | What it shows |
|---|---|---|
| `CommandBridge_live` | two commands, one of them non-idempotent, `MaxAttempts` 2, batches of one, one fault (crash, lost connection, database error) | `NonIdempotentAtMostOnce`; `ImplementsLifecycle`: non-idempotent commands refine `CommandLifecycle`; `EveryCommandEnds` under fairness. With `ExecutorsWithinLease`, the assumption that the comment on the lease makes (`bridge.py:44`). Two commands are enough for a queue with an order and a batch that leaves one out, and listener, sweep and a task per NOTIFY compete for them. |
| `Panel_all` | a command of any kind, run at most twice, a change by hand, a fault; two coroutines and two transactions on the roles, two doings; a bridge with one command, slow executors, two faults; a game on any tracker with three items, two additions at once, a fault | `CommandsKept`: a command that is run again, once the bot knows the server, leaves it as one run does (the other exceptions are in its definition), and no command gives or takes a right it must not. `HoldersKept`: one status role, a true copy. `SlowActsOnce`: at most once although executors outlive their lease. `AnnouncedOnce`: news come in order and once. |
| `Data_all` | three role changes (one by the panel, one of a type the registry does not know), two subscribers, batches of two, handlers that fail, a crash; a writer of settings in each process over one stored override, two writes, three jobs per process, a fault | `HandedBeforeMarked`, `EventuallyHanded`, `LatestRoleShownUndisturbed`; `SettingsHold`: copies follow the table and the table stays valid, under the assumptions each needs. Three events against a batch of two make the dispatcher come back. |
| `Timers_all` | two keys, three tasks, three calls a key; one movie that may be removed, two nights, a voter, a starter, failing sends, a crash; three tracks, two loaders, five commands, a history of two; two sessions, two coroutines, two channels, a failure | `LastStands`: nothing but a later call stops the last timer of a key. `EverythingCloses`, `ClubRulesAlone`: polls and ratings end although their timers die with the process, and the club's rules hold. `PlayedRightAlone`, `QueueDrains`: what is shown is heard, no track is lost, the queue is played to its end. `LeavesRightly`: the bot leaves the channel neither too early nor too late. |
| `Relationship_all` | three members, two transactions at once, four in all; awards of 1, corrections to 0 and 3, decay by 1 of any set of members | `NoLostUpdate`, `OneTitle`, `TitleByExceedingAlone`, `EveryTransactionEnds` (deadlocks are ended). Three members let the title pass by one who is not in the transaction. |
| `Moderation_all` | two appeals, two modals, two decisions; two moderators, three commands over three rows; failing calls, a crash | `EffectsFollowCommit` through everything; `AppealRulesAlone`; `ApprovedIsLiftedUnbroken`; `TempBanEndsCalm`. |
| `Members_all` | two warns at once, threshold 2, five warns, a clearing, a crash; two members and one find, two requests; two joinings of each of two members; two rooms with a cap of one, three moves; two servers, three moves; a fault each | `NeverTooHarsh` whatever overlaps, `LadderAlone`, `EveryCaseAppliedUnbroken`; `FairPlay`: a find goes to one member; `AnnouncementsClose`; `LeaversGo`: whoever chose to leave goes, nobody else; `RoomsDoNotPileUp`; `ErasedIfLeft`. |
| `Talks_all` | a game with three items, two additions at once; four callers, two of them in the background, one a decision to chime in, two at a time, two attempts with each of two models; two replies, three exchanges; a fault | `EveryItemAnnounced`, on GitHub with a failure and on Riot without; `CallsGoThrough`: every call ends and the circuit closes again; `TalksRememberedOnce`. |
| `Ledgers_all` | two listeners, two channels, three ticks of two an hour; two counts; two servers, two activations of a key with one seat, two acts of the operator; a request and a reload in each process on two personas; a fault each. Ids are interchangeable (symmetry; no liveness here) | `ActivityCounted`, `BatchesHold`, `PersonasHold`, `TermsStackAlone`: a term is added to the one that is running when nothing comes in the way. |
| `Premium_terms`, `Relationship_refused`, `TempBans_perm` | as the components above, without faults | *violated*: `TermsStack`, `LoneTransferCommits`, `PermanentBanStays` (section 6). |

The type invariants are proved (section 4) or stated beside their module's specification.

### Fairness

Weak fairness, of these only: a coroutine that can run is scheduled (asyncio's
queue); a timer or a `tasks.loop` fires; an HTTP call, an executor or a stream's
look-up returns or fails; a waiter of a semaphore is admitted in its turn; a lease, a
term, a grace period or a cooldown grows old; a track that is heard ends; a process
that died is restarted (`restart: unless-stopped` in `docker-compose.yml`). Nobody is
ever forced to press a button, to give a command, to speak or to appeal, and faults
are never fair; that a provider is well again is an assumption of the property
that needs it (`CallsGoThrough`). No strong fairness is used.

Deadlock is checked in the bridge. The others may stop: when every form, warn,
command or transaction that the bound allows has been used, there is nothing left to do.

## 4. What is proved

| Module | Theorems | For every |
|---|---|---|
| `CommandBridgeProofs` | `TypeCorrect`, `AtMostOnce` (`NonIdempotentAtMostOnce`), `ShownResultIsFinal`, `LifecycleImplemented` (`ImplementsLifecycle`) | finite set of commands, limits, number of faults; the last two assume `ExecutorsWithinLease` |
| `PanelProofs` | `RolesCorrect` (`HoldersKept`), `SlowOnce` (`SlowActsOnce`), `AnnouncedInOrder` (`AnnouncedOnce`) | number of coroutines, transactions, changes and faults; games, items, additions, announcements a poll |
| `OutboxProofs` | `TypeCorrect`, `AtLeastOnce` (`HandedBeforeMarked`), `RoleShown` (`LatestRoleShownUndisturbed`), `SettingsKept` (`SettingsHold`) | events, subscribers, batch size, crashes; rows, starting overrides, jobs, faults, writes |
| `SchedulerProofs` | `TypeCorrect`, `LastTimerStands` (`LastStands`), `PlayedRight` (`PlayedRightAlone`), `NobodyCutShort` (`NotCutShort`), `ClubRulesHold` (`ClubRulesAlone`) | keys, tasks, calls; tracks, loaders, length of the history, commands; sessions, coroutines, channels; movies, nights, members, number of crashes |
| `AppealsProofs` | `TypeCorrect`, `EffectsOrder` (`EffectsFollowCommit`), `AppealsInOrder` (`AppealRulesAlone`), `SoleResolverFinal`, `SoleFormOnePending` | appeals, forms, decisions, number of crashes; the last two speak of decisions, or forms, one at a time |
| `MembersProofs` | `TypeCorrect`, `LadderNeverTooHarsh` (`NeverTooHarsh`), `NobodyPunishedEarly`, `LadderClimbed` (`LadderAlone`), `FindsFair` (`FairPlay`), `NobodyElseKicked` (`OthersStay`), `MembersCasesKept` (`CasesKept`), `RoomsWithinCap` (`WithinCap`) | warners, threshold, warns; members, finds, requests, faults; joinings, servers, number of moves, rooms, any cap |
| `RelationshipProofs` | `TypeCorrect`, `NoUpdateLost` (`NoLostUpdate`), `OneHolder` (`OneTitle`), `TitleIsExceeded` (`TitleByExceedingAlone`) | members, transactions, amounts, threshold |
| `LedgersProofs` | `ActivityCorrect` (`ActivityCounted`), `SeatsKept`, `BatchesKept` (`BatchesHold`), `TermsAdded` (`TermsStackAlone`), `CopiesFollowed`, `PersonasCorrect` (`PersonasHold`) | listeners, channels, ticks, counts; keys, seats, servers, activations, grants, days; requests, personas, reloads, faults |

The assumptions are the named `ASSUME`s of the modules: bounds and the cap on rooms are
naturals, coroutines, movies and members are finitely many, an hour has ticks, a key's seats are
a number, what an operator grants is a day or has no end, and values that stand for "none", or
for a start under way, are not elements of the sets they are added to. TLC evaluates them in
every run. Of news they say that there are items, and that a poll announces at least one of
what is new (`_MAX_ANNOUNCE_PER_CYCLE` is 5).

`OthersStay`, `CasesKept`, `WithinCap` and `NotCutShort` are the safety halves of `LeaversGo`,
`ErasedIfLeft`, `RoomsDoNotPileUp` and `LeavesRightly`.

The arguments, each an inductive invariant that TLC has checked on the run before it
was proved:

- **At most once.** `effects[c] <= 1` is not inductive: it does not say why a second
  claim is impossible. `OnceInv` rests on `attempts`, which counts the claims and never
  decreases: a row not yet claimed is in no sweeper's snapshot, has no coroutine
  at work and no effect; a row claimed at most once has at most one coroutine at work,
  and no effect before that one acts; a non-idempotent row is pending only before its
  first claim. `SlowOnce` shows that the instance in `MCPanel` is the same
  specification and cites the theorem.
- **Final answers.** `LeaseInv`: of a row claimed once, a coroutine at work means
  that it is running, that its lease is alive and that no sweeper has it in its
  snapshot. Hence no recovery can touch it, and its finish comes first.
- **Refinement.** From both: of a non-idempotent row every action of the bridge is a
  `Submit`, a `Take`, an `End` or a stutter.
- **Roles.** `Latest`: the last event on its way, or what has been heard if there is none,
  is what Discord shows. `OneSync`: undisturbed, one sync at most is under way; it takes
  away every status the member wears but the right one (`Removing`), or the member wears
  none and gets the right one (`Adding`). `AtRest`: when there is none, the member wears
  their status, or has come back without any and is about to get it. `CopyInv`: the one
  transaction under way writes what was heard last.
- **Outbox.** `Owed`: what a publisher has still to hand over, together with what
  has been handed, is every subscriber. A row is marked only where nothing is owed.
  `RoleInv`: undisturbed, one publisher at most is at work, on an event of its own use
  case, and Discord shows the role of the last event whose handler has run.
- **Timers.** `Entries`: the registry names only tasks of its key that are not
  gone, so the callback that removes an entry removes its own.
- **Player.** `MusicInv`. One stream at a time: what is heard, a callback on its way and a
  loader (looking up, or announcing a failure) take turns, so that a callback finds the state
  its track left (`InTurn`, `OneLoader`). No track is lost: a step back has its callback due
  and the current track in the queue (`BackDue`); a seek has its callback or its answer to come
  (`SeekDue`); and a track that is about to be replaced has a place in queue or history
  (`Replaceable`, `Placed`).
- **Music room.** `StayInv`. A session that is heard is on air, nobody looks for its stream, or
  announces that there is none, and otherwise one coroutine at most does (`HeardIsCurrent`); so
  a session that the idle timer finds without a current track is not heard. `Counted` makes
  sure that a number is left for each session still to be made, so that no session is taken for
  another.
- **Film club.** `ClubInv`, as long as no two transactions have overlapped: one at most has
  read and not yet written, and what it has read still stands (`ReadStands`: no night is active
  when one is about to be inserted, a movie about to be removed is listed, the movie that is
  rated is open, the ratings that were averaged are all there are). A crash drops what was read
  and leaves the rows.
- **Appeals.** `Committed`: a decision past `save` has a resolved row, and a resolved row
  stays resolved. `SavesPending`: a decision that is alone saves only a row that is
  still pending. `FormsApart`, `ResolversApart`: what a lone form or decision has read
  stays true until it writes, and what it tells is the verdict of the row (`OwnVerdict`).
- **Warns.** A warner that has counted `p` earlier punishments finds at least `p` when
  it commits (cases are never deleted), and the ladder is monotonic. `LadderInv`, while
  warns come one at a time: one is under way (`OneAtATime`), what it has counted is what
  there is (`UpToDate`), and as many warns have been spent as the cases cost
  (`InStock`, `Affordable`).
- **Finds.** `FindInv`: a request that has won holds the lock of its find's row, which
  nobody owns yet (`Winning`); the attempt and the reward are written in that transaction
  (`Rewarded`); a member whose requests have not overlapped has at most one request, and it
  has seen every attempt of theirs (`Single`, `Untried`).
- **Stay or leave.** `Answered`: a row, or a kick that the loop has taken, is the answer of the
  present stay, unless it is `torn`: the member came back while one was there, or answered after
  the loop had taken it.
- **Departures.** `Unforgotten`: a server the bot is on has no mark, or the handler of its return
  is still to clear it, and the sweep has it in hand only if it came back too late for the list.
- **Rooms.** `OneOnItsWay`: while no two events of voice overlap one room at most is being made,
  and it was begun below the cap. The registry is finite (`RegistryIs`), and only a room that is
  on its way enters it.
- **Points.** `LockInv`: a transaction past its SELECT ... FOR UPDATE holds its
  rows, and what it has read of them is what is committed; the rows it sets back
  to what it read without a lock are the two of the title. Hence a commit writes the
  sum of the ledger, except for those two. `TitleInv`: of the transactions that have
  given the title and not committed there is one at most (the index makes the
  others wait), and no committed holder is outside the rows it rewrites. `AloneInv`:
  what a lone transaction has read of holder and challenger is still so when it decides.
- **Voice and counters.** What is paid, together with the minutes that may still be paid, is
  never more than the ticks that saw the member, and what a restart may repeat is counted
  apart. What was counted is in the buffer, with a flush or stored.
- **Keys.** `SeatsInv`: the lock of the batch covers the look at the seats and the insert
  (`Locked`), so a seat that was free is free when it is taken (`SeatFree`). `BatchInv`:
  who pays for a server's tariff is an operator, or sits on a seat of the batch, or is
  about to be stripped (`Paid`, `Stripped`).
- **Terms.** `TermInv`, which claims something only while nothing has come in the way. The
  bot's copy is heard of (`Hearing`: what has been read of a row is still so, and a row that
  nobody reads is right), or is read as a whole and by one job only (`Reloading`). The one
  activation under way has found its server's row settled, so what it was shown is what is
  committed, and until it commits its end is that plus a term (`Added`), also after midnight.
- **Personas.** `CopyInv` numbers the commits: a process whose copy is behind has a NOTIFY
  due, is not connected, is down, or is reading. `ReviewInv`: while requests come one at a
  time on a current copy, what a request is about to commit was sound about the table
  that it looked at, which is still the table (`Sound`).
- **Settings.** `CopyInv`, for a process to whose copy no two changes raced: what is under way
  is a reload of everything, or a task for one NOTIFY with or without the writer's own change
  (`OneChange`); what has been read is still so (`StillSo`); and where nothing will be read
  the copy is right already (`Right`). It is needed because the property speaks only of
  copies at rest. `WriteInv`: a write under way was checked against what its writer's copy had,
  so one that saves over an unchanged row leaves a valid model.

- **News.** `NewsInv`. A row's mark is not behind its thread, except for what lost its mark in a
  crash and what is sent and about to be marked (`RowsReached`); what is left of an update is in
  order and newer than all that its thread was told (`Coming`); a row is in one place only
  (`EachOnce`), and a thread belongs to one addition until it has a row (`NewThreads`). That
  a page can be put in order at all is proved without induction: map each item to the number of
  items that are not newer; this is injective into `1..n`, hence onto, and its inverse is the
  order.

**Only model-checked.** Liveness under fairness and everything with ENABLED
(`EveryCommandEnds`, `EventuallyHanded`, `EverythingCloses`, `QueueDrains`, `TempBanEndsCalm`,
`EveryTransactionEnds`, `CallsGoThrough`, `TalksRememberedOnce`, `EveryItemAnnounced`,
`AnnouncementsClose`, the `Unbroken` ones, and the halves of `LeavesRightly`, `LeaversGo`,
`RoomsDoNotPileUp` and `ErasedIfLeft` that say what happens in the end) is beyond the prover. So is
induction over data: `CommandsKept` compares a server with what a fold over the calls of a
command makes of it.

## 5. What is not modelled

Each part left out has an entry with its reason in `PROJECT.json`: audio sources and their
cache, achievements, cross-server bans, the weekly digest, surveys and onboarding, the API's
sessions and permissions, the web panel, the renderer, the client and its configuration,
migrations and backups, clients of other services. They are input and output, reads, texts,
or rows of one member that no other step reads; the bulk of the repository's lines (phrases,
embeds, forms, views, wiring) is of this kind. Within the modelled parts the following is
left out, because no property depends on it: texts, embeds, logging, localisation;
permission checks before a handler; the watchlist's votes, text reviews, reminders and the
forum post of the film club; the daily cap, freezing and notes of relationships; kick, mute
and clear; the parsing of keys, settings and feeds (verdicts on one value).
PostgreSQL and Discord are external: their locks, NOTIFYs, unique index and
deadlock detector, and calls that succeed or fail, are modelled as the code uses
them.

## 6. Where code and words differ

Three with a run that TLC finds violated:

- *An award that exceeds the holder is refused* (`Relationship_refused`). The new
  holder is saved before the old one (`points.py:121` and `:218`), the second `save`
  flushes the first, and the unique index refuses it: the award is rolled back. The
  docstring at `_common.py:49` and `tests/test_award_points.py` expect it to commit;
  the test's repository has no index. Decay saves in the other order and works.
- *A permanent ban is lifted by the loop* (`TempBans_perm`). An approved appeal unbans
  without removing the row of `temp_bans` (`cogs/appeals.py:202`), and a later ban does
  not remove it either, although `command_executor.py:230` says that the loop
  does not lift permanent bans.
- *A paid term is lost* (`Premium_terms`). `redeem` (`premium_keys/service.py:308`) adds the
  term to the end that the process's copy shows, under the lock of the key's batch only: two
  activations at once, or one whose copy is not current yet, write the same end.
  `docs/plans/premium-keys.md:257` says that a term is extended and not overwritten.

Others, seen while modelling; several are the reason for the form of a property.

Bridge, events, timers:

- Critical events of the panel process reach no subscriber and are marked published,
  although `domain/events/base.py:21` promises delivery: `HandedBeforeMarked` speaks of
  the bot's events.
- The role handler is to bring the member to the computed role (`role_sync.py:80`) and takes it
  from the event; the bus and the dispatcher do not keep the order of events:
  `LatestRoleShownUndisturbed`.
- Two recoveries that act on one snapshot can give a command one claim more than
  `DEFAULT_MAX_ATTEMPTS` (`bridge.py:45`).
- `rules.publish` run again after a crash posts the rules twice, and `music.repeat` moves the
  mode twice; neither is in `NON_IDEMPOTENT_COMMANDS`, whose comment says that the other
  commands are idempotent. Overlapping runs of `role.import` or a preset create roles twice.
  After a restart the listener starts before the gateway (`main.py:247` and `:270`): a command
  that is repeated before the bot knows the server ends as failed (`command_executor.py:94`)
  with its first half done. `CommandsKept` excepts them.
- With three calls for a key two timers can be alive, although `scheduler.py:3` says
  that a new timer replaces the previous one: the first task's callback removes the
  entry of the second while the third is scheduled.
- Two syncs, the second begun before the gateway's update of the first, leave two status roles;
  the copy of roles misses what changes while the gateway reconnects without a restart, and
  overlapping transactions leave stale rows: `HoldersKept`.

Moderation and members:

- Two moderators can both resolve an appeal (`appeals/use_cases.py:77` rules it out):
  `AppealRulesAlone`.
- Decay writes the rows of holder and leader as it read them without a lock. The
  comment at `repositories/relationship.py:340` leaves the transfer to the unique index,
  which guards the title and not the points: an award to either of the two that commits
  in between is set back. `NoLostUpdate` excepts them (`exposed`).
- The expiry of a find closes an announcement that is being claimed; a find whose
  announcement failed blocks the next one until it expires; a claim that would move the title
  is refused like an award.
- A due kick is deleted and committed, and then dropped if the module is off by then or the
  member is not in the bot's cache (`staykick.py:182` and `:184`): `LeaversGo` excepts it
  (`broken`).
- A movie that `/movie remove` has read as listed is deleted although its ratings have been
  opened meanwhile (`cinema/use_cases.py:136` and `:140`): their card never closes.
  `EverythingCloses` excepts it (`removing`).
- A room stays when Discord refuses its deletion, or when the bot dies before the row is
  written: `RoomsDoNotPileUp` excepts the `strays`.
- The sweep of departures erases servers it listed before the bot came back, and a failing
  erasure ends the pass, although `privacy_service.py:170` says that it does not stop the
  others; a server left or joined while the bot is down is never marked or cancelled:
  `ErasedIfLeft`.
- "Удаляем ВСЕ строки этого сервера" (`privacy_service.py:8`): the list of tables leaves out the
  games tracked on Riot, unlocked achievements, tiers, trials, personas, seats and attempts of
  keys, which stay for good (`other` in `Departures`). `ErasedIfLeft` speaks of the tables of
  the list.
- `/forgetme` erases stored summaries, and the session in memory is summed up and stored later.

Keys, settings, personas, counters:

- A tariff without an end is overwritten by a redeemed key; the trial overwrites a longer
  term; a hard revocation also takes away terms of other batches.
- A write of a value equal to the one it has read writes nothing (`guild_settings.py:609` and
  `:638`), though a `reset` may have removed it since; its process nevertheless takes it for
  stored until the next change. `SettingsHold` excepts it (`Overtaken`).
- `reset` can leave a stored pair of settings that the model forbids, and the model that
  `resolved()` keeps survives a `load_all`: `SettingsHold` speaks of the writes that are
  checked.
- A submission can be edited after the operator has looked at it; a deletion that races with
  an approval leaves an assignment to a persona that is gone; an operator can assign drafts.
  Overlapping reloads can install the older copy last, and a reload that fails on NOTIFY is not
  repeated: `PersonasHold`.
- A voice award is repeated after a crash between award and save: `ActivityCounted` counts
  such hours apart.

Music, AI, news:

- Overlapping loaders can leave a heard player without a current track, so that the idle timer
  ends it; a track queued while the failure of another is announced (`player.py:339`) is such a
  case, as `_play_next` clears `current` after the announcement (`crowded`, `jammed`); a failed
  message, or a radio without sources, cancels the countdown without starting it again; a
  `voice.play` that is refused leaves `current` set; the last listener who leaves during the
  connect is not noticed; a track can be put into a session that has ended.
- A half-open circuit lets every waiting call through; decisions to chime in pass the breaker by
  (`ai_chat/service.py:389`); a long session's transcript is cut at 4000 characters before it is
  summed up (`:248`), and what is cut off is not remembered; with one place the queue leaves
  none for people.
- Only the newest five items of a poll are announced, older ones are skipped; when two
  additions race, GitHub's and Steam's extra thread stays and Riot's is deleted. An item is
  sent again after a crash between sending and marking: `AnnouncedOnce` excepts it.

## 7. The plan

Done: the models of section 2 with their runs; proofs of all the safety properties the runs
check but `CommandsKept`.

What may follow: `CommandsKept` and liveness, once a prover does induction over data and
ENABLED; the parts of section 5, should they get state that others read.
