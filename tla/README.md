# Fishing game: specifications, checks and proofs

TLA+ models of the fishing game of this repository (a FastAPI game engine with
PostgreSQL and Redis, its worker process, a Twitch bot, a Discord gateway), their
TLC runs, and theorems checked by TLAPS. Every definition is translated from the
source; `PROJECT.json` maps each one to the lines it stands for, lists each
component with its status and each hazard at its line, and names what the runs
check and what is proved.

Contents: 1 the system, 2 the modules, 3 the runs, 4 the proofs, 5 where code and
documentation disagree, 6 what is not modelled.

## 1. The system

Paths are relative to `src/services/`.

| Part | State | Operations | What is hard |
|---|---|---|---|
| Conversions `game_engine/services/economy_service.py` | operation, outbox event, viewer's mass (PostgreSQL), a lock per viewer (Redis) | `sell_fish`, `buy_fish`, refund, replay | two stores without a transaction, awaits between check and use, lost replies |
| Outbox worker `.../eventing/se_job_runner.py` | outbox events with leases and attempts | poll, claim, write, retry, dead letter, lease recovery | several runners, crashes in a write, retries |
| Reconciliation `.../discord_admin_service.py` (end of file) | the same rows | retry, complete, compensate, dead letter | third writer of the same two rows |
| Pricing `game_engine/domain/economy.py` | none | price of a mass, largest mass of an "all" command | decimal rounding, provider cap |
| Casts and robberies `game_engine/services/fishing_service.py`, `services/fishing/` | viewers' rows, journal of casts, stock, ruleset snapshot | cast, robbery, replay, rejection, failure record | row locks in two orders, cooldown after the commit, a robbery locks a second row late |
| What a cast is worth `services/fishing/engine.py`, `domain/logic/` | none | draw, draw again, experience, item, floors, defences | order of effects, clamps that may pay |
| Cooldowns `infrastructure/repositories/cooldown_repo.py` | a Redis key per viewer | set, get | Redis and PostgreSQL change separately |
| Journal, statistics, retention `infrastructure/repositories/fishing_cast_query_repo.py`, `services/retention/` | casts, daily rows | page, summarise, rebuild, delete | two workers rebuild one day, pages over moving rows |
| Fishing events `services/eventing/event_*.py`, `channel_repo.py` | event rows, Redis sorted set, job and channel keys | start, stop, toggle, update, delete, poll | PostgreSQL and Redis change separately |
| Integration `services/streamelements_integration_service.py`, `services/streamelements/health_runner.py` | credential, status, failures, due time, probe lease | connect, test, disconnect, probe, rebuild | verdicts about a replaced credential, row locks over awaits on one event loop |
| Inventory and mailbox `infrastructure/repositories/inventory_*.py` | rows per slot, equipment, parked rows, use records | grant, use, equip, trash, claim, sweep | capacity found out half-way, a replayed use |
| Items and stock `discord_admin_service.py`, `loot_table_service.py`, `config_repo.py` | definitions, drop entries, stock | upsert, archive, roll, reserve | selection before the lock, dependency cycles |
| Modifiers `player_modifier_service.py`, `domain/modifier_resolver.py` | rows of a stat | set, switch, remove, resolve | order of contributions, limits, stale forms |
| Administration `discord_admin_service.py`, `admin_service.py`, `idempotency_service.py` | configuration, bindings, locations, events, records of keys | edit with an expected version, replay | rows read before they are locked, an older API without locks or versions, repeated attempts |
| Travel `travel_service.py` | a viewer's location | list, choose, move | writes without looking again |
| Bot commands `bot_gateway/` | tasks of messages, tasks of delayed casts, orders of points | `!fish`, extra casts, points, timeouts | keys of orders, lost answers |
| Bot channels `bot_gateway/channel_reconciler.py` | joined channels, last desired set, wake and rejoin flags | start, reconcile, join, part | reconnect during a reconciliation |
| Discord forms `discord_gateway/app/interactions/` | session in Redis, messages with buttons, drafts | open, page, preview, confirm; the item wizard; the list of effects | double presses, expiry, lost answers, several clients |
| HTTP routes, frontend, end-to-end runner | none of their own | routing, user interface, test tool | nothing the models reach |

How they interact. The bot and the Discord gateway call the engine's HTTP API; a
call runs in one SQLAlchemy session and commits at its end (`get_db`), with
callbacks after the commit; the economy commits several times within a call so
that no transaction is open while it awaits StreamElements. `worker_main.py` runs
the outbox worker, the event runner, the health runner, retention and statistics
in another process; PostgreSQL's `FOR UPDATE SKIP LOCKED` lets several such
processes run. Casts and conversions meet on `users_progress.current_mass`;
conversions, the worker and the administrator on `economy_operations` and
`outbox_events`; casts and administrators on pools, events and stock;
conversions and the health runner on `channel_integrations`. Redis holds only
locks, cooldowns, schedules and sessions of forms. Two facts of the session shape
many of the models: isolation is READ COMMITTED, and `expire_on_commit=False`
together with `with_for_update` without `populate_existing` means that a row
locked a second time is *not* read again.

What makes each part correct:

- Conversions: settled on both sides or on neither, never paid twice, at most
  one unsettled per viewer, an unknown outcome is settled only by a human, no
  change of mass lost.
- Worker: every event leaves the outbox; event and operation agree.
- Pricing: "all" is the largest mass that fits; no profit from a round trip.
- Casts: a fish for each resolved row and none besides, no cast within a
  cooldown, a mass is the sum of what was reported, nobody waits for ever.
- Journal: one row per bucket and day, sums agree, each cast is named once.
- Events: at most one active, each deadline is met though Redis forgets.
- Integration: a verdict is recorded only for the credential it was formed on,
  the engine never waits for itself.
- Inventory: units are neither lost nor doubled; stock is never oversold.
- Administration: a request is applied once, an edit replaces exactly what its
  author saw, what is stored can be read.
- Gateways: a form saves what it showed, the answer given is true; the bot is in
  the channels the engine wants.

## 2. Modules

| Component modules | Model |
|---|---|
| `EconomyPricing` (`PricingCases`) | prices, caps and the "all" inversions, over integers |
| `EconomySaga` | requests, workers, administrator, provider and fishing as one transition system |
| `Conversion`, `EconomySagaRefinement` | what the economy promises of a conversion in nine actions, and the mapping under which the saga implements it |
| `FishingCast` | the transaction of a cast, of a robbery and of an item's use |
| `CastResolution` | what one cast comes to: effects, experience, floors, defences, journal |
| `CastLedger` | the journal counted, summed, paged through and aged out |
| `EventSchedule` | event rows with their Redis schedule, administrators and the runner |
| `IntegrationHealth` | connect, test, disconnect, conversions and health runners on one row |
| `InventoryPlacement` (`PlacementCases`), `Inventory` | where granted units go; uses, equipment, mailbox |
| `ModifierResolution` (`ModifierCases`), `PlayerModifiers` | how contributions combine; the rows they come from |
| `AdminRequests` | one request of an administrator: record, lock, operation, answer, repeated attempts |
| `ChannelConfig`, `Locations`, `ItemCatalog`, `PlayerModifiers` | extend it with their operations and with the programs that use no key |
| `GuildBinding` | extends it with account links and server bindings |
| `ItemDraft`, `ItemWizard` | the draft of an item, and the flow that saves it |
| `EffectForms`, `EffectsEditor`, `RewardForms` | forms of effects and rewards against the engine's schema, and the list of effects |
| `FormFlow` | every other form: pages, session, preview, confirmation, attempts |
| `ChatActions` | a `!fish` with what its answer asks the bot to do |
| `ChannelMembership` | the bot's reconciler over reconnects, failures and changes of wishes |

| Proof modules | Prove |
|---|---|
| `PricingProofs` | what the pricing operators return, for every rate and scale |
| `EconomySagaInvariant`, `EconomySagaProofs` | the saga's inductive invariant, its consequences and the refinement |
| `FishingCastProofs` | casts, cooldowns, masses and stock |
| `FormFlowProofs` | stale forms and true answers; what the item wizard writes, of which it has its own instance |
| `EventScheduleProofs` | one active event |
| `LocationsProofs` | requests, versions, overrides and reviews of locations and events; the configuration, bindings, modifiers, stock and the item graph, each an instance |
| `IntegrationHealthProofs` | verdicts on a credential |
| `ChannelMembershipProofs` | the bot: its books and its session after a reconciliation; what a viewer's casts bring (`ChatActions`, as an instance) |

### Composition: the modules TLC runs

`EconomySagaMC`, `CasesMC`, `CastsMC`, `HoldingsMC`, `AdminMC`, `GatewaysMC`,
`ContentionMC` and `ProgressMC` give the components their instances. The
components of one such module share no variable, except that administrators'
components share the request machinery of `AdminRequests`. A variable `scenario`
is chosen at the start; a behaviour is of the one component the scenario names,
the others rest in `None` (or, where a component is EXTENDED, in its initial
state). Nothing is lost by that: the components' steps are independent, so a
behaviour of all of them is an interleaving of behaviours of each, and each
property is about one component. Where components do meet (mass of casts and
conversions, bindings and channels of the bot, events and locations), the model
of the one contains what the other does to it as actions of its own: `Catch` in
the saga, travel and the older API in `Locations`, `UseItem` in
`FishingCast`, changes of wishes in `ChannelMembership`.

`CastsMC`, `GatewaysMC`, `AdminMC`, `HoldingsMC` and `CasesMC` EXTEND the component that has
proofs (`FishingCast`, `FormFlow`, `Locations`, `IntegrationHealth`,
pricing): its properties are then
the very definitions the theorems are about. Scenarios of that component
conjoin `…Begins` to its `Init` and `…Goes` to its `Next`, which keeps one aspect
within reach of TLC (casts with cooldowns but no robbery, then robberies without
cooldowns); the theorems know no such restriction. `InstancesAssumption` of each
module states the assumptions of all instances, and TLC evaluates it.


### The saga

State and code:

| Variable | In the program |
|---|---|
| `mass` | `users_progress.current_mass` |
| `points` | the provider's balance, as `streamelements_stub/main.py` keeps it |
| `op` | the row of `economy_operations` of an idempotency key: state, type, argument, mass and points, `external_applied`, whether `internal_applied_at` and `compensated_at` are set, whether a `response_payload` is stored |
| `event` | the row of `outbox_events`: state and attempts |
| `lock` | the Redis key `economy:{channel}:{user}` and whose token it holds |
| `req` | a request between two awaits: program counter, arguments, the mass its session remembers (`snap`), the provider's last answer |
| `worker` | the same for an outbox runner |
| `paid`, `moved`, `owed` | history, not in the program: net applications by the provider, net movements of mass, and the mass a viewer would have had without races |
| `spent` | history: how much of each bound is used up |

An action is the code between two awaits, or from a commit to the next await.
`Begin` is everything up to the first await, `CreateSell`/`CreateBuy`/`GiveUp`/
`RecordOverCap` what follows the balance, `RequestWrites` the provider's side of
the PUT, and one action per `except` clause of `_execute_sell` and
`_execute_buy` what follows the answer. `SaveOfBuyFails` starts
`_compensate_buy`, whose awaits give the four `Refund…` actions. The worker's
`_run_once` is split in the same way. The administrator's four actions are those
of the reconciliation API. `Crash` and `WorkerCrash` may happen anywhere.

The answers of the provider. A PUT is applied and confirmed (`ok`), applied with
a reply that has no balance (`bare`) or is not JSON (`garbled`), applied or not
with the reply lost (`lostApplied`, `lost`), or refused in one of three ways.
`Verdict` is what the adapter's exceptions make of it; the request cannot see
the outcome, only the verdict.

A session's stale copy. `SessionLocal` has `expire_on_commit=False` and
`_lock_user` does not use `populate_existing`, so `SELECT ... FOR UPDATE`
returns the object that was loaded before the await. `snap` is that copy and
`MoveCachedMass` writes from it; the worker and the administrator open a session
of their own, and `MoveMass` reads the row.

Abstractions:

- Time. A lease (60 s) and the Redis lock (120 s) end only when their holder is
  gone. A live call cannot outlast them: the client's connect, write, read and
  pool timeouts add up to 19 s. A process suspended for a minute is not modelled.
- The delays between attempts; the order in which the worker takes events.
- Provider-attempt rows, the journal of events, metrics and provider health.
- A balance outside the provider's range in a reply is not distinguished from
  an unusable reply.
- Disconnected, undecryptable and rebound integrations are not state: each may
  show at any claim (`ClaimUnconfigured`, `ClaimRebound`).
- The administrator knows: a write that was applied is completed, one that was
  not is retried or compensated (guards on `paid`). Dead-lettering is always
  possible. What a wrong decision does is not the program's to prevent.
- The viewer and the channel of a sale are always found: no code deletes one
  (`se_job_runner.py:352`).
- One channel, one pair of rates during a run.

The abstract specification. `Conversion` knows five functions of the key: a
status, a kind, an owner, and the two sides. A sale begins with its mass taken,
the provider pays once and takes back only what a purchase cost, a conversion is
completed only when paid and undone only when not, a human may be asked, and a
viewer has one unsettled conversion. `EconomySagaRefinement` reads the status off
the operation row (`StatusOf`); everything else of the saga, the two programs
that may carry an operation, the locks, leases, retries and lost replies, is
invisible there.


### The membership

State and code (`bot_gateway/channel_reconciler.py`):

| Variable | In the program |
|---|---|
| `engine` | the engine's answer to `desired_twitch_channels`, a login per identity |
| `irc`, `connected` | the channels of the IRC session, and TwitchIO's `connected_channels` |
| `unready` | a new session whose `event_ready` is not dispatched yet |
| `joined`, `lastDesired` | `_joined`, `_last_desired` |
| `force`, `wake`, `stop` | `_force_rejoin`, `_wake_event`, `_stop_event` |
| `task`, `closer` | `_task`, and what `stop()` awaits |
| `co` | the activations of `start` and `_run`: program counter, the locals of `reconcile_once` and `_apply` |
| `cpu` | the coroutine that runs until its next await (asyncio has one thread) |
| `disturbed` | history: a new session has not yet been reconciled |
| `spent` | history: how much of each bound is used up |

An entry of `_joined` is keyed by an identity or by `bootstrap:<login>`; the
model keys the latter by the login itself. An action is one iteration of a loop
of `_apply`, up to its next await: `Rejoins`, `KeepsEntry`, `AdoptsEntry` and
`NewEntry` are the four ways through the join loop, `JoinReturns` what follows
the await, `Leaves` and `PartReturns` the same for the part loop. `books` holds
the entries a coroutine changes after its await, chosen before it as in the
code. `Fetches`, `FallsBack` and `FetchFails` are the three outcomes of the
request, `CommandRaises` a JOIN or PART that raises; nothing here is rolled back.

TwitchIO is external: it joins `Initial` on each connection, may keep its old
`connected_channels` (`StaleCache`) and dispatches `event_ready` once for a
session. A command either reaches the session or raises.

Abstractions: the content of the status report, metrics and log lines; the order
of the entries within a loop (any order); the loop's interval, which may be over
at any time; Twitch's rate limit for JOINs, one of the reasons for a raise.


### The other components

Each module's header and the comments of its VARIABLES say what its state stands
for; `PROJECT.json` maps every action to its lines. In short:

| Module | State in the program | One action is |
|---|---|---|
| `FishingCast` | rows of `users_progress` (`users`), `fishing_casts` (`ledger`), `remaining_quantity` (`stock`), the ruleset snapshot, row locks (`holder`), cooldown keys (`redis`); `job` is a worker's transaction with the rows its session remembers | the code from one row lock to the next, the commit, the write of the cooldown after it, a wait for a lock, PostgreSQL's break of a deadlock, a crash |
| `CastResolution` | the locals of `calculate_result` and of the part of `process_cast` that applies it | one effect, one defence, one stage of the calculation |
| `CastLedger` | `fishing_casts`, `fishing_stats_daily`, idempotency records, what a rebuild has read, an administrator's cursor | a statement of the rebuild, a retention category with its commit, a page |
| `EventSchedule` | rows of `fishing_events`, the row locks, the job set and the channel's key in Redis | a request's database part, its Redis part, its commit; the runner's read, claim and completion |
| `IntegrationHealth` | the row of `channel_integrations` (`row`), its lock and the channel's, who runs on the engine's event loop (`loop`), the zset entry (`due`) and the probe's lock (`lease`) in Redis | the code between two awaits of a request, or between two transactions of a runner |
| `Inventory` | rows by slot, `equipped_items`, parked rows by age, use records | a whole operation under the player's row lock; what is read before it is a step of its own |
| `ItemCatalog` | definitions with what they grant, loot entries with their stock, a roll between its selection and its reservation | an operation's read before the lock, its work under it, its commit; a roll's selection, reservation and end |
| `PlayerModifiers` | the rows of a stat by identity with version, time and switch | an operation under its row lock; time passing over a row |
| `AdminRequests` | `idempotency_records`, the handlers of the engine, attempts of the gateway | receiving an attempt, looking its key up, committing operation and record, losing the race for the key, a stop of the engine |
| `ChannelConfig` | `config_version`, `custom_params`, `messages` of the channel, the copy a handler or the chat's cooldown command has read | `_authorize`'s read, its lock, the merge and commit |
| `GuildBinding` | account links, OAuth states and rate counters in Redis, bindings, `twitch_bot_enabled` | the same, and each Redis call of the linking |
| `Locations` | `reward_pools`, `fishing_events`, `current_location_id`, the channel's row lock | reads under the lock, commit; a whole call of the older API up to its wait for a row; travel's reading and writing |
| `ItemWizard` | the session in memory and in Redis, the card and form on the screen, the confirmation being served (what became of its view, what it sends), attempts given up | a click, also while a draft is saved, a submitted form, an answer, a lost attempt, time |
| `ItemDraft`, `EffectForms`, `RewardForms` | a draft or an effect, the open form and what was typed | a control, a page, a submission |
| `EffectsEditor` | the list, the selection, the mode and the control's options in the editor's object; the card each client shows | a click with its re-rendering, whose answer may be lost |
| `FormFlow` | sessions, messages with buttons, the form on the screen, confirmations under way, the engine's entity | a command, an opened page, a submission, a press, an attempt, an answer, time |
| `ChatActions` | a handler task per message, its request, cooldowns, journal, orders of points, timeouts | up to a handler's next await; the engine's serving; a lost answer |
| `EconomyPricing`, `InventoryPlacement`, `ModifierResolution` | none: functions | the function itself, evaluated for every small input by `PricingCases`, `PlacementCases`, `ModifierCases` |

Idioms the modules share. A row that a session has read stays in the handler's
or job's record (`copy`, `seen`, `snap`): a later `FOR UPDATE` of the same
session locks the row and returns that copy. An open transaction writes at its
commit only, so a crash needs no undo. Random numbers are choices. Payloads,
names and messages are model values. History variables, marked so where they are
declared, are written and never read by actions, except to bound behaviours.

## 3. Runs

Twelve configurations; the bounds are constants of the modules, named there, and
given values in the `.cfg` or in the `INSTANCE`s of the run's MC module.

| Run | Question | Bounds | States |
|---|---|---|---|
| `saga_safety` | do conversions settle on both sides or neither, is one open at a time, is the abstract conversion implemented | 1 viewer, 2 keys, 2 requests, 2 workers, 1 outside earning, 1 intervention, 2 attempts | 187 459 |
| `saga_liveness` | does the outbox drain, is the lock returned | 1 viewer, 2 keys, 1 request, 1 worker, 1 catch | 65 158 |
| `cases` | are the pure functions right, do forms and schema agree | balances 0..5, 7 rates, masses to 7; 3 slots, stacks of 3, 4 units; 3 modifiers; every draft, effect and reward of small numbers | 2 926 931 |
| `casts` | rows, cooldowns, masses, stock; what a cast comes to; the journal | 2 viewers, 3 requests, 2 workers, 3 ticks, 1 crash, 1 loss, 1 unit of stock; 2 to 4 journal rows, 2 workers | 3 961 668 |
| `holdings` | units and replays; verdicts on a credential | 4 items, 2 slots, 2 requests; 2 requests, 2 runners, 2 credentials | 571 222 |
| `admin` | are requests applied once, against what their authors saw | 2 handlers, 3 to 6 keys in each scenario, 2 attempts where a retry matters, 1 call of the older API | 1 437 291 |
| `gateways` | do forms, wizard, editor, chat and channels do what they show | 2 commands, 2 presses, 2 attempts, 4 messages; 1 or 2 items that exist; 2 clients; 2 chat messages; 2 identities, 1 reconnect | 2 830 031 |
| `contention` | does every request end, is what is due probed | 2 requests, 1 runner; 2 casts, 2 workers that may deadlock | 99 904 |
| `progress` | is what was begun finished | 2 events, 2 administrators; 2 parked rows; 2 workers of statistics; 2 rolls; 1 chat command; 2 presses; 1 reconnect | 58 111 |
| `saga_race` | is a catch ever lost (it is) | 1 key, 1 request, 1 catch | violation |
| `config_race` | does a form of the configuration overwrite what its author never saw (it does) | 2 handlers, 2 keys | violation |
| `form_event` | does every form open (one does not) | 1 command | violation |

Several properties of these runs are conjunctions of the properties that a
component's module names and explains one by one:

| Property | Conjunction of |
|---|---|
| `ResolutionHolds` | `ModeratorsKeepTalking`, `FirstDefenceWins`, `RobberyMovesMass`, `LevelIsEarned`, `JournalIsTrue` of `CastResolution`, and types |
| `JournalHolds` | `OneRowPerBucket`, `CountedOnce`, `SummaryAgrees`, `PagesAreStable`, `OnlyAgedOut` of `CastLedger` |
| `ModifiersHold` | `OrderNeverMatters`, `LimitsHold`, `EventsNeverFailCasts` of `ModifierCases` |
| `PlacementHolds` | `RefusedIffItDoesNotFit`, `GrantArrivesWhole`, `TopsUpBeforeOpening` of `PlacementCases` |
| `FormsHold` | `ConfirmedIsStored`, `EditKeepsTheRest` of `ItemDraft`; `StoredIsAccepted`, `AcceptedCanBeEntered` and the edit properties of `EffectForms`; `FormsFitSchema` and the import properties of `RewardForms` |
| `InventoryHolds` | `Accounted`, `VersionTellsChange`, `RetryIsReplayed`, `EquippedIsHeld`, `OldestFirst` of `Inventory` |
| `IntegrationHolds` | `VerdictOfCredential`, `ConnectedMeansHealthy`, `DisconnectStays` of `IntegrationHealth` |
| `BindingsHold` | `OneUserPerAccount`, `OneGuildPerChannel` of `GuildBinding`; `BotServesBoundChannels` where requests that overlap are about different servers and channels |
| `StoredIsConsistent` | what is stored by `Locations`, `ChannelConfig`, `ItemCatalog` and `PlayerModifiers` can be read, is acyclic and resolves |
| `ChatHolds` | `DupeIsBounded`, `ExtraCastsCatch`, `AnnouncedIsOwed`, `OneTimeoutEach`, `ModeratorsCatchNoTimeout` of `ChatActions` |
| `ChannelsHold` | `ReconciledIsJoined`, `BooksMatchAnswer`, `EngineFailureNeverParts` of `ChannelMembership` |
| `WizardHolds` | `TypeOK`, `WritesOnce`, `ReplacesWhatItShowed`, `ConflictIsSomebodyElses`, `OneSaveAtATime` of `ItemWizard` |
| `EditorHolds` | `Capped`, `MultiplyIsAdvanced`, `NoDuplicates`, `FormsHitTheirOwn` of `EffectsEditor` |
| `RunnerKeepsUp`, `EveryRequestEnds` | `DueIsProbed`, `DisconnectedDrains`, `RequestsEnd` of `IntegrationHealth`; `EveryCallAnswered` of `FishingCast` |
| `EventsEnd`, `WhatBeginsEnds` | the liveness properties of `EventSchedule` with `OneActiveEvent`; those of the mailbox, the statistics, the rolls, the chat, the forms and the membership |

Why the bounds are enough for what they ask. Conversions of different viewers
share nothing but the worker, whose claims are per event, so one viewer is
enough; two keys let a second conversion meet the first, two requests the lock
and the double check, two workers a recovery while another runner is alive. With
2 units of mass, a rate of 3/2 and a cap of 3 points each conversion can be
affordable, unaffordable, at the cap or over it. A race over a row takes two
transactions, so two workers, handlers or clients are enough, and a third
request in `casts` is the one that is sent again. A replay takes two attempts
under one key, a lost answer one loss, a recovery one crash. In a
scenario of administrators the keys are operations chosen to disturb each other,
and any two of them overlap. The bindings have two scenarios: in `binding` requests
overlap in any way, and in `binding apart` only such as are about different servers
and different channels (`RequestsApart`), for the others may leave the bot's flag
wrong (section 5). For the
wizard, one scenario has a second item: the ID of an edit may be changed to it, and
its conflict then reloads the draft from an item the edit was not opened for; there
one of the two bodies closes a cycle, while in the other scenario it is blocked in the
review and refused by the engine. Both scenarios leave out states with two attempts
on their way at once (`WizardGoes`); the theorems do not. For the
membership, two identities and two logins are enough for a rename, a swap, an
entry that takes over a bootstrap entry's login, and a login in the session that
no entry has. Bounds that a theorem covers matter less: what `casts`, `holdings`,
`gateways` and `admin` check of the components with proofs holds for every value
(section 4). A cfg switches the deadlock check off because its system may stop:
all keys used and all bounds spent.

`holdings` checks `IntegrationHolds` for a coroutine that connects and tests and
a thread that disconnects, without losses; `contention` lets the engine, a
runner and Redis fail. Conversions are kept out of both: they report on the
integration from a copy read before they waited, which violates all three
properties (section 5).

`NoLostMass` is violated with one catch in `saga_race`. Without catches it is a
theorem (`ConversionsAloneLoseNoMass`): the conversions never overwrite each
other, because one lock and `OneActiveOperation` keep them apart; only the casts
are not kept apart.

For the membership, `DropsWhile` says when the connection may drop. "resting" is
the case the code handles: the drop and its `event_ready` both fall while the
loop waits. "looping" allows the drop at any await of the loop, and needs an
honest list of connected channels (`StaleCache` FALSE): so `progress` checks it.
"any" drops it also before the first `start()` has its loop; that
`event_ready` then enters `start()` a second time, and with two activations at
work the books and the fail-safe no longer hold (section 4).

Fairness. Nobody has to send a command, no administrator has to act, nothing has
to crash, fail or be lost; what fails may do so until its bound is spent. Fair
are:

- the saga: every request's continuation (each await has a client timeout), every
  worker (it polls each second, and the process is restarted), the expiry of the
  Redis key. A crash is not fair, but may happen at any time.
- casts: weakly, a worker that can go on; strongly, one that waits for a lock
  which keeps coming free (PostgreSQL queues lock requests, and its detector
  breaks a deadlock after a second).
- the integration: strongly, each request and each runner's probe and rebuild,
  since what they wait for (the loop, a row, a due time) comes and goes; weakly,
  the end of a lease that nobody works under.
- events: the runner polls for ever; a request that is served ends.
- mailbox, statistics, rolls, chat, forms, channels: the worker process's timers
  come round, a coroutine whose await has ended goes on, and every HTTP call has
  a timeout.

`contention` and `progress` share one WF or SF among components: a behaviour is of
one component, so each condition speaks of that one only. No fairness assumption
mentions an action that a user or a failure would have to take.

### What the violations say

- `saga_race`: a viewer catches a fish while a conversion awaits the provider;
  the conversion then saves a mass computed from the row it read first. The
  session would have to refresh the row (`populate_existing`), as
  `UserRepository.lock_users` does for robberies.
- `config_race`: `_authorize` reads the channel's row through the guild binding
  before it locks it; the second of two requests compares its expected version
  with the copy from before the lock, and overwrites the first.
- `form_event`: the second page of an event's form makes the third from an
  attribute it never sets.

## 4. Proofs

All proofs are checked by `tlapm` with Z3, Zenon and LS4, for every value of the
constants that satisfies the named assumptions. These are typing assumptions
(natural numbers, rates above zero, markers distinct from other values:
`PricingAssumption`, `SagaAssumption`, `FishingAssumption`, `FormFlowAssumption`,
`RequestAssumption`, `LocationAssumption`, `PayloadAssumption`,
`HealthAssumption`, `MembershipAssumption`, `ScheduleAssumption`,
`WizardAssumption`, `ChatActionsAssumption`, `BindingsAssumed`, `ModifiersAssumed`,
`CatalogAssumed`, `NoneApart`, `WizardNoneApart`) except for those in the last
column, and two that say a little more. `ConfigAssumed`: the parameters of a
section are constrained only together, so a reset of one leaves what `GameConfig`
takes (its one condition relates two chances of the section "robbery"), and a
cooldown in range fits with any of them (`FishCooldownSetRequestDTO` has the range
of `GameConfig`). `GraphAssumed`: a channel begins without a cycle.

| Theorem | Says | Assumes besides |
|---|---|---|
| `BuyAll`, `SellAll`, `RoundTrip` | the three pricing properties | |
| `TypeCorrect` | `TypeOK` of `EconomySaga` | |
| `OneActive` | `OneActiveOperation` | |
| `EventAgrees` | `EventAgreesWithOperation` | |
| `SettledStaysSettled` | `SettledIsFinal` | |
| `HumansSettleAmbiguity` | `AmbiguityIsLeftToHumans` | |
| `SettlementIsAtomic` | `AtomicSettlement` | `CleanProvider` |
| `NobodyHoldsBothSides` | `NeverBothSides` | `CleanProvider` |
| `ConversionsAloneLoseNoMass` | `NoLostMass` | no catch (`MaxCatches = 0`) |
| `SagaImplementsConversion` | `ImplementsConversion` | `CleanProvider` |
| `CastsTypeCorrect` | `TypeOK` of `FishingCast` | |
| `FishAreCasts` | `EveryFishHasItsRow` | |
| `CooldownsHaveCasts` | `NoCooldownWithoutCast` | |
| `CooldownsAreHeld` | `CooldownHeld` | |
| `MassIsAccounted` | `MassAccounted` | no item is used (`MaxUses = 0`) |
| `StockIsNeverOversold` | `NeverOversold` | finitely many viewers and requests |
| `FormsAreNotStale` | `StaleFormChangesNothing` | |
| `FormsAreAnswered` | `AnswersAreTrue` | |
| `WizardTypeCorrect` | `TypeOK` of `ItemWizard` | |
| `WizardWritesOnce` | `WritesOnce` | |
| `EditsReplaceWhatTheyShowed` | `ReplacesWhatItShowed` | |
| `ConflictsAreSomebodyElses` | `ConflictIsSomebodyElses` of `ItemWizard` | |
| `SavesAreOneAtATime` | `OneSaveAtATime` | |
| `RequestsAreAppliedOnce` | `AppliedOnce` | |
| `AuthorsSawWhatTheyEdit` | `EditsWhatItsAuthorSaw` of `Locations` | |
| `OverridesExistWhenSet` | `OverrideExistsWhenSet` | |
| `ActiveEventsAreReviewed` | `ActiveIsReviewed` | |
| `LocationsTypeCorrect` | `TypeOK` of `Locations` | |
| `LocationsStayWithinLimit` | `LocationsFit` | `OldPools = {}`; finitely many places |
| `VerdictsAreOfTheCredential` | `IntegrationHolds` | `NoConversions` |
| `ScheduleTypeCorrect` | `TypeOK` of `EventSchedule` | |
| `NeverTwoActiveEvents` | `OneActiveEvent` | |
| `DeletedEventsStayInactive` | `ActiveEventsExist` | |
| `MembershipTypeCorrect` | `TypeOK` of `ChannelMembership` | |
| `BooksMatch` | `BooksMatchAnswer` | `Serial` |
| `EngineFailuresPartNobody` | `EngineFailureNeverParts` | `Serial` |
| `ReconciledChannelsAreJoined` | `ReconciledIsJoined` | `DropsWhile = "resting"` |
| `ChatTypeCorrect` | `TypeOK` of `ChatActions` | |
| `ExtraCastsAreBounded` | `DupeIsBounded` | |
| `ExtraCastsAlwaysCatch` | `ExtraCastsCatch` | |
| `NothingIsPromisedInVain` | `AnnouncedIsOwed` | |
| `TimeoutsAreEarned` | `OneTimeoutEach` | |
| `ModeratorsAreSpared` | `ModeratorsCatchNoTimeout` | |
| `StoredConfigsAreValid` | `StoredConfigValid` | |
| `ConfigEditsSawIfAlone` | `EditsWhatItsAuthorSaw` of `ChannelConfig` | `[]OneEditAtATime` |
| `BindingsTypeCorrect` | `TypeOK` of `GuildBinding` | |
| `AccountsHaveOneUser` | `OneUserPerAccount` | |
| `ChannelsHaveOneServer` | `OneGuildPerChannel` | |
| `BotsServeBoundChannels` | `BotServesBoundChannels` | `[]RequestsApart` |
| `ModifiersTypeCorrect` | `TypeOK` of `PlayerModifiers` | |
| `ModifiersAreAppliedOnce` | `AppliedOnce` of `PlayerModifiers` | |
| `ModifierEditsSaw` | `EditsWhatItsAuthorSaw` of `PlayerModifiers` | `NothingIsRemoved` |
| `StockIsNeverFabricated` | `StockNeverFabricated` | `DropsStay` |
| `GraphStaysAcyclic` | `GraphAcyclic` | `OldItems = {}` |

What the assumptions of the last column mean, and why they are there.
`CleanProvider`: a reply to a write that was applied is recognisable as such;
without it a debited purchase is given up (section 5). `MaxCatches = 0`: a
conversion overwrites a catch that was committed while it waited for a balance
(section 5), and nothing else. `MaxUses = 0`:
`use_item` writes a mass it read before its lock, which loses what landed in
between (section 5). `OldPools = {}`: the older API
makes a pool that is missing and counts nothing (section 5). `NoConversions`: a
conversion reports on the integration from a copy read before it waited
(section 5). `Serial`: there is one activation
of `start()`, or the connection holds until the loop is there and rests; a
connection that drops before the first `start()` is done enters it again, and
two activations book over each other. `DropsWhile = "resting"`: what is joined
by a round in whose middle the connection drops is not asked for again
(section 5). `OneEditAtATime`: of the
requests that have read the configuration and have not committed yet there is one;
the code reads it before it takes the lock, and a second request goes by what is no
longer there (section 5, run `config_race`). `RequestsApart`: requests that have read
a channel and have not committed yet are about different servers and different
channels; the binding a server leaves and the bot's flag are read before the lock,
and the flag is written only if it differs from what was read (section 5). Both are conditions on the behaviour, and
say of which behaviours the theorem speaks. `NothingIsRemoved`: no request removes
a modifier; a row set again begins at version 1, which an old form may name
(section 5). `DropsStay`: no request removes a drop or takes its limit away; a
roll that selected one finds no limit there any more (section 5). `OldItems = {}`:
the older API validates the graph and writes it without a lock (section 5). In
each case TLC finds the counterexample when the assumption is dropped.

**Pricing.** A price rounded up is affordable exactly if the unrounded product is
(`AffordableIffExact`), so the floor of the inverse is the largest mass that fits
and the code's downward walk stops at once or is bounded by the limit
(`MaxBuyMassIsLargest`, `MaxSellMassFits`).

**The saga.** None of the properties is inductive. Two things are missing: who is
working on an operation, and what that carrier knows.

- `ProtocolInv` adds that each operation whose event is `processing` and that
  somebody works on has one carrier (`RequestCarries`, `RunnerCarries`,
  `OneCarrier`), and that the local mass moved exactly as the operation's state
  says (`MovedByState`). It holds whatever the provider answers. One lemma per
  action; the actions that end a carrier's work all have the shape of
  `SettlingKeepsProtocol`, which is proved once.
- `SettlementInv` adds what the provider did, as a function of the carrier's
  program counter and answer (`CarrierKnowsPaid`) or, without a carrier, of the
  operation's state (`PaidByState`). It needs `CleanProvider`: a verdict of
  "rejected" or "not sent" must imply that nothing was applied.

`SettledIsFinal` and `AmbiguityIsLeftToHumans` are action properties and follow
from `StepTouchesOne`: in a state satisfying `ProtocolInv`, a step changes an
operation that is active, and only an administrator's step changes one that waits
for reconciliation.

`NoLostMass` needs to know what a session remembers. `CacheInv` adds that a
request that is not over holds its viewer's lock, that its copy of the mass is
the row's, and that nobody has an operation for that viewer before it creates its
own (`Cached`). A step that moves mass settles or creates an operation of one
viewer (`Books`); another request of that viewer would hold the same lock or
carry a second active operation. So it needs no assumption on the provider.

The refinement follows from the same invariant. In a state that satisfies
`SagaInv` both sides of a conversion are determined by its row and its carrier,
so a step is recognised by the states it leads from and to:
`SettlingIsImplemented` turns any settling step into completing, undoing, asking,
resuming or abandoning, `PayingIsImplemented` any answer of the provider into
paying, refunding or nothing, `CreatingIsImplemented` a new row into a beginning
or a refusal; the rest of the actions change nothing that is visible.

**Casts.** What is missing is what an open transaction knows of rows that others
may write.

- `CastInv`: a worker that holds a row (`Holds`) has the row as it is committed
  in its session, and one whose commit is done but whose cooldown is not written
  yet (`Cools`) has its cast in the journal. A cast that passed the cooldown test
  holds its viewer's row until it commits: so two casts of a viewer cannot both
  pass it, whatever Redis remembers.
- `MassInv` adds `Balanced`: what a session means to write is the committed mass
  plus what it will report. A robbery that locked its victim late read the
  victim's row then, not before.
- `StockInv` adds `Stocked` and `Reserves`: a transaction that means to take a unit
  has the stock's row locked from the read to the commit, and the units handed
  out are those of the journal. The count is a cardinality, so the step that
  records a cast uses `Grown`: a new row adds its units and no other.

**Forms.** `FormInv`: what a session keeps, what the messages carry and what is on
its way all stem from one version that the command found (`Rooted`, `Carries`),
the engine never goes back behind it (`Behind`), an attempt the gateway gave up
was asked by a press that is remembered (`LateAsked`), a recorded key keeps its
answer (`Kept`), and an answer given is the answer of the record (`Honest`).

**The wizard.** `WizardInv` says of the draft that it has the version of the item
it was made from (`Matches`), and of that item that the engine still has it as it
was shown, or a greater version (`Current`). Versions only grow (`ItemsGrow`), so
a request that is served or arrives late is `Sendable` for good, and what fits is
what was shown. As long as nobody else has written, nothing has grown: so a
conflict over the item a request was made from is somebody else's, unless the
request closed a cycle. While a confirmation is served the review goes on
answering, and the draft may change under it; `CallInv` says what may not: the
step stays "submitting", which keeps a second confirmation out, and the request,
once made, is `Sendable` whatever the draft says by then. Every button and form
is one shape, `Edits`, and is proved once.
Proving this corrected the model: an edit's ID may be changed, and a conflict
then reloads the draft from another item than the one the edit was opened for, so
what a draft "showed" is that item (`seen`), not the first. With the only existing
item in the instance TLC could not tell; `gateways` now has a second.

**Events.** A request between its write and its commit that makes its event active
is `Late`. `ScheduleInv` says that at most one request is late, that it holds the
row of its event, which exists, and that every other active event is one it ends
(`Settles`). A request gets late only where nobody is: it has locked every row of
the channel that a late one would need (`FreeRowsSettled`), or has waited at the
partial unique index for whoever came first (`SettledNobodyLate`) and ends what it
then found. All other steps, the runner's included, activate nothing and take no
row from a late request (`Calm`).

**Locations.** `LocInv`: while a handler holds the channel's row, what it has read
of pools and events is what is committed, since no other handler commits and the
older API waits for the rows that are being changed; a record implies that its
operation is in `applied` and no handler will commit it again. `FitInv` adds that
what a handler has read of the pools is all there is, so what it counted is the
cardinality its commit adds at most one to (`Fits`).

**The configuration.** The channel's row is read before it is locked, so the copy
a request merges into may be older than what it overwrites; but it was a
configuration when it was read and every edit makes one of it (`ValidCopies`), so
what is stored always is one. That the version still is the one the author saw
needs `FreshCopies`: with one edit at a time the copy has the version of the row,
for the only other writer, the chat's cooldown command, changes none.

**Bindings.** `OneUserPerAccount` and `OneGuildPerChannel` are inductive beside the
types (`BindInv`), because both are tested again where they are written.
`BotServesBoundChannels` relates two tables. `BotInv` adds that a request still
knows the channel its server has and which of the channels it is about have the bot
(`Knows`): then what it switches off is what its server leaves, and what it does not
write is as it should be. Another request about the server, or about one of the
channels, takes that away.

**Modifiers.** A record implies that its operation is in `applied` and its handler
is done (`Books`). What a form has shown is still there, and is the row itself as
long as its version is (`ShownGrows`): a new row gets an identity nobody has,
time passing over a row changes neither, and a version only grows.

**The table and its stock.** `CatInv` says of a roll that what it has read is still
there under its id and limited where it was (`Reads`); that it holds the stock row
of all it took from, which no other roll holds (`HeldByOne`), and took no more than
is there (`Takes`). What an administrator writes waits for that row
(`StockFree`), and another roll's commit subtracts from its own rows only: so the
stock a roll found when it reserved is the stock it commits against, though it
selected from what it read without a lock.

**The graph.** Of the two upserts that may close a cycle the one that has read holds
the channel's row, and what it surveys leads everywhere the table leads
(`Surveys`): archiving an item and removing a drop wait for no lock, but take only
something away, and less than an acyclic graph is acyclic (`LessIsAcyclic`).

**Integration.** `HealthInv` adds `Sound`: a test that waits for the provider holds
the integration's row, which therefore is still the row it read, usable and with
its credential; so what it writes column by column is what it means to write
(`NothingLost`). A probe holds no lock; that the version and the credential are
compared when it is applied is what keeps its verdict about the right credential.

**The membership.** Two invariants, one for the books and one for the session.

- `BooksInv`: an entry that a round has placed keeps its login in the books for
  the rest of the round, though perhaps under another entry that was placed for
  the same login (`Booked`: what one entry adopts another has lost); once
  everything is placed, what is left to part holds every login of the books that
  nobody asked for (`Leaving`). Before the engine's first answer nothing but
  bootstrap channels is booked or joined (`FirstAnswer`), so a fallback has
  nothing to part.
- `SessionInv`: TwitchIO knows of every channel of the session, and reports more
  than that only while a reconnect is unheard of or the rejoin flag is set
  (`SessionKnown`). So a round begins with a true report or joins everything
  again, and what it joined stays joined (`InSession`).

Both need to know that a round has the reconciler for itself (`Alone`), which for
`DropsWhile = "resting"` follows from who may start when (`Control`).

**The chat.** `ChatInv` says one thing of each message (`MessageInv`), which speaks
of nothing but its handler, its request, its casts, operations and timeouts and
what the chat was told because of it; a step of one message leaves those of the
others alone, so each action is proved for its own message only. It adds what the
six properties do not say: a message has one cast that is not extra, and it came
first; an answer is a message and at most one action, the one of the reward that
was rolled; and what a handler still has to do (extra casts it may ask for, an
action it has not done) together with what it has done never exceeds what the
casts allow. A handler that gives its request up ends there, but the engine may
still serve it: the cast that then comes is counted as owed before it is made.

Most of these invariants were checked by TLC before they were proved (between
437 000 and 19 million states); those of the configuration, the bindings, the
modifiers and the table follow the properties that the run `admin` checks.

Only model-checked:

- liveness: the proof system has no fairness and no `ENABLED` here;
- what folds or recursive functions compute (`CastResolution`, `CastLedger`,
  `ModifierResolution`, `InventoryPlacement`): induction over data is out of the
  provers' reach;
- what is true of one instance because of what it contains: the forms' contents
  (`ItemDraft`, `EffectForms`, `RewardForms`) and `EffectsEditor`, whose lists are
  moved and numbered;
- `Inventory`, whose units are sums over slots and parked drops.

## 5. Where code and documentation disagree

Modelling showed these disagreements between the code and a doc, comment or
docstring of the repository. Each definition named here is stated in its module,
and TLC finds it violated when the constants allow the case. Three of them are
runs (`saga_race`, `config_race`, `form_event`).

| Module | Definition | Disagreement |
|---|---|---|
| `EconomySaga` | `NoLostMass` | a conversion writes a mass from before it waited (`economy_service.py:826`) |
| | `DebitIsRefundedOrReconciled` | a purchase whose debit was applied but whose reply is unusable becomes `failed`: nobody is asked (`economy_service.py:576`) |
| | `SettledOperationReplays` | a conversion the worker settles has no stored reply: its command is "already processing" for ever (`se_job_runner.py:238`) |
| `ChannelMembership` | `ReconciledIsJoined` | `_force_rejoin` is cleared after the await that a reconnect may fall into (`channel_reconciler.py:112`) |
| | `EngineFailureNeverParts` | a second `event_ready` during the first reconciliation runs another beside it; the fallback of the one parts what the other joined (`:57`) |
| `FishingCast` | `MassAccounted` | `use_item` goes on with the row it read before the lock (`inventory_repo.py:248`) |
| | `RejectedKeptSeparate` | a rejected cast takes the request's own unique id: the same request, sent again later, is rolled back (`ledger_service.py:326`) |
| | `LedgerComplete` | the failed row of a first cast refers to a profile that was rolled back (`fishing_service.py:586`) |
| | `RulesetsDeduplicated` | two first casts under new rules collide on the snapshot's hash; one is rolled back (`ledger_service.py:97`) |
| `EventSchedule` | `EndedOnlyWhenOver` | a start without a duration leaves the job of an earlier one (`discord_admin_service.py:2200`); an update that activates leaves `ends_at` (`channel_repo.py:327`) |
| `IntegrationHealth` | `RequestsEnd` | two coroutines of the one event loop wait for each other's row (`streamelements_integration_service.py:45`) |
| | `DisconnectStays`, `ConnectedMeansHealthy`, `VerdictOfCredential` | a conversion's report is written from a stale copy, column by column (`economy_service.py:887`, `:897`) |
| `Inventory` | `ChargedIsSingle` | a definition with stacks may be given charges; one use then deletes the stack (`channel_repo.py:213`) |
| | `DropIsNeverLost` | parked drops of finite stock are deleted after 24 hours (`inventory_overflow_repo.py:114`) |
| `ChannelConfig` | `EditsWhatItsAuthorSaw` | the version is compared with a copy from before the lock (`discord_admin_service.py:2541`) |
| | `ChangeTellsVersion` | the chat's cooldown command changes no version (`admin_service.py:232`) |
| `AdminRequests` | `ConflictIsSomebodyElses` | a repeated attempt is told of a conflict with its own first one (`discord_admin_service.py:2693`) |
| `GuildBinding` | `BotServesBoundChannels` | the binding is read before the channel it leaves is locked, and the bot's flag is compared with a copy of the channel read before its lock and written only if it differs: a request that binds what another one leaves may leave the flag off (`discord_admin_service.py:371`, `:438`) |
| | `LimitEnds` | a rate counter gets its expiry in a second call, which may be missed |
| `Locations` | `ViewersStandSomewhere` | travel takes no lock that deleting a location would see |
| | `ActiveEventHasPool` | an event is started without looking for its location |
| | `ChangeTellsVersion` | `update_rewards` changes no version |
| | `LocationsFit` | `update_rewards` makes locations beyond the limit (`channel_repo.py:119`) |
| `ItemCatalog` | `StockNeverFabricated` | a drop removed between selection and reservation has no limit (`config_repo.py:102`) |
| | `DropsAreActive` | archiving an item leaves its drops, and casts that get it fail (`discord_admin_service.py:895`) |
| | `EditsWhatItsAuthorSaw` | an archival between read and lock is missed (`discord_admin_service.py:808`) |
| | `GraphAcyclic` | the older API checks the dependency graph without a lock (`admin_service.py:375`) |
| `CastResolution` | `LossNeverPays` | a mass below its floor is raised to it by a loss (`formulas.py:55`) |
| | `RobberyNeverPaysVictim` | a victim below the protected mass is raised to it (`fishing_service.py:820`) |
| `PlayerModifiers` | `EditsWhatItsAuthorSaw` | a row removed and set again starts at version 1 (`discord_admin_service.py:579`) |
| | `StatsResolve` | a minimum above a maximum is accepted, and then nothing of the stat resolves (`modifier_resolver.py:106`) |
| `ItemWizard` | `OverwritesOnlyWhatItShowed` | the ID of an edit may be changed; the version is then compared with another item's, which it may happen to fit; and where it does not, the card says that another administrator changed the item although nobody did (`wizard.py:478`) |
| | `SavedIsTheDraft`, `CancelledSavesNothing` | the review's buttons are disabled in the view and not in the message: while a draft is saved it may be edited, and the flow cancelled, which is answered and saved all the same (`review.py:247`) |
| | `BlockedIsNotSent` | so a draft that was blocked after the click is sent (`wizard.py:446`) |
| | `EveryConflictIsSomebodyElses` | a definition that closes a cycle is answered as an outdated version is, and the card says that another administrator changed the item (`discord_admin_service.py:866`) |
| | `UnavailableChangedNothing` | "No settings were changed" after a save whose answer was lost (`errors.py:40`) |
| | `AnotherIdCanBeChosen` | "choose another ID": no control is left (`wizard.py:297`) |
| | `DraftIsReachable` | a dismissed form leaves a stopped card (`review.py:278`) |
| | `FixedDraftIsAccepted` | a corrected draft is refused under the key of a recorded save (`wizard.py:447`) |
| | `ActiveNeverExpires` | some steps renew the card and not the session (`sessions.py:27`) |
| `ItemDraft` | `ConfirmedIsAccepted` | an item that grants itself can be confirmed (`item_review.py:156`) |
| | `EditKeepsValue` | the wizard reads `value`, the engine says `nominal_value` (`wizard.py:104`) |
| | `DraftIsSaved` | a policy chosen before a dismissed form is carried on unsaved (`mechanics.py:327`) |
| `EffectForms` | `EditsKeep` | factors shown as percent and sent back as factors (`effect_forms.py:154`); an attacker's mass shown as 0 (`:216`); a counter's chance and cost dropped (`:194`) |
| | `ShownIsAccepted` | a default of 100 percent shown as 10000 (`effect_forms.py:223`) |
| `EffectsEditor` | `Capped` | the cap is asked by the list's button only (`effects.py:248`) |
| | `OptionsNameEffects` | after a move the control names effects in their old order (`effects.py:321`) |
| `CastLedger` | `ReturnsKept` | buckets returned as written are rolled back when the ledger is off (`daily_stats_job_runner.py:58`) |
| | `StatsCatchUp` | a channel whose casts are gone keeps its old rows (`fishing_cast_query_repo.py:314`) |
| | `ExpiredAreDropped` | expired records stay for a second period (`retention_job_runner.py:115`) |
| `ChatActions` | `RewardsArePaid` | the extra casts of a dupe share one key for their points (`action_handler.py:167`) |
| `FormFlow` | `EveryFormOpens` | two forms make their next page from an attribute that is never set (`modals.py:925`, `:183`) |
| | `ActiveNeverExpires` | a reward's session lives 600 s though each button waits 600 s (`rewards.py:134`) |

## 6. Not modelled

HTTP routing and authentication (the transaction a route opens is part of the
models of the services), the frontend, the end-to-end runner, migrations,
metrics, listings, wording. `effect_builder.py` and `effects_editor.py` of the
gateway are not reached from any command. The older StreamElements route of
`admin_service.py` and the older `luck_mult` form of events are left out.

Left to the reader of the code, because a model of it would say nothing the code
does not:

- `_compensate_buy` locks its rows in another order than the worker does; a
  deadlock there is PostgreSQL's to break and is retried like any failure.
- A request suspended for longer than its lease; see the abstractions of the
  saga.
- A day of statistics missed by the worker is never rebuilt; a cast whose answer
  the bot lost is not asked for again.
- Editing a drop through its form resets its stock to the quantity entered.
- In a list of locations that changed while a viewer chose by number, the number
  names another location.
- Activating an event while one with a larger id is active fails on the unique
  index, and the request is answered with an error.
- An integration that is `invalid` can be replaced but not disconnected.
- Stored reward fields that no form shows are dropped by an edit; a multiselect
  with six stored targets exceeds Discord's limit of five; points rewards cannot
  be edited in Discord.
- `event start` and `config cooldown` have no preview, although `README.md:218`
  says that mutations have one.
