# HW-Genie in TLA+

HW-Genie automates daily routines of a browser game. A Python CLI (`src/python/hw_genie`)
calls the game's HTTP API with session headers that a userscript (`src/userscripts`)
collects in the browser and sends to a local *auth server*. For the Tournament of Elements
(ToE, "Titan Arena") the CLI needs exact battle simulations that only the game's own
JavaScript can compute; they travel through a job queue in the auth server to a browser tab
and back. This directory models the program in TLA+, checks the models with TLC and proves
their main properties with TLAPS.

## Inventory

| Component | State | Operations | Talks to | What is hard | What makes it correct |
|---|---|---|---|---|---|
| ToE job queue (`commands/auth_server.py`, `ToeJobStore`) | dict of jobs: account, status, claimed_at, claimed_by, created_at, result | add, get, claim, submit, cleanup | engine and tabs, over HTTP, from many server threads | claims lost with a tab, late answers, TTL, restart | answered once, never replaced; no job wedges; nobody awaited is dropped |
| Bridge engine (`battle/engine.py`) | per batch: pending, claimed_seen, last_progress_at, results | calc, calc_batch | job queue | watchdog against slow tabs, lost posts, cancellation | each battle gets its own answer or a failure; a batch returns |
| ToE userscript (`toe-bridge.ts`) | account, running, current job | loop, tick, pollNextJob, computeBattle, submitWithRetry | job queue, game engine | reload at any moment, lost replies, several tabs and accounts | never two drains at once; every claimed job is answered |
| Auth handshake (`auth_server.py` `AuthServer`, `auth-client.ts`, `session.ts`, `index.ts`) | one nonce; captured headers, send state, backoff | GET /nonce, POST /auth, capture, trySend | userscript, repository | two senders and one nonce; failed save after the nonce is spent | the stored session is one some sender captured; a failed send is retried |
| Auth recovery (`auth-recovery.ts`) | reload budget in sessionStorage | detect, evaluate, reload | page | the state outlives the reload it limits, and may be lost or spoilt | never more than three reloads in ten minutes, five minutes apart |
| XHR interceptor (`xhr-interceptor.ts`) | wrappers on the page's request objects | open, setRequestHeader, load | session, auth recovery | objects are reused for other URLs and wrapped by other scripts | exactly the API's requests are seen |
| Titan Arena (`commands/titan_arena.py`) | tier summary, raid suppression, banked bests, no-progress counters | tier, raid, rivals, single battle, EndBattle, CompleteTier, daily reward | API client, engine | stale snapshots, partial raids, failing bridge, concurrent sessions | ends; completes a tier once; a worse loss never replaces a banked one |
| API client (`core/client.py`, `core/auth.py`) | headers, HTTP session | call with retries | game server | a retried call may already have been executed | what the caller is told bounds how often the server has executed the call |
| Database (`core/database.py`, `core/repository.py`, `core/session_manager.py`, `core/run_log.py`) | lazy engines, embedded replica, accounts and configs, run logs | connect, sync, update_config, update_config_merged, record_run_log | local file, remote primary | threads and processes on one WAL file, SIGINT inside a section, retries inside retries | no thread loses another's update; SIGINT is delivered, once, after the section |
| Runner (`runner.py`, `main.py`) | worker pool, cancel flag, results, exit code | preflight, run_all_accounts, cmd_multi, summaries | everything above | Ctrl+C, once or twice, at any moment of a parallel run | every account is reported as it ended; nothing starts after it was reported as stopped; exit code 0 means all done |
| Quests (`commands/quests.py`) | quest lists, recipes, two once-a-day marks in the configuration | claim, targets, guild recipe, glyph | API client, repository | the same recipe by two ways, in several runs of a day, with failures between steps | the gift is spent once a day; what is planned is claimed or reported as failed |
| Arena (`commands/arena.py`) | target, own rank, candidate list | resolve, wait for the candidate, check, attack | API client | all ranks move between the reads; a lost attack may have been made | attacks upwards only; one attempt per command |
| Element gift (`commands/element_gift.py`) | plan priced against one reading | up, reset | API client | batches that stop short; coins spent by another session | success means the whole plan; the reported coins were really spent |
| Seer's game (`commands/seers_game.py`) | rounds left, rewards | look, start, play, finish | API client | a game survives the process that opened it; a lost start | no game is left open; the limit on games holds; rewards are counted once |
| Consumables, inventory (`commands/consumables.py`, `core/inventory.py`) | pending and failed items, rounds | read, use in chunks | API client | boxes contain boxes; partial consumption | success means nothing is left; counts are real |
| Shops (`commands/hero_shopping.py`, `commands/asgard_shop.py`) | queue, budget | plan, buy | API client | a budget of its own beside the game's; two codes for one plan | nothing affordable is skipped, of the funds it could read; a dry run foretells the purchases |
| Raids (`commands/hero_raid.py`, `item_raid.py`, `daily_raid.py`) | results per mission | raid, potion, item raids | API client | a lost raid, a refused one and a lack of stamina end differently | reported raids were made; items never take the heroes' stamina |
| Guild chat, utilities, CI review script | none that outlives a call | read and format | | | not modelled |

`PROJECT.json` lists the same components with their status, and under `hazards` every place
in the code that is hard to test, with the properties that cover it.

## Modules

| Module | Models |
|---|---|
| `ToeJobStore` | the job queue: one operator per method of `ToeJobStore` and per rule inside it |
| `ToeBridge` | workers, job queue, tabs, loss of messages, reloads, restarts and time, composed |
| `BattleOracle` | what the bridge promises its caller, with no queue, tabs or clock |
| `MCToeBridge` | instances of `ToeBridge` for TLC |
| `ToeBridgeProofs` | type correctness and three safety properties of claims and of the TTL, proved |
| `ToeBridgeContract` | `ToeBridge` implements `BattleOracle`, proved |
| `TitanServer` | the game server's Titan Arena as the tier loop uses it, with the season's end and a second session |
| `TitanTier` | `toe run`: tier loop, raid, rivals and CompleteTier, on top of `TitanServer` |
| `MCTitanTier` | instances of `TitanTier` for TLC |
| `TitanTierProofs` | type correctness of the tier loop, proved |
| `TitanTierClaims` | six safety properties of the tier loop, proved |
| `AuthSession` | the userscript's decisions about a captured session (`session.ts`), as operators on one state |
| `AuthHandshake` | tabs, the nonce, the server's threads, the game's check and the repository, composed |
| `SessionBook` | what the handshake promises, with no timers, HTTP or nonce |
| `MCAuthHandshake` | instances of `AuthHandshake` for TLC |
| `AuthHandshakeProofs` | type correctness, that a silent tab's session is stored, that stored sessions are whole, what cuts a backoff short, and that `AuthHandshake` implements `SessionBook`, proved |
| `HWClient` | one `HWClient.call` with its retries over a lossy network |
| `GameCallContract` | what a caller of it may rely on, without HTTP |
| `MultiRun` | `multi`: accounts in a pool, Ctrl+C, summary, exit code, record |
| `ConfigStore` | `update_config_merged` by threads of one process, with other processes and Ctrl+C |
| `AtomicUpdates` | what `update_config_merged` promises its callers, with no lock, attempts or Ctrl+C |
| `PageScript` | the userscript in the page: wrapped requests, and the reload budget |
| `Process` | these four as one specification, and their properties |
| `MCProcess` | an instance of `Process` for TLC |
| `ProcessProofs` | types and bounds, the two contracts (calls and updates), lost updates, interrupts, who waits for whom at the lock and in the pool, the end of a run over many accounts, the reload budget and the wrapped requests, proved |
| `GameCall` | what the contract leaves open to the state of the game a command works on |
| `ElementGift`, `SeersGame`, `Consumables`, `Shops`, `Raids`, `Quests`, `Arena` | one command, or family of commands, each, against the game |
| `Commands` | one run of `hw-genie`: the command that was picked, its exit code, and what both promise |
| `MCCommands` | an instance of `Commands` for TLC |
| `CommandsProofs` | properties of the arena, the Seer's game, the shops and the raids, proved |
| `CommandsClaims` | types, what the commands report, exit code 0, once a day and the dry run, proved |

### The ToE bridge

A *worker* is one engine instance (one account of a CLI run). `StartBatch` is the call of
`calc_batch`, `PostJob`/`PostLost`/`PostOrphaned` one iteration of its posting loop
(delivered, lost on the way in, lost on the way back), `BeginSweep`, the four `Fetch...`
actions and `EndSweep` one round of its polling loop, `Cancel` its interruption. A *tab* is a
frame of the game with the userscript: `ReadAccount`, the `Poll...` actions (`pollNextJob`
with its account-less fallback), `Compute` and the `Submit...` actions (`submitWithRetry`) are
the steps of one drain, `Reload` its loss at any point. `Restart` empties the server's
memory. `answer` is a history variable: the payload the server accepted for each job.

*Data.* A battle is its job id; ids are numbered in the order of creation, which is the
order `claim` serves them in. A payload is a member of a small set, one per tab, so that the
run tells who answered. The dummy loss a tab submits when its computation fails is one of
its payloads.

*Time.* Clocks are ages that saturate where the code stops telling them apart. A unit of
time is long against a round of polling: a worker that is posting or polling completes one
round per unit, and no round straddles two (`due`, the guard of `Tick`). The code's numbers
are 0.1 s between rounds and at most 5 s per request, against 30 s (`timeout`), 60 s
(reclaim) and 300 s (TTL). Nothing is assumed of tabs. A request takes effect while its
sender waits for it, or not at all; FastAPI could still serve one whose sender has given up,
which the model covers only as a lost reply.

*Bounds.* `MaxJobs` job ids are ever handed out (`budget` reserves them, so that no batch is
cut short); `MaxBatch` battles per batch, `JobsPerTick` jobs per drain. Two jobs are enough
for a head-of-line job and one behind it, for a job orphaned and one awaited, and for a job
of either account; two tabs are enough for a first claimant and a reclaimer. `Timeout`,
`ReclaimAge` and `TTL` are taken as small as the order between them allows.

### The Titan Arena tier loop

`TitanServer` is not in the repository: it is what `commands/titan_arena.py` and
`docs/api/GUILD_API.md` rely on. A tier has rivals with a best score each, which a worse
battle does not lower; the tier can be completed when every rival is cleared; the next one
has other rivals. The season may end, and another session of the player may clear a rival or
complete the tier, between any two calls (`Shared`). A new season, which would take the tier
back, is not modelled.

`TitanTier` is one run of `run_titan_arena_tier` with its defaults or its options as
constants. `pc` is the call that comes next, and each call is a step: `ReadStatus` the top of
a pass, `RaidRefused` to `RefreshFails` the raid of `_run_raid` and what the loop makes of
it, `PickRival` to `EndBattleFails` the sweep of `_run_rivals` with `run_titan_arena` and
`_end_battle`, `AskToComplete` and `Recheck` the decision after a sweep, `CompleteTier` and
`CompleteTierFails` the call with the branch of each of its four callers (`why`),
`Finalize` and `FinalizeBlind` the last count, `SessionLost` an exception that leaves the
loop, `Interrupted` the checks for Ctrl+C. With `Flaky` every call may fail, before or after
the server has carried it out. A pass takes all of its rivals in any order, since the order
depends on scores and powers that are not modelled; the attempts of a plan differ only in
their number, since any team may win or lose with any seed.

`shut`, `heard`, `mark`, `still` and `landed` are history variables for the properties. Scores
run from 0 to `Full`, which stands for the server's 250. A battle of the engine (`Estimates`) has
such a score, of which `Full` is a win, and stars, from 0 to `MaxStars`: the server goes by the
one, the run remembers the other (`banked`, `_loss_stars`), and for a loss the two need not go
together. `landed` has the most stars of the improving losses that the server was sent in its
tier, so what the run believes to have banked can be compared with what it has sent.

*Bounds.* Two rivals, one fought and one that waits or is cleared meanwhile; two tiers, one
with a next tier and one without, one of which can be raided; attempt plans of two;
`MaxBridgeErrors` 2 instead of 3, so that two rivals suffice for a dead bridge. Losses have up to two stars in
`titan_alone`, so that one can improve on another, and none in `titan_ends`, where every loss is submitted. The cap on
passes is the code's 30 except in `titan_alone`, where it is 4, so that it is met. Rivals are interchangeable in the module, so symmetry is sound; no run with it
checks liveness. A run has end states, so these configurations do not check deadlock.

### The auth handshake

A *tab* is a page of the game with the userscript, one account each. `Capture` is
`captureHeaders`, fed by the XHR hook; `Poll` and `Send` are `trySend` without and with a
request; `HearNonce` and `HearAnswer` the two replies of `sendHeadersToServer`, `GiveUp` its
timeouts and network errors, `Reload` the loss of the page. The server answers in a thread per
request: `Draw` and `ReadNonce` are GET /nonce, `Check`, `Spend`, `Verify`, `Save` POST /auth,
cut at every access to what the threads share; a thread whose tab has given up goes on.
`LogIn` is the game: it makes the old headers worthless to `Verify` (`get_user_info`).

*Data.* The six headers are two: the identity (session-id and user-id, compared as a whole) and
the rest of the session, which is new with every login. The signature takes no part in any
comparison. A mix of an old session-id with a new user-id is not told from other mixes.
`judged` and `entered` are history variables: what the last look saw, and what the last request
that its tab was waiting for has put into the repository.

*The book.* `SessionBook` has one session per account (`stored`, the repository), the account's
number of logins, what was `entered` there last by somebody who waits for it, what the tab will
not send again (`told`, which is `sess[t].sent`), and whether a request is about that nobody
waits for (`loose`, which is `Abandoned`). A `Save` is its `Enter`, of a session no older than
the tab was told of, or, if the tab has given up on it, its `Overtake`, of any; a success in
`HearAnswer` is its `Tell`; a `Reload` is its `Forget`; giving up and the end of a request are its
`Turn`; every other step leaves it alone. The check with the game and the save are two steps of
a thread, and nothing in the code keeps a login or another save from coming between them.

*Time.* A unit is at most half a second. Polls come at any time, also late or in a burst, since
browsers throttle timers. `sess[t]` holds ages, which saturate one above the TTL. A request
ends within `Timeout` units; in the code the headers of a reply and its body have five seconds
each, and the module takes the body, which the server sends with the headers, to come at once.
`MaxBackoff` is to `Timeout` as 6 to 1, as 30 s to 5 s: with 4 to 1 `auth_two` has a
counterexample, two tabs that for ever invalidate each other's nonce. What makes them come
through is that the longest backoff leaves room for the other's whole send of two requests.

*Constants.* `Split` lets the game set headers one at a time and old requests mix with new ones;
`Chatty` says that the game asks for something before captured headers are pruned, without
which there may never be a session to send. `MaxTrouble` bounds reloads, restarts, lost and late replies and failed checks.

*Bounds.* One tab and two threads let a send that was given up meet its retry; two tabs and two
threads are two senders at the one nonce, and four nonces those two, the current one and a
fresh one. Two logins with an identity each are an old and a new session. The
intervals are as small as their order allows: a poll, twice that between sends, a backoff that
can double twice, and a TTL of one to three polls, so that a header can be missing, fresh, and
old enough to be mixed with a fresh one. Nonces are drawn among those not in use, so a repeated draw stands for a new one;
threads are interchangeable, so symmetry is sound in `auth_quiet`, which checks no liveness.

### What the commands stand on

`Process` puts four components side by side. They share no variable, and a behaviour is one
of them, picked at the start: they meet in what other modules take from them (`GameCall` takes
`GameCallContract`, `AuthHandshake` takes the captured headers and `Reload`).

*The call.* An attempt of `HWClient.call` is one step. `Transient` is what is tried again (a
timeout, a broken connection, 429, 5xx), until the budget is used up; the server may have
carried the attempt out or not. `Unauthorized`, `Refused`, `Fulfilled` and `Unreadable` are
the answers. `executed` is a history variable. `GameCallContract` is the promise: a success
was carried out at least once, a refusal is about the last attempt only, and nothing is carried
out more often than the budget allows. Every call has a budget of `MaxRetries`, the code's 3,
or of 0, as the arena attack asks for.

*The multi run.* `worker[a]` is the future of an account: queued, running, done or cancelled,
with what its routine returned. The main thread submits, gathers in the order of submission,
and on the first Ctrl+C cancels: in toe mode it sets the flag and waits for the
running ones (`Collect`), otherwise it takes what is done already. `Press` is Ctrl+C at whatever
place the main thread is at; where no handler is left it ends the command. `Summarize`,
`Status`, `Record` and `FailRecord` are the end of `cmd_multi`. `missing` says that the
preflight has failed an account that has no headers, `LoadFails` that headers can become
unreadable after it. Three accounts with no limit, one or two slots: one that is done, one
that runs and one that is queued, when Ctrl+C comes.

*The store.* A thread goes through the attempts of `retry_on_wal_contention`, takes the lock,
opens its connection unless it has one, reads, and writes what it has merged; the connection has
retries of its own inside (`nap`). A value is the set of the updates it shows, so that a lost one
is seen. A failure at the commit may come after the deed. `Intrude` is another process, which
does not know of the lock: what it writes over is remembered in `lost`. `AtomicUpdates` has only
the value, what was lost, and what each writer is told (`Outcome`); `Write` and a failure after the
deed are its `Work` with the update, the end of an attempt is its `Work` without. `Sigint` is Ctrl+C:
deferred while the main thread is in an attempt and no other thread can take the signal,
delivered at once otherwise, within a native call as a panic of the driver. `defer_sigint` masks
the calling thread only, so every other thread of the process can take it, also one that is idle
in the pool: `live` are the threads there are, `Starts` and `Exits` the pool's, and `Shielded`
says that the main thread is the only one. `AfterFailure` leaves open whether a failure is
transient; one that is not ends the update at once. Two threads, one of
them the main one, with three attempts of two connections each, and one update by another process.

*The page.* `OpenApi` and `OpenOther` are `open` on a request object, for the API and for
another URL; `chain` is the list of wrappers on its `setRequestHeader`, ours and those of another
script. `Load` is an answer, with a status and a body in one of the classes `isSessionExpired`
tells apart. `tab` is sessionStorage: it survives `Navigate`; `Mishap` deletes or spoils it, or
sets the clock back, once. The minutes are the code's, five between reloads and three reloads in
ten. With these numbers the limit by count is never the one that acts: three cooldowns are
longer than the window (`PageAssumption` asks for it, and `ReloadBudget` holds because of it).

### The commands

`Commands` is one run of `hw-genie`: `command` is the subcommand, the rest is the module's that
models it. The modules share three variables: `pc` is the next call or phase, `game` the
part of the server that the command works on, `run` its result object and its locals. Each call
of the game is a step, so that everything else can happen between two calls; a loop body
without a call is part of the step before. `ExitZero` is what `main` and the `cmd_` functions make
of the result.

*Calls.* `GameCall` turns the contract into states: `Arrivals` are those the attempt that is
answered can find, since earlier ones may have been carried out unheard of; `Losses` are those an
unanswered call can leave; with `max_retries=0` they are `LossesOfOne`. So a start that was
lost may find its own game open, a purchase may be made twice, a raid may find its tries
used up by itself. An action for an error is also taken for every error the server could name
(`Flaky`).

*The game.* It is not in the repository: `Raise`, `Played`, `Sold`, `Raided` and their like are
what the commands rely on, and marked external in the map. Others act too: another session of the player
spends gift coins (`Interfere`), the ranks of the arena move (`Drift`), guild quests are
fulfilled by the guild (`GuildAdvances`), another process runs the glyph phase (`OtherRun`), and a
process of `seers-game` is killed in any state and started again (`Killed`, `Rerun`). Quests are run
several times in one cycle, since their guards are about the day.

*Data.* Gifts: a level costs one coin; the sparks and the gold beside it are left out, as they
are counted in the same way. Seer's game: one reward per round. Consumables: an item's method is known or not, and
opening it may yield items, of whatever kind, while `inside` lasts. Shops: a slot has a price, a purse and a number of
copies; `Purse` tells a slot for gold from one for the shop's currency; ranks come in the code's
three classes. Raids: a mission can be raided once a day; a potion gives one unit of stamina.
Quests: a recipe is its length and the step that fulfils the quest; excluded rewards are a set.
Arena: two players' ranks and whether the target is in the latest candidate list.

*What cannot be read.* An answer may be a success and lack what the code looks for. A shop run
whose player status cannot be read, which does not raise, or whose shop lacks the coins, goes on
with a budget of nothing in that purse (`Shown`, `run.unread`), skips the slots it could pay and
ends with exit code 0. `_actual_consumed` counts the amount asked for when the answer
does not say how much was used, on purpose (`ActualConsumed`, `run.unread`). Without the time of the
reset the guards of the recipe and of the glyph are off (`Blinds`), and `update_config_merged` may
raise after the work it is to note (`WriteFails`): `game.unguarded` has the works for which that
happened. `BudgetIsCeiling`, `ReportedIsReal` and `OncePerCycle` except these purses, items and works.

*History.* `moved`, `opened`, `earned`, `used`, `refused`, `recipes`, `enchanted`, `lost`, `unguarded`,
`attacks`, `drifted` and `sentDown` record what happened on the server or whether the run has
been told of it, for the properties.

*Bounds.* Three heroes, one too strong for `reset`, two levels, up to four coins and a limit of
two: plans cut by either, and a coin missing. Four rounds, three coins, `--max-games` 2, and
a game found open in each round. Two items, one of unknown method, two rounds, three pieces of each
at most and two more inside: a box that contains a box in the last round. Four slots, of which one
for gold and one for the shop's currency have two copies, and funds of four: slots that are too dear alone, or only after others. Two missions at two stamina, item raids at
one. Two daily quests, one of them the recipe, fulfilled before its last step, and one guild quest; two runs. Four ranks, of which two in the top list, one retry, two drifts.

## Runs

| Run | Shows |
|---|---|
| `toe_contract` | types; the bridge implements `BattleOracle`; a claim by the job's own account keeps the late answer of a foreign tab out; no awaited job is dropped by the TTL sweep (`AwaitedJobOutlivesTTL`). One worker, its own tab and a foreign one, two jobs |
| `toe_batch` | a batch of two: no awaited job is claimed twice (`AwaitedClaimStands`); the batch returns (`BatchReturns`), under fairness of the worker and of time alone; and while a tab stays up every queued job is done or gone in the end (`QueueDrains`) |
| `toe_stall` | *violated*: the comment in `calc_batch` says that its watchdog's expiry means the bridge is dead, "not merely slow". With two accounts on one tab a worker's batch is declared stalled while the tab is busy with the other account |
| `titan_ends` | with failing calls, a second session and the season's end anywhere: types; no raid of a tier given up or completed and no second CompleteTier (`NothingSentTwice`); a recorded win is the server's (`WinsAreReal`); a summary with nothing left is right (`ReportIsTrue`); a server that stands still is left after at most `2 * MaxIdlePasses` passes (`NoIdleSpinning`) |
| `titan_alone` | undisturbed, and with the fast sweep (`end_on_loss` off): no stop leaves a tier cleared and uncompleted (`NoTierLeftBehind`); a loss is left unsubmitted as no better than a banked one only if the server was sent one with as many stars in the same tier (`BankedHasLanded`; no reply is lost here, and the theorem covers lost ones) |
| `auth_quiet` | headers one by one, old among new: types; the handshake implements `SessionBook` (`SessionContract`): however slow the server saves, a tab that will not send its present session again was told so after its own request had stored it, and only a request it gave up on can overtake; a backoff is cut short by a success, a reload or an identity seen in two looks in a row, not by flicker (`RewoundByLogin`) |
| `auth_two` | two tabs and one nonce: both sessions get into the repository and stay (`NewestIsStored`) |
| `auth_fresh` | *violated*: the comment on `FRESH_WINDOW_MS` says that every header has been observed within it before a send. `evaluateSend` uses it for the spread between headers alone, so headers up to the TTL are sent |
| `commands` | each command from any state an earlier run can have left, with lost and repeated calls and other sessions: exit code 0 means done (`ExitZeroIsDone`), what is reported has happened (`ReportedIsReal`), the limit on games (`PaidWithinLimit`), the shop's budget and dry run (`BudgetIsCeiling`, `DryRunForetells`), the heroes' stamina (`HeroesComeFirst`), once a day (`OncePerCycle`), the arena's rules (`AttacksAreAllowed`) and its one attempt (`AttemptSpentOnce`) |
| `commands_transient` | *violated*: the docstring of `run_consumable_use` says that a transient failure is tried again in the next round. `use_consumable` reports an unanswered call as an error of the game, which is final |
| `process` | the call's contract (`CallContract`); what running accounts did is kept, none begins after it was reported as stopped, exit code 0 is complete, and `multi` ends (`NothingDoneIsLost`, `StoppedMeansStopped`, `ExitZeroIsComplete`, `MultiEnds`); each update is made at one moment and none is lost, since `ConfigStore` implements `AtomicUpdates` (`UpdateContract`), Ctrl+C is clean and delivered, every update ends (`CleanInterrupt`, `DeferredIsDelivered`, `WritersEnd`); the reload budget and the API's requests (`ReloadBudget`, `ApiRequestsAreSeen`) |
| `store_sleepers` | *violated*: the comment at `connect` says that the lock is taken per attempt so that sleeps do not block other threads. A connection opened within an update sleeps with the update's lock held |

`RewoundByLogin` and `NewestIsStored` say what they do of one account's tabs; a second login
is part of `auth_quiet`, not of `auth_two`, which checks liveness.

A property of `commands` is about one or more of the commands, and is not vacuous for any of
them: each command reaches exit code 0 and each of its failures in the run. Two conditions
name what the code cannot know. `OncePerCycle` excepts a call that was carried out unheard of; a
day, for the recipe, or a time of the reset, for the glyph, that could not be read, for then the
code runs again, as tests have it; a note that could not be written; for the glyph another process at the
same moment; and an authentication error that left the recipe unnoted: `quest_farm` lets it
through before `last_recipe_at` is written (`Raises`, `quests.py:1368-1377`). And
`SeersGame`'s part of `ExitZeroIsDone` takes the server to refuse a start for an open game
before it looks at the coins (`OpenBeforeCoins`). Were it the other way round, a lost start that took the
last coin would end the run as a clean depletion, with a game open.

`NoIdleSpinning` is not `MaxIdlePasses`: a raid that won in its simulation counts as progress
even if EndRaid failed, but only once per tier, since the raid is then suppressed.

*Fairness.* `FairSpec` asks only that a worker's thread goes on and that time passes; the
thread polls in a loop and the operating system schedules it. `QueueDrains` assumes besides (`LiveTabs`) that a tab's interval timer fires, that a computation ends (the userscript
gives up after ten seconds) and that the network lets a poll and an answer through if they
are tried again and again; `QueueDrains` holds only for behaviours in which reloads stop.

`FairSpec` of the handshake asks that time passes, that the game's requests go on, that a tab
polls (an interval timer), that the server's threads run and that a reply which is not among
the troubles arrives. Nothing makes a login, a reload or a failure happen, and `MaxTrouble`
says that failures end.

`FairSpec` of `Process` asks that the main thread of `multi`, its pool, and each writer go on:
threads are scheduled, requests time out, attempts are bounded, and the waits of the retries end. Nobody has to
press Ctrl+C, and nothing is asked of other processes or the page. The commands have no liveness
property: every loop of theirs is over a list made before it, or has a cap.

`AwaitedJobOutlivesTTL` carries its own condition: a batch of n battles can wait 2n
timeouts, since every claim and every finish rewinds the watchdog. With 30 s and 300 s that
covers batches of up to five; for a larger raid the code relies on battles being quick.

## Proofs

The theorems about the bridge hold for every number of workers, tabs, accounts and jobs and every value of the
timeouts that satisfies `StoreAssumption` and `BridgeAssumption`: in essence that the
engine's timeout is shorter than the reclaim timeout, as the code's defaults are.

- `AlwaysTyped` (`TypeOK`). `TypeOK` is not inductive: a tab's submission writes `calc[t]`
  into the store. `TypeInv` adds that a tab past its claim holds a job id and one of its own
  payloads, and that a worker in its posting loop has a battle left.
- `OracleImplemented` (`OracleSpec`). The invariant `OracleInv` says how store, workers and
  history agree: an open job has no accepted answer and a done one holds it; an id not handed
  out is blank everywhere; an awaited job has no outcome, and one worker only awaits it.
- `ClaimsStand` (`AwaitedClaimStands`). `ClaimInv`: an awaited claim is at most `Timeout` old
  at any time, and younger once its worker has looked at it in the current unit.
- `OwnersAnswers` (`OwnersClaimShutsOthersOut`). `OwnerInv` adds that every job in the store
  has a real account, so that "claimed by its account" and "claimed account-less" exclude
  each other.

- `AwaitedOutlive` (`AwaitedJobOutlivesTTL`; that the longest batch fits into the TTL is the property's own
  condition). `TtlInv` is a potential: a batch has two chances for every battle it has still
  to post or to hear of, less one for each claim the watchdog has seen (`Chances`). The age of an unclaimed job
  plus a timeout per chance left is at most `2 * MaxBatch` timeouts plus what the watchdog
  has already waited, so each rewind is paid with a chance; one unit is added while the batch is
  still being posted behind the job (`Later`). A claimed job is as old as its claim plus
  at most the longest batch less a timeout; a done one has the longest batch, less the
  unit since it was looked at. That claims take the oldest job first is what bounds
  the head of the line: of one worker's jobs none is claimed before an older one.
  `JobsPosted`: ids not handed out are absent, and what a tab holds has been claimed.

The theorems about the tier loop hold for every number of tiers, rivals, passes and attempts
and with every option, under `TierAssumption` and `ServerAssumption`, which say no more than
that the bounds are positive, the rivals finitely many and the raid tiers tiers.

- `LoopTyped` (`TypeOK`). `TypeInv` adds that a run in a battle fights a rival of the server's,
  that its attempts and passes have room left at the steps that count them, and that no more
  passes stood still than were made.
- `WinsHold` (`WinsAreReal`) and `BanksHold` (`BankedHasLanded`). Every step is first classified
  by what it does to the server (`ServerMove`: nothing, a score that rises, the next tier) and
  by what it does to the run's memory (`RunMove`: nothing, a win or a bank the server has just
  been sent, a new pass); `RealInv` then follows from the two classifications without looking
  at the actions again. It adds that the status a pass works from is of the present tier or of
  an earlier one (`StatusIsPast`), which is why a stale bank cannot be of a future tier.
- `SentOnce` (`NothingSentTwice`). The code keeps one key per purpose (the tier whose raid is
  suppressed, the tier last completed), where a set would be needed to remember them all;
  `OnceInv` says why one is enough. A tier that is shut or completed is named by a key or lies
  behind (`ShutIsKnown`, `HeardIsKnown`), no key names a tier the run has not met
  (`KeysArePast`), a completed tier that is still the present one is the last of the season
  with nobody left to fight (`TopIsLast`), a pass over such a tier has nothing to do
  (`HeardIsIdle`), and a raid goes on only while no suppression is set (`RaidIsOpen`).
- `ReportsHold` (`ReportIsTrue`). `TrueInv`: the summary is never of a tier ahead of the server's, and
  what it says of the present one stays true because scores of a tier only rise; the last look,
  which may subtract wins from an old count, follows a season that is finished, where nothing is left.
- `NoneLeftBehind` (`NoTierLeftBehind`). The theorem holds of every run, the invariant `BehindInv` says
  something of the calm ones: the snapshot less the pass's wins is exactly what the server has left, every rival
  still to fight is left, and an entry in the results means the snapshot was not empty
  (`UpToDate`). So a pass that gives up without a win has a rival left, and one whose CompleteTier was not
  available too. The proof uses `OnceInv` where a key says the tier is done (it is the last), and
  `TrueInv` for the last look.
- `RunsEnd` (`NoIdleSpinning`). What the last status saw of the server is never ahead of it
  (`MarkIsPast`), so a server that has moved stays moved until the next status, and `SpinInv` is
  about the others: while the server stands still a pass has no win, no raised score and
  no rival to confirm, so it counts as idle, or it is the one pass whose EndRaid failed, after
  which the tier's raid is suppressed. Hence the factor two.

The theorems about the handshake hold for every number of tabs, threads, logins and troubles,
with and without `Split` and `Chatty`, under `SessionAssumption` and `HandshakeAssumption`,
which order the intervals as the code does.

- `HandshakeTyped` (`TypeOK`), inductive as it stands: no backoff exceeds `MaxBackoff`, no wait
  `Timeout`.
- `QuietIsSound` (`SilenceIsSound`), `SessionsAreWhole` (`StoredIsWhole`) and `HandshakeKeepsBook`
  (`SessionContract`, the refinement of `SessionBook`), however slow the server saves. `BookInv` says
  that a tab waits for one thread at most, which is at a stage the tab knows of and has the
  headers the tab has sent (`OneIsHeard`, `StagesAgree`); that what is about to be saved is some
  login's session, whole, because the game has accepted it, and no older than what the tab was told of if the tab waits for it
  (`SavesAreDue`); that an answer on its way is of what was entered last (`AnswersAreEntered`); and
  that a tab was told of nothing newer than that (`ToldAreEntered`). So a save is `Enter`, or `Overtake` where
  nobody waits for the thread, and an answer is `Tell`. What an overtaking request leaves behind is a session
  that is whole, and maybe old: nothing in the code tells the tab, and no theorem says more.
- `RewindsAreEarned` (`RewoundByLogin`, an action property). `PendingIsJudged`: a pending identity is
  the one the last look saw, so seeing it again means two looks in a row.

The theorems about `Process` hold for every budget of retries, and for every number of threads,
attempts, connections, other processes and mishaps, under the assumptions of the four components.

- `ProcessTyped` (`TypeOK`). A thread that is to sleep before another attempt has one left
  (`StoreBound`), the main thread of `multi` that looks at an account has one to look at and has
  been pressed at most as often as the bound says (`MultiBound`), and no time kept in storage and none in
  the list of reloads becomes negative, also when the clock is set back (`PageBound`).
- `CallsKeepContract` (`CallContract`). `ClientInv`: before the last attempt as many have been made
  as were counted, and at most as many carried out; the counter is within the budget while
  another attempt is due.
- `NoUpdateLost` (`UpdatesSurvive`). `StoreInv`: the lock is held by the thread that is between
  its acquisition and its release and by nobody else, and what that thread has read is still
  stored, or lost to another process. So what it writes drops nothing that a thread has
  reported, which is not evident from the write alone.
- `InterruptsAreClean` (`CleanInterrupt`), from the same invariant: whoever has ended does not hold
  the lock, and a panic needs another thread in the process, one at work or one idle in the pool.
- `UpdatesAreAtomic` (`UpdateContract`, the refinement of `AtomicUpdates`). By `StoreInv`, what the
  writer has read is the stored value or was in it until another process dropped it, so its
  write adds its own update and can bring back only what is lost. Each step is classified by what
  it does to the value and to the one thread that takes it; a thread ends as `ok` only
  with its update made.
- `WaitersAreServed` (`NobodyWaitsForTheDead`). The lock has a holder only between its
  acquisition and release (`StoreInv`), so whoever waits at it waits for a thread within an attempt.
- `DeferredStaysHeld` (`DeferredIsHeld`). `SigintInv`: the signal is pending only while the main thread is
  in an attempt, and the main thread is interrupted exactly when it was delivered.
  The last two are the safety that `WritersEnd` and `DeferredIsDelivered` rest on.

- `WorkIsReported` (`NothingDoneIsLost`), `NothingBeginsLater` (`StoppedMeansStopped`) and `ZeroIsComplete`
  (`ExitZeroIsComplete`), under `MultiAssumption`. `MultiInv` says how futures and results agree
  (`FuturesAgree`) and what each phase of the main thread has behind it (`PhasesAgree`): the loop
  that cancels leaves nothing queued among what it has passed, the loop that collects leaves nothing
  without a result, a record with code 0 follows a summary without failures, and every
  failing path carries a code that is not 0.
- `NobodyIsForgotten` (`WaitsForThePool`), the safety that `MultiEnds` rests on. `Pooled`: every account before the
  loop's place has been submitted, from gathering on all have, and none is cancelled before
  the loop that cancels; that it leaves nothing queued behind it is in
  `PhasesAgree`.
- `ReloadsAreRare` (`ReloadBudget`), under `PageAssumption`. `BudgetInv`: while storage is kept and the
  clock runs forward, the time of the last reload is in storage and not in the future, so that
  the reloads numbered `i` and `j` are `j - i` cooldowns apart. With the code's numbers (three
  reloads in 10 minutes, 5 minutes apart) that alone keeps the limit, because `MaxReloads`
  cooldowns are longer than the window, as `PageAssumption` says; the count in storage, which starts
  anew with every window, would by itself let the end of one and the start of the next
  hold twice as many.
- `RequestsAreSeen` (`ApiRequestsAreSeen`). `SeenInvariant`: an object's own fields agree with
  what it was last opened for, whichever wrappers lie on top. How often a header is captured is not part of it: where
  another script wraps at every open as well, the chain ours, theirs, ours captures it twice.

The theorems about `Commands` hold for every value of the constants of the command each is about,
under that command's assumption. The commands share their variables, and each has fields of its own in them; an invariant
names the fields it needs and says nothing of the others, so that the steps of one command are all a proof looks at.

- `OneAttempt` (`AttemptSpentOnce`). `ArenaInv`: nothing is sent before the command is over, so the
  one request ends it.
- `AimHolds` (`AttacksAreAllowed`). `AimInv`: while no rank has moved since the target's place was
  read, the place the command knows is where the target is, and, once it has been compared with
  one's own rank for the last time, above it; from the capture on, the target is in the latest list.
- `GamesWithinLimit` (`PaidWithinLimit`). `SeersInv`: before a start no more games are open or
  paid than were played to the end, and one more in a game. A start that is carried out twice
  opens one game, because the second finds it open; a lost one ends the run.
- `BudgetHolds` (`BudgetIsCeiling`). `ShopInv` keeps both balances integers, and the run's of a
  purse it could read at least the game's: a sale the run hears of lowers both by one price, every other at most the game's.
- `HeroesFirst` (`HeroesComeFirst`). `RaidInv`: a mission off the list has a result, the list is
  empty before the items' turn, and then the routine has looked at every result.

The next three are about all commands, and the two after them share the invariants:

- `CommandsAreTyped` (`TypeOK`), `ReportsAreReal` (`ReportedIsReal`) and `ZeroMeansDone` (`ExitZeroIsDone`,
  assuming `OpenBeforeCoins`, which is about the game) collect what follows from these invariants.
- Gifts, `GiftInv`: what is priced or refunded has moved; while nothing has failed every
  hero whose turn is over is at the goal, and no level is below what was read, so what was missing
  then is enough.
- Seer's game, `CountInv`: the rewards counted and those of the open game together are at most
  those earned, so that no reward is counted twice over kills and reruns.
- Consumables, `UseInv`: what the run has counted of an item whose answers it could read is used up, what was given up stays so, and
  a run that ends by itself has found nothing left or says what is.
- Raids, `TodayInv`: what was read as raided remains so.
- Quests, `QuestInv`: what is reported is claimed (`Real`); the lists are those of the phase the run is in, and no quest
  is in hand and in a list at once (`Listed`); a quest that is planned is claimed, given up with a reason, or still ahead (`Covered`).
- `OnceACycle` (`OncePerCycle`). Two more parts of `QuestInv` say which guard protects what.
  `RecipeGuarded`: a recipe that was run to its end has been noted, in the run or in the configuration,
  before anything else is called, and its quest was fulfilled on the way; so neither way
  to the recipe is open any more. `GlyphGuarded`: the same of the glyph and `last_run_at`. Both ask that
  the guard in question was readable and its note written.
- `BuysAsPlanned` (`DryRunForetells`). `DryInv`: while nothing has failed, what is bought
  and what the rest of the queue would add to it is what the dry run lists (`Foretold`).

`ShopAssumption` numbers the slots in the order of purchase, the ranked ones by their rank;
`ConsumablesAssumption` says that the code's "none" is no item.
`Queue` and `Affordable` are recursive functions. The library's induction theorems take an operator as a
parameter and cannot be used; `LeastOf` (a set of numbers has a least one, from the well-founded order
of finite sets), `Induct` and `Stepwise` (a recursive function has values in
the set its steps stay in) are induction over sets instead, and `AffordableIsLed` and `LeadsOn` take
the dry run and the purchases from slot to slot together.

Each invariant was checked by TLC before it was proved, in the runs above. Every invariant, action property and refinement of
the passing runs is stated by a theorem. `SilenceIsSound`, `UpdatesSurvive`, `StoredIsWhole`,
`DeferredIsHeld`, `NobodyWaitsForTheDead` and `WaitsForThePool` are stated by theorems and are in no run: the
first two say of the states what `SessionContract` and `UpdateContract`, which the runs check, say of the
steps, and the others are the safety beneath what the runs check (`SessionContract`,
`DeferredIsDelivered`, `WritersEnd`, `MultiEnds`), which needs no fairness. Left to TLC are the liveness properties
(`BatchReturns`, `QueueDrains`, `NewestIsStored`, `MultiEnds`, `DeferredIsDelivered` and
`WritersEnd`), which are out of the prover's reach, and the four violated ones, which are false.

## Plan

What is left, in this order:

1. Proofs: the safety that `QueueDrains`, `BatchReturns` and `NewestIsStored` rest on, as it is
   proved for the liveness of the store and of `multi` (`NobodyWaitsForTheDead`, `DeferredIsHeld`,
   `WaitsForThePool`).
2. The store's other writers: `update_config` without a merge, the session's headers, the log's
   pruning; several processes that take part, instead of one that intrudes.
3. The cleanup of the engine after a dead stream while other threads have sessions open.

## Not modelled

- Building engines and URLs, replicas' first sync, migrations, and reads of the repository: start-up
  steps and queries without a race of their own. `record_run_log` is one step of `MultiRun`
  that may fail.
- The commands that only read (`status`, `arena` and `guild` lists, `chat`), tables, wording, argument
  parsing: they change no state. The review script of the CI is another program.
- The engines behind `BattleOracle` (the Playwright page, the battle calculator and the traps that
  capture the game's classes): pure computation, or the browser's own.
- Arena teams and presets: validated before, and not changed by, an attack.
- Regeneration of stamina and of arena attempts during a run.
- The number of calls that the tier loop makes: what a faulty raid costs is not counted, so a partial echo taken
  for a complete one, or a verified win dropped, violates nothing (`PROJECT.json`, hazards).
- `--once` of the auth server, which chooses a message and, against its help text, no more.

Differences between text and code that were met on the way and have no run of their own:

- `titan_arena.py:1144-1146` says that the cap on passes guards against pathological server states
  only. Passes are counted over all tiers, so that a long season whose scores rise in every pass
  reaches it.
- `titan_arena.py:1357-1358` says that an empty list of rivals means "no targets". Bridge errors and
  Invalid-battle retries append nothing, and can use up a rival's plan.
- The docstring of `run_for_account` says that any exception is captured. Loading the headers is
  outside of its `try`; what it raises leaves `run_all_accounts` with all results (`GatherRaises`).
- Ctrl+C while accounts are still being submitted is not handled: those queued are still run after
  the command has ended (`Press`).
- The docstring of `_run_guild_glyph_phase` (`quests.py:1641-1644`) takes `last_run_at` to
  protect several processes. It is read before and written after the call, so that two at the same moment
  both spend the material.
- `defer_sigint` masks the signal for its own thread; any other live thread of the process can take
  it, at work or idle (`Shielded`).
- `save_session` follows the game's check in a step of its own (`auth.py:139-142`); a slow thread can put an old
  session over a newer one, and the tab that was told of the newer one keeps quiet (`Overtake`).
- When `open` is called for another URL, the interceptor deletes the object's own
  `setRequestHeader`, and with it a wrapper of another script underneath (`OpenOther`).
