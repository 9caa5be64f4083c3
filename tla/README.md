# cs2-predictor in TLA+

A verification project for the prediction bot: TLA+ modules translated from the Go
source, TLC configurations that check them on small instances, and TLAPS proofs that
hold for every instance. Paths below are relative to the repository.

## 1. The system

One Go process (`cmd/bot/main.go`), two of them while a deployment rolls over, on one
PostgreSQL database. It follows CS2 and Dota 2 tournaments through a match data provider,
posts a Telegram poll per match to every subscribed chat, records the votes, settles them
when the result arrives, and posts leaderboards, recaps and medals.

Three kinds of activity run concurrently:

* **scheduled jobs** (`app.RunFixedDelay`, wired in `main.go:370-412`): each is a goroutine
  that runs, waits, and runs again, under a deadline, most of them under a cluster lock
  (a PostgreSQL session advisory lock) *of its own name*. Two jobs are therefore never ordered;
  only a job with itself is;
* **webhook deliveries**: one goroutine per HTTP request of Telegram's;
* **the outbox dispatcher**: itself a job, it publishes what the others enqueued.

They share nothing but database rows, so every hazard below is about rows read, acted on
and written back while somebody else does the same, about calls to Telegram that no
transaction covers, and about runs cut short.

### Components

| component | state | operations | what makes it correct |
|---|---|---|---|
| prediction polls (`domain/prediction`, `adapter/telegram/poll_gateway.go`) | `match_poll` rows; the poll at Telegram | Create, CloseDue, closeMatching, Reschedule, RecordVote | one poll per match and chat; a row never says more than Telegram did; every poll ends |
| competition sync (`app/sync.go`) | `esport_match`, `esport_event` | DiscoverEvents, SynchronizeMatches, ReconcileEventCompletions, CloseDuePolls | each change of a match is reacted to, one failure does not stop the rest |
| settlement (`app/settlement.go`, `domain/scoring`) | `score_award`, `match_settlement`, `prediction_milestone` | Settle, ReplaceAwards, MarkSettled, Record | awards always agree with the settled score; corrections replace; a milestone is told once |
| event completion (`app/completion.go`) | `event_medal`, `event_chat_completion` | Complete, completeForChat | medals agree with the recorded standings; no recap twice for one result |
| update handling (`adapter/telegram/handler.go`, `webhook.go`, `postgres/idempotency.go`) | `processed_telegram_update` | Claim, dispatch, Release | no update handled twice, none lost but through a crash |
| inbound and outbound limits (`inbound_limit.go`, `ratelimit.go`, `client.go`) | token buckets | Allow, wait, retry | bounded rate, eventual send |
| outbox (`app/outbox_dispatcher.go`, `postgres/outbox.go`, `quiet_hours.go`) | `outbox_event` | Enqueue, Pending, Published, Failed, Defer, ReplayDeadLetters | at least once, exactly once without faults, nothing held or starved for ever |
| cluster lock (`postgres/cluster_lock.go`) | session advisory locks | Execute | one run of a job at a time |
| watchdogs (`app/dead_letters.go`, `webhook_watchdog.go`, `host_metrics.go`, `admin_alerts.go`) | whether an alert is out | Check | one alert per episode, one recovery notice |
| provider gateway (`app/gateway.go`) | circuit breakers per provider | Matches, DiscoverEvents, Health | an open breaker lets a trial through; a healthy provider is not held back by another |
| reminders, digests, event eve, event offers, cross-sell | one marker per message sent | Dispatch | each message at most once, none lost to a transient failure |
| subscriptions, moderators, approvals, Mini App access | rows per chat and user | commands and callbacks | two signatures where promised; no stale approval |
| team matching, enrichment, rosters, logos | caches and gates | Dispatch | fallback order, no refetch storm |
| retention (`app/retention.go`) | row ages | sweep | never deletes what is still needed |

`PROJECT.json` lists every component with its files and status, and every hazard at its line.

## 2. Plan

The most important behaviour comes first: what a player sees twice, wrongly or not at all.
Each module is checked with TLC before anything is proved about it; proofs cover the ones marked *.

| # | module | composes | abstract statement | state |
|---|---|---|---|---|
| 1 | `PredictionPolls`* | the two jobs, the rows, Telegram | properties only | done |
| 2 | `Subscribing`* | `PredictionPolls` (EXTENDS) with the handler of a subscription | properties only | done |
| 3 | `UpdateDelivery`* | Telegram's redelivery, the claims | properties only | done |
| 4 | `Outbox`* | dispatchers, lock, quiet hours, operator | `MessageDelivery` | done |
| 5 | `Settlement`* | provider, settlement, milestones | properties only | done |
| 6 | `EventCompletion`* | `Settlement` (EXTENDS), three jobs | properties only | done |
| 7 | `ProviderHealth`* | gateway, enrichment feeds, alerts | properties only | done; `Health` left out |
| 8 | `Votes`* | concurrent poll answers, the order of the teams, settlement, the backfill | the awards computed from the result itself | done |
| 9 | `ChatRoles`*, `ChatAccess`* | moderators, invitations, settings, games, removals; handlers statement by statement | properties only | done |
| 10 | `Publishing`*, `Notices`* | the jobs that decide on a notice, the publishers, the upgrade of a group | properties only | done |
| 11 | `PersonalScreens`*, `ChatScreens`*, `Screens`* | every screen, the routes, the stamp, the session, the rights | properties only | done |
| 12 | `TeamMatching`* | match job, feed's job, helpers, operators | properties only | done |
| 13 | `ScoringRules` | pure operators: offered scores of a format, ranks, insights | reference definitions over all scores of a best-of | to do |
| 14 | `Watchdogs` | dead letter watch, webhook watchdog, host monitor | one alert per episode | to do |
| 15 | `Retention`, `Limits`, rosters and caches | ages, token buckets, replaced rows | nothing still needed is deleted | to do |

Every safety invariant and every action property a run checks has a theorem; as modules 13 to 15
are added, theirs come next. None of the modules declares a RECURSIVE operator.

## 3. Modules

Every definition that models code is mapped to its lines in `PROJECT.json`. The convention is
the same throughout: one action per step that other actors can observe (one SQL statement or
transaction, one call to Telegram or a provider), with what the job keeps in memory between two
steps as state of its own. A failure is an action of its own, which spends one of `MaxFaults`
(`MaxFailures` in `TeamMatching`); those bounds are the only thing that keeps failures from
happening at any step.

### 3.1 PredictionPolls and Subscribing

The polls of one match, one per chat. `row` is `match_poll` (`NoRow` where there is none),
`tg` the poll as Telegram holds it with its `close_date`, `match` the stored match, `report`
what the provider says. `snap` holds the rows as each job read them, because both jobs save the
whole row they read.

* `SaveMatch` and the choice that follows is `processMatch` (`sync.go:415`): end the polls of a
  live or called-off match, move those of a postponed one, create those of a match whose
  participants have just become known.
* `Creating` (`KeepExisting`, `CreateTooLate`, `CreateDraft`), `SendPoll`, `SendFails`,
  `SaveSent` are `Service.Create` and `PollGateway.SendPoll`.
* `CloseDue`, `StopPoll`, `StopRefused`, `StopFails`, `SaveEnded`, `SaveFails` are `CloseDue`,
  `closeMatching` and `close`; `StopAccepted` is that "already closed" counts as success;
  `Announce` the broadcast link.
* `Reschedule` saves the row read before with a new deadline.
* `RunAborted` is a run that hits its deadline, or a restart, between any two steps.

`Subscribing` adds the third writer: `Subscribe`, `FindUnstartedMatches`, `Create`, `Send` and
`SaveWithIds` are the handler of the button (`subscription_flow.go:21`), which creates the polls of
the matches still to come itself and holds no lock. `SubscribedChats` is the fan-out's own query
for the subscribers. `owed` are the chats that one of the two has undertaken to serve, `overtaken`
the chat whose handler had read the match and was about to create its poll when the sync run stored
the match again: `Create` then drafts from what was read, and looks at the start time only.

### 3.2 UpdateDelivery

`deliveries`, `waiting`, `acked` are Telegram's side; `claims` is `processed_telegram_update`;
`at` is where each delivery's goroutine stands. `Claim`, `SkipDuplicate`, `ClaimFails`,
`Throttle`, `Dispatch`, `DispatchFails`, `Release`, `ReleaseFails` are `UpdateHandler.Handle`;
`Disconnect` kills the request's context, under which the un-claim runs too; `Crash` ends every
delivery.

### 3.3 MessageDelivery and Outbox

`MessageDelivery` is what a caller of `Enqueue` may rely on. `Outbox` is how it is done:
`published`, `attempts`, `wait` are the columns of `outbox_event`, `queue` the order of
`occurred_at`, `holder` the session lock. A dispatcher takes the lock, reads a batch, and for
each message of it, the oldest first (`Current`), publishes and then records: `Publish`, `PublishFails`, `AnswerLost` (Telegram took
it, the caller timed out), `Hold` (`WithQuietHours`), then `Published`, `Failed`, `Defer` or
`NotRecorded`. `LockLost` ends the session under a running dispatcher, which goes on. `Promise`
instantiates the abstract module with the status computed from the columns.

### 3.4 Settlement

`reported` is the provider's, `stored` the catalog's, `awards`, `settled`, `claimed` are
`score_award`, `match_settlement`, `prediction_milestone`; `results` and `told` are what was
enqueued. `ProcessMatch` stores, `SkipSettled`/`Begin` are the comparison with the stored result,
`Courtesies` are the lookups of recaps and milestones whose errors are swallowed, `MarkSettled`
is the statement that decides the commit, `MarkRefused` the same in a transaction PostgreSQL has
aborted (`RunInTx` opens no savepoint, `postgres/db.go:57`).

### 3.5 EventCompletion

EXTENDS `Settlement` and lets its steps interleave with three jobs:
`SyncBegins` after a settlement, `ReconcileBegins` at any time, `DiscoverFinished` once. Each
takes the chats one by one: `Open` (transaction, advisory lock, standings, comparison),
`Unchanged`, `Commit` (medals replaced, table enqueued, hash recorded), `RollBack`. `Standings`
is the leaderboard query and its tie-breaks, `MedalsFor` the dense ranks that win a medal.

### 3.6 ProviderHealth

`streak`, `opened`, `wait` are `failureStreak` and `circuitOpenUntil` of the gateway; for a feed
`streak` is `provider_sync_state.consecutive_failures`. `queue` is the order in which a call of
`execute` tries providers. `RecordSuccess` and `RecordFailure` are one step each (a mutex), the
alert is a later one (`ProviderRecovered`, `ProviderDown`): it is enqueued after the mutex is
released. `ReadState` and `WriteFailure`/`WriteSuccess` are the two statements of
`ObservedSyncState`. `told` counts the alerts of an outage less those of a recovery. Assumed of
the configuration: an order names a provider once.

### 3.7 Votes

One poll, its players and the two orders the teams may be named in. `choice` is what Telegram shows
a player to have picked, `updates` the poll answers under way (each is read and saved by a request
of its own: `RecordVote`, `SaveVote`, and `RecordVoteFails` with the redelivery), `votes`
`prediction_vote`. An answer may also be lost for good: `Throttle` is the player's limiter
(`inbound_limit.go:60`), `ClaimKept` a request whose update stays claimed (`handler.go:355`); each
leaves the vote what it is (`Dropped`), or written already (`MayBeWritten`). `standing` keeps, of
each player, the picks that the vote may be after that, and `late` the players who answered about
or after the last settlement. `MapMatch` sorts the opponents the
provider lists by id and takes a score only when both teams' results are there; `SaveMatch` stores
the match in the order `reconcileTeamOrder` gives it and creates the poll with its anchor
(`UnsortedMatch` is a match stored before the sort was added, the one way the orders still differ); `SettlePoll` reads the votes and awards by `Calculate` in the
order `realignToPollTeamOrder` gives. `LegacyMatch` is a poll from before the anchor, settled the
wrong way round, which `backfill-team-order` repairs with two writes (`BackfillSwap`,
`BackfillSettle`). `truth` and `basis` are the results the stored scores stand for, kept apart
from any order: they are what the awards are judged by.

### 3.8 ChatRoles and ChatAccess

One group. A handler with several statements is a task in flight, so that two interleave after any
statement. `ChatRoles`: `moderators`, `perms`, `invites`, `access` are the tables; an appointment
or an acceptance appends the moderator and then inserts the permissions, whose foreign key refuses
them when the moderator is gone (`InsertsFail`), and a set that is replaced leaves in place what a
concurrent transaction committed after its DELETE began. `given` are the rights each person may
hold: the set given last, united with those of the appointments and edits still under way then
(`UnderWay`, `GiveRights`), and nothing after a removal, unless an appointment under way puts
row and rights back. `access` is the Mini App's, one row per person; no property is about it. `ChatAccess`: `row` is `telegram_chat`,
saved whole by every button, every message and the Mini App's PATCH from what each read before
(`Saved`), and the games are replaced as a set, cleared and inserted (`ClearGames`,
`SetEnabledGames`). `chosen` is the value each setting was last given, and whether each game was last
switched on; `overlapped` are those given while another writer had read and was still to write.
`request` is the removal of a tournament with the managers asked, its confirmations and rejections.

### 3.9 Publishing and Notices

A behaviour follows one kind of notice (17 of them) of one group. `Publishing` is what a publisher
does with the message: where it goes (`ToGroup`, `ToPerson`), and the fallbacks of `sendToChat`,
one call at a time (`Hears`: without the topic, then under the group's new id), the mark on a person
who blocked the bot, the dispatcher's count of failures, and the death of the process, with its request
on the way or not (`PublisherDies`). `Upgrade`, `MigrationMessage`,
`MigrateChatID` with `Rename`, `RenameFails` and `DropOldRow` are the group's new id reaching the
tables; `Cascades` says which markers follow it. `Notices` adds the deciders: each finds the notice
due and wanted (`Concerns`), marks it (`IsNew`: an insert that reports a conflict), joins or queues.
Digests and reminders mark and queue in one transaction (`Atomic`), the others do not, and an offer
is decided by two jobs. `Owed` is an offer that stays due, wanted and untaken.

### 3.10 PersonalScreens, ChatScreens and Screens

The first two are the screens as data: each is the set of buttons it can offer and where its back
button leads, and each route (`callback_routes.go`) the change and the screen that follow from a
button and the viewer's rights (`crosssell:dismiss`, under the offer `CrossSellOffer`, asks for
none). `Screens` is one person with one panel: `HandleCallback` and
`HandlePrivateCallback` route a tap, `TargetManagedChat` chooses the chat by the stamp in the
callback data or, without one, by the stored session; messages bring new panels, and meanwhile the
person uses another panel (`OpenElsewhere`), loses rights (`Demote`, `Relieve`) or the group gets
another id (`Migrate`). `last` is what the last tap did, the group it was routed to and the groups it
changed (`ChangedBy`): a bulk copy changes some of the person's other groups (`CopyTargets`), and a
revocation the group of the invitation whose token the panel carries (`invited`), wherever the tap
was routed. `backs` counts the taps on "back" that each changed the screen.

### 3.11 TeamMatching

One name of a ranking feed that no local team has. `request` and its candidates are
`team_match_request` and `team_match_candidate`; the match job (`MatchArrives`, `CreateRequest`,
`OfferCandidate`, `AutoAcceptName`, `AutoAcceptRanking`) and the feed's job write mappings, the
fan-out asks chat members (`AskChatHelpers`, `Ask`, `CountAsks`), who answer in a transaction that
locks the candidates (`ReadScores`, `RecordResponse`), and two operators decide from cards drawn
before (`deciding`), statement by statement. `questions` and `posted` count what each person and
all of them were sent, `asked` and `asks` what was recorded. Two teams of one match are two arrivals. `tally` is
what the answers would have made of each score one after the other, `muddled` that a decision
overlapped another or stopped half way.

## 4. Runs

`PROJECT.json` gives each run's module, configuration and properties. Every property of a passing
run has a mutant there: one definition changed the way a bug would change it, under which TLC
finds the property violated.

| run | question | bounds |
|---|---|---|
| polls_two_chats | do rows, Telegram and both jobs agree while a batch is handled? | 2 chats, 3 time points, 2 reports, 1 fault |
| polls_one_chat | does a chat that joins meanwhile get its poll, does a match that goes live leave one open, do Telegram ids survive, does every poll end? | 1 chat with links, not subscribed at first, 3 time points, 1 report, 1 fault; a lead of 2, so polls are also sent without a close date |
| delivery | is an update handled twice, or lost? | 2 updates, 4 deliveries each, 3 faults |
| outbox | is delivery at least once, and exactly once without faults? | 2 processes, 2 messages, batch of 1, 2 attempts, 2 faults |
| settlement | do awards, announcements and milestones survive corrections? | 2 chats, 2 matches, 2 players, 3 scores, 2 corrections, 1 fault |
| completion | do three racing jobs complete each chat once per table? | 2 chats, one always failing, 1 match, 2 players, 1 fault |
| health | is each outage told once, and does it end? | 1 provider, 2 callers, 1 feed, 3 changes, 1 fault |
| votes | do awards follow the team that won, and does a replaced pick ever come back or count? | 2 players, the 3 scores of a best of two, 2 answers, 2 reports, 1 fault |
| access | do rights, settings, games and removals stay as they were last given, with two handlers overlapping? | 2 people, 1 of them an admin, 1 invitation, 2 permissions, 2 settings, 2 games, 1 removal, 2 handlers with several steps, 1 fault |
| notices | is anything told twice, marked and not told, or lost? | 17 kinds, 2 attempts, 3 disturbances, 1 other tournament ahead |
| screens | can an old panel act on the wrong chat, or change any chat without the rights it takes, and does back lead out? | 2 groups, 4 roles in each, 3 kinds of operator |
| teams | do answers count, do caps hold, do decisions stand? | 3 teams scoring 100, 88 and 80, 2 helpers, 2 operators, 3 rounds, 2 answers, 3 taps, 1 fault |

That a state has its type is not among the runs' properties: each module states it (`TypeOK`,
`CompletionTypeOK`, `SubscribingTypeOK`, `RolesTypeOK`, `ScreensTypeOK`; for `TeamMatching`
`MatchingShape`, beside its proofs), and it is proved (6).

Why the bounds are enough to be of interest:

* Two chats are the least for which a batch can fail in its middle; the two jobs already meet on
  one row. Two reports are a match that becomes known and is then called off, moved or started.
  `polls_one_chat` has three writers on one row and one report, which is enough for a match that is
  known from the start, or becomes so, to be moved or begin under a handler; that a move is followed
  by a start or a cancellation is in `polls_two_chats`. A batch of two chats with the third writer has
  over three million states without any failure, and is left to the theorem `LiveMatchIsClosed`.
* Three faults and four deliveries let an update be refused, un-claimed, hung up on and delivered
  again. A batch of one makes the head of the queue the only message a dispatcher sees, so
  starvation would show; two attempts let one failure be retried and the second be the last.
* Two corrections let a score go away and come back; milestones at one and two exact scores let
  a player cross one, lose it and cross it again.
* `completion` has no corrections, and `MedalPlaces` is 1: two players can then share or contest
  the only medal. Corrections are covered by the proofs of the two safety properties.
* `health` uses a threshold of 2 with a cap of twice the base delay, so the delay reaches its cap;
  three changes are an outage, a recovery and an outage.

* In `votes` two reports are a result and its correction, and two answers a player who changes their
  mind, retracts, has one answer dropped and the other saved, or two players at once; the scores have a winner on either side, so a pair read in
  the wrong order is another award, and a draw, which is not. An award for the outcome alone needs a
  longer format: the theorems are for every set of scores.
* `access` starts two handlers of several statements: every pair of them meets on the same rows, at
  every statement. A third would add a queue and no new conflict, since each conflict is of two.
* In `notices` three disturbances are an upgrade of the group, a lost answer or deleted topic, and a
  failure between; two attempts let one outage be retried and the second be the last.
* `screens` needs two groups for a panel of one to act on the other; the ways back are data, so that
  `backs` stays at most 8 says that no chain of screens is longer and none turns in a circle.
* In `teams` the three scores are one accepted by itself, one above the cap of the crowd and one
  below it; two operators and two helpers are the least that overlap.

### Fairness

Weak fairness of each job is `RunFixedDelay` (`scheduler.go:8`): a job that has returned or hit
its deadline runs again, and a run makes progress. Weak fairness of the clock and of waits is that
time passes. Nothing is assumed of providers, of Telegram's failures or of the operator; where a
property needs failures to end, it is their bound that ends them. Stronger assumptions:

* `SF(ProcessMatch(m))`: every active event is fetched in full each `MatchSyncColdInterval`
  (`sync.go:312`), whatever its status (`subscription.go:59`), and one match's failure does not
  stop the rest (`sync.go:191`), so no match is passed over for ever by the choice of events.
* `SF(Execute with p)`: the events of a provider are synchronized by asking that provider first,
  on each full sweep; the job is idle between two calls again and again.
* `WF(Sweeps)` in `Notices`: `reconcile-event-offers` (`main.go:387`) runs again and again, and each
  run takes some of what is ahead of a tournament out of its way; discovery, which decides the same
  offers, is not relied on.
* `WF(Deliver(u))` is Telegram's redelivery of what was not answered with 2xx.

The jobs that only begin when a run is free (`SyncBegins`, `ReconcileBegins`) are weakly fair.

## 5. Where the code disagrees with what it says

The statements of this first list stand as definitions in the modules and are listed in no
configuration: the models refute them. To see a trace, add the name to the cfg of the module's
run (`CompletedOnce` also needs a second match in `MCCompletion.cfg`, `EveryFeedIsTold` a second job
of the feed).

* **VoidStaysVoid** (`PredictionPolls`; `prediction/service.go:170`): a poll voided by one job is
  saved as CLOSED by the other, which read it while open; the save has no guard. `README.md:62` has
  polls "void outright".
* **StreamGivenOnce** (`PredictionPolls`; `poll_gateway.go:573`): the link's "already given" is read
  before `stopPoll` and written after the post; both jobs can post it.
* **RescheduleTouchesClosesAtOnly** (`Subscribing`; `prediction/service.go:218`): Reschedule is said
  to update only `ClosesAt`, and saves the whole row it read: ids that a subscription's handler has
  stored since are gone, and the poll can neither be stopped nor voted in.
* **NothingOpensInALiveMatch** (`Subscribing`; `subscription_flow.go:72`): polls "close on schedule or
  the moment a match goes live" (`README.md:62`), and a handler that read the match before it was
  stored as live, or called off, posts an open poll after the sync run has read those to end. It stays
  open until the next run. `LiveMatchLeavesNoOpenPoll` says for whom it can happen.
* **CourtesiesUndoNothing** (`Settlement`; `settlement.go:214`): swallowing the error of a statement
  does not revive the transaction it failed in; the settlement is rolled back and tried again.
* **CompletedOnce** (`EventCompletion`; `sync.go:423`): a match is stored as finished before its polls
  are settled; a sweep in between sends a table, and medals, without it.
* **EveryFeedIsTold** (`ProviderHealth`; `admin_alerts.go:191`): two jobs of one feed decide on a
  counter read before the write; the threshold can be crossed without either noticing, or be noticed
  by both.
* **PanelActsOnItsChat** (`Screens`; `handler.go:628`): a button whose data is too long for the stamp
  acts on the chat of the session, which another panel may have changed. Panels without such a button
  keep to their chat (`StampsAreFollowed`, 6).
* **RightsAreThoseOfEachChat** (`Screens`; `bulk_settings.go:158`, `callback_routes.go:655`): a copy is
  said to be checked "per chat" (`bulk_settings.go:142`), and asks the other groups for the manager's
  right where their own settings screens ask for the settings right; revoking an invitation asks for an
  admin's right in the group the tap was routed to, and acts on the group of the token
  (`postgres/invitation.go:105`), which is another one if a panel without a live stamp is tapped after
  another group's was used. `NothingWithoutRights` says what is asked.
* **GamesGoOffByApproval** (`ChatAccess`; `miniapp_settings.go:383`): the Mini App's PATCH switches a
  game off at once; the bot's button asks a second manager (`games_flow.go:13`).
* **ResultsSurviveTheUpgrade** (`Publishing`; `publishers.go:425`): the match results' publisher does
  not re-aim at the group's new id, though `publishers.go:79` names them as what re-aiming is for.
* **HistoryIsLostOnlyToTheRace** (`Publishing`; `chat.go:183`): `chat_enabled_game` references the
  group without ON UPDATE CASCADE (migration 0032), so the rename fails for every group that follows a
  game; the next message stores a second row, and the retried rename drops the old one.

Known from reading; the models behave so where it is in their scope, and no property covers it:

* *Polls.* A moved poll keeps the `close_date` it was sent with; a start time that changes without
  POSTPONED moves no poll; the fan-out happens once, so what a crash cuts off is lost; a reminded
  poll that is moved is not reminded again. A chat joined by auto-subscription gets no polls of
  matches whose opponents are known already. A subscription that failed after its row was stored
  answers "already added" when redelivered and creates none. The handler's second save puts back the
  time it drafted with. A match whose opponents are known before
  its start time never gets a poll.
* *Synchronization.* `EventsWithLiveMatches` reads a table `match` (`postgres/competition.go:586`)
  that no migration creates: the choice of hot events always fails, and every run fetches all events.
  The provider's window on `begin_at` never returns matches without a date.
* *Votes.* A finished match does not close its poll, so a vote may come after the settlement and be
  awarded on a correction. An answer dropped by the limiter, or whose claim is kept, leaves the older
  vote in place while Telegram shows the newer; of two answers under way the older may be saved last.
  A replaced opponent is not realigned; a backfill that stops between its
  two writes is never resumed.
* *Delivery.* An un-claim under a context that died with the connection fails, and the update stays
  claimed (a fault in `delivery`).
* *Access.* Replacing the games of a chat may put back another game's auto-subscription; a setting or a
  game is put back by a writer that had read before it was changed; an appointment under way when
  a moderator is removed gives the row and the rights back; two edits of one moderator's permissions may leave their
  union; an invitation is spent although adding the moderator then fails, and claiming it does not
  look at its expiry; a removal whose request cannot be marked resolved is repeated by a later tap.
* *Notices.* The eve of a tournament is marked before its message is queued, an offer and a
  cross-sell in statements of their own: a failure in between loses them. A reminder whose group is
  upgraded between the reading of its batch and its turn marks the poll by its id, finds no players
  under the chat it was read with (`poll_reminder.go:95`), and reminds nobody. Markers without a foreign
  key (offers, switches, followed teams, milestones) do not follow an upgraded group. The Mini App's
  access note does not know a person who blocked the bot. Months without activity are marked at the
  time of the digest and never looked at again.
* *Screens.* An offer of a tournament is waved off for the whole group by any of its members; a game
  may be switched off, once requested, by any manager. A narrowed board loses its game when the period is
  changed, and a team's board turns its pages into the board of all teams.
* *Teams.* A card's button is a place in an order that answers change, and a "yes" on a score above
  the cap lowers it to the cap. An answer is counted for the current first candidate, whoever the
  question named, and a second answer of the same person counts again. A confirmed mapping may be
  overwritten by an automatic one; a name once rejected cannot be requested again (UNIQUE), and the
  match job fails on it each time.
* *Watching.* A pile of dead letters that was alerted, replayed to one and grew again is not alerted
  again (`dead_letters.go:47`).

## 6. Proofs

TLAPS checks the following for every value of the constants that satisfies the named assumptions
(`PollConstants`, `NoRowIsNoPoll`, `SubscribingConstants`, `DeliveryConstants`, `OutboxConstants`,
`SettlementConstants`, `CompletionConstants`, `HealthConstants`, `VotesConstants`,
`RolesConstants`, `AccessConstants`, `PublishingConstants`, `UserIsNoGroup`, `NoticesConstants`,
`ScreensConstants`, `TeamMatchingConstants`: finite sets, distinct markers, natural bounds, the roles
the code knows). TLC found each inductive
invariant to hold on a small instance before it was proved.

* **PredictionPollsProofs**, the two jobs: `TypeCorrect`, `EndedRowsAreEnded`, `NeverTwoPolls`. A
  row saved by one job was read by it long before, so `EndedRowMeansEndedPoll` needs what snapshots
  say: they are of open polls (`SnapshotsAreOpen`), carry ids only of polls that were sent
  (`SentMeansSent`), the stage of a job agrees with Telegram (`StageMatchesTelegram`), the poll in
  hand and the batch were read (`InHand`, `BatchIsRead`), and a send is counted where a poll
  exists (`SendsCounted`).
* **PredictionPollsProofs**, with the handler of a subscription as a third writer:
  `SubscribingTypeCorrect`, `ThreeWritersOnePoll`, `NobodyMissesThePoll`, `LiveMatchIsClosed`,
  `IdsSurviveTheJobs` (an action property). A draft has one author, since the row is there when the second creator looks,
  and only its author posts it (`HandlerInHand`); a poll that is being ended was read with its ids
  (`EndsWithIds`); a chat that is owed a poll has it, or one of the two still has it to do
  (`OwedAreServed`). For a live match, the jobs post only while it is still ahead (`PostsAreAhead`) and
  leave open only what they have yet to handle or reported (`LeavesOnly`, together `LiveInv`); a handler
  that is about to create a poll then read the match as not started, or was overtaken, and the draft it
  has stored is touched by nobody else (`OvertakenInv`). `ThreeWritersOnePoll` says again of three writers what `NeverTwoPolls` and
  `EndedRowsAreEnded` say of two.
* **TelegramProofs**, updates: `TypeCorrect`, `NeverTwoHandlers`, `NeverHandledTwice`. One notion
  covers both "at once" and "afterwards": a delivery *occupies* its update while it holds the
  claim and after it ended without giving it up. Occupants have a claim in the ledger and are alone.
  `NothingIsLostQuietly` is about the updates no crash or disconnection has touched: Telegram hears
  whoever works on them (`WorkersAreHeard`), their claims are somebody's (`ClaimsAreOwned`), and what
  is acknowledged is settled (`AckedAreSettled`).
* **TelegramProofs**, the screens: `ScreensTypeCorrect`, `PanelsKeepTheirChat`, `EveryWayBackEnds`,
  `RightsAreAsked`, `StampsAreFollowed`, for any groups, roles and operators. `Rank` gives every back
  target its distance from home, at most 8; each route is shown to lead, from a back target, only to
  screens strictly nearer (`Climbs`), so that the taps on "back" made and those still to make never
  exceed 8 (`BackInv`), the invariant that `BackLeadsHome` lacks. `Needs` and `NeedsOperator` say what
  the outcomes of a route ask of the viewer, route by route: `RightsAreAsked` follows with the rights the
  person has at the tap, not at the drawing, and in each group that `ChangedBy` lets the tap change
  (`RouteMayDo`), other groups than the panel's included. `StampsAreFollowed` is what remains true of
  `PanelActsOnItsChat` (5): a panel whose buttons all carry a live stamp acts on the chat it shows,
  whatever the session says.
* **OutboxProofs**: `TypeCorrect`, `EveryDuplicateHasItsFault`, `ImplementsMessageDelivery`. The
  second is an account: deliveries made, runs without the lock that may still deliver, and a
  delivery owed under the lock together never exceed one more than the faults (`Debt`); losing the
  lock is a fault, and what turns the one who is owed into one who has gone astray. The refinement needs
  that a message recorded as published was delivered, and that attempts counted and still to be
  counted never exceed the ceiling or the failures seen (`Accounts`).
* **EventCompletionProofs**, settlement: `TypeCorrect`, `ScoreboardCorrect`, `ResultsToldOnce`,
  `MilestonesToldOnce`. The run's own state is needed: it has a scored match in hand (`InHand`)
  whose poll is not settled with that score (`HandIsUnsettled`), and the last result announced is
  the one on record (`LastResultIsSettled`). `SettledAmidCompletion` carries the three over to the
  system in which the jobs below run as well: none of their steps touches the scoreboard.
* **EventCompletionProofs**, completion: `CompletionTypeCorrect`, `RecapsDiffer`, `MedalsCorrect`. An
  open transaction holds the chat's lock (`OpenIsLocked`) and the standings it read differ from those
  on record (`OpenIsNews`) until it commits; the last table sent is the one on record
  (`RecapIsOnRecord`). The ranks and sizes involved are finite (`FiniteSetTheorems`).
* **SourcesProofs**, providers and feeds: `TypeCorrect`, `NoAlertLostOrDoubled`. What was told and is owed for a
  source add up to its state. `SumMoves` says how the sum changes when one job moves; a caller
  about to record has a provider in hand (`HasInHand`), and a job alone on its feed writes on a
  counter that is still what it read (`ReadIsFresh`), which is exactly what two jobs on one feed lack.
* **SourcesProofs**, a feed's names: `EveryAnswerCounts`, `CapsHold`, `NoDecisionIsUndone`,
  `OperatorsConfirmWhatTheySee`, from one invariant of five parts (`MatchingIInv`). Only the holder of
  the lock has read a score, and it still holds (`AnswersHold`). What a call has sent and may still send
  fits what the name has left, and a failure hides at most a call's questions (`AsksAddUp`). Until two
  decisions overlap or one stops half way, the only decision under way is of a pending request, and its
  mapping is the only one (`OneDecision`). A current card shows an order of the scores as they are
  (`CardsFollow`), and there is one such order only: when no two score alike, a candidate's place tells
  how many score higher (`PlaceInOrder`, by counting with `FiniteSetTheorems`).
* **VotesProofs**: `TypeCorrect`, `AwardsAreTheTeams`, `ReplacedPicksNeverCount`. The score stored is the result it
  stands for in the order stored (`MatchInv`), a poll that has an anchor was shown in its order
  (`PollInv`), and one that has none is repaired by turning the match itself, once (`LegacyInv`). Of every
  player, all answers in flight are picks that may stand, and so is the vote once none is left
  (`Upheld`, `VoterInv`): an answer is only dropped together with the vote it leaves, so that losses,
  redeliveries and answers saved out of order add no pick that was replaced before.
* **ChatAccessProofs**: `TypeCorrect`, `InvitationsAppointOne`, `RightsAreGiven`, `ChoicesAreKept`,
  `RequestsRemoveOnce`. A task that has claimed an invitation is the one it is marked used by
  (`ClaimsAreMarked`). Rights held, and those an appointment under way will write, are given
  (`GivenTo`), and only a set whose DELETE is past may be united with another's (`LateAreCleared`,
  together `GivenInv`). Every save in flight has read what was chosen of each other setting, but
  for those overlapped (`FieldsStand`), and every replacement of the games likewise (`GamesStand`); a tap on a request that no other overlapped found it neither carried out nor
  rejected (`OneAtATime`), and who confirms is another than who asked (`ConfirmedByAnother`). What
  makes two overlapping taps harmful is then exactly what `excused` records. That a request is carried
  out no more often than handlers were started, which its type says, needs the removals done and the taps
  that may still remove to be counted together (`TapsAddUp`).
* **NoticesProofs**, for every kind of notice at once: `TypeCorrect`, `ToldOnce`, `MarksAreAnswered`,
  `OnlyOutagesKill`, `FallbacksShowNothingTwice`. Who tells a chat has marked it, nobody else is telling
  it, and the mark stands as long as its id can be told: a marker that follows the group leaves the old
  id only when the old row is gone (`Marks`, `Reasons`). A message is written off by the network alone
  because each other answer has a fallback left: a publication that has re-aimed writes to the id the
  group really has, and one to a person never carries a topic (`NewIdIsReal`, `CallInHand`); `Accounts`
  is the balance of attempts, outages, deaths and posts it leads to.

Only model-checked: every liveness property (`RecordedPollEnds`, `UpdatesAreSettled`,
`EveryMessageEnds`, `EveryPollIsSettled`, `EveryChatIsCompleted`, `OutagesAreToldAndEnd`,
`OfferArrives`), because liveness under fairness, and ENABLED, are out of the prover's reach.

Induction over data, and RECURSIVE operators, are out of the prover's reach as well, and the modules
do without them.

## 7. Not modelled, and why

`PROJECT.json` gives a reason per component. In short: rendering, statistics, the HTTP API's reads,
parsers of third-party pages and images are I/O or text; configuration is read once; the token
buckets of the limiters, retention by age and the caches of rosters, rankings and logos are local to
one job and touch nothing the properties speak of; the watchdogs compare two readings in one
goroutine. Within the modules, each header names what it leaves out. Time is a counter where a
deadline matters and a wait that ends some time elsewhere. A startup refresh of a feed runs under
another lock's name and may overlap its scheduled run; `TeamMatching` lets the feed run once at a time.
