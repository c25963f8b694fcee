# Verification of the ad manager API

This directory keeps TLA+ specifications of the ad manager (NestJS API,
PostgreSQL through Prisma, RabbitMQ, Redis), the TLC configurations that check
them on small instances, and proofs, checked by TLAPS, that hold for every value
of the constants. Everything is translated from the source under `src/`;
`PROJECT.json` maps each definition to the lines it models, lists the runs, the
mutants (a plausible bug for every property, which TLC must find), the findings,
the hazards and the theorems.

Paths below are relative to `src/apps/api/src/` unless they begin with `src/`.

## 1. Inventory

### The campaign pipeline

| Component | State | Operations | What is hard |
|---|---|---|---|
| `campaigns/services/campaigns.service.ts` | `UacmCampaign`, its `PlatformCampaign` rows | create, update, pause, resume, remove; findAll, findOne, getInsights read | events are published from memory after the commit, there is no outbox; pause and resume decide from rows read before their transaction, and roll back by hand when a publish fails |
| `campaigns/workers/campaigns.worker.ts` | the rows, the idempotency records, the campaigns at the platform | four handlers, startup sweep, periodic sweep, reconcile | deliveries run concurrently (no prefetch), each awaits a dozen times; a failure between the call to the platform and the update of the row; ERROR is written over whatever another delivery wrote |
| `rabbitmq/rabbitmq.service.ts` | queues, dead-letter queues, `x-retry-count` | publish, consume (ack, republish with a higher count, dead-letter) | at-least-once delivery; the retry is a new message |
| `common/services/idempotency.service.ts` | `IdempotencyKey` rows | isProcessed, checkAndMarkProcessed, remove, cleanup | the check and the insert are two queries; an error of the insert reads as "already processed" |
| `campaigns/services/campaign-status-machine.ts` | none | the legal transitions | asked by pause and resume only, while worker and disconnect write what they like |
| `common/services/rate-limiter.service.ts`, `redis/redis.service.ts` | sorted sets in Redis | checkRateLimit | the time is read before the script runs; the in-memory Redis runs the script in several steps; a limited message is retried at once |
| `adapters/*`, `accounts/connectors/*` | none here | create, update, pause, resume, getInsights; list and import | a call may take effect and its answer be lost; names and units of a field differ by platform, and by direction; a refusal may come inside an answer that is HTTP 200; pages shift while they are read |

### Accounts and tokens

| Component | State | Operations | What is hard |
|---|---|---|---|
| `accounts/services/token-vault.service.ts` | tokens, status and expiry date of a `ConnectedAccount`; the lock `token-refresh:<id>` in Redis | requireValidAccessToken | a refresh token can be spent once on some platforms; the lock expires, has no owner, and a waiting call takes over without it; the user may disconnect or link during a refresh |
| `accounts/services/accounts.service.ts` | `ConnectedAccount` | connect, callback, linking, disconnect, refresh | linking and disconnecting race with the vault and the worker; disconnect is two queries |
| `accounts/services/oauth-state.service.ts` | state tokens in Redis | create, consume | read and delete are two calls |
| `accounts/services/campaign-import.*`, `accounts/workers/*` | rows of campaigns that exist at the platform, `platformAccountId` | a request after linking, import now, the runner, the upsert | find and create are two queries without a unique constraint; a listing is old when it is written; what is read at the start of a run is written at its end |

### Users

| Component | State | Operations | What is hard |
|---|---|---|---|
| `modules/workspaces/workspaces.service.ts` | workspaces, members, roles | create, add, change role, remove, delete | each request reads with one query after the other, decides and writes, without a transaction |
| `common/guards/workspace-roles.guard.ts`, `common/interceptors/*` | the context of a request | | the role read by the guard may have changed when the handler runs |
| `auth/services/*` | users, sessions, refresh tokens, recovery codes | login, rotation, revocation, two factors, OAuth | rotation looks a token up and then replaces it |
| `common/guards/throttle.guard.ts` | counters in Redis | canActivate | INCR and EXPIRE are two calls |
| `prisma/prisma.service.ts` | arrays in memory where there is no database | the queries the services make | ids carry the millisecond; transactions do not roll back |
| `src/apps/web/src/components/forms/CreateCampaignForm.tsx` | the values, the open tab, the errors | typing, adding, removing, submitting | amounts are decimals typed as text; errors may be on a tab that is closed |

Pure input and output (mail, filters, health, templates), the other pages of the
web application, which show mock data, and the agent, a facade that calls the
services one after the other, hold no state worth a model. `PROJECT.json` lists every
component with its status.

### How they interact

A request commits to the database and publishes one message per row. The worker
takes a message, reads the row and the account, asks the rate limiter and the
token vault, calls the platform, updates the row and derives the parent's status
from all rows. The consumer around it acknowledges, retries or dead-letters. A
sweep publishes PENDING rows again. The user disconnects and links accounts and
deletes campaigns at any moment; processes stop at any moment.

In front of all of it stand the throttle and the tokens of a session; behind it,
Redis and the database, or what stands in for them in memory when the environment
names neither (`src/TEST_INFRA.md:27`).

## 2. The modules

| Module | Models | EXTENDS |
|---|---|---|
| `CampaignStatus` | the statuses, the transitions of the state machine, the reconcile rule | |
| `CreationEvents` | abstract: what creation promises of an event, however often it is delivered | |
| `CampaignCreation` | creation, from the commit of POST /campaigns to the last acknowledgement; implements `CreationEvents` | `CampaignStatus` |
| `CampaignCreationProofs` | its theorems | `CampaignCreation`, `TLAPS` |
| `CampaignPauseResume` | pause and resume, from the request to the platform | `CampaignStatus` |
| `CampaignPauseResumeProofs` | its theorems | `CampaignPauseResume`, `TLAPS` |
| `TokenVault` | the access token of one account | |
| `TokenVaultProofs` | its theorems | `TokenVault`, `TLAPS` |
| `Workspaces` | the members of one workspace under overlapping requests | |
| `WorkspacesProofs` | its theorems | `Workspaces`, `TLAPS` |
| `CampaignImport` | importing the campaigns of a platform, among everything else that touches their rows | |
| `CampaignImportProofs` | its theorems | `CampaignImport`, `TLAPS` |
| `CampaignUpdate` | changing the fields of a campaign on one platform, from PATCH to the platform | |
| `CampaignUpdateProofs` | its theorems | `CampaignUpdate`, `TLAPS` |
| `Sessions` | registration, sign-in, second factor, passwords and tokens of one user, under overlapping requests | |
| `SessionsProofs` | its theorems | `Sessions`, `TLAPS` |
| `CampaignRequests` | the requests on the collection of campaigns: creation under an Idempotency-Key, list, dates, deletion | |
| `AccountLinking` | the OAuth flow that links an account, and the disconnect | |
| `PlatformCalls` | what the six adapters tell a platform about a campaign, and what an import reads back | |
| `Listing` | listing the campaigns of an ad account page by page | |
| `Insights` | asking the platforms for metrics and adding them up | |
| `RateLimiter` | the sliding window in front of the platforms | |
| `ThrottleGuard` | the counter in front of the routes | |
| `MockStore` | the in-memory substitute of the database beside a database | |
| `CampaignForm` | the form of a new campaign | |
| `Services` | composes `CampaignRequests`, `AccountLinking`, `Listing`, `PlatformCalls`, `RateLimiter`, `ThrottleGuard`, `MockStore`, `CampaignForm` and `Insights`, side by side | |
| `ServiceProofs` | its theorems | `Services`, `TLAPS` |
| `MCCampaignScenarios` | composes two scenarios: one of `CampaignPauseResume`, one of `CampaignCreation` | `CampaignPauseResume` |
| `MCServiceScenarios` | composes ten scenarios: `Sessions` and the nine components of `Services` | `Sessions`, `Services` |
| `MCPlatformCalls`, `MCCampaignCreation`, `MCCampaignPauseResume`, `MCTokenVault`, `MCWorkspaces`, `MCCampaignImport`, `MCCampaignUpdate` | instances for TLC | the module they instantiate |

One action is the code between two awaits. What a handler keeps in local
variables across an await is a field of `handler[h]`, `request[q]` or
`caller[c]`, so that everything it decides from an old reading is in the model.
A query, and a `$transaction`, is one step.

### CampaignCreation

`uacm`, `status` and `ext` are the columns of the parent and its rows,
`processed` the idempotency records, `account` what the worker can find of the
connected account, `platform[r]` the number of campaigns the platform holds for
row `r` (their ids are `1..platform[r]`), `queue` and `dlq` the broker. A
delivery goes through the program counters `check` (isProcessed), `load`,
`account`, `limit`, `token`, `create`, `persist`, `reconcile`, `write`, `mark`
(checkAndMarkProcessed), `ack`; an error leads to `fail` (the catch block) or
straight to `settle` (the consumer), as the awaits stand inside or outside the
`try`. Three history variables: `lost`, ids the platform gave and nobody saved;
`overlapped`, rows two of whose deliveries were in flight at once; `harmed`, a
reconcile that a row's change overtook between its read and its write, that failed
or died with the process, or a disconnect, after which nothing reconciles.

`CreationEvents` is the abstract specification: a row's event is held until the
row is created or the event is dead, whatever is redelivered, doubled or swept
in between. `CampaignCreation` implements it with this mapping: `held` are the
rows with a copy of the event in the queue or in a delivery, `created` the rows
that have an id, `dead` the dead-letter queue.

### CampaignPauseResume

`request[q]` is a pause or resume with the rows it had read; `Commit`,
`Publish`, `PublishFails` and `Rollback` are its steps. `running[r]` is what the
platform does with the campaign. `abandoned` is a history variable, what no sweep
repeats: the work of a request (a crash, a failing rollback, or a publish that
fails after another event of the request has gone out) or an account (a
disconnect), and the order of requests one of which did not wait until the last
had taken effect (`order`: the two queues and the retries keep none).

### TokenVault

`caller[c]` is one call of `requireValidAccessToken` with the account row as it
had read it. Tokens are numbers; `accepted` are the refresh tokens the platform
takes. With `Rotating` each refresh spends the old one. `lock` counts down in
units of five seconds, in which the three durations of the code (lock 15 s,
longest wait 10 s, request 15 s) are whole numbers. Three history variables:
`stale` are the calls that read a token which another call was using, or that
another call has used since; `torn` says that a call which may have spent the
stored token ended without a word (its process stopped, or its report of the
failure failed) and no token came since; `cause` holds what gave reason to ask the
user for a new authorization, a failure or a denial (`trouble`) or a rejected
refresh of a stale call (`race`).

### Workspaces

`role[u]` is the role of a membership, `row[u]` which one it is: a member who was
removed and added again has a new id, and an update by the old one fails.
`request[q]` goes through `guard` (the guard's query), `workspace`, `member`,
`requester`, `owners`, `existing` and `write`, as the service's queries follow
one another; the operations differ in which of them they make. Three history
variables: a request is `overtaken` when another has written since it read what
it decides from, `raced` says that an overtaken request has written, and
`everOwner` are the users who have been OWNER.

### CampaignImport

`platform[c]` is what the platform does with a campaign, `row` the user's rows
for that platform. A run (`run[i]`) is a delivery of a request or a call of
import now: `load`, `list` (one ad account after the other), and for each
campaign listed `find` and then `update` or `create`, at last `finish`. Around
it the module has the steps of the other components that write the same rows or
the platform, reduced to what an import can notice: a creation between its call
and its saved id (`unsaved`), a pause or resume on its way (`control`), the two
queries of a disconnect (`pausing`), a removal, and the console of the platform.
`CampaignCreation` and `CampaignPauseResume` have their whole story.

The code promises one row per campaign, rows that say what is, and a kept
choice of the ad account, but no lock and no constraint enforces it; the history
variables name exactly what breaks it. `doubled`: two creations of one row
overlapped, two imports or an import and a creation whose id was `early`, not yet
saved. `drift`: a change of status at the platform's console, a disconnect, or an
import that wrote a listing older than the last change. `misbound`: the user chose an
ad account while a run was in progress that then wrote the one before.
`removed`: the user has deleted the campaign.

### CampaignUpdate

The fields are numbered by the update that wrote them: `fields` are those of the
row, `copy` those the platform has. One row stands for each of a campaign's: rows
share the fields, and each has its own events. `handler[h]` is a delivery of
`campaign.updated` with what it has read. The creation is reduced to what an
update can notice: it sends the fields it had read (`creation.fields`), and the
id is saved later. A failed creation forgets both, as the next one does anew
(`CampaignCreation` has what it leaves behind). A call takes effect, if at all,
before it ends. Reading the owned campaign and the transaction that follows are
one step, since the transaction reads the rows again and nothing else of the
first reading is used.

The code promises that updates reach the platform, and keeps nothing that would
enforce it: no outbox, no sweep for updates, no order among deliveries. The
history variable `excuse` names what then went wrong since row and platform last
agreed: an update met a creation that had read the fields before (`early`), its
event could not be published or the process stopped first (`unpublished`), it is
dead-lettered (`dead`), or a delivery sent its fields after another had sent
newer ones (`overtaken`). Whenever the last fields arrive, the excuses are gone.
`customer` says whether the row's platform data has the customer the Google
adapter asks for; an import takes it away.

### Sessions

`account` is the User row, `session` its RefreshToken rows, `denied` the denylist
of access tokens, `link` the mailed links and their nonces, `states` the Redis keys
of Google sign-ins. `request[q]` is a request of the auth controller with what it
has read; its `step` names the next call of the database or Redis, so that whatever
comes between a lookup and the write that follows it is in the model. Tokens,
codes, secrets and links are numbers. A pair remembers the `proof` it was issued
for: the password and second factor that its sign-in, or the one it was rotated
from, presented, and whether that was `late`, under way while the sessions were
revoked. `twice` and `excused` count what was presented more than once, and by
requests that overlapped, or of which one was cut short between the use of its link
and its end: the link that verifies an address is useless once the row says
so, and a Google sign-in under way may write back the "not verified" it had read
(`auth/services/oauth.service.ts:232`). `torn` says that a request was cut short
before a revocation it owed.

### CampaignRequests

`campaigns` are the rows in order of creation, `records` the reserved keys. A
creation checks the key, reserves it, commits, and releases the key when it fails;
the commit itself may be made although the call fails (`lost`). A walk reads the
page and the count by two queries, one page after the other. What is compared of
the dates is what the DTOs compare: in a PATCH the end with the start that comes
with it.

### AccountLinking, PlatformCalls, Listing, Insights

`AccountLinking`: a flow has a state token with its payload and an authorization
code; a callback consumes the state (`get`, then `delete`), exchanges the code,
finds the account and upserts it, or marks it when the user refused. Publishing
the import that follows is in `CampaignImport`.

`PlatformCalls`: `remote` is what the platform holds, each field under the name and
in the unit the adapter gave it; `told` is what calls that returned have said. An
amount is in hundredths, so that cents, units and micros differ as they do.
`Misread` names the fields a connector reads under another name or in another unit
than the adapter writes: LinkedIn writes units and reads cents, X writes
`entity_status` and reads `status`, Google creates a budget that nothing attaches.
The import property holds for the rest, and the disagreements are listed below.

`Listing`: Meta and Snapchat follow links, X a cursor, LinkedIn and TikTok count,
Google streams. A removal behind the reader shifts the pages of those that count
(`shifts`). `MaxPages` of the code is 100, here 4.

`Insights`: `truth` is what each platform has delivered; the answer is built row by
row, from a stored log, from the platform, or from nothing when the account is not
usable or the platform fails. Quotients are pairs, and rounding is where the code
rounds.

### Services, RateLimiter, ThrottleGuard, MockStore, CampaignForm

`Services` interleaves nine components that share no state, each under constants
and variables of its own names, so that a property of one is a property of all of
them together (`Components` in `ServiceProofs`). `RateLimiter` has the script of a real Redis as one step and the one of the
in-memory Redis as three; a call whose check was overtaken, by time or by another
call, is `disturbed`. `ThrottleGuard` has INCR and EXPIRE as two steps.

`MockStore` keeps two sets of tables: `store`, which finds rows by the ids it made
of the millisecond and a random number, and `ideal`, which knows each row by a
number of its own. `troubles` names what may set them apart.

`CampaignForm` has the values, the tab and the errors; texts are what the checks
tell apart. The amounts are those with one, two and three decimals, without any,
and with something behind that is not a number.

## 3. What is checked

| Run | Question | Bounds |
|---|---|---|
| `CreationConcurrent` | two overlapping deliveries, of one row or of two: is a creation ever lost by being skipped, an ACTIVE row without a campaign, a failure silent, an event dropped without an answer (`EventsAreAnswered`, the refinement)? does the platform hold more campaigns than lost ids and overlapping deliveries explain? is a row shown as failed after it was processed, or a parent left other than its rows say, without the overlap or the harm that explains it? | 2 rows, 2 deliveries, 2 attempts, every fault, 2 of them per behaviour, and what follows two messages at a time and one fault before the rows are old enough for a sweep |
| `CampaignScenarios` | serial: is a PENDING row resolved? control: does the platform do, in the end, what the row says, and stop what is paused? Does all work end? | serial: 1 row, 1 delivery, 2 attempts, every fault, 2 of them; control: 1 row, 1 request at a time and 2 deliveries, every fault, 3 of them if each request waits for the last to take effect, 1 if not |
| `ControlParent` | overlapping pauses, resumes, rollbacks: does the parent contradict its rows? | 2 rows that start ACTIVE, 2 overlapping requests, a retry, 2 faults (all kinds, a disconnect too) |
| `VaultShared` | refresh tokens that can be used again: is an expired token handed out? does every call end, even behind a lock whose owner died? | 2 calls, every fault, 1 of them, 3 tokens |
| `VaultRotating` | refresh tokens that rotate: is the user asked to authorize again without a failure or a race that explains it, is a spent token left on a CONNECTED account? | 2 calls (symmetric), every fault, 2 of them, 3 tokens |
| `WorkspaceOwners` | does a workspace keep an OWNER, and are owners made and unmade by owners, when requests overlap? | 3 users, 2 roles, 2 requests at a time, 3 in all |
| `ImportRows` | one row per campaign? does it say what the platform does? is the chosen ad account kept, and no campaign left out because another failed? | 2 campaigns of one of 2 ad accounts, 2 imports at a time, 2 requests, 3 rows, every fault and intervention, 1 of them |
| `UpdateReaches` | does an update reach the platform or leave a trace, and do older fields replace newer ones only when a delivery was overtaken? | 2 requests, 2 deliveries, 2 updates, 2 attempts, every fault and intervention, 2 of them |
| `ServiceScenarios` | fourteen questions about `Sessions` and the nine `Services`, one component in each behaviour | in the cfg and `MCServiceScenarios`; 2 requests, flows, callbacks or updates at a time, 1 or 2 faults, windows of 2 ticks, 5 campaigns on pages of 2 |

The bounds are the smallest in which the interesting case happens: two
deliveries, requests or calls are enough for every race of two (the properties
speak of pairs: a reader and a writer, two writers, an owner and a waiting
call), two attempts give a first, a retried and a dead-lettered message, two
rows a parent that can disagree. `QueueCap` bounds what the sweeps pile up and
`MaxDisturbances` how many faults a behaviour has; every kind of fault is
available at every step at which the code can meet it, and the mutants show that
one or two of them suffice to break each property.

### Fairness

`FairSpec` assumes that an await resolves, the broker delivers to an idle
consumer, a timer fires, and a stopped process is started again: weak fairness
of the steps a process takes by itself. Nothing obliges a fault, a request or a
user action to happen, nor 24 hours to pass. `WorkEnds` would
be void if faults could go on for ever; they are bounded by `MaxDisturbances`, and
so the property says: once faults stop, work ends. `MCCampaignScenarios` states the
same fairness for the component of each scenario.

### Where code and comments disagree

Three runs expect a violation, each listed under "findings":

- `VaultRace`: a call that read the account before a refresh takes the lock after
  it, spends the rotated token a second time and asks for reauthorization.
- `WorkspaceLastOwner`: two requests count the owners before either writes, each
  demotes one of the two, and the workspace has no OWNER, where the comment at
  `modules/workspaces/workspaces.service.ts:312` says that the last cannot be
  demoted.
- `GoogleBudget`: a budget that the Google adapter updates becomes a resource of
  its own that is attached to nothing, where `adapters/ads-platform.adapter.ts:79`
  says that the budget of an existing campaign is updated.

The models show more, of which no run is kept. A crash or a lost answer between
`createCampaign` and the update of the row makes the redelivery create a second
campaign, where `src/TEST_READY.md:153` promises that workers' restarts do not;
`DuplicatesAreAccounted` says that beyond the lost ids there is at most one campaign
for each delivery that can be in progress. Of two overlapping
deliveries one succeeds and takes the key, the other writes ERROR over ACTIVE and
its retry is skipped as already processed. When the first of two events is
published and the second fails, the rollback (comment at
`campaigns/services/campaigns.service.ts:451`) shows both rows ACTIVE although
one platform will be paused. A Google sign-in that overlaps the verification of an
address makes the address unverified, and the link good, again. Two imports that overlap, or an import and a
creation, make two rows for one campaign, where the comment at
`accounts/services/campaign-import.service.ts:30` says that they do not. A waiting call takes over after
10 s although the lock lives for 15 s (comment at
`accounts/services/token-vault.service.ts:157`); a refresh without an expiry
date leaves the old one, so that waiting calls do not recognise the new token
(comment at :187); a refresh in flight connects an account again that the user
has disconnected; a disconnect moves PENDING rows to PAUSED, which the state
machine does not have; the parent is PAUSED only when all rows are, where the
comment at `campaigns/workers/campaigns.worker.ts:487` says all that are not in
ERROR; two reconciles that overlap a failure may leave ERROR over an ACTIVE row;
a crash between the commit of a pause and its publish leaves a row PAUSED that
the platform delivers. An update made while the campaign is being created is
published to nobody and never reaches the platform, where the comment at
`campaigns/services/campaigns.service.ts:325` says that each platform campaign
gets an event. After an import, updates of a Google campaign fail for good:
the import replaces the platform data (`accounts/services/campaign-import.service.ts:85`)
in which the adapter looks for the customer (`adapters/google.adapter.ts:133`).

`PlatformCalls` leaves out of its properties, by name, what it shows to be so:
TikTok's refusals inside an answer that is HTTP 200 count as success
(`adapters/tiktok.adapter.ts:154`); budgets of LinkedIn and the status and budget
of X come back from an import as something else than was written
(`accounts/connectors/linkedin-connector.ts:163`,
`accounts/connectors/x-connector.ts:179`); a campaign is created PAUSED at the
platform while its row says ACTIVE; after an import the adapters of Google, TikTok
and X find no account in the platform data.
`CampaignRequests`: a start date that is moved alone is compared with nothing, an
end that is moved alone is always refused
(`common/decorators/is-after.decorator.ts:9`); lists are sorted without a tie
breaker. `RateLimiter` and `MockStore`: what stands in for Redis and the database
in memory is weaker than they are; ids of one millisecond coincide
(`prisma/prisma.service.ts:104`), a transaction that throws is not rolled back.
`Sessions`: sign-ins under way while a password is reset keep their sessions.
`Insights`: a stored log, however old, is taken before the platform is asked;
Google's cost of a click is asked for under one name and read under another.

## 4. What is proved

For every number of rows, deliveries, requests, calls, retries, tokens and
disturbances, and all durations:

- `CampaignCreationProofs`: `TypeCorrect`; `ProcessedSaved` and `ActiveExists`
  (`Spec => []ProcessedIsSaved`, `Spec => []ActiveIsOnPlatform`). Neither
  property is inductive. `SavedInv` adds why they hold: ids name campaigns of the
  platform (`IdsExist`), a delivery that persists has an id (`PersistHasId`), the
  catch block never has the outcome "ok" (`FailureIsError`), success is reported
  after the id was saved (`SuccessIsSaved`), and only then is a row ACTIVE
  (`ActiveIsSaved`). `EventsAnswered`: `Spec` implements `CreationEvents`. Its
  invariant, `EventInv`, adds `AckIsDue`: a delivery about to be acknowledged has
  its row created, is dead, or has left a copy of the event with a higher retry
  count. So the copy with the highest count never leaves without an answer.
  `FailuresAreDeadLettered` (`[]ErrorIsDeadLettered`): a row in ERROR that has
  neither a dead letter nor an idempotency record has a message in the queue or a
  delivery that has yet to fail or to succeed (`ErrorIsDue`).
  `DuplicatesAccounted` (`[]DuplicatesAreAccounted`): before the first id of a row
  is saved, every campaign of the platform is lost or in the hands of a delivery;
  from then on only a delivery that had read the row before can create one more
  (`DuplicateInv`, which counts the two kinds of deliveries).
  `SuccessIsKept` (`[]ProcessedIsNotError`): a row whose deliveries never overlapped
  has at most one in flight, which does not work on a processed row and meets no
  ERROR once it has succeeded (`SerialInv`); what remains is what the missing
  prefetch costs. `ParentFollows` (`[]ParentAgrees`): unless something was harmed, a
  parent that is not what its rows say has a reconcile on its way, and no reconcile
  is about to write anything but the target of this moment (`ReconcileInv`); so the
  write of one repairs the parent for all, since reconciling what was just reconciled
  changes nothing (`TargetIsStable`). `MildIsHarmless`, under `Mild` (only
  publishing, reading and the rate limit fail), says that then nothing is ever harmed,
  however many deliveries interleave: each row is written once, so what a reconcile
  has read of a decided parent stays true (`MildInv`, `DecidedIsTarget`).
- `CampaignPauseResumeProofs`: `TypeCorrect`; `ParentHonest`: until an account
  is disconnected the parent never contradicts its rows. `AgreeInv` says that,
  unless that happened, the created rows have the parent's status (`RowsAgree`), that this is so
  in what every request has read (`ReadsAgree`), and that therefore no reconcile
  has anything to write (`NothingToRepair`). `PlatformObeys` (`[]PlatformFollows`):
  as long as nothing was given up, one request owns the rows (`OneRequest`,
  `RequestOwns`); what it has not published the platform still does as the request
  had read it, and what it has, a message or a delivery brings about as the row
  says (`MessagesAgree`, `RowsFollow`; together `FollowInv`).
- `TokenVaultProofs`: `TypeCorrect`; `Refreshable` (`[]ConnectedIsRefreshable`): a
  CONNECTED account that no call works on has a refresh token the platform accepts,
  unless it is `torn`. The inductive invariant says that a renewed token which is
  not yet stored is accepted and nobody else has it (`Unspent`). `CauseOfReauth`
  (`[]ReauthHasCause`), with rotation and without: a call that is not stale, and
  that nothing has gone wrong for, holds a token the platform accepts (`Usable`),
  because it read a settled account, of which `Refreshable` speaks; and a step that
  spends a token makes every call stale that relies on it (`Spends`). Where tokens
  do not rotate none is ever spent, so races give no reason there.
  `OnlyRenewedTokens` (`Spec => HandsOutRenewed`, an action property): a
  call that found its access token expired never returns that one. A waiting call
  recognises a refresh by the date alone, so the invariant (`RenewedInv`) is that
  the same access token always comes with the same date (`SameDate`), that a call
  at work came with an expired one (`WorksOnExpired`), and that a token still to
  be written has been seen by nobody else (`Unseen`).
- `WorkspacesProofs`: `TypeCorrect`; `OwnerKept`: a workspace keeps an OWNER
  unless an overtaken request writes; `OwnersUnmakeOwners`: under the same
  proviso an OWNER loses the role only to a current OWNER; `OwnersBegetOwners`:
  whatever overlaps, an OWNER is made by somebody who has been one. `OwnerInv`
  says of each request in progress that what it has read still holds while it is
  not overtaken (`ReadHolds`, `CountHolds`), that its right to make or unmake an
  OWNER comes from one (`RightHolds`), and which way it goes (`Route`).
- `CampaignImportProofs`: `TypeCorrect`; `OneRow`, `Truth` and `ChosenKept`
  (`Spec => []OneRowPerCampaign`, `[]RowSaysWhatIs`, `[]ChosenAccountIsKept`).
  `TypeOK` itself is not inductive: a run writes to the row it has found, so
  `BaseInv` adds that it has found one (`AtCampaign`) and which rows can be
  controlled or saved (`Stages`). `RowInv` adds that whoever is about to create a
  row, or to save an id, and was not overtaken, will be the first
  (`FirstToCreate`, `FirstToSave`), and that what is known exists
  (`KnownExists`). `TruthInv` adds that a listing no change has overtaken is still
  true (`FreshIsTrue`), and that a row says what a control will bring about
  (`ControlIsShown`). `ChosenInv` adds that a run which was not
  overtaken holds the chosen account. `Complete` (`Spec => ImportIsComplete`, an
  action property): whatever a run has seen it has still to import, has failed
  to, or there is a row, or there was until its removal; and it goes on to the next
  ad account, or ends, with nothing left to import (`CompleteInv`).
- `CampaignUpdateProofs`: `TypeCorrect`; `OnTheWay` (`Spec => []UpdateIsOnItsWay`)
  and `ForwardOnly` (`Spec => NoStepBack`). The delicate step is the call of a
  delivery whose fields are no longer the last: `NotOlder` says that they are not
  older than the platform's unless the delivery was overtaken, so the platform was
  behind before the call too, and what was on its way then still is. Around it:
  nobody knows fields that were not committed (`Committed`), a creation sends the
  last fields or an early update is known (`CreationIsKnown`), and there is no
  event before there is an id (`QuietBeforeId`).

- `SessionsProofs`: `TypeCorrect`; `Entitlement` (`Spec => []SessionsAreEntitled`).
  `TypeOK` needs `Inputs`, what the routes let in, and `NobodyYet`: before there is
  a user there is nothing to present but a password. `EntitledInv` follows a proof
  from the sign-in to the session: a login token stands for the password as it is
  (`Stands`), a request about to be admitted or to rotate carries the password and
  the second factor (`Entitled`), and a refresh token that is looked up was issued.
  Each of them is excused from the moment a revocation is due, which is the step
  that changes the password or enables the second factor, and `RevokeAll` ends the
  excuse by making all that is on its way late. `UsedOnce` (`[]WorksOnce`): what was
  used is useless or excused (`UsedUp`), who holds something used is excused
  (`Innocent`), and so are two requests that hold the same, the rivals of every
  request (`Overlap`). Recovery codes are written back as a set, so any two
  requests that hold codes are rivals, and a request writes back a set without the
  code it spends (`CodesShrink`). `AllDrawn`, that nothing is presented or stored
  before it was issued, is why nothing new is mistaken for something used.
- `ServiceProofs`: the theorems are about `ServicesSpec`. `Components` says that it
  implements the specification of each component, and each property is then the
  component's. `DatesOrdered` (`[]DatesStayOrdered`): rows are ordered, and what a
  request is about to write is (`CrudType`). `OnePerKey`
  (`[]OneCampaignPerKey`): a key has at most one holder, which has reserved it, and
  without a holder or a reservation it has made no more campaigns than were reported
  as failed (`KeyInv`). `StateConsumedOnce` (`[]StateIsConsumedOnce`): a state
  that was not shared has at most one callback between its read and its delete, and
  is not consumed until then (`StateInv`). `RefreshTokenLatest`
  (`[]RefreshTokenIsLatest`): a row that does not exist has no token (`RowInv`).
  `LimitsKept` (`[]RatesHold`), which has two halves. In the limiter a call that
  nothing overtook stays in the sorted set as long as it counts, and the set was
  smaller than the limit when the call was added (`LimiterInv`), whence no interval
  has more than the limit of them. In the throttle there is a time at which the
  counter was created last (`CountedSince`): it has counted everything let in
  since, any window before that has at most twice the limit, and at most the limit
  if it reaches that time, since a counter lives for a window at least
  (`ThrottleInv`). `WalksComplete` (`[]WalkIsComplete`): before each row that is still
  to be seen there are as many rows as the pages so far skip, and a count that is
  still right is no less than the rows there are, so that with the page at hand it
  says whether another page is left (`WalkInv`). `ListingsComplete`
  (`[]ListingIsComplete`): a cursor has listed everything up to it that was there all
  the time, and what an offset has passed over without listing it is no more than what
  was removed from the pages it had passed (`PagesInv`). `CallsTold`
  (`[]CallsTakeEffectElsewhere`) and `ImportsReadBack`
  (`[]ImportReadsWhatWasWritten`): a campaign at a platform has the words and fields of
  its platform's adapter (`Campaign`), for any budgets, and while a call is on its way
  nothing counts as told of what it is about (`Uncertain`), so that a call that timed
  out contradicts nothing; `ReadBack` is the conversion of each of the six connectors.
  `StoresAgree` (`[]StoreAgrees`): in the tables that no trouble affects the rows have
  one id each, and a row refers to another by the id as by the number (`Paired`), so
  that a deletion by id takes the rows along that a database would; and a key that was
  looked for in vain and is about to be recorded is still not there (`Recordable`).
  `FormsHold` (`[]FormHolds`): one platform at least stays a target, since a toggle
  checks nothing again (`FormInv`), an edit of a field changes the errors of no other
  (`EditedErrors`), and an amount of two decimals or fewer is a whole number of
  hundredths (`Converted`). `InsightsAddUp` (`[]InsightsHold`): each part of an
  answer, gathered or sent, and each stored log, says what its platform had delivered
  by then (`Says`), with a return that gives back the value (`Makes`, which is
  `AdapterMakes` for the six adapters); that is no more than it has delivered now
  (`Fits`), and no less than at the request (`Gathered`). Sums of equal terms are
  equal, over any finite set: `MapThenSumSet` is a CHOOSE of a function that adds up
  subset by subset, and `SumsExist` and `SumsOnce` show, by the smallest subset for
  which it would be otherwise (`Least`), that there is one such function and no other.

The assumptions are those declared with the constants (`RowsAssumption`,
`DurationsAssumption`, `ServicesAssumption`, ...). Of the listed theorems only
`MildIsHarmless` has a hypothesis of its own: it speaks of the faults that cannot
harm.

Only model-checked:

- liveness, since the prover treats neither fairness nor ENABLED: `EveryCallEnds`,
  `EventuallyInStep`, `PendingIsResolved`, `PauseTakesEffect`, `WorkEnds`.

Induction goes by a least counterexample (`WFMin`), since a theorem of the library
that takes a predicate cannot be instantiated.

## 5. Plan

Done: every module of section 2. What is left, in the order of its worth:

1. `Broker`: the connection and channel of `rabbitmq/rabbitmq.service.ts`, which
   reconnects by itself and keeps publications in memory meanwhile, and its
   substitute without a broker, against an abstract queue that delivers at least
   once. The other modules take that promise from the broker; a dropped connection
   is a redelivery in `CampaignCreation`.
2. An abstract specification of pause and resume, as `CreationEvents` is one of
   creation.
3. Theorems: the steps towards the liveness properties that are safety (that what the
   next step needs is never lost).

## 6. Not modelled

- The other pages of the web application (`src/apps/web`): they show constants and
  call nothing; only the form of a new campaign decides anything.
- `mail`, `common/filters`, `health`, `main.ts`, templates: formatting and wiring
  without state. What callers see of mail, that it may be lost, is in `Sessions`.
- `accounts/services/token-encryption.service.ts`: a cipher, taken to be the
  inverse of itself.
- `agent`, the tenant resolver and the workspace interceptor: they read and hand on
  what `Workspaces`, `CampaignRequests` and `Insights` model.
- `campaigns/services/campaign-events.service.ts`: an in-memory fan-out to open SSE
  streams that keeps nothing.
- Handlers that only read: profiles, one campaign, the list of accounts.
