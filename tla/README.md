# e-invoice gateway: a TLA+ model

Specifications, model-checking runs and machine-checked proofs for the API
gateway in this repository: the service APISIX asks about every call
(`apps/gateway`), the portal that issues the keys (`apps/portal`), the packages
they share (`packages/`), and the APISIX topology in front of them (`infra/`).

- [The system](#the-system)
- [Modules and code](#modules-and-code)
- [What each run checks](#what-each-run-checks)
- [Bounds](#bounds) and [fairness](#fairness)
- [What is proved](#what-is-proved)
- [Where code and documents disagree](#where-code-and-documents-disagree)
- [What is not modelled](#what-is-not-modelled)
- [Plan](#plan)

## The system

A customer's call reaches APISIX with a key. APISIX asks the gateway
(`GET /auth`, forward-auth); the gateway decides from Redis alone, counts the
call, and APISIX forwards it to the Mustang service or, for a `gw_test_` key, to
a mock of it. Postgres (Supabase) holds the keys and the list of calls; the
portal writes the keys there, and the gateway copies them into Redis and copies
the counts back.

```
 portal ──insert, revoke──► Postgres api_keys ──seed / Realtime / poller──► Redis key:meta
                               ▲        ▲                                       │
                               │        └── mirror, status ◄── flush            ▼
                               │                                 ▲   authorize() ◄── APISIX ◄── call
                            usage_events ◄── insert ◄── flush ◄──┴── usage:queue, counters
```

| component | state | operations | what is hard | what makes it correct |
|---|---|---|---|---|
| forward-auth (`auth/`) | none of its own: the call's local variables, one after each `await` | `authorize()` | calls interleave at each Redis command; the process dies between two; the client repeats a command after a reconnect; minute and month end during a call | only a genuine key is charged; a quota is overshot by no more than the calls in progress; no call is refused while units are left; what is forwarded is counted and listed |
| rate limit (`ratelimit/`) | `ratelimit:{id}:{minute}` with a TTL | `check()` | INCR and EXPIRE are two commands; a slow call outlives its minute's counter | a minute lets through exactly what the limit says; counters go |
| usage flush (`usage/`) | what was popped and not inserted | `scheduledFlush`, `flush`, `drain`, `flushKeyStatuses`, shutdown | flushes overlap; inserts fail, or succeed and report an error; rows are deleted meanwhile; the process dies | events are recorded once; the mirror never leads and, at rest, equals the counter |
| key synchronisation (`keys/`, `bootstrap/`) | `key:meta:{prefix}`, the Realtime channel, `gateway_sync_events` | `seed`, `handleRealtime`, `pollSyncEvents` | three writers of one hash, and `authorize()` as a fourth; a feed that drops; restarts; a Redis that keeps old data | the hash comes to say what the row says; a revoked key dies; counters are not seeded over, nor above what was counted |
| key issue (portal) | the dialog's state, the page's list, the running actions | `createApiKeyAction`, `revokeApiKeyAction`, `CreateKeyDialog`, `RevokeKeyButton` | prefix collisions and retries; an insert whose answer is lost; a dialog closed, a page loaded or a session changed while an action runs | one row per form; its key is stored hashed and shown once, to the dialog that asked; only owners revoke |
| sessions and guards (portal) | cookies | `updateSession`, `requireAdmin`, the OAuth callback | none beyond one request | protected pages need a session, admin pages the role |
| usage buckets (portal) | none | `bucketByDay` | month and year boundaries | each event of the window in its day, no other |
| documentation and Try it panels (portal) | the pasted key; of each panel what it shows, its fetch and the object URL it made last | `submit`, `extractResult`, unmount | a fetch that ends after the page was left, a connection that breaks, two catalogues kept by hand | what is sent is served, with the content documented; object URLs are revoked, but no link that is shown; the form comes back |
| key format (`packages/shared`) | none | `generateApiKey`, `parseKeyPrefix`, `parseKeyEnvironment`, `hashApiKey` | short tokens | what is generated parses |
| schema (`packages/db`) | the tables | cascades, foreign keys, the bootstrap view, the publication | a deleted account takes its rows | – |
| APISIX (`infra/apisix`) | upstreams, services, routes; the calls under way | routing, cors, forward-auth, limit-count; `sync-apisix.mjs` | routing and authorization read the key by different rules; a synchronisation that stops half way, with calls under way; a forward-auth that times out after it charged | a call reaches the upstream of the key it is charged to, and not uncharged; sandbox calls get through the browser's checks; nothing dangles; the server comes to hold the file |
| Mustang mock (`infra/mustang-mock`) | uploads in memory | upload, list, get, delete, made-up answers | files of one name, deletions, restarts | a storage key means one file |
| deployment | – | compose, nginx | – | – |

The hazards of this code, each at its line, with the properties that watch it,
are in `PROJECT.json`.

## Modules and code

### ForwardAuth — `auth.service.ts`, `auth.controller.ts`, `rate-limit.service.ts`

Any number of calls at once. A call's program counter stands at one of the
`await`s of `authorize()`, and each action is one Redis command with the code up
to the next one:

| action | code |
|---|---|
| `Arrive` | the secret, `extractKey`, the prefix; refuses without touching Redis |
| `ReadMeta` | HGETALL, then hash, environment, status and expiry, the limits in force |
| `RateIncr`, `RateExpire` | `check()`: INCR, and EXPIRE for the first call of the minute |
| `QuotaRead` | GET of the month's counter and the comparison |
| `ExhaustMeta`, `ExhaustQueue` | HSET status, LPUSH on `key:status:queue`, 429 |
| `CountUnit`, `PushEvent` | INCR of the counter, LPUSH of the event, 200 |

The environment is in actions too: the clock (`Tick`), the expiry of a rate
counter, a hash rewritten by the synchronisation (`SyncMeta`), a command run
twice because its answer was lost (`Resend…`), and the death of the process. A
key is a model value, a hash of it either matches its row or does not; months are
numbered, a minute belongs to one (`MonthOf`).

### UsageFeed — what `authorize()` is to the flush

Between the two services lie the counters and two queues. `UsageFeed` says what the
one does to them and the other relies on: units counted in the month of the call's own
`now`, which may have gone by (`Counts(k, at)`), an event of that minute owed for each and pushed
later (`Pushes`), refused keys queued (`Denies`), each perhaps run twice, and a death
that takes what was owed. ForwardAuth implements it (`FeedKept`: owed are the calls
that stand before their LPUSH); UsageFlush EXTENDS it.

### UsageFlush — `usage.service.ts`; UsageLedger — what it promises

`Flushes` flushes at once, each at one of its `await`s: RPOP after RPOP of the
status queue, the updates, RPOP after RPOP of the usage queue, one bulk insert
(all rows or none; refused when one names a deleted key), LPUSH after LPUSH when
it failed, and for each key a GET and an UPDATE. An insert may also succeed and
report an error (`InsertUnsure`). The flush's own commands may be run twice by the client
that `authorize()` uses as well (`redis.module.ts:21`): an RPOP whose reply was lost
takes an entry nobody sees (`ResendPopEvent`), an LPUSH puts one back twice
(`ResendRequeue`). The history variables `lost`, `unsure` and `repeated` keep the books of this.

`UsageLedger` is the abstract pipeline: accepted, waiting, recorded. The
detailed module implements it under the mapping `waiting` = queued or held by a
flush, `accepted` = pushed, `recorded` = rows; units are dropped only where the
process may die or a reply be lost (`MayDrop`), repeated only where an answer may be
lost (`MayRepeat`).

### KeySync — `bootstrap.service.ts`, `keys.service.ts`, and who writes `api_keys`

Of a row and of its hash only the status changes once a key exists, so it stands
for both. `Commit` is a change of a row: it sends the row to a channel that is
joined and, where `OutboxWritten`, adds an event to the outbox. Nothing in the
repository writes `gateway_sync_events`: `OutboxWritten = FALSE` is the program as
it is, in which the poller finds nothing, and `TRUE` the system its code was written
for, with something outside that fills the table. The seed is `SeedSelect`, then `SeedMeta` and `SeedCounter`
per row, `SeedDone`, and `Join`; Realtime is a FIFO that is lost with the
connection; a poll is `PollSelect`, `PollKeys`, `PollWrite`, `PollConsume`. The
history variable `missed` names the keys with a change that fell where nothing
is sent. A DELETE changes nothing in Redis: the table has the default replica
identity, so the old row has no `key_prefix` (`OldRowHasPrefix`). The seed runs
before the channel is joined because NestJS runs the start-up hooks of
`BootstrapModule` before those of `KeysModule` (their order in `app.module.ts`),
and requests come after both (`main.ts` listens last). The timers belong to a
global module, whose hooks run first: a poll may fall into a seed that lasts
longer than 15 s (`SlowSeed`).

### KeyIssue — the portal's `keys/` page and `create-key.ts`

Tabs of one browser share its cookie; each keeps the page it was given. A server
action sits in a slot of `req` from the submit to its answer, whatever becomes of
the tab: `Submit`, `Authenticate`, one insert per attempt (`Insert`,
`InsertCollides`, `InsertFails`, `InsertUnsure`), `Answer` or `AnswerLost`. The
dialog is `Open`, `Submit`, `Close` (Cancel and Done are the same function and
leave `submitting` as it is). `SignIn`, `SignOut`, `LoadPage` and `DeleteAccount` are
what happens around. A plaintext key is the number of the form it was made for,
its environment and the characters its prefix shows; its HMAC is written as the
key. `missed` and `unanswered` say which keys and answers were lost on their way.

The first three modules meet in Redis and Postgres. ForwardAuth sees KeySync as
`SyncMeta`, any hash at any time; UsageFlush sees ForwardAuth as UsageFeed, which it
implements; KeySync sees both as `CountUnit`, `Refuse … QueueMark`,
`ApplyMark` and `MirrorUsage` (with any value up to the counter, which
`MirrorNeverAhead` of UsageFlush justifies). Edge sees ForwardAuth as `AskGateway`.

KeySync has what KeyIssue does to the rows as `CreateKey`, `RevokeKey` and
`DeleteKey`.

### Topology and Edge — `services.json`, `sync-apisix.mjs`

`Topology` is what the file declares, constants only: two upstreams, two services,
two routes on one path, of which `RouteFor` picks one from the raw headers as the
`vars` and priorities of the routes say, while `KeyOf` is `extractKey` of the gateway.
Of a key the edge sees its `gw_{env}_` prefix; whether it was issued is `genuine`.

`Edge` runs it. The synchronisation is `StartSync` (the file is read once) and one
`Put` per object in the script's order; `PutFails` ends the run, with the object
written or not, and leaves a run due, as `EditFile` does. A call is `Send`, then
`Preflight` if a browser sends it, `Arrive` (routing, by what is on the server at
that moment), `AskGateway`, `Forward` or `UpstreamFails`, and `Leave` or `GiveUp`
for the client. `AskGateway` is ForwardAuth as the edge sees it: `Deny`, `Allow` with
the units the call was charged - one, or more where ioredis had Redis run the INCR
again, as `ResendCountUnit` of ForwardAuth has it -, or `AuthTimesOut` (503 after 3 s,
while the gateway may charge the call all the same). A call that is charged need not
arrive. An object is taken to be in use once its PUT was made: how APISIX's
workers come to see it is outside the repository.

### Catalogue and TryIt — the documentation page and the sandbox

`Catalogue` holds the two tables kept by hand: what `lib/docs/endpoints.ts` documents
of its 22 endpoints, and what `mustang.controller.ts` and `s3.controller.ts` let in,
read and answer. `TryIt` EXTENDS it and Edge, and adds

| action | code |
|---|---|
| `Paste` | `TryItContext`: one key for all panels |
| `SubmitNoKey`, `Submit` | `submit()`: the early return; the request built from the endpoint |
| `AtTheEdge`, `Upstream`, `UpstreamBreaks` | Edge's steps of the panel's call, with what the sandbox does and answers (`Serve`: `StoreFile`, `ReadFile`, `DeleteFile`, the made-up documents) |
| `HeadersCome`, `BodyRead` | `fetch` resolves and the last object URL goes; `extractResult`, a new one for bytes |
| `FetchBlocked`, `ConnectionCut` | `catch` and `finally` |
| `LeavePage` | the unmount effect; fetches go on, and what they set is not shown |
| `RestartSandbox` | the mock's store is in memory |
| `Curl`, `CurlAnswered`, `Deploy` | other clients and the deployment |

`urls` are the object URLs not revoked; the history variable `late` those made after
the page was left. The live service is not in the repository and answers as
documented. TryIt implements Edge's specification: this is a theorem.

`MCForwardAuth`, `MCUsageFlush`, `MCKeySync`, `MCKeyIssue` and `MCTryIt` give the
constants to TLC. The `…Proofs` modules hold the theorems: `ForwardAuthProofs`,
`MeteringProofs` and `RateLimitProofs` of ForwardAuth, and one for each of UsageFlush,
KeySync, KeyIssue, Edge and TryIt.

## What each run checks

| run | module | shows |
|---|---|---|
| `FA_limits` | MCForwardAuth | a counter passes its limit by fewer than the calls in progress; a call refused for the quota had met a used-up counter; counter, events and forwarded calls agree up to what died or was run twice; a minute lets through exactly the rate limit, with a call held up past the TTL too; the flush is fed as UsageFeed says |
| `FA_mixed` | MCForwardAuth | types; only a genuine, unexpired key in its own environment reaches the limits; test keys are held to the ceilings; nothing dies, so every call is answered and every rate counter goes |
| `UF_overlap` | MCUsageFlush | two flushes, a month boundary, calls that count late, and of failed or doubtful inserts, updates that fail unnoticed, commands run twice, deleted accounts and crashes any two: events conserved, mirror never ahead, UsageLedger implemented |
| `UF_single` | MCUsageFlush | types; flushes that do not overlap record every event and leave the mirror exact, inserts that fail or seem to notwithstanding |
| `KS_sync` | MCKeySync | types; at rest the hash says what the row says, except for keys in `missed`; over restarts, stale mirrors and an emptied Redis no counter is above what was counted and none goes back |
| `KS_live` | MCKeySync | the program as it is, nothing filling the outbox, with a drop, a crash, an emptied Redis, a denial, a fault and a month boundary: once a row changes no more, its hash comes to say what it says, for good, but for keys in `missed` |
| `KI_page` | MCKeyIssue | types; two tabs, two users, two forms at once, colliding prefixes, a fault: one row per form, the key of the dialog is stored for who asked, shown once, and revoked by its owner alone |
| `KI_live` | MCKeyIssue | both environments, all prefixes taken, accounts deleted: a dialog gets its answer |
| `TI` | MCTryIt | page, edge and sandbox together: types; every endpoint answers with the content documented; keys stay in their environment, what reaches an upstream was charged, nothing dangles and a sandbox key gets the portal through while a deployment runs, fails and is run again; the server comes to hold the file; links shown are alive, object URLs are released, storage keys mean one file, the form comes back |
| `UF_poison`, `KS_unrevoked`, `KS_rollover` | | violations, [below](#where-code-and-documents-disagree) |

Every property of a passing run has a mutant in `PROJECT.json`: a plausible bug in
one definition (defined next to it, marked *mutant*) with which TLC finds the
property violated. Deadlock is checked everywhere but in `TI`, where all sends may
be used up and the page left.

## Bounds

- ForwardAuth: three call slots show every race of GET–check–INCR there is
  between two calls and the overshoot of a third; one unit a month and two calls a
  minute put both limits within reach of the four calls; two months of one minute
  each put a boundary inside every call. `MaxArrivals`, `MaxResends`, `MaxFaults`
  (crashes and synchronisation writes) end the histories.
- UsageFlush: two flushes are the least that overlap; a chunk of two lets a batch
  mix keys and be filled; two units are split between two flushes or taken by one; one
  fault of each kind (`MaxFaults` of inserts, `MaxUnheeded` of the updates whose
  answer is not looked at, `MaxResends`), and two mishaps at most in one behaviour (`FewMishaps`). `FLUSH_CHUNK`
  is 500 in the code.
- KeySync: keys do not touch one another but in a batch of the poller, so one key;
  three changes (four in `KS_live`, so that a key is created, exhausted, revoked and
  deleted in one behaviour), two units, one poll, one of each fault. The poller takes 100
  events at a time, more than `MaxChanges`. `KS_sync` has the outbox written, `KS_live`
  not; `HashesComeToFollow` holds with it written as well (three changes, 2.3 million
  states, too long for a run). The month changes in `KS_live` and
  `KS_rollover` alone: with a restart, it breaks `NoUnitsInvented`.
- TryIt: `Init` chooses one of several small instances, so that one run sees them
  all: each endpoint on one of two panels with a sandbox key (`Catalogued`); keys of
  each kind pasted in turn (`Keyed`); a file uploaded, then read or deleted, by two panels,
  with a restart of the sandbox (`Stored`); a first deployment, and one of an edited
  file, with curl's calls under way (`Deployed`). Two panels overlap, one client with
  curl sends the headers a browser page does not; two versions of the file and one
  PUT that fails let objects of both versions be live together; two sends a page (three for `Stored`) let
  a second one overtake the first. `sends`, `cuts` and `restarts` of an instance
  are its bounds. `MaxCharges` is two: the INCR is run, and run once more.
- KeyIssue: two tabs, users and slots for each race between a form and another
  form, a sign-out or a reload; two prefixes, so that a retry may succeed, and two
  attempts (five in the code), so that it may not; one call that goes wrong. With
  both environments only one tab is left (`KI_live`). Slots are alike, and an
  action takes the first that is free.

## Fairness

Weak fairness of what the event loop, Redis and Postgres do of themselves: the
next command of a call, of a flush, of a poll, of the seed or of a server action is
answered, a
timer fires again, a message that was received is handled, Redis expires a key
whose TTL is over, and the gateway is started again (`restart: unless-stopped` in
`docker-compose.yml`). Of the page: each hop of a panel's call has a timeout (3 s for
forward-auth, the proxy's for the upstream), so it moves on, and the browser runs the
callbacks of a fetch; a synchronisation that is due is run by whoever saw the last
one fail, and each PUT is answered. ForwardAuth assumes besides that its clock goes on
to its bound (`WF_vars(Tick)`): rate counters expire by it. Nothing is assumed about customers, the portal,
faults or crashes.

## What is proved

With TLAPS, for every value of the constants (any number of calls, flushes, keys;
any limits; any bounds):

- `ForwardAuthProofs!TypeCorrect`: `Spec => []TypeOK`. The invariant is inductive as
  it stands: it says of each program counter what the call has already found.
- `ForwardAuthProofs!QuotaOvershoot`: `Spec => []QuotaOvershootBounded`. A counter
  can pass its limit only through calls that read it below the limit and have not
  counted yet. The inductive invariant counts those calls along with the counter:
  a call joins them when it reads a counter with room, and leaves them by adding
  its one unit.
- `UsageFlushProofs!MirrorBehindCounter`: `Spec => []MirrorNeverAhead`. What a flush
  read may be old when it writes, but counters only grow: the invariant adds that
  the value a flush holds is at most the counter of the month it was read for.
- `UsageFlushProofs!NoEventLostOrBilledTwice`: `Spec => []EventsConserved`, however many
  flushes overlap, fail, are left in doubt, run commands twice and die. The proof counts the copies of one
  event: a step of a flush takes them from the queue into its own hands, from there
  into the rows, back to the queue, or to what a crash or a lost reply loses, and what
  other flushes hold does not change. The invariant `Booked` adds that hands are empty before a
  flush drains and not empty once it inserts. `TypeCorrect` (`[]TypeOK`) rests on both.
- `UsageFlushProofs!PipelineKeepsLedger`: `Spec => LedgerKept`, the refinement of
  UsageLedger. What waits there is what the books leave over, so by conservation only
  a push, an insert (sure or in doubt), a crash, and an RPOP or LPUSH run twice are steps of
  the ledger; draining, putting back and mirroring are stutters.
- `UsageFlushProofs!MirrorExact`: `[]MirrorExactAtRest` for one flush at a time, no error
  that goes unheeded, no crash and no command run twice, the case `UF_single` checks. Where a row lags the
  counter of its month, an event of the key is owed, queued or in the flush's hands,
  or the key is still to be mirrored (`RowsFollowed`); where the value the flush read is
  old, another event is still to come (`ReadsFollowed`). At rest there is none.
- `KeySyncProofs!SeedNeverOverwrites`: `Spec => CountersKept`. Of all steps only three
  write a counter: a count adds one, the seed keeps what is there (`SET ... NX`), and
  the loss of Redis' data is the exception the property names. The invariant is the
  type of what counters are computed from.
- `KeySyncProofs!NothingInventedWithinAMonth`: `Spec => []NoUnitsInvented` if
  `MaxMonth = 0`, the case `KS_sync` checks. A lost counter is seeded from a row, and the row may be
  old: the invariant adds that what the row, the rows the seed has read and the
  one it is writing say of a key was counted before. Over a month boundary this
  fails, in the proof as in `KS_rollover`: the row holds the count of another month.
- `KeySyncProofs!TypeCorrect` (`[]TypeOK`), and `KeySyncProofs!HashesFollowRows`:
  `Spec => []MetaFollowsRows` when no two polls run at once. The invariant `SyncInv`
  says that wherever a hash and its row differ, something still to come repairs it:
  the last entry of the feed for a key is what its row says, and what the seed or a
  poll is about to write is the row, or is followed by an event not yet read, or the
  key is among the missed. Two polls are beyond it: the slower may write what the
  other has already replaced.
- `MeteringProofs`: `GenuineCharged` (`[]OnlyGenuineKeysCharged`: what a call checked is
  kept in its own variables, so nothing that happens to the hash later matters),
  `RefusalsEarned` (`[]QuotaRefusalsEarned`: counters only grow, so a month once spent
  stays spent), `ForwardedCounted` and `MeterIsQueue` (`[]NothingForwardedUncounted`,
  `[]MeterMatchesQueue`). The last two keep books: forwarded calls, calls that owe an
  event and units without one add up to the counter, and the events of a key are
  its forwarded calls and what was pushed twice; each step moves a call from one
  entry to another.
- `MeteringProofs!FeedsTheFlush`: `Spec => FeedKept`, ForwardAuth implements UsageFeed. What is
  owed is a set of calls for each event; an INCR adds its call to one of them and an
  LPUSH takes it out, and because no call began after the clock (`BegunBefore`), the month
  counted is one UsageFeed allows. Since the theorems of UsageFlush hold for every
  behaviour of the feed, they hold of the calls as ForwardAuth has them.
- `RateLimitProofs`: `RateLimit` and `SandboxIsCheap` (`[]RateLimitHolds`, `[]SandboxCeilings`):
  the places taken in a minute, the one kept for the call whose EXPIRE is still ahead
  and those the counter leaves are no more than the limit for each life of the counter.
  `RateRefusals` (`[]RateRefusalsEarned`): what the counter says was used has passed, is
  about to pass, or was taken by a fault, and this room never shrinks, so a refusal
  stays justified after the counter expired.
- `RateLimitProofs!CountersHaveTtl` and `CallAdvances`, the halves of `RateCountersExpire` and
  `EveryCallAnswered` that need no fairness: counters left with neither a TTL nor a call about
  to set one number at most `resends + faults * Cardinality(Calls)`, hence none where
  nothing dies and nothing is run twice; and each step of a call shortens what is left
  of it, which only an arrival lengthens.
- `KeyIssueProofs`: `TypeCorrect`, `ShownIsStored`, `FormsMakeOneRow`, `OwnersRevoke`. The
  invariant is that a form is in the hands of one action until its row is made, and
  comes back to none (`FormsKept`, `OnePerForm`, `RowsMade`); that a key on its way to a
  dialog has its row (`KeysKept`); and that what a page lists was made, so a
  revocation speaks of a row that does not change hands (`ListedKnown`, `RevokesKnown`).
- `KeyIssueProofs!PlaintextOnce`: `Spec => []ShownOnce`. The invariant `OnceInv` adds that the
  plaintext of a key is in one place: on its way in the answer of one action, in one
  dialog, put away, or lost; and that it is in any of them only once its form is spent, so
  no action makes it again.
- `KeyIssueProofs!ActionAdvances` and `DialogsWaitForSomeone`, the halves of `DialogComesBack`
  that need no fairness: an action is at most `MAX_PREFIX_ATTEMPTS` and two more steps from its
  answer, every step shortens this, and a dialog that waits has such an action, for
  its own form and tab, or its answer was lost.
- `EdgeProofs`: `EdgeTyped`, `RoutesLeadSomewhere` (`[]NothingDangles`), `EnvironmentsApart`
  (`[]KeysStayInTheirEnvironment`), `FailsClosed` (`[]ReachedOnlyCharged`),
  `PortalGetsThrough` (`[]SandboxCallsGetThrough`). `FailsClosed` says "charged", not how
  often: it holds for any number of INCRs run again. The invariant `InOrder` says that
  an object on the server has all those before it there as well, wherever a run
  stopped: the test route comes before the catch-all, hence a test key never falls
  to the live service. The rest is said of each call alone (`Sound`).
- `TryItProofs`: `PageUsesEdge`, `Spec => EdgeSpec`, by a step of Edge or a stutter for each
  step of the page; with it `PageKeepsEdgeSafe`, the four safety properties of Edge, for
  any panels and instances. `UrlsAccountedFor` and `LinksAlive` (`[]UrlsReleased`,
  `[]ShownLinkAlive`): the URL a panel shows is the one it made last, and there is none
  between the headers and the body of the next answer. `KeysOfStoreUnique`
  (`[]StorageKeysUnique`): numbers only grow in one life of the sandbox.
- `TryItProofs!ContentShownAsDocumented`: `Spec => []ContentAsDocumented`, which compares type,
  bytes, file name and the statuses of failures, but not the number of a success. The invariant `PanelsInv` says of
  each panel that its body has the form its endpoint asks for and that neither the answer that
  has come nor the one shown is anything but documented. Beneath it is a case for each of the 22 endpoints, the documented
  entry against the handler that serves its route.
- `TryItProofs!PageTyped` (`[]TypeOK` of page, edge and sandbox together), and
  `DisabledOnlyUnderWay` and `FetchAdvances`, the halves of `PanelComesBack` that need no fairness: a
  disabled form has a fetch of its own under way, and each of the at most six steps of a
  fetch brings its end nearer.

The assumptions are those the modules name: `CallsAssumption`, `ConfigAssumption`,
`RowAssumption`, `FlushAssumption`, `KeySyncAssumption`, `KeyIssueAssumption`,
`EdgeAssumption`, `TryItAssumption`. The calendar is a function from minutes to months,
limits and bounds are natural numbers, calls are finitely many, panels and curl are
different clients, and "nobody" and "no key" are no user and no key. Flushes are finitely
many too. Three theorems have a hypothesis besides: `NothingInventedWithinAMonth` has
`MaxMonth = 0`, `HashesFollowRows` has `\A p, q \in Polls : p = q`, and `MirrorExact` has
`\A f, g \in Flushes : f = g`, `MaxUnheeded = 0`, `MaxCrashes = 0` and `MaxResends = 0`; without them
the properties fail, as the code does ([below](#where-code-and-documents-disagree)).

Only model-checked: liveness (`EveryCallAnswered`, `RateCountersExpire`, `DialogComesBack`,
`PanelComesBack`, `ServerConverges`, `HashesComeToFollow`, `EventsOfLiveKeysRecorded`), which rests
on fairness and `ENABLED`, out of this prover's reach. Of the first four the part
that is a safety property is proved, above. Every invariant a passing run checks, and
both refinements, are proved. One case rests on a proof alone: `FA_mixed` takes no fault, so
TLC changes no hash during a call (`SyncMeta`), and that the key charged is still the one
checked is `GenuineCharged`.

## Where code and documents disagree

Each is a run TLC finds violated; the trace is the explanation.

- `UF_poison`: one event of a deleted key keeps its whole batch from being
  recorded, flush after flush (`usage.service.ts:88`, "so nothing is lost").
- `KS_unrevoked`: the mark of a refused call overwrites a revocation.
- `KS_rollover`: a restart starts the new month's counter at the last month's
  usage (`redis-keys.ts:11-12`).

The passing runs also have limits the code does not keep to, and lifting one shows
why it is there:

- `RateCountersExpire` with a crash (`MaxFaults = 1` in `FA_mixed`): a death between
  INCR and EXPIRE leaves a rate counter that never expires
  (`rate-limit.service.ts:14`, "so it self-expires").
- `MirrorExactAtRest` with two flushes: the older value is written last, and
  `current_usage` is no mirror until the key is used again (`0001_init.sql:25`).
- `HashesComeToFollow` and `MetaFollowsRows` exempt the keys in `missed`, and the code
  does lose those changes: that a revoked key dies holds in no run of the program as it
  is. With a drop (`KS_unrevoked` with `MaxDrops = 1`, `MaxDenials = 0`) a revocation is
  never applied, although the poller is there so that a dropped connection "cannot
  leave a revoked key live indefinitely" (`keys.service.ts:17-19`): nothing in the
  repository fills the table it reads.
- The same needs no drop and no fault at all, under `FairSpec`: a key is created while
  the gateway is down, selected by the seed (`SeedSelect`), revoked, written as
  active (`SeedMeta`), and only then is the channel joined (`Join`). The revocation was
  sent to nobody, and the hash stays active for as long as Redis keeps it: the next seed
  leaves out revoked rows.
- With a written outbox and a drop: an older change Realtime
  still had under way undoes the poller's revocation, and is not followed by it.
- `MetaFollowsRows` with two polls at once (a poll that lasts more than 15 s): the
  one with the older rows writes last, its events consumed by the other.
- `DialogComesBack` without `unanswered`: `submit()` has no catch, and a dialog whose
  answer is lost says "Creating…" until the page is loaded again.
- Events of an RPOP that Redis ran twice are in nobody's hands and never recorded (`lost`),
  like those of a process that dies between RPOP and insert; `EventsOfLiveKeysRecorded`
  and `EventsConserved` name them (`usage.service.ts:88`, "so nothing is lost").
- The hash of a deleted key stays for good (`OldRowHasPrefix`), whatever the
  comment at `keys.service.ts:84` says.

The models of the edge, the page and the sandbox show more, of which no run is made:

- A live key pasted above the panels is not stopped by CORS: `services.json` gives the
  production service the same origin (as its `//cors-priority` comment asks), so the
  call reaches the live service and is charged. `TryItContext.tsx:48-52,65` and
  `TryItPanel.tsx:22-24` say it cannot, and `infra/apisix/README.md:74-75` that `cors` is
  "sandbox-only". `SandboxCallsGetThrough` therefore speaks of sandbox keys alone; with
  `cors` on the sandbox alone it would fail, as the preflight, which has no key, is for
  the live service to answer.
- The sandbox answers every POST with 201, Nest's default; `endpoints.ts` documents 200
  (`:346`, `:465`, `:810` and the other POSTs). `ContentAsDocumented` leaves the number of a
  success out.
- `TryItPanel.tsx:21` counts 24 endpoints, the catalogue has 22; `endpoints.ts:6-7` says
  the sandbox is not built yet.
- Objects removed from `services.json` stay on the server, which then does not
  "converge" to the file (`sync-apisix.mjs:4-5`); `ServerConverges` is of objects that are
  added or changed, and of one run at a time: of two at once the older file may win.
- With two keys in one request, or with `bearer` in lower case, the route may follow one
  key and the charge the other: `KeysStayInTheirEnvironment` is of keys both sides read alike.
- After a restart the sandbox numbers files anew, and a storage key given before may
  come to mean another file of the same name: `StorageKeysUnique` is of one life.
- An object URL made by a fetch that ends after the page was left is never revoked
  (`late` in `UrlsReleased`).
- `last_used_at` may go back: a batch put back is recorded behind newer ones.

## What is not modelled

- The standalone mode of `apisix.tpl.yaml`, with one upstream and one `/*` route to the live
  service: the model is of the Admin API mode, the one of the VPS (`infra/apisix/README.md`).
- What `infra/mustang-mock/register-apisix-routes.sh` may have put on the same server: an
  upstream, a plugin configuration and 22 exact routes, beside the wildcard ones until
  somebody removes them (`mustang-gateway-vps-vazifalari.md:13-19`). `EdgeInit` has a server
  with nothing on it or with all of `services.json`.
- Pages that only render rows (keys, usage, billing, administration) and the bucketing
  of usage for a chart: one call long, without state of their own.
- The role check of the admin area and the refresh of cookies, one request long; of
  sessions KeyIssue has what outlives a request.
- The base62 encoding of keys, HMAC and base64, abstracted to "matches or does not";
  row level security, a property of Postgres; health, configuration, containers, nginx.
- Entries of the queues that are not JSON (nothing pushes one), and rates in
  wall-clock time, such as how fast `key:status:queue` grows.
- Of the edge: browsers' caching of preflights; the time APISIX's workers take to see
  a PUT; the count behind limit-count, a refusal that may come at any call. A connection that breaks
  between edge and upstream is an answer that is lost.
- Of the sandbox: the layout of the documents it makes up, told apart by kind; an
  upload without a file, which the form does not send.

## Plan

Done: ForwardAuth, UsageFlush with UsageLedger, KeySync, KeyIssue, Topology, Edge,
Catalogue, TryIt, and the theorems above.

Left, in this order:

1. The safety halves of the liveness properties that have none yet: what a
   synchronisation that has not ended brings nearer (`ServerConverges`), and what stands
   between a change of a row and its hash (`HashesComeToFollow`).
2. **Gateway**: KeySync with the feed and the flush in one state, as UsageFlush is with the
   feed: `MirrorUsage`, `ApplyMark` and `SyncMeta` are still stated on each side.
3. Two polls at once, and two synchronisations of APISIX at once, with what then holds.
