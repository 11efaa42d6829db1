# Memzent: a verification project in TLA+

Memzent is an LLM gateway.  Its Go service (`services/gateway`) takes prompts, looks
them up in a cache, runs tools, asks a provider, charges the organisation and learns
from the traffic in the background.  Around it are a Rust router (vector search), an
MCP server, a Next.js dashboard, a website, PostgreSQL (Supabase), Valkey and Qdrant.

This directory holds TLA+ models of the parts where concurrency, failure and ordering
decide whether the system is right.  In the gateway: the money, the answer cache and its
invalidation, the rate limits, the keys of JWTs and of agents, the background plane, the
outgoing webhooks, the life of workflows, the tool registry.  In front of it: the pages
of the dashboard and the website, which read and write the same tables through calls
that are queued, refused, lost or answered too late.  TLC checks the models on small
instances; TLAPS proves every safety property they check, for instances of every size.
Paths below are relative to `src/`; `gateway/` stands for `services/gateway/`,
`dashboard/` for `services/dashboard/src/`.

    tlc -workers 2 -config BillingLedger.cfg MCBillingLedger.tla     # a run
    tlapm BillingProofs.tla                                         # the proofs

`PROJECT.json` lists the runs, the source lines of every definition (`map`), the
mutants that show each property can fail, the finding, the hazards and the theorems.


## 1. The system: an inventory

Modelled components first; each entry gives state, operations, interactions, what is
hard, and what makes it correct.

**Billing ledger** (`gateway/internal/billing/ledger.go`, migrations 013, 016, 018).
State: `organizations.token_balance` and the rows of `billing_ledger`, both
`NUMERIC(15,6)`.  Operations: `Deduct` (conditional UPDATE, INSERT, COMMIT), `TopUp`
(unconditional UPDATE, INSERT, COMMIT), `SetSpendLimits`, `CheckSpendLimits`, reports.
Called by the request pipeline's goroutines and by the Stripe webhook.  Hard:
concurrent transactions on a row, any statement or the acknowledgement of the commit
failing, a crash, rounding to whole micro-dollars.  Correct when: no overdraft; balance
and ledger change together or not at all; no call waits for ever.

**Billing pre-check and charging** (`gateway/internal/engine/engine.go:398-500,
1120-1129, 1231-1251`).  State: none of its own; it reads settings, balance, caps and two
sums one after the other and starts a goroutine that calls `Deduct` after the answer.
Hard: everything read may be stale when it is used; midnight and the end of a month;
errors that let a request through.  Correct when: a ground to refuse a request that
stood throughout its pre-check refuses it; every charge belongs to one answer; an answer
goes unpaid for want of money only when others have spent what it relied on.

**Stripe webhook** (`gateway/internal/billing/stripe.go`).  State: none in the gateway;
it calls `TopUp` and updates the tier.  Hard: deliveries at least once, in any order, a
lost 200, a crash before it, an error after which it is sent all the same.  Correct
when: credits stem from deliveries, and a payment Stripe is told about is credited (which
the code does not keep).

**Answer cache and invalidation** (`engine.go:528-745, 1131-1171, 1282-1363`,
`gateway/internal/invalidation/`, `gateway/internal/cache/`).  State: answers in Valkey
under versioned keys, durable rows in `persistent_cache`, the counter `cachever:{org}`
and its copy in the memory of each gateway for five seconds, the sets
`toolkeys:{org}:{tool}`.  Operations: lookup, population, tagging, version bump, tool
event, flush, warming at the start.  Hard: two stores written by different goroutines,
every call best effort, several gateways, entries that expire apart.  Correct when: an
entry of one configuration is never found under the key of another; what was indexed
when a tool's event ran is gone when it has returned.

**Offline plane, channel variant** (`gateway/internal/offline/plane.go`, `main.go:1471-1507`).
State: a bounded channel, a flag, counters, workers, a flusher.  Operations: `Emit`
(never waits), the worker and flusher loops, `Stop`.  Hard: `Stop` runs while requests
still emit, and after the context of the workers has ended.  Correct when: every event
is accounted for, what was buffered at the signal is mined and flushed, `Stop` returns.

**Webhook dispatcher** (`gateway/internal/notifications/dispatcher.go`).  State: a bounded
queue, workers, sleeping retries, the log `webhook_deliveries`.  Operations: `Emit`,
deliver, handle a failure, `Stop`.  Hard: retries that wake up into a full or closed
queue, the context of a request that ended, a cancelled context during the log write.
Correct when: one copy of a job at a time, one verdict, a log that says what happened,
every job settles while the gateway serves.

**Rate limiter** (`gateway/internal/cache/valkey.go:83-128`, `engine.go:415-463`).  State: one
sorted set per organisation and per user in Valkey, with a time to live.  Operations: a
Lua script that drops what is too old, counts, and adds or refuses; `Process` calls it
twice with limits computed from tier, balance and role.  Hard: the clock is read in the
gateway and used in Valkey, several gateways have several clocks, calls are slow or
fail and then let the request through, members of one millisecond may collide.  Correct
when: no stretch of time admits more than the limit, nobody is refused for what is long
past.

**JWKS provider** (`gateway/internal/auth/jwks.go`, `main.go:167-188`).  State: a map from key
ids to keys and the time of the last refresh, behind a read-write lock.  Operations:
`GetKey` (read, refresh, read again), `Refresh` (at most one begun in five seconds,
fetches without the lock, merges).  Hard: many lookups at once, answers that overtake
each other, a provider that fails or changes its keys.  Correct when: the provider is
spared, returned keys are genuine, the seeded key always works, every lookup returns.

**API keys** (`gateway/internal/auth/rbac.go`, `dashboard/app/actions.ts`,
`dashboard/app/(app)/keys/page.tsx`, migration 020).  State: rows of `api_keys` with
prefix, hash, previous hash, time of the rotation, expiry; a banner that shows a secret
once.  Operations: create, rotate (read, then write back), revoke, verify, and a
goroutine that clears the previous hash.  Hard: rotations, revocations and the goroutine
act on a row they have read before; policies of the table may match no row, which is no
error.  Correct when: a secret on display works; the one a rotation replaced works until
its grace period ends (which the code does not keep).

**Workflow registry, simulator, page** (`gateway/internal/workflow/`, `main.go`,
`workflows/page.tsx`).  State: a row per pattern, with its status.  Operations:
discovery by the miner, simulation, approval and activation, rejection, demotion.
Hard: five writers of one column, each with a condition of its own; approval and
activation are two statements.  Correct when: what is served was approved, and what was
taken out of use is never served again.

**Tool registry and tools pages** (`gateway/internal/tools/`, `tool-actions.tsx`,
`register-tool-btn.tsx`, `sync-registry-btn.tsx`, `tools/`).  State: rows with a
description and two times that tell whether it was vectorised since; vectors in the
router.  Operations: register, provision, read-merge-write, disable, `Refresh` in three
steps by a loop and by a button.  Hard: a description changes while an older one is sent
and marked.  Correct when: the description of an enabled tool reaches the router.

**Webhooks page** (`gateway/internal/notifications/handlers.go`, `webhook-actions.tsx`).
State: rows; dialogs.  Hard: deletion between the read and the write of an update, dialogs
closed and opened while their calls are under way.  Correct when: what is deleted stays
deleted, and no control waits for ever.

**Sessions and playground** (`gateway/internal/memory/session.go`, `playground/page.tsx`).
State: sessions, messages; the session a page has open, the run it shows.  Hard: sessions
opened, created and deleted, here and by others, while a prompt runs.  Correct when: a
prompt and its answer are kept where the prompt was run.

**Organisation pages** (`settings/`, `billing/`, `billing/spend-limits/`).  State: the
settings of the organisation and forms about them.  Hard: a form is edited and saved before,
between and after the answers that fill it.  Correct when: model and provider agree.

**Login and tenancy** (`login/page.tsx`, `auth/callback/route.ts`, `proxy.ts`,
`lib/user-context.ts`, migration 012).  State: the session in the cookies of a browser,
memberships, organisations.  Hard: tabs share a session and act at once.  Correct when: a
page is about an organisation of its user.

**Blog** (`dashboard/app/blog/`, `website/src/lib/blog.ts`, `BlogList.tsx`,
`BlogPost.tsx`).  State: posts, an editor, the cache of a reader.  Hard: calls answered in
any order, a cache filled before a post was withdrawn, posts built into the website.
Correct when: no draft is shown.

**Overview pages and assistant** (`audit-log-feed.tsx`, `neural-assistant.tsx`,
`routing-visualizer.tsx`, `analytics/`, `audit/`).  State: spinners, a trace, a
conversation that outlives the pages.  Hard: one queue for polls, loads and prompts.
Correct when: answers stand with their questions, and nothing spins for ever.

**Server actions** (`dashboard/app/actions.ts`).  Next.js sends the calls of a tab one
after the other: a queue that every page of the dashboard is built on.

**Request pipeline** (`engine.go`).  State: per-request only.  Calls everything above and
below.  Its money side and cache side are modelled (`EngineBilling`,
`CacheInvalidation`); entity extraction, normalisation and prompt assembly are string
processing.

Not modelled, with the reason in section 7: cost calculator, JWT middleware, the plane on
Valkey Streams, miners, connectors, migration runner, pre-warmer, long-term memory,
metrics and audit, LLM providers, router client, router, MCP, configuration, static
pages.


## 2. The modules

    Account                     the ledger's promise: atomic debits and credits
      BillingLedger             implements it, statement by statement
      Spending                  caps, sums of debits, what a request was charged
        EngineBilling           the pipeline's money side, built on Account
      Payments                  checkouts, deliveries, what they credited
        StripeWebhook           top-ups and tiers, built on Account
      BillingProofs             about all three
    CacheInvalidation           cache, versions, tool index, durable rows
      CacheInvalidationProofs
    OfflinePlane                the channel plane and its shutdown
      OfflinePlaneProofs
    WebhookDispatcher           outgoing webhooks and their shutdown
      WebhookDispatcherProofs
    RateLimiter                 two sliding windows and the checks of Process
      RateLimiterProofs
    JWKS                        the keys of JWTs, their refresh
      JWKSProofs
    ApiKeys                     keys of agents: page, actions, table, gateway
      ApiKeysProofs
    ServerActions               the queue of a tab's calls
      Dialogs                   the dialogs of two pages
        ToolPages               tool registry, Refresh, tools pages
        WebhookPages            webhooks and their page
      Playground                sessions, messages, prompts
      OrgPages                  limits, profile, plan
      Workflows                 the table, its writers, the page; implements Lifecycle
      Overview                  pages that look; the assistant
    Lifecycle                   what is promised of a workflow
    Tenancy                     login, callback, provisioning
    Blog                        editor and reader
    Console                     all pages together
      ConsoleProofs             about them, and about Workflows

The `MC*` modules give constants values for TLC; where a configuration can do it alone
there is none.

Two modules are abstract.  `Account` is the interface the three money modules share:
`BillingLedger` implements it (`Atomic == INSTANCE Account WITH balance <- balance,
booked <- booked`, `ImplementsAccount`), and `EngineBilling` and `StripeWebhook` then use its
`Debit` and `Credit` as atomic steps instead of repeating the transactions.  `Lifecycle` is
what the gateway promises of a workflow: `Workflows` implements it (`Life == INSTANCE
Lifecycle WITH stage <- [w \in Workflow |-> Stage(row[w])]`, `ImplementsLifecycle`).

`Console` composes the pages by `INSTANCE`: they share `page` and `calls`, as tabs of one
browser do, and `site` says which of them the user is on.  The tables of the other sites
are `Away` meanwhile, so that the pages are checked side by side in one run and not
multiplied.  What holds of every page is stated once, in `Console`.

Operators marked `mutant` next to an action are the plausible bugs that
`PROJECT.json` substitutes for it; no specification uses them.

### Account

`balance[o]` is `organizations.token_balance` and `booked[o]` the sum of the ledger rows,
in micro-dollars.  Amounts are in half micro-dollars: the columns are `NUMERIC(15,6)`, the
Go code passes floats, and half a micro is the unit in which the ties show that
PostgreSQL rounds away from zero (`Stored`, `Left`).  `AccountSpec` is the abstract
specification: a debit needs cover, and the books move in the same instant.

### BillingLedger

One `call[c]` per invocation of `Deduct` or `TopUp`, with its position between `BeginTx`
and `Commit`; `lock[o]` is the row lock PostgreSQL takes with the UPDATE.
`Begin` is the entry with its early returns; `UpdateDeduct`/`Insufficient` the conditional
UPDATE and its row count; `UpdateTopUp` the unconditional one, which also "succeeds" on
an organisation that does not exist and then dies on the foreign key of the INSERT;
`Commit` makes both effects visible and may lose its acknowledgement; `Fail` is any
statement's error with the deferred rollback; `Crash` is the process ending with its
transactions.

### EngineBilling

A request goes `FetchSettings`, `RefuseEarly` (rate limits and validation),
`PreCheck` (balance), `ReadCaps`, `SumDay`, `SumMonth`, then is answered from the cache
(`ServeCached`) or generated (`Generate`), and its charge lives on: `BeginCharge`,
`CommitCharge`, `ShortCharge` (insufficient balance), `FailCharge`.  JWT requests skip
the billing checks as in the code.  Top-ups, changes of the caps, midnight and crashes
happen between any two steps.  `fence[r]` is a history variable: the grounds that have
stood against `r` ever since it arrived.  `purse[r]` is another: what the balance was when
it was read, with what answers had paid by then.

### StripeWebhook

Stripe delivers an event until it sees a 2xx (`Deliver`, `Respond`); the handlers
are concurrent.  `HandleCheckout` credits or fails, and finishes either way, as the
code logs the error and answers 200.  `PanicOnGuest` is the nil dereference of
`session.Customer.ID` in a log line (stripe.go:68) for a session without customer.
`HandleSubscription` sets the tier where `stripe_customer_id` is known; `Linked` says
where it is.

### CacheInvalidation

One organisation.  What an answer *says* is modelled by what it rests on: the revision
of the data of each tool it used and of the configuration, which the code never sees.
`req[r]` walks `Arrive`, the version (`RememberedVersion`, `ReadVersion`,
`RememberVersion`), the lookups (`LookupValkey`, `LookupDurable` per key of the prompt),
`Generate`, `Populate` per key, `Tag` per tool.  `writes` holds the goroutines that write
durable rows or copy them back into Valkey.  Events and flushes are `op[o]`: `Increment`
and `StoreVersion` are `Bump`; `Pop`, `Delete`, `Purge` are `InvalidateTool`; the flush
handler is two steps.  Valkey may lose answers, indexes and the counter; a gateway may
restart, which runs `WarmCache`.  `epoch` and `tagged` are history: an index lives in
epochs that end when it is emptied, so "was indexed when the event ran" can be said.

### OfflinePlane

`Emit` is three steps (`Check` the flag, `Count`, `Send`): the race with `Stop` lives
between them.  Workers `Receive`, `Process`, `SeeDone` and `Exit`; Go's `select` may
prefer either ready case, so `SeeDone` competes with `Receive`.  The shutdown is `Signal`
(the context ends), `SwapRunning`, `CloseEvents`, `Wait`, `FinalFlush`, in the order of
`main.go`.  `early` is history: what was buffered when the context ended.

### WebhookDispatcher

`StartEmit` is the `go d.Emit(ctx, ...)` of the engine, `EndRequest` the end of that
context; `Lookup`, `Push` per subscriber; `Take`, `Unsendable` (a URL that makes no request), `Delivered`, `Failed` in a worker;
`Wake` for the goroutine that slept out a delay; `Cancel`, `Close`, `Wait`, `ExitProcess`
for the shutdown.  A send on the closed queue panics and ends the process (`Panic`).
`posts` and `fate` are history.

### RateLimiter

`req[r]` goes `Arrive` (the limits), then twice, for the organisation and for the user,
`ReadClock` (`time.Now` in the gateway) and the script: `Admit` or `Refuse`, or `FailOpen`
when Valkey is not reached; a script that ran but whose answer is lost is the second
disjunct of `Refuse`, and admits like `Admit`.  The scripts are atomic, as in Valkey.
`now` is Valkey's clock, `stamp` what the gateway read: up to `Skew` ahead, and the script
runs up to `Lag` later.  `log` is history.  Time is in units of which a window has
`Window`; members are a score and the number `math.random` drew, so two requests of one
instant may be one member.  An entry of `log` names its request, so that requests and
members can be counted apart.

### JWKS

`lookup[l]` is one call of `GetKey`: the first read (`GetKey`), the decision under the
lock (`SkipRefresh`, `BeginRefresh`), the answer (`Respond`: keys, an answer other than 200
which is no error, or an error), `Merge` under the lock, the second read (`Found`,
`NotFound`).  `Publish` is the identity provider changing a key.  A key that does not parse
is one that is not published.  `asked` and `history` are history variables.

### ApiKeys

A secret is a number drawn afresh; its row holds prefix, hash, previous hash.  `op[o]` is a
call of a handler of the page: `CreateApiKey` inserts, `RevokeApiKey` deletes, and a rotation
is `RotateSelect`, which reads the hash, and `RotateUpdate`, which writes prefix and both
hashes back under the policies of the table (`Sees`, `MayUpdate`); each may match no row,
fail, or lose its answer.  `GetApiKeys` is the list the handler awaits before it shows the
secret.  `Matches` is `VerifyAPIKey`; `Verify` starts the goroutine of `ClearPrevKeyHash`.

### ServerActions, Dialogs

`calls[t]` is the queue of a tab, its head under way.  What a handler does after an `await`
is the action that answers the call: a fact about a page that was read before the `await` is
kept in the call.  A dialog can be closed, and another one opened, while its call is under
way; a call is `shown` as long as the dialog that made it is open.

### Playground

A page has an `active` session, the messages it shows, a `status` and a `result`.
`HandleRun` enqueues the prompt with the session that was open; `Prompted` and `Answered` are
`Process` appending to that session.  Handlers ask Supabase for the user first, so a call may
overtake an earlier one (`Ask`).  `asked` is history: where a prompt was run.

### ToolPages

`tool[i]` is a row; `drifted` stands for `updated_at > last_synced_at`.  An edit is `GetTool`
(read and merge) and `UpdateTool` (write everything back); `DisableTool`, `RegisterTool`,
`CreateMemzentTool` are the other writers.  `Refresh` is `Select`, `Send` per tool, `Mark` per
tool, run by the gateway's `Loop` and by a tab's synchronisation; `Vectorize` is the goroutine
an update starts.  `sent` is history: what the router was ever asked to vectorise.

### WebhookPages, OrgPages, Overview

The handlers of the pages and the gateway's answers, each with its errors and its lost
answer.  In `WebhookPages` an update is `GetForUpdate` and `UpdateWebhook`.  In `OrgPages` the
loading of a page is a chain of calls, between which the form can be used.  In `Overview` one
queue serves the polls of the feed, the loads of the pages and the prompts; the pages are
left and come back, the assistant stays.

### Workflows, Lifecycle

`row[w]` is the status.  `Approve` and `Activate` are the two statements of the approve
handler, `Reject` that of the other; `UpsertCandidate`, `UpdateSimulationResults`, `MarkStale`,
`Demote` are the miner, the simulator and the two statements of the demotion check.  The page
lists what a load found; its buttons go by the list.

### Tenancy

A request carries the session it was sent with (`page[t].user`) through `Proxy`, `Callback`,
`GetCurrentOrg`, `Check` and `Provision`; meanwhile other tabs sign in and out (`session`).
`Check` and `Provision` are the look and the insert of `provision_personal_org`.

### Blog

`post[s]` is a row; `reader` a visitor of the website: the posts built in, the cache of the
posts fetched, the page it is at and the text on it.  The dashboard's blog pages call Supabase
from the browser, so `calls[t]` is a set here.  `public` is history: what was ever published.


## 3. The runs

| run | bounds | what it shows |
|---|---|---|
| BillingLedger | 2 organisations (one without money), an unknown and the default id, 3 concurrent calls, amounts with and without a tie | no overdraft, books and balance agree up to rounding, `ImplementsAccount`, every call returns |
| EngineBilling | 1 organisation, 2 requests, 3 days in 2 months, 3 settings of the caps, balance at most 3 | a ground that stood throughout the pre-check refuses (`GroundsStop`), what is booked as spent was paid for one answer each, an unpaid answer was overtaken by others (`UnpaidWereOvertaken`), every charge settles |
| StripeWebhook | 2 handlers, 3 checkouts of 2 organisations (one as a guest), 1 subscription change, 2 deliveries each | every credit stems from a delivery of its own (`CreditsAccounted`) |
| CacheBust | 1 gateway, 1 request whose prompt has two keys, a tool event, a flush and a bump together, every call may fail, 1 restart, Valkey may lose answers, indexes and the counter | nothing indexed when an event ran is in either store after it (`BustedCopiesGone`) |
| CacheBump | 2 gateways, 2 requests, 2 bumps, every call may fail | `VersionsSeparate`; requests that read the version after a bump see nothing older (`BumpHides`) |
| OfflinePlane | 3 events, 2 workers, buffer of 2 | counters agree with what happened to each event, `StopDrains`, queued events are mined, `Stop` returns |
| WebhookDispatcher | 2 events, 2 workers, queue of 1, 3 attempts | one copy, one verdict, a true log, and every job settles while the gateway serves |
| RateLimiter | 3 requests of 1 agent, a limit of 2 for the organisation and of 1 for the agent, 2 numbers to draw, a window of 3 with `Skew` and `Lag` of 1, 4 ticks | the members added in any stretch of time are within the limit (`WindowBound`), some requests being one member; `RefusalsJustified` |
| JWKS | 3 lookups, a seeded and an unseeded key id, a gap of 2 and a timeout of 3 (so that requests overlap), 3 ticks, 1 change of the provider | requests spaced, keys genuine, a refusal follows an attempt, every lookup returns |
| ApiKeys | 2 administrators and a member with a page each, 3 calls, 3 secrets, 1 tick that ends a lifetime and the grace period | a key on display works (`ShownKeysWork`) |
| Console | 1 tab (2 for the login), 2 calls in its queue (1 on the tools page), 2 sessions, prompts, webhooks and forms, 1 tool with 2 descriptions, 1 workflow, 2 providers, 2 users, 3 organisations, 1 post with 2 texts | nothing stays locked (`LocksAreTrue`, `ControlsReturn`), nothing is filed, shown or brought back where it does not belong (`FiledWhereAsked`, `ModelOfProvider`, `ShownOrgIsTheirs`, `DraftsStayHidden`, `RemovedForGood`), descriptions reach the router (`DescriptionsSent`) |
| WebhookLost | 1 event | finding: the request's context is gone before the subscribers are looked up |

**Why these bounds.**  Each race needs two actors and a third event between their steps;
a second organisation matters only where rows are locked; the queue of one and the
buffer of two are full as soon as a second or third event comes; three attempts have a
first, a middle and a last; two days in a month and a third in the next distinguish
the two sums.  Two calls in the queue of a tab are one under way and one that waits
behind it; the other members of the organisation, who act through pages of their own,
are single steps between (`DeletedElsewhere`, `ChangedElsewhere`, `RejectedElsewhere`,
`Join`), so one tab is enough where tabs share nothing but tables.  Two tabs share a session,
which is what `Tenancy` is about.

**Bounds in guards.**  The counters of days, attempts, changes, restarts, time and the
balance: `LastDay`, `MaxAttempts`, `MaxChanges`, `MaxRestarts`, `MaxTime`, `MaxBalance`.  On the
pages: `MaxCalls` and `ToolCalls`, how many calls a user adds to a queue, and how many
sessions, prompts, descriptions, webhooks, forms, organisations, texts and secrets there
ever are (`MaxSession`, `MaxPrompt`, `MaxDesc`, `MaxHook`, `MaxForm`, `MaxOrg`, `MaxText`,
`MaxSecret`).  Two bounds are of another kind: in `Playground` a call overtakes no run, and in
`Overview` a fetch that still asks for the user when its page is left is dropped.  `Lag` and
`Timeout` are in guards of `Tick`, but they say how long a call lasts at most.

**Symmetry** is used for requests, gateways, handlers, calls and administrators in runs
without liveness properties (`ApiKeys`, `CacheBump`, `RateLimiter`, `StripeWebhook`), and for
the numbers drawn in `RateLimiter`.  **Deadlock** is checked in `Console`, where a page can
always do something.  Elsewhere it is not: the models stop when their calls, requests or
events are used up or the process has ended, as the real program idles.


## 4. Fairness

- `BillingLedger`: a transaction that can take its next step does.  PostgreSQL wakes the
  waiters of a row lock, and no transaction holds one while it waits for another.  That
  callers come is not assumed.
- `EngineBilling`: only the goroutine of a charge is fair; the database answers it, with
  success or an error.
- `OfflinePlane`: the loops of the workers, the flusher's exit and `Stop` are run by the
  Go scheduler.  The workers' fairness is of the whole loop: which ready case a `select`
  takes is left open.
- `WebhookDispatcher`: workers run and `http.Client` has a timeout; sleeping retries wake.
  The shutdown is not fair, nobody has to stop the gateway.
- `JWKS`: a lookup that has begun goes on; the locks are held for a few statements, and
  `http.Client` gives a request up after ten seconds.  That lookups are made, that the
  provider changes anything or that time passes is not assumed.
- `Console` and its pages: the call at the head of a queue is answered or fails in the end, as
  `fetch` does; the browser's client for Supabase answers; the refresh loop of the gateway
  goes on and the goroutines that vectorise run.  A user is never obliged to do anything: a
  page may stay open for ever.  `ControlsReturn` therefore rests on answers alone.
- `StripeWebhook`, `CacheInvalidation`, `RateLimiter` and `ApiKeys` have safety properties only:
  Stripe may give up, the cache promises nothing in time, and a page of keys locks nothing.


## 5. What is proved

Every safety property of the passing runs, invariant or step, is a theorem.  Each proof has
the same shape: an inductive invariant, one lemma for each action that preserves it, and
a line that draws the property from it.  The assumptions are those the modules declare
for their constants and TLC evaluates in the runs; two theorems of the answer cache have
one hypothesis more, that Valkey does not lose the version counter.  Nothing else is assumed.

### The ledger

The first part of `BillingProofs` is about every finite set of calls, every set of
organisations, every set of natural amounts and every opening balance.

- `Typing`: the types, and `RowLocked`.
- `Solvency`: `NoOverdraft`.
- `Bookkeeping`: `BooksAgree`, the balance and the sum of the rows differ by at most one
  micro for each deduction whose amount ended in half a micro.
- `Refinement`: `Spec => AccountSpec`: every step is an atomic debit or credit of the
  account or changes neither balance nor books.

`NoOverdraft` is not inductive: a commit is harmless only because the row has been locked
since its condition was evaluated.  The invariant is

    Inv == TypeOK /\ RowLocked /\ CoveredUntilCommit /\ NoOverdraft /\ BooksAgree

`RowLocked` says the lock belongs to exactly the call past its UPDATE, so nobody else
commits to that row; `CoveredUntilCommit` carries the condition of the UPDATE to the
COMMIT.  One lemma per conjunct proves that each action preserves it; `Rounding` is the
arithmetic of storing half micros; `CommitFacts` gives what a commit needs.  The
assumptions are those of the modules: amounts and opening balances are naturals, the
special ids are no organisations, `Call` is finite (`BooksAgree` counts calls).

### Stripe's deliveries and the engine's charges

The rest of `BillingProofs` is about `StripeWebhook` and `EngineBilling`, which it instantiates;
the definitions their theorems name are in `Payments` and `Spending`, which both extend.

- `PaymentTyping` and `CreditsCounted` (`CreditsAccounted`) are about every finite set of
  checkouts and handlers, every set of other events and every number of attempts.
  `PaymentInv` adds to the types that the credits of a checkout and the handlers that have
  its event in hand are together no more than its deliveries: each delivery is spent once, by
  a credit or by none.
- `SpendTyping`, `Refusal` (`GroundsStop`), `Spent` (`SpendIsPaid`) and `Overtaken`
  (`UnpaidWereOvertaken`) are about every finite set of requests, all caps, costs and dates.
  `GroundsStop` compares what was true since a request arrived with what the engine read in
  four statements at four moments.  `SpendInv` says that every ground in `fence` still
  stands, and was seen by each read made since that could see it: `BalanceStands`,
  `DayStands` and `MonthStands` relate a ground to the reads the request has behind it.  A
  ground that stood all the while is therefore found by the read that looks for it.  A
  balance is topped up and caps are changed meanwhile, and a day ends between two reads;
  those steps take the ground out of `fence`.  `Overtaken` needs `PurseInv`: since a request
  read the balance, what is there and what answers have paid are together no less than they
  were then, because a charge moves money from the one to the other and a top-up only adds.
  A charge that the balance does not cover is therefore not covered by what was there at the
  read, less what was paid since.

`CreditsAccounted` and `SpendIsPaid` speak of sums over finite sets, which `FoldFunctionOnSet`
defines with a `CHOOSE`.  The library's induction principles take an operator as a parameter,
which the provers cannot instantiate; instead `Smallest` proves, from the well-foundedness of
strict inclusion on finite sets, that every set of finite sets has a smallest member, and
each lemma on sums (one element more, one term larger, all terms alike) looks at a smallest
counterexample.

### The answer cache

`CacheInvalidationProofs` is about every set of gateways, requests, prompts and tools,
every finite set of operations, and every loss that `Losable` allows.

- `CacheTyping`: the types.
- `Separation` (`VersionsSeparate`) and `Hiding` (`BumpHides`), if Valkey does not lose the
  counter: answers of different configurations have keys of different versions, and what
  was bumped away is not served again.  With the counter lost they are false (section 6).
- `Gone` (`BustedCopiesGone`): of an answer that was stored and indexed before the event of its
  tool, neither store has a copy once that event has returned, whatever is lost.

The types already hold an argument: `counter <= Cardinality(Counted)`, because every
operation bumps once, so that versions stay among those the model has.  The rest is two
invariants, and every action keeps both (`Kept`).

`Versions` is for the first two.  `configAt[v]` is the configuration with which version `v`
was reached; it grows with the version.  `RequestBehind` says what a request that has read a
version knows: until it is stored, its answer is no older than the configuration of its
version (an answer is made after the version was read), and what it asks Valkey for is no
older than what was known when it arrived.  `OperationBehind` says the same of the
operations, and `Filed` of every copy and every write under way.

`Busts` is for the third.  `Traced` says of a copy, or of a write under way, that its request
has tagged it in the index under each of its tools, if that was in the present epoch.  So the
operation that pops the index of a tool gets every key of that epoch, and `Pending` follows
it: until the copy is deleted, each operation that owes its deletion has its key, and
has not passed the store it is in.

### The rate limiter

`RateLimiterProofs` is about every set of requests, users, tiers and roles, all positive
limits and floors, and every window longer than `Skew + Lag`.  `Typing`, `LimitHolds`
(`WindowBound`) and `NoIdleRefusal` (`RefusalsJustified`) follow from

    Inv == TypeOK /\ Timed /\ Logged /\ Kept /\ Held /\ FiniteLog
           /\ WindowBound /\ RefusalsJustified

`WindowBound` speaks of the members that were added, the script counts those its set still
holds.  Of the requests the like does not hold: two of them may be one member
(`RequestBound`, section 6).
`Kept` and `Held` relate the two: what was added less than `Window - Skew - Lag` ago is in
the set, and everything in the set was added.  `Kept` is preserved because a script
only drops scores that are old by its own stamp: `Timed` bounds how far a stamp is from
Valkey's time, `Logged` how far a score is from the time of its script, and that the
key lives longer than its members.  An admitted request then finds all recent members
among the fewer than `limit` it counts.

### The key provider

`JWKSProofs` is about every set of lookups, key ids and keys, every seed and every
behaviour of the provider.  `Typing`, `Spacing`, `Genuineness`, `Monotone` (`KeysStay`) and
`TriedBefore` (`RefusedAfterTrying`) follow from

    Inv == TypeOK /\ Asked /\ Noted /\ Genuine /\ Merged /\ Recent
           /\ RefreshesSpaced /\ FoundAreGenuine

`Noted` makes `RefreshesSpaced` inductive: `lastMod` is the time of the latest request, so
one begun `Gap` after it is far from all.  `Genuine` follows keys from the provider through
answers under way into the map.  `Recent` says that who will read the map again has made
a request or found one less than `Gap` old, `Merged` that what a finished request brought
is in the map: together they leave only the three excuses of `RefusedAfterTrying`.

### The offline plane

`OfflinePlaneProofs` is about every finite set of events and of workers (at least one), and
every positive buffer: `PlaneAssumption`, which `NewPlane` establishes by its defaults
(plane.go:57-66).  `Typing`, `CountersAgree` (`Accounted`) and `Drained` (`StopDrains`) follow from

    Types /\ Once /\ Stopping /\ Counting

`Once` says that an event is in one place: in the channel, with one worker, or mined.
Without it the counters could count one twice.  `Stopping` follows the shutdown: what was
buffered when it began is mined, with a worker, or buffered still, and in the last case no
worker has left, because one leaves only when it found the channel empty after the end of
the context, and what is early is not added to.

### The webhook dispatcher

`WebhookDispatcherProofs` is about every set of events, webhooks and workers, every queue and
every number of retries.  `Typing`, `SentOnceAtATime` (`OneCopy`), `Verdicts`
(`VerdictIsFinal`) and `TrueLog` (`LogsAreTrue`) follow from

    Types /\ Once /\ Known

`Once` says a job is queued at one position, posted by one worker, or asleep once;
`Counted` turns that into the sum of cardinalities of `OneCopy`.  `Known` ties the number in
an item to history: it counts the attempts begun (one more while posting), its job is
`Open` (no verdict, pushed already), and the log has no row of the attempt under way.  Every
step that ends a job takes its only copy, which is why a verdict is final.

### The API keys

`ApiKeysProofs` is about every set of calls and tabs, every number of secrets, every
lifetime and grace period.  `Typing` and `Banner` (`ShownKeysWork`) follow from an invariant
whose parts are: types; what a call knows of its row (`OpOK`); a row holds the secret it was
created with or that of a rotation that has written it (`RowOK`); and a secret in a banner
was written by a call whose row still holds it, was deleted, or holds that of another call
(`Held`).  `RowOK` also says that prefix and hash go together, which is what makes the
previous hash useless (section 6).

### The console

`ConsoleProofs` is about every number of tabs, users, organisations, providers, posts,
sessions, prompts, tools, webhooks and workflows, and queues of every length.

- `Typing`: `TypeOK`.
- `Locks`: `LocksAreTrue`.
- `ShownOrg` (`ShownOrgIsTheirs`), `Models` (`ModelOfProvider`), `Drafts` (`DraftsStayHidden`),
  `Filed` (`FiledWhereAsked`).
- `Removal`: `RemovedForGood`, a property of steps.
- `Approval` (`ServedWasReviewed`), `Implementation` (`ImplementsLifecycle`) and `WorkflowTyping`,
  about `Workflows` by itself.

`ConsoleInv` has a part for each site, and holds trivially on the others.

- *Login*, `LoginInv`: a tab that waits for an organisation is of a user, and what it shows is
  one of that user's, kept because a user loses none.
- *Organisation*, `OrgInv`: every profile stored, in a form or in a queued call has its model
  from its provider; calls are typed by the page they are of, because an answer is written
  into the page it finds.
- *Blog*, `BlogInv`: the text of a published row was published, and so was what the website
  has cached.
- *Workflows*, `WorkflowInv`: nobody sees, or waits for a review of, a workflow without a row.
  Without it a rejection could bring a row into being, which is no step of `Lifecycle`.  It
  is kept because rows stay (`RowsGrow`).
- *Webhooks*, `HookInv`: a row has a state and what it says.  `HookNext` goes through what a step
  may write: a free row becomes live, a row is given a new text, or a row is deleted, whichever
  call that was and whatever is on the page by then; none of these brings a deleted row to life.
- *Playground*, `ChatInv`: a prompt is in one place, a queue or a log (`RunsOnce`), and a call
  that runs one knows the session it was run in (`RunsTracked`).
- *Overview*, `OverviewInv`: `Fetching`, `Trying` and `Talking` relate the flags of a page, the
  trace and the conversation to the calls in the queue that are still of that page.

`Locks` needs the same relation for the other pages.  A control is locked by a flag, and
unlocked by the answer to a call; between them a dialog may be closed, opened again for
another row, or go with its row when a new list arrives.  `OrgLocked`, `BlogPages`,
`HookPages` and `ToolTabs` say in addition to the property what makes it inductive: *a call
that is still `shown` belongs to the dialog that is open* (or to the synchronisation of the
tools).  So an answer that finds its dialog unlocks it, and one that finds another
leaves alone what waits for another call.  `Items` is the set of calls in a queue; the lemmas
on it say what appending, answering and fading calls does to that set, so that no proof
about a page speaks of positions in a queue.  `ToolTabs` also has the registry's types,
for which an enabled tool must have a description: `Refresh` sends it.

### What is not proved

Only model-checked: liveness, which is outside the prover's reach (`CallsReturn`,
`AnswersSettle`, `QueuedAreMined`, `StopReturns`, `JobsSettle`, `LookupsReturn`,
`ControlsReturn`, `DescriptionsSent`).  `Locks` is the safety half of `ControlsReturn`: there always
is a call whose answer unlocks; that answers come is the fairness of section 4.


## 6. What the code does not keep

A finding with a run of its own:

- **Events of requests that return are lost** (`WebhookLost`): the goroutine of `Emit` uses
  the context of the request.

The modules state more that the code does not keep.  These properties are written at
the end of their module and fail when they are put into its configuration:

| property | module | instance | what happens |
|---|---|---|---|
| `BlocksAtDollarCap` | EngineBilling | `CapSets <- DayCapOne` | spend-limits/page.tsx:88 says the engine blocks "the moment a cap is exceeded"; an answer is charged after it was given, and until then it counts against no cap |
| `BlocksAtTokenCap` | EngineBilling | `CapSets <- TokenCapOne` | no INSERT of `ledger.go` names `tokens_used`: token caps never block |
| `NoDoubleSpend` | EngineBilling | no caps | two answers are given on one balance before either is charged |
| `CreditedOnce` | StripeWebhook | 1 checkout, 2 deliveries | no event or session id is kept: a delivery whose 200 was lost is credited again |
| `LivePathUnaffected` | OfflinePlane | as OfflinePlane | "The live path is never affected" (plane.go:100-101), but `Emit` tests the flag and sends in two steps, `Stop` closes the channel between them, and the send panics in the request |
| `AckedWereCredited` | StripeWebhook | as StripeWebhook | spend-limits-budget-forecasting.md:108 says "complete payment, balance updates instantly"; an error of `TopUp` is logged and answered 200 (stripe.go:75), so Stripe does not deliver the event again |
| `TierFollowsPlan` | StripeWebhook | `Linked` empty | nothing writes `stripe_customer_id`, no tier ever changes |
| `BumpIsImmediate` | CacheInvalidation | 1 gateway, 3 requests, 1 bump | a version read before the bump is remembered after it |
| `BumpHides` | CacheInvalidation | with `"counter"` in `Losable` | Valkey loses the counter, versions start over, old durable rows are reachable again |
| `NoStaleAfterBust` | CacheInvalidation | 2 requests, 1 tool event | an answer in flight during the event is stored after it |
| `StoredAreIndexed` | CacheInvalidation | the same | a goroutine stores an answer after its index was emptied |
| `RemainingAreDrained` | OfflinePlane | as OfflinePlane | the workers have left when an event is queued during `Stop` |
| `StopDrainsQueue` | WebhookDispatcher | 2 events | a worker sees the end of the context before the queue |
| `StopIsGraceful` | WebhookDispatcher | 1 event | a sleeping retry sends on the closed queue |
| `RequestBound` | RateLimiter | as RateLimiter | valkey.go:86 says "max requests allowed per window"; requests of one millisecond that draw the same number (valkey.go:104) are one member and counted once, so three of them pass a limit of two |
| `GraceHonoured` | ApiKeys | as ApiKeys | rbac.go:97, actions.ts:226 and keys/page.tsx:120 promise that a replaced key is accepted for 15 minutes; `rotateApiKey` replaces `key_prefix` with the hash (actions.ts:254), `VerifyAPIKey` looks a key up by its prefix (rbac.go:121), and the previous key is refused at once |
| `EveryDelayIsWaited` | WebhookDispatcher | 5 attempts, 5 delays | the fifth failure is final, the ten minutes are never waited |

Seen while reading or modelling, without a property of their own.

In the gateway:

- The docs say that "Cache-hit responses do NOT count toward rate limits"
  (dashboard/src/app/docs/errors/page.tsx:156); both checks come before the cache is
  looked up (engine.go:441-463 and 528).  A request that the check of the user refuses
  has already taken a place in the set of the organisation.
- jwks.go:97 sets `lastMod` "to prevent concurrent refresh attempts", but a request may
  last ten seconds and the gap is five: two may overlap, and the older answer may be
  merged last.  A withdrawn key never leaves the map.
- How likely two requests are one member depends on `math.random`: Redis starts its sequence
  anew for each script, by its documentation, and where Valkey does likewise the millisecond
  alone decides.
- An answer that costs more than is left is not paid and takes nothing, so the balance stays
  positive and the next request is let through: an organisation goes on being answered for
  nothing until a cheaper answer uses the rest up (engine.go:476, ledger.go:237).
- Seven routes, `/v1/offline/stats`, `/v1/patterns/predict`, `/v1/workflows` with `approve` and
  `reject`, `/v1/metrics/entities` and `/v1/features`, are registered inside the handler of
  `/v1/providers` (main.go:1049-1253).  They do not exist before its first request, and its
  second one registers them again, at which `net/http` panics.
- The charge looks the price up for `req.Model` (engine.go:1121), which is empty when the
  default model of the organisation answered: such an answer costs nothing.
- Subscription events may be applied out of order (stripe.go:249), which would show as
  soon as `stripe_customer_id` were written; two requests of one session may append
  their turns interleaved (memory/session.go:100).
- `UpsertCandidate` names a constraint that is an index (registry.go:74, migration
  026:42): PostgreSQL rejects the statement.  The miner joins tool names with " → "
  (miners/workflow.go:68), the engine looks them up joined with "→" (engine.go:752).
- `emitEvent` and the sleeping retries are not waited for: a retry that wakes up after `Stop`
  panics (dispatcher.go:193).  `Backfill` gives a copy in Valkey a whole new lifetime, longer
  than that of the index that names it (engine.go:553).
- A workflow whose `Activate` failed stays `approved`: nothing retries it.  The comment of
  registry.go:292 speaks of stale workflows that "haven't recovered", but nothing recovers
  one.  A list of active workflows read before an invalidation may be cached after it
  (registry.go:266), and an error of the second statement of the demotion check leaves the
  cache as it was.

API keys:

- A rotation by a member who is no administrator matches no row under the policies of the
  table, which is no error: the page shows a key that nothing accepts.  So does a rotation
  that a revocation overtakes.
- Two quick clicks create two keys and show one; a reload loses a secret for ever; the
  goroutine of rbac.go:155 may erase the previous hash of a newer rotation.

Playground:

- While a prompt runs another session can be opened: the answer is filed where it belongs,
  but shown, with the messages of its run, under the session that is open; the next prompt
  is then sent with those.  A delete that began while its session was open closes the one
  opened meanwhile.  The branch of `handleRun` that creates a session is unreachable.

Tools:

- The list names neither endpoint nor `enabled`, so a tool once disabled answers 404 to an
  update, although tool-actions.tsx:157 says it "can be re-enabled later"; an update that read
  the row before a removal enables it again.
- A tool registered with `RegisterToolBtn` has no organisation, and its own cannot edit it.
- `Refresh` marks a tool as synchronised even if the router refused it, and an older
  vector may arrive after a newer one.
- A success closes a dialog opened later for the same item; the timer of an earlier
  synchronisation resets the state of a later one; the wizard navigates to `/dashboard`, which
  is no page, from wherever the user is by then.

Webhooks, organisation, overview:

- The secret of a new webhook is shown in the dialog that creates it, and lost when that was
  closed meanwhile; two members' forms overwrite each other as a whole; if the call for the
  delivery log throws, its spinner stays.
- When the limits could not be loaded the form is empty, and saving it removes all caps.  A
  profile saved before it was loaded is stored with the defaults of the form, and a late
  answer overwrites what was typed.  A top-up is offered while a plan is being bought, so
  there may be two checkouts.
- The feed polls every five seconds without waiting for an answer, so that behind a slow
  prompt the polls pile up.  The end of any fetch clears both flags of a page.  The inner
  `catch` of actions.ts:111-116 always replaces the parsed error by the raw body.
- The workflows page shows "active" or "demoted" although the gateway refused; a list of an
  earlier filter may be shown under a later one.

Login:

- Two requests at once provision two organisations for one user, although migration 012:20
  is there "to prevent duplicates".  The callback inserts an organisation without a slug,
  which the table refuses; the error is ignored.  If provisioning fails, the layout sends the
  user to `/login` and the proxy back to `/`, for ever.  With several memberships the
  organisation is any one of them (`limit(1)` without an order).

Blog:

- `BlogPost` has hooks after its early returns, so it fails when a post that is only in the
  database arrives after it was rendered.  A post that is also built in shows the old text until the cache is
  filled, although blog.ts:112 says "DB posts take precedence".  A failed first fetch is
  cached as "no posts".
- A new post silently overwrites one of the same slug; saving a draft of a published post
  withdraws it; toggling and deleting ignore their errors; the answer that fills the editor
  overwrites what was typed.
- The dashboard's own `lib/blog.ts` is used by `sitemap.ts` only.


## 7. What is not modelled

Abstracted everywhere: the text of prompts and answers, prices, embeddings and their
similarity, HTTP and SQL syntax, logging, metrics, layout.  In `CacheInvalidation` similar
prompts are a choice of another key; in `EngineBilling` what a generation costs is a choice.
The model of a page relies on the routes being keyed by their path, so that a page is
mounted anew when it is opened.

Left out, and why:

- **Offline plane on Valkey Streams** (`offline/stream_plane.go`): off unless
  `MEMZENT_OFFLINE_STREAMS` is set.  Its redelivery is that of a consumer group, and nothing in
  the code claims what a dead consumer has read and not acknowledged (stream_plane.go:188):
  such entries stay pending.  There is no promise to check.
- **Miners** (`offline/miners/`): counters behind a mutex; what they promote is
  `UpsertCandidate`.
- **Pre-warmer** (`prewarmer/`): it reads the table `cache_entries` (main.go:491), which no migration
  creates, so it never warms anything.
- **Migration runner** (`db/migrate.go`): each file in one transaction with the record that it
  ran, when the gateway starts.
- **The cache of active workflows** in the gateway: a hint with no guard a property could state; what it
  may do is in section 6.
- **Connectors**: a loop of attempts around one call, with nothing kept.  **Cost calculator**,
  **entity extraction**, **normalisation**: pure functions of texts and prices.
- **JWT middleware**: checks of one request.  **Long-term memory**, **metrics and audit**: single
  statements that no later step depends on.
- **LLM providers**, **router client**, **MCP**, **router (Rust)**: requests to other systems; their
  answers are nondeterministic choices where a model needs them.
- **Configuration and flags**: read once.  **Static pages**: documentation, marketing, and pages
  rendered once from one call.
