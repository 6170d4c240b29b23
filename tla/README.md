# HomeServices SaaS: a verification development

TLA+ specifications of the multi-tenant home-services platform in `src/`, the TLC
configurations that check them on small instances, and TLAPS proofs of the results
that matter most for every instance. `PROJECT.json` lists the runs, the mutants that
show each property can fail, the source lines behind every definition, and the
hazards the properties are for.

- [The system](#the-system)
- [The modules](#the-modules)
- [Runs, bounds and fairness](#runs-bounds-and-fairness)
- [Disagreements found](#disagreements-found)
- [Proofs](#proofs)
- [What is left out](#what-is-left-out)
- [Plan](#plan)

## The system

A Next.js frontend talks to an API gateway; the gateway resolves the tenant of the
host, checks the token and proxies to three Fastify services. All of them share one
PostgreSQL database, whose row-level security keeps the tenants apart, one Redis
cache and the library in `src/shared`.

| Component | State it keeps | Operations | What makes it hard | What makes it correct |
|---|---|---|---|---|
| **Tenant database access** `shared/db/client.js`, `migrations/…_rls_policies.js` | two connection pools, the settings of each PostgreSQL session, open transactions | `withTenant`, `withSuperAdmin`, `pool.query` | clients are reused by requests of different tenants; any await may throw or lose its connection | nobody sees or writes another tenant's rows; every client comes back clean; a call takes effect once, whole, or not at all |
| **Bookings, customers, audit log** `booking-service/routes/bookings.js`, `customers.js` | rows of three tables | POST, PATCH, DELETE of bookings, POST of customers | several statements per handler, READ COMMITTED, a SELECT before an UPDATE | a row, its audit entry and its customer are there together; the log explains the rows; no update is lost |
| **Public portal** `tenant-service/routes/public.js` | the same tables, one cache entry | quote, anonymous booking | two bookings match or create one customer at the same time | a booking has the customer it was made for |
| **Tenant cache** `shared/cache/tenantCache.js` and the handlers around it | Redis entries with a TTL | `remember`, DEL, `invalidateTenant` | a fill races an update; the DEL follows the COMMIT and may be lost; some loaders read a replica | an entry that is out of date is about to be cleared, or has a known reason; all become right in the end |
| **Onboarding wizard** `tenant-service/routes/onboarding.js`, `web/src/app/onboarding/*` | `onboarding_status`, rows of the catalog, pages in tabs | save a step, mark a step, resume | two calls per step, each may fail or succeed unheard; several tabs | no step is counted without its rows, none is forgotten, nobody is led past a step that failed |
| **Pricing and commissions** `shared/pricing/engine.js`, `quotes.js`, `commissions.js`, reports in `admin-tenant-detail.js` | `pricing_structures`, `commission_structures` | quote, add and remove commissions, two earnings reports | doubles rounded at each step; the same commission computed in three places | rounding stays small, limits hold, the report pays what the quote said |
| **API gateway** `api-gateway/server.js` | one cache entry per host | resolve tenant, check token, proxy | entries live five minutes and nothing clears them; another handler writes the same key | a request is served for the tenant of its token; a suspension ends access in the end, an active tenant gets in |
| **Authentication** `auth-service`, `shared/utils/jwt.js`, `web/src/app/login`, `web/src/lib/api.js` | users, token and slug in the browser | login, refresh, admin login | a token outlives the user it names; slug and token change in two steps, under all tabs | token and slug belong together unless a login is on its way or failed |
| **Signup** `tenant-service/routes/tenants.js` | tenant, theme and user rows | signup | two signups of one subdomain | one of them gets it |
| **Billing** `admin-revenue.js`, plans and tiers in `admin.js`, seed 004 | plans, subscriptions, invoices | status changes, prices, summary, seeding | any status may follow any other; the summary is five statements, the seed a loop without a transaction | figures add up; invoices charge the rate; no money is counted in two months; nobody is left out |
| **Admin API, platform content, notifications, feature flags** `admin*.js` | a table each | list, insert, patch, delete by id | whole rows are sent back; some operations miss without saying so | a PATCH writes what was typed |
| **Admin console** `web/src/app/admin/*` | per browser: a list, an editor, flags, calls in flight | load, open, type, save, press, delete, filter | answers in any order, failed calls, other administrators | the list shown is the server's, no page waits for nothing, a form is inserted once |
| **Customer portal** `web/src/app/p/*` | a booking form, a quote, calls in flight | toggle, book | quotes answer in any order | the price booked is that of the form |

Interactions. Every route handler goes to the database through `withTenant` or
`withSuperAdmin` (`TenantDb`), so the other modules take a transaction as a unit that
commits or does not, and open it up only where the statements in it interleave with
other handlers (`Bookings`). Handlers that change a tenant's data clear cache entries
after their transaction (`TenantCache`). The wizard's pages drive handlers of two
services (`Onboarding`). Quotes read the commission rows, and bookings keep the total
of a quote and nothing else of it (`Quotes`). Signup makes the tenants the gateway
looks for and the console suspends (`Sessions`), and the tiers that the billing seed
turns into subscriptions (`Billing`). The console is the only writer of most tables it
shows (`Console`).

## The modules

| Module | Models | Extends or instantiates |
|---|---|---|
| `TenantStore` | what `client.js` promises to a handler: the abstract specification | |
| `TenantDb` | pools, sessions, transaction-local settings, row-level security | instantiates `TenantStore` as `Store` |
| `Bookings` | the handlers of bookings and customers, statement by statement | |
| `TenantCache` | the tenant's Redis entries and everything that fills or clears them | |
| `Onboarding` | the wizard's status row, pages and calls | |
| `Pricing` | `computeQuote` as a pure operator | |
| `Quotes` | quote endpoints, commission rows, bookings at quoted prices, earnings reports | extends `Pricing` |
| `Sessions` | signup, login, a browser's tabs, the gateway and its entry, suspensions | |
| `Billing` | tiers, plans, subscriptions, invoices, the revenue summary, the seed | |
| `ConsolePages` | every table, endpoint, editor and page of the console, as a record | |
| `Console` | one page in several browsers, its calls and its table | extends `ConsolePages` |
| `MC*` | model values, operators and symmetry for TLC | extend their module |
| `*Proofs` | theorems and their proofs | extend their module and `TLAPS` |

**TenantStore, TenantDb.** A request is one call of `withTenant`, `withSuperAdmin` or
`pool.query`. `pc` is the await it is at: `waiting` (`connect()`), `begin`, `context`
(`set_config`), `run` (the callback's statements), `rollback`, `release`, and `plain`
for a query without a transaction. `sess` is the server session behind a client: alive
or not, in a transaction or not, `app.current_tenant` and `app.is_super_admin`; COMMIT
and ROLLBACK drop both because they are set with `is_local = true` (`EndTx`). Reads and
writes are filtered by `Visible`, the policies' USING and WITH CHECK clauses.
`Commit` is COMMIT executed at the server (`committed`), `HearCommit` its answer.
`Throw` is the callback throwing or the server refusing a statement, `ConnectFails` a
`connect()` that rejects, which client.js calls before its `try`. A lost connection is
an `'error'` event, and `pool.on('error')` (`client.js:24`) hears only those of idle
clients of the write pool: one that a transaction holds, or that rests in a read pool of
its own (`Unattended`), has no listener, so its `'error'` ends the process, every call in
it fails, and Kubernetes starts another with new pools (`ProcessDies`). What the server
had received of the old process's statements is executed or dropped before the new one
connects. A read-only call takes a client of the read pool. `seen` and `landed` are
history. `TenantStore` has no pool and no session: `Invoke`, `Apply`, `Succeed`, `Fail`
per call, and `Break` for several at once; `TenantDb` implements it with
`state <- callState`. All of it rests on a role that is subject to the policies:
`saas_user` of `docker-compose.yml:9` is the superuser that POSTGRES_USER makes, and
bypasses them.

**Bookings.** A request is one run of a handler: `create`, `patch`, `cancel` (the staff
routes), `customer`, and `portal` (the anonymous booking). `pc` is the SQL statement it is
at; `tx` what its transaction has read and written; `Commit` installs it. PATCH reads
its row without a lock (`SelectBefore`), updates the newest version under the row's lock
(`UpdateBooking`), and logs what it read and what it wrote. `Refuse` covers bodies the
zod schemas reject, `Abort` any statement that fails. An audit entry's `created_at` is
DEFAULT NOW(), the time its transaction began, and that is the order readers sort by: a
PATCH that waited for the row's lock commits later than the one it waited for and may be
logged as the older (`Entry`, `Install`, `Newest`). `AuditExplainsRows` speaks of the
newest entry in this order. `overlaps` is history: which requests ran at the same time.

**TenantCache.** The data is one version number per fact (theme, profile, onboarding,
active, categories, services); an entry holds the versions it was computed from. `Reads`
says what each loader selects, `Writes` and `Clears` what each handler writes and which
entries it clears afterwards. A fill is `Lookup`, `Load`, `Store`; an update is `Commit`
and one `Delete` per key, with `Overlook` for a key a SCAN does not return and `GiveUp`
for a DEL that fails. `StoreResent` is a SETEX that ioredis sends again after a
reconnect. `late` and `lag` are history: the facts whose writes a fill overlapped.

**Onboarding.** Per tab: the page, whether its form has an entry, and the call of Next
that is under way (`saving`, then `marking`). `Save` inserts the form's rows,
`MarkDone` is the UPDATE that rewrites the status row; `SaveUnheard` and `MarkUnheard`
take effect without the browser hearing it, `CallFails` does not take effect. `Go` is
the user going elsewhere, also while a call runs. `Press` starts the next two calls of a
tab when the last ones are over: pressing Next on another page while they
run takes a second tab in the model. `reopened` and `jumped` are history: a step marked again after a
later one, and a page reached by hand.

**Pricing, Quotes.** `ComputeQuote` follows `computeQuote` over whole cents, tenths of
miles, minutes and hundredths of a percent. The program computes with doubles: their
error is far below the distance of such a product from a half cent unless it is one,
and then `HalfUp`, a constant the proofs leave open, decides. `Lines` has an amount for
each rule that charges, and the subtotal is its `SumFunction`. `Quotes` adds and
soft-deletes commission rows, computes quotes with the rows active at the time, books
at the quoted total, and computes the two earnings reports from the bookings.
`promised`, the commissions a booking's quote named, is history: the program does not
store it. The booking page has a form and its requests in flight: `Toggle` is the
checkbox, after which the effect asks again; `Hear` is an answer or an error, in any
order; `Book` submits whatever quote is on the screen.

**Sessions.** `row` and `user` are the tenants and their admins, `cache` the gateway's
entry per subdomain, `store` what localStorage keeps for all tabs, `tab` where each
tab's request is: `select`, `insert`, `commit` for a signup's transaction, then
`lookup`, `load`, `store` (the gateway's `remember`), `admitted`, and `served`,
`accepted` or a refusal. The INSERT waits for another transaction with the same
subdomain, as a unique index makes it. `Resolve` is `GET /tenants/resolve`, which
writes an entry without `is_active` under the same key. `Tick` ages entries and tokens
by what is left of them, so that time never stops.

**Billing.** Each PATCH is an action; `ReportMrr`, `ReportMix`, `ReportBilled` are the
statements of the summary that the properties need, `SeedStart` to `SeedDone` the
seed's loop, `SeedKilled` its process going away between two statements. The clock
counts halves of 30-day months. `repicked`, `reopened`, `repaid`, `cut`, `torn` are
history: what explains a figure that is off. An invoice's `total` is the rate: the tax
on it is a fixed function of that.

**Console, ConsolePages.** The console's 38 pages and tabs, and the portal's services
page, are the same few moves over one table each, so they are records: the columns an
endpoint writes, the operations that answer 404, the columns an editor holds, what is
done after an answer, which buttons are disabled meanwhile, where an error is shown.
`Console` is the machine: `OpenNew`, `OpenRow`, `Type`, `Cancel`, `SaveNew`, `SaveRow`,
`Press`, `MarkAllRead`, `Remove`, `LoadAgain` in the browser; `Serve*` at the server, one
statement each; `Answer*` back in the browser; `Fail` for a call that does not get
there or is not heard of. A row has a key, a body, a flag and a date. Pages that come
out as the same record are checked together.

A page's `load()` is a closure over the filter of one render. A write therefore carries
the filter of the render its button was in (`Write`), and the load that follows its
answer asks with that one (`AnswerAndLoad`), whatever the filter is by then: Mark paid,
then "all", may end with the unpaid invoices under "all". `late` is history: the calls of
a browser whose answer is older than a write or than a change of the filter; `missed`
says that the list was last set from such an answer, that a load or the answer to a
write failed, or that another browser wrote. Dates are none, a day, or a day with a time
(`until`). `Seeded` is the cut of a date input (`slice(0, 10)`,
`discounts/page.js:117`, `changelog/page.js:89`), which Save writes back over the time of
day; `Sent` the date a published post is given (`blog/page.js:33`). Time zones, the
microseconds JSON drops and the splitting and joining of a post's tags and a release's
notes are left out. The Save of every row is disabled while one is saved
(`email-templates/page.js:46`). `adminFetch` sends `Content-Type: application/json` with
a PATCH or DELETE that has no body, and Fastify 5 answers 400 before the handler runs
(`RefuseBare`): as the client is now, no DELETE of the console and neither button of the
notifications page succeeds. The model keeps the handler's answer as a second
possibility, so the properties hold of the pages with either client. A table changes
only through the page in question, and `TenantRevenueTab`'s `onRefresh`, a load of the
parent page whose error replaces that page, is left out.

PostgreSQL, `pg.Pool`, Redis and ioredis are not in `src/`; what the modules assume of
them is marked external in `PROJECT.json`: local settings end with their transaction,
an UPDATE holds its row's lock until the transaction ends, a pool grants clients in
order, a replica replays commits in order.

## Runs, bounds and fairness

| Run | Instance | Checks |
|---|---|---|
| `tenantdb` | 2 tenants, 1 row each, 2 requests, one client in each of two pools | `IdleClientsAreClean`, `ClientsAreConserved`, `SeesOwnTenantOnly`, `RefinesTenantStore`, `EveryCallEnds` |
| `bookings` | 2 requests of all five kinds, two spellings of an address and another one, a booking and a customer that are there and those they create | `AllOrNothing`, `AuditExplainsRows`, `OldValueIsReplaced`, `PortalBookingHasCustomer`, `DuplicatesOnlyWhenConcurrent`, `NoLostUpdate`, `EveryRequestIsAnswered` |
| `bookings_duplicate_customer` | the same | violates `OneCustomerPerAddress` |
| `cache` | entries `config` (primary) and `services` (replica), 1 reader, 2 writers: one's update clears one key, the other's clear nothing or all | `StaleIsExplained`, `EventuallyFresh` |
| `cache_stale_after_invalidation` | entries of the primary only | violates `NextRequestReloads` |
| `onboarding` | 2 tabs, sent by hand to a page with a form and to the last page | `CatalogBehindSteps`, `ForwardIsEarned`, `ResumesWhereLeft` |
| `onboarding_saved_twice` | 1 form, 2 inserts | violates `FormsAreSavedOnce` |
| `quotes` | a service for each kind of rule and one without any, 3 commission rows (a percentage, a flat rate, one whose floor is above its cap), 2 bookings, the booking page of one service with two requests in flight | `SubtotalIsClose`, `CommissionsWithinLimits`, `EarnedAsQuoted`, `ReportsAgree`, `PriceOfTheForm` |
| `sessions` | a tenant and two signups of one subdomain, 2 tabs of one browser (one may do more than sign up), entries that live 1 tick and tokens that live 2 | `OneTenantPerSubdomain`, `ServedAsItself`, `MismatchIsExplained`, `RevocationTakesEffect`, `ActiveTenantIsLetIn` |
| `billing` | a tenant and one that signs up, 2 plans, invoices of 2 months, 2 writes, 2 runs of the seed, a month and a half | `SummaryIsConsistent`, `TermsAreKept`, `ChurnIsExplained`, `MoneyIsBilledOnce`, `SeedLeavesNobodyOut` |
| `billing_seed_again` | the same | violates `SeedIsIdempotent` |
| `console` | every page, 2 administrators, one of whom is opening it, 3 rows, 2 clicks (3 where answers are put into the list or the filter is of the flag), 1 failed call | `ShownIsCurrent`, `DuplicatesAreResends`, `WaitsAreExplained`, `NothingRevertedUnlessStale` |

Each module has a `TypeOK`: TLC checks those of `Bookings`, `Quotes` and `Console`, and
all of them are proved. Every property has a mutant: a plausible bug in a mapped definition (settings that outlive their transaction, a client
released on the success path only, a SELECT's row written back, a theme update that
forgets the entry of `/tenants/me`, a failed call that moves the wizard on, ...) with
which TLC finds it violated.

*Why the bounds are enough.* The bad cases need few actors. A context leak needs two
requests of different tenants on one client; a lost update two handlers on one
booking; a duplicate customer two bookings, which run one after the other as well as
at once; a stale fill one reader and one writer, and a second writer lets the clearing
of one update meet a fill around the other; two signups of one subdomain two tabs; a
session that belongs together in no tab two of them and one storage; a rerun of the
seed two tenants, of which one came later, and two runs; a write under an open editor
two administrators, a list under the wrong filter a filter that is set, a button and the
filter cleared again. An answer is overtaken by one other. Months of invoices, ticks a
token lives and rows of a table beyond these repeat what is there. One client per pool is the case in which
clients are always passed on and requests wait. Where these numbers are not argued but
proved away, see [Proofs](#proofs). The largest instances are `console`, with 1,393,120
distinct states, `bookings`, with 710,408, and `tenantdb`, with 115,365.

*Bounds by name.* `Requests`, `Jobs`: each request or booking happens once.
`MaxVersion`: updates of one fact; `Kinds`: which of them each writer makes. `MaxBatches`: inserts of one kind. `Visited`: the
pages a tab is sent to by hand; going to a page the wizard would show is always
possible. A tab has one pair of calls under way. Calls in `TenantDb` repeat without bound. `Toggle`: two quotes in flight.
`Managed`, `Wanted`, `Callers`: whom the super-admin suspends, whom a tab signs up, which
tabs do more than that; logins, calls, suspensions and time repeat without bound.
`MaxNow`, `MaxWrites`, `MaxRuns`: the clock, signups and PATCHes, and runs of the seed in
a behaviour of `Billing`, which therefore stops (no deadlock check). `MaxClicks`,
`MaxFails`: what is clicked, and how many calls fail, on a page of `Console`, whose
behaviours stop when every answer is in (no deadlock check); a form has one field
changed, and one new row at a time is filled in, which the next may follow before the
first is answered. Two calls of a browser are in flight at most.

*Fairness.* `TenantDb` assumes weak fairness of each call's next step and of each pool's
grant: the event loop runs every continuation, callbacks end, `pg.Pool` serves its
queue in order. Reads and writes inside a callback carry no fairness, nor does any
failure. `Bookings` assumes the same of statements; an UPDATE waits for its row lock,
and since every holder of a lock goes on to COMMIT or ROLLBACK weak fairness is enough.
`TenantCache` assumes in addition that TTLs pass and the replica goes on replaying; nobody is
made to read or update, and a DEL may always be lost. No liveness is claimed of the
wizard: a user may always close the tab. `Sessions` assumes that a request that was
sent is answered (or fails), tab by tab, and that time passes; nobody has to log in,
call or log out, and the super-admin need not act. Its liveness properties speak of
what holds for good from some time on, so a suspension that is taken back promises
nothing. None is claimed of `Billing` and `Console`: that no page waits for nothing is
an invariant.

## Disagreements found

1. **Two customers for one address.** `public.js:134` says "Match existing customer by
   email (case-insensitive) or create new". The SELECT takes no lock and `customers`
   has no unique address, so two portal bookings in progress together create two
   (`bookings_duplicate_customer`). `DuplicatesOnlyWhenConcurrent` shows it is the only
   way.
2. **A stale theme after a successful PUT.** `themes.js:69` says "Invalidate cached
   theme + tenant config so next request reloads". A reader that loaded before the
   COMMIT may SETEX after the DEL, and `config` then stays old for a day
   (`cache_stale_after_invalidation`). `StaleIsExplained` shows what else may cause it.
3. **Steps that are not idempotent.** `onboarding.js:2` says each step is. When the
   call that marks a step fails after the bulk insert, Next inserts the form again
   (`onboarding_saved_twice`).

4. **A seed that cannot be run again.** `004_revenue_billing.js:4` says "Idempotent."
   Invoice numbers start from 1000 on every run while tenants that have invoices are
   passed over, so a run after a signup, or after one that was interrupted, meets the
   unique invoice number and throws (`billing_seed_again`). `SeedLeavesNobodyOut` shows
   that a run that does end well left nobody out but those in whose invoices an
   earlier run ended.

What the properties excuse, and a reader may want to change:

- `TermsAreKept`: `PATCH /admin/tenants/:id` sets `plan_tier` and leaves the
  subscription, "the source of truth" (`migrations/20260401000001…:8-9`).
- `ChurnIsExplained`: `canceled_at` is not cleared when a canceled subscription is given
  another status, so it earns and churns at once.
- `MoneyIsBilledOnce`: marking a paid invoice paid again moves `paid_at`.
- `SummaryIsConsistent`: the summary's statements are not one snapshot; it counts
  subscriptions of suspended tenants.
- `MismatchIsExplained`: a failed login leaves the session that was there with the
  other tenant's slug, and refused, until the next login.
- `ActiveTenantIsLetIn`: entries written by `GET /tenants/resolve` have no `is_active`, and
  the gateway answers "tenant inactive" until they expire.
- `PriceOfTheForm`: the newest answer does not win; a late one does. And a booking can be
  submitted before the quote of its last toggle is in.
- `AuditExplainsRows`: of two handlers of one booking that ran at the same time, the one
  that began first may commit last, and the newest entry is then not of the row.
- `ResumesWhereLeft`: marking an earlier step again moves the tenant back to the step
  after it and takes the completion away (`onboarding.js:56-57`); a page reached by hand
  marks its step before those it skips.
- `NothingRevertedUnlessStale`: editors send the whole row as they loaded it. And an
  expiry or a release date loses its time of day whenever its row is saved, by one
  administrator and with nothing stale (`discounts/page.js:117`,
  `changelog/page.js:89`); a post saved as published without a date is dated
  (`blog/page.js:33`).
- `DuplicatesAreResends`: Save stays enabled while a POST is under way. Platform-wide
  feature flags with one key are inserted as often as somebody asks (`ON CONFLICT` never
  meets a NULL); that is not counted, since each was asked for.
- `ShownIsCurrent`, each by its cause: another administrator wrote; the last load, or
  the answer to a write that was made, failed; of two loads the one answered last is
  shown, though it was served before a write or sent under another filter; the load
  after a write asks with the filter the write was pressed under; and of two PATCHes of
  one row, served in one order and heard in the other, the list keeps the older
  (`Overtaken`). The last case takes three clicks: it came up when an instance with two
  held and the proof did not go through. The property holds of
  `tabs/Bookings.js` only because an error excuses it: with the filter "all" its path
  ends in `/bookings&limit=200` (line 25), which no route matches, so the tab is empty
  until a status is chosen.
- A discount code without an expiry cannot be edited: its editor sends `valid_until: ''`
  (`discounts/page.js:117`), which PATCH, unlike POST, hands to the database; and PATCH
  ignores a changed code.

Seen on the way, without a run: `engine.js:11` says past quotes are stored as
snapshots. A booking stores the total only, and the earnings of past bookings follow
today's commission row, without its limits, and any one of several
(`admin-tenant-detail.js:455-472`). The condition of `EarnedAsQuoted` lists these cases.

## Proofs

All are checked by TLAPS to the last leaf, and nothing is assumed but the named
assumptions on constants.

| Theorem | States, for every value of the constants | Argument |
|---|---|---|
| `TenantDbProofs!TypeCorrect`, `NoContextLeaks`, `NoClientLeaks`, `ReadIsolation`, `WriteIsolation` | type correctness; idle clients carry no context and no writes; each client is at rest or held by one call; a call sees and writes its own tenant's rows only | `IndInv` |
| `TenantDbProofs!Refinement` | `TenantDb` implements `TenantStore` | `IndInv` and `OutcomeMatches`: every step is a step of `Store` or a stutter |
| `TenantCacheProofs!TypeCorrect`, `Staleness` | an out-of-date entry is about to be cleared unless its fill overlapped the write or a DEL was lost | `IInv` |
| `OnboardingProofs!TypeCorrect`, `CatalogIsThere`, `NobodyIsLedPast`, `WizardResumes` | no step is counted without its rows, nobody is led past a step that failed, the wizard resumes at the step after those done: with any number of tabs | `IInv` |
| `BookingsProofs!TablesAreTyped`, `TransactionsAreAtomic`, `LogKeepsUp`, `LogSaysWhatWasReplaced`, `NoUpdateIsLost`, `CustomerIsThere`, `DuplicatesNeedARace` | a transaction takes effect whole or not at all; the log explains every row and names what was replaced; no update is lost; a portal booking has its customer, and two customers share an address only if their bookings met: for any number of requests, bodies and failures | `IInv` |
| `QuotesProofs!QuotesAreTyped`, `SubtotalsAreClose`, `CommissionsAreLimited` | every amount is whole cents; rounding moves a subtotal by three quarters of a cent a rule and a cent at most; commissions keep their limits: for any number of rules of any kind | `TInv`, sums |
| `QuotesProofs!ReportsAreClose` | the two reports of a staff member's earnings differ by half a cent a booking and half a cent more at most, for any number of bookings | `TInv`, sums |
| `QuotesProofs!Earnings` | the report pays what the quote said, for any rules, rates, contexts and any rounding of half cents | `IInv` |
| `SessionsProofs!TypeCorrect`, `OneEach`, `NobodyElse`, `SessionsMatch` | one subdomain is one tenant's, nobody is served as another tenant, token and slug belong together: for any tenants, tabs and lifetimes | `IInv` |
| `BillingProofs!TypeCorrect`, `TermsStay`, `ChurnCounts`, `SummaryAddsUp`, `BilledOnce`, `NobodyLeftOut` | tiers, rates and cancellations are explained, the mix of plans adds up to the totals, an invoice is income once, a seed that ends well left nobody out: for any tenants, plans, months, PATCHes and runs | `IInv` |
| `QuotesProofs!PagePrice` | a booking has the price of its form, for any number of toggles | `PageFollowsForm` |
| `ConsoleProofs!Invariant`, `PagesAreTyped`, `QuietListsAreCurrent`, `OnlyResendsDuplicate`, `NothingWaitsForNothing`, `OnlyStaleEditorsRevert` | on every page of the console: a quiet list is the server's, only a form sent again is inserted twice, nothing is disabled or loading without a call, a PATCH reverts only what changed under its editor; for any number of browsers, rows, clicks and failures | `IInv` |

*Why the invariants had to be strengthened.* That idle clients are clean says nothing of
a client in use, so it does not survive `Release`. `IndInv` adds, for each await, the
settings the holder's session may have (`SessionMatches`, `Possible`), that each client
is held once (`HeldOnce`), that exactly the calls past `connect()` hold one, and that a
call waits at one place of one queue (`QueuedOnce`). For the cache the invariant on
entries needs its counterpart on what a reader has loaded and not yet stored
(`FillsAreExplained`), and counts a writer that committed as owing its DELs until each
is done (`StaleIsOwed`). For the wizard it needs what each page was told
(`PagesKnow`) and what each call under way rests on (`JobsAreBacked`). For bookings
it needs what each request has behind it at the statement it is at (`Underway`), that a
row someone changed is locked and is the newest version changed (`Locked`), and three
facts in the middle of a transaction: nobody else has put a row where it will put one
(`Inserted`), the row a PATCH selected is the one its entry will replace unless another
request that changes the booking overlaps (`OldKnown`), and the customer a portal
booking matched stays its customer, the address it found free stays free but for
requests that overlap (`CustomerFound`, `AddressFree`). Entries sort by the start of
their transactions, so it also needs that starts differ and that what began later than a
request still under way overlaps it (`Timed`); that a log has a newest entry at all is a
well-founded induction (`NewestIsThere`). For earnings it
needs that the commissions of every quote, and of every booking, follow from the total
alone (`QuotesAreDue`, `BookingsAreDue`), and for the page that its newest request is
what its form says, and that the total does not depend on the commission rows, which
change between quote and booking (`TotalIgnoresCommissions`). For sessions a subdomain
is taken from the INSERT on, before its COMMIT (`Unique`), so that what each tab learnt
by the place it is at (`KnownBy`) and every entry (`EntriesAreFound`) name the tenant
that is found. For billing, what the seed remembers of a subscription is still so
(`Terms`), the numbers it has left are enough for the invoices it has left (`Fits`, by
cardinalities), and a tenant has all of its invoices, none, or those the run under way
has come to (`Complete`). For the console a list that is not the server's has something
on its way that will make it so: a load, a write that a load will follow, or, where
answers are put into the list, the row as the server has it (`CurrentByLoad`,
`CurrentByHand`), and a call that is not late has the filter that is set and, if it was
served, the answer it would get now (`Answers`); every flag has the call it waits for (`Waits`); a browser that sent
nothing again has one new row on its way and asked for it (`Resends`); there is an id
for every row to be inserted (`Room`). Its actions are four shapes of step, `EditorMoves`,
`Sends`, `Serves` and `Hears`, and each part is shown to survive the shapes.

*Sums.* The subtotal of a quote, the earnings of a report and the revenue of a mix are
sums over sets of any size. They are `SumFunction` of the community modules, whose
partial sums are a function on subsets. What would be an induction is an argument by a
smallest counterexample: strict inclusion of the subsets of a finite set is well-founded
(`Smallest`), so if a claim failed for some of them it would fail for one all of whose
parts obey it. `SumsCompare` and `SumsClose` bound the difference of two sums term by
term, `SumOfGroups` adds up in groups. The lemmas are stated in `QuotesProofs` and in
`BillingProofs`, each as far as it needs them.

*Assumptions.* `Bookings`: ids of requests and of seeded rows differ, there are finitely many of
the latter, NULL and "no row" are neither rows nor addresses, the schema's statuses and
the kinds of handler are those of the program. `Console`: ids are numbers, finitely many, as
are browsers; placeholders are neither rows, forms nor calls. `TenantDb`: both pools exist, every client belongs to one, sentinels
differ from tenants and requests. `TenantCache`, `Onboarding`: keys, updates and pages
are among those of the program. `Quotes`: an absent number is not a number, nor an
absent request a request; a rate is a percentage or flat, rates and limits are
nonnegative as `commissions.js` requires; rules and contexts hold numbers where columns and schemas do, and
finitely many rules and tiers; a report covers at most the 200 bookings it selects. `Sessions`: the tenants that are
there first have subdomains of their own, each tab signs up a tenant of its own, entries
and tokens live a while. `Billing`: finitely many tenants, plans and months, the plan `basic` is
there, NULL and "no row" are neither dates nor rows. TLC evaluates each of them.

*Lemmas worth reading.* `RoundedIsNearest`: `round2` is never off by more than half a
cent. `LimitsHold`: a commission's cap always holds, its floor unless the cap is below
it. `VisibleIsDomain`: the policies show a session with a tenant's context that
tenant's rows and no others. `AmountIsClose`: what a rule charges is within half a cent of
its exact price, whatever its kind. `PagesFit`: what the records of `ConsolePages` have in
common, which is all the proofs use of them.

*Only model-checked.* Liveness, since fairness and ENABLED are beyond the prover:
`EveryCallEnds` of `TenantDb`, `EveryRequestIsAnswered` of `Bookings`, `EventuallyFresh`
of `TenantCache`, `RevocationTakesEffect` and `ActiveTenantIsLetIn` of `Sessions`. Every
other property of a passing run is a theorem.

## What is left out

- `POST /auth/refresh`, which no page calls, `POST /auth/admin-login` and the console's
  login page and shell; custom domains at the gateway; `GET /tenants/resolve` answering
  from the gateway's entry (it only reads then).
- Reads that change nothing, apart from those that fill the cache, feed a write or fill
  a list that is modelled: statistics, activity and audit reports, health.
- Tax rates and discount codes as arithmetic: the repository stores them and applies
  neither.
- Uploaded files: the UPDATE and the DELs of a logo are in `TenantCache`, the file is not.
- Columns no property tells apart (notes, staff, times behave like status and price),
  labels, currencies, logging, metrics.
- `shared/middleware/*`: not mounted by any service.
- Pricing rules with a time window: no route sets one.
- The portal's home and confirmation pages, marketing pages, markup, Terraform, Helm, CI.

## Plan

In order of what matters most to the system:

1. **Done.** `TenantStore`, `TenantDb`: isolation on shared connections, everything else
   rests on it. `Bookings`: the program's main data. `TenantCache`: the state that has
   no transaction. `Onboarding`: two services and a browser. `Pricing`, `Quotes`: money
   promised, and the page that shows it. `Sessions`: who is let in. `Billing`: money
   asked for. `Console`: everything the super-admin touches.
2. **Done.** Proofs of all safety and action properties that the runs check.
3. An abstract specification of the cache, one register per fact with a bounded set of
   excuses, implemented by `TenantCache`; one of a session (signed in as a tenant or
   not), implemented by `Sessions`.
4. Token refresh, when a page uses it; the file behind a logo.
