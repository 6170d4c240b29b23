------------------------------- MODULE Billing -------------------------------
(***************************************************************************)
(* What tenants pay: the tables subscriptions, invoices and                *)
(* subscription_plans, tenants.plan_tier beside them, and everything in    *)
(* the repository that writes or adds them up: signup, the super-admin     *)
(* endpoints, the revenue summary and the seed that creates subscriptions  *)
(* and invoices.                                                           *)
(*                                                                         *)
(* Each endpoint is one statement, except the summary, whose five SELECTs  *)
(* each see the database as it is by then (READ COMMITTED), and the seed,  *)
(* which runs outside any transaction.                                     *)
(*                                                                         *)
(* Time passes in halves of a month of 30 days.                            *)
(***************************************************************************)
EXTENDS Integers, FiniteSetsExt, Functions

CONSTANTS Tenants,     \* tenants that are signed up, or may be
          FirstTier,   \* the plan_tier of those signed up at first, NoRow for others
          Plans,       \* names of subscription_plans, "basic" among them
          Prices,      \* their prices, in cents
          FirstPrice,  \* what they cost at first
          Statuses,    \* the subscription statuses PATCH is sent
          InvoiceStatuses,   \* and those of invoices
          Ages,        \* months back the seed makes an invoice for, 0..n
          MaxNow,      \* bound: how long the clock runs
          MaxWrites,   \* bound: signups and PATCHes
          MaxRuns,     \* bound: runs of the seed
          NoRow,       \* no such row
          NoTime       \* NULL

ASSUME BillingAssumption ==
    /\ IsFiniteSet(Tenants) /\ NoRow \notin Tenants
    /\ FirstTier \in [Tenants -> Plans \cup {NoRow}] /\ IsFiniteSet(Plans) /\ "basic" \in Plans
    /\ Prices \subseteq Nat /\ FirstPrice \in [Plans -> Prices]
    /\ IsFiniteSet(Ages) /\ Ages # {} /\ Ages = 0..(Cardinality(Ages) - 1)
    /\ {"sent", "paid"} \subseteq InvoiceStatuses
    /\ MaxNow \in Nat /\ MaxWrites \in Nat /\ MaxRuns \in Nat

VARIABLES now,         \* the clock
          tier,        \* tenants.plan_tier; NoRow before signup
          active,      \* tenants.is_active
          price,       \* subscription_plans.price_monthly
          subs,        \* subscriptions, by their unique tenant_id
          invoices,    \* invoices, by their unique invoice_number
          seed,        \* the seed: its program counter and locals
          report,      \* the summary being put together
          writes, runs,
          torn,        \* history: a subscription was written under the report
          repicked,    \* history: tenants whose plan_tier was PATCHed
          reopened,    \* history: subscriptions given another status after a cancellation
          repaid,      \* history: invoices whose paid_at was overwritten
          cut,         \* history: tenants whose invoices a run left unfinished
          counted      \* history: when each invoice was first reported as billed

vars == <<now, tier, active, price, subs, invoices, seed, report, writes, runs,
          torn, repicked, reopened, repaid, cut, counted>>

Month == 2
Numbers == 1..(Cardinality(Tenants) * Cardinality(Ages))
Tiers == Plans \cup {"other"}
Live == {"active", "trialing"}
Times == (-Month * Cardinality(Ages) - Month)..MaxNow
Subscription == [plan : Plans, status : {"active"} \cup Statuses, mrr : Prices, canceled : Times \cup {NoTime}]
Invoice == [tenant : Tenants, status : InvoiceStatuses, total : Prices,
            issued : Times, paid : Times \cup {NoTime}]

ASSUME NullAssumption == NoRow \notin Subscription \cup Invoice \cup Tiers /\ NoTime \notin Times

Exists(t) == tier[t] # NoRow
Issued(t) == {n \in Numbers : invoices[n] # NoRow /\ invoices[n].tenant = t}

\* The seed between two runs: nothing is remembered but how the last one ended.
Rest(end) ==
    [at |-> end, todo |-> {}, tiers |-> [t \in Tenants |-> NoRow], prices |-> [p \in Plans |-> NoRow],
     subs |-> [t \in Tenants |-> NoRow], tenant |-> NoRow, ages |-> {}, counter |-> 0]
NoReport == [at |-> 0, n |-> 0, mrr |-> 0]

Init ==
    /\ now = 0
    /\ tier = FirstTier
    /\ active = [t \in Tenants |-> TRUE]
    /\ price = FirstPrice
    /\ subs = [t \in Tenants |-> NoRow]
    /\ invoices = [n \in Numbers |-> NoRow]
    /\ seed = Rest("idle")
    /\ report = NoReport
    /\ writes = 0 /\ runs = 0
    /\ torn = FALSE
    /\ repicked = {} /\ reopened = {} /\ repaid = {} /\ cut = {}
    /\ counted = [n \in Numbers |-> NoRow]

-----------------------------------------------------------------------------
(* The endpoints. *)

Write == writes < MaxWrites /\ writes' = writes + 1

\* POST /tenants/signup: a tenant and its tier, no subscription.
Signup(t) ==
    /\ Write /\ ~Exists(t)
    /\ \E p \in Plans : tier' = [tier EXCEPT ![t] = p]
    /\ UNCHANGED <<now, active, price, subs, invoices, seed, report, runs, torn, repicked, reopened, repaid, cut, counted>>

\* PATCH /tenants/:id takes any string for plan_tier, and leaves the
\* subscription alone.
PatchTier(t) ==
    /\ Write /\ Exists(t)
    /\ \E p \in Tiers : tier' = [tier EXCEPT ![t] = p]
    /\ repicked' = repicked \cup {t}
    /\ UNCHANGED <<now, active, price, subs, invoices, seed, report, runs, torn, reopened, repaid, cut, counted>>

PatchActive(t) ==
    /\ Write /\ Exists(t)
    /\ active' = [active EXCEPT ![t] = ~@]
    /\ UNCHANGED <<now, tier, price, subs, invoices, seed, report, runs, torn, repicked, reopened, repaid, cut, counted>>

\* Mutant: the plan's subscriptions are moved to the new price.
PatchPriceOfAll(p) ==
    /\ Write
    /\ \E c \in Prices : /\ price' = [price EXCEPT ![p] = c]
                         /\ subs' = [t \in Tenants |-> IF subs[t] # NoRow /\ subs[t].plan = p
                                                       THEN [subs[t] EXCEPT !.mrr = c] ELSE subs[t]]
    /\ torn' = (torn \/ report.at = 1)
    /\ UNCHANGED <<now, tier, active, invoices, seed, report, runs, repicked, reopened, repaid, cut, counted>>

\* PATCH /plans/:id
PatchPrice(p) ==
    /\ Write
    /\ \E c \in Prices : price' = [price EXCEPT ![p] = c]
    /\ UNCHANGED <<now, tier, active, subs, invoices, seed, report, runs, torn, repicked, reopened, repaid, cut, counted>>

\* Mutant: canceled_at = NOW() with every status.
CanceledAtAlways(old, status) == now
CanceledAt(old, status) == IF status = "canceled" THEN now ELSE old

\* PATCH /subscriptions/:id: any status after any other; canceled_at is set
\* by a cancellation and never cleared.
PatchSubscription(t) ==
    /\ Write /\ subs[t] # NoRow
    /\ \E s \in Statuses :
          /\ subs' = [subs EXCEPT ![t].status = s, ![t].canceled = CanceledAt(@, s)]
          /\ reopened' = IF subs[t].status = "canceled" /\ s # "canceled" THEN reopened \cup {t} ELSE reopened
    /\ torn' = (torn \/ report.at = 1)
    /\ UNCHANGED <<now, tier, active, price, invoices, seed, report, runs, repicked, repaid, cut, counted>>

\* PATCH /invoices/:id: paid_at is when it was last marked paid.
PatchInvoice(n) ==
    /\ Write /\ invoices[n] # NoRow
    /\ \E s \in InvoiceStatuses :
          /\ invoices' = [invoices EXCEPT ![n].status = s, ![n].paid = IF s = "paid" THEN now ELSE @]
          /\ repaid' = IF s = "paid" /\ invoices[n].paid # NoTime THEN repaid \cup {n} ELSE repaid
    /\ UNCHANGED <<now, tier, active, price, subs, seed, report, runs, torn, repicked, reopened, cut, counted>>

-----------------------------------------------------------------------------
(* GET /revenue/summary, a statement at a time. *)

\* Mutant: the mix leaves the trials out.
InMixPaying(t, p) == subs[t] # NoRow /\ subs[t].status = "active" /\ subs[t].plan = p
InMix(t, p) == subs[t] # NoRow /\ subs[t].status \in Live /\ subs[t].plan = p

Earning == {t \in Tenants : subs[t] # NoRow /\ subs[t].status \in Live}
Mrr == [t \in Tenants |-> IF subs[t] = NoRow THEN 0 ELSE subs[t].mrr]
SumOfMrr(ts) == SumFunctionOnSet(Mrr, ts)

ReportMrr ==
    /\ report.at = 0
    /\ report' = [at |-> 1, n |-> Cardinality(Earning), mrr |-> SumOfMrr(Earning)]
    /\ UNCHANGED <<now, tier, active, price, subs, invoices, seed, writes, runs, torn, repicked, reopened, repaid, cut, counted>>

\* The subscriptions of a plan, and what they earn.
Mix(p) == LET ts == {t \in Tenants : InMix(t, p)} IN <<Cardinality(ts), SumOfMrr(ts)>>

\* Nothing is compared with the totals any more once the mix is read.
ReportMix ==
    /\ report.at = 1
    /\ report' = [NoReport EXCEPT !.at = 2]
    /\ torn' = FALSE
    /\ UNCHANGED <<now, tier, active, price, subs, invoices, seed, writes, runs, repicked, reopened, repaid, cut, counted>>

\* Mutant: the 30 days are forgotten.
BilledEver(n) == invoices[n] # NoRow /\ invoices[n].status = "paid"

\* status = 'paid' AND paid_at >= NOW() - INTERVAL '30 days'
Billed(n) ==
    /\ invoices[n] # NoRow /\ invoices[n].status = "paid"
    /\ invoices[n].paid # NoTime /\ invoices[n].paid >= now - Month

ReportBilled ==
    /\ report.at = 2
    /\ report' = NoReport
    /\ counted' = [n \in Numbers |-> IF Billed(n) /\ counted[n] = NoRow THEN now ELSE counted[n]]
    /\ UNCHANGED <<now, tier, active, price, subs, invoices, seed, writes, runs, torn, repicked, reopened, repaid, cut>>

-----------------------------------------------------------------------------
(* The seed 004_revenue_billing. *)

\* A run starts, the first or another; it reads the plans and the active
\* tenants.
SeedStart ==
    /\ runs < MaxRuns /\ seed.at \in {"idle", "done", "failed"}
    /\ seed' = [Rest("subs") EXCEPT !.todo = {t \in Tenants : Exists(t) /\ active[t]},
                                    !.tiers = tier, !.prices = price]
    /\ runs' = runs + 1
    /\ UNCHANGED <<now, tier, active, price, subs, invoices, report, writes, torn, repicked, reopened, repaid, cut, counted>>

\* planByName[t.plan_tier] || planByName.basic
PlanOf(t) == IF seed.tiers[t] \in Plans THEN seed.tiers[t] ELSE "basic"

SeedSubscription(t) ==
    /\ seed.at = "subs" /\ t \in seed.todo
    /\ seed' = [seed EXCEPT !.todo = @ \ {t}]
    /\ IF subs[t] # NoRow THEN UNCHANGED <<subs, torn>>
       ELSE /\ subs' = [subs EXCEPT ![t] = [plan |-> PlanOf(t), status |-> "active",
                                            mrr |-> seed.prices[PlanOf(t)], canceled |-> NoTime]]
            /\ torn' = (torn \/ report.at = 1)
    /\ UNCHANGED <<now, tier, active, price, invoices, report, writes, runs, repicked, reopened, repaid, cut, counted>>

\* The subscriptions are read once, the numbering starts over.
SeedReadSubs ==
    /\ seed.at = "subs" /\ seed.todo = {}
    /\ seed' = [Rest("invoices") EXCEPT !.subs = subs, !.todo = {t \in Tenants : subs[t] # NoRow}]
    /\ UNCHANGED <<now, tier, active, price, subs, invoices, report, writes, runs, torn, repicked, reopened, repaid, cut, counted>>

\* Mutant: the loop ends at the first tenant that has invoices.
SeedTenantOrStop(t) ==
    /\ seed.at = "invoices" /\ seed.tenant = NoRow /\ t \in seed.todo
    /\ seed' = IF Issued(t) # {} THEN [seed EXCEPT !.todo = {}]
               ELSE [seed EXCEPT !.todo = @ \ {t}, !.tenant = t, !.ages = Ages]
    /\ UNCHANGED <<now, tier, active, price, subs, invoices, report, writes, runs, torn, repicked, reopened, repaid, cut, counted>>

\* A tenant that has invoices is passed over.
SeedTenant(t) ==
    /\ seed.at = "invoices" /\ seed.tenant = NoRow /\ t \in seed.todo
    /\ seed' = IF Issued(t) # {} THEN [seed EXCEPT !.todo = @ \ {t}]
               ELSE [seed EXCEPT !.todo = @ \ {t}, !.tenant = t, !.ages = Ages]
    /\ UNCHANGED <<now, tier, active, price, subs, invoices, report, writes, runs, torn, repicked, reopened, repaid, cut, counted>>

\* for (monthsAgo = 2; monthsAgo >= 0; monthsAgo -= 1)
Leave(t, age) == IF age = 0 THEN NoRow ELSE t

\* The first of the month; the invoice is due, and paid, 14 days on.
IssuedAt(age) == now - (now % Month) - Month * age

\* The oldest invoice first; all but this month's are paid.  A number that is
\* taken throws, and ends the run.
SeedInvoice ==
    /\ seed.at = "invoices" /\ seed.tenant # NoRow
    /\ LET age == Max(seed.ages)
           n   == seed.counter + 1
           t   == seed.tenant IN
       IF invoices[n] # NoRow
       THEN /\ seed' = Rest("failed")
            /\ cut' = cut \cup {t}
            /\ UNCHANGED invoices
       ELSE /\ invoices' = [invoices EXCEPT ![n] =
                  [tenant |-> t, status |-> IF age > 0 THEN "paid" ELSE "sent",
                   total |-> seed.subs[t].mrr, issued |-> IssuedAt(age),
                   paid |-> IF age > 0 THEN IssuedAt(age) + 1 ELSE NoTime]]
            /\ seed' = [seed EXCEPT !.counter = n, !.ages = @ \ {age},
                                    !.tenant = Leave(t, age)]
            /\ UNCHANGED cut
    /\ UNCHANGED <<now, tier, active, price, subs, report, writes, runs, torn, repicked, reopened, repaid, counted>>

SeedDone ==
    /\ seed.at = "invoices" /\ seed.tenant = NoRow /\ seed.todo = {}
    /\ seed' = Rest("done")
    /\ UNCHANGED <<now, tier, active, price, subs, invoices, report, writes, runs, torn, repicked, reopened, repaid, cut, counted>>

\* The process is killed; what it inserted stays.
SeedKilled ==
    /\ seed.at \in {"subs", "invoices"}
    /\ seed' = Rest("idle")
    /\ cut' = IF seed.tenant = NoRow THEN cut ELSE cut \cup {seed.tenant}
    /\ UNCHANGED <<now, tier, active, price, subs, invoices, report, writes, runs, torn, repicked, reopened, repaid, counted>>

-----------------------------------------------------------------------------
Tick ==
    /\ now < MaxNow /\ now' = now + 1
    /\ UNCHANGED <<tier, active, price, subs, invoices, seed, report, writes, runs, torn, repicked, reopened, repaid, cut, counted>>

Next ==
    \/ \E t \in Tenants : \/ Signup(t) \/ PatchTier(t) \/ PatchActive(t) \/ PatchSubscription(t)
                          \/ SeedSubscription(t) \/ SeedTenant(t)
    \/ \E p \in Plans : PatchPrice(p)
    \/ \E n \in Numbers : PatchInvoice(n)
    \/ ReportMrr \/ ReportMix \/ ReportBilled
    \/ SeedStart \/ SeedReadSubs \/ SeedInvoice \/ SeedDone \/ SeedKilled
    \/ Tick

Spec == Init /\ [][Next]_vars

-----------------------------------------------------------------------------
(* Properties. *)

\* Types of the variables.
TypeOK ==
    /\ now \in 0..MaxNow
    /\ tier \in [Tenants -> Tiers \cup {NoRow}]
    /\ active \in [Tenants -> BOOLEAN]
    /\ price \in [Plans -> Prices]
    /\ \A t \in Tenants : subs[t] = NoRow \/ subs[t] \in Subscription
    /\ \A n \in Numbers : invoices[n] = NoRow \/ invoices[n] \in Invoice
    /\ seed.at \in {"idle", "subs", "invoices", "done", "failed"}
    /\ seed.todo \subseteq Tenants /\ seed.ages \subseteq Ages /\ seed.counter \in {0} \cup Numbers
    /\ seed.tenant # NoRow => seed.ages # {}
    /\ report.at \in 0..2
    /\ writes \in 0..MaxWrites /\ runs \in 0..MaxRuns
    /\ torn \in BOOLEAN
    /\ repicked \subseteq Tenants /\ reopened \subseteq Tenants /\ cut \subseteq Tenants
    /\ repaid \subseteq Numbers
    /\ \A n \in Numbers : counted[n] = NoRow \/ counted[n] \in 0..MaxNow

\* The revenue page adds up: the plans of the mix have the subscriptions and
\* the cents of the line above them, unless a subscription was written
\* between the two statements.
SummaryIsConsistent ==
    [][report.at = 1 /\ report'.at = 2 /\ ~torn =>
          /\ report.n = SumFunction([p \in Plans |-> Mix(p)[1]])
          /\ report.mrr = SumFunction([p \in Plans |-> Mix(p)[2]])]_vars

\* The copies agree.  tenants.plan_tier is the plan of the subscription, unless
\* an operator PATCHed it (which moves no subscription); and an invoice charges
\* the rate of its tenant's subscription: a new price of the plan reaches
\* neither ("existing subscriptions keep their original rate",
\* admin/plans/page.js).
TermsAreKept ==
    /\ \A t \in Tenants : subs[t] # NoRow /\ t \notin repicked => tier[t] = subs[t].plan
    /\ \A n \in Numbers : invoices[n] # NoRow => invoices[n].total = subs[invoices[n].tenant].mrr

\* A canceled subscription has a date for the churn to count, and one that
\* earns has none unless it was canceled and given another status (it then
\* counts as active and as canceled).
ChurnIsExplained ==
    \A t \in Tenants : subs[t] # NoRow =>
        /\ subs[t].status = "canceled" => subs[t].canceled # NoTime
        /\ subs[t].canceled # NoTime => subs[t].status = "canceled" \/ t \in reopened

\* Reports more than 30 days apart count an invoice as billed in both only if
\* it was marked paid again: its money is not income of two months.
MoneyIsBilledOnce ==
    [][report.at = 2 /\ report'.at = 0 =>
          \A n \in Numbers : counted[n] # NoRow /\ Billed(n) => now - counted[n] <= Month \/ n \in repaid]_vars

\* A run of the seed that ends well leaves every subscription it saw with all
\* of its invoices, but for a tenant in whose invoices an earlier run ended.
SeedLeavesNobodyOut ==
    [][seed.at = "invoices" /\ seed'.at = "done" =>
          \A t \in Tenants : seed.subs[t] # NoRow =>
              Cardinality(Issued(t)) = Cardinality(Ages) \/ t \in cut]_vars

\* The seed can be run again ("Idempotent.", 004_revenue_billing.js): no run
\* of it throws.
SeedIsIdempotent == seed.at # "failed"
=============================================================================
