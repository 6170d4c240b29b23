------------------------------- MODULE Quotes -------------------------------
(***************************************************************************)
(* The prices one tenant promises and the earnings it reports: the quote   *)
(* endpoints of booking-service and of the portal, the portal's booking    *)
(* page, which asks for a new quote whenever its form changes, the         *)
(* commission rows they apply, the bookings made at quoted prices, and the *)
(* two reports of tenant-service that compute a staff member's earnings    *)
(* from them again.                                                        *)
(*                                                                         *)
(* A booking keeps the price only.  What the quote said of commissions is  *)
(* nowhere stored, so the reports apply the row that is active now.        *)
(***************************************************************************)
EXTENDS Pricing, FiniteSets

CONSTANTS Services,     \* the services a run quotes, with their rules
          Commissions,  \* the commission rows that may be inserted
          Contexts,     \* the contexts of quote requests
          TaxRates,     \* their options.tax_rate
          PageServices, \* the services whose booking page may be opened
          Jobs          \* the bookings of a behaviour

\* What services, their rules and contexts hold: numbers where the columns and
\* the schemas have them, or nothing.  A rule without a rate has the rate 0.
IsOffer(offer) ==
    /\ {offer.service.base_price, offer.service.duration_mins} \subseteq Int \cup {None}
    /\ IsFiniteSet(DOMAIN offer.rules)
    /\ \A i \in DOMAIN offer.rules :
           LET rule  == offer.rules[i]
               tiers == rule.config.tiers
           IN /\ rule.rate \in Int
              /\ {rule.config.min_hours, rule.config.max_hours, rule.config.included_radius_miles}
                     \subseteq Int \cup {None}
              /\ IsFiniteSet(DOMAIN tiers)
              /\ \A t \in DOMAIN tiers : t \in Int /\ tiers[t] \in Int \cup {None}

IsContext(context) ==
    /\ {context.hours, context.distance_miles, context.included_radius_miles, context.sqft,
        context.tier_input, context.discount_amount} \subseteq Int \cup {None}
    /\ context.after_hours \in BOOLEAN

ASSUME QuotesAssumption ==
    /\ None \notin Int
    /\ PageServices \subseteq Services
    /\ \A c \in Commissions : /\ c.rate_type \in {"percent", "flat"}
                              /\ c.rate_value \in Nat
                              /\ {c.min_amount, c.max_amount} \subseteq Nat \cup {None}

ASSUME RequestsAssumption ==
    /\ \A offer \in Services : IsOffer(offer)
    /\ \A context \in Contexts : IsContext(context)
    /\ TaxRates \subseteq Int

\* The earnings report selects 200 bookings at most.
ASSUME JobsAssumption == IsFiniteSet(Jobs) /\ Cardinality(Jobs) =< 200

VARIABLES rows,      \* the state of each row of commission_structures
          asked,     \* the request behind the quote a client looks at
          quote,     \* its answer
          form,      \* what the open booking page asks now, None without one
          calls,     \* its requests without an answer, the newest and one older
          crossed,   \* history: an older answer came after the newest
          bookings   \* a staff member's completed bookings, None before

page == <<form, calls, crossed>>
vars == <<rows, asked, quote, page, bookings>>

\* The rows the queries of the two endpoints select.
Active == {c \in Commissions : rows[c] = "active"}
OfStaff(S) == {c \in S : c.applies_to = "staff"}

Requests == [offer : Services, context : Contexts, tax_rate : TaxRates]

\* The page's request: the checkbox is all the context it has.
PageRequest(offer, afterHours) ==
    [offer    |-> offer,
     context  |-> [hours |-> None, distance_miles |-> None, included_radius_miles |-> None, sqft |-> None,
                   tier_input |-> None, after_hours |-> afterHours, discount_amount |-> None],
     tax_rate |-> 0]
PageRequests == {PageRequest(offer, afterHours) : offer \in PageServices, afterHours \in BOOLEAN}

\* The answer while the commissions of S are active.
Answer(r, S) == ComputeQuote(r.offer.service, r.offer.rules, S, r.context, r.tax_rate)
QuoteOf(r) == Answer(r, Active)

\* A request is something, and so is an answer.
ASSUME NothingAssumption ==
    \A r \in Requests \cup PageRequests, S \in SUBSET Commissions : None \notin {r, Answer(r, S)}

NoCalls == [slot \in {"older", "newest"} |-> None]

Init ==
    /\ rows = [c \in Commissions |-> "absent"]
    /\ asked = None
    /\ quote = None
    /\ form = None
    /\ calls = NoCalls
    /\ crossed = FALSE
    /\ bookings = [j \in Jobs |-> None]

\* POST / and /bulk: the valid rows of the body, in one transaction.
AddCommissions ==
    \E added \in SUBSET {c \in Commissions : rows[c] = "absent"} :
        /\ added # {}
        /\ rows' = [c \in Commissions |-> IF c \in added THEN "active" ELSE rows[c]]
        /\ UNCHANGED <<asked, quote, page, bookings>>

\* DELETE /:id, a soft delete that finds inactive rows as well.
RemoveCommission ==
    \E c \in Commissions :
        /\ rows[c] # "absent"
        /\ rows' = [rows EXCEPT ![c] = "inactive"]
        /\ UNCHANGED <<asked, quote, page, bookings>>

\* POST /quotes/compute, and POST /tenants/:slug/quote by other clients than
\* the page.  A client that will book nothing is left out: no quote depends
\* on a booking.
Compute ==
    /\ form = None
    /\ \E j \in Jobs : bookings[j] = None
    /\ \E r \in Requests :
           /\ asked' = r
           /\ quote' = QuoteOf(r)
           /\ UNCHANGED <<rows, page, bookings>>

\* The booking page of a service is opened: its effect asks for the first quote.
OpenPage ==
    /\ form = None
    /\ \E j \in Jobs : bookings[j] = None
    /\ \E offer \in PageServices :
           /\ form' = PageRequest(offer, FALSE)
           /\ calls' = [NoCalls EXCEPT !["newest"] = PageRequest(offer, FALSE)]
    /\ asked' = None
    /\ quote' = None
    /\ crossed' = FALSE
    /\ UNCHANGED <<rows, bookings>>

\* The checkbox: the effect runs again, the earlier request is not
\* withdrawn.  Bound: two requests under way.
\* Mutant: the effect does not depend on the checkbox.
ToggleSilently ==
    /\ form # None
    /\ form' = PageRequest(form.offer, ~form.context.after_hours)
    /\ UNCHANGED <<rows, asked, quote, calls, crossed, bookings>>
Toggle ==
    /\ form # None
    /\ \E slot \in DOMAIN calls : calls[slot] = None
    /\ form' = PageRequest(form.offer, ~form.context.after_hours)
    /\ calls' = [older  |-> IF calls["newest"] = None THEN calls["older"] ELSE calls["newest"],
                 newest |-> form']
    /\ crossed' = FALSE
    /\ UNCHANGED <<rows, asked, quote, bookings>>

\* An answer arrives, in any order: the page shows it whichever request it is
\* for, and no quote after an error.  It is computed here: until a quote is
\* used only commission rows can change, and it may be looked at for as long.
Hear ==
    \E slot \in DOMAIN calls :
        /\ calls[slot] # None
        /\ \/ /\ asked' = calls[slot]
              /\ quote' = QuoteOf(calls[slot])
           \/ /\ asked' = None
              /\ quote' = None
        /\ calls' = [calls EXCEPT ![slot] = None]
        /\ crossed' = (crossed \/ (slot = "older" /\ calls["newest"] = None))
        /\ UNCHANGED <<rows, form, bookings>>

\* What the quote says of commissions for staff.
Promises == IF quote = None THEN [c \in {} |-> 0]
            ELSE [c \in OfStaff(DOMAIN quote.commissions) |-> quote.commissions[c]]

\* After a booking the client goes to the confirmation.
LeavePage ==
    /\ asked' = None
    /\ quote' = None
    /\ form' = None
    /\ calls' = NoCalls
    /\ crossed' = FALSE

\* POST /tenants/:slug/bookings with the quoted total, or without a quote:
\* bookingSchema refuses a negative price, and the page that showed the quote
\* is left: answers that come later are not shown.  The page submits whatever
\* it shows, with requests under way as well.  `promised' is history.
\* Mutant: the page sends the price before taxes.
BookSubtotal ==
    \E j \in Jobs :
        /\ bookings[j] = None
        /\ quote # None
        /\ quote.subtotal \in Nat
        /\ bookings' = [bookings EXCEPT ![j] = [price |-> quote.subtotal, promised |-> Promises]]
        /\ LeavePage
        /\ UNCHANGED rows
\* Mutant: a negative price is accepted.
BookUnchecked ==
    \E j \in Jobs :
        /\ bookings[j] = None
        /\ bookings' = [bookings EXCEPT ![j] =
               [price |-> IF quote = None THEN None ELSE quote.total, promised |-> Promises]]
        /\ LeavePage
        /\ UNCHANGED rows
Book ==
    \E j \in Jobs :
        /\ bookings[j] = None
        /\ quote # None => quote.total \in Nat
        /\ bookings' = [bookings EXCEPT ![j] =
               [price |-> IF quote = None THEN None ELSE quote.total, promised |-> Promises]]
        /\ LeavePage
        /\ UNCHANGED rows

Next == AddCommissions \/ RemoveCommission \/ Compute \/ OpenPage \/ Toggle \/ Hear \/ Book

Spec == Init /\ [][Next]_vars

-----------------------------------------------------------------------------
\* The reports, under the staff row they happened to select.

Completed == {j \in Jobs : bookings[j] # None}
Price(j) == Or(bookings[j].price, 0)
Revenue == SumFunction([j \in Completed |-> Price(j)])

\* GET .../earnings: a booking's share, without the row's limits.
Earned(row, price) ==
    IF row.rate_type = "percent" THEN Rounded(price, row.rate_value, 10000)
    ELSE row.rate_value

TotalEarned(row) == SumFunction([j \in Completed |-> Earned(row, Price(j))])

\* GET .../users/:userId: the share of the revenue, a flat rate per job.
\* Mutant: the flat rate once for all jobs.
EstimateFlatOnce(row) ==
    IF row.rate_type = "percent" THEN Rounded(Revenue, row.rate_value, 10000)
    ELSE IF Revenue > 0 THEN row.rate_value ELSE 0
Estimate(row) ==
    IF row.rate_type = "percent" THEN Rounded(Revenue, row.rate_value, 10000)
    ELSE IF Revenue > 0 THEN Cardinality(Completed) * row.rate_value ELSE 0

-----------------------------------------------------------------------------
\* Properties.

\* An amount for each of some commissions.
IsAmounts(f, S) == DOMAIN f \subseteq S /\ f \in [DOMAIN f -> Int]

\* Rows, requests and quotes have their shape, amounts are whole cents.
TypeOK ==
    /\ rows \in [Commissions -> {"absent", "active", "inactive"}]
    /\ asked \in Requests \cup PageRequests \cup {None}
    /\ form \in PageRequests \cup {None}
    /\ calls \in [{"older", "newest"} -> PageRequests \cup {None}]
    /\ crossed \in BOOLEAN
    /\ (quote = None) = (asked = None)
    /\ quote # None =>
           /\ {quote.base, quote.surcharge, quote.subtotal, quote.taxes, quote.total} \subseteq Int
           /\ IsAmounts(quote.commissions, Commissions)
    /\ DOMAIN bookings = Jobs
    /\ \A j \in Completed :
           /\ bookings[j].price \in Nat \cup {None}
           /\ IsAmounts(bookings[j].promised, OfStaff(Commissions))

\* The price without any rounding, in 1/120 of a cent: the lines, half of
\* them again after hours, less the discount.
ExactAmount(rule, context, service) ==
    CASE rule.rule_type = "flat"      -> 60 * rule.rate
      [] rule.rule_type = "hourly"    -> Minutes(rule, context, service) * rule.rate
      [] rule.rule_type = "distance"  -> 6 * Miles(rule, context) * rule.rate
      [] rule.rule_type = "sqft"      -> 60 * context.sqft * rule.rate
      [] rule.rule_type = "tiered"    -> 60 * TierRate(rule, context)
ExactPrice(service, rules, context) ==
    LET charging == {i \in DOMAIN rules : Charges(rules[i], context)}
        base     == IF rules = <<>> THEN 60 * Or(service.base_price, 0)
                    ELSE SumFunction([i \in charging |-> ExactAmount(rules[i], context, service)])
    IN (IF context.after_hours THEN 3 ELSE 2) * base - 12 * AtLeast(Or(context.discount_amount, 0), 0)

\* Rounding each line, the surcharge and the subtotal (engine.js:46, 60)
\* moves the price by at most three quarters of a cent for each line and one
\* cent in all besides.
SubtotalIsClose ==
    quote # None =>
        LET offer == asked.offer
            error == 120 * quote.subtotal - ExactPrice(offer.service, offer.rules, asked.context)
            bound == 90 * Cardinality(DOMAIN offer.rules) + 120
        IN -bound =< error /\ error =< bound

\* No commission of a quote is above its cap, or below its floor unless its
\* cap is (engine.js:78-79), whatever is active and however negative the
\* total: the limits are applied in the order that keeps this.
CommissionsWithinLimits ==
    quote # None =>
        \A c \in DOMAIN quote.commissions :
            /\ c.max_amount # None => quote.commissions[c] =< c.max_amount
            /\ c.min_amount # None =>
                   \/ quote.commissions[c] >= c.min_amount
                   \/ c.max_amount # None /\ c.max_amount < c.min_amount

\* While the tenant keeps one and the same staff row, without limits, the
\* report of a booking's earnings (admin-tenant-detail.js:463-472) is what
\* the quote it was booked at said (engine.js:65-87), to the cent: the two
\* computations agree although only the price connects them.
EarnedAsQuoted ==
    \A j \in Completed : \A row \in OfStaff(Active) :
        LET promised == bookings[j].promised
        IN /\ {row} = OfStaff(Active)
           /\ {row} = DOMAIN promised
           /\ {row.min_amount, row.max_amount} = {None}
           => Earned(row, Price(j)) = promised[row]

\* The two reports under the same row differ by half a cent for each booking
\* and half a cent more, unless a flat rate is paid on jobs that brought in
\* nothing: admin-tenant-detail.js:403 rounds once, :471 each time.  The one
\* selects 200 bookings at most, the other all of them: Jobs is smaller.
ReportsAgree ==
    \A row \in OfStaff(Active) :
        LET difference == 2 * (Estimate(row) - TotalEarned(row))
            bound == Cardinality(Completed) + 1
        IN \/ -bound =< difference /\ difference =< bound
           \/ row.rate_type = "flat" /\ Revenue = 0

\* A booking made on the page carries the price of the options its form says
\* (page.js:36-38, 59), provided the page has heard the answer to its last
\* request and none to an earlier one after it: nothing else can put the
\* price of a normal appointment on one after hours.
PriceOfTheForm ==
    [][\A j \in Jobs :
           /\ bookings[j] = None /\ bookings'[j] # None
           /\ form # None
           /\ calls["newest"] = None
           /\ ~crossed
           => bookings'[j].price \in {None, QuoteOf(form).total}]_vars

=============================================================================
