------------------------------ MODULE Pricing -------------------------------
(***************************************************************************)
(* The pricing engine, shared/pricing/engine.js: computeQuote as a pure    *)
(* operator.                                                               *)
(*                                                                         *)
(* The engine computes with doubles and rounds to cents at each step.      *)
(* Prices here are whole cents, discounts tenths of a cent, hours minutes, *)
(* miles tenths of a mile, areas whole square feet, rates of tax and       *)
(* commission hundredths of a percent, and each product is rounded         *)
(* exactly.  A double is wrong by far less than the distance of such a     *)
(* product from a half cent, unless it is a half cent: there the error of  *)
(* the double decides, and HalfUp says how it does.  Labels and the        *)
(* currency are left out.                                                  *)
(***************************************************************************)
EXTENDS Integers, Sequences, Functions

CONSTANTS None,           \* a value that is absent: NULL or undefined
          HalfUp(_, _, _) \* the way x * y / d is rounded from a half cent

\* The whole number nearest to x * y / d: round2, and toFixed(2).
Rounded(x, y, d) ==
    LET q == (x * y) \div d
        r == (x * y) % d
    IN IF 2 * r > d \/ (2 * r = d /\ HalfUp(x, y, d)) THEN q + 1 ELSE q

AtLeast(n, min) == IF n < min THEN min ELSE n
AtMost(n, max)  == IF n > max THEN max ELSE n

\* `x || y' on numbers: zero, NULL and undefined are all false.
Or(x, y) == IF x \in {0, None} THEN y ELSE x

-----------------------------------------------------------------------------

\* Hours as charged, in minutes: a context without hours takes the service's
\* duration, clamp keeps max_hours first and min_hours last.
Minutes(rule, context, service) ==
    LET min   == Or(rule.config.min_hours, 60)
        asked == Or(Or(context.hours, service.duration_mins), min)
    IN AtLeast(IF Or(rule.config.max_hours, None) = None THEN asked
                                        ELSE AtMost(asked, rule.config.max_hours),
               min)

\* Miles outside the included radius, in tenths.
Miles(rule, context) ==
    LET radius == Or(rule.config.included_radius_miles, Or(context.included_radius_miles, 0))
    IN AtLeast(Or(context.distance_miles, 0) - radius, 0)

\* The rate of the highest tier the input reaches, the rule's without one.
TierRate(rule, context) ==
    LET tiers   == rule.config.tiers
        reached == {t \in DOMAIN tiers : t =< Or(context.tier_input, 0)}
    IN IF reached = {} THEN rule.rate
       ELSE LET rate == tiers[CHOOSE t \in reached : \A u \in reached : u =< t]
            IN IF rate = None THEN rule.rate ELSE rate

\* The rules that add a line: the others return null, unknown types always.
Charges(rule, context) ==
    CASE rule.rule_type \in {"flat", "hourly", "tiered"} -> TRUE
      [] rule.rule_type = "distance" -> Miles(rule, context) # 0
      [] rule.rule_type = "sqft"     -> Or(context.sqft, 0) # 0
      [] OTHER -> FALSE

\* The amount of a rule's line.
Amount(rule, context, service) ==
    CASE rule.rule_type = "flat"     -> rule.rate
      [] rule.rule_type = "hourly"   -> Rounded(Minutes(rule, context, service), rule.rate, 60)
      [] rule.rule_type = "distance" -> Rounded(Miles(rule, context), rule.rate, 10)
      [] rule.rule_type = "sqft"     -> context.sqft * rule.rate
      [] rule.rule_type = "tiered"   -> TierRate(rule, context)

\* The lines before surcharge and discount: one for each rule that charges,
\* the base price of a service without rules, none for one without either.
Lines(service, rules, context) ==
    IF rules = <<>> /\ service.base_price # None THEN <<service.base_price>>
    ELSE [i \in {n \in DOMAIN rules : Charges(rules[n], context)} |->
              Amount(rules[i], context, service)]

-----------------------------------------------------------------------------

\* The commissions of a quote: those that are active and about this service.
Concerns(commission, service) ==
    \/ commission.applies_to \in {"platform", "staff"}
    \/ commission.applies_to = "category" /\ commission.target_id = service.category_id
    \/ commission.applies_to = "service" /\ commission.target_id = service.id

\* A commission before its limits, on a total.
Share(commission, total) ==
    IF commission.rate_type = "percent" THEN Rounded(total, commission.rate_value, 10000)
    ELSE commission.rate_value

\* Mutant: the floor last.
LimitedFromBelow(commission, amount) ==
    LET capped == IF commission.max_amount = None THEN amount
                  ELSE AtMost(amount, commission.max_amount)
    IN IF commission.min_amount = None THEN capped
       ELSE AtLeast(capped, commission.min_amount)

\* Its floor first and its cap last: the cap wins over a floor above it.
Limited(commission, amount) ==
    LET floored == IF commission.min_amount = None THEN amount
                   ELSE AtLeast(amount, commission.min_amount)
    IN IF commission.max_amount = None THEN floored
       ELSE AtMost(floored, commission.max_amount)

\* The after-hours line: half of the lines before it.
\* Mutant: the price times 1.5 is added to the price.
SurchargeOnTop(base, context) == IF context.after_hours THEN Rounded(base, 3, 2) ELSE 0
Surcharge(base, context) == IF context.after_hours THEN Rounded(base, 1, 2) ELSE 0

\* The quote, its line items added up by kind.
ComputeQuote(service, rules, commissions, context, taxRate) ==
    LET base      == SumFunction(Lines(service, rules, context))
        surcharge == Surcharge(base, context)
        discount  == AtLeast(Or(context.discount_amount, 0), 0)
        subtotal  == Rounded(10 * (base + surcharge) - discount, 1, 10)
        taxes     == Rounded(subtotal, taxRate, 10000)
        total     == subtotal + taxes
    IN [base |-> base, surcharge |-> surcharge, discount |-> discount,
        subtotal |-> subtotal, taxes |-> taxes, total |-> total,
        commissions |-> [c \in {d \in commissions : Concerns(d, service)} |->
                             Limited(c, Share(c, total))]]

=============================================================================
