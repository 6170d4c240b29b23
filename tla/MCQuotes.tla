------------------------------ MODULE MCQuotes ------------------------------
(* Quotes on a few services, one for each kind of rule and one without.    *)
EXTENDS Quotes, TLC

\* Half cents go up at even operands and down at odd ones: both happen.
Halves(x, y, d) == (x + y) % 2 = 0

Config == [min_hours |-> None, max_hours |-> None, included_radius_miles |-> None, tiers |-> <<>>]
Rule(type, rate) == [rule_type |-> type, rate |-> rate, config |-> Config]
Service(id, price, mins) == [id |-> id, category_id |-> "plumbing", base_price |-> price, duration_mins |-> mins]

MCServices == {
    [service |-> Service("drain", 14999, 60), rules |-> <<>>],
    [service |-> Service("leak", None, None), rules |-> <<>>],
    [service |-> Service("heater", 20000, 50),
     rules |-> <<[Rule("hourly", 9501) EXCEPT !.config.min_hours = 90, !.config.max_hours = 120],
                 [Rule("distance", 255) EXCEPT !.config.included_radius_miles = 100]>>],
    [service |-> Service("paint", None, 45),
     rules |-> <<Rule("hourly", 7777), Rule("sqft", 35),
                 [Rule("tiered", 1001) EXCEPT !.config.tiers = (10 :> 2505 @@ 20 :> None)]>>],
    [service |-> Service("lawn", 5000, 0), rules |-> <<Rule("flat", 4501), Rule("weekly", 99)>>] }

MCPageServices == {o \in MCServices : o.service.id = "heater"}

Commission(name, scope, target, type, rate, min, max) ==
    [name |-> name, applies_to |-> scope, target_id |-> target, rate_type |-> type,
     rate_value |-> rate, min_amount |-> min, max_amount |-> max]

MCCommissions == {
    Commission("split", "staff", None, "percent", 1234, None, None),
    Commission("perjob", "staff", None, "flat", 2500, None, None),
    Commission("fee", "service", "heater", "percent", 2000, 1900, 1800) }

Ask == [hours |-> None, distance_miles |-> None, included_radius_miles |-> None, sqft |-> None,
        tier_input |-> None, after_hours |-> FALSE, discount_amount |-> None]
MCContexts == {
    Ask,
    [Ask EXCEPT !.after_hours = TRUE],
    [Ask EXCEPT !.hours = 95, !.distance_miles = 123, !.sqft = 181, !.tier_input = 15,
                !.after_hours = TRUE, !.discount_amount = 50005],
    [Ask EXCEPT !.hours = 10, !.distance_miles = 90, !.tier_input = 25, !.discount_amount = 400005] }

Symmetry == Permutations(Jobs)

=============================================================================
