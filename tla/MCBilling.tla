------------------------------ MODULE MCBilling ------------------------------
(***************************************************************************)
(* TLC's instance of Billing: one tenant there from the start and one that *)
(* signs up, two plans, two months of invoices.                            *)
(***************************************************************************)
EXTENDS Billing

MCAges == 0..1
MCFirstTier == [t \in Tenants |-> IF t = "t1" THEN "pro" ELSE NoRow]
MCFirstPrice == [p \in Plans |-> IF p = "basic" THEN 1 ELSE 2]
=============================================================================
