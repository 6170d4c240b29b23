------------------------------ MODULE MCSessions ------------------------------
(***************************************************************************)
(* TLC's instance of Sessions: a tenant, and two signups that want one     *)
(* other subdomain; two tabs; a token that outlives a cache entry.         *)
(***************************************************************************)
EXTENDS Sessions

MCSlug == [t \in Tenants |-> IF t = "acme" THEN "acme" ELSE "new"]
MCWanted == [i \in Tabs |-> IF i = 1 THEN "new1" ELSE "new2"]
=============================================================================
