----------------------------- MODULE MCTenantDb -----------------------------
(***************************************************************************)
(* TLC's instance of TenantDb: model values from the configuration, and    *)
(* the pools the configuration asks for.                                   *)
(***************************************************************************)
EXTENDS TenantDb, TLC

CONSTANTS c1, c2

\* DATABASE_READ_URL set: a client in each pool.
TwoPools == {"pool", "readPool"}
OneInEach == (c1 :> "pool") @@ (c2 :> "readPool")
=============================================================================
