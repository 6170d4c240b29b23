---------------------------- MODULE MCTenantCache ----------------------------
(***************************************************************************)
(* TLC's instances of TenantCache: the constants are given in the .cfg     *)
(* files, an entry of the primary beside one whose loader reads the        *)
(* replica.                                                                *)
(***************************************************************************)
EXTENDS TenantCache

\* Each update is made once (MaxVersion = 1), one of w2's beside w1's.
MCKinds == [w \in Writers |-> IF w = "w1" THEN {"theme"} ELSE {"admin", "service"}]
ThemeKinds == [w \in Writers |-> {"theme"}]
=============================================================================
