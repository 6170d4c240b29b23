----------------------------- MODULE MCBookings -----------------------------
(***************************************************************************)
(* TLC's instances of Bookings.  Addresses are model values in two         *)
(* spellings: addr1 and ADDR1 are one address to LOWER, addr2 is another.  *)
(***************************************************************************)
EXTENDS Bookings

CONSTANTS addr1, ADDR1, addr2

MCLower(e) == IF e = ADDR1 THEN addr1 ELSE e

\* Strangers booking through the portal, and customers that staff add.
PortalKinds == {"portal", "customer"}
AllKinds == {"create", "patch", "cancel", "portal", "customer"}
=============================================================================
