------------------------------ MODULE MCConsole ------------------------------
(***************************************************************************)
(* TLC's instance of Console: every page, two administrators, one row to   *)
(* begin with and ids for two more.                                        *)
(***************************************************************************)
EXTENDS Console, TLC

Symmetry == Permutations(Admins)

\* Two clicks that cross; a third where an answer is put into the list, which
\* a newer answer can then overtake, and where a filter can be set and cleared
\* around a button.
MCClicks(p) == IF p.after = "patch" \/ p.filter = "on" THEN 3 ELSE 2
=============================================================================
