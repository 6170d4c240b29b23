----------------------------- MODULE MCOnboarding -----------------------------
(***************************************************************************)
(* TLC's instance of Onboarding: an administrator with two tabs.           *)
(***************************************************************************)
EXTENDS Onboarding, TLC

Symmetry == Permutations(Tabs)
=============================================================================
