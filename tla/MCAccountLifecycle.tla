------------------------- MODULE MCAccountLifecycle -------------------------
(* AccountLifecycle on small instances, for TLC.  Accounts and RPCs are     *)
(* interchangeable.                                                         *)
EXTENDS AccountLifecycle, TLC

Symmetry == Permutations(Account) \cup Permutations(Caller)

(* What the steps depend on: no guard reads asked, which is written for     *)
(* Reachable and LeftBehindWasAsked alone.                                  *)
View == <<handleVars, connected, bot, sup, owner, built, call, calm, leaving, restored>>
=============================================================================
