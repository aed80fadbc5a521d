----------------------------- MODULE MCAccounts -----------------------------
(* Instance of Accounts for TLC: the changes of users that are tried. *)
EXTENDS Accounts, TLC

MCPatches ==
  {[role |-> "technician", active |-> "keep", reset |-> FALSE],
   [role |-> "keep", active |-> "no", reset |-> FALSE],
   [role |-> "admin", active |-> "yes", reset |-> TRUE]}
Symmetry == Permutations(Browsers) \cup Permutations(Processes)
=============================================================================
