----------------------------- MODULE MCProcess -----------------------------
(***************************************************************************)
(* A part of Process for TLC: once ids are drawn only the requests of      *)
(* Drawing come, so that a burst of logins, which takes more requests, and *)
(* a burst of ids are explored beside each other and not multiplied.       *)
(* Neither the fairness nor the end of the process depends on who comes.   *)
(***************************************************************************)
EXTENDS Process

CONSTANT Drawing    \* bound: the requests that come once ids are drawn

Came(r) == request[r] # "new" \/ r \in refused

Narrow == drawn > 0 => \A r \in Requests : Came(r) => r \in Drawing

MCSpec == Init /\ [][Next /\ Narrow']_vars /\ Fairness
=============================================================================
