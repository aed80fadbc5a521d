------------------------------ MODULE Browser ------------------------------
(***************************************************************************)
(* What the pages of the web client share: the session of the browser and  *)
(* the answer to a request without one.                                    *)
(***************************************************************************)
EXTENDS Naturals, FiniteSets

CONSTANT MaxClicks   \* bound: what the user does with pages, failing requests

ASSUME BrowserAssumption == MaxClicks \in Nat

VARIABLES
  session,     \* the browser's session is valid on the server
  clicks

Click == clicks < MaxClicks /\ clicks' = clicks + 1

Unauthorized(call) == [call EXCEPT !.stage = "401"]
=============================================================================
