------------------------------- MODULE Pages -------------------------------
(***************************************************************************)
(* What the modules of the browser share.  A method of a page sends a      *)
(* request, awaits it and goes on with the answer; between the two the     *)
(* user and the answers of other requests may change the page.  The        *)
(* requests in flight are numbered, so that two equal ones are two.        *)
(***************************************************************************)
EXTENDS Naturals, FiniteSets, Sequences, TLC

CONSTANTS NULL,          \* undefined, null, or a signal that holds nothing
          MaxInFlight    \* bound: the requests of one method in flight

ASSUME InFlightAssumption == MaxInFlight \in Nat \ {0}

Numbered(flight) == {r.n : r \in flight}
CanSend(flight)  == Numbered(flight) # 1..MaxInFlight
NextNumber(flight) == CHOOSE n \in 1..MaxInFlight : n \notin Numbered(flight)
=============================================================================
