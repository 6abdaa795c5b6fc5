------------------------------ MODULE RunLedger ------------------------------
(***************************************************************************)
(* What the backend promises about a run, without callbacks, attempts or   *)
(* transactions: a ledger of numbered events that only grows, one event at *)
(* a time, and a verdict that is asked for once, given once, and becomes a *)
(* ticket in the same step if it is an approval.                           *)
(***************************************************************************)
EXTENDS Naturals

CONSTANT Types  \* the event types; "approval.required" asks for the verdict

VARIABLES
  log,     \* pairs <<number, type>>
  length,  \* number of the last event
  verdict, \* "NONE", "PENDING", "APPROVED" or "REJECTED"
  ticket   \* whether an action ticket exists

ledger == <<log, length, verdict, ticket>>

Init ==
  /\ log = {}
  /\ length = 0
  /\ verdict = "NONE"
  /\ ticket = FALSE

Record(type) ==
  /\ length' = length + 1
  /\ log' = log \cup {<<length + 1, type>>}
  /\ IF type = "approval.required"
     THEN verdict = "NONE" /\ verdict' = "PENDING"
     ELSE UNCHANGED verdict
  /\ UNCHANGED ticket

Decide(answer) ==
  /\ verdict = "PENDING"
  /\ verdict' = answer
  /\ ticket' = (answer = "APPROVED")
  /\ UNCHANGED <<log, length>>

Next ==
  \/ \E type \in Types : Record(type)
  \/ \E answer \in {"APPROVED", "REJECTED"} : Decide(answer)

Spec == Init /\ [][Next]_ledger

=============================================================================
