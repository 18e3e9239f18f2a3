-------------------------- MODULE ApprovalContract --------------------------
(***************************************************************************)
(* What the approval queue promises an operator, with no mention of        *)
(* SQLite, caches or asyncio.  A RECOMMEND-tier entry is offered once, is  *)
(* decided at most once (approved, rejected or expired), a decision is     *)
(* never taken back, and an entry is performed at most once and only after *)
(* it was approved.  Decisions on different entries may become visible     *)
(* together: one commit makes several of them durable.                     *)
(***************************************************************************)
EXTENDS Naturals

CONSTANT Action

VARIABLES
  outcome,    \* what is durably known of each entry
  performed   \* how many times the entry's operation was started

vars == <<outcome, performed>>

Decided == {"approved", "rejected", "expired"}
Outcome == {"absent", "pending"} \union Decided

\* An entry may stay as it is, be offered, or be decided.
Follows(old, new) ==
  \/ new = old
  \/ old = "absent"  /\ new = "pending"
  \/ old = "pending" /\ new \in Decided

Init ==
  /\ outcome = [a \in Action |-> "absent"]
  /\ performed = [a \in Action |-> 0]

Decide ==
  /\ outcome' \in [Action -> Outcome]
  /\ \A a \in Action : Follows(outcome[a], outcome'[a])
  /\ UNCHANGED performed

Perform(a) ==
  /\ outcome[a] = "approved"
  /\ performed[a] = 0
  /\ performed' = [performed EXCEPT ![a] = 1]
  /\ UNCHANGED outcome

Next == Decide \/ \E a \in Action : Perform(a)

Spec == Init /\ [][Next]_vars

=============================================================================
