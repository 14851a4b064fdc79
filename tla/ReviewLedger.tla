----------------------------- MODULE ReviewLedger -----------------------------
(***************************************************************************)
(* What the review workflow promises to those who read the database: a     *)
(* request settles at one instant or not at all, the ledger of decisions   *)
(* and its audit trail only grow, they grow together, and the status of a  *)
(* violation changes only to what a decision recorded at that instant      *)
(* says.  It does not promise that decisions start from the status the     *)
(* last one left: a decision may rest on any status the violation has had. *)
(***************************************************************************)
CONSTANTS Requests, Violations

VARIABLES
  status,     \* violation -> its status
  decisions,  \* reviews on record: [by, item, violation, old, new, ...]
  trail,      \* audit entries on record: [by, item, action, old, new]
  settled     \* requests that have taken effect

vars == <<status, decisions, trail, settled>>

(* The transitions a set of decisions makes, and those entries report.     *)
Transitions(D) == {<<d.by, d.item, d.old, d.new>> : d \in D}

(* The statuses v has had, as the decisions D know them.                   *)
Held(v, D) == {"open"} \cup {d.new : d \in {d \in D : d.violation = v}}

Init ==
  /\ status = [v \in Violations |-> "open"]
  /\ decisions = {}
  /\ trail = {}
  /\ settled = {}

Settle(q) ==
  /\ q \notin settled
  /\ settled' = settled \cup {q}
  /\ decisions \subseteq decisions' /\ trail \subseteq trail'
  /\ LET added == decisions' \ decisions
         entered == trail' \ trail
     IN /\ \A d \in added : d.by = q /\ d.old \in Held(d.violation, decisions')
        /\ Transitions(entered) = Transitions(added)
        /\ \A v \in Violations : status'[v] # status[v] =>
             \E d \in added : d.violation = v /\ d.new = status'[v]

Next == \E q \in Requests : Settle(q)

Spec == Init /\ [][Next]_vars
===============================================================================
