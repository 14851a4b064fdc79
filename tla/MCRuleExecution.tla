---------------------------- MODULE MCRuleExecution ----------------------------
(***************************************************************************)
(* Rules that share alias facts and a data-flow engine, which needs the    *)
(* alias facts.                                                            *)
(***************************************************************************)
EXTENDS RuleExecution, TLC

CONSTANTS withFunction, r1, r3, alias, dataflow, p, q

EngineNeedsAlias ==
  [a \in Analyses |-> IF a = dataflow THEN {alias} ELSE {}]

(* One unit has a function that all rules look at, the other has none.     *)
OneFunction ==
  [r \in Rules |-> [u \in Units |->
     IF u # withFunction THEN {} ELSE IF r = r1 THEN {dataflow} ELSE {alias}]]

(* r1 and r3 report a violation.                                           *)
TwoFindings ==
  [r \in Rules |-> [u \in Units |-> IF r = r1 THEN {p} ELSE IF r = r3 THEN {q} ELSE {}]]
===============================================================================
