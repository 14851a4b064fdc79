---------------------------- MODULE IncludeClosure ----------------------------
(***************************************************************************)
(* compute_affected_translation_units as the code runs it: a work list     *)
(* over the reversed include graph, started from the changed files.        *)
(*                                                                         *)
(* The Python queue is a list that may hold a path several times; a path   *)
(* popped a second time is skipped because it is already visited.  The     *)
(* model keeps the queue as the set of its elements, so it allows every    *)
(* order of popping, the first-in first-out order among them.              *)
(***************************************************************************)
EXTENDS IncrementalIndex

CONSTANTS
  Files,    \* every path of the index and of the include graph
  Units     \* translation_unit_files: the paths of the compile commands

ASSUME UnitsAssumption == Units \subseteq Files

VARIABLES
  graph,    \* include_graph: file -> the files it includes
  changed,  \* changed_files
  queue,    \* paths still to be popped
  visited,  \* paths whose dependents have been queued
  affected  \* translation units found so far

vars == <<graph, changed, queue, visited, affected>>

TypeOK ==
  /\ graph \in [Files -> SUBSET Files]
  /\ changed \subseteq Files
  /\ queue \subseteq Files
  /\ visited \subseteq Files
  /\ affected \subseteq Units

(* Any include graph, cyclic ones too, and any set of changed files.       *)
Init ==
  /\ graph \in [Files -> SUBSET Files]
  /\ changed \in SUBSET Files
  /\ queue = changed
  /\ visited = {}
  /\ affected = {}

(* A plausible slip: a path seen before is put back at the end.            *)
SkipVisitedRequeueing(f) ==
  /\ f \in queue
  /\ f \in visited
  /\ queue' = (queue \ {f}) \cup Dependents(graph, f)
  /\ UNCHANGED <<graph, changed, visited, affected>>

(* queue.pop(0) of a path seen before: nothing but the pop.                *)
SkipVisited(f) ==
  /\ f \in queue
  /\ f \in visited
  /\ queue' = queue \ {f}
  /\ UNCHANGED <<graph, changed, visited, affected>>

(* A plausible slip: only translation units are expanded, so a header that *)
(* includes a header stops the walk.                                       *)
VisitFileExpandingUnitsOnly(f) ==
  /\ f \in queue
  /\ f \notin visited
  /\ visited' = visited \cup {f}
  /\ affected' = IF f \in Units THEN affected \cup {f} ELSE affected
  /\ queue' = (queue \ {f}) \cup (IF f \in Units THEN Dependents(graph, f) ELSE {})
  /\ UNCHANGED <<graph, changed>>

(* queue.pop(0) of a new path: record it and queue what includes it.       *)
VisitFile(f) ==
  /\ f \in queue
  /\ f \notin visited
  /\ visited' = visited \cup {f}
  /\ affected' = IF f \in Units THEN affected \cup {f} ELSE affected
  /\ queue' = (queue \ {f}) \cup Dependents(graph, f)
  /\ UNCHANGED <<graph, changed>>

Next == \E f \in Files : SkipVisited(f) \/ VisitFile(f)

Fairness == WF_vars(Next)

Spec == Init /\ [][Next]_vars /\ Fairness

Done == queue = {}

-------------------------------------------------------------------------------
(* When the loop ends, affected is exactly the set of translation units    *)
(* that a changed file reaches through includes: none is missed, although  *)
(* visited paths are skipped and the graph may be cyclic, and no unit is   *)
(* re-analysed for nothing.                                                *)
ResultIsClosure ==
  Done => affected = AffectedUnits(changed, graph, Units)

(* The loop ends on every graph, cycles included: a path is expanded once. *)
Terminates == <>Done

(* The strengthening that makes ResultIsClosure inductive: what has been   *)
(* touched is reachable, and what includes a visited path is touched.      *)
TouchedIsReached == visited \cup queue \subseteq Reached(changed, graph)
VisitedIsExpanded ==
  /\ changed \subseteq visited \cup queue
  /\ \A f \in visited : Dependents(graph, f) \subseteq visited \cup queue
  /\ affected = visited \cap Units

ClosureInv == TypeOK /\ TouchedIsReached /\ VisitedIsExpanded
===============================================================================
