--------------------------- MODULE IncrementalIndex ---------------------------
(***************************************************************************)
(* The pure part of integrations/clang_bridge/incremental_index.py: which  *)
(* files changed since the last indexed run, and which translation units   *)
(* a change reaches through the include graph.                             *)
(*                                                                         *)
(* A path is a value, a content hash is the version of the content it      *)
(* identifies, an include graph is a function from a file to the files it  *)
(* includes, and a path that an index does not hold maps to absent.        *)
(***************************************************************************)

(* compute_changed_files: new, edited and vanished paths.                  *)
ChangedFiles(previous, current) ==
  {f \in DOMAIN current : previous[f] # current[f]}

(* One hop of the reverse include graph.                                   *)
Dependents(graph, f) ==
  {g \in DOMAIN graph : f \in graph[g]}

(* A set of files that a change to any of its members does not leave.      *)
ClosedUnderDependents(graph, S) ==
  \A f \in S : Dependents(graph, f) \subseteq S

(* The files a change to the files of changed reaches: the least set that  *)
(* contains them and is closed under "is included by".                     *)
Reached(changed, graph) ==
  {f \in changed \cup DOMAIN graph :
     \A S \in SUBSET (changed \cup DOMAIN graph) :
        (changed \subseteq S /\ ClosedUnderDependents(graph, S)) => f \in S}

(* What compute_affected_translation_units promises.                       *)
AffectedUnits(changed, graph, units) ==
  Reached(changed, graph) \cap units

===============================================================================
