------------------------- MODULE IncludeClosureProofs -------------------------
(***************************************************************************)
(* The work list of compute_affected_translation_units returns the closure *)
(* it promises, for every set of paths, include graph and set of changes.  *)
(***************************************************************************)
EXTENDS IncludeClosure, TLAPS

(* The closure contains the changed files.                                 *)
LEMMA ChangedIsReached ==
  ASSUME NEW G, NEW C
  PROVE  C \subseteq Reached(C, G)
BY DEF Reached

(* The closure is closed: what includes a reached file is reached.         *)
LEMMA ReachedIsClosed ==
  ASSUME NEW G, NEW C, NEW f \in Reached(C, G)
  PROVE  Dependents(G, f) \subseteq Reached(C, G)
<1>1. SUFFICES ASSUME NEW g \in Dependents(G, f)
               PROVE  g \in Reached(C, G)
  OBVIOUS
<1>2. g \in DOMAIN G
  BY <1>1 DEF Dependents
<1>3. ASSUME NEW S \in SUBSET (C \cup DOMAIN G),
             C \subseteq S, ClosedUnderDependents(G, S)
      PROVE  g \in S
  <2>1. f \in S
    BY <1>3 DEF Reached
  <2>2. QED
    BY <2>1, <1>1, <1>3 DEF ClosedUnderDependents
<1>4. QED
  BY <1>2, <1>3 DEF Reached

(* The closure is the least closed set that holds the changed files.       *)
LEMMA ReachedIsLeast ==
  ASSUME NEW G, NEW C, NEW S, S \subseteq C \cup DOMAIN G, C \subseteq S,
         ClosedUnderDependents(G, S)
  PROVE  Reached(C, G) \subseteq S
BY DEF Reached

LEMMA InitEstablishesClosureInv == Init => ClosureInv
<1> SUFFICES ASSUME Init PROVE ClosureInv
  OBVIOUS
<1>1. TypeOK
  BY DEF Init, TypeOK
<1>2. TouchedIsReached
  BY ChangedIsReached DEF Init, TouchedIsReached
<1>3. VisitedIsExpanded
  BY DEF Init, VisitedIsExpanded
<1>4. QED
  BY <1>1, <1>2, <1>3 DEF ClosureInv

(* Skipping a visited path loses nothing: its dependents are already       *)
(* queued or visited.                                                      *)
LEMMA SkipPreserves ==
  ASSUME ClosureInv, NEW f \in Files, SkipVisited(f)
  PROVE  ClosureInv'
<1>1. TypeOK'
  BY DEF ClosureInv, TypeOK, SkipVisited
<1>2. TouchedIsReached'
  BY DEF ClosureInv, TouchedIsReached, SkipVisited
<1>3. visited' \cup queue' = visited \cup queue
  BY DEF SkipVisited
<1>4. VisitedIsExpanded'
  BY <1>3 DEF ClosureInv, VisitedIsExpanded, SkipVisited
<1>5. QED
  BY <1>1, <1>2, <1>4 DEF ClosureInv

(* Visiting a path touches only its dependents, which are reached.         *)
LEMMA VisitPreserves ==
  ASSUME ClosureInv, NEW f \in Files, VisitFile(f)
  PROVE  ClosureInv'
<1>1. Dependents(graph, f) \subseteq Files
  BY DEF ClosureInv, TypeOK, Dependents
<1>2. TypeOK'
  BY <1>1 DEF ClosureInv, TypeOK, VisitFile
<1>3. TouchedIsReached'
  <2>1. f \in Reached(changed, graph)
    BY DEF ClosureInv, TouchedIsReached, VisitFile
  <2>2. Dependents(graph, f) \subseteq Reached(changed, graph)
    BY <2>1, ReachedIsClosed
  <2>3. QED
    BY <2>1, <2>2 DEF ClosureInv, TouchedIsReached, VisitFile
<1>4. visited' \cup queue' = visited \cup queue \cup Dependents(graph, f)
  BY DEF VisitFile
<1>5. VisitedIsExpanded'
  <2>1. (changed \subseteq visited \cup queue)'
    BY <1>4 DEF ClosureInv, VisitedIsExpanded, VisitFile
  <2>2. (\A g \in visited : Dependents(graph, g) \subseteq visited \cup queue)'
    BY <1>4 DEF ClosureInv, VisitedIsExpanded, VisitFile
  <2>3. (affected = visited \cap Units)'
    BY DEF ClosureInv, VisitedIsExpanded, VisitFile
  <2>4. QED
    BY <2>1, <2>2, <2>3 DEF VisitedIsExpanded
<1>6. QED
  BY <1>2, <1>3, <1>5 DEF ClosureInv

(* The inductive invariant of the work list.                               *)
THEOREM ClosureInvariant == Spec => []ClosureInv
<1>1. ClosureInv /\ [Next]_vars => ClosureInv'
  <2> SUFFICES ASSUME ClosureInv, [Next]_vars PROVE ClosureInv'
    OBVIOUS
  <2>1. ASSUME NEW f \in Files, SkipVisited(f) PROVE ClosureInv'
    BY <2>1, SkipPreserves
  <2>2. ASSUME NEW f \in Files, VisitFile(f) PROVE ClosureInv'
    BY <2>2, VisitPreserves
  <2>3. CASE UNCHANGED vars
    BY <2>3 DEF vars, ClosureInv, TypeOK, TouchedIsReached, VisitedIsExpanded
  <2>4. QED
    BY <2>1, <2>2, <2>3 DEF Next
<1>2. QED
  BY InitEstablishesClosureInv, <1>1, PTL DEF Spec

(* compute_affected_translation_units misses no unit that a changed file   *)
(* reaches and returns no other, whatever the graph.                       *)
THEOREM ClosureCorrect == Spec => []ResultIsClosure
<1>1. ClosureInv => ResultIsClosure
  <2> SUFFICES ASSUME ClosureInv, Done
               PROVE  affected = AffectedUnits(changed, graph, Units)
    BY DEF ResultIsClosure
  <2>1. changed \subseteq visited /\ ClosedUnderDependents(graph, visited)
    BY DEF ClosureInv, VisitedIsExpanded, Done, ClosedUnderDependents
  <2>2. visited \subseteq changed \cup DOMAIN graph
    BY DEF ClosureInv, TypeOK
  <2>3. Reached(changed, graph) \subseteq visited
    BY <2>1, <2>2, ReachedIsLeast
  <2>4. visited \subseteq Reached(changed, graph)
    BY DEF ClosureInv, TouchedIsReached
  <2>5. QED
    BY <2>3, <2>4 DEF ClosureInv, VisitedIsExpanded, AffectedUnits
<1>2. QED
  BY <1>1, ClosureInvariant, PTL

===============================================================================
