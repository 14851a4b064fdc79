--------------------------- MODULE RuleExecutionProofs ---------------------------
(***************************************************************************)
(* Theorems about RuleExecution, for any number of units, rules, threads   *)
(* and retries, whenever cancel() is called.                               *)
(***************************************************************************)
EXTENDS RuleExecution, FiniteSetTheorems, TLAPS

-------------------------------------------------------------------------------
(* The invariant                                                           *)

(* What has been collected are outcomes of distinct rules; a rule failed   *)
(* only in its last attempt.                                               *)
CollectedAreOutcomes ==
  \A u \in Units :
    /\ Len(metrics[u]) = Cardinality(Collected(u))
    /\ \A i \in DOMAIN metrics[u] :
         LET m == metrics[u][i]
         IN  /\ m.rule \in Rules
             /\ rule[u][m.rule] = IF m.success THEN "ok" ELSE "failed"

FailedAreExhausted ==
  \A u \in Units, r \in Rules :
    /\ attempts[u][r] <= MaxRetries + 1
    /\ rule[u][r] = "failed" => attempts[u][r] = MaxRetries + 1

(* A unit's result is the execution of all rules, or the empty report of a *)
(* unit that was started after cancel().                                   *)
CompleteResult(u) ==
  /\ Collected(u) = Rules
  /\ result[u] = [metrics |-> metrics[u], violations |-> ViolationsIn(u, metrics[u])]

ResultsAreComplete ==
  \A u \in Units : unit[u] = "done" =>
    (CompleteResult(u) \/ (cancelSet /\ result[u] = EmptyReport)) /\ result[u] # None

(* What was taken while the flag was down, and what was recorded, is the   *)
(* complete result of its unit.                                            *)
RecordedAreResults ==
  /\ \A u \in yielded : unit[u] = "done"
  /\ \A u \in Recorded : u \in yielded /\ reports[u] = result[u] /\ CompleteResult(u)
  /\ main = "record" => hand \in yielded \ Recorded /\ CompleteResult(hand)

(* The caller has recorded all it has taken, except the unit in hand and   *)
(* the one with which it noticed the cancellation.                         *)
CallerIsConsistent ==
  /\ main = "collect" => yielded = Recorded /\ yielded # Units
  /\ main = "record" => yielded = Recorded \cup {hand}
  /\ main \in {"collect", "record"} => ~progress.cancelled
  /\ main \in {"shutdown", "returned"} => (progress.cancelled <=> Recorded # Units)
  /\ progress.completed = Cardinality(Recorded)
  /\ progress.rulesExecuted = Cardinality(Recorded) * Cardinality(Rules)

ExecutionInv ==
  /\ TypeOK
  /\ CollectedAreOutcomes
  /\ FailedAreExhausted
  /\ ResultsAreComplete
  /\ RecordedAreResults
  /\ CallerIsConsistent

-------------------------------------------------------------------------------
(* Types                                                                   *)

LEMMA InitKeepsInv == Init => ExecutionInv
<1> SUFFICES ASSUME Init PROVE ExecutionInv
  OBVIOUS
<1>1. Recorded = {} /\ Cardinality({}) = 0
  BY FS_EmptySet DEF Init, Recorded
<1>2. TypeOK
  <2>1. metrics \in [Units -> Seq(Metric)]
    <3>1. <<>> \in Seq(Metric)
      OBVIOUS
    <3> QED
      BY <3>1 DEF Init
  <2>2. attempts \in [Units -> [Rules -> 0 .. MaxRetries + 1]]
    BY ConstantsAssumption DEF Init
  <2>3. /\ building \in [Units -> [Rules -> SUBSET Analyses]]
        /\ got \in [Units -> [Rules -> SUBSET Analyses]]
        /\ cache \in [Units -> SUBSET Analyses]
        /\ builds \in [Units -> [Analyses -> Nat]]
    BY DEF Init
  <2>4. /\ unit \in [Units -> UnitStates]
        /\ rule \in [Units -> [Rules -> RuleStates]]
        /\ result \in [Units -> Report \cup {None}]
        /\ reports \in [Units -> Report \cup {None}]
    BY DEF Init, UnitStates, RuleStates
  <2> QED
    BY <2>1, <2>2, <2>3, <2>4 DEF Init, TypeOK, CallerSteps
<1>3. Cardinality(Rules) \in Nat
  BY ConstantsAssumption, FS_CardinalityType
<1>4. CollectedAreOutcomes
  <2> SUFFICES ASSUME NEW u \in Units PROVE metrics[u] = <<>> /\ Collected(u) = {}
    BY <1>1 DEF CollectedAreOutcomes
  <2>1. metrics[u] = <<>>
    BY DEF Init
  <2>2. DOMAIN metrics[u] = {}
    BY <2>1
  <2> QED
    BY <2>1, <2>2 DEF Collected
<1>5. FailedAreExhausted /\ ResultsAreComplete /\ RecordedAreResults
  BY <1>1, ConstantsAssumption
     DEF Init, FailedAreExhausted, ResultsAreComplete, RecordedAreResults
<1>6. CallerIsConsistent
  BY <1>1, <1>3, ConstantsAssumption DEF Init, CallerIsConsistent
<1> QED
  BY <1>2, <1>4, <1>5, <1>6 DEF ExecutionInv

(* The violations in a sequence of metrics are among those rules report.   *)
LEMMA ViolationsTyped ==
  ASSUME NEW u \in Units, NEW ms \in Seq(Metric)
  PROVE  [metrics |-> ms, violations |-> ViolationsIn(u, ms)] \in Report
<1>1. ASSUME NEW i \in DOMAIN ms PROVE ms[i].rule \in Rules
  <2>1. ms[i] \in Metric
    OBVIOUS
  <2> QED
    BY <2>1 DEF Metric
<1>2. ViolationsIn(u, ms) \subseteq Fingerprints
  <2> SUFFICES ASSUME NEW f \in ViolationsIn(u, ms) PROVE f \in Fingerprints
    OBVIOUS
  <2>1. PICK i \in DOMAIN ms : f \in Detects[ms[i].rule][u]
    BY DEF ViolationsIn
  <2> QED
    BY <1>1, <2>1 DEF Fingerprints
<1> QED
  BY <1>2 DEF Report

(* Cardinalities of what is counted are numbers.                           *)
LEMMA Counted ==
  /\ Cardinality(Rules) \in Nat
  /\ IsFiniteSet(Recorded)
  /\ Cardinality(Recorded) \in Nat
BY ConstantsAssumption, FS_Subset, FS_CardinalityType DEF Recorded

-------------------------------------------------------------------------------
(* The threads of the rules                                                *)

(* A step of a rule's thread that keeps the outcomes of finished rules     *)
(* changes nothing the other conjuncts speak about.                        *)
LEMMA DetectionKeepsInv ==
  ASSUME ExecutionInv, TypeOK', FailedAreExhausted',
         UNCHANGED <<caller, cancelSet, engine>>,
         \A u \in Units, r \in Rules :
            rule[u][r] \in Finished => rule'[u][r] = rule[u][r]
  PROVE  ExecutionInv'
<1> USE DEF ExecutionInv, caller, engine
<1>1. CollectedAreOutcomes'
  BY DEF CollectedAreOutcomes, Collected, Finished
<1>2. ResultsAreComplete'
  BY DEF ResultsAreComplete, CompleteResult, Collected, ViolationsIn
<1>3. RecordedAreResults'
  BY DEF RecordedAreResults, CompleteResult, Collected, ViolationsIn, Recorded
<1>4. CallerIsConsistent'
  BY DEF CallerIsConsistent, Recorded
<1> QED
  BY <1>1, <1>2, <1>3, <1>4

LEMMA StartRuleKeepsInv ==
  ASSUME ExecutionInv, NEW u \in Units, NEW r \in Rules, StartRule(u, r)
  PROVE  ExecutionInv'
<1> USE DEF ExecutionInv
<1>1. TypeOK'
  BY ConstantsAssumption
     DEF StartRule, TypeOK, RuleStates, caller, engine, caches
<1>2. FailedAreExhausted'
  BY ConstantsAssumption DEF StartRule, FailedAreExhausted, TypeOK, RuleStates
<1>3. \A v \in Units, q \in Rules : rule[v][q] \in Finished => rule'[v][q] = rule[v][q]
  BY DEF StartRule, TypeOK, Finished
<1> QED
  BY <1>1, <1>2, <1>3, DetectionKeepsInv DEF StartRule

LEMMA AnalysisKeepsInv ==
  ASSUME ExecutionInv, NEW u \in Units, NEW r \in Rules, NEW a \in Analyses,
         Hit(u, r, a) \/ Miss(u, r, a) \/ Build(u, r, a)
  PROVE  ExecutionInv'
<1> USE DEF ExecutionInv
<1>1. UNCHANGED <<caller, cancelSet, engine, rule, attempts>>
  BY DEF Hit, Miss, Build
<1>2. building' \in [Units -> [Rules -> SUBSET Analyses]]
  <2> DEFINE held == building[u][r]
  <2>0. held \subseteq Analyses
    BY DEF TypeOK
  <2>1. PICK S \in SUBSET Analyses : building' = [building EXCEPT ![u][r] = S]
    <3>1. CASE Hit(u, r, a)
      <4>1. building' = [building EXCEPT ![u][r] = held]
        BY <3>1 DEF Hit, TypeOK
      <4> HIDE DEF held
      <4> QED
        BY <2>0, <4>1
    <3>2. CASE Miss(u, r, a)
      <4>1. building' = [building EXCEPT ![u][r] = held \cup {a}]
        BY <3>2 DEF Miss
      <4> HIDE DEF held
      <4> QED
        BY <2>0, <4>1
    <3>3. CASE Build(u, r, a)
      <4>1. building' = [building EXCEPT ![u][r] = held \ {a}]
        BY <3>3 DEF Build
      <4> HIDE DEF held
      <4> QED
        BY <2>0, <4>1
    <3> QED
      BY <3>1, <3>2, <3>3
  <2> QED
    BY <2>1 DEF TypeOK
<1>3. got' \in [Units -> [Rules -> SUBSET Analyses]]
  <2>1. CASE Hit(u, r, a)
    BY <2>1 DEF Hit, TypeOK
  <2>2. CASE Miss(u, r, a)
    BY <2>2 DEF Miss, TypeOK
  <2>3. CASE Build(u, r, a)
    BY <2>3 DEF Build, TypeOK
  <2> QED
    BY <2>1, <2>2, <2>3
<1>4. cache' \in [Units -> SUBSET Analyses] /\ builds' \in [Units -> [Analyses -> Nat]]
  <2>1. CASE Hit(u, r, a) \/ Miss(u, r, a)
    BY <2>1 DEF Hit, Miss, TypeOK, caches
  <2>2. CASE Build(u, r, a)
    BY <2>2 DEF Build, TypeOK
  <2> QED
    BY <2>1, <2>2
<1>5. TypeOK'
  BY <1>1, <1>2, <1>3, <1>4 DEF TypeOK, caller, engine
<1>6. FailedAreExhausted'
  BY <1>1 DEF FailedAreExhausted
<1> QED
  BY <1>1, <1>5, <1>6, DetectionKeepsInv

LEMMA DetectReturnsKeepsInv ==
  ASSUME ExecutionInv, NEW u \in Units, NEW r \in Rules, DetectReturns(u, r)
  PROVE  ExecutionInv'
<1> USE DEF ExecutionInv
<1>1. TypeOK'
  BY DEF DetectReturns, TypeOK, RuleStates, caller, engine, caches
<1>2. FailedAreExhausted'
  BY DEF DetectReturns, FailedAreExhausted, TypeOK, RuleStates
<1>3. \A v \in Units, q \in Rules : rule[v][q] \in Finished => rule'[v][q] = rule[v][q]
  BY DEF DetectReturns, TypeOK, Finished
<1> QED
  BY <1>1, <1>2, <1>3, DetectionKeepsInv DEF DetectReturns

LEMMA DetectRaisesKeepsInv ==
  ASSUME ExecutionInv, NEW u \in Units, NEW r \in Rules, DetectRaises(u, r)
  PROVE  ExecutionInv'
<1> USE DEF ExecutionInv
<1>1. attempts[u][r] \in 0 .. MaxRetries + 1 /\ MaxRetries \in Nat
  BY ConstantsAssumption DEF TypeOK
<1>2. CASE attempts[u][r] > MaxRetries
  <2>1. attempts[u][r] = MaxRetries + 1
    BY <1>1, <1>2
  <2>2. /\ rule' = [rule EXCEPT ![u][r] = "failed"]
        /\ attempts' = attempts
    BY <1>2 DEF DetectRaises
  <2>3. TypeOK'
    BY <2>2 DEF DetectRaises, TypeOK, RuleStates, caller, engine, caches
  <2>4. FailedAreExhausted'
    BY <2>1, <2>2 DEF FailedAreExhausted, TypeOK, RuleStates
  <2>5. \A v \in Units, q \in Rules : rule[v][q] \in Finished => rule'[v][q] = rule[v][q]
    BY <2>2 DEF DetectRaises, TypeOK, Finished
  <2> QED
    BY <2>3, <2>4, <2>5, DetectionKeepsInv DEF DetectRaises
<1>3. CASE ~(attempts[u][r] > MaxRetries)
  <2>1. /\ rule' = rule
        /\ attempts' = [attempts EXCEPT ![u][r] = @ + 1]
    BY <1>3 DEF DetectRaises
  <2>2. attempts[u][r] + 1 \in 0 .. MaxRetries + 1
    BY <1>1, <1>3
  <2>3. TypeOK'
    BY <2>1, <2>2 DEF DetectRaises, TypeOK, caller, engine, caches
  <2>4. FailedAreExhausted'
    BY <2>1, <2>2 DEF DetectRaises, FailedAreExhausted, TypeOK
  <2> QED
    BY <2>1, <2>3, <2>4, DetectionKeepsInv DEF DetectRaises
<1> QED
  BY <1>2, <1>3

-------------------------------------------------------------------------------
(* The threads of the units                                                *)

LEMMA StartUnitKeepsInv ==
  ASSUME ExecutionInv, NEW u \in Units, StartUnit(u)
  PROVE  ExecutionInv'
<1> USE DEF ExecutionInv
<1>1. EmptyReport \in Report
  BY DEF EmptyReport, Report, Fingerprints
<1>2. UNCHANGED <<caller, cancelSet, metrics, detection, caches>>
  BY DEF StartUnit
<1>3. /\ unit' \in [Units -> UnitStates]
      /\ result' \in [Units -> Report \cup {None}]
  <2>1. CASE cancelSet
    <3>1. /\ unit' = [unit EXCEPT ![u] = "done"]
          /\ result' = [result EXCEPT ![u] = EmptyReport]
      BY <2>1 DEF StartUnit
    <3> QED
      BY <1>1, <3>1 DEF TypeOK, UnitStates
  <2>2. CASE ~cancelSet
    BY <2>2 DEF StartUnit, TypeOK, UnitStates
  <2> QED
    BY <2>1, <2>2
<1>4. TypeOK'
  BY <1>2, <1>3 DEF TypeOK, caller, detection, caches
<1>5. CollectedAreOutcomes' /\ FailedAreExhausted'
  BY <1>2 DEF CollectedAreOutcomes, Collected, FailedAreExhausted, detection
<1>6. \A v \in Units \ {u} : unit'[v] = unit[v] /\ result'[v] = result[v]
  BY DEF StartUnit, TypeOK
<1>7. unit'[u] = "done" => cancelSet /\ result'[u] = EmptyReport
  BY DEF StartUnit, TypeOK, UnitStates
<1>8. ResultsAreComplete'
  BY <1>1, <1>2, <1>6, <1>7, NoneAssumption
     DEF ResultsAreComplete, CompleteResult, Collected, ViolationsIn
<1>9. u \notin yielded /\ u \notin Recorded
  BY DEF StartUnit, RecordedAreResults
<1>10. RecordedAreResults'
  <2>1. \A v \in yielded : unit'[v] = "done"
    BY <1>6, <1>9 DEF RecordedAreResults, TypeOK
  <2>2. Recorded' = Recorded /\ yielded' = yielded
    BY <1>2 DEF Recorded, caller
  <2>3. \A v \in Units \ {u} : CompleteResult(v) => CompleteResult(v)'
    BY <1>2, <1>6 DEF CompleteResult, Collected, ViolationsIn
  <2> QED
    BY <1>2, <1>6, <1>9, <2>1, <2>2, <2>3 DEF RecordedAreResults, TypeOK, caller, Recorded
<1>11. CallerIsConsistent'
  BY <1>2 DEF CallerIsConsistent, Recorded, caller
<1> QED
  BY <1>4, <1>5, <1>8, <1>10, <1>11

LEMMA CollectRuleKeepsInv ==
  ASSUME ExecutionInv, NEW u \in Units, NEW r \in Rules, CollectRule(u, r)
  PROVE  ExecutionInv'
<1> USE DEF ExecutionInv
<1> DEFINE m == [rule |-> r, success |-> rule[u][r] = "ok"]
<1>1. m \in Metric
  BY DEF Metric
<1>2. metrics \in [Units -> Seq(Metric)] /\ metrics[u] \in Seq(Metric)
  BY DEF TypeOK
<1>3. metrics' = [metrics EXCEPT ![u] = Append(@, m)]
  BY DEF CollectRule
<1>4. UNCHANGED <<caller, cancelSet, unit, result, detection, caches>>
  BY DEF CollectRule
<1>5. metrics'[u] = Append(metrics[u], m) /\ metrics' \in [Units -> Seq(Metric)]
  BY <1>1, <1>2, <1>3
<1>6. TypeOK'
  BY <1>4, <1>5 DEF TypeOK, caller, detection, caches
<1>7. \A v \in Units \ {u} : metrics'[v] = metrics[v]
  BY <1>2, <1>3
<1>8. CollectedAreOutcomes'
  <2>1. Collected(u)' = Collected(u) \cup {r}
    <3>1. DOMAIN metrics'[u] = DOMAIN metrics[u] \cup {Len(metrics[u]) + 1}
      BY <1>1, <1>2, <1>5
    <3>2. \A i \in DOMAIN metrics[u] : metrics'[u][i] = metrics[u][i]
      BY <1>1, <1>2, <1>5
    <3>3. metrics'[u][Len(metrics[u]) + 1] = m
      BY <1>1, <1>2, <1>5
    <3> QED
      BY <3>1, <3>2, <3>3 DEF Collected
  <2>2. Len(metrics'[u]) = Cardinality(Collected(u)')
    <3>1. Collected(u) \subseteq Rules
      BY DEF CollectedAreOutcomes, Collected
    <3>2. IsFiniteSet(Collected(u))
      BY <3>1, ConstantsAssumption, FS_Subset
    <3>3. Cardinality(Collected(u) \cup {r}) = Cardinality(Collected(u)) + 1
      BY <3>2, FS_AddElement DEF CollectRule
    <3>4. Len(metrics'[u]) = Len(metrics[u]) + 1
      BY <1>1, <1>2, <1>5
    <3> QED
      BY <2>1, <3>3, <3>4 DEF CollectedAreOutcomes
  <2>3. \A i \in DOMAIN metrics'[u] :
          /\ metrics'[u][i].rule \in Rules
          /\ rule[u][metrics'[u][i].rule] = IF metrics'[u][i].success THEN "ok" ELSE "failed"
    <3>1. rule[u][r] = IF m.success THEN "ok" ELSE "failed"
      BY DEF CollectRule, Finished
    <3> SUFFICES ASSUME NEW i \in DOMAIN metrics'[u]
                 PROVE  /\ metrics'[u][i].rule \in Rules
                        /\ rule[u][metrics'[u][i].rule] =
                             IF metrics'[u][i].success THEN "ok" ELSE "failed"
      OBVIOUS
    <3>2. CASE i \in DOMAIN metrics[u]
      <4>1. metrics'[u][i] = metrics[u][i]
        BY <1>1, <1>2, <1>5, <3>2
      <4> QED
        BY <3>2, <4>1 DEF CollectedAreOutcomes
    <3>3. CASE i \notin DOMAIN metrics[u]
      <4>1. metrics'[u][i] = m
        BY <1>1, <1>2, <1>5, <3>3
      <4> QED
        BY <3>1, <4>1
    <3> QED
      BY <3>2, <3>3
  <2>4. \A v \in Units \ {u} : Collected(v)' = Collected(v)
    BY <1>7 DEF Collected
  <2> QED
    BY <1>4, <1>7, <2>2, <2>3, <2>4 DEF CollectedAreOutcomes, detection
<1>9. FailedAreExhausted'
  BY <1>4 DEF FailedAreExhausted, detection
<1>10. \A v \in Units : unit[v] = "done" /\ CompleteResult(v) => CompleteResult(v)'
  <2> SUFFICES ASSUME NEW v \in Units, unit[v] = "done", CompleteResult(v)
               PROVE  CompleteResult(v)'
    OBVIOUS
  <2>1. metrics'[v] = metrics[v] /\ result'[v] = result[v]
    BY <1>4, <1>7 DEF CollectRule, engine
  <2> QED
    BY <2>1 DEF CompleteResult, Collected, ViolationsIn
<1>11. ResultsAreComplete'
  BY <1>4, <1>10 DEF ResultsAreComplete
<1>12. RecordedAreResults'
  BY <1>4, <1>10 DEF RecordedAreResults, TypeOK, Recorded, caller
<1>13. CallerIsConsistent'
  BY <1>4 DEF CallerIsConsistent, Recorded, caller
<1> QED
  BY <1>6, <1>8, <1>9, <1>11, <1>12, <1>13

LEMMA FinishUnitKeepsInv ==
  ASSUME ExecutionInv, NEW u \in Units, FinishUnit(u)
  PROVE  ExecutionInv'
<1> USE DEF ExecutionInv
<1> DEFINE report == [metrics |-> metrics[u], violations |-> ViolationsIn(u, metrics[u])]
<1>1. report \in Report
  BY ViolationsTyped DEF TypeOK
<1>2. UNCHANGED <<caller, cancelSet, metrics, detection, caches>>
  BY DEF FinishUnit
<1>3. /\ unit' = [unit EXCEPT ![u] = "done"]
      /\ result' = [result EXCEPT ![u] = report]
      /\ unit[u] = "running"
      /\ Collected(u) = Rules
  BY DEF FinishUnit
<1> HIDE DEF report
<1>4. TypeOK'
  BY <1>1, <1>2, <1>3 DEF TypeOK, UnitStates, caller, detection, caches
<1>5. CollectedAreOutcomes' /\ FailedAreExhausted'
  BY <1>2 DEF CollectedAreOutcomes, Collected, FailedAreExhausted, detection
<1>6. \A v \in Units \ {u} : unit'[v] = unit[v] /\ result'[v] = result[v]
  BY <1>3 DEF TypeOK
<1>7. unit'[u] = "done" /\ result'[u] = report
  BY <1>3 DEF TypeOK
<1>8. CompleteResult(u)'
  BY <1>2, <1>3, <1>7 DEF CompleteResult, Collected, ViolationsIn, report
<1>9. \A v \in Units \ {u} : CompleteResult(v) => CompleteResult(v)'
  BY <1>2, <1>6 DEF CompleteResult, Collected, ViolationsIn
<1>10. ResultsAreComplete'
  BY <1>1, <1>2, <1>6, <1>7, <1>8, <1>9, NoneAssumption DEF ResultsAreComplete
<1>11. u \notin yielded /\ u \notin Recorded
  BY <1>3 DEF RecordedAreResults
<1>12. RecordedAreResults'
  <2>1. \A v \in yielded : unit'[v] = "done"
    BY <1>6, <1>11 DEF RecordedAreResults, TypeOK
  <2> QED
    BY <1>2, <1>6, <1>9, <1>11, <2>1 DEF RecordedAreResults, TypeOK, caller, Recorded
<1>13. CallerIsConsistent'
  BY <1>2 DEF CallerIsConsistent, Recorded, caller
<1> QED
  BY <1>4, <1>5, <1>10, <1>12, <1>13

-------------------------------------------------------------------------------
(* The caller, and cancel()                                                *)

(* Steps that leave the threads alone keep what is said of them.           *)
LEMMA ThreadsKeepInv ==
  ASSUME ExecutionInv, UNCHANGED <<engine, detection, caches>>, cancelSet => cancelSet'
  PROVE  /\ CollectedAreOutcomes'
         /\ FailedAreExhausted'
         /\ ResultsAreComplete'
         /\ \A u \in Units : CompleteResult(u) => CompleteResult(u)'
<1> USE DEF ExecutionInv, engine, detection
<1>1. CollectedAreOutcomes' /\ FailedAreExhausted'
  BY DEF CollectedAreOutcomes, Collected, FailedAreExhausted
<1>2. \A u \in Units : CompleteResult(u) => CompleteResult(u)'
  BY DEF CompleteResult, Collected, ViolationsIn
<1>3. ResultsAreComplete'
  BY <1>2 DEF ResultsAreComplete
<1> QED
  BY <1>1, <1>2, <1>3

LEMMA CancelKeepsInv ==
  ASSUME ExecutionInv, Cancel
  PROVE  ExecutionInv'
<1> USE DEF ExecutionInv
<1>1. TypeOK'
  BY DEF Cancel, TypeOK, caller, engine, detection, caches
<1>2. RecordedAreResults'
  BY ThreadsKeepInv DEF Cancel, RecordedAreResults, TypeOK, Recorded, caller, engine
<1>3. CallerIsConsistent'
  BY DEF Cancel, CallerIsConsistent, Recorded, caller
<1> QED
  BY <1>1, <1>2, <1>3, ThreadsKeepInv DEF Cancel

LEMMA TakeKeepsInv ==
  ASSUME ExecutionInv, NEW u \in Units, Take(u)
  PROVE  ExecutionInv'
<1> USE DEF ExecutionInv
<1>1. UNCHANGED <<reports, cancelSet, engine, detection, caches>>
  BY DEF Take
<1>2. TypeOK'
  BY DEF Take, TypeOK, CallerSteps, engine, detection, caches
<1>3. Recorded' = Recorded /\ yielded = Recorded /\ u \notin Recorded
  BY DEF Take, Recorded, CallerIsConsistent
<1>4. yielded' = yielded \cup {u}
  BY DEF Take
<1>5. \A v \in Units : CompleteResult(v) => CompleteResult(v)'
  BY <1>1, ThreadsKeepInv
<1>6. RecordedAreResults'
  <2>1. \A v \in yielded' : unit'[v] = "done"
    BY <1>1, <1>4 DEF Take, RecordedAreResults, engine
  <2>2. \A v \in Recorded' :
          v \in yielded' /\ reports'[v] = result'[v] /\ CompleteResult(v)'
    BY <1>1, <1>3, <1>4, <1>5 DEF RecordedAreResults, Recorded, engine
  <2>3. main' = "record" => ~cancelSet /\ hand' = u
    BY DEF Take
  <2>4. main' = "record" => CompleteResult(u)
    BY <2>3 DEF Take, ResultsAreComplete
  <2> QED
    BY <1>3, <1>4, <1>5, <2>1, <2>2, <2>3, <2>4 DEF RecordedAreResults
<1>7. CallerIsConsistent'
  <2>1. CASE cancelSet
    <3>1. /\ main' = "shutdown"
          /\ progress' = [progress EXCEPT !.cancelled = TRUE]
      BY <2>1 DEF Take
    <3>2. /\ progress'.cancelled
          /\ progress'.completed = progress.completed
          /\ progress'.rulesExecuted = progress.rulesExecuted
      BY <3>1 DEF TypeOK
    <3> QED
      BY <1>3, <3>1, <3>2 DEF CallerIsConsistent
  <2>2. CASE ~cancelSet
    BY <1>3, <1>4, <2>2 DEF Take, CallerIsConsistent
  <2> QED
    BY <2>1, <2>2
<1> QED
  BY <1>1, <1>2, <1>6, <1>7, ThreadsKeepInv

LEMMA RecordKeepsInv ==
  ASSUME ExecutionInv, Record
  PROVE  ExecutionInv'
<1> USE DEF ExecutionInv
<1>1. UNCHANGED <<yielded, cancelSet, engine, detection, caches>>
  BY DEF Record
<1>2. /\ hand \in Units /\ hand \in yielded /\ hand \notin Recorded
      /\ CompleteResult(hand) /\ yielded = Recorded \cup {hand}
  BY DEF Record, RecordedAreResults, CallerIsConsistent, TypeOK
<1>3. reports' = [reports EXCEPT ![hand] = result[hand]]
  BY DEF Record
<1>4. result[hand] \in Report /\ result[hand] # None
  <2>1. unit[hand] = "done"
    BY <1>2 DEF RecordedAreResults
  <2> QED
    BY <1>2, <2>1 DEF ResultsAreComplete, TypeOK
<1>5. Len(result[hand].metrics) = Cardinality(Rules)
  BY <1>2 DEF CompleteResult, CollectedAreOutcomes
<1>6. /\ progress'.completed = progress.completed + 1
      /\ progress'.rulesExecuted = progress.rulesExecuted + Cardinality(Rules)
      /\ progress'.cancelled = progress.cancelled
      /\ progress' \in [completed : Nat, rulesExecuted : Nat, cancelled : BOOLEAN]
  <2>1. progress \in [completed : Nat, rulesExecuted : Nat, cancelled : BOOLEAN]
    BY DEF TypeOK
  <2>2. progress' = [progress EXCEPT !.completed = @ + 1,
                                     !.rulesExecuted = @ + Cardinality(Rules)]
    BY <1>5 DEF Record
  <2> DEFINE k == Cardinality(Rules)
  <2>3. k \in Nat
    BY Counted
  <2> HIDE DEF k
  <2>4. progress' = [progress EXCEPT !.completed = @ + 1, !.rulesExecuted = @ + k]
    BY <2>2 DEF k
  <2>5. /\ progress'.completed = progress.completed + 1
        /\ progress'.rulesExecuted = progress.rulesExecuted + k
        /\ progress'.cancelled = progress.cancelled
    BY <2>1, <2>4
  <2>6. progress' \in [completed : Nat, rulesExecuted : Nat, cancelled : BOOLEAN]
    <3>1. /\ progress.completed \in Nat /\ progress.rulesExecuted \in Nat
          /\ progress.cancelled \in BOOLEAN
      BY <2>1
    <3>2. progress.completed + 1 \in Nat /\ progress.rulesExecuted + k \in Nat
      BY <2>3, <3>1
    <3>3. progress' = [completed |-> progress.completed + 1,
                       rulesExecuted |-> progress.rulesExecuted + k,
                       cancelled |-> progress.cancelled]
      BY <2>1, <2>4, Zenon
    <3> QED
      BY <3>1, <3>2, <3>3
  <2> QED
    BY <2>5, <2>6 DEF k
<1>7. TypeOK'
  <2>1. reports' \in [Units -> Report \cup {None}]
    BY <1>3, <1>4 DEF TypeOK
  <2>2. main' \in CallerSteps /\ hand' \in Units \cup {None}
    BY DEF Record, CallerSteps
  <2> QED
    BY <1>1, <1>6, <2>1, <2>2 DEF TypeOK, engine, detection, caches
<1>8. Recorded' = Recorded \cup {hand} /\ Recorded' = yielded'
  BY <1>1, <1>2, <1>3, <1>4 DEF Recorded, TypeOK
<1>9. \A v \in Units : CompleteResult(v) => CompleteResult(v)'
  BY <1>1, ThreadsKeepInv
<1>10. RecordedAreResults'
  <2>1. \A v \in yielded' : unit'[v] = "done"
    BY <1>1 DEF RecordedAreResults, engine
  <2>2. \A v \in Recorded : reports'[v] = reports[v] /\ v \in Units
    BY <1>2, <1>3 DEF TypeOK, Recorded
  <2>3. reports'[hand] = result[hand]
    BY <1>2, <1>3 DEF TypeOK
  <2>4. \A v \in Recorded' :
          v \in yielded' /\ reports'[v] = result'[v] /\ CompleteResult(v)'
    BY <1>1, <1>2, <1>8, <1>9, <2>2, <2>3 DEF RecordedAreResults, engine
  <2>5. main' # "record"
    BY DEF Record
  <2> QED
    BY <2>1, <2>4, <2>5 DEF RecordedAreResults
<1>11. CallerIsConsistent'
  <2>1. Cardinality(Recorded') = Cardinality(Recorded) + 1
    BY <1>2, <1>8, Counted, FS_AddElement
  <2>2. (Cardinality(Recorded) + 1) * Cardinality(Rules)
          = Cardinality(Recorded) * Cardinality(Rules) + Cardinality(Rules)
    BY Counted, SMT
  <2>3. progress'.completed = Cardinality(Recorded')
    BY <1>6, <2>1 DEF CallerIsConsistent
  <2>4. progress'.rulesExecuted = Cardinality(Recorded') * Cardinality(Rules)
    BY <1>6, <2>1, <2>2 DEF CallerIsConsistent
  <2>5. ~progress'.cancelled
    BY <1>6 DEF Record, CallerIsConsistent
  <2>6. main' = IF yielded = Units THEN "shutdown" ELSE "collect"
    BY DEF Record
  <2> QED
    BY <1>1, <1>8, <2>3, <2>4, <2>5, <2>6 DEF CallerIsConsistent
<1> QED
  BY <1>1, <1>7, <1>10, <1>11, ThreadsKeepInv

LEMMA ReturnKeepsInv ==
  ASSUME ExecutionInv, Return
  PROVE  ExecutionInv'
<1> USE DEF ExecutionInv
<1>1. TypeOK'
  BY DEF Return, TypeOK, CallerSteps, engine, detection, caches
<1>2. RecordedAreResults'
  BY ThreadsKeepInv DEF Return, RecordedAreResults, TypeOK, Recorded, engine
<1>3. CallerIsConsistent'
  BY DEF Return, CallerIsConsistent, Recorded
<1> QED
  BY <1>1, <1>2, <1>3, ThreadsKeepInv DEF Return

-------------------------------------------------------------------------------
(* The theorems                                                            *)

LEMMA StepKeepsInv == ExecutionInv /\ [Next]_vars => ExecutionInv'
<1> SUFFICES ASSUME ExecutionInv, [Next]_vars PROVE ExecutionInv'
  OBVIOUS
<1>1. ASSUME NEW u \in Units, NEW r \in Rules, RuleStep(u, r) PROVE ExecutionInv'
  BY <1>1, StartRuleKeepsInv, AnalysisKeepsInv, DetectReturnsKeepsInv,
     DetectRaisesKeepsInv DEF RuleStep
<1>2. ASSUME NEW u \in Units, UnitStep(u) PROVE ExecutionInv'
  BY <1>2, StartUnitKeepsInv, CollectRuleKeepsInv, FinishUnitKeepsInv DEF UnitStep
<1>3. CASE CallerStep
  BY <1>3, TakeKeepsInv, RecordKeepsInv, ReturnKeepsInv DEF CallerStep
<1>4. CASE Cancel
  BY <1>4, CancelKeepsInv
<1>5. CASE UNCHANGED vars
  <2>1. UNCHANGED <<caller, engine, detection, caches, cancelSet>>
    BY <1>5 DEF vars
  <2>2. TypeOK' /\ FailedAreExhausted'
    BY <2>1 DEF ExecutionInv, TypeOK, FailedAreExhausted, caller, engine, detection, caches
  <2> QED
    BY <2>1, <2>2, DetectionKeepsInv DEF detection
<1> QED
  BY <1>1, <1>2, <1>3, <1>4, <1>5 DEF Next

(* Every state the pools reach satisfies the invariant.                    *)
THEOREM ExecutionIsInvariant == Spec => []ExecutionInv
<1> QED
  BY InitKeepsInv, StepKeepsInv, PTL DEF Spec

(* The futures of the pools, the cache and the results stay of the kinds   *)
(* parallel_execution.py and engine.py keep them in, with no more threads  *)
(* taken than there are.                                                   *)
THEOREM ExecutionTypes == Spec => []TypeOK
<1>1. ExecutionInv => TypeOK
  BY DEF ExecutionInv
<1> QED
  BY <1>1, ExecutionIsInvariant, PTL

(* A report that worker_pool.py:89 enters is that of a complete execution: *)
(* one metric for every rule, failures only after the last attempt, and    *)
(* the violations of the rules that succeeded.                             *)
THEOREM RecordedReportsAreComplete == Spec => []ReportsAreComplete
<1>1. ExecutionInv => ReportsAreComplete
  <2> SUFFICES ASSUME ExecutionInv, NEW u \in Recorded
               PROVE  IsComplete(u, reports[u])
    BY DEF ReportsAreComplete
  <2>1. u \in Units /\ reports[u] = result[u] /\ CompleteResult(u)
    BY DEF ExecutionInv, RecordedAreResults, Recorded
  <2>2. /\ reports[u].metrics = metrics[u]
        /\ reports[u].violations = ViolationsIn(u, metrics[u])
        /\ Collected(u) = Rules
    BY <2>1 DEF CompleteResult
  <2>3. Len(metrics[u]) = Cardinality(Rules)
    BY <2>1, <2>2 DEF ExecutionInv, CollectedAreOutcomes
  <2>4. ASSUME NEW r \in Rules
        PROVE  \E i \in DOMAIN metrics[u] :
                 /\ metrics[u][i].rule = r
                 /\ ~metrics[u][i].success => attempts[u][r] = MaxRetries + 1
    <3>1. PICK i \in DOMAIN metrics[u] : metrics[u][i].rule = r
      BY <2>2 DEF Collected
    <3>2. ~metrics[u][i].success => rule[u][r] = "failed"
      BY <2>1, <3>1 DEF ExecutionInv, CollectedAreOutcomes
    <3> QED
      BY <2>1, <3>1, <3>2 DEF ExecutionInv, FailedAreExhausted
  <2> QED
    BY <2>2, <2>3, <2>4 DEF IsComplete
<1> QED
  BY <1>1, ExecutionIsInvariant, PTL

(* What execute_project returns says it was cancelled exactly if a report  *)
(* is missing, and its counters count the reports that are there.          *)
THEOREM CancellationIsReported == Spec => []CancelledMeansMissing
<1>1. ExecutionInv => CancelledMeansMissing
  BY DEF ExecutionInv, CallerIsConsistent, CancelledMeansMissing
<1> QED
  BY <1>1, ExecutionIsInvariant, PTL

-------------------------------------------------------------------------------
(* The cache.  A lookup that missed will be built once more, so builds are *)
(* bounded together with the threads that still hold a miss; these are     *)
(* threads of the pool, and none misses what has been stored.              *)

Detecting(u) == {r \in Rules : rule[u][r] = "detecting"}
Builders(u, a) == {r \in Rules : a \in building[u][r]}

BuildsInv ==
  /\ \A u \in Units, r \in Rules : building[u][r] # {} => rule[u][r] = "detecting"
  /\ \A u \in Units : Cardinality(Detecting(u)) <= RuleWorkers
  /\ \A u \in Units, a \in Analyses : a \notin cache[u] => builds[u][a] = 0
  /\ \A u \in Units, a \in Analyses :
       builds[u][a] + Cardinality(Builders(u, a)) <= RuleWorkers

LEMMA ThreadsAreCounted ==
  ASSUME NEW S \in SUBSET Rules
  PROVE  IsFiniteSet(S) /\ Cardinality(S) \in Nat
BY ConstantsAssumption, FS_Subset, FS_CardinalityType

LEMMA InitKeepsBuilds == Init => BuildsInv
<1> SUFFICES ASSUME Init PROVE BuildsInv
  OBVIOUS
<1>1. /\ \A u \in Units : Detecting(u) = {}
      /\ \A u \in Units, a \in Analyses : Builders(u, a) = {}
  BY DEF Init, Detecting, Builders
<1>2. /\ \A u \in Units, r \in Rules : building[u][r] = {}
      /\ \A u \in Units, a \in Analyses : builds[u][a] = 0
  BY DEF Init
<1>3. RuleWorkers \in Nat /\ Cardinality({}) = 0
  BY ConstantsAssumption, FS_EmptySet
<1>4. \A u \in Units : Cardinality(Detecting(u)) <= RuleWorkers
  <2>1. \A u \in Units : Cardinality(Detecting(u)) = 0
    BY <1>1, <1>3
  <2> QED
    BY <1>3, <2>1
<1>5. \A u \in Units, a \in Analyses :
        builds[u][a] + Cardinality(Builders(u, a)) <= RuleWorkers
  <2>1. \A u \in Units, a \in Analyses : Cardinality(Builders(u, a)) = 0
    BY <1>1, <1>3
  <2> QED
    BY <1>2, <1>3, <2>1
<1> QED
  BY <1>2, <1>4, <1>5 DEF BuildsInv

(* Steps of a rule's thread that begin no build and end none.              *)
LEMMA IdleKeepsBuilds ==
  ASSUME TypeOK, TypeOK', BuildsInv, UNCHANGED caches,
         \A u \in Units, r \in Rules : building'[u][r] \subseteq building[u][r],
         \A u \in Units, r \in Rules : building'[u][r] # {} => rule'[u][r] = "detecting",
         \A u \in Units : Cardinality(Detecting(u)') <= RuleWorkers
  PROVE  BuildsInv'
<1>1. ASSUME NEW u \in Units, NEW a \in Analyses
      PROVE  builds'[u][a] + Cardinality(Builders(u, a)') <= RuleWorkers
  <2>1. Builders(u, a)' \subseteq Builders(u, a)
    BY DEF Builders
  <2>2. IsFiniteSet(Builders(u, a)) /\ Cardinality(Builders(u, a)) \in Nat
    BY ThreadsAreCounted DEF Builders
  <2>3. Cardinality(Builders(u, a)') \in Nat
    BY ThreadsAreCounted DEF Builders
  <2>4. Cardinality(Builders(u, a)') <= Cardinality(Builders(u, a))
    BY <2>1, <2>2, FS_Subset
  <2>5. builds'[u][a] = builds[u][a] /\ builds[u][a] \in Nat
    BY DEF TypeOK, caches
  <2>6. builds[u][a] + Cardinality(Builders(u, a)) <= RuleWorkers
    BY DEF BuildsInv
  <2> QED
    BY <2>2, <2>3, <2>4, <2>5, <2>6, ConstantsAssumption
<1> QED
  BY <1>1 DEF BuildsInv, caches

(* A thread that leaves "detecting", or stays, takes no place in the pool. *)
LEMMA FewerDetecting ==
  ASSUME BuildsInv, NEW u \in Units, Detecting(u)' \subseteq Detecting(u)
  PROVE  Cardinality(Detecting(u)') <= RuleWorkers
<1>1. IsFiniteSet(Detecting(u)) /\ Cardinality(Detecting(u)) \in Nat
  BY ThreadsAreCounted DEF Detecting
<1>2. Cardinality(Detecting(u)') \in Nat
  BY ThreadsAreCounted DEF Detecting
<1>3. Cardinality(Detecting(u)') <= Cardinality(Detecting(u))
  BY <1>1, FS_Subset
<1> QED
  BY <1>1, <1>2, <1>3, ConstantsAssumption DEF BuildsInv

LEMMA StartRuleKeepsBuilds ==
  ASSUME TypeOK, TypeOK', BuildsInv, NEW u \in Units, NEW r \in Rules, StartRule(u, r)
  PROVE  BuildsInv'
<1>1. UNCHANGED <<building, caches>> /\ rule' = [rule EXCEPT ![u][r] = "detecting"]
  BY DEF StartRule
<1>2. ASSUME NEW v \in Units PROVE Cardinality(Detecting(v)') <= RuleWorkers
  <2>1. CASE v = u
    <3>1. Detecting(u)' = Detecting(u) \cup {r}
      BY <1>1 DEF Detecting, TypeOK
    <3>2. Cardinality(Detecting(u)) < RuleWorkers
      BY DEF StartRule, Detecting
    <3>3. IsFiniteSet(Detecting(u)) /\ Cardinality(Detecting(u)) \in Nat
      BY ThreadsAreCounted DEF Detecting
    <3>4. Cardinality(Detecting(u)') <= Cardinality(Detecting(u)) + 1
      BY <3>1, <3>3, FS_AddElement
    <3>5. Cardinality(Detecting(u)') \in Nat
      BY ThreadsAreCounted DEF Detecting
    <3> QED
      BY <2>1, <3>2, <3>3, <3>4, <3>5, ConstantsAssumption
  <2>2. CASE v # u
    <3>1. Detecting(v)' = Detecting(v)
      BY <1>1, <2>2 DEF Detecting, TypeOK
    <3> QED
      BY <3>1, FewerDetecting
  <2> QED
    BY <2>1, <2>2
<1>3. \A v \in Units, q \in Rules : building'[v][q] # {} => rule'[v][q] = "detecting"
  BY <1>1 DEF BuildsInv, TypeOK
<1> QED
  BY <1>1, <1>2, <1>3, IdleKeepsBuilds

LEMMA EndAttemptKeepsBuilds ==
  ASSUME TypeOK, TypeOK', BuildsInv, NEW u \in Units, NEW r \in Rules,
         DetectReturns(u, r) \/ DetectRaises(u, r)
  PROVE  BuildsInv'
<1>1. UNCHANGED caches
  BY DEF DetectReturns, DetectRaises
<1>2. building'[u][r] = {}
  BY DEF DetectReturns, DetectRaises, TypeOK
<1>3. \A v \in Units, q \in Rules :
        v # u \/ q # r => building'[v][q] = building[v][q] /\ rule'[v][q] = rule[v][q]
  <2>1. \/ UNCHANGED building
        \/ building' = [building EXCEPT ![u][r] = {}]
    BY DEF DetectReturns, DetectRaises
  <2>2. PICK outcome \in RuleStates :
          rule' = rule \/ rule' = [rule EXCEPT ![u][r] = outcome]
    BY DEF DetectReturns, DetectRaises, RuleStates
  <2>3. \A v \in Units, q \in Rules :
          v # u \/ q # r => building'[v][q] = building[v][q]
    BY <2>1 DEF TypeOK
  <2>4. \A v \in Units, q \in Rules : v # u \/ q # r => rule'[v][q] = rule[v][q]
    BY <2>2 DEF TypeOK
  <2> QED
    BY <2>3, <2>4
<1>4. rule[u][r] = "detecting"
  BY DEF DetectReturns, DetectRaises
<1>5. ASSUME NEW v \in Units PROVE Cardinality(Detecting(v)') <= RuleWorkers
  <2>1. Detecting(v)' \subseteq Detecting(v)
    BY <1>3, <1>4 DEF Detecting
  <2> QED
    BY <2>1, FewerDetecting
<1>6. \A v \in Units, q \in Rules :
        /\ building'[v][q] \subseteq building[v][q]
        /\ building'[v][q] # {} => rule'[v][q] = "detecting"
  BY <1>2, <1>3 DEF BuildsInv
<1> QED
  BY <1>1, <1>5, <1>6, IdleKeepsBuilds

LEMMA MissKeepsBuilds ==
  ASSUME TypeOK, TypeOK', BuildsInv, NEW u \in Units, NEW r \in Rules, NEW a \in Analyses,
         Miss(u, r, a)
  PROVE  BuildsInv'
<1>1. /\ building' = [building EXCEPT ![u][r] = building[u][r] \cup {a}]
      /\ UNCHANGED <<rule, cache, builds>>
      /\ rule[u][r] = "detecting" /\ a \notin cache[u]
  BY DEF Miss, Asks, caches
<1>2. \A v \in Units, q \in Rules : v # u \/ q # r => building'[v][q] = building[v][q]
  BY <1>1 DEF TypeOK
<1>3. building'[u][r] = building[u][r] \cup {a}
  BY <1>1 DEF TypeOK
<1>4. \A v \in Units, q \in Rules : building'[v][q] # {} => rule'[v][q] = "detecting"
  BY <1>1, <1>2 DEF BuildsInv
<1>5. ASSUME NEW v \in Units, NEW b \in Analyses
      PROVE  builds'[v][b] + Cardinality(Builders(v, b)') <= RuleWorkers
  <2>1. CASE v = u /\ b = a
    <3>1. Builders(u, a)' \subseteq Detecting(u)
      BY <1>1, <1>4 DEF Builders, Detecting
    <3>2. IsFiniteSet(Detecting(u)) /\ Cardinality(Detecting(u)) \in Nat
      BY ThreadsAreCounted DEF Detecting
    <3>3. Cardinality(Builders(u, a)') <= Cardinality(Detecting(u))
      BY <3>1, <3>2, FS_Subset
    <3>4. Cardinality(Builders(u, a)') \in Nat
      BY ThreadsAreCounted DEF Builders
    <3>5. builds'[u][a] = 0
      BY <1>1 DEF BuildsInv
    <3>6. Cardinality(Detecting(u)) <= RuleWorkers
      BY DEF BuildsInv
    <3> QED
      BY <2>1, <3>2, <3>3, <3>4, <3>5, <3>6, ConstantsAssumption
  <2>2. CASE ~(v = u /\ b = a)
    <3>1. Builders(v, b)' = Builders(v, b)
      BY <1>2, <1>3, <2>2 DEF Builders
    <3> QED
      BY <1>1, <3>1 DEF BuildsInv
  <2> QED
    BY <2>1, <2>2
<1>6. \A v \in Units : Detecting(v)' = Detecting(v)
  BY <1>1 DEF Detecting
<1> QED
  BY <1>1, <1>4, <1>5, <1>6 DEF BuildsInv

LEMMA BuildKeepsBuilds ==
  ASSUME TypeOK, TypeOK', BuildsInv, NEW u \in Units, NEW r \in Rules, NEW a \in Analyses,
         Build(u, r, a)
  PROVE  BuildsInv'
<1>1. /\ building' = [building EXCEPT ![u][r] = building[u][r] \ {a}]
      /\ builds' = [builds EXCEPT ![u][a] = builds[u][a] + 1]
      /\ cache' = [cache EXCEPT ![u] = cache[u] \cup {a}]
      /\ rule' = rule
      /\ a \in building[u][r]
  BY DEF Build
<1>2. \A v \in Units, q \in Rules : v # u \/ q # r => building'[v][q] = building[v][q]
  BY <1>1 DEF TypeOK
<1>3. building'[u][r] = building[u][r] \ {a}
  BY <1>1 DEF TypeOK
<1>4. \A v \in Units, q \in Rules : building'[v][q] # {} => rule'[v][q] = "detecting"
  BY <1>1, <1>2 DEF BuildsInv
<1>5. \A v \in Units, b \in Analyses :
        ~(v = u /\ b = a) => builds'[v][b] = builds[v][b]
  BY <1>1 DEF TypeOK
<1>6. ASSUME NEW v \in Units, NEW b \in Analyses
      PROVE  builds'[v][b] + Cardinality(Builders(v, b)') <= RuleWorkers
  <2>1. CASE v = u /\ b = a
    <3>1. Builders(u, a)' = Builders(u, a) \ {r} /\ r \in Builders(u, a)
      BY <1>1, <1>2, <1>3 DEF Builders
    <3>2. IsFiniteSet(Builders(u, a)) /\ Cardinality(Builders(u, a)) \in Nat
      BY ThreadsAreCounted DEF Builders
    <3>3. Cardinality(Builders(u, a)') = Cardinality(Builders(u, a)) - 1
      BY <3>1, <3>2, FS_RemoveElement
    <3>4. builds'[u][a] = builds[u][a] + 1 /\ builds[u][a] \in Nat
      BY <1>1 DEF TypeOK
    <3>5. builds[u][a] + Cardinality(Builders(u, a)) <= RuleWorkers
      BY DEF BuildsInv
    <3> QED
      BY <2>1, <3>2, <3>3, <3>4, <3>5, ConstantsAssumption
  <2>2. CASE ~(v = u /\ b = a)
    <3>1. Builders(v, b)' = Builders(v, b)
      BY <1>2, <1>3, <2>2 DEF Builders
    <3> QED
      BY <1>5, <2>2, <3>1 DEF BuildsInv
  <2> QED
    BY <2>1, <2>2
<1>7. \A v \in Units : Detecting(v)' = Detecting(v)
  BY <1>1 DEF Detecting
<1>8. \A v \in Units, b \in Analyses : b \notin cache'[v] => builds'[v][b] = 0
  <2> SUFFICES ASSUME NEW v \in Units, NEW b \in Analyses, b \notin cache'[v]
               PROVE  builds'[v][b] = 0
    OBVIOUS
  <2>1. ~(v = u /\ b = a) /\ b \notin cache[v]
    BY <1>1 DEF TypeOK
  <2> QED
    BY <1>5, <2>1 DEF BuildsInv
<1> QED
  BY <1>1, <1>4, <1>6, <1>7, <1>8 DEF BuildsInv

LEMMA StepKeepsBuilds ==
  ASSUME TypeOK, TypeOK', BuildsInv, [Next]_vars
  PROVE  BuildsInv'
<1>1. ASSUME UNCHANGED <<rule, building, caches>> PROVE BuildsInv'
  BY <1>1 DEF BuildsInv, Detecting, Builders, caches
<1>2. ASSUME NEW u \in Units, NEW r \in Rules, RuleStep(u, r) PROVE BuildsInv'
  <2>1. ASSUME NEW a \in Analyses, Hit(u, r, a) PROVE BuildsInv'
    BY <1>1, <2>1 DEF Hit
  <2> QED
    BY <1>2, <2>1, StartRuleKeepsBuilds, MissKeepsBuilds, BuildKeepsBuilds,
       EndAttemptKeepsBuilds DEF RuleStep
<1>3. ASSUME NEW u \in Units, UnitStep(u) PROVE BuildsInv'
  BY <1>1, <1>3 DEF UnitStep, StartUnit, CollectRule, FinishUnit, detection
<1>4. CASE CallerStep \/ Cancel
  BY <1>1, <1>4 DEF CallerStep, Take, Record, Return, Cancel, detection
<1>5. CASE UNCHANGED vars
  BY <1>1, <1>5 DEF vars, detection
<1> QED
  BY <1>2, <1>3, <1>4, <1>5 DEF Next

(* Though analysis_cache.py:80-86 looks up, builds and stores without a    *)
(* lock, no analysis is built more often than the pool has threads.        *)
THEOREM BuildsStayBounded == Spec => []BuildsAreBounded
<1>1. ExecutionInv => TypeOK
  BY DEF ExecutionInv
<1>2. TypeOK /\ BuildsInv => BuildsAreBounded
  <2> SUFFICES ASSUME TypeOK, BuildsInv, NEW u \in Units, NEW a \in Analyses
               PROVE  builds[u][a] <= RuleWorkers
    BY DEF BuildsAreBounded
  <2>1. Cardinality(Builders(u, a)) \in Nat
    BY ThreadsAreCounted DEF Builders
  <2>2. builds[u][a] \in Nat
    BY DEF TypeOK
  <2>3. builds[u][a] + Cardinality(Builders(u, a)) <= RuleWorkers
    BY DEF BuildsInv
  <2> QED
    BY <2>1, <2>2, <2>3, ConstantsAssumption
<1>3. TypeOK /\ TypeOK' /\ BuildsInv /\ [Next]_vars => BuildsInv'
  BY StepKeepsBuilds
<1> QED
  BY <1>1, <1>2, <1>3, ExecutionIsInvariant, InitKeepsBuilds, PTL DEF Spec

-------------------------------------------------------------------------------
(* Refinement.  A report is determined by the rules that gave up, and only *)
(* a rule that may raise does; the call says it was cancelled only after   *)
(* cancel().                                                               *)

GaveUp(u) == {r \in Rules : rule[u][r] = "failed"}

OutcomesHaveCauses ==
  /\ \A u \in Units : GaveUp(u) \subseteq Flaky
  /\ progress.cancelled => cancelSet

LEMMA StepKeepsCauses ==
  ASSUME TypeOK, OutcomesHaveCauses, [Next]_vars
  PROVE  OutcomesHaveCauses'
<1>1. ASSUME NEW u \in Units, NEW r \in Rules, RuleStep(u, r)
      PROVE  OutcomesHaveCauses'
  <2>1. UNCHANGED <<progress, cancelSet>>
    BY <1>1 DEF RuleStep, StartRule, Hit, Miss, Build, DetectReturns, DetectRaises, caller
  <2>2. PICK state \in {"detecting", "ok", "failed"} :
          /\ rule' = rule \/ rule' = [rule EXCEPT ![u][r] = state]
          /\ state = "failed" => r \in Flaky
    <3>1. CASE rule' = rule
      BY <3>1
    <3>2. CASE DetectRaises(u, r)
      BY <3>2 DEF DetectRaises
    <3> QED
      BY <1>1, <3>1, <3>2 DEF RuleStep, StartRule, Hit, Miss, Build, DetectReturns
  <2>3. \A v \in Units : GaveUp(v)' \subseteq Flaky
    <3> SUFFICES ASSUME NEW v \in Units, NEW q \in Rules, rule'[v][q] = "failed"
                 PROVE  q \in Flaky
      BY DEF GaveUp
    <3>1. rule'[v][q] = rule[v][q] \/ (v = u /\ q = r /\ rule'[v][q] = state)
      BY <2>2 DEF TypeOK
    <3> QED
      BY <2>2, <3>1 DEF OutcomesHaveCauses, GaveUp
  <2> QED
    BY <2>1, <2>3 DEF OutcomesHaveCauses
<1>2. ASSUME NEW u \in Units, UnitStep(u)
      PROVE  OutcomesHaveCauses'
  <2>1. UNCHANGED <<progress, cancelSet, rule>>
    BY <1>2 DEF UnitStep, StartUnit, CollectRule, FinishUnit, caller, detection
  <2> QED
    BY <2>1 DEF OutcomesHaveCauses, GaveUp
<1>3. CASE CallerStep
  <2>1. UNCHANGED <<cancelSet, rule>>
    BY <1>3 DEF CallerStep, Take, Record, Return, detection
  <2>2. progress'.cancelled = progress.cancelled \/ cancelSet
    BY <1>3 DEF CallerStep, Take, Record, Return, TypeOK
  <2> QED
    BY <2>1, <2>2 DEF OutcomesHaveCauses, GaveUp
<1>4. CASE Cancel
  BY <1>4 DEF Cancel, OutcomesHaveCauses, GaveUp, detection
<1>5. CASE UNCHANGED vars
  BY <1>5 DEF vars, caller, detection, OutcomesHaveCauses, GaveUp
<1> QED
  BY <1>1, <1>2, <1>3, <1>4, <1>5 DEF Next

(* The report of a unit lists each rule once, with whether it gave up, and *)
(* holds what the others found: the order of collection does not matter.   *)
LEMMA ResultIsReport ==
  ASSUME ExecutionInv, NEW u \in Units, CompleteResult(u)
  PROVE  Execution!IsReportOf(result[u], u, GaveUp(u))
<1> DEFINE ms == metrics[u]
           F == GaveUp(u)
<1>1. /\ result[u].metrics = ms /\ result[u].violations = ViolationsIn(u, ms)
      /\ Len(ms) = Cardinality(Rules) /\ Collected(u) = Rules
  BY DEF CompleteResult, ExecutionInv, CollectedAreOutcomes
<1>2. ASSUME NEW i \in DOMAIN ms
      PROVE  /\ ms[i].rule \in Rules
             /\ ms[i] = [rule |-> ms[i].rule, success |-> ms[i].rule \notin F]
  <2>1. ms[i] \in Metric
    BY DEF ExecutionInv, TypeOK
  <2>2. rule[u][ms[i].rule] = IF ms[i].success THEN "ok" ELSE "failed"
    BY DEF ExecutionInv, CollectedAreOutcomes
  <2>3. ms[i].rule \in Rules /\ ms[i].success \in BOOLEAN
        /\ ms[i] = [rule |-> ms[i].rule, success |-> ms[i].success]
    BY <2>1 DEF Metric
  <2>4. ms[i].success = (ms[i].rule \notin F)
    BY <2>2, <2>3 DEF GaveUp
  <2> QED
    BY <2>3, <2>4, Zenon
<1>3. ASSUME NEW r \in Rules
      PROVE  \E i \in DOMAIN ms : ms[i].rule = r
  BY <1>1 DEF Collected
<1>4. \A i, j \in DOMAIN ms : ms[i].rule = ms[j].rule => i = j
  <2> DEFINE D == 1 .. Len(ms)
             f == [i \in D |-> ms[i].rule]
  <2>1. Len(ms) \in Nat /\ DOMAIN ms = D
    BY DEF ExecutionInv, TypeOK
  <2>2. IsFiniteSet(D) /\ Cardinality(D) = Cardinality(Rules)
    BY <1>1, <2>1, FS_Interval
  <2>3. f \in Surjection(D, Rules)
    BY <1>2, <1>3, <2>1 DEF Surjection
  <2>4. f \in Injection(D, Rules)
    BY <2>2, <2>3, FS_Surjection
  <2> QED
    BY <2>1, <2>4 DEF Injection, IsInjective
<1> HIDE DEF ms, F
<1>5. {ms[i] : i \in DOMAIN ms} = {[rule |-> r, success |-> r \notin F] : r \in Rules}
  <2>1. ASSUME NEW i \in DOMAIN ms
        PROVE  ms[i] \in {[rule |-> r, success |-> r \notin F] : r \in Rules}
    BY <1>2, Zenon
  <2>2. ASSUME NEW r \in Rules
        PROVE  [rule |-> r, success |-> r \notin F] \in {ms[i] : i \in DOMAIN ms}
    <3>1. PICK i \in DOMAIN ms : ms[i].rule = r
      BY <1>3
    <3>2. ms[i] = [rule |-> r, success |-> r \notin F]
      BY <1>2, <3>1, Zenon
    <3> QED
      BY <3>2, Zenon
  <2> QED
    BY <2>1, <2>2
<1>6. \A i \in DOMAIN ms : ms[i].success <=> ms[i].rule \notin F
  <2>1. ASSUME NEW i \in DOMAIN ms PROVE ms[i].success <=> ms[i].rule \notin F
    <3> DEFINE m == [rule |-> ms[i].rule, success |-> ms[i].rule \notin F]
    <3>1. m.success <=> ms[i].rule \notin F
      BY Zenon
    <3>2. ms[i].success = m.success
      BY <1>2, Zenon
    <3> QED
      BY <3>1, <3>2, Zenon
  <2> QED
    BY <2>1
<1>7. ViolationsIn(u, ms) = UNION {Detects[r][u] : r \in Rules \ F}
  <2>1. \A i \in DOMAIN ms : ms[i].success => ms[i].rule \in Rules \ F
    BY <1>2, <1>6
  <2>2. \A r \in Rules \ F : \E i \in DOMAIN ms : ms[i].rule = r /\ ms[i].success
    BY <1>3, <1>6
  <2> QED
    BY <2>1, <2>2 DEF ViolationsIn
<1> QED
  BY <1>1, <1>5, <1>7, <1>4 DEF Execution!IsReportOf, ms, F

LEMMA RecordEnters ==
  ASSUME ExecutionInv, OutcomesHaveCauses, Record
  PROVE  \E u \in Units : Execution!Enter(u)
<1>1. /\ hand \in Units /\ hand \notin Recorded /\ hand \in yielded /\ CompleteResult(hand)
      /\ main = "record"
  BY DEF Record, ExecutionInv, RecordedAreResults, TypeOK
<1>2. reports' = [reports EXCEPT ![hand] = result[hand]] /\ reports'[hand] = result[hand]
  BY <1>1 DEF Record, ExecutionInv, TypeOK
<1>3. reports[hand] = None /\ result[hand] # None
  BY <1>1 DEF Recorded, ExecutionInv, RecordedAreResults, ResultsAreComplete
<1>4. Execution!IsReportOf(reports'[hand], hand, GaveUp(hand)) /\ GaveUp(hand) \subseteq Flaky
  BY <1>1, <1>2, ResultIsReport DEF OutcomesHaveCauses
<1>5. main' \in {"shutdown", "collect"} /\ cancelSet' = cancelSet
  BY DEF Record
<1>6. \E F \in SUBSET Flaky : Execution!IsReportOf(reports'[hand], hand, F)
  BY <1>4
<1>7. /\ reports' = [reports EXCEPT ![hand] = reports'[hand]] /\ reports'[hand] # None
      /\ ~(cancelSet /\ main # "record")
      /\ (cancelSet /\ main # "record")' = cancelSet
      /\ main # "returned" /\ main' # "returned"
  BY <1>1, <1>2, <1>3, <1>5 DEF ExecutionInv, TypeOK
<1> QED
  BY <1>1, <1>3, <1>5, <1>6, <1>7 DEF Execution!Enter

LEMMA ReturnAnswers ==
  ASSUME ExecutionInv, OutcomesHaveCauses, Return
  PROVE  Execution!Answer
<1>1. UNCHANGED <<reports, cancelSet, progress>> /\ main = "shutdown" /\ main' = "returned"
  BY DEF Return
<1>2. progress.cancelled <=> Recorded # Units
  BY <1>1 DEF ExecutionInv, CallerIsConsistent
<1> QED
  BY <1>1, <1>2 DEF Execution!Answer, Recorded, OutcomesHaveCauses

(* worker_pool.py:61-104 makes one execution of many threads: reports      *)
(* enter one at a time and stay, each determined by the rules that gave    *)
(* up; after cancel() at most one more enters; and the answer says whether *)
(* one is missing.                                                         *)
THEOREM PoolsImplementExecution == Spec => ImplementsExecution
<1>1. Init => Execution!Init /\ OutcomesHaveCauses
  BY DEF Init, Execution!Init, OutcomesHaveCauses, GaveUp
<1>2. ExecutionInv /\ OutcomesHaveCauses /\ [Next]_vars => [Execution!Next]_(Execution!vars)
  <2> SUFFICES ASSUME ExecutionInv, OutcomesHaveCauses, [Next]_vars
               PROVE  Execution!Next \/ UNCHANGED Execution!vars
    OBVIOUS
  <2>1. CASE UNCHANGED <<main, reports, progress, cancelSet>>
    BY <2>1 DEF Execution!vars
  <2>2. ASSUME NEW u \in Units, NEW r \in Rules, RuleStep(u, r)
        PROVE  UNCHANGED <<main, reports, progress, cancelSet>>
    BY <2>2 DEF RuleStep, StartRule, Hit, Miss, Build, DetectReturns, DetectRaises, caller
  <2>3. ASSUME NEW u \in Units, UnitStep(u)
        PROVE  UNCHANGED <<main, reports, progress, cancelSet>>
    BY <2>3 DEF UnitStep, StartUnit, CollectRule, FinishUnit, caller
  <2>4. ASSUME NEW u \in Units, Take(u)
        PROVE  UNCHANGED Execution!vars
    BY <2>4 DEF Take, Execution!vars
  <2>5. CASE Record
    BY <2>5, RecordEnters DEF Execution!Next
  <2>6. CASE Return
    BY <2>6, ReturnAnswers DEF Execution!Next
  <2>7. CASE Cancel
    BY <2>7 DEF Cancel, caller, Execution!Next, Execution!Cancel
  <2>8. CASE UNCHANGED vars
    BY <2>8, <2>1 DEF vars, caller
  <2> QED
    BY <2>1, <2>2, <2>3, <2>4, <2>5, <2>6, <2>7, <2>8 DEF Next, CallerStep
<1>3. ExecutionInv /\ OutcomesHaveCauses /\ [Next]_vars => OutcomesHaveCauses'
  BY StepKeepsCauses DEF ExecutionInv
<1> QED
  BY <1>1, <1>2, <1>3, ExecutionIsInvariant, PTL DEF Spec, ImplementsExecution, Execution!Spec
===============================================================================
