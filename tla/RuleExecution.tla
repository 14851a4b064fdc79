----------------------------- MODULE RuleExecution -----------------------------
(***************************************************************************)
(* WorkerPool.execute_project: a pool of threads executes translation      *)
(* units, the thread of a unit opens a pool of its own and executes the    *)
(* rules of the unit in it, and the caller collects unit reports as they   *)
(* finish until all are in or someone has called cancel().  The rules of   *)
(* one unit share its AnalysisCache, which they fill without a lock.       *)
(*                                                                         *)
(* The threads interleave between any two calls.  What a detect() does is  *)
(* reduced to the analyses it asks the cache for, in any order, and to its *)
(* outcome: a set of violations, or an exception.                          *)
(***************************************************************************)
EXTENDS Naturals, Sequences, FiniteSets

CONSTANTS
  Units,         \* the jobs: one translation unit each
  Rules,         \* the rules every job executes
  TuWorkers,     \* tu_workers
  RuleWorkers,   \* max_workers of the rule engine, for each unit
  MaxRetries,    \* max_retries
  Analyses,      \* cached analyses of the one function of a unit
  Requires,      \* analysis -> the analyses asked for while it is built
  Needs,         \* rule -> unit -> the analyses its detect() asks for
  Flaky,         \* rules whose detect() may raise
  Detects,       \* rule -> unit -> the fingerprints of what detect() returns
  Cancellable,   \* whether someone may call cancel()
  None           \* absence: no report, no unit in hand

ASSUME ConstantsAssumption ==
  /\ IsFiniteSet(Units) /\ Units # {} /\ IsFiniteSet(Rules)
  /\ TuWorkers \in Nat \ {0} /\ RuleWorkers \in Nat \ {0} /\ MaxRetries \in Nat
  /\ Requires \in [Analyses -> SUBSET Analyses]
  /\ Needs \in [Rules -> [Units -> SUBSET Analyses]]
  /\ Flaky \subseteq Rules
  /\ Cancellable \in BOOLEAN
  /\ None \notin Units

VARIABLES
  \* the caller of execute_project
  main,       \* what it does next
  hand,       \* the unit whose future as_completed has just yielded
  yielded,    \* units whose future as_completed has yielded
  reports,    \* unit -> its entry of translation_unit_reports, or None
  progress,   \* WorkerProgress
  cancelSet,  \* _cancel_event
  \* the threads of the units
  unit,       \* unit -> state of its future
  metrics,    \* unit -> report.metrics so far, in the order of collection
  result,     \* unit -> the ExecutionReport of its future, or None
  \* the threads of the rules
  rule,       \* unit -> rule -> state of its future
  attempts,   \* unit -> rule -> attempts begun
  building,   \* unit -> rule -> analyses missed in the cache, not yet stored
  got,        \* unit -> rule -> analyses obtained in this attempt
  \* the AnalysisCache of each unit
  cache,      \* unit -> analyses it holds
  builds      \* unit -> analysis -> how often it was built

caller == <<main, hand, yielded, reports, progress>>
engine == <<unit, metrics, result>>
detection == <<rule, attempts, building, got>>
caches == <<cache, builds>>
vars == <<caller, cancelSet, engine, detection, caches>>

-------------------------------------------------------------------------------
(* Types                                                                   *)

CallerSteps == {"collect", "record", "shutdown", "returned"}
UnitStates == {"waiting", "running", "done"}
RuleStates == {"queued", "detecting", "ok", "failed"}
Finished == {"ok", "failed"}

Metric == [rule : Rules, success : BOOLEAN]
Fingerprints == UNION {Detects[r][u] : r \in Rules, u \in Units}
Report == [metrics : Seq(Metric), violations : SUBSET Fingerprints]
EmptyReport == [metrics |-> <<>>, violations |-> {}]

ASSUME NoneAssumption == None \notin Report

TypeOK ==
  /\ main \in CallerSteps
  /\ hand \in Units \cup {None}
  /\ yielded \subseteq Units
  /\ reports \in [Units -> Report \cup {None}]
  /\ progress \in [completed : Nat, rulesExecuted : Nat, cancelled : BOOLEAN]
  /\ cancelSet \in BOOLEAN
  /\ unit \in [Units -> UnitStates]
  /\ metrics \in [Units -> Seq(Metric)]
  /\ result \in [Units -> Report \cup {None}]
  /\ rule \in [Units -> [Rules -> RuleStates]]
  /\ attempts \in [Units -> [Rules -> 0 .. MaxRetries + 1]]
  /\ building \in [Units -> [Rules -> SUBSET Analyses]]
  /\ got \in [Units -> [Rules -> SUBSET Analyses]]
  /\ cache \in [Units -> SUBSET Analyses]
  /\ builds \in [Units -> [Analyses -> Nat]]

Init ==
  /\ main = "collect"
  /\ hand = None
  /\ yielded = {}
  /\ reports = [u \in Units |-> None]
  /\ progress = [completed |-> 0, rulesExecuted |-> 0, cancelled |-> FALSE]
  /\ cancelSet = FALSE
  /\ unit = [u \in Units |-> "waiting"]
  /\ metrics = [u \in Units |-> <<>>]
  /\ result = [u \in Units |-> None]
  /\ rule = [u \in Units |-> [r \in Rules |-> "queued"]]
  /\ attempts = [u \in Units |-> [r \in Rules |-> 0]]
  /\ building = [u \in Units |-> [r \in Rules |-> {}]]
  /\ got = [u \in Units |-> [r \in Rules |-> {}]]
  /\ cache = [u \in Units |-> {}]
  /\ builds = [u \in Units |-> [a \in Analyses |-> 0]]

-------------------------------------------------------------------------------
(* The threads of the units                                                *)

Running == {u \in Units : unit[u] = "running"}
Recorded == {u \in Units : reports[u] # None}

(* A plausible slip: once the flag is set, waiting units are left alone.   *)
StartUnitUnlessCancelled(u) ==
  /\ unit[u] = "waiting"
  /\ ~cancelSet
  /\ Cardinality(Running) < TuWorkers
  /\ unit' = [unit EXCEPT ![u] = "running"]
  /\ UNCHANGED <<caller, cancelSet, metrics, result, detection, caches>>

(* _execute_translation_unit: the flag is looked at once, before the rules *)
(* of the unit are submitted to a pool of their own.                       *)
StartUnit(u) ==
  /\ unit[u] = "waiting"
  /\ Cardinality(Running) < TuWorkers
  /\ IF cancelSet
     THEN /\ unit' = [unit EXCEPT ![u] = "done"]
          /\ result' = [result EXCEPT ![u] = EmptyReport]
     ELSE /\ unit' = [unit EXCEPT ![u] = "running"]
          /\ UNCHANGED result
  /\ UNCHANGED <<caller, cancelSet, metrics, detection, caches>>

Collected(u) == {metrics[u][i].rule : i \in DOMAIN metrics[u]}

(* The unit's thread takes the outcome of a rule that has finished.        *)
CollectRule(u, r) ==
  /\ unit[u] = "running"
  /\ rule[u][r] \in Finished
  /\ r \notin Collected(u)
  /\ metrics' = [metrics EXCEPT ![u] =
                   Append(@, [rule |-> r, success |-> rule[u][r] = "ok"])]
  /\ UNCHANGED <<caller, cancelSet, unit, result, detection, caches>>

(* A plausible slip: what a failed rule might have found is counted in.    *)
ViolationsOfAll(u, ms) == UNION {Detects[ms[i].rule][u] : i \in DOMAIN ms}

(* What the rules that succeeded have found.                               *)
ViolationsIn(u, ms) ==
  UNION {Detects[ms[i].rule][u] : i \in {i \in DOMAIN ms : ms[i].success}}

(* All futures of the wave are in: the report is deduplicated by           *)
(* fingerprint and becomes the result of the unit's future.                *)
FinishUnit(u) ==
  /\ unit[u] = "running"
  /\ Collected(u) = Rules
  /\ unit' = [unit EXCEPT ![u] = "done"]
  /\ result' = [result EXCEPT ![u] =
                  [metrics |-> metrics[u], violations |-> ViolationsIn(u, metrics[u])]]
  /\ UNCHANGED <<caller, cancelSet, metrics, detection, caches>>

-------------------------------------------------------------------------------
(* The threads of the rules: _execute_rule_safe                            *)

(* A thread of the unit's pool takes the rule; the first attempt begins.   *)
StartRule(u, r) ==
  /\ unit[u] = "running"
  /\ rule[u][r] = "queued"
  /\ Cardinality({q \in Rules : rule[u][q] = "detecting"}) < RuleWorkers
  /\ rule' = [rule EXCEPT ![u][r] = "detecting"]
  /\ attempts' = [attempts EXCEPT ![u][r] = 1]
  /\ UNCHANGED <<caller, cancelSet, engine, building, got, caches>>

(* The rule, or the analysis it is building, asks the cache for another.   *)
Asks(u, r, a) ==
  /\ rule[u][r] = "detecting"
  /\ a \notin got[u][r] \cup building[u][r]
  /\ IF building[u][r] = {} THEN a \in Needs[r][u]
     ELSE \E b \in building[u][r] : a \in Requires[b]

Hit(u, r, a) ==
  /\ Asks(u, r, a)
  /\ a \in cache[u]
  /\ got' = [got EXCEPT ![u][r] = @ \cup {a}]
  /\ UNCHANGED <<caller, cancelSet, engine, rule, attempts, building, caches>>

(* A lookup that found nothing; other threads run before the result is in. *)
Miss(u, r, a) ==
  /\ Asks(u, r, a)
  /\ a \notin cache[u]
  /\ building' = [building EXCEPT ![u][r] = @ \cup {a}]
  /\ UNCHANGED <<caller, cancelSet, engine, rule, attempts, got, caches>>

(* A plausible slip: the result is returned but not stored.                *)
BuildUnstored(u, r, a) ==
  /\ a \in building[u][r]
  /\ Requires[a] \subseteq got[u][r]
  /\ builds' = [builds EXCEPT ![u][a] = @ + 1]
  /\ building' = [building EXCEPT ![u][r] = @ \ {a}]
  /\ got' = [got EXCEPT ![u][r] = @ \cup {a}]
  /\ UNCHANGED <<caller, cancelSet, engine, rule, attempts, cache>>

(* The analysis is built, stored over what is there, counted and returned. *)
Build(u, r, a) ==
  /\ a \in building[u][r]
  /\ Requires[a] \subseteq got[u][r]
  /\ cache' = [cache EXCEPT ![u] = @ \cup {a}]
  /\ builds' = [builds EXCEPT ![u][a] = @ + 1]
  /\ building' = [building EXCEPT ![u][r] = @ \ {a}]
  /\ got' = [got EXCEPT ![u][r] = @ \cup {a}]
  /\ UNCHANGED <<caller, cancelSet, engine, rule, attempts>>

DetectReturns(u, r) ==
  /\ rule[u][r] = "detecting"
  /\ building[u][r] = {}
  /\ Needs[r][u] \subseteq got[u][r]
  /\ rule' = [rule EXCEPT ![u][r] = "ok"]
  /\ UNCHANGED <<caller, cancelSet, engine, attempts, building, got, caches>>

(* A plausible slip: one retry more than max_retries.                      *)
DetectRaisesOnceMore(u, r) ==
  /\ rule[u][r] = "detecting"
  /\ r \in Flaky
  /\ IF attempts[u][r] > MaxRetries + 1
     THEN /\ rule' = [rule EXCEPT ![u][r] = "failed"]
          /\ UNCHANGED attempts
     ELSE /\ attempts' = [attempts EXCEPT ![u][r] = @ + 1]
          /\ UNCHANGED rule
  /\ building' = [building EXCEPT ![u][r] = {}]
  /\ got' = [got EXCEPT ![u][r] = {}]
  /\ UNCHANGED <<caller, cancelSet, engine, caches>>

(* detect() raises, at any point; it is called again while retries are     *)
(* left.  What it had asked for is lost, what it had cached is not.        *)
DetectRaises(u, r) ==
  /\ rule[u][r] = "detecting"
  /\ r \in Flaky
  /\ IF attempts[u][r] > MaxRetries
     THEN /\ rule' = [rule EXCEPT ![u][r] = "failed"]
          /\ UNCHANGED attempts
     ELSE /\ attempts' = [attempts EXCEPT ![u][r] = @ + 1]
          /\ UNCHANGED rule
  /\ building' = [building EXCEPT ![u][r] = {}]
  /\ got' = [got EXCEPT ![u][r] = {}]
  /\ UNCHANGED <<caller, cancelSet, engine, caches>>

-------------------------------------------------------------------------------
(* The caller of execute_project                                           *)

(* Someone calls cancel() from another thread; nothing clears the flag.    *)
Cancel ==
  /\ Cancellable
  /\ ~cancelSet
  /\ cancelSet' = TRUE
  /\ UNCHANGED <<caller, engine, detection, caches>>

(* A plausible slip: the flag is only looked at by the units' threads.     *)
TakeUnchecked(u) ==
  /\ main = "collect"
  /\ unit[u] = "done" /\ u \notin yielded
  /\ yielded' = yielded \cup {u}
  /\ main' = "record"
  /\ hand' = u
  /\ UNCHANGED <<reports, progress, cancelSet, engine, detection, caches>>

(* as_completed yields a finished future; the loop is left if cancelled.   *)
Take(u) ==
  /\ main = "collect"
  /\ unit[u] = "done" /\ u \notin yielded
  /\ yielded' = yielded \cup {u}
  /\ IF cancelSet
     THEN /\ main' = "shutdown"
          /\ progress' = [progress EXCEPT !.cancelled = TRUE]
          /\ UNCHANGED hand
     ELSE /\ main' = "record"
          /\ hand' = u
          /\ UNCHANGED progress
  /\ UNCHANGED <<reports, cancelSet, engine, detection, caches>>

(* Enter the report; the loop ends when every future has been yielded.     *)
Record ==
  /\ main = "record"
  /\ reports' = [reports EXCEPT ![hand] = result[hand]]
  /\ progress' = [progress EXCEPT
                    !.completed = @ + 1,
                    !.rulesExecuted = @ + Len(result[hand].metrics)]
  /\ main' = IF yielded = Units THEN "shutdown" ELSE "collect"
  /\ hand' = None
  /\ UNCHANGED <<yielded, cancelSet, engine, detection, caches>>

(* A plausible slip: the flag itself is reported, whenever it was set.     *)
ReturnReportingFlag ==
  /\ main = "shutdown"
  /\ \A u \in Units : unit[u] = "done"
  /\ main' = "returned"
  /\ progress' = [progress EXCEPT !.cancelled = cancelSet]
  /\ UNCHANGED <<hand, yielded, reports, cancelSet, engine, detection, caches>>

(* Leaving the with block waits for every unit, cancelled or not.          *)
Return ==
  /\ main = "shutdown"
  /\ \A u \in Units : unit[u] = "done"
  /\ main' = "returned"
  /\ UNCHANGED <<hand, yielded, reports, progress, cancelSet, engine, detection, caches>>

-------------------------------------------------------------------------------
RuleStep(u, r) ==
  \/ StartRule(u, r)
  \/ \E a \in Analyses : Hit(u, r, a) \/ Miss(u, r, a) \/ Build(u, r, a)
  \/ DetectReturns(u, r)
  \/ DetectRaises(u, r)

UnitStep(u) ==
  \/ StartUnit(u)
  \/ \E r \in Rules : CollectRule(u, r)
  \/ FinishUnit(u)

CallerStep ==
  \/ \E u \in Units : Take(u)
  \/ Record
  \/ Return

Next ==
  \/ \E u \in Units, r \in Rules : RuleStep(u, r)
  \/ \E u \in Units : UnitStep(u)
  \/ CallerStep
  \/ Cancel

(* Threads are scheduled, and every detect() and every analysis ends.      *)
Fairness ==
  /\ \A u \in Units, r \in Rules : WF_vars(RuleStep(u, r))
  /\ \A u \in Units : WF_vars(UnitStep(u))
  /\ WF_vars(CallerStep)

Spec == Init /\ [][Next]_vars /\ Fairness

-------------------------------------------------------------------------------
(* Properties                                                              *)

(* Whenever cancel() is called, a report that was recorded is that of a    *)
(* complete execution: every rule has exactly one metric, whatever was     *)
(* retried; a rule is reported failed only after all its attempts; and the *)
(* violations are those of the rules that succeeded.  The empty report of  *)
(* a unit that cancellation skipped is never recorded.                     *)
IsComplete(u, report) ==
  /\ Len(report.metrics) = Cardinality(Rules)
  /\ \A r \in Rules : \E i \in DOMAIN report.metrics :
        /\ report.metrics[i].rule = r
        /\ ~report.metrics[i].success => attempts[u][r] = MaxRetries + 1
  /\ report.violations = ViolationsIn(u, report.metrics)

ReportsAreComplete == \A u \in Recorded : IsComplete(u, reports[u])

(* execute_project returns the reports of all units, or says that it was   *)
(* cancelled; and when it says so, at least one report is indeed missing.  *)
CancelledMeansMissing ==
  main = "returned" =>
    /\ progress.cancelled <=> Recorded # Units
    /\ progress.completed = Cardinality(Recorded)
    /\ progress.rulesExecuted = Cardinality(Recorded) * Cardinality(Rules)

(* The check-then-act of the cache wastes work, but boundedly: however the *)
(* rules of a unit interleave and retry, an analysis is built at most once *)
(* for every thread of the unit's pool.                                    *)
BuildsAreBounded ==
  \A u \in Units, a \in Analyses : builds[u][a] <= RuleWorkers

(* The pools implement one execution, whose reports enter in single steps: *)
(* the report of a unit is the same for every order in which its rules     *)
(* run, retry and fill the cache, and cancel() lets one more in at most.   *)
Execution == INSTANCE ProjectExecution WITH
  entered <- reports,
  asked <- cancelSet,
  closed <- cancelSet /\ main # "record",
  answer <- IF main # "returned" THEN "pending"
            ELSE IF progress.cancelled THEN "cancelled" ELSE "complete"

ImplementsExecution == Execution!Spec

(* No pool waits for another forever: execute_project returns, also after  *)
(* cancel().                                                               *)
ExecutionReturns == <>(main = "returned")

===============================================================================
