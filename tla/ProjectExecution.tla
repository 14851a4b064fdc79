--------------------------- MODULE ProjectExecution ---------------------------
(***************************************************************************)
(* What execute_project promises its caller: reports enter one by one and  *)
(* stay; each is that of a whole execution and depends on nothing but the  *)
(* rules that gave up, however threads, retries and the cache interleave;  *)
(* once cancel() has been called at most one more report enters; and the   *)
(* call answers with all reports or, if it was asked to stop, without      *)
(* some.                                                                   *)
(***************************************************************************)
CONSTANTS Units, Rules, Flaky, Detects, None

VARIABLES
  entered,  \* unit -> its report, or None
  asked,    \* cancel() has been called
  closed,   \* no further report will enter
  answer    \* "pending", "complete" or "cancelled"

vars == <<entered, asked, closed, answer>>

(* The report of u when the rules F have raised to the end: one metric for *)
(* each rule, in any order, and the findings of the others.                *)
IsReportOf(report, u, F) ==
  /\ \A i, j \in DOMAIN report.metrics :
       report.metrics[i].rule = report.metrics[j].rule => i = j
  /\ {report.metrics[i] : i \in DOMAIN report.metrics}
       = {[rule |-> r, success |-> r \notin F] : r \in Rules}
  /\ report.violations = UNION {Detects[r][u] : r \in Rules \ F}

Init ==
  /\ entered = [u \in Units |-> None]
  /\ ~asked /\ ~closed
  /\ answer = "pending"

Enter(u) ==
  /\ ~closed
  /\ entered[u] = None /\ entered'[u] # None
  /\ \E F \in SUBSET Flaky : IsReportOf(entered'[u], u, F)
  /\ entered' = [entered EXCEPT ![u] = entered'[u]]
  /\ closed' = asked
  /\ answer = "pending"
  /\ UNCHANGED <<asked, answer>>

(* A report on its way when cancel() is called may still enter.            *)
Cancel ==
  /\ ~asked /\ asked'
  /\ closed' \in BOOLEAN
  /\ UNCHANGED <<entered, answer>>

Answer ==
  /\ answer = "pending"
  /\ \/ answer' = "complete" /\ \A u \in Units : entered[u] # None
     \/ answer' = "cancelled" /\ asked /\ \E u \in Units : entered[u] = None
  /\ UNCHANGED <<entered, asked, closed>>

Next ==
  \/ \E u \in Units : Enter(u)
  \/ Cancel
  \/ Answer

Spec == Init /\ [][Next]_vars
===============================================================================
