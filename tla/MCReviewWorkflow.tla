--------------------------- MODULE MCReviewWorkflow ---------------------------
(***************************************************************************)
(* Small sets of requests on one or two violations.                        *)
(***************************************************************************)
EXTENDS ReviewWorkflow, TLC

CONSTANTS v1, v2, gone, ann

Review1(action, v) ==
  [kind |-> "review", ids |-> <<v>>, action |-> action,
   justified |-> TRUE, edited |-> TRUE, to |-> None]
Bulk(kind, ids) ==
  [kind |-> kind, ids |-> ids, action |-> IF kind = "skip" THEN "skip" ELSE None,
   justified |-> FALSE, edited |-> FALSE, to |-> IF kind = "assign" THEN ann ELSE None]

(* Every kind of request on one violation, and the ways to be refused.     *)
OneViolationJobs ==
  {Review1("accept", v1), Review1("reject", v1), Review1("edit", v1), Review1("accept", gone),
   [Review1("accept", v1) EXCEPT !.justified = FALSE],
   [Review1("edit", v1) EXCEPT !.edited = FALSE],
   Bulk("skip", <<v1>>), Bulk("assign", <<v1>>), Bulk("bulk_export", <<v1>>),
   Bulk("export", <<v1>>)}

(* Bulk requests in both orders, with an id sent twice or without a row.   *)
BulkJobs ==
  {Review1("accept", v1), Bulk("skip", <<v2, gone, v1>>), Bulk("assign", <<v1, v2, v1>>),
   Bulk("bulk_export", <<v1, gone>>)}

(* Reviews and exports of one violation, each of them valid.               *)
DecideAndExport ==
  {Review1("accept", v1), Review1("reject", v1), Bulk("bulk_export", <<v1>>),
   Bulk("export", <<v1>>)}
Decide == {Review1("accept", v1), Review1("reject", v1)}
===============================================================================
