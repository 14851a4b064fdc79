---------------------------- MODULE ReviewWorkflow ----------------------------
(***************************************************************************)
(* The requests by which engineers decide what happens to violations:      *)
(* submit_review, bulk_skip, bulk_assign_reviewer,                         *)
(* bulk_export_approved_patches and export_patch.  Each HTTP request has   *)
(* one database session; its handler flushes rows as it goes and commits   *)
(* once, at its end.  Handlers of several requests interleave at every     *)
(* await.  The database is external: it runs transactions at read          *)
(* committed, holds the lock of an updated row until its transaction ends, *)
(* and aborts one transaction of a deadlock.                               *)
(***************************************************************************)
EXTENDS Naturals, Sequences

CONSTANTS
  Requests,    \* the requests that may arrive, each at most once
  Violations,  \* ids of rows of the violations table
  Missing,     \* ids a client may send that have no row
  Reviewers,   \* engineers a violation can be assigned to
  Suggested,   \* the violations with suggested_fix_json
  Jobs,        \* what a request may ask for: a set of records, see JobShape
  MayFail,     \* whether handlers may fail at any await
  None         \* absence: no reviewer, no action, not loaded, not exported

Actions == {"accept", "reject", "edit", "skip", "false_positive", "suppress"}

(* The action itself becomes the status.                                   *)
ActionAsStatus == [a \in Actions |-> a]

ACTION_TO_STATUS ==
  [accept |-> "accepted", reject |-> "rejected", edit |-> "edited",
   skip |-> "skipped", false_positive |-> "false_positive", suppress |-> "suppressed"]

ACTIONS_REQUIRING_JUSTIFICATION == {"accept", "suppress", "false_positive"}
ACTIONS_GENERATING_PATCHES == {"accept", "edit"}
ApprovedStatuses == {"accepted", "edited"}
ViolationStatuses ==
  {"open", "accepted", "rejected", "edited", "skipped", "false_positive",
   "suppressed", "resolved"}

Ids == Violations \cup Missing
Row == [status : ViolationStatuses, assignee : Reviewers \cup {None}]

(* ids: violation_ids of a bulk request, at least one by its schema, or the*)
(* one violation of the URL.  justified, edited: the body has a long enough*)
(* justification, an edited fix.  to: the reviewer of an assignment.       *)
JobShape ==
  {j \in [kind : {"review", "skip", "assign", "bulk_export", "export"},
          ids : Seq(Ids), action : Actions \cup {None},
          justified : BOOLEAN, edited : BOOLEAN, to : Reviewers \cup {None}] :
     /\ j.ids # <<>>
     /\ j.kind \in {"review", "export"} => Len(j.ids) = 1
     /\ j.kind = "review" => j.action \in Actions
     /\ j.kind = "skip" => j.action = "skip"
     /\ j.kind = "assign" => j.to \in Reviewers}

ASSUME ConstantsAssumption ==
  /\ Violations \cap Missing = {}
  /\ Suggested \subseteq Violations
  /\ \A j \in Jobs : j \in JobShape
  /\ MayFail \in BOOLEAN
  /\ None \notin Requests \cup Reviewers \cup Actions \cup Row

VARIABLES
  \* the database; a row of the three ledgers is there for all to see once
  \* the request that inserted it has committed
  row,         \* violation -> [status, assignee]
  reviews,     \* violation_reviews
  patches,     \* patches: a request generates at most one
  audit,       \* audit_entries
  exportedBy,  \* patch (the request that generated it) -> exported_by
  clock,       \* the time: the created_at of the next review or patch
  \* the handlers and their sessions
  job,         \* request -> what it asks for
  pc,          \* request -> the next step of its handler
  work,        \* request -> what a loop has still to go over, the current one first
  handled,     \* request -> what the loops have collected
  mine,        \* request -> violation -> the object in its session, or None
  locks,       \* request -> rows it has updated in its open transaction
  \* history
  contended    \* violations that two open reviews had loaded at once

database == <<row, reviews, patches, audit, exportedBy, clock>>
session == <<work, handled, mine, locks>>
vars == <<database, job, pc, session, contended>>

-------------------------------------------------------------------------------
(* Types                                                                   *)

Steps == {"idle", "get", "insert", "update", "audit", "patch", "patch_audit",
          "assign", "list_patches", "mark", "summary", "commit",
          "committed", "refused"}

(* What an update locks: a row of violations or a row of patches.  The     *)
(* columns of a violation row that changed are the ones written back.      *)
Lockable == ({"status", "assignee"} \X Violations) \cup ({"patch"} \X Requests)

Review == [by : Requests, at : Nat, item : Nat, violation : Violations, action : Actions,
           old : ViolationStatuses, new : ViolationStatuses \ {"open"}]
Patch == [by : Requests, at : Nat, violation : Violations]
ViolationEntry ==
  [by : Requests, item : Nat, action : {"review"},
   old : ViolationStatuses, new : ViolationStatuses]
AssignmentEntry ==
  [by : Requests, item : Nat, action : {"assign_reviewer"},
   old : Reviewers \cup {None}, new : Reviewers]
PatchEntry == [by : Requests, item : Nat, action : {"patch.generated"}]
SummaryEntry ==
  [by : Requests, action : {"skip", "assign", "bulk_export"},
   listed : Seq(Violations \cup Requests)]

TypeOK ==
  /\ row \in [Violations -> Row]
  /\ reviews \subseteq Review
  /\ patches \subseteq Patch
  /\ audit \subseteq ViolationEntry \cup AssignmentEntry \cup PatchEntry \cup SummaryEntry
  /\ exportedBy \in [Requests -> Requests \cup {None}]
  /\ clock \in Nat
  /\ job \in [Requests -> Jobs \cup {None}]
  /\ pc \in [Requests -> Steps]
  /\ work \in [Requests -> Seq(Ids \cup Requests \cup {None})]
  /\ handled \in [Requests -> Seq(Violations \cup Requests)]
  /\ mine \in [Requests -> [Violations -> Row \cup {None}]]
  /\ locks \in [Requests -> SUBSET Lockable]
  /\ contended \subseteq Violations

Init ==
  /\ row = [v \in Violations |-> [status |-> "open", assignee |-> None]]
  /\ reviews = {}
  /\ patches = {}
  /\ audit = {}
  /\ exportedBy = [q \in Requests |-> None]
  /\ clock = 0
  /\ job = [q \in Requests |-> None]
  /\ pc = [q \in Requests |-> "idle"]
  /\ work = [q \in Requests |-> <<>>]
  /\ handled = [q \in Requests |-> <<>>]
  /\ mine = [q \in Requests |-> [v \in Violations |-> None]]
  /\ locks = [q \in Requests |-> {}]
  /\ contended = {}

-------------------------------------------------------------------------------
(* Helpers                                                                 *)

At(q, step) == pc[q] = step
Goto(q, step) == pc' = [pc EXCEPT ![q] = step]

Current(q) == Head(work[q])
Item(q) == 1 + Len(job[q].ids) - Len(work[q])
Reviewing(q) == job[q].kind \in {"review", "skip"}
Active(q) == pc[q] \notin {"idle", "committed", "refused"}

(* The rows of a ledger that other sessions see, and the latest of some.   *)
Committed(ledger) == {r \in ledger : pc[r.by] = "committed"}
Latest(S) == CHOOSE r \in S : \A o \in S : o.at <= r.at

(* The whole row is written back as the session read it.                   *)
SavedWholeRow(q, v) ==
  IF \E l \in locks[q] : l[1] # "patch" /\ l[2] = v THEN mine[q][v] ELSE row[v]

(* The ORM writes back the columns that changed.                           *)
Saved(q, v) ==
  [status |-> IF <<"status", v>> \in locks[q] THEN mine[q][v].status ELSE row[v].status,
   assignee |-> IF <<"assignee", v>> \in locks[q] THEN mine[q][v].assignee ELSE row[v].assignee]

(* What a read of the request's session may find: the row as committed when *)
(* it has not loaded it, and afterwards the object of the identity map,     *)
(* which the session holds weakly, or, when nothing else refers to it any   *)
(* longer, the row with the columns this transaction has written.           *)
Loaded(q, v) == IF mine[q][v] = None THEN {row[v]} ELSE {mine[q][v], Saved(q, v)}

(* The fix a patch is made of: the edited one, or the suggested one.       *)
HasFixText(q, v) ==
  \/ job[q].action = "edit"
  \/ job[q].action = "accept" /\ v \in Suggested

(* ReviewValidationError, raised before anything is written.               *)
Invalid(q) ==
  \/ job[q].action \in ACTIONS_REQUIRING_JUSTIFICATION /\ ~job[q].justified
  \/ job[q].action = "edit" /\ ~job[q].edited

(* The lock the next flush of q takes, if it has a changed row to write.   *)
RowsOf(L) == {IF l[1] = "patch" THEN l ELSE <<"violation", l[2]>> : l \in L}
Wanted(q) ==
  CASE At(q, "update") ->
         IF mine[q][Current(q)].status # ACTION_TO_STATUS[job[q].action]
         THEN {<<"status", Current(q)>>} ELSE {}
    [] At(q, "assign") ->
         IF mine[q][Current(q)].assignee # job[q].to
         THEN {<<"assignee", Current(q)>>} ELSE {}
    [] At(q, "mark") /\ Current(q) # None -> {<<"patch", Current(q)>>}
    [] OTHER -> {}

WaitsFor(q, o) == q # o /\ RowsOf(Wanted(q)) \cap RowsOf(locks[o]) # {}
Blocked(q) == \E o \in Requests : WaitsFor(q, o)
InDeadlock(q) ==
  \E S \in SUBSET Requests :
    q \in S /\ \A p \in S : \E o \in S : WaitsFor(p, o)

TakeLocks(q) == locks' = [locks EXCEPT ![q] = @ \cup Wanted(q)]

(* The loop goes on with the next id, or leaves for what follows it.       *)
AfterLoop(q) ==
  CASE job[q].kind \in {"review", "export"} -> "commit"
    [] job[q].kind = "bulk_export" /\ At(q, "get") -> "list_patches"
    [] OTHER -> "summary"
FirstStep(q) == IF At(q, "mark") THEN "mark" ELSE "get"
NextItem(q) ==
  /\ work' = [work EXCEPT ![q] = Tail(@)]
  /\ Goto(q, IF Len(work[q]) > 1 THEN FirstStep(q) ELSE AfterLoop(q))
Handle(q, id) == handled' = [handled EXCEPT ![q] = Append(@, id)]

-------------------------------------------------------------------------------
(* Requests and their sessions                                             *)

Receive(q, j) ==
  /\ At(q, "idle")
  /\ job' = [job EXCEPT ![q] = j]
  /\ work' = [work EXCEPT ![q] = j.ids]
  /\ Goto(q, "get")
  /\ UNCHANGED <<database, handled, mine, locks, contended>>

(* The transaction is left open: its locks are never released.             *)
EndSessionLeaking(q) ==
  /\ work' = [work EXCEPT ![q] = <<>>]
  /\ handled' = [handled EXCEPT ![q] = <<>>]
  /\ mine' = [mine EXCEPT ![q] = [v \in Violations |-> None]]
  /\ UNCHANGED <<locks, job, contended>>

EndSession(q) ==
  /\ work' = [work EXCEPT ![q] = <<>>]
  /\ handled' = [handled EXCEPT ![q] = <<>>]
  /\ mine' = [mine EXCEPT ![q] = [v \in Violations |-> None]]
  /\ locks' = [locks EXCEPT ![q] = {}]
  /\ UNCHANGED <<job, contended>>

(* The exception is swallowed and session_scope commits what was flushed.  *)
RollbackSwallowed(q) ==
  /\ UNCHANGED database
  /\ EndSession(q)
  /\ Goto(q, "committed")

(* The exception leaves the endpoint and session_scope rolls back.         *)
Rollback(q) ==
  /\ reviews' = {r \in reviews : r.by # q}
  /\ patches' = {p \in patches : p.by # q}
  /\ audit' = {a \in audit : a.by # q}
  /\ UNCHANGED <<row, exportedBy, clock>>
  /\ EndSession(q)
  /\ Goto(q, "refused")

Commit(q) ==
  /\ At(q, "commit")
  /\ row' = [v \in Violations |-> Saved(q, v)]
  /\ exportedBy' = [p \in Requests |-> IF <<"patch", p>> \in locks[q] THEN q ELSE exportedBy[p]]
  /\ UNCHANGED <<reviews, patches, audit, clock>>
  /\ EndSession(q)
  /\ Goto(q, "committed")

(* get_violation, in each loop and in submit_review's endpoint.            *)
Get(q) ==
  /\ At(q, "get") /\ job[q].kind # "export"
  /\ Current(q) \in Violations
  /\ LET v == Current(q) IN
     \E seen \in Loaded(q, v) :
       /\ mine' = [mine EXCEPT ![q][v] = seen]
       /\ contended' =
            IF Reviewing(q) /\ \E o \in Requests \ {q} :
                 Active(o) /\ Reviewing(o) /\ mine[o][v] # None
            THEN contended \cup {v} ELSE contended
       /\ CASE Reviewing(q) -> Goto(q, "insert") /\ UNCHANGED <<work, handled>>
            [] job[q].kind = "assign" -> Goto(q, "assign") /\ UNCHANGED <<work, handled>>
            [] job[q].kind = "bulk_export" ->
                 /\ NextItem(q)
                 /\ IF seen.status \in ApprovedStatuses
                    THEN Handle(q, v) ELSE UNCHANGED handled
  /\ UNCHANGED <<database, job, locks>>

(* An id without a row is counted among those that were processed.         *)
GetMissingCounted(q) ==
  /\ At(q, "get") /\ job[q].kind # "export"
  /\ Current(q) \in Missing
  /\ IF job[q].kind = "review" THEN Rollback(q)
     ELSE NextItem(q) /\ Handle(q, Current(q)) /\ UNCHANGED <<database, job, mine, locks, contended>>

(* 404 for a single review; a bulk loop continues with the next id.        *)
GetMissing(q) ==
  /\ At(q, "get") /\ job[q].kind # "export"
  /\ Current(q) \in Missing
  /\ IF job[q].kind = "review" THEN Rollback(q)
     ELSE NextItem(q) /\ UNCHANGED <<database, job, handled, mine, locks, contended>>

-------------------------------------------------------------------------------
(* submit_review, for a review or for an item of bulk_skip                 *)

RefuseInvalid(q) == At(q, "insert") /\ Invalid(q) /\ Rollback(q)

(* previous_status is taken to be open.                                    *)
InsertReviewFromOpen(q) ==
  /\ At(q, "insert") /\ ~Invalid(q)
  /\ reviews' = reviews \cup
       {[by |-> q, at |-> clock, item |-> Item(q), violation |-> Current(q),
         action |-> job[q].action, old |-> "open",
         new |-> ACTION_TO_STATUS[job[q].action]]}
  /\ clock' = clock + 1
  /\ Goto(q, "update")
  /\ UNCHANGED <<row, patches, audit, exportedBy, job, session, contended>>

InsertReview(q) ==
  /\ At(q, "insert") /\ ~Invalid(q)
  /\ reviews' = reviews \cup
       {[by |-> q, at |-> clock, item |-> Item(q), violation |-> Current(q),
         action |-> job[q].action, old |-> mine[q][Current(q)].status,
         new |-> ACTION_TO_STATUS[job[q].action]]}
  /\ clock' = clock + 1
  /\ Goto(q, "update")
  /\ UNCHANGED <<row, patches, audit, exportedBy, job, session, contended>>

UpdateStatus(q) ==
  /\ At(q, "update") /\ ~Blocked(q)
  /\ TakeLocks(q)
  /\ mine' = [mine EXCEPT ![q][Current(q)].status = ACTION_TO_STATUS[job[q].action]]
  /\ Goto(q, "audit")
  /\ UNCHANGED <<database, job, work, handled, contended>>

(* The entry takes its old state from the row after the update.            *)
AuditReviewAfterUpdate(q) ==
  /\ At(q, "audit")
  /\ audit' = audit \cup {[by |-> q, item |-> Item(q), action |-> "review",
                           old |-> mine[q][Current(q)].status,
                           new |-> ACTION_TO_STATUS[job[q].action]]}
  /\ Handle(q, Current(q))
  /\ IF job[q].action \in ACTIONS_GENERATING_PATCHES /\ HasFixText(q, Current(q))
     THEN Goto(q, "patch") /\ UNCHANGED work
     ELSE NextItem(q)
  /\ UNCHANGED <<row, reviews, patches, exportedBy, clock, job, mine, locks, contended>>

(* previous_status, read before the update, is in the review of this item. *)
AuditReview(q) ==
  /\ At(q, "audit")
  /\ \E r \in reviews :
       /\ r.by = q /\ r.item = Item(q)
       /\ audit' = audit \cup {[by |-> q, item |-> Item(q), action |-> "review",
                                old |-> r.old, new |-> r.new]}
  /\ Handle(q, Current(q))
  /\ IF job[q].action \in ACTIONS_GENERATING_PATCHES /\ HasFixText(q, Current(q))
     THEN Goto(q, "patch") /\ UNCHANGED work
     ELSE NextItem(q)
  /\ UNCHANGED <<row, reviews, patches, exportedBy, clock, job, mine, locks, contended>>

AddPatch(q) ==
  /\ At(q, "patch")
  /\ patches' = patches \cup {[by |-> q, at |-> clock, violation |-> Current(q)]}
  /\ clock' = clock + 1
  /\ Goto(q, "patch_audit")
  /\ UNCHANGED <<row, reviews, audit, exportedBy, job, session, contended>>

AuditPatch(q) ==
  /\ At(q, "patch_audit")
  /\ audit' = audit \cup {[by |-> q, item |-> Item(q), action |-> "patch.generated"]}
  /\ NextItem(q)
  /\ UNCHANGED <<row, reviews, patches, exportedBy, clock, job, handled, mine, locks, contended>>

-------------------------------------------------------------------------------
(* assign_reviewer, for an item of bulk_assign_reviewer                    *)

(* The flush that updates the row, and the audit entry: what the second    *)
(* inserts is unseen until the commit, so the two flushes are one step.    *)
Assign(q) ==
  /\ At(q, "assign") /\ ~Blocked(q)
  /\ TakeLocks(q)
  /\ audit' = audit \cup {[by |-> q, item |-> Item(q), action |-> "assign_reviewer",
                           old |-> mine[q][Current(q)].assignee, new |-> job[q].to]}
  /\ mine' = [mine EXCEPT ![q][Current(q)].assignee = job[q].to]
  /\ Handle(q, Current(q))
  /\ NextItem(q)
  /\ UNCHANGED <<row, reviews, patches, exportedBy, clock, job, contended>>

-------------------------------------------------------------------------------
(* bulk_export_approved_patches and export_patch                           *)

PatchesOf(v) == {p \in Committed(patches) : p.violation = v}

(* latest_patch_by_violation.get(v), by the request that generated it.     *)
PatchOf(v) == IF PatchesOf(v) = {} THEN None ELSE Latest(PatchesOf(v)).by

ListPatches(q) ==
  /\ At(q, "list_patches")
  /\ work' = [work EXCEPT ![q] = [i \in DOMAIN handled[q] |-> PatchOf(handled[q][i])]]
  /\ Goto(q, IF handled[q] = <<>> THEN "summary" ELSE "mark")
  /\ handled' = [handled EXCEPT ![q] = <<>>]
  /\ UNCHANGED <<database, job, mine, locks, contended>>

GetPatch(q, p) ==
  /\ At(q, "get") /\ job[q].kind = "export"
  /\ \E w \in PatchesOf(Current(q)) : w.by = p
  /\ work' = [work EXCEPT ![q] = <<p>>]
  /\ Goto(q, "mark")
  /\ UNCHANGED <<database, job, handled, mine, locks, contended>>

(* 404: the patch_id is unknown, or that of another violation.             *)
GetNoPatch(q) == At(q, "get") /\ job[q].kind = "export" /\ Rollback(q)

(* An eligible violation without a patch is passed over.                   *)
MarkExported(q) ==
  /\ At(q, "mark") /\ ~Blocked(q)
  /\ TakeLocks(q)
  /\ IF Current(q) = None THEN UNCHANGED handled ELSE Handle(q, Current(q))
  /\ NextItem(q)
  /\ UNCHANGED <<database, job, mine, contended>>

AuditBulk(q) ==
  /\ At(q, "summary")
  /\ audit' = audit \cup {[by |-> q, action |-> job[q].kind, listed |-> handled[q]]}
  /\ Goto(q, "commit")
  /\ UNCHANGED <<row, reviews, patches, exportedBy, clock, job, session, contended>>

-------------------------------------------------------------------------------
(* Failures                                                                *)

(* A flush, a query or the commit raises, or the server process dies.      *)
Abort(q) == MayFail /\ Active(q) /\ Rollback(q)

(* The database aborts a transaction of a deadlock.                        *)
DeadlockVictim(q) == InDeadlock(q) /\ Rollback(q)

-------------------------------------------------------------------------------
HandlerStep(q) ==
  \/ Get(q)
  \/ GetMissing(q)
  \/ RefuseInvalid(q)
  \/ InsertReview(q)
  \/ UpdateStatus(q)
  \/ AuditReview(q)
  \/ AddPatch(q)
  \/ AuditPatch(q)
  \/ Assign(q)
  \/ ListPatches(q)
  \/ \E p \in Requests : GetPatch(q, p)
  \/ GetNoPatch(q)
  \/ MarkExported(q)
  \/ AuditBulk(q)
  \/ Commit(q)

Next ==
  \E q \in Requests :
    \/ \E j \in Jobs : Receive(q, j)
    \/ HandlerStep(q)
    \/ Abort(q)
    \/ DeadlockVictim(q)

(* The event loop resumes every handler whose await has finished, and the  *)
(* database breaks every deadlock.  Nothing makes a request arrive or fail.*)
Fairness ==
  \A q \in Requests : WF_vars(HandlerStep(q)) /\ WF_vars(DeadlockVictim(q))

Spec == Init /\ [][Next]_vars /\ Fairness

-------------------------------------------------------------------------------
(* Properties                                                              *)

RangeOf(ids) == {ids[i] : i \in DOMAIN ids}
IsDone(q) == pc[q] = "committed"

(* list_reviews, in order of created_at, tells the history of v: each      *)
(* review starts from the status the one before it left, and the last one's*)
(* is the status of v.                                                     *)
HistoryOf(v) == {r \in Committed(reviews) : r.violation = v}
StatusAfter(history) == IF history = {} THEN "open" ELSE Latest(history).new
Replays(v) ==
  /\ \A r \in HistoryOf(v) : r.old = StatusAfter({o \in HistoryOf(v) : o.at < r.at})
  /\ row[v].status = StatusAfter(HistoryOf(v))

(* The history of a violation replays, across bulk operations, failures,   *)
(* deadlocks and reassignments, unless two of its reviews overlapped.      *)
UncontendedHistoryReplays == \A v \in Violations \ contended : Replays(v)

(* However requests interleave, a violation has a status some committed    *)
(* review gave it, and is open only if none has been committed.            *)
StatusIsDecided ==
  \A v \in Violations :
    row[v].status \in IF HistoryOf(v) = {} THEN {"open"}
                      ELSE {r.new : r \in HistoryOf(v)}

(* The trail and the tables become visible together and agree: each review *)
(* has its entry with the same transition and each patch its entry, and    *)
(* nothing else has; a patch comes from a review that asks for a fix.      *)
TrailMatchesReviews ==
  /\ {[by |-> r.by, item |-> r.item, action |-> "review", old |-> r.old, new |-> r.new]
        : r \in Committed(reviews)}
     = {a \in Committed(audit) : a.action = "review"}
  /\ {p.by : p \in Committed(patches)}
     = {a.by : a \in {a \in Committed(audit) : a.action = "patch.generated"}}
  /\ \A p \in Committed(patches) : \E r \in Committed(reviews) :
        /\ r.by = p.by /\ r.violation = p.violation
        /\ r.action \in ACTIONS_GENERATING_PATCHES

(* What the first n of ids come to without those that have no row: each    *)
(* other position once, in order.                                          *)
ListsRows(listed, ids, n) ==
  LET rows == {i \in 1 .. n : ids[i] \in Violations} IN
  \E place \in [1 .. Len(listed) -> rows] :
    /\ \A k, l \in 1 .. Len(listed) : k < l => place[k] < place[l]
    /\ \A i \in rows : \E k \in 1 .. Len(listed) : place[k] = i
    /\ \A k \in 1 .. Len(listed) : listed[k] = ids[place[k]]

SummariesOf(q) == {a \in audit : a.by = q /\ a.action \in {"skip", "assign", "bulk_export"}}

(* A bulk request does everything its summary entry lists or nothing at    *)
(* all: one entry, listing every id that has a row, each with its own row  *)
(* in the ledgers; a request that failed leaves no trace.                  *)
BatchIsAllOrNothing ==
  \A q \in Requests :
    LET decided == {r \in reviews : r.by = q}
    IN /\ IsDone(q) /\ job[q].kind \in {"skip", "assign"} =>
            \E a \in SummariesOf(q) :
              /\ SummariesOf(q) = {a} /\ a.action = job[q].kind
              /\ ListsRows(a.listed, job[q].ids, Len(job[q].ids))
       /\ IsDone(q) /\ job[q].kind = "skip" =>
            {r.violation : r \in decided} = RangeOf(job[q].ids) \cap Violations
       /\ IsDone(q) /\ job[q].kind = "bulk_export" =>
            \E a \in SummariesOf(q) :
              /\ SummariesOf(q) = {a}
              /\ \A p \in Requests : exportedBy[p] = q => p \in RangeOf(a.listed)
              /\ \A p \in RangeOf(a.listed) :
                    exportedBy[p] # None
                    /\ \E w \in Committed(patches) :
                         w.by = p /\ w.violation \in RangeOf(job[q].ids)
       /\ At(q, "refused") =>
            /\ {a \in audit : a.by = q} = {} /\ decided = {}
            /\ \A p \in Requests : exportedBy[p] # q

(* Assignments and exports, which read a row long before they write to it, *)
(* never undo a decision; reviews never undo an assignment.                *)
ColumnsAreIndependent ==
  [][\A q \in Requests, v \in Violations :
       pc'[q] # pc[q] /\ pc'[q] = "committed" =>
         /\ ~Reviewing(q) => row'[v].status = row[v].status
         /\ job[q].kind # "assign" => row'[v].assignee = row[v].assignee]_vars

(* What the other sessions see implements the abstract ledger: whatever    *)
(* the handlers flush, however often, reaches the tables in one step.      *)
Ledger == INSTANCE ReviewLedger WITH
  status <- [v \in Violations |-> row[v].status],
  decisions <- Committed(reviews),
  trail <- {a \in Committed(audit) : a.action = "review"},
  settled <- {q \in Requests : IsDone(q)}

ImplementsLedger == Ledger!Spec

(* The requests q waits for, those they wait for, and so on, are in S.     *)
WaitsWithin(q, S) ==
  q \in S /\ \A p \in S, o \in Requests : WaitsFor(p, o) => o \in S

(* A request that waits for a row lock, and that no deadlock victim will   *)
(* free, waits for a live handler: some request down its chain of waits is *)
(* under way and not blocked.  No lock outlives session_scope, whether it  *)
(* commits or rolls back.                                                  *)
WaitersAreServed ==
  \A q \in Requests : Blocked(q) /\ ~InDeadlock(q) =>
    \A S \in SUBSET Requests :
      WaitsWithin(q, S) => \E o \in S : Active(o) /\ ~Blocked(o)

(* Every request is answered: the locks bulk requests take in the order    *)
(* their clients listed the ids never leave two of them waiting.           *)
RequestsEnd ==
  \A q \in Requests : At(q, "get") ~> pc[q] \in {"committed", "refused"}

-------------------------------------------------------------------------------
(* Claims of the documents that do not hold                                *)

(* "Full history is reconstructable."                                      *)
HistoryReplays == \A v \in Violations : Replays(v)

(* "Patch export (approved only)": what a request exports is the patch of a*)
(* violation that is approved at that time.                                *)
OnlyApprovedIsExported ==
  [][\A p \in Requests : exportedBy'[p] # exportedBy[p] =>
       \E w \in patches :
          w.by = p /\ row[w.violation].status \in ApprovedStatuses]_vars
===============================================================================
