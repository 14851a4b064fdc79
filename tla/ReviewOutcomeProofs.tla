-------------------------- MODULE ReviewOutcomeProofs --------------------------
(***************************************************************************)
(* What the reviews leave behind.                                          *)
(*                                                                         *)
(* The history of a violation, as list_reviews tells it, replays: each     *)
(* review starts from the status the one before it left, and the status of *)
(* the violation is what the last one decided.  A theorem for every        *)
(* violation of which no two reviews overlapped, whatever else interleaves,*)
(* fails, is rolled back or is aborted as the victim of a deadlock.        *)
(*                                                                         *)
(* A bulk request is all or nothing: once it has committed, its summary    *)
(* lists every id of its body that has a row, in order, and each of them   *)
(* has been dealt with; once it is refused, nothing of it is left.         *)
(***************************************************************************)
EXTENDS ReviewWorkflowProofs


-------------------------------------------------------------------------------
(* Histories: what is known of the reviews of violation v, seen or not     *)

ReviewsOf(v) == {r \in reviews : r.violation = v}

(* The request reviews v: it has v in its session, to decide about it.     *)
Considers(q, v) == mine[q][v] # None /\ Reviewing(q)

(* The status v has for q: between the flush of a review and that of its   *)
(* status, what the review says.                                           *)
StatusFor(q, v) ==
  IF At(q, "update") /\ Current(q) = v THEN ACTION_TO_STATUS[job[q].action]
  ELSE mine[q][v].status

OneAtATime(v) == \A q, o \in Requests : Considers(q, v) /\ Considers(o, v) => q = o

(* The reviews of v are a chain; those that others see come first in it, so*)
(* that a rollback cuts off its end; the row is where the seen part ends.  *)
IsChain(v) ==
  /\ \A r \in ReviewsOf(v) : r.old = StatusAfter({o \in ReviewsOf(v) : o.at < r.at})
  /\ \A r, o \in ReviewsOf(v) : IsDone(r.by) /\ ~IsDone(o.by) => r.at < o.at
  /\ row[v].status = StatusAfter(HistoryOf(v))

(* A session that reviews v is where the chain ends, and where the row is  *)
(* unless it has a status to write back.                                   *)
IsUpToDate(q, v) ==
  Considers(q, v) =>
    /\ StatusFor(q, v) = StatusAfter(ReviewsOf(v))
    /\ <<"status", v>> \notin locks[q] => mine[q][v].status = row[v].status

HistoryInv(v) ==
  /\ OneAtATime(v)
  /\ IsChain(v)
  /\ \A q \in Requests : IsUpToDate(q, v)

ReplayInv == ReviewInv /\ \A v \in Violations \ contended : HistoryInv(v)

-------------------------------------------------------------------------------
(* What the invariant says of the reviews of a violation                   *)

(* A review that others do not see yet is by a request that considers its  *)
(* violation.                                                              *)
LEMMA OwnersConsider ==
  ASSUME ReviewInv, NEW r \in reviews, ~IsDone(r.by)
  PROVE  r.by \in Requests /\ Considers(r.by, r.violation)
<1>1. r.by \in Requests /\ r \in OwnReviews(r.by)
  BY EntriesHaveOwners DEF ReviewInv, OwnReviews
<1>2. ReviewsFollowItems(r.by) /\ SessionHoldsHistory(r.by)
  BY <1>1 DEF ReviewInv, SessionInv
<1>3. pc[r.by] \notin {"idle", "refused"} /\ Reviewing(r.by)
  BY <1>1, <1>2 DEF ReviewsFollowItems
<1>4. Active(r.by)
  BY <1>3 DEF Active, IsDone
<1> QED
  BY <1>1, <1>2, <1>3, <1>4 DEF SessionHoldsHistory, Considers

(* A session holds rows only while its handler runs.                       *)
LEMMA ConsidersIsActive ==
  ASSUME ReviewInv, NEW q \in Requests, NEW v \in Violations, Considers(q, v)
  PROVE  Active(q) /\ ~IsDone(q)
BY DEF ReviewInv, SessionInv, HandlerIsOnItsWay, Considers, Active, IsDone

LEMMA HistoryIsSeen ==
  \A v : HistoryOf(v) = {r \in ReviewsOf(v) : IsDone(r.by)}
BY DEF HistoryOf, ReviewsOf, Committed, IsDone

LEMMA ReviewsAreTyped ==
  ASSUME ReviewInv, NEW r \in reviews
  PROVE  r.at \in Nat /\ r.violation \in Violations /\ clock \in Nat /\ r.at < clock
BY DEF ReviewInv, TypeOK, TimesAreDistinct, Review

(* Only the one request that considers v has reviews of it that others do  *)
(* not see.                                                                *)
LEMMA SeenUnlessOwn ==
  ASSUME ReviewInv, NEW q \in Requests, NEW v \in Violations, OneAtATime(v), Considers(q, v)
  PROVE  ReviewsOf(v) = HistoryOf(v) \cup {r \in OwnReviews(q) : r.violation = v}
<1>1. ASSUME NEW r \in ReviewsOf(v), ~IsDone(r.by) PROVE r.by = q
  BY <1>1, OwnersConsider DEF OneAtATime, ReviewsOf
<1> QED
  BY <1>1, HistoryIsSeen DEF ReviewsOf, OwnReviews

LEMMA AllAreSeen ==
  ASSUME ReviewInv, NEW v \in Violations, \A q \in Requests : ~Considers(q, v)
  PROVE  ReviewsOf(v) = HistoryOf(v)
BY OwnersConsider, HistoryIsSeen DEF ReviewsOf

LEMMA NoneOwn ==
  ASSUME ReviewInv, NEW q \in Requests, NEW v \in Violations, ~Considers(q, v), ~IsDone(q)
  PROVE  \A r \in ReviewsOf(v) : r.by # q
BY OwnersConsider DEF ReviewsOf

(* A status is written back only by who considers the violation.           *)
LEMMA StatusLockConsiders ==
  ASSUME ReviewInv, NEW q \in Requests, NEW v \in Violations, <<"status", v>> \in locks[q]
  PROVE  Considers(q, v)
<1>1. LocksAreDecisions(q) /\ HandlerIsOnItsWay(q)
  BY DEF ReviewInv, SessionInv
<1>2. PICK r \in OwnReviews(q) : r.violation = v
  BY <1>1 DEF LocksAreDecisions
<1>3. ~IsDone(q)
  BY <1>1 DEF HandlerIsOnItsWay, Active, IsDone
<1> QED
  BY <1>2, <1>3, OwnersConsider DEF OwnReviews

(* What others see of a chain is a chain.                                  *)
LEMMA SeenIsChain ==
  ASSUME ReviewInv, NEW v \in Violations, IsChain(v)
  PROVE  \A r \in HistoryOf(v) : r.old = StatusAfter({o \in HistoryOf(v) : o.at < r.at})
<1> SUFFICES ASSUME NEW r \in HistoryOf(v)
             PROVE  r.old = StatusAfter({o \in HistoryOf(v) : o.at < r.at})
  OBVIOUS
<1>1. r \in ReviewsOf(v) /\ IsDone(r.by)
  BY HistoryIsSeen
<1>2. \A o \in ReviewsOf(v) : r.at \in Nat /\ o.at \in Nat
  BY <1>1, ReviewsAreTyped DEF ReviewsOf
<1>3. \A o \in ReviewsOf(v) : o.at < r.at => IsDone(o.by)
  BY <1>1, <1>2 DEF IsChain
<1>4. {o \in HistoryOf(v) : o.at < r.at} = {o \in ReviewsOf(v) : o.at < r.at}
  BY <1>3, HistoryIsSeen
<1> QED
  BY <1>1, <1>4 DEF IsChain

LEMMA ReplayFollows == ReplayInv => UncontendedHistoryReplays
<1> SUFFICES ASSUME ReplayInv, NEW v \in Violations \ contended
             PROVE  Replays(v)
  BY DEF UncontendedHistoryReplays
<1>1. ReviewInv /\ IsChain(v)
  BY DEF ReplayInv, HistoryInv
<1> QED
  BY <1>1, SeenIsChain DEF Replays, IsChain

LEMMA InitKeepsReplay == Init => ReplayInv
<1> SUFFICES ASSUME Init, NEW v \in Violations PROVE HistoryInv(v)
  BY InitKeepsInv DEF ReplayInv
<1>1. ReviewsOf(v) = {} /\ HistoryOf(v) = {}
  BY HistoryIsSeen DEF Init, ReviewsOf
<1>2. \A q \in Requests : ~Considers(q, v)
  BY DEF Init, Considers
<1>3. row[v].status = "open"
  BY DEF Init
<1> QED
  BY <1>1, <1>2, <1>3 DEF HistoryInv, OneAtATime, IsChain, IsUpToDate, StatusAfter

-------------------------------------------------------------------------------
(* What a step of request q means to the reviews of v                      *)

(* For v, q has at most put off what it has to write back.                 *)
IsPassedBy(q, v) ==
  Considers(q, v)' =>
    /\ Considers(q, v)
    /\ StatusFor(q, v)' = StatusFor(q, v)
    /\ <<"status", v>> \notin locks'[q] =>
         /\ <<"status", v>> \notin locks[q]
         /\ mine'[q][v].status = mine[q][v].status

LEMMA OthersConsider ==
  ASSUME NEW q \in Requests, OnlyActs(q), NEW o \in Requests \ {q}, NEW v \in Violations
  PROVE  /\ Considers(o, v)' = Considers(o, v)
         /\ StatusFor(o, v)' = StatusFor(o, v)
         /\ mine'[o] = mine[o] /\ locks'[o] = locks[o]
         /\ IsDone(o)' = IsDone(o)
<1>1. /\ pc'[o] = pc[o] /\ job'[o] = job[o] /\ work'[o] = work[o]
      /\ mine'[o] = mine[o] /\ locks'[o] = locks[o]
  BY DEF OnlyActs
<1>2. Current(o)' = Current(o) /\ At(o, "update")' = At(o, "update") /\ Reviewing(o)' = Reviewing(o)
  BY <1>1 DEF Current, At, Reviewing
<1> QED
  BY <1>1, <1>2 DEF Considers, StatusFor, IsDone

(* A step that neither adds, removes nor publishes a review of v.          *)
LEMMA QuietKeepsHistory ==
  ASSUME ReviewInv, NEW q \in Requests, OnlyActs(q), NEW v \in Violations, HistoryInv(v),
         row'[v].status = row[v].status,
         ReviewsOf(v)' = ReviewsOf(v),
         \A r \in ReviewsOf(v) : IsDone(r.by)' = IsDone(r.by),
         IsPassedBy(q, v)
  PROVE  HistoryInv(v)'
<1>1. HistoryOf(v)' = HistoryOf(v)
  <2>1. HistoryOf(v)' = {r \in ReviewsOf(v)' : IsDone(r.by)'}
    BY HistoryIsSeen DEF HistoryOf, ReviewsOf, Committed, IsDone
  <2> QED
    BY <2>1, HistoryIsSeen
<1>2. OneAtATime(v)'
  <2> SUFFICES ASSUME NEW p \in Requests, NEW o \in Requests, Considers(p, v)', Considers(o, v)'
               PROVE  p = o
    BY DEF OneAtATime
  <2>1. Considers(p, v) /\ Considers(o, v)
    BY OthersConsider DEF IsPassedBy
  <2> QED
    BY <2>1 DEF HistoryInv, OneAtATime
<1>3. IsChain(v)'
  BY <1>1 DEF HistoryInv, IsChain, StatusAfter
<1>4. StatusAfter(ReviewsOf(v))' = StatusAfter(ReviewsOf(v))
  BY DEF StatusAfter
<1>5. ASSUME NEW o \in Requests PROVE IsUpToDate(o, v)'
  <2>1. IsUpToDate(o, v)
    BY DEF HistoryInv
  <2>2. CASE o = q
    BY <1>4, <2>1, <2>2 DEF IsUpToDate, IsPassedBy
  <2>3. CASE o # q
    BY <1>4, <2>1, <2>3, OthersConsider DEF IsUpToDate
  <2> QED
    BY <2>2, <2>3
<1> QED
  BY <1>2, <1>3, <1>5 DEF HistoryInv

(* The reviews of a request that is not done are as seen as before.        *)
LEMMA SeenStaysSeen ==
  ASSUME ReviewInv, NEW q \in Requests, OnlyActs(q), pc'[q] # "committed"
  PROVE  \A r \in reviews : IsDone(r.by)' = IsDone(r.by)
<1>1. \A o \in Requests : IsDone(o)' = IsDone(o)
  BY DEF OnlyActs, IsDone
<1> QED
  BY <1>1, EntriesHaveOwners DEF ReviewInv

LEMMA ReceiptKeepsHistory ==
  ASSUME ReviewInv, NEW q \in Requests, OnlyActs(q), NEW j \in Jobs, Receive(q, j),
         NEW v \in Violations, HistoryInv(v)
  PROVE  HistoryInv(v)'
<1>1. UNCHANGED <<row, reviews, mine>> /\ pc[q] = "idle" /\ pc'[q] # "committed"
  BY DEF ReviewInv, TypeOK, Receive, At, Goto, database
<1>2. mine[q][v] = None
  BY <1>1 DEF ReviewInv, SessionInv, HandlerIsOnItsWay, Active
<1>3. IsPassedBy(q, v)
  BY <1>1, <1>2 DEF IsPassedBy, Considers
<1>4. ReviewsOf(v)' = ReviewsOf(v) /\ \A r \in ReviewsOf(v) : IsDone(r.by)' = IsDone(r.by)
  BY <1>1, SeenStaysSeen DEF ReviewsOf
<1> QED
  BY <1>1, <1>3, <1>4, QuietKeepsHistory

(* The reviews of q are seen from its commit on; the status it writes back *)
(* is the one its last review of v decided.                                *)
LEMMA CommitKeepsHistory ==
  ASSUME ReviewInv, NEW q \in Requests, OnlyActs(q), Commit(q),
         NEW v \in Violations, HistoryInv(v)
  PROVE  HistoryInv(v)'
<1>1. /\ TypeOK /\ LocksAreDecisions(q) /\ HandlerIsOnItsWay(q)
  BY DEF ReviewInv, SessionInv
<1>2. /\ pc[q] = "commit" /\ pc'[q] = "committed" /\ UNCHANGED reviews
      /\ mine'[q][v] = None
  BY <1>1, SessionEnds DEF Commit, At, Goto, TypeOK
<1>3. row'[v].status =
        IF <<"status", v>> \in locks[q] THEN mine[q][v].status ELSE row[v].status
  BY <1>1, SavedIsRow DEF Commit
<1>4. ReviewsOf(v)' = ReviewsOf(v) /\ ~IsDone(q) /\ IsDone(q)'
  BY <1>2 DEF ReviewsOf, IsDone
<1>5. CASE ~Considers(q, v)
  <2>1. <<"status", v>> \notin locks[q]
    BY <1>5, StatusLockConsiders
  <2>2. \A r \in ReviewsOf(v) : r.by # q /\ r.by \in Requests
    BY <1>4, <1>5, <1>1, NoneOwn, EntriesHaveOwners DEF ReviewsOf
  <2>3. \A r \in ReviewsOf(v) : IsDone(r.by)' = IsDone(r.by)
    BY <2>2, OthersConsider
  <2>4. IsPassedBy(q, v)
    BY <1>2 DEF IsPassedBy, Considers
  <2> QED
    BY <1>3, <1>4, <2>1, <2>3, <2>4, QuietKeepsHistory
<1>6. CASE Considers(q, v)
  <2>1. /\ \A o \in Requests \ {q} : ~Considers(o, v)
        /\ StatusFor(q, v) = mine[q][v].status
        /\ mine[q][v].status = StatusAfter(ReviewsOf(v))
    BY <1>2, <1>6 DEF HistoryInv, OneAtATime, IsUpToDate, StatusFor, At
  <2>2. row'[v].status = StatusAfter(ReviewsOf(v))
    BY <1>3, <1>6, <2>1 DEF HistoryInv, IsUpToDate
  <2>3. \A o \in Requests : ~Considers(o, v)'
    BY <1>2, <2>1, OthersConsider DEF Considers
  <2>4. \A r \in ReviewsOf(v) : IsDone(r.by)'
    <3> SUFFICES ASSUME NEW r \in ReviewsOf(v) PROVE IsDone(r.by)'
      OBVIOUS
    <3>1. r.by \in Requests /\ (IsDone(r.by) \/ r.by = q)
      BY <1>1, <1>6, SeenUnlessOwn, EntriesHaveOwners, HistoryIsSeen
         DEF ReviewsOf, OwnReviews, HistoryInv
    <3> QED
      BY <1>4, <3>1, OthersConsider
  <2>5. HistoryOf(v)' = ReviewsOf(v)
    <3>1. HistoryOf(v)' = {r \in ReviewsOf(v)' : IsDone(r.by)'}
      BY DEF HistoryOf, ReviewsOf, Committed, IsDone
    <3> QED
      BY <1>4, <2>4, <3>1
  <2>6. IsChain(v)'
    BY <1>4, <2>2, <2>4, <2>5 DEF HistoryInv, IsChain, StatusAfter
  <2> QED
    BY <2>3, <2>6 DEF HistoryInv, OneAtATime, IsUpToDate
<1> QED
  BY <1>5, <1>6

(* A rollback takes away the end of the chain that no one has seen.        *)
LEMMA RollbackKeepsHistory ==
  ASSUME ReviewInv, NEW q \in Requests, OnlyActs(q), Active(q), Rollback(q),
         NEW v \in Violations, HistoryInv(v)
  PROVE  HistoryInv(v)'
<1>1. TypeOK
  BY DEF ReviewInv
<1>2. /\ reviews' = {r \in reviews : r.by # q}
      /\ UNCHANGED row /\ mine'[q][v] = None /\ pc'[q] # "committed"
      /\ ~IsDone(q)
  BY <1>1, SessionEnds DEF Rollback, Goto, TypeOK, Active, IsDone
<1>3. ReviewsOf(v)' = {r \in ReviewsOf(v) : r.by # q}
  BY <1>2 DEF ReviewsOf
<1>4. \A r \in ReviewsOf(v) : IsDone(r.by)' = IsDone(r.by)
  BY <1>2, SeenStaysSeen DEF ReviewsOf
<1>5. CASE ~Considers(q, v)
  <2>1. ReviewsOf(v)' = ReviewsOf(v)
    BY <1>2, <1>3, <1>5, NoneOwn
  <2>2. IsPassedBy(q, v)
    BY <1>2 DEF IsPassedBy, Considers
  <2> QED
    BY <1>2, <1>4, <2>1, <2>2, QuietKeepsHistory
<1>6. CASE Considers(q, v)
  <2>1. \A o \in Requests : ~Considers(o, v)'
    BY <1>2, <1>6, OthersConsider DEF Considers, HistoryInv, OneAtATime
  <2>2. ReviewsOf(v)' = HistoryOf(v)
    BY <1>2, <1>3, <1>6, SeenUnlessOwn, HistoryIsSeen DEF OwnReviews, HistoryInv
  <2>3. HistoryOf(v)' = HistoryOf(v)
    <3>1. HistoryOf(v)' = {r \in ReviewsOf(v)' : IsDone(r.by)'}
      BY DEF HistoryOf, ReviewsOf, Committed, IsDone
    <3> QED
      BY <1>4, <2>2, <3>1, HistoryIsSeen
  <2>4. \A r \in HistoryOf(v) : r.old = StatusAfter({o \in HistoryOf(v) : o.at < r.at})
    BY SeenIsChain DEF HistoryInv
  <2>5. \A r \in HistoryOf(v) : IsDone(r.by)'
    BY <1>4, HistoryIsSeen
  <2>6. row'[v].status = StatusAfter(HistoryOf(v))
    BY <1>2 DEF HistoryInv, IsChain
  <2>7. IsChain(v)'
    BY <2>2, <2>3, <2>4, <2>5, <2>6 DEF IsChain, StatusAfter
  <2> QED
    BY <2>1, <2>7 DEF HistoryInv, OneAtATime, IsUpToDate
<1> QED
  BY <1>5, <1>6

-------------------------------------------------------------------------------
(* What a flush means to the reviews of v                                  *)

(* Between its insert and its update a handler takes no other step.        *)
LEMMA StepsOutsideUpdate ==
  ASSUME NEW q \in Requests, NEW v \in Violations,
         pc[q] # "update", pc'[q] # "update", UNCHANGED <<job, mine>>,
         <<"status", v>> \notin locks'[q] => <<"status", v>> \notin locks[q]
  PROVE  IsPassedBy(q, v)
BY DEF IsPassedBy, Considers, StatusFor, At, Reviewing

(* A request that does not review considers nothing.                       *)
LEMMA OthersPassBy ==
  ASSUME NEW q \in Requests, NEW v \in Violations, ~Reviewing(q), UNCHANGED job
  PROVE  IsPassedBy(q, v)
BY DEF IsPassedBy, Considers, Reviewing

(* The rest of a handler neither reads nor writes a status or a review.    *)
LEMMA RestPassesBy ==
  ASSUME ReviewInv, NEW q \in Requests, OnlyActs(q), NEW v \in Violations,
         \/ PassMissing(q) \/ AuditReview(q) \/ AddPatch(q) \/ AuditPatch(q)
         \/ Assign(q) \/ ListPatches(q) \/ \E p \in Requests : GetPatch(q, p)
         \/ MarkExported(q) \/ AuditBulk(q)
  PROVE  IsPassedBy(q, v) /\ UNCHANGED reviews
<1>1. TypeOK /\ HandlerIsOnItsWay(q)
  BY DEF ReviewInv, SessionInv
<1>2. NextItem(q) => pc'[q] # "update"
  BY <1>1 DEF NextItem, Goto, FirstStep, AfterLoop, TypeOK
<1>3. CASE PassMissing(q)
  <2>1. pc[q] # "update" /\ pc'[q] # "update" /\ UNCHANGED <<job, mine, locks, reviews>>
    BY <1>2, <1>3 DEF PassMissing, GetMissing, At, database
  <2> QED
    BY <2>1, StepsOutsideUpdate
<1>4. CASE AuditReview(q)
  <2>1. pc[q] # "update" /\ pc'[q] # "update" /\ UNCHANGED <<job, mine, locks, reviews>>
    BY <1>1, <1>2, <1>4 DEF AuditReview, At, Goto, TypeOK
  <2> QED
    BY <2>1, StepsOutsideUpdate
<1>5. CASE AddPatch(q)
  <2>1. pc[q] # "update" /\ pc'[q] # "update" /\ UNCHANGED <<job, mine, locks, reviews>>
    BY <1>1, <1>5 DEF AddPatch, At, Goto, TypeOK, session
  <2> QED
    BY <2>1, StepsOutsideUpdate
<1>6. CASE AuditPatch(q)
  <2>1. pc[q] # "update" /\ pc'[q] # "update" /\ UNCHANGED <<job, mine, locks, reviews>>
    BY <1>2, <1>6 DEF AuditPatch, At
  <2> QED
    BY <2>1, StepsOutsideUpdate
<1>7. CASE Assign(q)
  <2>1. ~Reviewing(q) /\ UNCHANGED <<job, reviews>>
    BY <1>1, <1>7 DEF Assign, At, HandlerIsOnItsWay, Reviewing
  <2> QED
    BY <2>1, OthersPassBy
<1>8. CASE ListPatches(q) \/ (\E p \in Requests : GetPatch(q, p)) \/ MarkExported(q)
  <2>1. ~Reviewing(q) /\ UNCHANGED <<job, reviews>>
    BY <1>1, <1>8 DEF ListPatches, GetPatch, MarkExported, At, HandlerIsOnItsWay, Reviewing, database
  <2> QED
    BY <2>1, OthersPassBy
<1>9. CASE AuditBulk(q)
  <2>1. pc[q] # "update" /\ pc'[q] # "update" /\ UNCHANGED <<job, mine, locks, reviews>>
    BY <1>1, <1>9 DEF AuditBulk, At, Goto, TypeOK, session
  <2> QED
    BY <2>1, StepsOutsideUpdate
<1> QED
  BY <1>3, <1>4, <1>5, <1>6, <1>7, <1>8, <1>9

(* The status that is flushed is the one the review said.                  *)
LEMMA UpdatePassesBy ==
  ASSUME ReviewInv, NEW q \in Requests, NEW v \in Violations, UpdateStatus(q)
  PROVE  IsPassedBy(q, v) /\ UNCHANGED reviews
<1>1. /\ TypeOK /\ HandlerIsOnItsWay(q)
  BY DEF ReviewInv, SessionInv
<1>2. /\ pc[q] = "update" /\ pc'[q] = "audit" /\ UNCHANGED <<job, reviews>>
      /\ mine'[q][Current(q)] # None /\ mine[q][Current(q)] # None
      /\ mine'[q][Current(q)].status = ACTION_TO_STATUS[job[q].action]
      /\ \A w \in Violations : w # Current(q) => mine'[q][w] = mine[q][w]
  BY <1>1, UpdateStatusWrites
     DEF UpdateStatus, At, Goto, TypeOK, database, HandlerIsOnItsWay, ItemSteps
<1>3. locks'[q] = locks[q] \cup Wanted(q)
  BY <1>1, LocksAreTyped DEF UpdateStatus
<1>4. <<"status", Current(q)>> \in Wanted(q)
      \/ mine[q][Current(q)].status = ACTION_TO_STATUS[job[q].action]
  BY <1>1, <1>2, WantedIsLockable
<1>5. Reviewing(q)' = Reviewing(q)
  BY <1>2 DEF Reviewing
<1>6. CASE v = Current(q)
  BY <1>2, <1>3, <1>4, <1>5, <1>6 DEF IsPassedBy, Considers, StatusFor, At
<1>7. CASE v # Current(q)
  BY <1>2, <1>3, <1>5, <1>7 DEF IsPassedBy, Considers, StatusFor, At
<1> QED
  BY <1>2, <1>6, <1>7

(* A row that is read for a review of v when no one else considers v is    *)
(* where the chain ends: all reviews of v are seen.                        *)
LEMMA GetKeepsHistory ==
  ASSUME ReviewInv, NEW q \in Requests, OnlyActs(q), Get(q),
         NEW v \in Violations, v \notin contended', HistoryInv(v)
  PROVE  HistoryInv(v)'
<1>1. /\ TypeOK /\ HandlerIsOnItsWay(q)
  BY DEF ReviewInv, SessionInv
<1>2. /\ pc[q] = "get" /\ pc'[q] \notin {"update", "committed"}
      /\ UNCHANGED <<job, row, reviews, locks>>
      /\ mine'[q][Current(q)] \in Loaded(q, Current(q)) \cap Row
      /\ \A w \in Violations : w # Current(q) => mine'[q][w] = mine[q][w]
  <2>1. NextItem(q) => pc'[q] \notin {"update", "committed"}
    BY <1>1 DEF NextItem, Goto, FirstStep, AfterLoop, TypeOK, Get, At
  <2>2. job[q].kind \in {"review", "skip", "assign", "bulk_export"}
    <3>1. job[q] \in Jobs
      BY <1>1, ItemInHand DEF Get, At, LoopSteps
    <3> QED
      BY <3>1, JobFacts DEF Get
  <2>3. pc'[q] \notin {"update", "committed"}
    <3>1. NextItem(q) \/ Goto(q, "insert") \/ Goto(q, "assign")
      BY <2>2 DEF Get, Reviewing
    <3> QED
      BY <1>1, <2>1, <3>1 DEF Goto, TypeOK
  <2> QED
    BY <1>1, <2>3, GetReads DEF Get, At, database
<1>3. /\ ReviewsOf(v)' = ReviewsOf(v)
      /\ \A r \in ReviewsOf(v) : IsDone(r.by)' = IsDone(r.by)
  BY <1>2, SeenStaysSeen DEF ReviewsOf
<1>4. Reviewing(q)' = Reviewing(q)
  BY <1>2 DEF Reviewing
<1>5. CASE ~Reviewing(q) \/ v # Current(q) \/ mine[q][v] # None
  <2>1. ASSUME ~Reviewing(q) PROVE IsPassedBy(q, v)
    BY <1>2, <2>1, OthersPassBy
  <2>2. ASSUME v # Current(q) \/ mine[q][v] # None PROVE IsPassedBy(q, v)
    <3>1. CASE v # Current(q)
      <4>1. mine'[q][v] = mine[q][v]
        BY <1>2, <3>1
      <4> QED
        BY <1>2, <1>4, <4>1 DEF IsPassedBy, Considers, StatusFor, At
    <3>2. CASE Reviewing(q) /\ v = Current(q) /\ mine[q][v] # None
      <4>1. <<"status", v>> \notin locks[q] => mine[q][v].status = row[v].status
        BY <3>2 DEF HistoryInv, IsUpToDate, Considers
      <4>2. mine'[q][v].status = mine[q][v].status
        BY <1>2, <3>2, <4>1 DEF Loaded, Saved
      <4> QED
        BY <1>2, <1>4, <3>2, <4>2 DEF IsPassedBy, Considers, StatusFor, At
    <3>3. CASE ~Reviewing(q)
      BY <1>4, <3>3 DEF IsPassedBy, Considers
    <3> QED
      BY <2>2, <3>1, <3>2, <3>3
  <2>3. IsPassedBy(q, v)
    BY <1>5, <2>1, <2>2
  <2> QED
    BY <1>2, <1>3, <2>3, QuietKeepsHistory
<1>6. CASE Reviewing(q) /\ v = Current(q) /\ mine[q][v] = None
  <2>1. \A o \in Requests \ {q} : ~Considers(o, v)
    <3> SUFFICES ASSUME NEW o \in Requests \ {q}, Considers(o, v) PROVE FALSE
      OBVIOUS
    <3>1. Active(o) /\ Reviewing(o) /\ mine[o][v] # None
      BY ConsidersIsActive DEF Considers
    <3>2. contended' = contended \cup {v}
      BY <1>6, <3>1 DEF Get
    <3> QED
      BY <3>2
  <2>2. ReviewsOf(v) = HistoryOf(v)
    BY <1>6, <2>1, AllAreSeen DEF Considers
  <2>3. mine'[q][v] = row[v]
    BY <1>2, <1>6 DEF Loaded
  <2>4. HistoryOf(v)' = HistoryOf(v)
    <3>1. HistoryOf(v)' = {r \in ReviewsOf(v)' : IsDone(r.by)'}
      BY DEF HistoryOf, ReviewsOf, Committed, IsDone
    <3> QED
      BY <1>3, <3>1, HistoryIsSeen
  <2>5. IsChain(v)'
    BY <1>2, <1>3, <2>4 DEF HistoryInv, IsChain, StatusAfter
  <2>6. \A o \in Requests \ {q} : ~Considers(o, v)'
    BY <2>1, OthersConsider
  <2>7. OneAtATime(v)'
    BY <2>6 DEF OneAtATime
  <2>8. StatusAfter(ReviewsOf(v))' = row[v].status
    BY <1>3, <2>2 DEF HistoryInv, IsChain, StatusAfter
  <2>9. IsUpToDate(q, v)'
    <3>1. StatusFor(q, v)' = row[v].status
      BY <1>2, <2>3 DEF StatusFor, At
    <3> QED
      BY <1>2, <2>3, <2>8, <3>1 DEF IsUpToDate
  <2> QED
    BY <2>5, <2>6, <2>7, <2>9 DEF HistoryInv, IsUpToDate
<1> QED
  BY <1>5, <1>6

(* A review starts where the chain ends, and becomes its end.              *)
LEMMA InsertReviewKeepsHistory ==
  ASSUME ReviewInv, NEW q \in Requests, OnlyActs(q), InsertReview(q),
         NEW v \in Violations, HistoryInv(v)
  PROVE  HistoryInv(v)'
<1>1. /\ TypeOK /\ HandlerIsOnItsWay(q)
  BY DEF ReviewInv, SessionInv
<1>2. /\ pc[q] = "insert" /\ pc'[q] = "update"
      /\ UNCHANGED <<job, row, work, mine, locks>>
      /\ Reviewing(q) /\ mine[q][Current(q)] # None /\ Current(q) \in Violations
  BY <1>1 DEF InsertReview, At, Goto, TypeOK, session, HandlerIsOnItsWay, ItemSteps
<1>3. PICK new : /\ new = [by |-> q, at |-> clock, item |-> Item(q), violation |-> Current(q),
                           action |-> job[q].action, old |-> mine[q][Current(q)].status,
                           new |-> ACTION_TO_STATUS[job[q].action]]
                 /\ reviews' = reviews \cup {new}
  BY DEF InsertReview
<1>4. /\ new.by = q /\ new.at = clock /\ new.violation = Current(q)
      /\ new.old = mine[q][Current(q)].status
      /\ new.new = ACTION_TO_STATUS[job[q].action]
  BY <1>3
<1>5. \A r \in reviews : IsDone(r.by)' = IsDone(r.by)
  BY <1>2, SeenStaysSeen
<1>6. UNCHANGED <<Current(q), Reviewing(q)>> /\ ~IsDone(q) /\ ~IsDone(q)'
  BY <1>2 DEF Current, Reviewing, IsDone
<1>7. CASE v # Current(q)
  <2>1. ReviewsOf(v)' = ReviewsOf(v)
    BY <1>3, <1>4, <1>7 DEF ReviewsOf
  <2>2. IsPassedBy(q, v)
    BY <1>2, <1>6, <1>7 DEF IsPassedBy, Considers, StatusFor, At
  <2> QED
    BY <1>2, <1>5, <2>1, <2>2, QuietKeepsHistory DEF ReviewsOf
<1>8. CASE v = Current(q)
  <2>1. ReviewsOf(v)' = ReviewsOf(v) \cup {new}
    BY <1>3, <1>4, <1>8 DEF ReviewsOf
  <2>2. \A r \in ReviewsOf(v) : r.at \in Nat /\ r.at < clock
    BY ReviewsAreTyped DEF ReviewsOf
  <2>3. clock \in Nat
    BY <1>1 DEF TypeOK
  <2>4. Considers(q, v) /\ Considers(q, v)' /\ \A o \in Requests \ {q} : ~Considers(o, v)
    BY <1>2, <1>6, <1>8 DEF Considers, HistoryInv, OneAtATime
  <2>5. \A o \in Requests \ {q} : ~Considers(o, v)'
    BY <2>4, OthersConsider
  <2>6. new.old = StatusAfter(ReviewsOf(v))
    BY <1>2, <1>4, <1>8, <2>4 DEF HistoryInv, IsUpToDate, StatusFor, At
  <2>7. StatusAfter(ReviewsOf(v)') = new.new
    <3>1. \A o \in ReviewsOf(v) \cup {new} : o.at \in Nat /\ o.at <= new.at
      BY <1>4, <2>2, <2>3
    <3>2. \A o \in ReviewsOf(v) \cup {new} : o.at = new.at => o = new
      BY <1>4, <2>2, <2>3
    <3>3. Latest(ReviewsOf(v) \cup {new}) = new
      BY <3>1, <3>2, LatestIs
    <3> QED
      BY <2>1, <3>3 DEF StatusAfter
  <2>8. HistoryOf(v)' = HistoryOf(v)
    <3>1. HistoryOf(v)' = {r \in ReviewsOf(v)' : IsDone(r.by)'}
      BY DEF HistoryOf, ReviewsOf, Committed, IsDone
    <3>2. \A r \in ReviewsOf(v) : IsDone(r.by)' = IsDone(r.by)
      BY <1>5 DEF ReviewsOf
    <3> QED
      BY <1>4, <1>6, <2>1, <3>1, <3>2, HistoryIsSeen
  <2>9. IsChain(v)'
    <3>1. ASSUME NEW r \in ReviewsOf(v)'
          PROVE  r.old = StatusAfter({o \in ReviewsOf(v)' : o.at < r.at})
      <4>1. CASE r = new
        <5>1. {o \in ReviewsOf(v)' : o.at < r.at} = ReviewsOf(v)
          BY <1>4, <2>1, <2>2, <2>3, <4>1
        <5> QED
          BY <2>6, <4>1, <5>1
      <4>2. CASE r \in ReviewsOf(v)
        <5>1. {o \in ReviewsOf(v)' : o.at < r.at} = {o \in ReviewsOf(v) : o.at < r.at}
          BY <1>4, <2>1, <2>2, <2>3, <4>2
        <5> QED
          BY <4>2, <5>1 DEF HistoryInv, IsChain
      <4> QED
        BY <2>1, <4>1, <4>2
    <3>2. ASSUME NEW r \in ReviewsOf(v)', NEW o \in ReviewsOf(v)',
                 IsDone(r.by)', ~IsDone(o.by)'
          PROVE  r.at < o.at
      <4>1. r \in ReviewsOf(v) /\ IsDone(r.by)
        BY <1>4, <1>5, <1>6, <2>1, <3>2 DEF ReviewsOf
      <4>2. CASE o = new
        BY <1>4, <2>2, <4>1, <4>2
      <4>3. CASE o \in ReviewsOf(v)
        <5>1. ~IsDone(o.by)
          BY <1>5, <3>2, <4>3 DEF ReviewsOf
        <5> QED
          BY <4>1, <4>3, <5>1 DEF HistoryInv, IsChain
      <4> QED
        BY <2>1, <4>2, <4>3
    <3>3. row'[v].status = StatusAfter(HistoryOf(v)')
      BY <1>2, <2>8 DEF HistoryInv, IsChain
    <3> QED
      BY <3>1, <3>2, <3>3 DEF IsChain, StatusAfter
  <2>10. IsUpToDate(q, v)'
    <3>1. StatusFor(q, v)' = new.new
      BY <1>2, <1>4, <1>6, <1>8 DEF StatusFor, At
    <3>2. <<"status", v>> \notin locks'[q] => mine'[q][v].status = row'[v].status
      BY <1>2, <2>4 DEF HistoryInv, IsUpToDate
    <3> QED
      BY <2>7, <3>1, <3>2 DEF IsUpToDate, StatusAfter
  <2>11. OneAtATime(v)'
    BY <2>5 DEF OneAtATime
  <2> QED
    BY <2>5, <2>9, <2>10, <2>11 DEF HistoryInv, IsUpToDate
<1> QED
  BY <1>7, <1>8

LEMMA FlushKeepsHistory ==
  ASSUME ReviewInv, NEW q \in Requests, OnlyActs(q), FlushStep(q),
         NEW v \in Violations, v \notin contended', HistoryInv(v)
  PROVE  HistoryInv(v)'
<1>1. UNCHANGED row /\ pc'[q] # "committed"
  BY FlushIsOwn DEF ReviewInv, SessionInv
<1>2. CASE Get(q)
  BY <1>2, GetKeepsHistory
<1>3. CASE InsertReview(q)
  BY <1>3, InsertReviewKeepsHistory
<1>4. CASE ~Get(q) /\ ~InsertReview(q)
  <2>1. IsPassedBy(q, v) /\ UNCHANGED reviews
    BY <1>4, UpdatePassesBy, RestPassesBy DEF FlushStep
  <2>2. ReviewsOf(v)' = ReviewsOf(v) /\ \A r \in ReviewsOf(v) : IsDone(r.by)' = IsDone(r.by)
    BY <1>1, <2>1, SeenStaysSeen DEF ReviewsOf
  <2> QED
    BY <1>1, <2>1, <2>2, QuietKeepsHistory
<1> QED
  BY <1>2, <1>3, <1>4

-------------------------------------------------------------------------------
(* The theorem                                                             *)

(* What once was contended stays so.                                       *)
LEMMA ContentionStays ==
  ASSUME NEW q \in Requests, RequestStep(q)
  PROVE  contended \subseteq contended'
<1>1. CASE \E j \in Jobs : Receive(q, j)
  BY <1>1 DEF Receive
<1>2. CASE Rollback(q)
  BY <1>2 DEF Rollback, EndSession
<1>3. CASE Commit(q)
  BY <1>3 DEF Commit, EndSession
<1>4. CASE Get(q)
  BY <1>4 DEF Get
<1>5. CASE FlushStep(q) /\ ~Get(q)
  <2>1. PassMissing(q) => UNCHANGED contended
    BY DEF PassMissing, GetMissing
  <2>2. InsertReview(q) \/ UpdateStatus(q) \/ AuditReview(q) \/ AddPatch(q) \/ AuditPatch(q)
          => UNCHANGED contended
    BY DEF InsertReview, UpdateStatus, AuditReview, AddPatch, AuditPatch
  <2>3. /\ Assign(q) \/ ListPatches(q) \/ MarkExported(q) \/ AuditBulk(q) => UNCHANGED contended
        /\ \A p \in Requests : GetPatch(q, p) => UNCHANGED contended
    BY DEF Assign, ListPatches, MarkExported, AuditBulk, GetPatch
  <2> QED
    BY <1>5, <2>1, <2>2, <2>3 DEF FlushStep
<1> QED
  BY <1>1, <1>2, <1>3, <1>4, <1>5, StepCases

LEMMA StepKeepsReplay ==
  ASSUME ReplayInv, NEW q \in Requests, RequestStep(q)
  PROVE  ReplayInv'
<1>1. ReviewInv /\ ReviewInv' /\ OnlyActs(q)
  BY StepKeepsInv DEF ReplayInv
<1>2. SUFFICES ASSUME NEW v \in Violations, v \notin contended' PROVE HistoryInv(v)'
  BY <1>1 DEF ReplayInv
<1>3. HistoryInv(v)
  BY <1>2, ContentionStays DEF ReplayInv
<1>4. CASE \E j \in Jobs : Receive(q, j)
  BY <1>1, <1>3, <1>4, ReceiptKeepsHistory
<1>5. CASE FlushStep(q)
  BY <1>1, <1>2, <1>3, <1>5, FlushKeepsHistory
<1>6. CASE Commit(q)
  BY <1>1, <1>3, <1>6, CommitKeepsHistory
<1>7. CASE Active(q) /\ Rollback(q)
  BY <1>1, <1>3, <1>7, RollbackKeepsHistory
<1> QED
  BY <1>4, <1>5, <1>6, <1>7, StepCases

LEMMA StutteringKeepsReplay ==
  ASSUME ReplayInv, UNCHANGED vars
  PROVE  ReplayInv'
<1>1. UNCHANGED <<row, reviews, job, pc, work, mine, locks, contended>>
  BY DEF vars, database, session
<1>2. ReviewInv'
  BY StutteringKeepsInv DEF ReplayInv
<1>3. ASSUME NEW v \in Violations \ contended PROVE HistoryInv(v)'
  <2>1. /\ ReviewsOf(v)' = ReviewsOf(v) /\ HistoryOf(v)' = HistoryOf(v)
        /\ \A q \in Requests : /\ Considers(q, v)' = Considers(q, v)
                               /\ StatusFor(q, v)' = StatusFor(q, v)
    BY <1>1 DEF ReviewsOf, HistoryOf, Committed, Considers, Reviewing, StatusFor, At, Current
  <2>2. \A q : IsDone(q)' = IsDone(q)
    BY <1>1 DEF IsDone
  <2>3. HistoryInv(v)
    BY DEF ReplayInv
  <2>4. IsChain(v)'
    BY <1>1, <2>1, <2>2, <2>3 DEF HistoryInv, IsChain, StatusAfter
  <2>5. OneAtATime(v)' /\ \A q \in Requests : IsUpToDate(q, v)'
    BY <1>1, <2>1, <2>3 DEF HistoryInv, OneAtATime, IsUpToDate, StatusAfter
  <2> QED
    BY <2>4, <2>5 DEF HistoryInv
<1> QED
  BY <1>1, <1>2, <1>3 DEF ReplayInv

LEMMA NextKeepsReplay == ReplayInv /\ [Next]_vars => ReplayInv'
<1> SUFFICES ASSUME ReplayInv, [Next]_vars PROVE ReplayInv'
  OBVIOUS
<1>1. CASE Next
  <2>1. PICK q \in Requests : RequestStep(q)
    BY <1>1 DEF Next, RequestStep
  <2> QED
    BY <2>1, StepKeepsReplay
<1>2. CASE UNCHANGED vars
  BY <1>2, StutteringKeepsReplay
<1> QED
  BY <1>1, <1>2

(* The reviews of an uncontended violation, those flushed by open requests *)
(* included, are one chain that ends in the session of at most one request *)
(* (submit_review reads previous_status, review_service.py:92-175).        *)
THEOREM ReplayInvariant == Spec => []ReplayInv
<1> QED
  BY InitKeepsReplay, NextKeepsReplay, PTL DEF Spec

(* list_reviews tells a history that replays to the status of the row, for *)
(* every violation whose reviews did not overlap.                          *)
THEOREM UncontendedHistoriesReplay == Spec => []UncontendedHistoryReplays
<1> QED
  BY ReplayInvariant, ReplayFollows, PTL

-------------------------------------------------------------------------------
(* Batches: how far the loops of request q have come                       *)

(* How many of the ids have been gone through.                             *)
Processed(q) == Len(job[q].ids) - Len(work[q])

(* What the loop over the ids has still to go over is their end.           *)
WorkIsRest(q) ==
  /\ pc[q] \in LoopSteps =>
       \A k \in 1 .. Len(work[q]) : work[q][k] = job[q].ids[Processed(q) + k]
  /\ pc[q] \in {"summary", "commit", "committed"} => work[q] = <<>>

(* A request begins with nothing handled.                                  *)
NothingIsHandled(q) == pc[q] = "idle" => handled[q] = <<>>

(* The summary is entered last.                                            *)
SummaryIsLast(q) == pc[q] \notin {"commit", "committed"} => SummariesOf(q) = {}

(* bulk_skip and bulk_assign_reviewer: the ids that have a row are handled *)
(* one by one, and then listed.                                            *)
RowsAreHandled(q) ==
  pc[q] # "idle" /\ job[q].kind \in {"skip", "assign"} =>
    /\ pc[q] \in LoopSteps \cup {"summary"} =>
         ListsRows(handled[q], job[q].ids, Processed(q))
    /\ pc[q] \in {"commit", "committed"} =>
         \E a \in SummariesOf(q) :
           /\ SummariesOf(q) = {a} /\ a.action = job[q].kind
           /\ ListsRows(a.listed, job[q].ids, Len(job[q].ids))

(* bulk_skip: what is handled is reviewed, and nothing else.               *)
RowsAreReviewed(q) ==
  pc[q] \notin {"idle", "refused"} /\ job[q].kind = "skip" =>
    /\ \A r \in OwnReviews(q) : r.violation \in RangeOf(job[q].ids)
    /\ \A i \in 1 .. Processed(q) : job[q].ids[i] \in Violations =>
         \E r \in OwnReviews(q) : r.violation = job[q].ids[i]

(* p generated a patch, for all to see, of one of the ids of q.            *)
IsPatchFor(q, p) ==
  \E w \in Committed(patches) : w.by = p /\ w.violation \in RangeOf(job[q].ids)

(* bulk_export_approved_patches: the eligible ids are collected, then their*)
(* patches; those that are marked are those that are listed.               *)
PatchesAreMarked(q) ==
  pc[q] # "idle" /\ job[q].kind = "bulk_export" =>
    /\ pc[q] \in {"get", "list_patches"} =>
         /\ RangeOf(handled[q]) \subseteq RangeOf(job[q].ids)
         /\ \A p \in Requests : <<"patch", p>> \notin locks[q]
    /\ pc[q] = "mark" => \A p \in RangeOf(work[q]) : p = None \/ IsPatchFor(q, p)
    /\ pc[q] \in {"mark", "summary"} =>
         /\ \A p \in Requests : <<"patch", p>> \in locks[q] <=> p \in RangeOf(handled[q])
         /\ \A p \in RangeOf(handled[q]) : IsPatchFor(q, p)
    /\ pc[q] \in {"commit", "committed"} =>
         \E a \in SummariesOf(q) :
           /\ SummariesOf(q) = {a}
           /\ \A p \in RangeOf(a.listed) : IsPatchFor(q, p)
           /\ pc[q] = "commit" =>
                \A p \in Requests : <<"patch", p>> \in locks[q] <=> p \in RangeOf(a.listed)
           /\ pc[q] = "committed" =>
                /\ \A p \in Requests : exportedBy[p] = q => p \in RangeOf(a.listed)
                /\ \A p \in RangeOf(a.listed) : exportedBy[p] # None

BatchOf(q) ==
  /\ WorkIsRest(q)
  /\ NothingIsHandled(q)
  /\ SummaryIsLast(q)
  /\ RowsAreHandled(q)
  /\ RowsAreReviewed(q)
  /\ PatchesAreMarked(q)

(* Who is written down to have exported a patch has committed.             *)
ExportersAreDone == \A p \in Requests : exportedBy[p] # None => IsDone(exportedBy[p])

BatchInv ==
  /\ ReviewInv
  /\ ExportersAreDone
  /\ \A q \in Requests : BatchOf(q)

-------------------------------------------------------------------------------
(* Lemmas about what a list comes to without the ids that have no row      *)

LEMMA RangeIs ==
  ASSUME NEW S, NEW s \in Seq(S)
  PROVE  RangeOf(s) = {s[k] : k \in 1 .. Len(s)} /\ RangeOf(s) \subseteq S
BY DEF RangeOf

LEMMA RangeOfAppend ==
  ASSUME NEW S, NEW s \in Seq(S), NEW e \in S
  PROVE  RangeOf(Append(s, e)) = RangeOf(s) \cup {e}
<1>1. PICK t \in Seq(S) : t = Append(s, e)
  <2>1. Append(s, e) \in Seq(S)
    OBVIOUS
  <2> QED
    BY <2>1
<1>2. /\ Len(s) \in Nat /\ Len(t) = Len(s) + 1 /\ t[Len(s) + 1] = e
      /\ \A k \in 1 .. Len(s) : t[k] = s[k]
  BY <1>1
<1>3. /\ RangeOf(t) = {t[k] : k \in 1 .. Len(t)}
      /\ RangeOf(s) = {s[k] : k \in 1 .. Len(s)}
  BY RangeIs
<1>4. 1 .. Len(t) = (1 .. Len(s)) \cup {Len(s) + 1}
  BY <1>2
<1>5. {t[k] : k \in 1 .. Len(t)} = {t[k] : k \in 1 .. Len(s)} \cup {t[Len(s) + 1]}
  BY <1>4
<1>6. {t[k] : k \in 1 .. Len(s)} = {s[k] : k \in 1 .. Len(s)}
  BY <1>2
<1> QED
  BY <1>1, <1>2, <1>3, <1>5, <1>6

LEMMA RangeOfNothing == RangeOf(<<>>) = {}
BY DEF RangeOf

LEMMA NothingIsListed ==
  ASSUME NEW ids
  PROVE  ListsRows(<<>>, ids, 0)
<1> DEFINE place == [k \in {} |-> 0]
<1>1. 1 .. Len(<<>>) = {} /\ {i \in 1 .. 0 : ids[i] \in Violations} = {}
  OBVIOUS
<1>2. place \in [{} -> {}]
  OBVIOUS
<1> QED
  BY <1>1, <1>2 DEF ListsRows

LEMMA MissingIsPassed ==
  ASSUME NEW listed, NEW ids, NEW n \in Nat, ListsRows(listed, ids, n),
         ids[n + 1] \notin Violations
  PROVE  ListsRows(listed, ids, n + 1)
<1>1. {i \in 1 .. n + 1 : ids[i] \in Violations} = {i \in 1 .. n : ids[i] \in Violations}
  OBVIOUS
<1> QED
  BY <1>1 DEF ListsRows

LEMMA RowIsListed ==
  ASSUME NEW S, NEW listed \in Seq(S), NEW ids, NEW n \in Nat, ListsRows(listed, ids, n),
         ids[n + 1] \in Violations, ids[n + 1] \in S
  PROVE  ListsRows(Append(listed, ids[n + 1]), ids, n + 1)
<1> DEFINE rows == {i \in 1 .. n : ids[i] \in Violations}
           more == {i \in 1 .. n + 1 : ids[i] \in Violations}
           longer == Append(listed, ids[n + 1])
           len == Len(listed)
<1>1. PICK place \in [1 .. len -> rows] :
        /\ \A k, l \in 1 .. len : k < l => place[k] < place[l]
        /\ \A i \in rows : \E k \in 1 .. len : place[k] = i
        /\ \A k \in 1 .. len : listed[k] = ids[place[k]]
  BY DEF ListsRows
<1> DEFINE further == [k \in 1 .. len + 1 |-> IF k = len + 1 THEN n + 1 ELSE place[k]]
<1>2. len \in Nat /\ Len(longer) = len + 1
      /\ longer[len + 1] = ids[n + 1] /\ \A k \in 1 .. len : longer[k] = listed[k]
  OBVIOUS
<1>3. more = rows \cup {n + 1}
  OBVIOUS
<1>4. \A k \in 1 .. len : further[k] = place[k] /\ place[k] \in rows
  BY <1>2
<1>5. further[len + 1] = n + 1
  BY <1>2
<1>6. \A i \in rows : i \in 1 .. n
  OBVIOUS
<1>7. \A k \in 1 .. len + 1 : k \in 1 .. len \/ k = len + 1
  BY <1>2
<1>8. further \in [1 .. len + 1 -> more]
  <2>1. \A k \in 1 .. len + 1 : further[k] \in more
    BY <1>3, <1>4, <1>5, <1>7
  <2> QED
    BY <2>1
<1> HIDE DEF further, rows, more, longer, len
<1>9. \A k, l \in 1 .. len + 1 : k < l => further[k] < further[l]
  <2> SUFFICES ASSUME NEW k \in 1 .. len + 1, NEW l \in 1 .. len + 1, k < l
               PROVE  further[k] < further[l]
    OBVIOUS
  <2>1. k \in 1 .. len
    BY <1>2
  <2>2. CASE l = len + 1
    BY <1>4, <1>5, <1>6, <2>1, <2>2
  <2>3. CASE l \in 1 .. len
    BY <1>1, <1>4, <2>1, <2>3
  <2> QED
    BY <1>7, <2>2, <2>3
<1>10. \A i \in more : \E k \in 1 .. len + 1 : further[k] = i
  <2> SUFFICES ASSUME NEW i \in more PROVE \E k \in 1 .. len + 1 : further[k] = i
    OBVIOUS
  <2>1. CASE i = n + 1
    BY <1>2, <1>5, <2>1
  <2>2. CASE i \in rows
    <3>1. PICK k \in 1 .. len : place[k] = i
      BY <1>1, <2>2
    <3>2. k \in 1 .. len + 1
      BY <1>2
    <3> QED
      BY <1>4, <3>1, <3>2
  <2> QED
    BY <1>3, <2>1, <2>2
<1>11. \A k \in 1 .. len + 1 : longer[k] = ids[further[k]]
  BY <1>1, <1>2, <1>4, <1>5, <1>7
<1> QED
  BY <1>2, <1>8, <1>9, <1>10, <1>11 DEF ListsRows, more, longer

-------------------------------------------------------------------------------
(* What a step of one request means to the others                          *)

LEMMA HandledIsOwn ==
  ASSUME ReviewInv, NEW q \in Requests, RequestStep(q), NEW o \in Requests \ {q}
  PROVE  handled'[o] = handled[o]
<1>1. TypeOK /\ HandlerIsOnItsWay(q)
  BY DEF ReviewInv, SessionInv
<1>2. \A id : Handle(q, id) => handled'[o] = handled[o]
  BY <1>1 DEF Handle, TypeOK
<1>3. EndSession(q) => handled'[o] = handled[o]
  BY <1>1 DEF EndSession, TypeOK
<1>4. CASE Get(q)
  <2>1. job[q].kind \in {"review", "skip", "assign", "bulk_export"}
    <3>1. job[q] \in Jobs
      BY <1>1, <1>4, ItemInHand DEF Get, At, LoopSteps
    <3> QED
      BY <1>4, <3>1, JobFacts DEF Get
  <2>2. UNCHANGED handled \/ Handle(q, Current(q))
    BY <1>4, <2>1 DEF Get, Reviewing
  <2> QED
    BY <1>2, <2>2
<1>5. CASE FlushStep(q) /\ ~Get(q)
  <2>1. PassMissing(q) => UNCHANGED handled
    BY DEF PassMissing, GetMissing
  <2>2. InsertReview(q) \/ UpdateStatus(q) \/ AddPatch(q) \/ AuditPatch(q) \/ AuditBulk(q)
          => UNCHANGED handled
    BY DEF InsertReview, UpdateStatus, AddPatch, AuditPatch, AuditBulk, session
  <2>3. AuditReview(q) \/ Assign(q) => Handle(q, Current(q))
    BY DEF AuditReview, Assign
  <2>4. ListPatches(q) => handled'[o] = handled[o]
    BY <1>1 DEF ListPatches, TypeOK
  <2>5. \A p \in Requests : GetPatch(q, p) => UNCHANGED handled
    BY DEF GetPatch
  <2>6. MarkExported(q) => UNCHANGED handled \/ Handle(q, Current(q))
    BY DEF MarkExported
  <2> QED
    BY <1>2, <1>5, <2>1, <2>2, <2>3, <2>4, <2>5, <2>6 DEF FlushStep
<1>6. (\E j \in Jobs : Receive(q, j)) => UNCHANGED handled
  BY DEF Receive
<1>7. Commit(q) \/ Rollback(q) => EndSession(q)
  BY DEF Commit, Rollback
<1> QED
  BY <1>3, <1>4, <1>5, <1>6, <1>7, StepCases

(* Patches that others see stay.                                           *)
LEMMA PatchesStay ==
  ASSUME ReviewInv, NEW q \in Requests, OnlyActs(q)
  PROVE  Committed(patches) \subseteq Committed(patches)'
<1> SUFFICES ASSUME NEW p \in Committed(patches) PROVE p \in Committed(patches)'
  OBVIOUS
<1>1. p \in patches /\ p.by \in Requests /\ p.by # q
  BY EntriesHaveOwners DEF ReviewInv, Committed, OnlyActs
<1>2. p \in {x \in patches' : x.by # q}
  BY <1>1 DEF OnlyActs
<1> QED
  BY <1>1, <1>2 DEF Committed, OnlyActs

LEMMA PatchesStayFor ==
  ASSUME ReviewInv, NEW q \in Requests, OnlyActs(q), NEW o, job'[o] = job[o], NEW p
  PROVE  IsPatchFor(o, p) => IsPatchFor(o, p)'
BY PatchesStay DEF IsPatchFor

(* Only a commit writes exported_by, of the patches it has locked.         *)
LEMMA ExportsAreWritten ==
  ASSUME TypeOK, NEW q \in Requests, RequestStep(q)
  PROVE  /\ Commit(q) => \A p \in Requests :
              exportedBy'[p] = IF <<"patch", p>> \in locks[q] THEN q ELSE exportedBy[p]
         /\ ~Commit(q) => UNCHANGED exportedBy
<1>1. Commit(q) => \A p \in Requests :
        exportedBy'[p] = IF <<"patch", p>> \in locks[q] THEN q ELSE exportedBy[p]
  BY DEF Commit
<1>2. (\E j \in Jobs : Receive(q, j)) \/ Rollback(q) => UNCHANGED exportedBy
  BY DEF Receive, Rollback, database
<1>3. FlushStep(q) => UNCHANGED exportedBy
  <2>1. Get(q) \/ PassMissing(q) \/ InsertReview(q) \/ UpdateStatus(q) \/ AuditReview(q)
          => UNCHANGED exportedBy
    BY DEF Get, PassMissing, GetMissing, InsertReview, UpdateStatus, AuditReview, database
  <2>2. AddPatch(q) \/ AuditPatch(q) \/ Assign(q) \/ ListPatches(q) => UNCHANGED exportedBy
    BY DEF AddPatch, AuditPatch, Assign, ListPatches, database
  <2>3. (\E p \in Requests : GetPatch(q, p)) \/ MarkExported(q) \/ AuditBulk(q)
          => UNCHANGED exportedBy
    BY DEF GetPatch, MarkExported, AuditBulk, database
  <2> QED
    BY <2>1, <2>2, <2>3 DEF FlushStep
<1> QED
  BY <1>1, <1>2, <1>3, StepCases

LEMMA OthersKeepBatch ==
  ASSUME ReviewInv, NEW q \in Requests, RequestStep(q), OnlyActs(q),
         NEW o \in Requests \ {q}, BatchOf(o)
  PROVE  BatchOf(o)'
<1>1. TypeOK
  BY DEF ReviewInv
<1>2. /\ pc'[o] = pc[o] /\ job'[o] = job[o] /\ work'[o] = work[o] /\ locks'[o] = locks[o]
      /\ OwnReviews(o)' = OwnReviews(o)
      /\ {a \in audit : a.by = o}' = {a \in audit : a.by = o}
  BY <1>1, OthersAreLeftAlone DEF IsLeftAlone
<1>3. handled'[o] = handled[o]
  BY HandledIsOwn
<1>4. SummariesOf(o)' = SummariesOf(o)
  <2>1. SummariesOf(o) = {a \in {a \in audit : a.by = o} : a.action \in {"skip", "assign", "bulk_export"}}
    BY DEF SummariesOf
  <2>2. SummariesOf(o)' = {a \in {a \in audit : a.by = o}' : a.action \in {"skip", "assign", "bulk_export"}}
    BY DEF SummariesOf
  <2> QED
    BY <1>2, <2>1, <2>2
<1>5. Processed(o)' = Processed(o)
  BY <1>2 DEF Processed
<1>6. \A p : IsPatchFor(o, p) => IsPatchFor(o, p)'
  BY <1>2, PatchesStayFor
<1>7. \A p \in Requests : /\ exportedBy'[p] = o => exportedBy[p] = o
                          /\ exportedBy[p] # None => exportedBy'[p] # None
  BY <1>1, ExportsAreWritten, NoneIsNothing
<1>8. WorkIsRest(o)' /\ NothingIsHandled(o)' /\ SummaryIsLast(o)'
  BY <1>2, <1>3, <1>4, <1>5 DEF BatchOf, WorkIsRest, NothingIsHandled, SummaryIsLast
<1>9. RowsAreHandled(o)'
  BY <1>2, <1>3, <1>4, <1>5 DEF BatchOf, RowsAreHandled
<1>10. RowsAreReviewed(o)'
  BY <1>2, <1>5 DEF BatchOf, RowsAreReviewed
<1>11. PatchesAreMarked(o)'
  <2>1. PatchesAreMarked(o)
    BY DEF BatchOf
  <2>2. CASE pc[o] # "idle" /\ job[o].kind = "bulk_export" /\ pc[o] \in {"commit", "committed"}
    <3>1. PICK a \in SummariesOf(o) :
            /\ SummariesOf(o) = {a}
            /\ \A p \in RangeOf(a.listed) : IsPatchFor(o, p)
            /\ pc[o] = "commit" =>
                 \A p \in Requests : <<"patch", p>> \in locks[o] <=> p \in RangeOf(a.listed)
            /\ pc[o] = "committed" =>
                 /\ \A p \in Requests : exportedBy[p] = o => p \in RangeOf(a.listed)
                 /\ \A p \in RangeOf(a.listed) : exportedBy[p] # None
      BY <2>1, <2>2 DEF PatchesAreMarked
    <3>2. RangeOf(a.listed) \subseteq Requests
      BY <1>1, <3>1, EntriesHaveOwners DEF IsPatchFor, Committed
    <3>3. \A p \in RangeOf(a.listed) : exportedBy[p] # None => exportedBy'[p] # None
      BY <1>7, <3>2
    <3> QED
      BY <1>2, <1>4, <1>6, <1>7, <2>2, <3>1, <3>3 DEF PatchesAreMarked
  <2>3. CASE ~(pc[o] # "idle" /\ job[o].kind = "bulk_export" /\ pc[o] \in {"commit", "committed"})
    BY <1>2, <1>3, <1>6, <2>1, <2>3 DEF PatchesAreMarked
  <2> QED
    BY <2>2, <2>3
<1> QED
  BY <1>8, <1>9, <1>10, <1>11 DEF BatchOf

-------------------------------------------------------------------------------
(* How far a step of q takes its own loops                                 *)

(* The id in hand is the first that is not processed.                      *)
LEMMA NextToProcess ==
  ASSUME ReviewInv, NEW q \in Requests, WorkIsRest(q), pc[q] \in LoopSteps
  PROVE  /\ job[q].ids \in Seq(Ids) /\ Len(job[q].ids) \in Nat
         /\ Processed(q) \in Nat /\ Processed(q) + 1 \in 1 .. Len(job[q].ids)
         /\ Current(q) = job[q].ids[Processed(q) + 1]
         /\ Current(q) \in RangeOf(job[q].ids)
<1>1. TypeOK /\ HandlerIsOnItsWay(q)
  BY DEF ReviewInv, SessionInv
<1>2. /\ job[q].ids \in Seq(Ids) /\ work[q] \in Seq(Ids) /\ work[q] # <<>>
      /\ Len(work[q]) <= Len(job[q].ids)
  BY <1>1, ItemInHand, JobFacts DEF HandlerIsOnItsWay
<1>3. Len(work[q]) \in Nat /\ Len(job[q].ids) \in Nat /\ Len(work[q]) >= 1
  BY <1>2
<1>4. Current(q) = work[q][1]
  BY <1>2 DEF Current
<1>5. Processed(q) \in Nat /\ Processed(q) + 1 \in 1 .. Len(job[q].ids)
  <2>1. \A all, left \in Nat : left >= 1 /\ left <= all =>
          all - left \in Nat /\ all - left + 1 \in 1 .. all
    OBVIOUS
  <2> QED
    BY <1>2, <1>3, <2>1 DEF Processed
<1>6. Current(q) = job[q].ids[Processed(q) + 1]
  BY <1>3, <1>4 DEF WorkIsRest
<1> QED
  BY <1>2, <1>3, <1>5, <1>6, RangeIs

(* Each flush goes on with the item, goes on to the next, or leaves a loop.*)
LEMMA FlushCases ==
  ASSUME ReviewInv, NEW q \in Requests, FlushStep(q)
  PROVE  /\ job' = job
         /\ \/ pc[q] \in LoopSteps /\ pc'[q] \in LoopSteps /\ work' = work
            \/ pc[q] \in LoopSteps \cup {"mark"} /\ NextItem(q)
            \/ ListPatches(q)
            \/ \E p \in Requests : GetPatch(q, p)
            \/ AuditBulk(q)
<1>1. TypeOK /\ HandlerIsOnItsWay(q)
  BY DEF ReviewInv, SessionInv
<1>2. CASE Get(q)
  <2>1. job[q].kind \in {"review", "skip", "assign", "bulk_export"}
    <3>1. job[q] \in Jobs
      BY <1>1, <1>2, ItemInHand DEF Get, At, LoopSteps
    <3> QED
      BY <1>2, <3>1, JobFacts DEF Get
  <2>2. \/ NextItem(q)
        \/ work' = work /\ (Goto(q, "insert") \/ Goto(q, "assign"))
    BY <1>2, <2>1 DEF Get, Reviewing
  <2> QED
    BY <1>1, <1>2, <2>2 DEF Get, At, Goto, LoopSteps, ItemSteps, TypeOK
<1>3. CASE PassMissing(q)
  BY <1>3 DEF PassMissing, GetMissing, At, LoopSteps
<1>4. CASE InsertReview(q) \/ UpdateStatus(q) \/ AddPatch(q)
  BY <1>1, <1>4 DEF InsertReview, UpdateStatus, AddPatch, At, Goto, LoopSteps, ItemSteps,
     TypeOK, session
<1>5. CASE AuditReview(q)
  BY <1>1, <1>5 DEF AuditReview, At, Goto, LoopSteps, ItemSteps, TypeOK
<1>6. CASE AuditPatch(q) \/ Assign(q) \/ MarkExported(q)
  BY <1>6 DEF AuditPatch, Assign, MarkExported, At, LoopSteps, ItemSteps
<1>7. CASE ListPatches(q) \/ (\E p \in Requests : GetPatch(q, p)) \/ AuditBulk(q)
  BY <1>7 DEF ListPatches, GetPatch, AuditBulk
<1> QED
  BY <1>2, <1>3, <1>4, <1>5, <1>6, <1>7 DEF FlushStep

(* The next item of a loop over the ids.                                   *)
LEMMA ProcessedGrows ==
  ASSUME ReviewInv, NEW q \in Requests, WorkIsRest(q), pc[q] \in LoopSteps, NextItem(q), job' = job
  PROVE  /\ Processed(q)' = Processed(q) + 1
         /\ WorkIsRest(q)'
         /\ pc'[q] \in {"get", "list_patches", "summary", "commit"}
         /\ pc'[q] \in {"list_patches", "summary", "commit"} => work'[q] = <<>>
<1>1. TypeOK /\ HandlerIsOnItsWay(q)
  BY DEF ReviewInv, SessionInv
<1>2. /\ work[q] \in Seq(Ids) /\ work[q] # <<>>
      /\ Processed(q) \in Nat /\ Len(job[q].ids) \in Nat
  BY <1>1, ItemInHand, NextToProcess
<1>3. /\ work'[q] = Tail(work[q]) /\ Len(work[q]) \in Nat /\ Len(work'[q]) = Len(work[q]) - 1
      /\ \/ pc'[q] = FirstStep(q) /\ work'[q] # <<>>
         \/ pc'[q] = AfterLoop(q) /\ work'[q] = <<>>
  BY <1>1, <1>2, NextItemMoves DEF TypeOK
<1>4. FirstStep(q) = "get" /\ AfterLoop(q) \in {"commit", "list_patches", "summary"}
  BY DEF FirstStep, AfterLoop, At, LoopSteps, ItemSteps
<1>5. Processed(q)' = Processed(q) + 1
  <2>1. \A all, left \in Nat : all - (left - 1) = (all - left) + 1
    OBVIOUS
  <2>2. Processed(q)' = Len(job[q].ids) - (Len(work[q]) - 1)
    BY <1>3 DEF Processed
  <2> QED
    BY <1>2, <1>3, <2>1, <2>2 DEF Processed
<1>6. \A k \in 1 .. Len(work'[q]) : work'[q][k] = work[q][k + 1] /\ k + 1 \in 1 .. Len(work[q])
  BY <1>2, <1>3
<1>7. \A k \in 1 .. Len(work'[q]) : work'[q][k] = job'[q].ids[Processed(q)' + k]
  <2> SUFFICES ASSUME NEW k \in 1 .. Len(work'[q])
               PROVE  work'[q][k] = job'[q].ids[Processed(q)' + k]
    OBVIOUS
  <2>1. work[q][k + 1] = job[q].ids[Processed(q) + (k + 1)]
    BY <1>6 DEF WorkIsRest
  <2>2. Processed(q) + (k + 1) = Processed(q)' + k
    BY <1>2, <1>3, <1>5
  <2> QED
    BY <1>6, <2>1, <2>2
<1>8. WorkIsRest(q)'
  BY <1>3, <1>4, <1>7 DEF WorkIsRest, LoopSteps, ItemSteps
<1> QED
  BY <1>3, <1>4, <1>5, <1>8

LEMMA FlushKeepsWork ==
  ASSUME ReviewInv, NEW q \in Requests, WorkIsRest(q), FlushStep(q)
  PROVE  WorkIsRest(q)'
<1>1. TypeOK /\ HandlerIsOnItsWay(q) /\ TimesAreDistinct
  BY DEF ReviewInv, SessionInv
<1>2. job' = job
  BY FlushCases
<1>3. CASE pc[q] \in LoopSteps /\ pc'[q] \in LoopSteps /\ work' = work
  BY <1>2, <1>3 DEF WorkIsRest, Processed, LoopSteps, ItemSteps
<1>4. CASE pc[q] \in LoopSteps /\ NextItem(q)
  BY <1>2, <1>4, ProcessedGrows
<1>5. CASE pc[q] = "mark" /\ NextItem(q)
  <2>1. work[q] # <<>>
    BY <1>1, <1>5 DEF HandlerIsOnItsWay
  <2>2. \/ pc'[q] = FirstStep(q) /\ work'[q] # <<>>
        \/ pc'[q] = AfterLoop(q) /\ work'[q] = <<>>
    BY <1>1, <1>5, <2>1, NextItemMoves
  <2>3. FirstStep(q) = "mark" /\ AfterLoop(q) \in {"commit", "summary"}
    BY <1>5 DEF FirstStep, AfterLoop, At
  <2> QED
    BY <2>2, <2>3 DEF WorkIsRest, LoopSteps, ItemSteps
<1>6. CASE ListPatches(q)
  <2>1. pc'[q] = IF handled[q] = <<>> THEN "summary" ELSE "mark"
    BY <1>1, <1>6 DEF ListPatches, Goto, TypeOK
  <2>2. handled[q] = <<>> <=> work'[q] = <<>>
    BY <1>1, <1>6, ListPatchesKeepsTypes
  <2> QED
    BY <2>1, <2>2 DEF WorkIsRest, LoopSteps, ItemSteps
<1>7. CASE \E p \in Requests : GetPatch(q, p)
  BY <1>1, <1>7 DEF GetPatch, Goto, TypeOK, WorkIsRest, LoopSteps, ItemSteps
<1>8. CASE AuditBulk(q)
  BY <1>1, <1>8 DEF AuditBulk, At, Goto, TypeOK, session, WorkIsRest, LoopSteps, ItemSteps
<1> QED
  BY <1>3, <1>4, <1>5, <1>6, <1>7, <1>8, FlushCases

-------------------------------------------------------------------------------
(* bulk_skip and bulk_assign_reviewer                                      *)

(* No entry but the summary is one.                                        *)
LEMMA FlushKeepsSummaries ==
  ASSUME ReviewInv, NEW q \in Requests, FlushStep(q), ~AuditBulk(q)
  PROVE  SummariesOf(q)' = SummariesOf(q)
<1>1. ASSUME NEW e, audit' = audit \cup {e}, e.action \notin {"skip", "assign", "bulk_export"}
      PROVE  SummariesOf(q)' = SummariesOf(q)
  BY <1>1 DEF SummariesOf
<1>2. CASE UNCHANGED audit
  BY <1>2 DEF SummariesOf
<1>3. Get(q) \/ PassMissing(q) \/ InsertReview(q) \/ UpdateStatus(q) \/ AddPatch(q)
        \/ ListPatches(q) \/ MarkExported(q) => UNCHANGED audit
  BY DEF Get, PassMissing, GetMissing, InsertReview, UpdateStatus, AddPatch, ListPatches,
         MarkExported, database
<1>4. (\E p \in Requests : GetPatch(q, p)) => UNCHANGED audit
  BY DEF GetPatch, database
<1>5. CASE AuditReview(q)
  <2>1. PICK r \in reviews :
          audit' = audit \cup {[by |-> q, item |-> Item(q), action |-> "review",
                                old |-> r.old, new |-> r.new]}
    BY <1>5 DEF AuditReview
  <2> QED
    BY <2>1, <1>1
<1>6. CASE AuditPatch(q)
  <2>1. audit' = audit \cup {[by |-> q, item |-> Item(q), action |-> "patch.generated"]}
    BY <1>6 DEF AuditPatch
  <2> QED
    BY <2>1, <1>1
<1>7. CASE Assign(q)
  <2>1. audit' = audit \cup {[by |-> q, item |-> Item(q), action |-> "assign_reviewer",
                              old |-> mine[q][Current(q)].assignee, new |-> job[q].to]}
    BY <1>7 DEF Assign
  <2> QED
    BY <2>1, <1>1
<1> QED
  BY <1>2, <1>3, <1>4, <1>5, <1>6, <1>7 DEF FlushStep

LEMMA FlushKeepsSummaryLast ==
  ASSUME ReviewInv, NEW q \in Requests, FlushStep(q), OnlyActs(q), SummaryIsLast(q)
  PROVE  SummaryIsLast(q)'
<1>1. TypeOK
  BY DEF ReviewInv
<1>2. CASE AuditBulk(q)
  BY <1>1, <1>2 DEF AuditBulk, Goto, TypeOK, SummaryIsLast
<1>3. CASE ~AuditBulk(q)
  <2>1. pc[q] \notin {"commit", "committed"}
    <3>1. pc[q] # "commit"
      BY DEF FlushStep, Get, PassMissing, GetMissing, InsertReview, UpdateStatus, AuditReview,
             AddPatch, AuditPatch, Assign, ListPatches, GetPatch, MarkExported, AuditBulk, At
    <3> QED
      BY <3>1 DEF OnlyActs
  <2> QED
    BY <1>3, <2>1, FlushKeepsSummaries DEF SummaryIsLast
<1> QED
  BY <1>2, <1>3

(* AuditBulk enters one summary, of what the loops have collected.         *)
LEMMA SummaryIsEntered ==
  ASSUME ReviewInv, NEW q \in Requests, SummaryIsLast(q), AuditBulk(q)
  PROVE  /\ pc[q] = "summary" /\ pc'[q] = "commit"
         /\ UNCHANGED <<job, reviews, patches, exportedBy, work, handled, locks>>
         /\ job[q].kind \in {"skip", "assign", "bulk_export"}
         /\ \E a \in SummariesOf(q)' :
              SummariesOf(q)' = {a} /\ a.action = job[q].kind /\ a.listed = handled[q]
<1>1. TypeOK /\ HandlerIsOnItsWay(q)
  BY DEF ReviewInv, SessionInv
<1>2. /\ pc[q] = "summary" /\ pc'[q] = "commit"
      /\ UNCHANGED <<job, reviews, patches, exportedBy, work, handled, locks>>
  BY <1>1 DEF AuditBulk, At, Goto, TypeOK, session
<1>3. job[q].kind \in {"skip", "assign", "bulk_export"}
  BY <1>1, <1>2 DEF HandlerIsOnItsWay
<1>4. PICK a : /\ a = [by |-> q, action |-> job[q].kind, listed |-> handled[q]]
               /\ audit' = audit \cup {a}
  BY DEF AuditBulk
<1>5. a.by = q /\ a.action = job[q].kind /\ a.listed = handled[q]
  BY <1>4
<1>6. SummariesOf(q)' = {a}
  BY <1>2, <1>3, <1>4, <1>5 DEF SummariesOf, SummaryIsLast
<1> QED
  BY <1>2, <1>3, <1>5, <1>6

(* An id with a row is handled, one without is passed over.                *)
LEMMA RowCases ==
  ASSUME ReviewInv, NEW q \in Requests, FlushStep(q), job[q].kind \in {"skip", "assign"}
  PROVE  \/ pc[q] \in LoopSteps /\ pc'[q] \in LoopSteps /\ UNCHANGED <<work, handled>>
         \/ /\ pc[q] \in LoopSteps /\ NextItem(q) /\ UNCHANGED <<handled, reviews>>
            /\ Current(q) \notin Violations
         \/ /\ pc[q] \in {"audit", "assign"} /\ NextItem(q) /\ Handle(q, Current(q))
            /\ UNCHANGED reviews
            /\ Current(q) \in Violations
         \/ AuditBulk(q)
<1>1. TypeOK /\ HandlerIsOnItsWay(q)
  BY DEF ReviewInv, SessionInv
<1>2. CASE Get(q)
  <2>1. UNCHANGED <<work, handled>> /\ (Goto(q, "insert") \/ Goto(q, "assign"))
    BY <1>2 DEF Get, Reviewing
  <2> QED
    BY <1>1, <1>2, <2>1 DEF Get, At, Goto, LoopSteps, ItemSteps, TypeOK
<1>3. CASE PassMissing(q)
  <2>1. pc[q] = "get" /\ Current(q) \in Missing /\ NextItem(q) /\ UNCHANGED <<handled, reviews>>
    BY <1>3 DEF PassMissing, GetMissing, At, database
  <2> QED
    BY <2>1, ConstantsAssumption DEF LoopSteps
<1>4. CASE InsertReview(q) \/ UpdateStatus(q)
  BY <1>1, <1>4 DEF InsertReview, UpdateStatus, At, Goto, LoopSteps, ItemSteps, TypeOK, session
<1>5. job[q].action \notin ACTIONS_GENERATING_PATCHES \/ job[q].kind = "assign"
  <2>1. pc[q] # "idle" => job[q] \in Jobs
    BY <1>1 DEF HandlerIsOnItsWay
  <2>2. pc[q] # "idle"
    BY FlushIsOwn, <1>1 DEF Active
  <2> QED
    BY <2>1, <2>2, JobFacts DEF ACTIONS_GENERATING_PATCHES
<1>6. CASE AuditReview(q)
  <2>1. pc[q] = "audit" /\ Reviewing(q) /\ Current(q) \in Violations
    BY <1>1, <1>6 DEF AuditReview, At, HandlerIsOnItsWay, ItemSteps
  <2>2. job[q].kind = "skip"
    BY <2>1 DEF Reviewing
  <2> QED
    BY <1>5, <1>6, <2>1, <2>2 DEF AuditReview
<1>7. CASE Assign(q)
  BY <1>1, <1>7 DEF Assign, At, HandlerIsOnItsWay
<1>8. ~AddPatch(q) /\ ~AuditPatch(q)
  BY <1>1, <1>5 DEF AddPatch, AuditPatch, At, HandlerIsOnItsWay, ItemSteps, Reviewing
<1>9. ~ListPatches(q) /\ ~MarkExported(q) /\ \A p \in Requests : ~GetPatch(q, p)
  BY <1>1 DEF ListPatches, MarkExported, GetPatch, At, HandlerIsOnItsWay
<1> QED
  BY <1>2, <1>3, <1>4, <1>6, <1>7, <1>8, <1>9 DEF FlushStep

LEMMA FlushKeepsRowsHandled ==
  ASSUME ReviewInv, NEW q \in Requests, FlushStep(q), OnlyActs(q),
         WorkIsRest(q), SummaryIsLast(q), RowsAreHandled(q)
  PROVE  RowsAreHandled(q)'
<1>1. TypeOK /\ HandlerIsOnItsWay(q)
  BY DEF ReviewInv, SessionInv
<1>2. job' = job /\ pc[q] # "idle"
  BY <1>1, FlushCases, FlushIsOwn DEF Active
<1>3. CASE job[q].kind \notin {"skip", "assign"}
  BY <1>2, <1>3 DEF RowsAreHandled
<1>4. CASE job[q].kind \in {"skip", "assign"} /\ ~AuditBulk(q)
  <2>1. pc[q] \in LoopSteps
    BY <1>4, RowCases DEF LoopSteps, ItemSteps
  <2>2. ListsRows(handled[q], job[q].ids, Processed(q))
    BY <1>2, <1>4, <2>1 DEF RowsAreHandled
  <2>3. /\ Processed(q) \in Nat
        /\ Current(q) = job[q].ids[Processed(q) + 1]
    BY <2>1, NextToProcess
  <2>4. NextItem(q) => /\ Processed(q)' = Processed(q) + 1
                       /\ pc'[q] \notin {"commit", "committed"}
    <3> SUFFICES ASSUME NextItem(q)
                 PROVE  Processed(q)' = Processed(q) + 1 /\ pc'[q] \notin {"commit", "committed"}
      OBVIOUS
    <3>1. pc'[q] = FirstStep(q) \/ pc'[q] = AfterLoop(q)
      BY <1>1 DEF NextItem, Goto, TypeOK
    <3>2. FirstStep(q) \notin {"commit", "committed"} /\ AfterLoop(q) = "summary"
      BY <1>4 DEF FirstStep, AfterLoop
    <3> QED
      BY <1>2, <2>1, <3>1, <3>2, ProcessedGrows
  <2>5. CASE pc'[q] \in LoopSteps /\ UNCHANGED <<work, handled>>
    <3>1. Processed(q)' = Processed(q)
      BY <1>2, <2>5 DEF Processed
    <3> QED
      BY <1>2, <2>2, <2>5, <3>1 DEF RowsAreHandled, LoopSteps, ItemSteps
  <2>6. CASE NextItem(q) /\ UNCHANGED handled /\ Current(q) \notin Violations
    <3>1. ListsRows(handled[q], job[q].ids, Processed(q) + 1)
      BY <2>2, <2>3, <2>6, MissingIsPassed
    <3> QED
      BY <1>2, <2>4, <2>6, <3>1 DEF RowsAreHandled
  <2>7. CASE NextItem(q) /\ Handle(q, Current(q)) /\ Current(q) \in Violations
    <3>1. handled[q] \in Seq(Violations \cup Requests)
      BY <1>1 DEF TypeOK
    <3>2. ListsRows(Append(handled[q], job[q].ids[Processed(q) + 1]), job[q].ids, Processed(q) + 1)
      BY <2>2, <2>3, <2>7, <3>1, RowIsListed
    <3>3. handled'[q] = Append(handled[q], job[q].ids[Processed(q) + 1])
      BY <1>1, <2>3, <2>7 DEF Handle, TypeOK
    <3> QED
      BY <1>2, <2>4, <2>7, <3>2, <3>3 DEF RowsAreHandled
  <2> QED
    BY <1>4, <2>5, <2>6, <2>7, RowCases
<1>5. CASE job[q].kind \in {"skip", "assign"} /\ AuditBulk(q)
  <2>1. PICK a \in SummariesOf(q)' :
          SummariesOf(q)' = {a} /\ a.action = job[q].kind /\ a.listed = handled[q]
    BY <1>5, SummaryIsEntered
  <2>2. pc[q] = "summary" /\ pc'[q] = "commit" /\ work[q] = <<>>
    BY <1>5, SummaryIsEntered DEF WorkIsRest
  <2>3. Processed(q) = Len(job[q].ids)
    <3>1. job[q] \in Jobs
      BY <1>1, <1>2 DEF HandlerIsOnItsWay
    <3>2. Len(job[q].ids) \in Nat
      BY <3>1, JobFacts
    <3> QED
      BY <2>2, <3>2 DEF Processed
  <2>4. ListsRows(a.listed, job[q].ids, Len(job[q].ids))
    BY <1>5, <2>1, <2>2, <2>3 DEF RowsAreHandled
  <2> QED
    BY <1>2, <2>1, <2>2, <2>4 DEF RowsAreHandled, LoopSteps, ItemSteps
<1> QED
  BY <1>3, <1>4, <1>5

(* Flushes add reviews, each of the id in hand.                            *)
LEMMA ReviewsAreAdded ==
  ASSUME ReviewInv, NEW q \in Requests, FlushStep(q)
  PROVE  /\ OwnReviews(q) \subseteq OwnReviews(q)'
         /\ \A r \in OwnReviews(q)' :
              r \in OwnReviews(q) \/ (pc[q] = "insert" /\ r.violation = Current(q))
<1>1. CASE InsertReview(q)
  <2>1. PICK new : /\ new = [by |-> q, at |-> clock, item |-> Item(q), violation |-> Current(q),
                             action |-> job[q].action, old |-> mine[q][Current(q)].status,
                             new |-> ACTION_TO_STATUS[job[q].action]]
                   /\ reviews' = reviews \cup {new}
    BY <1>1 DEF InsertReview
  <2>2. new.violation = Current(q) /\ pc[q] = "insert"
    BY <1>1, <2>1 DEF InsertReview, At
  <2> QED
    BY <2>1, <2>2 DEF OwnReviews
<1>2. CASE ~InsertReview(q)
  <2>1. Get(q) \/ PassMissing(q) \/ UpdateStatus(q) \/ AuditReview(q) \/ AddPatch(q) \/ AuditPatch(q)
          => UNCHANGED reviews
    BY DEF Get, PassMissing, GetMissing, UpdateStatus, AuditReview, AddPatch, AuditPatch, database
  <2>2. Assign(q) \/ ListPatches(q) \/ MarkExported(q) \/ AuditBulk(q)
          \/ (\E p \in Requests : GetPatch(q, p)) => UNCHANGED reviews
    BY DEF Assign, ListPatches, MarkExported, AuditBulk, GetPatch, database
  <2>3. UNCHANGED reviews
    BY <1>2, <2>1, <2>2 DEF FlushStep
  <2> QED
    BY <2>3 DEF OwnReviews
<1> QED
  BY <1>1, <1>2

LEMMA FlushKeepsRowsReviewed ==
  ASSUME ReviewInv, NEW q \in Requests, FlushStep(q), WorkIsRest(q), RowsAreReviewed(q)
  PROVE  RowsAreReviewed(q)'
<1>1. TypeOK /\ HandlerIsOnItsWay(q) /\ ReviewsFollowItems(q)
  BY DEF ReviewInv, SessionInv
<1>2. job' = job /\ pc[q] \notin {"idle", "refused"}
  BY <1>1, FlushCases, FlushIsOwn DEF Active
<1>3. CASE job[q].kind # "skip"
  BY <1>2, <1>3 DEF RowsAreReviewed
<1>4. CASE job[q].kind = "skip"
  <2>1. \A r \in OwnReviews(q)' : r.violation \in RangeOf(job[q].ids)
    <3>1. pc[q] = "insert" => Current(q) \in RangeOf(job[q].ids)
      BY NextToProcess DEF LoopSteps, ItemSteps
    <3> QED
      BY <1>2, <1>4, <3>1, ReviewsAreAdded DEF RowsAreReviewed
  <2>2. \A i \in 1 .. Processed(q) : job[q].ids[i] \in Violations =>
           \E r \in OwnReviews(q)' : r.violation = job[q].ids[i]
    BY <1>2, <1>4, ReviewsAreAdded DEF RowsAreReviewed
  <2>3. CASE pc[q] \in LoopSteps /\ NextItem(q)
    <3>1. /\ Processed(q)' = Processed(q) + 1 /\ Processed(q) \in Nat
          /\ Current(q) = job[q].ids[Processed(q) + 1]
      BY <1>2, <2>3, NextToProcess, ProcessedGrows
    <3>2. Current(q) \in Violations => \E r \in OwnReviews(q)' : r.violation = Current(q)
      <4> SUFFICES ASSUME Current(q) \in Violations
                   PROVE  \E r \in OwnReviews(q)' : r.violation = Current(q)
        OBVIOUS
      <4>1. pc[q] \in {"audit", "assign"} \/ AuditBulk(q) \/ UNCHANGED work
        BY <1>4, RowCases
      <4>2. ~AuditBulk(q)
        BY <2>3 DEF AuditBulk, At, LoopSteps, ItemSteps
      <4>3. ~UNCHANGED work
        <5> SUFFICES ASSUME UNCHANGED work PROVE FALSE
          OBVIOUS
        <5>1. Processed(q)' = Processed(q)
          BY <1>2 DEF Processed
        <5> QED
          BY <3>1, <5>1
      <4>4. pc[q] = "audit"
        BY <1>1, <1>4, <4>1, <4>2, <4>3 DEF HandlerIsOnItsWay
      <4>5. PICK r \in OwnReviews(q) : IsCurrent(r)
        BY <1>1, <4>4 DEF ReviewsFollowItems, ItemIsReviewed, ItemSteps
      <4>6. r.violation = Current(q)
        BY <1>1, <4>5 DEF ReviewsFollowItems
      <4> QED
        BY <4>5, <4>6, ReviewsAreAdded
    <3>3. \A i \in 1 .. Processed(q) + 1 : i \in 1 .. Processed(q) \/ i = Processed(q) + 1
      BY <3>1
    <3> QED
      BY <1>2, <2>1, <2>2, <3>1, <3>2, <3>3 DEF RowsAreReviewed
  <2>4. CASE UNCHANGED work
    <3>1. Processed(q)' = Processed(q)
      BY <1>2, <2>4 DEF Processed
    <3> QED
      BY <1>2, <2>1, <2>2, <3>1 DEF RowsAreReviewed
  <2>5. AuditBulk(q) => UNCHANGED work
    BY DEF AuditBulk, session
  <2>6. pc[q] \in {"audit", "assign"} => pc[q] \in LoopSteps
    BY DEF LoopSteps, ItemSteps
  <2> QED
    BY <1>4, <2>3, <2>4, <2>5, <2>6, RowCases
<1> QED
  BY <1>3, <1>4

-------------------------------------------------------------------------------
(* bulk_export_approved_patches                                            *)

(* The patch of an id, if there is one, is one for it.                     *)
LEMMA PatchOfIsFor ==
  ASSUME ReviewInv, NEW q \in Requests, NEW v \in RangeOf(job[q].ids), PatchOf(v) # None
  PROVE  IsPatchFor(q, PatchOf(v))
<1>1. PatchesOf(v) # {} /\ PatchOf(v) = Latest(PatchesOf(v)).by
  BY DEF PatchOf
<1>2. clock \in Nat /\ \A p \in PatchesOf(v) : p.at \in Nat /\ p.at < clock
  BY DEF ReviewInv, TypeOK, TimesAreDistinct, PatchesOf, Committed, Patch
<1>3. Latest(PatchesOf(v)) \in PatchesOf(v)
  BY <1>1, <1>2, LatestExists
<1> QED
  BY <1>1, <1>3 DEF IsPatchFor, PatchesOf

LEMMA ListPatchesKeepsMarks ==
  ASSUME ReviewInv, NEW q \in Requests, PatchesAreMarked(q), ListPatches(q)
  PROVE  PatchesAreMarked(q)'
<1>1. TypeOK /\ HandlerIsOnItsWay(q)
  BY DEF ReviewInv, SessionInv
<1>2. /\ pc[q] = "list_patches" /\ pc'[q] \in {"mark", "summary"}
      /\ UNCHANGED <<job, locks, patches>>
      /\ handled'[q] = <<>>
      /\ work'[q] = [i \in DOMAIN handled[q] |-> PatchOf(handled[q][i])]
      /\ job[q].kind = "bulk_export"
  BY <1>1 DEF ListPatches, At, Goto, TypeOK, database, HandlerIsOnItsWay
<1>3. /\ RangeOf(handled[q]) \subseteq RangeOf(job[q].ids)
      /\ \A p \in Requests : <<"patch", p>> \notin locks[q]
  BY <1>2 DEF PatchesAreMarked
<1>4. \A p \in RangeOf(work'[q]) : p = None \/ IsPatchFor(q, p)
  <2> SUFFICES ASSUME NEW p \in RangeOf(work'[q]), p # None PROVE IsPatchFor(q, p)
    OBVIOUS
  <2>1. PICK i \in DOMAIN handled[q] : p = PatchOf(handled[q][i])
    BY <1>2 DEF RangeOf
  <2>2. handled[q][i] \in RangeOf(job[q].ids)
    BY <1>3, <2>1 DEF RangeOf
  <2> QED
    BY <2>1, <2>2, PatchOfIsFor
<1>5. RangeOf(handled'[q]) = {}
  BY <1>2, RangeOfNothing
<1>6. \A p : IsPatchFor(q, p) => IsPatchFor(q, p)'
  <2>1. \A w \in Committed(patches) : w \in Committed(patches)'
    <3> SUFFICES ASSUME NEW w \in Committed(patches) PROVE w \in Committed(patches)'
      OBVIOUS
    <3>1. w \in patches /\ w.by \in Requests /\ pc[w.by] = "committed"
      BY <1>1, EntriesHaveOwners DEF Committed
    <3>2. pc'[w.by] = "committed"
      BY <1>1, <1>2, <3>1 DEF ListPatches, Goto, TypeOK
    <3> QED
      BY <1>2, <3>1, <3>2 DEF Committed
  <2> QED
    BY <1>2, <2>1 DEF IsPatchFor
<1> QED
  BY <1>2, <1>3, <1>4, <1>5, <1>6 DEF PatchesAreMarked

LEMMA MarkExportedKeepsMarks ==
  ASSUME ReviewInv, NEW q \in Requests, OnlyActs(q), PatchesAreMarked(q), MarkExported(q)
  PROVE  PatchesAreMarked(q)'
<1>1. TypeOK /\ HandlerIsOnItsWay(q)
  BY DEF ReviewInv, SessionInv
<1>2. /\ pc[q] = "mark" /\ UNCHANGED <<job, patches>> /\ NextItem(q)
      /\ work[q] \in Seq(Requests \cup {None}) /\ work[q] # <<>>
      /\ Current(q) \in Requests \cup {None}
  BY <1>1, WantedIsLockable DEF MarkExported, At, HandlerIsOnItsWay, database
<1>3. CASE job[q].kind # "bulk_export"
  BY <1>2, <1>3 DEF PatchesAreMarked
<1>4. CASE job[q].kind = "bulk_export"
  <2>1. /\ \A p \in RangeOf(work[q]) : p = None \/ IsPatchFor(q, p)
        /\ \A p \in Requests : <<"patch", p>> \in locks[q] <=> p \in RangeOf(handled[q])
        /\ \A p \in RangeOf(handled[q]) : IsPatchFor(q, p)
    BY <1>2, <1>4 DEF PatchesAreMarked
  <2>2. pc'[q] \in {"mark", "summary"}
    <3>1. pc'[q] = FirstStep(q) \/ pc'[q] = AfterLoop(q)
      BY <1>1, <1>2 DEF NextItem, Goto, TypeOK
    <3> QED
      BY <1>2, <1>4, <3>1 DEF FirstStep, AfterLoop, At
  <2>3. Current(q) \in RangeOf(work[q]) /\ RangeOf(work'[q]) \subseteq RangeOf(work[q])
    <3>1. work'[q] = Tail(work[q])
      BY <1>1, <1>2 DEF NextItem, TypeOK
    <3>2. PICK w \in Seq(Requests \cup {None}) : w = work[q] /\ w # <<>>
      BY <1>2
    <3>3. /\ Tail(w) \in Seq(Requests \cup {None}) /\ Len(Tail(w)) = Len(w) - 1
          /\ Len(w) \in Nat /\ Len(w) >= 1 /\ Head(w) = w[1]
          /\ \A k \in 1 .. Len(w) - 1 : Tail(w)[k] = w[k + 1] /\ k + 1 \in 1 .. Len(w)
      BY <3>2
    <3>4. /\ RangeOf(w) = {w[k] : k \in 1 .. Len(w)}
          /\ RangeOf(Tail(w)) = {Tail(w)[k] : k \in 1 .. Len(Tail(w))}
      BY <3>3, RangeIs
    <3>5. Head(w) \in RangeOf(w) /\ RangeOf(Tail(w)) \subseteq RangeOf(w)
      BY <3>3, <3>4
    <3> QED
      BY <3>1, <3>2, <3>5 DEF Current
  <2>4. locks'[q] = locks[q] \cup Wanted(q)
    BY <1>1, LocksAreTyped DEF MarkExported
  <2>5. Wanted(q) = IF Current(q) # None THEN {<<"patch", Current(q)>>} ELSE {}
    BY <1>1, <1>2, WantedIsLockable
  <2>6. /\ \A p \in Requests : <<"patch", p>> \in locks'[q] <=> p \in RangeOf(handled'[q])
        /\ \A p \in RangeOf(handled'[q]) : IsPatchFor(q, p)
    <3>1. CASE Current(q) = None
      <4>1. handled'[q] = handled[q]
        BY <3>1 DEF MarkExported
      <4> QED
        BY <2>1, <2>4, <2>5, <3>1, <4>1
    <3>2. CASE Current(q) # None
      <4>1. handled'[q] = Append(handled[q], Current(q))
        BY <1>1, <3>2 DEF MarkExported, Handle, TypeOK
      <4>2. RangeOf(handled'[q]) = RangeOf(handled[q]) \cup {Current(q)}
        <5>1. /\ handled[q] \in Seq(Violations \cup Requests)
              /\ Current(q) \in Violations \cup Requests
          BY <1>1, <1>2, <3>2 DEF TypeOK
        <5>2. RangeOf(Append(handled[q], Current(q))) = RangeOf(handled[q]) \cup {Current(q)}
          BY <5>1, RangeOfAppend
        <5> QED
          BY <4>1, <5>2
      <4>3. \A p, o : <<"patch", p>> = <<"patch", o>> => p = o
        OBVIOUS
      <4>4. locks'[q] = locks[q] \cup {<<"patch", Current(q)>>}
        BY <2>4, <2>5, <3>2
      <4>5. IsPatchFor(q, Current(q))
        BY <2>1, <2>3, <3>2
      <4>6. \A p \in Requests : <<"patch", p>> \in locks'[q] <=> p \in RangeOf(handled'[q])
        BY <2>1, <4>2, <4>3, <4>4
      <4> QED
        BY <2>1, <4>2, <4>5, <4>6
    <3> QED
      BY <3>1, <3>2
  <2>7. \A p : IsPatchFor(q, p) => IsPatchFor(q, p)'
    BY <1>2, PatchesStayFor
  <2> QED
    BY <1>2, <2>1, <2>2, <2>3, <2>6, <2>7 DEF PatchesAreMarked
<1> QED
  BY <1>3, <1>4

LEMMA GetKeepsMarks ==
  ASSUME ReviewInv, NEW q \in Requests, OnlyActs(q), WorkIsRest(q), PatchesAreMarked(q),
         Get(q) \/ PassMissing(q)
  PROVE  PatchesAreMarked(q)'
<1>1. TypeOK /\ HandlerIsOnItsWay(q)
  BY DEF ReviewInv, SessionInv
<1>2. pc[q] = "get" /\ UNCHANGED <<job, locks>>
  BY DEF Get, PassMissing, GetMissing, At
<1>3. CASE job[q].kind # "bulk_export"
  BY <1>2, <1>3 DEF PatchesAreMarked
<1>4. CASE job[q].kind = "bulk_export"
  <2>1. NextItem(q) /\ (UNCHANGED handled \/ (Current(q) \in Violations /\ Handle(q, Current(q))))
    BY <1>4 DEF Get, PassMissing, GetMissing, Reviewing
  <2>2. pc'[q] \in {"get", "list_patches"}
    <3>1. pc'[q] = FirstStep(q) \/ pc'[q] = AfterLoop(q)
      BY <1>1, <2>1 DEF NextItem, Goto, TypeOK
    <3> QED
      BY <1>2, <1>4, <3>1 DEF FirstStep, AfterLoop, At
  <2>3. /\ RangeOf(handled[q]) \subseteq RangeOf(job[q].ids)
        /\ \A p \in Requests : <<"patch", p>> \notin locks[q]
    BY <1>2, <1>4 DEF PatchesAreMarked
  <2>4. RangeOf(handled'[q]) \subseteq RangeOf(job[q].ids)
    <3>1. CASE UNCHANGED handled
      BY <2>3, <3>1
    <3>2. CASE Current(q) \in Violations /\ Handle(q, Current(q))
      <4>1. handled'[q] = Append(handled[q], Current(q))
            /\ handled[q] \in Seq(Violations \cup Requests)
        BY <1>1, <3>2 DEF Handle, TypeOK
      <4>2. RangeOf(Append(handled[q], Current(q))) = RangeOf(handled[q]) \cup {Current(q)}
        BY <3>2, <4>1, RangeOfAppend
      <4>3. Current(q) \in RangeOf(job[q].ids)
        BY <1>2, NextToProcess DEF LoopSteps
      <4> QED
        BY <2>3, <4>1, <4>2, <4>3
    <3> QED
      BY <2>1, <3>1, <3>2
  <2> QED
    BY <1>2, <2>2, <2>3, <2>4 DEF PatchesAreMarked
<1> QED
  BY <1>3, <1>4

LEMMA AuditBulkKeepsMarks ==
  ASSUME ReviewInv, NEW q \in Requests, OnlyActs(q), SummaryIsLast(q), PatchesAreMarked(q),
         AuditBulk(q)
  PROVE  PatchesAreMarked(q)'
<1>1. PICK a \in SummariesOf(q)' :
        SummariesOf(q)' = {a} /\ a.action = job[q].kind /\ a.listed = handled[q]
  BY SummaryIsEntered
<1>2. /\ pc[q] = "summary" /\ pc'[q] = "commit"
      /\ UNCHANGED <<job, handled, locks>>
  BY SummaryIsEntered
<1>3. \A p : IsPatchFor(q, p) => IsPatchFor(q, p)'
  BY <1>2, PatchesStayFor
<1>4. CASE job[q].kind # "bulk_export"
  BY <1>2, <1>4 DEF PatchesAreMarked
<1>5. CASE job[q].kind = "bulk_export"
  <2>1. /\ \A p \in Requests : <<"patch", p>> \in locks[q] <=> p \in RangeOf(handled[q])
        /\ \A p \in RangeOf(handled[q]) : IsPatchFor(q, p)
    BY <1>2, <1>5 DEF PatchesAreMarked
  <2> QED
    BY <1>1, <1>2, <1>3, <2>1 DEF PatchesAreMarked
<1> QED
  BY <1>4, <1>5

(* The steps of the other kinds of requests are none of a bulk export.     *)
LEMMA FlushKeepsMarks ==
  ASSUME ReviewInv, NEW q \in Requests, FlushStep(q), OnlyActs(q), WorkIsRest(q),
         SummaryIsLast(q), PatchesAreMarked(q)
  PROVE  PatchesAreMarked(q)'
<1>1. TypeOK /\ HandlerIsOnItsWay(q)
  BY DEF ReviewInv, SessionInv
<1>2. job' = job
  BY FlushCases
<1>3. CASE Get(q) \/ PassMissing(q)
  BY <1>3, GetKeepsMarks
<1>4. CASE ListPatches(q)
  BY <1>4, ListPatchesKeepsMarks
<1>5. CASE MarkExported(q)
  BY <1>5, MarkExportedKeepsMarks
<1>6. CASE AuditBulk(q)
  BY <1>6, AuditBulkKeepsMarks
<1>7. CASE \E p \in Requests : GetPatch(q, p)
  BY <1>2, <1>7 DEF GetPatch, PatchesAreMarked
<1>8. CASE InsertReview(q) \/ UpdateStatus(q) \/ AuditReview(q) \/ AddPatch(q) \/ AuditPatch(q)
           \/ Assign(q)
  <2>1. pc[q] \in ItemSteps \cup {"assign"}
    BY <1>8 DEF InsertReview, UpdateStatus, AuditReview, AddPatch, AuditPatch, Assign, At, ItemSteps
  <2>2. job[q].kind # "bulk_export"
    BY <1>1, <2>1 DEF HandlerIsOnItsWay, Reviewing
  <2> QED
    BY <1>2, <2>2 DEF PatchesAreMarked
<1> QED
  BY <1>3, <1>4, <1>5, <1>6, <1>7, <1>8 DEF FlushStep

-------------------------------------------------------------------------------
(* All steps of a request                                                  *)

LEMMA FlushKeepsBatch ==
  ASSUME ReviewInv, NEW q \in Requests, FlushStep(q), OnlyActs(q), BatchOf(q)
  PROVE  BatchOf(q)'
<1>1. TypeOK /\ HandlerIsOnItsWay(q)
  BY DEF ReviewInv, SessionInv
<1>2. NothingIsHandled(q)'
  <2>1. ListPatches(q) \/ AuditBulk(q) \/ (\E p \in Requests : GetPatch(q, p)) => pc'[q] # "idle"
    BY <1>1 DEF ListPatches, AuditBulk, GetPatch, Goto, TypeOK
  <2>2. NextItem(q) => pc'[q] # "idle"
    BY <1>1 DEF NextItem, Goto, TypeOK, FirstStep, AfterLoop
  <2> QED
    BY <2>1, <2>2, FlushCases DEF NothingIsHandled, LoopSteps, ItemSteps
<1> QED
  BY <1>2, FlushKeepsWork, FlushKeepsSummaryLast, FlushKeepsRowsHandled, FlushKeepsRowsReviewed,
     FlushKeepsMarks DEF BatchOf

LEMMA ReceiptKeepsBatch ==
  ASSUME ReviewInv, NEW q \in Requests, NEW j \in Jobs, Receive(q, j), BatchOf(q)
  PROVE  BatchOf(q)'
<1>1. TypeOK /\ HandlerIsOnItsWay(q) /\ ReviewsFollowItems(q)
  BY DEF ReviewInv, SessionInv
<1>2. /\ pc[q] = "idle" /\ pc'[q] = "get" /\ job'[q] = j /\ work'[q] = j.ids
      /\ UNCHANGED <<reviews, audit, handled, locks>>
  BY <1>1 DEF Receive, At, Goto, TypeOK, database
<1>3. j.ids \in Seq(Ids) /\ Len(j.ids) \in Nat
  BY JobFacts
<1>4. Processed(q)' = 0
  BY <1>2, <1>3 DEF Processed
<1>5. handled'[q] = <<>>
  BY <1>2 DEF BatchOf, NothingIsHandled
<1>6. locks'[q] = {} /\ SummariesOf(q)' = {} /\ OwnReviews(q)' = {}
  BY <1>1, <1>2 DEF HandlerIsOnItsWay, Active, ReviewsFollowItems, SummariesOf, OwnReviews
<1>7. WorkIsRest(q)'
  BY <1>2, <1>3, <1>4 DEF WorkIsRest
<1>8. RowsAreHandled(q)'
  BY <1>2, <1>4, <1>5, NothingIsListed DEF RowsAreHandled
<1>9. RowsAreReviewed(q)'
  BY <1>4, <1>6 DEF RowsAreReviewed
<1>10. PatchesAreMarked(q)'
  BY <1>2, <1>5, <1>6, RangeOfNothing DEF PatchesAreMarked
<1> QED
  BY <1>2, <1>6, <1>7, <1>8, <1>9, <1>10 DEF BatchOf, NothingIsHandled, SummaryIsLast

LEMMA RollbackKeepsBatch ==
  ASSUME ReviewInv, NEW q \in Requests, Rollback(q)
  PROVE  BatchOf(q)'
<1>1. pc'[q] = "refused" /\ audit' = {a \in audit : a.by # q}
  BY DEF ReviewInv, TypeOK, Rollback, Goto
<1>2. SummariesOf(q)' = {}
  BY <1>1 DEF SummariesOf
<1> QED
  BY <1>1, <1>2 DEF BatchOf, WorkIsRest, NothingIsHandled, SummaryIsLast, RowsAreHandled,
     RowsAreReviewed, PatchesAreMarked, LoopSteps, ItemSteps

LEMMA CommitKeepsBatch ==
  ASSUME ReviewInv, ExportersAreDone, NEW q \in Requests, OnlyActs(q), Commit(q), RequestStep(q),
         BatchOf(q)
  PROVE  BatchOf(q)'
<1>1. TypeOK /\ HandlerIsOnItsWay(q)
  BY DEF ReviewInv, SessionInv
<1>2. /\ pc[q] = "commit" /\ pc'[q] = "committed" /\ work'[q] = <<>>
      /\ UNCHANGED <<job, reviews, patches, audit>>
  BY <1>1 DEF Commit, At, Goto, TypeOK, EndSession
<1>3. SummariesOf(q)' = SummariesOf(q) /\ OwnReviews(q)' = OwnReviews(q)
  BY <1>2 DEF SummariesOf, OwnReviews
<1>4. work[q] = <<>>
  BY <1>2 DEF BatchOf, WorkIsRest
<1>5. Processed(q)' = Processed(q)
  BY <1>2, <1>4 DEF Processed
<1>6. WorkIsRest(q)' /\ NothingIsHandled(q)' /\ SummaryIsLast(q)'
  BY <1>2 DEF WorkIsRest, NothingIsHandled, SummaryIsLast, LoopSteps, ItemSteps
<1>7. RowsAreHandled(q)'
  BY <1>2, <1>3 DEF BatchOf, RowsAreHandled, LoopSteps, ItemSteps
<1>8. RowsAreReviewed(q)'
  BY <1>2, <1>3, <1>5 DEF BatchOf, RowsAreReviewed
<1>9. PatchesAreMarked(q)'
  <2> SUFFICES ASSUME job[q].kind = "bulk_export" PROVE PatchesAreMarked(q)'
    BY <1>2 DEF PatchesAreMarked
  <2>1. PICK a \in SummariesOf(q) :
          /\ SummariesOf(q) = {a}
          /\ \A p \in RangeOf(a.listed) : IsPatchFor(q, p)
          /\ \A p \in Requests : <<"patch", p>> \in locks[q] <=> p \in RangeOf(a.listed)
    BY <1>2 DEF BatchOf, PatchesAreMarked
  <2>2. \A p \in Requests : exportedBy[p] # q
    BY <1>2, NoneIsNothing DEF ExportersAreDone, IsDone
  <2>3. \A p \in Requests :
          exportedBy'[p] = IF <<"patch", p>> \in locks[q] THEN q ELSE exportedBy[p]
    BY <1>1, ExportsAreWritten
  <2>4. \A p \in Requests : exportedBy'[p] = q => p \in RangeOf(a.listed)
    BY <2>1, <2>2, <2>3
  <2>5. RangeOf(a.listed) \subseteq Requests
    BY <1>1, <2>1, EntriesHaveOwners DEF IsPatchFor, Committed
  <2>6. \A p \in RangeOf(a.listed) : exportedBy'[p] # None
    BY <2>1, <2>3, <2>5, NoneIsNothing
  <2>7. \A p \in RangeOf(a.listed) : IsPatchFor(q, p)'
    BY <1>2, <2>1, PatchesStayFor
  <2> QED
    BY <1>2, <1>3, <2>1, <2>4, <2>6, <2>7 DEF PatchesAreMarked
<1> QED
  BY <1>6, <1>7, <1>8, <1>9 DEF BatchOf

LEMMA ExportersStayDone ==
  ASSUME ReviewInv, ExportersAreDone, NEW q \in Requests, OnlyActs(q), RequestStep(q)
  PROVE  ExportersAreDone'
<1>1. TypeOK
  BY DEF ReviewInv
<1> SUFFICES ASSUME NEW p \in Requests, exportedBy'[p] # None
            PROVE  pc'[exportedBy'[p]] = "committed"
  BY DEF ExportersAreDone, IsDone
<1>2. CASE exportedBy'[p] = exportedBy[p]
  <2>1. exportedBy[p] \in Requests /\ pc[exportedBy[p]] = "committed"
    BY <1>1, <1>2 DEF ExportersAreDone, TypeOK, IsDone
  <2>2. exportedBy[p] # q
    BY <2>1 DEF OnlyActs, RequestStep
  <2> QED
    BY <1>2, <2>1, <2>2 DEF OnlyActs
<1>3. CASE exportedBy'[p] # exportedBy[p]
  <2>1. Commit(q) /\ exportedBy'[p] = q
    BY <1>1, <1>3, ExportsAreWritten
  <2> QED
    BY <1>1, <2>1 DEF Commit, Goto, TypeOK
<1> QED
  BY <1>2, <1>3

LEMMA InitKeepsBatch == Init => BatchInv
<1> SUFFICES ASSUME Init, NEW q \in Requests PROVE BatchOf(q) /\ ExportersAreDone
  BY InitKeepsInv DEF BatchInv, Init, ExportersAreDone
<1>1. pc[q] = "idle" /\ handled[q] = <<>> /\ SummariesOf(q) = {}
      /\ \A p \in Requests : exportedBy[p] = None
  BY DEF Init, SummariesOf
<1> QED
  BY <1>1 DEF BatchOf, WorkIsRest, NothingIsHandled, SummaryIsLast, RowsAreHandled,
     RowsAreReviewed, PatchesAreMarked, ExportersAreDone, LoopSteps, ItemSteps

LEMMA StepKeepsBatch ==
  ASSUME BatchInv, NEW q \in Requests, RequestStep(q)
  PROVE  BatchInv'
<1>1. ReviewInv /\ ReviewInv' /\ OnlyActs(q) /\ ExportersAreDone /\ BatchOf(q)
  BY StepKeepsInv DEF BatchInv
<1>2. ExportersAreDone'
  BY <1>1, ExportersStayDone
<1>3. \A o \in Requests \ {q} : BatchOf(o)'
  BY <1>1, OthersKeepBatch DEF BatchInv
<1>4. BatchOf(q)'
  BY <1>1, FlushKeepsBatch, ReceiptKeepsBatch, RollbackKeepsBatch, CommitKeepsBatch, StepCases
<1> QED
  BY <1>1, <1>2, <1>3, <1>4 DEF BatchInv

LEMMA StutteringKeepsBatch ==
  ASSUME BatchInv, UNCHANGED vars
  PROVE  BatchInv'
<1>1. UNCHANGED <<reviews, patches, audit, exportedBy, job, pc, work, handled, locks>>
  BY DEF vars, database, session
<1>2. ReviewInv'
  BY StutteringKeepsInv DEF BatchInv
<1>3. ExportersAreDone'
  BY <1>1 DEF BatchInv, ExportersAreDone, IsDone
<1>4. ASSUME NEW q \in Requests PROVE BatchOf(q)'
  <2>1. /\ SummariesOf(q)' = SummariesOf(q) /\ OwnReviews(q)' = OwnReviews(q)
        /\ Processed(q)' = Processed(q)
        /\ \A p : IsPatchFor(q, p)' = IsPatchFor(q, p)
    BY <1>1 DEF SummariesOf, OwnReviews, Processed, IsPatchFor, Committed
  <2>2. BatchOf(q)
    BY DEF BatchInv
  <2>3. WorkIsRest(q)' /\ NothingIsHandled(q)' /\ SummaryIsLast(q)'
    BY <1>1, <2>1, <2>2 DEF BatchOf, WorkIsRest, NothingIsHandled, SummaryIsLast
  <2>4. RowsAreHandled(q)' /\ RowsAreReviewed(q)'
    BY <1>1, <2>1, <2>2 DEF BatchOf, RowsAreHandled, RowsAreReviewed
  <2>5. PatchesAreMarked(q)'
    BY <1>1, <2>1, <2>2 DEF BatchOf, PatchesAreMarked
  <2> QED
    BY <2>3, <2>4, <2>5 DEF BatchOf
<1> QED
  BY <1>2, <1>3, <1>4 DEF BatchInv

LEMMA NextKeepsBatch == BatchInv /\ [Next]_vars => BatchInv'
<1> SUFFICES ASSUME BatchInv, [Next]_vars PROVE BatchInv'
  OBVIOUS
<1>1. CASE Next
  <2>1. PICK q \in Requests : RequestStep(q)
    BY <1>1 DEF Next, RequestStep
  <2> QED
    BY <2>1, StepKeepsBatch
<1>2. CASE UNCHANGED vars
  BY <1>2, StutteringKeepsBatch
<1> QED
  BY <1>1, <1>2

-------------------------------------------------------------------------------
(* The theorem                                                             *)

(* When everything is processed, everything that has a row is reviewed.    *)
LEMMA AllRowsAreReviewed ==
  ASSUME BatchInv, NEW q \in Requests, IsDone(q), job[q].kind = "skip"
  PROVE  {r.violation : r \in OwnReviews(q)} = RangeOf(job[q].ids) \cap Violations
<1>1. TypeOK /\ HandlerIsOnItsWay(q) /\ WorkIsRest(q) /\ RowsAreReviewed(q)
  BY DEF BatchInv, ReviewInv, SessionInv, BatchOf
<1>2. pc[q] = "committed" /\ work[q] = <<>> /\ job[q] \in Jobs
  BY <1>1 DEF IsDone, WorkIsRest, HandlerIsOnItsWay
<1>3. job[q].ids \in Seq(Ids) /\ Len(job[q].ids) \in Nat
  BY <1>2, JobFacts
<1>4. Processed(q) = Len(job[q].ids)
  BY <1>2, <1>3 DEF Processed
<1>5. /\ \A r \in OwnReviews(q) : r.violation \in RangeOf(job[q].ids)
      /\ \A i \in 1 .. Len(job[q].ids) : job[q].ids[i] \in Violations =>
           \E r \in OwnReviews(q) : r.violation = job[q].ids[i]
  BY <1>1, <1>2, <1>4 DEF RowsAreReviewed
<1>6. \A r \in OwnReviews(q) : r.violation \in Violations
  BY <1>1 DEF TypeOK, OwnReviews, Review
<1>7. RangeOf(job[q].ids) = {job[q].ids[k] : k \in 1 .. Len(job[q].ids)}
  BY <1>3, RangeIs
<1> QED
  BY <1>5, <1>6, <1>7

LEMMA BatchFollows == BatchInv => BatchIsAllOrNothing
<1> SUFFICES ASSUME BatchInv, NEW q \in Requests
             PROVE  LET decided == {r \in reviews : r.by = q}
                    IN /\ IsDone(q) /\ job[q].kind \in {"skip", "assign"} =>
                            \E a \in SummariesOf(q) :
                              /\ SummariesOf(q) = {a} /\ a.action = job[q].kind
                              /\ ListsRows(a.listed, job[q].ids, Len(job[q].ids))
                       /\ IsDone(q) /\ job[q].kind = "skip" =>
                            {r.violation : r \in decided} = RangeOf(job[q].ids) \cap Violations
                       /\ IsDone(q) /\ job[q].kind = "bulk_export" =>
                            \E a \in SummariesOf(q) :
                              /\ SummariesOf(q) = {a}
                              /\ \A p \in Requests : exportedBy[p] = q => p \in RangeOf(a.listed)
                              /\ \A p \in RangeOf(a.listed) :
                                    exportedBy[p] # None
                                    /\ \E w \in Committed(patches) :
                                         w.by = p /\ w.violation \in RangeOf(job[q].ids)
                       /\ At(q, "refused") =>
                            /\ {a \in audit : a.by = q} = {} /\ decided = {}
                            /\ \A p \in Requests : exportedBy[p] # q
  BY DEF BatchIsAllOrNothing
<1> DEFINE decided == {r \in reviews : r.by = q}
<1>1. BatchOf(q) /\ ReviewsFollowItems(q) /\ ExportersAreDone
  BY DEF BatchInv, ReviewInv, SessionInv
<1>2. IsDone(q) /\ job[q].kind \in {"skip", "assign"} =>
        \E a \in SummariesOf(q) :
          /\ SummariesOf(q) = {a} /\ a.action = job[q].kind
          /\ ListsRows(a.listed, job[q].ids, Len(job[q].ids))
  BY <1>1 DEF BatchOf, RowsAreHandled, IsDone
<1>3. IsDone(q) /\ job[q].kind = "skip" =>
        {r.violation : r \in decided} = RangeOf(job[q].ids) \cap Violations
  BY AllRowsAreReviewed DEF OwnReviews
<1>4. IsDone(q) /\ job[q].kind = "bulk_export" =>
        \E a \in SummariesOf(q) :
          /\ SummariesOf(q) = {a}
          /\ \A p \in Requests : exportedBy[p] = q => p \in RangeOf(a.listed)
          /\ \A p \in RangeOf(a.listed) :
                exportedBy[p] # None
                /\ \E w \in Committed(patches) :
                     w.by = p /\ w.violation \in RangeOf(job[q].ids)
  BY <1>1 DEF BatchOf, PatchesAreMarked, IsDone, IsPatchFor
<1>5. At(q, "refused") => /\ {a \in audit : a.by = q} = {} /\ decided = {}
                          /\ \A p \in Requests : exportedBy[p] # q
  BY <1>1, NoneIsNothing DEF ReviewsFollowItems, OwnReviews, ExportersAreDone, IsDone, At
<1> QED
  BY <1>2, <1>3, <1>4, <1>5

(* At every step, what is handled, reviewed, marked and listed is what the *)
(* loops of bulk_review_service.py:41-165 have gone through.               *)
THEOREM BatchInvariant == Spec => []BatchInv
<1> QED
  BY InitKeepsBatch, NextKeepsBatch, PTL DEF Spec

(* The one commit of session_scope (base.py:55-66) makes a bulk operation  *)
(* do everything its summary lists, or nothing.                            *)
THEOREM BatchesAreAllOrNothing == Spec => []BatchIsAllOrNothing
<1> QED
  BY BatchInvariant, BatchFollows, PTL
================================================================================
