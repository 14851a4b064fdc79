-------------------------- MODULE ReviewWorkflowProofs --------------------------
(***************************************************************************)
(* Theorems about ReviewWorkflow, for any number of requests of any kind   *)
(* over any violations: what a session has flushed and holds agrees at     *)
(* every step with what its handler still has to do, so that the one       *)
(* commit at its end shows reviews, audit trail and statuses that agree.   *)
(***************************************************************************)
EXTENDS ReviewWorkflow, FiniteSetTheorems, SequenceTheorems, WellFoundedInduction, TLAPS

-------------------------------------------------------------------------------
(* The invariant: what is known of request q, step by step                 *)

ItemSteps == {"insert", "update", "audit", "patch", "patch_audit"}
LoopSteps == ItemSteps \cup {"get", "assign"}
ItemIsReviewed(q) == pc[q] \in ItemSteps \ {"insert"}

(* The handler is where its kind of request takes it, with a current id as *)
(* long as a loop runs, and with the row of the id once it has read it.    *)
HandlerIsOnItsWay(q) ==
  /\ pc[q] # "idle" => job[q] \in Jobs
  /\ pc[q] \in LoopSteps =>
       work[q] \in Seq(Ids) /\ work[q] # <<>> /\ Len(work[q]) <= Len(job[q].ids)
  /\ pc[q] \in ItemSteps => Reviewing(q)
  /\ pc[q] = "assign" => job[q].kind = "assign"
  /\ pc[q] \in ItemSteps \cup {"assign"} =>
       Current(q) \in Violations /\ mine[q][Current(q)] # None
  /\ pc[q] \in {"patch", "patch_audit"} => job[q].action \in ACTIONS_GENERATING_PATCHES
  /\ pc[q] = "list_patches" => job[q].kind = "bulk_export"
  /\ pc[q] = "mark" =>
       /\ job[q].kind \in {"bulk_export", "export"}
       /\ work[q] \in Seq(Requests \cup {None}) /\ work[q] # <<>>
  /\ pc[q] = "summary" => job[q].kind \in {"skip", "assign", "bulk_export"}
  /\ ~Active(q) => locks[q] = {} /\ \A v \in Violations : mine[q][v] = None

OwnReviews(q) == {r \in reviews : r.by = q}
EntriesOf(q, action) == {a \in audit : a.by = q /\ a.action = action}
Entry(r) == [by |-> r.by, item |-> r.item, action |-> "review", old |-> r.old, new |-> r.new]

(* The review of the item in hand, once it is inserted.                    *)
IsCurrent(r) == ItemIsReviewed(r.by) /\ r.item = Item(r.by)

(* Reviews and patches are those of a reviewing request that has begun and *)
(* has not failed, one review for each item up to the one in hand.         *)
ReviewsFollowItems(q) ==
  /\ pc[q] \in {"idle", "refused"} => {a \in audit : a.by = q} = {}
  /\ pc[q] \in {"idle", "refused"} \/ ~Reviewing(q) =>
       /\ OwnReviews(q) = {} /\ {p \in patches : p.by = q} = {}
       /\ EntriesOf(q, "review") = {} /\ EntriesOf(q, "patch.generated") = {}
  /\ \A r, o \in OwnReviews(q) : r.item = o.item => r = o
  /\ \A r \in OwnReviews(q) :
       /\ pc[q] \in {"get", "insert"} => r.item < Item(q)
       /\ ItemIsReviewed(q) => r.item <= Item(q)
  /\ ItemIsReviewed(q) => \E r \in OwnReviews(q) : IsCurrent(r)
  /\ \A r \in OwnReviews(q) : IsCurrent(r) =>
       /\ r.violation = Current(q) /\ r.action = job[q].action
       /\ pc[q] = "update" => r.old = mine[q][Current(q)].status
  /\ \A r \in OwnReviews(q) : r.new = ACTION_TO_STATUS[r.action]

(* The audit trail lags behind by the review in hand, and by one patch.    *)
TrailFollowsReviews(q) ==
  /\ {Entry(r) : r \in {r \in OwnReviews(q) :
                          ~(IsCurrent(r) /\ pc[q] \in {"update", "audit"})}}
     = EntriesOf(q, "review")
  /\ (\E p \in patches : p.by = q) <=>
       EntriesOf(q, "patch.generated") # {} \/ pc[q] = "patch_audit"
  /\ \A p \in patches : p.by = q =>
       \E r \in OwnReviews(q) :
         r.violation = p.violation /\ r.action \in ACTIONS_GENERATING_PATCHES

(* A status is written back only for a review that decided it, an assignee *)
(* only by an assignment.                                                  *)
LocksAreDecisions(q) ==
  \A v \in Violations :
    /\ <<"status", v>> \in locks[q] =>
         /\ mine[q][v] # None
         /\ \E r \in OwnReviews(q) : r.violation = v /\ r.new = mine[q][v].status
    /\ <<"assignee", v>> \in locks[q] => mine[q][v] # None /\ job[q].kind = "assign"

(* The statuses v has had for those who see the reviews D.                 *)
Held(v, D) == {"open"} \cup {d.new : d \in {d \in D : d.violation = v}}

(* A status that the session read and has not changed is one the violation *)
(* has had, and each of its reviews starts from such a status; a violation *)
(* it has reviewed is no longer open in the session.                       *)
SessionHoldsHistory(q) ==
  /\ \A v \in Violations : mine[q][v] # None /\ <<"status", v>> \notin locks[q] =>
       mine[q][v].status \in Held(v, Committed(reviews))
  /\ \A r \in OwnReviews(q) :
       /\ r.old \in Held(r.violation, Committed(reviews) \cup OwnReviews(q))
       /\ Active(q) =>
            /\ mine[q][r.violation] # None
            /\ ~(IsCurrent(r) /\ pc[q] = "update") => mine[q][r.violation].status # "open"

SessionInv(q) ==
  /\ HandlerIsOnItsWay(q)
  /\ ReviewsFollowItems(q)
  /\ TrailFollowsReviews(q)
  /\ LocksAreDecisions(q)
  /\ SessionHoldsHistory(q)

(* created_at is given out once.                                           *)
TimesAreDistinct ==
  /\ \A r \in reviews : r.at < clock
  /\ \A p \in patches : p.at < clock
  /\ \A r, o \in reviews : r.at = o.at => r = o

ReviewInv ==
  /\ TypeOK
  /\ TimesAreDistinct
  /\ StatusIsDecided
  /\ \A q \in Requests : SessionInv(q)

-------------------------------------------------------------------------------
(* Lemmas about the operators of the model                                 *)

(* A set of numbers has a least one: the intervals 1 .. n are ordered by   *)
(* inclusion as the numbers are, and inclusion of finite sets is           *)
(* well-founded.                                                           *)
LEMMA LeastNumber ==
  ASSUME NEW T \in SUBSET Nat, T # {}
  PROVE  \E x \in T : \A y \in T : x <= y
<1> DEFINE Intervals == {1 .. n : n \in T}
<1>1. Intervals \subseteq FiniteSubsetsOf(Nat)
  BY FS_Interval DEF FiniteSubsetsOf
<1>2. \E S \in Intervals : \A U \in Intervals : <<U, S>> \notin StrictSubsetOrdering(Nat)
  <2>1. IsWellFoundedOn(StrictSubsetOrdering(Nat), FiniteSubsetsOf(Nat))
    BY FS_StrictSubsetOrderingWellFounded
  <2>2. Intervals # {}
    OBVIOUS
  <2> HIDE DEF Intervals
  <2> QED
    BY <1>1, <2>1, <2>2, WFMin
<1>3. PICK x \in T : \A U \in Intervals : <<U, 1 .. x>> \notin StrictSubsetOrdering(Nat)
  BY <1>2
<1>4. ASSUME NEW y \in T, y < x PROVE FALSE
  <2>1. 1 .. y \in SUBSET Nat /\ 1 .. x \in SUBSET Nat /\ 1 .. y \subseteq 1 .. x
    BY <1>4
  <2>2. x \in 1 .. x /\ x \notin 1 .. y
    BY <1>4
  <2>3. <<1 .. y, 1 .. x>> \in StrictSubsetOrdering(Nat)
    BY <2>1, <2>2 DEF StrictSubsetOrdering
  <2> QED
    BY <2>3, <1>3
<1> QED
  BY <1>4

(* Of records made before a given time, some are there to be the latest.   *)
LEMMA LatestExists ==
  ASSUME NEW S, S # {}, NEW now \in Nat, \A r \in S : r.at \in Nat /\ r.at < now
  PROVE  Latest(S) \in S /\ \A o \in S : o.at <= Latest(S).at
<1> DEFINE Ages == {now - r.at : r \in S}
<1>1. Ages \in SUBSET Nat /\ Ages # {}
  OBVIOUS
<1>2. PICK age \in Ages : \A y \in Ages : age <= y
  <2> HIDE DEF Ages
  <2> QED
    BY <1>1, LeastNumber
<1>3. PICK r \in S : age = now - r.at
  BY <1>2
<1>4. ASSUME NEW o \in S PROVE o.at <= r.at
  <2>1. now - o.at \in Ages
    OBVIOUS
  <2>2. now - r.at <= now - o.at
    BY <1>2, <1>3, <2>1
  <2> QED
    BY <2>2
<1> QED
  BY <1>4 DEF Latest

(* Records made at different times have one latest.                        *)
LEMMA LatestIs ==
  ASSUME NEW S, NEW r \in S,
         \A o \in S : o.at \in Nat /\ o.at <= r.at,
         \A o \in S : o.at = r.at => o = r
  PROVE  Latest(S) = r
<1>1. Latest(S) \in S /\ \A o \in S : o.at <= Latest(S).at
  BY DEF Latest
<1> QED
  BY <1>1

(* The transitions of ACTION_TO_STATUS.                                    *)
LEMMA ActionsDecide ==
  \A a \in Actions : ACTION_TO_STATUS[a] \in ViolationStatuses \ {"open"}
<1> SUFFICES ASSUME NEW a \in Actions PROVE ACTION_TO_STATUS[a] \in ViolationStatuses \ {"open"}
  OBVIOUS
<1> QED
  BY DEF Actions, ACTION_TO_STATUS, ViolationStatuses

(* What the shape of a job says of it.                                     *)
LEMMA JobFacts ==
  ASSUME NEW j \in Jobs
  PROVE  /\ j.kind \in {"review", "skip", "assign", "bulk_export", "export"}
         /\ j.ids \in Seq(Ids) /\ j.ids # <<>>
         /\ j.kind \in {"review", "skip"} => j.action \in Actions
         /\ j.kind = "skip" => j.action = "skip"
         /\ j.kind = "assign" => j.to \in Reviewers
BY ConstantsAssumption DEF JobShape, Actions

(* None is no job's subject, no row, no reviewer.                          *)
LEMMA NoneIsNothing ==
  None \notin Requests /\ None \notin Reviewers /\ None \notin Actions /\ None \notin Row
BY ConstantsAssumption

(* The patch of a violation is known by the request that generated it.     *)
LEMMA PatchIsOfRequest ==
  ASSUME TypeOK, TimesAreDistinct, NEW v
  PROVE  PatchOf(v) \in Requests \cup {None}
<1>1. CASE PatchesOf(v) = {}
  BY <1>1 DEF PatchOf
<1>2. CASE PatchesOf(v) # {}
  <2>1. \A p \in PatchesOf(v) : p \in patches /\ p.by \in Requests /\ p.at \in Nat /\ p.at < clock
    BY DEF TypeOK, TimesAreDistinct, PatchesOf, Committed, Patch
  <2>2. clock \in Nat
    BY DEF TypeOK
  <2>3. PICK S : S = PatchesOf(v)
    OBVIOUS
  <2>4. Latest(PatchesOf(v)) \in PatchesOf(v)
    BY <2>1, <2>2, <1>2, LatestExists
  <2> QED
    BY <2>1, <2>4, <1>2 DEF PatchOf
<1> QED
  BY <1>1, <1>2

(* Moving on to the next item, or out of the loop.                         *)
LEMMA NextItemMoves ==
  ASSUME TypeOK, NEW q \in Requests, NextItem(q), work[q] # <<>>
  PROVE  /\ work' = [work EXCEPT ![q] = Tail(work[q])]
         /\ work' \in [Requests -> Seq(Ids \cup Requests \cup {None})]
         /\ pc' \in [Requests -> Steps]
         /\ pc' = [pc EXCEPT ![q] = pc'[q]]
         /\ Len(work[q]) \in Nat /\ Len(work[q]) >= 1
         /\ Len(work'[q]) = Len(work[q]) - 1
         /\ \/ pc'[q] = FirstStep(q) /\ work'[q] # <<>>
            \/ pc'[q] = AfterLoop(q) /\ work'[q] = <<>>
<1>1. /\ work' = [work EXCEPT ![q] = Tail(work[q])]
      /\ work[q] \in Seq(Ids \cup Requests \cup {None})
  BY DEF NextItem, TypeOK
<1>2. /\ work'[q] = Tail(work[q]) /\ Tail(work[q]) \in Seq(Ids \cup Requests \cup {None})
      /\ Len(Tail(work[q])) = Len(work[q]) - 1
      /\ Len(work[q]) \in Nat /\ Len(work[q]) >= 1
  BY <1>1 DEF TypeOK
<1>3. FirstStep(q) \in Steps /\ AfterLoop(q) \in Steps
  BY DEF FirstStep, AfterLoop, Steps
<1>4. pc'[q] = IF Len(work[q]) > 1 THEN FirstStep(q) ELSE AfterLoop(q)
  BY DEF NextItem, Goto, TypeOK
<1>5. pc' = [pc EXCEPT ![q] = pc'[q]]
  BY DEF NextItem, Goto, TypeOK
<1>6. pc' \in [Requests -> Steps]
  BY <1>3, <1>4, <1>5 DEF TypeOK
<1>7. work' \in [Requests -> Seq(Ids \cup Requests \cup {None})]
  BY <1>1, <1>2 DEF TypeOK
<1>8. Len(work[q]) > 1 <=> work'[q] # <<>>
  <2>1. PICK rest \in Seq(Ids \cup Requests \cup {None}) : rest = work'[q]
    BY <1>2
  <2>2. Len(rest) = 0 <=> rest = <<>>
    BY EmptySeq
  <2> QED
    BY <1>2, <2>1, <2>2
<1> QED
  BY <1>1, <1>2, <1>4, <1>5, <1>6, <1>7, <1>8

-------------------------------------------------------------------------------
(* Types                                                                   *)

(* While a loop runs, the handler has an id in hand, of a job it was given.*)
LEMMA ItemInHand ==
  ASSUME TypeOK, NEW q \in Requests, HandlerIsOnItsWay(q), pc[q] \in LoopSteps
  PROVE  /\ job[q] \in Jobs /\ work[q] \in Seq(Ids) /\ work[q] # <<>>
         /\ Current(q) \in Ids
         /\ Item(q) \in Nat
         /\ pc[q] \in ItemSteps \cup {"assign"} =>
              Current(q) \in Violations /\ mine[q][Current(q)] \in Row
         /\ pc[q] \in ItemSteps => job[q].action \in Actions
         /\ pc[q] = "assign" => job[q].to \in Reviewers
<1>1. job[q] \in Jobs /\ work[q] \in Seq(Ids) /\ work[q] # <<>> /\ Len(work[q]) <= Len(job[q].ids)
  BY DEF HandlerIsOnItsWay, LoopSteps, ItemSteps
<1>2. job[q].ids \in Seq(Ids)
  BY <1>1, JobFacts
<1>3. Len(work[q]) \in Nat /\ Len(job[q].ids) \in Nat
  BY <1>1, <1>2
<1>4. Item(q) \in Nat
  BY <1>1, <1>3 DEF Item
<1>5. pc[q] \in ItemSteps \cup {"assign"} =>
        Current(q) \in Violations /\ mine[q][Current(q)] \in Row
  BY DEF HandlerIsOnItsWay, TypeOK
<1>6. pc[q] \in ItemSteps => job[q].action \in Actions
  BY <1>1, JobFacts DEF HandlerIsOnItsWay, Reviewing
<1>7. pc[q] = "assign" => job[q].to \in Reviewers
  BY <1>1, JobFacts DEF HandlerIsOnItsWay
<1> QED
  BY <1>1, <1>4, <1>5, <1>6, <1>7 DEF Current

LEMMA InitKeepsTypes == Init => TypeOK
<1> SUFFICES ASSUME Init PROVE TypeOK
  OBVIOUS
<1>1. row \in [Violations -> Row]
  BY DEF Init, Row, ViolationStatuses
<1>2. /\ pc \in [Requests -> Steps] /\ locks \in [Requests -> SUBSET Lockable]
      /\ mine \in [Requests -> [Violations -> Row \cup {None}]]
      /\ job \in [Requests -> Jobs \cup {None}]
  BY DEF Init, Steps
<1>3. /\ work \in [Requests -> Seq(Ids \cup Requests \cup {None})]
      /\ handled \in [Requests -> Seq(Violations \cup Requests)]
  BY DEF Init
<1> QED
  BY <1>1, <1>2, <1>3 DEF Init, TypeOK

LEMMA ReceiveKeepsTypes ==
  ASSUME TypeOK, NEW q \in Requests, NEW j \in Jobs, Receive(q, j)
  PROVE  TypeOK'
<1>1. j.ids \in Seq(Ids \cup Requests \cup {None})
  BY JobFacts
<1>2. work' \in [Requests -> Seq(Ids \cup Requests \cup {None})]
  BY <1>1 DEF TypeOK, Receive
<1>3. pc' \in [Requests -> Steps] /\ job' \in [Requests -> Jobs \cup {None}]
  BY DEF TypeOK, Receive, Goto, Steps
<1> QED
  BY <1>2, <1>3 DEF TypeOK, Receive, database

LEMMA SessionEnds ==
  ASSUME TypeOK, NEW q \in Requests, EndSession(q)
  PROVE  /\ work' \in [Requests -> Seq(Ids \cup Requests \cup {None})]
         /\ handled' \in [Requests -> Seq(Violations \cup Requests)]
         /\ mine' \in [Requests -> [Violations -> Row \cup {None}]]
         /\ locks' \in [Requests -> SUBSET Lockable]
         /\ locks'[q] = {} /\ \A v \in Violations : mine'[q][v] = None
         /\ \A o \in Requests \ {q} :
              work'[o] = work[o] /\ mine'[o] = mine[o] /\ locks'[o] = locks[o]
<1>1. /\ work' = [work EXCEPT ![q] = <<>>]
      /\ handled' = [handled EXCEPT ![q] = <<>>]
      /\ mine' = [mine EXCEPT ![q] = [v \in Violations |-> None]]
      /\ locks' = [locks EXCEPT ![q] = {}]
  BY DEF EndSession
<1>2. /\ work' \in [Requests -> Seq(Ids \cup Requests \cup {None})]
      /\ handled' \in [Requests -> Seq(Violations \cup Requests)]
  <2>1. <<>> \in Seq(Ids \cup Requests \cup {None}) /\ <<>> \in Seq(Violations \cup Requests)
    OBVIOUS
  <2> QED
    BY <1>1, <2>1 DEF TypeOK
<1>3. /\ mine' \in [Requests -> [Violations -> Row \cup {None}]]
      /\ locks' \in [Requests -> SUBSET Lockable]
  BY <1>1 DEF TypeOK
<1> QED
  BY <1>1, <1>2, <1>3 DEF TypeOK

LEMMA RollbackKeepsTypes ==
  ASSUME TypeOK, NEW q \in Requests, Rollback(q)
  PROVE  TypeOK'
<1>1. pc' \in [Requests -> Steps]
  BY DEF TypeOK, Rollback, Goto, Steps
<1>2. reviews' \subseteq reviews /\ patches' \subseteq patches /\ audit' \subseteq audit
  BY DEF Rollback
<1>3. EndSession(q)
  BY DEF Rollback
<1> QED
  BY <1>1, <1>2, <1>3, SessionEnds DEF TypeOK, Rollback, EndSession

(* What a session writes back is a row.                                    *)
LEMMA SavedIsRow ==
  ASSUME TypeOK, NEW q \in Requests, LocksAreDecisions(q), NEW v \in Violations
  PROVE  /\ Saved(q, v) \in Row
         /\ Saved(q, v).status =
              IF <<"status", v>> \in locks[q] THEN mine[q][v].status ELSE row[v].status
         /\ Saved(q, v).assignee =
              IF <<"assignee", v>> \in locks[q] THEN mine[q][v].assignee ELSE row[v].assignee
<1>1. row[v] \in Row
  BY DEF TypeOK
<1>2. <<"status", v>> \in locks[q] \/ <<"assignee", v>> \in locks[q] => mine[q][v] \in Row
  BY DEF TypeOK, LocksAreDecisions
<1> QED
  BY <1>1, <1>2 DEF Saved, Row

LEMMA CommitKeepsTypes ==
  ASSUME TypeOK, NEW q \in Requests, LocksAreDecisions(q), Commit(q)
  PROVE  TypeOK'
<1>1. pc' \in [Requests -> Steps]
  BY DEF TypeOK, Commit, Goto, Steps
<1>2. row' \in [Violations -> Row]
  BY SavedIsRow DEF Commit
<1>3. exportedBy' \in [Requests -> Requests \cup {None}]
  BY DEF Commit, TypeOK
<1>4. EndSession(q)
  BY DEF Commit
<1> QED
  BY <1>1, <1>2, <1>3, <1>4, SessionEnds DEF TypeOK, Commit, EndSession

LEMMA HandledIsTyped ==
  ASSUME TypeOK, NEW q \in Requests, NEW id \in Violations \cup Requests, Handle(q, id)
  PROVE  handled' \in [Requests -> Seq(Violations \cup Requests)]
<1>1. handled[q] \in Seq(Violations \cup Requests)
  BY DEF TypeOK
<1>2. Append(handled[q], id) \in Seq(Violations \cup Requests)
  BY <1>1
<1> QED
  BY <1>2 DEF Handle, TypeOK

(* get_violation: what is found of a violation that was loaded before is    *)
(* what the session knew, or what its transaction would commit.             *)
LEMMA GetReads ==
  ASSUME TypeOK, NEW q \in Requests, HandlerIsOnItsWay(q), Get(q)
  PROVE  /\ Current(q) \in Violations
         /\ mine' \in [Requests -> [Violations -> Row \cup {None}]]
         /\ mine'[q][Current(q)] \in Loaded(q, Current(q)) \cap Row
         /\ \A v \in Violations : v # Current(q) => mine'[q][v] = mine[q][v]
<1>1. Current(q) \in Violations
  BY DEF Get
<1>2. Loaded(q, Current(q)) \subseteq Row
  <2>1. CASE mine[q][Current(q)] = None
    BY <1>1, <2>1 DEF Loaded, TypeOK
  <2>2. CASE mine[q][Current(q)] # None
    <3>1. mine[q][Current(q)] \in Row /\ row[Current(q)] \in Row
      BY <1>1, <2>2 DEF TypeOK
    <3>2. Saved(q, Current(q)) \in Row
      BY <3>1 DEF Saved, Row
    <3> QED
      BY <2>2, <3>1, <3>2 DEF Loaded
  <2> QED
    BY <2>1, <2>2
<1>3. PICK seen \in Loaded(q, Current(q)) :
         mine' = [mine EXCEPT ![q] = [mine[q] EXCEPT ![Current(q)] = seen]]
  BY DEF Get
<1> QED
  BY <1>1, <1>2, <1>3 DEF TypeOK

LEMMA GetKeepsTypes ==
  ASSUME TypeOK, NEW q \in Requests, HandlerIsOnItsWay(q), Get(q)
  PROVE  TypeOK'
<1>1. /\ Current(q) \in Violations
      /\ mine' \in [Requests -> [Violations -> Row \cup {None}]]
  BY GetReads
<1>2. contended' \subseteq Violations
  BY <1>1 DEF Get, TypeOK
<1>3. /\ job[q] \in Jobs /\ work[q] # <<>>
      /\ job[q].kind \in {"review", "skip", "assign", "bulk_export"}
  BY ItemInHand, JobFacts DEF Get, At, LoopSteps
<1>4. handled' \in [Requests -> Seq(Violations \cup Requests)]
  <2>1. UNCHANGED handled \/ Handle(q, Current(q))
    BY <1>3 DEF Get, Reviewing
  <2> QED
    BY <2>1, <1>1, HandledIsTyped DEF TypeOK
<1>5. /\ work' \in [Requests -> Seq(Ids \cup Requests \cup {None})]
      /\ pc' \in [Requests -> Steps]
  <2>1. CASE NextItem(q)
    BY <2>1, <1>3, NextItemMoves
  <2>2. CASE Goto(q, "insert") /\ UNCHANGED work
    BY <2>2 DEF TypeOK, Goto, Steps
  <2>3. CASE Goto(q, "assign") /\ UNCHANGED work
    BY <2>3 DEF TypeOK, Goto, Steps
  <2> QED
    BY <2>1, <2>2, <2>3, <1>3 DEF Get, Reviewing
<1> QED
  BY <1>1, <1>2, <1>4, <1>5 DEF TypeOK, Get, database


LEMMA GetMissingKeepsTypes ==
  ASSUME TypeOK, NEW q \in Requests, HandlerIsOnItsWay(q), GetMissing(q)
  PROVE  TypeOK'
<1>1. CASE job[q].kind = "review"
  BY <1>1, RollbackKeepsTypes DEF GetMissing
<1>2. CASE job[q].kind # "review"
  <2>1. NextItem(q) /\ UNCHANGED <<database, job, handled, mine, locks, contended>>
    BY <1>2 DEF GetMissing
  <2>2. work[q] # <<>>
    BY ItemInHand DEF GetMissing, At, LoopSteps
  <2> QED
    BY <2>1, <2>2, NextItemMoves DEF TypeOK, database
<1> QED
  BY <1>1, <1>2

LEMMA InsertReviewKeepsTypes ==
  ASSUME TypeOK, NEW q \in Requests, HandlerIsOnItsWay(q), InsertReview(q)
  PROVE  TypeOK'
<1>1. pc[q] \in ItemSteps /\ pc[q] \in LoopSteps
  BY DEF InsertReview, At, ItemSteps, LoopSteps
<1>2. /\ job[q].action \in Actions /\ Item(q) \in Nat
      /\ Current(q) \in Violations /\ mine[q][Current(q)] \in Row
  BY <1>1, ItemInHand
<1>3. /\ mine[q][Current(q)].status \in ViolationStatuses
      /\ ACTION_TO_STATUS[job[q].action] \in ViolationStatuses \ {"open"}
      /\ clock \in Nat
  BY <1>2, ActionsDecide DEF Row, TypeOK
<1>4. reviews' \subseteq Review
  BY <1>2, <1>3 DEF InsertReview, TypeOK, Review
<1>5. pc' \in [Requests -> Steps]
  BY DEF InsertReview, Goto, Steps, TypeOK
<1> QED
  BY <1>3, <1>4, <1>5 DEF TypeOK, InsertReview, session

(* The lock a flush takes, and what it would be.                           *)
LEMMA WantedIsLockable ==
  ASSUME TypeOK, NEW q \in Requests, HandlerIsOnItsWay(q)
  PROVE  /\ pc[q] = "update" => Wanted(q) =
              IF mine[q][Current(q)].status # ACTION_TO_STATUS[job[q].action]
              THEN {<<"status", Current(q)>>} ELSE {}
         /\ pc[q] = "assign" => Wanted(q) =
              IF mine[q][Current(q)].assignee # job[q].to
              THEN {<<"assignee", Current(q)>>} ELSE {}
         /\ pc[q] = "mark" => Wanted(q) =
              IF Current(q) # None THEN {<<"patch", Current(q)>>} ELSE {}
         /\ pc[q] \notin {"update", "assign", "mark"} => Wanted(q) = {}
         /\ pc[q] = "mark" => Current(q) \in Requests \cup {None}
         /\ Wanted(q) \subseteq Lockable
<1>1. /\ pc[q] = "update" => Wanted(q) =
           IF mine[q][Current(q)].status # ACTION_TO_STATUS[job[q].action]
           THEN {<<"status", Current(q)>>} ELSE {}
      /\ pc[q] = "assign" => Wanted(q) =
           IF mine[q][Current(q)].assignee # job[q].to
           THEN {<<"assignee", Current(q)>>} ELSE {}
      /\ pc[q] = "mark" => Wanted(q) =
           IF Current(q) # None THEN {<<"patch", Current(q)>>} ELSE {}
      /\ pc[q] \notin {"update", "assign", "mark"} => Wanted(q) = {}
  BY DEF Wanted, At
<1>2. pc[q] = "mark" => Current(q) \in Requests \cup {None}
  BY DEF HandlerIsOnItsWay, Current
<1>3. pc[q] \in {"update", "assign"} => Current(q) \in Violations
  BY ItemInHand DEF ItemSteps, LoopSteps
<1>4. Wanted(q) \subseteq Lockable
  <2>1. CASE pc[q] = "update"
    BY <2>1, <1>1, <1>3 DEF Lockable
  <2>2. CASE pc[q] = "assign"
    BY <2>2, <1>1, <1>3 DEF Lockable
  <2>3. CASE pc[q] = "mark"
    BY <2>3, <1>1, <1>2 DEF Lockable
  <2> QED
    BY <2>1, <2>2, <2>3, <1>1
<1> QED
  BY <1>1, <1>2, <1>4

LEMMA LocksAreTyped ==
  ASSUME TypeOK, NEW q \in Requests, HandlerIsOnItsWay(q), TakeLocks(q)
  PROVE  /\ locks' \in [Requests -> SUBSET Lockable]
         /\ locks'[q] = locks[q] \cup Wanted(q)
         /\ \A o \in Requests \ {q} : locks'[o] = locks[o]
BY WantedIsLockable DEF TakeLocks, TypeOK

LEMMA UpdateStatusWrites ==
  ASSUME TypeOK, NEW q \in Requests, HandlerIsOnItsWay(q), UpdateStatus(q)
  PROVE  /\ Current(q) \in Violations
         /\ mine' = [mine EXCEPT ![q] = [mine[q] EXCEPT ![Current(q)] =
              [mine[q][Current(q)] EXCEPT !.status = ACTION_TO_STATUS[job[q].action]]]]
         /\ mine' \in [Requests -> [Violations -> Row \cup {None}]]
         /\ mine'[q][Current(q)] # None
         /\ mine'[q][Current(q)].status = ACTION_TO_STATUS[job[q].action]
         /\ \A v \in Violations : v # Current(q) => mine'[q][v] = mine[q][v]
<1>1. pc[q] \in ItemSteps /\ pc[q] \in LoopSteps
  BY DEF UpdateStatus, At, ItemSteps, LoopSteps
<1>2. /\ job[q].action \in Actions /\ Current(q) \in Violations
      /\ mine[q][Current(q)] \in Row
  BY <1>1, ItemInHand
<1>3. mine' = [mine EXCEPT ![q] = [mine[q] EXCEPT ![Current(q)] =
        [mine[q][Current(q)] EXCEPT !.status = ACTION_TO_STATUS[job[q].action]]]]
  BY DEF UpdateStatus
<1> DEFINE written == [mine[q][Current(q)] EXCEPT !.status = ACTION_TO_STATUS[job[q].action]]
<1>4. written \in Row /\ written.status = ACTION_TO_STATUS[job[q].action]
  BY <1>2, ActionsDecide DEF Row
<1>5. written # None
  BY <1>4, NoneIsNothing
<1> HIDE DEF written
<1>6. /\ mine' = [mine EXCEPT ![q] = [mine[q] EXCEPT ![Current(q)] = written]]
      /\ mine[q] \in [Violations -> Row \cup {None}]
  BY <1>3 DEF written, TypeOK
<1>7. [mine[q] EXCEPT ![Current(q)] = written] \in [Violations -> Row \cup {None}]
  BY <1>2, <1>4, <1>6
<1>8. /\ mine' \in [Requests -> [Violations -> Row \cup {None}]]
      /\ mine'[q] = [mine[q] EXCEPT ![Current(q)] = written]
  BY <1>6, <1>7 DEF TypeOK
<1>9. /\ mine'[q][Current(q)] = written
      /\ \A v \in Violations : v # Current(q) => mine'[q][v] = mine[q][v]
  BY <1>2, <1>6, <1>8
<1> QED
  BY <1>2, <1>3, <1>4, <1>5, <1>8, <1>9

LEMMA UpdateStatusKeepsTypes ==
  ASSUME TypeOK, NEW q \in Requests, HandlerIsOnItsWay(q), UpdateStatus(q)
  PROVE  TypeOK'
<1>1. /\ mine' \in [Requests -> [Violations -> Row \cup {None}]]
      /\ locks' \in [Requests -> SUBSET Lockable]
  BY UpdateStatusWrites, LocksAreTyped DEF UpdateStatus
<1>2. pc' \in [Requests -> Steps]
  BY DEF UpdateStatus, Goto, Steps, TypeOK
<1> QED
  BY <1>1, <1>2 DEF TypeOK, UpdateStatus, database

LEMMA AuditReviewKeepsTypes ==
  ASSUME TypeOK, NEW q \in Requests, HandlerIsOnItsWay(q), AuditReview(q)
  PROVE  TypeOK'
<1>1. pc[q] \in ItemSteps /\ pc[q] \in LoopSteps
  BY DEF AuditReview, At, ItemSteps, LoopSteps
<1>2. work[q] # <<>> /\ Current(q) \in Violations /\ Item(q) \in Nat
  BY <1>1, ItemInHand
<1>3. audit' \subseteq ViolationEntry \cup AssignmentEntry \cup PatchEntry \cup SummaryEntry
  <2>1. PICK r \in reviews :
          audit' = audit \cup {[by |-> q, item |-> Item(q), action |-> "review",
                                old |-> r.old, new |-> r.new]}
    BY DEF AuditReview
  <2>2. r \in Review
    BY DEF TypeOK
  <2>3. [by |-> q, item |-> Item(q), action |-> "review", old |-> r.old, new |-> r.new]
          \in ViolationEntry
    BY <2>2, <1>2 DEF Review, ViolationEntry
  <2> QED
    BY <2>1, <2>3 DEF TypeOK
<1>4. handled' \in [Requests -> Seq(Violations \cup Requests)]
  BY <1>2, HandledIsTyped DEF AuditReview
<1>5. /\ work' \in [Requests -> Seq(Ids \cup Requests \cup {None})]
      /\ pc' \in [Requests -> Steps]
  <2>1. CASE NextItem(q)
    BY <2>1, <1>2, NextItemMoves
  <2>2. CASE Goto(q, "patch") /\ UNCHANGED work
    BY <2>2 DEF TypeOK, Goto, Steps
  <2> QED
    BY <2>1, <2>2 DEF AuditReview
<1> QED
  BY <1>3, <1>4, <1>5 DEF TypeOK, AuditReview


LEMMA AddPatchKeepsTypes ==
  ASSUME TypeOK, NEW q \in Requests, HandlerIsOnItsWay(q), AddPatch(q)
  PROVE  TypeOK'
<1>1. Current(q) \in Violations
  BY ItemInHand DEF AddPatch, At, ItemSteps, LoopSteps
<1>2. patches' \subseteq Patch /\ clock' \in Nat
  BY <1>1 DEF AddPatch, TypeOK, Patch
<1>3. pc' \in [Requests -> Steps]
  BY DEF AddPatch, Goto, Steps, TypeOK
<1> QED
  BY <1>2, <1>3 DEF TypeOK, AddPatch, session

LEMMA AuditPatchKeepsTypes ==
  ASSUME TypeOK, NEW q \in Requests, HandlerIsOnItsWay(q), AuditPatch(q)
  PROVE  TypeOK'
<1>1. work[q] # <<>> /\ Item(q) \in Nat
  BY ItemInHand DEF AuditPatch, At, ItemSteps, LoopSteps
<1>2. audit' \subseteq ViolationEntry \cup AssignmentEntry \cup PatchEntry \cup SummaryEntry
  <2>1. [by |-> q, item |-> Item(q), action |-> "patch.generated"] \in PatchEntry
    BY <1>1 DEF PatchEntry
  <2> QED
    BY <2>1 DEF TypeOK, AuditPatch
<1>3. NextItem(q)
  BY DEF AuditPatch
<1> QED
  BY <1>1, <1>2, <1>3, NextItemMoves DEF TypeOK, AuditPatch

LEMMA AssignWrites ==
  ASSUME TypeOK, NEW q \in Requests, HandlerIsOnItsWay(q), Assign(q)
  PROVE  /\ Current(q) \in Violations /\ mine[q][Current(q)] \in Row
         /\ mine' = [mine EXCEPT ![q] = [mine[q] EXCEPT ![Current(q)] =
              [mine[q][Current(q)] EXCEPT !.assignee = job[q].to]]]
         /\ mine' \in [Requests -> [Violations -> Row \cup {None}]]
         /\ mine'[q][Current(q)] # None
         /\ mine'[q][Current(q)].status = mine[q][Current(q)].status
         /\ \A v \in Violations : v # Current(q) => mine'[q][v] = mine[q][v]
<1>1. /\ job[q].to \in Reviewers /\ Current(q) \in Violations
      /\ mine[q][Current(q)] \in Row
  BY ItemInHand DEF Assign, At, ItemSteps, LoopSteps
<1>2. mine' = [mine EXCEPT ![q] = [mine[q] EXCEPT ![Current(q)] =
        [mine[q][Current(q)] EXCEPT !.assignee = job[q].to]]]
  BY DEF Assign
<1> DEFINE written == [mine[q][Current(q)] EXCEPT !.assignee = job[q].to]
<1>3. written \in Row /\ written.status = mine[q][Current(q)].status
  BY <1>1 DEF Row
<1>4. written # None
  BY <1>3, NoneIsNothing
<1> HIDE DEF written
<1>5. /\ mine' = [mine EXCEPT ![q] = [mine[q] EXCEPT ![Current(q)] = written]]
      /\ mine[q] \in [Violations -> Row \cup {None}]
  BY <1>2 DEF written, TypeOK
<1>6. [mine[q] EXCEPT ![Current(q)] = written] \in [Violations -> Row \cup {None}]
  BY <1>1, <1>3, <1>5
<1>7. /\ mine' \in [Requests -> [Violations -> Row \cup {None}]]
      /\ mine'[q] = [mine[q] EXCEPT ![Current(q)] = written]
  BY <1>5, <1>6 DEF TypeOK
<1>8. /\ mine'[q][Current(q)] = written
      /\ \A v \in Violations : v # Current(q) => mine'[q][v] = mine[q][v]
  BY <1>1, <1>5, <1>7
<1> QED
  BY <1>1, <1>2, <1>3, <1>4, <1>7, <1>8

LEMMA AssignKeepsTypes ==
  ASSUME TypeOK, NEW q \in Requests, HandlerIsOnItsWay(q), Assign(q)
  PROVE  TypeOK'
<1>1. /\ work[q] # <<>> /\ Item(q) \in Nat /\ job[q].to \in Reviewers
      /\ Current(q) \in Violations /\ mine[q][Current(q)] \in Row
  BY ItemInHand DEF Assign, At, ItemSteps, LoopSteps
<1>2. /\ mine' \in [Requests -> [Violations -> Row \cup {None}]]
      /\ locks' \in [Requests -> SUBSET Lockable]
      /\ handled' \in [Requests -> Seq(Violations \cup Requests)]
  BY <1>1, AssignWrites, LocksAreTyped, HandledIsTyped DEF Assign
<1>3. audit' \subseteq ViolationEntry \cup AssignmentEntry \cup PatchEntry \cup SummaryEntry
  <2>1. [by |-> q, item |-> Item(q), action |-> "assign_reviewer",
         old |-> mine[q][Current(q)].assignee, new |-> job[q].to] \in AssignmentEntry
    BY <1>1 DEF AssignmentEntry, Row
  <2> QED
    BY <2>1 DEF TypeOK, Assign
<1>4. NextItem(q)
  BY DEF Assign
<1> QED
  BY <1>1, <1>2, <1>3, <1>4, NextItemMoves DEF TypeOK, Assign

LEMMA ListPatchesKeepsTypes ==
  ASSUME TypeOK, TimesAreDistinct, NEW q \in Requests, ListPatches(q)
  PROVE  /\ TypeOK'
         /\ work'[q] \in Seq(Requests \cup {None})
         /\ handled[q] = <<>> <=> work'[q] = <<>>
<1> DEFINE found == [i \in DOMAIN handled[q] |-> PatchOf(handled[q][i])]
<1>1. work' = [work EXCEPT ![q] = found]
  BY DEF ListPatches
<1>2. handled[q] \in Seq(Violations \cup Requests)
  BY DEF TypeOK
<1>3. /\ Len(handled[q]) \in Nat /\ DOMAIN handled[q] = 1 .. Len(handled[q])
  BY <1>2
<1>4. \A i \in DOMAIN handled[q] : PatchOf(handled[q][i]) \in Requests \cup {None}
  <2> TAKE i \in DOMAIN handled[q]
  <2>1. PICK v : v = handled[q][i]
    OBVIOUS
  <2> QED
    BY <2>1, PatchIsOfRequest
<1>5. found \in Seq(Requests \cup {None}) /\ Len(found) = Len(handled[q])
  <2>1. found \in [1 .. Len(handled[q]) -> Requests \cup {None}]
    BY <1>3, <1>4
  <2> HIDE DEF found
  <2> QED
    BY <2>1, <1>3
<1>6. found = <<>> <=> handled[q] = <<>>
  <2> HIDE DEF found
  <2>1. PICK s \in Seq(Requests \cup {None}) : s = found
    BY <1>5
  <2>2. Len(s) = 0 <=> s = <<>>
    BY EmptySeq
  <2>3. PICK h \in Seq(Violations \cup Requests) : h = handled[q]
    BY <1>2
  <2>4. Len(h) = 0 <=> h = <<>>
    BY EmptySeq
  <2> QED
    BY <1>5, <2>1, <2>2, <2>3, <2>4
<1> HIDE DEF found
<1>7. found \in Seq(Ids \cup Requests \cup {None})
  BY <1>5
<1>8. work'[q] = found /\ work' \in [Requests -> Seq(Ids \cup Requests \cup {None})]
  BY <1>1, <1>7 DEF TypeOK
<1>9. handled' \in [Requests -> Seq(Violations \cup Requests)]
  <2>1. <<>> \in Seq(Violations \cup Requests)
    OBVIOUS
  <2> QED
    BY <2>1 DEF ListPatches, TypeOK
<1>10. pc' \in [Requests -> Steps]
  BY DEF ListPatches, Goto, Steps, TypeOK
<1>11. TypeOK'
  BY <1>8, <1>9, <1>10 DEF TypeOK, ListPatches, database
<1> QED
  BY <1>5, <1>6, <1>8, <1>11

LEMMA GetPatchKeepsTypes ==
  ASSUME TypeOK, NEW q \in Requests, NEW p \in Requests, GetPatch(q, p)
  PROVE  TypeOK'
<1>1. <<p>> \in Seq(Ids \cup Requests \cup {None})
  OBVIOUS
<1>2. work' \in [Requests -> Seq(Ids \cup Requests \cup {None})]
  BY <1>1 DEF GetPatch, TypeOK
<1>3. pc' \in [Requests -> Steps]
  BY DEF GetPatch, Goto, Steps, TypeOK
<1> QED
  BY <1>2, <1>3 DEF TypeOK, GetPatch, database

LEMMA MarkExportedKeepsTypes ==
  ASSUME TypeOK, NEW q \in Requests, HandlerIsOnItsWay(q), MarkExported(q)
  PROVE  TypeOK'
<1>1. work[q] # <<>> /\ Current(q) \in Requests \cup {None}
  BY WantedIsLockable DEF MarkExported, At, HandlerIsOnItsWay
<1>2. locks' \in [Requests -> SUBSET Lockable]
  BY LocksAreTyped DEF MarkExported
<1>3. handled' \in [Requests -> Seq(Violations \cup Requests)]
  BY <1>1, HandledIsTyped DEF MarkExported, TypeOK
<1>4. NextItem(q)
  BY DEF MarkExported
<1> QED
  BY <1>1, <1>2, <1>3, <1>4, NextItemMoves DEF TypeOK, MarkExported, database

LEMMA AuditBulkKeepsTypes ==
  ASSUME TypeOK, NEW q \in Requests, HandlerIsOnItsWay(q), AuditBulk(q)
  PROVE  TypeOK'
<1>1. job[q].kind \in {"skip", "assign", "bulk_export"}
  BY DEF AuditBulk, At, HandlerIsOnItsWay
<1>2. [by |-> q, action |-> job[q].kind, listed |-> handled[q]] \in SummaryEntry
  BY <1>1 DEF SummaryEntry, TypeOK
<1>3. pc' \in [Requests -> Steps]
  BY DEF AuditBulk, Goto, Steps, TypeOK
<1> QED
  BY <1>2, <1>3 DEF TypeOK, AuditBulk, session


-------------------------------------------------------------------------------
(* Steps                                                                   *)

RequestStep(q) ==
  \/ \E j \in Jobs : Receive(q, j)
  \/ HandlerStep(q)
  \/ Abort(q)
  \/ DeadlockVictim(q)

(* The loop goes on after an id without a row.                             *)
PassMissing(q) == GetMissing(q) /\ job[q].kind # "review" /\ NextItem(q)

(* Steps of a session other than its commit.                               *)
FlushStep(q) ==
  \/ Get(q) \/ PassMissing(q) \/ InsertReview(q) \/ UpdateStatus(q) \/ AuditReview(q)
  \/ AddPatch(q) \/ AuditPatch(q) \/ Assign(q) \/ ListPatches(q)
  \/ \E p \in Requests : GetPatch(q, p)
  \/ MarkExported(q) \/ AuditBulk(q)

(* A victim of a deadlock waits for a lock.                                *)
LEMMA VictimIsActive ==
  ASSUME NEW q \in Requests, DeadlockVictim(q)
  PROVE  Active(q)
<1>1. PICK o \in Requests : WaitsFor(q, o)
  BY DEF DeadlockVictim, InDeadlock
<1>2. Wanted(q) # {}
  BY <1>1 DEF WaitsFor, RowsOf
<1>3. pc[q] \in {"update", "assign", "mark"}
  BY <1>2 DEF Wanted, At
<1> QED
  BY <1>3 DEF Active

(* A request is received, goes on, commits, or is rolled back.             *)
LEMMA StepCases ==
  ASSUME NEW q \in Requests, RequestStep(q)
  PROVE  \/ \E j \in Jobs : Receive(q, j)
         \/ FlushStep(q)
         \/ Commit(q)
         \/ Active(q) /\ Rollback(q)
<1>1. CASE GetMissing(q)
  <2>1. Active(q)
    BY <1>1 DEF GetMissing, At, Active
  <2> QED
    BY <1>1, <2>1 DEF GetMissing, PassMissing, FlushStep
<1>2. CASE RefuseInvalid(q) \/ GetNoPatch(q)
  BY <1>2 DEF RefuseInvalid, GetNoPatch, At, Active
<1>3. CASE Abort(q)
  BY <1>3 DEF Abort
<1>4. CASE DeadlockVictim(q)
  BY <1>4, VictimIsActive DEF DeadlockVictim
<1> QED
  BY <1>1, <1>2, <1>3, <1>4 DEF RequestStep, HandlerStep, FlushStep

LEMMA FlushKeepsTypes ==
  ASSUME TypeOK, TimesAreDistinct, NEW q \in Requests, HandlerIsOnItsWay(q), FlushStep(q)
  PROVE  TypeOK'
BY GetKeepsTypes, GetMissingKeepsTypes, InsertReviewKeepsTypes, UpdateStatusKeepsTypes,
   AuditReviewKeepsTypes, AddPatchKeepsTypes, AuditPatchKeepsTypes, AssignKeepsTypes,
   ListPatchesKeepsTypes, GetPatchKeepsTypes, MarkExportedKeepsTypes, AuditBulkKeepsTypes
   DEF FlushStep, PassMissing

(* What a step of q leaves alone.                                          *)
OnlyActs(q) ==
  /\ \A o \in Requests \ {q} :
       /\ pc'[o] = pc[o] /\ job'[o] = job[o] /\ work'[o] = work[o]
       /\ mine'[o] = mine[o] /\ locks'[o] = locks[o]
  /\ {r \in reviews' : r.by # q} = {r \in reviews : r.by # q}
  /\ {p \in patches' : p.by # q} = {p \in patches : p.by # q}
  /\ {a \in audit' : a.by # q} = {a \in audit : a.by # q}
  /\ pc[q] # "committed"

(* A step of the loop: pc and work change for q only.                      *)
LEMMA NextItemIsOwn ==
  ASSUME TypeOK, NEW q \in Requests, NextItem(q)
  PROVE  \A o \in Requests \ {q} : pc'[o] = pc[o] /\ work'[o] = work[o]
BY DEF NextItem, Goto, TypeOK

LEMMA FlushIsOwn ==
  ASSUME TypeOK, NEW q \in Requests, HandlerIsOnItsWay(q), FlushStep(q)
  PROVE  OnlyActs(q) /\ UNCHANGED row /\ pc'[q] # "committed" /\ Active(q)
<1>1. CASE Get(q)
  <2>1. /\ job[q] \in Jobs
        /\ job[q].kind \in {"review", "skip", "assign", "bulk_export"}
    BY <1>1, ItemInHand, JobFacts DEF Get, At, LoopSteps
  <2>2. /\ \A o \in Requests \ {q} : pc'[o] = pc[o] /\ work'[o] = work[o]
        /\ pc'[q] # "committed"
    <3>1. CASE NextItem(q)
      BY <3>1, NextItemIsOwn DEF NextItem, Goto, FirstStep, AfterLoop, TypeOK
    <3>2. CASE (Goto(q, "insert") \/ Goto(q, "assign")) /\ UNCHANGED work
      BY <3>2 DEF Goto, TypeOK
    <3> QED
      BY <1>1, <2>1, <3>1, <3>2 DEF Get, Reviewing
  <2>3. \A o \in Requests \ {q} : mine'[o] = mine[o]
    BY <1>1 DEF Get, TypeOK
  <2> QED
    BY <1>1, <2>2, <2>3 DEF Get, At, OnlyActs, database, Active
<1>2. CASE PassMissing(q)
  BY <1>2, NextItemIsOwn
     DEF PassMissing, GetMissing, NextItem, Goto, FirstStep, AfterLoop, TypeOK, At, OnlyActs,
         database, Active
<1>3. CASE InsertReview(q)
  BY <1>3 DEF InsertReview, Goto, TypeOK, At, OnlyActs, session, Active
<1>4. CASE UpdateStatus(q)
  <2>1. \A o \in Requests \ {q} : mine'[o] = mine[o] /\ locks'[o] = locks[o]
    BY <1>4, UpdateStatusWrites, LocksAreTyped DEF TypeOK, UpdateStatus
  <2> QED
    BY <1>4, <2>1 DEF UpdateStatus, Goto, TypeOK, At, OnlyActs, database, Active
<1>5. CASE AuditReview(q)
  <2>1. /\ \A o \in Requests \ {q} : pc'[o] = pc[o] /\ work'[o] = work[o]
        /\ pc'[q] # "committed"
    BY <1>5, NextItemIsOwn DEF AuditReview, NextItem, Goto, FirstStep, AfterLoop, TypeOK
  <2>2. {a \in audit' : a.by # q} = {a \in audit : a.by # q}
    BY <1>5 DEF AuditReview
  <2> QED
    BY <1>5, <2>1, <2>2 DEF AuditReview, At, OnlyActs, Active
<1>6. CASE AddPatch(q)
  BY <1>6 DEF AddPatch, Goto, TypeOK, At, OnlyActs, session, Active
<1>7. CASE AuditPatch(q)
  <2>1. /\ \A o \in Requests \ {q} : pc'[o] = pc[o] /\ work'[o] = work[o]
        /\ pc'[q] # "committed"
    BY <1>7, NextItemIsOwn DEF AuditPatch, NextItem, Goto, FirstStep, AfterLoop, TypeOK
  <2> QED
    BY <1>7, <2>1 DEF AuditPatch, At, OnlyActs, Active
<1>8. CASE Assign(q)
  <2>1. \A o \in Requests \ {q} : mine'[o] = mine[o] /\ locks'[o] = locks[o]
    BY <1>8, AssignWrites, LocksAreTyped DEF TypeOK, Assign
  <2>2. /\ \A o \in Requests \ {q} : pc'[o] = pc[o] /\ work'[o] = work[o]
        /\ pc'[q] # "committed"
    BY <1>8, NextItemIsOwn DEF Assign, NextItem, Goto, FirstStep, AfterLoop, TypeOK
  <2> QED
    BY <1>8, <2>1, <2>2 DEF Assign, At, OnlyActs, Active
<1>9. CASE ListPatches(q)
  BY <1>9 DEF ListPatches, Goto, TypeOK, At, OnlyActs, database, Active
<1>10. CASE \E p \in Requests : GetPatch(q, p)
  BY <1>10 DEF GetPatch, Goto, TypeOK, At, OnlyActs, database, Active
<1>11. CASE MarkExported(q)
  <2>1. /\ \A o \in Requests \ {q} : pc'[o] = pc[o] /\ work'[o] = work[o]
        /\ pc'[q] # "committed"
    BY <1>11, NextItemIsOwn DEF MarkExported, NextItem, Goto, FirstStep, AfterLoop, TypeOK
  <2> QED
    BY <1>11, <2>1, LocksAreTyped DEF MarkExported, At, OnlyActs, database, Active
<1>12. CASE AuditBulk(q)
  BY <1>12 DEF AuditBulk, Goto, TypeOK, At, OnlyActs, session, Active
<1> QED
  BY <1>1, <1>2, <1>3, <1>4, <1>5, <1>6, <1>7, <1>8, <1>9, <1>10, <1>11, <1>12 DEF FlushStep

LEMMA ReceiptIsOwn ==
  ASSUME TypeOK, NEW q \in Requests, NEW j \in Jobs, Receive(q, j)
  PROVE  OnlyActs(q)
BY DEF Receive, At, Goto, OnlyActs, TypeOK, database

LEMMA CommitIsOwn ==
  ASSUME TypeOK, NEW q \in Requests, Commit(q)
  PROVE  OnlyActs(q)
BY SessionEnds DEF Commit, At, Goto, TypeOK, EndSession, OnlyActs

LEMMA RollbackIsOwn ==
  ASSUME TypeOK, NEW q \in Requests, Active(q), Rollback(q)
  PROVE  OnlyActs(q)
BY SessionEnds DEF Rollback, Active, Goto, TypeOK, EndSession, OnlyActs

-------------------------------------------------------------------------------
(* What a step of one request means to the others                          *)

LEMMA CommittedGrows ==
  ASSUME TypeOK, NEW q \in Requests, OnlyActs(q)
  PROVE  Committed(reviews) \subseteq Committed(reviews)'
<1> SUFFICES ASSUME NEW r \in reviews, pc[r.by] = "committed"
             PROVE  r \in reviews' /\ pc'[r.by] = "committed"
  BY DEF Committed
<1>1. r.by \in Requests /\ r.by # q
  BY DEF TypeOK, Review, OnlyActs
<1>2. r \in {o \in reviews' : o.by # q}
  BY <1>1 DEF OnlyActs
<1> QED
  BY <1>1, <1>2 DEF OnlyActs

LEMMA HeldGrows ==
  ASSUME NEW D, NEW E, D \subseteq E, NEW v
  PROVE  Held(v, D) \subseteq Held(v, E)
BY DEF Held

(* All that the invariant says of o.                                       *)
IsLeftAlone(o) ==
  /\ pc'[o] = pc[o] /\ job'[o] = job[o] /\ work'[o] = work[o]
  /\ mine'[o] = mine[o] /\ locks'[o] = locks[o]
  /\ OwnReviews(o)' = OwnReviews(o)
  /\ {p \in patches : p.by = o}' = {p \in patches : p.by = o}
  /\ {a \in audit : a.by = o}' = {a \in audit : a.by = o}
  /\ EntriesOf(o, "review")' = EntriesOf(o, "review")
  /\ EntriesOf(o, "patch.generated")' = EntriesOf(o, "patch.generated")
  /\ Committed(reviews) \subseteq Committed(reviews)'

LEMMA OthersAreLeftAlone ==
  ASSUME TypeOK, NEW q \in Requests, OnlyActs(q), NEW o \in Requests \ {q}
  PROVE  IsLeftAlone(o)
<1>1. /\ \A r : r.by # q => (r \in reviews' <=> r \in reviews)
      /\ \A p : p.by # q => (p \in patches' <=> p \in patches)
      /\ \A a : a.by # q => (a \in audit' <=> a \in audit)
  <2>1. ASSUME NEW r, r.by # q PROVE r \in reviews' <=> r \in reviews
    <3>1. r \in {x \in reviews' : x.by # q} <=> r \in {x \in reviews : x.by # q}
      BY DEF OnlyActs
    <3> QED
      BY <2>1, <3>1
  <2>2. ASSUME NEW p, p.by # q PROVE p \in patches' <=> p \in patches
    <3>1. p \in {x \in patches' : x.by # q} <=> p \in {x \in patches : x.by # q}
      BY DEF OnlyActs
    <3> QED
      BY <2>2, <3>1
  <2>3. ASSUME NEW a, a.by # q PROVE a \in audit' <=> a \in audit
    <3>1. a \in {x \in audit' : x.by # q} <=> a \in {x \in audit : x.by # q}
      BY DEF OnlyActs
    <3> QED
      BY <2>3, <3>1
  <2> QED
    BY <2>1, <2>2, <2>3
<1>2. /\ OwnReviews(o)' = OwnReviews(o)
      /\ {p \in patches : p.by = o}' = {p \in patches : p.by = o}
      /\ {a \in audit : a.by = o}' = {a \in audit : a.by = o}
      /\ EntriesOf(o, "review")' = EntriesOf(o, "review")
      /\ EntriesOf(o, "patch.generated")' = EntriesOf(o, "patch.generated")
  BY <1>1 DEF OwnReviews, EntriesOf
<1> QED
  BY <1>2, CommittedGrows DEF OnlyActs, IsLeftAlone

LEMMA OthersKeep ==
  ASSUME TypeOK, NEW o \in Requests, IsLeftAlone(o), SessionInv(o)
  PROVE  SessionInv(o)'
<1>1. /\ pc'[o] = pc[o] /\ job'[o] = job[o] /\ work'[o] = work[o]
      /\ mine'[o] = mine[o] /\ locks'[o] = locks[o]
  BY DEF IsLeftAlone
<1>2. /\ Current(o)' = Current(o) /\ Item(o)' = Item(o)
      /\ Reviewing(o)' = Reviewing(o) /\ Active(o)' = Active(o)
      /\ ItemIsReviewed(o)' = ItemIsReviewed(o)
  BY <1>1 DEF Current, Item, Reviewing, Active, ItemIsReviewed
<1>3. /\ OwnReviews(o)' = OwnReviews(o)
      /\ {p \in patches : p.by = o}' = {p \in patches : p.by = o}
      /\ {a \in audit : a.by = o}' = {a \in audit : a.by = o}
      /\ EntriesOf(o, "review")' = EntriesOf(o, "review")
      /\ EntriesOf(o, "patch.generated")' = EntriesOf(o, "patch.generated")
  BY DEF IsLeftAlone
<1>4. \A r \in OwnReviews(o) : IsCurrent(r)' = IsCurrent(r)
  BY <1>2 DEF OwnReviews, IsCurrent
<1>5. HandlerIsOnItsWay(o)'
  BY <1>1, <1>2 DEF SessionInv, HandlerIsOnItsWay
<1>6. ReviewsFollowItems(o)'
  <2>1. ReviewsFollowItems(o)
    BY DEF SessionInv
  <2>2. \A r \in OwnReviews(o) : IsCurrent(r)' =>
          /\ r.violation = Current(o)' /\ r.action = job'[o].action
          /\ pc'[o] = "update" => r.old = mine'[o][Current(o)'].status
    BY <1>1, <1>2, <1>4, <2>1 DEF ReviewsFollowItems
  <2>3. ItemIsReviewed(o)' => \E r \in OwnReviews(o) : IsCurrent(r)'
    BY <1>2, <1>4, <2>1 DEF ReviewsFollowItems
  <2>4. \A r \in OwnReviews(o) :
          /\ pc'[o] \in {"get", "insert"} => r.item < Item(o)'
          /\ ItemIsReviewed(o)' => r.item <= Item(o)'
    BY <1>1, <1>2, <2>1 DEF ReviewsFollowItems
  <2>5. \A r, s \in OwnReviews(o) : r.item = s.item => r = s
    BY <2>1 DEF ReviewsFollowItems
  <2>6. /\ pc'[o] \in {"idle", "refused"} => {a \in audit : a.by = o}' = {}
        /\ pc'[o] \in {"idle", "refused"} \/ ~Reviewing(o)' =>
             /\ OwnReviews(o)' = {} /\ {p \in patches : p.by = o}' = {}
             /\ EntriesOf(o, "review")' = {} /\ EntriesOf(o, "patch.generated")' = {}
    BY <1>1, <1>2, <1>3, <2>1 DEF ReviewsFollowItems
  <2>7. \A r \in OwnReviews(o) : r.new = ACTION_TO_STATUS[r.action]
    BY <2>1 DEF ReviewsFollowItems
  <2> QED
    BY <1>3, <2>2, <2>3, <2>4, <2>5, <2>6, <2>7 DEF ReviewsFollowItems
<1>7. TrailFollowsReviews(o)'
  <2>1. TrailFollowsReviews(o)
    BY DEF SessionInv
  <2>2. {r \in OwnReviews(o) : ~(IsCurrent(r) /\ pc[o] \in {"update", "audit"})}'
        = {r \in OwnReviews(o) : ~(IsCurrent(r) /\ pc[o] \in {"update", "audit"})}
    BY <1>1, <1>3, <1>4
  <2>3. \A p : p \in patches' /\ p.by = o <=> p \in patches /\ p.by = o
    BY <1>3
  <2> QED
    BY <1>1, <1>3, <2>1, <2>2, <2>3 DEF TrailFollowsReviews
<1>8. LocksAreDecisions(o)'
  <2>1. LocksAreDecisions(o)
    BY DEF SessionInv
  <2>2. ASSUME NEW v \in Violations
        PROVE  /\ <<"status", v>> \in locks'[o] =>
                    /\ mine'[o][v] # None
                    /\ \E r \in OwnReviews(o) : r.violation = v /\ r.new = mine'[o][v].status
               /\ <<"assignee", v>> \in locks'[o] =>
                    mine'[o][v] # None /\ job'[o].kind = "assign"
    BY <1>1, <2>1 DEF LocksAreDecisions
  <2> QED
    BY <1>3, <2>2 DEF LocksAreDecisions
<1>9. SessionHoldsHistory(o)'
  <2>1. SessionHoldsHistory(o)
    BY DEF SessionInv
  <2>2. Committed(reviews) \subseteq Committed(reviews)'
    BY DEF IsLeftAlone
  <2>3. ASSUME NEW v \in Violations, mine'[o][v] # None, <<"status", v>> \notin locks'[o]
        PROVE  mine'[o][v].status \in Held(v, Committed(reviews)')
    BY <1>1, <2>1, <2>2, <2>3, HeldGrows DEF SessionHoldsHistory
  <2>4. ASSUME NEW r \in OwnReviews(o)
        PROVE  /\ r.old \in Held(r.violation, Committed(reviews)' \cup OwnReviews(o))
               /\ Active(o)' =>
                    /\ mine'[o][r.violation] # None
                    /\ ~(IsCurrent(r)' /\ pc'[o] = "update") =>
                         mine'[o][r.violation].status # "open"
    <3>1. Held(r.violation, Committed(reviews) \cup OwnReviews(o))
          \subseteq Held(r.violation, Committed(reviews)' \cup OwnReviews(o))
      BY <2>2, HeldGrows
    <3> QED
      BY <1>1, <1>2, <1>4, <2>1, <3>1 DEF SessionHoldsHistory
  <2> QED
    BY <1>3, <2>3, <2>4 DEF SessionHoldsHistory
<1> QED
  BY <1>5, <1>6, <1>7, <1>8, <1>9 DEF SessionInv


-------------------------------------------------------------------------------
(* What a step of a request means to its own handler                       *)

LEMMA LoopGoesOn ==
  ASSUME TypeOK, NEW q \in Requests, HandlerIsOnItsWay(q), pc[q] \in LoopSteps \cup {"mark"},
         NextItem(q), job' = job
  PROVE  /\ HandlerIsOnItsWay(q)'
         /\ pc'[q] \in {"get", "mark", "list_patches", "summary", "commit"}
         /\ pc'[q] = "get" => pc[q] \in LoopSteps /\ Item(q)' = Item(q) + 1
<1>1. /\ job[q] \in Jobs /\ work[q] # <<>>
      /\ pc[q] \in LoopSteps => work[q] \in Seq(Ids) /\ Len(work[q]) <= Len(job[q].ids)
      /\ pc[q] = "mark" => work[q] \in Seq(Requests \cup {None})
  BY DEF HandlerIsOnItsWay, LoopSteps, ItemSteps
<1>2. /\ job[q].kind \in {"review", "skip", "assign", "bulk_export", "export"}
      /\ job[q].ids \in Seq(Ids)
  BY <1>1, JobFacts
<1>3. /\ work'[q] = Tail(work[q])
      /\ Len(work[q]) \in Nat /\ Len(work[q]) >= 1
      /\ Len(work'[q]) = Len(work[q]) - 1
      /\ \/ pc'[q] = FirstStep(q) /\ work'[q] # <<>>
         \/ pc'[q] = AfterLoop(q) /\ work'[q] = <<>>
  BY <1>1, NextItemMoves DEF TypeOK
<1>4. Len(job[q].ids) \in Nat
  BY <1>2
<1>5. CASE pc'[q] = FirstStep(q) /\ work'[q] # <<>> /\ pc[q] \in LoopSteps
  <2>1. pc'[q] = "get" /\ work'[q] \in Seq(Ids)
    BY <1>1, <1>3, <1>5 DEF FirstStep, At, LoopSteps, ItemSteps
  <2>2. Item(q)' = Item(q) + 1
    <3>1. /\ Item(q) = 1 + Len(job[q].ids) - Len(work[q])
          /\ Item(q)' = 1 + Len(job[q].ids) - Len(work'[q])
      BY DEF Item
    <3>2. Len(work'[q]) = Len(work[q]) - 1 /\ Len(work[q]) \in Nat /\ Len(job[q].ids) \in Nat
      BY <1>3, <1>4
    <3>3. \A a, b, c \in Int : c = b - 1 => 1 + a - c = (1 + a - b) + 1
      OBVIOUS
    <3> QED
      BY <3>1, <3>2, <3>3
  <2> QED
    BY <2>1, <2>2, <1>1, <1>3, <1>4, <1>5 DEF HandlerIsOnItsWay, ItemSteps, Active
<1>6. CASE pc'[q] = FirstStep(q) /\ work'[q] # <<>> /\ pc[q] = "mark"
  <2>1. pc'[q] = "mark" /\ work'[q] \in Seq(Requests \cup {None})
    BY <1>1, <1>3, <1>6 DEF FirstStep, At
  <2> QED
    BY <2>1, <1>1, <1>6 DEF HandlerIsOnItsWay, LoopSteps, ItemSteps, Active
<1>7. CASE pc'[q] = AfterLoop(q)
  <2>1. /\ pc'[q] \in {"commit", "list_patches", "summary"}
        /\ pc'[q] = "list_patches" => job[q].kind = "bulk_export"
        /\ pc'[q] = "summary" => job[q].kind \notin {"review", "export"}
    BY <1>7 DEF AfterLoop
  <2> QED
    BY <2>1, <1>1, <1>2 DEF HandlerIsOnItsWay, LoopSteps, ItemSteps, Active
<1> QED
  BY <1>3, <1>5, <1>6, <1>7

LEMMA FlushGoesOn ==
  ASSUME TypeOK, TimesAreDistinct, NEW q \in Requests, HandlerIsOnItsWay(q), FlushStep(q)
  PROVE  HandlerIsOnItsWay(q)'
<1>1. CASE Get(q)
  <2>1. pc[q] = "get" /\ pc[q] \in LoopSteps /\ job' = job
    BY <1>1 DEF Get, At, LoopSteps
  <2>2. /\ job[q] \in Jobs /\ work[q] \in Seq(Ids) /\ work[q] # <<>>
        /\ job[q].kind \in {"review", "skip", "assign", "bulk_export"}
    BY <1>1, <2>1, ItemInHand, JobFacts DEF Get
  <2>3. CASE NextItem(q)
    BY <2>1, <2>3, LoopGoesOn
  <2>4. CASE /\ pc'[q] \in {"insert", "assign"}
             /\ pc'[q] = "insert" => Reviewing(q)
             /\ pc'[q] = "assign" => job[q].kind = "assign"
             /\ UNCHANGED work
    <3>2. Current(q)' = Current(q) /\ Reviewing(q)' = Reviewing(q) /\ work'[q] = work[q]
      BY <2>1, <2>4 DEF Current, Reviewing
    <3>3. mine'[q][Current(q)] \in Row /\ Current(q) \in Violations
      BY <1>1, GetReads
    <3>4. mine'[q][Current(q)] # None
      BY <3>3, NoneIsNothing
    <3> QED
      BY <3>2, <3>3, <3>4, <2>1, <2>2, <2>4
         DEF HandlerIsOnItsWay, LoopSteps, ItemSteps, Active
  <2>5. CASE Reviewing(q)
    <3>1. pc'[q] = "insert" /\ UNCHANGED work
      BY <1>1, <2>5 DEF Get, Reviewing, Goto, TypeOK
    <3> QED
      BY <3>1, <2>4, <2>5
  <2>6. CASE job[q].kind = "assign"
    <3>1. pc'[q] = "assign" /\ UNCHANGED work
      BY <1>1, <2>6 DEF Get, Reviewing, Goto, TypeOK
    <3> QED
      BY <3>1, <2>4, <2>6
  <2>7. CASE job[q].kind = "bulk_export"
    BY <1>1, <2>3, <2>7 DEF Get, Reviewing
  <2> QED
    BY <2>2, <2>5, <2>6, <2>7 DEF Reviewing
<1>2. CASE PassMissing(q)
  <2>1. pc[q] \in LoopSteps /\ NextItem(q) /\ job' = job
    BY <1>2 DEF PassMissing, GetMissing, At, LoopSteps
  <2> QED
    BY <2>1, LoopGoesOn
<1>3. CASE InsertReview(q)
  <2>1. pc'[q] = "update" /\ pc[q] = "insert" /\ UNCHANGED <<job, work, mine, locks>>
    BY <1>3 DEF InsertReview, At, Goto, TypeOK, session
  <2> QED
    BY <2>1 DEF HandlerIsOnItsWay, LoopSteps, ItemSteps, Active, Current, Reviewing
<1>4. CASE UpdateStatus(q)
  <2>1. pc'[q] = "audit" /\ pc[q] = "update" /\ UNCHANGED <<job, work>>
    BY <1>4 DEF UpdateStatus, At, Goto, TypeOK
  <2>2. mine'[q][Current(q)] # None
    BY <1>4, UpdateStatusWrites
  <2> QED
    BY <2>1, <2>2 DEF HandlerIsOnItsWay, LoopSteps, ItemSteps, Active, Current, Reviewing
<1>5. CASE AuditReview(q)
  <2>1. pc[q] = "audit" /\ UNCHANGED <<job, mine, locks>>
    BY <1>5 DEF AuditReview, At
  <2>2. CASE NextItem(q)
    BY <2>1, <2>2, LoopGoesOn DEF LoopSteps, ItemSteps
  <2>3. CASE job[q].action \in ACTIONS_GENERATING_PATCHES /\ Goto(q, "patch") /\ UNCHANGED work
    <3>1. pc'[q] = "patch"
      BY <2>3 DEF Goto, TypeOK
    <3> QED
      BY <3>1, <2>1, <2>3 DEF HandlerIsOnItsWay, LoopSteps, ItemSteps, Active, Current, Reviewing
  <2> QED
    BY <1>5, <2>2, <2>3 DEF AuditReview
<1>6. CASE AddPatch(q)
  <2>1. pc'[q] = "patch_audit" /\ pc[q] = "patch" /\ UNCHANGED <<job, work, mine, locks>>
    BY <1>6 DEF AddPatch, At, Goto, TypeOK, session
  <2> QED
    BY <2>1 DEF HandlerIsOnItsWay, LoopSteps, ItemSteps, Active, Current, Reviewing
<1>7. CASE AuditPatch(q)
  <2>1. pc[q] \in LoopSteps /\ NextItem(q) /\ job' = job
    BY <1>7 DEF AuditPatch, At, LoopSteps, ItemSteps
  <2> QED
    BY <2>1, LoopGoesOn
<1>8. CASE Assign(q)
  <2>1. pc[q] \in LoopSteps /\ NextItem(q) /\ job' = job
    BY <1>8 DEF Assign, At, LoopSteps, ItemSteps
  <2> QED
    BY <2>1, LoopGoesOn
<1>9. CASE ListPatches(q)
  <2>1. /\ pc[q] = "list_patches" /\ job' = job
        /\ pc'[q] = IF handled[q] = <<>> THEN "summary" ELSE "mark"
    BY <1>9 DEF ListPatches, At, Goto, TypeOK
  <2>2. work'[q] \in Seq(Requests \cup {None}) /\ (handled[q] = <<>> <=> work'[q] = <<>>)
    BY <1>9, ListPatchesKeepsTypes
  <2> QED
    BY <2>1, <2>2 DEF HandlerIsOnItsWay, LoopSteps, ItemSteps, Active
<1>10. CASE \E p \in Requests : GetPatch(q, p)
  <2>1. PICK p \in Requests : GetPatch(q, p)
    BY <1>10
  <2>2. /\ pc[q] = "get" /\ job[q].kind = "export" /\ job' = job
        /\ work'[q] = <<p>> /\ pc'[q] = "mark"
    BY <2>1 DEF GetPatch, At, Goto, TypeOK
  <2>3. <<p>> \in Seq(Requests \cup {None}) /\ <<p>> # <<>>
    OBVIOUS
  <2> QED
    BY <2>2, <2>3 DEF HandlerIsOnItsWay, LoopSteps, ItemSteps, Active
<1>11. CASE MarkExported(q)
  <2>1. pc[q] = "mark" /\ NextItem(q) /\ job' = job
    BY <1>11 DEF MarkExported, At
  <2> QED
    BY <2>1, LoopGoesOn
<1>12. CASE AuditBulk(q)
  <2>1. pc[q] = "summary" /\ pc'[q] = "commit" /\ job' = job
    BY <1>12 DEF AuditBulk, At, Goto, TypeOK
  <2> QED
    BY <2>1 DEF HandlerIsOnItsWay, LoopSteps, ItemSteps, Active
<1> QED
  BY <1>1, <1>2, <1>3, <1>4, <1>5, <1>6, <1>7, <1>8, <1>9, <1>10, <1>11, <1>12 DEF FlushStep


-------------------------------------------------------------------------------
(* What a step of a request means to its reviews and to the audit trail    *)

LedgersAgree(q) == ReviewsFollowItems(q) /\ TrailFollowsReviews(q)

(* A step that adds no review and no patch, from a step of the handler     *)
(* without a review in hand to another.                                    *)
LEMMA QuietKeepsLedgers ==
  ASSUME TypeOK, NEW q \in Requests, LedgersAgree(q),
         UNCHANGED <<job, reviews, patches>>,
         EntriesOf(q, "review")' = EntriesOf(q, "review"),
         EntriesOf(q, "patch.generated")' = EntriesOf(q, "patch.generated"),
         pc[q] \notin {"idle", "refused", "update", "audit", "patch", "patch_audit"},
         pc'[q] \notin {"idle", "refused", "update", "audit", "patch", "patch_audit"},
         Reviewing(q) /\ pc'[q] \in {"get", "insert"} =>
           /\ pc[q] \in {"get", "insert"} /\ Item(q) \in Nat
           /\ Item(q)' = Item(q) \/ Item(q)' = Item(q) + 1
  PROVE  LedgersAgree(q)'
<1>1. ~ItemIsReviewed(q) /\ ~ItemIsReviewed(q)' /\ Reviewing(q)' = Reviewing(q)
  BY DEF ItemIsReviewed, ItemSteps, Reviewing
<1>2. OwnReviews(q)' = OwnReviews(q)
  BY DEF OwnReviews
<1>3. \A r \in OwnReviews(q) : ~IsCurrent(r) /\ ~IsCurrent(r)'
  BY <1>1 DEF OwnReviews, IsCurrent
<1>4. ReviewsFollowItems(q)'
  <2>1. ReviewsFollowItems(q)
    BY DEF LedgersAgree
  <2>2. ASSUME NEW r \in OwnReviews(q), pc'[q] \in {"get", "insert"} PROVE r.item < Item(q)'
    <3>1. Reviewing(q)
      BY <2>1 DEF ReviewsFollowItems
    <3>2. r.item < Item(q) /\ Item(q) \in Nat
      BY <3>1, <2>1, <2>2 DEF ReviewsFollowItems
    <3>3. r.item \in Nat
      BY DEF OwnReviews, TypeOK, Review
    <3> QED
      BY <3>1, <3>2, <3>3, <2>2
  <2>3. ~Reviewing(q) =>
          /\ OwnReviews(q) = {} /\ {p \in patches : p.by = q} = {}
          /\ EntriesOf(q, "review") = {} /\ EntriesOf(q, "patch.generated") = {}
    BY <2>1 DEF ReviewsFollowItems
  <2>4. {p \in patches : p.by = q}' = {p \in patches : p.by = q}
    OBVIOUS
  <2>5. /\ \A r, o \in OwnReviews(q) : r.item = o.item => r = o
        /\ \A r \in OwnReviews(q) : r.new = ACTION_TO_STATUS[r.action]
    BY <2>1 DEF ReviewsFollowItems
  <2> QED
    BY <1>1, <1>2, <1>3, <2>2, <2>3, <2>4, <2>5 DEF ReviewsFollowItems
<1>5. TrailFollowsReviews(q)'
  <2>1. TrailFollowsReviews(q)
    BY DEF LedgersAgree
  <2>2. {r \in OwnReviews(q) : ~(IsCurrent(r) /\ pc[q] \in {"update", "audit"})}'
        = {r \in OwnReviews(q) : ~(IsCurrent(r) /\ pc[q] \in {"update", "audit"})}
    BY <1>2
  <2> QED
    BY <1>2, <2>1, <2>2 DEF TrailFollowsReviews
<1> QED
  BY <1>4, <1>5 DEF LedgersAgree

(* The entries of one action are left alone by an entry of another.        *)
LEMMA OtherEntries ==
  ASSUME NEW q \in Requests, NEW e, audit' = audit \cup {e}, NEW action, e.action # action
  PROVE  EntriesOf(q, action)' = EntriesOf(q, action)
BY DEF EntriesOf

LEMMA QuietStepsKeepLedgers ==
  ASSUME TypeOK, TimesAreDistinct, NEW q \in Requests, HandlerIsOnItsWay(q), LedgersAgree(q),
         \/ Get(q) \/ PassMissing(q) \/ Assign(q) \/ ListPatches(q)
         \/ \E p \in Requests : GetPatch(q, p)
         \/ MarkExported(q) \/ AuditBulk(q)
  PROVE  LedgersAgree(q)'
<1>1. CASE Get(q)
  <2>1. pc[q] = "get" /\ pc[q] \in LoopSteps /\ UNCHANGED <<job, reviews, patches, audit>>
    BY <1>1 DEF Get, At, LoopSteps, database
  <2>2. Item(q) \in Nat /\ job[q] \in Jobs
    BY <2>1, ItemInHand
  <2>3. job[q].kind \in {"review", "skip", "assign", "bulk_export"}
    BY <1>1, <2>2, JobFacts DEF Get
  <2>4. \/ pc'[q] \in {"insert", "assign"} /\ UNCHANGED work
        \/ NextItem(q)
    BY <1>1, <2>3 DEF Get, Reviewing, Goto, TypeOK
  <2>5. UNCHANGED work => Item(q)' = Item(q)
    BY <2>1 DEF Item
  <2>6. NextItem(q) => /\ pc'[q] \in {"get", "mark", "list_patches", "summary", "commit"}
                       /\ pc'[q] = "get" => Item(q)' = Item(q) + 1
    BY <2>1, LoopGoesOn
  <2>7. /\ EntriesOf(q, "review")' = EntriesOf(q, "review")
        /\ EntriesOf(q, "patch.generated")' = EntriesOf(q, "patch.generated")
    BY <2>1 DEF EntriesOf
  <2> QED
    BY <2>1, <2>2, <2>4, <2>5, <2>6, <2>7, QuietKeepsLedgers
<1>2. CASE PassMissing(q)
  <2>1. pc[q] = "get" /\ pc[q] \in LoopSteps /\ UNCHANGED <<job, reviews, patches, audit>>
        /\ NextItem(q)
    BY <1>2 DEF PassMissing, GetMissing, At, LoopSteps, database
  <2>2. Item(q) \in Nat
    BY <2>1, ItemInHand
  <2>3. /\ pc'[q] \in {"get", "mark", "list_patches", "summary", "commit"}
        /\ pc'[q] = "get" => Item(q)' = Item(q) + 1
    BY <2>1, LoopGoesOn
  <2>4. /\ EntriesOf(q, "review")' = EntriesOf(q, "review")
        /\ EntriesOf(q, "patch.generated")' = EntriesOf(q, "patch.generated")
    BY <2>1 DEF EntriesOf
  <2> QED
    BY <2>1, <2>2, <2>3, <2>4, QuietKeepsLedgers
<1>3. CASE Assign(q)
  <2>1. /\ pc[q] = "assign" /\ pc[q] \in LoopSteps /\ UNCHANGED <<job, reviews, patches>>
        /\ NextItem(q)
    BY <1>3 DEF Assign, At, LoopSteps
  <2>2. ~Reviewing(q)
    BY <2>1 DEF HandlerIsOnItsWay, Reviewing
  <2>3. pc'[q] \in {"get", "mark", "list_patches", "summary", "commit"}
    BY <2>1, LoopGoesOn
  <2>4. /\ EntriesOf(q, "review")' = EntriesOf(q, "review")
        /\ EntriesOf(q, "patch.generated")' = EntriesOf(q, "patch.generated")
    <3>1. PICK e : e = [by |-> q, item |-> Item(q), action |-> "assign_reviewer",
                        old |-> mine[q][Current(q)].assignee, new |-> job[q].to]
      OBVIOUS
    <3>2. audit' = audit \cup {e} /\ e.action = "assign_reviewer"
      BY <1>3, <3>1 DEF Assign
    <3> QED
      BY <3>2, OtherEntries
  <2> QED
    BY <2>1, <2>2, <2>3, <2>4, QuietKeepsLedgers
<1>4. CASE ListPatches(q) \/ (\E p \in Requests : GetPatch(q, p))
  <2>1. /\ pc[q] \in {"list_patches", "get"} /\ pc'[q] \in {"summary", "mark"}
        /\ UNCHANGED <<job, reviews, patches, audit>>
    BY <1>4 DEF ListPatches, GetPatch, At, Goto, TypeOK, database
  <2>2. /\ EntriesOf(q, "review")' = EntriesOf(q, "review")
        /\ EntriesOf(q, "patch.generated")' = EntriesOf(q, "patch.generated")
    BY <2>1 DEF EntriesOf
  <2> QED
    BY <2>1, <2>2, QuietKeepsLedgers
<1>5. CASE MarkExported(q)
  <2>1. /\ pc[q] = "mark" /\ UNCHANGED <<job, reviews, patches, audit>> /\ NextItem(q)
    BY <1>5 DEF MarkExported, At, database
  <2>2. ~Reviewing(q)
    BY <2>1 DEF HandlerIsOnItsWay, Reviewing
  <2>3. pc'[q] \in {"get", "mark", "list_patches", "summary", "commit"}
    BY <2>1, LoopGoesOn
  <2>4. /\ EntriesOf(q, "review")' = EntriesOf(q, "review")
        /\ EntriesOf(q, "patch.generated")' = EntriesOf(q, "patch.generated")
    BY <2>1 DEF EntriesOf
  <2> QED
    BY <2>1, <2>2, <2>3, <2>4, QuietKeepsLedgers
<1>6. CASE AuditBulk(q)
  <2>1. pc[q] = "summary" /\ pc'[q] = "commit" /\ UNCHANGED <<job, reviews, patches>>
    BY <1>6 DEF AuditBulk, At, Goto, TypeOK
  <2>2. job[q].kind \in {"skip", "assign", "bulk_export"}
    BY <2>1 DEF HandlerIsOnItsWay
  <2>3. /\ EntriesOf(q, "review")' = EntriesOf(q, "review")
        /\ EntriesOf(q, "patch.generated")' = EntriesOf(q, "patch.generated")
    <3>1. PICK e : e = [by |-> q, action |-> job[q].kind, listed |-> handled[q]]
      OBVIOUS
    <3>2. audit' = audit \cup {e} /\ e.action = job[q].kind
      BY <1>6, <3>1 DEF AuditBulk
    <3> QED
      BY <3>2, <2>2, OtherEntries
  <2> QED
    BY <2>1, <2>3, QuietKeepsLedgers
<1> QED
  BY <1>1, <1>2, <1>3, <1>4, <1>5, <1>6


LEMMA InsertReviewKeepsLedgers ==
  ASSUME TypeOK, NEW q \in Requests, HandlerIsOnItsWay(q), LedgersAgree(q), InsertReview(q)
  PROVE  LedgersAgree(q)'
<1>1. /\ pc[q] = "insert" /\ pc'[q] = "update" /\ Reviewing(q)
      /\ UNCHANGED <<job, work, mine, patches, audit>>
  BY DEF InsertReview, At, Goto, TypeOK, session, HandlerIsOnItsWay, ItemSteps
<1>2. /\ Item(q)' = Item(q) /\ Current(q)' = Current(q) /\ Reviewing(q)' = Reviewing(q)
      /\ Item(q) \in Nat
  BY <1>1, ItemInHand DEF Item, Current, Reviewing, ItemSteps, LoopSteps
<1>3. PICK new : new = [by |-> q, at |-> clock, item |-> Item(q), violation |-> Current(q),
                        action |-> job[q].action, old |-> mine[q][Current(q)].status,
                        new |-> ACTION_TO_STATUS[job[q].action]]
  OBVIOUS
<1>4. reviews' = reviews \cup {new}
  BY <1>3 DEF InsertReview
<1>5. OwnReviews(q)' = OwnReviews(q) \cup {new}
  BY <1>3, <1>4 DEF OwnReviews
<1>6. ItemIsReviewed(q)' /\ ~ItemIsReviewed(q)
  BY <1>1 DEF ItemIsReviewed, ItemSteps
<1>7. \A r \in OwnReviews(q) : r.item \in Nat /\ r.item < Item(q) /\ r.by = q
  BY <1>1 DEF LedgersAgree, ReviewsFollowItems, OwnReviews, TypeOK, Review
<1>8. \A r \in OwnReviews(q) : ~IsCurrent(r) /\ ~IsCurrent(r)'
  BY <1>2, <1>6, <1>7 DEF IsCurrent
<1>9. IsCurrent(new)'
  BY <1>2, <1>3, <1>6 DEF IsCurrent
<1>10. ReviewsFollowItems(q)'
  <2>1. ReviewsFollowItems(q)
    BY DEF LedgersAgree
  <2>2. /\ \A r, o \in OwnReviews(q) \cup {new} : r.item = o.item => r = o
        /\ \A r \in OwnReviews(q) \cup {new} : r.item <= Item(q)
    BY <1>2, <1>3, <1>7, <2>1 DEF ReviewsFollowItems
  <2>3. \A r \in OwnReviews(q) \cup {new} : r.new = ACTION_TO_STATUS[r.action]
    BY <1>3, <2>1 DEF ReviewsFollowItems
  <2>4. \A r \in OwnReviews(q) \cup {new} : IsCurrent(r)' =>
          /\ r.violation = Current(q)' /\ r.action = job'[q].action
          /\ pc'[q] = "update" => r.old = mine'[q][Current(q)'].status
    BY <1>1, <1>2, <1>3, <1>8
  <2> QED
    BY <1>1, <1>2, <1>5, <1>6, <1>9, <2>2, <2>3, <2>4 DEF ReviewsFollowItems
<1>11. TrailFollowsReviews(q)'
  <2>1. TrailFollowsReviews(q)
    BY DEF LedgersAgree
  <2>2. {r \in OwnReviews(q) : ~(IsCurrent(r) /\ pc[q] \in {"update", "audit"})}'
        = {r \in OwnReviews(q) : ~(IsCurrent(r) /\ pc[q] \in {"update", "audit"})}
    BY <1>1, <1>5, <1>8, <1>9
  <2>3. /\ EntriesOf(q, "review")' = EntriesOf(q, "review")
        /\ EntriesOf(q, "patch.generated")' = EntriesOf(q, "patch.generated")
    BY <1>1 DEF EntriesOf
  <2> QED
    BY <1>1, <1>5, <2>1, <2>2, <2>3 DEF TrailFollowsReviews
<1> QED
  BY <1>10, <1>11 DEF LedgersAgree

(* The item in hand has its review; the handler goes on with the item or   *)
(* leaves it.                                                              *)
LEMMA ItemStepKeepsReviews ==
  ASSUME TypeOK, NEW q \in Requests, HandlerIsOnItsWay(q), ReviewsFollowItems(q),
         ItemIsReviewed(q), UNCHANGED <<job, reviews>>,
         pc'[q] \notin {"idle", "refused", "insert", "update"},
         ItemIsReviewed(q)' => UNCHANGED work,
         pc'[q] = "get" => Item(q)' = Item(q) + 1
  PROVE  ReviewsFollowItems(q)'
<1>1. OwnReviews(q)' = OwnReviews(q)
  BY DEF OwnReviews
<1>2. Reviewing(q) /\ Reviewing(q)' /\ Item(q) \in Nat
  BY ItemInHand DEF HandlerIsOnItsWay, ItemIsReviewed, ItemSteps, LoopSteps, Reviewing
<1>3. ItemIsReviewed(q)' => Item(q)' = Item(q) /\ Current(q)' = Current(q)
  BY DEF Item, Current
<1>4. \A r \in OwnReviews(q) : IsCurrent(r)' => IsCurrent(r)
  BY <1>3 DEF IsCurrent, OwnReviews
<1>5. ItemIsReviewed(q)' => \E r \in OwnReviews(q) : IsCurrent(r)'
  BY <1>3 DEF ReviewsFollowItems, IsCurrent, OwnReviews
<1>6. ASSUME NEW r \in OwnReviews(q)
      PROVE  /\ pc'[q] \in {"get", "insert"} => r.item < Item(q)'
             /\ ItemIsReviewed(q)' => r.item <= Item(q)'
  <2>1. r.item \in Nat /\ r.item <= Item(q)
    BY DEF ReviewsFollowItems, OwnReviews, TypeOK, Review
  <2> QED
    BY <1>2, <1>3, <2>1
<1>7. \A r \in OwnReviews(q) : IsCurrent(r)' =>
        r.violation = Current(q)' /\ r.action = job'[q].action
  <2> SUFFICES ASSUME NEW r \in OwnReviews(q), IsCurrent(r)'
               PROVE  r.violation = Current(q)' /\ r.action = job'[q].action
    OBVIOUS
  <2>1. ItemIsReviewed(q)'
    BY DEF IsCurrent, OwnReviews
  <2> QED
    BY <1>3, <1>4, <2>1 DEF ReviewsFollowItems
<1>8. /\ \A r, o \in OwnReviews(q) : r.item = o.item => r = o
      /\ \A r \in OwnReviews(q) : r.new = ACTION_TO_STATUS[r.action]
  BY DEF ReviewsFollowItems
<1> QED
  BY <1>1, <1>2, <1>5, <1>6, <1>7, <1>8 DEF ReviewsFollowItems

LEMMA UpdateStatusKeepsLedgers ==
  ASSUME TypeOK, NEW q \in Requests, HandlerIsOnItsWay(q), LedgersAgree(q), UpdateStatus(q)
  PROVE  LedgersAgree(q)'
<1>1. /\ pc[q] = "update" /\ pc'[q] = "audit"
      /\ UNCHANGED <<job, work, reviews, patches, audit>>
  BY DEF UpdateStatus, At, Goto, TypeOK, database
<1>2. /\ Item(q)' = Item(q) /\ Current(q)' = Current(q) /\ Reviewing(q)' = Reviewing(q)
      /\ ItemIsReviewed(q)' /\ ItemIsReviewed(q)
  BY <1>1 DEF Item, Current, Reviewing, ItemIsReviewed, ItemSteps
<1>3. OwnReviews(q)' = OwnReviews(q)
  BY <1>1 DEF OwnReviews
<1>4. \A r \in OwnReviews(q) : IsCurrent(r)' = IsCurrent(r)
  BY <1>2 DEF IsCurrent, OwnReviews
<1>5. ReviewsFollowItems(q)'
  BY <1>1, <1>2, ItemStepKeepsReviews DEF LedgersAgree
<1>6. TrailFollowsReviews(q)'
  <2>1. TrailFollowsReviews(q)
    BY DEF LedgersAgree
  <2>2. {r \in OwnReviews(q) : ~(IsCurrent(r) /\ pc[q] \in {"update", "audit"})}'
        = {r \in OwnReviews(q) : ~(IsCurrent(r) /\ pc[q] \in {"update", "audit"})}
    BY <1>1, <1>3, <1>4
  <2>3. /\ EntriesOf(q, "review")' = EntriesOf(q, "review")
        /\ EntriesOf(q, "patch.generated")' = EntriesOf(q, "patch.generated")
    BY <1>1 DEF EntriesOf
  <2> QED
    BY <1>1, <1>3, <2>1, <2>2, <2>3 DEF TrailFollowsReviews
<1> QED
  BY <1>5, <1>6 DEF LedgersAgree


LEMMA AuditReviewKeepsLedgers ==
  ASSUME TypeOK, NEW q \in Requests, HandlerIsOnItsWay(q), LedgersAgree(q), AuditReview(q)
  PROVE  LedgersAgree(q)'
<1>1. /\ pc[q] = "audit" /\ pc[q] \in LoopSteps /\ ItemIsReviewed(q)
      /\ UNCHANGED <<job, reviews, patches>>
  BY DEF AuditReview, At, ItemIsReviewed, ItemSteps, LoopSteps
<1>2. PICK r \in reviews :
        /\ r.by = q /\ r.item = Item(q)
        /\ audit' = audit \cup {[by |-> q, item |-> Item(q), action |-> "review",
                                 old |-> r.old, new |-> r.new]}
  BY DEF AuditReview
<1>3. \/ pc'[q] = "patch" /\ UNCHANGED work
      \/ NextItem(q)
  BY DEF AuditReview, Goto, TypeOK
<1>4. NextItem(q) => /\ pc'[q] \in {"get", "mark", "list_patches", "summary", "commit"}
                     /\ pc'[q] = "get" => Item(q)' = Item(q) + 1
  BY <1>1, LoopGoesOn
<1>5. /\ pc'[q] \in {"patch", "get", "mark", "list_patches", "summary", "commit"}
      /\ pc'[q] = "patch" => UNCHANGED work
      /\ pc'[q] = "get" => Item(q)' = Item(q) + 1
  BY <1>3, <1>4
<1>6. ReviewsFollowItems(q)'
  BY <1>1, <1>5, ItemStepKeepsReviews DEF LedgersAgree, ItemIsReviewed, ItemSteps
<1>7. TrailFollowsReviews(q)'
  <2>1. TrailFollowsReviews(q) /\ ReviewsFollowItems(q)
    BY DEF LedgersAgree
  <2>2. OwnReviews(q)' = OwnReviews(q) /\ r \in OwnReviews(q) /\ IsCurrent(r)
    BY <1>1, <1>2 DEF OwnReviews, IsCurrent
  <2>3. {o \in OwnReviews(q) : ~(IsCurrent(o) /\ pc[q] \in {"update", "audit"})}'
        = OwnReviews(q)
    BY <1>5, <2>2
  <2>4. {o \in OwnReviews(q) : ~(IsCurrent(o) /\ pc[q] \in {"update", "audit"})}
        = OwnReviews(q) \ {r}
    <3>1. \A o \in OwnReviews(q) : IsCurrent(o) => o = r
      BY <1>2, <2>1, <2>2 DEF IsCurrent, OwnReviews, ReviewsFollowItems
    <3> QED
      BY <1>1, <2>2, <3>1
  <2>5. EntriesOf(q, "review")' = EntriesOf(q, "review") \cup {Entry(r)}
    BY <1>2 DEF EntriesOf, Entry
  <2>6. EntriesOf(q, "patch.generated")' = EntriesOf(q, "patch.generated")
    BY <1>2 DEF EntriesOf
  <2>7. {Entry(o) : o \in OwnReviews(q)} = {Entry(o) : o \in OwnReviews(q) \ {r}} \cup {Entry(r)}
    BY <2>2
  <2> QED
    BY <1>1, <1>5, <2>1, <2>2, <2>3, <2>4, <2>5, <2>6, <2>7 DEF TrailFollowsReviews
<1> QED
  BY <1>6, <1>7 DEF LedgersAgree

LEMMA AddPatchKeepsLedgers ==
  ASSUME TypeOK, NEW q \in Requests, HandlerIsOnItsWay(q), LedgersAgree(q), AddPatch(q)
  PROVE  LedgersAgree(q)'
<1>1. /\ pc[q] = "patch" /\ pc'[q] = "patch_audit" /\ ItemIsReviewed(q)
      /\ UNCHANGED <<job, work, reviews, audit>>
  BY DEF AddPatch, At, Goto, TypeOK, session, ItemIsReviewed, ItemSteps
<1>2. ReviewsFollowItems(q)'
  BY <1>1, ItemStepKeepsReviews DEF LedgersAgree
<1>3. TrailFollowsReviews(q)'
  <2>1. TrailFollowsReviews(q) /\ ReviewsFollowItems(q)
    BY DEF LedgersAgree
  <2>2. PICK p : p = [by |-> q, at |-> clock, violation |-> Current(q)]
    OBVIOUS
  <2>3. patches' = patches \cup {p} /\ p.by = q /\ p.violation = Current(q)
    BY <2>2 DEF AddPatch
  <2>4. \E r \in OwnReviews(q) :
          r.violation = Current(q) /\ r.action \in ACTIONS_GENERATING_PATCHES
    BY <1>1, <2>1 DEF ReviewsFollowItems, HandlerIsOnItsWay
  <2>5. /\ OwnReviews(q)' = OwnReviews(q)
        /\ EntriesOf(q, "review")' = EntriesOf(q, "review")
    BY <1>1 DEF OwnReviews, EntriesOf
  <2>6. {r \in OwnReviews(q) : ~(IsCurrent(r) /\ pc[q] \in {"update", "audit"})}'
        = {r \in OwnReviews(q) : ~(IsCurrent(r) /\ pc[q] \in {"update", "audit"})}
    BY <1>1, <2>5
  <2> QED
    BY <1>1, <2>1, <2>3, <2>4, <2>5, <2>6 DEF TrailFollowsReviews
<1> QED
  BY <1>2, <1>3 DEF LedgersAgree

LEMMA AuditPatchKeepsLedgers ==
  ASSUME TypeOK, NEW q \in Requests, HandlerIsOnItsWay(q), LedgersAgree(q), AuditPatch(q)
  PROVE  LedgersAgree(q)'
<1>1. /\ pc[q] = "patch_audit" /\ pc[q] \in LoopSteps /\ ItemIsReviewed(q)
      /\ UNCHANGED <<job, reviews, patches>> /\ NextItem(q)
  BY DEF AuditPatch, At, ItemIsReviewed, ItemSteps, LoopSteps
<1>2. /\ pc'[q] \in {"get", "mark", "list_patches", "summary", "commit"}
      /\ pc'[q] = "get" => Item(q)' = Item(q) + 1
  BY <1>1, LoopGoesOn
<1>3. ReviewsFollowItems(q)'
  BY <1>1, <1>2, ItemStepKeepsReviews DEF LedgersAgree, ItemIsReviewed, ItemSteps
<1>4. TrailFollowsReviews(q)'
  <2>1. TrailFollowsReviews(q)
    BY DEF LedgersAgree
  <2>2. PICK e : e = [by |-> q, item |-> Item(q), action |-> "patch.generated"]
    OBVIOUS
  <2>3. audit' = audit \cup {e} /\ e.by = q /\ e.action = "patch.generated"
    BY <2>2 DEF AuditPatch
  <2>4. EntriesOf(q, "patch.generated")' # {}
    BY <2>3 DEF EntriesOf
  <2>5. EntriesOf(q, "review")' = EntriesOf(q, "review")
    BY <2>3, OtherEntries
  <2>6. OwnReviews(q)' = OwnReviews(q)
    BY <1>1 DEF OwnReviews
  <2>7. {r \in OwnReviews(q) : ~(IsCurrent(r) /\ pc[q] \in {"update", "audit"})}'
        = {r \in OwnReviews(q) : ~(IsCurrent(r) /\ pc[q] \in {"update", "audit"})}
    BY <1>1, <1>2, <2>6
  <2>8. \E p \in patches : p.by = q
    BY <1>1, <2>1 DEF TrailFollowsReviews
  <2> QED
    BY <1>1, <2>1, <2>4, <2>5, <2>6, <2>7, <2>8 DEF TrailFollowsReviews
<1> QED
  BY <1>3, <1>4 DEF LedgersAgree

LEMMA FlushKeepsLedgers ==
  ASSUME TypeOK, TimesAreDistinct, NEW q \in Requests, HandlerIsOnItsWay(q), LedgersAgree(q),
         FlushStep(q)
  PROVE  LedgersAgree(q)'
BY QuietStepsKeepLedgers, InsertReviewKeepsLedgers, UpdateStatusKeepsLedgers,
   AuditReviewKeepsLedgers, AddPatchKeepsLedgers, AuditPatchKeepsLedgers DEF FlushStep


-------------------------------------------------------------------------------
(* What a step of a request means to the rows in its session               *)

RowsAreJustified(q) == LocksAreDecisions(q) /\ SessionHoldsHistory(q)

(* A step that reads and writes no row of violations and adds no review.   *)
LEMMA QuietKeepsRows ==
  ASSUME TypeOK, NEW q \in Requests, OnlyActs(q), RowsAreJustified(q), Active(q),
         UNCHANGED <<job, reviews, mine>>, pc[q] # "update",
         \A l \in {"status", "assignee"} \X Violations : l \in locks'[q] <=> l \in locks[q]
  PROVE  RowsAreJustified(q)'
<1>1. OwnReviews(q)' = OwnReviews(q)
  BY DEF OwnReviews
<1>2. \A v \in Violations :
        /\ <<"status", v>> \in locks'[q] <=> <<"status", v>> \in locks[q]
        /\ <<"assignee", v>> \in locks'[q] <=> <<"assignee", v>> \in locks[q]
  OBVIOUS
<1>3. LocksAreDecisions(q)'
  BY <1>1, <1>2 DEF RowsAreJustified, LocksAreDecisions
<1>4. Committed(reviews) \subseteq Committed(reviews)'
  BY CommittedGrows
<1>5. SessionHoldsHistory(q)'
  <2>1. SessionHoldsHistory(q)
    BY DEF RowsAreJustified
  <2>2. ASSUME NEW v \in Violations, mine[q][v] # None, <<"status", v>> \notin locks'[q]
        PROVE  mine[q][v].status \in Held(v, Committed(reviews)')
    BY <1>2, <1>4, <2>1, <2>2, HeldGrows DEF SessionHoldsHistory
  <2>3. ASSUME NEW r \in OwnReviews(q)
        PROVE  /\ r.old \in Held(r.violation, Committed(reviews)' \cup OwnReviews(q))
               /\ mine[q][r.violation] # None /\ mine[q][r.violation].status # "open"
    <3>1. Held(r.violation, Committed(reviews) \cup OwnReviews(q))
          \subseteq Held(r.violation, Committed(reviews)' \cup OwnReviews(q))
      BY <1>4, HeldGrows
    <3> QED
      BY <2>1, <3>1 DEF SessionHoldsHistory
  <2> QED
    BY <1>1, <2>2, <2>3 DEF SessionHoldsHistory
<1> QED
  BY <1>3, <1>5 DEF RowsAreJustified

(* The status of a row is one its violation has had.                       *)
LEMMA StatusIsHeld ==
  ASSUME StatusIsDecided, NEW v \in Violations
  PROVE  row[v].status \in Held(v, Committed(reviews))
BY DEF StatusIsDecided, HistoryOf, Held

LEMMA GetKeepsRows ==
  ASSUME TypeOK, StatusIsDecided, NEW q \in Requests, OnlyActs(q), HandlerIsOnItsWay(q),
         RowsAreJustified(q), Get(q)
  PROVE  RowsAreJustified(q)'
<1>1. pc[q] = "get" /\ Active(q) /\ UNCHANGED <<job, reviews, locks, row>>
  BY DEF Get, At, Active, database
<1>2. /\ Current(q) \in Violations
      /\ mine'[q][Current(q)] \in Loaded(q, Current(q))
      /\ \A v \in Violations : v # Current(q) => mine'[q][v] = mine[q][v]
  BY GetReads
<1>3. \A v \in Violations : mine[q][v] # None =>
         \/ mine'[q][v] = mine[q][v]
         \/ mine'[q][v] = Saved(q, v)
  BY <1>2 DEF Loaded
<1>4. \A v \in Violations : mine[q][v] = None => mine'[q][v] = None \/ mine'[q][v] = row[v]
  BY <1>2 DEF Loaded
<1>9. ASSUME NEW v \in Violations, mine[q][v] # None
      PROVE  /\ mine'[q][v] # None
             /\ \/ mine'[q][v].status = mine[q][v].status
                \/ <<"status", v>> \notin locks[q] /\ mine'[q][v].status = row[v].status
  <2>1. CASE mine'[q][v] = mine[q][v]
    BY <1>9, <2>1
  <2>2. CASE mine'[q][v] = Saved(q, v)
    <3>1. Saved(q, v) \in Row
      <4>1. mine[q][v] \in Row /\ row[v] \in Row
        BY <1>9 DEF TypeOK
      <4> QED
        BY <4>1 DEF Saved, Row
    <3> QED
      BY <2>2, <3>1, NoneIsNothing DEF Saved
  <2> QED
    BY <1>3, <1>9, <2>1, <2>2
<1>5. OwnReviews(q)' = OwnReviews(q)
  BY <1>1 DEF OwnReviews
<1>6. LocksAreDecisions(q)'
  <2>1. LocksAreDecisions(q)
    BY DEF RowsAreJustified
  <2>2. ASSUME NEW v \in Violations
        PROVE  /\ <<"status", v>> \in locks[q] =>
                    /\ mine'[q][v] # None
                    /\ \E r \in OwnReviews(q) : r.violation = v /\ r.new = mine'[q][v].status
               /\ <<"assignee", v>> \in locks[q] => mine'[q][v] # None /\ job[q].kind = "assign"
    <3>1. ASSUME <<"status", v>> \in locks[q]
          PROVE  /\ mine'[q][v] # None
                 /\ \E r \in OwnReviews(q) : r.violation = v /\ r.new = mine'[q][v].status
      BY <1>9, <2>1, <3>1 DEF LocksAreDecisions
    <3>2. ASSUME <<"assignee", v>> \in locks[q]
          PROVE  mine'[q][v] # None /\ job[q].kind = "assign"
      BY <1>9, <2>1, <3>2 DEF LocksAreDecisions
    <3> QED
      BY <3>1, <3>2
  <2> QED
    BY <1>1, <1>5, <2>2 DEF LocksAreDecisions
<1>7. Committed(reviews) \subseteq Committed(reviews)'
  BY CommittedGrows
<1>8. SessionHoldsHistory(q)'
  <2>1. SessionHoldsHistory(q)
    BY DEF RowsAreJustified
  <2>2. ASSUME NEW v \in Violations, mine'[q][v] # None, <<"status", v>> \notin locks[q]
        PROVE  mine'[q][v].status \in Held(v, Committed(reviews)')
    <3>1. mine'[q][v].status \in Held(v, Committed(reviews))
      BY <1>4, <1>9, <2>1, <2>2, StatusIsHeld DEF SessionHoldsHistory
    <3> QED
      BY <1>7, <3>1, HeldGrows
  <2>3. ASSUME NEW r \in OwnReviews(q)
        PROVE  /\ r.old \in Held(r.violation, Committed(reviews)' \cup OwnReviews(q))
               /\ mine'[q][r.violation] # None /\ mine'[q][r.violation].status # "open"
    <3>1. Held(r.violation, Committed(reviews) \cup OwnReviews(q))
          \subseteq Held(r.violation, Committed(reviews)' \cup OwnReviews(q))
      BY <1>7, HeldGrows
    <3>2. r.violation \in Violations
      BY DEF OwnReviews, TypeOK, Review
    <3>3. mine[q][r.violation] # None /\ mine[q][r.violation].status # "open"
      BY <1>1, <2>1 DEF SessionHoldsHistory
    <3>4. ASSUME <<"status", r.violation>> \notin locks[q] PROVE row[r.violation].status # "open"
      <4>1. mine[q][r.violation].status \in Held(r.violation, Committed(reviews))
        BY <2>1, <3>2, <3>3, <3>4 DEF SessionHoldsHistory
      <4>2. HistoryOf(r.violation) # {}
        BY <3>3, <4>1 DEF Held, HistoryOf
      <4>3. \A o \in HistoryOf(r.violation) : o.new # "open"
        BY DEF HistoryOf, Committed, TypeOK, Review
      <4> QED
        BY <3>2, <4>2, <4>3 DEF StatusIsDecided
    <3> QED
      BY <1>9, <2>1, <3>1, <3>2, <3>3, <3>4 DEF SessionHoldsHistory
  <2> QED
    BY <1>1, <1>5, <2>2, <2>3 DEF SessionHoldsHistory
<1> QED
  BY <1>6, <1>8 DEF RowsAreJustified

LEMMA InsertReviewKeepsRows ==
  ASSUME TypeOK, NEW q \in Requests, OnlyActs(q), HandlerIsOnItsWay(q), LedgersAgree(q),
         RowsAreJustified(q), InsertReview(q)
  PROVE  RowsAreJustified(q)'
<1>1. /\ pc[q] = "insert" /\ pc'[q] = "update" /\ Active(q)
      /\ UNCHANGED <<job, work, mine, locks>>
  BY DEF InsertReview, At, Goto, TypeOK, session, Active
<1>2. PICK new : new = [by |-> q, at |-> clock, item |-> Item(q), violation |-> Current(q),
                        action |-> job[q].action, old |-> mine[q][Current(q)].status,
                        new |-> ACTION_TO_STATUS[job[q].action]]
  OBVIOUS
<1>3. reviews' = reviews \cup {new} /\ OwnReviews(q)' = OwnReviews(q) \cup {new}
  BY <1>2 DEF InsertReview, OwnReviews
<1>4. Current(q) \in Violations /\ mine[q][Current(q)] # None
  BY <1>1, ItemInHand, NoneIsNothing DEF ItemSteps, LoopSteps
<1>5. Committed(reviews) \subseteq Committed(reviews)'
  BY CommittedGrows
<1>6. LocksAreDecisions(q)'
  BY <1>1, <1>3 DEF RowsAreJustified, LocksAreDecisions
<1>7. SessionHoldsHistory(q)'
  <2>1. SessionHoldsHistory(q) /\ LocksAreDecisions(q)
    BY DEF RowsAreJustified
  <2>2. \A v : /\ Held(v, Committed(reviews)) \subseteq Held(v, Committed(reviews)')
               /\ Held(v, Committed(reviews) \cup OwnReviews(q))
                    \subseteq Held(v, Committed(reviews)' \cup OwnReviews(q)')
    BY <1>3, <1>5 DEF Held
  <2>3. new.old \in Held(Current(q), Committed(reviews) \cup OwnReviews(q))
    <3>1. CASE <<"status", Current(q)>> \in locks[q]
      BY <1>2, <1>4, <2>1, <3>1 DEF LocksAreDecisions, Held
    <3>2. CASE <<"status", Current(q)>> \notin locks[q]
      BY <1>2, <1>4, <2>1, <3>2 DEF SessionHoldsHistory, Held
    <3> QED
      BY <3>1, <3>2
  <2>4. \A r \in OwnReviews(q) :
          /\ r.old \in Held(r.violation, Committed(reviews) \cup OwnReviews(q))
          /\ mine[q][r.violation] # None /\ mine[q][r.violation].status # "open"
    BY <1>1, <2>1 DEF SessionHoldsHistory
  <2>5. IsCurrent(new)'
    BY <1>1, <1>2 DEF IsCurrent, ItemIsReviewed, ItemSteps, Item
  <2>6. ASSUME NEW r \in OwnReviews(q) \cup {new}
        PROVE  /\ r.old \in Held(r.violation, Committed(reviews)' \cup OwnReviews(q)')
               /\ mine[q][r.violation] # None
               /\ ~IsCurrent(r)' => mine[q][r.violation].status # "open"
    <3>1. CASE r = new
      BY <1>2, <1>4, <2>2, <2>3, <2>5, <3>1
    <3>2. CASE r \in OwnReviews(q)
      BY <2>2, <2>4, <3>2
    <3> QED
      BY <3>1, <3>2
  <2>7. \A v \in Violations : mine[q][v] # None /\ <<"status", v>> \notin locks[q] =>
          mine[q][v].status \in Held(v, Committed(reviews)')
    BY <2>1, <2>2 DEF SessionHoldsHistory
  <2> QED
    BY <1>1, <1>3, <2>6, <2>7 DEF SessionHoldsHistory
<1> QED
  BY <1>6, <1>7 DEF RowsAreJustified


LEMMA UpdateStatusKeepsRows ==
  ASSUME TypeOK, NEW q \in Requests, OnlyActs(q), HandlerIsOnItsWay(q), LedgersAgree(q),
         RowsAreJustified(q), UpdateStatus(q)
  PROVE  RowsAreJustified(q)'
<1>1. /\ pc[q] = "update" /\ pc'[q] = "audit" /\ ItemIsReviewed(q)
      /\ UNCHANGED <<job, work, reviews>> /\ TakeLocks(q)
  BY DEF UpdateStatus, At, Goto, TypeOK, database, ItemIsReviewed, ItemSteps
<1> DEFINE new == ACTION_TO_STATUS[job[q].action]
<1>2. /\ Current(q) \in Violations
      /\ mine'[q][Current(q)] # None /\ mine'[q][Current(q)].status = new
      /\ \A v \in Violations : v # Current(q) => mine'[q][v] = mine[q][v]
  BY UpdateStatusWrites
<1>3. new # "open"
  BY <1>1, ItemInHand, ActionsDecide DEF ItemSteps, LoopSteps
<1>4. mine[q][Current(q)] # None
  BY <1>1 DEF HandlerIsOnItsWay, ItemSteps
<1>5. locks'[q] = locks[q] \cup
        (IF mine[q][Current(q)].status # new THEN {<<"status", Current(q)>>} ELSE {})
  BY <1>1, LocksAreTyped, WantedIsLockable
<1>6. PICK r \in OwnReviews(q) : IsCurrent(r)
  BY <1>1 DEF LedgersAgree, ReviewsFollowItems
<1>7. r.violation = Current(q) /\ r.new = new
  BY <1>6 DEF LedgersAgree, ReviewsFollowItems
<1>8. OwnReviews(q)' = OwnReviews(q)
  BY <1>1 DEF OwnReviews
<1> HIDE DEF new
<1>9. LocksAreDecisions(q)'
  <2>1. LocksAreDecisions(q)
    BY DEF RowsAreJustified
  <2>2. ASSUME NEW v \in Violations, <<"status", v>> \in locks'[q]
        PROVE  /\ mine'[q][v] # None
               /\ \E o \in OwnReviews(q) : o.violation = v /\ o.new = mine'[q][v].status
    <3>1. CASE v = Current(q)
      BY <1>2, <1>7, <3>1
    <3>2. CASE v # Current(q)
      <4>1. <<"status", v>> \in locks[q]
        BY <1>5, <2>2, <3>2
      <4> QED
        BY <1>2, <2>1, <3>2, <4>1 DEF LocksAreDecisions
    <3> QED
      BY <3>1, <3>2
  <2>3. ASSUME NEW v \in Violations, <<"assignee", v>> \in locks'[q]
        PROVE  mine'[q][v] # None /\ job[q].kind = "assign"
    <3>1. <<"assignee", v>> \in locks[q]
      BY <1>5, <2>3
    <3> QED
      BY <1>2, <2>1, <3>1 DEF LocksAreDecisions
  <2> QED
    BY <1>1, <1>8, <2>2, <2>3 DEF LocksAreDecisions
<1>10. Committed(reviews) \subseteq Committed(reviews)'
  BY CommittedGrows
<1>11. SessionHoldsHistory(q)'
  <2>1. SessionHoldsHistory(q)
    BY DEF RowsAreJustified
  <2>2. ASSUME NEW v \in Violations, mine'[q][v] # None, <<"status", v>> \notin locks'[q]
        PROVE  mine'[q][v].status \in Held(v, Committed(reviews)')
    <3>1. mine[q][v] # None /\ mine'[q][v].status = mine[q][v].status
      BY <1>2, <1>4, <1>5, <2>2
    <3>2. mine[q][v].status \in Held(v, Committed(reviews))
      BY <1>5, <2>1, <2>2, <3>1 DEF SessionHoldsHistory
    <3> QED
      BY <1>10, <3>1, <3>2, HeldGrows
  <2>3. ASSUME NEW o \in OwnReviews(q)
        PROVE  /\ o.old \in Held(o.violation, Committed(reviews)' \cup OwnReviews(q))
               /\ mine'[q][o.violation] # None /\ mine'[q][o.violation].status # "open"
    <3>1. Held(o.violation, Committed(reviews) \cup OwnReviews(q))
          \subseteq Held(o.violation, Committed(reviews)' \cup OwnReviews(q))
      BY <1>10, HeldGrows
    <3>2. o.violation \in Violations
      BY DEF OwnReviews, TypeOK, Review
    <3>3. CASE o.violation = Current(q)
      BY <1>2, <1>3, <2>1, <3>1, <3>3 DEF SessionHoldsHistory
    <3>4. CASE o.violation # Current(q)
      <4>1. ~IsCurrent(o)
        BY <3>4 DEF LedgersAgree, ReviewsFollowItems
      <4>2. Active(q)
        BY <1>1 DEF Active
      <4> QED
        BY <1>2, <2>1, <3>1, <3>2, <3>4, <4>1, <4>2 DEF SessionHoldsHistory
    <3> QED
      BY <3>3, <3>4
  <2> QED
    BY <1>1, <1>8, <2>2, <2>3 DEF SessionHoldsHistory
<1> QED
  BY <1>9, <1>11 DEF RowsAreJustified

LEMMA AssignKeepsRows ==
  ASSUME TypeOK, NEW q \in Requests, OnlyActs(q), HandlerIsOnItsWay(q), LedgersAgree(q),
         RowsAreJustified(q), Assign(q)
  PROVE  RowsAreJustified(q)'
<1>1. /\ pc[q] = "assign" /\ job[q].kind = "assign"
      /\ UNCHANGED <<job, reviews>> /\ TakeLocks(q)
  BY DEF Assign, At, HandlerIsOnItsWay
<1>2. OwnReviews(q)' = OwnReviews(q) /\ OwnReviews(q) = {}
  BY <1>1 DEF OwnReviews, LedgersAgree, ReviewsFollowItems, Reviewing
<1>3. /\ Current(q) \in Violations /\ mine[q][Current(q)] # None
      /\ mine'[q][Current(q)] # None
      /\ mine'[q][Current(q)].status = mine[q][Current(q)].status
      /\ \A v \in Violations : v # Current(q) => mine'[q][v] = mine[q][v]
  BY AssignWrites, NoneIsNothing
<1>4. /\ locks[q] \subseteq locks'[q]
      /\ locks'[q] \subseteq locks[q] \cup {<<"assignee", Current(q)>>}
  BY <1>1, LocksAreTyped, WantedIsLockable
<1>5. \A v \in Violations : <<"status", v>> \notin locks[q] /\ <<"status", v>> \notin locks'[q]
  BY <1>2, <1>4 DEF RowsAreJustified, LocksAreDecisions
<1>6. LocksAreDecisions(q)'
  <2>1. LocksAreDecisions(q)
    BY DEF RowsAreJustified
  <2>2. ASSUME NEW v \in Violations, <<"assignee", v>> \in locks'[q] PROVE mine'[q][v] # None
    BY <1>3, <1>4, <2>1, <2>2 DEF LocksAreDecisions
  <2> QED
    BY <1>1, <1>5, <2>2 DEF LocksAreDecisions
<1>7. Committed(reviews) \subseteq Committed(reviews)'
  BY CommittedGrows
<1>8. SessionHoldsHistory(q)'
  <2>1. SessionHoldsHistory(q)
    BY DEF RowsAreJustified
  <2>2. ASSUME NEW v \in Violations, mine'[q][v] # None
        PROVE  mine'[q][v].status \in Held(v, Committed(reviews)')
    <3>1. mine[q][v] # None /\ mine'[q][v].status = mine[q][v].status
      BY <1>3, <2>2
    <3>2. mine[q][v].status \in Held(v, Committed(reviews))
      BY <1>5, <2>1, <3>1 DEF SessionHoldsHistory
    <3> QED
      BY <1>7, <3>1, <3>2, HeldGrows
  <2> QED
    BY <1>2, <2>2 DEF SessionHoldsHistory
<1> QED
  BY <1>6, <1>8 DEF RowsAreJustified

LEMMA FlushKeepsRows ==
  ASSUME TypeOK, StatusIsDecided, NEW q \in Requests, OnlyActs(q), HandlerIsOnItsWay(q),
         LedgersAgree(q), RowsAreJustified(q), FlushStep(q)
  PROVE  RowsAreJustified(q)'
<1>1. CASE \/ PassMissing(q) \/ AuditReview(q) \/ AddPatch(q) \/ AuditPatch(q) \/ ListPatches(q)
           \/ (\E p \in Requests : GetPatch(q, p)) \/ AuditBulk(q)
  <2>1. UNCHANGED <<job, mine, locks>>
    BY <1>1
       DEF PassMissing, GetMissing, AuditReview, AddPatch, AuditPatch, ListPatches, GetPatch,
           AuditBulk, session
  <2>2. UNCHANGED reviews
    BY <1>1
       DEF PassMissing, GetMissing, AuditReview, AddPatch, AuditPatch, ListPatches, GetPatch,
           AuditBulk, database
  <2>3. pc[q] # "update" /\ Active(q)
    BY <1>1
       DEF PassMissing, GetMissing, AuditReview, AddPatch, AuditPatch, ListPatches, GetPatch,
           AuditBulk, At, Active
  <2> QED
    BY <2>1, <2>2, <2>3, QuietKeepsRows
<1>2. CASE MarkExported(q)
  <2>1. /\ UNCHANGED <<job, reviews, mine>> /\ TakeLocks(q)
        /\ pc[q] = "mark" /\ Active(q)
    BY <1>2 DEF MarkExported, At, Active, database
  <2>2. /\ locks[q] \subseteq locks'[q]
        /\ locks'[q] \subseteq locks[q] \cup {<<"patch", Current(q)>>}
    BY <2>1, LocksAreTyped, WantedIsLockable
  <2>3. \A l \in {"status", "assignee"} \X Violations : l # <<"patch", Current(q)>>
    OBVIOUS
  <2> QED
    BY <2>1, <2>2, <2>3, QuietKeepsRows
<1> QED
  BY <1>1, <1>2, GetKeepsRows, InsertReviewKeepsRows, UpdateStatusKeepsRows, AssignKeepsRows
     DEF FlushStep


-------------------------------------------------------------------------------
(* The beginning and the end of a request                                  *)

LEMMA ReceiptKeepsSession ==
  ASSUME TypeOK, NEW q \in Requests, SessionInv(q), NEW j \in Jobs, Receive(q, j)
  PROVE  SessionInv(q)'
<1>1. /\ pc[q] = "idle" /\ pc'[q] = "get" /\ job'[q] = j /\ work'[q] = j.ids
      /\ UNCHANGED <<row, reviews, patches, audit, mine, locks>>
  BY DEF Receive, At, Goto, TypeOK, database
<1>2. /\ {a \in audit : a.by = q} = {} /\ OwnReviews(q) = {}
      /\ {p \in patches : p.by = q} = {}
      /\ EntriesOf(q, "review") = {} /\ EntriesOf(q, "patch.generated") = {}
  BY <1>1 DEF SessionInv, ReviewsFollowItems
<1>3. locks[q] = {} /\ \A v \in Violations : mine[q][v] = None
  BY <1>1 DEF SessionInv, HandlerIsOnItsWay, Active
<1>4. /\ OwnReviews(q)' = {} /\ {p \in patches : p.by = q}' = {}
      /\ EntriesOf(q, "review")' = {} /\ EntriesOf(q, "patch.generated")' = {}
  BY <1>1, <1>2 DEF OwnReviews, EntriesOf
<1>5. HandlerIsOnItsWay(q)'
  <2>1. j.ids \in Seq(Ids) /\ j.ids # <<>> /\ Len(j.ids) \in Nat
    BY JobFacts
  <2> QED
    BY <1>1, <2>1 DEF HandlerIsOnItsWay, LoopSteps, ItemSteps, Active
<1>6. ~ItemIsReviewed(q)'
  BY <1>1 DEF ItemIsReviewed, ItemSteps
<1>7. ReviewsFollowItems(q)'
  BY <1>1, <1>4, <1>6 DEF ReviewsFollowItems
<1>8. TrailFollowsReviews(q)'
  <2>1. \A p \in patches' : p.by # q
    BY <1>4
  <2> QED
    BY <1>1, <1>4, <2>1 DEF TrailFollowsReviews
<1>9. LocksAreDecisions(q)' /\ SessionHoldsHistory(q)'
  BY <1>1, <1>3, <1>4 DEF LocksAreDecisions, SessionHoldsHistory
<1> QED
  BY <1>5, <1>7, <1>8, <1>9 DEF SessionInv

LEMMA RollbackKeepsSession ==
  ASSUME TypeOK, NEW q \in Requests, SessionInv(q), Active(q), Rollback(q)
  PROVE  SessionInv(q)'
<1>1. /\ pc'[q] = "refused" /\ job' = job /\ EndSession(q)
      /\ reviews' = {r \in reviews : r.by # q}
      /\ patches' = {p \in patches : p.by # q}
      /\ audit' = {a \in audit : a.by # q}
  BY DEF Rollback, Goto, TypeOK, EndSession
<1>2. locks'[q] = {} /\ \A v \in Violations : mine'[q][v] = None
  BY <1>1, SessionEnds
<1>3. /\ {a \in audit : a.by = q}' = {} /\ OwnReviews(q)' = {}
      /\ {p \in patches : p.by = q}' = {}
      /\ EntriesOf(q, "review")' = {} /\ EntriesOf(q, "patch.generated")' = {}
  BY <1>1 DEF OwnReviews, EntriesOf
<1>4. HandlerIsOnItsWay(q)'
  BY <1>1, <1>2 DEF SessionInv, HandlerIsOnItsWay, LoopSteps, ItemSteps, Active
<1>5. ~ItemIsReviewed(q)'
  BY <1>1 DEF ItemIsReviewed, ItemSteps
<1>6. ReviewsFollowItems(q)'
  BY <1>1, <1>3, <1>5 DEF ReviewsFollowItems
<1>7. TrailFollowsReviews(q)'
  <2>1. \A p \in patches' : p.by # q
    BY <1>1
  <2> QED
    BY <1>1, <1>3, <2>1 DEF TrailFollowsReviews
<1>8. LocksAreDecisions(q)' /\ SessionHoldsHistory(q)'
  BY <1>2, <1>3 DEF LocksAreDecisions, SessionHoldsHistory
<1> QED
  BY <1>4, <1>6, <1>7, <1>8 DEF SessionInv

LEMMA CommitKeepsSession ==
  ASSUME TypeOK, NEW q \in Requests, SessionInv(q), OnlyActs(q), Commit(q)
  PROVE  SessionInv(q)'
<1>1. /\ pc[q] = "commit" /\ pc'[q] = "committed" /\ EndSession(q)
      /\ UNCHANGED <<job, reviews, patches, audit>>
  BY DEF Commit, At, Goto, TypeOK, EndSession
<1>2. locks'[q] = {} /\ \A v \in Violations : mine'[q][v] = None
  BY <1>1, SessionEnds
<1>3. /\ EntriesOf(q, "review")' = EntriesOf(q, "review")
      /\ EntriesOf(q, "patch.generated")' = EntriesOf(q, "patch.generated")
      /\ OwnReviews(q)' = OwnReviews(q)
  BY <1>1 DEF EntriesOf, OwnReviews
<1>4. LedgersAgree(q)'
  BY <1>1, <1>3, QuietKeepsLedgers DEF SessionInv, LedgersAgree
<1>5. HandlerIsOnItsWay(q)'
  BY <1>1, <1>2 DEF SessionInv, HandlerIsOnItsWay, LoopSteps, ItemSteps, Active
<1>6. LocksAreDecisions(q)'
  BY <1>2 DEF LocksAreDecisions
<1>7. SessionHoldsHistory(q)'
  <2>1. SessionHoldsHistory(q)
    BY DEF SessionInv
  <2>2. Committed(reviews) \subseteq Committed(reviews)'
    BY CommittedGrows
  <2>3. ASSUME NEW r \in OwnReviews(q)
        PROVE  r.old \in Held(r.violation, Committed(reviews)' \cup OwnReviews(q))
    <3>1. Held(r.violation, Committed(reviews) \cup OwnReviews(q))
          \subseteq Held(r.violation, Committed(reviews)' \cup OwnReviews(q))
      BY <2>2, HeldGrows
    <3> QED
      BY <2>1, <3>1 DEF SessionHoldsHistory
  <2>4. ~Active(q)'
    BY <1>1 DEF Active
  <2> QED
    BY <1>2, <1>3, <2>3, <2>4 DEF SessionHoldsHistory
<1> QED
  BY <1>4, <1>5, <1>6, <1>7 DEF SessionInv, LedgersAgree

LEMMA FlushKeepsSession ==
  ASSUME TypeOK, TimesAreDistinct, StatusIsDecided, NEW q \in Requests, SessionInv(q),
         FlushStep(q)
  PROVE  SessionInv(q)'
<1>1. HandlerIsOnItsWay(q) /\ LedgersAgree(q) /\ RowsAreJustified(q)
  BY DEF SessionInv, LedgersAgree, RowsAreJustified
<1>2. HandlerIsOnItsWay(q)'
  BY <1>1, FlushGoesOn
<1>3. LedgersAgree(q)'
  BY <1>1, FlushKeepsLedgers
<1>4. RowsAreJustified(q)'
  BY <1>1, FlushIsOwn, FlushKeepsRows
<1> QED
  BY <1>2, <1>3, <1>4 DEF SessionInv, LedgersAgree, RowsAreJustified

-------------------------------------------------------------------------------
(* What other requests see                                                 *)

(* Nothing, before a request commits.                                      *)
LEMMA UnseenUntilCommit ==
  ASSUME TypeOK, NEW q \in Requests, OnlyActs(q), pc'[q] # "committed", TypeOK'
  PROVE  /\ Committed(reviews)' = Committed(reviews)
         /\ Committed(patches)' = Committed(patches)
<1>1. pc[q] # "committed"
  BY DEF OnlyActs
<1>2. \A o \in Requests : o # q => pc'[o] = pc[o]
  BY DEF OnlyActs
<1>3. ASSUME NEW r PROVE r \in Committed(reviews)' <=> r \in Committed(reviews)
  <2>1. r \in reviews => r.by \in Requests
    BY DEF TypeOK, Review
  <2>2. r \in reviews' => r.by \in Requests
    BY DEF TypeOK, Review
  <2>3. r.by # q => (r \in reviews' <=> r \in reviews)
    <3>1. r \in {x \in reviews' : x.by # q} <=> r \in {x \in reviews : x.by # q}
      BY DEF OnlyActs
    <3> QED
      BY <3>1
  <2> QED
    BY <1>1, <1>2, <2>1, <2>2, <2>3 DEF Committed
<1>4. ASSUME NEW p PROVE p \in Committed(patches)' <=> p \in Committed(patches)
  <2>1. p \in patches => p.by \in Requests
    BY DEF TypeOK, Patch
  <2>2. p \in patches' => p.by \in Requests
    BY DEF TypeOK, Patch
  <2>3. p.by # q => (p \in patches' <=> p \in patches)
    <3>1. p \in {x \in patches' : x.by # q} <=> p \in {x \in patches : x.by # q}
      BY DEF OnlyActs
    <3> QED
      BY <3>1
  <2> QED
    BY <1>1, <1>2, <2>1, <2>2, <2>3 DEF Committed
<1> QED
  BY <1>3, <1>4

(* All its reviews, when it does.                                          *)
LEMMA CommitPublishes ==
  ASSUME TypeOK, NEW q \in Requests, Commit(q)
  PROVE  /\ Committed(reviews)' = Committed(reviews) \cup OwnReviews(q)
         /\ UNCHANGED <<reviews, patches, audit>>
<1>1. /\ UNCHANGED <<reviews, patches, audit>> /\ pc[q] = "commit"
      /\ \A o \in Requests : pc'[o] = IF o = q THEN "committed" ELSE pc[o]
  BY DEF Commit, At, Goto, TypeOK
<1>2. \A r \in reviews : r.by \in Requests
  BY DEF TypeOK, Review
<1> QED
  BY <1>1, <1>2 DEF Committed, OwnReviews


(* A commit writes a status back only with a review that decided it, and a *)
(* review that changes nothing rests on a status that another one decided. *)
LEMMA CommitDecides ==
  ASSUME TypeOK, StatusIsDecided, NEW q \in Requests, SessionInv(q), Commit(q)
  PROVE  StatusIsDecided'
<1>1. /\ pc[q] = "commit" /\ Active(q) /\ ~ItemIsReviewed(q)
      /\ \A v \in Violations : row'[v] = Saved(q, v)
  BY DEF Commit, At, Active, ItemIsReviewed, ItemSteps
<1>2. /\ Committed(reviews)' = Committed(reviews) \cup OwnReviews(q)
  BY CommitPublishes
<1>3. SUFFICES ASSUME NEW v \in Violations
               PROVE  row'[v].status \in IF HistoryOf(v)' = {} THEN {"open"}
                                         ELSE {r.new : r \in HistoryOf(v)'}
  BY DEF StatusIsDecided
<1>4. HistoryOf(v)' = HistoryOf(v) \cup {r \in OwnReviews(q) : r.violation = v}
  BY <1>2 DEF HistoryOf
<1>5. row'[v].status = IF <<"status", v>> \in locks[q] THEN mine[q][v].status ELSE row[v].status
  BY <1>1, SavedIsRow DEF SessionInv
<1>6. CASE <<"status", v>> \in locks[q]
  <2>1. PICK r \in OwnReviews(q) : r.violation = v /\ r.new = mine[q][v].status
    BY <1>6 DEF SessionInv, LocksAreDecisions
  <2> QED
    BY <1>4, <1>5, <1>6, <2>1
<1>7. CASE <<"status", v>> \notin locks[q] /\ HistoryOf(v) # {}
  BY <1>4, <1>5, <1>7 DEF StatusIsDecided
<1>8. CASE <<"status", v>> \notin locks[q] /\ HistoryOf(v) = {}
  <2>1. \A r \in OwnReviews(q) : r.violation # v
    <3> SUFFICES ASSUME NEW r \in OwnReviews(q), r.violation = v PROVE FALSE
      OBVIOUS
    <3>1. mine[q][v] # None /\ mine[q][v].status # "open"
      BY <1>1 DEF SessionInv, SessionHoldsHistory
    <3>2. mine[q][v].status \in Held(v, Committed(reviews))
      BY <1>8, <3>1 DEF SessionInv, SessionHoldsHistory
    <3>3. Held(v, Committed(reviews)) = {"open"}
      BY <1>8 DEF Held, HistoryOf
    <3> QED
      BY <3>1, <3>2, <3>3
  <2>2. HistoryOf(v)' = {}
    BY <1>4, <1>8, <2>1
  <2>3. row[v].status = "open"
    BY <1>8 DEF StatusIsDecided
  <2> QED
    BY <1>5, <1>8, <2>2, <2>3
<1> QED
  BY <1>6, <1>7, <1>8

LEMMA OthersDecideNothing ==
  ASSUME TypeOK, TypeOK', StatusIsDecided, NEW q \in Requests, OnlyActs(q),
         pc'[q] # "committed", UNCHANGED row
  PROVE  StatusIsDecided'
<1>1. \A v \in Violations : HistoryOf(v)' = HistoryOf(v)
  BY UnseenUntilCommit DEF HistoryOf
<1> QED
  BY <1>1 DEF StatusIsDecided

(* created_at                                                              *)
LEMMA TimesStayDistinct ==
  ASSUME TypeOK, TimesAreDistinct, NEW q \in Requests, RequestStep(q)
  PROVE  TimesAreDistinct'
<1>1. clock \in Nat /\ \A r \in reviews : r.at \in Nat
  BY DEF TypeOK, Review
<1>2. \A p \in patches : p.at \in Nat
  BY DEF TypeOK, Patch
<1>3. CASE InsertReview(q)
  <2>1. PICK new : new = [by |-> q, at |-> clock, item |-> Item(q), violation |-> Current(q),
                          action |-> job[q].action, old |-> mine[q][Current(q)].status,
                          new |-> ACTION_TO_STATUS[job[q].action]]
    OBVIOUS
  <2>2. reviews' = reviews \cup {new} /\ new.at = clock /\ clock' = clock + 1 /\ patches' = patches
    BY <1>3, <2>1 DEF InsertReview
  <2> QED
    BY <1>1, <1>2, <2>2 DEF TimesAreDistinct
<1>4. CASE AddPatch(q)
  <2>1. PICK p : p = [by |-> q, at |-> clock, violation |-> Current(q)]
    OBVIOUS
  <2>2. patches' = patches \cup {p} /\ p.at = clock /\ clock' = clock + 1 /\ reviews' = reviews
    BY <1>4, <2>1 DEF AddPatch
  <2> QED
    BY <1>1, <1>2, <2>2 DEF TimesAreDistinct
<1>5. CASE /\ clock' = clock
           /\ reviews' \subseteq reviews /\ patches' \subseteq patches
  BY <1>5 DEF TimesAreDistinct
<1>6. CASE Rollback(q) \/ Commit(q) \/ (\E j \in Jobs : Receive(q, j))
  BY <1>5, <1>6 DEF Rollback, Commit, Receive, database
<1>7. CASE FlushStep(q) /\ ~InsertReview(q) /\ ~AddPatch(q)
  <2>1. UNCHANGED <<clock, reviews, patches>>
    BY <1>7
       DEF FlushStep, Get, PassMissing, GetMissing, UpdateStatus, AuditReview, AuditPatch,
           Assign, ListPatches, GetPatch, MarkExported, AuditBulk, database
  <2> QED
    BY <1>5, <2>1
<1> QED
  BY <1>3, <1>4, <1>6, <1>7, StepCases

-------------------------------------------------------------------------------
(* The invariant                                                           *)

LEMMA InitKeepsInv == Init => ReviewInv
<1> SUFFICES ASSUME Init PROVE ReviewInv
  OBVIOUS
<1>1. TypeOK
  BY InitKeepsTypes
<1>2. TimesAreDistinct
  BY DEF Init, TimesAreDistinct
<1>3. StatusIsDecided
  BY DEF Init, StatusIsDecided, HistoryOf, Committed
<1>4. ASSUME NEW q \in Requests PROVE SessionInv(q)
  <2>1. /\ pc[q] = "idle" /\ locks[q] = {} /\ \A v \in Violations : mine[q][v] = None
        /\ reviews = {} /\ patches = {} /\ audit = {}
    BY DEF Init
  <2>2. /\ OwnReviews(q) = {} /\ {p \in patches : p.by = q} = {}
        /\ {a \in audit : a.by = q} = {}
        /\ EntriesOf(q, "review") = {} /\ EntriesOf(q, "patch.generated") = {}
    BY <2>1 DEF OwnReviews, EntriesOf
  <2>3. HandlerIsOnItsWay(q)
    BY <2>1 DEF HandlerIsOnItsWay, LoopSteps, ItemSteps
  <2>4. ReviewsFollowItems(q)
    BY <2>1, <2>2 DEF ReviewsFollowItems, ItemIsReviewed, ItemSteps
  <2>5. TrailFollowsReviews(q)
    BY <2>1, <2>2 DEF TrailFollowsReviews
  <2>6. LocksAreDecisions(q) /\ SessionHoldsHistory(q)
    BY <2>1, <2>2 DEF LocksAreDecisions, SessionHoldsHistory
  <2> QED
    BY <2>3, <2>4, <2>5, <2>6 DEF SessionInv
<1> QED
  BY <1>1, <1>2, <1>3, <1>4 DEF ReviewInv

LEMMA StepKeepsInv ==
  ASSUME ReviewInv, NEW q \in Requests, RequestStep(q)
  PROVE  ReviewInv' /\ OnlyActs(q)
<1>1. /\ TypeOK /\ TimesAreDistinct /\ StatusIsDecided
      /\ \A o \in Requests : SessionInv(o)
  BY DEF ReviewInv
<1>2. HandlerIsOnItsWay(q) /\ LocksAreDecisions(q)
  BY <1>1 DEF SessionInv
<1>3. TimesAreDistinct'
  BY <1>1, TimesStayDistinct
<1>4. SUFFICES TypeOK' /\ StatusIsDecided' /\ OnlyActs(q) /\ SessionInv(q)'
  <2>1. ASSUME OnlyActs(q) PROVE \A o \in Requests \ {q} : SessionInv(o)'
    BY <1>1, <2>1, OthersAreLeftAlone, OthersKeep
  <2> QED
    BY <1>3, <2>1 DEF ReviewInv
<1>5. CASE \E j \in Jobs : Receive(q, j)
  <2>1. PICK j \in Jobs : Receive(q, j)
    BY <1>5
  <2>2. OnlyActs(q) /\ TypeOK' /\ SessionInv(q)'
    BY <1>1, <2>1, ReceiptIsOwn, ReceiveKeepsTypes, ReceiptKeepsSession
  <2>3. pc'[q] # "committed" /\ UNCHANGED row
    BY <1>1, <2>1 DEF Receive, Goto, TypeOK, database
  <2> QED
    BY <1>1, <2>2, <2>3, OthersDecideNothing
<1>6. CASE FlushStep(q)
  <2>1. OnlyActs(q) /\ UNCHANGED row /\ pc'[q] # "committed" /\ TypeOK' /\ SessionInv(q)'
    BY <1>1, <1>2, <1>6, FlushIsOwn, FlushKeepsTypes, FlushKeepsSession
  <2> QED
    BY <1>1, <2>1, OthersDecideNothing
<1>7. CASE Commit(q)
  <2>1. OnlyActs(q)
    BY <1>1, <1>7, CommitIsOwn
  <2> QED
    BY <1>1, <1>2, <1>7, <2>1, CommitKeepsTypes, CommitKeepsSession, CommitDecides
<1>8. CASE Active(q) /\ Rollback(q)
  <2>1. OnlyActs(q) /\ TypeOK' /\ SessionInv(q)'
    BY <1>1, <1>8, RollbackIsOwn, RollbackKeepsTypes, RollbackKeepsSession
  <2>2. pc'[q] # "committed" /\ UNCHANGED row
    BY <1>1, <1>8 DEF Rollback, Goto, TypeOK
  <2> QED
    BY <1>1, <2>1, <2>2, OthersDecideNothing
<1> QED
  BY <1>5, <1>6, <1>7, <1>8, StepCases

LEMMA StutteringKeepsInv ==
  ASSUME ReviewInv, UNCHANGED vars
  PROVE  ReviewInv'
<1>1. /\ UNCHANGED <<row, reviews, patches, audit, exportedBy, clock>>
      /\ UNCHANGED <<job, pc, work, handled, mine, locks, contended>>
  BY DEF vars, database, session
<1>2. TypeOK' /\ TimesAreDistinct'
  BY <1>1 DEF ReviewInv, TypeOK, TimesAreDistinct
<1>3. StatusIsDecided'
  BY <1>1 DEF ReviewInv, StatusIsDecided, HistoryOf, Committed
<1>4. ASSUME NEW q \in Requests PROVE SessionInv(q)'
  <2>1. IsLeftAlone(q)
    BY <1>1 DEF IsLeftAlone, OwnReviews, EntriesOf, Committed
  <2> QED
    BY <2>1, OthersKeep DEF ReviewInv
<1> QED
  BY <1>2, <1>3, <1>4 DEF ReviewInv

LEMMA NextKeepsInv == ReviewInv /\ [Next]_vars => ReviewInv'
<1> SUFFICES ASSUME ReviewInv, [Next]_vars PROVE ReviewInv'
  OBVIOUS
<1>1. CASE Next
  <2>1. PICK q \in Requests : RequestStep(q)
    BY <1>1 DEF Next, RequestStep
  <2> QED
    BY <2>1, StepKeepsInv
<1>2. CASE UNCHANGED vars
  BY <1>2, StutteringKeepsInv
<1> QED
  BY <1>1, <1>2

(* What a session has flushed and holds agrees, at every step, with what   *)
(* its handler still has to do (review_service.py:92-175,                  *)
(* bulk_review_service.py:41-165, session_scope).                          *)
THEOREM ReviewInvariant == Spec => []ReviewInv
<1> QED
  BY InitKeepsInv, NextKeepsInv, PTL DEF Spec

(* Every variable keeps its type: in particular a status is one of the     *)
(* enumeration, whatever actions reviews have taken.                       *)
THEOREM ReviewTypes == Spec => []TypeOK
<1>1. ReviewInv => TypeOK
  BY DEF ReviewInv
<1> QED
  BY <1>1, ReviewInvariant, PTL

(* A violation has a status that some committed review gave it, and is     *)
(* open only if none has been committed: nothing that bulk operations,     *)
(* exports, assignments, failures and deadlocks do to a row (base.py:55-66)*)
(* gives it another.                                                       *)
THEOREM StatusesAreDecided == Spec => []StatusIsDecided
<1>1. ReviewInv => StatusIsDecided
  BY DEF ReviewInv
<1> QED
  BY <1>1, ReviewInvariant, PTL


-------------------------------------------------------------------------------
(* The audit trail                                                         *)

(* The entries of a committed request are those of its reviews.            *)
LEMMA CommittedTrail ==
  ASSUME ReviewInv, NEW q \in Requests, IsDone(q)
  PROVE  /\ EntriesOf(q, "review") = {Entry(r) : r \in OwnReviews(q)}
         /\ (\E p \in patches : p.by = q) <=> EntriesOf(q, "patch.generated") # {}
<1>1. TrailFollowsReviews(q) /\ pc[q] = "committed"
  BY DEF ReviewInv, SessionInv, IsDone
<1>2. {r \in OwnReviews(q) : ~(IsCurrent(r) /\ pc[q] \in {"update", "audit"})} = OwnReviews(q)
  BY <1>1
<1> QED
  BY <1>1, <1>2 DEF TrailFollowsReviews

LEMMA EntriesHaveOwners ==
  ASSUME TypeOK
  PROVE  /\ \A a \in audit : a.by \in Requests
         /\ \A r \in reviews : r.by \in Requests
         /\ \A p \in patches : p.by \in Requests
<1>1. \A r \in reviews : r.by \in Requests
  BY DEF TypeOK, Review
<1>2. \A p \in patches : p.by \in Requests
  BY DEF TypeOK, Patch
<1>3. ASSUME NEW a \in audit PROVE a.by \in Requests
  BY DEF TypeOK, ViolationEntry, AssignmentEntry, PatchEntry, SummaryEntry
<1> QED
  BY <1>1, <1>2, <1>3

LEMMA TrailInv == ReviewInv => TrailMatchesReviews
<1> SUFFICES ASSUME ReviewInv PROVE TrailMatchesReviews
  OBVIOUS
<1>1. TypeOK
  BY DEF ReviewInv
<1>2. {[by |-> r.by, item |-> r.item, action |-> "review", old |-> r.old, new |-> r.new]
         : r \in Committed(reviews)}
      = {a \in Committed(audit) : a.action = "review"}
  <2>1. ASSUME NEW r \in Committed(reviews)
        PROVE  Entry(r) \in Committed(audit) /\ Entry(r).action = "review"
    <3>1. r.by \in Requests /\ IsDone(r.by) /\ r \in OwnReviews(r.by)
      BY <1>1, EntriesHaveOwners DEF Committed, IsDone, OwnReviews
    <3>2. Entry(r) \in EntriesOf(r.by, "review")
      BY <3>1, CommittedTrail
    <3> QED
      BY <3>1, <3>2 DEF EntriesOf, Committed, IsDone, Entry
  <2>2. ASSUME NEW a \in Committed(audit), a.action = "review"
        PROVE  \E r \in Committed(reviews) : a = Entry(r)
    <3>1. a.by \in Requests /\ IsDone(a.by) /\ a \in EntriesOf(a.by, "review")
      BY <1>1, <2>2, EntriesHaveOwners DEF Committed, IsDone, EntriesOf
    <3>2. PICK r \in OwnReviews(a.by) : a = Entry(r)
      BY <3>1, CommittedTrail
    <3> QED
      BY <3>1, <3>2 DEF OwnReviews, Committed, IsDone
  <2> QED
    BY <2>1, <2>2 DEF Entry
<1>3. {p.by : p \in Committed(patches)}
      = {a.by : a \in {a \in Committed(audit) : a.action = "patch.generated"}}
  <2>1. ASSUME NEW p \in Committed(patches)
        PROVE  \E a \in Committed(audit) : a.action = "patch.generated" /\ a.by = p.by
    <3>1. p.by \in Requests /\ IsDone(p.by) /\ p \in patches
      BY <1>1, EntriesHaveOwners DEF Committed, IsDone
    <3>2. EntriesOf(p.by, "patch.generated") # {}
      BY <3>1, CommittedTrail
    <3> QED
      BY <3>1, <3>2 DEF EntriesOf, Committed, IsDone
  <2>2. ASSUME NEW a \in Committed(audit), a.action = "patch.generated"
        PROVE  \E p \in Committed(patches) : p.by = a.by
    <3>1. a.by \in Requests /\ IsDone(a.by) /\ a \in EntriesOf(a.by, "patch.generated")
      BY <1>1, <2>2, EntriesHaveOwners DEF Committed, IsDone, EntriesOf
    <3>2. PICK p \in patches : p.by = a.by
      BY <3>1, CommittedTrail
    <3> QED
      BY <3>1, <3>2 DEF Committed, IsDone
  <2> QED
    BY <2>1, <2>2
<1>4. ASSUME NEW p \in Committed(patches)
      PROVE  \E r \in Committed(reviews) :
               /\ r.by = p.by /\ r.violation = p.violation
               /\ r.action \in ACTIONS_GENERATING_PATCHES
  <2>1. p.by \in Requests /\ pc[p.by] = "committed" /\ p \in patches
    BY <1>1, EntriesHaveOwners DEF Committed
  <2>2. TrailFollowsReviews(p.by)
    BY <2>1 DEF ReviewInv, SessionInv
  <2>3. PICK r \in OwnReviews(p.by) :
          r.violation = p.violation /\ r.action \in ACTIONS_GENERATING_PATCHES
    BY <2>1, <2>2 DEF TrailFollowsReviews
  <2> QED
    BY <2>1, <2>3 DEF OwnReviews, Committed
<1> QED
  BY <1>2, <1>3, <1>4 DEF TrailMatchesReviews

(* The trail and the tables become visible together and agree: reviews and *)
(* their entries, patches and theirs, are flushed one after the other, for *)
(* one item after the other (review_service.py:107-172), and seen by others*)
(* only after the last one.                                                *)
THEOREM TrailsMatch == Spec => []TrailMatchesReviews
<1> QED
  BY TrailInv, ReviewInvariant, PTL

-------------------------------------------------------------------------------
(* The steps that others see                                               *)

(* A request that becomes committed commits.                               *)
LEMMA CommitCommits ==
  ASSUME ReviewInv, Next, NEW q \in Requests, pc'[q] # pc[q], pc'[q] = "committed"
  PROVE  Commit(q)
<1>1. PICK o \in Requests : RequestStep(o)
  BY DEF Next, RequestStep
<1>2. OnlyActs(o)
  BY <1>1, StepKeepsInv
<1>3. o = q
  BY <1>2 DEF OnlyActs
<1>4. TypeOK /\ HandlerIsOnItsWay(q)
  BY DEF ReviewInv, SessionInv
<1>5. ASSUME NEW j \in Jobs PROVE ~Receive(q, j)
  BY <1>4 DEF Receive, Goto, TypeOK
<1>6. ~FlushStep(q)
  BY <1>4, FlushIsOwn
<1>7. ~Rollback(q)
  BY <1>4 DEF Rollback, Goto, TypeOK
<1> QED
  BY <1>1, <1>3, <1>5, <1>6, <1>7, StepCases

(* Each request writes back the column its kind is about, though it read   *)
(* the whole row long before: assignments and exports undo no decision,    *)
(* reviews and exports no assignment.                                      *)
THEOREM DecisionsAndAssignmentsAreApart == Spec => ColumnsAreIndependent
<1> DEFINE Apart ==
      \A q \in Requests, v \in Violations :
        pc'[q] # pc[q] /\ pc'[q] = "committed" =>
          /\ ~Reviewing(q) => row'[v].status = row[v].status
          /\ job[q].kind # "assign" => row'[v].assignee = row[v].assignee
<1>1. ReviewInv /\ [Next]_vars => [Apart]_vars
  <2> SUFFICES ASSUME ReviewInv, Next, NEW q \in Requests, NEW v \in Violations,
                      pc'[q] # pc[q], pc'[q] = "committed"
               PROVE  /\ ~Reviewing(q) => row'[v].status = row[v].status
                      /\ job[q].kind # "assign" => row'[v].assignee = row[v].assignee
    OBVIOUS
  <2>1. Commit(q)
    BY CommitCommits
  <2>2. row'[v] = Saved(q, v)
    BY <2>1 DEF Commit
  <2>3. TypeOK /\ LocksAreDecisions(q) /\ ReviewsFollowItems(q)
    BY DEF ReviewInv, SessionInv
  <2>4. /\ row'[v].status =
             IF <<"status", v>> \in locks[q] THEN mine[q][v].status ELSE row[v].status
        /\ row'[v].assignee =
             IF <<"assignee", v>> \in locks[q] THEN mine[q][v].assignee ELSE row[v].assignee
    BY <2>2, <2>3, SavedIsRow
  <2>5. ~Reviewing(q) => <<"status", v>> \notin locks[q]
    BY <2>3 DEF LocksAreDecisions, ReviewsFollowItems
  <2>6. job[q].kind # "assign" => <<"assignee", v>> \notin locks[q]
    BY <2>3 DEF LocksAreDecisions
  <2> QED
    BY <2>4, <2>5, <2>6
<1> QED
  BY <1>1, ReviewInvariant, PTL DEF Spec, ColumnsAreIndependent


-------------------------------------------------------------------------------
(* The workflow implements the ledger                                      *)

LEMMA LedgerStarts == Init => Ledger!Init
<1> SUFFICES ASSUME Init PROVE Ledger!Init
  OBVIOUS
<1>1. /\ reviews = {} /\ audit = {} /\ \A q \in Requests : pc[q] = "idle"
      /\ \A v \in Violations : row[v].status = "open"
  BY DEF Init
<1> QED
  BY <1>1 DEF Ledger!Init, Committed, IsDone

(* A committed request stays so, and with it what it entered.              *)
LEMMA TrailGrows ==
  ASSUME TypeOK, TypeOK', NEW q \in Requests, OnlyActs(q)
  PROVE  /\ pc'[q] # "committed" => Committed(audit)' = Committed(audit)
         /\ pc'[q] = "committed" /\ UNCHANGED audit =>
              Committed(audit)' = Committed(audit) \cup {a \in audit : a.by = q}
<1>1. /\ pc[q] # "committed"
      /\ \A o \in Requests : o # q => pc'[o] = pc[o]
  BY DEF OnlyActs
<1>2. (\A a \in audit : a.by \in Requests) /\ (\A a \in audit' : a.by \in Requests)
  <2>1. \A a \in audit : a.by \in Requests
    BY EntriesHaveOwners
  <2>2. \A a \in audit' : a.by \in Requests
    BY DEF TypeOK, ViolationEntry, AssignmentEntry, PatchEntry, SummaryEntry
  <2> QED
    BY <2>1, <2>2
<1>3. \A a : a.by # q => (a \in audit' <=> a \in audit)
  <2> TAKE a
  <2>1. a \in {x \in audit' : x.by # q} <=> a \in {x \in audit : x.by # q}
    BY DEF OnlyActs
  <2> QED
    BY <2>1
<1>4. ASSUME pc'[q] # "committed", NEW a PROVE a \in Committed(audit)' <=> a \in Committed(audit)
  BY <1>1, <1>2, <1>3, <1>4 DEF Committed
<1>5. ASSUME pc'[q] = "committed", UNCHANGED audit
      PROVE  Committed(audit)' = Committed(audit) \cup {a \in audit : a.by = q}
  BY <1>1, <1>2, <1>5 DEF Committed
<1> QED
  BY <1>4, <1>5

(* Whatever else a request does, the tables stay as others see them.       *)
LEMMA OtherStepsStutter ==
  ASSUME TypeOK, TypeOK', NEW q \in Requests, OnlyActs(q), UNCHANGED row, pc'[q] # "committed"
  PROVE  UNCHANGED Ledger!vars
<1>1. [v \in Violations |-> row[v].status]' = [v \in Violations |-> row[v].status]
  OBVIOUS
<1>2. Committed(reviews)' = Committed(reviews) /\ Committed(audit)' = Committed(audit)
  BY UnseenUntilCommit, TrailGrows
<1>3. {o \in Requests : IsDone(o)}' = {o \in Requests : IsDone(o)}
  BY DEF IsDone, OnlyActs
<1> QED
  BY <1>1, <1>2, <1>3 DEF Ledger!vars

(* An entry tells the transition of the review it is about.                *)
LEMMA EntriesTellTransitions ==
  ASSUME NEW D
  PROVE  Ledger!Transitions({Entry(r) : r \in D}) = Ledger!Transitions(D)
<1> DEFINE Of(x) == <<x.by, x.item, x.old, x.new>>
<1>1. \A r : /\ Entry(r).by = r.by /\ Entry(r).item = r.item
            /\ Entry(r).old = r.old /\ Entry(r).new = r.new
  BY DEF Entry
<1>2. \A r : Of(Entry(r)) = Of(r)
  BY <1>1
<1>3. /\ Ledger!Transitions({Entry(r) : r \in D}) = {Of(x) : x \in {Entry(r) : r \in D}}
      /\ Ledger!Transitions(D) = {Of(r) : r \in D}
  BY DEF Ledger!Transitions
<1> HIDE DEF Of
<1>4. {Of(x) : x \in {Entry(r) : r \in D}} = {Of(r) : r \in D}
  BY <1>2
<1> QED
  BY <1>3, <1>4

(* A commit settles the request: its reviews and their entries are added at*)
(* once, and a status changes only to what one of these reviews decided.   *)
LEMMA CommitSettles ==
  ASSUME ReviewInv, ReviewInv', NEW q \in Requests, OnlyActs(q), Commit(q)
  PROVE  Ledger!Settle(q)
<1>1. /\ TypeOK /\ TypeOK' /\ SessionInv(q)
  BY DEF ReviewInv
<1>2. /\ pc[q] = "commit" /\ pc'[q] = "committed"
      /\ \A o \in Requests : o # q => pc'[o] = pc[o]
      /\ UNCHANGED <<reviews, audit>>
  BY <1>1 DEF Commit, At, Goto, TypeOK
<1>3. /\ Committed(reviews)' = Committed(reviews) \cup OwnReviews(q)
      /\ Committed(reviews) \cap OwnReviews(q) = {}
  BY <1>1, <1>2, CommitPublishes DEF Committed, OwnReviews
<1> DEFINE trail == {a \in Committed(audit) : a.action = "review"}
<1>4. /\ trail' = trail \cup EntriesOf(q, "review")
      /\ trail \cap EntriesOf(q, "review") = {}
  <2>1. Committed(audit)' = Committed(audit) \cup {a \in audit : a.by = q}
    BY <1>1, <1>2, TrailGrows
  <2> QED
    BY <1>2, <2>1 DEF EntriesOf, Committed
<1>5. /\ q \notin {o \in Requests : IsDone(o)}
      /\ {o \in Requests : IsDone(o)}' = {o \in Requests : IsDone(o)} \cup {q}
  BY <1>2 DEF IsDone
<1>6. Committed(reviews)' \ Committed(reviews) = OwnReviews(q)
  BY <1>3
<1>7. trail' \ trail = EntriesOf(q, "review")
  BY <1>4
<1>8. ASSUME NEW r \in OwnReviews(q)
      PROVE  r.by = q /\ r.old \in Ledger!Held(r.violation, Committed(reviews)')
  BY <1>1, <1>3 DEF SessionInv, SessionHoldsHistory, OwnReviews, Held, Ledger!Held
<1>9. Ledger!Transitions(EntriesOf(q, "review")) = Ledger!Transitions(OwnReviews(q))
  <2>1. EntriesOf(q, "review") = {Entry(r) : r \in OwnReviews(q)}
    <3>1. TrailFollowsReviews(q)
      BY <1>1 DEF SessionInv
    <3>2. {r \in OwnReviews(q) : ~(IsCurrent(r) /\ pc[q] \in {"update", "audit"})} = OwnReviews(q)
      BY <1>2
    <3> QED
      BY <3>1, <3>2 DEF TrailFollowsReviews
  <2> QED
    BY <2>1, EntriesTellTransitions
<1>10. ASSUME NEW v \in Violations,
              [w \in Violations |-> row'[w].status][v] # [w \in Violations |-> row[w].status][v]
       PROVE  \E r \in OwnReviews(q) :
                r.violation = v /\ r.new = [w \in Violations |-> row'[w].status][v]
  <2>1. row'[v].status =
          IF <<"status", v>> \in locks[q] THEN mine[q][v].status ELSE row[v].status
    BY <1>1, SavedIsRow DEF Commit, SessionInv
  <2>2. <<"status", v>> \in locks[q] /\ row'[v].status = mine[q][v].status
    BY <1>10, <2>1
  <2> QED
    BY <1>1, <2>2 DEF SessionInv, LocksAreDecisions
<1> QED
  BY <1>3, <1>4, <1>5, <1>6, <1>7, <1>8, <1>9, <1>10 DEF Ledger!Settle

(* Whatever the handlers flush, and in whichever order they interleave,    *)
(* what readers of the database see are the steps of the abstract ledger:  *)
(* session_scope (base.py:55-66) makes each request one step of it.        *)
THEOREM WorkflowImplementsLedger == Spec => ImplementsLedger
<1>1. ReviewInv /\ ReviewInv' /\ [Next]_vars => [Ledger!Next]_(Ledger!vars)
  <2> SUFFICES ASSUME ReviewInv, ReviewInv', [Next]_vars
               PROVE  Ledger!Next \/ UNCHANGED Ledger!vars
    OBVIOUS
  <2>1. CASE UNCHANGED vars
    <3>1. UNCHANGED <<row, reviews, audit, pc>>
      BY <2>1 DEF vars, database
    <3> QED
      BY <3>1 DEF Ledger!vars, Committed, IsDone
  <2>2. CASE Next
    <3>1. PICK q \in Requests : RequestStep(q)
      BY <2>2 DEF Next, RequestStep
    <3>2. OnlyActs(q) /\ TypeOK /\ TypeOK' /\ HandlerIsOnItsWay(q)
      BY <3>1, StepKeepsInv DEF ReviewInv, SessionInv
    <3>3. CASE Commit(q)
      BY <3>2, <3>3, CommitSettles DEF Ledger!Next
    <3>4. CASE FlushStep(q)
      BY <3>2, <3>4, FlushIsOwn, OtherStepsStutter
    <3>5. CASE \E j \in Jobs : Receive(q, j)
      <4>1. UNCHANGED row /\ pc'[q] # "committed"
        BY <3>2, <3>5 DEF Receive, Goto, TypeOK, database
      <4> QED
        BY <3>2, <4>1, OtherStepsStutter
    <3>6. CASE Rollback(q)
      <4>1. UNCHANGED row /\ pc'[q] # "committed"
        BY <3>2, <3>6 DEF Rollback, Goto, TypeOK
      <4> QED
        BY <3>2, <4>1, OtherStepsStutter
    <3> QED
      BY <3>1, <3>3, <3>4, <3>5, <3>6, StepCases
  <2> QED
    BY <2>1, <2>2
<1> QED
  BY <1>1, LedgerStarts, ReviewInvariant, PTL DEF Spec, ImplementsLedger, Ledger!Spec

-------------------------------------------------------------------------------
(* Row locks are held by handlers that are under way                       *)

(* If every request of S were blocked, those that q waits for would be a   *)
(* deadlock; so one of them is not, and it holds a lock.                   *)
LEMMA HoldersAreUnderWay ==
  ASSUME \A q \in Requests : HandlerIsOnItsWay(q)
  PROVE  WaitersAreServed
<1> SUFFICES ASSUME NEW q \in Requests, Blocked(q), ~InDeadlock(q),
                    NEW S \in SUBSET Requests, WaitsWithin(q, S)
             PROVE  \E o \in S : Active(o) /\ ~Blocked(o)
  BY DEF WaitersAreServed
<1> DEFINE T == {p \in S : Blocked(p)}
<1>1. T \in SUBSET Requests /\ q \in T
  BY DEF WaitsWithin
<1>2. PICK p \in T : ~ \E o \in T : WaitsFor(p, o)
  BY <1>1 DEF InDeadlock
<1>3. PICK o \in Requests : WaitsFor(p, o)
  BY <1>2 DEF Blocked
<1>4. o \in S /\ ~Blocked(o)
  BY <1>2, <1>3 DEF WaitsWithin
<1>5. locks[o] # {}
  BY <1>3 DEF WaitsFor, RowsOf
<1> QED
  BY <1>4, <1>5 DEF HandlerIsOnItsWay

(* ReviewWorkflow!WaitersAreServed: in whatever order requests lock rows,  *)
(* one that waits for a lock waits, in the end, for a handler that is not  *)
(* blocked, or the database has a deadlock to break.                       *)
THEOREM NoWaitIsForAFinishedRequest == Spec => []WaitersAreServed
<1>1. ReviewInv => WaitersAreServed
  BY HoldersAreUnderWay DEF ReviewInv, SessionInv
<1> QED
  BY <1>1, ReviewInvariant, PTL
===============================================================================
