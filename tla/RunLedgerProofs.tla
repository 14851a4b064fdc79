---------------------------- MODULE RunLedgerProofs ----------------------------
(***************************************************************************)
(* Analysis runs implement the abstract ledger of RunLedger, for any       *)
(* number of overlapping runs and every combination of faults.  On top of  *)
(* OutcomeInv the step-by-step argument needs two things of each run: that *)
(* it writes to the violations table at most once, which other runs that   *)
(* move its rows must not disturb, and that it has a hash for every source *)
(* when it comes to write its index rows.                                  *)
(***************************************************************************)
EXTENDS AnalysisOutcomeProofs

(* The table has a row the run added or took over.                         *)
HasRows(r) == \E w \in RowIds : rows[w] # None /\ (w[1] = r \/ rows[w].owner = r)

(* The steps after the commit of the results.                              *)
AfterWriting == {"announce_results", "reindex", "delete", "announce_done"} \cup Stopping

WritesOnce(r) ==
  /\ HasRows(r) => pc[r] \in AfterWriting /\ Held(r) = {}
  /\ Held(r) # {} =>
       /\ pc[r] \in Holding /\ run[r].status = "running"
       /\ \A e \in Entries : tu[r][e] # "parsing"
  /\ pending[r] # {} => pc[r] \in {"flush", "handle"}
  /\ pc[r] = "handle" => run[r].status \in {"running", "completed", "failed"}

(* All sources of a run have been hashed.                                  *)
HashedAtStep(r) == pc[r] \in Parsing \cup Concluding => \A f \in Sources : hashes[r][f] # None

LedgerInv == OutcomeInv /\ \A r \in Runs : WritesOnce(r) /\ HashedAtStep(r)

-------------------------------------------------------------------------------
(* A run writes once                                                       *)

(* A step that keeps the table gives no run a row.                         *)
LEMMA NoNewRows ==
  ASSUME NEW r \in Runs, rows' = rows
  PROVE  HasRows(r)' = HasRows(r)
BY DEF HasRows

(* Another run writes rows of its own and rows that are there.             *)
LEMMA OthersWriteNoneOfMine ==
  ASSUME TypeOK, NEW q \in Runs, NEW r \in Runs \ {q}, HeldAreFindings(q),
         NEW W \in SUBSET (pending[q] \cup flushed[q]), rows' = Written(q, W), HasRows(r)'
  PROVE  HasRows(r)
<1>1. PICK w \in RowIds : rows'[w] # None /\ (w[1] = r \/ rows'[w].owner = r)
  BY DEF HasRows
<1>2. CASE w \in W
  <2>1. W \subseteq RowIds
    BY DEF TypeOK
  <2>2. rows'[w].owner = q
    BY <1>2, <2>1, WrittenIsStored
  <2>3. w[1] = r
    BY <1>1, <2>2
  <2>4. rows[w] # None
    BY <1>2, <2>3 DEF HeldAreFindings
  <2> QED
    BY <2>3, <2>4 DEF HasRows
<1>3. CASE w \notin W
  <2>1. rows'[w] = rows[w]
    BY <1>3, WrittenKeeps
  <2> QED
    BY <1>1, <2>1 DEF HasRows
<1> QED
  BY <1>2, <1>3

LEMMA ReviewsAddNothing ==
  ASSUME TypeOK, NEW x \in RowIds, NEW status \in Statuses, ReviewViolation(x, status),
         NEW r \in Runs, HasRows(r)'
  PROVE  HasRows(r)
<1>1. rows[x] \in Row /\ rows' = [rows EXCEPT ![x].status = status]
  BY DEF ReviewViolation, TypeOK
<1>2. PICK w \in RowIds : rows'[w] # None /\ (w[1] = r \/ rows'[w].owner = r)
  BY DEF HasRows
<1>3. rows'[w] = IF w = x THEN [rows[x] EXCEPT !.status = status] ELSE rows[w]
  BY <1>1 DEF TypeOK
<1>4. rows[w] # None /\ rows'[w].owner = rows[w].owner
  BY <1>1, <1>2, <1>3, ReviewKeepsRows DEF Row
<1> QED
  BY <1>2, <1>4 DEF HasRows

(* Steps at which the session of the task holds nothing.                   *)
LEMMA IdleWritesOnce ==
  ASSUME NEW r \in Runs, WritesOnce(r), rows' = rows,
         pending'[r] = pending[r], flushed'[r] = flushed[r], pc[r] \notin Holding,
         pc[r] \in AfterWriting => pc'[r] \in AfterWriting,
         pc'[r] = "handle" => run'[r].status \in {"running", "completed", "failed"}
  PROVE  WritesOnce(r)'
<1>1. Held(r) = {} /\ Held(r)' = {} /\ pending'[r] = {}
  BY DEF WritesOnce, Held
<1>2. HasRows(r)' = HasRows(r)
  BY NoNewRows
<1> QED
  BY <1>1, <1>2 DEF WritesOnce

(* Steps between the rules and the commit: the run has no rows yet.        *)
LEMMA HoldingWritesOnce ==
  ASSUME NEW r \in Runs, WritesOnce(r), RunInv(r), rows' = rows, UNCHANGED <<run, tu>>,
         pc[r] \in {"upsert", "flush"}, pc'[r] \in Holding,
         pending'[r] # {} => pc'[r] \in {"flush", "handle"}
  PROVE  WritesOnce(r)'
<1>1. ~HasRows(r)'
  BY NoNewRows DEF WritesOnce, AfterWriting, Stopping
<1>2. run[r].status = "running" /\ \A e \in Entries : tu[r][e] # "parsing"
  BY DEF RunInv, StatusAtStep, UnitsAtStep, Concluding, Stopping
<1> QED
  BY <1>1, <1>2 DEF WritesOnce

(* Steps that end the transaction, with a commit or without.               *)
LEMMA EmptiedWritesOnce ==
  ASSUME NEW r \in Runs, Held(r)' = {}, pc'[r] \in AfterWriting, pc'[r] # "handle"
  PROVE  WritesOnce(r)'
BY DEF WritesOnce, Held

LEMMA TaskWritesOnce ==
  ASSUME TypeInv, NEW r \in Runs, RunInv(r), WritesOnce(r), TaskStep(r)
  PROVE  WritesOnce(r)'
<1>1. CASE \/ AnnounceStart(r) \/ AnnounceInvalid(r) \/ AnnounceUnit(r)
           \/ AnnounceParsed(r) \/ AnnounceRules(r) \/ AnnounceResults(r)
           \/ AnnounceDone(r) \/ AnnounceFailed(r)
  <2>1. /\ Announces(r) /\ run'[r] = run[r]
        /\ pending'[r] = pending[r] /\ flushed'[r] = flushed[r]
    BY <1>1, AnnouncementsMove
  <2>2. rows' = rows
    BY <1>1 DEF AnnounceStart, AnnounceInvalid, AnnounceUnit, AnnounceParsed,
       AnnounceRules, AnnounceResults, AnnounceDone, AnnounceFailed, Publish, database
  <2>3. pc[r] \notin Holding /\ (pc[r] \in AfterWriting => pc'[r] \in AfterWriting)
    BY <2>1 DEF Announces, Holding, AfterWriting, Stopping
  <2>4. pc'[r] = "handle" => run[r].status \in {"running", "completed", "failed"}
    BY <2>1 DEF Announces, RunInv, StatusAtStep, Parsing, Concluding
  <2> QED
    BY <2>1, <2>2, <2>3, <2>4, IdleWritesOnce
<1>2. CASE \/ Begin(r) \/ RejectCompileCommands(r) \/ ScopeRun(r)
           \/ \E e \in Entries : StartUnit(r, e)
           \/ ParseUnit(r) \/ ParseUnitFails(r) \/ DispatchReturns(r)
           \/ \E f \in Sources : StartDelete(r, f)
           \/ FinishDelete(r) \/ Complete(r)
  <2>1. /\ UNCHANGED <<rows, pending, flushed>> /\ pc[r] \notin Holding /\ pc'[r] # "handle"
        /\ pc[r] \in AfterWriting => pc'[r] \in AfterWriting
    BY <1>2 DEF Begin, RejectCompileCommands, ScopeRun, StartUnit, ParseUnit, ParseUnitFails,
       DispatchReturns, StartDelete, FinishDelete, Complete, At, Goto, session, transaction,
       database, Holding, AfterWriting, Stopping, TypeInv, TypeOK
  <2> QED
    BY <2>1, IdleWritesOnce
<1>3. CASE Raise(r) \/ DispatchRaises(r)
  <2>1. /\ UNCHANGED <<run, rows, pending, flushed>>
        /\ pc[r] \in {"load", "rpc", "rules"} /\ pc'[r] = "handle"
    BY <1>3 DEF Raise, DispatchRaises, At, Goto, session, transaction, database, TypeInv, TypeOK
  <2>2. run[r].status = "running"
    BY <2>1 DEF RunInv, StatusAtStep, Parsing, Concluding
  <2> QED
    BY <2>1, <2>2, IdleWritesOnce DEF Holding, AfterWriting, Stopping
<1>4. CASE \E e \in Entries : SelectUnit(r, e) \/ SelectFindsTwo(r, e)
  <2>1. UNCHANGED <<run, tu, rows>> /\ pc[r] = "upsert" /\ pc'[r] \in {"flush", "handle"}
    BY <1>4 DEF SelectUnit, SelectFindsTwo, At, Goto, database, TypeInv, TypeOK
  <2> QED
    BY <2>1, HoldingWritesOnce DEF Holding
<1>5. CASE FlushUnit(r)
  <2>1. /\ UNCHANGED <<run, tu, rows>> /\ pc[r] = "flush" /\ pc'[r] \in {"upsert", "commit"}
        /\ pending'[r] = {}
    BY <1>5 DEF FlushUnit, At, Goto, database, TypeInv, TypeOK
  <2> QED
    BY <2>1, HoldingWritesOnce DEF Holding
<1>6. CASE CommitResults(r)
  <2>1. pc[r] = "commit" /\ pc'[r] = "announce_results" /\ pending' = pending /\ flushed'[r] = {}
    BY <1>6 DEF CommitResults, At, Goto, TypeInv, TypeOK
  <2>2. Held(r)' = {}
    BY <2>1 DEF WritesOnce, Held
  <2> QED
    BY <2>1, <2>2, EmptiedWritesOnce DEF AfterWriting
<1>7. CASE HandleError(r) \/ RejectManifest(r)
  <2>1. pc'[r] \in {"announce_failed", "dead"} /\ pending'[r] = {} /\ flushed'[r] = {}
    BY <1>7 DEF HandleError, RejectManifest, LoseTasks, Goto, TypeInv, TypeOK
  <2> QED
    BY <2>1, EmptiedWritesOnce DEF Held, AfterWriting, Stopping
<1> QED
  BY <1>1, <1>2, <1>3, <1>4, <1>5, <1>6, <1>7 DEF TaskStep

LEMMA OthersWriteOnce ==
  ASSUME NEW r \in Runs, WritesOnce(r), KeepsRun(r), HasRows(r)' => HasRows(r)
  PROVE  WritesOnce(r)'
BY DEF WritesOnce, KeepsRun, KeepsUnits, Held

LEMMA LostWriteOnce ==
  ASSUME NEW R \in SUBSET Runs, LoseTasks(R), NEW r \in Runs, WritesOnce(r)
  PROVE  WritesOnce(r)'
<1>1. CASE r \in R
  <2>1. pc'[r] = "dead" /\ pending'[r] = {} /\ flushed'[r] = {}
    BY <1>1 DEF LoseTasks
  <2> QED
    BY <2>1, EmptiedWritesOnce DEF Held, AfterWriting, Stopping
<1>2. CASE r \notin R
  <2>1. /\ pc'[r] = pc[r] /\ pending'[r] = pending[r] /\ flushed'[r] = flushed[r]
        /\ UNCHANGED <<run, tu, rows>>
    BY <1>2 DEF LoseTasks, database
  <2> QED
    BY <2>1, NoNewRows DEF WritesOnce, Held
<1> QED
  BY <1>1, <1>2


LEMMA WritesOnceNext ==
  ASSUME OutcomeInv, [Next]_vars, NEW r \in Runs, WritesOnce(r)
  PROVE  WritesOnce(r)'
<1>1. TypeInv /\ TypeOK /\ \A q \in Runs : RunInv(q) /\ HeldAreFindings(q)
  BY DEF OutcomeInv, TypeInv, RunInv
<1>2. ASSUME NEW q \in Runs, TaskStep(q)
      PROVE  WritesOnce(r)'
  <2>1. CASE q = r
    BY <1>1, <1>2, <2>1, TaskWritesOnce
  <2>2. CASE q # r
    <3>1. KeepsRun(r)
      BY <1>1, <1>2, <2>2, StepsLeaveOthers
    <3>2. HasRows(r)' => HasRows(r)
      BY <1>1, <1>2, <2>2, TaskWritesWhatItHolds, NoNewRows, OthersWriteNoneOfMine
    <3> QED
      BY <3>1, <3>2, OthersWriteOnce
  <2> QED
    BY <2>1, <2>2
<1>3. ASSUME NEW q \in Runs, NEW type \in RunTypes, StartAnalysisRun(q, type)
      PROVE  WritesOnce(r)'
  <2>1. UNCHANGED <<rows, pending, flushed, tu>> /\ pc[q] = "none"
    BY <1>3 DEF StartAnalysisRun, At, session, transaction
  <2>2. CASE q = r
    <3>1. pc'[r] = "begin"
      BY <1>1, <1>3, <2>2 DEF StartAnalysisRun, Goto, TypeOK
    <3> QED
      BY <2>1, <2>2, <3>1, IdleWritesOnce DEF Holding, AfterWriting, Stopping
  <2>3. CASE q # r
    <3>1. pc'[r] = pc[r] /\ run'[r] = run[r]
      BY <1>1, <1>3, <2>3 DEF StartAnalysisRun, Goto, TypeOK
    <3> QED
      BY <2>1, <3>1, NoNewRows DEF WritesOnce, Held
  <2> QED
    BY <2>2, <2>3
<1>4. ASSUME NEW R \in SUBSET Runs, LoseTasks(R)
      PROVE  WritesOnce(r)'
  BY <1>4, LostWriteOnce
<1>5. ASSUME NEW w \in RowIds, NEW status \in Statuses, ReviewViolation(w, status)
      PROVE  WritesOnce(r)'
  <2>1. KeepsRun(r)
    BY <1>5 DEF ReviewViolation, KeepsRun, KeepsUnits, KeepsIndex, world, session, transaction
  <2>2. HasRows(r)' => HasRows(r)
    BY <1>1, <1>5, ReviewsAddNothing
  <2> QED
    BY <2>1, <2>2, OthersWriteOnce
<1>6. CASE (\E f \in Files, v \in Versions : EditFile(f, v)) \/ UNCHANGED vars
  <2>1. KeepsRun(r) /\ rows' = rows
    BY <1>6 DEF EditFile, KeepsRun, KeepsUnits, KeepsIndex, vars, world, database, session,
       transaction
  <2> QED
    BY <2>1, NoNewRows, OthersWriteOnce
<1> QED
  BY <1>2, <1>3, <1>4, <1>5, <1>6 DEF Next, DatabaseFails, DeadlockVictim, Crash

-------------------------------------------------------------------------------
(* The hashes a run enters in the index                                    *)

(* The step of a task that fixes no scope.                                 *)
LEMMA TaskKeepsHashes ==
  ASSUME TypeInv, NEW r \in Runs, TaskStep(r), ~ScopeRun(r)
  PROVE  /\ hashes' = hashes
         /\ pc'[r] \in Parsing \cup Concluding => pc[r] \in Parsing \cup Concluding
<1>1. CASE \/ AnnounceStart(r) \/ AnnounceInvalid(r) \/ AnnounceUnit(r)
           \/ AnnounceParsed(r) \/ AnnounceRules(r) \/ AnnounceResults(r)
           \/ AnnounceDone(r) \/ AnnounceFailed(r)
  <2>1. Announces(r)
    BY <1>1, AnnouncementsMove
  <2>2. hashes' = hashes
    BY <1>1 DEF AnnounceStart, AnnounceInvalid, AnnounceUnit, AnnounceParsed, AnnounceRules,
       AnnounceResults, AnnounceDone, AnnounceFailed, Publish, session
  <2> QED
    BY <2>1, <2>2 DEF Announces, Parsing, Concluding
<1>2. CASE \/ Begin(r) \/ RejectCompileCommands(r) \/ Raise(r)
           \/ DispatchRaises(r) \/ DispatchReturns(r)
           \/ \E e \in Entries : StartUnit(r, e) \/ SelectUnit(r, e) \/ SelectFindsTwo(r, e)
           \/ ParseUnit(r) \/ ParseUnitFails(r) \/ FlushUnit(r) \/ CommitResults(r)
           \/ HandleError(r)
  <2>1. hashes' = hashes
    BY <1>2 DEF Begin, RejectCompileCommands, Raise, DispatchRaises, DispatchReturns,
       StartUnit, SelectUnit, SelectFindsTwo, ParseUnit, ParseUnitFails, FlushUnit,
       CommitResults, HandleError, session
  <2>2. \/ pc'[r] \notin Parsing \cup Concluding
        \/ pc[r] \in {"parse", "rpc", "rules", "upsert", "flush", "commit"}
    BY <1>2 DEF Begin, RejectCompileCommands, Raise, DispatchRaises, DispatchReturns,
       StartUnit, SelectUnit, SelectFindsTwo, ParseUnit, ParseUnitFails, FlushUnit,
       CommitResults, HandleError, At, Goto, TypeInv, TypeOK, Parsing, Concluding
  <2> QED
    BY <2>1, <2>2 DEF Parsing, Concluding
<1>3. CASE (\E f \in Sources : StartDelete(r, f)) \/ FinishDelete(r) \/ Complete(r)
  <2>1. hashes' = hashes /\ pc[r] \in {"reindex", "delete"}
    BY <1>3 DEF StartDelete, FinishDelete, Complete, At
  <2> QED
    BY <2>1 DEF Concluding
<1>4. CASE RejectManifest(r)
  <2>1. hashes' = hashes /\ pc'[r] = "dead"
    BY <1>4 DEF RejectManifest, LoseTasks
  <2> QED
    BY <2>1 DEF Parsing, Concluding
<1> QED
  BY <1>1, <1>2, <1>3, <1>4 DEF TaskStep

LEMMA HashedNext ==
  ASSUME TypeInv, [Next]_vars, NEW r \in Runs, HashedAtStep(r)
  PROVE  HashedAtStep(r)'
<1>1. ASSUME NEW q \in Runs, TaskStep(q)
      PROVE  HashedAtStep(r)'
  <2>1. CASE q # r
    <3>1. KeepsRun(r)
      BY <1>1, <2>1, StepsLeaveOthers DEF TypeInv
    <3> QED
      BY <3>1 DEF HashedAtStep, KeepsRun, KeepsIndex
  <2>2. CASE q = r /\ ScopeRun(r)
    <3>1. hashes'[r] = [f \in Sources |-> disk[f]]
      BY <2>2 DEF ScopeRun, TypeInv, TypeOK
    <3>2. \A f \in Sources : disk[f] # None
      BY FilesOfEntries, ConstantsAssumption DEF TypeInv, TypeOK
    <3> QED
      BY <3>1, <3>2 DEF HashedAtStep
  <2>3. CASE q = r /\ ~ScopeRun(r)
    <3>1. hashes' = hashes /\ (pc'[r] \in Parsing \cup Concluding => pc[r] \in Parsing \cup Concluding)
      BY <1>1, <2>3, TaskKeepsHashes
    <3> QED
      BY <3>1 DEF HashedAtStep
  <2> QED
    BY <2>1, <2>2, <2>3
<1>2. ASSUME NEW q \in Runs, NEW type \in RunTypes, StartAnalysisRun(q, type)
      PROVE  HashedAtStep(r)'
  <2>1. hashes' = hashes /\ (pc'[r] = pc[r] \/ pc'[r] = "begin")
    BY <1>2 DEF StartAnalysisRun, Goto, session, TypeInv, TypeOK
  <2> QED
    BY <2>1 DEF HashedAtStep, Parsing, Concluding
<1>3. ASSUME NEW R, LoseTasks(R)
      PROVE  HashedAtStep(r)'
  <2>1. hashes' = hashes /\ (pc'[r] = pc[r] \/ pc'[r] = "dead")
    BY <1>3 DEF LoseTasks
  <2> QED
    BY <2>1 DEF HashedAtStep, Parsing, Concluding
<1>4. CASE \/ \E f \in Files, v \in Versions : EditFile(f, v)
           \/ \E w \in RowIds, status \in Statuses : ReviewViolation(w, status)
           \/ UNCHANGED vars
  <2>1. UNCHANGED <<hashes, pc>>
    BY <1>4 DEF EditFile, ReviewViolation, vars, session
  <2> QED
    BY <2>1 DEF HashedAtStep
<1> QED
  BY <1>1, <1>2, <1>3, <1>4 DEF Next, DatabaseFails, DeadlockVictim, Crash


(* What the last commit of a run does to the index rows of all.            *)
LEMMA CompleteReplacesIndex ==
  ASSUME NEW r \in Runs, Complete(r)
  PROVE  /\ \A f \in Sources : index'[r][f] = hashes[r][f]
         /\ \A q \in Runs \ {r}, f \in Sources : index'[q][f] \in {index[q][f], None}
<1>1. index' = [q \in Runs |-> [f \in Sources |->
                 IF q = r THEN hashes[r][f]
                 ELSE IF <<q, f>> \in doomed[r] THEN None
                 ELSE index[q][f]]]
  BY DEF Complete
<1> QED
  BY <1>1

LEMMA LedgerInvariant == Spec => []LedgerInv
<1>1. Init => LedgerInv
  <2> SUFFICES ASSUME Init PROVE LedgerInv
    OBVIOUS
  <2>1. OutcomeInv
    BY OutcomeInit
  <2>2. ASSUME NEW r \in Runs
        PROVE  WritesOnce(r) /\ HashedAtStep(r)
    <3>1. /\ pc[r] = "none" /\ pending[r] = {} /\ flushed[r] = {}
          /\ \A w \in RowIds : rows[w] = None
      BY DEF Init
    <3> QED
      BY <3>1 DEF WritesOnce, HasRows, Held, HashedAtStep, Parsing, Concluding
  <2> QED
    BY <2>1, <2>2 DEF LedgerInv
<1>2. LedgerInv /\ [Next]_vars => LedgerInv'
  <2> SUFFICES ASSUME LedgerInv, [Next]_vars PROVE LedgerInv'
    OBVIOUS
  <2>1. OutcomeInv' /\ TypeInv
    BY OutcomeNext DEF LedgerInv, OutcomeInv
  <2>2. \A r \in Runs : WritesOnce(r)' /\ HashedAtStep(r)'
    BY <2>1, WritesOnceNext, HashedNext DEF LedgerInv
  <2> QED
    BY <2>1, <2>2 DEF LedgerInv
<1> QED
  BY <1>1, <1>2, PTL DEF Spec


-------------------------------------------------------------------------------
(* Every step is one of the ledger's                                       *)

(* A change of one record's status is that change of the ledger's.         *)
LEMMA StatusBecomes ==
  ASSUME TypeOK, NEW r \in Runs, NEW status,
         \/ SetStatus(r, status)
         \/ \E type \in RunTypes : run' = [run EXCEPT ![r].type = type, ![r].status = status]
  PROVE  Ledger!Becomes(r, status)
<1>1. run \in [Runs -> RunRecord] /\ run[r] \in RunRecord
  BY DEF TypeOK
<1>2. run'[r].status = status
  <2>1. CASE SetStatus(r, status)
    <3>1. run'[r] = [run[r] EXCEPT !.status = status]
      BY <1>1, <2>1 DEF SetStatus
    <3> QED
      BY <1>1, <3>1 DEF RunRecord
  <2>2. ASSUME NEW type, run' = [run EXCEPT ![r].type = type, ![r].status = status]
        PROVE  run'[r].status = status
    <3>1. run'[r] = [run[r] EXCEPT !.type = type, !.status = status]
      BY <1>1, <2>2
    <3> QED
      BY <1>1, <3>1 DEF RunRecord
  <2> QED
    BY <2>1, <2>2
<1>3. \A q \in Runs \ {r} : run'[q] = run[q]
  BY <1>1 DEF SetStatus
<1> QED
  BY <1>2, <1>3 DEF Ledger!Becomes

(* A step that changes no status.                                          *)
LEMMA StatusesStay ==
  ASSUME \A q \in Runs : run'[q].status = run[q].status
  PROVE  [q \in Runs |-> run[q].status]' = [q \in Runs |-> run[q].status]
OBVIOUS

LEMMA RunWrites ==
  ASSUME TypeOK, NEW r \in Runs, HeldAreFindings(r), WritesOnce(r), Held(r) # {} \/ pc[r] = "commit",
         RunInv(r), rows' = Written(r, Held(r))
  PROVE  Ledger!Write(r)
<1>1. Ledger!Unwritten(r)
  BY DEF WritesOnce, HasRows, AfterWriting, Stopping, Ledger!Unwritten
<1>2. Ledger!AtRest(r)
  BY DEF WritesOnce, Ledger!AtRest, RunInv, UnitsAtStep, Stopping
<1>3. Held(r) \in SUBSET RowIds /\ \A w \in Held(r) : rows[w] = None => w[1] = r
  BY DEF Held, TypeOK, HeldAreFindings
<1>4. rows' = [w \in RowIds |->
                 IF w \notin Held(r) THEN rows[w]
                 ELSE IF rows[w] = None THEN [owner |-> r, status |-> "open"]
                 ELSE [rows[w] EXCEPT !.owner = r]]
  BY DEF Written, Upserted
<1> QED
  BY <1>1, <1>2, <1>3, <1>4 DEF Ledger!Write

LEMMA TaskImplementsLedger ==
  ASSUME LedgerInv, NEW r \in Runs, TaskStep(r)
  PROVE  Ledger!Next \/ UNCHANGED Ledger!vars
<1>1. /\ TypeInv /\ TypeOK /\ RunInv(r) /\ HeldAreFindings(r) /\ FindingsAreKept(r)
      /\ StatusAtStep(r) /\ UnitsAtStep(r) /\ WritesOnce(r) /\ HashedAtStep(r)
  BY DEF LedgerInv, OutcomeInv, TypeInv, RunInv
<1>2. ASSUME UNCHANGED <<tu, rows, index>>, \A q \in Runs : run'[q].status = run[q].status
      PROVE  UNCHANGED Ledger!vars
  BY <1>2, StatusesStay DEF Ledger!vars
<1>3. CASE \/ AnnounceStart(r) \/ AnnounceInvalid(r) \/ AnnounceUnit(r)
           \/ AnnounceParsed(r) \/ AnnounceRules(r) \/ AnnounceResults(r)
           \/ AnnounceDone(r) \/ AnnounceFailed(r)
           \/ Raise(r) \/ DispatchRaises(r) \/ DispatchReturns(r) \/ FlushUnit(r)
           \/ (\E f \in Sources : StartDelete(r, f)) \/ FinishDelete(r) \/ RejectManifest(r)
           \/ \E e \in Entries : SelectUnit(r, e) \/ SelectFindsTwo(r, e)
  <2>1. UNCHANGED database
    BY <1>3 DEF AnnounceStart, AnnounceInvalid, AnnounceUnit, AnnounceParsed, AnnounceRules,
       AnnounceResults, AnnounceDone, AnnounceFailed, Publish, Raise, DispatchRaises, DispatchReturns,
       FlushUnit, StartDelete, FinishDelete, RejectManifest, LoseTasks, SelectUnit,
       SelectFindsTwo
  <2> QED
    BY <1>2, <2>1 DEF database
<1>4. CASE Begin(r)
  <2>1. run[r].status = "queued" /\ UNCHANGED <<tu, rows, index>> /\ SetStatus(r, "running")
    BY <1>1, <1>4 DEF Begin, At, StatusAtStep
  <2>2. Ledger!Begin(r)
    BY <1>1, <2>1, StatusBecomes DEF Ledger!Begin
  <2> QED
    BY <2>2 DEF Ledger!Next
<1>5. CASE RejectCompileCommands(r)
  <2>1. run[r].status = "running" /\ UNCHANGED <<tu, rows, index>> /\ SetStatus(r, "failed")
    BY <1>1, <1>5 DEF RejectCompileCommands, At, StatusAtStep
  <2>2. Ledger!Fail(r)
    BY <1>1, <2>1, StatusBecomes DEF Ledger!Fail
  <2> QED
    BY <2>2 DEF Ledger!Next
<1>6. CASE ScopeRun(r)
  <2>1. PICK n : run' = [run EXCEPT ![r].total = n]
    BY <1>6 DEF ScopeRun
  <2>2. \A q \in Runs : run'[q].status = run[q].status
    BY <1>1, <2>1 DEF TypeOK, RunRecord
  <2> QED
    BY <1>2, <1>6, <2>2 DEF ScopeRun
<1>7. ASSUME NEW e \in Entries, StartUnit(r, e)
      PROVE  Ledger!Next
  <2>1. /\ pc[r] = "parse" /\ tu[r][e] = "absent" /\ tu' = [tu EXCEPT ![r][e] = "parsing"]
        /\ UNCHANGED <<run, rows, index>>
    BY <1>7 DEF StartUnit, At, Remaining
  <2>2. run[r].status = "running"
    BY <1>1, <2>1 DEF StatusAtStep, Parsing
  <2>3. Ledger!Unwritten(r)
    BY <1>1, <2>1 DEF WritesOnce, HasRows, AfterWriting, Stopping, Ledger!Unwritten
  <2>4. Ledger!AtRest(r)
    BY <1>1, <2>1 DEF UnitsAtStep, Stopping, Ledger!AtRest
  <2>5. Ledger!StartUnit(r, e)
    BY <2>1, <2>2, <2>3, <2>4 DEF Ledger!StartUnit
  <2> QED
    BY <2>5 DEF Ledger!Next
<1>8. CASE ParseUnit(r) \/ ParseUnitFails(r)
  <2>1. pc[r] = "rpc" /\ unit[r] \in Entries
    BY <1>1, <1>8 DEF ParseUnit, ParseUnitFails, At, TypeInv, UnitInHand
  <2>2. run[r].status = "running" /\ tu[r][unit[r]] = "parsing"
    BY <1>1, <2>1 DEF StatusAtStep, UnitsAtStep, Parsing
  <2>3. /\ UNCHANGED <<rows, index>>
        /\ \E outcome \in {"completed", "failed"} : tu' = [tu EXCEPT ![r][unit[r]] = outcome]
    BY <1>8 DEF ParseUnit, ParseUnitFails
  <2>4. \A q \in Runs : run'[q].status = run[q].status
    <3>1. run \in [Runs -> RunRecord] /\ run[r] \in RunRecord
      BY <1>1 DEF TypeOK
    <3>2. run' = [run EXCEPT ![r].parsed = @ + 1] \/ run' = [run EXCEPT ![r].failed = @ + 1]
      BY <1>8 DEF ParseUnit, ParseUnitFails
    <3>3. \A q \in Runs \ {r} : run'[q] = run[q]
      BY <3>1, <3>2
    <3>4. \/ run'[r] = [run[r] EXCEPT !.parsed = @ + 1]
          \/ run'[r] = [run[r] EXCEPT !.failed = @ + 1]
      BY <3>1, <3>2
    <3>5. run'[r].status = run[r].status
      BY <3>1, <3>4 DEF RunRecord
    <3> QED
      BY <3>3, <3>5
  <2>5. Ledger!EndUnit(r, unit[r])
    BY <2>2, <2>3, <2>4, StatusesStay DEF Ledger!EndUnit
  <2> QED
    BY <2>1, <2>5 DEF Ledger!Next
<1>9. CASE CommitResults(r)
  <2>1. pc[r] = "commit" /\ UNCHANGED <<run, tu, index>> /\ rows' = Written(r, flushed[r])
    BY <1>9 DEF CommitResults, At
  <2>2. Held(r) = flushed[r] /\ run[r].status = "running"
    BY <1>1, <2>1 DEF WritesOnce, Held, StatusAtStep, Concluding
  <2>3. Ledger!Write(r)
    BY <1>1, <2>1, <2>2, RunWrites
  <2>4. Ledger!Store(r)
    BY <2>1, <2>2, <2>3, StatusesStay DEF Ledger!Store
  <2> QED
    BY <2>4 DEF Ledger!Next
<1>10. CASE Complete(r)
  <2>1. /\ pc[r] = "reindex" /\ run[r].type = "full" /\ UNCHANGED <<tu, rows>>
        /\ SetStatus(r, "completed")
    BY <1>10 DEF Complete, At
  <2>2. run[r].status = "running" /\ Handled(r) /\ affected[r] = Sources
    BY <1>1, <2>1 DEF StatusAtStep, UnitsAtStep, Concluding
  <2>3. \A e \in Entries : tu[r][e] \in {"completed", "failed"}
    BY <2>2, FilesOfEntries DEF Handled, HandledUnits
  <2>4. /\ \A f \in Sources : index'[r][f] # None
        /\ \A q \in Runs \ {r}, f \in Sources : index'[q][f] \in {index[q][f], None}
    BY <1>1, <1>10, <2>1, CompleteReplacesIndex DEF HashedAtStep, Concluding
  <2>5. Ledger!Becomes(r, "completed")
    BY <1>1, <2>1, StatusBecomes
  <2>6. Ledger!Complete(r)
    BY <2>1, <2>2, <2>3, <2>4, <2>5 DEF Ledger!Complete
  <2> QED
    BY <2>6 DEF Ledger!Next
<1>11. CASE HandleError(r)
  <2>1. /\ pc[r] = "handle" /\ UNCHANGED <<tu, index>> /\ SetStatus(r, "failed")
        /\ rows' = Written(r, flushed[r] \cup pending[r])
    BY <1>11 DEF HandleError, At
  <2>2. Held(r) = flushed[r] \cup pending[r] /\ run[r].status \in {"running", "completed", "failed"}
    BY <1>1, <2>1 DEF WritesOnce, Held
  <2>3. Ledger!Becomes(r, "failed")
    BY <1>1, <2>1, StatusBecomes
  <2>4. CASE Held(r) # {}
    <3>1. run[r].status = "running" /\ Ledger!Write(r)
      BY <1>1, <2>1, <2>2, <2>4, RunWrites DEF WritesOnce
    <3>2. Ledger!Fail(r)
      BY <2>1, <2>3, <3>1 DEF Ledger!Fail
    <3> QED
      BY <3>2 DEF Ledger!Next
  <2>5. CASE Held(r) = {}
    <3>1. rows' = rows
      BY <1>1, <2>1, <2>2, <2>5 DEF Written, TypeOK
    <3>2. CASE run[r].status # "failed"
      <4>1. Ledger!Fail(r)
        BY <2>1, <2>2, <2>3, <3>1, <3>2 DEF Ledger!Fail
      <4> QED
        BY <4>1 DEF Ledger!Next
    <3>3. CASE run[r].status = "failed"
      <4>1. \A q \in Runs : run'[q].status = run[q].status
        BY <1>1, <2>1, <3>3 DEF SetStatus, TypeOK, RunRecord
      <4> QED
        BY <1>2, <2>1, <3>1, <4>1
    <3> QED
      BY <3>2, <3>3
  <2> QED
    BY <2>4, <2>5
<1> QED
  BY <1>3, <1>4, <1>5, <1>6, <1>7, <1>8, <1>9, <1>10, <1>11 DEF TaskStep

LEMMA ReviewImplementsLedger ==
  ASSUME TypeOK, NEW w \in RowIds, NEW status \in Statuses, ReviewViolation(w, status)
  PROVE  Ledger!Review(w)
<1>1. /\ UNCHANGED <<run, tu, index>> /\ rows[w] \in Row
      /\ rows' = [rows EXCEPT ![w].status = status] /\ rows[w] # None
  BY DEF ReviewViolation, TypeOK
<1>2. rows'[w].status = status
  BY <1>1 DEF TypeOK, Row
<1> QED
  BY <1>1, <1>2, StatusesStay DEF Ledger!Review

(* AnalysisRuns!ImplementsRunLedger: whatever overlaps, fails or is        *)
(* reviewed, the database sees each run take its units one by one, write   *)
(* its findings in one step and at most once, and enter its hashes in the  *)
(* file index, all of them, in the step that completes it; the rows of     *)
(* others leave the index in such steps only, path by path.                *)
THEOREM RunsImplementLedger == Spec => ImplementsRunLedger
<1>1. Init => Ledger!Init
  <2> SUFFICES ASSUME Init PROVE Ledger!Init
    OBVIOUS
  <2>1. /\ run = [r \in Runs |-> [type |-> "full", status |-> "absent",
                                  total |-> 0, parsed |-> 0, failed |-> 0]]
        /\ tu = [r \in Runs |-> [e \in Entries |-> "absent"]]
        /\ rows = [w \in RowIds |-> None]
        /\ index = [r \in Runs |-> [f \in Sources |-> None]]
    BY DEF Init
  <2>2. [r \in Runs |-> run[r].status] \in [Runs -> {"absent", "completed", "failed"}]
    BY <2>1
  <2>3. tu \in [Runs -> [Entries -> {"absent", "parsing", "completed", "failed"}]]
    BY <2>1
  <2>4. \A r \in Runs : /\ \A e \in Entries : tu[r][e] = "absent"
                        /\ Ledger!Unwritten(r)
                        /\ index[r] = Ledger!NoFiles
    BY <2>1 DEF Ledger!Unwritten, Ledger!NoFiles
  <2> QED
    BY <2>2, <2>3, <2>4 DEF Ledger!Init
<1>2. LedgerInv /\ [Next]_vars => [Ledger!Next]_(Ledger!vars)
  <2> SUFFICES ASSUME LedgerInv, [Next]_vars
               PROVE  Ledger!Next \/ UNCHANGED Ledger!vars
    OBVIOUS
  <2>1. TypeOK
    BY DEF LedgerInv, OutcomeInv, TypeInv
  <2>2. ASSUME NEW r \in Runs, NEW type \in RunTypes, StartAnalysisRun(r, type)
        PROVE  Ledger!Next
    <3>1. /\ pc[r] = "none" /\ UNCHANGED <<tu, rows, index>>
          /\ run' = [run EXCEPT ![r].type = type, ![r].status = "queued"]
      BY <2>2 DEF StartAnalysisRun, At
    <3>2. run[r].status = "absent"
      BY <3>1 DEF LedgerInv, OutcomeInv, RunInv, StatusAtStep
    <3>3. Ledger!Request(r)
      BY <2>1, <3>1, <3>2, StatusBecomes DEF Ledger!Request
    <3> QED
      BY <3>3 DEF Ledger!Next
  <2>3. ASSUME NEW r \in Runs, TaskStep(r)
        PROVE  Ledger!Next \/ UNCHANGED Ledger!vars
    BY <2>3, TaskImplementsLedger
  <2>4. ASSUME NEW w \in RowIds, NEW status \in Statuses, ReviewViolation(w, status)
        PROVE  Ledger!Next
    BY <2>1, <2>4, ReviewImplementsLedger DEF Ledger!Next, RowIds
  <2>5. CASE \/ \E r \in Runs : DatabaseFails(r) \/ DeadlockVictim(r)
             \/ Crash
             \/ \E f \in Files, v \in Versions : EditFile(f, v)
             \/ UNCHANGED vars
    <3>1. UNCHANGED <<run, tu, rows, index>>
      BY <2>5 DEF DatabaseFails, DeadlockVictim, Crash, LoseTasks, EditFile, vars, database
    <3> QED
      BY <3>1, StatusesStay DEF Ledger!vars
  <2> QED
    BY <2>2, <2>3, <2>4, <2>5 DEF Next
<1> QED
  BY <1>1, <1>2, LedgerInvariant, PTL DEF Spec, ImplementsRunLedger, Ledger!Spec
===============================================================================
