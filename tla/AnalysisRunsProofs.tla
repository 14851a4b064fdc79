--------------------------- MODULE AnalysisRunsProofs ---------------------------
(***************************************************************************)
(* Theorems about AnalysisRuns, for any number of runs, entries, files and *)
(* fingerprints and every combination of faults.                           *)
(***************************************************************************)
EXTENDS AnalysisRuns, FiniteSetTheorems, TLAPS

LEMMA SourcesAreFinite == IsFiniteSet(Sources)
<1>1. IsFiniteSet(Entries)
  BY ConstantsAssumption
<1>2. FileOf \in Surjection(Entries, Sources)
  BY ConstantsAssumption DEF Sources, Surjection
<1> QED
  BY <1>1, <1>2, FS_Surjection

LEMMA ScopesAreCounted ==
  ASSUME NEW S \in SUBSET Sources
  PROVE  Cardinality(S) \in Nat
BY SourcesAreFinite, FS_Subset, FS_CardinalityType

LEMMA FilesOfEntries ==
  /\ \A e \in Entries : FileOf[e] \in Sources
  /\ Sources \subseteq Files
  /\ \A e \in Entries, v \in Versions : Detects[e][v] \subseteq Fingerprints
BY ConstantsAssumption DEF Sources, Files

LEMMA InitTyped == Init => TypeOK
BY DEF Init, TypeOK, AllRunTypes, RunRecord, RunStatuses, UnitStatuses, TaskSteps

(* publish_event changes only what was delivered and the step.             *)
LEMMA PublishTyped ==
  ASSUME TypeOK, NEW r \in Runs, NEW events \in SUBSET Events,
         NEW next \in TaskSteps, NEW onError \in TaskSteps,
         Publish(r, events, next, onError)
  PROVE  TypeOK'
<1>1. UNCHANGED <<disk, run, tu, rows, index, hashes, affected, unit, artifact,
                  saved, pending, flushed, swept, deleting, doomed, known>>
  BY DEF Publish, database, session, transaction
<1>2. delivered' \in [Runs -> SUBSET Events]
  <2>1. PICK sent \in SUBSET events :
              delivered' = [delivered EXCEPT ![r] = @ \cup sent]
    BY DEF Publish
  <2> QED
    BY <2>1 DEF TypeOK
<1>3. pc' \in [Runs -> TaskSteps]
  BY DEF TypeOK, Publish, Goto
<1> QED
  BY <1>1, <1>2, <1>3 DEF TypeOK

(* Losing tasks empties their transactions and changes no committed row.   *)
LEMMA LoseTasksTyped ==
  ASSUME TypeOK, NEW R \in SUBSET Runs, LoseTasks(R)
  PROVE  TypeOK'
BY DEF TypeOK, LoseTasks, database, world, TaskSteps

-------------------------------------------------------------------------------
(* Type correctness.  An announcement or a parse is about the entry in     *)
(* hand, so the invariant says when there is one.                          *)
UnitInHand ==
  \A r \in Runs :
    pc[r] \in {"announce_unit", "rpc", "announce_parsed", "flush"} => unit[r] \in Entries

TypeInv == TypeOK /\ UnitInHand

(* The step of r moves its unit and step only; the other runs keep theirs. *)
LEMMA HandStays ==
  ASSUME TypeInv, NEW r \in Runs, NEW step, Goto(r, step), unit' = unit,
         step \in {"announce_unit", "rpc", "announce_parsed", "flush"} => unit[r] \in Entries
  PROVE  UnitInHand'
BY DEF TypeInv, TypeOK, UnitInHand, Goto

LEMMA PublishKeepsHand ==
  ASSUME TypeInv, NEW r \in Runs, NEW events, NEW next, NEW onError,
         Publish(r, events, next, onError),
         next = "rpc" => unit[r] \in Entries,
         next \notin {"announce_unit", "announce_parsed", "flush"},
         onError \in {"handle", "end"}
  PROVE  UnitInHand'
<1>1. unit' = unit
  BY DEF Publish, session
<1>2. CASE Goto(r, next)
  BY <1>1, <1>2, HandStays
<1>3. CASE Goto(r, onError)
  BY <1>1, <1>3, HandStays
<1> QED
  BY <1>2, <1>3 DEF Publish

(* What a parsed unit is found to violate is a set of fingerprints.        *)
LEMMA FoundTyped ==
  ASSUME TypeOK, NEW r \in Runs, NEW e \in Parsed(r)
  PROVE  e \in Entries /\ Found(r, e) \subseteq Fingerprints
<1>1. e \in Entries /\ artifact[r][e] \in [Files -> Versions]
  BY DEF Parsed, TypeOK
<1> QED
  BY <1>1, FilesOfEntries DEF Found

LEMMA AnnouncementsTyped ==
  ASSUME TypeInv, NEW r \in Runs,
         \/ AnnounceStart(r) \/ AnnounceInvalid(r) \/ AnnounceUnit(r)
         \/ AnnounceParsed(r) \/ AnnounceRules(r) \/ AnnounceResults(r)
         \/ AnnounceDone(r) \/ AnnounceFailed(r)
  PROVE  TypeInv'
<1> USE DEF Events, TaskSteps, At
<1>1. CASE AnnounceStart(r)
  <2>1. Publish(r, {<<"analysis.started", "run">>}, "load", "handle")
    BY <1>1 DEF AnnounceStart
  <2> QED
    BY <2>1, PublishTyped, PublishKeepsHand DEF TypeInv
<1>2. CASE AnnounceInvalid(r)
  <2>1. Publish(r, {<<"analysis.failed", "run">>}, "end", "handle")
    BY <1>2 DEF AnnounceInvalid
  <2> QED
    BY <2>1, PublishTyped, PublishKeepsHand DEF TypeInv
<1>3. CASE AnnounceUnit(r)
  <2>1. unit[r] \in Entries
    BY <1>3 DEF AnnounceUnit, TypeInv, UnitInHand
  <2>2. Publish(r, {<<"translation_unit.started", unit[r]>>}, "rpc", "handle")
    BY <1>3 DEF AnnounceUnit
  <2>3. {<<"translation_unit.started", unit[r]>>} \subseteq Events
    BY <2>1
  <2> QED
    BY <2>1, <2>2, <2>3, PublishTyped, PublishKeepsHand DEF TypeInv
<1>4. CASE AnnounceParsed(r)
  <2>1. unit[r] \in Entries
    BY <1>4 DEF AnnounceParsed, TypeInv, UnitInHand
  <2>2. PICK next \in {"parse", "announce_rules", "reindex"} :
          Publish(r, {<<"translation_unit.completed", unit[r]>>}, next, "handle")
    BY <1>4 DEF AnnounceParsed
  <2>3. {<<"translation_unit.completed", unit[r]>>} \subseteq Events
    BY <2>1
  <2> QED
    BY <2>2, <2>3, PublishTyped, PublishKeepsHand DEF TypeInv
<1>5. CASE AnnounceRules(r)
  <2>1. Publish(r, {<<"rules.started", "run">>}, "rules", "handle")
    BY <1>5 DEF AnnounceRules
  <2> QED
    BY <2>1, PublishTyped, PublishKeepsHand DEF TypeInv
<1>6. CASE AnnounceResults(r)
  <2> DEFINE found == UNION {Found(r, e) : e \in Parsed(r)}
             results == {<<"rules.completed", "run">>} \cup ({"violation.detected"} \X found)
  <2>1. found \subseteq Fingerprints
    BY FoundTyped DEF TypeInv
  <2>2. results \subseteq Events
    BY <2>1
  <2>3. Publish(r, results, "reindex", "handle")
    BY <1>6 DEF AnnounceResults
  <2> HIDE DEF results
  <2> QED
    BY <2>2, <2>3, PublishTyped, PublishKeepsHand DEF TypeInv
<1>7. CASE AnnounceDone(r)
  <2>1. Publish(r, {<<"analysis.completed", "run">>}, "end", "handle")
    BY <1>7 DEF AnnounceDone
  <2> QED
    BY <2>1, PublishTyped, PublishKeepsHand DEF TypeInv
<1>8. CASE AnnounceFailed(r)
  <2>1. Publish(r, {<<"analysis.failed", "run">>}, "end", "end")
    BY <1>8 DEF AnnounceFailed
  <2> QED
    BY <2>1, PublishTyped, PublishKeepsHand DEF TypeInv
<1> QED
  BY <1>1, <1>2, <1>3, <1>4, <1>5, <1>6, <1>7, <1>8

(* Steps in which a task loses its session.                                *)
LEMMA LosingTasksTyped ==
  ASSUME TypeInv, NEW R \in SUBSET Runs, LoseTasks(R)
  PROVE  TypeInv'
<1>1. TypeOK'
  BY LoseTasksTyped DEF TypeInv
<1>2. UnitInHand'
  BY DEF TypeInv, TypeOK, UnitInHand, LoseTasks
<1> QED
  BY <1>1, <1>2 DEF TypeInv

(* Every step but an announcement leaves most variables alone; each lemma  *)
(* names those it changes and types them one by one.                       *)
LEMMA StepTyped ==
  ASSUME TypeOK, NEW r \in Runs, NEW step \in TaskSteps, Goto(r, step)
  PROVE  pc' \in [Runs -> TaskSteps]
BY DEF TypeOK, Goto

LEMMA RecordsTyped ==
  ASSUME NEW x \in RunRecord
  PROVE  /\ \A s \in RunStatuses : [x EXCEPT !.status = s] \in RunRecord
         /\ \A n \in Nat : /\ [x EXCEPT !.total = n] \in RunRecord
                           /\ [x EXCEPT !.parsed = n] \in RunRecord
                           /\ [x EXCEPT !.failed = n] \in RunRecord
         /\ x.parsed + 1 \in Nat /\ x.failed + 1 \in Nat
BY DEF RunRecord

LEMMA StatusTyped ==
  ASSUME TypeOK, NEW r \in Runs, NEW status \in RunStatuses, SetStatus(r, status)
  PROVE  run' \in [Runs -> RunRecord]
<1>1. run \in [Runs -> RunRecord]
  BY DEF TypeOK
<1>2. [run[r] EXCEPT !.status = status] \in RunRecord
  BY <1>1, RecordsTyped
<1> QED
  BY <1>1, <1>2 DEF SetStatus

LEMMA ScopeTyped ==
  ASSUME TypeInv, NEW r \in Runs, ScopeRun(r)
  PROVE  TypeInv'
<1>1. PICK current \in [Sources -> Versions], scope \in SUBSET Sources :
        /\ hashes' = [hashes EXCEPT ![r] = current]
        /\ affected' = [affected EXCEPT ![r] = scope]
        /\ run' = [run EXCEPT ![r].total = Cardinality(scope)]
        /\ Goto(r, IF scope = {} THEN "reindex" ELSE "parse")
  <2> DEFINE current == [f \in Sources |-> disk[f]]
  <2>1. current \in [Sources -> Versions]
    BY FilesOfEntries DEF TypeInv, TypeOK
  <2>2. \A C, G : AffectedUnits(C, G, Sources) \subseteq Sources
    BY DEF AffectedUnits
  <2> QED
    BY <2>1, <2>2 DEF ScopeRun
<1>2. Cardinality(scope) \in Nat
  BY ScopesAreCounted
<1>3. UNCHANGED <<disk, delivered, tu, rows, index, unit, artifact, saved,
                  pending, flushed, swept, deleting, doomed, known>>
  BY DEF ScopeRun, world, transaction
<1>4. TypeOK'
  <2>1. pc' \in [Runs -> TaskSteps]
    BY <1>1, StepTyped DEF TypeInv, TaskSteps
  <2>2. run' \in [Runs -> RunRecord]
    <3>1. run \in [Runs -> RunRecord]
      BY DEF TypeInv, TypeOK
    <3>2. [run[r] EXCEPT !.total = Cardinality(scope)] \in RunRecord
      BY <1>2, <3>1, RecordsTyped
    <3> QED
      BY <1>1, <3>1, <3>2
  <2>3. hashes' \in [Runs -> [Sources -> Versions \cup {None}]]
    BY <1>1 DEF TypeInv, TypeOK
  <2>4. affected' \in [Runs -> SUBSET Sources]
    BY <1>1 DEF TypeInv, TypeOK
  <2> QED
    BY <1>3, <2>1, <2>2, <2>3, <2>4 DEF TypeInv, TypeOK
<1>5. UnitInHand'
  <2>1. unit' = unit
    BY <1>3
  <2> QED
    BY <1>1, <2>1, HandStays
<1> QED
  BY <1>4, <1>5 DEF TypeInv

LEMMA BeginTyped ==
  ASSUME TypeInv, NEW r \in Runs, Begin(r)
  PROVE  TypeInv'
<1>1. UNCHANGED <<disk, delivered, tu, rows, index, hashes, affected, unit, artifact,
                  saved, pending, flushed, swept, deleting, doomed, known>>
  BY DEF Begin, world, session, transaction
<1>2. pc' \in [Runs -> TaskSteps]
  BY StepTyped DEF TypeInv, Begin, TaskSteps
<1>3. run' \in [Runs -> RunRecord]
  BY StatusTyped DEF TypeInv, Begin, RunStatuses
<1>4. UnitInHand'
  BY <1>1, HandStays DEF Begin
<1> QED
  BY <1>1, <1>2, <1>3, <1>4 DEF TypeInv, TypeOK

LEMMA RejectTyped ==
  ASSUME TypeInv, NEW r \in Runs, RejectCompileCommands(r)
  PROVE  TypeInv'
<1>1. UNCHANGED <<disk, delivered, tu, rows, index, hashes, affected, unit, artifact,
                  saved, pending, flushed, swept, deleting, doomed, known>>
  BY DEF RejectCompileCommands, world, session, transaction
<1>2. pc' \in [Runs -> TaskSteps]
  BY StepTyped DEF TypeInv, RejectCompileCommands, TaskSteps
<1>3. run' \in [Runs -> RunRecord]
  BY StatusTyped DEF TypeInv, RejectCompileCommands, RunStatuses
<1>4. UnitInHand'
  BY <1>1, HandStays DEF RejectCompileCommands
<1> QED
  BY <1>1, <1>2, <1>3, <1>4 DEF TypeInv, TypeOK

LEMMA StartUnitTyped ==
  ASSUME TypeInv, NEW r \in Runs, NEW e \in Entries, StartUnit(r, e)
  PROVE  TypeInv'
<1>1. UNCHANGED <<disk, delivered, run, rows, index, hashes, affected, artifact,
                  saved, pending, flushed, swept, deleting, doomed, known>>
  BY DEF StartUnit, world, transaction
<1>2. pc' \in [Runs -> TaskSteps]
  BY StepTyped DEF TypeInv, StartUnit, TaskSteps
<1>3. tu' \in [Runs -> [Entries -> UnitStatuses]]
  BY DEF TypeInv, TypeOK, StartUnit, UnitStatuses
<1>4. unit' \in [Runs -> Entries \cup {None}] /\ UnitInHand'
  BY DEF TypeInv, TypeOK, StartUnit, UnitInHand, Goto
<1> QED
  BY <1>1, <1>2, <1>3, <1>4 DEF TypeInv, TypeOK

LEMMA ParseUnitTyped ==
  ASSUME TypeInv, NEW r \in Runs, ParseUnit(r)
  PROVE  TypeInv'
<1>1. unit[r] \in Entries
  BY DEF TypeInv, UnitInHand, ParseUnit, At
<1>2. UNCHANGED <<disk, delivered, rows, index, hashes, affected, unit,
                  saved, pending, flushed, swept, deleting, doomed, known>>
  BY DEF ParseUnit, world, transaction
<1>3. pc' \in [Runs -> TaskSteps]
  BY StepTyped DEF TypeInv, ParseUnit, TaskSteps
<1>4. tu' \in [Runs -> [Entries -> UnitStatuses]]
  BY <1>1 DEF TypeInv, TypeOK, ParseUnit, UnitStatuses
<1>5. artifact' \in [Runs -> [Entries -> [Files -> Versions] \cup {None}]]
  BY <1>1 DEF TypeInv, TypeOK, ParseUnit
<1>6. run' \in [Runs -> RunRecord]
  <2>1. run \in [Runs -> RunRecord]
    BY DEF TypeInv, TypeOK
  <2>2. [run[r] EXCEPT !.parsed = @ + 1] \in RunRecord
    BY <2>1, RecordsTyped
  <2> QED
    BY <2>1, <2>2 DEF ParseUnit
<1>7. UnitInHand'
  BY <1>1, <1>2, HandStays DEF ParseUnit
<1> QED
  BY <1>2, <1>3, <1>4, <1>5, <1>6, <1>7 DEF TypeInv, TypeOK

LEMMA ParseUnitFailsTyped ==
  ASSUME TypeInv, NEW r \in Runs, ParseUnitFails(r)
  PROVE  TypeInv'
<1>1. unit[r] \in Entries
  BY DEF TypeInv, UnitInHand, ParseUnitFails, At
<1>2. UNCHANGED <<disk, delivered, rows, index, hashes, affected, unit, artifact,
                  saved, pending, flushed, swept, deleting, doomed, known>>
  BY DEF ParseUnitFails, world, transaction
<1>3. pc' \in [Runs -> TaskSteps]
  BY StepTyped DEF TypeInv, ParseUnitFails, TaskSteps
<1>4. tu' \in [Runs -> [Entries -> UnitStatuses]]
  BY <1>1 DEF TypeInv, TypeOK, ParseUnitFails, UnitStatuses
<1>5. run' \in [Runs -> RunRecord]
  <2>1. run \in [Runs -> RunRecord]
    BY DEF TypeInv, TypeOK
  <2>2. [run[r] EXCEPT !.failed = @ + 1] \in RunRecord
    BY <2>1, RecordsTyped
  <2> QED
    BY <2>1, <2>2 DEF ParseUnitFails
<1>6. UnitInHand'
  BY <1>1, <1>2, HandStays DEF ParseUnitFails
<1> QED
  BY <1>2, <1>3, <1>4, <1>5, <1>6 DEF TypeInv, TypeOK

(* Steps that move the task and nothing else.                              *)
LEMMA MoveTyped ==
  ASSUME TypeInv, NEW r \in Runs, Raise(r) \/ DispatchRaises(r) \/ DispatchReturns(r)
  PROVE  TypeInv'
<1>1. UNCHANGED <<disk, delivered, run, tu, rows, index, hashes, affected, unit, artifact,
                  saved, pending, flushed, swept, deleting, doomed, known>>
  BY DEF Raise, DispatchRaises, DispatchReturns, world, database, session, transaction
<1>2. PICK step \in {"handle", "upsert", "commit"} : Goto(r, step)
  BY DEF Raise, DispatchRaises, DispatchReturns
<1>3. pc' \in [Runs -> TaskSteps]
  BY <1>2, StepTyped DEF TypeInv, TaskSteps
<1>4. UnitInHand'
  BY <1>1, <1>2, HandStays
<1> QED
  BY <1>1, <1>3, <1>4 DEF TypeInv, TypeOK

LEMMA RequestTyped ==
  ASSUME TypeInv, NEW r \in Runs, NEW type \in RunTypes, StartAnalysisRun(r, type)
  PROVE  TypeInv'
<1>1. UNCHANGED <<disk, delivered, tu, rows, index, hashes, affected, unit, artifact,
                  saved, pending, flushed, swept, deleting, doomed>>
  BY DEF StartAnalysisRun, world, session, transaction
<1>2. pc' \in [Runs -> TaskSteps]
  BY StepTyped DEF TypeInv, StartAnalysisRun, TaskSteps
<1>3. run' \in [Runs -> RunRecord]
  <2>1. run \in [Runs -> RunRecord] /\ type \in AllRunTypes
    BY ConstantsAssumption DEF TypeInv, TypeOK
  <2>2. [run[r] EXCEPT !.type = type, !.status = "queued"] \in RunRecord
    BY <2>1 DEF RunRecord, RunStatuses
  <2> QED
    BY <2>1, <2>2 DEF StartAnalysisRun
<1>4. known' \in [Runs -> SUBSET Fingerprints]
  BY DEF TypeInv, TypeOK, StartAnalysisRun
<1>5. UnitInHand'
  BY <1>1, HandStays DEF StartAnalysisRun
<1> QED
  BY <1>1, <1>2, <1>3, <1>4, <1>5 DEF TypeInv, TypeOK

(* What an upsert touches are rows, and what it leaves in them is a row.   *)
LEMMA TargetsTyped ==
  ASSUME NEW r, NEW fps
  PROVE  Targets(r, fps) \subseteq RowIds
BY DEF Targets

LEMMA WrittenTyped ==
  ASSUME TypeOK, NEW r \in Runs, NEW W
  PROVE  Written(r, W) \in [RowIds -> Row \cup {None}]
<1>1. SUFFICES ASSUME NEW w \in RowIds
               PROVE  Upserted(rows[w], r) \in Row
  BY DEF TypeOK, Written
<1>2. rows[w] = None \/ rows[w] \in Row
  BY DEF TypeOK
<1> QED
  BY <1>2 DEF Upserted, Row

LEMMA SelectTyped ==
  ASSUME TypeInv, NEW r \in Runs, NEW e \in Entries, SelectUnit(r, e)
  PROVE  TypeInv'
<1>1. UNCHANGED <<disk, delivered, run, tu, rows, index, hashes, affected, artifact,
                  saved, flushed, swept, deleting, doomed, known>>
  BY DEF SelectUnit, world, database
<1>2. pc' \in [Runs -> TaskSteps]
  BY StepTyped DEF TypeInv, SelectUnit, TaskSteps
<1>3. pending' \in [Runs -> SUBSET RowIds]
  BY TargetsTyped DEF TypeInv, TypeOK, SelectUnit
<1>4. unit' \in [Runs -> Entries \cup {None}] /\ UnitInHand'
  BY DEF TypeInv, TypeOK, SelectUnit, UnitInHand, Goto
<1> QED
  BY <1>1, <1>2, <1>3, <1>4 DEF TypeInv, TypeOK

LEMMA SelectFindsTwoTyped ==
  ASSUME TypeInv, NEW r \in Runs, NEW e \in Entries, SelectFindsTwo(r, e)
  PROVE  TypeInv'
<1>1. UNCHANGED <<disk, delivered, run, tu, rows, index, hashes, affected, unit, artifact,
                  saved, flushed, swept, deleting, doomed, known>>
  BY DEF SelectFindsTwo, world, database
<1>2. pc' \in [Runs -> TaskSteps]
  BY StepTyped DEF TypeInv, SelectFindsTwo, TaskSteps
<1>3. pending' \in [Runs -> SUBSET RowIds]
  <2>1. PICK before : pending' = [pending EXCEPT ![r] = Targets(r, before)]
    BY DEF SelectFindsTwo
  <2> QED
    BY <2>1, TargetsTyped DEF TypeInv, TypeOK
<1>4. UnitInHand'
  BY <1>1, HandStays DEF SelectFindsTwo
<1> QED
  BY <1>1, <1>2, <1>3, <1>4 DEF TypeInv, TypeOK

LEMMA FlushTyped ==
  ASSUME TypeInv, NEW r \in Runs, FlushUnit(r)
  PROVE  TypeInv'
<1>1. UNCHANGED <<disk, delivered, run, tu, rows, index, hashes, affected, unit, artifact,
                  swept, deleting, doomed, known>>
  BY DEF FlushUnit, world, database
<1>2. unit[r] \in Entries
  BY DEF TypeInv, UnitInHand, FlushUnit, At
<1>3. pc' \in [Runs -> TaskSteps]
  BY StepTyped DEF TypeInv, FlushUnit, TaskSteps
<1>4. /\ pending' \in [Runs -> SUBSET RowIds]
      /\ flushed' \in [Runs -> SUBSET RowIds]
      /\ saved' \in [Runs -> SUBSET Entries]
  BY <1>2 DEF TypeInv, TypeOK, FlushUnit
<1>5. UnitInHand'
  <2>1. PICK step \in {"upsert", "commit"} : Goto(r, step)
    BY DEF FlushUnit
  <2> QED
    BY <1>1, <2>1, HandStays
<1> QED
  BY <1>1, <1>3, <1>4, <1>5 DEF TypeInv, TypeOK

LEMMA CommitTyped ==
  ASSUME TypeInv, NEW r \in Runs, CommitResults(r)
  PROVE  TypeInv'
<1>1. UNCHANGED <<disk, delivered, run, tu, index, hashes, affected, unit, artifact,
                  saved, pending, swept, deleting, doomed, known>>
  BY DEF CommitResults, world
<1>2. pc' \in [Runs -> TaskSteps]
  BY StepTyped DEF TypeInv, CommitResults, TaskSteps
<1>3. rows' \in [RowIds -> Row \cup {None}] /\ flushed' \in [Runs -> SUBSET RowIds]
  BY WrittenTyped DEF TypeInv, TypeOK, CommitResults
<1>4. UnitInHand'
  BY <1>1, HandStays DEF CommitResults
<1> QED
  BY <1>1, <1>2, <1>3, <1>4 DEF TypeInv, TypeOK

LEMMA HandleErrorTyped ==
  ASSUME TypeInv, NEW r \in Runs, HandleError(r)
  PROVE  TypeInv'
<1>1. UNCHANGED <<disk, delivered, tu, index, hashes, affected, unit, artifact,
                  saved, swept, deleting, doomed, known>>
  BY DEF HandleError, world
<1>2. pc' \in [Runs -> TaskSteps]
  BY StepTyped DEF TypeInv, HandleError, TaskSteps
<1>3. /\ rows' \in [RowIds -> Row \cup {None}]
      /\ flushed' \in [Runs -> SUBSET RowIds]
      /\ pending' \in [Runs -> SUBSET RowIds]
  BY WrittenTyped DEF TypeInv, TypeOK, HandleError
<1>4. run' \in [Runs -> RunRecord]
  BY StatusTyped DEF TypeInv, HandleError, RunStatuses
<1>5. UnitInHand'
  BY <1>1, HandStays DEF HandleError
<1> QED
  BY <1>1, <1>2, <1>3, <1>4, <1>5 DEF TypeInv, TypeOK

LEMMA StartDeleteTyped ==
  ASSUME TypeInv, NEW r \in Runs, NEW f \in Sources, StartDelete(r, f)
  PROVE  TypeInv'
<1>1. UNCHANGED <<disk, delivered, run, tu, rows, index, hashes, affected, unit, artifact,
                  saved, pending, flushed, doomed, known>>
  BY DEF StartDelete, world, database
<1>2. pc' \in [Runs -> TaskSteps]
  BY StepTyped DEF TypeInv, StartDelete, TaskSteps
<1>3. swept' \in [Runs -> SUBSET Sources]
  BY DEF TypeInv, TypeOK, StartDelete
<1>4. deleting' \in [Runs -> SUBSET (Runs \X Sources)]
  BY DEF TypeInv, TypeOK, StartDelete
<1>5. UnitInHand'
  BY <1>1, HandStays DEF StartDelete
<1> QED
  BY <1>1, <1>2, <1>3, <1>4, <1>5 DEF TypeInv, TypeOK

LEMMA FinishDeleteTyped ==
  ASSUME TypeInv, NEW r \in Runs, FinishDelete(r)
  PROVE  TypeInv'
<1>1. UNCHANGED <<disk, delivered, run, tu, rows, index, hashes, affected, unit, artifact,
                  saved, pending, flushed, swept, known>>
  BY DEF FinishDelete, world, database
<1>2. pc' \in [Runs -> TaskSteps]
  BY StepTyped DEF TypeInv, FinishDelete, TaskSteps
<1>3. doomed' \in [Runs -> SUBSET (Runs \X Sources)]
  BY DEF TypeInv, TypeOK, FinishDelete
<1>4. deleting' \in [Runs -> SUBSET (Runs \X Sources)]
  BY DEF TypeInv, TypeOK, FinishDelete
<1>5. UnitInHand'
  BY <1>1, HandStays DEF FinishDelete
<1> QED
  BY <1>1, <1>2, <1>3, <1>4, <1>5 DEF TypeInv, TypeOK

LEMMA CompleteTyped ==
  ASSUME TypeInv, NEW r \in Runs, Complete(r)
  PROVE  TypeInv'
<1>1. UNCHANGED <<disk, delivered, tu, rows, hashes, affected, unit, artifact,
                  saved, pending, flushed, deleting, known>>
  BY DEF Complete, world
<1>2. pc' \in [Runs -> TaskSteps]
  BY StepTyped DEF TypeInv, Complete, TaskSteps
<1>3. /\ swept' \in [Runs -> SUBSET Sources]
      /\ doomed' \in [Runs -> SUBSET (Runs \X Sources)]
  BY DEF TypeInv, TypeOK, Complete
<1>4. index' \in [Runs -> [Sources -> Versions \cup {None}]]
  BY DEF TypeInv, TypeOK, Complete
<1>5. run' \in [Runs -> RunRecord]
  BY StatusTyped DEF TypeInv, Complete, RunStatuses
<1>6. UnitInHand'
  BY <1>1, HandStays DEF Complete
<1> QED
  BY <1>1, <1>2, <1>3, <1>4, <1>5, <1>6 DEF TypeInv, TypeOK

(* Steps of the world: tasks keep their place.                             *)
LEMMA WorldTyped ==
  ASSUME TypeInv,
         \/ \E f \in Files, v \in Versions : EditFile(f, v)
         \/ \E w \in RowIds, status \in Statuses : ReviewViolation(w, status)
  PROVE  TypeInv'
<1>1. UNCHANGED <<delivered, run, tu, index, pc, hashes, affected, unit, artifact,
                  saved, pending, flushed, swept, deleting, doomed, known>>
  BY DEF EditFile, ReviewViolation, world, database, session, transaction
<1>2. disk' \in [Files -> Versions]
  BY DEF TypeInv, TypeOK, EditFile, ReviewViolation, world
<1>3. rows' \in [RowIds -> Row \cup {None}]
  <2>1. CASE \E w \in RowIds, status \in Statuses : ReviewViolation(w, status)
    <3>1. PICK w \in RowIds, status \in Statuses : ReviewViolation(w, status)
      BY <2>1
    <3>2. rows[w] \in Row
      BY <3>1 DEF TypeInv, TypeOK, ReviewViolation
    <3>3. [rows[w] EXCEPT !.status = status] \in Row
      BY <3>2 DEF Row
    <3> QED
      BY <3>1, <3>3 DEF TypeInv, TypeOK, ReviewViolation
  <2>2. CASE \E f \in Files, v \in Versions : EditFile(f, v)
    BY <2>2 DEF TypeInv, TypeOK, EditFile, database
  <2> QED
    BY <2>1, <2>2
<1>4. UnitInHand'
  BY <1>1 DEF TypeInv, UnitInHand
<1> QED
  BY <1>1, <1>2, <1>3, <1>4 DEF TypeInv, TypeOK

LEMMA StutterTyped == TypeInv /\ UNCHANGED vars => TypeInv'
BY DEF TypeInv, TypeOK, UnitInHand, vars, world, database, session, transaction

LEMMA TaskStepTyped ==
  ASSUME TypeInv, NEW r \in Runs, TaskStep(r)
  PROVE  TypeInv'
<1>1. CASE RejectManifest(r)
  BY <1>1, LosingTasksTyped DEF RejectManifest
<1> QED
  BY <1>1, AnnouncementsTyped, BeginTyped, RejectTyped, ScopeTyped, StartUnitTyped,
     ParseUnitTyped, ParseUnitFailsTyped, MoveTyped, SelectTyped, SelectFindsTwoTyped,
     FlushTyped, CommitTyped, HandleErrorTyped, StartDeleteTyped,
     FinishDeleteTyped, CompleteTyped
     DEF TaskStep

LEMMA NextTyped == TypeInv /\ [Next]_vars => TypeInv'
<1> SUFFICES ASSUME TypeInv, [Next]_vars PROVE TypeInv'
  OBVIOUS
<1>1. ASSUME NEW r \in Runs, DatabaseFails(r) \/ DeadlockVictim(r) PROVE TypeInv'
  BY <1>1, LosingTasksTyped DEF DatabaseFails, DeadlockVictim
<1>2. CASE Crash
  <2>1. \E R \in SUBSET Runs : LoseTasks(R)
    BY <1>2 DEF Crash
  <2> QED
    BY <2>1, LosingTasksTyped
<1> QED
  BY <1>1, <1>2, RequestTyped, TaskStepTyped, WorldTyped, StutterTyped DEF Next

(* Every variable keeps its type, and a task that announces, parses or     *)
(* flushes a unit has one in hand.                                         *)
THEOREM TypeInvariant == Spec => []TypeInv
<1>1. Init => TypeInv
  BY InitTyped DEF Init, TypeInv, UnitInHand
<1> QED
  BY <1>1, NextTyped, PTL DEF Spec

(* AnalysisRuns!TypeOK holds for every value of the constants.             *)
THEOREM TypeCorrect == Spec => []TypeOK
<1>1. TypeInv => TypeOK
  BY DEF TypeInv
<1> QED
  BY <1>1, TypeInvariant, PTL

-------------------------------------------------------------------------------
(* How the violations table changes                                        *)

(* An upsert turns no row into absence and keeps the status of every row.  *)
LEMMA WrittenKeeps ==
  ASSUME TypeOK, NEW r \in Runs, NEW W, NEW w \in RowIds
  PROVE  /\ rows[w] # None =>
              Written(r, W)[w] # None /\ Written(r, W)[w].status = rows[w].status
         /\ w \notin W => Written(r, W)[w] = rows[w]
<1>1. Written(r, W)[w] = IF w \in W THEN Upserted(rows[w], r) ELSE rows[w]
  BY DEF Written
<1>2. ASSUME rows[w] # None
      PROVE  Upserted(rows[w], r) # None /\ Upserted(rows[w], r).status = rows[w].status
  <2>1. rows[w] \in Row
    BY <1>2 DEF TypeOK
  <2>2. [rows[w] EXCEPT !.owner = r] \in Row
    BY <2>1 DEF Row
  <2>3. [rows[w] EXCEPT !.owner = r].status = rows[w].status
    BY <2>1 DEF Row
  <2> QED
    BY <1>2, <2>2, <2>3, ConstantsAssumption DEF Upserted
<1> QED
  BY <1>1, <1>2

(* A review leaves the same rows in the table.                             *)
LEMMA ReviewKeepsRows ==
  ASSUME TypeOK, NEW w \in RowIds, NEW status \in Statuses, ReviewViolation(w, status),
         NEW x \in RowIds
  PROVE  rows'[x] = None <=> rows[x] = None
<1>1. rows[w] \in Row /\ rows' = [rows EXCEPT ![w].status = status]
  BY DEF TypeOK, ReviewViolation
<1>2. [rows[w] EXCEPT !.status = status] \in Row
  BY <1>1 DEF Row
<1>3. rows'[x] = IF x = w THEN [rows[w] EXCEPT !.status = status] ELSE rows[x]
  BY <1>1 DEF TypeOK
<1> QED
  BY <1>1, <1>2, <1>3, ConstantsAssumption

LEMMA OnlyUpsertsWriteRows ==
  ASSUME Next, pc' # pc
  PROVE  rows' = rows \/ \E r \in Runs : \E W : rows' = Written(r, W)
<1>1. ASSUME NEW r \in Runs, TaskStep(r)
      PROVE  rows' = rows \/ \E W : rows' = Written(r, W)
  <2>1. CASE CommitResults(r) \/ HandleError(r)
    BY <2>1 DEF CommitResults, HandleError
  <2>2. CASE \/ AnnounceStart(r) \/ AnnounceInvalid(r) \/ AnnounceUnit(r)
             \/ AnnounceParsed(r) \/ AnnounceRules(r) \/ AnnounceResults(r)
             \/ AnnounceDone(r) \/ AnnounceFailed(r)
    BY <2>2 DEF AnnounceStart, AnnounceInvalid, AnnounceUnit, AnnounceParsed,
       AnnounceRules, AnnounceResults, AnnounceDone, AnnounceFailed, Publish, database
  <2>3. CASE \/ Begin(r) \/ RejectCompileCommands(r) \/ ScopeRun(r)
             \/ \E e \in Entries : StartUnit(r, e) \/ SelectUnit(r, e) \/ SelectFindsTwo(r, e)
             \/ ParseUnit(r) \/ ParseUnitFails(r) \/ Raise(r) \/ DispatchRaises(r)
             \/ DispatchReturns(r) \/ FlushUnit(r) \/ \E f \in Sources : StartDelete(r, f)
             \/ FinishDelete(r) \/ Complete(r) \/ RejectManifest(r)
    BY <2>3 DEF Begin, RejectCompileCommands, ScopeRun, StartUnit, SelectUnit,
       SelectFindsTwo, ParseUnit, ParseUnitFails, Raise, DispatchRaises, DispatchReturns,
       FlushUnit, StartDelete, FinishDelete, Complete, RejectManifest, LoseTasks, database
  <2> QED
    BY <1>1, <2>1, <2>2, <2>3 DEF TaskStep
<1>2. ASSUME NEW r \in Runs, NEW type \in RunTypes, StartAnalysisRun(r, type)
      PROVE  rows' = rows
  BY <1>2 DEF StartAnalysisRun
<1>3. ASSUME NEW r \in Runs, DatabaseFails(r) \/ DeadlockVictim(r)
      PROVE  rows' = rows
  BY <1>3 DEF DatabaseFails, DeadlockVictim, LoseTasks, database
<1>4. CASE Crash
  BY <1>4 DEF Crash, LoseTasks, database
<1>5. ASSUME NEW f \in Files, NEW v \in Versions, EditFile(f, v)
      PROVE  FALSE
  BY <1>5 DEF EditFile
<1>6. ASSUME NEW w \in RowIds, NEW status \in Statuses, ReviewViolation(w, status)
      PROVE  FALSE
  BY <1>6 DEF ReviewViolation
<1> QED
  BY <1>1, <1>2, <1>3, <1>4, <1>5, <1>6 DEF Next

(* AnalysisRuns!AnalysisKeepsDecisions: upserts, failures and deadlocks of *)
(* any number of overlapping runs leave every reviewed status as it is.    *)
THEOREM DecisionsAreKept == Spec => AnalysisKeepsDecisions
<1>1. ASSUME TypeOK, [Next]_vars
      PROVE  [pc' # pc => \A w \in RowIds : rows[w] # None =>
                rows'[w] # None /\ rows'[w].status = rows[w].status]_vars
  <2> SUFFICES ASSUME Next, pc' # pc, NEW w \in RowIds, rows[w] # None
               PROVE  rows'[w] # None /\ rows'[w].status = rows[w].status
    BY <1>1
  <2> QED
    BY <1>1, OnlyUpsertsWriteRows, WrittenKeeps
<1> QED
  BY <1>1, TypeCorrect, PTL DEF Spec, AnalysisKeepsDecisions

-------------------------------------------------------------------------------
(* A run never inserts a second row for a fingerprint that had one when    *)
(* the run was requested.  The claim speaks of committed rows only; what   *)
(* makes it inductive is what the sessions of all runs hold back: a row    *)
(* that is added or changed is either a run's own or one in the table.     *)

Held(r) == pending[r] \cup flushed[r]

UnrequestedHaveNothing ==
  \A r \in Runs : pc[r] = "none" =>
    Held(r) = {} /\ \A fp \in Fingerprints : rows[<<r, fp>>] = None

HeldRowsAreOwnOrStored ==
  \A r \in Runs : \A w \in Held(r) : w[1] = r \/ rows[w] # None

KnownAreStoredElsewhere ==
  \A r \in Runs : \A fp \in known[r] :
    Stored(fp) /\ rows[<<r, fp>>] = None /\ <<r, fp>> \notin Held(r)

KnownInv == UnrequestedHaveNothing /\ HeldRowsAreOwnOrStored /\ KnownAreStoredElsewhere

-------------------------------------------------------------------------------
(* What a step does to the rows and to what the sessions hold              *)

(* Sessions keep, flush or lose what they hold; no run is taken back.      *)
HoldsNoMore ==
  /\ known' = known
  /\ \A q \in Runs : Held(q)' \subseteq Held(q) /\ (pc'[q] = "none" => pc[q] = "none")

Quiet == HoldsNoMore /\ rows' = rows

Selects(r) ==
  /\ pc[r] = "upsert" /\ pc'[r] # "none"
  /\ \A q \in Runs \ {r} : pc'[q] = pc[q]
  /\ UNCHANGED <<rows, known, flushed>>
  /\ \E fps \in SUBSET Fingerprints : pending' = [pending EXCEPT ![r] = Targets(r, fps)]

Writes(r) ==
  /\ HoldsNoMore
  /\ \E W \in SUBSET Held(r) : rows' = Written(r, W)

Reviews ==
  /\ UNCHANGED <<pc, pending, flushed, known>>
  /\ \A w \in RowIds : rows'[w] = None <=> rows[w] = None

LEMMA MovingIsQuiet ==
  ASSUME TypeOK, NEW r \in Runs, NEW step \in TaskSteps \ {"none"}, Goto(r, step),
         UNCHANGED <<rows, pending, flushed, known>>
  PROVE  Quiet
BY DEF TypeOK, Quiet, HoldsNoMore, Goto, Held

LEMMA PublishIsQuiet ==
  ASSUME TypeOK, NEW r \in Runs, NEW events, NEW next \in TaskSteps \ {"none"},
         NEW onError \in TaskSteps \ {"none"}, Publish(r, events, next, onError)
  PROVE  Quiet
<1>1. UNCHANGED <<rows, pending, flushed, known>>
  BY DEF Publish, database, session, transaction
<1> QED
  BY <1>1, MovingIsQuiet DEF Publish

LEMMA AnnouncingIsQuiet ==
  ASSUME TypeOK, NEW r \in Runs,
         \/ AnnounceStart(r) \/ AnnounceInvalid(r) \/ AnnounceUnit(r)
         \/ AnnounceParsed(r) \/ AnnounceRules(r) \/ AnnounceResults(r)
         \/ AnnounceDone(r) \/ AnnounceFailed(r)
  PROVE  Quiet
<1> DEFINE steps == TaskSteps \ {"none"}
<1>1. \E events : \E next, onError \in steps : Publish(r, events, next, onError)
  <2>1. {"load", "handle", "end", "rpc", "parse", "announce_rules", "reindex", "rules"}
           \subseteq steps
    BY DEF TaskSteps
  <2> HIDE DEF steps
  <2>2. CASE AnnounceStart(r) \/ AnnounceInvalid(r) \/ AnnounceFailed(r) \/ AnnounceDone(r)
    BY <2>1, <2>2 DEF AnnounceStart, AnnounceInvalid, AnnounceFailed, AnnounceDone
  <2>3. CASE AnnounceUnit(r) \/ AnnounceRules(r)
    BY <2>1, <2>3 DEF AnnounceUnit, AnnounceRules
  <2>4. CASE AnnounceParsed(r)
    BY <2>1, <2>4 DEF AnnounceParsed
  <2>5. CASE AnnounceResults(r)
    BY <2>1, <2>5 DEF AnnounceResults
  <2> QED
    BY <2>2, <2>3, <2>4, <2>5
<1> QED
  BY <1>1, PublishIsQuiet

LEMMA LosingTasksIsQuiet ==
  ASSUME TypeOK, NEW R \in SUBSET Runs, LoseTasks(R)
  PROVE  Quiet
BY DEF TypeOK, LoseTasks, Quiet, HoldsNoMore, Held, database

LEMMA SteppingIsQuiet ==
  ASSUME TypeOK, NEW r \in Runs,
         \/ Begin(r) \/ RejectCompileCommands(r) \/ ScopeRun(r)
         \/ \E e \in Entries : StartUnit(r, e)
         \/ ParseUnit(r) \/ ParseUnitFails(r) \/ Raise(r) \/ DispatchRaises(r)
         \/ DispatchReturns(r) \/ \E f \in Sources : StartDelete(r, f)
         \/ FinishDelete(r) \/ Complete(r)
  PROVE  Quiet
<1>1. UNCHANGED <<rows, pending, flushed, known>>
  BY DEF Begin, RejectCompileCommands, ScopeRun, StartUnit, ParseUnit, ParseUnitFails,
     Raise, DispatchRaises, DispatchReturns, StartDelete, FinishDelete, Complete, database, session, transaction
<1>2. \E step \in TaskSteps \ {"none"} : Goto(r, step)
  BY DEF Begin, RejectCompileCommands, ScopeRun, StartUnit, ParseUnit, ParseUnitFails,
     Raise, DispatchRaises, DispatchReturns, StartDelete, FinishDelete, Complete, TaskSteps
<1> QED
  BY <1>1, <1>2, MovingIsQuiet

LEMMA FlushIsQuiet ==
  ASSUME TypeOK, NEW r \in Runs, FlushUnit(r)
  PROVE  Quiet
<1>1. rows' = rows /\ known' = known
  BY DEF FlushUnit, database
<1>2. ASSUME NEW q \in Runs PROVE Held(q)' \subseteq Held(q)
  BY DEF TypeOK, FlushUnit, Held
<1>3. ASSUME NEW q \in Runs, pc'[q] = "none" PROVE pc[q] = "none"
  BY <1>3 DEF TypeOK, FlushUnit, Goto
<1> QED
  BY <1>1, <1>2, <1>3 DEF Quiet, HoldsNoMore

LEMMA SelectingSelects ==
  ASSUME TypeOK, NEW r \in Runs, NEW e \in Entries, SelectUnit(r, e) \/ SelectFindsTwo(r, e)
  PROVE  Selects(r)
<1>1. Found(r, e) \subseteq Fingerprints
  BY FoundTyped DEF SelectUnit, SelectFindsTwo, Unsaved
<1>2. \E fps \in SUBSET Fingerprints : pending' = [pending EXCEPT ![r] = Targets(r, fps)]
  BY <1>1 DEF SelectUnit, SelectFindsTwo
<1>3. pc[r] = "upsert" /\ pc'[r] # "none" /\ \A q \in Runs \ {r} : pc'[q] = pc[q]
  BY DEF TypeOK, SelectUnit, SelectFindsTwo, At, Goto
<1>4. UNCHANGED <<rows, known, flushed>>
  BY DEF SelectUnit, SelectFindsTwo, database
<1> QED
  BY <1>2, <1>3, <1>4 DEF Selects

LEMMA CommittingWrites ==
  ASSUME TypeOK, NEW r \in Runs, CommitResults(r) \/ HandleError(r)
  PROVE  Writes(r)
<1>1. known' = known
  BY DEF CommitResults, HandleError
<1>2. ASSUME NEW q \in Runs PROVE Held(q)' \subseteq Held(q)
  BY DEF TypeOK, CommitResults, HandleError, Held
<1>3. ASSUME NEW q \in Runs, pc'[q] = "none" PROVE pc[q] = "none"
  BY <1>3 DEF TypeOK, CommitResults, HandleError, Goto
<1>4. \E W \in SUBSET Held(r) : rows' = Written(r, W)
  BY DEF CommitResults, HandleError, Held
<1> QED
  BY <1>1, <1>2, <1>3, <1>4 DEF Writes, HoldsNoMore

(* Every step but a request is one of four kinds.                          *)
LEMMA StepKinds ==
  ASSUME TypeOK, [Next]_vars,
         ~ \E r \in Runs, type \in RunTypes : StartAnalysisRun(r, type)
  PROVE  Quiet \/ Reviews \/ \E r \in Runs : Selects(r) \/ Writes(r)
<1>1. ASSUME NEW r \in Runs, TaskStep(r) PROVE Quiet \/ Selects(r) \/ Writes(r)
  BY <1>1, AnnouncingIsQuiet, SteppingIsQuiet, FlushIsQuiet, SelectingSelects,
     CommittingWrites, LosingTasksIsQuiet DEF TaskStep, RejectManifest
<1>2. ASSUME NEW r \in Runs, DatabaseFails(r) \/ DeadlockVictim(r) PROVE Quiet
  BY <1>2, LosingTasksIsQuiet DEF DatabaseFails, DeadlockVictim
<1>3. CASE Crash
  <2>1. \E R \in SUBSET Runs : LoseTasks(R)
    BY <1>3 DEF Crash
  <2> QED
    BY <2>1, LosingTasksIsQuiet
<1>4. ASSUME NEW f \in Files, NEW v \in Versions, EditFile(f, v) PROVE Quiet
  BY <1>4 DEF EditFile, database, session, transaction, Quiet, HoldsNoMore, Held
<1>5. ASSUME NEW w \in RowIds, NEW status \in Statuses, ReviewViolation(w, status)
      PROVE  Reviews
  <2>1. \A x \in RowIds : rows'[x] = None <=> rows[x] = None
    BY <1>5, ReviewKeepsRows
  <2> QED
    BY <1>5, <2>1 DEF ReviewViolation, session, transaction, Reviews
<1>6. CASE UNCHANGED vars
  BY <1>6 DEF vars, database, session, transaction, Quiet, HoldsNoMore, Held
<1> QED
  BY <1>1, <1>2, <1>3, <1>4, <1>5, <1>6 DEF Next

-------------------------------------------------------------------------------
(* Every kind of step keeps the invariant                                  *)

LEMMA RequestKeepsKnown ==
  ASSUME TypeOK, KnownInv, NEW r \in Runs, NEW type \in RunTypes, StartAnalysisRun(r, type)
  PROVE  KnownInv'
<1>1. UNCHANGED <<rows, pending, flushed>>
  BY DEF StartAnalysisRun, session, transaction
<1>2. pc[r] = "none" /\ pc' = [pc EXCEPT ![r] = "begin"]
  BY DEF StartAnalysisRun, At, Goto
<1>3. known' = [known EXCEPT ![r] = {fp \in Fingerprints : Stored(fp)}]
  BY DEF StartAnalysisRun
<1>4. Held(r) = {} /\ \A fp \in Fingerprints : rows[<<r, fp>>] = None
  BY <1>2 DEF KnownInv, UnrequestedHaveNothing
<1>5. UnrequestedHaveNothing' /\ HeldRowsAreOwnOrStored'
  BY <1>1, <1>2 DEF TypeOK, KnownInv, UnrequestedHaveNothing, HeldRowsAreOwnOrStored, Held
<1>6. KnownAreStoredElsewhere'
  <2> SUFFICES ASSUME NEW q \in Runs, NEW fp \in known'[q]
               PROVE  Stored(fp)' /\ rows'[<<q, fp>>] = None /\ <<q, fp>> \notin Held(q)'
    BY DEF KnownAreStoredElsewhere
  <2>1. Stored(fp)' = Stored(fp) /\ Held(q)' = Held(q)
    BY <1>1 DEF Stored, Held
  <2>2. CASE q = r
    <3>1. fp \in Fingerprints /\ Stored(fp)
      BY <1>3, <2>2 DEF TypeOK
    <3> QED
      BY <1>1, <1>4, <2>1, <2>2, <3>1
  <2>3. CASE q # r
    <3>1. fp \in known[q]
      BY <1>3, <2>3 DEF TypeOK
    <3> QED
      BY <1>1, <2>1, <3>1 DEF KnownInv, KnownAreStoredElsewhere
  <2> QED
    BY <2>2, <2>3
<1> QED
  BY <1>5, <1>6 DEF KnownInv

LEMMA QuietKeepsKnown ==
  ASSUME KnownInv, Quiet
  PROVE  KnownInv'
BY DEF KnownInv, UnrequestedHaveNothing, HeldRowsAreOwnOrStored, KnownAreStoredElsewhere,
   Quiet, HoldsNoMore, Stored

LEMMA ReviewsKeepKnown ==
  ASSUME TypeOK, KnownInv, Reviews
  PROVE  KnownInv'
<1>1. ASSUME NEW r \in Runs, NEW fp \in Fingerprints
      PROVE  rows'[<<r, fp>>] = None <=> rows[<<r, fp>>] = None
  BY DEF Reviews, RowIds
<1>2. ASSUME NEW r \in Runs PROVE Held(r)' = Held(r) /\ Held(r) \subseteq RowIds
  BY DEF Reviews, Held, TypeOK
<1>3. ASSUME NEW fp \in Fingerprints PROVE Stored(fp)' <=> Stored(fp)
  BY <1>1, <1>3 DEF Stored
<1>4. UnrequestedHaveNothing'
  BY <1>1, <1>2 DEF KnownInv, UnrequestedHaveNothing, Reviews
<1>5. HeldRowsAreOwnOrStored'
  BY <1>2 DEF KnownInv, HeldRowsAreOwnOrStored, Reviews
<1>6. KnownAreStoredElsewhere'
  BY <1>1, <1>2, <1>3 DEF KnownInv, KnownAreStoredElsewhere, Reviews, TypeOK
<1> QED
  BY <1>4, <1>5, <1>6 DEF KnownInv

(* The heart of the matter: the select sees every committed row, so it     *)
(* never chooses to add a row for a fingerprint that is known.             *)
LEMMA SelectKeepsKnown ==
  ASSUME TypeOK, KnownInv, NEW r \in Runs, Selects(r)
  PROVE  KnownInv'
<1>1. PICK fps \in SUBSET Fingerprints : pending' = [pending EXCEPT ![r] = Targets(r, fps)]
  BY DEF Selects
<1>2. UNCHANGED <<rows, known, flushed>>
  BY DEF Selects
<1>3. Held(r)' = Targets(r, fps) \cup flushed[r] /\ flushed[r] \subseteq Held(r)
  BY <1>1, <1>2 DEF TypeOK, Held
<1>4. ASSUME NEW q \in Runs, q # r PROVE Held(q)' = Held(q) /\ pc'[q] = pc[q]
  BY <1>1, <1>2, <1>4 DEF TypeOK, Held, Selects
<1>5. UnrequestedHaveNothing'
  BY <1>2, <1>4 DEF KnownInv, UnrequestedHaveNothing, Selects
<1>6. HeldRowsAreOwnOrStored'
  <2>1. ASSUME NEW w \in Targets(r, fps) PROVE w[1] = r \/ rows[w] # None
    BY <2>1 DEF Targets, Visible, RowIds
  <2> QED
    BY <1>2, <1>3, <1>4, <2>1 DEF KnownInv, HeldRowsAreOwnOrStored
<1>7. KnownAreStoredElsewhere'
  <2>1. ASSUME NEW fp \in known[r] PROVE <<r, fp>> \notin Targets(r, fps)
    <3>1. Stored(fp) /\ rows[<<r, fp>>] = None /\ <<r, fp>> \notin flushed[r]
      BY <1>3 DEF KnownInv, KnownAreStoredElsewhere
    <3>2. Visible(r, fp) # {} /\ r \notin Visible(r, fp)
      BY <3>1 DEF Stored, Visible
    <3> QED
      BY <3>2 DEF Targets
  <2> QED
    BY <1>2, <1>3, <1>4, <2>1 DEF KnownInv, KnownAreStoredElsewhere, Stored
<1> QED
  BY <1>5, <1>6, <1>7 DEF KnownInv

(* What is written was held, so it is the run's own and unknown to it, or  *)
(* in the table already.                                                   *)
LEMMA WritesKeepKnown ==
  ASSUME TypeOK, KnownInv, NEW r \in Runs, Writes(r)
  PROVE  KnownInv'
<1>1. PICK W \in SUBSET Held(r) : rows' = Written(r, W)
  BY DEF Writes
<1>2. ASSUME NEW w \in RowIds
      PROVE  /\ rows[w] # None => rows'[w] # None
             /\ w \notin W => rows'[w] = rows[w]
  BY <1>1, WrittenKeeps
<1>3. ASSUME NEW q \in Runs
      PROVE  Held(q)' \subseteq Held(q) /\ Held(q) \subseteq RowIds
             /\ known'[q] = known[q] /\ (pc'[q] = "none" => pc[q] = "none")
  BY DEF Writes, HoldsNoMore, Held, TypeOK
<1>4. ASSUME NEW q \in Runs, NEW fp \in Fingerprints, rows[<<q, fp>>] = None,
             <<q, fp>> \notin Held(q)
      PROVE  rows'[<<q, fp>>] = None
  <2>1. <<q, fp>> \in RowIds
    BY DEF RowIds
  <2>2. <<q, fp>> \notin W
    BY <1>4 DEF KnownInv, HeldRowsAreOwnOrStored
  <2> QED
    BY <1>2, <1>4, <2>1, <2>2
<1>5. ASSUME NEW fp \in Fingerprints, Stored(fp) PROVE Stored(fp)'
  BY <1>2, <1>5 DEF Stored, RowIds
<1>6. UnrequestedHaveNothing'
  BY <1>3, <1>4 DEF KnownInv, UnrequestedHaveNothing
<1>7. HeldRowsAreOwnOrStored'
  BY <1>2, <1>3 DEF KnownInv, HeldRowsAreOwnOrStored
<1>8. KnownAreStoredElsewhere'
  BY <1>3, <1>4, <1>5 DEF KnownInv, KnownAreStoredElsewhere, TypeOK
<1> QED
  BY <1>6, <1>7, <1>8 DEF KnownInv

LEMMA InitKnown == Init => KnownInv
BY DEF Init, KnownInv, UnrequestedHaveNothing, HeldRowsAreOwnOrStored,
   KnownAreStoredElsewhere, Held, RowIds

LEMMA NextKnown == TypeOK /\ KnownInv /\ [Next]_vars => KnownInv'
BY StepKinds, RequestKeepsKnown, QuietKeepsKnown, ReviewsKeepKnown, SelectKeepsKnown,
   WritesKeepKnown

(* AnalysisRuns!KnownFingerprintsAreNotDuplicated: whatever overlaps, fails *)
(* or is reviewed meanwhile, the upsert adds no second row for a           *)
(* fingerprint that was in the table when the run was requested.           *)
THEOREM KnownAreNotDuplicated == Spec => []KnownFingerprintsAreNotDuplicated
<1>1. KnownInv => KnownFingerprintsAreNotDuplicated
  BY DEF KnownInv, KnownAreStoredElsewhere, KnownFingerprintsAreNotDuplicated
<1> QED
  BY <1>1, InitKnown, NextKnown, TypeCorrect, PTL DEF Spec
===============================================================================
