------------------------- MODULE AnalysisOutcomeProofs -------------------------
(***************************************************************************)
(* What an analysis run leaves behind is what it found: theorems about the *)
(* rows, the file index, the outcome and the announcements of every run,   *)
(* for any number of overlapping runs and every combination of faults.     *)
(* The four claims share one inductive invariant, a conjunction over runs. *)
(* The part of a run speaks of its own record, units and session, and of   *)
(* the other runs only through rows that are there: rows are never removed *)
(* so a step of one run leaves the parts of the others as they are.        *)
(***************************************************************************)
EXTENDS AnalysisRunsProofs

(* The stages of run_analysis.                                             *)
Scoping == {"none", "begin", "announce_start", "load", "announce_invalid"}
Parsing == {"parse", "announce_unit", "rpc", "announce_parsed"}
Concluding ==
  {"announce_rules", "rules", "upsert", "flush", "commit", "announce_results",
   "reindex", "delete"}
Stopping == {"handle", "announce_failed", "end", "dead"}

(* Everything the run found has a committed row.                           *)
Settled(r) == \A fp \in Fingerprints : FoundBy(r, fp) => Stored(fp)

(* Every unit of the scope has a final record.                             *)
Handled(r) == \A e \in HandledUnits(r) : tu[r][e] \in {"completed", "failed"}

(* The run's record says where the task is.                                *)
StatusAtStep(r) ==
  /\ pc[r] = "none" <=> run[r].status = "absent"
  /\ pc[r] = "begin" => run[r].status = "queued"
  /\ pc[r] \in {"announce_start", "load"} \cup Parsing \cup Concluding =>
       run[r].status = "running"
  /\ pc[r] \in {"announce_invalid", "announce_failed"} => run[r].status = "failed"
  /\ pc[r] = "announce_done" => run[r].status = "completed"
  /\ pc[r] = "end" => run[r].status \in {"completed", "failed"}

(* The unit records follow the loop over the entries: one unit at a time   *)
(* is being parsed, and a unit is parsed once.                             *)
UnitsAtStep(r) ==
  /\ \A e \in Entries : artifact[r][e] # None <=> tu[r][e] = "completed"
  /\ \A e \in Entries : tu[r][e] # "absent" => FileOf[e] \in affected[r]
  /\ pc[r] \in Scoping => \A e \in Entries : tu[r][e] = "absent"
  /\ pc[r] \in {"announce_unit", "rpc"} => tu[r][unit[r]] = "parsing"
  /\ pc[r] = "announce_parsed" => tu[r][unit[r]] \in {"completed", "failed"}
  /\ \A e \in Entries : tu[r][e] = "parsing" =>
       (pc[r] \in {"announce_unit", "rpc"} /\ unit[r] = e) \/ pc[r] \in Stopping
  /\ pc[r] \in Concluding \cup {"announce_done"} \/ run[r].status = "completed" => Handled(r)
  /\ pc[r] \in Parsing \cup Concluding /\ run[r].type = "full" => affected[r] = Sources

CountsAgree(r) ==
  /\ run[r].parsed = Cardinality({e \in Entries : tu[r][e] = "completed"})
  /\ run[r].failed = Cardinality({e \in Entries : tu[r][e] = "failed"})

(* What the session holds back are findings of the run, in rows of its own *)
(* or rows that are there.                                                 *)
HeldAreFindings(r) ==
  \A w \in pending[r] \cup flushed[r] : FoundBy(r, w[2]) /\ (w[1] = r \/ rows[w] # None)

(* From the upsert of a unit to the commit, what was found there is in the *)
(* session or in the table.                                                *)
FindingsAreKept(r) ==
  /\ saved[r] \subseteq Parsed(r)
  /\ pc[r] # "dead" =>
       \A e \in saved[r] : \A fp \in Found(r, e) :
          Stored(fp) \/ \E w \in flushed[r] : w[2] = fp
  /\ pc[r] = "flush" =>
       /\ unit[r] \in Parsed(r)
       /\ \A fp \in Found(r, unit[r]) : \E w \in pending[r] : w[2] = fp
  /\ pc[r] = "commit" => Unsaved(r) = {}
  /\ pc[r] \in {"announce_results", "reindex", "delete", "announce_done"}
     \/ run[r].status = "completed" => Settled(r)

(* What has been announced is so.                                          *)
AnnouncedIsSo(r) ==
  /\ <<"analysis.failed", "run">> \in delivered[r] => run[r].status = "failed"
  /\ <<"analysis.completed", "run">> \in delivered[r] =>
       run[r].status \in {"completed", "failed"} /\ Settled(r)
  /\ \A fp \in Fingerprints : <<"violation.detected", fp>> \in delivered[r] => Stored(fp)
  /\ \A e \in Entries :
       /\ <<"translation_unit.started", e>> \in delivered[r] => tu[r][e] # "absent"
       /\ <<"translation_unit.completed", e>> \in delivered[r] =>
            tu[r][e] \in {"completed", "failed"}

(* An index row was inserted by Complete.                                  *)
IndexedIsSo(r) ==
  \A f \in Sources : index[r][f] # None =>
    /\ pc[r] \in {"announce_done"} \cup Stopping
    /\ run[r].status \in {"completed", "failed"}
    /\ index[r][f] = hashes[r][f]
    /\ \A e \in Entries : FileOf[e] = f => tu[r][e] \in {"completed", "failed"}
    /\ Settled(r)

RunInv(r) ==
  /\ StatusAtStep(r)
  /\ UnitsAtStep(r)
  /\ CountsAgree(r)
  /\ HeldAreFindings(r)
  /\ FindingsAreKept(r)
  /\ AnnouncedIsSo(r)
  /\ IndexedIsSo(r)

OutcomeInv == TypeInv /\ RowsAreFindings /\ \A r \in Runs : RunInv(r)

-------------------------------------------------------------------------------
(* A step of one run and the others                                        *)

RowsStay == \A w \in RowIds : rows[w] # None => rows'[w] # None

(* What run q has is as it was; its index rows may have been replaced.     *)
KeepsUnits(q) == tu'[q] = tu[q] /\ artifact'[q] = artifact[q] /\ affected'[q] = affected[q]
KeepsIndex(q) ==
  hashes'[q] = hashes[q] /\ \A f \in Sources : index'[q][f] \in {index[q][f], None}
KeepsRun(q) ==
  /\ KeepsUnits(q) /\ KeepsIndex(q)
  /\ run'[q] = run[q] /\ delivered'[q] = delivered[q] /\ pc'[q] = pc[q]
  /\ unit'[q] = unit[q] /\ saved'[q] = saved[q]
  /\ pending'[q] = pending[q] /\ flushed'[q] = flushed[q]

LEMMA StoredStays ==
  ASSUME RowsStay, NEW fp \in Fingerprints, Stored(fp)
  PROVE  Stored(fp)'
BY DEF RowsStay, Stored, RowIds

LEMMA SettledStays ==
  ASSUME RowsStay, NEW q \in Runs, KeepsUnits(q), Settled(q)
  PROVE  Settled(q)'
BY StoredStays DEF Settled, KeepsUnits, FoundBy

LEMMA HandledStays ==
  ASSUME NEW q \in Runs, KeepsUnits(q), Handled(q)
  PROVE  Handled(q)'
BY DEF Handled, KeepsUnits, HandledUnits

(* What the session holds stays justified when less or as much is held.    *)
LEMMA HeldStays ==
  ASSUME RowsStay, TypeOK, NEW q \in Runs, KeepsUnits(q), HeldAreFindings(q),
         pending'[q] \cup flushed'[q] \subseteq pending[q] \cup flushed[q]
  PROVE  HeldAreFindings(q)'
<1>1. SUFFICES ASSUME NEW w \in pending'[q] \cup flushed'[q]
               PROVE  FoundBy(q, w[2])' /\ (w[1] = q \/ rows'[w] # None)
  BY DEF HeldAreFindings
<1>2. w \in RowIds /\ FoundBy(q, w[2]) /\ (w[1] = q \/ rows[w] # None)
  BY <1>1 DEF HeldAreFindings, TypeOK
<1> QED
  BY <1>2 DEF RowsStay, FoundBy, KeepsUnits

LEMMA CountsStay ==
  ASSUME NEW q \in Runs, KeepsUnits(q), CountsAgree(q),
         run'[q].parsed = run[q].parsed, run'[q].failed = run[q].failed
  PROVE  CountsAgree(q)'
BY DEF CountsAgree, KeepsUnits

LEMMA AnnouncedStays ==
  ASSUME RowsStay, NEW q \in Runs, KeepsUnits(q), AnnouncedIsSo(q),
         delivered'[q] = delivered[q],
         run[q].status = "failed" => run'[q].status = "failed",
         run[q].status = "completed" => run'[q].status \in {"completed", "failed"}
  PROVE  AnnouncedIsSo(q)'
<1>1. \A fp \in Fingerprints : Stored(fp) => Stored(fp)'
  BY StoredStays
<1>2. Settled(q) => Settled(q)'
  BY SettledStays
<1> QED
  BY <1>1, <1>2 DEF AnnouncedIsSo, KeepsUnits

LEMMA IndexedStays ==
  ASSUME RowsStay, NEW q \in Runs, KeepsUnits(q), KeepsIndex(q), IndexedIsSo(q),
         pc[q] \in {"announce_done"} \cup Stopping => pc'[q] \in {"announce_done"} \cup Stopping,
         run[q].status \in {"completed", "failed"} => run'[q].status \in {"completed", "failed"}
  PROVE  IndexedIsSo(q)'
<1>1. Settled(q) => Settled(q)'
  BY SettledStays
<1> QED
  BY <1>1 DEF IndexedIsSo, KeepsUnits, KeepsIndex

(* A step of another run, or of the world, leaves the part of q as it is.  *)
LEMMA OthersStay ==
  ASSUME TypeInv, RowsStay, NEW q \in Runs, KeepsRun(q), RunInv(q)
  PROVE  RunInv(q)'
<1> USE DEF RunInv, KeepsRun
<1>1. StatusAtStep(q)'
  BY DEF StatusAtStep
<1>2. UnitsAtStep(q)'
  BY HandledStays DEF UnitsAtStep, KeepsUnits
<1>3. CountsAgree(q)' /\ HeldAreFindings(q)'
  BY CountsStay, HeldStays DEF TypeInv
<1>4. FindingsAreKept(q)'
  <2>1. Settled(q) => Settled(q)'
    BY SettledStays
  <2>2. \A e \in Parsed(q) : Found(q, e) \subseteq Fingerprints
    BY FoundTyped DEF TypeInv
  <2>3. \A e \in Parsed(q) : \A fp \in Found(q, e) : Stored(fp) => Stored(fp)'
    BY <2>2, StoredStays
  <2>4. Parsed(q)' = Parsed(q) /\ Unsaved(q)' = Unsaved(q) /\ \A e \in Entries : Found(q, e)' = Found(q, e)
    BY DEF Parsed, Unsaved, Found, KeepsUnits
  <2>5. Parsed(q) \subseteq Entries
    BY DEF Parsed
  <2> QED
    BY <2>1, <2>3, <2>4, <2>5 DEF FindingsAreKept
<1>5. AnnouncedIsSo(q)'
  BY AnnouncedStays
<1>6. IndexedIsSo(q)'
  BY IndexedStays
<1> QED
  BY <1>1, <1>2, <1>3, <1>4, <1>5, <1>6

(* A task that is lost takes its session with it and nothing else.         *)
LEMMA LostTask ==
  ASSUME TypeInv, RowsStay, NEW q \in Runs, RunInv(q), KeepsUnits(q), KeepsIndex(q),
         run'[q] = run[q], delivered'[q] = delivered[q], saved'[q] = saved[q],
         pc[q] # "none", pc'[q] = "dead", pending'[q] = {}, flushed'[q] = {}
  PROVE  RunInv(q)'
<1> USE DEF RunInv
<1>1. StatusAtStep(q)'
  BY DEF StatusAtStep, Parsing, Concluding
<1>2. UnitsAtStep(q)'
  BY HandledStays DEF UnitsAtStep, KeepsUnits, Scoping, Parsing, Concluding, Stopping
<1>3. CountsAgree(q)' /\ HeldAreFindings(q)'
  BY CountsStay, HeldStays DEF TypeInv
<1>4. FindingsAreKept(q)'
  <2>1. Settled(q) => Settled(q)'
    BY SettledStays
  <2>2. Parsed(q)' = Parsed(q)
    BY DEF Parsed, KeepsUnits
  <2> QED
    BY <2>1, <2>2 DEF FindingsAreKept
<1>5. AnnouncedIsSo(q)' /\ IndexedIsSo(q)'
  BY AnnouncedStays, IndexedStays DEF Stopping
<1> QED
  BY <1>1, <1>2, <1>3, <1>4, <1>5

-------------------------------------------------------------------------------
(* What every step has in common                                           *)

LEMMA TaskWritesWhatItHolds ==
  ASSUME NEW r \in Runs, TaskStep(r)
  PROVE  \/ rows' = rows
         \/ \E W \in SUBSET (pending[r] \cup flushed[r]) : rows' = Written(r, W)
<1>1. CASE CommitResults(r) \/ HandleError(r)
  BY <1>1 DEF CommitResults, HandleError
<1>2. CASE \/ AnnounceStart(r) \/ AnnounceInvalid(r) \/ AnnounceUnit(r)
           \/ AnnounceParsed(r) \/ AnnounceRules(r) \/ AnnounceResults(r)
           \/ AnnounceDone(r) \/ AnnounceFailed(r)
  BY <1>2 DEF AnnounceStart, AnnounceInvalid, AnnounceUnit, AnnounceParsed,
     AnnounceRules, AnnounceResults, AnnounceDone, AnnounceFailed, Publish, database
<1>3. CASE \/ Begin(r) \/ RejectCompileCommands(r) \/ ScopeRun(r)
           \/ \E e \in Entries : StartUnit(r, e) \/ SelectUnit(r, e) \/ SelectFindsTwo(r, e)
           \/ ParseUnit(r) \/ ParseUnitFails(r) \/ Raise(r) \/ DispatchRaises(r)
           \/ DispatchReturns(r) \/ FlushUnit(r) \/ \E f \in Sources : StartDelete(r, f)
           \/ FinishDelete(r) \/ Complete(r) \/ RejectManifest(r)
  BY <1>3 DEF Begin, RejectCompileCommands, ScopeRun, StartUnit, SelectUnit,
     SelectFindsTwo, ParseUnit, ParseUnitFails, Raise, DispatchRaises, DispatchReturns,
     FlushUnit, StartDelete, FinishDelete, Complete, RejectManifest, LoseTasks, database
<1> QED
  BY <1>1, <1>2, <1>3 DEF TaskStep

(* What a step writes to the table: nothing, what the session of one run   *)
(* held, or a decision.                                                    *)
LEMMA WhoWritesRows ==
  ASSUME TypeOK, [Next]_vars
  PROVE  \/ rows' = rows
         \/ \E r \in Runs : \E W \in SUBSET (pending[r] \cup flushed[r]) : rows' = Written(r, W)
         \/ \E w \in RowIds, status \in Statuses : ReviewViolation(w, status)
<1>1. ASSUME NEW r \in Runs, NEW type \in RunTypes, StartAnalysisRun(r, type)
      PROVE  rows' = rows
  BY <1>1 DEF StartAnalysisRun
<1>2. ASSUME NEW R, LoseTasks(R)
      PROVE  rows' = rows
  BY <1>2 DEF LoseTasks, database
<1>3. ASSUME NEW f \in Files, NEW v \in Versions, EditFile(f, v)
      PROVE  rows' = rows
  BY <1>3 DEF EditFile, database
<1> QED
  BY <1>1, <1>2, <1>3, TaskWritesWhatItHolds DEF Next, DatabaseFails, DeadlockVictim, Crash, vars, database

LEMMA RowsNeverLeave ==
  ASSUME TypeOK, [Next]_vars
  PROVE  RowsStay
BY WhoWritesRows, WrittenKeeps, ReviewKeepsRows DEF RowsStay

(* A step of the task of r is seen by another run in its index rows only.  *)
LEMMA AnnouncementsLeaveOthers ==
  ASSUME TypeOK, NEW r \in Runs, NEW events, NEW next, NEW onError,
         Publish(r, events, next, onError)
  PROVE  \A q \in Runs \ {r} : KeepsRun(q)
<1>1. UNCHANGED <<run, tu, index, hashes, affected, unit, artifact, saved, pending, flushed>>
  BY DEF Publish, database, session, transaction
<1>2. \A q \in Runs \ {r} : delivered'[q] = delivered[q] /\ pc'[q] = pc[q]
  BY DEF Publish, Goto, TypeOK
<1> QED
  BY <1>1, <1>2 DEF KeepsRun, KeepsUnits, KeepsIndex

LEMMA StepsLeaveOthers ==
  ASSUME TypeOK, NEW r \in Runs, TaskStep(r)
  PROVE  \A q \in Runs \ {r} : KeepsRun(q)
<1> USE DEF KeepsRun, KeepsUnits, KeepsIndex, TypeOK, Goto, SetStatus
<1>1. CASE \/ AnnounceStart(r) \/ AnnounceInvalid(r) \/ AnnounceUnit(r)
           \/ AnnounceParsed(r) \/ AnnounceRules(r) \/ AnnounceResults(r)
           \/ AnnounceDone(r) \/ AnnounceFailed(r)
  BY <1>1, AnnouncementsLeaveOthers DEF AnnounceStart, AnnounceInvalid, AnnounceUnit,
     AnnounceParsed, AnnounceRules, AnnounceResults, AnnounceDone, AnnounceFailed
<1>2. CASE \/ Begin(r) \/ RejectCompileCommands(r) \/ Raise(r) \/ DispatchRaises(r)
           \/ DispatchReturns(r)
  BY <1>2 DEF Begin, RejectCompileCommands, Raise, DispatchRaises, DispatchReturns, world,
     database, session, transaction
<1>3. CASE ScopeRun(r)
  BY <1>3 DEF ScopeRun, world, transaction
<1>4. CASE \E e \in Entries : StartUnit(r, e) \/ SelectUnit(r, e) \/ SelectFindsTwo(r, e)
  BY <1>4 DEF StartUnit, SelectUnit, SelectFindsTwo, world, database, transaction
<1>5. CASE ParseUnit(r) \/ ParseUnitFails(r)
  BY <1>5 DEF ParseUnit, ParseUnitFails, world, transaction
<1>6. CASE FlushUnit(r) \/ CommitResults(r) \/ HandleError(r)
  BY <1>6 DEF FlushUnit, CommitResults, HandleError, world, database
<1>7. CASE FinishDelete(r) \/ \E f \in Sources : StartDelete(r, f)
  BY <1>7 DEF FinishDelete, StartDelete, world, database
<1>9. CASE Complete(r)
  <2>1. \A q \in Runs \ {r}, f \in Sources : index'[q][f] \in {index[q][f], None}
    BY <1>9 DEF Complete
  <2>2. UNCHANGED <<delivered, tu, hashes, affected, unit, artifact, saved, pending, flushed>>
    BY <1>9 DEF Complete, world
  <2>3. \A q \in Runs \ {r} : run'[q] = run[q] /\ pc'[q] = pc[q]
    BY <1>9 DEF Complete
  <2> QED
    BY <2>1, <2>2, <2>3
<1>8. CASE RejectManifest(r)
  BY <1>8 DEF RejectManifest, LoseTasks, world, database
<1> QED
  BY <1>1, <1>2, <1>3, <1>4, <1>5, <1>6, <1>7, <1>8, <1>9 DEF TaskStep

-------------------------------------------------------------------------------
(* Announcements                                                           *)

(* A step that leaves the units and what is saved and flushed alone.       *)
LEMMA FindingsStay ==
  ASSUME TypeInv, RowsStay, NEW q \in Runs, KeepsUnits(q), FindingsAreKept(q),
         saved'[q] = saved[q], flushed'[q] = flushed[q],
         pc[q] # "dead", pc'[q] # "flush",
         pc'[q] = "commit" => Unsaved(q) = {},
         pc'[q] \in {"announce_results", "reindex", "delete", "announce_done"}
           \/ run'[q].status = "completed" => Settled(q)
  PROVE  FindingsAreKept(q)'
<1>1. Settled(q) => Settled(q)'
  BY SettledStays
<1>2. \A e \in Parsed(q) : \A fp \in Found(q, e) : Stored(fp) => Stored(fp)'
  BY FoundTyped, StoredStays DEF TypeInv
<1>3. /\ Parsed(q)' = Parsed(q) /\ Unsaved(q)' = Unsaved(q) /\ Parsed(q) \subseteq Entries
      /\ \A e \in Entries : Found(q, e)' = Found(q, e)
  BY DEF Parsed, Unsaved, Found, KeepsUnits
<1> QED
  BY <1>1, <1>2, <1>3 DEF FindingsAreKept

(* Where an announcement takes the task.                                   *)
Announces(r) ==
  \/ pc[r] = "announce_start" /\ pc'[r] = "load"
  \/ pc[r] = "announce_unit" /\ pc'[r] = "rpc"
  \/ pc[r] = "announce_parsed" /\ pc'[r] = "parse"
  \/ pc[r] = "announce_parsed" /\ pc'[r] = "announce_rules" /\ Remaining(r) = {}
  \/ pc[r] = "announce_parsed" /\ pc'[r] = "reindex" /\ Remaining(r) = {}
     /\ (RulesEnabled => Parsed(r) = {})
  \/ pc[r] = "announce_rules" /\ pc'[r] = "rules"
  \/ pc[r] = "announce_results" /\ pc'[r] = "reindex"
  \/ pc[r] \in {"announce_invalid", "announce_done", "announce_failed"} /\ pc'[r] = "end"
  \/ /\ pc[r] \in {"announce_start", "announce_invalid", "announce_unit", "announce_parsed",
                   "announce_rules", "announce_results", "announce_done"}
     /\ pc'[r] = "handle"

(* What an announcement may say when the task of r makes it.               *)
MaySay(r, events) ==
  /\ events \subseteq Events
  /\ <<"analysis.failed", "run">> \in events =>
       pc[r] \in {"announce_invalid", "announce_failed"}
  /\ <<"analysis.completed", "run">> \in events => pc[r] = "announce_done"
  /\ \A fp \in Fingerprints : <<"violation.detected", fp>> \in events =>
       pc[r] = "announce_results" /\ FoundBy(r, fp)
  /\ \A e \in Entries :
       /\ <<"translation_unit.started", e>> \in events => pc[r] = "announce_unit" /\ e = unit[r]
       /\ <<"translation_unit.completed", e>> \in events =>
            pc[r] = "announce_parsed" /\ e = unit[r]

SaysWhatIsSo(r) == \E sent : delivered'[r] = delivered[r] \cup sent /\ MaySay(r, sent)

(* A publish that fails may still have delivered some of the events.       *)
LEMMA PublishSteps ==
  ASSUME TypeOK, NEW r \in Runs, NEW events, NEW next, NEW onError,
         Publish(r, events, next, onError), MaySay(r, events)
  PROVE  /\ KeepsUnits(r) /\ KeepsIndex(r) /\ run'[r] = run[r]
         /\ unit'[r] = unit[r] /\ saved'[r] = saved[r]
         /\ pending'[r] = pending[r] /\ flushed'[r] = flushed[r]
         /\ pc'[r] \in {next, onError}
         /\ SaysWhatIsSo(r)
<1>1. UNCHANGED <<run, tu, index, hashes, affected, unit, artifact, saved, pending, flushed>>
  BY DEF Publish, database, session, transaction
<1>2. pc'[r] \in {next, onError}
  BY DEF Publish, Goto, TypeOK
<1>3. PICK sent \in SUBSET events : delivered' = [delivered EXCEPT ![r] = @ \cup sent]
  BY DEF Publish
<1>4. delivered'[r] = delivered[r] \cup sent
  BY <1>3 DEF TypeOK
<1>5. MaySay(r, sent)
  BY <1>3 DEF MaySay
<1> QED
  BY <1>1, <1>2, <1>4, <1>5 DEF KeepsUnits, KeepsIndex, SaysWhatIsSo

LEMMA AnnouncementsMove ==
  ASSUME TypeInv, NEW r \in Runs,
         \/ AnnounceStart(r) \/ AnnounceInvalid(r) \/ AnnounceUnit(r)
         \/ AnnounceParsed(r) \/ AnnounceRules(r) \/ AnnounceResults(r)
         \/ AnnounceDone(r) \/ AnnounceFailed(r)
  PROVE  /\ KeepsUnits(r) /\ KeepsIndex(r) /\ run'[r] = run[r]
         /\ unit'[r] = unit[r] /\ saved'[r] = saved[r]
         /\ pending'[r] = pending[r] /\ flushed'[r] = flushed[r]
         /\ Announces(r) /\ SaysWhatIsSo(r)
<1>1. CASE AnnounceStart(r)
  <2>1. pc[r] = "announce_start" /\ Publish(r, {<<"analysis.started", "run">>}, "load", "handle")
    BY <1>1 DEF AnnounceStart, At
  <2>2. MaySay(r, {<<"analysis.started", "run">>})
    BY <2>1 DEF MaySay, Events
  <2> QED
    BY <2>1, <2>2, PublishSteps DEF TypeInv, Announces
<1>2. CASE AnnounceInvalid(r)
  <2>1. pc[r] = "announce_invalid" /\ Publish(r, {<<"analysis.failed", "run">>}, "end", "handle")
    BY <1>2 DEF AnnounceInvalid, At
  <2>2. MaySay(r, {<<"analysis.failed", "run">>})
    BY <2>1 DEF MaySay, Events
  <2> QED
    BY <2>1, <2>2, PublishSteps DEF TypeInv, Announces
<1>3. CASE AnnounceUnit(r)
  <2>1. pc[r] = "announce_unit" /\ Publish(r, {<<"translation_unit.started", unit[r]>>}, "rpc", "handle")
    BY <1>3 DEF AnnounceUnit, At
  <2>2. MaySay(r, {<<"translation_unit.started", unit[r]>>})
    BY <2>1 DEF MaySay, Events, TypeInv, UnitInHand
  <2> QED
    BY <2>1, <2>2, PublishSteps DEF TypeInv, Announces
<1>4. CASE AnnounceParsed(r)
  <2>1. PICK next :
          /\ pc[r] = "announce_parsed" /\ Publish(r, {<<"translation_unit.completed", unit[r]>>}, next, "handle")
          /\ next = IF Remaining(r) # {} THEN "parse"
                    ELSE IF RulesEnabled /\ Parsed(r) # {} THEN "announce_rules" ELSE "reindex"
    BY <1>4 DEF AnnounceParsed, At
  <2>2. MaySay(r, {<<"translation_unit.completed", unit[r]>>})
    BY <2>1 DEF MaySay, Events, TypeInv, UnitInHand
  <2> QED
    BY <2>1, <2>2, PublishSteps DEF TypeInv, Announces
<1>5. CASE AnnounceRules(r)
  <2>1. pc[r] = "announce_rules" /\ Publish(r, {<<"rules.started", "run">>}, "rules", "handle")
    BY <1>5 DEF AnnounceRules, At
  <2>2. MaySay(r, {<<"rules.started", "run">>})
    BY <2>1 DEF MaySay, Events
  <2> QED
    BY <2>1, <2>2, PublishSteps DEF TypeInv, Announces
<1>6. CASE AnnounceResults(r)
  <2> DEFINE found == UNION {Found(r, e) : e \in Parsed(r)}
             results == {<<"rules.completed", "run">>} \cup ({"violation.detected"} \X found)
  <2>1. found \subseteq Fingerprints /\ \A fp \in found : FoundBy(r, fp)
    BY FoundTyped DEF TypeInv, FoundBy, Found, Parsed
  <2>2. pc[r] = "announce_results" /\ Publish(r, results, "reindex", "handle")
    BY <1>6 DEF AnnounceResults, At
  <2>3. MaySay(r, results)
    BY <2>1, <2>2 DEF MaySay, Events
  <2> HIDE DEF results
  <2> QED
    BY <2>2, <2>3, PublishSteps DEF TypeInv, Announces
<1>7. CASE AnnounceDone(r)
  <2>1. pc[r] = "announce_done" /\ Publish(r, {<<"analysis.completed", "run">>}, "end", "handle")
    BY <1>7 DEF AnnounceDone, At
  <2>2. MaySay(r, {<<"analysis.completed", "run">>})
    BY <2>1 DEF MaySay, Events
  <2> QED
    BY <2>1, <2>2, PublishSteps DEF TypeInv, Announces
<1>8. CASE AnnounceFailed(r)
  <2>1. pc[r] = "announce_failed" /\ Publish(r, {<<"analysis.failed", "run">>}, "end", "end")
    BY <1>8 DEF AnnounceFailed, At
  <2>2. MaySay(r, {<<"analysis.failed", "run">>})
    BY <2>1 DEF MaySay, Events
  <2> QED
    BY <2>1, <2>2, PublishSteps DEF TypeInv, Announces
<1> QED
  BY <1>1, <1>2, <1>3, <1>4, <1>5, <1>6, <1>7, <1>8

LEMMA AnnouncementsKeep ==
  ASSUME TypeInv, RowsStay, NEW r \in Runs, RunInv(r),
         \/ AnnounceStart(r) \/ AnnounceInvalid(r) \/ AnnounceUnit(r)
         \/ AnnounceParsed(r) \/ AnnounceRules(r) \/ AnnounceResults(r)
         \/ AnnounceDone(r) \/ AnnounceFailed(r)
  PROVE  RunInv(r)'
<1>1. /\ KeepsUnits(r) /\ KeepsIndex(r) /\ run'[r] = run[r]
      /\ unit'[r] = unit[r] /\ saved'[r] = saved[r]
      /\ pending'[r] = pending[r] /\ flushed'[r] = flushed[r]
      /\ Announces(r) /\ SaysWhatIsSo(r)
  BY AnnouncementsMove
<1> USE <1>1 DEF RunInv
<1>2. StatusAtStep(r)'
  BY DEF StatusAtStep, Announces, Parsing, Concluding
<1>3. UnitsAtStep(r)'
  <2>1. Remaining(r) = {} /\ pc[r] = "announce_parsed" => Handled(r)
    BY DEF UnitsAtStep, Remaining, Handled, HandledUnits, Stopping, TypeInv, TypeOK, UnitStatuses
  <2>2. Handled(r) => Handled(r)'
    BY HandledStays
  <2> QED
    BY <2>1, <2>2 DEF UnitsAtStep, Announces, KeepsUnits, Scoping, Parsing, Concluding, Stopping
<1>4. CountsAgree(r)' /\ HeldAreFindings(r)'
  BY CountsStay, HeldStays DEF TypeInv
<1>5. FindingsAreKept(r)'
  <2>1. (RulesEnabled => Parsed(r) = {}) => Settled(r)
    <3>1. ASSUME NEW e \in Entries, artifact[r][e] # None
          PROVE  artifact[r][e][FileOf[e]] \in Versions
      BY <3>1, FilesOfEntries DEF TypeInv, TypeOK
    <3> QED
      BY <3>1, ConstantsAssumption DEF Settled, Parsed, FoundBy
  <2> QED
    BY <2>1, FindingsStay DEF FindingsAreKept, Announces
<1>6. AnnouncedIsSo(r)'
  <2>1. PICK sent : delivered'[r] = delivered[r] \cup sent /\ MaySay(r, sent)
    BY DEF SaysWhatIsSo
  <2>2. /\ pc[r] = "announce_results" => Settled(r)
        /\ pc[r] = "announce_done" => Settled(r)
    BY DEF FindingsAreKept
  <2>3. Settled(r) => Settled(r)'
    BY SettledStays
  <2>4. \A fp \in Fingerprints : Stored(fp) => Stored(fp)'
    BY StoredStays
  <2> QED
    BY <2>1, <2>2, <2>3, <2>4 DEF AnnouncedIsSo, MaySay, KeepsUnits, Settled, StatusAtStep,
       UnitsAtStep
<1>7. IndexedIsSo(r)'
  BY IndexedStays DEF Announces, Stopping
<1> QED
  BY <1>2, <1>3, <1>4, <1>5, <1>6, <1>7

-------------------------------------------------------------------------------
(* Steps that write the run's record, move the task or scope the run       *)

(* The record changes its status or type, the session stays.               *)
LEMMA RecordKeeps ==
  ASSUME TypeInv, RowsStay, NEW r \in Runs, RunInv(r),
         \/ \E type \in RunTypes : StartAnalysisRun(r, type)
         \/ Begin(r) \/ RejectCompileCommands(r) \/ Raise(r)
  PROVE  RunInv(r)'
<1>1. /\ UNCHANGED <<delivered, tu, index, hashes, affected, unit, artifact, saved, pending, flushed>>
      /\ run'[r].parsed = run[r].parsed /\ run'[r].failed = run[r].failed
      /\ pc[r] # "none" => run'[r].type = run[r].type
      /\ \/ pc[r] = "none" /\ pc'[r] = "begin" /\ run'[r].status = "queued"
         \/ pc[r] = "begin" /\ pc'[r] = "announce_start" /\ run'[r].status = "running"
         \/ pc[r] = "load" /\ pc'[r] = "announce_invalid" /\ run'[r].status = "failed"
         \/ pc[r] \in {"load", "rpc", "rules"} /\ pc'[r] = "handle" /\ run'[r].status = run[r].status
  <2>1. run[r] \in RunRecord
    BY DEF TypeInv, TypeOK
  <2>2. CASE \E type \in RunTypes : StartAnalysisRun(r, type)
    <3>1. PICK type \in RunTypes : StartAnalysisRun(r, type)
      BY <2>2
    <3>2. run'[r] = [run[r] EXCEPT !.type = type, !.status = "queued"]
      BY <3>1 DEF StartAnalysisRun, TypeInv, TypeOK
    <3>3. /\ run'[r].status = "queued"
          /\ run'[r].parsed = run[r].parsed /\ run'[r].failed = run[r].failed
      BY <2>1, <3>2 DEF RunRecord
    <3> QED
      BY <3>1, <3>3 DEF StartAnalysisRun, At, Goto, TypeInv, TypeOK, world, session, transaction
  <2>3. CASE Begin(r)
    BY <2>1, <2>3 DEF Begin, SetStatus, At, Goto, TypeInv, TypeOK, RunRecord, world, session,
       transaction
  <2>4. CASE RejectCompileCommands(r)
    BY <2>1, <2>4 DEF RejectCompileCommands, SetStatus, At, Goto, TypeInv, TypeOK, RunRecord,
       world, session, transaction
  <2>5. CASE Raise(r)
    BY <2>5 DEF Raise, At, Goto, TypeInv, TypeOK, world, database, session, transaction
  <2> QED
    BY <2>2, <2>3, <2>4, <2>5
<1>2. KeepsUnits(r) /\ KeepsIndex(r)
  BY <1>1 DEF KeepsUnits, KeepsIndex
<1> USE <1>1, <1>2 DEF RunInv
<1>3. StatusAtStep(r)'
  BY DEF StatusAtStep, Parsing, Concluding
<1>4. UnitsAtStep(r)'
  BY DEF UnitsAtStep, StatusAtStep, KeepsUnits, Scoping, Parsing, Concluding, Stopping
<1>5. CountsAgree(r)' /\ HeldAreFindings(r)'
  BY CountsStay, HeldStays DEF TypeInv
<1>6. FindingsAreKept(r)'
  <2>1. pc[r] # "dead" /\ run'[r].status # "completed"
    BY DEF StatusAtStep, Parsing, Concluding
  <2> QED
    BY <2>1, FindingsStay
<1>7. AnnouncedIsSo(r)' /\ IndexedIsSo(r)'
  BY AnnouncedStays, IndexedStays DEF StatusAtStep, Stopping, Parsing, Concluding
<1> QED
  BY <1>3, <1>4, <1>5, <1>6, <1>7

LEMMA ScopeKeeps ==
  ASSUME TypeInv, RowsStay, NEW r \in Runs, RunInv(r), ScopeRun(r)
  PROVE  RunInv(r)'
<1>1. PICK scope \in SUBSET Sources :
        /\ affected'[r] = scope
        /\ run[r].type = "full" => scope = Sources
        /\ pc[r] = "load" /\ pc'[r] = (IF scope = {} THEN "reindex" ELSE "parse")
        /\ run'[r].status = run[r].status /\ run'[r].type = run[r].type
        /\ run'[r].parsed = run[r].parsed /\ run'[r].failed = run[r].failed
  <2> DEFINE current == [f \in Sources |-> disk[f]]
  <2>1. run[r] \in RunRecord
    BY DEF TypeInv, TypeOK
  <2>2. PICK scope :
          /\ affected' = [affected EXCEPT ![r] = scope]
          /\ run' = [run EXCEPT ![r].total = Cardinality(scope)]
          /\ Goto(r, IF scope = {} THEN "reindex" ELSE "parse")
          /\ \/ scope = Sources
             \/ /\ run[r].type = "incremental_with_base"
                /\ \E C, G : scope = AffectedUnits(C, G, Sources)
    BY DEF ScopeRun
  <2>3. \A C, G : AffectedUnits(C, G, Sources) \subseteq Sources
    BY DEF AffectedUnits
  <2>4. scope \subseteq Sources
    BY <2>2, <2>3
  <2>5. affected'[r] = scope /\ pc'[r] = (IF scope = {} THEN "reindex" ELSE "parse")
    BY <2>2 DEF Goto, TypeInv, TypeOK
  <2>6. /\ run'[r].status = run[r].status /\ run'[r].type = run[r].type
        /\ run'[r].parsed = run[r].parsed /\ run'[r].failed = run[r].failed
    BY <2>1, <2>2 DEF TypeInv, TypeOK, RunRecord
  <2> QED
    BY <2>2, <2>4, <2>5, <2>6 DEF ScopeRun, At
<1>2. UNCHANGED <<delivered, tu, index, unit, artifact, saved, pending, flushed>>
  BY DEF ScopeRun, world, transaction
<1> USE <1>1, <1>2 DEF RunInv
<1>3. /\ \A e \in Entries : tu[r][e] = "absent" /\ artifact[r][e] = None
      /\ run[r].status = "running" /\ \A f \in Sources : index[r][f] = None
  BY DEF UnitsAtStep, Scoping, StatusAtStep, IndexedIsSo, Stopping
<1>4. StatusAtStep(r)'
  BY DEF StatusAtStep, Parsing, Concluding
<1>5. UnitsAtStep(r)'
  BY <1>3 DEF UnitsAtStep, Handled, HandledUnits, Scoping, Parsing, Concluding, Stopping
<1>6. CountsAgree(r)'
  BY DEF CountsAgree
<1>7. HeldAreFindings(r)'
  BY <1>3 DEF HeldAreFindings, FoundBy
<1>8. FindingsAreKept(r)'
  BY <1>3 DEF FindingsAreKept, Parsed, Settled, FoundBy
<1>9. AnnouncedIsSo(r)'
  BY <1>3, StoredStays DEF AnnouncedIsSo
<1>10. IndexedIsSo(r)'
  BY <1>3 DEF IndexedIsSo
<1> QED
  BY <1>4, <1>5, <1>6, <1>7, <1>8, <1>9, <1>10

(* Steps of the task alone: the rules are executed, index rows are marked  *)
(* for deletion.                                                           *)
LEMMA MovesKeep ==
  ASSUME TypeInv, RowsStay, NEW r \in Runs, RunInv(r),
         \/ DispatchRaises(r) \/ DispatchReturns(r)
         \/ FinishDelete(r) \/ \E f \in Sources : StartDelete(r, f)
  PROVE  RunInv(r)'
<1>1. /\ UNCHANGED <<delivered, run, tu, index, hashes, affected, unit, artifact, saved,
                     pending, flushed>>
      /\ \/ pc[r] = "rules" /\ pc'[r] = (IF Unsaved(r) # {} THEN "upsert" ELSE "commit")
         \/ pc[r] = "rules" /\ pc'[r] = "handle"
         \/ pc[r] = "reindex" /\ pc'[r] = "delete"
         \/ pc[r] = "delete" /\ pc'[r] = "reindex"
  BY DEF DispatchRaises, DispatchReturns, FinishDelete, StartDelete, At, Goto, TypeInv, TypeOK,
     world, database, session, transaction
<1>2. KeepsUnits(r) /\ KeepsIndex(r)
  BY <1>1 DEF KeepsUnits, KeepsIndex
<1> USE <1>1, <1>2 DEF RunInv
<1>3. StatusAtStep(r)'
  BY DEF StatusAtStep, Parsing, Concluding
<1>4. UnitsAtStep(r)'
  BY HandledStays DEF UnitsAtStep, KeepsUnits, Scoping, Parsing, Concluding, Stopping
<1>5. CountsAgree(r)' /\ HeldAreFindings(r)'
  BY CountsStay, HeldStays DEF TypeInv
<1>6. FindingsAreKept(r)'
  BY FindingsStay DEF FindingsAreKept, StatusAtStep, Concluding
<1>7. AnnouncedIsSo(r)' /\ IndexedIsSo(r)'
  BY AnnouncedStays, IndexedStays DEF Stopping
<1> QED
  BY <1>3, <1>4, <1>5, <1>6, <1>7

-------------------------------------------------------------------------------
(* Parsing                                                                 *)

LEMMA EntriesAreFinite == IsFiniteSet(Entries)
BY ConstantsAssumption

LEMMA StartUnitKeeps ==
  ASSUME TypeInv, RowsStay, NEW r \in Runs, RunInv(r), NEW u \in Entries, StartUnit(r, u)
  PROVE  RunInv(r)'
<1>1. UNCHANGED <<delivered, run, index, hashes, affected, artifact, saved, pending, flushed>>
  BY DEF StartUnit, world, transaction
<1>2. /\ pc[r] = "parse" /\ pc'[r] = "announce_unit" /\ unit'[r] = u
      /\ FileOf[u] \in affected[r] /\ tu[r][u] = "absent"
      /\ \A e \in Entries : tu'[r][e] = IF e = u THEN "parsing" ELSE tu[r][e]
  BY DEF StartUnit, Remaining, At, Goto, TypeInv, TypeOK
<1> USE <1>1, <1>2 DEF RunInv
<1>3. StatusAtStep(r)' /\ run[r].status = "running" /\ \A f \in Sources : index[r][f] = None
  BY DEF StatusAtStep, Parsing, Concluding, IndexedIsSo, Stopping
<1>4. UnitsAtStep(r)'
  BY <1>3 DEF UnitsAtStep, Scoping, Parsing, Concluding, Stopping
<1>5. CountsAgree(r)'
  <2>1. \A s \in {"completed", "failed"} :
          {e \in Entries : tu'[r][e] = s} = {e \in Entries : tu[r][e] = s}
    OBVIOUS
  <2> QED
    BY <2>1 DEF CountsAgree
<1>6. HeldAreFindings(r)'
  BY DEF HeldAreFindings, FoundBy, RowsStay, TypeInv, TypeOK
<1>7. FindingsAreKept(r)'
  <2>1. \A e \in Parsed(r) : \A fp \in Found(r, e) : Stored(fp) => Stored(fp)'
    BY FoundTyped, StoredStays DEF TypeInv
  <2>2. Parsed(r)' = Parsed(r) /\ Parsed(r) \subseteq Entries /\ \A e \in Entries : Found(r, e)' = Found(r, e)
    BY DEF Parsed, Found
  <2> QED
    BY <1>3, <2>1, <2>2 DEF FindingsAreKept
<1>8. AnnouncedIsSo(r)'
  BY <1>3, StoredStays DEF AnnouncedIsSo
<1>9. IndexedIsSo(r)'
  BY <1>3 DEF IndexedIsSo
<1> QED
  BY <1>3, <1>4, <1>5, <1>6, <1>7, <1>8, <1>9

(* One more unit has a given final status.                                 *)
LEMMA OneMoreUnit ==
  ASSUME NEW A \in SUBSET Entries, NEW u \in Entries \ A, NEW n, n = Cardinality(A)
  PROVE  n + 1 = Cardinality(A \cup {u})
BY EntriesAreFinite, FS_Subset, FS_AddElement

LEMMA ParseKeeps ==
  ASSUME TypeInv, RowsStay, NEW r \in Runs, RunInv(r), ParseUnit(r) \/ ParseUnitFails(r)
  PROVE  RunInv(r)'
<1>1. UNCHANGED <<delivered, index, hashes, affected, unit, saved, pending, flushed>>
  BY DEF ParseUnit, ParseUnitFails, world, transaction
<1> DEFINE u == unit[r]
<1>2. u \in Entries /\ pc[r] = "rpc" /\ pc'[r] = "announce_parsed" /\ tu[r][u] = "parsing"
  BY DEF ParseUnit, ParseUnitFails, TypeInv, TypeOK, UnitInHand, RunInv, UnitsAtStep, At, Goto
<1>3. /\ \/ tu'[r][u] = "completed" /\ artifact'[r][u] # None /\ run'[r].failed = run[r].failed
            /\ run'[r].parsed = run[r].parsed + 1
         \/ tu'[r][u] = "failed" /\ artifact'[r][u] = artifact[r][u]
            /\ run'[r].parsed = run[r].parsed /\ run'[r].failed = run[r].failed + 1
      /\ \A e \in Entries \ {u} : tu'[r][e] = tu[r][e] /\ artifact'[r][e] = artifact[r][e]
      /\ run'[r].status = run[r].status /\ run'[r].type = run[r].type
  <2>1. run[r] \in RunRecord
    BY DEF TypeInv, TypeOK
  <2>2. CASE ParseUnit(r)
    <3>1. /\ tu'[r][u] = "completed" /\ artifact'[r][u] = disk
          /\ \A e \in Entries \ {u} : tu'[r][e] = tu[r][e] /\ artifact'[r][e] = artifact[r][e]
      BY <1>2, <2>2 DEF ParseUnit, TypeInv, TypeOK
    <3>2. disk # None
      BY ConstantsAssumption DEF TypeInv, TypeOK
    <3>3. /\ run'[r].status = run[r].status /\ run'[r].type = run[r].type
          /\ run'[r].failed = run[r].failed /\ run'[r].parsed = run[r].parsed + 1
      BY <2>1, <2>2 DEF ParseUnit, TypeInv, TypeOK, RunRecord
    <3> QED
      BY <3>1, <3>2, <3>3
  <2>3. CASE ParseUnitFails(r)
    <3>1. /\ tu'[r][u] = "failed" /\ artifact' = artifact
          /\ \A e \in Entries \ {u} : tu'[r][e] = tu[r][e]
      BY <1>2, <2>3 DEF ParseUnitFails, TypeInv, TypeOK
    <3>2. /\ run'[r].status = run[r].status /\ run'[r].type = run[r].type
          /\ run'[r].parsed = run[r].parsed /\ run'[r].failed = run[r].failed + 1
      BY <2>1, <2>3 DEF ParseUnitFails, TypeInv, TypeOK, RunRecord
    <3> QED
      BY <3>1, <3>2
  <2> QED
    BY <2>2, <2>3
<1> HIDE DEF u
<1> USE <1>1, <1>2, <1>3 DEF RunInv
<1>4. /\ StatusAtStep(r)' /\ run[r].status = "running"
      /\ artifact[r][u] = None /\ \A f \in Sources : index[r][f] = None
  BY DEF StatusAtStep, UnitsAtStep, Parsing, Concluding, IndexedIsSo, Stopping
<1>5. UnitsAtStep(r)'
  BY <1>4 DEF UnitsAtStep, Scoping, Parsing, Concluding, Stopping, u
<1>6. CountsAgree(r)'
  <2> DEFINE With(s) == {e \in Entries : tu[r][e] = s}
             WithNow(s) == {e \in Entries : tu'[r][e] = s}
  <2>1. ASSUME NEW s \in {"completed", "failed"}
        PROVE  /\ With(s) \in SUBSET Entries /\ u \notin With(s)
               /\ WithNow(s) = IF tu'[r][u] = s THEN With(s) \cup {u} ELSE With(s)
    BY <2>1
  <2>2. run[r].parsed = Cardinality(With("completed")) /\ run[r].failed = Cardinality(With("failed"))
    BY DEF CountsAgree
  <2> HIDE DEF With, WithNow
  <2>3. run'[r].parsed = Cardinality(WithNow("completed"))
    BY <2>1, <2>2, OneMoreUnit
  <2>4. run'[r].failed = Cardinality(WithNow("failed"))
    BY <2>1, <2>2, OneMoreUnit
  <2> QED
    BY <2>3, <2>4 DEF CountsAgree, WithNow
<1>7. \A e \in Entries : artifact[r][e] # None => artifact'[r][e] = artifact[r][e]
  BY <1>4
<1>8. HeldAreFindings(r)'
  BY <1>7 DEF HeldAreFindings, FoundBy, RowsStay, TypeInv, TypeOK
<1>9. FindingsAreKept(r)'
  <2>1. \A e \in Parsed(r) : \A fp \in Found(r, e) : Stored(fp) => Stored(fp)'
    BY FoundTyped, StoredStays DEF TypeInv
  <2>2. /\ \A e \in Parsed(r) : e \in Parsed(r)' /\ Found(r, e)' = Found(r, e)
        /\ Parsed(r) \subseteq Entries
    BY <1>7 DEF Parsed, Found
  <2> QED
    BY <1>4, <2>1, <2>2 DEF FindingsAreKept
<1>10. AnnouncedIsSo(r)'
  BY <1>4, StoredStays DEF AnnouncedIsSo
<1>11. IndexedIsSo(r)'
  BY <1>4 DEF IndexedIsSo
<1> QED
  BY <1>4, <1>5, <1>6, <1>8, <1>9, <1>10, <1>11

-------------------------------------------------------------------------------
(* Upserts, commits and the end of the run                                 *)

(* What an upsert of findings touches are findings.                        *)
LEMMA TargetsAreFindings ==
  ASSUME NEW r \in Runs, NEW fps, \A fp \in fps : FoundBy(r, fp)
  PROVE  \A w \in Targets(r, fps) : FoundBy(r, w[2]) /\ (w[1] = r \/ rows[w] # None)
BY DEF Targets, Visible, RowIds

(* An upsert reaches every fingerprint it is given.                        *)
LEMMA TargetsCover ==
  ASSUME NEW r \in Runs, NEW fps \in SUBSET Fingerprints
  PROVE  \A fp \in fps : \E w \in Targets(r, fps) : w[2] = fp
<1> SUFFICES ASSUME NEW fp \in fps
             PROVE  \E w \in Targets(r, fps) : w[2] = fp
  OBVIOUS
<1>1. CASE Visible(r, fp) = {}
  <2>1. <<r, fp>> \in Targets(r, fps)
    BY <1>1 DEF Targets, RowIds
  <2> QED
    BY <2>1
<1>2. CASE Visible(r, fp) # {}
  <2>1. PICK c \in Visible(r, fp) : TRUE
    BY <1>2
  <2>2. <<c, fp>> \in Targets(r, fps)
    BY <2>1 DEF Targets, RowIds, Visible
  <2> QED
    BY <2>2
<1> QED
  BY <1>1, <1>2

LEMMA SelectKeeps ==
  ASSUME TypeInv, RowsStay, NEW r \in Runs, RunInv(r), NEW e \in Entries,
         SelectUnit(r, e) \/ SelectFindsTwo(r, e)
  PROVE  RunInv(r)'
<1>1. UNCHANGED <<delivered, run, tu, rows, index, hashes, affected, artifact, saved, flushed>>
  BY DEF SelectUnit, SelectFindsTwo, world, database
<1>2. PICK fps \in SUBSET Found(r, e) :
        /\ pc[r] = "upsert" /\ e \in Parsed(r) /\ pending'[r] = Targets(r, fps)
        /\ \/ fps = Found(r, e) /\ unit'[r] = e /\ pc'[r] = "flush"
           \/ unit'[r] = unit[r] /\ pc'[r] = "handle"
  <2>1. CASE SelectUnit(r, e)
    BY <2>1 DEF SelectUnit, Unsaved, At, Goto, TypeInv, TypeOK
  <2>2. CASE SelectFindsTwo(r, e)
    <3>1. PICK fps \in SUBSET Found(r, e) : pending' = [pending EXCEPT ![r] = Targets(r, fps)]
      BY <2>2 DEF SelectFindsTwo
    <3> QED
      BY <2>2, <3>1 DEF SelectFindsTwo, Unsaved, At, Goto, TypeInv, TypeOK
  <2> QED
    BY <2>1, <2>2
<1>3. /\ KeepsUnits(r) /\ KeepsIndex(r) /\ e \in Entries /\ Found(r, e) \subseteq Fingerprints
      /\ \A fp \in Found(r, e) : FoundBy(r, fp)
  BY <1>1, <1>2, FoundTyped DEF KeepsUnits, KeepsIndex, TypeInv, FoundBy, Found, Parsed
<1> USE <1>1, <1>2, <1>3 DEF RunInv
<1>4. StatusAtStep(r)' /\ run[r].status = "running"
  BY DEF StatusAtStep, Parsing, Concluding
<1>5. UnitsAtStep(r)'
  BY HandledStays DEF UnitsAtStep, KeepsUnits, Scoping, Parsing, Concluding, Stopping
<1>6. CountsAgree(r)'
  BY CountsStay
<1>7. HeldAreFindings(r)'
  <2>1. \A w \in Targets(r, fps) : FoundBy(r, w[2]) /\ (w[1] = r \/ rows[w] # None)
    BY TargetsAreFindings
  <2>2. \A fp : FoundBy(r, fp)' = FoundBy(r, fp)
    BY DEF FoundBy
  <2> QED
    BY <2>1, <2>2 DEF HeldAreFindings
<1>8. FindingsAreKept(r)'
  <2>1. /\ Parsed(r)' = Parsed(r) /\ \A u, fp : Found(r, u)' = Found(r, u) /\ Stored(fp)' = Stored(fp)
    BY DEF Parsed, Found, Stored
  <2>2. pc'[r] = "flush" => \A fp \in Found(r, e) : \E w \in pending'[r] : w[2] = fp
    BY TargetsCover
  <2> QED
    BY <1>4, <2>1, <2>2 DEF FindingsAreKept
<1>9. AnnouncedIsSo(r)' /\ IndexedIsSo(r)'
  BY AnnouncedStays, IndexedStays DEF Stopping
<1> QED
  BY <1>4, <1>5, <1>6, <1>7, <1>8, <1>9

LEMMA FlushKeeps ==
  ASSUME TypeInv, RowsStay, NEW r \in Runs, RunInv(r), FlushUnit(r)
  PROVE  RunInv(r)'
<1>1. UNCHANGED <<delivered, run, tu, rows, index, hashes, affected, unit, artifact>>
  BY DEF FlushUnit, world, database
<1>2. /\ pc[r] = "flush" /\ unit[r] \in Entries
      /\ pc'[r] = (IF Unsaved(r) \ {unit[r]} # {} THEN "upsert" ELSE "commit")
      /\ flushed'[r] = flushed[r] \cup pending[r] /\ pending'[r] = {}
      /\ saved'[r] = saved[r] \cup {unit[r]}
  BY DEF FlushUnit, At, Goto, TypeInv, TypeOK, UnitInHand
<1>3. KeepsUnits(r) /\ KeepsIndex(r)
  BY <1>1 DEF KeepsUnits, KeepsIndex
<1> USE <1>1, <1>2, <1>3 DEF RunInv
<1>4. StatusAtStep(r)' /\ run[r].status = "running"
  BY DEF StatusAtStep, Parsing, Concluding
<1>5. UnitsAtStep(r)'
  BY HandledStays DEF UnitsAtStep, KeepsUnits, Scoping, Parsing, Concluding, Stopping
<1>6. CountsAgree(r)' /\ HeldAreFindings(r)'
  BY CountsStay, HeldStays DEF TypeInv
<1>7. FindingsAreKept(r)'
  <2>1. /\ Parsed(r)' = Parsed(r) /\ Unsaved(r)' = Unsaved(r) \ {unit[r]}
        /\ \A u, fp : Found(r, u)' = Found(r, u) /\ Stored(fp)' = Stored(fp)
    BY DEF Parsed, Unsaved, Found, Stored
  <2> QED
    BY <1>4, <2>1 DEF FindingsAreKept
<1>8. AnnouncedIsSo(r)' /\ IndexedIsSo(r)'
  BY AnnouncedStays, IndexedStays DEF Stopping
<1> QED
  BY <1>4, <1>5, <1>6, <1>7, <1>8

(* A commit turns what was flushed into rows.                              *)
LEMMA WrittenIsStored ==
  ASSUME TypeOK, NEW r \in Runs, NEW W \in SUBSET RowIds, rows' = Written(r, W), NEW w \in W
  PROVE  rows'[w] # None /\ rows'[w].owner = r /\ Stored(w[2])'
<1>1. rows'[w] = Upserted(rows[w], r) /\ (rows[w] = None \/ rows[w] \in Row)
  BY DEF Written, TypeOK
<1>2. Upserted(rows[w], r) \in Row /\ Upserted(rows[w], r).owner = r
  BY <1>1 DEF Upserted, Row
<1>3. rows'[w] # None /\ w[1] \in Runs /\ w = <<w[1], w[2]>>
  BY <1>1, <1>2, ConstantsAssumption DEF RowIds
<1> QED
  BY <1>1, <1>2, <1>3 DEF Stored

LEMMA CommitKeeps ==
  ASSUME TypeInv, RowsStay, NEW r \in Runs, RunInv(r), CommitResults(r)
  PROVE  RunInv(r)'
<1>1. UNCHANGED <<delivered, run, tu, index, hashes, affected, unit, artifact, saved, pending>>
  BY DEF CommitResults, world
<1>2. /\ pc[r] = "commit" /\ pc'[r] = "announce_results" /\ flushed'[r] = {}
      /\ rows' = Written(r, flushed[r]) /\ flushed[r] \subseteq RowIds
  BY DEF CommitResults, At, Goto, TypeInv, TypeOK
<1>3. KeepsUnits(r) /\ KeepsIndex(r)
  BY <1>1 DEF KeepsUnits, KeepsIndex
<1> USE <1>1, <1>2, <1>3 DEF RunInv
<1>4. StatusAtStep(r)' /\ run[r].status = "running"
  BY DEF StatusAtStep, Parsing, Concluding
<1>5. UnitsAtStep(r)'
  BY HandledStays DEF UnitsAtStep, KeepsUnits, Scoping, Parsing, Concluding, Stopping
<1>6. CountsAgree(r)' /\ HeldAreFindings(r)'
  BY CountsStay, HeldStays DEF TypeInv
<1>7. FindingsAreKept(r)'
  <2>1. Parsed(r)' = Parsed(r) /\ \A u : Found(r, u)' = Found(r, u)
    BY DEF Parsed, Found
  <2>2. \A w \in flushed[r] : Stored(w[2])'
    BY WrittenIsStored DEF TypeInv
  <2>3. \A e \in saved[r] : \A fp \in Found(r, e) : Stored(fp)'
    <3>1. \A e \in saved[r] : Found(r, e) \subseteq Fingerprints
      BY FoundTyped DEF FindingsAreKept, TypeInv
    <3> QED
      BY <2>2, <3>1, StoredStays DEF FindingsAreKept
  <2>4. Settled(r)'
    <3>1. \A e \in Parsed(r) : e \in saved[r] \/ Found(r, e) = {}
      BY DEF FindingsAreKept, Unsaved
    <3>2. ASSUME NEW fp \in Fingerprints, FoundBy(r, fp)'
          PROVE  \E e \in Parsed(r) : fp \in Found(r, e)
      BY <3>2 DEF FoundBy, Parsed, Found
    <3> QED
      BY <2>3, <3>1, <3>2 DEF Settled
  <2> QED
    BY <1>4, <2>1, <2>3, <2>4 DEF FindingsAreKept
<1>8. AnnouncedIsSo(r)' /\ IndexedIsSo(r)'
  BY AnnouncedStays, IndexedStays DEF Stopping
<1> QED
  BY <1>4, <1>5, <1>6, <1>7, <1>8

LEMMA HandleErrorKeeps ==
  ASSUME TypeInv, RowsStay, NEW r \in Runs, RunInv(r), HandleError(r)
  PROVE  RunInv(r)'
<1>1. UNCHANGED <<delivered, tu, index, hashes, affected, unit, artifact, saved>>
  BY DEF HandleError, world
<1>2. /\ pc[r] = "handle" /\ pc'[r] = "announce_failed"
      /\ flushed'[r] = {} /\ pending'[r] = {}
      /\ rows' = Written(r, flushed[r] \cup pending[r])
      /\ flushed[r] \subseteq RowIds /\ pending[r] \subseteq RowIds
  BY DEF HandleError, At, Goto, TypeInv, TypeOK
<1>3. /\ run'[r].status = "failed" /\ run'[r].type = run[r].type
      /\ run'[r].parsed = run[r].parsed /\ run'[r].failed = run[r].failed
  <2>1. run[r] \in RunRecord
    BY DEF TypeInv, TypeOK
  <2> QED
    BY <2>1 DEF HandleError, SetStatus, TypeInv, TypeOK, RunRecord
<1>4. KeepsUnits(r) /\ KeepsIndex(r)
  BY <1>1 DEF KeepsUnits, KeepsIndex
<1> USE <1>1, <1>2, <1>3, <1>4 DEF RunInv
<1>5. StatusAtStep(r)'
  BY DEF StatusAtStep, Parsing, Concluding
<1>6. UnitsAtStep(r)'
  BY DEF UnitsAtStep, KeepsUnits, Scoping, Parsing, Concluding, Stopping
<1>7. CountsAgree(r)' /\ HeldAreFindings(r)'
  BY CountsStay, HeldStays DEF TypeInv
<1>8. FindingsAreKept(r)'
  <2>1. Parsed(r)' = Parsed(r) /\ \A u : Found(r, u)' = Found(r, u)
    BY DEF Parsed, Found
  <2>2. \A w \in flushed[r] : Stored(w[2])'
    BY WrittenIsStored DEF TypeInv
  <2>3. \A e \in saved[r] : Found(r, e) \subseteq Fingerprints
    BY FoundTyped DEF FindingsAreKept, TypeInv
  <2>4. \A e \in saved[r] : \A fp \in Found(r, e) : Stored(fp)'
    BY <2>2, <2>3, StoredStays DEF FindingsAreKept
  <2> QED
    BY <2>1, <2>4 DEF FindingsAreKept
<1>9. AnnouncedIsSo(r)' /\ IndexedIsSo(r)'
  BY AnnouncedStays, IndexedStays DEF Stopping
<1> QED
  BY <1>5, <1>6, <1>7, <1>8, <1>9

LEMMA CompleteKeeps ==
  ASSUME TypeInv, RowsStay, NEW r \in Runs, RunInv(r), Complete(r)
  PROVE  RunInv(r)'
<1>1. UNCHANGED <<delivered, tu, hashes, affected, unit, artifact, saved, pending, flushed>>
  BY DEF Complete, world
<1>2. /\ pc[r] = "reindex" /\ pc'[r] = "announce_done" /\ run[r].type = "full"
      /\ \A f \in Sources : index'[r][f] = hashes[r][f]
  BY DEF Complete, At, Goto, TypeInv, TypeOK
<1>3. /\ run'[r].status = "completed" /\ run'[r].type = run[r].type
      /\ run'[r].parsed = run[r].parsed /\ run'[r].failed = run[r].failed
  <2>1. run[r] \in RunRecord
    BY DEF TypeInv, TypeOK
  <2> QED
    BY <2>1 DEF Complete, SetStatus, TypeInv, TypeOK, RunRecord
<1>4. KeepsUnits(r)
  BY <1>1 DEF KeepsUnits
<1> USE <1>1, <1>2, <1>3, <1>4 DEF RunInv
<1>5. StatusAtStep(r)' /\ run[r].status = "running"
  BY DEF StatusAtStep, Parsing, Concluding
<1>6. UnitsAtStep(r)' /\ Handled(r)
  BY HandledStays DEF UnitsAtStep, KeepsUnits, Scoping, Parsing, Concluding, Stopping
<1>7. CountsAgree(r)' /\ HeldAreFindings(r)'
  BY CountsStay, HeldStays DEF TypeInv
<1>8. Settled(r) /\ Settled(r)'
  BY SettledStays DEF FindingsAreKept
<1>9. FindingsAreKept(r)'
  BY <1>8, FindingsStay
<1>10. AnnouncedIsSo(r)'
  BY <1>5, AnnouncedStays
<1>11. IndexedIsSo(r)'
  <2>1. \A e \in Entries : tu[r][e] \in {"completed", "failed"}
    <3>1. affected[r] = Sources
      BY DEF UnitsAtStep, Concluding
    <3> QED
      BY <1>6, <3>1, FilesOfEntries DEF Handled, HandledUnits
  <2> QED
    BY <1>8, <2>1 DEF IndexedIsSo
<1> QED
  BY <1>5, <1>6, <1>7, <1>9, <1>10, <1>11

-------------------------------------------------------------------------------
(* A row changes its owner only to a run that found its violation          *)

(* Scopes, unit records and parsed contents change in three places.        *)
LEMMA WhoChangesUnits ==
  ASSUME [Next]_vars
  PROVE  \/ \E r \in Runs : ScopeRun(r)
         \/ \E r \in Runs, e \in Entries : StartUnit(r, e)
         \/ \E r \in Runs : ParseUnit(r) \/ ParseUnitFails(r)
         \/ UNCHANGED <<tu, artifact, affected, hashes>>
<1> DEFINE changes(r) ==
             ScopeRun(r) \/ ParseUnit(r) \/ ParseUnitFails(r) \/ \E e \in Entries : StartUnit(r, e)
           same == UNCHANGED <<tu, artifact, affected, hashes>>
<1>1. ASSUME NEW r \in Runs, TaskStep(r)
      PROVE  changes(r) \/ same
  <2>1. CASE \/ AnnounceStart(r) \/ AnnounceInvalid(r) \/ AnnounceUnit(r)
             \/ AnnounceParsed(r) \/ AnnounceRules(r) \/ AnnounceResults(r)
             \/ AnnounceDone(r) \/ AnnounceFailed(r)
    BY <2>1 DEF AnnounceStart, AnnounceInvalid, AnnounceUnit, AnnounceParsed,
       AnnounceRules, AnnounceResults, AnnounceDone, AnnounceFailed, Publish, session, database
  <2>2. CASE \/ Begin(r) \/ RejectCompileCommands(r)
             \/ \E e \in Entries : SelectUnit(r, e) \/ SelectFindsTwo(r, e)
             \/ Raise(r) \/ DispatchRaises(r) \/ DispatchReturns(r) \/ FlushUnit(r)
             \/ CommitResults(r) \/ HandleError(r) \/ \E f \in Sources : StartDelete(r, f)
             \/ FinishDelete(r) \/ Complete(r) \/ RejectManifest(r)
    BY <2>2 DEF Begin, RejectCompileCommands, SelectUnit, SelectFindsTwo, Raise, DispatchRaises,
       DispatchReturns, FlushUnit, CommitResults, HandleError, StartDelete, FinishDelete,
       Complete, RejectManifest, LoseTasks, session, database
  <2> QED
    BY <1>1, <2>1, <2>2 DEF TaskStep
<1>2. ASSUME NEW r \in Runs, NEW type \in RunTypes, StartAnalysisRun(r, type)
      PROVE  same
  BY <1>2 DEF StartAnalysisRun, session
<1>3. ASSUME NEW R, LoseTasks(R)
      PROVE  same
  BY <1>3 DEF LoseTasks, database
<1>4. ASSUME NEW f \in Files, NEW v \in Versions, EditFile(f, v)
      PROVE  same
  BY <1>4 DEF EditFile, session, database
<1>5. ASSUME NEW w \in RowIds, NEW status \in Statuses, ReviewViolation(w, status)
      PROVE  same
  BY <1>5 DEF ReviewViolation, session
<1>6. UNCHANGED vars => same
  BY DEF vars, session, database
<1> QED
  BY <1>1, <1>2, <1>3, <1>4, <1>5, <1>6 DEF Next, DatabaseFails, DeadlockVictim, Crash

(* A unit is parsed once: its record and its content are final.            *)
LEMMA FinishedUnitsStay ==
  ASSUME TypeInv, \A r \in Runs : RunInv(r), [Next]_vars, NEW q \in Runs, NEW e \in Entries
  PROVE  /\ tu[q][e] \in {"completed", "failed"} => tu'[q][e] = tu[q][e]
         /\ artifact[q][e] # None => artifact'[q][e] = artifact[q][e]
<1>1. ASSUME NEW r \in Runs, ParseUnit(r) \/ ParseUnitFails(r)
      PROVE  /\ tu[q][e] \in {"completed", "failed"} => tu'[q][e] = tu[q][e]
             /\ artifact[q][e] # None => artifact'[q][e] = artifact[q][e]
  <2>1. unit[r] \in Entries /\ tu[r][unit[r]] = "parsing" /\ artifact[r][unit[r]] = None
    BY <1>1 DEF ParseUnit, ParseUnitFails, At, TypeInv, UnitInHand, RunInv, UnitsAtStep
  <2>2. PICK status \in {"completed", "failed"} : tu' = [tu EXCEPT ![r][unit[r]] = status]
    BY <1>1 DEF ParseUnit, ParseUnitFails
  <2>3. artifact' = artifact \/ artifact' = [artifact EXCEPT ![r][unit[r]] = disk]
    BY <1>1 DEF ParseUnit, ParseUnitFails
  <2>4. /\ tu'[q][e] = tu[q][e] \/ (q = r /\ e = unit[r])
        /\ artifact'[q][e] = artifact[q][e] \/ (q = r /\ e = unit[r])
    BY <2>1, <2>2, <2>3 DEF TypeInv, TypeOK
  <2> QED
    BY <2>1, <2>4
<1>2. ASSUME NEW r \in Runs, NEW u \in Entries, StartUnit(r, u)
      PROVE  /\ tu[q][e] \in {"completed", "failed"} => tu'[q][e] = tu[q][e]
             /\ artifact' = artifact
  BY <1>2 DEF StartUnit, Remaining, TypeInv, TypeOK
<1>3. ASSUME NEW r \in Runs, ScopeRun(r)
      PROVE  tu' = tu /\ artifact' = artifact
  BY <1>3 DEF ScopeRun
<1> QED
  BY <1>1, <1>2, <1>3, WhoChangesUnits

(* What has been parsed stays, so a finding remains a finding.             *)
LEMMA FindingsStayFindings ==
  ASSUME TypeInv, \A r \in Runs : RunInv(r), [Next]_vars, NEW q \in Runs, NEW fp, FoundBy(q, fp)
  PROVE  FoundBy(q, fp)'
BY FinishedUnitsStay DEF FoundBy

(* The rows r writes are the ones its session held.                        *)
LEMMA WrittenAreFindings ==
  ASSUME TypeOK, RowsAreFindings, NEW r \in Runs, HeldAreFindings(r), NEW W,
         W \subseteq pending[r] \cup flushed[r], rows' = Written(r, W),
         NEW w \in RowIds, rows'[w] # None
  PROVE  FoundBy(w[1], w[2]) /\ FoundBy(rows'[w].owner, w[2]) /\ rows'[w].owner \in Runs
<1>1. W \subseteq RowIds
  BY DEF TypeOK
<1>2. CASE w \in W
  <2>1. rows'[w].owner = r
    BY <1>1, <1>2, WrittenIsStored
  <2>2. FoundBy(r, w[2]) /\ (w[1] = r \/ rows[w] # None)
    BY <1>2 DEF HeldAreFindings
  <2> QED
    BY <2>1, <2>2 DEF RowsAreFindings
<1>3. CASE w \notin W
  <2>1. rows'[w] = rows[w]
    BY <1>3, WrittenKeeps
  <2> QED
    BY <2>1 DEF RowsAreFindings, TypeOK, Row
<1> QED
  BY <1>2, <1>3

LEMMA FindingsNext ==
  ASSUME TypeInv, RowsAreFindings, \A r \in Runs : RunInv(r), [Next]_vars
  PROVE  RowsAreFindings'
<1> SUFFICES ASSUME NEW w \in RowIds, rows'[w] # None
             PROVE  FoundBy(w[1], w[2])' /\ FoundBy(rows[w].owner, w[2])'
  BY DEF RowsAreFindings
<1>1. /\ FoundBy(w[1], w[2]) /\ w[1] \in Runs
      /\ FoundBy(rows'[w].owner, w[2]) /\ rows'[w].owner \in Runs
  <2>1. CASE rows' = rows
    BY <2>1 DEF RowsAreFindings, TypeInv, TypeOK, Row, RowIds
  <2>2. ASSUME NEW r \in Runs, NEW W \in SUBSET (pending[r] \cup flushed[r]), rows' = Written(r, W)
        PROVE  <1>1
    BY <2>2, WrittenAreFindings DEF RunInv, TypeInv, RowIds
  <2>3. ASSUME NEW x \in RowIds, NEW status \in Statuses, ReviewViolation(x, status)
        PROVE  <1>1
    <3>1. rows[x] \in Row /\ rows' = [rows EXCEPT ![x].status = status]
      BY <2>3 DEF ReviewViolation, TypeInv, TypeOK
    <3>2. rows[w] # None /\ rows'[w].owner = rows[w].owner /\ rows[w] \in Row
      <4>1. rows'[w] = IF w = x THEN [rows[x] EXCEPT !.status = status] ELSE rows[w]
        BY <3>1 DEF TypeInv, TypeOK
      <4>2. rows[w] # None
        BY <2>3, <4>1 DEF ReviewViolation
      <4>3. rows[w] \in Row
        BY <4>2 DEF TypeInv, TypeOK
      <4> QED
        BY <4>1, <4>2, <4>3 DEF Row
    <3>3. FoundBy(w[1], w[2]) /\ FoundBy(rows[w].owner, w[2])
      BY <3>2 DEF RowsAreFindings
    <3> QED
      BY <3>2, <3>3 DEF RowIds, Row
  <2> QED
    BY <2>1, <2>2, <2>3, WhoWritesRows DEF TypeInv
<1>2. PICK owner \in Runs, found \in Runs : owner = rows'[w].owner /\ found = w[1]
  BY <1>1
<1>3. FoundBy(found, w[2])' /\ FoundBy(owner, w[2])'
  BY <1>1, <1>2, FindingsStayFindings
<1> QED
  BY <1>2, <1>3 DEF FoundBy

-------------------------------------------------------------------------------
(* The invariant                                                           *)

LEMMA TaskStepKeeps ==
  ASSUME TypeInv, RowsStay, NEW r \in Runs, RunInv(r), TaskStep(r)
  PROVE  RunInv(r)'
<1>1. CASE RejectManifest(r)
  <2>1. /\ KeepsUnits(r) /\ KeepsIndex(r) /\ run'[r] = run[r]
        /\ delivered'[r] = delivered[r] /\ saved'[r] = saved[r]
        /\ pc[r] # "none" /\ pc'[r] = "dead" /\ pending'[r] = {} /\ flushed'[r] = {}
    BY <1>1 DEF RejectManifest, At, LoseTasks, KeepsUnits, KeepsIndex, world, database
  <2> QED
    BY <2>1, LostTask
<1> QED
  BY <1>1, AnnouncementsKeep, RecordKeeps, ScopeKeeps, StartUnitKeeps, ParseKeeps, MovesKeep,
     SelectKeeps, FlushKeeps, CommitKeeps, HandleErrorKeeps, CompleteKeeps DEF TaskStep

(* Tasks that are lost had been requested.                                 *)
LEMMA LosingTasksKeeps ==
  ASSUME TypeInv, RowsStay, NEW R \in SUBSET Runs, LoseTasks(R), \A r \in R : pc[r] # "none",
         NEW q \in Runs, RunInv(q)
  PROVE  RunInv(q)'
<1>1. /\ KeepsUnits(q) /\ KeepsIndex(q) /\ run'[q] = run[q]
      /\ delivered'[q] = delivered[q] /\ saved'[q] = saved[q] /\ unit'[q] = unit[q]
      /\ pc'[q] = (IF q \in R THEN "dead" ELSE pc[q])
      /\ pending'[q] = (IF q \in R THEN {} ELSE pending[q])
      /\ flushed'[q] = (IF q \in R THEN {} ELSE flushed[q])
  BY DEF LoseTasks, KeepsUnits, KeepsIndex, world, database
<1>2. CASE q \in R
  BY <1>1, <1>2, LostTask
<1>3. CASE q \notin R
  BY <1>1, <1>3, OthersStay DEF KeepsRun
<1> QED
  BY <1>2, <1>3

LEMMA OutcomeNext == OutcomeInv /\ [Next]_vars => OutcomeInv'
<1> SUFFICES ASSUME OutcomeInv, [Next]_vars PROVE OutcomeInv'
  OBVIOUS
<1>1. TypeInv /\ TypeOK /\ RowsAreFindings /\ \A r \in Runs : RunInv(r)
  BY DEF OutcomeInv, TypeInv
<1>2. RowsStay
  BY <1>1, RowsNeverLeave
<1>3. ASSUME NEW q \in Runs
      PROVE  RunInv(q)'
  <2>1. ASSUME NEW r \in Runs, TaskStep(r)
        PROVE  RunInv(q)'
    <3>1. CASE q = r
      BY <1>1, <1>2, <2>1, <3>1, TaskStepKeeps
    <3>2. CASE q # r
      BY <1>1, <1>2, <2>1, <3>2, StepsLeaveOthers, OthersStay
    <3> QED
      BY <3>1, <3>2
  <2>2. ASSUME NEW r \in Runs, NEW type \in RunTypes, StartAnalysisRun(r, type)
        PROVE  RunInv(q)'
    <3>1. CASE q = r
      BY <1>1, <1>2, <2>2, <3>1, RecordKeeps
    <3>2. CASE q # r
      <4>1. KeepsRun(q)
        BY <1>1, <2>2, <3>2 DEF StartAnalysisRun, Goto, TypeOK, KeepsRun, KeepsUnits,
           KeepsIndex, world, session, transaction
      <4> QED
        BY <1>1, <1>2, <4>1, OthersStay
    <3> QED
      BY <3>1, <3>2
  <2>3. ASSUME NEW r \in Runs, DatabaseFails(r) \/ DeadlockVictim(r)
        PROVE  RunInv(q)'
    <3>1. LoseTasks({r}) /\ pc[r] # "none"
      BY <2>3 DEF DatabaseFails, DatabaseSteps, DeadlockVictim, InDeadlock, WaitsFor
    <3> QED
      BY <1>1, <1>2, <3>1, LosingTasksKeeps
  <2>4. CASE Crash
    <3>1. PICK R \in SUBSET Runs : LoseTasks(R) /\ \A r \in R : pc[r] # "none"
      BY <2>4 DEF Crash
    <3> QED
      BY <1>1, <1>2, <3>1, LosingTasksKeeps
  <2>5. CASE \/ \E f \in Files, v \in Versions : EditFile(f, v)
             \/ \E w \in RowIds, status \in Statuses : ReviewViolation(w, status)
             \/ UNCHANGED vars
    <3>1. KeepsRun(q)
      BY <2>5 DEF EditFile, ReviewViolation, KeepsRun, KeepsUnits, KeepsIndex, vars, world,
         database, session, transaction
    <3> QED
      BY <1>1, <1>2, <3>1, OthersStay
  <2> QED
    BY <2>1, <2>2, <2>3, <2>4, <2>5 DEF Next
<1>4. RowsAreFindings'
  BY <1>1, FindingsNext
<1>5. TypeInv'
  BY <1>1, NextTyped
<1> QED
  BY <1>3, <1>4, <1>5 DEF OutcomeInv

LEMMA OutcomeInit == Init => OutcomeInv
<1> SUFFICES ASSUME Init PROVE OutcomeInv
  OBVIOUS
<1>1. TypeInv
  BY InitTyped DEF Init, TypeInv, UnitInHand
<1>2. RowsAreFindings
  BY DEF Init, RowsAreFindings
<1>3. ASSUME NEW r \in Runs
      PROVE  RunInv(r)
  <2>1. /\ pc[r] = "none" /\ run[r].status = "absent" /\ run[r].parsed = 0 /\ run[r].failed = 0
        /\ \A e \in Entries : tu[r][e] = "absent" /\ artifact[r][e] = None
        /\ \A f \in Sources : index[r][f] = None
        /\ delivered[r] = {} /\ saved[r] = {} /\ pending[r] = {} /\ flushed[r] = {}
    BY DEF Init
  <2>2. StatusAtStep(r) /\ UnitsAtStep(r)
    BY <2>1 DEF StatusAtStep, UnitsAtStep, Scoping, Parsing, Concluding
  <2>3. CountsAgree(r)
    <3>1. \A s \in {"completed", "failed"} : {e \in Entries : tu[r][e] = s} = {}
      BY <2>1
    <3> QED
      BY <2>1, <3>1, FS_EmptySet DEF CountsAgree
  <2>4. HeldAreFindings(r) /\ FindingsAreKept(r) /\ AnnouncedIsSo(r) /\ IndexedIsSo(r)
    BY <2>1 DEF HeldAreFindings, FindingsAreKept, AnnouncedIsSo, IndexedIsSo
  <2> QED
    BY <2>2, <2>3, <2>4 DEF RunInv
<1> QED
  BY <1>1, <1>2, <1>3 DEF OutcomeInv

(* In every reachable state the part of each run holds, and a row belongs  *)
(* to runs that found its violation.                                       *)
THEOREM OutcomeInvariant == Spec => []OutcomeInv
BY OutcomeInit, OutcomeNext, PTL DEF Spec

(* AnalysisRuns!RowsAreFindings: however upserts, failures and edits       *)
(* interleave, a row is attributed to runs that saw its violation in what  *)
(* they parsed.                                                            *)
THEOREM RowsAreWhatRunsFound == Spec => []RowsAreFindings
<1>1. OutcomeInv => RowsAreFindings
  BY DEF OutcomeInv
<1> QED
  BY <1>1, OutcomeInvariant, PTL

(* AnalysisRuns!OutcomeIsRecorded: a task that got to its end recorded an  *)
(* outcome, and a completed run accounts for every unit and violation.     *)
THEOREM OutcomesAreRecorded == Spec => []OutcomeIsRecorded
<1>1. OutcomeInv => OutcomeIsRecorded
  BY DEF OutcomeInv, RunInv, StatusAtStep, UnitsAtStep, Handled, CountsAgree, FindingsAreKept,
     Settled, OutcomeIsRecorded
<1> QED
  BY <1>1, OutcomeInvariant, PTL

(* AnalysisRuns!AnnouncedIsDurable: what a client hears of a run is in the *)
(* database when it hears it, and stays there whatever fails afterwards.   *)
THEOREM AnnouncementsAreDurable == Spec => []AnnouncedIsDurable
<1>1. OutcomeInv => AnnouncedIsDurable
  BY DEF OutcomeInv, RunInv, AnnouncedIsSo, Settled, AnnouncedIsDurable
<1> QED
  BY <1>1, OutcomeInvariant, PTL

LEMMA IndexedIsFinished == OutcomeInv => IndexedIsAnalysed
<1>1. ASSUME TypeOK, NEW r \in Runs, UnitsAtStep(r), Settled(r),
             NEW e \in Entries, tu[r][e] = "completed"
      PROVE  \A fp \in Found(r, e) : Stored(fp)
  <2>1. e \in Parsed(r)
    BY <1>1 DEF UnitsAtStep, Parsed
  <2>2. \A fp \in Found(r, e) : fp \in Fingerprints /\ FoundBy(r, fp)
    BY <1>1, <2>1, FoundTyped DEF FoundBy, Found, Parsed
  <2> QED
    BY <1>1, <2>2 DEF Settled
<1> QED
  BY <1>1 DEF OutcomeInv, TypeInv, RunInv, IndexedIsSo, IndexedIsAnalysed, FileIsDone

(* AnalysisRuns!IndexedIsAnalysed: a hash in the file index stands for     *)
(* units that were handled and violations that are stored.                 *)
THEOREM IndexStandsForWork == Spec => []IndexedIsAnalysed
BY IndexedIsFinished, OutcomeInvariant, PTL

-------------------------------------------------------------------------------
(* What an incremental run leaves out has been dealt with                  *)

(* Without include edges a change reaches the changed files alone.         *)
LEMMA ScopeIsWhatChanged ==
  ASSUME NEW changed \in SUBSET Sources
  PROVE  AffectedUnits(changed, NoIncludeEdges, Sources) = changed
<1>1. ClosedUnderDependents(NoIncludeEdges, changed)
  BY DEF ClosedUnderDependents, Dependents, NoIncludeEdges
<1>2. DOMAIN NoIncludeEdges = Sources
  BY DEF NoIncludeEdges
<1> QED
  BY <1>1, <1>2 DEF AffectedUnits, Reached

(* A file an incremental run leaves out has the hash of an index row.      *)
LEMMA LeftOutIsIndexed ==
  ASSUME TypeOK, NEW r \in Runs, ScopeRun(r), NEW f \in Sources, f \notin affected'[r]
  PROVE  \E q \in Runs : index[q][f] # None /\ index[q][f] = hashes'[r][f]
<1> DEFINE current == [g \in Sources |-> disk[g]]
<1>1. PICK previous \in PreviousIndexes :
        /\ hashes' = [hashes EXCEPT ![r] = current]
        /\ affected' = [affected EXCEPT ![r] =
             IF run[r].type = "incremental_with_base"
             THEN AffectedUnits(ChangedFiles(previous, current), NoIncludeEdges, Sources)
             ELSE Sources]
  BY DEF ScopeRun
<1>2. hashes'[r] = current /\ current[f] = disk[f] /\ current[f] # None
  BY <1>1, FilesOfEntries, ConstantsAssumption DEF TypeOK
<1>3. previous[f] = current[f]
  <2>1. ChangedFiles(previous, current) \subseteq Sources
    BY DEF ChangedFiles
  <2>2. f \notin ChangedFiles(previous, current)
    BY <1>1, <2>1, ScopeIsWhatChanged DEF TypeOK
  <2> QED
    BY <2>2 DEF ChangedFiles
<1>4. previous[f] = None \/ previous[f] \in {index[q][f] : q \in Runs} \ {None}
  BY DEF PreviousIndexes
<1> QED
  BY <1>2, <1>3, <1>4

LEMMA DoneStaysDone ==
  ASSUME OutcomeInv, [Next]_vars, NEW q \in Runs, NEW f \in Sources, FileIsDone(q, f)
  PROVE  FileIsDone(q, f)'
<1>1. TypeInv /\ TypeOK /\ \A r \in Runs : RunInv(r)
  BY DEF OutcomeInv, TypeInv
<1>2. SUFFICES ASSUME NEW e \in Entries, FileOf[e] = f
               PROVE  \/ tu'[q][e] = "failed"
                      \/ tu'[q][e] = "completed" /\ \A fp \in Found(q, e)' : Stored(fp)'
  BY DEF FileIsDone
<1>3. CASE tu[q][e] = "failed"
  BY <1>1, <1>3, FinishedUnitsStay
<1>4. CASE tu[q][e] = "completed" /\ \A fp \in Found(q, e) : Stored(fp)
  <2>1. e \in Parsed(q)
    BY <1>1, <1>4 DEF RunInv, UnitsAtStep, Parsed
  <2>2. tu'[q][e] = "completed" /\ Found(q, e)' = Found(q, e)
    BY <1>1, <1>4, <2>1, FinishedUnitsStay DEF Found, Parsed
  <2>3. Found(q, e) \subseteq Fingerprints
    BY <1>1, <2>1, FoundTyped
  <2> QED
    BY <1>1, <1>4, <2>2, <2>3, RowsNeverLeave, StoredStays
<1> QED
  BY <1>2, <1>3, <1>4 DEF FileIsDone

(* A run that has not fixed its scope has dealt with no file.              *)
LEMMA ScopingHasDoneNothing ==
  ASSUME OutcomeInv, NEW r \in Runs, pc[r] \in Scoping, NEW f \in Sources
  PROVE  ~FileIsDone(r, f)
<1>1. PICK e \in Entries : FileOf[e] = f
  BY DEF Sources
<1> QED
  BY <1>1 DEF OutcomeInv, RunInv, UnitsAtStep, FileIsDone

LEMMA IndexedIsDone ==
  ASSUME OutcomeInv, NEW r \in Runs, NEW f \in Sources, index[r][f] # None
  PROVE  index[r][f] = hashes[r][f] /\ FileIsDone(r, f)
BY IndexedIsFinished DEF IndexedIsAnalysed

LEMMA SkippedNext ==
  ASSUME OutcomeInv, SkippedWorkIsDone, [Next]_vars
  PROVE  SkippedWorkIsDone'
<1>1. TypeInv /\ TypeOK
  BY DEF OutcomeInv, TypeInv
<1>2. ASSUME NEW s \in Runs, ScopeRun(s)
      PROVE  SkippedWorkIsDone'
  <2>1. /\ pc[s] \in Scoping
        /\ \A q \in Runs \ {s} : hashes'[q] = hashes[q] /\ affected'[q] = affected[q]
    BY <1>1, <1>2 DEF ScopeRun, At, Scoping, TypeOK
  <2>2. SUFFICES ASSUME NEW r \in Runs, NEW f \in Sources, hashes'[r][f] # None, f \notin affected'[r]
                 PROVE  \E q \in Runs \ {r} : hashes'[q][f] = hashes'[r][f] /\ FileIsDone(q, f)'
    BY DEF SkippedWorkIsDone
  <2>3. PICK q \in Runs : q # s /\ q # r /\ hashes[q][f] = hashes'[r][f] /\ FileIsDone(q, f)
    <3>1. CASE r = s
      <4>1. PICK q \in Runs : index[q][f] # None /\ index[q][f] = hashes'[s][f]
        BY <1>1, <1>2, <2>2, <3>1, LeftOutIsIndexed
      <4>2. hashes[q][f] = hashes'[s][f] /\ FileIsDone(q, f)
        BY <4>1, IndexedIsDone
      <4>3. q # s
        BY <2>1, <4>2, ScopingHasDoneNothing
      <4> QED
        BY <3>1, <4>2, <4>3
    <3>2. CASE r # s
      <4>1. hashes'[r][f] = hashes[r][f] /\ hashes[r][f] # None /\ f \notin affected[r]
        BY <2>1, <2>2, <3>2
      <4>2. PICK q \in Runs \ {r} : hashes[q][f] = hashes[r][f] /\ FileIsDone(q, f)
        BY <4>1 DEF SkippedWorkIsDone
      <4>3. q # s
        BY <2>1, <4>2, ScopingHasDoneNothing
      <4> QED
        BY <4>1, <4>2, <4>3
    <3> QED
      BY <3>1, <3>2
  <2> QED
    BY <2>1, <2>3, DoneStaysDone
<1>3. CASE UNCHANGED <<affected, hashes>>
  <2>1. SUFFICES ASSUME NEW r \in Runs, NEW f \in Sources, hashes[r][f] # None, f \notin affected[r]
                 PROVE  \E q \in Runs \ {r} : hashes[q][f] = hashes[r][f] /\ FileIsDone(q, f)'
    BY <1>3 DEF SkippedWorkIsDone
  <2> QED
    BY <2>1, DoneStaysDone DEF SkippedWorkIsDone
<1> QED
  BY <1>2, <1>3, WhoChangesUnits DEF StartUnit, ParseUnit, ParseUnitFails

(* AnalysisRuns!SkippedWorkIsDone: what an incremental run leaves out on   *)
(* the strength of a hash has been dealt with by another run, also once    *)
(* the index row is replaced and whatever became of that run.              *)
THEOREM SkippedWorkHasBeenDone == Spec => []SkippedWorkIsDone
<1>1. Init => SkippedWorkIsDone
  BY DEF Init, SkippedWorkIsDone
<1> QED
  BY <1>1, SkippedNext, OutcomeInvariant, PTL DEF Spec

-------------------------------------------------------------------------------
(* Row locks are held by tasks that are on their way to give them back     *)

(* The steps between a flush and the commit that ends its transaction.     *)
Holding == {"upsert", "flush", "commit", "handle"}

LocksAtStep(r) ==
  /\ flushed[r] # {} => pc[r] \in Holding
  /\ pc[r] = "upsert" => Unsaved(r) # {}

LEMMA LocksStay ==
  ASSUME NEW q \in Runs, LocksAtStep(q), artifact'[q] = artifact[q], saved'[q] = saved[q],
         flushed'[q] \in {flushed[q], {}}, pc'[q] = pc[q] \/ flushed'[q] = {},
         pc'[q] = "upsert" => pc[q] = "upsert"
  PROVE  LocksAtStep(q)'
<1>1. Unsaved(q)' = Unsaved(q)
  BY DEF Unsaved, Parsed, Found
<1> QED
  BY <1>1 DEF LocksAtStep

LEMMA TaskStepLocks ==
  ASSUME TypeInv, NEW r \in Runs, TaskStep(r), LocksAtStep(r)
  PROVE  LocksAtStep(r)'
<1>1. CASE \/ AnnounceStart(r) \/ AnnounceInvalid(r) \/ AnnounceUnit(r)
           \/ AnnounceParsed(r) \/ AnnounceRules(r) \/ AnnounceResults(r)
           \/ AnnounceDone(r) \/ AnnounceFailed(r)
  <2>1. /\ Announces(r) /\ flushed'[r] = flushed[r]
    BY <1>1, AnnouncementsMove
  <2>2. pc[r] \notin Holding /\ pc'[r] # "upsert"
    BY <2>1 DEF Announces, Holding
  <2> QED
    BY <2>1, <2>2 DEF LocksAtStep
<1>2. CASE \/ Begin(r) \/ RejectCompileCommands(r) \/ ScopeRun(r)
           \/ \E e \in Entries : StartUnit(r, e)
           \/ ParseUnit(r) \/ ParseUnitFails(r) \/ Raise(r) \/ DispatchRaises(r)
           \/ \E f \in Sources : StartDelete(r, f)
           \/ FinishDelete(r) \/ Complete(r)
  <2>1. flushed' = flushed /\ pc[r] \notin Holding /\ pc'[r] # "upsert"
    BY <1>2 DEF Begin, RejectCompileCommands, ScopeRun, StartUnit, ParseUnit, ParseUnitFails,
       Raise, DispatchRaises, StartDelete, FinishDelete, Complete, At, Goto, session,
       transaction, Holding, TypeInv, TypeOK
  <2> QED
    BY <2>1 DEF LocksAtStep
<1>3. CASE CommitResults(r) \/ HandleError(r) \/ RejectManifest(r)
  <2>1. flushed'[r] = {} /\ pc'[r] # "upsert"
    BY <1>3 DEF CommitResults, HandleError, RejectManifest, LoseTasks, Goto, TypeInv, TypeOK
  <2> QED
    BY <2>1 DEF LocksAtStep
<1>4. CASE \E e \in Entries : SelectUnit(r, e) \/ SelectFindsTwo(r, e)
  <2>1. pc'[r] \in {"flush", "handle"}
    BY <1>4 DEF SelectUnit, SelectFindsTwo, Goto, TypeInv, TypeOK
  <2> QED
    BY <2>1 DEF LocksAtStep, Holding
<1>5. CASE DispatchReturns(r)
  <2>1. pc[r] = "rules" /\ pc'[r] = (IF Unsaved(r) # {} THEN "upsert" ELSE "commit")
        /\ flushed' = flushed /\ artifact' = artifact /\ saved' = saved
    BY <1>5 DEF DispatchReturns, At, Goto, session, transaction, TypeInv, TypeOK
  <2>2. Unsaved(r)' = Unsaved(r)
    BY <2>1 DEF Unsaved, Parsed, Found
  <2> QED
    BY <2>1, <2>2 DEF LocksAtStep, Holding
<1>6. CASE FlushUnit(r)
  <2>1. /\ pc'[r] = (IF Unsaved(r) \ {unit[r]} # {} THEN "upsert" ELSE "commit")
        /\ artifact' = artifact /\ saved'[r] = saved[r] \cup {unit[r]}
    BY <1>6 DEF FlushUnit, Goto, TypeInv, TypeOK
  <2>2. Unsaved(r)' = Unsaved(r) \ {unit[r]}
    BY <2>1 DEF Unsaved, Parsed, Found
  <2> QED
    BY <2>1, <2>2 DEF LocksAtStep, Holding
<1> QED
  BY <1>1, <1>2, <1>3, <1>4, <1>5, <1>6 DEF TaskStep

LEMMA LocksNext ==
  ASSUME TypeInv, [Next]_vars, NEW q \in Runs, LocksAtStep(q)
  PROVE  LocksAtStep(q)'
<1>1. ASSUME NEW r \in Runs, TaskStep(r)
      PROVE  LocksAtStep(q)'
  <2>1. CASE q = r
    BY <1>1, <2>1, TaskStepLocks
  <2>2. CASE q # r
    <3>1. KeepsRun(q)
      BY <1>1, <2>2, StepsLeaveOthers DEF TypeInv
    <3> QED
      BY <3>1, LocksStay DEF KeepsRun, KeepsUnits
  <2> QED
    BY <2>1, <2>2
<1>2. ASSUME NEW r \in Runs, NEW type \in RunTypes, StartAnalysisRun(r, type)
      PROVE  LocksAtStep(q)'
  <2>1. UNCHANGED <<artifact, saved, flushed>>
    BY <1>2 DEF StartAnalysisRun, session, transaction
  <2>2. pc'[q] = pc[q] \/ (pc[q] = "none" /\ pc'[q] = "begin")
    BY <1>2 DEF StartAnalysisRun, At, Goto, TypeInv, TypeOK
  <2>3. flushed[q] # {} => pc[q] # "none"
    BY DEF LocksAtStep, Holding
  <2>4. pc'[q] = pc[q] \/ flushed'[q] = {}
    BY <2>1, <2>2, <2>3
  <2> QED
    BY <2>1, <2>2, <2>4, LocksStay
<1>3. ASSUME NEW R, LoseTasks(R)
      PROVE  LocksAtStep(q)'
  <2>1. artifact' = artifact /\ saved' = saved
    BY <1>3 DEF LoseTasks
  <2>2. \/ flushed'[q] = {} /\ pc'[q] = "dead"
        \/ flushed'[q] = flushed[q] /\ pc'[q] = pc[q]
    BY <1>3 DEF LoseTasks
  <2>3. flushed'[q] \in {flushed[q], {}} /\ (pc'[q] = pc[q] \/ flushed'[q] = {})
    BY <2>2
  <2> QED
    BY <2>1, <2>2, <2>3, LocksStay
<1>4. CASE \/ \E f \in Files, v \in Versions : EditFile(f, v)
           \/ \E w \in RowIds, status \in Statuses : ReviewViolation(w, status)
           \/ UNCHANGED vars
  <2>1. UNCHANGED <<pc, artifact, saved, flushed>>
    BY <1>4 DEF EditFile, ReviewViolation, vars, session, transaction
  <2> QED
    BY <2>1, LocksStay
<1> QED
  BY <1>1, <1>2, <1>3, <1>4 DEF Next, DatabaseFails, DeadlockVictim, Crash

(* Index rows are held deleted only while the paths are gone through.      *)
Sweeping == {"reindex", "delete"}
DeletesAtStep(r) == doomed[r] # {} => pc[r] \in Sweeping

LEMMA DeletesStay ==
  ASSUME NEW q \in Runs, DeletesAtStep(q), doomed'[q] \in {doomed[q], {}},
         pc'[q] = pc[q] \/ doomed'[q] = {} \/ pc[q] \notin Sweeping
  PROVE  DeletesAtStep(q)'
BY DEF DeletesAtStep

LEMMA TaskStepDeletes ==
  ASSUME TypeInv, NEW r \in Runs, TaskStep(r), NEW q \in Runs, DeletesAtStep(q)
  PROVE  DeletesAtStep(q)'
<1>1. CASE \/ AnnounceStart(r) \/ AnnounceInvalid(r) \/ AnnounceUnit(r)
           \/ AnnounceParsed(r) \/ AnnounceRules(r) \/ AnnounceResults(r)
           \/ AnnounceDone(r) \/ AnnounceFailed(r)
  <2>1. doomed' = doomed
    BY <1>1 DEF AnnounceStart, AnnounceInvalid, AnnounceUnit, AnnounceParsed, AnnounceRules,
       AnnounceResults, AnnounceDone, AnnounceFailed, Publish, session, transaction
  <2>2. Announces(r) /\ (q # r => pc'[q] = pc[q])
    BY <1>1, AnnouncementsMove, StepsLeaveOthers DEF TypeInv, KeepsRun
  <2>3. pc[r] \notin Sweeping
    BY <2>2 DEF Announces, Sweeping
  <2> QED
    BY <2>1, <2>2, <2>3, DeletesStay
<1>2. CASE \/ Begin(r) \/ RejectCompileCommands(r) \/ ScopeRun(r)
           \/ \E e \in Entries : StartUnit(r, e) \/ SelectUnit(r, e) \/ SelectFindsTwo(r, e)
           \/ ParseUnit(r) \/ ParseUnitFails(r) \/ Raise(r) \/ DispatchRaises(r)
           \/ DispatchReturns(r) \/ FlushUnit(r) \/ CommitResults(r) \/ HandleError(r)
  <2>1. doomed' = doomed
    BY <1>2 DEF Begin, RejectCompileCommands, ScopeRun, StartUnit, SelectUnit, SelectFindsTwo,
       ParseUnit, ParseUnitFails, Raise, DispatchRaises, DispatchReturns, FlushUnit,
       CommitResults, HandleError, session, transaction
  <2>2. pc[r] \notin Sweeping
    BY <1>2 DEF Begin, RejectCompileCommands, ScopeRun, StartUnit, SelectUnit, SelectFindsTwo,
       ParseUnit, ParseUnitFails, Raise, DispatchRaises, DispatchReturns, FlushUnit,
       CommitResults, HandleError, At, Sweeping
  <2>3. q # r => pc'[q] = pc[q]
    BY StepsLeaveOthers DEF TypeInv, KeepsRun
  <2> QED
    BY <2>1, <2>2, <2>3, DeletesStay
<1>3. CASE FinishDelete(r) \/ \E f \in Sources : StartDelete(r, f)
  <2>1. /\ q = r => pc'[q] \in Sweeping
        /\ q # r => doomed'[q] = doomed[q] /\ pc'[q] = pc[q]
    BY <1>3 DEF FinishDelete, StartDelete, Goto, Sweeping, TypeInv, TypeOK
  <2> QED
    BY <2>1 DEF DeletesAtStep
<1>4. CASE Complete(r) \/ RejectManifest(r)
  <2>1. /\ q = r => doomed'[q] = {}
        /\ q # r => doomed'[q] = doomed[q] /\ pc'[q] = pc[q]
    BY <1>4 DEF Complete, RejectManifest, LoseTasks, Goto, TypeInv, TypeOK
  <2> QED
    BY <2>1, DeletesStay
<1> QED
  BY <1>1, <1>2, <1>3, <1>4 DEF TaskStep

LEMMA DeletesNext ==
  ASSUME TypeInv, [Next]_vars, NEW q \in Runs, DeletesAtStep(q)
  PROVE  DeletesAtStep(q)'
<1>1. ASSUME NEW r \in Runs, TaskStep(r)
      PROVE  DeletesAtStep(q)'
  BY <1>1, TaskStepDeletes
<1>2. ASSUME NEW r \in Runs, NEW type \in RunTypes, StartAnalysisRun(r, type)
      PROVE  DeletesAtStep(q)'
  <2>1. doomed' = doomed
    BY <1>2 DEF StartAnalysisRun, session, transaction
  <2>2. pc'[q] = pc[q] \/ pc[q] = "none"
    BY <1>2 DEF StartAnalysisRun, At, Goto, TypeInv, TypeOK
  <2> QED
    BY <2>1, <2>2, DeletesStay DEF Sweeping
<1>3. ASSUME NEW R, LoseTasks(R)
      PROVE  DeletesAtStep(q)'
  <2>1. doomed'[q] = {} \/ (doomed'[q] = doomed[q] /\ pc'[q] = pc[q])
    BY <1>3 DEF LoseTasks
  <2> QED
    BY <2>1, DeletesStay
<1>4. CASE \/ \E f \in Files, v \in Versions : EditFile(f, v)
           \/ \E w \in RowIds, status \in Statuses : ReviewViolation(w, status)
           \/ UNCHANGED vars
  <2>1. UNCHANGED <<pc, doomed>>
    BY <1>4 DEF EditFile, ReviewViolation, vars, session, transaction
  <2> QED
    BY <2>1, DeletesStay
<1> QED
  BY <1>1, <1>2, <1>3, <1>4 DEF Next, DatabaseFails, DeadlockVictim, Crash

(* If every run of S that r waits for were blocked, they would be a        *)
(* deadlock; so one of them is not, and it holds a lock.                   *)
LEMMA HoldersGoOn ==
  ASSUME \A r \in Runs : LocksAtStep(r) /\ DeletesAtStep(r)
  PROVE  WaitersAreServed
<1> SUFFICES ASSUME NEW r \in Runs, Blocked(r), ~InDeadlock(r),
                    NEW S \in SUBSET Runs, WaitsWithin(r, S)
             PROVE  \E q \in S : CanGoOn(q)
  BY DEF WaitersAreServed
<1> DEFINE T == {p \in S : Blocked(p)}
<1>1. T \in SUBSET Runs /\ r \in T
  BY DEF WaitsWithin
<1>2. PICK p \in T : ~ \E q \in T : WaitsFor(p, q)
  BY <1>1 DEF InDeadlock
<1>3. PICK q \in Runs : WaitsFor(p, q)
  BY <1>2 DEF Blocked
<1>4. q \in S /\ ~Blocked(q)
  BY <1>2, <1>3 DEF WaitsWithin
<1>5. flushed[q] # {} \/ doomed[q] # {}
  BY <1>3 DEF WaitsFor
<1> QED
  BY <1>4, <1>5 DEF LocksAtStep, Holding, DeletesAtStep, Sweeping, CanGoOn

(* AnalysisRuns!WaitersAreServed: a task that waits for a lock waits, in   *)
(* the end, for a task that can go on, or the database has a deadlock to   *)
(* break.                                                                  *)
THEOREM NoWaitIsForALostTask == Spec => []WaitersAreServed
<1> DEFINE Inv == TypeInv /\ \A r \in Runs : LocksAtStep(r) /\ DeletesAtStep(r)
<1>1. Init => Inv
  BY InitTyped DEF Init, TypeInv, UnitInHand, LocksAtStep, DeletesAtStep
<1>2. Inv /\ [Next]_vars => Inv'
  BY NextTyped, LocksNext, DeletesNext
<1>3. Inv => WaitersAreServed
  BY HoldersGoOn
<1> QED
  BY <1>1, <1>2, <1>3, PTL DEF Spec
===============================================================================
