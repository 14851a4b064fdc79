----------------------------- MODULE AnalysisRuns -----------------------------
(***************************************************************************)
(* Analysis runs of one project: start_analysis_run inserts a queued run   *)
(* and leaves a background task; the task executes                         *)
(* AnalysisOrchestrator.run_analysis, which parses the affected            *)
(* translation units, executes the rules, upserts violations by            *)
(* fingerprint, rewrites the file index and finishes the run.  Any number  *)
(* of runs of the project may be under way: nothing serialises them.       *)
(*                                                                         *)
(* A task is one asyncio coroutine with one database session.  Between two *)
(* awaits it runs alone, so an action is what happens from one suspension  *)
(* to the next; what its session has flushed is seen by the others only    *)
(* after its commit.  The relational database, Redis and the clang worker  *)
(* are external: Faults names the ways in which they may fail.             *)
(***************************************************************************)
EXTENDS IncrementalIndex, Naturals, FiniteSets

CONSTANTS
  Runs,          \* the analysis runs that may be requested
  Entries,       \* compile_commands.json entries: one translation unit each
  FileOf,        \* entry -> the source file it compiles
  Headers,       \* files the sources include
  Includes,      \* source -> the headers it includes (what the compiler sees)
  Versions,      \* contents a file may have; a version stands for its hash
  Fingerprints,  \* violation fingerprints
  Detects,       \* entry -> version of its source -> fingerprints found there
  Position,      \* source -> its place in the compile commands
  RunTypes,      \* the kinds of run requested, of AllRunTypes
  Statuses,      \* review statuses a reviewer may give a violation
  RulesEnabled,  \* settings.rule_engine_enabled
  Dispatcher,    \* how the dispatcher ends, of DispatcherEnds
  Faults,        \* what may fail, of AllFaults
  None           \* absence: no hash, no row, no artifact

Sources == {FileOf[e] : e \in Entries}
Files == Sources \cup Headers

(* run_type and whether base_run_id was given.                             *)
AllRunTypes == {"full", "incremental", "incremental_with_base"}

(* redis: a publish raises, before or after delivery.  rpc: the worker     *)
(* call raises.  parse: the worker reports failure.  compile_db: the       *)
(* compile commands are invalid.  db: a flush or commit raises.  crash:    *)
(* the server process dies.                                                *)
AllFaults == {"redis", "rpc", "parse", "compile_db", "db", "crash"}

(* raises: execute_for_translation_units as it stands reads its metrics,   *)
(* which are dicts, by attribute, and raises AttributeError once there is  *)
(* one.  returns: it hands its results to the caller, as the caller's code *)
(* and all that follows in run_analysis expect.                            *)
DispatcherEnds == {"raises", "returns"}

(* A violation row is identified by the run that inserted it and its       *)
(* fingerprint: the unique constraint and the flush after every unit let a *)
(* run insert a fingerprint at most once.                                  *)
RowIds == Runs \X Fingerprints
Row == [owner : Runs, status : Statuses \cup {"open"}]

ASSUME ConstantsAssumption ==
  /\ IsFiniteSet(Entries)
  /\ FileOf \in [Entries -> Sources]
  /\ Includes \in [Sources -> SUBSET Headers]
  /\ Detects \in [Entries -> [Versions -> SUBSET Fingerprints]]
  /\ Position \in [Sources -> Nat]
  /\ \A f, g \in Sources : Position[f] = Position[g] => f = g
  /\ RunTypes \subseteq AllRunTypes
  /\ RulesEnabled \in BOOLEAN
  /\ RulesEnabled \/ \A e \in Entries, v \in Versions : Detects[e][v] = {}
  /\ Dispatcher \subseteq DispatcherEnds
  /\ Faults \subseteq AllFaults
  /\ "open" \notin Statuses
  /\ None \notin Versions \cup Entries \cup [Files -> Versions] \cup Row

VARIABLES
  \* the outside world
  disk,       \* file -> the version of its content
  delivered,  \* run -> events that reached Redis
  \* the database, as committed
  run,        \* run -> [type, status, total, parsed, failed]
  tu,         \* run -> entry -> status of its translation unit record
  rows,       \* row id -> [owner, status]: the violations table
  index,      \* run -> source -> hash: the file_index rows the run inserted
  \* the background task and its session
  pc,         \* run -> the next step of its task
  hashes,     \* run -> source -> hash in current_index
  affected,   \* run -> affected_files
  unit,       \* run -> the entry in hand, or None
  artifact,   \* run -> entry -> the content parsed, or None
  saved,      \* run -> units whose violations were flushed
  pending,    \* run -> rows added or changed in the session, not flushed
  flushed,    \* run -> rows flushed in the open transaction
  swept,      \* run -> paths whose DELETE the open transaction has issued
  deleting,   \* run -> index rows that the DELETE under way has found
  doomed,     \* run -> index rows deleted in the open transaction
  \* history
  known       \* run -> fingerprints that had a row when it was requested

world == <<disk, delivered>>
database == <<run, tu, rows, index>>
transaction == <<pending, flushed, swept, deleting, doomed>>
session == <<hashes, affected, unit, artifact, saved, transaction>>
vars == <<world, database, pc, session, known>>

-------------------------------------------------------------------------------
(* Types                                                                   *)

RunStatuses == {"absent", "queued", "running", "completed", "failed"}
UnitStatuses == {"absent", "parsing", "completed", "failed"}
RunRecord == [type : AllRunTypes, status : RunStatuses,
              total : Nat, parsed : Nat, failed : Nat]

(* Steps are named for what the task does next.                            *)
TaskSteps ==
  {"none", "begin", "announce_start", "load", "announce_invalid", "parse",
   "announce_unit", "rpc", "announce_parsed", "announce_rules", "rules",
   "upsert", "flush", "commit", "announce_results", "reindex", "delete",
   "announce_done", "handle", "announce_failed", "end", "dead"}

Events ==
  ({"analysis.started", "analysis.completed", "analysis.failed",
    "rules.started", "rules.completed"} \X {"run"})
  \cup ({"translation_unit.started", "translation_unit.completed"} \X Entries)
  \cup ({"violation.detected"} \X Fingerprints)

TypeOK ==
  /\ disk \in [Files -> Versions]
  /\ delivered \in [Runs -> SUBSET Events]
  /\ run \in [Runs -> RunRecord]
  /\ tu \in [Runs -> [Entries -> UnitStatuses]]
  /\ rows \in [RowIds -> Row \cup {None}]
  /\ index \in [Runs -> [Sources -> Versions \cup {None}]]
  /\ pc \in [Runs -> TaskSteps]
  /\ hashes \in [Runs -> [Sources -> Versions \cup {None}]]
  /\ affected \in [Runs -> SUBSET Sources]
  /\ unit \in [Runs -> Entries \cup {None}]
  /\ artifact \in [Runs -> [Entries -> [Files -> Versions] \cup {None}]]
  /\ saved \in [Runs -> SUBSET Entries]
  /\ pending \in [Runs -> SUBSET RowIds]
  /\ flushed \in [Runs -> SUBSET RowIds]
  /\ swept \in [Runs -> SUBSET Sources]
  /\ deleting \in [Runs -> SUBSET (Runs \X Sources)]
  /\ doomed \in [Runs -> SUBSET (Runs \X Sources)]
  /\ known \in [Runs -> SUBSET Fingerprints]

Init ==
  /\ disk \in [Files -> Versions]
  /\ delivered = [r \in Runs |-> {}]
  /\ run = [r \in Runs |-> [type |-> "full", status |-> "absent",
                            total |-> 0, parsed |-> 0, failed |-> 0]]
  /\ tu = [r \in Runs |-> [e \in Entries |-> "absent"]]
  /\ rows = [w \in RowIds |-> None]
  /\ index = [r \in Runs |-> [f \in Sources |-> None]]
  /\ pc = [r \in Runs |-> "none"]
  /\ hashes = [r \in Runs |-> [f \in Sources |-> None]]
  /\ affected = [r \in Runs |-> {}]
  /\ unit = [r \in Runs |-> None]
  /\ artifact = [r \in Runs |-> [e \in Entries |-> None]]
  /\ saved = [r \in Runs |-> {}]
  /\ pending = [r \in Runs |-> {}]
  /\ flushed = [r \in Runs |-> {}]
  /\ swept = [r \in Runs |-> {}]
  /\ deleting = [r \in Runs |-> {}]
  /\ doomed = [r \in Runs |-> {}]
  /\ known = [r \in Runs |-> {}]

-------------------------------------------------------------------------------
(* Helpers                                                                 *)

At(r, step) == pc[r] = step
Goto(r, step) == pc' = [pc EXCEPT ![r] = step]

SetStatus(r, status) == run' = [run EXCEPT ![r].status = status]

(* publish_event: Redis may refuse the publish, or deliver the event and   *)
(* lose the answer; either way the caller sees an exception.               *)
Publish(r, events, next, onError) ==
  /\ \/ /\ delivered' = [delivered EXCEPT ![r] = @ \cup events]
        /\ Goto(r, next)
     \/ /\ "redis" \in Faults
        /\ \E sent \in SUBSET events :
              delivered' = [delivered EXCEPT ![r] = @ \cup sent]
        /\ Goto(r, onError)
  /\ UNCHANGED <<disk, database, session, known>>

(* Units of the run's scope that have no record yet.                       *)
Remaining(r) ==
  {e \in Entries : FileOf[e] \in affected[r] /\ tu[r][e] = "absent"}

Parsed(r) == {e \in Entries : artifact[r][e] # None}

(* Faulty variant: rules are run on the content that was hashed.                   *)
FoundAtHash(r, e) == Detects[e][hashes[r][FileOf[e]]]

(* The violations the rules report for a parsed unit.                      *)
Found(r, e) == Detects[e][artifact[r][e][FileOf[e]]]

(* violations_by_tu holds a key only for units with violations.            *)
Unsaved(r) == {e \in Parsed(r) \ saved[r] : Found(r, e) # {}}

(* The project has a committed row for the fingerprint.                    *)
Stored(fp) == \E c \in Runs : rows[<<c, fp>>] # None

(* Faulty variant: the select looks at the rows of its own run only.               *)
VisibleInRun(r, fp) ==
  {c \in Runs : (rows[<<c, fp>>] # None /\ rows[<<c, fp>>].owner = r)
                \/ (c = r /\ <<c, fp>> \in flushed[r])}

(* The rows of a fingerprint a select of r returns: committed ones and     *)
(* what its own transaction has flushed.                                   *)
Visible(r, fp) ==
  {c \in Runs : rows[<<c, fp>>] # None \/ (c = r /\ <<c, fp>> \in flushed[r])}

(* The rows an upsert of the fingerprints fps changes, or adds.            *)
Targets(r, fps) ==
  {w \in RowIds :
     /\ w[2] \in fps
     /\ w[1] \in Visible(r, w[2]) \/ (Visible(r, w[2]) = {} /\ w[1] = r)}

(* Faulty variant: a violation seen again is reopened.                             *)
UpsertedReopening(row, r) == [owner |-> r, status |-> "open"]

(* Faulty variant: a new row gets no status.                                       *)
UpsertedWithoutStatus(row, r) ==
  IF row = None THEN [owner |-> r] ELSE [row EXCEPT !.owner = r]

(* An upsert of an existing row moves it to the run and leaves its status. *)
Upserted(row, r) ==
  IF row = None THEN [owner |-> r, status |-> "open"]
                ELSE [row EXCEPT !.owner = r]

(* The violations table once r commits the rows W.                         *)
Written(r, W) ==
  [w \in RowIds |-> IF w \in W THEN Upserted(rows[w], r) ELSE rows[w]]

(* r is about to update a row that q has updated, or to delete one that q  *)
(* has deleted, and q has not committed: the statement waits for the row   *)
(* lock.  The model takes the locks of one flush, or of one DELETE,        *)
(* together; the database takes them one by one, in one order for all.     *)
WaitsFor(r, q) ==
  /\ q # r
  /\ \/ pc[r] \in {"flush", "handle"} /\ \E w \in pending[r] \cap flushed[q] : rows[w] # None
     \/ pc[r] = "delete" /\ deleting[r] \cap doomed[q] # {}

Blocked(r) == \E q \in Runs : WaitsFor(r, q)

(* A set of runs of which each waits for another: none will go on.         *)
InDeadlock(r) ==
  \E S \in SUBSET Runs :
     r \in S /\ \A p \in S : \E q \in S : WaitsFor(p, q)

(* Faulty variant: a task that is lost leaves its transaction open.                *)
LoseTasksLeaking(R) ==
  /\ pc' = [r \in Runs |-> IF r \in R THEN "dead" ELSE pc[r]]
  /\ pending' = [r \in Runs |-> IF r \in R THEN {} ELSE pending[r]]
  /\ UNCHANGED <<world, database, hashes, affected, unit, artifact, saved, flushed,
                 swept, deleting, doomed, known>>

(* The session's transaction is gone and the except block's commit raises  *)
(* PendingRollbackError (or the process is dead): the task ends without    *)
(* recording an outcome.                                                   *)
LoseTasks(R) ==
  /\ pc' = [r \in Runs |-> IF r \in R THEN "dead" ELSE pc[r]]
  /\ pending' = [r \in Runs |-> IF r \in R THEN {} ELSE pending[r]]
  /\ flushed' = [r \in Runs |-> IF r \in R THEN {} ELSE flushed[r]]
  /\ swept' = [r \in Runs |-> IF r \in R THEN {} ELSE swept[r]]
  /\ deleting' = [r \in Runs |-> IF r \in R THEN {} ELSE deleting[r]]
  /\ doomed' = [r \in Runs |-> IF r \in R THEN {} ELSE doomed[r]]
  /\ UNCHANGED <<world, database, hashes, affected, unit, artifact, saved, known>>

-------------------------------------------------------------------------------
(* The request                                                             *)

(* start_analysis_run: insert the run, commit, and schedule its task.  A   *)
(* base_run_id references an existing run.                                 *)
StartAnalysisRun(r, type) ==
  /\ At(r, "none")
  /\ type = "incremental_with_base" => \E q \in Runs : run[q].status # "absent"
  /\ run' = [run EXCEPT ![r].type = type, ![r].status = "queued"]
  /\ known' = [known EXCEPT ![r] = {fp \in Fingerprints : Stored(fp)}]
  /\ Goto(r, "begin")
  /\ UNCHANGED <<world, tu, rows, index, session>>

-------------------------------------------------------------------------------
(* run_analysis: scoping the run                                           *)

Begin(r) ==
  /\ At(r, "begin")
  /\ SetStatus(r, "running")
  /\ Goto(r, "announce_start")
  /\ UNCHANGED <<world, tu, rows, index, session, known>>

AnnounceStart(r) ==
  /\ At(r, "announce_start")
  /\ Publish(r, {<<"analysis.started", "run">>}, "load", "handle")

(* Faulty variant: the early return leaves the run as it is.                       *)
RejectCompileCommandsSilently(r) ==
  /\ At(r, "load")
  /\ "compile_db" \in Faults
  /\ Goto(r, "announce_invalid")
  /\ UNCHANGED <<world, database, session, known>>

(* The compile commands are missing, malformed or empty.                   *)
RejectCompileCommands(r) ==
  /\ At(r, "load")
  /\ "compile_db" \in Faults
  /\ SetStatus(r, "failed")
  /\ Goto(r, "announce_invalid")
  /\ UNCHANGED <<world, tu, rows, index, session, known>>

AnnounceInvalid(r) ==
  /\ At(r, "announce_invalid")
  /\ Publish(r, {<<"analysis.failed", "run">>}, "end", "handle")

(* build_file_index leaves the include edges of every node empty.          *)
NoIncludeEdges == [f \in Sources |-> {}]

(* Faulty variant: the hashes of runs still under way count as indexed.            *)
PreviousIndexesOfAnyRun ==
  {p \in [Sources -> Versions \cup {None}] :
     \A f \in Sources :
        LET stored == {hashes[q][f] : q \in Runs} \ {None}
        IN  IF stored = {} THEN p[f] = None ELSE p[f] \in stored}

(* previous_index: one hash per path, any of them where several rows of a  *)
(* path exist.                                                             *)
PreviousIndexes ==
  {p \in [Sources -> Versions \cup {None}] :
     \A f \in Sources :
        LET stored == {index[q][f] : q \in Runs} \ {None}
        IN  IF stored = {} THEN p[f] = None ELSE p[f] \in stored}

(* Hash the sources and fix the files the run will analyse.                *)
ScopeRun(r) ==
  /\ At(r, "load")
  /\ \E previous \in PreviousIndexes :
       LET current == [f \in Sources |-> disk[f]]
           scope   == IF run[r].type = "incremental_with_base"
                      THEN AffectedUnits(ChangedFiles(previous, current),
                                         NoIncludeEdges, Sources)
                      ELSE Sources
       IN  /\ hashes' = [hashes EXCEPT ![r] = current]
           /\ affected' = [affected EXCEPT ![r] = scope]
           /\ run' = [run EXCEPT ![r].total = Cardinality(scope)]
           /\ Goto(r, IF scope = {} THEN "reindex" ELSE "parse")
  /\ UNCHANGED <<world, tu, rows, index, unit, artifact, saved, transaction, known>>

-------------------------------------------------------------------------------
(* run_analysis: parsing                                                   *)

StartUnit(r, e) ==
  /\ At(r, "parse")
  /\ e \in Remaining(r)
  /\ tu' = [tu EXCEPT ![r][e] = "parsing"]
  /\ unit' = [unit EXCEPT ![r] = e]
  /\ Goto(r, "announce_unit")
  /\ UNCHANGED <<world, run, rows, index, hashes, affected, artifact, saved,
                 transaction, known>>

AnnounceUnit(r) ==
  /\ At(r, "announce_unit")
  /\ Publish(r, {<<"translation_unit.started", unit[r]>>}, "rpc", "handle")

(* The worker reads the files as they are now, not as they were hashed.    *)
ParseUnit(r) ==
  /\ At(r, "rpc")
  /\ tu' = [tu EXCEPT ![r][unit[r]] = "completed"]
  /\ artifact' = [artifact EXCEPT ![r][unit[r]] = disk]
  /\ run' = [run EXCEPT ![r].parsed = @ + 1]
  /\ Goto(r, "announce_parsed")
  /\ UNCHANGED <<world, rows, index, hashes, affected, unit, saved, transaction, known>>

ParseUnitFails(r) ==
  /\ At(r, "rpc")
  /\ "parse" \in Faults
  /\ tu' = [tu EXCEPT ![r][unit[r]] = "failed"]
  /\ run' = [run EXCEPT ![r].failed = @ + 1]
  /\ Goto(r, "announce_parsed")
  /\ UNCHANGED <<world, rows, index, hashes, affected, unit, artifact, saved,
                 transaction, known>>

AnnounceParsed(r) ==
  /\ At(r, "announce_parsed")
  /\ Publish(r, {<<"translation_unit.completed", unit[r]>>},
             IF Remaining(r) # {} THEN "parse"
             ELSE IF RulesEnabled /\ Parsed(r) # {} THEN "announce_rules"
             ELSE "reindex",
             "handle")

(* An exception that leaves the session usable: the worker call raises or  *)
(* times out, an entry lies outside the project.                           *)
Raise(r) ==
  /\ \/ At(r, "load") /\ "compile_db" \in Faults
     \/ At(r, "rpc") /\ "rpc" \in Faults
  /\ Goto(r, "handle")
  /\ UNCHANGED <<world, database, session, known>>

-------------------------------------------------------------------------------
(* run_analysis: rules and violations                                      *)

AnnounceRules(r) ==
  /\ At(r, "announce_rules")
  /\ Publish(r, {<<"rules.started", "run">>}, "rules", "handle")

(* execute_for_translation_units has run the rules, all without            *)
(* suspending, and raises when it puts the metrics of the parsed units     *)
(* together: what the rules found is gone.                                 *)
DispatchRaises(r) ==
  /\ At(r, "rules")
  /\ "raises" \in Dispatcher
  /\ Goto(r, "handle")
  /\ UNCHANGED <<world, database, session, known>>

(* execute_for_translation_units returns its results.                      *)
DispatchReturns(r) ==
  /\ At(r, "rules")
  /\ "returns" \in Dispatcher
  /\ Goto(r, IF Unsaved(r) # {} THEN "upsert" ELSE "commit")
  /\ UNCHANGED <<world, database, session, known>>

(* upsert_violations looks every fingerprint of the unit up; the rows are  *)
(* changed or added in the session only.                                   *)
SelectUnit(r, e) ==
  /\ At(r, "upsert")
  /\ e \in Unsaved(r)
  /\ \A fp \in Found(r, e) : Cardinality(Visible(r, fp)) <= 1
  /\ pending' = [pending EXCEPT ![r] = Targets(r, Found(r, e))]
  /\ unit' = [unit EXCEPT ![r] = e]
  /\ Goto(r, "flush")
  /\ UNCHANGED <<world, database, hashes, affected, artifact, saved, flushed,
                 swept, deleting, doomed, known>>

(* scalar_one_or_none finds two rows of a fingerprint and raises; what was *)
(* looked up before it stays in the session.                               *)
SelectFindsTwo(r, e) ==
  /\ At(r, "upsert")
  /\ e \in Unsaved(r)
  /\ \E fp \in Found(r, e) : Cardinality(Visible(r, fp)) > 1
  /\ \E before \in SUBSET {fp \in Found(r, e) : Cardinality(Visible(r, fp)) <= 1} :
        pending' = [pending EXCEPT ![r] = Targets(r, before)]
  /\ Goto(r, "handle")
  /\ UNCHANGED <<world, database, hashes, affected, unit, artifact, saved, flushed,
                 swept, deleting, doomed, known>>

FlushUnit(r) ==
  /\ At(r, "flush")
  /\ ~Blocked(r)
  /\ flushed' = [flushed EXCEPT ![r] = @ \cup pending[r]]
  /\ pending' = [pending EXCEPT ![r] = {}]
  /\ saved' = [saved EXCEPT ![r] = @ \cup {unit[r]}]
  /\ Goto(r, IF Unsaved(r) \ {unit[r]} # {} THEN "upsert" ELSE "commit")
  /\ UNCHANGED <<world, database, hashes, affected, unit, artifact,
                 swept, deleting, doomed, known>>

(* Faulty variant: the results are flushed but not committed.                      *)
CommitResultsForgotten(r) ==
  /\ At(r, "commit")
  /\ Goto(r, "announce_results")
  /\ UNCHANGED <<world, database, session, known>>

CommitResults(r) ==
  /\ At(r, "commit")
  /\ rows' = Written(r, flushed[r])
  /\ flushed' = [flushed EXCEPT ![r] = {}]
  /\ Goto(r, "announce_results")
  /\ UNCHANGED <<world, run, tu, index, hashes, affected, unit, artifact, saved,
                 pending, swept, deleting, doomed, known>>

AnnounceResults(r) ==
  /\ At(r, "announce_results")
  /\ Publish(r, {<<"rules.completed", "run">>}
                \cup ({"violation.detected"} \X UNION {Found(r, e) : e \in Parsed(r)}),
             "reindex", "handle")

-------------------------------------------------------------------------------
(* run_analysis: the file index and the end of the run                     *)

(* The DELETE of the next path of current_index.  It is to delete the rows *)
(* that are committed when it starts.                                      *)
StartDelete(r, f) ==
  /\ At(r, "reindex")
  /\ f \in Sources \ swept[r]
  /\ \A g \in Sources \ swept[r] : Position[f] <= Position[g]
  /\ swept' = [swept EXCEPT ![r] = @ \cup {f}]
  /\ deleting' = [deleting EXCEPT ![r] = {q \in Runs : index[q][f] # None} \X {f}]
  /\ Goto(r, "delete")
  /\ UNCHANGED <<world, database, hashes, affected, unit, artifact, saved,
                 pending, flushed, doomed, known>>

(* Faulty variant: every DELETE is committed on its own.                           *)
FinishDeleteCommitting(r) ==
  /\ At(r, "delete")
  /\ ~Blocked(r)
  /\ index' = [q \in Runs |-> [f \in Sources |->
                 IF <<q, f>> \in deleting[r] THEN None ELSE index[q][f]]]
  /\ deleting' = [deleting EXCEPT ![r] = {}]
  /\ Goto(r, "reindex")
  /\ UNCHANGED <<world, run, tu, rows, hashes, affected, unit, artifact, saved,
                 pending, flushed, swept, doomed, known>>

(* The DELETE has waited for the runs that have deleted some of its rows;  *)
(* rows they have committed to delete are no more, the rest it takes.      *)
FinishDelete(r) ==
  /\ At(r, "delete")
  /\ ~Blocked(r)
  /\ doomed' = [doomed EXCEPT ![r] = @ \cup {x \in deleting[r] : index[x[1]][x[2]] # None}]
  /\ deleting' = [deleting EXCEPT ![r] = {}]
  /\ Goto(r, "reindex")
  /\ UNCHANGED <<world, database, hashes, affected, unit, artifact, saved,
                 pending, flushed, swept, known>>

(* All paths have been gone through: insert the new index rows and         *)
(* complete the run, in one commit.                                        *)
Complete(r) ==
  /\ At(r, "reindex")
  /\ swept[r] = Sources
  /\ run[r].type = "full"
  /\ index' = [q \in Runs |-> [f \in Sources |->
                 IF q = r THEN hashes[r][f]
                 ELSE IF <<q, f>> \in doomed[r] THEN None
                 ELSE index[q][f]]]
  /\ swept' = [swept EXCEPT ![r] = {}]
  /\ doomed' = [doomed EXCEPT ![r] = {}]
  /\ SetStatus(r, "completed")
  /\ Goto(r, "announce_done")
  /\ UNCHANGED <<world, tu, rows, hashes, affected, unit, artifact, saved,
                 pending, flushed, deleting, known>>

(* The manifest of an incremental run holds affected_files, a Python set,  *)
(* in a JSON column: the flush raises and rolls the transaction back.      *)
RejectManifest(r) ==
  /\ At(r, "reindex")
  /\ swept[r] = Sources
  /\ run[r].type # "full"
  /\ LoseTasks({r})

AnnounceDone(r) ==
  /\ At(r, "announce_done")
  /\ Publish(r, {<<"analysis.completed", "run">>}, "end", "handle")

(* The except block: record the failure and commit, with it whatever the   *)
(* session still holds.                                                    *)
HandleError(r) ==
  /\ At(r, "handle")
  /\ ~Blocked(r)
  /\ SetStatus(r, "failed")
  /\ rows' = Written(r, flushed[r] \cup pending[r])
  /\ flushed' = [flushed EXCEPT ![r] = {}]
  /\ pending' = [pending EXCEPT ![r] = {}]
  /\ Goto(r, "announce_failed")
  /\ UNCHANGED <<world, tu, index, hashes, affected, unit, artifact, saved,
                 swept, deleting, doomed, known>>

AnnounceFailed(r) ==
  /\ At(r, "announce_failed")
  /\ Publish(r, {<<"analysis.failed", "run">>}, "end", "end")

-------------------------------------------------------------------------------
(* Faults and the rest of the world                                        *)

(* Steps that execute a statement, flush or commit.                        *)
DatabaseSteps ==
  {"begin", "load", "parse", "rpc", "upsert", "flush", "commit", "reindex",
   "delete", "handle"}

DatabaseFails(r) ==
  /\ "db" \in Faults
  /\ pc[r] \in DatabaseSteps
  /\ LoseTasks({r})

(* The database breaks a deadlock by failing a statement that waits in it. *)
DeadlockVictim(r) ==
  /\ InDeadlock(r)
  /\ LoseTasks({r})

(* The server process dies: its tasks are gone, the database and Redis     *)
(* stay.  Nothing looks for unfinished runs when the server starts again.  *)
Crash ==
  LET live == {r \in Runs : pc[r] \notin {"none", "end", "dead"}}
  IN  /\ "crash" \in Faults
      /\ live # {}
      /\ LoseTasks(live)

(* A developer edits a source or a header.                                 *)
EditFile(f, v) ==
  /\ v # disk[f]
  /\ disk' = [disk EXCEPT ![f] = v]
  /\ UNCHANGED <<delivered, database, pc, session, known>>

(* A reviewer decides on a violation (ReviewService.submit_review); the    *)
(* UPDATE waits while a run holds the row.                                 *)
ReviewViolation(w, status) ==
  /\ rows[w] # None
  /\ \A q \in Runs : w \notin flushed[q]
  /\ rows' = [rows EXCEPT ![w].status = status]
  /\ UNCHANGED <<world, run, tu, index, pc, session, known>>

(* What the task of r does of itself.                                      *)
TaskStep(r) ==
  \/ Begin(r)
  \/ AnnounceStart(r)
  \/ RejectCompileCommands(r)
  \/ AnnounceInvalid(r)
  \/ ScopeRun(r)
  \/ \E e \in Entries : StartUnit(r, e)
  \/ AnnounceUnit(r)
  \/ ParseUnit(r)
  \/ ParseUnitFails(r)
  \/ AnnounceParsed(r)
  \/ Raise(r)
  \/ AnnounceRules(r)
  \/ DispatchRaises(r)
  \/ DispatchReturns(r)
  \/ \E e \in Entries : SelectUnit(r, e)
  \/ \E e \in Entries : SelectFindsTwo(r, e)
  \/ FlushUnit(r)
  \/ CommitResults(r)
  \/ AnnounceResults(r)
  \/ \E f \in Sources : StartDelete(r, f)
  \/ FinishDelete(r)
  \/ Complete(r)
  \/ RejectManifest(r)
  \/ AnnounceDone(r)
  \/ HandleError(r)
  \/ AnnounceFailed(r)

Next ==
  \/ \E r \in Runs, type \in RunTypes : StartAnalysisRun(r, type)
  \/ \E r \in Runs : TaskStep(r)
  \/ \E r \in Runs : DatabaseFails(r)
  \/ \E r \in Runs : DeadlockVictim(r)
  \/ Crash
  \/ \E f \in Files, v \in Versions : EditFile(f, v)
  \/ \E w \in RowIds, status \in Statuses : ReviewViolation(w, status)

(* The event loop resumes every task whose await has finished, and the     *)
(* database breaks every deadlock.                                         *)
Fairness ==
  \A r \in Runs : WF_vars(TaskStep(r)) /\ WF_vars(DeadlockVictim(r))

Spec == Init /\ [][Next]_vars /\ Fairness

-------------------------------------------------------------------------------
(* Properties                                                              *)

(* A violation found by r in the content it parsed.                        *)
FoundBy(r, fp) ==
  \E e \in Entries : artifact[r][e] # None
                     /\ fp \in Detects[e][artifact[r][e][FileOf[e]]]

(* A run whose task got to the end of run_analysis without losing its      *)
(* session recorded an outcome; and a run recorded as completed has a      *)
(* finished record for every unit of its scope, counts that agree with     *)
(* those records, and a row for every violation it found.                  *)
HandledUnits(r) == {e \in Entries : FileOf[e] \in affected[r]}

OutcomeIsRecorded ==
  \A r \in Runs :
    /\ pc[r] = "end" => run[r].status \in {"completed", "failed"}
    /\ run[r].status = "completed" =>
         /\ \A e \in HandledUnits(r) : tu[r][e] \in {"completed", "failed"}
         /\ run[r].parsed = Cardinality({e \in Entries : tu[r][e] = "completed"})
         /\ run[r].failed = Cardinality({e \in Entries : tu[r][e] = "failed"})
         /\ \A fp \in Fingerprints : FoundBy(r, fp) => Stored(fp)

(* Every announcement follows the commit it announces: a client that hears *)
(* an event and then queries finds what the event told it, whatever fails  *)
(* afterwards.                                                             *)
AnnouncedIsDurable ==
  \A r \in Runs :
    /\ <<"analysis.failed", "run">> \in delivered[r] => run[r].status = "failed"
    /\ <<"analysis.completed", "run">> \in delivered[r] =>
         run[r].status \in {"completed", "failed"}
         /\ \A fp \in Fingerprints : FoundBy(r, fp) => Stored(fp)
    /\ \A fp \in Fingerprints :
         <<"violation.detected", fp>> \in delivered[r] => Stored(fp)
    /\ \A e \in Entries :
         /\ <<"translation_unit.started", e>> \in delivered[r] => tu[r][e] # "absent"
         /\ <<"translation_unit.completed", e>> \in delivered[r] =>
              tu[r][e] \in {"completed", "failed"}

(* A row belongs to a run that found its violation: upserts by concurrent  *)
(* runs, failures between flush and commit and edits between hashing and   *)
(* parsing never attribute a violation to a run that did not see it.       *)
RowsAreFindings ==
  \A w \in RowIds : rows[w] # None =>
     FoundBy(w[1], w[2]) /\ FoundBy(rows[w].owner, w[2])

(* q has dealt with every unit of the file.                                *)
FileIsDone(q, f) ==
  \A e \in Entries : FileOf[e] = f =>
    \/ tu[q][e] = "failed"
    \/ tu[q][e] = "completed" /\ \A fp \in Found(q, e) : Stored(fp)

(* A hash enters the file index only by a completed run that handled every *)
(* unit of that file and stored what it found.                             *)
IndexedIsAnalysed ==
  \A r \in Runs, f \in Sources : index[r][f] # None =>
    index[r][f] = hashes[r][f] /\ FileIsDone(r, f)

(* An incremental run leaves a file out of its scope only on the strength  *)
(* of finished work: another run hashed the same content and dealt with    *)
(* every unit of the file.  This outlives the index row that said so: the  *)
(* row may since have been replaced, and its run recorded as failed.       *)
SkippedWorkIsDone ==
  \A r \in Runs, f \in Sources :
    hashes[r][f] # None /\ f \notin affected[r] =>
      \E q \in Runs \ {r} : hashes[q][f] = hashes[r][f] /\ FileIsDone(q, f)

(* The task of q has a step to take that no lock keeps it from.            *)
CanGoOn(q) ==
  \/ pc[q] = "upsert" /\ Unsaved(q) # {}
  \/ pc[q] \in {"flush", "handle", "delete"} /\ ~Blocked(q)
  \/ pc[q] \in {"commit", "reindex"}

(* The runs r waits for, those they wait for, and so on, are in S.         *)
WaitsWithin(r, S) ==
  r \in S /\ \A p \in S, q \in Runs : WaitsFor(p, q) => q \in S

(* A task that waits for a row lock, and that no deadlock victim will      *)
(* free, waits for a live task: some run down its chain of waits goes on.  *)
(* No lock outlives the transaction that took it, whatever ended the task. *)
WaitersAreServed ==
  \A r \in Runs : Blocked(r) /\ ~InDeadlock(r) =>
    \A S \in SUBSET Runs : WaitsWithin(r, S) => \E q \in S : CanGoOn(q)

(* Cross-run tracking: a run never adds a second row for a fingerprint     *)
(* that already had one when the run was requested.                        *)
KnownFingerprintsAreNotDuplicated ==
  \A r \in Runs : \A fp \in known[r] : rows[<<r, fp>>] = None

(* Analysis never undoes a reviewer's decision and never removes a row,    *)
(* however its upserts interleave with reviews.                            *)
AnalysisKeepsDecisions ==
  [][pc' # pc => \A w \in RowIds : rows[w] # None =>
        rows'[w] # None /\ rows'[w].status = rows[w].status]_vars

(* What other sessions see of all runs implements the abstract ledger:     *)
(* whatever the tasks flush, wherever they fail, their results, their index*)
(* rows and their outcome reach the tables in single steps.                *)
Ledger == INSTANCE RunLedger WITH
  status <- [r \in Runs |-> run[r].status],
  units <- tu,
  table <- rows,
  files <- index

ImplementsRunLedger == Ledger!Spec

(* A requested run comes to an end: it is recorded as completed or failed, *)
(* or its task is lost.  No run waits for another forever.                 *)
RequestedRunsEnd ==
  \A r \in Runs :
    run[r].status = "queued" ~>
      (run[r].status \in {"completed", "failed"} \/ pc[r] = "dead")

-------------------------------------------------------------------------------
(* Claims of the documents and assertions of the code that do not hold     *)

(* What the rules find in the parsed units is persisted: a run that has    *)
(* come to its end has stored it.                                          *)
FindingsArePersisted ==
  \A r \in Runs : pc[r] = "end" =>
    \A fp \in Fingerprints : FoundBy(r, fp) => Stored(fp)

(* Every exception ends in status failed (the except block of              *)
(* run_analysis), so without a crash or a database fault every requested   *)
(* run ends as completed or failed.                                        *)
RequestedRunsFinish ==
  \A r \in Runs :
    run[r].status = "queued" ~> run[r].status \in {"completed", "failed"}

(* When an incremental run fixes its scope, it leaves out only units whose *)
(* source and headers are as some run parsed them.                         *)
SkippedUnitsAreCurrent ==
  [][\A r \in Runs, e \in Entries :
       (pc[r] = "load" /\ pc'[r] \in {"parse", "reindex"} /\ FileOf[e] \notin affected'[r]) =>
         \E q \in Runs :
           /\ artifact[q][e] # None
           /\ \A f \in {FileOf[e]} \cup Includes[FileOf[e]] :
                 artifact[q][e][f] = disk[f]]_vars
===============================================================================
