---------------------------- MODULE MCAnalysisRuns ----------------------------
(***************************************************************************)
(* Two entries that compile two sources; one header; violations that come  *)
(* and go with the contents of the sources.                                *)
(***************************************************************************)
EXTENDS AnalysisRuns, TLC

CONSTANTS e1, e2, main, util, header, p, q

(* Each entry compiles a source of its own, or there is one entry.         *)
TwoSources == e1 :> main @@ e2 :> util
OneSource == e1 :> main

(* The order of the compile commands.                                      *)
InOrder == [f \in Sources |-> IF f = main THEN 1 ELSE 2]

NoHeaders == [f \in Sources |-> {}]
MainIncludesHeader == main :> {header}

NoViolations == [e \in Entries |-> [v \in Versions |-> {}]]

(* Each unit has a violation of its own.                                   *)
OneEach == [e \in Entries |-> [v \in Versions |-> IF e = e1 THEN {p} ELSE {q}]]

(* The single unit has a violation that version 1 of its source removes.   *)
OneUntilEdited == [e \in Entries |-> [v \in Versions |-> IF v = 0 THEN {p} ELSE {}]]

(***************************************************************************)
(* States that uneventful full runs leave behind, with nothing edited and  *)
(* a dispatcher that returns: one run that stored every violation it       *)
(* found, or two that overlapped so that both inserted every row and       *)
(* neither saw the index rows of the other.  Runs that re-find known       *)
(* violations start from them.                                             *)
(***************************************************************************)
First == CHOOSE r \in Runs : TRUE
Second == CHOOSE r \in Runs \ {First} : TRUE

EventsOfRun ==
  {<<"analysis.started", "run">>, <<"rules.started", "run">>,
   <<"rules.completed", "run">>, <<"analysis.completed", "run">>}
  \cup ({"translation_unit.started", "translation_unit.completed"} \X Entries)
  \cup ({"violation.detected"} \X Fingerprints)

After(done) ==
  /\ disk = [f \in Files |-> 0]
  /\ delivered = [r \in Runs |-> IF r \in done THEN EventsOfRun ELSE {}]
  /\ run = [r \in Runs |->
              IF r \notin done
              THEN [type |-> "full", status |-> "absent", total |-> 0, parsed |-> 0, failed |-> 0]
              ELSE [type |-> "full", status |-> "completed", total |-> Cardinality(Sources),
                    parsed |-> Cardinality(Entries), failed |-> 0]]
  /\ tu = [r \in Runs |-> [e \in Entries |-> IF r \in done THEN "completed" ELSE "absent"]]
  /\ rows = [w \in RowIds |-> IF w[1] \in done THEN [owner |-> w[1], status |-> "open"] ELSE None]
  /\ index = [r \in Runs |-> [f \in Sources |-> IF r \in done THEN 0 ELSE None]]
  /\ pc = [r \in Runs |-> IF r \in done THEN "end" ELSE "none"]
  /\ hashes = [r \in Runs |-> [f \in Sources |-> IF r \in done THEN 0 ELSE None]]
  /\ affected = [r \in Runs |-> IF r \in done THEN Sources ELSE {}]
  /\ unit = [r \in Runs |-> IF r \in done THEN e2 ELSE None]
  /\ artifact = [r \in Runs |-> [e \in Entries |-> IF r \in done THEN disk ELSE None]]
  /\ saved = [r \in Runs |-> IF r \in done THEN Entries ELSE {}]
  /\ pending = [r \in Runs |-> {}]
  /\ flushed = [r \in Runs |-> {}]
  /\ swept = [r \in Runs |-> {}]
  /\ deleting = [r \in Runs |-> {}]
  /\ doomed = [r \in Runs |-> {}]
  /\ known = [r \in Runs |-> {}]

RerunSpec == (After({First}) \/ After({First, Second})) /\ [][Next]_vars /\ Fairness
===============================================================================
