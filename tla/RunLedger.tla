------------------------------- MODULE RunLedger -------------------------------
(***************************************************************************)
(* What analysis runs promise to those who read the database.  A run takes *)
(* its units one by one and writes to the violations table in one step, if *)
(* at all, when none of its units is under way; it completes only with all *)
(* units dealt with, and in that step its hashes enter the file index, all *)
(* at once, while those of other runs may leave it, path by path.  A run   *)
(* that has completed may still be recorded as failed; one that has failed *)
(* stays so; neither changes anything any more.                            *)
(***************************************************************************)
CONSTANTS Runs, Entries, Sources, RowIds, None

VARIABLES
  status,  \* run -> the status of its record
  units,   \* run -> entry -> the status of its translation unit record
  table,   \* row id -> [owner, status], or None
  files    \* run -> source -> the hash of its index row, or None

vars == <<status, units, table, files>>

NoFiles == [f \in Sources |-> None]

(* No row is from r, or has been moved to it.                              *)
Unwritten(r) == \A w \in RowIds : table[w] # None => w[1] # r /\ table[w].owner # r

(* No run is under way; earlier runs may have left what they did.          *)
Init ==
  /\ status \in [Runs -> {"absent", "completed", "failed"}]
  /\ units \in [Runs -> [Entries -> {"absent", "parsing", "completed", "failed"}]]
  /\ \A r \in Runs : status[r] = "absent" =>
       /\ \A e \in Entries : units[r][e] = "absent"
       /\ Unwritten(r)
       /\ files[r] = NoFiles

Becomes(r, new) == status' = [status EXCEPT ![r] = new]

Request(r) ==
  /\ status[r] = "absent" /\ Becomes(r, "queued")
  /\ UNCHANGED <<units, table, files>>

Begin(r) ==
  /\ status[r] = "queued" /\ Becomes(r, "running")
  /\ UNCHANGED <<units, table, files>>

AtRest(r) == \A e \in Entries : units[r][e] # "parsing"

StartUnit(r, e) ==
  /\ status[r] = "running" /\ Unwritten(r) /\ AtRest(r)
  /\ units[r][e] = "absent"
  /\ units' = [units EXCEPT ![r][e] = "parsing"]
  /\ UNCHANGED <<status, table, files>>

EndUnit(r, e) ==
  /\ status[r] = "running"
  /\ units[r][e] = "parsing"
  /\ \E outcome \in {"completed", "failed"} : units' = [units EXCEPT ![r][e] = outcome]
  /\ UNCHANGED <<status, table, files>>

(* r adds rows of its own, which are open, and takes over others, whose    *)
(* status stays.                                                           *)
Write(r) ==
  /\ Unwritten(r) /\ AtRest(r)
  /\ \E W \in SUBSET RowIds :
       /\ \A w \in W : table[w] = None => w[1] = r
       /\ table' = [w \in RowIds |->
                      IF w \notin W THEN table[w]
                      ELSE IF table[w] = None THEN [owner |-> r, status |-> "open"]
                      ELSE [table[w] EXCEPT !.owner = r]]

Store(r) ==
  /\ status[r] = "running" /\ Write(r)
  /\ UNCHANGED <<status, units, files>>

(* No row of another run is changed, or added.                             *)
Complete(r) ==
  /\ status[r] = "running" /\ Becomes(r, "completed")
  /\ \A e \in Entries : units[r][e] \in {"completed", "failed"}
  /\ \A f \in Sources : files'[r][f] # None
  /\ \A q \in Runs \ {r}, f \in Sources : files'[q][f] \in {files[q][f], None}
  /\ UNCHANGED <<units, table>>

(* A run that fails may have results to leave behind.                      *)
Fail(r) ==
  /\ Becomes(r, "failed")
  /\ \/ status[r] = "running" /\ Write(r)
     \/ status[r] \in {"running", "completed"} /\ UNCHANGED table
  /\ UNCHANGED <<units, files>>

Review(w) ==
  /\ table[w] # None
  /\ table' = [table EXCEPT ![w].status = table'[w].status]
  /\ UNCHANGED <<status, units, files>>

Next ==
  \/ \E r \in Runs :
       \/ Request(r) \/ Begin(r) \/ Store(r) \/ Complete(r) \/ Fail(r)
       \/ \E e \in Entries : StartUnit(r, e) \/ EndUnit(r, e)
  \/ \E w \in RowIds : Review(w)

Spec == Init /\ [][Next]_vars
===============================================================================
