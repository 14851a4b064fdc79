-------------------------- MODULE ProjectAnalysis --------------------------
(* What RuleDispatcher.execute_for_translation_units computes for a project  *)
(* that is being written: developers add functions and directives to its     *)
(* units, a run analyses all units or, incrementally, some of them, and a    *)
(* function of an analysed unit may be executed to see whether the reports   *)
(* tell the truth.                                                           *)
(*                                                                           *)
(* A run is deterministic and its results leave with it, so one action       *)
(* computes it: the violations gathered when the units are through (its      *)
(* lines 53 to 108).  What the call does after that, the AttributeError at   *)
(* lines 139 to 148 included, and what becomes of the findings is            *)
(* AnalysisRuns; RuleExecution has the threads.                              *)
EXTENDS RuleRegistry, CMachine

CONSTANTS
  Projects,   \* the projects there are: names to records as below
  Code(_)     \* what a construct of a pool consists of: [trees, macros, planted]

ASSUME ProjectsAssumption ==
  \A p \in Range(Projects) : /\ IsFiniteSet(p.units) /\ p.units # {}
                             /\ p.limit \in Nat
                             /\ p.enabled \subseteq AllRules    \* {}: all of them
                             /\ p.independent \in BOOLEAN       \* its constructs share no file-scope names
                             /\ p.executable \in BOOLEAN        \* its functions may be executed

VARIABLES
  current,    \* the name of the project at hand
  sources,    \* unit -> the constructs written in it, in order
  run,        \* what the last run since the last edit gathered, or NoRun
  exec        \* the execution of a function of an analysed unit, or Idle

vars == <<current, sources, run, exec>>

NoRun == [units |-> {}, findings |-> <<>>]
Idle == [tu |-> ""]
project == Projects[current]

-----------------------------------------------------------------------------
(* The artifact of a unit. *)
NoMacros == [definitions |-> <<>>, expansions |-> <<>>, includes |-> <<>>, conditionals |-> <<>>,
             undefs |-> <<>>, directives |-> <<>>]
MergeMacros(a, b) == [k \in DOMAIN NoMacros |-> a[k] \o b[k]]

Artifact(tu, constructs) ==
  [tu |-> tu,
   g |-> Serialize(FoldLeft(LAMBDA acc, c : acc \o Code(c).trees, <<>>, constructs)),
   macros |-> FoldLeft(LAMBDA acc, c : MergeMacros(acc, Code(c).macros), NoMacros, constructs)]

Unit(tu) == Artifact(tu, sources[tu])

(* The linkage index of a run knows the units of that run and no others. *)
LinkageOf(units) == LinkageIndexOf([k \in 1 .. Cardinality(units) |-> Unit(SetToSeq(units)[k])])

(* The all_violations of execute_for_translation_units, unit by unit. *)
ExecuteFor(units) ==
  LET L == LinkageOf(units)
  IN  [units |-> units, findings |-> [tu \in units |-> Execute(Unit(tu), L, project.enabled)]]

-----------------------------------------------------------------------------
Init ==
  /\ current \in DOMAIN Projects
  /\ sources = [tu \in project.units |-> <<>>]
  /\ run = NoRun
  /\ exec = Idle

Written == FoldFunction(LAMBDA s, n : n + Len(s), 0, sources)

(* Somebody adds a construct at the end of a unit.  A unit holds a construct *)
(* once, and the project at most limit of them.                              *)
Edit(tu) ==
  /\ exec = Idle
  /\ Written < project.limit
  /\ \E c \in project.pool \ Range(sources[tu]) : sources' = [sources EXCEPT ![tu] = Append(@, c)]
  /\ run' = NoRun
  /\ UNCHANGED <<current, exec>>

(* A run over some of the units that have been written. *)
Analyse(units) ==
  /\ exec = Idle
  /\ units # {} /\ \A tu \in units : sources[tu] # <<>>
  /\ run' = ExecuteFor(units)
  /\ UNCHANGED <<current, sources, exec>>

(* A function of an analysed unit is called.  The execution remembers the    *)
(* graph it runs on and what the flow analyses say of it.                    *)
Call(tu) ==
  /\ project.executable /\ exec = Idle
  /\ tu \in run.units
  /\ LET g == Unit(tu).g
     IN  \E f \in {f \in FunctionsOf(g) : HasBody(g, f)} :
           LET cfg == Build(g, f)
               locals == {Name(g, d) : d \in {d \in Descendants(g, f) : Kind(g, d) = "VarDecl"}}
           IN  exec' = [tu |-> tu, f |-> f, g |-> g, pc |-> Entry(g, f),
                        mem |-> Blank(locals), closed |-> {},
                        dead |-> DeadStores(g, cfg),
                        tainted |-> PropagateTaint(g, cfg, DefaultTaintSources, DefaultTaintSinks)]
  /\ UNCHANGED <<current, sources, run>>

(* One statement, or one condition, is executed. *)
Execution ==
  /\ exec # Idle
  /\ exec.pc.stmt # 0
  /\ \E pc \in Moves(exec.g, exec.f, exec.pc) :
       exec' = [exec EXCEPT !.pc = pc,
                            !.mem = Memory(exec.g, @, exec.pc.stmt, DefaultTaintSources),
                            !.closed = Closed(exec.g, exec.mem, @, exec.pc.stmt)]
  /\ UNCHANGED <<current, sources, run>>

Return ==
  /\ exec # Idle
  /\ exec.pc.stmt = 0
  /\ exec' = Idle
  /\ UNCHANGED <<current, sources, run>>

Next ==
  \/ \E tu \in project.units : Edit(tu)
  \/ \E units \in SUBSET project.units : Analyse(units)
  \/ \E tu \in project.units : Call(tu)
  \/ Execution
  \/ Return

Spec == Init /\ [][Next]_vars

-----------------------------------------------------------------------------
(* Whole projects *)

Told(tu, r, name) == \E f \in run.findings[tu] : f.rule = r /\ Len(f.text) = 3 /\ f.text[3] = name
Selected(r) == r \in SelectRules(project.enabled)

(* How many nodes of a unit come before its k-th construct. *)
NodesBefore(tu, k) == Len(Artifact(tu, SubSeq(sources[tu], 1, k - 1)).g)

(* What a construct gives when it is all there is. *)
FindingsAlone ==
  LET Alone(c) == Artifact("alone", <<c>>)
  IN  [c \in UNION {p.pool : p \in {p \in Range(Projects) : p.independent}} |->
          Execute(Alone(c), LinkageIndexOf(<<Alone(c)>>), {})]
Shifted(f, n) == [f EXCEPT !.path = [k \in DOMAIN @ |-> @[k] + n]]

(* An unused parameter (rule 2.7) whose name something in the unit reads.    *)
HasNamesake(tu, f) ==
  f.rule = "2.7" /\ \E r \in NodesByKind(Unit(tu).g, "DeclRefExpr") : Name(Unit(tu).g, r) = f.text[3]


(* What a rule is written for is reported, on a node of the construct that   *)
(* has it, in every unit the construct is part of (the non-compliant         *)
(* examples of the rule packs).                                              *)
PlantedOffencesAreReported ==
  project.independent =>
    \A tu \in run.units : \A k \in DOMAIN sources[tu] :
      LET first == NodesBefore(tu, k) + 1
          last  == NodesBefore(tu, k + 1)
      IN  Code(sources[tu][k]).planted \subseteq
            {f.rule : f \in {f \in run.findings[tu] : f.path = <<>> \/ Last(f.path) \in first .. last}}

WithoutLocalNames(findings) == {f \in findings : f.rule # "8.7"}
PartOf(part, full) ==
  \A tu \in part.units : WithoutLocalNames(part.findings[tu]) \subseteq full.findings[tu]
(* An incremental run sees only its own units, so it may miss what a full    *)
(* run finds, but everything it reports a full run reports as well, with the *)
(* same fingerprint -- except that a name looks like one unit's own when the *)
(* others are not there (rule 8.7).                                          *)
PartialRunInventsNothing ==
  LET all == {tu \in project.units : sources[tu] # <<>>}
  IN  run.units \notin {{}, all} => PartOf(run, ExecuteFor(all))

NamesOf(tu) == {Name(Unit(tu).g, i) : i \in NodesOfKinds(Unit(tu).g, LinkageKinds)} \ {""}

(* When two units of a run disagree about a name, both hear of it: two       *)
(* definitions (5.8 and 8.6), the name internal to both (5.9), declared      *)
(* without a definition in both (8.5), or with different types (8.4).        *)
EveryPartyIsTold ==
  exec = Idle => \A a \in run.units : \A b \in run.units \ {a} : \A n \in NamesOf(a) \cap NamesOf(b) :
    LET Both(Uses(_, _)) == Uses(Unit(a).g, n) /\ Uses(Unit(b).g, n)
        TellsIf(r, P) == Selected(r) /\ P => Told(a, r, n)
    IN  /\ TellsIf("5.8", Both(Defines)) /\ TellsIf("8.6", Both(Defines))
        /\ TellsIf("5.9", Both(IsInternal))
        /\ TellsIf("8.5", Both(DeclaresOnly))
        /\ TellsIf("8.4", Cardinality(Spellings(Unit(a).g, n) \cup Spellings(Unit(b).g, n)) > 1)

(* Who calls whom, in the units of the run, and what that closes over. *)
CallsBetween ==
  UNION {LET g == Unit(tu).g
         IN  {<<Name(g, f), Prop(g, c, "callee")>> :
                 <<f, c>> \in {p \in FunctionsOf(g) \X NodesByKind(g, "CallExpr") :
                                 HasBody(g, p[1]) /\ p[2] \in Descendants(g, p[1])}} :
            tu \in run.units}
RECURSIVE Closure(_)
Closure(R) ==
  LET next == R \cup {<<p[1], q[2]>> : <<p, q>> \in {pq \in R \X R : pq[1][2] = pq[2][1]}}
  IN  IF next = R THEN R ELSE Closure(next)

(* Rule 17.2 reports exactly the functions that can come back to themselves  *)
(* through calls, within a unit or through other units of the run: the       *)
(* one-pass search for components agrees with the closure of the call graph. *)
RecursionIsExact ==
  exec = Idle /\ Selected("17.2") =>
    LET reach == Closure(CallsBetween)
    IN  \A tu \in run.units :
          {Last(f.path) : f \in {f \in run.findings[tu] : f.rule = "17.2"}} =
          {i \in FunctionsOf(Unit(tu).g) : <<Name(Unit(tu).g, i), Name(Unit(tu).g, i)>> \in reach}

-----------------------------------------------------------------------------
(* Executions *)

Running == exec # Idle
ReportedNodes(r) == {Last(f.path) : f \in {f \in run.findings[exec.tu] : f.rule = r}}
ReadsNow == Reads(exec.g, exec.pc)
CellOf(ref) == exec.mem[Name(exec.g, ref)]

ReachableStatements(cfg) == UNION {Range(BlockStatements(cfg, b)) : b \in ReachableBlocks(cfg)}
HasDoLoop == \E s \in Descendants(exec.g, exec.f) : Kind(exec.g, s) = "DoStmt"
SameStatements(inGraph, executable) ==
  /\ executable \subseteq inGraph
  /\ HasDoLoop \/ inGraph \subseteq executable
  /\ ReportedNodes("2.1") \cap executable = {}
(* The control-flow graph has a way to every statement C has a way to, and   *)
(* to no other unless there is a do loop, whose header the graph leaves      *)
(* without having been through the body: what rule 2.1 calls unreachable no  *)
(* execution reaches, and nothing unreachable goes unnoticed.                *)
FlowGraphIsExact ==
  (Running /\ exec.pc = Entry(exec.g, exec.f)) =>
    SameStatements(ReachableStatements(Build(exec.g, exec.f)), ExecutableStatements(exec.g, exec.f))

(* A read of a variable that has no value yet is reported (rule 9.1).        *)
UninitializedReadIsReported ==
  Running => \A r \in ReadsNow : CellOf(r).site = Uninit => r \in ReportedNodes("9.1")

(* A store the liveness analysis calls dead is never read.                   *)
DeadStoreIsNeverRead ==
  Running => \A r \in ReadsNow : CellOf(r).site \notin exec.dead

(* A function with a result whose execution runs off the end of its body is  *)
(* reported (rule 17.4).                                                     *)
MissingReturnIsReported ==
  (Running /\ exec.pc = Ended("end of body")) => ReportedNodes("17.4") # {}

(* A value from outside that arrives at a sink is reported there, whichever  *)
(* way it came.                                                              *)
TaintedSinkIsReported ==
  Running => \A r \in ReadsNow :
    LET call == exec.g[r].parent
    IN  (CellOf(r).taint /\ Prop(exec.g, call, "callee") \in DefaultTaintSinks) =>
          <<call, Name(exec.g, r)>> \in exec.tainted

(* A use of a stream through any of its pointers after it was closed through *)
(* any of them is reported, wherever the use comes later in the text than    *)
(* the fclose that was executed (rule 22.6).                                 *)
UseAfterCloseIsReported ==
  Running => \A r \in ReadsNow :
    (/\ \E c \in exec.closed : c.obj = CellOf(r).obj /\ c.by < r
     /\ Prop(exec.g, exec.g[r].parent, "callee") # "fclose") => r \in ReportedNodes("22.6")

(* Control that falls from one clause of a switch into the next has left a   *)
(* clause that is reported (rule 16.3).                                      *)
PreviousClause(g, m) ==
  Max({c \in Range(Children(g, g[m].parent)) : c < m /\ OfKind(g, c, ClauseKinds)})
FallthroughIsReported ==
  [][(/\ Running /\ exec' # Idle /\ exec.pc # exec'.pc
      /\ exec.pc.stmt # 0 /\ exec'.pc.stmt # 0
      /\ OfKind(exec.g, exec'.pc.stmt, ClauseKinds)
      /\ Kind(exec.g, exec.pc.stmt) # "SwitchStmt")
        => PreviousClause(exec.g, exec'.pc.stmt) \in ReportedNodes("16.3")]_vars
=============================================================================
