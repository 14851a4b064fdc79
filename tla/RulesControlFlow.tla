-------------------------- MODULE RulesControlFlow --------------------------
(* The control-flow rule pack (rule_pack_control_flow.py, rule_15_5.py).     *)
(*                                                                           *)
(* In every rule pack a rule is the set of nodes its detect() reports for a  *)
(* unit.  Two reports of one rule on one node have the same fingerprint and  *)
(* the engine keeps one of them, so a set loses nothing.                     *)
EXTENDS CfgEngine, TypeAnalysis

(* Unreachable code: one report per block, at its first statement. *)
UnreachableCode(cfg) == {cfg.blocks[b][1] : b \in UnreachableBlocks(cfg)}
Rule2_1(g) == UNION {UnreachableCode(Build(g, f)) : f \in FunctionsOf(g)}

Rule15_1(g) == NodesByKind(g, "GotoStmt")

(* Bodies that are not compound statements; an else may be another if. *)
BracelessIf(g, i) ==
    LET kids == Children(g, i)
    IN  /\ Len(kids) >= 2
        /\ \/ Kind(g, kids[2]) # "CompoundStmt"
           \/ Len(kids) >= 3 /\ ~OfKind(g, kids[3], {"CompoundStmt", "IfStmt"})
Rule15_6(g) ==
    {i \in NodesOfKinds(g, {"IfStmt"} \cup LoopKinds) :
        \/ Kind(g, i) = "IfStmt" /\ BracelessIf(g, i)
        \/ /\ Kind(g, i) # "IfStmt" /\ Children(g, i) # <<>>
           /\ LET body == IF Kind(g, i) = "DoStmt" THEN Head(Children(g, i)) ELSE Last(Children(g, i))
              IN  Kind(g, body) # "CompoundStmt"}

(* Every clause ends in an unconditional terminator. *)
Rule16_3(g) == UNION {SwitchBlocksWithoutTerminator(g, s) : s \in NodesByKind(g, "SwitchStmt")}

Rule16_4(g) ==
    {s \in NodesByKind(g, "SwitchStmt") :
        \A d \in Descendants(g, s) : Kind(g, d) # "DefaultStmt"}

Rule16_6(g) ==
    {s \in NodesByKind(g, "SwitchStmt") :
        Cardinality({d \in Descendants(g, s) : OfKind(g, d, ClauseKinds)}) < 2}

(* A clause marker belongs directly to the body of a switch. *)
Rule16_2(g) ==
    {i \in NodesOfKinds(g, ClauseKinds) :
        ~ /\ ~IsFileScope(g, i) /\ Kind(g, g[i].parent) = "CompoundStmt"
          /\ ~IsFileScope(g, g[i].parent) /\ Kind(g, g[g[i].parent].parent) = "SwitchStmt"}

(* The (first) default is the first or the last clause. *)
MisplacedDefault(g, s) ==
    LET clauses == ChildrenOfKind(g, SwitchBodies(g, s)[1], ClauseKinds)
        defaults == {k \in DOMAIN clauses : Kind(g, clauses[k]) = "DefaultStmt"}
    IN  IF SwitchBodies(g, s) = <<>> THEN {}
        ELSE IF defaults = {} THEN {}
        ELSE {clauses[k] : k \in {Min(defaults)} \ {1, Len(clauses)}}
Rule16_5(g) == UNION {MisplacedDefault(g, s) : s \in NodesByKind(g, "SwitchStmt")}

(* A function with a value returns one on every way out: the first exit edge *)
(* that is no return, or a return without a value, is reported.              *)
OffendingExit(g, f, cfg) ==
    LET LastOr(e) == IF BlockStatements(cfg, e.source) = <<>> THEN f
                     ELSE Last(BlockStatements(cfg, e.source))
        Bad(e) == \/ e.kind # "return"
                  \/ LastOr(e) = f
                  \/ Children(g, LastOr(e)) = <<>>
        bad == SelectSeq(ExitEdges(cfg), Bad)
    IN  IF bad = <<>> THEN {} ELSE {LastOr(bad[1])}
Rule17_4(g) ==
    UNION {OffendingExit(g, f, Build(g, f)) :
              f \in {f \in FunctionsOf(g) : HasBody(g, f) /\ g[f].ess \notin {"unknown", "void"}}}

(* At most one break or goto ends a loop: all after the first are reported.  *)
Rule15_4(g) ==
    UNION {LET t == LoopTerminationStatements(g, l) IN {t[k] : k \in 2 .. Len(t)} :
              l \in NodesOfKinds(g, LoopKinds)}

(* Gotos whose label is not in a block that encloses them, with the label.   *)
(* The dictionary by name keeps the last label of the stack order.           *)
GotoLabelPairsCrossingScope(g, f) ==
    LET below == DescendantSeq(g, f)
        labels == SelectSeq(below, LAMBDA d : Kind(g, d) = "LabelStmt")
        LabelOf(name) == Last(SelectSeq(labels, LAMBDA d : Name(g, d) = name))
        Target(goto) == Prop(g, goto, "target_label")
    IN  {<<goto, LabelOf(Target(goto))>> :
            goto \in {d \in Range(below) :
                /\ Kind(g, d) = "GotoStmt"
                /\ \E l \in Range(labels) : Name(g, l) = Target(d)
                /\ g[LabelOf(Target(d))].parent \notin Range(Ancestors(g, d))}}

Rule15_2(g) == {p[1] : p \in UNION {GotoLabelPairsCrossingScope(g, f) : f \in FunctionsOf(g)}}
Rule15_3(g) == {p[2] : p \in UNION {GotoLabelPairsCrossingScope(g, f) : f \in FunctionsOf(g)}}

(* if ... else if chains end in an else: the last if of the chain is         *)
(* reported, found from its first.                                           *)
IsElseBranch(g, i) ==
    /\ ~IsFileScope(g, i) /\ Kind(g, g[i].parent) = "IfStmt"
    /\ Len(Children(g, g[i].parent)) >= 3 /\ Last(Children(g, g[i].parent)) = i
RECURSIVE FinalElseIf(_, _)
FinalElseIf(g, i) ==
    IF Len(Children(g, i)) < 3 \/ Kind(g, Last(Children(g, i))) # "IfStmt" THEN i
    ELSE FinalElseIf(g, Last(Children(g, i)))
HasFinalElse(g, i) == Len(Children(g, i)) >= 3 /\ Kind(g, Last(Children(g, i))) # "IfStmt"
Rule15_7(g) ==
    {FinalElseIf(g, i) : i \in {i \in NodesByKind(g, "IfStmt") :
        /\ ~IsElseBranch(g, i)
        /\ FinalElseIf(g, i) # i
        /\ ~HasFinalElse(g, FinalElseIf(g, i))}}

ExpectedClauses == 4
Rule14_2(g) == {i \in NodesByKind(g, "ForStmt") : Len(Children(g, i)) < ExpectedClauses}

Rule2_6(g) ==
    UNION {LET targeted == {Prop(g, d, "target_label") : d \in GotoTargets(g, f)}
           IN  {l \in Labels(g, f) : Name(g, l) # "" /\ Name(g, l) \notin targeted} :
              f \in FunctionsOf(g)}

Rule14_1(g) == {i \in NodesByKind(g, "ForStmt") : LoopCounterIsFloating(g, i)}
Rule16_7(g) == {i \in NodesByKind(g, "SwitchStmt") : SwitchConditionIsBoolean(g, i)}
Rule16_1(g) == {i \in NodesByKind(g, "SwitchStmt") : SwitchIsMalformed(g, i)}
Rule14_3(g) ==
    {i \in NodesOfKinds(g, {"IfStmt", "WhileStmt", "ForStmt"}) : ControllingExpressionInvariant(g, i)}

(* One return statement per function body (rule_15_5.py). *)
Rule15_5(g) ==
    {f \in FunctionsOf(g) :
        /\ HasBody(g, f)
        /\ LET body == ChildrenOfKind(g, f, {"CompoundStmt"})[1]
           IN  Cardinality({d \in Descendants(g, body) : Kind(g, d) = "ReturnStmt"}) > 1}
=============================================================================
