--------------------------- MODULE StructuralFlow ---------------------------
(* CFGBuilder (analyzers/cfg_builder.py): control-flow facts read off the    *)
(* shape of the tree, without basic blocks.                                  *)
EXTENDS AstGraph

UnconditionalTerminators == {"ReturnStmt", "BreakStmt", "ContinueStmt", "GotoStmt"}
LoopKinds == {"ForStmt", "WhileStmt", "DoStmt"}
BranchKinds == {"IfStmt", "SwitchStmt"}
ClauseKinds == {"CaseStmt", "DefaultStmt"}

(* The first CompoundStmt among a switch's children, if it has one. *)
SwitchBodies(g, s) == ChildrenOfKind(g, s, {"CompoundStmt"})

SwitchHasNoClauses(g, s) ==
    \/ SwitchBodies(g, s) = <<>>
    \/ ChildrenOfKind(g, SwitchBodies(g, s)[1], ClauseKinds) = <<>>

SwitchIsMalformed(g, s) ==
    \/ Flag(g, s, "switch_malformed")
    \/ SwitchBodies(g, s) = <<>>
    \/ SwitchHasNoClauses(g, s)

(* A plausible slip: a later clause's terminator is taken.                   *)
ClausesWithoutLaterTerminator(g, s) ==
    IF SwitchBodies(g, s) = <<>> THEN {}
    ELSE LET ss == Children(g, SwitchBodies(g, s)[1])
         IN  {ss[k] : k \in {k \in DOMAIN ss :
                 /\ OfKind(g, ss[k], ClauseKinds)
                 /\ ~\E m \in k + 1 .. Len(ss) : OfKind(g, ss[m], UnconditionalTerminators)}}

(* The clauses with no terminator, at the top level of the body, before the  *)
(* next clause or the end.                                                   *)
SwitchBlocksWithoutTerminator(g, s) ==
    IF SwitchBodies(g, s) = <<>> THEN {}
    ELSE LET ss == Children(g, SwitchBodies(g, s)[1])
             EndsBefore(k, m) == \A j \in k + 1 .. m : ~OfKind(g, ss[j], ClauseKinds)
         IN  {ss[k] : k \in {k \in DOMAIN ss :
                 /\ OfKind(g, ss[k], ClauseKinds)
                 /\ ~\E m \in k + 1 .. Len(ss) :
                       OfKind(g, ss[m], UnconditionalTerminators) /\ EndsBefore(k, m)}}

(* Break and goto statements of a loop, in order, not descending into nested *)
(* loops and switches -- except those that are direct children of the loop   *)
(* itself, which _walk enters because is_loop_root is still set.             *)
RECURSIVE LoopWalk(_, _, _)
LoopWalk(g, node, isLoopRoot) ==
    FoldLeft(LAMBDA acc, c :
                acc \o (IF OfKind(g, c, {"BreakStmt", "GotoStmt"}) THEN <<c>>
                        ELSE IF ~isLoopRoot /\ OfKind(g, c, LoopKinds \cup {"SwitchStmt"}) THEN <<>>
                        ELSE LoopWalk(g, c, FALSE)),
             <<>>, Children(g, node))

LoopTerminationStatements(g, loop) == LoopWalk(g, loop, TRUE)

GotoTargets(g, f) == {d \in Descendants(g, f) : Kind(g, d) = "GotoStmt"}
Labels(g, f) == {d \in Descendants(g, f) : Kind(g, d) = "LabelStmt"}
=============================================================================
