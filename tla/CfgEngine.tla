------------------------------ MODULE CfgEngine ------------------------------
(* CFGEngine (analyzers/cfg_engine.py): basic blocks and edges of one        *)
(* function.                                                                 *)
(*                                                                           *)
(* The graph under construction is a record: the statements of every block   *)
(* (blocks are numbered from 1 as _BlockFactory numbers them), the edges in  *)
(* the order they are appended, the blocks labels start, and the gotos still *)
(* to be wired.  ENTRY is block 0 and EXIT block -1.                         *)
EXTENDS StructuralFlow

ENTRY == 0
EXIT == -1
NonStatementKinds == {"ParmVarDecl", "BuiltinType", "PointerType", "RecordType", "EnumDecl"}

Edge(source, target, kind) == [source |-> source, target |-> target, kind |-> kind]
EmptyCfg == [blocks |-> <<>>, edges |-> <<>>, labels |-> <<>>, gotos |-> <<>>, pruned |-> {}]

AddEdge(b, source, target, kind) == [b EXCEPT !.edges = Append(@, Edge(source, target, kind))]
NewBlock(b) == [b EXCEPT !.blocks = Append(@, <<>>)]
AddStatement(b, block, s) == [b EXCEPT !.blocks[block] = Append(@, s)]

Successors(b, block) == SelectSeq(b.edges, LAMBDA e : e.source = block)
Predecessors(b, block) == SelectSeq(b.edges, LAMBDA e : e.target = block)
Terminates(b, block) ==
    \E k \in DOMAIN b.edges : /\ b.edges[k].source = block
                              /\ b.edges[k].kind \in {"return", "break", "goto"}

BodyStatements(g, f) ==
    LET bodies == ChildrenOfKind(g, f, {"CompoundStmt"})
    IN  IF bodies # <<>> THEN Children(g, bodies[1])
        ELSE SelectSeq(Children(g, f), LAMBDA c : ~OfKind(g, c, NonStatementKinds))

(* One clause per kind of statement.  The state of the walk is w: the        *)
(* builder and the block statements are being added to.                      *)
Walk(b, cur) == [b |-> b, cur |-> cur]
RECURSIVE Step(_, _, _, _)

(* Returns the builder, the first block of the sequence and its tail. *)
Built(first, end) == [b |-> end.b, first |-> first, tail |-> end.cur]
BuildBlockSequence(g, statements, b, loops) ==
    Built(Len(b.blocks) + 1,
          FoldLeft(LAMBDA w, s : Step(g, s, w, loops), Walk(NewBlock(b), Len(b.blocks) + 1), statements))

AsSequenceEntry(g, node, b, loops) ==
    BuildBlockSequence(g, IF Kind(g, node) = "CompoundStmt" THEN Children(g, node) ELSE <<node>>,
                       b, loops)

(* A label without a name is registered under its node id, which no goto     *)
(* carries.                                                                  *)
SplitAt(w) ==
    IF w.b.blocks[w.cur] = <<>> THEN w
    ELSE Walk(AddEdge(NewBlock(w.b), w.cur, Len(w.b.blocks) + 1, "fallthrough"), Len(w.b.blocks) + 1)
StartLabel(g, s, w) ==
    IF Name(g, s) = "" THEN w ELSE [w EXCEPT !.b.labels = (Name(g, s) :> w.cur) @@ @]
AddCurrent(w, s) == [w EXCEPT !.b = AddStatement(@, w.cur, s)]
HandleLabel(g, s, w) == AddCurrent(StartLabel(g, s, SplitAt(w)), s)

(* A part entered from one block and left into another: the body of a loop   *)
(* or a branch of an if.                                                     *)
Wire(r, from, kind, target, exitKind) ==
    AddEdge(AddEdge(r.b, from, r.first, kind), r.tail, target, exitKind)
Branch(g, kids, n, b, from, join, kind, loops) ==
    IF n > Len(kids) THEN AddEdge(b, from, join, kind)
    ELSE Wire(AsSequenceEntry(g, kids[n], b, loops), from, kind, join, "fallthrough")

HandleIf(g, s, w, loops) ==
    LET kids == Children(g, s)
        join == Len(w.b.blocks) + 1
        b1   == NewBlock(AddStatement(w.b, w.cur, s))
        then == Branch(g, kids, 2, b1, w.cur, join, "true", loops)
    IN  Walk(Branch(g, kids, 3, then, w.cur, join, "false", loops), join)

(* The header of a do loop is where its body starts as well: the builder     *)
(* makes no difference between the loops but the edge kind into the body.    *)
HandleLoop(g, s, w, loops) ==
    LET kids   == Children(g, s)
        do     == Kind(g, s) = "DoStmt"
        header == Len(w.b.blocks) + 1
        after  == header + 1
        b1     == AddEdge(NewBlock(AddStatement(NewBlock(w.b), header, s)),
                          w.cur, header, "fallthrough")
        b2     == IF kids = <<>> THEN b1
                  ELSE Wire(AsSequenceEntry(g, IF do THEN Head(kids) ELSE Last(kids), b1,
                                            Append(loops, [continue |-> header, break |-> after])),
                            header, IF do THEN "fallthrough" ELSE "true", header, "loop_back")
    IN  Walk(AddEdge(b2, header, after, "false"), after)

(* The clauses of a switch body: each starts with its marker; statements     *)
(* before the first marker belong to none.                                   *)
(* A plausible slip: the last clause ends one early.                         *)
CaseGroupsCutShort(g, statements) ==
    LET starts == SelectSeq([k \in DOMAIN statements |-> k],
                            LAMBDA k : OfKind(g, statements[k], ClauseKinds))
    IN  [n \in DOMAIN starts |->
            SubSeq(statements, starts[n],
                   IF n = Len(starts) THEN Len(statements) - 1 ELSE starts[n + 1] - 1)]
CaseGroups(g, statements) ==
    LET starts == SelectSeq([k \in DOMAIN statements |-> k],
                            LAMBDA k : OfKind(g, statements[k], ClauseKinds))
    IN  [n \in DOMAIN starts |->
            SubSeq(statements, starts[n],
                   IF n = Len(starts) THEN Len(statements) ELSE starts[n + 1] - 1)]

(* What falls out of a clause goes on to the next one, or leaves. *)
FallOut(b, tail, target, kind) ==
    IF tail = 0 \/ Terminates(b, tail) THEN b ELSE AddEdge(b, tail, target, kind)
AddClause(acc, r, from, kind) ==
    [b |-> FallOut(AddEdge(r.b, from, r.first, kind), acc.tail, r.first, "switch_fallthrough"),
     tail |-> r.tail]
NoMatch(g, groups, b, from, after) ==
    IF \E k \in DOMAIN groups : Kind(g, groups[k][1]) = "DefaultStmt" THEN b
    ELSE AddEdge(b, from, after, "no_match")
AddClauses(g, groups, b, from, after, loops) ==
    FoldLeft(LAMBDA acc, group :
                AddClause(acc, BuildBlockSequence(g, group, acc.b, loops), from,
                          IF Kind(g, group[1]) = "DefaultStmt" THEN "default" ELSE "case"),
             [b |-> b, tail |-> 0], groups)
LeaveClauses(all, after) == FallOut(all.b, all.tail, after, "fallthrough")

HandleSwitch(g, s, w, loops) ==
    LET b1     == NewBlock(AddStatement(w.b, w.cur, s))
        after  == Len(w.b.blocks) + 1
        inner  == Append(loops, [continue |-> w.cur, break |-> after])
        bodies == SwitchBodies(g, s)
        groups == CaseGroups(g, Children(g, bodies[1]))
    IN  IF bodies = <<>> THEN Walk(AddEdge(b1, w.cur, after, "fallthrough"), after)
        ELSE Walk(NoMatch(g, groups,
                          LeaveClauses(AddClauses(g, groups, b1, w.cur, after, inner), after),
                          w.cur, after), after)

(* A statement that leaves its block: it is the last one of it, and what     *)
(* follows starts a block nothing leads to.                                  *)
StartDangling(b) == Walk(NewBlock(b), Len(b.blocks) + 1)

EnterAt(r, from) == AddEdge(r.b, from, r.first, "fallthrough")
HandleCompound(g, s, w, loops) ==
    StartDangling(EnterAt(BuildBlockSequence(g, Children(g, s), w.b, loops), w.cur))

HandleReturn(s, w) == StartDangling(AddEdge(AddStatement(w.b, w.cur, s), w.cur, EXIT, "return"))

HandleJump(s, w, loops, kind) ==
    LET b1 == AddStatement(w.b, w.cur, s)
        target == IF kind = "break" THEN Last(loops).break ELSE Last(loops).continue
    IN  StartDangling(IF loops = <<>> THEN b1 ELSE AddEdge(b1, w.cur, target, kind))

HandleGoto(g, s, w) ==
    StartDangling([AddStatement(w.b, w.cur, s) EXCEPT
                      !.gotos = Append(@, <<w.cur, Prop(g, s, "target_label")>>)])

Step(g, s, w, loops) ==
    CASE Kind(g, s) = "LabelStmt"    -> HandleLabel(g, s, w)
      [] Kind(g, s) = "IfStmt"       -> HandleIf(g, s, w, loops)
      [] OfKind(g, s, LoopKinds)     -> HandleLoop(g, s, w, loops)
      [] Kind(g, s) = "SwitchStmt"   -> HandleSwitch(g, s, w, loops)
      [] Kind(g, s) = "CompoundStmt" -> HandleCompound(g, s, w, loops)
      [] Kind(g, s) = "ReturnStmt"   -> HandleReturn(s, w)
      [] Kind(g, s) = "BreakStmt"    -> HandleJump(s, w, loops, "break")
      [] Kind(g, s) = "ContinueStmt" -> HandleJump(s, w, loops, "continue")
      [] Kind(g, s) = "GotoStmt"     -> HandleGoto(g, s, w)
      [] OTHER                       -> Walk(AddStatement(w.b, w.cur, s), w.cur)

-----------------------------------------------------------------------------
(* _prune_empty_pass_through_blocks: an empty block whose one way out is a   *)
(* fallthrough is bypassed and deleted, until nothing changes.               *)
PruneBlock(b, block) ==
    LET out == SelectSeq([k \in DOMAIN b.edges |-> k], LAMBDA k : b.edges[k].source = block)
        target == b.edges[out[1]].target
        bypass == [k \in DOMAIN b.edges |->
                      IF b.edges[k].target = block THEN [b.edges[k] EXCEPT !.target = target]
                      ELSE b.edges[k]]
    IN  IF \/ block \in b.pruned
           \/ b.blocks[block] # <<>>
           \/ Len(out) # 1
        THEN b
        ELSE IF b.edges[out[1]].kind # "fallthrough" \/ target = block THEN b
        ELSE [b EXCEPT !.edges = RemoveAt(bypass, out[1]), !.pruned = @ \cup {block}]

RECURSIVE PruneEmptyPassThroughBlocks(_)
PruneEmptyPassThroughBlocks(b) ==
    LET pass == FoldLeft(PruneBlock, b, [k \in DOMAIN b.blocks |-> k])
    IN  IF pass = b THEN b ELSE PruneEmptyPassThroughBlocks(pass)

WireGotos(b) ==
    FoldLeft(LAMBDA acc, p :
                AddEdge(acc, p[1], IF p[2] \in DOMAIN b.labels THEN b.labels[p[2]] ELSE EXIT, "goto"),
             b, b.gotos)

(* A plausible slip: an empty tail is taken for a block to be pruned.        *)
ImplicitReturnOfStatements(b, tail) ==
    IF Successors(b, tail) = <<>> /\ Predecessors(b, tail) # <<>> /\ b.blocks[tail] # <<>>
    THEN AddEdge(b, tail, EXIT, "implicit_return") ELSE b
ImplicitReturn(b, tail) ==
    IF Successors(b, tail) = <<>> /\ Predecessors(b, tail) # <<>>
    THEN AddEdge(b, tail, EXIT, "implicit_return") ELSE b
Complete(body) ==
    PruneEmptyPassThroughBlocks(WireGotos(ImplicitReturn(EnterAt(body, ENTRY), body.tail)))

Build(g, f) ==
    LET ss == BodyStatements(g, f)
    IN  IF ss = <<>> THEN AddEdge(EmptyCfg, ENTRY, EXIT, "fallthrough")
        ELSE Complete(BuildBlockSequence(g, ss, EmptyCfg, <<>>))

-----------------------------------------------------------------------------
(* The queries of ControlFlowGraph. *)
Blocks(b) == DOMAIN b.blocks \ b.pruned
Targets(b, block) == {b.edges[k].target : k \in {k \in DOMAIN b.edges : b.edges[k].source = block}}

RECURSIVE ReachableFrom(_, _, _)
ReachableFrom(b, frontier, visited) ==
    IF frontier \subseteq visited THEN visited
    ELSE ReachableFrom(b, UNION {Targets(b, c) : c \in frontier}, visited \cup frontier)
ReachableBlocks(b) == ReachableFrom(b, {ENTRY}, {})

UnreachableBlocks(b) == {c \in Blocks(b) \ ReachableBlocks(b) : b.blocks[c] # <<>>}
ExitEdges(b) == Predecessors(b, EXIT)
BlockStatements(b, block) == IF block \in Blocks(b) THEN b.blocks[block] ELSE <<>>
=============================================================================
