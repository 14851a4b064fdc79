------------------------------ MODULE DataFlow ------------------------------
(* DataFlowEngineV2 (analyzers/dataflow_engine_v2.py), iterative analyses    *)
(* over the control-flow graph, and DataFlowEngine (dataflow_engine.py), the *)
(* textual-order approximation it replaces.                                  *)
(*                                                                           *)
(* _linearize sorts references by line and column.  The worker numbers nodes *)
(* in source order, so here the order of two references is the order of      *)
(* their ids.                                                                *)
EXTENDS CfgEngine

CompoundAssignOpcodes == {"+=", "-=", "*=", "/=", "%=", "&=", "|=", "^=", "<<=", ">>="}
TypeChildKinds == {"BuiltinType", "RecordType", "PointerType"}
UNINIT == 0
DefaultTaintSources == {"recv", "read", "scanf", "sscanf", "getenv", "HAL_UART_Receive", "gets"}
DefaultTaintSinks == {"memcpy", "memmove", "strcpy", "strcat", "malloc", "system", "HAL_UART_Transmit"}

Sorted(g, nodes) == SelectSeq([i \in DOMAIN g |-> i], LAMBDA i : i \in nodes)
IsFirstChild(g, i) == Children(g, g[i].parent)[1] = i

(* _is_write_target: <<is_write, is_read_too>> *)
IsWriteTarget(g, ref) ==
    LET p == g[ref].parent
        op == Prop(g, p, "opcode")
    IN  CASE p = 0 -> <<FALSE, FALSE>>
          [] p # 0 /\ Kind(g, p) = "BinaryOperator" /\ IsFirstChild(g, ref) /\ op = "=" -> <<TRUE, FALSE>>
          [] p # 0 /\ Kind(g, p) = "BinaryOperator" /\ IsFirstChild(g, ref)
                   /\ op \in CompoundAssignOpcodes -> <<TRUE, TRUE>>
          [] p # 0 /\ Kind(g, p) = "UnaryOperator" /\ op \in {"++", "--"} -> <<TRUE, TRUE>>
          [] OTHER -> <<FALSE, FALSE>>

(* A branching statement owns its controlling expressions, not its bodies:   *)
(* those are in blocks of their own.                                         *)
OwnChildren(g, s) ==
    LET kids == Children(g, s)
    IN  CASE Kind(g, s) = "IfStmt" -> SubSeq(kids, 1, 1)
          [] Kind(g, s) \in {"WhileStmt", "ForStmt", "SwitchStmt"} -> SubSeq(kids, 1, Len(kids) - 1)
          [] Kind(g, s) = "DoStmt" -> SubSeq(kids, 2, Len(kids))
          [] OTHER -> kids

StatementOwnDescendants(g, s) ==
    {s} \cup UNION {{c} \cup Descendants(g, c) : c \in Range(OwnChildren(g, s))}

BlockReferences(g, cfg, block) ==
    {d \in UNION {StatementOwnDescendants(g, s) : s \in Range(BlockStatements(cfg, block))} :
        Kind(g, d) = "DeclRefExpr" /\ Name(g, d) # ""}

(* The reads and writes of a block in source order. *)
Event(g, ref, target) ==
    [name |-> Name(g, ref), write |-> target[1], read |-> ~target[1] \/ target[2], ref |-> ref]
EventsOf(g, refs) == [k \in DOMAIN refs |-> Event(g, refs[k], IsWriteTarget(g, refs[k]))]
BlockEvents(g, cfg, block) == EventsOf(g, Sorted(g, BlockReferences(g, cfg, block)))

WrittenNames(events) == {events[k].name : k \in {k \in DOMAIN events : events[k].write}}

ExposedReads(events) ==
    {events[k].name : k \in {k \in DOMAIN events :
        /\ events[k].read
        /\ \A j \in 1 .. k - 1 : ~(events[j].write /\ events[j].name = events[k].name)}}

UninitializedLocalDecls(g, f) ==
    {d \in Descendants(g, f) :
        /\ Kind(g, d) = "VarDecl" /\ Name(g, d) # ""
        /\ Range(Children(g, d)) \subseteq NodesOfKinds(g, TypeChildKinds)}

UninitDeclaredIn(g, f, cfg, block) ==
    {Name(g, d) : d \in {d \in UninitializedLocalDecls(g, f) : d \in Range(BlockStatements(cfg, block))}}

CfgNodes(cfg) == Blocks(cfg) \cup {ENTRY, EXIT}
(* A plausible slip: nothing flows along a goto.                             *)
SourcesButGotos(cfg, block) ==
    {cfg.edges[k].source : k \in {k \in DOMAIN cfg.edges :
        cfg.edges[k].target = block /\ cfg.edges[k].kind # "goto"}}
Sources(cfg, block) == {cfg.edges[k].source : k \in {k \in DOMAIN cfg.edges : cfg.edges[k].target = block}}
Incoming(cfg, outs, block) == UNION {outs[p] : p \in Sources(cfg, block)}
(* A plausible slip: nothing flows back along a loop.                        *)
OutgoingForward(cfg, ins, block) == UNION {ins[c] : c \in {c \in Targets(cfg, block) : c > block}}
Outgoing(cfg, ins, block) == UNION {ins[c] : c \in Targets(cfg, block)}

(* while changed: the least fixed point of a family of transfer functions. *)
RECURSIVE Iterate(_, _)
Iterate(F(_), sets) == LET next == F(sets) IN IF next = sets THEN sets ELSE Iterate(F, next)

Events(g, cfg) == [b \in CfgNodes(cfg) |-> BlockEvents(g, cfg, b)]

-----------------------------------------------------------------------------
(* A definition is <<variable, site>>; UNINIT is the site of the             *)
(* pseudo-definition a declaration without initialiser makes.                *)
BlockGen(g, f, cfg, block, events) ==
    LET last == {k \in DOMAIN events : events[k].write /\
                    \A j \in k + 1 .. Len(events) : ~(events[j].write /\ events[j].name = events[k].name)}
    IN  {<<events[k].name, events[k].ref>> : k \in last}
        \cup {<<v, UNINIT>> : v \in UninitDeclaredIn(g, f, cfg, block) \ WrittenNames(events)}

Reaching(cfg, gen, kill) ==
    LET Transfer(outs) == [b \in CfgNodes(cfg) |->
                              gen[b] \cup {d \in Incoming(cfg, outs, b) : d[1] \notin kill[b]}]
    IN  Iterate(Transfer, [b \in CfgNodes(cfg) |-> {}])
ReachingWith(g, f, cfg, events) ==
    Reaching(cfg, [b \in CfgNodes(cfg) |-> BlockGen(g, f, cfg, b, events[b])],
             [b \in CfgNodes(cfg) |-> WrittenNames(events[b])])
ReachingDefinitions(g, f, cfg) == ReachingWith(g, f, cfg, Events(g, cfg))

(* Reads an UNINIT pseudo-definition reaches: on entry to the block, or made *)
(* by a declaration anywhere in it, and no write of the block before.        *)
ReadsBeforeWrites(ev, names) ==
    {ev[k].ref : k \in {k \in DOMAIN ev :
        /\ ev[k].read /\ ev[k].name \in names
        /\ \A j \in 1 .. k - 1 : ~(ev[j].write /\ ev[j].name = ev[k].name)}}
UninitializedOnEntry(cfg, outs, block) == {d[1] : d \in {d \in Incoming(cfg, outs, block) : d[2] = UNINIT}}
ReadsReached(g, f, cfg, outs) ==
    UNION {ReadsBeforeWrites(BlockEvents(g, cfg, b),
                             UninitializedOnEntry(cfg, outs, b) \cup UninitDeclaredIn(g, f, cfg, b)) :
              b \in Blocks(cfg)}
UninitializedReads(g, f, cfg) == ReadsReached(g, f, cfg, ReachingDefinitions(g, f, cfg))

-----------------------------------------------------------------------------
(* liveness: live_out per block. *)
LiveIn(cfg, events) ==
    LET Transfer(ins) == [b \in CfgNodes(cfg) |->
            ExposedReads(events[b]) \cup (Outgoing(cfg, ins, b) \ WrittenNames(events[b]))]
    IN  Iterate(Transfer, [b \in CfgNodes(cfg) |-> {}])
LiveOut(cfg, ins) == [b \in CfgNodes(cfg) |-> Outgoing(cfg, ins, b)]
Liveness(cfg, events) == LiveOut(cfg, LiveIn(cfg, events))

(* Walking a block backwards: a plain write to a variable that is not live   *)
(* after it.  The next event of the variable in the block decides; the       *)
(* liveness on exit does when there is none.                                 *)
DeadIn(ev, live) ==
    LET Later(k) == {j \in k + 1 .. Len(ev) : ev[j].name = ev[k].name}
        LiveAfter(k) == IF Later(k) = {} THEN ev[k].name \in live ELSE ev[Min(Later(k))].read
    IN  {ev[k].ref : k \in {k \in DOMAIN ev : ev[k].write /\ ~ev[k].read /\ ~LiveAfter(k)}}
DeadWith(cfg, events, live) == UNION {DeadIn(events[b], live[b]) : b \in Blocks(cfg)}
DeadStoresOf(cfg, events) == DeadWith(cfg, events, Liveness(cfg, events))
DeadStores(g, cfg) == DeadStoresOf(cfg, Events(g, cfg))

-----------------------------------------------------------------------------
(* Taint.  Only plain assignments move it; a call is checked against what is *)
(* tainted when the walk reaches it.                                         *)
TaintNode(g, tainted, n, sources) ==
    LET kids == Children(g, n)
        rhs  == {kids[2]} \cup Descendants(g, kids[2])
        isTainted == \E d \in rhs :
            \/ Kind(g, d) = "CallExpr" /\ Prop(g, d, "callee") \in sources
            \/ Kind(g, d) = "DeclRefExpr" /\ Name(g, d) \in tainted
    IN  IF ~(Kind(g, n) = "BinaryOperator" /\ Prop(g, n, "opcode") = "=" /\ Len(kids) >= 2) THEN tainted
        ELSE IF Name(g, kids[1]) = "" THEN tainted
        ELSE IF isTainted THEN tainted \cup {Name(g, kids[1])} ELSE tainted \ {Name(g, kids[1])}

SinkArguments(g, tainted, n, sinks) ==
    IF Kind(g, n) = "CallExpr" /\ Prop(g, n, "callee") \in sinks
    THEN {<<n, Name(g, a)>> : a \in {a \in Range(Children(g, n)) : Name(g, a) \in tainted}}
    ELSE {}

(* The same nodes as StatementOwnDescendants, in the order they are walked. *)
OwnDescendantSeq(g, s) ==
    IF ~OfKind(g, s, LoopKinds \cup BranchKinds) THEN <<s>> \o DescendantSeq(g, s)
    ELSE FoldLeft(LAMBDA acc, c : acc \o <<c>> \o DescendantSeq(g, c), <<s>>, OwnChildren(g, s))

(* The walk over the statements of a block; found is what reached a sink. *)
TaintTransfer(g, cfg, block, incoming, sources, sinks) ==
    LET nodes == FoldLeft(LAMBDA acc, s : acc \o OwnDescendantSeq(g, s), <<>>, BlockStatements(cfg, block))
        StepNode(acc, n) ==
            LET t == TaintNode(g, acc.tainted, n, sources)
            IN  [tainted |-> t, found |-> acc.found \cup SinkArguments(g, t, n, sinks)]
    IN  FoldLeft(StepNode, [tainted |-> incoming, found |-> {}], nodes)

(* A plausible slip: no iteration to a fixed point.                          *)
TaintInOnePass(g, cfg, sources, sinks) ==
    LET outs == [b \in CfgNodes(cfg) |-> TaintTransfer(g, cfg, b, {}, sources, sinks).tainted]
    IN  UNION {TaintTransfer(g, cfg, b, Incoming(cfg, outs, b), sources, sinks).found : b \in Blocks(cfg)}

PropagateTaint(g, cfg, sources, sinks) ==
    LET Transfer(outs) == [b \in CfgNodes(cfg) |->
            TaintTransfer(g, cfg, b, Incoming(cfg, outs, b), sources, sinks).tainted]
        outs == Iterate(Transfer, [b \in CfgNodes(cfg) |-> {}])
    IN  UNION {TaintTransfer(g, cfg, b, Incoming(cfg, outs, b), sources, sinks).found : b \in Blocks(cfg)}

-----------------------------------------------------------------------------
WritesOf(ev, names) == {ev[k].ref : k \in {k \in DOMAIN ev : ev[k].write /\ ev[k].name \in names}}
ModifiedParameters(g, f, cfg) ==
    UNION {WritesOf(BlockEvents(g, cfg, b),
                    {Name(g, p) : p \in Range(ChildrenOfKind(g, f, {"ParmVarDecl"}))} \ {""}) : b \in Blocks(cfg)}

-----------------------------------------------------------------------------
(* DataFlowEngine: the references of a variable in source order.  Its write  *)
(* test takes every opcode that ends in "=" but == and !=, so x <= y and     *)
(* x >= y are writes of x.                                                   *)
IsWriteTargetV1(g, ref) ==
    LET p == g[ref].parent
        op == Prop(g, p, "opcode")
    IN  /\ p # 0
        /\ \/ /\ Kind(g, p) = "BinaryOperator" /\ IsFirstChild(g, ref)
              /\ op \in CompoundAssignOpcodes \cup {"=", "<=", ">="}
           \/ Kind(g, p) = "UnaryOperator" /\ op \in {"++", "--"}

References(g, decl, f) ==
    IF Name(g, decl) = "" THEN <<>>
    ELSE Sorted(g, {d \in Descendants(g, f) : Kind(g, d) = "DeclRefExpr" /\ Name(g, d) = Name(g, decl)})

DeadStore(g, decl, f) ==
    LET refs == References(g, decl, f)
    IN  IF refs = <<>> THEN {}
        ELSE IF IsWriteTargetV1(g, Last(refs)) THEN {Last(refs)} ELSE {}
=============================================================================
