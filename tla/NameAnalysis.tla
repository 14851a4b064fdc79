---------------------------- MODULE NameAnalysis ----------------------------
(* SymbolIndex (one unit), LinkageIndex and LinkageAnalyzer (the project).   *)
EXTENDS AstGraph, LinkageIndex

-----------------------------------------------------------------------------
DeclKinds == {"VarDecl", "FunctionDecl", "TypedefDecl", "EnumDecl", "RecordDecl", "ParmVarDecl", "FieldDecl"}
TagKinds == {"RecordDecl", "EnumDecl"}

Namespace(g, i) == CASE OfKind(g, i, TagKinds) -> "tag"
                     [] Kind(g, i) = "FieldDecl" -> "member"
                     [] OTHER -> "ordinary"

Symbols(g) == {i \in NodesOfKinds(g, DeclKinds) : Name(g, i) # ""}
Declarations(g, name) == {i \in Symbols(g) : Name(g, i) = name}
AllNames(g) == {Name(g, i) : i \in Symbols(g)}

(* Pairs of declarations of one name, the earlier first. *)
SameNamePairs(g) == {p \in Symbols(g) \X Symbols(g) : p[1] < p[2] /\ Name(g, p[1]) = Name(g, p[2])}
CrossNamespaceCollisions(g) == {p \in SameNamePairs(g) : Namespace(g, p[1]) # Namespace(g, p[2])}

(* A type is used when a node names it or its typedef chain mentions it.     *)
(* Chains are sets of names here.                                            *)
IsTypeReferenced(g, i) ==
    \E c \in AllNodes(g) \ {i} :
        \/ Prop(g, c, "type_name") = Name(g, i)
        \/ "typedef_chain" \in DOMAIN g[c].type /\ Name(g, i) \in g[c].type["typedef_chain"]

(* Any reference of the same name anywhere in the unit counts. *)
IsReferenced(g, i) ==
    \/ Name(g, i) = ""
    \/ IF OfKind(g, i, {"TypedefDecl"} \cup TagKinds) THEN IsTypeReferenced(g, i)
       ELSE \E r \in NodesByKind(g, "DeclRefExpr") : Name(g, r) = Name(g, i)

IncompatibleDeclarations(g) ==
    {i \in Symbols(g) : /\ Cardinality(Declarations(g, Name(g, i))) >= 2
                        /\ Flag(g, i, "declaration_incompatible")}

(* <<outer, inner>>: a file-scope declaration and one that is not, or one    *)
(* whose scope is on the other's path.                                       *)
OrderByEnclosingScope(g, a, b) ==
    LET sa == g[a].parent
        sb == g[b].parent
    IN  CASE sa = sb -> {}
          [] sa # sb /\ sa = 0 -> {<<a, b>>}
          [] sa # sb /\ sb = 0 -> {<<b, a>>}
          [] OTHER -> IF sa \in Range(NodePath(g, b)) THEN {<<a, b>>}
                      ELSE IF sb \in Range(NodePath(g, a)) THEN {<<b, a>>} ELSE {}
ShadowingPairs(g) == UNION {OrderByEnclosingScope(g, p[1], p[2]) : p \in SameNamePairs(g)}

-----------------------------------------------------------------------------
(* LinkageIndex.build: the symbols, and the call graph as a sequence of      *)
(* [name, callees] in the order the names first appear.                      *)
(* Append what is not there yet, in order. *)
AppendNew(s, new) == FoldLeft(LAMBDA acc, x : IF x \in Range(acc) THEN acc ELSE Append(acc, x), s, new)

CalleesOf(g, f) ==
    LET calls == SelectSeq(DescendantSeq(g, f), LAMBDA k : Kind(g, k) = "CallExpr")
    IN  AppendNew(<<>>, SelectSeq([k \in DOMAIN calls |-> Prop(g, calls[k], "callee")], LAMBDA c : c # ""))

AddCalls(graph, name, callees) ==
    IF callees = <<>> THEN graph
    ELSE IF \E k \in DOMAIN graph : graph[k].name = name
    THEN [k \in DOMAIN graph |-> IF graph[k].name # name THEN graph[k]
                                 ELSE [graph[k] EXCEPT !.callees = AppendNew(@, callees)]]
    ELSE Append(graph, [name |-> name, callees |-> callees])

CallGraph(units) ==
    FoldLeft(LAMBDA graph, u :
        FoldLeft(LAMBDA acc, f : AddCalls(acc, Name(u.g, f), CalleesOf(u.g, f)), graph,
                 SelectSeq([i \in DOMAIN u.g |-> i],
                           LAMBDA i : FunctionHasBody(u.g, i) /\ Name(u.g, i) # "")),
             <<>>, units)

LinkageIndexOf(units) == [symbols |-> Occurrences(units), calls |-> CallGraph(units)]

-----------------------------------------------------------------------------
(* functions_in_recursion_cycles: Tarjan's components.  The state of the     *)
(* search is t; found collects the members of components of more than one    *)
(* function and of functions that call themselves.                           *)
Callees(calls, name) ==
    FoldLeft(LAMBDA acc, e : IF e.name = name THEN e.callees ELSE acc, <<>>, calls)

(* A plausible slip: the root stays on the stack.                            *)
PopWithoutRoot(t, node) ==
    LET at == CHOOSE k \in DOMAIN t.stack : t.stack[k] = node
    IN  [members |-> {t.stack[k] : k \in at + 1 .. Len(t.stack)}, rest |-> SubSeq(t.stack, 1, at)]

PopComponent(t, node) ==
    LET at == CHOOSE k \in DOMAIN t.stack : t.stack[k] = node
    IN  [members |-> {t.stack[k] : k \in at .. Len(t.stack)}, rest |-> SubSeq(t.stack, 1, at - 1)]

RECURSIVE StrongConnect(_, _, _)
StrongConnect(calls, t, node) ==
    LET enter == [t EXCEPT !.index = @ + 1, !.indices = (node :> t.index) @@ @,
                           !.lowlink = (node :> t.index) @@ @, !.stack = Append(@, node)]
        Visit(s, callee) ==
            IF callee \notin DOMAIN s.indices
            THEN LET d == StrongConnect(calls, s, callee)
                 IN  [d EXCEPT !.lowlink[node] = Min({@, d.lowlink[callee]})]
            ELSE IF callee \in Range(s.stack)
            THEN [s EXCEPT !.lowlink[node] = Min({@, s.indices[callee]})]
            ELSE s
        done == FoldLeft(Visit, enter, Callees(calls, node))
        pop  == PopComponent(done, node)
        cyclic == Cardinality(pop.members) > 1 \/ node \in Range(Callees(calls, node))
    IN  IF done.lowlink[node] # done.indices[node] THEN done
        ELSE [done EXCEPT !.stack = pop.rest,
                          !.found = @ \cup (IF cyclic THEN pop.members ELSE {})]

FunctionsInRecursionCycles(L) ==
    FoldLeft(LAMBDA t, e : IF e.name \in DOMAIN t.indices THEN t ELSE StrongConnect(L.calls, t, e.name),
             [index |-> 0, indices |-> <<>>, lowlink |-> <<>>, stack |-> <<>>, found |-> {}],
             L.calls).found
=============================================================================
