------------------------------ MODULE CMachine ------------------------------
(* The meaning of the C functions the analyzers talk about, as far as the    *)
(* reports are about it: where control may go next, what a statement reads   *)
(* and writes, which stream objects are closed.  Conditions are opaque: both *)
(* ways are possible.  None of this is code of the repository; it is the     *)
(* yardstick its flow analyses are measured with.                            *)
(*                                                                           *)
(* A point of control is a statement that is about to execute; a loop is     *)
(* entered or, after its body, tested again.                                 *)
EXTENDS AstGraph

Loops == {"ForStmt", "WhileStmt", "DoStmt"}
Markers == {"CaseStmt", "DefaultStmt"}
Uninit == 0
NoObject == 0

At(s, mode) == [stmt |-> s, mode |-> mode]
Ended(how) == [stmt |-> 0, mode |-> how]

RECURSIVE Enter(_, _)
RECURSIVE After(_, _)
(* The first point of a statement, and the point after it has completed. *)
Enter(g, s) ==
    IF Kind(g, s) # "CompoundStmt" THEN At(s, "enter")
    ELSE IF Children(g, s) = <<>> THEN After(g, s) ELSE Enter(g, Children(g, s)[1])
After(g, s) ==
    LET p == g[s].parent
        later == IF Kind(g, p) = "CompoundStmt" THEN {c \in Range(Children(g, p)) : c > s} ELSE {}
    IN  IF later # {} THEN Enter(g, Min(later))
        ELSE IF Kind(g, p) = "FunctionDecl" THEN Ended("end of body")
        ELSE IF OfKind(g, p, Loops) THEN At(p, "test")
        ELSE After(g, p)

Body(g, f) == ChildrenOfKind(g, f, {"CompoundStmt"})[1]
Entry(g, f) == Enter(g, Body(g, f))

Nearest(g, s, kinds) == Max({a \in Range(Ancestors(g, s)) : OfKind(g, a, kinds)})
Clauses(g, s) == Range(ChildrenOfKind(g, Last(Children(g, s)), Markers))

(* Where control may be after the statement at pc. *)
Moves(g, f, pc) ==
    LET s == pc.stmt
        kids == Children(g, s)
    IN  CASE Kind(g, s) = "IfStmt" ->
               {Enter(g, kids[2]), IF Len(kids) > 2 THEN Enter(g, kids[3]) ELSE After(g, s)}
          [] Kind(g, s) \in {"WhileStmt", "ForStmt"} -> {Enter(g, Last(kids)), After(g, s)}
          [] Kind(g, s) = "DoStmt" ->
               {Enter(g, kids[1])} \cup (IF pc.mode = "test" THEN {After(g, s)} ELSE {})
          [] Kind(g, s) = "SwitchStmt" ->
               {Enter(g, c) : c \in Clauses(g, s)}
               \cup (IF \E c \in Clauses(g, s) : Kind(g, c) = "DefaultStmt" THEN {} ELSE {After(g, s)})
          [] Kind(g, s) = "ReturnStmt" -> {Ended("return")}
          [] Kind(g, s) = "BreakStmt" -> {After(g, Nearest(g, s, Loops \cup {"SwitchStmt"}))}
          [] Kind(g, s) = "ContinueStmt" -> {At(Nearest(g, s, Loops), "test")}
          [] Kind(g, s) = "GotoStmt" ->
               {At(l, "enter") : l \in {l \in Descendants(g, f) :
                   Kind(g, l) = "LabelStmt" /\ Name(g, l) = Prop(g, s, "target_label")}}
          [] OTHER -> {After(g, s)}

RECURSIVE ReachablePoints(_, _, _, _)
ReachablePoints(g, f, frontier, seen) ==
    LET next == UNION {Moves(g, f, pc) : pc \in {pc \in frontier : pc.stmt # 0}}
    IN  IF frontier \subseteq seen THEN seen ELSE ReachablePoints(g, f, next \ seen, seen \cup frontier)
ExecutableStatements(g, f) == {pc.stmt : pc \in ReachablePoints(g, f, {Entry(g, f)}, {})} \ {0}

-----------------------------------------------------------------------------
(* The expressions evaluated at pc, and the names read there. *)
Evaluated(g, pc) ==
    LET s == pc.stmt
        kids == Children(g, s)
    IN  CASE s = 0 -> {}
          [] s # 0 /\ Kind(g, s) \in {"IfStmt", "SwitchStmt"} -> {kids[1]}
          [] s # 0 /\ Kind(g, s) \in {"WhileStmt", "ForStmt"} -> {kids[k] : k \in 1 .. Len(kids) - 1}
          [] s # 0 /\ Kind(g, s) = "DoStmt" -> IF pc.mode = "test" THEN {kids[2]} ELSE {}
          [] OTHER -> {s}

IsStore(g, s) == Kind(g, s) = "BinaryOperator" /\ Prop(g, s, "opcode") = "="
Reads(g, pc) ==
    {r \in UNION {{e} \cup Descendants(g, e) : e \in Evaluated(g, pc)} :
        /\ Kind(g, r) = "DeclRefExpr"
        /\ ~(IsStore(g, g[r].parent) /\ Children(g, g[r].parent)[1] = r)}

(* A memory gives every local its last store, the object it points to and    *)
(* whether its value came from outside.                                      *)
Cell(site, obj, taint) == [site |-> site, obj |-> obj, taint |-> taint]
Blank(names) == [v \in names |-> Cell(Uninit, NoObject, FALSE)]

Value(g, mem, rhs, store, taintSources) ==
    CASE Kind(g, rhs) = "DeclRefExpr" -> Cell(store, mem[Name(g, rhs)].obj, mem[Name(g, rhs)].taint)
      [] Kind(g, rhs) = "CallExpr" -> Cell(store, rhs, Prop(g, rhs, "callee") \in taintSources)
      [] OTHER -> Cell(store, NoObject, FALSE)

Memory(g, mem, s, taintSources) ==
    IF Kind(g, s) = "VarDecl" THEN [mem EXCEPT ![Name(g, s)] = Cell(Uninit, NoObject, FALSE)]
    ELSE IF IsStore(g, s)
    THEN LET kids == Children(g, s)
         IN  [mem EXCEPT ![Name(g, kids[1])] = Value(g, mem, kids[2], kids[1], taintSources)]
    ELSE mem

(* The streams that were closed, each with the call that did it. *)
Closed(g, mem, closed, s) ==
    IF Kind(g, s) = "CallExpr" /\ Prop(g, s, "callee") = "fclose"
    THEN closed \cup [obj : {mem[Name(g, Children(g, s)[1])].obj} \ {NoObject}, by : {s}]
    ELSE closed
=============================================================================
