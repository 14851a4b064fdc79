------------------------------ MODULE AstGraph ------------------------------
(* How the nodes of a graph come about and lie within each other: numbering, *)
(* descendants, paths.                                                       *)
(*                                                                           *)
(* A tree is the same thing before numbering: what the worker's visitor      *)
(* walks.  Serialize numbers it.                                             *)
EXTENDS AstNodes

NoProps == <<>>

(* The constructors of trees. *)
Typed(kind, props, type, ess, kids) ==
    [kind |-> kind, props |-> props, type |-> type, ess |-> ess, kids |-> kids]
Tree(kind, props, kids) == Typed(kind, props, NoProps, "unknown", kids)
Leaf(kind) == Tree(kind, NoProps, <<>>)

(* ast_serializer.cpp visitDecl / visitStmt / addNode: a node gets the next  *)
(* number, is appended to its parent's children, and its own children are    *)
(* visited under it.  (visitDecl puts a function's body before its other     *)
(* declarations and names kinds as Clang does; the trees here have the kinds *)
(* and the order of the rules' own tests.)                                   *)
RECURSIVE AddTree(_, _, _)
AddTree(g, t, parent) ==
    LET id    == Len(g) + 1
        node  == [kind |-> t.kind, parent |-> parent, children |-> <<>>,
                  props |-> t.props, type |-> t.type, ess |-> t.ess]
        link  == IF parent = 0 THEN g
                 ELSE [g EXCEPT ![parent].children = Append(@, id)]
    IN  FoldLeft(LAMBDA acc, kid : AddTree(acc, kid, id), Append(link, node), t.kids)

Serialize(trees) == FoldLeft(LAMBDA g, t : AddTree(g, t, 0), <<>>, trees)

-----------------------------------------------------------------------------
(* A node's descendants follow it, up to the first node from j on that is    *)
(* not below it.                                                             *)
RECURSIVE FirstOutside(_, _, _)
FirstOutside(g, i, j) ==
    IF j > Len(g) THEN j ELSE IF g[j].parent < i THEN j ELSE FirstOutside(g, i, j + 1)
Descendants(g, i) == i + 1 .. FirstOutside(g, i, i + 1) - 1

(* The order descendants() lists them in: an explicit stack, so the last     *)
(* child is taken first.                                                     *)
RECURSIVE DescendantSeq(_, _)
DescendantSeq(g, i) ==
    FoldLeft(LAMBDA acc, c : acc \o <<c>> \o DescendantSeq(g, c), <<>>, Reverse(g[i].children))

RECURSIVE NodePath(_, _)
NodePath(g, i) == IF i = 0 THEN <<>> ELSE Append(NodePath(g, g[i].parent), i)

(* The ids above a node, nearest first, without the node. *)
RECURSIVE Ancestors(_, _)
Ancestors(g, i) == IF g[i].parent = 0 THEN <<>>
                   ELSE <<g[i].parent>> \o Ancestors(g, g[i].parent)

EssentialTypeOrder ==
    <<"boolean", "signed_char", "unsigned_char", "char", "signed_short", "unsigned_short",
      "signed_int", "unsigned_int", "signed_long", "unsigned_long", "signed_long_long",
      "unsigned_long_long", "float", "double", "long_double", "complex", "unknown">>
EssentialTypeRank(ess) ==
    IF \E k \in DOMAIN EssentialTypeOrder : EssentialTypeOrder[k] = ess
    THEN (CHOOSE k \in DOMAIN EssentialTypeOrder : EssentialTypeOrder[k] = ess) - 1
    ELSE Len(EssentialTypeOrder)
=============================================================================
