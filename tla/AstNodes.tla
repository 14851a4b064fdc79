------------------------------ MODULE AstNodes ------------------------------
(* The AST of one translation unit as the rules see it (ast_graph.py).       *)
(*                                                                           *)
(* A graph is a sequence of node records in the order the worker numbers     *)
(* them, which is preorder; a node id is an index into it.  A node has a     *)
(* kind, a parent (0 for file scope), its children in order, its             *)
(* semantic_properties (a function from names to strings, the only values    *)
(* the wire carries), its type_information (a function as well) and its      *)
(* essential type.                                                           *)
EXTENDS Integers, FiniteSets, Sequences, SequencesExt, FiniteSetsExt, TLC

(* dict.get with the empty string for a missing key; the wire never carries  *)
(* an empty value, so "" stands for every falsy answer.                      *)
Get(f, key) == IF key \in DOMAIN f THEN f[key] ELSE ""
Prop(g, i, key) == Get(g[i].props, key)
Type(g, i, key) == Get(g[i].type, key)
Name(g, i) == Prop(g, i, "name")
Flag(g, i, key) == Prop(g, i, key) # ""

AllNodes(g) == DOMAIN g
Kind(g, i) == g[i].kind
OfKind(g, i, kinds) == g[i].kind \in kinds
NodesByKind(g, kind) == {i \in DOMAIN g : g[i].kind = kind}
NodesOfKinds(g, kinds) == {i \in DOMAIN g : g[i].kind \in kinds}
Children(g, i) == g[i].children
IsFileScope(g, i) == g[i].parent = 0
ChildrenOfKind(g, i, kinds) == SelectSeq(g[i].children, LAMBDA c : g[c].kind \in kinds)

(* offending_text: what stands for the node in a report and its fingerprint. *)
OffendingText(g, i) ==
    IF Name(g, i) # "" THEN <<g[i].kind, "name", Name(g, i)>>
    ELSE IF Type(g, i, "spelling") # "" THEN <<g[i].kind, "type", Type(g, i, "spelling")>>
    ELSE <<g[i].kind, "ess", g[i].ess>>

-----------------------------------------------------------------------------
(* What most rules start from. *)
FunctionsOf(g) == NodesByKind(g, "FunctionDecl")
HasBody(g, f) == ChildrenOfKind(g, f, {"CompoundStmt"}) # <<>>
Flagged(g, kinds, flag) == {i \in NodesOfKinds(g, kinds) : Flag(g, i, flag)}
MetaTrue(g, i, key) == Prop(g, i, key) = "true"
MetaFlagged(g, kinds, key) == {i \in NodesOfKinds(g, kinds) : MetaTrue(g, i, key)}
=============================================================================
