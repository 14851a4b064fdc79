---------------------------- MODULE RulesLinkage ----------------------------
(* The rules that judge the names of a unit by those of the others: the      *)
(* linkage pack, 8.6 of the declarations pack, and rule_8_4.py.  They take   *)
(* the identifier of the unit, tu, and the linkage index L of the run.       *)
EXTENDS LinkageIndex

FirstNode(nodes) == IF nodes = {} THEN {} ELSE {Min(nodes)}
DeclarationsOf(g, name) == {i \in NodesOfKinds(g, LinkageKinds) : Name(g, i) = name}

-----------------------------------------------------------------------------
(* rule_pack_linkage.py.  Without an index the rules say nothing, and an     *)
(* empty index has no names.                                                 *)
Rule5_1(g, L) ==
    UNION {FirstNode(UNION {DeclarationsOf(g, n) : n \in pair}) : pair \in DuplicateNamesWithin(LinkageNames(L))}

Rule8_7(g, tu, L) ==
    {i \in NodesOfKinds(g, LinkageKinds) :
        /\ IsFileScope(g, i) /\ Name(g, i) # ""
        /\ StorageClass(g, i, "external") # "static"
        /\ SingleTranslationUnit(L, Name(g, i), tu)}

Rule5_8(g, L) ==
    UNION {FirstNode(DeclarationsOf(g, n)) : n \in {n \in LinkageNames(L) : HasMultipleDefinitions(L, n)}}

Rule5_9(g, tu, L) ==
    UNION {FirstNode({i \in DeclarationsOf(g, n) : Prop(g, i, "storage_class") = "static"}) :
              n \in {n \in LinkageNames(L) : /\ Cardinality(InternalLinkageUnits(L, n)) > 1
                                             /\ tu \in InternalLinkageUnits(L, n)}}

Rule8_5(g, tu, L) ==
    UNION {FirstNode(DeclarationsOf(g, n)) :
              n \in {n \in LinkageNames(L) : /\ Cardinality(NonDefiningExternalUnits(L, n)) > 1
                                             /\ tu \in NonDefiningExternalUnits(L, n)}}

(* rule_pack_declarations.py: one report per name, functions before          *)
(* variables.                                                                *)
Rule8_6(g, L) ==
    LET scope(kind, name) == {i \in NodesByKind(g, kind) : IsFileScope(g, i) /\ Name(g, i) = name}
    IN  UNION {IF scope("FunctionDecl", n) # {} THEN FirstNode(scope("FunctionDecl", n))
               ELSE FirstNode(scope("VarDecl", n)) :
                  n \in {n \in LinkageNames(L) : HasMultipleDefinitions(L, n)}}

-----------------------------------------------------------------------------
(* rule_8_4.py: a definition with external linkage and no other declaration  *)
(* in its unit, and names declared with different types across units.        *)
LastDeclaration(g, name) ==
    LET vars == {i \in DeclarationsOf(g, name) : Kind(g, i) = "VarDecl"}
    IN  IF vars # {} THEN Max(vars) ELSE Max(DeclarationsOf(g, name))
Rule8_4(g, L) ==
    LET names == {Name(g, i) : i \in NodesOfKinds(g, LinkageKinds)} \ {""}
        last(n) == LastDeclaration(g, n)
    IN  {last(n) : n \in {n \in names :
            \/ /\ IsFileScope(g, last(n)) /\ StorageClass(g, last(n), "external") # "static"
               /\ Cardinality(DeclarationsOf(g, n)) = 1
               /\ ChildrenOfKind(g, last(n), {"CompoundStmt"}) # <<>>
            \/ n \in LinkageNames(L) /\ HasIncompatibleTypes(L, n)}}

-----------------------------------------------------------------------------
(* How the file scope of a unit uses a name: what the rules are about.       *)
FileScopeUses(g, name) == {i \in DeclarationsOf(g, name) : IsFileScope(g, i)}
ExternalUses(g, name) == {i \in FileScopeUses(g, name) : Prop(g, i, "storage_class") # "static"}
Defines(g, name) == \E i \in ExternalUses(g, name) : FunctionHasBody(g, i)
DeclaresOnly(g, name) == \E i \in ExternalUses(g, name) : ~FunctionHasBody(g, i)
IsInternal(g, name) == \E i \in FileScopeUses(g, name) : Prop(g, i, "storage_class") = "static"
Spellings(g, name) == {Type(g, i, "spelling") : i \in ExternalUses(g, name)} \ {""}
=============================================================================
