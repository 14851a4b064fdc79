-------------------------- MODULE RulesDeclarations --------------------------
(* The declarations, linkage, storage-duration and initialization packs,     *)
(* without the rules of RulesLinkage.                                        *)
EXTENDS NameAnalysis, TypeAnalysis, AliasAnalysis, RulesLinkage

Parameters(g, f) == Range(ChildrenOfKind(g, f, {"ParmVarDecl"}))

-----------------------------------------------------------------------------
(* rule_pack_declarations.py *)
Rule8_2(g) == {f \in FunctionsOf(g) : \E p \in Parameters(g, f) : Name(g, p) = ""}
Rule8_14(g) == {i \in AllNodes(g) : "restrict" \in Qualifiers(g, i)}
Rule5_2(g) == {p[2] : p \in CrossNamespaceCollisions(g)}
Rule5_3(g) ==
    {p[2] : p \in {p \in ShadowingPairs(g) : /\ OfKind(g, p[1], {"VarDecl", "ParmVarDecl", "FunctionDecl"})
                                             /\ OfKind(g, p[2], {"VarDecl", "ParmVarDecl"})}}
Rule2_7(g) ==
    {p \in UNION {Parameters(g, f) : f \in {f \in FunctionsOf(g) : HasBody(g, f)}} :
        Name(g, p) # "" /\ ~IsReferenced(g, p)}
Rule2_3(g) == {i \in NodesByKind(g, "TypedefDecl") : Name(g, i) # "" /\ ~IsReferenced(g, i)}
Rule2_4(g) == {i \in NodesOfKinds(g, TagKinds) : Name(g, i) # "" /\ ~IsReferenced(g, i)}
Rule5_5(g, macroNames) == {i \in Symbols(g) : Name(g, i) \in macroNames}

(* The typedef, or tag, of a name declared again; the unordered pair is      *)
(* reported once, at the first of its nodes that comes up.                   *)
SharedName(g, kinds) ==
    LET own == {i \in NodesOfKinds(g, kinds) : Name(g, i) # ""}
    IN  {i \in own : \E j \in Declarations(g, Name(g, i)) \ {i} : j \in own => i < j}
Rule5_6(g) == SharedName(g, {"TypedefDecl"})

(* Records come before enumerations here. *)
Rule5_7(g) ==
    LET own == {i \in NodesOfKinds(g, TagKinds) : Name(g, i) # ""}
        Before(i, j) == IF Kind(g, i) = Kind(g, j) THEN i < j ELSE Kind(g, i) = "RecordDecl"
    IN  {i \in own : \E j \in Declarations(g, Name(g, i)) \ {i} : j \in own => Before(i, j)}

Rule8_1(g) == Flagged(g, {"VarDecl", "FunctionDecl", "ParmVarDecl"}, "implicit_type")
Rule17_3(g) == Flagged(g, {"CallExpr"}, "implicit_declaration")
Rule17_6(g) == Flagged(g, {"ParmVarDecl"}, "is_array") \cap Flagged(g, {"ParmVarDecl"}, "array_static")
Rule18_7(g) == Flagged(g, {"FieldDecl"}, "is_flexible_array_member")
Rule19_2(g) == {i \in NodesByKind(g, "RecordDecl") : Prop(g, i, "record_kind") = "union"}
Rule8_3(g) == IncompatibleDeclarations(g)
Rule17_8(g) ==
    UNION {ModifiedParameters(g, f, Build(g, f)) : f \in {f \in FunctionsOf(g) : HasBody(g, f)}}
Rule8_13(g) ==
    {i \in Flagged(g, {"VarDecl", "ParmVarDecl"}, "pointer_should_be_const") :
        IsPointer(g, i) /\ "const" \notin Qualifiers(g, i)}
Rule8_11(g) ==
    {i \in NodesByKind(g, "VarDecl") : /\ Prop(g, i, "linkage") = "external"
                                       /\ Type(g, i, "is_array") # ""
                                       /\ MetaTrue(g, i, "missing_array_size")}

(* Implicit enumerators of one enumeration with equal values, and those      *)
(* marked as such.                                                           *)
EnumeratorValue(g, i) == IF Flag(g, i, "enumerator_value") THEN Prop(g, i, "enumerator_value") ELSE "-1"
Rule8_12(g) ==
    LET marked == MetaFlagged(g, {"EnumConstantDecl"}, "duplicate_implicit_enumerator")
        implicit == MetaFlagged(g, {"EnumConstantDecl"}, "is_implicit_enumerator") \ marked
    IN  marked \cup {i \in implicit : \E j \in implicit \ {i} :
            g[i].parent = g[j].parent /\ EnumeratorValue(g, i) = EnumeratorValue(g, j)}

Rule17_5(g) == MetaFlagged(g, {"CallExpr"}, "call_argument_shape_mismatch")
Rule18_8(g) == {i \in NodesByKind(g, "VarDecl") : Type(g, i, "is_variable_length_array") # ""}

-----------------------------------------------------------------------------
(* rule_pack_linkage.py: what needs no index, and what needs its call graph. *)
Rule8_10(g) ==
    {i \in Flagged(g, {"FunctionDecl"}, "is_inline") : StorageClass(g, i, "external") # "static"}

Rule8_8(g) ==
    UNION {LET decls == DeclarationsOf(g, n)
               classes == {StorageClass(g, i, "automatic") : i \in decls}
           IN  IF Cardinality(decls) < 2 \/ "static" \notin classes THEN {}
               ELSE FirstNode({i \in decls : StorageClass(g, i, "automatic") # "static"}) :
              n \in AllNames(g)}

Rule17_2(g, L) == {f \in FunctionsOf(g) : Name(g, f) \in FunctionsInRecursionCycles(L)}

-----------------------------------------------------------------------------
(* rule_pack_storage_duration.py *)
EnclosingFunctions(g, i) ==
    LET above == {k \in Range(Ancestors(g, i)) : Kind(g, k) = "FunctionDecl"}
    IN  IF above = {} THEN {} ELSE {Max(above)}

(* A file-scope object used by exactly one function. *)
Rule8_9(g) ==
    {v \in NodesByKind(g, "VarDecl") :
        /\ IsFileScope(g, v) /\ Prop(g, v, "storage_class") # "extern" /\ Name(g, v) # ""
        /\ LET refs == {r \in NodesByKind(g, "DeclRefExpr") : Name(g, r) = Name(g, v)}
           IN  Cardinality(UNION {EnclosingFunctions(g, r) : r \in refs}) = 1}

Rule18_6(g) ==
    UNION {LET locals == {Name(g, d) : d \in {d \in Descendants(g, f) :
                             Kind(g, d) = "VarDecl" /\ StorageClass(g, d, "automatic") = "automatic"}} \ {""}
           IN  {r \in Descendants(g, f) : Kind(g, r) = "ReturnStmt" /\ ReturnedLocals(g, r, locals) # {}} :
              f \in FunctionsOf(g)}

-----------------------------------------------------------------------------
(* rule_pack_initialization.py *)
Rule9_1(g) == UNION {UninitializedReads(g, f, Build(g, f)) : f \in FunctionsOf(g)}

(* Dead stores, in textual order; a variable with one reference is left out. *)
Rule2_2(g) ==
    UNION {UNION {IF Len(References(g, d, f)) < 2 THEN {} ELSE DeadStore(g, d, f) :
                     d \in {d \in Descendants(g, f) : Kind(g, d) = "VarDecl"}} : f \in FunctionsOf(g)}

IsDesignated(g, i) == "designator_index" \in DOMAIN g[i].props

(* The index every initialiser of a list stands for, designated or counted   *)
(* on from the one before.                                                   *)
InitializerIndices(g, list) ==
    FoldLeft(LAMBDA acc, c :
                Append(acc, IF IsDesignated(g, c) THEN g[c].props["designator_index"]
                            ELSE IF acc = <<>> THEN 0 ELSE Last(acc) + 1),
             <<>>, Children(g, list))

ArrayInitializers(g) == Flagged(g, {"InitListExpr"}, "is_array_initializer")
Rule9_3(g) ==
    UNION {LET at == InitializerIndices(g, l)
           IN  {Children(g, l)[k] : k \in {k \in DOMAIN at : \E j \in 1 .. k - 1 : at[j] = at[k]}} :
              l \in ArrayInitializers(g)}
Rule9_5(g) ==
    {l \in ArrayInitializers(g) : /\ \E c \in Range(Children(g, l)) : IsDesignated(g, c)
                                  /\ \E c \in Range(Children(g, l)) : ~IsDesignated(g, c)}
Rule9_2(g) ==
    {l \in NodesByKind(g, "InitListExpr") : Prop(g, l, "is_fully_bracketed") \notin {"", "true"}}

(* Any value of the property counts, the text "false" as well. *)
Rule9_4(g) == Flagged(g, {"InitListExpr"}, "duplicate_designator")
=============================================================================
