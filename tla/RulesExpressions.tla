-------------------------- MODULE RulesExpressions --------------------------
(* The conversions, essential-types, expressions and pointers packs, with    *)
(* rule_10_1.py, rule_10_3.py and rule_11_8.py.                              *)
EXTENDS TypeAnalysis, AliasAnalysis

CastNodeKinds == {"CStyleCastExpr", "ImplicitCastExpr"}
ArithmeticOps == {"+", "-", "*", "/", "%"}
AdditiveOps == {"+", "-"}
RelationalOpcodes == {"<", ">", "<=", ">="}
LogicalOpcodes == {"&&", "||"}
IntBitFieldCategories == {"signed_int", "unsigned_int"}
OverlapSensitiveCallees == {"memcpy", "strcpy", "strcat"}

Casts(g) == {c \in NodesByKind(g, "CStyleCastExpr") : Children(g, c) # <<>>}
Operand(g, i) == Children(g, i)[1]
Binaries(g) == {b \in NodesByKind(g, "BinaryOperator") : Len(Children(g, b)) >= 2}
Left(g, b) == Children(g, b)[1]
Right(g, b) == Children(g, b)[2]
Opcode(g, i) == Prop(g, i, "opcode")
Known(g, a, b) == g[a].ess # "unknown" /\ g[b].ess # "unknown"
SameCategory(g, a, b) == Category(g[a].ess) = Category(g[b].ess)
Initializers(g, d) == SelectSeq(Children(g, d), LAMBDA c : ~OfKind(g, c, TypeChildKinds))

-----------------------------------------------------------------------------
(* rule_pack_conversions.py *)
Rule10_4(g) ==
    {b \in Binaries(g) : /\ Opcode(g, b) \in ArithmeticOps
                         /\ Known(g, Left(g, b), Right(g, b))
                         /\ ~SameCategory(g, Left(g, b), Right(g, b))}
Rule10_5(g) == {c \in Casts(g) : Known(g, c, Operand(g, c)) /\ ~SameCategory(g, c, Operand(g, c))}

(* A cast of an operation, next to an operand of another category. *)
Rule10_7(g) ==
    {b \in Binaries(g) :
        \E p \in {<<Left(g, b), Right(g, b)>>, <<Right(g, b), Left(g, b)>>} :
            /\ OfKind(g, p[1], CastNodeKinds) /\ Children(g, p[1]) # <<>>
            /\ OfKind(g, Operand(g, p[1]), {"BinaryOperator", "UnaryOperator"})
            /\ Known(g, p[1], p[2]) /\ ~SameCategory(g, p[1], p[2])}

Rule7_4(g) ==
    {d \in NodesByKind(g, "VarDecl") : /\ Initializers(g, d) # <<>>
                                       /\ Kind(g, Initializers(g, d)[1]) = "StringLiteral"
                                       /\ "const" \notin Qualifiers(g, d)}
Rule11_1(g) ==
    {c \in Casts(g) : \/ IsFunctionPointerCast(g, c, Operand(g, c))
                      \/ HasFunctionSpelling(g, c) # HasFunctionSpelling(g, Operand(g, c))}

IsVoidPointer(g, i) == IsPointer(g, i) /\ PointeeType(g, i) \in VoidPointees
IsArithmetic(g, i) == ~IsPointer(g, i) /\ g[i].ess \notin {"unknown", "void"}
Rule11_6(g) ==
    {c \in Casts(g) : \/ IsVoidPointer(g, c) /\ IsArithmetic(g, Operand(g, c))
                      \/ IsVoidPointer(g, Operand(g, c)) /\ IsArithmetic(g, c)}

Rule10_6(g) ==
    {b \in Binaries(g) : /\ Opcode(g, b) = "=" /\ Flag(g, Right(g, b), "is_composite_expression")
                         /\ Known(g, Left(g, b), Right(g, b))
                         /\ IsWider(g[Left(g, b)].ess, g[Right(g, b)].ess)}
Rule10_8(g) ==
    {c \in Casts(g) : /\ Flag(g, Operand(g, c), "is_composite_expression")
                      /\ ChangesToWiderCategory(g, c, Operand(g, c))
                      /\ ~IsFileScope(g, c)
                      /\ OfKind(g, g[c].parent, {"BinaryOperator", "UnaryOperator", "CallExpr",
                                                 "ArraySubscriptExpr"})}

-----------------------------------------------------------------------------
(* rule_pack_essential_types.py, rule_10_1.py and rule_10_3.py *)
Rule10_1(g) ==
    {b \in Binaries(g) : IsInappropriateOperandPair(g[Left(g, b)].ess, g[Right(g, b)].ess)}
Rule10_2(g) ==
    {b \in Binaries(g) : /\ Opcode(g, b) \in AdditiveOps
                         /\ (g[Left(g, b)].ess = "char") # (g[Right(g, b)].ess = "char")}

(* Stores into something of a lower rank, by assignment or initialisation.   *)
LowerRank(g, target, source) ==
    Known(g, target, source) /\ EssentialTypeRank(g[source].ess) > EssentialTypeRank(g[target].ess)
Rule10_3(g) ==
    {b \in Binaries(g) : Opcode(g, b) = "=" /\ LowerRank(g, Left(g, b), Right(g, b))}
    \cup {d \in NodesByKind(g, "VarDecl") :
             Initializers(g, d) # <<>> /\ LowerRank(g, d, Initializers(g, d)[1])}

Rule6_1(g) ==
    {d \in NodesByKind(g, "FieldDecl") :
        \/ MetaTrue(g, d, "invalid_bit_field_type")
        \/ MetaTrue(g, d, "is_bit_field") /\ Prop(g, d, "bit_field_type_category") \notin IntBitFieldCategories}
Rule6_2(g) ==
    {d \in MetaFlagged(g, {"FieldDecl"}, "bit_field_is_signed") : Prop(g, d, "bit_field_width") = "1"}

-----------------------------------------------------------------------------
(* rule_pack_expressions.py *)
Rule12_3(g) == {b \in AllNodes(g) : UsesCommaOperator(g, b)}
Rule13_4(g) ==
    {b \in NodesByKind(g, "BinaryOperator") :
        /\ Opcode(g, b) \in AssignmentOpcodes
        /\ ~IsFileScope(g, b) /\ Kind(g, g[b].parent) # "CompoundStmt"}
Rule13_5(g) == {b \in Binaries(g) : Opcode(g, b) \in LogicalOpcodes /\ HasSideEffects(g, Right(g, b))}
Rule14_4(g) == {i \in AllNodes(g) : IsBooleanContextMismatch(g, i)}
Rule13_1(g) ==
    {e \in UNION {Range(Children(g, l)) : l \in NodesByKind(g, "InitListExpr")} : HasSideEffects(g, e)}

SizeofExpressions(g) == {u \in NodesByKind(g, "UnaryOperator") : Opcode(g, u) = "sizeof"}
Rule13_6(g) == {u \in SizeofExpressions(g) : Children(g, u) # <<>> /\ HasSideEffects(g, Operand(g, u))}
Rule13_3(g) == {u \in AllNodes(g) : IsIncrementOrDecrement(g, u) /\ HasOtherSideEffects(g, u)}
Rule17_7(g) == {c \in NodesByKind(g, "CallExpr") : IsDiscardedNonVoidCall(g, c)}
Rule12_2(g) == {b \in NodesByKind(g, "BinaryOperator") : ShiftAmountOutOfRange(g, b)}
Rule12_4(g) == {b \in NodesByKind(g, "BinaryOperator") : WrapsOnConstantUnsigned(g, b)}
Rule1_3(g) == {i \in AllNodes(g) : Flag(g, i, "undefined_behaviour")}
Rule13_2(g) == Flagged(g, {"BinaryOperator"}, "unordered_evaluation")

(* An escape sequence is reported when it is marked, or when the property    *)
(* that says it is terminated is there and does not say so.                  *)
Rule4_1(g) ==
    {l \in NodesOfKinds(g, {"CharacterLiteral", "StringLiteral"}) :
        \/ MetaTrue(g, l, "unterminated_escape")
        \/ Prop(g, l, "escape_sequence_terminated") \notin {"", "true"}}
Rule7_1(g) ==
    {l \in NodesByKind(g, "IntegerLiteral") :
        Prop(g, l, "literal_base") = "octal" \/ MetaTrue(g, l, "octal_nonzero_constant")}
Rule7_2(g) == {l \in MetaFlagged(g, {"IntegerLiteral"}, "missing_u_suffix") : g[l].ess \in UnsignedTypes}
Rule7_3(g) == MetaFlagged(g, {"IntegerLiteral"}, "uses_lowercase_l_suffix")
Rule12_1(g) == MetaFlagged(g, {"BinaryOperator"}, "needs_explicit_parentheses")
Rule12_5(g) == {u \in SizeofExpressions(g) : MetaTrue(g, u, "sizeof_operand_is_decayed_array")}

-----------------------------------------------------------------------------
(* rule_pack_pointers.py and rule_11_8.py *)
IsInteger(g, i) == Type(g, i, "is_integer") # ""
Rule11_4(g) ==
    {c \in Casts(g) : \/ IsPointer(g, c) /\ IsInteger(g, Operand(g, c))
                      \/ IsPointer(g, Operand(g, c)) /\ IsInteger(g, c)}
Rule11_5(g) ==
    {c \in Casts(g) : /\ IsPointer(g, c) /\ IsVoidPointer(g, Operand(g, c))
                      /\ PointeeType(g, c) \notin VoidPointees \cup {""}}

(* A null pointer constant that does not come from the macro NULL; the macro *)
(* a node comes from is kept with its properties.                            *)
Rule11_9(g) ==
    {c \in Casts(g) : /\ IsPointer(g, c) /\ IsNullConstant(g, Operand(g, c))
                      /\ Prop(g, Operand(g, c), "macro_name") # "NULL"}

DifferentPointees(g, b) ==
    LET l == PointeeType(g, Left(g, b))
        r == PointeeType(g, Right(g, b))
    IN  l # "" /\ r # "" /\ l # r
Rule18_2(g) ==
    {b \in Binaries(g) : IsTwoPointerSubtraction(g, b, Children(g, b)) /\ DifferentPointees(g, b)}
Rule18_3(g) ==
    {b \in Binaries(g) : /\ Opcode(g, b) \in RelationalOpcodes
                         /\ IsPointer(g, Left(g, b)) /\ IsPointer(g, Right(g, b))
                         /\ DifferentPointees(g, b)}
Rule18_4(g) == {b \in NodesByKind(g, "BinaryOperator") : IsPointerArithmetic(g, b, Children(g, b))}

(* Overlapping copies: two different names that may point to the same thing. *)
Overlaps(g, f, call, pts) ==
    /\ Len(Children(g, call)) >= 2
    /\ Kind(g, Left(g, call)) = "DeclRefExpr" /\ Kind(g, Right(g, call)) = "DeclRefExpr"
    /\ Name(g, Left(g, call)) # "" /\ Name(g, Right(g, call)) # ""
    /\ Name(g, Left(g, call)) # Name(g, Right(g, call))
    /\ MayAlias(pts, Name(g, Left(g, call)), Name(g, Right(g, call)))[1]
OverlappingCalls(g, f, pts) == {c \in CallsTo(g, f, OverlapSensitiveCallees) : Overlaps(g, f, c, pts)}
Rule19_1(g) ==
    UNION {OverlappingCalls(g, f, Analyze(g, f)) : f \in {f \in FunctionsOf(g) : HasBody(g, f)}}

Rule11_3(g) == {c \in Casts(g) : ChangesObjectPointerType(g, c, Operand(g, c))}
Rule11_7(g) == {c \in Casts(g) : CastsPointerToNonIntegerArithmetic(g, c, Operand(g, c))}
Rule18_1(g) ==
    UNION {PointerArithmeticViolations(g, f, Analyze(g, f)) : f \in {f \in FunctionsOf(g) : HasBody(g, f)}}
Rule11_2(g) ==
    {c \in NodesByKind(g, "CStyleCastExpr") :
        MetaTrue(g, c, "converts_to_incomplete") \/ MetaTrue(g, c, "converts_from_incomplete")}
Rule18_5(g) ==
    {d \in NodesOfKinds(g, {"VarDecl", "ParmVarDecl"}) :
        "pointer_nesting_depth" \in DOMAIN g[d].type /\ g[d].type["pointer_nesting_depth"] > 2}
Rule11_8(g) == Flagged(g, CastNodeKinds, "removes_qualifier") \cap Flagged(g, CastNodeKinds, "removed_qualifiers")
=============================================================================
