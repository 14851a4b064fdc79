---------------------------- MODULE TypeAnalysis ----------------------------
(* The type-system analyzers the rules share: EssentialTypeAnalyzer,         *)
(* CastAnalyzer, PointerAnalyzer, QualifierAnalyzer and                      *)
(* ExpressionClassifier.  Type spellings are opaque; the three sets below    *)
(* say of the spellings that occur what the code finds in their text.        *)
EXTENDS AstGraph

FunctionSpellings == {"int (*)(int)", "void (*)(void)"}       \* '(' in spelling
FileSpellings == {"FILE *", "struct _IO_FILE *"}              \* 'FILE' and '*' in spelling
VoidPointees == {"void", "const void"}

-----------------------------------------------------------------------------
(* EssentialTypeAnalyzer *)
SignedTypes == {"signed_char", "signed_short", "signed_int", "signed_long", "signed_long_long"}
UnsignedTypes ==
    {"unsigned_char", "unsigned_short", "unsigned_int", "unsigned_long", "unsigned_long_long"}
FloatingTypes == {"float", "double", "long_double"}

Category(ess) == CASE ess \in SignedTypes   -> "signed"
                   [] ess \in UnsignedTypes -> "unsigned"
                   [] ess \in FloatingTypes -> "floating"
                   [] ess = "char"          -> "character"
                   [] ess \in {"boolean", "complex"} -> ess
                   [] OTHER                 -> "unknown"

Unranked(ess) == ess \in {"unknown", "complex"}

IsWider(from, to) ==
    /\ ~Unranked(from) /\ ~Unranked(to)
    /\ EssentialTypeRank(to) > EssentialTypeRank(from)

BooleanMixes == {"signed_char", "unsigned_char", "signed_short", "unsigned_short", "signed_int",
                 "unsigned_int", "signed_long", "unsigned_long", "float", "double"}
SignPairs == {<<"signed_char", "unsigned_char">>, <<"signed_short", "unsigned_short">>,
              <<"signed_int", "unsigned_int">>, <<"signed_long", "unsigned_long">>,
              <<"signed_long_long", "unsigned_long_long">>}
InappropriateOperandPairs == ({"boolean"} \X BooleanMixes) \cup SignPairs

IsInappropriateOperandPair(left, right) ==
    <<left, right>> \in InappropriateOperandPairs \/ <<right, left>> \in InappropriateOperandPairs

-----------------------------------------------------------------------------
(* PointerAnalyzer *)
ArithmeticOpcodes == {"+", "-", "+=", "-=", "++", "--"}
IsPointer(g, i) == Type(g, i, "is_pointer") # ""
PointeeType(g, i) == Type(g, i, "pointee_type")

IsNullConstant(g, i) ==
    /\ Kind(g, i) = "IntegerLiteral"
    /\ Prop(g, i, "value") \in {"", "0", "0x0", "NULL"}

IsPointerArithmetic(g, i, operands) ==
    /\ Prop(g, i, "opcode") \in ArithmeticOpcodes
    /\ \E k \in DOMAIN operands : IsPointer(g, operands[k])

IsTwoPointerSubtraction(g, i, operands) ==
    /\ Prop(g, i, "opcode") = "-" /\ Len(operands) >= 2
    /\ IsPointer(g, operands[1]) /\ IsPointer(g, operands[2])

IsFilePointer(g, i) ==
    IsPointer(g, i) /\ (PointeeType(g, i) = "FILE" \/ Type(g, i, "spelling") \in FileSpellings)

(* The locals whose address a return statement takes; the code names the     *)
(* first.                                                                    *)
ReturnedLocals(g, ret, locals) ==
    {Name(g, c) : c \in {c \in Descendants(g, ret) :
        /\ Kind(g, c) = "DeclRefExpr" /\ Name(g, c) \in locals
        /\ g[c].parent \in Descendants(g, ret)
        /\ Kind(g, g[c].parent) = "UnaryOperator" /\ Prop(g, g[c].parent, "opcode") = "&"}}

-----------------------------------------------------------------------------
(* QualifierAnalyzer; a node's qualifiers are kept with its type. *)
Qualifiers(g, i) == IF "qualifiers" \in DOMAIN g[i].type THEN g[i].type["qualifiers"] ELSE {}

-----------------------------------------------------------------------------
(* CastAnalyzer; `operand` is the node the cast converts. *)
ChangesPointerType(g, cast, operand) ==
    /\ IsPointer(g, cast) /\ IsPointer(g, operand)
    /\ PointeeType(g, cast) # PointeeType(g, operand)

HasFunctionSpelling(g, i) == Type(g, i, "spelling") \in FunctionSpellings

IsFunctionPointerCast(g, cast, operand) ==
    /\ HasFunctionSpelling(g, cast) /\ HasFunctionSpelling(g, operand)
    /\ Type(g, cast, "spelling") # Type(g, operand, "spelling")

ChangesObjectPointerType(g, cast, operand) ==
    /\ ChangesPointerType(g, cast, operand)
    /\ {PointeeType(g, cast), PointeeType(g, operand)} \cap (VoidPointees \cup {""}) = {}
    /\ ~HasFunctionSpelling(g, cast) /\ ~HasFunctionSpelling(g, operand)

CastsPointerToNonIntegerArithmetic(g, cast, operand) ==
    IsPointer(g, operand) /\ Category(g[cast].ess) = "floating"

ChangesToWiderCategory(g, cast, operand) ==
    /\ g[cast].ess # "unknown" /\ g[operand].ess # "unknown"
    /\ Category(g[cast].ess) # Category(g[operand].ess)
    /\ IsWider(g[operand].ess, g[cast].ess)

-----------------------------------------------------------------------------
ConditionParentKinds == {"IfStmt", "WhileStmt", "DoStmt", "ForStmt"}
AssignmentOpcodes == {"=", "+=", "-=", "*=", "/=", "%=", "&=", "|=", "^=", "<<=", ">>="}
IncDecOpcodes == {"++", "--"}
ShiftOpcodes == {"<<", ">>"}
ExpressionParentKinds ==
    {"BinaryOperator", "UnaryOperator", "CallExpr", "CStyleCastExpr", "ConditionalOperator",
     "ArraySubscriptExpr", "MemberExpr", "ParenExpr", "InitListExpr", "ImplicitCastExpr"}

Effect(g, i) ==
    Kind(g, i) = "CallExpr" \/ Prop(g, i, "opcode") \in AssignmentOpcodes \cup IncDecOpcodes
HasSideEffects(g, i) == \E d \in {i} \cup Descendants(g, i) : Effect(g, d)

ConditionOf(g, stmt) ==
    IF Kind(g, stmt) = "DoStmt" THEN Last(Children(g, stmt)) ELSE Head(Children(g, stmt))

IsConditionOfControlStatement(g, i) ==
    /\ ~IsFileScope(g, i)
    /\ OfKind(g, g[i].parent, ConditionParentKinds)
    /\ ConditionOf(g, g[i].parent) = i

UsesCommaOperator(g, i) == Kind(g, i) = "BinaryOperator" /\ Prop(g, i, "opcode") = ","

IsBooleanContextMismatch(g, i) ==
    IsConditionOfControlStatement(g, i) /\ g[i].ess \notin {"boolean", "unknown"}

IsIncrementOrDecrement(g, i) ==
    Kind(g, i) = "UnaryOperator" /\ Prop(g, i, "opcode") \in IncDecOpcodes

RECURSIVE FullExpressionRoot(_, _)
FullExpressionRoot(g, i) ==
    IF IsFileScope(g, i) \/ ~OfKind(g, g[i].parent, ExpressionParentKinds) THEN i
    ELSE FullExpressionRoot(g, g[i].parent)

(* Another effect in the same full expression, outside the operand of the    *)
(* increment itself.                                                         *)
HasOtherSideEffects(g, inc) ==
    LET root == FullExpressionRoot(g, inc)
        below == {inc} \cup Descendants(g, inc)
    IN  root # inc /\ \E d \in ({root} \cup Descendants(g, root)) \ below : Effect(g, d)

(* A plausible slip: the width itself is let through.                        *)
ShiftAmountBeyondWidth(g, i) ==
    /\ Prop(g, i, "opcode") \in ShiftOpcodes
    /\ {"shift_amount", "shift_width"} \subseteq DOMAIN g[i].props
    /\ g[i].props["shift_amount"] > g[i].props["shift_width"]
ShiftAmountOutOfRange(g, i) ==
    /\ Prop(g, i, "opcode") \in ShiftOpcodes
    /\ {"shift_amount", "shift_width"} \subseteq DOMAIN g[i].props
    /\ \/ g[i].props["shift_amount"] < 0
       \/ g[i].props["shift_amount"] >= g[i].props["shift_width"]

WrapsOnConstantUnsigned(g, i) ==
    /\ Flag(g, i, "wraps_on_evaluation")
    /\ g[i].ess \in UnsignedTypes \/ Flag(g, i, "is_constant_unsigned")

LoopCounterIsFloating(g, i) ==
    \/ Prop(g, i, "loop_counter_essential_type") \in FloatingTypes
    \/ \E k \in DOMAIN ChildrenOfKind(g, i, {"VarDecl"}) :
          g[ChildrenOfKind(g, i, {"VarDecl"})[k]].ess \in FloatingTypes

SwitchConditionIsBoolean(g, i) ==
    Children(g, i) # <<>> /\ g[Children(g, i)[1]].ess = "boolean"

ControllingExpressionInvariant(g, i) ==
    \/ Flag(g, i, "controlling_expression_invariant")
    \/ /\ OfKind(g, i, ConditionParentKinds) /\ Children(g, i) # <<>>
       /\ Flag(g, ConditionOf(g, i), "controlling_expression_invariant")

(* A call statement whose value is dropped; the facts about the return type  *)
(* must be there and must not say void.                                      *)
IsDiscardedNonVoidCall(g, i) ==
    /\ Prop(g, i, "return_type") # "void"
    /\ Flag(g, i, "has_non_void_return") \/ Flag(g, i, "return_type")
    /\ ~IsFileScope(g, i)
    /\ OfKind(g, g[i].parent, {"CompoundStmt", "ExprStmt"})
=============================================================================
