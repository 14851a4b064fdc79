---------------------------- MODULE AliasAnalysis ----------------------------
(* AliasAnalyzer (analyzers/alias_analyzer.py): what the pointers of one     *)
(* function may point to, over the whole function, and the checks built on   *)
(* it.  A points-to map is a function from names to sets of pointees; a name *)
(* without an entry is not in its domain.                                    *)
EXTENDS DataFlow

Pointee(target, kind, confidence) == [target |-> target, kind |-> kind, confidence |-> confidence]
UnknownPointee == Pointee("<unknown>", "unknown", "unknown")
(* The target "<heap:f>" of a call is the name f with the kind heap. *)
SameTarget(p, q) == p.target = q.target /\ (p.kind = "heap" <=> q.kind = "heap")

AddPointees(pts, name, new) ==
    IF new = {} THEN pts
    ELSE (name :> (new \cup (IF name \in DOMAIN pts THEN pts[name] ELSE {}))) @@ pts

PointsTo(pts, name) == IF name \in DOMAIN pts THEN pts[name] ELSE {}

(* What a right-hand side may point to.  A name with several pointees hands  *)
(* them on as possible ones; a name without any is unknown; other            *)
(* expressions resolve to nothing.                                           *)
ResolveRhs(g, rhs, pts) ==
    LET kids == Children(g, rhs)
        name == Name(g, rhs)
        Downgrade(p) == IF Cardinality(pts[name]) > 1 /\ p.confidence = "definite"
                        THEN [p EXCEPT !.confidence = "possible"] ELSE p
    IN  CASE Kind(g, rhs) = "UnaryOperator" /\ Prop(g, rhs, "opcode") = "&" ->
                IF kids = <<>> THEN {UnknownPointee}
                ELSE IF Kind(g, kids[1]) = "DeclRefExpr" /\ Name(g, kids[1]) # ""
                THEN {Pointee(Name(g, kids[1]),
                              IF Flag(g, kids[1], "is_function") THEN "function" ELSE "variable", "definite")}
                ELSE {UnknownPointee}
          [] Kind(g, rhs) = "DeclRefExpr" ->
                IF Flag(g, rhs, "is_function") THEN {Pointee(name, "function", "definite")}
                ELSE IF Type(g, rhs, "is_array") # "" THEN {Pointee(name, "array", "definite")}
                ELSE IF name \in DOMAIN pts THEN {Downgrade(p) : p \in pts[name]}
                ELSE {UnknownPointee}
          [] Kind(g, rhs) = "CallExpr" ->
                {Pointee(Prop(g, rhs, "callee"), "heap", "possible")}
          [] OTHER -> {}

SeedPointerParameters(g, f) ==
    LET seeds == {Name(g, p) : p \in {p \in Range(ChildrenOfKind(g, f, {"ParmVarDecl"})) :
                                         Type(g, p, "is_pointer") # ""}} \ {""}
    IN  [name \in seeds |-> {UnknownPointee}]

HandleVarDecl(g, d, pts) ==
    LET inits == SelectSeq(Children(g, d), LAMBDA c : ~OfKind(g, c, TypeChildKinds))
    IN  IF Name(g, d) = "" \/ Type(g, d, "is_pointer") = "" \/ inits = <<>> THEN pts
        ELSE AddPointees(pts, Name(g, d), ResolveRhs(g, inits[1], pts))

HandleAssignment(g, a, pts) ==
    LET kids == Children(g, a)
    IN  IF Len(kids) < 2 THEN pts
        ELSE IF Kind(g, kids[1]) # "DeclRefExpr" \/ Name(g, kids[1]) = "" THEN pts
        ELSE AddPointees(pts, Name(g, kids[1]), ResolveRhs(g, kids[2], pts))

Relevant(g, f) ==
    Sorted(g, {d \in Descendants(g, f) :
        \/ Kind(g, d) = "VarDecl"
        \/ Kind(g, d) = "BinaryOperator" /\ Prop(g, d, "opcode") = "="})

(* One pass over the assignments in source order; each sees the earlier ones *)
(* of its own pass.                                                          *)
AliasPass(g, f, pts) ==
    FoldLeft(LAMBDA acc, n : IF Kind(g, n) = "VarDecl" THEN HandleVarDecl(g, n, acc)
                             ELSE HandleAssignment(g, n, acc),
             pts, Relevant(g, f))

(* At most one pass per assignment and one more, fewer when nothing changes. *)
RECURSIVE AliasPasses(_, _, _, _)
AliasPasses(g, f, pts, left) ==
    LET next == AliasPass(g, f, pts)
    IN  IF left = 0 THEN pts ELSE IF next = pts THEN pts ELSE AliasPasses(g, f, next, left - 1)

Analyze(g, f) == AliasPasses(g, f, SeedPointerParameters(g, f), Len(Relevant(g, f)) + 1)

(* may_alias: <<answer, confidence>> *)
MayAlias(pts, a, b) ==
    LET sa == PointsTo(pts, a)
        sb == PointsTo(pts, b)
        Definite(s) == Cardinality(s) = 1 /\ \A p \in s : p.confidence = "definite"
        shared == {p \in sa : \E q \in sb : SameTarget(p, q)}
    IN  CASE sa = {} \/ sb = {} -> <<FALSE, "unknown">>
          [] sa # {} /\ sb # {} /\ (\E p \in sa \cup sb : p.kind = "unknown") -> <<TRUE, "unknown">>
          [] OTHER -> IF shared = {} THEN <<FALSE, "definite">>
                      ELSE <<TRUE, IF Definite(sa) /\ Definite(sb) THEN "definite" ELSE "possible">>

(* A plausible slip: other names for the object are forgotten.               *)
OnlyItself(pts, name) == {name}
AliasesOf(pts, name) == {name} \cup {other \in DOMAIN pts : MayAlias(pts, name, other)[1]}

-----------------------------------------------------------------------------
MemCompatCallees == {"memcpy", "memmove", "memcmp"}
StringOverflowCallees == {"strcpy", "strcat", "sprintf", "snprintf", "gets"}
SizeBoundCallees == {"memcpy", "memmove", "memset", "strncpy"}
StringInvalidators == {"strtok", "asctime", "ctime", "gmtime", "localtime"}
FileInvalidators == {"fclose"}

FunctionNodes(g, f) == {f} \cup Descendants(g, f)
CallsTo(g, f, callees) ==
    {d \in FunctionNodes(g, f) : Kind(g, d) = "CallExpr" /\ Prop(g, d, "callee") \in callees}
DeclRefNamesIn(g, i) ==
    {Name(g, d) : d \in {d \in {i} \cup Descendants(g, i) : Kind(g, d) = "DeclRefExpr"}} \ {""}

PointerArithmeticViolations(g, f, pts) ==
    {d \in FunctionNodes(g, f) :
        \/ Flag(g, d, "pointer_arithmetic_out_of_bounds")
        \/ /\ OfKind(g, d, {"BinaryOperator", "UnaryOperator"}) /\ Flag(g, d, "is_pointer_arithmetic")
           /\ PointsTo(pts, Prop(g, d, "pointer_name")) # {}
           /\ Flag(g, d, "offset_exceeds_array_size")}

IncompatibleMemCalls(g, f) ==
    LET Pointees(c) == <<Type(g, Children(g, c)[1], "pointee_type"), Type(g, Children(g, c)[2], "pointee_type")>>
    IN  {c \in CallsTo(g, f, MemCompatCallees) :
            \/ Flag(g, c, "incompatible_pointer_args")
            \/ /\ Len(Children(g, c)) >= 2
               /\ Pointees(c)[1] # Pointees(c)[2]
               /\ Range(Pointees(c)) \cap {"", "void"} = {}}

StringBufferOverflowCalls(g, f) ==
    {c \in CallsTo(g, f, StringOverflowCallees) : Flag(g, c, "string_buffer_overflow")}
SizeExceedsDestinationCalls(g, f) ==
    {c \in CallsTo(g, f, SizeBoundCallees) : Flag(g, c, "size_exceeds_destination")}

(* References after a call that invalidates what they, or an alias, name.    *)
InvalidatedBefore(g, calls, ref, Names(_), pts) ==
    UNION {UNION {AliasesOf(pts, n) : n \in Names(c)} : c \in {c \in calls : c < ref}}

(* The static buffers of strtok and its like; invalidated_pointers, a list,  *)
(* cannot come over the wire and is left out.  The operands of the call come *)
(* after it in source order, so its own pointer arguments are reported too.  *)
UseAfterStringInvalidationReads(g, f, pts) ==
    LET Names(c) == DeclRefNamesIn(g, c) \cap DOMAIN pts
    IN  {d \in FunctionNodes(g, f) :
            /\ Kind(g, d) = "DeclRefExpr"
            /\ \/ Flag(g, d, "use_after_string_invalidation")
               \/ Name(g, d) \in InvalidatedBefore(g, CallsTo(g, f, StringInvalidators), d, Names, pts)}

UseAfterFileCloseReads(g, f, pts) ==
    LET Names(c) == IF Children(g, c) = <<>> THEN {} ELSE DeclRefNamesIn(g, Children(g, c)[1])
        closes == CallsTo(g, f, FileInvalidators)
    IN  {d \in FunctionNodes(g, f) :
            /\ Kind(g, d) = "DeclRefExpr"
            /\ g[d].parent \notin closes
            /\ \/ Flag(g, d, "use_after_file_close")
               \/ Name(g, d) \in InvalidatedBefore(g, closes, d, Names, pts)}
=============================================================================
