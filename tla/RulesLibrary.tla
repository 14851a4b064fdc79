---------------------------- MODULE RulesLibrary ----------------------------
(* The standard-library pack (rule_pack_standard_library.py), the            *)
(* preprocessor pack (rule_pack_preprocessor.py) and the MacroAnalyzer both  *)
(* use.                                                                      *)
(*                                                                           *)
(* A macro table M has the sequences of macro definitions, expansions,       *)
(* includes, conditional branches, undefs and other directives of the unit;  *)
(* an entry is a function from names to strings, as the properties of a node *)
(* are.  A finding of these rules has no AST node: what identifies it is its *)
(* offending_expression alone, here a tuple of the words that are put        *)
(* together in it.  So two entries that give the same text in one file are   *)
(* one finding, and a rule is the set of its texts.                          *)
EXTENDS AliasAnalysis, NameAnalysis, TypeAnalysis

CKeywords ==
    {"auto", "break", "case", "char", "const", "continue", "default", "do", "double", "else", "enum",
     "extern", "float", "for", "goto", "if", "inline", "int", "long", "register", "restrict", "return",
     "short", "signed", "sizeof", "static", "struct", "switch", "typedef", "union", "unsigned", "void",
     "volatile", "while", "_Bool", "_Complex", "_Imaginary"}

(* What the code finds in the text of the names, bodies and headers that     *)
(* occur: a leading underscore and capital or two underscores, an operator,  *)
(* one pair of parentheses around all, a quote, backslash or comment marker. *)
ReservedIdentifiers == {"_RESERVED", "__reserved"}
OperatorBodies == {"a + b", "(a + b)"}
ParenthesizedBodies == {"(a + b)"}
InvalidHeaders == {"\"quoted.h\"", "back\\slash.h"}
NormalizeHeaderName(h) == CASE h = "<stdio.h>" -> "stdio.h"
                            [] h = "<time.h>" -> "time.h"
                            [] h = "\"quoted.h\"" -> "quoted.h"
                            [] OTHER -> h

Entries(s) == Range(s)
IsReservedIdentifier(name) == name \in ReservedIdentifiers
FunctionLikeMacros(M) == {m \in Entries(M.definitions) : Get(m, "is_function_like") # ""}
HasUnparenthesizedOperatorBody(m) ==
    Get(m, "value") \in OperatorBodies /\ Get(m, "value") \notin ParenthesizedBodies
ExpansionsOf(M, name) == {e \in Entries(M.expansions) : Get(e, "name") = name}
IsUnused(M, m) == ExpansionsOf(M, Get(m, "name")) = {}

(* The count of opening directives differs from the count of #endif. *)
UnbalancedConditionalGroup(M) ==
    LET Count(directives) == Len(SelectSeq(M.conditionals, LAMBDA c : Get(c, "directive") \in directives))
    IN  Count({"if", "ifdef", "ifndef"}) # Count({"endif"})

Header(d) == IF Get(d, "header") # "" THEN Get(d, "header") ELSE Get(d, "included_file")
HeaderMatches(d, forbidden) == NormalizeHeaderName(Header(d)) \in forbidden
IncludesMatching(M, forbidden) == {d \in Entries(M.includes) : HeaderMatches(d, forbidden)}
IncludeHasInvalidHeaderChars(d) == Get(d, "invalid_header_chars") # "" \/ Header(d) \in InvalidHeaders
IsIfOrElif(c) == Get(c, "directive") \in {"if", "elif"}
MacrosUsingTokenOperators(M) ==
    {m \in Entries(M.definitions) : Get(m, "uses_stringify") # "" \/ Get(m, "uses_token_paste") # ""}

-----------------------------------------------------------------------------
(* rule_pack_preprocessor.py *)
Define(m) == <<"#define", Get(m, "name")>>
Include(d) == <<"#include", Header(d)>>
Conditional(c) == <<Get(c, "directive"), Get(c, "condition")>>
MarkedMacros(M, flag) == {Define(m) : m \in {m \in Entries(M.definitions) : Get(m, flag) # ""}}
MarkedIncludes(M, flag) == {Include(d) : d \in {d \in Entries(M.includes) : Get(d, flag) # ""}}

Rule20_4(M) == {Define(m) : m \in {m \in Entries(M.definitions) : Get(m, "name") \in CKeywords}}
Rule20_7(M) ==
    {<<"#define", Get(m, "name"), "(...)", Get(m, "value")>> :
        m \in {m \in FunctionLikeMacros(M) : HasUnparenthesizedOperatorBody(m)}}
Rule20_14(M) == IF UnbalancedConditionalGroup(M) THEN {<<"#if .. #endif">>} ELSE {}
Rule21_1(M) == {Define(m) : m \in {m \in Entries(M.definitions) : IsReservedIdentifier(Get(m, "name"))}}
Rule2_5(M) == {Define(m) : m \in {m \in Entries(M.definitions) : IsUnused(M, m)}}

(* One report per pair of names, the smaller name first. *)
Rule5_4(M) ==
    LET pairs == DuplicateNamesWithin({Get(m, "name") : m \in Entries(M.definitions)} \ {""})
    IN  {SelectSeq(LongNameOrder, LAMBDA n : n \in p) : p \in pairs}

(* Declarations with reserved names, in the AST. *)
Rule21_2(g) == {i \in Symbols(g) : IsReservedIdentifier(Name(g, i))}

Rule20_1(M) == MarkedIncludes(M, "preceded_by_non_preprocessor")
Rule20_2(M) == {Include(d) : d \in {d \in Entries(M.includes) : IncludeHasInvalidHeaderChars(d)}}
Rule20_3(M) == MarkedIncludes(M, "invalid_syntax")
Rule20_6(M) == MarkedMacros(M, "invalid_preprocessor_tokens")
Rule20_8(M) ==
    {Conditional(c) : c \in {c \in Entries(M.conditionals) :
        IsIfOrElif(c) /\ Get(c, "non_boolean_controlling_expression") # ""}}
Rule20_9(M) ==
    {Conditional(c) : c \in {c \in Entries(M.conditionals) :
        IsIfOrElif(c) /\ Get(c, "undefined_identifiers") # ""}}
Rule20_11(M) == MarkedMacros(M, "stringify_param_unparenthesized_operator")
Rule20_12(M) == MarkedMacros(M, "param_mixed_stringify_and_paste")
Rule20_13(M) ==
    {<<IF Get(d, "text") # "" THEN Get(d, "text") ELSE Get(d, "directive")>> :
        d \in {d \in Entries(M.directives) : Get(d, "invalid_form") # ""}}
Rule20_5(M) == {<<"#undef", Get(d, "name")>> : d \in Entries(M.undefs)}
Rule20_10(M) ==
    LET Operators(m) == CASE Get(m, "uses_token_paste") = "" -> "#"
                          [] Get(m, "uses_stringify") = "" -> "##"
                          [] OTHER -> "# and ##"
    IN  {<<"#define", Get(m, "name"), Operators(m)>> : m \in MacrosUsingTokenOperators(M)}

-----------------------------------------------------------------------------
(* rule_pack_standard_library.py *)
StdioCalls ==
    {"clearerr", "fclose", "feof", "ferror", "fflush", "fgetc", "fgetpos", "fgets", "fopen", "fprintf",
     "fputc", "fputs", "fread", "freopen", "fscanf", "fseek", "fsetpos", "ftell", "fwrite", "getc",
     "getchar", "gets", "perror", "printf", "putc", "putchar", "puts", "remove", "rename", "rewind",
     "scanf", "setbuf", "setvbuf", "snprintf", "sprintf", "sscanf", "tmpfile", "tmpnam", "ungetc",
     "vfprintf", "vfscanf", "vprintf", "vscanf", "vsnprintf", "vsprintf", "vsscanf"}
AtoCalls == {"atof", "atoi", "atol", "atoll"}
AbortExitCalls == {"abort", "exit", "getenv", "system"}
MallocCalls == {"malloc", "calloc", "realloc", "free"}
BsearchQsortCalls == {"bsearch", "qsort"}
StdargCalls == {"va_start", "va_arg", "va_end", "va_copy"}
CtypeCalls ==
    {"isalnum", "isalpha", "isblank", "iscntrl", "isdigit", "isgraph", "islower", "isprint", "ispunct",
     "isspace", "isupper", "isxdigit", "tolower", "toupper"}

ForbiddenCalls(g, forbidden) == {c \in NodesByKind(g, "CallExpr") : Prop(g, c, "callee") \in forbidden}
ForbiddenHeaders(M, forbidden) == {Include(d) : d \in IncludesMatching(M, forbidden)}

(* Rule 17.1 reports the header and the calls. *)
Rule17_1Headers(M) == ForbiddenHeaders(M, {"stdarg.h"})
Rule17_1(g) == ForbiddenCalls(g, StdargCalls)
Rule21_3(g) == ForbiddenCalls(g, MallocCalls)
Rule21_4(M) == ForbiddenHeaders(M, {"setjmp.h"})
Rule21_5(M) == ForbiddenHeaders(M, {"signal.h"})
Rule21_6(g) == ForbiddenCalls(g, StdioCalls)
Rule21_7(g) == ForbiddenCalls(g, AtoCalls)
Rule21_8(g) == ForbiddenCalls(g, AbortExitCalls)
Rule21_9(g) == ForbiddenCalls(g, BsearchQsortCalls)
Rule21_10(M) == ForbiddenHeaders(M, {"time.h"})
Rule21_11(M) == ForbiddenHeaders(M, {"tgmath.h"})
Rule21_12(M) == ForbiddenHeaders(M, {"fenv.h"})
Rule21_21(g) == ForbiddenCalls(g, {"system"})

Rule22_8(g) == Flagged(g, {"CallExpr"}, "requires_errno_clear") \ Flagged(g, {"CallExpr"}, "errno_cleared")
Rule21_14(g) == ForbiddenCalls(g, {"memcmp"}) \cap Flagged(g, {"CallExpr"}, "compares_null_terminated_strings")
Rule21_16(g) ==
    {a \in UNION {Range(Children(g, c)) : c \in ForbiddenCalls(g, {"memcmp"})} :
        Flag(g, a, "invalid_pointer_argument")}
Rule21_19(g) == Flagged(g, {"DeclRefExpr", "UnaryOperator"}, "returned_pointer_missing_const")
Rule22_5(g) ==
    {u \in NodesByKind(g, "UnaryOperator") :
        Prop(g, u, "opcode") = "*" /\ Children(g, u) # <<>> /\ IsFilePointer(g, Children(g, u)[1])}
Rule22_7(g) == Flagged(g, {"BinaryOperator"}, "eof_operand_modified")
Rule22_1(g) == Flagged(g, {"CallExpr", "FunctionDecl"}, "dynamic_resource_leak")
Rule22_2(g) == Flagged(g, {"CallExpr"}, "double_release")
Rule22_3(g) == Flagged(g, {"CallExpr"}, "concurrent_stream_access")
Rule22_9(g) == Flagged(g, {"CompoundStmt", "IfStmt"} \cup LoopKinds, "errno_not_tested")
Rule22_10(g) == Flagged(g, {"BinaryOperator", "IfStmt"}, "errno_tested_without_failure_check")
Rule22_4(g) == Flagged(g, {"CallExpr"}, "writes_to_readonly_stream")
Rule21_13(g) == ForbiddenCalls(g, CtypeCalls) \cap Flagged(g, {"CallExpr"}, "argument_may_be_negative_char")

(* The checks of AliasAnalyzer, for every function with a body. *)
AnalyzedFunctions(g) == {f \in FunctionsOf(g) : HasBody(g, f)}
Rule21_15(g) == UNION {IncompatibleMemCalls(g, f) : f \in AnalyzedFunctions(g)}
Rule21_17(g) == UNION {StringBufferOverflowCalls(g, f) : f \in AnalyzedFunctions(g)}
Rule21_18(g) == UNION {SizeExceedsDestinationCalls(g, f) : f \in AnalyzedFunctions(g)}
Rule21_20(g) == UNION {UseAfterStringInvalidationReads(g, f, Analyze(g, f)) : f \in AnalyzedFunctions(g)}
Rule22_6(g) == UNION {UseAfterFileCloseReads(g, f, Analyze(g, f)) : f \in AnalyzedFunctions(g)}
=============================================================================
