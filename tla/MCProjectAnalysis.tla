------------------------- MODULE MCProjectAnalysis -------------------------
(* Projects to analyse: offending code for every rule, units that share      *)
(* names, functions that call each other, and programs to execute.           *)
(*                                                                           *)
(* A construct is identified by a descriptor, an operation with descriptors  *)
(* as arguments, so that all constructs can be compared.                     *)
EXTENDS ProjectAnalysis

D(op, args) == [op |-> op, args |-> args]
D0(op) == D(op, <<>>)

(* Shorthands for trees. *)
Ref(n) == Tree("DeclRefExpr", "name" :> n, <<>>)
Lit == Leaf("IntegerLiteral")
Bin(op, l, r) == Tree("BinaryOperator", "opcode" :> op, <<l, r>>)
Un(op, e) == Tree("UnaryOperator", "opcode" :> op, <<e>>)
CallTo(f, args) == Tree("CallExpr", "callee" :> f, args)
Block(ss) == Tree("CompoundStmt", NoProps, ss)
Var(n) == Tree("VarDecl", "name" :> n, <<>>)
Par(n) == Tree("ParmVarDecl", "name" :> n, <<>>)
Fn(n, params, ss) == Tree("FunctionDecl", "name" :> n, params \o <<Block(ss)>>)
IntFn(n, ss) == Typed("FunctionDecl", "name" :> n, NoProps, "signed_int", <<Block(ss)>>)
WithProps(t, p) == [t EXCEPT !.props = p @@ @]
WithType(t, ty) == [t EXCEPT !.type = ty]
OfType(t, ess) == [t EXCEPT !.ess = ess]

-----------------------------------------------------------------------------
(* Programs to execute: int x; [x = 1;] S; L: use(x); [return 1;], and       *)
(* int x; x = 1; L: S -- nothing follows S, so the blocks where its ways out *)
(* meet are empty.                                                           *)
Simple(op) ==
  CASE op = "x = 1"       -> Bin("=", Ref("x"), Lit)
    [] op = "use(x)"      -> CallTo("use", <<Ref("x")>>)
    [] op = "break"       -> Leaf("BreakStmt")
    [] op = "continue"    -> Leaf("ContinueStmt")
    [] op = "return 1"    -> Tree("ReturnStmt", NoProps, <<Lit>>)
    [] op = "goto L"      -> Tree("GotoStmt", "target_label" :> "L", <<>>)
    [] op = "L:"          -> Tree("LabelStmt", "name" :> "L", <<>>)
    [] op = "case"        -> Leaf("CaseStmt")
    [] op = "default"     -> Leaf("DefaultStmt")
    [] op = "p = fopen()" -> Bin("=", Ref("p"), CallTo("fopen", <<>>))
    [] op = "q = p"       -> Bin("=", Ref("q"), Ref("p"))
    [] op = "fclose(p)"   -> CallTo("fclose", <<Ref("p")>>)
    [] op = "fclose(q)"   -> CallTo("fclose", <<Ref("q")>>)
    [] op = "use(p)"      -> CallTo("use", <<Ref("p")>>)
    [] op = "use(q)"      -> CallTo("use", <<Ref("q")>>)
    [] op = "x = recv()"  -> Bin("=", Ref("x"), CallTo("recv", <<>>))
    [] op = "y = x"       -> Bin("=", Ref("y"), Ref("x"))
    [] op = "x = y"       -> Bin("=", Ref("x"), Ref("y"))
    [] op = "memcpy(y)"   -> CallTo("memcpy", <<Ref("y")>>)
    [] op = "int x"       -> Var("x")
    [] op = "int y"       -> Var("y")
    [] op = "FILE *p"     -> WithType(Var("p"), "is_pointer" :> "true")
    [] op = "FILE *q"     -> WithType(Var("q"), "is_pointer" :> "true")

(* A body of one statement has no braces. *)
RECURSIVE Stmt(_)
Stmt(d) ==
  LET kids == [k \in DOMAIN d.args |-> Stmt(d.args[k])]
      body == IF Len(kids) = 1 THEN kids[1] ELSE Block(kids)
  IN  CASE d.op = "if"     -> Tree("IfStmt", NoProps, <<Lit, body>>)
        [] d.op = "ifelse" -> Tree("IfStmt", NoProps, <<Ref("x"), kids[1], kids[2]>>)
        [] d.op = "while"  -> Tree("WhileStmt", NoProps, <<Lit, body>>)
        [] d.op = "for"    -> Tree("ForStmt", NoProps, <<Lit, Lit, Lit, body>>)
        [] d.op = "do"     -> Tree("DoStmt", NoProps, <<body, Lit>>)
        [] d.op = "switch" -> Tree("SwitchStmt", NoProps, <<Lit, Block(kids)>>)
        [] OTHER           -> Simple(d.op)

Ops(names) == {D0(n) : n \in names}
DataOps == Ops({"x = 1", "use(x)"})
Exits == Ops({"return 1", "goto L"})
LoopOps == DataOps \cup Exits \cup Ops({"break", "continue"})
SwitchOps == DataOps \cup Exits \cup Ops({"break"})
Bodies(ops, two) == {<<a>> : a \in ops} \cup {<<a, b>> : <<a, b>> \in two \X ops}
If(ops) == {D("if", <<a>>) : a \in ops}

IfStatements == If(DataOps \cup Exits) \cup {D("ifelse", <<a, b>>) : <<a, b>> \in (DataOps \cup Exits) \X (DataOps \cup Exits)}
LoopStatements == {D(l, b) : <<l, b>> \in {"while", "for", "do"} \X Bodies(LoopOps, DataOps \cup If(LoopOps))}
SwitchStatements ==
  {D("switch", <<D0("case")>> \o a \o <<D0(m)>> \o b) :
      <<a, m, b>> \in (Bodies(SwitchOps, DataOps \cup If(Exits)) \cup {<<>>}) \X {"case", "default"} \X Bodies(SwitchOps, {})}
NestedStatements ==
  {D("while", <<D("switch", <<D0("case"), a, D0(m), b>>), c>>) :
      <<a, m, b, c>> \in SwitchOps \X {"case", "default"} \X DataOps \X LoopOps}
  \cup {D("switch", <<D0("case"), D(l, <<a>>), b, D0("default"), c>>) :
      <<l, a, b, c>> \in {"while", "do"} \X LoopOps \X DataOps \X SwitchOps}
  \cup {D(l, <<D(k, <<a>>), b>>) : <<l, k, a, b>> \in {"while", "do"} \X {"while", "for"} \X LoopOps \X LoopOps}

IntProgram(init, s, exit) ==
  D("int program", <<D0("int x")>> \o init \o <<s, D0("L:"), D0("use(x)")>> \o exit)
OpenProgram(s) == D("int program", <<D0("int x"), D0("x = 1"), D0("L:"), s>>)
Statements == IfStatements \cup LoopStatements \cup SwitchStatements \cup NestedStatements
IntPrograms ==
  {IntProgram(i, s, <<D0("return 1")>>) : <<i, s>> \in {<<>>, <<D0("x = 1")>>} \X Statements}
  \cup {IntProgram(<<D0("x = 1")>>, s, <<>>) : s \in IfStatements}
  \cup {OpenProgram(s) : s \in Statements}

FileOps == Ops({"p = fopen()", "q = p", "fclose(p)", "fclose(q)", "use(p)", "use(q)"})
FilePrograms ==
  {D("file program", <<D0("FILE *p"), D0("FILE *q"), D0("p = fopen()"), a, b, D0("use(p)"), D0("use(q)")>>) :
      <<a, b>> \in (FileOps \cup If(FileOps)) \X (FileOps \cup {D("while", <<c, d>>) : <<c, d>> \in FileOps \X FileOps})}

TaintOps == Ops({"x = recv()", "y = x", "x = y", "x = 1", "memcpy(y)"})
TaintPrograms ==
  {D("taint program", <<D0("int x"), D0("int y"), o, a, b, D0("memcpy(y)")>>) :
      <<o, a, b>> \in TaintOps \X (TaintOps \cup If(TaintOps)) \X (TaintOps \cup {D("while", <<c, d>>) : <<c, d>> \in TaintOps \X TaintOps})}

Programs == IntPrograms \cup FilePrograms \cup TaintPrograms
ProgramProject ==
  [units |-> {"a"}, pool |-> Programs, limit |-> 1, enabled |-> {"2.1", "9.1", "16.3", "17.4", "22.6"},
   independent |-> FALSE, executable |-> TRUE]

-----------------------------------------------------------------------------
(* Offending code.  The fixtures share the names of locals, labels and       *)
(* parameters and have file-scope names of their own.                        *)
If2(then, else) == Tree("IfStmt", NoProps, <<Lit, then, else>>)
While(body) == Tree("WhileStmt", NoProps, <<Lit, body>>)
Switch(ss) == Tree("SwitchStmt", NoProps, <<Lit, Block(ss)>>)
Use(n) == CallTo("use", <<Ref(n)>>)
Set(n) == Bin("=", Ref(n), Lit)
Case == Leaf("CaseStmt")
Default == Leaf("DefaultStmt")
Break == Leaf("BreakStmt")
Label(n) == Tree("LabelStmt", "name" :> n, <<>>)
Goto(n) == Tree("GotoStmt", "target_label" :> n, <<>>)
Ret(kids) == Tree("ReturnStmt", NoProps, kids)
Mark(t, flag) == WithProps(t, flag :> "true")
Flags(fs) == [f \in fs |-> "true"]
PointerTo(pointee) == ("is_pointer" :> "true") @@ ("pointee_type" :> pointee)

Fixture ==
  [jumps |->
     [planted |-> {"2.1", "2.6", "15.1", "15.2", "15.3", "15.4", "15.5"}, macros |-> NoMacros,
      trees |-> <<Fn("jumps", <<>>, <<While(Block(<<Goto("L"), Break>>)), If2(Block(<<Label("L"), Ret(<<>>)>>), Block(<<>>)),
                                      Label("M"), Ret(<<>>), Use("y")>>)>>],
   switches |->
     [planted |-> {"16.1", "16.2", "16.3", "16.4", "16.5", "16.6", "16.7"}, macros |-> NoMacros,
      trees |-> <<Fn("switches", <<>>,
                     <<Switch(<<Case, Default, Break, Case, If2(Case, Break), Break>>),
                       Tree("SwitchStmt", NoProps, <<OfType(Ref("x"), "boolean"), Break>>)>>)>>],
   loops |->
     [planted |-> {"14.1", "14.2", "14.3", "14.4", "15.6", "15.7", "13.4", "17.4"}, macros |-> NoMacros,
      trees |-> <<IntFn("loops",
                     <<Tree("ForStmt", NoProps, <<OfType(Var("x"), "float"), Lit, Block(<<>>)>>),
                       Tree("WhileStmt", Flags({"controlling_expression_invariant"}), <<OfType(Set("x"), "signed_int"), Use("x")>>),
                       If2(Block(<<>>), Tree("IfStmt", NoProps, <<Lit, Block(<<>>)>>))>>)>>],
   data |->
     [planted |-> {"9.1", "2.2", "2.7", "17.8", "8.13", "17.6", "18.5", "18.6", "18.8"}, macros |-> NoMacros,
      trees |-> <<Fn("data",
                     <<WithType(Mark(Par("buffer"), "pointer_should_be_const"), PointerTo("int") @@ ("pointer_nesting_depth" :> 3)),
                       WithProps(Par("table"), Flags({"is_array", "array_static"})), Par("amount")>>,
                     <<Var("x"), WithType(Var("q"), "is_variable_length_array" :> "true"), Use("x"), Set("amount"), Use("table"), Set("x"),
                       Ret(<<Un("&", Ref("x"))>>), Set("x")>>)>>],
   parameters |->
     [planted |-> {"2.7"}, macros |-> NoMacros,
      trees |-> <<Fn("parameters", <<Par("x"), Par("amount"), Par("table"), Par("spare")>>, <<Use("amount")>>),
                  Fn("others", <<Par("buffer"), Par("x")>>, <<Var("y"), Use("y")>>)>>],
   declarations |->
     [planted |-> {"8.1", "8.2", "8.3", "8.4", "8.7", "8.8", "8.9", "8.10", "8.11", "8.14"}, macros |-> NoMacros,
      trees |-> <<WithProps(Var("implicit"), Flags({"implicit_type", "declaration_incompatible"})), Var("implicit"),
                  Mark(Tree("FunctionDecl", "name" :> "proto", <<Leaf("ParmVarDecl")>>), "is_inline"),
                  WithProps(Var("twice"), "storage_class" :> "static"), Var("twice"),
                  WithType(WithProps(Var("array"), ("linkage" :> "external") @@ Flags({"missing_array_size"})),
                           ("is_array" :> "true") @@ ("qualifiers" :> {"restrict"})),
                  Fn("user", <<>>, <<Use("array")>>)>>],
   types |->
     [planted |-> {"2.3", "2.4", "5.6", "5.7", "6.1", "6.2", "8.12", "18.7", "19.2"}, macros |-> NoMacros,
      trees |-> <<Tree("TypedefDecl", "name" :> "word_t", <<>>), Tree("TypedefDecl", "name" :> "word_t", <<>>),
                  Tree("RecordDecl", ("name" :> "pair") @@ ("record_kind" :> "union"),
                       <<Tree("FieldDecl", ("bit_field_width" :> "1") @@ Flags({"is_bit_field", "bit_field_is_signed", "is_flexible_array_member"}), <<>>)>>),
                  Tree("EnumDecl", "name" :> "pair",
                       <<Tree("EnumConstantDecl", ("enumerator_value" :> "1") @@ Flags({"is_implicit_enumerator"}), <<>>),
                         Tree("EnumConstantDecl", ("enumerator_value" :> "1") @@ Flags({"is_implicit_enumerator"}), <<>>)>>)>>],
   names |->
     [planted |-> {"5.1", "5.2", "5.3", "5.4", "5.5", "21.2"},
      macros |-> [NoMacros EXCEPT !.definitions = <<"name" :> LongNameOrder[1], "name" :> LongNameOrder[2]>>],
      trees |-> <<Var(LongNameOrder[1]), Var(LongNameOrder[2]), Var("_RESERVED"),
                  Tree("RecordDecl", "name" :> "shape", <<>>), Var("shape"), Var("x_global"),
                  Fn("names", <<>>, <<Var("x_global"), Var("x")>>)>>],
   initialisers |->
     [planted |-> {"7.4", "9.2", "9.3", "9.4", "9.5", "13.1"}, macros |-> NoMacros,
      trees |-> <<Fn("initialisers", <<>>,
                     <<Tree("VarDecl", "name" :> "x", <<Leaf("StringLiteral")>>),
                       Tree("VarDecl", "name" :> "q",
                            <<Tree("InitListExpr", ("is_fully_bracketed" :> "false") @@ ("duplicate_designator" :> "false") @@ Flags({"is_array_initializer"}),
                                   <<Tree("IntegerLiteral", "designator_index" :> 1, <<>>), CallTo("f", <<>>),
                                     Tree("IntegerLiteral", "designator_index" :> 2, <<>>)>>)>>)>>)>>],
   conversions |->
     [planted |-> {"10.1", "10.2", "10.3", "10.4", "10.5", "10.6", "10.7", "10.8"}, macros |-> NoMacros,
      trees |-> <<Fn("conversions", <<>>,
                     <<Bin("+", OfType(Ref("x"), "char"), OfType(Ref("y"), "signed_int")),
                       Bin("-", OfType(Ref("x"), "boolean"), OfType(Ref("y"), "signed_int")),
                       Bin("=", OfType(Ref("x"), "signed_short"),
                           OfType(Mark(Bin("+", Lit, Lit), "is_composite_expression"), "signed_long")),
                       Bin("*", OfType(Tree("CStyleCastExpr", NoProps,
                                            <<OfType(Mark(Bin("+", Lit, Lit), "is_composite_expression"), "unsigned_short")>>), "double"),
                           OfType(Ref("y"), "signed_int"))>>)>>],
   casts |->
     [planted |-> {"11.1", "11.2", "11.3", "11.4", "11.5", "11.6", "11.7", "11.8", "11.9"}, macros |-> NoMacros,
      trees |-> <<Fn("casts", <<>>,
                     <<WithType(Tree("CStyleCastExpr", Flags({"removes_qualifier", "removed_qualifiers", "converts_to_incomplete"}),
                                     <<WithType(Ref("p"), PointerTo("int"))>>), PointerTo("long")),
                       WithType(Tree("CStyleCastExpr", NoProps, <<WithType(Ref("q"), PointerTo("void"))>>), PointerTo("long")),
                       WithType(Tree("CStyleCastExpr", NoProps, <<WithType(WithProps(Lit, "value" :> "0"), "is_integer" :> "true")>>), PointerTo("int")),
                       OfType(Tree("CStyleCastExpr", NoProps, <<WithType(Ref("p"), PointerTo("void"))>>), "double"),
                       WithType(Tree("CStyleCastExpr", NoProps, <<Ref("p")>>), "spelling" :> "int (*)(int)")>>)>>],
   pointers |->
     [planted |-> {"18.1", "18.2", "18.3", "18.4", "19.1"}, macros |-> NoMacros,
      trees |-> <<Fn("pointers", <<>>,
                     <<Bin("=", Ref("p"), Un("&", Ref("x"))), Bin("=", Ref("q"), Ref("p")),
                       CallTo("memcpy", <<Ref("p"), Ref("q")>>),
                       Mark(Bin("-", WithType(Ref("p"), PointerTo("int")), WithType(Ref("q"), PointerTo("long"))),
                            "pointer_arithmetic_out_of_bounds"),
                       Bin("<", WithType(Ref("p"), PointerTo("int")), WithType(Ref("q"), PointerTo("long")))>>)>>],
   expressions |->
     [planted |-> {"1.3", "4.1", "7.1", "7.2", "7.3", "12.1", "12.2", "12.3", "12.4", "12.5", "13.2", "13.3", "13.5", "13.6",
                   "17.3", "17.5", "17.7"}, macros |-> NoMacros,
      trees |-> <<Fn("expressions", <<>>,
                     <<WithProps(Bin("<<", Lit, Lit), ("shift_amount" :> 8) @@ ("shift_width" :> 8)
                                  @@ Flags({"undefined_behaviour", "needs_explicit_parentheses", "wraps_on_evaluation", "is_constant_unsigned"})),
                       WithProps(Bin(",", Leaf("StringLiteral"), Un("++", Ref("x"))), Flags({"unordered_evaluation"})),
                       Bin("&&", Tree("StringLiteral", Flags({"unterminated_escape"}), <<>>), Set("x")),
                       Bin("+", Un("++", Ref("x")), Un("--", Ref("y"))),
                       Mark(Un("sizeof", Set("x")), "sizeof_operand_is_decayed_array"),
                       OfType(Tree("IntegerLiteral", ("literal_base" :> "octal") @@ Flags({"missing_u_suffix", "uses_lowercase_l_suffix"}), <<>>), "unsigned_int"),
                       WithProps(CallTo("f", <<>>), Flags({"implicit_declaration", "call_argument_shape_mismatch", "has_non_void_return"}))>>)>>],
   library |->
     [planted |-> {"17.1", "21.3", "21.6", "21.7", "21.8", "21.9", "21.13", "21.14", "21.15", "21.16", "21.17", "21.18", "21.19", "21.20",
                   "21.21", "22.1", "22.2", "22.3", "22.4", "22.5", "22.6", "22.7", "22.8", "22.9", "22.10"}, macros |-> NoMacros,
      trees |-> <<Fn("library", <<>>,
                     <<CallTo("va_start", <<>>), CallTo("malloc", <<>>), CallTo("atoi", <<>>), CallTo("system", <<>>), CallTo("qsort", <<>>),
                       Mark(CallTo("isdigit", <<>>), "argument_may_be_negative_char"),
                       WithProps(CallTo("memcmp", <<Mark(Ref("x"), "invalid_pointer_argument"), Mark(Ref("y"), "returned_pointer_missing_const")>>),
                                 Flags({"compares_null_terminated_strings", "incompatible_pointer_args"})),
                       Mark(CallTo("strcpy", <<>>), "string_buffer_overflow"), Mark(CallTo("memset", <<>>), "size_exceeds_destination"),
                       Bin("=", Ref("q"), CallTo("fopen", <<>>)), CallTo("strtok", <<Ref("q")>>),
                       WithProps(CallTo("fclose", <<Ref("q")>>),
                                 Flags({"requires_errno_clear", "dynamic_resource_leak", "double_release", "concurrent_stream_access",
                                        "writes_to_readonly_stream"})),
                       Un("*", WithType(Ref("q"), PointerTo("FILE"))),
                       WithProps(Bin("==", Lit, Lit), Flags({"eof_operand_modified", "errno_tested_without_failure_check"})),
                       Tree("CompoundStmt", Flags({"errno_not_tested"}), <<>>)>>)>>],
   definitions |->
     [planted |-> {"2.5", "20.4", "20.6", "20.7", "20.10", "20.11", "20.12", "21.1"}, trees |-> <<>>,
      macros |-> [NoMacros EXCEPT !.definitions =
        <<("name" :> "__reserved") @@ ("value" :> "a + b") @@ Flags({"is_function_like", "invalid_preprocessor_tokens"}),
          ("name" :> "while") @@ Flags({"uses_stringify", "stringify_param_unparenthesized_operator", "param_mixed_stringify_and_paste"})>>]],
   directives |->
     [planted |-> {"17.1", "20.1", "20.2", "20.3", "20.5", "20.8", "20.9", "20.13", "20.14", "21.4", "21.5", "21.10", "21.11", "21.12"},
      trees |-> <<>>,
      macros |-> [NoMacros EXCEPT
        !.includes = <<("header" :> "\"quoted.h\"") @@ Flags({"preceded_by_non_preprocessor", "invalid_syntax"}), "header" :> "<time.h>",
                       "header" :> "setjmp.h", "header" :> "signal.h", "header" :> "tgmath.h", "header" :> "fenv.h", "header" :> "stdarg.h">>,
        !.conditionals = <<("directive" :> "if") @@ ("condition" :> "X") @@ Flags({"non_boolean_controlling_expression", "undefined_identifiers"})>>,
        !.undefs = <<"name" :> "X">>,
        !.directives = <<("directive" :> "#pragma") @@ Flags({"invalid_form"})>>]]]

Fixtures == {D0(n) : n \in DOMAIN Fixture}
FixtureProject ==
  [units |-> {"a"}, pool |-> Fixtures, limit |-> 2, enabled |-> {}, independent |-> TRUE, executable |-> FALSE]

-----------------------------------------------------------------------------
(* Names several units use, and calls between them. *)
Static(t) == WithProps(t, "storage_class" :> "static")
Spelled(t, spelling) == WithType(t, "spelling" :> spelling)
Calls(f, callees) == Fn(f, <<>>, [k \in DOMAIN callees |-> CallTo(callees[k], <<>>)])
Declare(f) == Tree("FunctionDecl", "name" :> f, <<>>)

Shared ==
  ("int f() { g(); }"        :> <<Spelled(Calls("f", <<"g">>), "int (void)")>>) @@
  ("int g() { h(); f(); }"   :> <<Spelled(Calls("g", <<"h", "f">>), "int (void)")>>) @@
  ("static int f() { f(); }" :> <<Static(Calls("f", <<"f">>))>>) @@
  ("static int g() { }"      :> <<Static(Calls("g", <<>>))>>) @@
  ("int f();"                :> <<Spelled(Declare("f"), "int (void)")>>) @@
  ("long f();"               :> <<Spelled(Declare("f"), "long (void)")>>) @@
  ("int front;"              :> <<Var(LongNameOrder[1])>>) @@
  ("int rear;"               :> <<Var(LongNameOrder[2])>>)
SharedConstructs == {D0(n) : n \in DOMAIN Shared}
LinkageProject ==
  [units |-> {"a", "b", "c"}, pool |-> SharedConstructs, limit |-> 3,
   enabled |-> {"5.1", "5.8", "5.9", "8.4", "8.5", "8.6", "8.7", "17.2"},
   independent |-> FALSE, executable |-> FALSE]

(* One unit, three functions, each calling up to two of them. *)
CallTriples == {"f", "g", "h"} \X {<<>>, <<"f">>, <<"g">>, <<"h">>, <<"f", "g">>, <<"g", "h">>, <<"h", "f">>}
CallConstruct(t) == D("calls", <<D0(t[1])>> \o [k \in DOMAIN t[2] |-> D0(t[2][k])])
CallConstructs == {CallConstruct(t) : t \in CallTriples}
CallProject ==
  [units |-> {"a"}, pool |-> CallConstructs, limit |-> 3, enabled |-> {"17.2"},
   independent |-> FALSE, executable |-> FALSE]

Construct(trees) == [trees |-> trees, macros |-> NoMacros, planted |-> {}]
MCProjects == [programs |-> ProgramProject, fixtures |-> FixtureProject, linkage |-> LinkageProject, calls |-> CallProject]
MCCode(d) ==
  CASE d \in Fixtures         -> Fixture[d.op]
    [] d \in SharedConstructs -> Construct(Shared[d.op])
    [] d.op = "calls"         -> Construct(<<Calls(d.args[1].op, [k \in 1 .. Len(d.args) - 1 |-> d.args[k + 1].op])>>)
    [] OTHER                  -> Construct(<<IntFn("program", [k \in DOMAIN d.args |-> Stmt(d.args[k])])>>)
=============================================================================
