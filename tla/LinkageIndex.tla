---------------------------- MODULE LinkageIndex ----------------------------
(* What LinkageIndex knows of the file-scope names of a run's units.         *)
(*                                                                           *)
(* Identifiers are opaque.  What the code compares of two of them is their   *)
(* first 31 characters: Significant gives the group an identifier falls in.  *)
EXTENDS AstNodes

LongNameOrder == <<"sensor_calibration_coefficient_table_front",     \* in sorted order
                   "sensor_calibration_coefficient_table_rear">>
LongNames == Range(LongNameOrder)
Significant(name) ==
    IF name \in LongNames THEN "sensor_calibration_coefficient_" ELSE name

(* Pairs of different names that agree on their significant characters.  The *)
(* same code stands in SymbolIndex, LinkageIndex and MacroAnalyzer.          *)
DuplicateNamesWithin(names) ==
    {{p[1], p[2]} : p \in {p \in names \X names : p[1] # p[2] /\ Significant(p[1]) = Significant(p[2])}}

-----------------------------------------------------------------------------
LinkageKinds == {"FunctionDecl", "VarDecl"}
StorageClass(g, i, default) == IF Flag(g, i, "storage_class") THEN Prop(g, i, "storage_class") ELSE default

(* LinkageIndex.build over the units handed to it, each [tu, g]: one         *)
(* occurrence per file-scope function or variable.  Nothing of an occurrence *)
(* but these fields is compared, so a set of them will do.                   *)
FunctionHasBody(g, i) == Kind(g, i) = "FunctionDecl" /\ HasBody(g, i)

Occurrence(u, i) ==
    [name |-> Name(u.g, i), tu |-> u.tu, storage |-> StorageClass(u.g, i, "external"),
     body |-> FunctionHasBody(u.g, i), spelling |-> Type(u.g, i, "spelling")]

Occurrences(units) ==
    UNION {LET u == units[k]
           IN  {Occurrence(u, i) : i \in {i \in NodesOfKinds(u.g, LinkageKinds) :
                                            Name(u.g, i) # "" /\ IsFileScope(u.g, i)}} :
              k \in DOMAIN units}

LinkageNames(L) == {o.name : o \in L.symbols}
ExternalOccurrences(L, name) == {o \in L.symbols : o.name = name /\ o.storage # "static"}
Definitions(L, name) == {o \in ExternalOccurrences(L, name) : o.body}
(* A plausible slip: one definition more is let through.                     *)
ManyDefinitions(L, name) == Cardinality({o.tu : o \in Definitions(L, name)}) > 2
HasMultipleDefinitions(L, name) == Cardinality({o.tu : o \in Definitions(L, name)}) > 1
HasIncompatibleTypes(L, name) == Cardinality({o.spelling : o \in ExternalOccurrences(L, name)} \ {""}) > 1
OccurrenceUnits(L, name) == {o.tu : o \in {o \in L.symbols : o.name = name}}
SingleTranslationUnit(L, name, tu) == OccurrenceUnits(L, name) = {tu}
InternalLinkageUnits(L, name) == {o.tu : o \in {o \in L.symbols : o.name = name /\ o.storage = "static"}}
(* A plausible slip: only names the run has no definition of.                *)
UndefinedExternalUnits(L, name) ==
    IF Definitions(L, name) # {} THEN {} ELSE {o.tu : o \in ExternalOccurrences(L, name)}
NonDefiningExternalUnits(L, name) == {o.tu : o \in {o \in ExternalOccurrences(L, name) : ~o.body}}
=============================================================================
