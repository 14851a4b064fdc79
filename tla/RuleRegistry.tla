---------------------------- MODULE RuleRegistry ----------------------------
(* The registered rules (manifest.yaml, registry.py) and what one unit's     *)
(* detect() calls report (rule_base.py make_result, fingerprint.py).         *)
(*                                                                           *)
(* A unit is a record: tu, its identifier; g, its graph; macros, its macro   *)
(* table.  A finding is what its fingerprint is made of: the rule, the path  *)
(* of node ids down to the node, and the offending text.                     *)
EXTENDS RulesControlFlow, RulesDeclarations, RulesExpressions, RulesLibrary

(* Rules that report nodes, and rules that report text of the preprocessor.  *)
(* Rule 17.1 does both.                                                      *)
NodeRules ==
    {"1.3", "2.1", "2.2", "2.3", "2.4", "2.6", "2.7", "4.1", "5.1", "5.2", "5.3", "5.5", "5.6",
     "5.7", "5.8", "5.9", "6.1", "6.2", "7.1", "7.2", "7.3", "7.4", "8.1", "8.2", "8.3", "8.4",
     "8.5", "8.6", "8.7", "8.8", "8.9", "8.10", "8.11", "8.12", "8.13", "8.14", "9.1", "9.2",
     "9.3", "9.4", "9.5", "10.1", "10.2", "10.3", "10.4", "10.5", "10.6", "10.7", "10.8", "11.1",
     "11.2", "11.3", "11.4", "11.5", "11.6", "11.7", "11.8", "11.9", "12.1", "12.2", "12.3",
     "12.4", "12.5", "13.1", "13.2", "13.3", "13.4", "13.5", "13.6", "14.1", "14.2", "14.3",
     "14.4", "15.1", "15.2", "15.3", "15.4", "15.5", "15.6", "15.7", "16.1", "16.2", "16.3",
     "16.4", "16.5", "16.6", "16.7", "17.1", "17.2", "17.3", "17.4", "17.5", "17.6", "17.7",
     "17.8", "18.1", "18.2", "18.3", "18.4", "18.5", "18.6", "18.7", "18.8", "19.1", "19.2",
     "21.2", "21.3", "21.6", "21.7", "21.8", "21.9", "21.13", "21.14", "21.15", "21.16", "21.17",
     "21.18", "21.19", "21.20", "21.21", "22.1", "22.2", "22.3", "22.4", "22.5", "22.6", "22.7",
     "22.8", "22.9", "22.10"}
MacroRules ==
    {"2.5", "5.4", "20.1", "20.2", "20.3", "20.4", "20.5", "20.6", "20.7", "20.8", "20.9",
     "20.10", "20.11", "20.12", "20.13", "20.14", "21.1", "21.4", "21.5", "21.10", "21.11",
     "21.12", "17.1"}
AllRules == NodeRules \cup MacroRules

MacroNames(M) == {Get(m, "name") : m \in Entries(M.definitions)}

DetectNodes(r, u, L) ==
    CASE r = "1.3" -> Rule1_3(u.g) [] r = "2.1" -> Rule2_1(u.g) [] r = "2.2" -> Rule2_2(u.g)
      [] r = "2.3" -> Rule2_3(u.g) [] r = "2.4" -> Rule2_4(u.g) [] r = "2.6" -> Rule2_6(u.g)
      [] r = "2.7" -> Rule2_7(u.g) [] r = "4.1" -> Rule4_1(u.g) [] r = "5.1" -> Rule5_1(u.g, L)
      [] r = "5.2" -> Rule5_2(u.g) [] r = "5.3" -> Rule5_3(u.g)
      [] r = "5.5" -> Rule5_5(u.g, MacroNames(u.macros)) [] r = "5.6" -> Rule5_6(u.g)
      [] r = "5.7" -> Rule5_7(u.g) [] r = "5.8" -> Rule5_8(u.g, L)
      [] r = "5.9" -> Rule5_9(u.g, u.tu, L) [] r = "6.1" -> Rule6_1(u.g)
      [] r = "6.2" -> Rule6_2(u.g) [] r = "7.1" -> Rule7_1(u.g) [] r = "7.2" -> Rule7_2(u.g)
      [] r = "7.3" -> Rule7_3(u.g) [] r = "7.4" -> Rule7_4(u.g) [] r = "8.1" -> Rule8_1(u.g)
      [] r = "8.2" -> Rule8_2(u.g) [] r = "8.3" -> Rule8_3(u.g) [] r = "8.4" -> Rule8_4(u.g, L)
      [] r = "8.5" -> Rule8_5(u.g, u.tu, L) [] r = "8.6" -> Rule8_6(u.g, L)
      [] r = "8.7" -> Rule8_7(u.g, u.tu, L) [] r = "8.8" -> Rule8_8(u.g)
      [] r = "8.9" -> Rule8_9(u.g) [] r = "8.10" -> Rule8_10(u.g) [] r = "8.11" -> Rule8_11(u.g)
      [] r = "8.12" -> Rule8_12(u.g) [] r = "8.13" -> Rule8_13(u.g) [] r = "8.14" -> Rule8_14(u.g)
      [] r = "9.1" -> Rule9_1(u.g) [] r = "9.2" -> Rule9_2(u.g) [] r = "9.3" -> Rule9_3(u.g)
      [] r = "9.4" -> Rule9_4(u.g) [] r = "9.5" -> Rule9_5(u.g) [] r = "10.1" -> Rule10_1(u.g)
      [] r = "10.2" -> Rule10_2(u.g) [] r = "10.3" -> Rule10_3(u.g) [] r = "10.4" -> Rule10_4(u.g)
      [] r = "10.5" -> Rule10_5(u.g) [] r = "10.6" -> Rule10_6(u.g) [] r = "10.7" -> Rule10_7(u.g)
      [] r = "10.8" -> Rule10_8(u.g) [] r = "11.1" -> Rule11_1(u.g) [] r = "11.2" -> Rule11_2(u.g)
      [] r = "11.3" -> Rule11_3(u.g) [] r = "11.4" -> Rule11_4(u.g) [] r = "11.5" -> Rule11_5(u.g)
      [] r = "11.6" -> Rule11_6(u.g) [] r = "11.7" -> Rule11_7(u.g) [] r = "11.8" -> Rule11_8(u.g)
      [] r = "11.9" -> Rule11_9(u.g) [] r = "12.1" -> Rule12_1(u.g) [] r = "12.2" -> Rule12_2(u.g)
      [] r = "12.3" -> Rule12_3(u.g) [] r = "12.4" -> Rule12_4(u.g) [] r = "12.5" -> Rule12_5(u.g)
      [] r = "13.1" -> Rule13_1(u.g) [] r = "13.2" -> Rule13_2(u.g) [] r = "13.3" -> Rule13_3(u.g)
      [] r = "13.4" -> Rule13_4(u.g) [] r = "13.5" -> Rule13_5(u.g) [] r = "13.6" -> Rule13_6(u.g)
      [] r = "14.1" -> Rule14_1(u.g) [] r = "14.2" -> Rule14_2(u.g) [] r = "14.3" -> Rule14_3(u.g)
      [] r = "14.4" -> Rule14_4(u.g) [] r = "15.1" -> Rule15_1(u.g) [] r = "15.2" -> Rule15_2(u.g)
      [] r = "15.3" -> Rule15_3(u.g) [] r = "15.4" -> Rule15_4(u.g) [] r = "15.5" -> Rule15_5(u.g)
      [] r = "15.6" -> Rule15_6(u.g) [] r = "15.7" -> Rule15_7(u.g) [] r = "16.1" -> Rule16_1(u.g)
      [] r = "16.2" -> Rule16_2(u.g) [] r = "16.3" -> Rule16_3(u.g) [] r = "16.4" -> Rule16_4(u.g)
      [] r = "16.5" -> Rule16_5(u.g) [] r = "16.6" -> Rule16_6(u.g) [] r = "16.7" -> Rule16_7(u.g)
      [] r = "17.1" -> Rule17_1(u.g) [] r = "17.2" -> Rule17_2(u.g, L)
      [] r = "17.3" -> Rule17_3(u.g) [] r = "17.4" -> Rule17_4(u.g) [] r = "17.5" -> Rule17_5(u.g)
      [] r = "17.6" -> Rule17_6(u.g) [] r = "17.7" -> Rule17_7(u.g) [] r = "17.8" -> Rule17_8(u.g)
      [] r = "18.1" -> Rule18_1(u.g) [] r = "18.2" -> Rule18_2(u.g) [] r = "18.3" -> Rule18_3(u.g)
      [] r = "18.4" -> Rule18_4(u.g) [] r = "18.5" -> Rule18_5(u.g) [] r = "18.6" -> Rule18_6(u.g)
      [] r = "18.7" -> Rule18_7(u.g) [] r = "18.8" -> Rule18_8(u.g) [] r = "19.1" -> Rule19_1(u.g)
      [] r = "19.2" -> Rule19_2(u.g) [] r = "21.2" -> Rule21_2(u.g) [] r = "21.3" -> Rule21_3(u.g)
      [] r = "21.6" -> Rule21_6(u.g) [] r = "21.7" -> Rule21_7(u.g) [] r = "21.8" -> Rule21_8(u.g)
      [] r = "21.9" -> Rule21_9(u.g) [] r = "21.13" -> Rule21_13(u.g)
      [] r = "21.14" -> Rule21_14(u.g) [] r = "21.15" -> Rule21_15(u.g)
      [] r = "21.16" -> Rule21_16(u.g) [] r = "21.17" -> Rule21_17(u.g)
      [] r = "21.18" -> Rule21_18(u.g) [] r = "21.19" -> Rule21_19(u.g)
      [] r = "21.20" -> Rule21_20(u.g) [] r = "21.21" -> Rule21_21(u.g)
      [] r = "22.1" -> Rule22_1(u.g) [] r = "22.2" -> Rule22_2(u.g) [] r = "22.3" -> Rule22_3(u.g)
      [] r = "22.4" -> Rule22_4(u.g) [] r = "22.5" -> Rule22_5(u.g) [] r = "22.6" -> Rule22_6(u.g)
      [] r = "22.7" -> Rule22_7(u.g) [] r = "22.8" -> Rule22_8(u.g) [] r = "22.9" -> Rule22_9(u.g)
      [] r = "22.10" -> Rule22_10(u.g)

DetectText(r, u) ==
    CASE r = "2.5" -> Rule2_5(u.macros) [] r = "5.4" -> Rule5_4(u.macros)
      [] r = "20.1" -> Rule20_1(u.macros) [] r = "20.2" -> Rule20_2(u.macros)
      [] r = "20.3" -> Rule20_3(u.macros) [] r = "20.4" -> Rule20_4(u.macros)
      [] r = "20.5" -> Rule20_5(u.macros) [] r = "20.6" -> Rule20_6(u.macros)
      [] r = "20.7" -> Rule20_7(u.macros) [] r = "20.8" -> Rule20_8(u.macros)
      [] r = "20.9" -> Rule20_9(u.macros) [] r = "20.10" -> Rule20_10(u.macros)
      [] r = "20.11" -> Rule20_11(u.macros) [] r = "20.12" -> Rule20_12(u.macros)
      [] r = "20.13" -> Rule20_13(u.macros) [] r = "20.14" -> Rule20_14(u.macros)
      [] r = "21.1" -> Rule21_1(u.macros) [] r = "21.4" -> Rule21_4(u.macros)
      [] r = "21.5" -> Rule21_5(u.macros) [] r = "21.10" -> Rule21_10(u.macros)
      [] r = "21.11" -> Rule21_11(u.macros) [] r = "21.12" -> Rule21_12(u.macros)
      [] r = "17.1" -> Rule17_1Headers(u.macros)

(* The results of one rule on one unit. *)
MakeResult(r, u, node) == [rule |-> r, path |-> NodePath(u.g, node), text |-> OffendingText(u.g, node)]
TextResult(r, text) == [rule |-> r, path |-> <<>>, text |-> text]

Detect(r, u, L) ==
    (IF r \in NodeRules THEN {MakeResult(r, u, n) : n \in DetectNodes(r, u, L)} ELSE {})
    \cup (IF r \in MacroRules THEN {TextResult(r, t) : t \in DetectText(r, u)} ELSE {})

(* select_rules: no list of enabled rules means all of them; unknown ones    *)
(* are skipped.                                                              *)
SelectRules(enabled) == IF enabled = {} THEN AllRules ELSE enabled \cap AllRules

(* execute(): the results of the selected rules; equal fingerprints are one. *)
Execute(u, L, enabled) == UNION {Detect(r, u, L) : r \in SelectRules(enabled)}
=============================================================================
