--------------------------- MODULE MCIncludeClosure ---------------------------
(* The work list on every include graph over three paths, two of them      *)
(* translation units and one a header.                                     *)
EXTENDS IncludeClosure

===============================================================================
