--------------------------- MODULE MCCompareRuns ---------------------------
(* Two fixtures, and one arm, two, or one that is named twice.               *)
EXTENDS CompareRuns

MCArmLists == { <<"baseline", "arm-b">>, <<"arm-b">>, <<"arm-b", "arm-b">> }
=============================================================================
