--------------------------- MODULE MCDirectReports ---------------------------
(***************************************************************************)
(* Small instances of DirectReports for TLC, over the DNs of               *)
(* MCReportingTree.                                                        *)
(***************************************************************************)
EXTENDS DirectReports

CONSTANTS r, R, a, b, c

MCFold == [x \in DN |-> IF x = R THEN r ELSE x]
MCOneManager == {M \in SUBSET Id : Cardinality(M) <= 1}
MCNamed == {{}, {r}, {r, a}}
=============================================================================
