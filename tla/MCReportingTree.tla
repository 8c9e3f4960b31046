--------------------------- MODULE MCReportingTree ---------------------------
(***************************************************************************)
(* Small instances of ReportingTree for TLC.  The DNs r and a have a second *)
(* spelling, R and A; every other DN has one.                              *)
(***************************************************************************)
EXTENDS ReportingTree, FiniteSetsExt

CONSTANTS r, R, a, A, b, c, d

MCFold == [x \in DN |-> CASE x = R -> r [] x = A -> a [] OTHER -> x]

\* A user has at most one manager, or may have one of two pairs of managers.
MCOneManager == {M \in SUBSET Id : Cardinality(M) <= 1}
MCTwoManagers == MCOneManager \cup {{a, b}, {r, c}}

\* The username is held by r alone, by nobody, or by r and a.
MCNamed == {{}, {r}, {r, a}}
\* The username is held by r alone.
MCNamedOnce == {{r}}
=============================================================================
