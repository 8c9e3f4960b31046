---------------------------- MODULE MCGroupMembers ----------------------------
(***************************************************************************)
(* Small instances of GroupMembers for TLC: n1 and n2 are two places for a *)
(* group of the name n under the search base, n3 is one outside it, and m1 *)
(* is a place for a group of another name.                                 *)
(***************************************************************************)
EXTENDS GroupMembers

CONSTANTS n, m, n1, n2, n3, m1, g1, g2, u1

MCCN == [d \in DN |-> IF d = m1 THEN m ELSE n]
MCBase == DN \ {n3}
=============================================================================
