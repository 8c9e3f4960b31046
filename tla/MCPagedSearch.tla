---------------------------- MODULE MCPagedSearch ----------------------------
(***************************************************************************)
(* Small instances of PagedSearch for TLC.                                 *)
(***************************************************************************)
EXTENDS PagedSearch, Integers

CONSTANTS e1, e2, e3, e4

\* A cap islice refuses.
MCNegative == {-1}
\* The search base holds entries of no other kind than Entry, and None is no
\* number.
MCNoLimit == -2
=============================================================================
