------------------------------ MODULE MCFragment -----------------------------
(***************************************************************************)
(* Fragment over every fragment of up to seven characters.                 *)
(***************************************************************************)
EXTENDS Fragment, SequencesExt

MCFragments == BoundedSeq(Char, 7)
=============================================================================
