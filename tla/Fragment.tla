------------------------------- MODULE Fragment ------------------------------
(***************************************************************************)
(* filters.valid_fragment (src/adsearch/filters.py): the check of the raw  *)
(* filter a caller passes as extra_filter, before it is put between the    *)
(* clauses of find_users.  A fragment is a sequence of "(", ")" and other  *)
(* characters, all of which are "x".                                       *)
(***************************************************************************)
EXTENDS Integers, Sequences, FiniteSets

CONSTANT Fragments  \* the fragments a caller may pass

Char == {"(", ")", "x"}

ASSUME FragmentAssumption == Fragments \subseteq Seq(Char)

VARIABLES fragment,  \* the argument
          position,  \* how many characters the loop has looked at
          depth,     \* how many parentheses are open
          verdict    \* "scanning", "accepted" or "refused"

vars == <<fragment, position, depth, verdict>>

TypeOK ==
    /\ fragment \in Fragments
    /\ position \in 0..Len(fragment)
    /\ depth \in Nat
    /\ verdict \in {"scanning", "accepted", "refused"}

Init ==
    /\ fragment \in Fragments
    /\ position = 0
    /\ depth = 0
    /\ verdict = "scanning"

-----------------------------------------------------------------------------
\* Mutant: a lone pair of parentheses passes.
ShapedEvenEmpty(s) == Len(s) >= 2 /\ s[1] = "(" /\ s[Len(s)] = ")"
\* The checks before the loop.
Shaped(s) == Len(s) >= 3 /\ s[1] = "(" /\ s[Len(s)] = ")"

RefuseShape ==
    /\ verdict = "scanning" /\ position = 0
    /\ ~ Shaped(fragment)
    /\ verdict' = "refused"
    /\ UNCHANGED <<fragment, position, depth>>

\* The depth behind a character.
Behind(d, char) == CASE char = "(" -> d + 1
                     [] char = ")" -> d - 1
                     [] OTHER      -> d

\* Mutant: only the final depth is checked.
ClosesEarlyNever(n, d) == FALSE
\* The n-th character, after which the depth is d, closes the clause too early.
ClosesEarly(n, d) == fragment[n] = ")" /\ d = 0 /\ n # Len(fragment)

\* One iteration of the loop.
Look ==
    /\ verdict = "scanning"
    /\ Shaped(fragment)
    /\ position < Len(fragment)
    /\ position' = position + 1
    /\ depth' = Behind(depth, fragment[position'])
    /\ verdict' = IF ClosesEarly(position', depth') THEN "refused" ELSE "scanning"
    /\ UNCHANGED fragment

\* The check behind the loop.
Decide ==
    /\ verdict = "scanning"
    /\ Shaped(fragment)
    /\ position = Len(fragment)
    /\ verdict' = IF depth = 0 THEN "accepted" ELSE "refused"
    /\ UNCHANGED <<fragment, position, depth>>

Next == RefuseShape \/ Look \/ Decide

Spec == Init /\ [][Next]_vars

-----------------------------------------------------------------------------
Opens(s, n) == Cardinality({i \in 1..n : s[i] = "("})
Closes(s, n) == Cardinality({i \in 1..n : s[i] = ")"})

\* What a single clause is: something between two parentheses, of which the
\* first stays open until the last closes it.
OneClause(s) ==
    /\ Len(s) >= 3
    /\ s[1] = "(" /\ s[Len(s)] = ")"
    /\ \A n \in 1..(Len(s) - 1) : Opens(s, n) > Closes(s, n)
    /\ Opens(s, Len(s)) = Closes(s, Len(s))

\* The scan decides exactly that: a fragment that would be ANDed into the query
\* as two clauses, or leave a parenthesis open in it, is refused, and no single
\* clause is.
Decides ==
    /\ verdict = "accepted" => OneClause(fragment)
    /\ verdict = "refused" => ~ OneClause(fragment)
=============================================================================
