---------------------------- MODULE FragmentProofs ---------------------------
(***************************************************************************)
(* Proof that the scan of Fragment decides what a single clause is, for    *)
(* fragments of any length.  The inductive invariant relates `depth' to    *)
(* the parentheses seen so far; the reference definition counts them.      *)
(***************************************************************************)
EXTENDS Fragment, FiniteSetTheorems, TLAPS

\* The characters c among the first n of s.
Places(s, c, n) == {i \in 1..n : s[i] = c}

\* Counting one character more.
LEMMA CountNext ==
    ASSUME NEW s, NEW c, NEW n \in Nat
    PROVE  /\ Cardinality(Places(s, c, n)) \in Nat
           /\ s[n + 1] = c =>
                Cardinality(Places(s, c, n + 1)) = Cardinality(Places(s, c, n)) + 1
           /\ s[n + 1] # c => Places(s, c, n + 1) = Places(s, c, n)
<1>1. IsFiniteSet(1..n)
  BY FS_Interval
<1>2. IsFiniteSet(Places(s, c, n))
  BY <1>1, FS_Subset DEF Places
<1>3. Cardinality(Places(s, c, n)) \in Nat
  BY <1>2, FS_CardinalityType
<1>4. ASSUME s[n + 1] = c
      PROVE  Cardinality(Places(s, c, n + 1)) = Cardinality(Places(s, c, n)) + 1
  <2>1. Places(s, c, n + 1) = Places(s, c, n) \cup {n + 1}
    BY <1>4 DEF Places
  <2>2. n + 1 \notin Places(s, c, n)
    BY DEF Places
  <2> QED
    BY <1>2, <2>1, <2>2, FS_AddElement
<1>5. ASSUME s[n + 1] # c
      PROVE  Places(s, c, n + 1) = Places(s, c, n)
  BY <1>5 DEF Places
<1> QED
  BY <1>3, <1>4, <1>5

\* The two counts of the reference definition, one character further.
LEMMA OpensNext ==
    ASSUME NEW s, NEW n \in Nat
    PROVE  /\ Opens(s, n) \in Nat
           /\ s[n + 1] = "(" => Opens(s, n + 1) = Opens(s, n) + 1
           /\ s[n + 1] # "(" => Opens(s, n + 1) = Opens(s, n)
<1>1. \A k : Opens(s, k) = Cardinality(Places(s, "(", k))
  BY DEF Opens, Places
<1> QED
  BY <1>1, CountNext

LEMMA ClosesNext ==
    ASSUME NEW s, NEW n \in Nat
    PROVE  /\ Closes(s, n) \in Nat
           /\ s[n + 1] = ")" => Closes(s, n + 1) = Closes(s, n) + 1
           /\ s[n + 1] # ")" => Closes(s, n + 1) = Closes(s, n)
<1>1. \A k : Closes(s, k) = Cardinality(Places(s, ")", k))
  BY DEF Closes, Places
<1> QED
  BY <1>1, CountNext

\* Nothing has been counted before the first character.
LEMMA CountNone ==
    ASSUME NEW s
    PROVE  Opens(s, 0) = 0 /\ Closes(s, 0) = 0
<1>1. {i \in 1..0 : s[i] = "("} = {} /\ {i \in 1..0 : s[i] = ")"} = {}
  OBVIOUS
<1> QED
  BY <1>1, FS_EmptySet DEF Opens, Closes

-----------------------------------------------------------------------------
\* While the scan goes on, `depth' is what is open, and something has been at
\* every place before the end.
Scanned ==
    verdict = "scanning" =>
        /\ depth = Opens(fragment, position) - Closes(fragment, position)
        /\ position > 0 => Shaped(fragment)
        /\ position > 0 /\ position < Len(fragment) => depth > 0
        /\ \A n \in 1..position :
             n < Len(fragment) => Opens(fragment, n) > Closes(fragment, n)

IInv == TypeOK /\ Scanned /\ Decides

LEMMA IsSeq == ASSUME TypeOK PROVE fragment \in Seq(Char) /\ Len(fragment) \in Nat
BY FragmentAssumption DEF TypeOK

LEMMA InitInv == ASSUME Init PROVE IInv
<1>1. fragment \in Seq(Char)
  BY FragmentAssumption DEF Init
<1> QED
  BY <1>1, CountNone DEF Init, IInv, TypeOK, Scanned, Decides

LEMMA RefuseShapeInv == ASSUME IInv, RefuseShape PROVE IInv'
BY IsSeq DEF IInv, TypeOK, RefuseShape, Scanned, Decides, Shaped, OneClause

LEMMA LookInv == ASSUME IInv, Look PROVE IInv'
<1> DEFINE n == position + 1
<1> DEFINE char == fragment[n]
<1>1. /\ fragment \in Seq(Char) /\ Len(fragment) \in Nat /\ fragment' = fragment
      /\ position \in Nat /\ n \in 1..Len(fragment) /\ position' = n
      /\ depth \in Nat /\ verdict = "scanning" /\ Shaped(fragment)
  BY IsSeq DEF IInv, TypeOK, Look
<1>2. /\ depth = Opens(fragment, position) - Closes(fragment, position)
      /\ position > 0 => depth > 0
      /\ \A k \in 1..position : Opens(fragment, k) > Closes(fragment, k)
  BY <1>1 DEF IInv, Scanned, TypeOK, Look
<1>3. char \in Char /\ (position = 0 => char = "(")
  BY <1>1 DEF Shaped
<1>4. /\ Opens(fragment, n) \in Nat /\ Closes(fragment, n) \in Nat
      /\ Opens(fragment, position) \in Nat /\ Closes(fragment, position) \in Nat
  BY <1>1, OpensNext, ClosesNext
<1>5. depth' = Opens(fragment, n) - Closes(fragment, n)
  <2>1. CASE char = "("
    BY <1>1, <1>2, <1>4, <2>1, OpensNext, ClosesNext DEF Look, Behind
  <2>2. CASE char = ")"
    BY <1>1, <1>2, <1>4, <2>2, OpensNext, ClosesNext DEF Look, Behind
  <2>3. CASE char = "x"
    BY <1>1, <1>2, <1>4, <2>3, OpensNext, ClosesNext DEF Look, Behind
  <2> QED
    BY <1>3, <2>1, <2>2, <2>3 DEF Char
<1>6. depth' \in Nat /\ (depth' = 0 => char = ")")
  BY <1>1, <1>2, <1>3 DEF Look, Behind, Char
<1>7. CASE ClosesEarly(n, depth')
  <2>1. verdict' = "refused" /\ depth' = 0 /\ n < Len(fragment)
    BY <1>1, <1>7 DEF Look, ClosesEarly
  <2>2. ~ OneClause(fragment)
    BY <1>1, <1>4, <1>5, <2>1 DEF OneClause
  <2> QED
    BY <1>1, <1>6, <2>1, <2>2 DEF IInv, TypeOK, Scanned, Decides
<1>8. CASE ~ ClosesEarly(n, depth')
  <2>1. verdict' = "scanning"
    BY <1>1, <1>8 DEF Look
  <2>2. n < Len(fragment) => depth' > 0
    BY <1>1, <1>6, <1>8 DEF ClosesEarly
  <2>3. \A k \in 1..n : k < Len(fragment) => Opens(fragment, k) > Closes(fragment, k)
    BY <1>1, <1>2, <1>4, <1>5, <2>2
  <2> QED
    BY <1>1, <1>5, <1>6, <2>1, <2>2, <2>3 DEF IInv, TypeOK, Scanned, Decides
<1> QED
  BY <1>7, <1>8

LEMMA DecideInv == ASSUME IInv, Decide PROVE IInv'
<1>1. /\ fragment \in Seq(Char) /\ Len(fragment) \in Nat /\ Len(fragment) >= 3
      /\ position = Len(fragment)
      /\ verdict = "scanning" /\ Shaped(fragment)
      /\ UNCHANGED <<fragment, position, depth>>
  BY IsSeq DEF IInv, Decide, Shaped
<1>2. /\ depth = Opens(fragment, Len(fragment)) - Closes(fragment, Len(fragment))
      /\ \A n \in 1..(Len(fragment) - 1) : Opens(fragment, n) > Closes(fragment, n)
  BY <1>1 DEF IInv, Scanned
<1>3. Opens(fragment, Len(fragment)) \in Nat /\ Closes(fragment, Len(fragment)) \in Nat
  BY <1>1, OpensNext, ClosesNext
<1>4. depth = 0 <=> OneClause(fragment)
  BY <1>1, <1>2, <1>3 DEF OneClause, Shaped
<1> QED
  BY <1>1, <1>4 DEF IInv, TypeOK, Scanned, Decides, Decide

LEMMA Inductive == ASSUME IInv, [Next]_vars PROVE IInv'
<1>1. CASE RefuseShape
  BY <1>1, RefuseShapeInv
<1>2. CASE Look
  BY <1>2, LookInv
<1>3. CASE Decide
  BY <1>3, DecideInv
<1>4. CASE UNCHANGED vars
  BY <1>4 DEF vars, IInv, TypeOK, Scanned, Decides
<1> QED
  BY <1>1, <1>2, <1>3, <1>4 DEF Next

-----------------------------------------------------------------------------
\* The depth is never negative: valid_fragment stops before it could be.
THEOREM TypeCorrect == Spec => []TypeOK
<1>1. Init => IInv
  BY InitInv
<1>2. IInv /\ [Next]_vars => IInv'
  BY Inductive
<1>3. IInv => TypeOK
  BY DEF IInv
<1> QED
  BY <1>1, <1>2, <1>3, PTL DEF Spec

\* valid_fragment accepts exactly the single clauses, of any length.
THEOREM ScanDecides == Spec => []Decides
<1>1. Init => IInv
  BY InitInv
<1>2. IInv /\ [Next]_vars => IInv'
  BY Inductive
<1>3. IInv => Decides
  BY DEF IInv
<1> QED
  BY <1>1, <1>2, <1>3, PTL DEF Spec
=============================================================================
