--------------------------- MODULE BenchmarkProofs ---------------------------
(***************************************************************************)
(* Proofs about Benchmark, for every directory and any number of changes.  *)
(* Whatever changes, the shape walk keeps its books: those it has met are  *)
(* the manager and those it has counted or is about to count (Books).      *)
(* While nothing changes, a level is one more hop (AtDepth), which settles *)
(* size and depth at the end, and the two counts are those of Below with   *)
(* and without the manager (Counts).                                       *)
(***************************************************************************)
EXTENDS Benchmark, DirectoryProofs

\* Nothing is forgotten of the reporting lines, and while nothing changes there is
\* nothing to remember.
Lines ==
    /\ LinesOf(manager) \subseteq ever
    /\ changes = 0 => ever = LinesOf(manager) /\ always = LinesOf(manager)

\* What the part that is running tells.
Stages ==
    /\ status \in {"walk", "chain", "shape", "done"} => manager_dn \in Id
    /\ status \in {"resolve", "walk", "chain"} => seen = {}
    /\ status \in {"shape", "done"} => seen # {}
    /\ status = "done" => level = <<>> /\ new = <<>>
    /\ changes = 0 /\ status \in {"walk", "chain", "shape", "done"} => named = {manager_dn}

\* The books of the shape walk: everybody met but the manager is in a level counted or
\* in the new one, and a level that counts holds somebody.
Books ==
    IF seen = {} THEN level = <<>> /\ new = <<>> /\ size = 0 /\ depth = 0
    ELSE /\ manager_dn \in seen
         /\ seen \subseteq Below(manager_dn, ever)
         /\ Range(level) \cup Range(new) \subseteq seen
         /\ size + Len(new) = Cardinality(seen) - 1
         /\ depth <= size

\* While nothing changes, the two counts are about one set of lines.
Counts ==
    changes = 0 =>
        /\ status \in {"chain", "shape", "done"} =>
             walked = Cardinality(Below(manager_dn, LinesOf(manager)) \ {manager_dn})
        /\ status \in {"shape", "done"} => chained = Cardinality(Chained)

\* While nothing changes, the shape walk has met everybody `depth' hops below the
\* manager, and beyond these the new level, which is one hop further.
AtDepth ==
    changes = 0 /\ status \in {"shape", "done"} =>
        LET H == Hops(manager_dn) IN
        /\ seen = H[depth] \cup Range(new)
        /\ Range(level) \subseteq H[depth]
        /\ Range(new) \cap H[depth] = {}
        /\ Range(new) \subseteq ReportsOf(H[depth])
        /\ ReportsOf(H[depth] \ Range(level)) \subseteq seen
        /\ depth > 0 => H[depth - 1] # H[depth]

BInv == TypeOK /\ Lines /\ Stages /\ Books /\ Counts /\ AtDepth

-----------------------------------------------------------------------------
(* Lists *)

\* A finite set as a list: everybody in it, each once.
LEMMA SetToSeqLists ==
    ASSUME NEW S, IsFiniteSet(S), NEW T, S \subseteq T
    PROVE  /\ SetToSeq(S) \in Seq(T)
           /\ Len(SetToSeq(S)) = Cardinality(S)
           /\ Range(SetToSeq(S)) = S
<1> DEFINE n == Cardinality(S)
           f == SetToSeq(S)
<1>1. n \in Nat /\ ExistsBijection(1..n, S)
  BY FS_CardinalityType
<1>2. \E g \in [1..n -> S] : IsInjective(g)
  BY <1>1 DEF ExistsBijection, Bijection, Injection
<1>3. f \in [1..n -> S] /\ IsInjective(f)
  BY <1>2 DEF SetToSeq
<1>4. f \in Injection(1..n, S)
  BY <1>3 DEF Injection
<1>5. IsFiniteSet(1..n) /\ Cardinality(1..n) = n
  BY <1>1, FS_Interval
<1>6. f \in Surjection(1..n, S)
  BY <1>4, <1>5, FS_Injection
<1>7. Range(f) = S
  BY <1>3, <1>6 DEF Surjection, Range
<1> HIDE DEF f, n
<1>8. f \in Seq(T) /\ Len(f) = n
  BY <1>1, <1>3
<1> QED
  BY <1>7, <1>8 DEF f, n

\* The members of a list.
LEMMA RangeOfLists ==
    ASSUME NEW S
    PROVE  /\ Range(<<>>) = {}
           /\ \A s, t \in Seq(S) : Range(s \o t) = Range(s) \cup Range(t)
           /\ \A s \in Seq(S) : Range(s) \subseteq S
           /\ \A s \in Seq(S) : s # <<>> =>
                /\ Head(s) \in S
                /\ Tail(s) \in Seq(S)
                /\ Range(s) = {Head(s)} \cup Range(Tail(s))
<1>1. Range(<<>>) = {}
  BY DEF Range
<1>2. ASSUME NEW s \in Seq(S), NEW t \in Seq(S)
      PROVE  Range(s \o t) = Range(s) \cup Range(t)
  <2>1. \A i \in DOMAIN (s \o t) :
           \/ i \in DOMAIN s /\ (s \o t)[i] = s[i]
           \/ i - Len(s) \in DOMAIN t /\ (s \o t)[i] = t[i - Len(s)]
    OBVIOUS
  <2>2. \A i \in DOMAIN s : i \in DOMAIN (s \o t) /\ (s \o t)[i] = s[i]
    OBVIOUS
  <2>3. \A i \in DOMAIN t : /\ Len(s) + i \in DOMAIN (s \o t)
                            /\ (s \o t)[Len(s) + i] = t[i]
    OBVIOUS
  <2>4. Range(s \o t) \subseteq Range(s) \cup Range(t)
    BY <2>1 DEF Range
  <2>5. Range(s) \subseteq Range(s \o t)
    BY <2>2 DEF Range
  <2>6. ASSUME NEW i \in DOMAIN t PROVE t[i] \in Range(s \o t)
    <3>1. (s \o t)[Len(s) + i] \in Range(s \o t)
      BY <2>3 DEF Range
    <3> QED
      BY <2>3, <3>1
  <2>7. Range(t) \subseteq Range(s \o t)
    BY <2>6 DEF Range
  <2> QED
    BY <2>4, <2>5, <2>7
<1>3. \A s \in Seq(S) : Range(s) \subseteq S
  BY DEF Range
<1>4. ASSUME NEW s \in Seq(S), s # <<>>
      PROVE  /\ Head(s) \in S
             /\ Tail(s) \in Seq(S)
             /\ Range(s) = {Head(s)} \cup Range(Tail(s))
  <2>1. 1 \in DOMAIN s /\ s[1] = Head(s) /\ Head(s) \in S /\ Tail(s) \in Seq(S)
    BY <1>4
  <2>2. \A i \in DOMAIN Tail(s) : i + 1 \in DOMAIN s /\ Tail(s)[i] = s[i + 1]
    BY <1>4
  <2>3. \A i \in DOMAIN s : i = 1 \/ (i - 1 \in DOMAIN Tail(s) /\ Tail(s)[i - 1] = s[i])
    BY <1>4
  <2>4. ASSUME NEW i \in DOMAIN s PROVE s[i] \in {Head(s)} \cup Range(Tail(s))
    <3>1. CASE i - 1 \in DOMAIN Tail(s) /\ Tail(s)[i - 1] = s[i]
      BY <3>1 DEF Range
    <3> QED
      BY <2>1, <2>3, <3>1
  <2>5. Range(s) \subseteq {Head(s)} \cup Range(Tail(s))
    BY <2>4 DEF Range
  <2>6. {Head(s)} \cup Range(Tail(s)) \subseteq Range(s)
    BY <2>1, <2>2 DEF Range
  <2> QED
    BY <2>1, <2>5, <2>6
<1> QED
  BY <1>1, <1>2, <1>3, <1>4

-----------------------------------------------------------------------------
(* The invariant *)

\* Counting members.
LEMMA Counting ==
    ASSUME NEW S \in SUBSET Id
    PROVE  /\ IsFiniteSet(S)
           /\ Cardinality(S) \in 0..Cardinality(Id)
           /\ Cardinality(Id) \in Nat
<1> USE DirectoryAssumption
<1>1. IsFiniteSet(S) /\ Cardinality(S) <= Cardinality(Id)
  BY FS_Subset
<1>2. Cardinality(S) \in Nat /\ Cardinality(Id) \in Nat
  BY <1>1, FS_CardinalityType
<1> QED
  BY <1>1, <1>2

\* The books keep the two counters below the number of names.
LEMMA BooksBound ==
    ASSUME TypeOK, Books, seen # {}
    PROVE  /\ Cardinality(Id) \in Nat
           /\ size + Len(new) \in 0..(Cardinality(Id) - 1)
           /\ depth \in 0..(Cardinality(Id) - 1)
<1>1. Cardinality(seen) \in 0..Cardinality(Id) /\ Cardinality(Id) \in Nat
  BY Counting DEF TypeOK
<1>2. /\ size + Len(new) = Cardinality(seen) - 1 /\ depth <= size
      /\ size \in Nat /\ depth \in Nat /\ Len(new) \in Nat
  BY <1>1 DEF Books, TypeOK
<1> QED
  BY <1>1, <1>2

LEMMA BInvInit == ASSUME Init PROVE BInv
<1> USE DirectoryAssumption
<1>1. Cardinality(Id) \in Nat
  BY FS_CardinalityType
<1>2. DirTypeOK
  BY DEF Init, DirInit, DirTypeOK, Managers, LinesOf
<1>3. TypeOK
  BY <1>1, <1>2 DEF Init, TypeOK
<1>4. Lines /\ Stages /\ Books /\ Counts /\ AtDepth
  BY DEF Init, DirInit, Lines, Stages, Books, Counts, AtDepth
<1> QED
  BY <1>3, <1>4 DEF BInv

\* Steps outside the shape walk.
LEMMA ResolveStep == ASSUME BInv, Resolve PROVE BInv'
<1>1. PICK d \in Id : named = {d} /\ manager_dn' = d
  BY DEF Resolve
<1>2. /\ status = "resolve" /\ status' = "walk" /\ seen = {}
      /\ UNCHANGED <<dirVars, walked, chained, level, new, seen, size, depth>>
  BY DEF Resolve, BInv, Stages
<1>3. TypeOK' /\ Lines' /\ Stages' /\ Books'
  BY <1>1, <1>2 DEF BInv, TypeOK, DirTypeOK, Lines, LinesOf, Stages, Books, dirVars
<1>4. Counts' /\ AtDepth'
  BY <1>2 DEF Counts, AtDepth
<1> QED
  BY <1>3, <1>4 DEF BInv

LEMMA WalkStep == ASSUME BInv, Walk PROVE BInv'
<1>0. PICK d \in Id : \E tree \in SUBSET (Below(d, ever) \ {d}) :
         /\ named = {d}
         /\ Below(d, always) \ {d} \subseteq tree
         /\ walked' = Cardinality(tree)
  BY DEF Walk
<1>1. PICK tree \in SUBSET (Below(d, ever) \ {d}) :
         /\ named = {d}
         /\ Below(d, always) \ {d} \subseteq tree
         /\ walked' = Cardinality(tree)
  BY <1>0
<1>2. /\ status = "walk" /\ status' = "chain" /\ seen = {}
      /\ UNCHANGED <<dirVars, manager_dn, chained, level, new, seen, size, depth>>
  BY DEF Walk, BInv, Stages
<1>3. tree \in SUBSET Id
  BY DEF Below
<1>4. TypeOK' /\ Lines' /\ Stages' /\ Books'
  BY <1>1, <1>2, <1>3, Counting
     DEF BInv, TypeOK, DirTypeOK, Lines, LinesOf, Stages, Books, dirVars
<1>5. ASSUME changes = 0
      PROVE  walked' = Cardinality(Below(manager_dn, LinesOf(manager)) \ {manager_dn})
  <2>1. named = {manager_dn} /\ ever = LinesOf(manager) /\ always = LinesOf(manager)
    BY <1>2, <1>5 DEF BInv, Stages, Lines
  <2>2. d = manager_dn
    BY <1>1, <2>1
  <2> QED
    BY <1>1, <2>1, <2>2
<1>6. Counts'
  BY <1>2, <1>5 DEF Counts, dirVars, Below, ClosedUnder, LinesOf
<1>7. AtDepth'
  BY <1>2 DEF AtDepth
<1> QED
  BY <1>4, <1>6, <1>7 DEF BInv

LEMMA ChainStep == ASSUME BInv, Chain PROVE BInv'
<1> USE DirectoryAssumption
<1>1. /\ status = "chain" /\ status' = "shape" /\ seen = {}
      /\ chained' = Cardinality(Chained)
      /\ level' = <<manager_dn>> /\ seen' = {manager_dn}
      /\ UNCHANGED <<dirVars, manager_dn, walked, new, size, depth>>
  BY DEF Chain, BInv, Stages
<1>2. manager_dn \in Id /\ new = <<>> /\ size = 0 /\ depth = 0
  BY <1>1 DEF BInv, Stages, Books
<1>3. Chained \in SUBSET Id
  BY DEF Chained, Below
<1>4. Range(<<manager_dn>>) = {manager_dn} /\ Range(<<>>) = {} /\ <<manager_dn>> \in Seq(Id)
  BY <1>2 DEF Range
<1>5. TypeOK' /\ Lines' /\ Stages'
  BY <1>1, <1>2, <1>3, <1>4, Counting
     DEF BInv, TypeOK, DirTypeOK, Lines, LinesOf, Stages, dirVars
<1>6. Books'
  <2>1. ever \in SUBSET (Id \X Id)
    BY DEF BInv, TypeOK, DirTypeOK
  <2>2. manager_dn \in Below(manager_dn, ever)
    BY <1>2, <2>1, BelowCloses
  <2>3. Cardinality({manager_dn}) = 1
    BY FS_Singleton
  <2>4. Below(manager_dn, ever)' = Below(manager_dn, ever)
    BY <1>1 DEF Below, ClosedUnder, dirVars
  <2>5. Range(level') = {manager_dn} /\ Range(new') = {} /\ Len(new') = 0
    BY <1>1, <1>2, <1>4
  <2> QED
    BY <1>1, <1>2, <2>2, <2>3, <2>4, <2>5 DEF Books
<1>7. Counts'
  BY <1>1 DEF BInv, Counts, Chained, Below, ClosedUnder, LinesOf, ReportsOf, dirVars
<1>8. AtDepth'
  <2>1. Hops(manager_dn)[0] = {manager_dn}
    BY <1>2, HopsEquation DEF HopsTo
  <2>2. Hops(manager_dn)' = Hops(manager_dn)
    BY <1>1 DEF Hops, ReportsOf, dirVars
  <2>3. Hops(manager_dn)'[depth'] = {manager_dn}
    BY <1>1, <1>2, <2>1, <2>2
  <2>4. /\ Range(level') = {manager_dn} /\ Range(new') = {}
        /\ Hops(manager_dn)'[depth'] \ Range(level') = {}
    BY <1>1, <1>2, <1>4, <2>3
  <2> QED
    BY <1>1, <1>2, <2>3, <2>4 DEF AtDepth, ReportsOf
<1> QED
  BY <1>5, <1>6, <1>7, <1>8 DEF BInv

LEMMA FailsStep == ASSUME BInv, Fails PROVE BInv'
<1>1. /\ status' = "failed"
      /\ UNCHANGED <<dirVars, manager_dn, walked, chained, level, new, seen, size, depth>>
  BY DEF Fails
<1>2. TypeOK' /\ Lines' /\ Stages' /\ Counts' /\ AtDepth'
  BY <1>1 DEF BInv, TypeOK, DirTypeOK, Lines, LinesOf, Stages, Counts, AtDepth, dirVars
<1>3. Books'
  BY <1>1 DEF BInv, Books, Below, ClosedUnder, Range, dirVars
<1> QED
  BY <1>2, <1>3 DEF BInv

LEMMA ChangeStep == ASSUME BInv, DirectoryChange PROVE BInv'
<1>1. UNCHANGED benchVars /\ Change /\ DirTypeOK
  BY DEF DirectoryChange, BInv, TypeOK
<1>2. /\ DirTypeOK' /\ changes' = changes + 1 /\ changes \in Nat
      /\ ever' = ever \cup LinesOf(manager')
  BY <1>1, ChangeEffect DEF DirTypeOK
<1>3. LinesOf(manager)' = LinesOf(manager')
  BY DEF LinesOf
<1>4. TypeOK' /\ Lines' /\ Stages' /\ Counts' /\ AtDepth'
  BY <1>1, <1>2, <1>3 DEF BInv, TypeOK, Lines, Stages, Counts, AtDepth, benchVars
<1>5. Books'
  <2>1. manager_dn \in Id => Below(manager_dn, ever) \subseteq Below(manager_dn, ever')
    BY <1>2, BelowGrows
  <2>2. seen # {} => manager_dn \in Id
    BY DEF BInv, Books, TypeOK
  <2>3. Below(manager_dn, ever') = Below(manager_dn, ever)'
    BY <1>1 DEF Below, ClosedUnder, benchVars
  <2>4. Range(level)' = Range(level) /\ Range(new)' = Range(new)
    BY <1>1 DEF Range, benchVars
  <2> QED
    BY <1>1, <2>1, <2>2, <2>3, <2>4 DEF BInv, Books, benchVars
<1> QED
  BY <1>4, <1>5 DEF BInv

\* Steps of the shape walk.
LEMMA AskOneStep == ASSUME BInv, AskOne PROVE BInv'
<1> DEFINE x == Head(level)
           R == ReportsOf({x})
           U == Unseen(R)
<1> USE DirectoryAssumption
<1>1. /\ status = "shape" /\ level # <<>> /\ level' = Tail(level)
      /\ new' = new \o SetToSeq(U) /\ seen' = seen \cup R
      /\ UNCHANGED <<dirVars, status, manager_dn, walked, chained, size, depth>>
  BY DEF AskOne
<1>2. /\ TypeOK /\ level \in Seq(Id) /\ new \in Seq(Id) /\ seen \in SUBSET Id
      /\ seen # {} /\ manager_dn \in Id
  BY <1>1 DEF BInv, TypeOK, Stages
<1>3. /\ x \in Id /\ Tail(level) \in Seq(Id)
      /\ Range(level) = {x} \cup Range(Tail(level))
  BY <1>1, <1>2, RangeOfLists
<1>4. R \in SUBSET Id /\ U \in SUBSET Id /\ U = R \ seen
  BY DEF ReportsOf, Unseen
<1>5. IsFiniteSet(U) /\ IsFiniteSet(seen)
  BY <1>2, <1>4, Counting
<1>6. /\ SetToSeq(U) \in Seq(Id) /\ Len(SetToSeq(U)) = Cardinality(U)
      /\ Range(SetToSeq(U)) = U
  <2>1. IsFiniteSet(U) /\ U \subseteq Id
    BY <1>4, <1>5
  <2> HIDE DEF U
  <2> QED
    BY <2>1, SetToSeqLists
<1> HIDE DEF R, U, x
<1>7. new' \in Seq(Id) /\ Range(new') = Range(new) \cup U /\ Len(new') = Len(new) + Cardinality(U)
  <2>1. Range(new \o SetToSeq(U)) = Range(new) \cup Range(SetToSeq(U))
    BY <1>2, <1>6, RangeOfLists
  <2>2. /\ new \o SetToSeq(U) \in Seq(Id)
        /\ Len(new \o SetToSeq(U)) = Len(new) + Len(SetToSeq(U))
    BY <1>2, <1>6
  <2> QED
    BY <1>1, <1>6, <2>1, <2>2
<1>8. TypeOK' /\ Lines' /\ Stages'
  <2>1. TypeOK'
    BY <1>1, <1>2, <1>3, <1>4, <1>7 DEF TypeOK, DirTypeOK, dirVars
  <2>2. Lines' /\ Stages'
    BY <1>1, <1>2 DEF BInv, Lines, LinesOf, Stages, dirVars
  <2> QED
    BY <2>1, <2>2
<1>9. Books'
  <2>1. /\ manager_dn \in seen /\ seen \subseteq Below(manager_dn, ever)
        /\ Range(level) \cup Range(new) \subseteq seen
        /\ size + Len(new) = Cardinality(seen) - 1 /\ depth <= size
    BY <1>2 DEF BInv, Books
  <2>2. R \subseteq Below(manager_dn, ever)
    <3>1. ever \in SUBSET (Id \X Id) /\ LinesOf(manager) \subseteq ever
      BY <1>2 DEF BInv, TypeOK, DirTypeOK, Lines
    <3>2. \A d, e \in Id : <<d, e>> \in ever /\ d \in Below(manager_dn, ever)
                               => e \in Below(manager_dn, ever)
      BY <1>2, <3>1, BelowCloses
    <3>3. x \in Below(manager_dn, ever)
      BY <1>3, <2>1
    <3>4. \A e \in R : <<x, e>> \in ever
      BY <1>3, <3>1 DEF R, ReportsOf, LinesOf
    <3> QED
      BY <1>3, <1>4, <3>2, <3>3, <3>4
  <2>3. Cardinality(seen') = Cardinality(seen) + Cardinality(U)
    <3>1. seen' = seen \cup U /\ seen \cap U = {}
      BY <1>1, <1>4
    <3>2. Cardinality(seen \cup U) = Cardinality(seen) + Cardinality(U) - Cardinality(seen \cap U)
      BY <1>5, FS_Union
    <3>3. Cardinality(seen) \in Nat /\ Cardinality(U) \in Nat /\ Cardinality(seen \cap U) = 0
      BY <1>5, <3>1, FS_CardinalityType, FS_EmptySet
    <3> QED
      BY <3>1, <3>2, <3>3
  <2>4. size' + Len(new') = Cardinality(seen') - 1
    <3>1. Cardinality(seen) \in Nat /\ Cardinality(U) \in Nat
      BY <1>5, FS_CardinalityType
    <3>2. size \in Nat /\ Len(new) \in Nat /\ size' = size
      BY <1>1, <1>2, Counting DEF TypeOK
    <3>3. Len(new') = Len(new) + Cardinality(U)
      BY <1>7
    <3> QED
      BY <2>1, <2>3, <3>1, <3>2, <3>3
  <2>5. Below(manager_dn, ever)' = Below(manager_dn, ever)
    BY <1>1 DEF Below, ClosedUnder, dirVars
  <2>6. Range(level') \cup Range(new') \subseteq seen'
    BY <1>1, <1>3, <1>4, <1>7, <2>1
  <2> QED
    BY <1>1, <2>1, <2>2, <2>4, <2>5, <2>6 DEF Books
<1>10. Counts'
  BY <1>1 DEF BInv, Counts, Chained, Below, ClosedUnder, LinesOf, ReportsOf, dirVars
<1>11. AtDepth'
  <2> DEFINE H == Hops(manager_dn)
  <2>1. SUFFICES ASSUME changes = 0 PROVE AtDepth'
    BY <1>1 DEF AtDepth, dirVars
  <2>2. /\ seen = H[depth] \cup Range(new) /\ Range(level) \subseteq H[depth]
        /\ Range(new) \cap H[depth] = {} /\ Range(new) \subseteq ReportsOf(H[depth])
        /\ ReportsOf(H[depth] \ Range(level)) \subseteq seen
        /\ depth > 0 => H[depth - 1] # H[depth]
    BY <1>1, <2>1 DEF BInv, AtDepth
  <2>3. R \subseteq ReportsOf(H[depth])
    BY <1>3, <2>2 DEF R, ReportsOf
  <2>4. /\ seen' = H[depth] \cup Range(new') /\ Range(new') \cap H[depth] = {}
        /\ Range(new') \subseteq ReportsOf(H[depth])
    BY <1>1, <1>4, <1>7, <2>2, <2>3
  <2>5. ReportsOf(H[depth] \ Range(level')) \subseteq seen'
    <3>1. H[depth] \ Range(level') \subseteq (H[depth] \ Range(level)) \cup {x}
      BY <1>1, <1>3
    <3>2. ReportsOf(H[depth] \ Range(level')) \subseteq ReportsOf(H[depth] \ Range(level)) \cup R
      BY <3>1 DEF R, ReportsOf
    <3> QED
      BY <1>1, <2>2, <3>2
  <2>6. Range(level') \subseteq H[depth]
    BY <1>1, <1>3, <2>2
  <2>7. Hops(manager_dn)' = Hops(manager_dn) /\ manager' = manager /\ depth' = depth
    BY <1>1 DEF Hops, ReportsOf, dirVars
  <2> QED
    BY <2>2, <2>4, <2>5, <2>6, <2>7 DEF AtDepth, ReportsOf
<1> QED
  BY <1>8, <1>9, <1>10, <1>11 DEF BInv

\* What the end of a level finds: everybody the levels so far lead to has been met.
LEMMA LevelMet ==
    ASSUME BInv, status = "shape", level = <<>>, changes = 0
    PROVE  ReportsOf(Hops(manager_dn)[depth]) \subseteq seen
<1>1. ReportsOf(Hops(manager_dn)[depth] \ Range(level)) \subseteq seen
  BY DEF BInv, AtDepth
<1>2. Range(level) = {}
  BY RangeOfLists
<1>3. Hops(manager_dn)[depth] \ Range(level) = Hops(manager_dn)[depth]
  BY <1>2
<1> QED
  BY <1>1, <1>3

LEMMA EndLevelStep == ASSUME BInv, EndLevel PROVE BInv'
<1> USE DirectoryAssumption
<1>1. /\ status = "shape" /\ level = <<>> /\ size' = size + Len(new)
      /\ depth' = (IF new = <<>> THEN depth ELSE depth + 1)
      /\ level' = new /\ new' = <<>>
      /\ status' = (IF new = <<>> THEN "done" ELSE "shape")
      /\ UNCHANGED <<dirVars, manager_dn, walked, chained, seen>>
  BY DEF EndLevel, Deeper
<1>2. TypeOK /\ new \in Seq(Id) /\ seen # {} /\ manager_dn \in Id
  BY <1>1 DEF BInv, TypeOK, Stages
<1>3. /\ size \in Nat /\ depth \in Nat /\ Cardinality(Id) \in Nat
      /\ size + Len(new) \in 0..(Cardinality(Id) - 1) /\ depth <= size
      /\ new # <<>> => Len(new) > 0
  BY <1>2, BooksBound, Counting DEF BInv, Books, TypeOK
<1>4. /\ depth' \in 0..Cardinality(Id) /\ depth' <= size'
      /\ size' \in 0..Cardinality(Id)
  BY <1>1, <1>2, <1>3
<1>5. TypeOK'
  BY <1>1, <1>2, <1>4 DEF TypeOK, DirTypeOK, dirVars
<1>6. Lines' /\ Stages'
  BY <1>1, <1>2 DEF BInv, Lines, LinesOf, Stages, dirVars
<1>7. Range(<<>>) = {}
  BY RangeOfLists
<1>8. Books'
  <2>1. /\ manager_dn \in seen /\ seen \subseteq Below(manager_dn, ever)
        /\ Range(new) \subseteq seen /\ size + Len(new) = Cardinality(seen) - 1
    BY <1>2 DEF BInv, Books
  <2>2. Below(manager_dn, ever)' = Below(manager_dn, ever)
    BY <1>1 DEF Below, ClosedUnder, dirVars
  <2>3. Range(level') \cup Range(new') \subseteq seen /\ size' + Len(new') = size + Len(new)
    BY <1>1, <1>3, <1>7, <2>1
  <2> QED
    BY <1>1, <1>2, <1>4, <2>1, <2>2, <2>3 DEF Books
<1>9. Counts'
  BY <1>1 DEF BInv, Counts, Chained, Below, ClosedUnder, LinesOf, ReportsOf, dirVars
<1>10. AtDepth'
  <2> DEFINE H == Hops(manager_dn)
  <2>1. SUFFICES ASSUME changes = 0 PROVE AtDepth'
    BY <1>1 DEF AtDepth, dirVars
  <2>2. /\ seen = H[depth] \cup Range(new) /\ Range(new) \cap H[depth] = {}
        /\ Range(new) \subseteq ReportsOf(H[depth]) /\ ReportsOf(H[depth]) \subseteq seen
        /\ depth > 0 => H[depth - 1] # H[depth]
    BY <1>1, <2>1, LevelMet DEF BInv, AtDepth
  <2>3. Hops(manager_dn)' = Hops(manager_dn) /\ manager' = manager
    BY <1>1 DEF Hops, ReportsOf, dirVars
  <2>4. CASE new = <<>>
    <3>1. Range(new) = {} /\ Range(level') = {} /\ Range(new') = {} /\ depth' = depth
      BY <1>1, <1>7, <2>4
    <3>2. ReportsOf(H[depth] \ {}) \subseteq seen
      BY <2>2 DEF ReportsOf
    <3> QED
      BY <1>1, <2>2, <2>3, <3>1, <3>2 DEF AtDepth, ReportsOf
  <2>5. CASE new # <<>>
    <3>1. /\ depth' = depth + 1 /\ depth \in 0..(Cardinality(Id) - 1) /\ depth' - 1 = depth
      BY <1>1, <1>3, <2>5
    <3>2. H[depth'] = H[depth] \cup ReportsOf(H[depth])
      BY <1>2, <3>1, HopsEquation DEF HopsTo
    <3>3. seen = H[depth']
      BY <2>2, <3>2
    <3>4. H[depth] # H[depth']
      <4>1. new[1] \in Range(new)
        BY <1>2, <2>5 DEF Range
      <4> QED
        BY <2>2, <3>3, <4>1
    <3>5. ReportsOf(H[depth'] \ Range(new)) \subseteq seen
      BY <2>2, <3>3 DEF ReportsOf
    <3> QED
      BY <1>1, <1>7, <2>2, <2>3, <3>1, <3>3, <3>4, <3>5 DEF AtDepth, ReportsOf
  <2> QED
    BY <2>4, <2>5
<1> QED
  BY <1>5, <1>6, <1>8, <1>9, <1>10 DEF BInv

LEMMA BInvStep == BInv /\ [Next]_vars => BInv'
<1> SUFFICES ASSUME BInv, [Next]_vars PROVE BInv'
  OBVIOUS
<1>1. ASSUME UNCHANGED vars PROVE BInv'
  <2>1. UNCHANGED <<dirVars, benchVars>>
    BY <1>1 DEF vars
  <2>2. TypeOK' /\ Lines' /\ Stages' /\ Counts'
    BY <2>1 DEF BInv, TypeOK, DirTypeOK, Lines, Stages, Counts, Chained, Below, ClosedUnder,
                LinesOf, ReportsOf, dirVars, benchVars
  <2>3. Books'
    BY <2>1 DEF BInv, Books, Below, ClosedUnder, Range, dirVars, benchVars
  <2>4. AtDepth'
    <3>1. Hops(manager_dn)' = Hops(manager_dn)
      BY <2>1 DEF Hops, ReportsOf, dirVars, benchVars
    <3> QED
      BY <2>1, <3>1 DEF BInv, AtDepth, ReportsOf, Range, dirVars, benchVars
  <2> QED
    BY <2>2, <2>3, <2>4 DEF BInv
<1> QED
  BY <1>1, ResolveStep, WalkStep, ChainStep, AskOneStep, EndLevelStep, FailsStep, ChangeStep
     DEF Next

LEMMA BInvHolds == Spec => []BInv
  BY BInvInit, BInvStep, PTL DEF Spec

-----------------------------------------------------------------------------
(* What follows *)

\* Every variable keeps its type, and neither counter passes the number of names.
THEOREM BenchmarkTypeCorrect == Spec => []TypeOK
<1>1. BInv => TypeOK
  BY DEF BInv
<1> QED
  BY <1>1, BInvHolds, PTL

\* Whatever changes, the shape walk counts everybody it meets once, and meets nobody who
\* never was below the manager.
THEOREM CountsEachOnce == Spec => []SizeCountsUsers
<1>1. BInv => SizeCountsUsers
  BY DEF BInv, Stages, Books, SizeCountsUsers
<1> QED
  BY <1>1, BInvHolds, PTL

\* At the end of a shape walk that nothing disturbed, those met are those below.
LEMMA MetAreBelow ==
    ASSUME BInv, status = "done", changes = 0
    PROVE  /\ manager_dn \in Id
           /\ seen = Below(manager_dn, LinesOf(manager))
           /\ seen = Hops(manager_dn)[depth]
<1> DEFINE L == LinesOf(manager)
           H == Hops(manager_dn)
<1>1. /\ manager_dn \in Id /\ seen # {} /\ level = <<>> /\ new = <<>> /\ ever = L
  BY DEF BInv, Stages, Lines
<1>2. manager_dn \in seen /\ seen \subseteq Below(manager_dn, L) /\ seen \in SUBSET Id
  BY <1>1 DEF BInv, Books, TypeOK
<1>3. Range(<<>>) = {}
  BY RangeOfLists
<1>4. seen = H[depth] /\ ReportsOf(H[depth] \ {}) \subseteq seen
  BY <1>1, <1>3 DEF BInv, AtDepth
<1>5. ReportsOf(seen) \subseteq seen
  BY <1>4 DEF ReportsOf
<1>6. ClosedUnder(seen, L)
  BY <1>2, <1>5 DEF ClosedUnder, ReportsOf, LinesOf
<1>7. Below(manager_dn, L) \subseteq seen
  BY <1>1, <1>2, <1>6, BelowLeast
<1> QED
  BY <1>1, <1>2, <1>4, <1>7

\* While nothing changes, the shape walk measures the tree the library's walk lists.
THEOREM MeasuresTheTree == Spec => []ShapeIsTheTrees
<1>1. ASSUME BInv, status = "done", changes = 0
      PROVE  /\ size = walked
             /\ Hops(manager_dn)[depth] = Below(manager_dn, LinesOf(manager))
             /\ depth > 0 => Hops(manager_dn)[depth - 1] # Hops(manager_dn)[depth]
  <2>1. /\ manager_dn \in Id
        /\ seen = Below(manager_dn, LinesOf(manager)) /\ seen = Hops(manager_dn)[depth]
    BY <1>1, MetAreBelow
  <2>2. depth > 0 => Hops(manager_dn)[depth - 1] # Hops(manager_dn)[depth]
    BY <1>1 DEF BInv, AtDepth
  <2>3. /\ size + Len(new) = Cardinality(seen) - 1 /\ new = <<>> /\ manager_dn \in seen
        /\ size \in Nat /\ seen \in SUBSET Id
    BY <1>1, Counting DEF BInv, Stages, Books, TypeOK
  <2>4. walked = Cardinality(seen \ {manager_dn})
    BY <1>1, <2>1 DEF BInv, Counts
  <2>5. IsFiniteSet(seen) /\ Cardinality(seen) \in Nat
    BY <2>3, Counting
  <2>6. Cardinality(seen \ {manager_dn}) = Cardinality(seen) - 1
    BY <2>3, <2>5, FS_RemoveElement
  <2> QED
    BY <2>1, <2>2, <2>3, <2>4, <2>5, <2>6
<1>2. BInv => ShapeIsTheTrees
  BY <1>1 DEF ShapeIsTheTrees
<1> QED
  BY <1>2, BInvHolds, PTL

\* Below a root is the root, and everybody below one of its reports.
LEMMA BelowUnfolds ==
    ASSUME NEW x \in Id
    PROVE  Below(x, LinesOf(manager)) =
             {x} \cup UNION {Below(d, LinesOf(manager)) : d \in ReportsOf({x})}
<1> DEFINE L == LinesOf(manager)
           C == UNION {Below(d, L) : d \in ReportsOf({x})}
<1>1. L \in SUBSET (Id \X Id) /\ ReportsOf({x}) \subseteq Id
  BY DEF LinesOf, ReportsOf
<1>2. {x} \cup C \in SUBSET Id
  BY DEF Below
<1>3. ASSUME NEW d \in Id, NEW e \in Id, <<d, e>> \in L, d \in {x} \cup C
      PROVE  e \in C
  <2>1. CASE d = x
    <3>1. e \in ReportsOf({x})
      BY <1>3, <2>1 DEF LinesOf, ReportsOf
    <3>2. e \in Below(e, L)
      BY <1>1, BelowCloses
    <3> QED
      BY <3>1, <3>2
  <2>2. CASE d \in C
    <3>1. PICK b \in ReportsOf({x}) : d \in Below(b, L)
      BY <2>2
    <3>2. \A l \in L : l[1] \in Below(b, L) => l[2] \in Below(b, L)
      BY <1>1, BelowCloses
    <3>3. e \in Below(b, L)
      BY <1>3, <3>1, <3>2
    <3> QED
      BY <3>1, <3>3
  <2> QED
    BY <1>3, <2>1, <2>2
<1>4. ClosedUnder({x} \cup C, L)
  <2> HIDE DEF C
  <2> QED
    BY <1>1, <1>3 DEF ClosedUnder, L, LinesOf
<1>5. Below(x, L) \subseteq {x} \cup C
  BY <1>2, <1>4, BelowLeast
<1>6. ASSUME NEW b \in ReportsOf({x}) PROVE Below(b, L) \subseteq Below(x, L)
  <2>1. <<x, b>> \in L /\ b \in Id
    BY <1>1 DEF ReportsOf, LinesOf
  <2>2. x \in Below(x, L) /\ b \in Below(x, L) /\ ClosedUnder(Below(x, L), L)
    BY <1>1, <2>1, BelowCloses DEF ClosedUnder
  <2>3. Below(x, L) \in SUBSET Id
    BY DEF Below
  <2> QED
    BY <2>1, <2>2, <2>3, BelowLeast
<1>7. x \in Below(x, L)
  BY <1>1, BelowCloses
<1> QED
  BY <1>5, <1>6, <1>7

\* While nothing changes, the walk and the in-chain query count alike unless the manager
\* is in a cycle, and then they never do.
THEOREM DifferOnlyByTheCycle == Spec => []AgreeUnlessCyclic
<1>1. ASSUME BInv, status = "done", changes = 0
      PROVE  walked = chained <=> ~ InCycle
  <2> DEFINE B == Below(manager_dn, LinesOf(manager))
  <2>1. manager_dn \in Id /\ B \in SUBSET Id /\ Chained \in SUBSET Id
    BY <1>1, MetAreBelow DEF Below, Chained
  <2>2. walked = Cardinality(B \ {manager_dn}) /\ chained = Cardinality(Chained)
    BY <1>1 DEF BInv, Counts
  <2>3. B = {manager_dn} \cup Chained
    BY <2>1, BelowUnfolds DEF Chained
  <2>4. InCycle <=> manager_dn \in Chained
    BY DEF InCycle, Chained
  <2>5. CASE manager_dn \in Chained
    <3>1. B = Chained /\ IsFiniteSet(B) /\ Cardinality(B) \in Nat
      BY <2>1, <2>3, <2>5, Counting
    <3>2. Cardinality(B \ {manager_dn}) = Cardinality(B) - 1
      BY <2>5, <3>1, FS_RemoveElement
    <3> HIDE DEF B
    <3> QED
      BY <2>2, <2>4, <2>5, <3>1, <3>2
  <2>6. CASE manager_dn \notin Chained
    <3>1. B \ {manager_dn} = Chained
      BY <2>3, <2>6
    <3> QED
      BY <2>2, <2>4, <2>6, <3>1
  <2> QED
    BY <2>5, <2>6
<1>2. BInv => AgreeUnlessCyclic
  BY <1>1 DEF AgreeUnlessCyclic, counts_agree
<1> QED
  BY <1>2, BInvHolds, PTL
=============================================================================
