--------------------------- MODULE DirectoryProofs ---------------------------
(***************************************************************************)
(* Lemmas about the reporting lines of Directory, for every directory:     *)
(* what is below a root, how many hops below it, and what a change does.   *)
(* The hops are a recursive function, and the induction it takes to show   *)
(* that it exists and is what its definition says is that of               *)
(* HoldsAllNumbers, about a set of numbers instead of a predicate.         *)
(***************************************************************************)
EXTENDS Directory, Integers, FiniteSetTheorems, TLAPS

-----------------------------------------------------------------------------
(* Below a root *)

\* More lines leave nobody out, and whoever reports to somebody below the root
\* is below it too.
LEMMA BelowGrows ==
    ASSUME NEW x \in Id, NEW L, NEW K, L \subseteq K
    PROVE  Below(x, L) \subseteq Below(x, K)
  <1>1. \A S : ClosedUnder(S, K) => ClosedUnder(S, L)
    BY DEF ClosedUnder
  <1> QED
    BY <1>1 DEF Below

LEMMA BelowCloses ==
    ASSUME NEW x \in Id, NEW L \in SUBSET (Id \X Id)
    PROVE  /\ x \in Below(x, L)
           /\ \A l \in L : l[1] \in Below(x, L) => l[2] \in Below(x, L)
  <1>1. x \in Below(x, L)
    BY DEF Below
  <1>2. ASSUME NEW l \in L, l[1] \in Below(x, L) PROVE l[2] \in Below(x, L)
    <2>1. l[2] \in Id
      OBVIOUS
    <2>2. ASSUME NEW S \in SUBSET Id, x \in S, ClosedUnder(S, L) PROVE l[2] \in S
      BY <1>2, <2>2 DEF Below, ClosedUnder
    <2> QED
      BY <2>1, <2>2 DEF Below
  <1> QED
    BY <1>1, <1>2

\* A closed set that holds the root holds everybody below it.
LEMMA BelowLeast ==
    ASSUME NEW x \in Id, NEW L, NEW S \in SUBSET Id,
           x \in S, ClosedUnder(S, L)
    PROVE  Below(x, L) \subseteq S
  BY DEF Below

\* What any change to the directory does to its type and to the histories.
LEMMA ChangeEffect ==
    ASSUME DirTypeOK, Change
    PROVE  /\ DirTypeOK'
           /\ changes' = changes + 1
           /\ ever' = ever \cup LinesOf(manager')
           /\ always' = always \cap LinesOf(manager')
  <1> USE DirectoryAssumption
  <1>0. Record
    BY DEF Change, Reassign, Create, Rename, Delete
  <1>1. LinesOf(manager') \subseteq Id \X Id
    BY DEF LinesOf
  <1>2. changes' \in 0..MaxChanges
    BY <1>0 DEF Record, DirTypeOK
  <1>3. ever' \subseteq Id \X Id /\ always' \subseteq Id \X Id
    BY <1>0, <1>1 DEF Record, DirTypeOK
  <1>4. ASSUME NEW d \in Id, NEW M \in Managers(entries),
               Reassign(d, M) \/ Create(d, M)
        PROVE  /\ entries' \subseteq Id /\ named' \subseteq Id
               /\ manager' \in [Id -> SUBSET Id]
    BY <1>4 DEF Reassign, Create, DirTypeOK, Managers
  <1>5. ASSUME NEW d \in Id, NEW e \in Id, Rename(d, e)
        PROVE  /\ entries' \subseteq Id /\ named' \subseteq Id
               /\ manager' \in [Id -> SUBSET Id]
    BY <1>5 DEF Rename, DirTypeOK
  <1>6. ASSUME NEW d \in Id, Delete(d)
        PROVE  /\ entries' \subseteq Id /\ named' \subseteq Id
               /\ manager' \in [Id -> SUBSET Id]
    BY <1>6 DEF Delete, DirTypeOK
  <1>7. /\ entries' \subseteq Id /\ named' \subseteq Id
        /\ manager' \in [Id -> SUBSET Id]
    BY <1>4, <1>5, <1>6 DEF Change
  <1> QED
    BY <1>0, <1>2, <1>3, <1>7 DEF DirTypeOK, Record

-----------------------------------------------------------------------------
(* Hops below a root *)

\* A set of numbers that holds 0, and the successor of each of its numbers, holds them
\* all: otherwise the predecessor would map the finite set of those up to n that it lacks
\* injectively into itself, so onto itself, and n has no preimage.
LEMMA HoldsAllNumbers ==
    ASSUME NEW T, 0 \in T, \A n \in Nat : n \in T => n + 1 \in T
    PROVE  Nat \subseteq T
<1> SUFFICES ASSUME NEW n \in Nat, n \notin T PROVE FALSE
  OBVIOUS
<1> DEFINE D == {m \in 0..n : m \notin T}
           f == [m \in D |-> m - 1]
<1>1. ASSUME NEW m \in D PROVE m - 1 \in D
  <2>1. m \in 1..n /\ m - 1 \in Nat /\ (m - 1) + 1 = m
    OBVIOUS
  <2> QED
    BY <2>1
<1>2. IsFiniteSet(D)
  <2>1. IsFiniteSet(0..n)
    BY FS_Interval
  <2>2. D \in SUBSET (0..n)
    OBVIOUS
  <2> HIDE DEF D
  <2> QED
    BY <2>1, <2>2, FS_Subset
<1>3. f \in Injection(D, D)
  <2>1. f \in [D -> D]
    BY <1>1
  <2>2. \A a, b \in D : f[a] = f[b] => a = b
    OBVIOUS
  <2> QED
    BY <2>1, <2>2, Zenon DEF Injection, IsInjective
<1>4. f \in Surjection(D, D)
  BY <1>2, <1>3, FS_Injection
<1>5. \E m \in D : f[m] = n
  <2>1. n \in D
    OBVIOUS
  <2> HIDE DEF D, f
  <2> QED
    BY <1>4, <2>1 DEF Surjection
<1> QED
  BY <1>5

\* What makes a function f the hops below r, as far as n.
HopsTo(r, n, f) ==
    /\ f \in [0..n -> SUBSET Id]
    /\ f[0] = {r}
    /\ \A k \in 0..(n - 1) : f[k + 1] = f[k] \cup ReportsOf(f[k])

\* However many hops are asked for, there is a function that gives them.
LEMMA HopsExist ==
    ASSUME NEW r \in Id
    PROVE  \A n \in Nat : \E f : HopsTo(r, n, f)
<1> DEFINE T == {n \in Nat : \E f : HopsTo(r, n, f)}
<1>1. 0 \in T
  <2>1. HopsTo(r, 0, [k \in 0..0 |-> {r}])
    BY DEF HopsTo
  <2> QED
    BY <2>1
<1>2. ASSUME NEW n \in Nat, n \in T PROVE n + 1 \in T
  <2>1. PICK f : HopsTo(r, n, f)
    BY <1>2
  <2> DEFINE g == [k \in 0..(n + 1) |->
                     IF k = n + 1 THEN f[n] \cup ReportsOf(f[n]) ELSE f[k]]
  <2>2. f[n] \subseteq Id /\ ReportsOf(f[n]) \subseteq Id
    BY <2>1 DEF HopsTo, ReportsOf
  <2>3. g \in [0..(n + 1) -> SUBSET Id] /\ g[0] = {r}
    BY <2>1, <2>2 DEF HopsTo
  <2>4. ASSUME NEW k \in 0..n PROVE g[k + 1] = g[k] \cup ReportsOf(g[k])
    <3>1. CASE k = n
      <4>1. g[k + 1] = f[n] \cup ReportsOf(f[n]) /\ g[k] = f[n]
        BY <3>1
      <4> QED
        BY <4>1
    <3>2. CASE k # n
      <4>1. k \in 0..(n - 1) /\ g[k + 1] = f[k + 1] /\ g[k] = f[k]
        BY <3>2
      <4> HIDE DEF g
      <4> QED
        BY <2>1, <4>1 DEF HopsTo
    <3> QED
      BY <3>1, <3>2
  <2>5. HopsTo(r, n + 1, g)
    <3> HIDE DEF g
    <3> QED
      BY <2>3, <2>4 DEF HopsTo
  <2> QED
    BY <2>5
<1> HIDE DEF T
<1>3. Nat \subseteq T
  BY <1>1, <1>2, HoldsAllNumbers
<1> QED
  BY <1>3 DEF T

\* Hops(r) satisfies the equation that defines it.
LEMMA HopsEquation ==
    ASSUME NEW r \in Id, IsFiniteSet(Id)
    PROVE  HopsTo(r, Cardinality(Id), Hops(r))
<1> DEFINE K == Cardinality(Id)
           Eq(h) == h = [n \in 0..K |-> IF n = 0 THEN {r}
                                        ELSE h[n - 1] \cup ReportsOf(h[n - 1])]
<1>1. K \in Nat
  BY FS_CardinalityType
<1>2. Hops(r) = CHOOSE h : Eq(h)
  BY DEF Hops
<1>3. PICK f : HopsTo(r, K, f)
  BY <1>1, HopsExist
<1>4. Eq(f)
  <2> DEFINE g == [n \in 0..K |-> IF n = 0 THEN {r}
                                  ELSE f[n - 1] \cup ReportsOf(f[n - 1])]
  <2>1. ASSUME NEW n \in 0..K PROVE f[n] = g[n]
    <3>1. CASE n = 0
      BY <1>3, <3>1 DEF HopsTo
    <3>2. CASE n # 0
      <4>1. n - 1 \in 0..(K - 1) /\ (n - 1) + 1 = n
        BY <1>1, <3>2
      <4>2. f[n] = f[n - 1] \cup ReportsOf(f[n - 1])
        BY <1>3, <4>1 DEF HopsTo
      <4> QED
        BY <3>2, <4>2
    <3> QED
      BY <3>1, <3>2
  <2>2. f \in [0..K -> SUBSET Id]
    BY <1>3 DEF HopsTo
  <2> QED
    BY <2>1, <2>2
<1>5. Eq(Hops(r))
  <2> HIDE DEF Eq
  <2> QED
    BY <1>2, <1>4
<1>6. ASSUME NEW h, Eq(h) PROVE h = f
  <2> DEFINE T == {n \in Nat : n <= K => h[n] = f[n]}
  <2>1. 0 \in T
    <3>1. h[0] = {r} /\ f[0] = {r}
      BY <1>1, <1>3, <1>6 DEF HopsTo
    <3> QED
      BY <3>1
  <2>2. ASSUME NEW n \in Nat, n \in T PROVE n + 1 \in T
    <3>1. SUFFICES ASSUME n + 1 <= K PROVE h[n + 1] = f[n + 1]
      OBVIOUS
    <3>2. n + 1 \in 0..K /\ n + 1 # 0 /\ (n + 1) - 1 = n /\ n <= K
      BY <1>1, <3>1
    <3>3. h[n] = f[n]
      BY <2>2, <3>2
    <3>4. h[n + 1] = h[n] \cup ReportsOf(h[n]) /\ f[n + 1] = f[n] \cup ReportsOf(f[n])
      BY <1>4, <1>6, <3>2
    <3> QED
      BY <3>3, <3>4
  <2> HIDE DEF T
  <2>3. Nat \subseteq T
    BY <2>1, <2>2, HoldsAllNumbers
  <2>4. \A n \in 0..K : h[n] = f[n]
    BY <1>1, <2>3 DEF T
  <2>5. h = [n \in 0..K |-> h[n]] /\ f = [n \in 0..K |-> f[n]]
    BY <1>4, <1>6
  <2> QED
    BY <2>4, <2>5
<1> QED
  BY <1>3, <1>5, <1>6

\* More managers have more reports, and a report is the lower end of a line.
LEMMA ReportsAreLines ==
    ASSUME NEW M \in SUBSET Id
    PROVE  /\ ReportsOf(M) \subseteq Id
           /\ \A S \in SUBSET M : ReportsOf(S) \subseteq ReportsOf(M)
           /\ \A e \in Id : e \in ReportsOf(M) <=>
                               \E d \in M : <<d, e>> \in LinesOf(manager)
BY DEF ReportsOf, LinesOf

\* Whoever is n hops below a root at most is so many hops more below it.
LEMMA HopsGrow ==
    ASSUME NEW r \in Id, IsFiniteSet(Id),
           NEW j \in 0..Cardinality(Id), NEW k \in j..Cardinality(Id)
    PROVE  Hops(r)[j] \subseteq Hops(r)[k]
<1> DEFINE K == Cardinality(Id)
           H == Hops(r)
           T == {i \in Nat : j + i <= K => H[j] \subseteq H[j + i]}
<1>1. K \in Nat /\ HopsTo(r, K, H)
  BY FS_CardinalityType, HopsEquation
<1> HIDE DEF H, K
<1>2. 0 \in T
  <2>1. j + 0 = j
    OBVIOUS
  <2> QED
    BY <2>1
<1>3. ASSUME NEW i \in Nat, i \in T PROVE i + 1 \in T
  <2>1. SUFFICES ASSUME j + (i + 1) <= K PROVE H[j] \subseteq H[j + (i + 1)]
    OBVIOUS
  <2>2. j \in Nat /\ j + i \in 0..(K - 1) /\ j + (i + 1) = (j + i) + 1
    BY <1>1, <2>1 DEF K
  <2>3. H[j] \subseteq H[j + i]
    BY <1>1, <1>3, <2>2
  <2>4. H[(j + i) + 1] = H[j + i] \cup ReportsOf(H[j + i])
    BY <1>1, <2>2 DEF HopsTo
  <2> QED
    BY <2>2, <2>3, <2>4
<1> HIDE DEF T
<1>4. Nat \subseteq T
  BY <1>2, <1>3, HoldsAllNumbers
<1>5. k - j \in Nat /\ j + (k - j) = k /\ k <= K
  BY <1>1 DEF K
<1> QED
  BY <1>4, <1>5 DEF T, H
=============================================================================
