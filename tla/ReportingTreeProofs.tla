------------------------- MODULE ReportingTreeProofs -------------------------
(***************************************************************************)
(* Proofs about ReportingTree, and about DirectReports, which shares its   *)
(* steps, for every directory, every batch size and any number of          *)
(* concurrent changes.  The argument for the tree is the inductive         *)
(* invariant IInv: the folded DNs met so far are exactly those asked about *)
(* or still to be asked about; every line that held throughout and leaves  *)
(* somebody already asked about leads to somebody already met or in hand;  *)
(* and everybody met or in hand is below the root through lines that held. *)
(***************************************************************************)
EXTENDS DirectReports, DirectoryProofs

Where ==
    /\ status = "resolving" => root = NoRoot
    /\ status \in {"asking", "merging", "done"} => root \in Id
    /\ status = "asking" => new = <<>>
    /\ status = "merging" => rest = <<>>
    /\ status = "done" => rest = <<>> /\ found = <<>> /\ new = <<>>

Blank == root = NoRoot => /\ rest = <<>>
                          /\ found = <<>>
                          /\ new = <<>>
                          /\ tree = <<>>
                          /\ seen = {}
                          /\ asked = {}

Met ==
    /\ seen = asked \cup Ids(rest) \cup Ids(new)
    /\ root \in Id => seen = {root} \cup Ids(tree) \cup Ids(new)

Once == Distinct(tree \o new) /\ root \notin Ids(tree) \cup Ids(new)

Lines == always \subseteq LinesOf(manager) /\ LinesOf(manager) \subseteq ever

Sound == root \in Id => seen \cup Ids(found) \subseteq Below(root, ever)

Complete == \A l \in always : l[1] \in asked => l[2] \in seen \cup Ids(found)

Count ==
    /\ terms = Cardinality(asked)
    /\ Distinct(rest)
    /\ asked \cap (Ids(rest) \cup Ids(new)) = {}

IInv == TypeOK /\ Where /\ Blank /\ Met /\ Once /\ Lines /\ Sound /\ Complete /\ Count

-----------------------------------------------------------------------------
(* Lists of DNs *)

\* The folded DNs of the empty list, of a concatenation, and of a list's parts.
LEMMA IdsOfLists ==
    ASSUME Fold \in [DN -> Id]
    PROVE  /\ Ids(<<>>) = {}
           /\ \A s \in Seq(DN) : Ids(s) \subseteq Id
           /\ \A s, t \in Seq(DN) : Ids(s \o t) = Ids(s) \cup Ids(t)
           /\ \A s \in Seq(DN), x \in DN :
                 Ids(Append(s, x)) = Ids(s) \cup {Fold[x]}
           /\ \A s \in Seq(DN) : s # <<>> =>
                 /\ Head(s) \in DN
                 /\ Tail(s) \in Seq(DN)
                 /\ Ids(s) = {Fold[Head(s)]} \cup Ids(Tail(s))
  <1>1. Ids(<<>>) = {}
    BY DEF Ids
  <1>2. \A s \in Seq(DN) : Ids(s) \subseteq Id
    BY DEF Ids
  <1>3. ASSUME NEW s \in Seq(DN), NEW t \in Seq(DN)
        PROVE  Ids(s \o t) = Ids(s) \cup Ids(t)
    <2>1. Ids(s \o t) \subseteq Ids(s) \cup Ids(t)
      BY DEF Ids
    <2>2. \A i \in DOMAIN s : i \in DOMAIN (s \o t) /\ (s \o t)[i] = s[i]
      OBVIOUS
    <2>3. \A i \in DOMAIN t : /\ Len(s) + i \in DOMAIN (s \o t)
                              /\ (s \o t)[Len(s) + i] = t[i]
      OBVIOUS
    <2>4. Ids(s) \subseteq Ids(s \o t)
      BY <2>2 DEF Ids
    <2>5. ASSUME NEW i \in DOMAIN t PROVE Fold[t[i]] \in Ids(s \o t)
      <3>1. Fold[(s \o t)[Len(s) + i]] \in Ids(s \o t)
        BY <2>3 DEF Ids
      <3> QED
        BY <2>3, <3>1
    <2>6. Ids(t) \subseteq Ids(s \o t)
      BY <2>5 DEF Ids
    <2> QED
      BY <2>1, <2>4, <2>6
  <1>4. ASSUME NEW s \in Seq(DN), NEW x \in DN
        PROVE  Ids(Append(s, x)) = Ids(s) \cup {Fold[x]}
    <2>1. /\ Len(s) + 1 \in DOMAIN Append(s, x)
          /\ Append(s, x)[Len(s) + 1] = x
      OBVIOUS
    <2>2. \A i \in DOMAIN s : i \in DOMAIN Append(s, x) /\ Append(s, x)[i] = s[i]
      OBVIOUS
    <2>3. \A i \in DOMAIN Append(s, x) : i \in DOMAIN s \/ i = Len(s) + 1
      OBVIOUS
    <2> QED
      BY <2>1, <2>2, <2>3 DEF Ids
  <1>5. ASSUME NEW s \in Seq(DN), s # <<>>
        PROVE  /\ Head(s) \in DN
               /\ Tail(s) \in Seq(DN)
               /\ Ids(s) = {Fold[Head(s)]} \cup Ids(Tail(s))
    <2>1. 1 \in DOMAIN s /\ s[1] = Head(s) /\ Head(s) \in DN /\ Tail(s) \in Seq(DN)
      BY <1>5
    <2>2. \A i \in DOMAIN Tail(s) : i + 1 \in DOMAIN s /\ Tail(s)[i] = s[i + 1]
      BY <1>5
    <2>3. \A i \in DOMAIN s : i = 1 \/ (i - 1 \in DOMAIN Tail(s) /\ Tail(s)[i - 1] = s[i])
      BY <1>5
    <2>4. ASSUME NEW i \in DOMAIN s
          PROVE  Fold[s[i]] \in {Fold[Head(s)]} \cup Ids(Tail(s))
      <3>1. CASE i - 1 \in DOMAIN Tail(s) /\ Tail(s)[i - 1] = s[i]
        BY <3>1 DEF Ids
      <3> QED
        BY <2>1, <2>3, <3>1
    <2>5. Ids(s) \subseteq {Fold[Head(s)]} \cup Ids(Tail(s))
      BY <2>4 DEF Ids
    <2>6. {Fold[Head(s)]} \cup Ids(Tail(s)) \subseteq Ids(s)
      BY <2>1, <2>2 DEF Ids
    <2> QED
      BY <2>1, <2>5, <2>6
  <1> QED
    BY <1>1, <1>2, <1>3, <1>4, <1>5

\* A batch and what it leaves are lists of DNs, and between them hold the same
\* entries as the list they were taken from.
LEMMA BatchSplits ==
    ASSUME Fold \in [DN -> Id], batch_size \in Nat \ {0},
           NEW s \in Seq(DN)
    PROVE  /\ Batch(s) \in Seq(DN)
           /\ Unasked(s) \in Seq(DN)
           /\ BatchLen(s) \in Nat
           /\ Ids(s) = Ids(Batch(s)) \cup Ids(Unasked(s))
  <1>1. BatchLen(s) \in 0..Len(s)
    BY DEF BatchLen
  <1>2. Batch(s) \in Seq(DN) /\ Len(Batch(s)) = BatchLen(s)
    BY <1>1 DEF Batch
  <1>3. Unasked(s) \in Seq(DN) /\ Len(Unasked(s)) = Len(s) - BatchLen(s)
    BY <1>1 DEF Unasked
  <1>4. \A i \in DOMAIN Batch(s) : i \in DOMAIN s /\ Batch(s)[i] = s[i]
    BY <1>1, <1>2 DEF Batch
  <1>5. \A i \in DOMAIN Unasked(s) : /\ i + BatchLen(s) \in DOMAIN s
                                     /\ Unasked(s)[i] = s[i + BatchLen(s)]
    BY <1>1, <1>3 DEF Unasked
  <1>6. \A i \in DOMAIN s :
          \/ i \in DOMAIN Batch(s)
          \/ /\ i - BatchLen(s) \in DOMAIN Unasked(s)
             /\ Unasked(s)[i - BatchLen(s)] = s[i]
    BY <1>1, <1>2, <1>3 DEF Unasked
  <1>7. Ids(s) \subseteq Ids(Batch(s)) \cup Ids(Unasked(s))
    BY <1>4, <1>6 DEF Ids
  <1>8. Ids(Batch(s)) \cup Ids(Unasked(s)) \subseteq Ids(s)
    BY <1>4, <1>5 DEF Ids
  <1> QED
    BY <1>1, <1>2, <1>3, <1>7, <1>8

\* The places of a batch, and of what it leaves, are as distinct as those of the
\* list they were taken from; so the batch is as long as it has entries.
LEMMA BatchDistinct ==
    ASSUME Fold \in [DN -> Id], batch_size \in Nat \ {0},
           NEW s \in Seq(DN), Distinct(s)
    PROVE  /\ Distinct(Unasked(s))
           /\ Ids(Batch(s)) \cap Ids(Unasked(s)) = {}
           /\ IsFiniteSet(Ids(Batch(s)))
           /\ Cardinality(Ids(Batch(s))) = BatchLen(s)
  <1> DEFINE n == BatchLen(s)
             B == Ids(Batch(s))
             f == [i \in 1..n |-> Fold[Batch(s)[i]]]
  <1>1. n \in 0..Len(s)
    BY DEF BatchLen
  <1>2. /\ Batch(s) \in Seq(DN) /\ Len(Batch(s)) = n
        /\ \A i \in 1..n : i \in DOMAIN s /\ Batch(s)[i] = s[i]
    BY <1>1 DEF Batch
  <1>3. /\ Unasked(s) \in Seq(DN) /\ Len(Unasked(s)) = Len(s) - n
        /\ \A i \in DOMAIN Unasked(s) : /\ i + n \in DOMAIN s
                                        /\ Unasked(s)[i] = s[i + n]
    BY <1>1 DEF Unasked
  <1>4. Distinct(Unasked(s))
    BY <1>1, <1>3 DEF Distinct
  <1>5. ASSUME NEW e \in B, e \in Ids(Unasked(s)) PROVE FALSE
    <2>1. PICK i \in 1..n : e = Fold[s[i]]
      BY <1>2 DEF Ids
    <2>2. PICK j \in DOMAIN Unasked(s) : e = Fold[s[j + n]]
      BY <1>3, <1>5 DEF Ids
    <2>3. i \in DOMAIN s /\ j + n \in DOMAIN s /\ i # j + n
      BY <1>1, <1>2, <1>3
    <2> QED
      BY <2>1, <2>2, <2>3 DEF Distinct
  <1>6. f \in Bijection(1..n, B)
    <2>1. f \in [1..n -> B]
      BY <1>2 DEF Ids
    <2>2. \A i, j \in 1..n : f[i] = f[j] => i = j
      BY <1>2 DEF Distinct
    <2>3. \A e \in B : \E i \in 1..n : f[i] = e
      BY <1>2 DEF Ids
    <2> HIDE DEF f, B, n
    <2> QED
      BY <2>1, <2>2, <2>3 DEF Bijection, Injection, Surjection, IsInjective
  <1>7. IsFiniteSet(1..n) /\ Cardinality(1..n) = n
    BY <1>1, FS_Interval
  <1> HIDE DEF f, B, n
  <1>8. ExistsBijection(1..n, B)
    BY <1>6 DEF ExistsBijection
  <1>9. IsFiniteSet(B) /\ Cardinality(B) = n
    BY <1>7, <1>8, FS_Bijection
  <1> QED
    BY <1>4, <1>5, <1>9 DEF B, n

\* A part of a list of distinct places is one.
LEMMA DistinctSuffix ==
    ASSUME NEW s \in Seq(DN), NEW t \in Seq(DN), Distinct(s \o t)
    PROVE  Distinct(t)
  <1>1. \A i \in DOMAIN t : /\ Len(s) + i \in DOMAIN (s \o t)
                            /\ (s \o t)[Len(s) + i] = t[i]
    OBVIOUS
  <1>2. ASSUME NEW i \in DOMAIN t, NEW j \in DOMAIN t, Fold[t[i]] = Fold[t[j]]
        PROVE  i = j
    <2>1. Len(s) + i = Len(s) + j
      BY <1>1, <1>2 DEF Distinct
    <2> QED
      BY <2>1
  <1> QED
    BY <1>2 DEF Distinct

\* Adding an entry a list does not hold yet keeps its places distinct.
LEMMA DistinctAppend ==
    ASSUME Fold \in [DN -> Id],
           NEW s \in Seq(DN), NEW x \in DN,
           Distinct(s), Fold[x] \notin Ids(s)
    PROVE  Distinct(Append(s, x))
  <1>1. \A i \in DOMAIN Append(s, x) :
           \/ i \in DOMAIN s /\ Append(s, x)[i] = s[i]
           \/ i = Len(s) + 1 /\ Append(s, x)[i] = x
    OBVIOUS
  <1>2. \A i \in DOMAIN s : Fold[s[i]] # Fold[x]
    BY DEF Ids
  <1> QED
    BY <1>1, <1>2 DEF Distinct

-----------------------------------------------------------------------------
(* The invariant *)

LEMMA IInvInit == Init => IInv
  <1> SUFFICES ASSUME Init PROVE IInv
    OBVIOUS
  <1> USE DirectoryAssumption, ReportingTreeAssumption
  <1>1. Ids(<<>>) = {} /\ <<>> \o <<>> = <<>> /\ <<>> \in Seq(DN)
    BY IdsOfLists
  <1>2. LinesOf(manager) \subseteq Id \X Id
    BY DEF LinesOf
  <1>3. TypeOK
    BY <1>1, <1>2 DEF Init, DirInit, TypeOK, DirTypeOK, Status, Managers
  <1>4. Where /\ Blank /\ Lines /\ Sound /\ Complete
    BY DEF Init, DirInit, Where, Blank, Lines, Sound, Complete
  <1>5. Met /\ Once /\ Count
    BY <1>1, FS_EmptySet DEF Init, Met, Once, Count, Distinct
  <1> QED
    BY <1>3, <1>4, <1>5 DEF IInv

LEMMA IInvStep == IInv /\ [Next]_vars => IInv'
  <1> SUFFICES ASSUME IInv, [Next]_vars PROVE IInv'
    OBVIOUS
  <1> USE ReportingTreeAssumption, DirectoryAssumption
  <1> USE DEF IInv
  <1>t. TypeOK /\ DirTypeOK
    BY DEF TypeOK
  <1>1. CASE Resolve
    <2>1. PICK d \in DN : /\ root' = Fold[d]
                          /\ rest' = <<d>>
                          /\ seen' = {Fold[d]}
      BY <1>1 DEF Resolve, SeenFirst, Key
    <2>2. /\ status = "resolving" /\ status' = "asking"
          /\ UNCHANGED <<dirVars, batch_size, found, new, tree, asked, terms>>
      BY <1>1 DEF Resolve, SeenFirst, Key
    <2>3. /\ root = NoRoot /\ found = <<>> /\ new = <<>> /\ tree = <<>>
          /\ asked = {}
      BY <2>2 DEF Where, Blank
    <2>4. Fold[d] \in Id /\ Ids(<<d>>) = {Fold[d]} /\ Ids(<<>>) = {}
      BY IdsOfLists DEF Ids
    <2>5. TypeOK'
      BY <1>t, <2>1, <2>2, <2>4 DEF TypeOK, DirTypeOK, dirVars, Status
    <2>6. Where' /\ Blank'
      BY <2>1, <2>2, <2>3, <2>4 DEF Where, Blank
    <2>7. Met' /\ Once' /\ Count'
      BY <2>1, <2>2, <2>3, <2>4 DEF Met, Once, Count, Distinct
    <2>8. Lines' /\ Complete'
      BY <2>2, <2>3 DEF Lines, Complete, dirVars
    <2>9. Sound'
      <3>1. ever \in SUBSET (Id \X Id)
        BY <1>t DEF DirTypeOK
      <3>2. root' \in Below(root', ever)
        BY <2>1, <2>4, <3>1, BelowCloses
      <3> QED
        BY <2>1, <2>2, <2>3, <2>4, <3>2 DEF Sound, dirVars
    <2> QED
      BY <2>5, <2>6, <2>7, <2>8, <2>9
  <1>2. CASE ResolveNotFound \/ QueryFails \/ BatchRefused \/ LevelAsked
    <2>1. /\ UNCHANGED <<dirVars, batch_size, root, rest, found, new, seen, tree, asked, terms>>
          /\ \/ status' \in {"not found", "failed", "crashed"}
             \/ status = "asking" /\ rest = <<>> /\ status' = "merging"
      BY <1>2 DEF ResolveNotFound, QueryFails, AfterFailure, BatchRefused,
                   AfterRefusal, LevelAsked
    <2>2. TypeOK'
      BY <1>t, <2>1 DEF TypeOK, DirTypeOK, dirVars, Status
    <2>3. Where' /\ Blank'
      BY <2>1 DEF Where, Blank
    <2>4. Met' /\ Once' /\ Count' /\ Lines' /\ Sound' /\ Complete'
      BY <2>1 DEF Met, Once, Count, Lines, Sound, Complete, dirVars
    <2> QED
      BY <2>2, <2>3, <2>4
  <1>3. CASE AskBatch
    <2> DEFINE B == Ids(Batch(rest))
    <2>1. PICK ans \in AnswersOf(ReportsOf(B)) : found' = found \o ans
      BY <1>3 DEF AskBatch, Selected
    <2>int. batch_size \in Int
      BY <1>t DEF TypeOK
    <2>2. /\ status = "asking" /\ rest # <<>> /\ batch_size \in Nat \ {0}
          /\ rest' = Unasked(rest) /\ asked' = asked \cup B
          /\ terms' = terms + BatchLen(rest)
          /\ UNCHANGED <<dirVars, batch_size, status, root, new, seen, tree>>
      BY <1>3, <2>int DEF AskBatch, Selected
    <2>3. rest \in Seq(DN) /\ found \in Seq(DN)
      BY <1>t DEF TypeOK
    <2>4. /\ Batch(rest) \in Seq(DN) /\ Unasked(rest) \in Seq(DN)
          /\ BatchLen(rest) \in Nat
          /\ Ids(rest) = B \cup Ids(Unasked(rest))
      BY <2>2, <2>3, BatchSplits
    <2>5. ans \in Seq(DN) /\ Ids(ans) = ReportsOf(B)
      <3>1. Cardinality(ReportsOf(B)) \in Nat
        BY FS_Subset, FS_CardinalityType DEF ReportsOf
      <3>2. ans \in [1..Cardinality(ReportsOf(B)) -> DN]
        BY DEF AnswersOf
      <3> QED
        BY <3>1, <3>2 DEF AnswersOf
    <2>6. found' \in Seq(DN) /\ Ids(found') = Ids(found) \cup ReportsOf(B)
      BY <2>1, <2>3, <2>5, IdsOfLists
    <2>7. B \subseteq Id
      BY <2>4, IdsOfLists
    <2>8. TypeOK'
      BY <1>t, <2>2, <2>4, <2>6, <2>7 DEF TypeOK, DirTypeOK, dirVars
    <2>9. Where' /\ Blank'
      BY <2>2 DEF Where, Blank
    <2>10. Met' /\ Once'
      BY <2>2, <2>4 DEF Met, Once
    <2>11. Lines'
      BY <2>2 DEF Lines, dirVars
    <2>12. Sound'
      <3>1. ever \in SUBSET (Id \X Id) /\ root \in Id
        BY <1>t, <2>2 DEF DirTypeOK, Where
      <3>2. B \subseteq Below(root, ever)
        BY <2>4, <3>1 DEF Sound, Met
      <3>3. \A e \in Id : \A m \in B : m \in manager[e] => <<m, e>> \in ever
        BY <2>7 DEF Lines, LinesOf
      <3>4. ReportsOf(B) \subseteq Below(root, ever)
        <4>1. SUFFICES ASSUME NEW e \in ReportsOf(B) PROVE e \in Below(root, ever)
          OBVIOUS
        <4>2. PICK m \in B : m \in manager[e]
          BY DEF ReportsOf
        <4>3. \A l \in ever : l[1] \in Below(root, ever) => l[2] \in Below(root, ever)
          BY <3>1, BelowCloses
        <4>4. <<m, e>> \in ever /\ m \in Below(root, ever)
          BY <3>2, <3>3 , <4>2 DEF ReportsOf
        <4> QED
          BY <4>3, <4>4
      <3> QED
        BY <2>2, <2>6, <3>4 DEF Sound, dirVars
    <2>13. Complete'
      <3>1. SUFFICES ASSUME NEW l \in always, l[1] \in asked \cup B
                     PROVE  l[2] \in seen \cup Ids(found')
        BY <2>2 DEF Complete, dirVars
      <3>2. CASE l[1] \in B
        <4>1. l[2] \in Id /\ l[1] \in manager[l[2]]
          BY DEF Lines, LinesOf
        <4> QED
          BY <2>6, <3>2, <4>1 DEF ReportsOf
      <3> QED
        BY <2>6, <3>1, <3>2 DEF Complete
    <2>14. Count'
      <3>1. /\ Distinct(Unasked(rest)) /\ B \cap Ids(Unasked(rest)) = {}
            /\ IsFiniteSet(B) /\ Cardinality(B) = BatchLen(rest)
        BY <2>2, <2>3, BatchDistinct DEF Count
      <3>2. new = <<>> /\ Ids(<<>>) = {}
        BY <2>2 DEF Where, Ids
      <3>3. asked \cap B = {} /\ (asked \cup B) \cap Ids(Unasked(rest)) = {}
        BY <2>4, <3>1 DEF Count
      <3>4. IsFiniteSet(asked)
        BY <1>t, FS_Subset DEF TypeOK
      <3> HIDE DEF B
      <3>5. Cardinality(asked \cup B) = Cardinality(asked) + Cardinality(B)
        <4>1. /\ Cardinality(asked \cup B)
                   = Cardinality(asked) + Cardinality(B) - Cardinality(asked \cap B)
              /\ Cardinality(asked) \in Nat /\ Cardinality(B) \in Nat
          BY <3>1, <3>4, FS_Union, FS_CardinalityType
        <4>2. Cardinality(asked \cap B) = 0
          BY <3>3, FS_EmptySet
        <4> QED
          BY <4>1, <4>2
      <3>6. terms' = Cardinality(asked')
        BY <2>2, <3>1, <3>5 DEF Count
      <3> QED
        BY <2>2, <3>1, <3>2, <3>3, <3>6 DEF Count
    <2> QED
      BY <2>8, <2>9, <2>10, <2>11, <2>12, <2>13, <2>14
  <1>4. CASE MergeReport
    <2> DEFINE x == Head(found)
    <2>1. /\ status = "merging" /\ found # <<>> /\ found' = Tail(found)
          /\ UNCHANGED <<dirVars, batch_size, status, root, rest, tree, asked, terms>>
      BY <1>4 DEF MergeReport, AlreadySeen, Key
    <2>2. /\ x \in DN /\ Tail(found) \in Seq(DN)
          /\ Ids(found) = {Fold[x]} \cup Ids(Tail(found))
          /\ Fold[x] \in Id
      BY <1>t, <2>1, IdsOfLists DEF TypeOK
    <2>3. root \in Id /\ new \in Seq(DN) /\ tree \in Seq(DN)
      BY <1>t, <2>1 DEF Where, TypeOK
    <2>4. Lines' /\ Where' /\ Blank'
      BY <2>1, <2>3 DEF Lines, Where, Blank, dirVars
    <2>5. CASE Fold[x] \in seen
      <3>1. UNCHANGED <<seen, new>>
        BY <1>4, <2>5 DEF MergeReport, AlreadySeen, Key
      <3>2. TypeOK'
        BY <1>t, <2>1, <2>2, <3>1 DEF TypeOK, DirTypeOK, dirVars
      <3>3. Met' /\ Once' /\ Count'
        BY <2>1, <3>1 DEF Met, Once, Count
      <3>4. Sound' /\ Complete'
        BY <2>1, <2>2, <2>5, <3>1 DEF Sound, Complete, dirVars
      <3> QED
        BY <2>4, <3>2, <3>3, <3>4
    <2>6. CASE Fold[x] \notin seen
      <3>1. seen' = seen \cup {Fold[x]} /\ new' = Append(new, x)
        BY <1>4, <2>6 DEF MergeReport, AlreadySeen, Key
      <3>2. new' \in Seq(DN) /\ Ids(new') = Ids(new) \cup {Fold[x]}
        BY <2>2, <2>3, <3>1, IdsOfLists
      <3>3. TypeOK'
        BY <1>t, <2>1, <2>2, <3>1, <3>2 DEF TypeOK, DirTypeOK, dirVars
      <3>4. Met'
        BY <2>1, <3>1, <3>2 DEF Met
      <3>5. Once'
        <4>1. tree \o new \in Seq(DN) /\ Ids(tree \o new) = Ids(tree) \cup Ids(new)
          BY <2>3, IdsOfLists
        <4>2. Fold[x] \notin Ids(tree \o new)
          BY <2>3, <2>6, <4>1 DEF Met
        <4>3. Distinct(Append(tree \o new, x))
          BY <2>2, <4>1, <4>2, DistinctAppend DEF Once
        <4>4. tree' \o new' = Append(tree \o new, x)
          BY <2>1, <2>2, <2>3, <3>1
        <4>5. Distinct(tree' \o new')
          BY <4>3, <4>4
        <4>6. root' \notin Ids(tree') \cup Ids(new')
          BY <2>1, <2>3, <2>6, <3>2 DEF Met, Once
        <4> QED
          BY <4>5, <4>6 DEF Once
      <3>6. Sound' /\ Complete'
        BY <2>1, <2>2, <3>1 DEF Sound, Complete, dirVars
      <3>7. Count'
        BY <2>1, <2>6, <3>2 DEF Count, Met
      <3> QED
        BY <2>4, <3>3, <3>4, <3>5, <3>6, <3>7
    <2> QED
      BY <2>5, <2>6
  <1>5. CASE EndLevel
    <2>1. /\ status = "merging" /\ found = <<>>
          /\ tree' = tree \o new /\ rest' = new /\ new' = <<>>
          /\ status' = IF new # <<>> THEN "asking" ELSE "done"
          /\ UNCHANGED <<dirVars, batch_size, root, found, seen, asked, terms>>
      BY <1>5 DEF EndLevel, Extended, NextLevel, GoesOn
    <2>2. root \in Id /\ rest = <<>> /\ new \in Seq(DN) /\ tree \in Seq(DN)
      BY <1>t, <2>1 DEF Where, TypeOK
    <2>3. /\ tree' \in Seq(DN) /\ Ids(tree') = Ids(tree) \cup Ids(new)
          /\ Ids(<<>>) = {} /\ tree' \o new' = tree \o new
      BY <2>1, <2>2, IdsOfLists
    <2>4. TypeOK'
      BY <1>t, <2>1, <2>2, <2>3 DEF TypeOK, DirTypeOK, dirVars, Status
    <2>5. Where' /\ Blank' /\ Lines'
      BY <2>1, <2>2 DEF Where, Blank, Lines, dirVars
    <2>6. Met'
      BY <2>1, <2>2, <2>3 DEF Met
    <2>7. Once'
      BY <2>1, <2>3 DEF Once
    <2>8. Sound' /\ Complete'
      BY <2>1 DEF Sound, Complete, dirVars
    <2>9. Count'
      BY <2>1, <2>2, <2>3, DistinctSuffix DEF Once, Count
    <2> QED
      BY <2>4, <2>5, <2>6, <2>7, <2>8, <2>9
  <1>6. CASE DirectoryChange
    <2>1. /\ DirTypeOK'
          /\ ever' = ever \cup LinesOf(manager')
          /\ always' = always \cap LinesOf(manager')
      BY <1>t, <1>6, ChangeEffect DEF DirectoryChange
    <2>2. UNCHANGED walkVars
      BY <1>6 DEF DirectoryChange
    <2>3. TypeOK'
      BY <1>t, <2>1, <2>2 DEF TypeOK, walkVars
    <2>4. Where' /\ Blank' /\ Met' /\ Once' /\ Count'
      BY <2>2 DEF Where, Blank, Met, Once, Count, walkVars
    <2>5. Lines'
      BY <2>1 DEF Lines
    <2>6. Sound'
      BY <2>1, <2>2, BelowGrows DEF Sound, walkVars
    <2>7. Complete'
      BY <2>1, <2>2 DEF Complete, walkVars
    <2> QED
      BY <2>3, <2>4, <2>5, <2>6, <2>7
  <1>7. CASE UNCHANGED vars
    <2>1. UNCHANGED <<dirVars, walkVars>>
      BY <1>7 DEF vars
    <2>2. TypeOK'
      BY <1>t, <2>1 DEF TypeOK, DirTypeOK, dirVars, walkVars
    <2>3. Where' /\ Blank' /\ Met' /\ Once' /\ Count'
      BY <2>1 DEF Where, Blank, Met, Once, Count, walkVars
    <2>4. Lines' /\ Sound' /\ Complete'
      BY <2>1 DEF Lines, Sound, Complete, dirVars, walkVars
    <2> QED
      BY <2>2, <2>3, <2>4
  <1> QED
    BY <1>1, <1>2, <1>3, <1>4, <1>5, <1>6, <1>7 DEF Next, Walk

LEMMA IInvHolds == Spec => []IInv
  BY IInvInit, IInvStep, PTL DEF Spec

-----------------------------------------------------------------------------
(* What follows *)

\* Every variable of the walk keeps its type, whatever the directory does.
THEOREM TypeCorrect == Spec => []TypeOK
  <1>1. IInv => TypeOK
    BY DEF IInv
  <1> QED
    BY <1>1, IInvHolds, PTL

\* The list under construction never holds two DNs of one entry.
THEOREM ListsEachUserOnce == Spec => []EachUserOnce
  <1>1. IInv => EachUserOnce
    BY DEF IInv, Once, EachUserOnce
  <1> QED
    BY <1>1, IInvHolds, PTL

\* Cycles never list the root among its own reports.
THEOREM NeverListsRoot == Spec => []RootNotListed
  <1>1. ASSUME IInv PROVE RootNotListed
    <2>1. Ids(tree \o new) = Ids(tree) \cup Ids(new)
      BY <1>1, IdsOfLists, ReportingTreeAssumption DEF IInv, TypeOK
    <2> QED
      BY <1>1, <2>1 DEF IInv, Once, RootNotListed
  <1> QED
    BY <1>1, IInvHolds, PTL

\* No manager is asked about twice: the queries carry one clause per manager.
THEOREM AsksOnce == Spec => []NoManagerAskedTwice
  <1>1. IInv => NoManagerAskedTwice
    BY DEF IInv, Count, NoManagerAskedTwice
  <1> QED
    BY <1>1, IInvHolds, PTL

\* A finished walk has asked for the reports of everybody it lists.
THEOREM AsksAboutEveryone == Spec => []EveryoneAsked
  <1>1. ASSUME IInv PROVE EveryoneAsked
    <2>1. Ids(<<>>) = {}
      BY DEF Ids
    <2> QED
      BY <1>1, <2>1 DEF IInv, Where, Met, EveryoneAsked
  <1> QED
    BY <1>1, IInvHolds, PTL

\* Soundness: nobody is listed who was never below the root during the call.
THEOREM ListsOnlyReports == Spec => []OnlyReports
  <1>1. ASSUME IInv PROVE OnlyReports
    <2>1. CASE root \in Id
      BY <1>1, <2>1 DEF IInv, Met, Sound, OnlyReports
    <2>2. CASE root = NoRoot
      BY <1>1, <2>2 DEF IInv, Blank, OnlyReports, Ids
    <2> QED
      BY <1>1, <2>1, <2>2 DEF IInv, TypeOK
  <1> QED
    BY <1>1, IInvHolds, PTL

\* When a level is empty, those met are closed under the lines that held throughout.
LEMMA DoneIsClosed ==
    ASSUME IInv, status \in {"merging", "done"}, found = <<>>, new = <<>>
    PROVE  /\ root \in Id
           /\ Below(root, always) \subseteq seen
           /\ seen = {root} \cup Ids(tree)
           /\ root \notin Ids(tree)
  <1>1. Ids(<<>>) = {}
    BY DEF Ids
  <1>2. /\ root \in Id /\ seen = asked /\ seen = {root} \cup Ids(tree)
        /\ Ids(found) = {}
    BY <1>1 DEF IInv, Where, Met
  <1>3. ClosedUnder(seen, always) /\ seen \in SUBSET Id /\ root \in seen
    BY <1>2 DEF IInv, Complete, ClosedUnder, TypeOK
  <1>4. Below(root, always) \subseteq seen
    BY <1>2, <1>3, BelowLeast
  <1> QED
    BY <1>2, <1>4 DEF IInv, Once

\* Completeness: nobody who was below the root throughout is left out.
THEOREM MissesNobody == Spec => []NobodyMissed
  <1>1. ASSUME IInv PROVE NobodyMissed
    BY <1>1, DoneIsClosed DEF NobodyMissed, IInv, Where
  <1> QED
    BY <1>1, IInvHolds, PTL

-----------------------------------------------------------------------------
(* Breadth first *)

\* Nobody stands in the list before somebody nearer the root.
Sorted(s) ==
    \A n \in DOMAIN Hops(root) : \A j \in DOMAIN s : \A i \in 1..(j - 1) :
        Fold[s[j]] \in Hops(root)[n] => Fold[s[i]] \in Hops(root)[n]

\* The level being asked about is k hops below the root: the tree holds everybody as
\* near as that, and what is found or new is one hop further at most.
AtLevel(k) ==
    /\ {root} \cup Ids(tree) = Hops(root)[k]
    /\ Ids(found) \cup Ids(new) \subseteq Hops(root)[k] \cup ReportsOf(Hops(root)[k])
    /\ Cardinality(Hops(root)[k]) > k

\* While nothing changes, the walk is at some level, and the tree is in order.
LevelInv ==
    changes = 0 =>
        /\ always = LinesOf(manager)
        /\ status \in {"asking", "merging", "done"} =>
             Sorted(tree) /\ \E k \in 0..(Cardinality(Id) - 1) : AtLevel(k)

\* The hops from the root, as the lemmas about them are used here.
LEMMA RootHops ==
    ASSUME root \in Id
    PROVE  /\ Cardinality(Id) \in Nat
           /\ Hops(root) \in [0..Cardinality(Id) -> SUBSET Id]
           /\ Hops(root)[0] = {root}
           /\ \A k \in 0..(Cardinality(Id) - 1) :
                Hops(root)[k + 1] = Hops(root)[k] \cup ReportsOf(Hops(root)[k])
           /\ \A j \in 0..Cardinality(Id) : \A k \in j..Cardinality(Id) :
                Hops(root)[j] \subseteq Hops(root)[k]
<1> USE DirectoryAssumption
<1>1. HopsTo(root, Cardinality(Id), Hops(root))
  BY HopsEquation
<1>2. \A j \in 0..Cardinality(Id) : \A k \in j..Cardinality(Id) :
        Hops(root)[j] \subseteq Hops(root)[k]
  BY HopsGrow
<1>3. Cardinality(Id) \in Nat
  BY FS_CardinalityType
<1> QED
  BY <1>1, <1>2, <1>3 DEF HopsTo

\* A level that is not empty is the next one: there is room for it, the tree extended by
\* it holds everybody as near as it, and it belongs behind everybody nearer.
LEMMA LevelBelow ==
    ASSUME IInv, status = "merging", found = <<>>, new # <<>>,
           always = LinesOf(manager), Sorted(tree),
           NEW k \in 0..(Cardinality(Id) - 1), AtLevel(k)
    PROVE  /\ k + 1 \in 0..(Cardinality(Id) - 1)
           /\ {root} \cup Ids(tree \o new) = Hops(root)[k + 1]
           /\ Cardinality(Hops(root)[k + 1]) > k + 1
           /\ Sorted(tree \o new)
<1> DEFINE K == Cardinality(Id)
           H == Hops(root)
<1> USE DirectoryAssumption, ReportingTreeAssumption
<1>1. root \in Id /\ tree \in Seq(DN) /\ new \in Seq(DN) /\ rest = <<>>
  BY DEF IInv, Where, TypeOK
<1>2. /\ K \in Nat /\ H \in [0..K -> SUBSET Id]
      /\ H[k + 1] = H[k] \cup ReportsOf(H[k])
      /\ \A i \in 0..K : \A j \in i..K : H[i] \subseteq H[j]
  BY <1>1, RootHops
<1>3. Ids(<<>>) = {} /\ Ids(tree \o new) = Ids(tree) \cup Ids(new) /\ Ids(new) \subseteq Id
  BY <1>1, IdsOfLists
<1>4. H[k] = {root} \cup Ids(tree) /\ Ids(new) \subseteq H[k] \cup ReportsOf(H[k])
  BY DEF AtLevel
<1>5. asked = H[k] /\ seen = H[k] \cup Ids(new) /\ asked \subseteq seen
  <2>1. seen = asked \cup Ids(new) /\ seen = {root} \cup Ids(tree) \cup Ids(new)
    BY <1>1, <1>3 DEF IInv, Met
  <2>2. asked \cap Ids(new) = {}
    BY DEF IInv, Count
  <2>3. Ids(new) \cap ({root} \cup Ids(tree)) = {}
    <3>1. ASSUME NEW e \in Ids(new), e \in Ids(tree) PROVE FALSE
      <4>1. PICK i \in DOMAIN new, j \in DOMAIN tree : e = Fold[new[i]] /\ e = Fold[tree[j]]
        BY <3>1 DEF Ids
      <4>2. /\ j \in DOMAIN (tree \o new) /\ (tree \o new)[j] = tree[j]
            /\ Len(tree) + i \in DOMAIN (tree \o new) /\ (tree \o new)[Len(tree) + i] = new[i]
            /\ j # Len(tree) + i
        BY <1>1
      <4> QED
        BY <4>1, <4>2 DEF IInv, Once, Distinct
    <3> QED
      BY <3>1 DEF IInv, Once
  <2> QED
    BY <1>4, <2>1, <2>2, <2>3
<1>6. ReportsOf(H[k]) \subseteq seen
  <2>1. \A d \in H[k], e \in Id : <<d, e>> \in LinesOf(manager) => e \in seen
    BY <1>3, <1>5 DEF IInv, Complete
  <2>2. H[k] \in SUBSET Id
    BY <1>2
  <2>3. /\ ReportsOf(H[k]) \subseteq Id
        /\ \A e \in Id : e \in ReportsOf(H[k]) => \E d \in H[k] : <<d, e>> \in LinesOf(manager)
    BY <2>2, ReportsAreLines
  <2> HIDE DEF H
  <2> QED
    BY <2>1, <2>3
<1>7. seen = H[k + 1]
  BY <1>2, <1>4, <1>5, <1>6
<1>8. {root} \cup Ids(tree \o new) = H[k + 1]
  BY <1>3, <1>4, <1>5, <1>7
<1>9. Ids(new) # {} /\ Ids(new) \cap H[k] = {}
  <2>1. 1 \in DOMAIN new
    BY <1>1
  <2>2. asked \cap Ids(new) = {}
    BY DEF IInv, Count
  <2> QED
    BY <1>5, <2>1, <2>2 DEF Ids
<1>10. Cardinality(H[k + 1]) > k + 1 /\ Cardinality(H[k + 1]) <= K
  <2>1. H[k] \in SUBSET H[k + 1] /\ H[k + 1] \in SUBSET Id /\ H[k] # H[k + 1]
    BY <1>2, <1>5, <1>7, <1>9
  <2>2. IsFiniteSet(H[k + 1]) /\ Cardinality(H[k + 1]) <= K
    BY <2>1, FS_Subset
  <2>3. /\ IsFiniteSet(H[k]) /\ Cardinality(H[k]) <= Cardinality(H[k + 1])
        /\ Cardinality(H[k]) # Cardinality(H[k + 1])
    BY <2>1, <2>2, FS_Subset
  <2>4. Cardinality(H[k]) \in Nat /\ Cardinality(H[k + 1]) \in Nat /\ Cardinality(H[k]) > k
    BY <2>2, <2>3, FS_CardinalityType DEF AtLevel
  <2> QED
    BY <2>2, <2>3, <2>4
<1>11. k + 1 \in 0..(K - 1)
  <2>1. IsFiniteSet(H[k + 1])
    BY <1>2, FS_Subset
  <2> QED
    BY <1>2, <1>10, <2>1, FS_CardinalityType
<1>12. ASSUME NEW n \in 0..K, NEW j \in DOMAIN (tree \o new), NEW i \in 1..(j - 1),
              Fold[(tree \o new)[j]] \in H[n]
       PROVE  Fold[(tree \o new)[i]] \in H[n]
  <2>1. CASE j \in DOMAIN tree
    <3>1. i \in DOMAIN tree /\ (tree \o new)[j] = tree[j] /\ (tree \o new)[i] = tree[i]
      BY <1>1, <2>1
    <3> QED
      BY <1>2, <1>12, <2>1, <3>1 DEF Sorted
  <2>2. CASE j \notin DOMAIN tree
    <3>1. j - Len(tree) \in DOMAIN new /\ (tree \o new)[j] = new[j - Len(tree)]
      BY <1>1, <2>2
    <3>2. Fold[(tree \o new)[j]] \in Ids(new)
      BY <3>1 DEF Ids
    <3>3. n \notin 0..k
      BY <1>2, <1>9, <1>12, <3>2
    <3>4. H[k + 1] \subseteq H[n]
      BY <1>2, <1>11, <3>3
    <3>5. i \in DOMAIN (tree \o new)
      BY <1>1
    <3>6. Fold[(tree \o new)[i]] \in Ids(tree \o new)
      BY <3>5 DEF Ids
    <3> QED
      BY <1>8, <3>4, <3>6
  <2> QED
    BY <2>1, <2>2
<1>13. Sorted(tree \o new)
  BY <1>2, <1>12 DEF Sorted
<1> QED
  BY <1>8, <1>10, <1>11, <1>13

LEMMA LevelInit == Init => LevelInv
BY DEF Init, DirInit, LevelInv

LEMMA LevelStep == ASSUME IInv, LevelInv, [Next]_vars PROVE LevelInv'
<1> USE DirectoryAssumption, ReportingTreeAssumption
<1> DEFINE K == Cardinality(Id)
<1>t. TypeOK /\ DirTypeOK
  BY DEF IInv, TypeOK
<1>1. CASE Resolve
  <2>1. PICK d \in DN : root' = Fold[d] /\ rest' = <<d>>
    BY <1>1 DEF Resolve
  <2>2. /\ status = "resolving" /\ status' = "asking"
        /\ UNCHANGED <<dirVars, batch_size, found, new, tree, asked, terms>>
    BY <1>1 DEF Resolve
  <2>3. root' \in Id /\ found' = <<>> /\ new' = <<>> /\ tree' = <<>>
    BY <2>1, <2>2 DEF IInv, Where, Blank
  <2>4. Ids(<<>>) = {}
    BY DEF Ids
  <2>5. K \in Nat /\ Hops(root)'[0] = {root'}
    <3>1. K \in Nat
      BY FS_CardinalityType
    <3>2. (root \in Id => Hops(root)[0] = {root})'
      BY RootHops, PTL
    <3> QED
      BY <2>3, <3>1, <3>2
  <2>6. Cardinality({root'}) > 0 /\ 0 \in 0..(K - 1)
    <3>1. Cardinality({root'}) = 1
      BY FS_Singleton
    <3>2. K # 0
      BY <2>3, FS_EmptySet
    <3> QED
      BY <2>5, <3>1, <3>2
  <2>7. AtLevel(0)'
    BY <2>3, <2>4, <2>5, <2>6, Ids(found)' = {}, Ids(new)' = {}, Ids(tree)' = {} DEF AtLevel
  <2>8. Sorted(tree)'
    BY <2>3 DEF Sorted
  <2> QED
    BY <2>2, <2>6, <2>7, <2>8 DEF LevelInv, LinesOf, dirVars
<1>2. CASE ResolveNotFound \/ QueryFails \/ BatchRefused
  <2>1. UNCHANGED dirVars /\ status' \in {"not found", "failed", "crashed"}
    BY <1>2 DEF ResolveNotFound, QueryFails, AfterFailure, BatchRefused, AfterRefusal
  <2> QED
    BY <2>1 DEF LevelInv, LinesOf, dirVars
<1>3. CASE LevelAsked
  <2>1. /\ status = "asking"
        /\ UNCHANGED <<dirVars, batch_size, root, rest, found, new, seen, tree, asked, terms>>
    BY <1>3 DEF LevelAsked
  <2>2. Hops(root)' = Hops(root) /\ LinesOf(manager)' = LinesOf(manager)
    BY <2>1 DEF Hops, ReportsOf, LinesOf, dirVars
  <2>3. \A k : AtLevel(k) => AtLevel(k)'
    BY <2>1, <2>2 DEF AtLevel, Ids, ReportsOf, dirVars
  <2>4. Sorted(tree) => Sorted(tree)'
    BY <2>1, <2>2 DEF Sorted
  <2> QED
    BY <2>1, <2>2, <2>3, <2>4 DEF LevelInv, dirVars
<1>4. CASE AskBatch
  <2> DEFINE B == Ids(Batch(rest))
  <2>int. batch_size \in Int
    BY <1>t DEF TypeOK
  <2>1. PICK ans \in AnswersOf(ReportsOf(B)) : found' = found \o ans
    BY <1>4 DEF AskBatch, Selected
  <2>2. /\ status = "asking" /\ batch_size \in Nat \ {0}
        /\ UNCHANGED <<dirVars, batch_size, status, root, new, seen, tree>>
    BY <1>4, <2>int DEF AskBatch
  <2>3. SUFFICES ASSUME changes = 0 PROVE LevelInv'
    BY <2>2 DEF LevelInv, dirVars
  <2>4. root \in Id /\ rest \in Seq(DN) /\ found \in Seq(DN)
    BY <2>2, <1>t DEF IInv, Where, TypeOK
  <2>5. B \subseteq Ids(rest) /\ B \subseteq Id
    BY <2>2, <2>4, BatchSplits, IdsOfLists
  <2>6. ans \in Seq(DN) /\ Ids(ans) = ReportsOf(B)
    <3>1. Cardinality(ReportsOf(B)) \in Nat
      BY FS_Subset, FS_CardinalityType DEF ReportsOf
    <3>2. ans \in [1..Cardinality(ReportsOf(B)) -> DN]
      BY DEF AnswersOf
    <3> QED
      BY <3>1, <3>2 DEF AnswersOf
  <2>7. Ids(found') = Ids(found) \cup ReportsOf(B)
    BY <2>1, <2>4, <2>6, IdsOfLists
  <2>8. PICK k \in 0..(K - 1) : AtLevel(k)
    BY <2>2, <2>3 DEF LevelInv
  <2>9. B \subseteq Hops(root)[k]
    <3>1. new = <<>> /\ Ids(<<>>) = {}
      BY <2>2, IdsOfLists DEF IInv, Where
    <3>2. Ids(rest) \subseteq {root} \cup Ids(tree)
      BY <2>4, <3>1 DEF IInv, Met
    <3> QED
      BY <2>5, <2>8, <3>2 DEF AtLevel
  <2>10. ReportsOf(B) \subseteq ReportsOf(Hops(root)[k])
    BY <2>9 DEF ReportsOf
  <2>11. Hops(root)' = Hops(root) /\ LinesOf(manager)' = LinesOf(manager)
    BY <2>2 DEF Hops, ReportsOf, LinesOf, dirVars
  <2>12. AtLevel(k)'
    BY <2>2, <2>7, <2>8, <2>10, <2>11 DEF AtLevel, Ids, ReportsOf, dirVars
  <2>13. Sorted(tree)'
    BY <2>2, <2>3, <2>11 DEF Sorted, LevelInv
  <2> QED
    BY <2>2, <2>3, <2>11, <2>12, <2>13 DEF LevelInv, dirVars
<1>5. CASE MergeReport
  <2> DEFINE x == Head(found)
  <2>1. /\ status = "merging" /\ found # <<>> /\ found' = Tail(found)
        /\ UNCHANGED <<dirVars, batch_size, status, root, rest, tree, asked, terms>>
        /\ new' = new \/ new' = Append(new, x)
    BY <1>5 DEF MergeReport
  <2>2. SUFFICES ASSUME changes = 0 PROVE LevelInv'
    BY <2>1 DEF LevelInv, dirVars
  <2>3. found \in Seq(DN) /\ new \in Seq(DN)
    BY <1>t DEF TypeOK
  <2>4. /\ x \in DN /\ Ids(found) = {Fold[x]} \cup Ids(found')
        /\ Ids(new') \subseteq Ids(new) \cup {Fold[x]}
    <3>1. x \in DN /\ Ids(found) = {Fold[x]} \cup Ids(Tail(found))
      BY <2>1, <2>3, IdsOfLists
    <3>2. Ids(Append(new, x)) = Ids(new) \cup {Fold[x]}
      BY <2>3, <3>1, IdsOfLists
    <3> QED
      BY <2>1, <3>1, <3>2
  <2>5. PICK k \in 0..(K - 1) : AtLevel(k)
    BY <2>1, <2>2 DEF LevelInv
  <2>6. Hops(root)' = Hops(root) /\ LinesOf(manager)' = LinesOf(manager)
    BY <2>1 DEF Hops, ReportsOf, LinesOf, dirVars
  <2>7. Ids(found') \cup Ids(new') \subseteq Hops(root)[k] \cup ReportsOf(Hops(root)[k])
    BY <2>4, <2>5 DEF AtLevel
  <2>8. AtLevel(k)'
    BY <2>1, <2>5, <2>6, <2>7 DEF AtLevel, Ids, ReportsOf, dirVars
  <2>9. Sorted(tree)'
    BY <2>1, <2>2, <2>6 DEF Sorted, LevelInv
  <2> QED
    BY <2>1, <2>2, <2>6, <2>8, <2>9 DEF LevelInv, dirVars
<1>6. CASE EndLevel
  <2>1. /\ status = "merging" /\ found = <<>>
        /\ tree' = tree \o new /\ new' = <<>>
        /\ status' = IF new # <<>> THEN "asking" ELSE "done"
        /\ UNCHANGED <<dirVars, batch_size, root, found, seen, asked, terms>>
    BY <1>6 DEF EndLevel, Extended, GoesOn
  <2>2. SUFFICES ASSUME changes = 0 PROVE LevelInv'
    BY <2>1 DEF LevelInv, dirVars
  <2>3. /\ always = LinesOf(manager) /\ Sorted(tree)
        /\ root \in Id /\ tree \in Seq(DN) /\ Ids(<<>>) = {}
    BY <2>1, <2>2, <1>t, IdsOfLists DEF LevelInv, IInv, Where, TypeOK
  <2>4. PICK k \in 0..(K - 1) : AtLevel(k)
    BY <2>1, <2>2 DEF LevelInv
  <2>5. Hops(root)' = Hops(root) /\ LinesOf(manager)' = LinesOf(manager)
    BY <2>1 DEF Hops, ReportsOf, LinesOf, dirVars
  <2>6. \E i \in 0..(K - 1) : /\ {root} \cup Ids(tree \o new) = Hops(root)[i]
                              /\ Cardinality(Hops(root)[i]) > i
                              /\ Sorted(tree \o new)
    <3>1. CASE new # <<>>
      BY <2>1, <2>3, <2>4, <3>1, LevelBelow
    <3>2. CASE new = <<>>
      <4>1. tree \o new = tree
        BY <2>3, <3>2
      <4> QED
        BY <2>3, <2>4, <4>1 DEF AtLevel
    <3> QED
      BY <3>1, <3>2
  <2>7. PICK i \in 0..(K - 1) : /\ {root} \cup Ids(tree \o new) = Hops(root)[i]
                               /\ Cardinality(Hops(root)[i]) > i
    BY <2>6
  <2>8. AtLevel(i)'
    BY <2>1, <2>3, <2>5, <2>7 DEF AtLevel, Ids
  <2>9. Sorted(tree)'
    BY <2>1, <2>5, <2>6 DEF Sorted
  <2> QED
    BY <2>1, <2>3, <2>5, <2>8, <2>9 DEF LevelInv, dirVars
<1>7. CASE DirectoryChange
  <2>1. changes' = changes + 1 /\ changes \in Nat
    BY <1>7, <1>t, ChangeEffect DEF DirectoryChange, DirTypeOK
  <2> QED
    BY <2>1 DEF LevelInv
<1>8. CASE UNCHANGED vars
  <2>1. UNCHANGED <<dirVars, walkVars>>
    BY <1>8 DEF vars
  <2>2. Hops(root)' = Hops(root) /\ LinesOf(manager)' = LinesOf(manager)
    BY <2>1 DEF Hops, ReportsOf, LinesOf, dirVars, walkVars
  <2>3. \A k : AtLevel(k) => AtLevel(k)'
    BY <2>1, <2>2 DEF AtLevel, Ids, ReportsOf, dirVars, walkVars
  <2>4. Sorted(tree) => Sorted(tree)'
    BY <2>1, <2>2 DEF Sorted, walkVars
  <2> QED
    BY <2>1, <2>2, <2>3, <2>4 DEF LevelInv, dirVars, walkVars
<1> QED
  BY <1>1, <1>2, <1>3, <1>4, <1>5, <1>6, <1>7, <1>8 DEF Next, Walk

\* While nothing changes, the walk lists nobody before somebody nearer the root.
THEOREM ListsBreadthFirst == Spec => []BreadthFirst
<1>1. ASSUME IInv, LevelInv PROVE BreadthFirst
  BY <1>1 DEF LevelInv, Sorted, BreadthFirst
<1>2. IInv /\ LevelInv /\ [Next]_vars => LevelInv'
  BY LevelStep
<1> QED
  BY <1>1, <1>2, LevelInit, IInvHolds, PTL DEF Spec

-----------------------------------------------------------------------------
(* Refinement *)

\* The initial states of the walk are initial states of its specification.
LEMMA InitMeetsSpec == Init => Abstract!SpecInit
  <1>1. \A E : Abstract!Managers(E) = Managers(E)
    BY DEF Abstract!Managers, Managers
  <1>2. \A m : Abstract!LinesOf(m) = LinesOf(m)
    BY DEF Abstract!LinesOf, LinesOf
  <1> QED
    BY <1>1, <1>2 DEF Init, Abstract!SpecInit, DirInit, Abstract!DirInit

\* Every step of the walk is a step of its specification, or changes nothing
\* the caller can see.
LEMMA StepMeetsSpec ==
    ASSUME IInv, IInv', [Next]_vars
    PROVE  [Abstract!SpecNext]_Abstract!specVars
  <1> USE DEF Abstract!specVars, Abstract!dirVars, dirVars
  <1>1. CASE Resolve
    <2>1. /\ status = "resolving" /\ status' = "asking"
          /\ root = NoRoot /\ UNCHANGED dirVars
          /\ \E d \in Id : named = {d} /\ root' = d
      BY <1>1, ReportingTreeAssumption DEF Resolve, SeenFirst, Key, IInv, Where
    <2> QED
      BY <2>1 DEF Abstract!SpecNext, Abstract!Locate
  <1>2. CASE ResolveNotFound \/ QueryFails \/ BatchRefused
    <2>1. /\ status \in {"resolving", "asking"}
          /\ status' \in {"not found", "failed", "crashed"}
          /\ UNCHANGED <<dirVars, batch_size, root>>
      BY <1>2 DEF ResolveNotFound, QueryFails, AfterFailure, BatchRefused, AfterRefusal
    <2> QED
      BY <2>1 DEF Abstract!SpecNext, Abstract!Raise
  <1>3. CASE AskBatch \/ LevelAsked \/ MergeReport
    <2>1. /\ status \in {"asking", "merging"}
          /\ status' \in {"asking", "merging"}
          /\ UNCHANGED <<dirVars, batch_size, root>>
      BY <1>3 DEF AskBatch, LevelAsked, MergeReport
    <2> QED
      BY <2>1
  <1>4. CASE EndLevel
    <2>1. /\ status = "merging" /\ found = <<>>
          /\ tree' = tree \o new
          /\ status' = IF new # <<>> THEN "asking" ELSE "done"
          /\ UNCHANGED <<dirVars, batch_size, root>>
      BY <1>4 DEF EndLevel, Extended, NextLevel, GoesOn
    <2>2. CASE new # <<>>
      BY <2>1, <2>2
    <2>3. CASE new = <<>>
      <3>1. tree' = tree
        BY <2>1, <2>3 DEF IInv, TypeOK
      <3>2. /\ root \in Id
            /\ Below(root, always) \subseteq seen
            /\ seen = {root} \cup Ids(tree)
            /\ root \notin Ids(tree)
        BY <2>1, <2>3, DoneIsClosed
      <3>3. seen \subseteq Below(root, ever)
        BY <3>2 DEF IInv, Sound
      <3>4. /\ Abstract!Below(root, always) = Below(root, always)
            /\ Abstract!Below(root, ever) = Below(root, ever)
        BY DEF Abstract!Below, Below, Abstract!ClosedUnder, ClosedUnder
      <3>5. /\ Ids(tree') \in SUBSET (Abstract!Below(root, ever) \ {root})
            /\ Abstract!Below(root, always) \ {root} \subseteq Ids(tree')
        BY <3>1, <3>2, <3>3, <3>4
      <3>6. Abstract!Answer
        BY <2>1, <2>3, <3>2, <3>5 DEF Abstract!Answer
      <3> QED
        BY <3>6 DEF Abstract!SpecNext
    <2> QED
      BY <2>2, <2>3
  <1>5. CASE DirectoryChange
    <2>1. Change /\ UNCHANGED walkVars
      BY <1>5 DEF DirectoryChange
    <2>2. \A E : Abstract!Managers(E) = Managers(E)
      BY DEF Abstract!Managers, Managers
    <2>3. Abstract!Record <=> Record
      BY DEF Abstract!Record, Record, Abstract!LinesOf, LinesOf
    <2>4. \A e, M : (Abstract!Reassign(e, M) <=> Reassign(e, M))
                 /\ (Abstract!Create(e, M) <=> Create(e, M))
      BY <2>3 DEF Abstract!Reassign, Reassign, Abstract!Create, Create
    <2>5. \A e, f : Abstract!Rename(e, f) <=> Rename(e, f)
      BY <2>3 DEF Abstract!Rename, Rename
    <2>6. \A e : Abstract!Delete(e) <=> Delete(e)
      BY <2>3 DEF Abstract!Delete, Delete
    <2>7. Abstract!Change
      BY <2>1, <2>2, <2>4, <2>5, <2>6 DEF Abstract!Change, Change
    <2> QED
      BY <2>1, <2>7 DEF walkVars, Abstract!SpecNext, Abstract!SpecChange
  <1>6. CASE UNCHANGED vars
    BY <1>6 DEF vars, walkVars
  <1> QED
    BY <1>1, <1>2, <1>3, <1>4, <1>5, <1>6 DEF Next, Walk

\* The walk implements its specification: an answer that holds everybody who
\* was below the root throughout and nobody who never was, or an exception.
THEOREM Refinement == Spec => MeetsSpec
  <1>1. IInv /\ IInv' /\ [Next]_vars => [Abstract!SpecNext]_Abstract!specVars
    BY StepMeetsSpec
  <1> QED
    BY <1>1, InitMeetsSpec, IInvHolds, PTL DEF Spec, MeetsSpec, Abstract!Spec

-----------------------------------------------------------------------------
(***************************************************************************)
(* The single hop of direct_reports.  Its list is settled by one query:    *)
(* until it is answered the DN is in hand and nothing is found (Waiting),  *)
(* afterwards what was found is the hop (Hop), which no later change can   *)
(* disturb.                                                                *)
(***************************************************************************)

\* A list of the direct reports of the root, as far as the histories tell.
Hop(s) ==
    /\ {d \in Id : <<root, d>> \in always} \subseteq Ids(s)
    /\ Ids(s) \subseteq {d \in Id : <<root, d>> \in ever}
    /\ Distinct(s)

Waiting == rest # <<>> /\ found = <<>> /\ \E d \in DN : rest = <<d>> /\ Fold[d] = root

HopInv ==
    /\ TypeOK
    /\ Lines
    /\ status = "resolving" => found = <<>>
    /\ status = "asking" => root \in Id /\ (Waiting \/ (rest = <<>> /\ Hop(found)))
    /\ status = "done" => Hop(tree)

-----------------------------------------------------------------------------
\* A query answers with each entry it selects once.
LEMMA AnswersOnce ==
    ASSUME Fold \in [DN -> Id], IsFiniteSet(Id), NEW M \in SUBSET Id, NEW ans \in AnswersOf(M)
    PROVE  ans \in Seq(DN) /\ Ids(ans) = M /\ Distinct(ans)
<1> DEFINE n == Cardinality(M)
           f == [i \in 1..n |-> Fold[ans[i]]]
<1>1. IsFiniteSet(M) /\ n \in Nat
  BY FS_Subset, FS_CardinalityType
<1>2. ans \in [1..n -> DN] /\ (\A i \in 1..n : Fold[ans[i]] \in M) /\ Ids(ans) = M
  BY DEF AnswersOf
<1>3. f \in Surjection(1..n, M)
  <2>1. f \in [1..n -> M]
    BY <1>2
  <2>2. \A d \in M : \E i \in 1..n : f[i] = d
    BY <1>2 DEF Ids
  <2> QED
    BY <2>1, <2>2, Zenon DEF Surjection
<1>4. IsFiniteSet(1..n) /\ Cardinality(1..n) = n
  BY <1>1, FS_Interval
<1>5. f \in Injection(1..n, M)
  BY <1>3, <1>4, FS_SurjSameCardinalityImpliesInj
<1>6. \A i, j \in 1..n : Fold[ans[i]] = Fold[ans[j]] => i = j
  BY <1>5 DEF Injection, IsInjective
<1>7. DOMAIN ans = 1..n /\ ans \in Seq(DN)
  BY <1>1, <1>2
<1> QED
  BY <1>2, <1>6, <1>7 DEF Distinct

-----------------------------------------------------------------------------
LEMMA HopInit == ASSUME Init PROVE HopInv
<1>1. IInv
  BY IInvInit DEF Init
<1> QED
  BY <1>1 DEF Init, HopInv, IInv

LEMMA HopStep == ASSUME HopInv, [DirectNext]_vars PROVE HopInv'
<1> USE ReportingTreeAssumption, DirectoryAssumption
<1>t. TypeOK /\ DirTypeOK
  BY DEF HopInv, TypeOK
<1>1. CASE Resolve
  <2>1. PICK d \in DN : /\ root' = Fold[d] /\ rest' = <<d>> /\ seen' = {Fold[d]}
    BY <1>1 DEF Resolve, SeenFirst, Key
  <2>2. /\ status = "resolving" /\ status' = "asking"
        /\ UNCHANGED <<dirVars, batch_size, found, new, tree, asked, terms>>
    BY <1>1 DEF Resolve
  <2>3. Fold[d] \in Id /\ <<d>> \in Seq(DN) /\ <<d>> # <<>>
    OBVIOUS
  <2>4. TypeOK'
    BY <1>t, <2>1, <2>2, <2>3 DEF TypeOK, DirTypeOK, dirVars, Status
  <2>5. Waiting' /\ root' \in Id
    BY <2>1, <2>2, <2>3 DEF HopInv, Waiting
  <2> QED
    BY <2>2, <2>4, <2>5 DEF HopInv, Lines, dirVars
<1>2. CASE ResolveNotFound \/ QueryFails \/ BatchRefused
  <2>1. /\ UNCHANGED <<dirVars, batch_size, root, rest, found, new, seen, tree, asked, terms>>
        /\ status' \in {"not found", "failed", "crashed"}
    BY <1>2 DEF ResolveNotFound, QueryFails, AfterFailure, BatchRefused, AfterRefusal
  <2>2. TypeOK'
    BY <1>t, <2>1 DEF TypeOK, DirTypeOK, dirVars, Status
  <2> QED
    BY <2>1, <2>2 DEF HopInv, Lines, dirVars
<1>3. CASE AskBatch
  <2>int. batch_size \in Int
    BY <1>t DEF TypeOK
  <2>1. /\ status = "asking" /\ rest # <<>> /\ batch_size \in Nat \ {0}
        /\ rest' = Unasked(rest) /\ asked' = asked \cup Ids(Batch(rest))
        /\ terms' = terms + BatchLen(rest)
        /\ UNCHANGED <<dirVars, batch_size, status, root, new, seen, tree>>
    BY <1>3, <2>int DEF AskBatch
  <2>2. PICK d \in DN : rest = <<d>> /\ Fold[d] = root /\ found = <<>> /\ root \in Id
    BY <2>1 DEF HopInv, Waiting
  <2>3. /\ Batch(rest) = <<d>> /\ Unasked(rest) = <<>> /\ BatchLen(rest) = 1
        /\ Ids(Batch(rest)) = {root}
    <3>1. BatchLen(rest) = 1
      BY <2>1, <2>2 DEF BatchLen
    <3>2. Len(rest) = 1 /\ rest[1] = d /\ rest \in Seq(DN)
      BY <2>2
    <3>3. Batch(rest) \in Seq(DN) /\ Len(Batch(rest)) = 1 /\ Batch(rest)[1] = d
      BY <3>1, <3>2 DEF Batch
    <3>4. Unasked(rest) \in Seq(DN) /\ Len(Unasked(rest)) = 0
      BY <3>1, <3>2 DEF Unasked
    <3> QED
      BY <2>2, <3>1, <3>3, <3>4 DEF Ids
  <2>4. PICK ans \in AnswersOf(ReportsOf({root})) : found' = found \o ans
    BY <1>3, <2>3 DEF AskBatch, Selected
  <2>5. ans \in Seq(DN) /\ Ids(ans) = ReportsOf({root}) /\ Distinct(ans)
    <3>1. ReportsOf({root}) \in SUBSET Id
      BY DEF ReportsOf
    <3> QED
      BY <3>1, AnswersOnce
  <2>6. found' = ans
    BY <2>2, <2>4, <2>5
  <2>7. \A e \in Id : e \in ReportsOf({root}) <=> <<root, e>> \in LinesOf(manager)
    BY <2>2 DEF ReportsOf, LinesOf
  <2>8. Hop(ans)
    BY <2>5, <2>7 DEF Hop, HopInv, Lines, ReportsOf
  <2>9. Hop(found)'
    BY <2>1, <2>6, <2>8 DEF Hop, Ids, Distinct, dirVars
  <2>10. TypeOK'
    BY <1>t, <2>1, <2>2, <2>3, <2>5, <2>6 DEF TypeOK, DirTypeOK, dirVars
  <2> QED
    BY <2>1, <2>2, <2>3, <2>9, <2>10 DEF HopInv, Lines, dirVars
<1>4. CASE ReturnFound
  <2>1. /\ status = "asking" /\ rest = <<>> /\ tree' = found /\ status' = "done"
        /\ UNCHANGED <<dirVars, batch_size, root, rest, found, new, seen, asked, terms>>
    BY <1>4 DEF ReturnFound, Listed
  <2>2. Hop(found)
    BY <2>1 DEF HopInv, Waiting
  <2>3. Hop(tree)'
    BY <2>1, <2>2 DEF Hop, Ids, Distinct, dirVars
  <2>4. TypeOK'
    BY <1>t, <2>1 DEF TypeOK, DirTypeOK, dirVars, Status
  <2> QED
    BY <2>1, <2>3, <2>4 DEF HopInv, Lines, dirVars
<1>5. CASE DirectoryChange
  <2>1. UNCHANGED <<batch_size, status, root, rest, found, new, seen, tree, asked, terms>>
    BY <1>5 DEF DirectoryChange, walkVars
  <2>2. /\ DirTypeOK'
        /\ ever' = ever \cup LinesOf(manager') /\ always' = always \cap LinesOf(manager')
    BY <1>5, <1>t, ChangeEffect DEF DirectoryChange
  <2>3. TypeOK' /\ Lines'
    <3>1. LinesOf(manager)' = LinesOf(manager')
      BY DEF LinesOf
    <3> QED
      BY <1>t, <2>1, <2>2, <3>1 DEF TypeOK, Lines
  <2>4. (Hop(found) => Hop(found)') /\ (Hop(tree) => Hop(tree)')
    BY <2>1, <2>2 DEF Hop, Ids, Distinct
  <2> QED
    BY <2>1, <2>3, <2>4 DEF HopInv, Waiting
<1>6. CASE UNCHANGED vars
  BY <1>6 DEF vars, dirVars, walkVars, HopInv, TypeOK, DirTypeOK, Lines,
     Waiting, Hop, Ids, Distinct, LinesOf
<1> QED
  BY <1>1, <1>2, <1>3, <1>4, <1>5, <1>6 DEF DirectNext, Direct

\* Whatever changes between the two queries, direct_reports returns the reports
\* of the DN it resolved: everybody who was one throughout, nobody who never
\* was, and each of them once.
THEOREM ListsOneHop == DirectSpec => []OneHop
<1>1. HopInv => OneHop
  BY DEF HopInv, Hop, OneHop
<1>2. Init => HopInv
  BY HopInit
<1>3. HopInv /\ [DirectNext]_vars => HopInv'
  BY HopStep
<1> QED
  BY <1>1, <1>2, <1>3, PTL DEF DirectSpec
=============================================================================
