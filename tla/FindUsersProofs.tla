---------------------------- MODULE FindUsersProofs ---------------------------
(***************************************************************************)
(* Proofs about FindUsers, for any calls, any entries, any names of        *)
(* attributes and values of any length: that what find_users returns are   *)
(* the entries that meet every criterion it was given.                     *)
(*                                                                         *)
(* The reader of filters is a function defined by recursion over the       *)
(* places of a text.  It is shown to satisfy its equation (Reads) and to   *)
(* be local: a part of a text is read as it is alone, unless the reading   *)
(* leaves the part (ReadsAlike).  So the builders' texts mean in a joined  *)
(* filter what they mean alone (JoinedMeans).  For the caller's fragment   *)
(* it takes more: what is read closes no more parentheses than it opens    *)
(* (ReadsBalanced), so a reading that begins in a fragment valid_fragment  *)
(* accepts, and that only closing ones follow, does not leave it           *)
(* (FragmentLast).  What each builder's text means follows from how values *)
(* are escaped (Escaped), what a call's filter means from its clauses      *)
(* (CallSelects).                                                          *)
(*                                                                         *)
(* The last part is about Rendering: that a table printed of the users can *)
(* be read back.  Where the parts of a line begin follows from the widths  *)
(* before them (FourColumns), which the ruler shows (RulerBegins).         *)
(*                                                                         *)
(* Inductions are over sets of numbers (HoldsAllNumbers), with the least   *)
(* element from the library's fact that < is well-founded on Nat.          *)
(***************************************************************************)
EXTENDS Rendering, SequenceTheorems, FiniteSetTheorems, WellFoundedInduction, TLAPS

\* Min of a set of numbers that is not empty is its least element.
LEMMA Least ==
    ASSUME NEW S, S \subseteq Nat, S # {}
    PROVE  Min(S) \in S /\ \A n \in S : Min(S) <= n
<1>1. PICK m \in S : \A n \in S : ~ (<<n, m>> \in OpToRel(<, Nat))
  BY NatLessThanWellFounded, WFMin, Zenon
<1>2. ASSUME NEW n \in S PROVE m <= n
  <2>1. <<n, m>> \in Nat \X Nat /\ <<n, m>>[1] = n /\ <<n, m>>[2] = m
    OBVIOUS
  <2>2. <<n, m>>[1] < <<n, m>>[2] => <<n, m>> \in OpToRel(<, Nat)
    BY <2>1, Zenon DEF OpToRel
  <2>3. ~ (<<n, m>>[1] < <<n, m>>[2])
    BY <1>1, <2>2, Zenon
  <2> QED
    BY <2>1, <2>3
<1> QED
  BY <1>2 DEF Min

\* Induction, on a set: the number it lacks would have a least one before it.
LEMMA HoldsAllNumbers ==
    ASSUME NEW T, 0 \in T, \A n \in Nat : n \in T => n + 1 \in T
    PROVE  Nat \subseteq T
<1> SUFFICES ASSUME Nat \ T # {} PROVE FALSE
  OBVIOUS
<1> DEFINE m == Min(Nat \ T)
<1>1. m \in Nat \ T /\ \A n \in Nat \ T : m <= n
  BY Least
<1> HIDE DEF m
<1>2. m - 1 \in Nat /\ (m - 1) + 1 = m
  BY <1>1
<1> QED
  BY <1>1, <1>2

-----------------------------------------------------------------------------
(* Reading *)

\* Where a reading from the i-th token on may end, and what it may select.
Bounded(text, i, r) ==
    /\ r.clause.next \in {0} \cup ((i + 1)..(Len(text) + 1))
    /\ r.clause.selects \subseteq Entries
    /\ r.run.next \in {0} \cup (i..(Len(text) + 1))
    /\ r.run.parts \subseteq SUBSET Entries

\* What is read from the i-th token on, given what is read behind it.
Step(text, i, f) ==
    [clause |-> ClauseAt(text, i, f), run |-> RunAt(text, i, ClauseAt(text, i, f), f)]

\* The tokens of the grammar are found only inside the text.
LEMMA AtPlace ==
    ASSUME NEW text \in Seq(Tokens), NEW i \in Int
    PROVE  /\ Len(text) \in Nat
           /\ i \in 1..Len(text) => At(text, i) = text[i]
           /\ At(text, i) \in {"(", ")", "&", "|", "!"} => i \in 1..Len(text)
BY DEF At

\* The parenthesis that closes a clause that compares is the next one.
LEMMA Ends ==
    ASSUME NEW text \in Seq(Tokens), NEW i \in Nat,
           NEW S, S = {j \in (i + 1)..Len(text) : text[j] = ")"}, S # {}
    PROVE  Min(S) \in (i + 1)..Len(text) /\ text[Min(S)] = ")"
              /\ \A j \in (i + 1)..(Min(S) - 1) : text[j] # ")"
<1>1. S \subseteq Nat
  OBVIOUS
<1>2. Min(S) \in S /\ \A n \in S : Min(S) <= n
  BY <1>1, Least
<1>3. Min(S) \in (i + 1)..Len(text) /\ text[Min(S)] = ")"
  BY <1>2
<1>4. \A j \in (i + 1)..(Min(S) - 1) : text[j] # ")"
  <2>1. ASSUME NEW j \in (i + 1)..(Min(S) - 1), text[j] = ")" PROVE FALSE
    <3>1. j \in S
      BY <1>3, <2>1
    <3> QED
      BY <1>2, <1>3, <3>1
  <2> QED
    BY <2>1
<1> QED
  BY <1>3, <1>4

\* A clause ends behind where it begins, if what is behind it is read so.
LEMMA ClauseBounds ==
    ASSUME NEW text \in Seq(Tokens), NEW i \in 1..(Len(text) + 1), NEW f,
           \A j \in (i + 1)..(Len(text) + 1) : Bounded(text, j, f[j])
    PROVE  /\ ClauseAt(text, i, f) = [next |-> ClauseAt(text, i, f).next,
                                      selects |-> ClauseAt(text, i, f).selects]
           /\ ClauseAt(text, i, f).next \in {0} \cup ((i + 1)..(Len(text) + 1))
           /\ ClauseAt(text, i, f).selects \subseteq Entries
<1>0. Len(text) \in Nat
  OBVIOUS
<1>1. CASE At(text, i) # "("
  BY <1>1 DEF ClauseAt, Unread, Reading
<1>2. CASE At(text, i) = "(" /\ At(text, i + 1) \in {"&", "|"}
  <2> DEFINE run == f[i + 2].run
  <2>1. i + 1 \in 1..Len(text) /\ text[i + 1] \in {"&", "|"}
    BY <1>2, AtPlace
  <2>2. Bounded(text, i + 2, f[i + 2])
    BY <2>1
  <2>3. CASE run.parts = {} \/ At(text, run.next) # ")"
    BY <1>2, <2>3 DEF ClauseAt, Unread, Reading
  <2>4. CASE ~ (run.parts = {} \/ At(text, run.next) # ")")
    <3>1. run.next \in Int
      BY <2>2 DEF Bounded
    <3>2. run.next \in 1..Len(text) /\ run.next >= i + 2
      BY <2>2, <2>4, <3>1, AtPlace DEF Bounded
    <3>3. Joining(text[i + 1], run.parts) \subseteq Entries
      BY <2>2 DEF Joining, Bounded
    <3>4. ClauseAt(text, i, f) = Reading(run.next + 1, Joining(text[i + 1], run.parts))
      BY <1>2, <2>4 DEF ClauseAt
    <3> QED
      BY <3>2, <3>3, <3>4, SMTT(30) DEF Reading
  <2> QED
    BY <2>3, <2>4
<1>3. CASE At(text, i) = "(" /\ At(text, i + 1) = "!"
  <2> DEFINE negated == f[i + 2].clause
  <2>1. i + 1 \in 1..Len(text)
    BY <1>3, AtPlace
  <2>2. Bounded(text, i + 2, f[i + 2])
    BY <2>1
  <2>3. CASE At(text, negated.next) # ")"
    BY <1>3, <2>3 DEF ClauseAt, Unread, Reading
  <2>4. CASE At(text, negated.next) = ")"
    <3>1. negated.next \in Int
      BY <2>2 DEF Bounded
    <3>2. negated.next \in 1..Len(text) /\ negated.next >= i + 2
      BY <2>2, <2>4, <3>1, AtPlace DEF Bounded
    <3>3. ClauseAt(text, i, f) = Reading(negated.next + 1, Entries \ negated.selects)
      BY <1>3, <2>4 DEF ClauseAt
    <3> QED
      BY <3>2, <3>3 DEF Reading
  <2> QED
    BY <2>3, <2>4
<1>4. CASE At(text, i) = "(" /\ At(text, i + 1) \notin {"&", "|", "!"}
  <2> DEFINE ends == {j \in (i + 1)..Len(text) : text[j] = ")"}
             node == Simple(SubSeq(text, i + 1, Min(ends) - 1))
  <2>1. CASE ends = {} \/ node = Malformed
    BY <1>4, <2>1 DEF ClauseAt, Unread, Reading
  <2>2. CASE ~ (ends = {} \/ node = Malformed)
    <3>1. ClauseAt(text, i, f) = Reading(Min(ends) + 1, {e \in Entries : matches(node, e)})
      BY <1>4, <2>2 DEF ClauseAt
    <3>2. Min(ends) \in (i + 1)..Len(text)
      <4>1. i \in Nat /\ ends # {}
        BY <2>2
      <4> QED
        BY <4>1, Ends, Zenon
    <3> HIDE DEF ends, node
    <3>3. /\ ClauseAt(text, i, f).next = Min(ends) + 1
          /\ ClauseAt(text, i, f).selects = {e \in Entries : matches(node, e)}
          /\ ClauseAt(text, i, f) = [next |-> Min(ends) + 1,
                                     selects |-> {e \in Entries : matches(node, e)}]
      BY <3>1 DEF Reading
    <3> QED
      BY <3>2, <3>3
  <2> QED
    BY <2>1, <2>2
<1> QED
  BY <1>1, <1>2, <1>3, <1>4

\* So does a run of clauses, which may be empty.
LEMMA StepBounds ==
    ASSUME NEW text \in Seq(Tokens), NEW i \in 1..(Len(text) + 1), NEW f,
           \A j \in (i + 1)..(Len(text) + 1) : Bounded(text, j, f[j])
    PROVE  Bounded(text, i, Step(text, i, f))
<1> DEFINE clause == ClauseAt(text, i, f)
           run == RunAt(text, i, clause, f)
<1>1. /\ clause.next \in {0} \cup ((i + 1)..(Len(text) + 1))
      /\ clause.selects \subseteq Entries
  BY ClauseBounds
<1> HIDE DEF clause
<1>2. run.next \in {0} \cup (i..(Len(text) + 1)) /\ run.parts \subseteq SUBSET Entries
  <2>1. CASE At(text, i) # "("
    BY <2>1 DEF RunAt
  <2>2. CASE At(text, i) = "(" /\ clause.next = 0
    BY <2>2 DEF RunAt
  <2>3. CASE At(text, i) = "(" /\ clause.next # 0
    <3>1. Bounded(text, clause.next, f[clause.next])
      BY <1>1, <2>3
    <3> QED
      BY <1>1, <2>3, <3>1 DEF RunAt, Bounded
  <2> QED
    BY <2>1, <2>2, <2>3
<1>3. Step(text, i, f) = [clause |-> clause, run |-> run]
  BY DEF Step, clause
<1> HIDE DEF run
<1> QED
  BY <1>1, <1>2, <1>3 DEF Bounded

\* A step looks at nothing but what is read behind it.
LEMMA StepLooksAhead ==
    ASSUME NEW text \in Seq(Tokens), NEW i \in 1..(Len(text) + 1), NEW f, NEW g,
           \A j \in (i + 1)..(Len(text) + 1) : Bounded(text, j, f[j]) /\ f[j] = g[j]
    PROVE  Step(text, i, f) = Step(text, i, g)
<1>1. ClauseAt(text, i, f) = ClauseAt(text, i, g)
  <2>1. CASE At(text, i) # "("
    BY <2>1 DEF ClauseAt
  <2>2. CASE At(text, i) = "(" /\ At(text, i + 1) \in {"&", "|", "!"}
    <3>1. i + 1 \in 1..Len(text)
      BY <2>2, AtPlace
    <3>2. f[i + 2] = g[i + 2]
      BY <3>1
    <3> QED
      BY <3>2 DEF ClauseAt
  <2>3. CASE At(text, i) = "(" /\ At(text, i + 1) \notin {"&", "|", "!"}
    BY <2>3 DEF ClauseAt
  <2> QED
    BY <2>1, <2>2, <2>3
<1>2. RunAt(text, i, ClauseAt(text, i, f), f) = RunAt(text, i, ClauseAt(text, i, f), g)
  <2> DEFINE clause == ClauseAt(text, i, f)
  <2>1. clause.next \in {0} \cup ((i + 1)..(Len(text) + 1))
    BY ClauseBounds
  <2> HIDE DEF clause
  <2>2. clause.next # 0 => f[clause.next] = g[clause.next]
    BY <2>1
  <2>3. RunAt(text, i, clause, f) = RunAt(text, i, clause, g)
    BY <2>2 DEF RunAt
  <2> QED
    BY <2>3 DEF clause
<1> QED
  BY <1>1, <1>2 DEF Step

\* f reads the text from the k-th token on.
ReadsFrom(text, k, f) ==
    \A j \in k..(Len(text) + 1) : f[j] = Step(text, j, f) /\ Bounded(text, j, f[j])

\* A text can be read from every place on, from its end backwards.
LEMMA ReaderExists ==
    ASSUME NEW text \in Seq(Tokens)
    PROVE  \E f : f = [j \in 1..(Len(text) + 1) |-> f[j]] /\ ReadsFrom(text, 1, f)
<1> DEFINE L == Len(text) + 1
           Reader(n, f) == f = [j \in 1..L |-> f[j]] /\ ReadsFrom(text, (L + 1) - n, f)
           T == {n \in Nat : n <= L => \E f : Reader(n, f)}
<1>0. L \in Nat /\ Len(text) \in Nat
  OBVIOUS
<1>1. 0 \in T
  <2>1. Reader(0, [j \in 1..L |-> 0])
    BY <1>0 DEF ReadsFrom
  <2> QED
    BY <2>1
<1>2. ASSUME NEW n \in Nat, n \in T PROVE n + 1 \in T
  <2> SUFFICES ASSUME n + 1 <= L PROVE \E g : Reader(n + 1, g)
    OBVIOUS
  <2>1. PICK f : Reader(n, f)
    BY <1>0, <1>2
  <2> DEFINE k == (L + 1) - (n + 1)
             g == [j \in 1..L |-> IF j = k THEN Step(text, k, f) ELSE f[j]]
  <2>2. k \in 1..L /\ (L + 1) - n = k + 1
    BY <1>0
  <2>3. g = [j \in 1..L |-> g[j]] /\ g[k] = Step(text, k, f)
        /\ \A j \in (k + 1)..L : g[j] = f[j]
    BY <2>2
  <2> HIDE DEF g, k
  <2>4. \A j \in (k + 1)..L : f[j] = Step(text, j, f) /\ Bounded(text, j, f[j])
    BY <2>1, <2>2 DEF ReadsFrom
  <2>5. ASSUME NEW j \in k..L PROVE Step(text, j, f) = Step(text, j, g)
    <3>1. ASSUME NEW h \in (j + 1)..(Len(text) + 1) PROVE Bounded(text, h, f[h]) /\ f[h] = g[h]
      <4>1. h \in (k + 1)..L
        BY <1>0, <2>2
      <4> QED
        BY <2>3, <2>4, <4>1
    <3>2. j \in 1..(Len(text) + 1)
      BY <1>0, <2>2
    <3> QED
      BY <3>1, <3>2, StepLooksAhead
  <2>6. Bounded(text, k, g[k])
    <3>1. \A h \in (k + 1)..(Len(text) + 1) : Bounded(text, h, f[h])
      BY <2>4
    <3> QED
      BY <2>2, <2>3, <3>1, StepBounds
  <2>7. ASSUME NEW j \in k..L PROVE g[j] = Step(text, j, g) /\ Bounded(text, j, g[j])
    <3>1. CASE j = k
      BY <2>3, <2>5, <2>6, <3>1
    <3>2. CASE j # k
      <4>1. j \in (k + 1)..L
        BY <2>2, <3>2
      <4> QED
        BY <2>3, <2>4, <2>5, <4>1
    <3> QED
      BY <3>1, <3>2
  <2>8. ReadsFrom(text, k, g)
    BY <2>7 DEF ReadsFrom
  <2> QED
    BY <2>3, <2>8 DEF k
<1> HIDE DEF T
<1>3. L \in T
  BY <1>0, <1>1, <1>2, HoldsAllNumbers
<1>4. PICK f : Reader(L, f)
  BY <1>0, <1>3 DEF T
<1>5. (L + 1) - L = 1
  BY <1>0
<1> QED
  BY <1>4, <1>5

\* So the recursive function Readings is what its definition says.
LEMMA ReaderReads ==
    ASSUME NEW text \in Seq(Tokens)
    PROVE  ReadsFrom(text, 1, Readings(text))
<1> DEFINE L == Len(text) + 1
           Eq(h) == h = [i \in 1..(Len(text) + 1) |->
                          LET clause == ClauseAt(text, i, h)
                          IN  [clause |-> clause, run |-> RunAt(text, i, clause, h)]]
           R == Readings(text)
<1>0. L \in Nat /\ Len(text) \in Nat
  OBVIOUS
<1>1. PICK f : f = [j \in 1..L |-> f[j]] /\ ReadsFrom(text, 1, f)
  BY ReaderExists
<1>2. Eq(f)
  <2>1. \A j \in 1..L : f[j] = Step(text, j, f)
    BY <1>1 DEF ReadsFrom
  <2> QED
    BY <1>1, <2>1 DEF Step
<1>3. R = CHOOSE h : Eq(h)
  BY DEF Readings
<1>4. Eq(R)
  <2> HIDE DEF Eq, R
  <2> QED
    BY <1>2, <1>3
<1>5. \A j \in 1..L : R[j] = Step(text, j, R)
  BY <1>4, Zenon DEF Step
<1> HIDE DEF Eq, R
<1> DEFINE T == {n \in Nat : n <= L => \A j \in ((L + 1) - n)..L : Bounded(text, j, R[j])}
<1>6. 0 \in T
  BY <1>0
<1>7. ASSUME NEW n \in Nat, n \in T PROVE n + 1 \in T
  <2> SUFFICES ASSUME n + 1 <= L, NEW j \in ((L + 1) - (n + 1))..L
               PROVE  Bounded(text, j, R[j])
    OBVIOUS
  <2>1. \A h \in ((L + 1) - n)..L : Bounded(text, h, R[h])
    BY <1>0, <1>7
  <2>2. j \in 1..L /\ \A h \in (j + 1)..L : h \in ((L + 1) - n)..L
    BY <1>0
  <2>3. \A h \in (j + 1)..(Len(text) + 1) : Bounded(text, h, R[h])
    BY <2>1, <2>2
  <2>4. Bounded(text, j, Step(text, j, R))
    BY <2>2, <2>3, StepBounds
  <2> QED
    BY <1>5, <2>2, <2>4
<1> HIDE DEF T
<1>8. L \in T
  BY <1>0, <1>6, <1>7, HoldsAllNumbers
<1>9. \A j \in 1..L : Bounded(text, j, R[j])
  <2>1. (L + 1) - L = 1
    BY <1>0
  <2> QED
    BY <1>0, <1>8, <2>1 DEF T
<1> QED
  BY <1>5, <1>9 DEF ReadsFrom, R

ReadClause(text, i) == Readings(text)[i].clause
ReadRun(text, i) == Readings(text)[i].run

\* The equation of the reader, and its bounds.
LEMMA Reads ==
    ASSUME NEW text \in Seq(Tokens), NEW i \in 1..(Len(text) + 1)
    PROVE  /\ ReadClause(text, i) = ClauseAt(text, i, Readings(text))
           /\ ReadRun(text, i) = RunAt(text, i, ReadClause(text, i), Readings(text))
           /\ ReadClause(text, i).next \in {0} \cup ((i + 1)..(Len(text) + 1))
           /\ ReadClause(text, i).selects \subseteq Entries
           /\ ReadRun(text, i).next \in {0} \cup (i..(Len(text) + 1))
           /\ ReadRun(text, i).parts \subseteq SUBSET Entries
<1>1. Readings(text)[i] = Step(text, i, Readings(text)) /\ Bounded(text, i, Readings(text)[i])
  BY ReaderReads DEF ReadsFrom
<1> QED
  BY <1>1 DEF Step, Bounded, ReadClause, ReadRun

\* Where a reading may end.
LEMMA ReadsWithin ==
    ASSUME NEW text \in Seq(Tokens), NEW i \in 1..(Len(text) + 1)
    PROVE  /\ ReadClause(text, i).next \in {0} \cup ((i + 1)..(Len(text) + 1))
           /\ ReadRun(text, i).next \in {0} \cup (i..(Len(text) + 1))
BY Reads

\* How each kind of clause is read.
LEMMA ReadsNothing ==
    ASSUME NEW text \in Seq(Tokens), NEW i \in 1..(Len(text) + 1), At(text, i) # "("
    PROVE  /\ ReadClause(text, i) = [next |-> 0, selects |-> {}]
           /\ ReadRun(text, i) = [next |-> i, parts |-> {}]
BY Reads DEF ClauseAt, RunAt, Unread, Reading

LEMMA ReadsRun ==
    ASSUME NEW text \in Seq(Tokens), NEW i \in 1..(Len(text) + 1), At(text, i) = "("
    PROVE  LET clause == ReadClause(text, i) IN
           IF clause.next = 0 THEN ReadRun(text, i) = [next |-> 0, parts |-> {}]
           ELSE ReadRun(text, i) =
                  [next |-> ReadRun(text, clause.next).next,
                   parts |-> ReadRun(text, clause.next).parts \cup {clause.selects}]
BY Reads DEF RunAt, ReadRun

\* The same, for a clause whose end is known.
LEMMA ReadsOn ==
    ASSUME NEW text \in Seq(Tokens), NEW i \in 1..(Len(text) + 1), At(text, i) = "(",
           NEW m, m = ReadClause(text, i).next
    PROVE  /\ m = 0 => ReadRun(text, i).next = 0
           /\ m # 0 => /\ ReadRun(text, i).next = ReadRun(text, m).next
                       /\ ReadRun(text, i).parts =
                            ReadRun(text, m).parts \cup {ReadClause(text, i).selects}
<1> DEFINE clause == ReadClause(text, i)
           run == ReadRun(text, i)
           rest == ReadRun(text, m)
<1>1. m = clause.next
  OBVIOUS
<1>2. IF m = 0 THEN run = [next |-> 0, parts |-> {}]
      ELSE run = [next |-> rest.next, parts |-> rest.parts \cup {clause.selects}]
  BY ReadsRun
<1> HIDE DEF clause, run, rest
<1>3. /\ m = 0 => run.next = 0
      /\ m # 0 => run.next = rest.next /\ run.parts = rest.parts \cup {clause.selects}
  BY <1>2
<1> QED
  BY <1>3 DEF clause, run, rest

\* A clause that joins those of a run.
LEMMA ReadsJoin ==
    ASSUME NEW text \in Seq(Tokens), NEW i \in 1..(Len(text) + 1),
           At(text, i) = "(", At(text, i + 1) \in {"&", "|"}
    PROVE  LET run == ReadRun(text, i + 2) IN
           IF run.parts = {} \/ At(text, run.next) # ")"
           THEN ReadClause(text, i) = [next |-> 0, selects |-> {}]
           ELSE ReadClause(text, i) = [next |-> run.next + 1,
                                       selects |-> Joining(At(text, i + 1), run.parts)]
<1>1. text[i + 1] = At(text, i + 1)
  BY AtPlace
<1> QED
  BY <1>1, Reads DEF ClauseAt, ReadRun, Unread, Reading

\* A clause that negates one.
LEMMA ReadsNot ==
    ASSUME NEW text \in Seq(Tokens), NEW i \in 1..(Len(text) + 1),
           At(text, i) = "(", At(text, i + 1) = "!"
    PROVE  LET negated == ReadClause(text, i + 2) IN
           IF At(text, negated.next) # ")"
           THEN ReadClause(text, i) = [next |-> 0, selects |-> {}]
           ELSE ReadClause(text, i) = [next |-> negated.next + 1,
                                       selects |-> Entries \ negated.selects]
<1>1. text[i + 1] = At(text, i + 1)
  BY AtPlace
<1> DEFINE clause == ReadClause(text, i + 2)
<1>2. clause = Readings(text)[i + 2].clause
  BY DEF ReadClause
<1> HIDE DEF clause
<1>3. ReadClause(text, i) = IF At(text, clause.next) # ")" THEN Unread
                            ELSE Reading(clause.next + 1, Entries \ clause.selects)
  BY <1>1, <1>2, Reads DEF ClauseAt
<1> QED
  BY <1>3 DEF Unread, Reading, clause

Selecting(node) == {e \in Entries : matches(node, e)}

\* The first closing parenthesis behind the i-th token is the m-th.
Closes(text, i, m) ==
    m \in (i + 1)..Len(text) /\ text[m] = ")" /\ \A j \in (i + 1)..(m - 1) : text[j] # ")"

\* A clause that compares.
LEMMA ReadsSimple ==
    ASSUME NEW text \in Seq(Tokens), NEW i \in 1..(Len(text) + 1), NEW m, Closes(text, i, m),
           At(text, i) = "(", At(text, i + 1) \notin {"&", "|", "!"}
    PROVE  LET node == Simple(SubSeq(text, i + 1, m - 1)) IN
           IF node = Malformed THEN ReadClause(text, i) = [next |-> 0, selects |-> {}]
           ELSE ReadClause(text, i) = [next |-> m + 1, selects |-> Selecting(node)]
<1> DEFINE ends == {j \in (i + 1)..Len(text) : text[j] = ")"}
<1>1. m \in ends /\ \A j \in ends : m <= j
  BY DEF Closes
<1>2. Min(ends) = m
  <2>1. ends \subseteq Nat /\ ends # {} /\ \A j \in ends : j \in Int
    BY <1>1
  <2> HIDE DEF ends
  <2>2. Min(ends) \in ends /\ Min(ends) <= m
    BY <1>1, <2>1, Least
  <2>3. m \in Int /\ Min(ends) \in Int /\ m <= Min(ends)
    BY <1>1, <2>1, <2>2
  <2> QED
    BY <2>2, <2>3
<1>3. ends # {}
  BY <1>1
<1> DEFINE node == Simple(SubSeq(text, i + 1, Min(ends) - 1))
<1>4. ReadClause(text, i) = IF ends = {} \/ node = Malformed THEN Unread
                            ELSE Reading(Min(ends) + 1, {e \in Entries : matches(node, e)})
  BY Reads DEF ClauseAt
<1>5. node = Simple(SubSeq(text, i + 1, m - 1))
  BY <1>2, Zenon
<1> HIDE DEF ends, node
<1>6. ReadClause(text, i) = IF node = Malformed THEN [next |-> 0, selects |-> {}]
                            ELSE [next |-> m + 1, selects |-> Selecting(node)]
  BY <1>2, <1>3, <1>4, Zenon DEF Unread, Reading, Selecting
<1> QED
  BY <1>5, <1>6, Zenon

\* It is not read unless a parenthesis closes it.
LEMMA ReadsUnclosed ==
    ASSUME NEW text \in Seq(Tokens), NEW i \in 1..(Len(text) + 1),
           At(text, i) = "(", At(text, i + 1) \notin {"&", "|", "!"}
    PROVE  ReadClause(text, i) = [next |-> 0, selects |-> {}] \/ \E m : Closes(text, i, m)
<1> DEFINE ends == {j \in (i + 1)..Len(text) : text[j] = ")"}
<1>1. CASE ends = {}
  BY <1>1, Reads DEF ClauseAt, Unread, Reading
<1>2. CASE ends # {}
  <2>1. Min(ends) \in (i + 1)..Len(text) /\ text[Min(ends)] = ")"
              /\ \A j \in (i + 1)..(Min(ends) - 1) : text[j] # ")"
    <3>1. i \in Nat
      OBVIOUS
    <3> QED
      BY <1>2, <3>1, Ends, Zenon
  <2> QED
    BY <2>1, Zenon DEF Closes
<1> QED
  BY <1>1, <1>2

-----------------------------------------------------------------------------
(* A part of a text *)

\* The part stands behind the p-th token of the whole.
Stands(part, p, whole) ==
    /\ part \in Seq(Tokens) /\ whole \in Seq(Tokens)
    /\ p \in Nat /\ p + Len(part) <= Len(whole)
    /\ \A k \in 1..Len(part) : whole[p + k] = part[k]

\* From its i-th token on the part reads the same alone and in the whole, unless the
\* reading in the whole leaves the part.
Alike(part, p, whole, i) ==
    /\ ReadClause(part, i).next # 0 =>
         /\ ReadClause(whole, p + i).next = p + ReadClause(part, i).next
         /\ ReadClause(whole, p + i).selects = ReadClause(part, i).selects
    /\ ReadClause(whole, p + i).next \in 1..(p + Len(part) + 1) =>
         ReadClause(part, i).next # 0
    /\ ReadRun(part, i).next \in 1..Len(part) =>
         /\ ReadRun(whole, p + i).next = p + ReadRun(part, i).next
         /\ ReadRun(whole, p + i).parts = ReadRun(part, i).parts
    /\ ReadRun(whole, p + i).next \in 1..(p + Len(part)) =>
         ReadRun(part, i).next \in 1..Len(part)

\* The tokens of a part are those of the whole at its place.
LEMMA AlikeAt ==
    ASSUME NEW part, NEW p, NEW whole, Stands(part, p, whole), NEW i \in 1..Len(part)
    PROVE  /\ At(part, i) = part[i] /\ At(whole, p + i) = part[i]
           /\ p + i \in 1..Len(whole)
BY DEF Stands, At

\* A clause of the part is read alike, if what is behind it is.
LEMMA ClauseAlike ==
    ASSUME NEW part, NEW p, NEW whole, Stands(part, p, whole), NEW i \in 1..(Len(part) + 1),
           \A j \in (i + 1)..(Len(part) + 1) : Alike(part, p, whole, j)
    PROVE  /\ ReadClause(part, i).next # 0 =>
                /\ ReadClause(whole, p + i).next = p + ReadClause(part, i).next
                /\ ReadClause(whole, p + i).selects = ReadClause(part, i).selects
           /\ ReadClause(whole, p + i).next \in 1..(p + Len(part) + 1) =>
                ReadClause(part, i).next # 0
<1>0. /\ part \in Seq(Tokens) /\ whole \in Seq(Tokens) /\ p \in Nat
      /\ Len(part) \in Nat /\ Len(whole) \in Nat /\ p + Len(part) <= Len(whole)
      /\ p + i \in 1..(Len(whole) + 1)
  BY DEF Stands
<1> DEFINE c == ReadClause(part, i)
           w == ReadClause(whole, p + i)
<1>1. /\ c.next \in {0} \cup ((i + 1)..(Len(part) + 1))
      /\ w.next \in {0} \cup ((p + i + 1)..(Len(whole) + 1))
  BY <1>0, ReadsWithin
<1>2. CASE i = Len(part) + 1
  <2>1. At(part, i) # "("
    BY <1>0, <1>2, AtPlace
  <2>2. c.next = 0
    BY <1>0, <2>1, ReadsNothing
  <2> QED
    BY <1>0, <1>1, <1>2, <2>2
<1>3. CASE i # Len(part) + 1
  <2>1. /\ i \in 1..Len(part) /\ At(part, i) = part[i] /\ At(whole, p + i) = part[i]
        /\ At(part, i) = At(whole, p + i)
    BY <1>0, <1>3, AlikeAt
  <2>2. CASE At(part, i) # "("
    BY <1>0, <2>1, <2>2, ReadsNothing
  <2>3. CASE At(part, i) = "(" /\ i = Len(part)
    <3>1. w.next \notin 1..(p + Len(part) + 1)
      <4>1. SUFFICES ASSUME w.next \in 1..(p + Len(part) + 1) PROVE FALSE
        OBVIOUS
      <4>2. w.next = p + Len(part) + 1
        BY <1>0, <1>1, <2>3, <4>1
      <4>3. CASE At(whole, p + i + 1) \in {"&", "|"}
        <5>1. ReadRun(whole, p + i + 2).next + 1 = w.next
          BY <1>0, <2>1, <2>3, <4>2, <4>3, ReadsJoin
        <5>2. p + i + 2 \in 1..(Len(whole) + 1)
          BY <1>0, <4>3, AtPlace
        <5>3. ReadRun(whole, p + i + 2).next \in {0} \cup (p + i + 2)..(Len(whole) + 1)
          BY <1>0, <5>2, ReadsWithin
        <5> QED
          BY <1>0, <2>3, <4>2, <5>1, <5>3
      <4>4. CASE At(whole, p + i + 1) = "!"
        <5>1. ReadClause(whole, p + i + 2).next + 1 = w.next
          BY <1>0, <2>1, <2>3, <4>2, <4>4, ReadsNot
        <5>2. p + i + 2 \in 1..(Len(whole) + 1)
          BY <1>0, <4>4, AtPlace
        <5>3. ReadClause(whole, p + i + 2).next \in {0} \cup (p + i + 3)..(Len(whole) + 1)
          BY <1>0, <5>2, ReadsWithin
        <5> QED
          BY <1>0, <2>3, <4>2, <5>1, <5>3
      <4>5. CASE At(whole, p + i + 1) \notin {"&", "|", "!"}
        <5>1. PICK m : Closes(whole, p + i, m)
          BY <1>0, <2>1, <2>3, <4>2, <4>5, ReadsUnclosed
        <5>2. m + 1 = w.next
          BY <1>0, <2>1, <2>3, <4>2, <4>5, <5>1, ReadsSimple
        <5> QED
          BY <1>0, <2>3, <4>2, <5>1, <5>2 DEF Closes
      <4> QED
        BY <4>3, <4>4, <4>5
    <3>2. c.next = 0
      <4>1. At(part, i + 1) \notin {"&", "|", "!", ")"}
        BY <1>0, <2>3, AtPlace
      <4>2. ~ \E m : Closes(part, i, m)
        BY <1>0, <2>3 DEF Closes
      <4> QED
        BY <1>0, <2>3, <4>1, <4>2, ReadsUnclosed
    <3> QED
      BY <3>1, <3>2
  <2>4. CASE At(part, i) = "(" /\ i # Len(part)
    <3>1. /\ i + 1 \in 1..Len(part) /\ At(part, i + 1) = At(whole, p + i + 1)
          /\ i + 2 \in (i + 1)..(Len(part) + 1) /\ i + 2 \in 1..(Len(part) + 1)
          /\ p + i + 2 \in 1..(Len(whole) + 1) /\ p + (i + 2) = p + i + 2
      <4>1. i + 1 \in 1..Len(part) /\ p + (i + 1) = p + i + 1
        BY <1>0, <2>1, <2>4
      <4> QED
        BY <1>0, <4>1, AlikeAt
    <3>2. Alike(part, p, whole, i + 2)
      BY <3>1
    <3>3. CASE At(part, i + 1) \in {"&", "|"}
      <4> DEFINE cr == ReadRun(part, i + 2)
                 wr == ReadRun(whole, p + i + 2)
      <4>1. /\ IF cr.parts = {} \/ At(part, cr.next) # ")"
               THEN c = [next |-> 0, selects |-> {}]
               ELSE c = [next |-> cr.next + 1, selects |-> Joining(At(part, i + 1), cr.parts)]
            /\ IF wr.parts = {} \/ At(whole, wr.next) # ")"
               THEN w = [next |-> 0, selects |-> {}]
               ELSE w = [next |-> wr.next + 1, selects |-> Joining(At(part, i + 1), wr.parts)]
        <5>1. At(whole, (p + i) + 1) = At(part, i + 1) /\ (p + i) + 2 = p + i + 2
          BY <1>0, <3>1
        <5> QED
          BY <1>0, <2>1, <2>4, <3>1, <3>3, <5>1, ReadsJoin
      <4>2. /\ cr.next \in {0} \cup ((i + 2)..(Len(part) + 1))
            /\ wr.next \in {0} \cup ((p + i + 2)..(Len(whole) + 1))
        BY <1>0, <3>1, ReadsWithin
      <4>3. /\ cr.next \in 1..Len(part) => wr.next = p + cr.next /\ wr.parts = cr.parts
            /\ wr.next \in 1..(p + Len(part)) => cr.next \in 1..Len(part)
        BY <3>1, <3>2 DEF Alike
      <4>4. cr.next \in 1..Len(part) => At(whole, p + cr.next) = At(part, cr.next)
        BY AlikeAt, SMTT(30)
      <4>5. At(part, cr.next) = ")" => cr.next \in 1..Len(part)
        BY <1>0, <4>2, AtPlace
      <4> HIDE DEF cr, wr, c, w
      <4>6. /\ IF cr.parts = {} \/ At(part, cr.next) # ")" THEN c.next = 0
               ELSE c.next = cr.next + 1 /\ c.selects = Joining(At(part, i + 1), cr.parts)
            /\ IF wr.parts = {} \/ At(whole, wr.next) # ")" THEN w.next = 0
               ELSE w.next = wr.next + 1 /\ w.selects = Joining(At(part, i + 1), wr.parts)
        BY <4>1
      <4>7. c.next # 0 => w.next = p + c.next /\ w.selects = c.selects
        <5>1. SUFFICES ASSUME c.next # 0 PROVE w.next = p + c.next /\ w.selects = c.selects
          OBVIOUS
        <5>2. cr.parts # {} /\ At(part, cr.next) = ")" /\ cr.next \in 1..Len(part)
          BY <4>5, <4>6, <5>1
        <5>3. wr.next = p + cr.next /\ wr.parts = cr.parts /\ At(whole, wr.next) = ")"
          BY <4>3, <4>4, <5>2
        <5>4. c.next = cr.next + 1 /\ w.next = wr.next + 1 /\ w.selects = c.selects
          BY <4>6, <5>2, <5>3
        <5> QED
          BY <1>0, <5>2, <5>3, <5>4
      <4>8. w.next \in 1..(p + Len(part) + 1) => c.next # 0
        <5>1. SUFFICES ASSUME w.next \in 1..(p + Len(part) + 1) PROVE c.next # 0
          OBVIOUS
        <5>2. wr.parts # {} /\ At(whole, wr.next) = ")" /\ w.next = wr.next + 1
          BY <4>6, <5>1
        <5>3. wr.next \in 1..(p + Len(part))
          <6>1. wr.next \in Nat
            BY <1>0, <4>2
          <6>2. wr.next # 0
            BY <1>0, <5>2, AtPlace
          <6> QED
            BY <1>0, <5>1, <5>2, <6>1, <6>2, SMTT(30)
        <5>4. cr.next \in 1..Len(part) /\ cr.parts # {} /\ At(part, cr.next) = ")"
          BY <4>3, <4>4, <5>2, <5>3
        <5> QED
          BY <4>6, <5>4
      <4> QED
        BY <4>7, <4>8 DEF c, w
    <3>4. CASE At(part, i + 1) = "!"
      <4> DEFINE cn == ReadClause(part, i + 2)
                 wn == ReadClause(whole, p + i + 2)
      <4>1. /\ IF At(part, cn.next) # ")" THEN c = [next |-> 0, selects |-> {}]
               ELSE c = [next |-> cn.next + 1, selects |-> Entries \ cn.selects]
            /\ IF At(whole, wn.next) # ")" THEN w = [next |-> 0, selects |-> {}]
               ELSE w = [next |-> wn.next + 1, selects |-> Entries \ wn.selects]
        <5>1. At(whole, (p + i) + 1) = "!" /\ (p + i) + 2 = p + i + 2
          BY <1>0, <3>1, <3>4
        <5> QED
          BY <1>0, <2>1, <2>4, <3>1, <3>4, <5>1, ReadsNot
      <4>2. /\ cn.next \in {0} \cup ((i + 3)..(Len(part) + 1))
            /\ wn.next \in {0} \cup ((p + i + 3)..(Len(whole) + 1))
        <5>1. cn.next \in {0} \cup (((i + 2) + 1)..(Len(part) + 1))
          BY <1>0, <3>1, ReadsWithin
        <5>2. wn.next \in {0} \cup (((p + i + 2) + 1)..(Len(whole) + 1))
          BY <1>0, <3>1, ReadsWithin
        <5>3. (i + 2) + 1 = i + 3 /\ (p + i + 2) + 1 = p + i + 3
          BY <1>0
        <5> QED
          BY <5>1, <5>2, <5>3
      <4>3. /\ cn.next # 0 => wn.next = p + cn.next /\ wn.selects = cn.selects
            /\ wn.next \in 1..(p + Len(part) + 1) => cn.next # 0
        BY <3>1, <3>2 DEF Alike
      <4>4. cn.next \in 1..Len(part) => At(whole, p + cn.next) = At(part, cn.next)
        BY AlikeAt
      <4>5. At(part, cn.next) = ")" => cn.next \in 1..Len(part)
        BY <1>0, <4>2, AtPlace, SMTT(30)
      <4>6. At(whole, wn.next) = ")" => wn.next \in 1..Len(whole)
        BY <1>0, <4>2, AtPlace
      <4> HIDE DEF cn, wn, c, w
      <4>7. /\ IF At(part, cn.next) # ")" THEN c.next = 0
               ELSE c.next = cn.next + 1 /\ c.selects = Entries \ cn.selects
            /\ IF At(whole, wn.next) # ")" THEN w.next = 0
               ELSE w.next = wn.next + 1 /\ w.selects = Entries \ wn.selects
        BY <4>1
      <4>8. c.next # 0 => w.next = p + c.next /\ w.selects = c.selects
        <5>1. SUFFICES ASSUME c.next # 0 PROVE w.next = p + c.next /\ w.selects = c.selects
          OBVIOUS
        <5>2. At(part, cn.next) = ")" /\ cn.next \in 1..Len(part)
          BY <4>5, <4>7, <5>1
        <5>3. wn.next = p + cn.next /\ wn.selects = cn.selects /\ At(whole, wn.next) = ")"
          BY <4>3, <4>4, <5>2
        <5>4. c.next = cn.next + 1 /\ w.next = wn.next + 1 /\ w.selects = c.selects
          BY <4>7, <5>2, <5>3
        <5> QED
          BY <1>0, <5>2, <5>3, <5>4
      <4>9. w.next \in 1..(p + Len(part) + 1) => c.next # 0
        <5>1. SUFFICES ASSUME w.next \in 1..(p + Len(part) + 1) PROVE c.next # 0
          OBVIOUS
        <5>2. At(whole, wn.next) = ")" /\ w.next = wn.next + 1
          BY <4>7, <5>1
        <5>3. wn.next \in 1..(p + Len(part)) /\ wn.next \in 1..(p + Len(part) + 1)
          BY <1>0, <4>6, <5>1, <5>2
        <5>4. cn.next \in 1..Len(part)
          BY <1>0, <4>2, <4>3, <5>3
        <5>5. At(part, cn.next) = ")"
          BY <4>3, <4>4, <5>2, <5>3, <5>4
        <5> QED
          BY <4>7, <5>4, <5>5
      <4> QED
        BY <4>8, <4>9 DEF c, w
    <3>5. CASE At(part, i + 1) \notin {"&", "|", "!"}
      <4>1. ASSUME NEW m \in (i + 1)..Len(part)
            PROVE  Closes(part, i, m) <=> Closes(whole, p + i, p + m)
        <5>1. /\ part[m] = whole[p + m] /\ p + m \in (p + i + 1)..Len(whole)
              /\ m \in 1..Len(part)
          BY <1>0, <2>1 DEF Stands
        <5>2. (\A j \in (i + 1)..(m - 1) : part[j] # ")")
                <=> (\A j \in (p + i + 1)..((p + m) - 1) : whole[j] # ")")
          <6>1. ASSUME NEW j \in (i + 1)..(m - 1)
                PROVE  part[j] = whole[p + j] /\ p + j \in (p + i + 1)..((p + m) - 1)
            BY <1>0, <2>1 DEF Stands
          <6>2. ASSUME NEW j \in (p + i + 1)..((p + m) - 1)
                PROVE  j - p \in (i + 1)..(m - 1) /\ p + (j - p) = j
            BY <1>0, <2>1
          <6> QED
            BY <6>1, <6>2
        <5> QED
          BY <1>0, <2>1, <5>1, <5>2 DEF Closes
      <4>2. ASSUME NEW m \in (i + 1)..Len(part), Closes(part, i, m)
            PROVE  /\ c.next # 0 => w.next = p + c.next /\ w.selects = c.selects
                   /\ w.next # 0 => c.next # 0
        <5>1. SubSeq(part, i + 1, m - 1) = SubSeq(whole, p + i + 1, (p + m) - 1)
          <6> DEFINE s == SubSeq(part, i + 1, m - 1)
                     t == SubSeq(whole, p + i + 1, (p + m) - 1)
          <6>1. /\ \A j \in (i + 1)..(m - 1) : part[j] \in Tokens
                /\ \A j \in (p + i + 1)..((p + m) - 1) : whole[j] \in Tokens
            BY <1>0, <2>1
          <6>2. /\ s \in Seq(Tokens)
                /\ Len(s) = IF i + 1 <= m - 1 THEN (m - 1) - (i + 1) + 1 ELSE 0
                /\ \A j \in 1..((m - 1) - (i + 1) + 1) : s[j] = part[(i + 1) + j - 1]
            BY <1>0, <6>1, SubSeqProperties
          <6>3. /\ t \in Seq(Tokens)
                /\ Len(t) = IF p + i + 1 <= (p + m) - 1
                            THEN ((p + m) - 1) - (p + i + 1) + 1 ELSE 0
                /\ \A j \in 1..(((p + m) - 1) - (p + i + 1) + 1) :
                      t[j] = whole[(p + i + 1) + j - 1]
            BY <1>0, <6>1, SubSeqProperties
          <6>4. Len(s) = Len(t) /\ Len(s) \in Nat
            BY <1>0, <6>2, <6>3
          <6>5. ASSUME NEW j \in 1..Len(s) PROVE s[j] = t[j]
            <7>0. i + 1 <= m - 1 /\ Len(s) = (m - 1) - (i + 1) + 1
              BY <1>0, <6>2
            <7>1. i + j \in 1..Len(part) /\ j \in 1..((m - 1) - (i + 1) + 1)
                  /\ j \in 1..(((p + m) - 1) - (p + i + 1) + 1)
              BY <1>0, <2>1, <7>0
            <7>2. s[j] = part[i + j] /\ t[j] = whole[p + (i + j)]
              <8>1. (i + 1) + j - 1 = i + j /\ (p + i + 1) + j - 1 = p + (i + j)
                BY <1>0
              <8> QED
                BY <6>2, <6>3, <7>1, <8>1
            <7> QED
              BY <7>1, <7>2 DEF Stands
          <6> HIDE DEF s, t
          <6>6. s = t
            BY <6>2, <6>3, <6>4, <6>5, SeqEqual
          <6> QED
            BY <6>6 DEF s, t
        <5>2. Closes(whole, p + i, p + m) /\ At(whole, (p + i) + 1) = At(part, i + 1)
          BY <1>0, <3>1, <4>1, <4>2
        <5> DEFINE node == Simple(SubSeq(part, i + 1, m - 1))
        <5>3. IF node = Malformed THEN c = [next |-> 0, selects |-> {}]
              ELSE c = [next |-> m + 1, selects |-> Selecting(node)]
          BY <1>0, <2>1, <2>4, <3>5, <4>2, ReadsSimple
        <5>4. IF node = Malformed THEN w = [next |-> 0, selects |-> {}]
              ELSE w = [next |-> (p + m) + 1, selects |-> Selecting(node)]
          <6>1. node = Simple(SubSeq(whole, (p + i) + 1, (p + m) - 1))
            BY <5>1, Zenon
          <6>2. At(whole, p + i) = "(" /\ At(whole, (p + i) + 1) \notin {"&", "|", "!"}
            BY <2>1, <2>4, <3>5, <5>2
          <6>3. LET there == Simple(SubSeq(whole, (p + i) + 1, (p + m) - 1)) IN
                IF there = Malformed THEN w = [next |-> 0, selects |-> {}]
                ELSE w = [next |-> (p + m) + 1, selects |-> Selecting(there)]
            <7>1. whole \in Seq(Tokens) /\ p + i \in 1..(Len(whole) + 1)
              BY <1>0
            <7>2. Closes(whole, p + i, p + m)
              BY <5>2
            <7> QED
              BY <6>2, <7>1, <7>2, ReadsSimple, Zenon
          <6> QED
            BY <6>1, <6>3, Zenon
        <5> HIDE DEF node, c, w
        <5>5. /\ c.next # 0 => w.next = p + c.next /\ w.selects = c.selects
              /\ w.next # 0 => c.next # 0
          BY <1>0, <5>3, <5>4
        <5> QED
          BY <5>5
      <4>3. c.next # 0 => w.next = p + c.next /\ w.selects = c.selects
        <5>1. SUFFICES ASSUME c.next # 0 PROVE w.next = p + c.next /\ w.selects = c.selects
          OBVIOUS
        <5>2. PICK m : Closes(part, i, m)
          BY <1>0, <2>1, <2>4, <3>5, <5>1, ReadsUnclosed
        <5> QED
          BY <4>2, <5>1, <5>2 DEF Closes
      <4>4. w.next \in 1..(p + Len(part) + 1) => c.next # 0
        <5>1. SUFFICES ASSUME w.next \in 1..(p + Len(part) + 1) PROVE c.next # 0
          OBVIOUS
        <5>2. At(whole, (p + i) + 1) \notin {"&", "|", "!"}
          BY <1>0, <3>1, <3>5
        <5>3. PICK m : Closes(whole, p + i, m)
          BY <1>0, <2>1, <2>4, <5>1, <5>2, ReadsUnclosed
        <5>4. m + 1 = w.next
          BY <1>0, <2>1, <2>4, <5>1, <5>2, <5>3, ReadsSimple, SMTT(30)
        <5>5. m - p \in (i + 1)..Len(part) /\ p + (m - p) = m
          BY <1>0, <2>1, <5>1, <5>3, <5>4 DEF Closes
        <5>6. Closes(part, i, m - p)
          BY <4>1, <5>3, <5>5
        <5> QED
          BY <4>2, <5>1, <5>5, <5>6
      <4> QED
        BY <4>3, <4>4
    <3> QED
      BY <3>3, <3>4, <3>5
  <2> QED
    BY <2>2, <2>3, <2>4
<1> QED
  BY <1>2, <1>3

\* So is a run of clauses that ends within the part.
LEMMA RunAlike ==
    ASSUME NEW part, NEW p, NEW whole, Stands(part, p, whole), NEW i \in 1..(Len(part) + 1),
           \A j \in (i + 1)..(Len(part) + 1) : Alike(part, p, whole, j)
    PROVE  /\ ReadRun(part, i).next \in 1..Len(part) =>
                /\ ReadRun(whole, p + i).next = p + ReadRun(part, i).next
                /\ ReadRun(whole, p + i).parts = ReadRun(part, i).parts
           /\ ReadRun(whole, p + i).next \in 1..(p + Len(part)) =>
                ReadRun(part, i).next \in 1..Len(part)
<1>0. /\ part \in Seq(Tokens) /\ whole \in Seq(Tokens) /\ p \in Nat
      /\ Len(part) \in Nat /\ Len(whole) \in Nat /\ p + Len(part) <= Len(whole)
      /\ p + i \in 1..(Len(whole) + 1)
  BY DEF Stands
<1> DEFINE c == ReadClause(part, i)
           w == ReadClause(whole, p + i)
           cr == ReadRun(part, i)
           wr == ReadRun(whole, p + i)
<1>1. /\ c.next \in {0} \cup ((i + 1)..(Len(part) + 1))
      /\ w.next \in {0} \cup ((p + i + 1)..(Len(whole) + 1))
      /\ cr.next \in {0} \cup (i..(Len(part) + 1))
      /\ wr.next \in {0} \cup ((p + i)..(Len(whole) + 1))
  BY <1>0, ReadsWithin
<1>2. /\ c.next # 0 => w.next = p + c.next /\ w.selects = c.selects
      /\ w.next \in 1..(p + Len(part) + 1) => c.next # 0
  BY ClauseAlike
<1>3. CASE i = Len(part) + 1
  <2>1. At(part, i) # "("
    BY <1>0, <1>3, AtPlace
  <2>2. cr.next = i
    BY <1>0, <2>1, ReadsNothing
  <2>3. wr.next \notin 1..(p + Len(part))
    BY <1>0, <1>1, <1>3
  <2> QED
    BY <1>0, <1>3, <2>2, <2>3
<1>4. CASE i # Len(part) + 1 /\ At(part, i) # "("
  <2>1. i \in 1..Len(part) /\ At(whole, p + i) # "("
    <3>1. i \in 1..Len(part)
      BY <1>0, <1>4
    <3> QED
      BY <1>4, <3>1, AlikeAt
  <2>2. cr = [next |-> i, parts |-> {}] /\ wr = [next |-> p + i, parts |-> {}]
    BY <1>0, <1>4, <2>1, ReadsNothing
  <2> QED
    BY <2>1, <2>2
<1>5. CASE i # Len(part) + 1 /\ At(part, i) = "("
  <2>1. i \in 1..Len(part) /\ At(whole, p + i) = "("
    <3>1. i \in 1..Len(part)
      BY <1>0, <1>5
    <3> QED
      BY <1>5, <3>1, AlikeAt
  <2> DEFINE cn == ReadRun(part, c.next)
             wn == ReadRun(whole, w.next)
  <2>2. /\ IF c.next = 0 THEN cr = [next |-> 0, parts |-> {}]
           ELSE cr = [next |-> cn.next, parts |-> cn.parts \cup {c.selects}]
        /\ IF w.next = 0 THEN wr = [next |-> 0, parts |-> {}]
           ELSE wr = [next |-> wn.next, parts |-> wn.parts \cup {w.selects}]
    BY <1>0, <1>5, <2>1, ReadsRun
  <2> HIDE DEF cr, wr, cn, wn
  <2>3. /\ IF c.next = 0 THEN cr.next = 0
           ELSE cr.next = cn.next /\ cr.parts = cn.parts \cup {c.selects}
        /\ IF w.next = 0 THEN wr.next = 0
           ELSE wr.next = wn.next /\ wr.parts = wn.parts \cup {w.selects}
    BY <2>2
  <2>4. ASSUME c.next # 0
        PROVE  /\ cn.next \in 1..Len(part) => wn.next = p + cn.next /\ wn.parts = cn.parts
               /\ wn.next \in 1..(p + Len(part)) => cn.next \in 1..Len(part)
    <3>1. Alike(part, p, whole, c.next) /\ w.next = p + c.next
      BY <1>1, <1>2, <2>4
    <3> QED
      BY <3>1 DEF Alike, cn, wn
  <2>5. cr.next \in 1..Len(part) => wr.next = p + cr.next /\ wr.parts = cr.parts
    <3>1. SUFFICES ASSUME cr.next \in 1..Len(part)
                   PROVE  wr.next = p + cr.next /\ wr.parts = cr.parts
      OBVIOUS
    <3>2. c.next # 0
      BY <2>3, <3>1
    <3>3. cr.next = cn.next /\ wn.next = p + cn.next /\ wn.parts = cn.parts
      BY <2>3, <2>4, <3>1, <3>2
    <3>4. w.next # 0 /\ w.selects = c.selects
      BY <1>0, <1>1, <1>2, <3>2
    <3> QED
      BY <2>3, <3>2, <3>3, <3>4
  <2>6. wr.next \in 1..(p + Len(part)) => cr.next \in 1..Len(part)
    <3>1. SUFFICES ASSUME wr.next \in 1..(p + Len(part)) PROVE cr.next \in 1..Len(part)
      OBVIOUS
    <3>2. w.next # 0 /\ wn.next = wr.next
      BY <2>3, <3>1
    <3>3. w.next \in 1..(Len(whole) + 1)
      BY <1>0, <1>1, <3>2
    <3>4. wn.next \in {0} \cup (w.next..(Len(whole) + 1))
      BY <1>0, <3>3, ReadsWithin DEF wn
    <3>5. w.next \in 1..(p + Len(part) + 1)
      BY <1>0, <3>1, <3>2, <3>3, <3>4
    <3>6. c.next # 0
      BY <1>2, <3>5
    <3> QED
      BY <2>3, <2>4, <3>1, <3>2, <3>6
  <2> QED
    BY <2>5, <2>6 DEF cr, wr
<1> QED
  BY <1>3, <1>4, <1>5

\* Reading is local: all of a part is read in the whole as it is alone.
LEMMA ReadsAlike ==
    ASSUME NEW part, NEW p, NEW whole, Stands(part, p, whole)
    PROVE  \A i \in 1..(Len(part) + 1) : Alike(part, p, whole, i)
<1> DEFINE L == Len(part) + 1
           T == {n \in Nat : n <= L => \A i \in ((L + 1) - n)..L : Alike(part, p, whole, i)}
<1>0. L \in Nat
  BY DEF Stands
<1>1. 0 \in T
  BY <1>0
<1>2. ASSUME NEW n \in Nat, n \in T PROVE n + 1 \in T
  <2> SUFFICES ASSUME n + 1 <= L, NEW i \in ((L + 1) - (n + 1))..L
               PROVE  Alike(part, p, whole, i)
    OBVIOUS
  <2>1. \A h \in ((L + 1) - n)..L : Alike(part, p, whole, h)
    BY <1>0, <1>2
  <2>2. i \in 1..L /\ \A h \in (i + 1)..L : h \in ((L + 1) - n)..L
    BY <1>0
  <2>3. \A h \in (i + 1)..(Len(part) + 1) : Alike(part, p, whole, h)
    BY <2>1, <2>2
  <2> QED
    BY <2>2, <2>3, ClauseAlike, RunAlike DEF Alike
<1> HIDE DEF T
<1>3. L \in T
  BY <1>0, <1>1, <1>2, HoldsAllNumbers
<1>4. (L + 1) - L = 1
  BY <1>0
<1> QED
  BY <1>0, <1>3, <1>4 DEF T

-----------------------------------------------------------------------------
(* Parentheses *)

\* Counting one token more.
LEMMA DepthNext ==
    ASSUME NEW text, NEW n \in Nat
    PROVE  /\ Depth(text, n) \in Int
           /\ text[n + 1] = "(" => Depth(text, n + 1) = Depth(text, n) + 1
           /\ text[n + 1] = ")" => Depth(text, n + 1) = Depth(text, n) - 1
           /\ text[n + 1] \notin {"(", ")"} => Depth(text, n + 1) = Depth(text, n)
<1> DEFINE Places(c, k) == {i \in 1..k : text[i] = c}
<1>1. ASSUME NEW c
      PROVE  /\ Cardinality(Places(c, n)) \in Nat
             /\ text[n + 1] = c =>
                  Cardinality(Places(c, n + 1)) = Cardinality(Places(c, n)) + 1
             /\ text[n + 1] # c => Places(c, n + 1) = Places(c, n)
  <2>1. IsFiniteSet(1..n)
    BY FS_Interval
  <2>2. IsFiniteSet(Places(c, n))
    BY <2>1, FS_Subset
  <2>3. Cardinality(Places(c, n)) \in Nat
    BY <2>2, FS_CardinalityType
  <2>4. ASSUME text[n + 1] = c
        PROVE  Cardinality(Places(c, n + 1)) = Cardinality(Places(c, n)) + 1
    <3>1. Places(c, n + 1) = Places(c, n) \cup {n + 1} /\ n + 1 \notin Places(c, n)
      BY <2>4
    <3> HIDE DEF Places
    <3> QED
      BY <2>2, <3>1, FS_AddElement
  <2> QED
    BY <2>3, <2>4
<1>2. \A k : Depth(text, k) = Cardinality(Places("(", k)) - Cardinality(Places(")", k))
  BY DEF Depth
<1> HIDE DEF Places
<1>3. /\ Cardinality(Places("(", n)) \in Nat /\ Cardinality(Places(")", n)) \in Nat
      /\ Depth(text, n) = Cardinality(Places("(", n)) - Cardinality(Places(")", n))
      /\ Depth(text, n + 1) = Cardinality(Places("(", n + 1)) - Cardinality(Places(")", n + 1))
  BY <1>1, <1>2
<1> QED
  BY <1>1, <1>3

\* Nothing is open at the beginning.
LEMMA DepthNone == ASSUME NEW text PROVE Depth(text, 0) = 0
<1>1. {i \in 1..0 : text[i] = "("} = {} /\ {i \in 1..0 : text[i] = ")"} = {}
  OBVIOUS
<1> QED
  BY <1>1, FS_EmptySet DEF Depth

\* Where nothing closes the depth does not fall.
LEMMA DepthKept ==
    ASSUME NEW text, NEW i \in Nat, NEW n \in Nat,
           \A j \in (i + 1)..(i + n) : text[j] # ")"
    PROVE  Depth(text, i + n) >= Depth(text, i)
<1> DEFINE T == {k \in Nat : k <= n => Depth(text, i + k) >= Depth(text, i)}
<1>1. 0 \in T
  BY DepthNext
<1>2. ASSUME NEW k \in Nat, k \in T PROVE k + 1 \in T
  <2>1. SUFFICES ASSUME k + 1 <= n PROVE Depth(text, i + (k + 1)) >= Depth(text, i)
    OBVIOUS
  <2>2. /\ i + k \in Nat /\ i + (k + 1) = (i + k) + 1 /\ (i + k) + 1 \in (i + 1)..(i + n)
        /\ k <= n
    BY <2>1
  <2>3. text[(i + k) + 1] # ")" /\ Depth(text, i + k) >= Depth(text, i)
    BY <1>2, <2>2
  <2>4. Depth(text, i) \in Int /\ Depth(text, i + k) \in Int
        /\ (Depth(text, (i + k) + 1) = Depth(text, i + k) + 1
              \/ Depth(text, (i + k) + 1) = Depth(text, i + k))
    BY <2>2, <2>3, DepthNext
  <2> QED
    BY <2>2, <2>3, <2>4
<1> HIDE DEF T
<1>3. n \in T
  BY <1>1, <1>2, HoldsAllNumbers
<1> QED
  BY <1>3 DEF T

\* Whatever can be read closes no more than it opens.
LEMMA ReadsBalanced ==
    ASSUME NEW text \in Seq(Tokens)
    PROVE  \A i \in 1..(Len(text) + 1) :
              /\ ReadClause(text, i).next # 0 =>
                   Depth(text, ReadClause(text, i).next - 1) >= Depth(text, i - 1)
              /\ ReadRun(text, i).next # 0 =>
                   Depth(text, ReadRun(text, i).next - 1) >= Depth(text, i - 1)
<1> DEFINE Kept(i, j) == j # 0 => Depth(text, j - 1) >= Depth(text, i - 1)
           B(i) == Kept(i, ReadClause(text, i).next) /\ Kept(i, ReadRun(text, i).next)
           L == Len(text) + 1
           T == {n \in Nat : n <= L => \A i \in ((L + 1) - n)..L : B(i)}
<1>0. Len(text) \in Nat /\ L \in Nat
  OBVIOUS
<1>1. 0 \in T
  BY <1>0
<1>2. ASSUME NEW n \in Nat, n \in T PROVE n + 1 \in T
  <2> SUFFICES ASSUME n + 1 <= L, NEW i \in ((L + 1) - (n + 1))..L PROVE B(i)
    OBVIOUS
  <2>1. \A h \in ((L + 1) - n)..L : B(h)
    BY <1>0, <1>2
  <2>2. i \in 1..L /\ \A h \in (i + 1)..L : h \in ((L + 1) - n)..L
    BY <1>0
  <2>3. \A h \in (i + 1)..L : B(h)
    BY <2>1, <2>2
  <2> DEFINE c == ReadClause(text, i)
             r == ReadRun(text, i)
  <2>4. c.next \in {0} \cup ((i + 1)..L) /\ r.next \in {0} \cup (i..L)
    BY <2>2, Reads
  <2>5. CASE At(text, i) # "("
    <3>1. c.next = 0 /\ r.next = i
      BY <2>2, <2>5, ReadsNothing
    <3>2. Depth(text, i - 1) \in Int
      BY <2>2, DepthNext
    <3> QED
      BY <3>1, <3>2
  <2>6. CASE At(text, i) = "("
    <3>1. /\ i \in 1..Len(text) /\ text[i] = "(" /\ i - 1 \in Nat /\ (i - 1) + 1 = i
          /\ Depth(text, i - 1) \in Int /\ Depth(text, i) = Depth(text, i - 1) + 1
      <4>1. i \in 1..Len(text) /\ text[i] = "(" /\ i - 1 \in Nat /\ (i - 1) + 1 = i
        BY <1>0, <2>2, <2>6, AtPlace
      <4> QED
        BY <4>1, DepthNext
    <3>2. ASSUME NEW k \in (i + 1)..Len(text), text[k] = ")", Depth(text, k - 1) > Depth(text, i - 1)
          PROVE  Depth(text, k) >= Depth(text, i - 1)
      <4>1. k - 1 \in Nat /\ (k - 1) + 1 = k
        BY <2>2
      <4>2. Depth(text, k - 1) \in Int /\ Depth(text, k) = Depth(text, k - 1) - 1
        BY <3>2, <4>1, DepthNext
      <4> QED
        BY <3>1, <3>2, <4>2
    <3>3. Kept(i, c.next)
      <4>1. SUFFICES ASSUME c.next # 0 PROVE Depth(text, c.next - 1) >= Depth(text, i - 1)
        OBVIOUS
      <4>2. CASE At(text, i + 1) \in {"&", "|", "!"}
        <5>1. /\ i + 1 \in 1..Len(text) /\ text[i + 1] \in {"&", "|", "!"}
              /\ i + 2 \in (i + 1)..L /\ (i + 2) - 1 = i + 1 /\ i + 2 \in 1..L /\ i \in Nat
          BY <1>0, <2>2, <4>2, AtPlace
        <5>2. Depth(text, (i + 2) - 1) = Depth(text, i - 1) + 1
          BY <3>1, <5>1, DepthNext
        <5>3. B(i + 2)
          BY <2>3, <5>1
        <5>4. PICK k : /\ c.next = k + 1 /\ At(text, k) = ")"
                       /\ k \in {ReadRun(text, i + 2).next, ReadClause(text, i + 2).next}
          <6>1. CASE At(text, i + 1) \in {"&", "|"}
            BY <2>2, <2>6, <4>1, <6>1, ReadsJoin
          <6>2. CASE At(text, i + 1) = "!"
            BY <2>2, <2>6, <4>1, <6>2, ReadsNot
          <6> QED
            BY <4>2, <6>1, <6>2
        <5>5. k \in {0} \cup ((i + 2)..L)
          BY <1>0, <5>1, <5>4, Reads
        <5>6. k \in (i + 1)..Len(text) /\ text[k] = ")" /\ k # 0 /\ (k + 1) - 1 = k
          BY <1>0, <5>1, <5>4, <5>5, AtPlace
        <5>7. Depth(text, k - 1) >= Depth(text, (i + 2) - 1)
          BY <5>3, <5>4, <5>6
        <5>8. k - 1 \in Nat
          BY <2>2, <5>6
        <5>9. Depth(text, k - 1) > Depth(text, i - 1)
          BY <3>1, <5>2, <5>7, <5>8, DepthNext
        <5> QED
          BY <3>2, <5>4, <5>6, <5>9
      <4>3. CASE At(text, i + 1) \notin {"&", "|", "!"}
        <5>1. PICK m : Closes(text, i, m)
          BY <2>2, <2>6, <4>1, <4>3, ReadsUnclosed
        <5>2. c.next = m + 1
          BY <2>2, <2>6, <4>1, <4>3, <5>1, ReadsSimple
        <5>3. /\ m \in (i + 1)..Len(text) /\ text[m] = ")" /\ (m + 1) - 1 = m /\ i \in Nat
              /\ (m - 1) - i \in Nat /\ i + ((m - 1) - i) = m - 1
              /\ \A j \in (i + 1)..(i + ((m - 1) - i)) : text[j] # ")"
          BY <1>0, <2>2, <5>1 DEF Closes
        <5>4. Depth(text, m - 1) >= Depth(text, i)
          BY <5>3, DepthKept
        <5>5. Depth(text, m - 1) \in Int
          BY <2>2, <5>3, DepthNext
        <5>6. Depth(text, m - 1) > Depth(text, i - 1)
          BY <3>1, <5>4, <5>5
        <5> QED
          BY <3>2, <5>2, <5>3, <5>6
      <4> QED
        BY <4>2, <4>3
    <3>4. Kept(i, r.next)
      <4>1. SUFFICES ASSUME r.next # 0 PROVE Depth(text, r.next - 1) >= Depth(text, i - 1)
        OBVIOUS
      <4>2. c.next # 0 /\ r.next = ReadRun(text, c.next).next
        BY <2>2, <2>6, <4>1, ReadsRun
      <4>3. c.next \in (i + 1)..L
        BY <2>4, <4>2
      <4>4. Depth(text, r.next - 1) >= Depth(text, c.next - 1)
        BY <2>3, <4>1, <4>2, <4>3
      <4>5. Depth(text, c.next - 1) >= Depth(text, i - 1)
        BY <3>3, <4>2
      <4>6. r.next - 1 \in Nat /\ c.next - 1 \in Nat
        BY <2>2, <2>4, <4>1, <4>3, SMTT(30)
      <4>7. Depth(text, r.next - 1) \in Int /\ Depth(text, c.next - 1) \in Int
        BY <4>6, DepthNext
      <4> QED
        BY <3>1, <4>4, <4>5, <4>7
    <3> QED
      BY <3>3, <3>4
  <2> QED
    BY <2>5, <2>6
<1> HIDE DEF T
<1>3. L \in T
  BY <1>0, <1>1, <1>2, HoldsAllNumbers
<1>4. (L + 1) - L = 1
  BY <1>0
<1> QED
  BY <1>0, <1>3, <1>4 DEF T

\* The depth in a part, above that before it.
LEMMA DepthOfPart ==
    ASSUME NEW part, NEW p, NEW whole, Stands(part, p, whole)
    PROVE  \A n \in 0..Len(part) : Depth(whole, p + n) = Depth(whole, p) + Depth(part, n)
<1> DEFINE T == {n \in Nat : n <= Len(part) =>
                     Depth(whole, p + n) = Depth(whole, p) + Depth(part, n)}
<1>0. p \in Nat /\ Len(part) \in Nat /\ Depth(whole, p) \in Int
  BY DepthNext DEF Stands
<1>1. 0 \in T
  <2>1. p + 0 = p /\ Depth(part, 0) = 0
    BY <1>0, DepthNone
  <2> QED
    BY <1>0, <2>1
<1>2. ASSUME NEW n \in Nat, n \in T PROVE n + 1 \in T
  <2>1. SUFFICES ASSUME n + 1 <= Len(part)
                 PROVE  Depth(whole, p + (n + 1)) = Depth(whole, p) + Depth(part, n + 1)
    OBVIOUS
  <2>2. /\ n + 1 \in 1..Len(part) /\ p + n \in Nat /\ p + (n + 1) = (p + n) + 1
        /\ n <= Len(part)
    BY <1>0, <2>1
  <2>3. whole[(p + n) + 1] = part[n + 1]
    BY <2>2 DEF Stands
  <2>4. Depth(whole, p + n) = Depth(whole, p) + Depth(part, n)
    BY <1>2, <2>2
  <2>5. Depth(part, n) \in Int /\ Depth(whole, p + n) \in Int
    BY <2>2, DepthNext
  <2>6. CASE part[n + 1] = "("
    <3>1. /\ Depth(part, n + 1) = Depth(part, n) + 1
          /\ Depth(whole, (p + n) + 1) = Depth(whole, p + n) + 1
      BY <2>2, <2>3, <2>6, DepthNext
    <3> QED
      BY <1>0, <2>2, <2>4, <2>5, <3>1
  <2>7. CASE part[n + 1] = ")"
    <3>1. /\ Depth(part, n + 1) = Depth(part, n) - 1
          /\ Depth(whole, (p + n) + 1) = Depth(whole, p + n) - 1
      BY <2>2, <2>3, <2>7, DepthNext
    <3> QED
      BY <1>0, <2>2, <2>4, <2>5, <3>1
  <2>8. CASE part[n + 1] \notin {"(", ")"}
    <3>1. /\ Depth(part, n + 1) = Depth(part, n)
          /\ Depth(whole, (p + n) + 1) = Depth(whole, p + n)
      BY <2>2, <2>3, <2>8, DepthNext
    <3> QED
      BY <1>0, <2>2, <2>4, <2>5, <3>1
  <2> QED
    BY <2>6, <2>7, <2>8
<1> HIDE DEF T
<1>3. Nat \subseteq T
  BY <1>1, <1>2, HoldsAllNumbers
<1> QED
  BY <1>0, <1>3 DEF T

\* Within a fragment that is one clause, a parenthesis is open until its end.
LEMMA OpenWithin ==
    ASSUME NEW text \in Seq(Tokens), valid_fragment(text)
    PROVE  /\ \A n \in 1..(Len(text) - 1) : Depth(text, n) >= 1
           /\ Depth(text, Len(text)) = 0
<1> DEFINE T == {n \in Nat : n + 1 <= Len(text) - 1 => Depth(text, n + 1) >= 1}
<1>0. Len(text) \in Nat /\ Len(text) >= 3 /\ text[1] = "("
  BY DEF valid_fragment
<1>1. 0 \in T
  <2>1. Depth(text, 0 + 1) = Depth(text, 0) + 1
    BY <1>0, DepthNext
  <2> QED
    BY <2>1, DepthNone
<1>2. ASSUME NEW n \in Nat, n \in T PROVE n + 1 \in T
  <2>1. SUFFICES ASSUME (n + 1) + 1 <= Len(text) - 1 PROVE Depth(text, (n + 1) + 1) >= 1
    OBVIOUS
  <2>2. /\ n + 1 \in Nat /\ Depth(text, n + 1) >= 1 /\ Depth(text, n + 1) \in Int
        /\ (n + 1) + 1 \in 1..(Len(text) - 1)
    BY <1>0, <1>2, <2>1, DepthNext
  <2>3. text[(n + 1) + 1] = ")" => Depth(text, (n + 1) + 1) # 0
    BY <2>2 DEF valid_fragment
  <2> QED
    BY <2>2, <2>3, DepthNext
<1> HIDE DEF T
<1>3. Nat \subseteq T
  BY <1>1, <1>2, HoldsAllNumbers
<1>4. ASSUME NEW n \in 1..(Len(text) - 1) PROVE Depth(text, n) >= 1
  <2>1. n - 1 \in Nat /\ (n - 1) + 1 = n /\ (n - 1) + 1 <= Len(text) - 1
    BY <1>0
  <2>2. Depth(text, (n - 1) + 1) >= 1
    BY <1>3, <2>1 DEF T
  <2> QED
    BY <2>1, <2>2
<1> QED
  BY <1>4 DEF valid_fragment

-----------------------------------------------------------------------------
(* What the builders mean *)

\* The text is one filter, which selects S.
Means(text, S) ==
    /\ text \in Seq(Tokens) /\ Len(text) >= 1
    /\ ReadClause(text, 1).next = Len(text) + 1
    /\ ReadClause(text, 1).selects = S

\* Where a text that is one filter stands, its filter is read.
LEMMA MeansThere ==
    ASSUME NEW part, NEW S, Means(part, S), NEW p, NEW whole, Stands(part, p, whole)
    PROVE  /\ At(whole, p + 1) = "("
           /\ ReadClause(whole, p + 1).next = p + Len(part) + 1
           /\ ReadClause(whole, p + 1).selects = S
<1>1. part \in Seq(Tokens) /\ Len(part) \in Nat /\ 1 \in 1..(Len(part) + 1) /\ p \in Nat
      /\ 1 \in 1..Len(part)
  BY DEF Means, Stands
<1>2. Alike(part, p, whole, 1)
  BY <1>1, ReadsAlike
<1>3. At(part, 1) = "("
  <2>1. ReadClause(part, 1).next # 0
    BY <1>1 DEF Means
  <2> QED
    BY <1>1, <2>1, ReadsNothing
<1>4. At(whole, p + 1) = At(part, 1)
  BY <1>1, AlikeAt
<1> QED
  BY <1>1, <1>2, <1>3, <1>4 DEF Alike, Means

\* The text is a clause that compares.
Compares(text, name, value) ==
    /\ text \in Seq(Tokens) /\ name \in Seq(Tokens) /\ value \in Seq(Tokens)
    /\ Len(text) = Len(name) + Len(value) + 3
    /\ text[1] = "(" /\ text[Len(name) + 2] = "=" /\ text[Len(text)] = ")"
    /\ \A k \in 1..Len(name) : text[k + 1] = name[k]
    /\ \A k \in 1..Len(value) : text[Len(name) + 2 + k] = value[k]

\* A clause of a name and a value is the comparison of the two.
LEMMA ComparesMeans ==
    ASSUME NEW text, NEW name, NEW value, Compares(text, name, value),
           Len(name) >= 1, name[1] \notin {"&", "|", "!"},
           \A k \in 1..Len(name) : name[k] \notin {"=", ")"},
           \A k \in 1..Len(value) : value[k] # ")",
           Comparison(name, value) # Malformed
    PROVE  Means(text, Selecting(Comparison(name, value)))
<1> DEFINE n == Len(name)
           v == Len(value)
           m == n + v + 3
           body == SubSeq(text, 2, m - 1)
<1>1. /\ text \in Seq(Tokens) /\ name \in Seq(Tokens) /\ value \in Seq(Tokens)
      /\ n \in Nat /\ v \in Nat /\ n >= 1 /\ m = Len(text) /\ m \in Nat
      /\ text[1] = "(" /\ text[n + 2] = "=" /\ text[m] = ")"
      /\ \A k \in 1..n : text[k + 1] = name[k]
      /\ \A k \in 1..v : text[n + 2 + k] = value[k]
  BY DEF Compares
<1> HIDE DEF n, v, m
<1>2. /\ body \in Seq(Tokens) /\ Len(body) = n + v + 1
      /\ \A j \in 1..(n + v + 1) : body[j] = text[j + 1]
  <2>1. \A j \in 2..(m - 1) : text[j] \in Tokens
    BY <1>1
  <2>2. /\ body \in Seq(Tokens) /\ Len(body) = IF 2 <= m - 1 THEN (m - 1) - 2 + 1 ELSE 0
        /\ \A j \in 1..((m - 1) - 2 + 1) : body[j] = text[2 + j - 1]
    BY <1>1, <2>1, SubSeqProperties
  <2>3. 2 <= m - 1 /\ (m - 1) - 2 + 1 = n + v + 1
    BY <1>1 DEF m
  <2>4. \A j \in 1..(n + v + 1) : 2 + j - 1 = j + 1
    BY <1>1
  <2> HIDE DEF body
  <2> QED
    BY <2>2, <2>3, <2>4
<1> HIDE DEF body
<1>3. /\ body[n + 1] = "=" /\ \A j \in 1..n : body[j] = name[j]
      /\ \A j \in 1..v : body[n + 1 + j] = value[j]
  <2>1. body[n + 1] = "="
    <3>1. n + 1 \in 1..(n + v + 1) /\ (n + 1) + 1 = n + 2
      BY <1>1
    <3> QED
      BY <1>1, <1>2, <3>1
  <2>2. ASSUME NEW j \in 1..n PROVE body[j] = name[j]
    <3>1. j \in 1..(n + v + 1)
      BY <1>1
    <3> QED
      BY <1>1, <1>2, <3>1
  <2>3. ASSUME NEW j \in 1..v PROVE body[n + 1 + j] = value[j]
    <3>1. n + 1 + j \in 1..(n + v + 1) /\ (n + 1 + j) + 1 = n + 2 + j
      BY <1>1
    <3> QED
      BY <1>1, <1>2, <3>1
  <2> QED
    BY <2>1, <2>2, <2>3
<1>4. (CHOOSE k \in DOMAIN body : body[k] = "=" /\ \A j \in 1..(k - 1) : body[j] # "=") = n + 1
  <2> DEFINE P(k) == body[k] = "=" /\ \A j \in 1..(k - 1) : body[j] # "="
  <2>1. n + 1 \in DOMAIN body /\ DOMAIN body \subseteq Nat
    BY <1>1, <1>2
  <2>2. P(n + 1)
    <3>1. (n + 1) - 1 = n
      BY <1>1
    <3> QED
      BY <1>3, <3>1 DEF n
  <2>3. ASSUME NEW k \in DOMAIN body, P(k) PROVE k = n + 1
    <3>1. k \in Nat /\ k >= 1
      BY <1>1, <1>2
    <3>2. ~ (k < n + 1)
      <4>1. SUFFICES ASSUME k < n + 1 PROVE FALSE
        OBVIOUS
      <4>2. k \in 1..n
        BY <1>1, <3>1, <4>1
      <4>3. body[k] = name[k] /\ name[k] # "="
        BY <1>3, <4>2 DEF n
      <4> QED
        BY <2>3, <4>3
    <3>3. ~ (n + 1 < k)
      <4>1. SUFFICES ASSUME n + 1 < k PROVE FALSE
        OBVIOUS
      <4>2. n + 1 \in 1..(k - 1)
        BY <1>1, <3>1, <4>1
      <4> QED
        BY <1>3, <2>3, <4>2
    <3> QED
      BY <1>1, <3>1, <3>2, <3>3
  <2> HIDE DEF P
  <2>4. (CHOOSE k \in DOMAIN body : P(k)) = n + 1
    BY <2>1, <2>2, <2>3
  <2> QED
    BY <2>4 DEF P
<1>5. SubSeq(body, 1, (n + 1) - 1) = name
  <2> DEFINE s == SubSeq(body, 1, (n + 1) - 1)
  <2>1. (n + 1) - 1 = n /\ \A j \in 1..n : body[j] \in Tokens
    BY <1>1, <1>2, SMTT(30)
  <2>2. /\ s \in Seq(Tokens) /\ Len(s) = IF 1 <= n THEN n - 1 + 1 ELSE 0
        /\ \A j \in 1..(n - 1 + 1) : s[j] = body[1 + j - 1]
    BY <1>1, <2>1, SubSeqProperties
  <2>3. n - 1 + 1 = n /\ \A j \in 1..n : 1 + j - 1 = j
    BY <1>1
  <2> HIDE DEF s
  <2>4. Len(s) = n /\ \A j \in 1..n : s[j] = name[j]
    <3>1. Len(s) = n
      BY <1>1, <2>2, <2>3
    <3>2. ASSUME NEW j \in 1..n PROVE s[j] = name[j]
      <4>1. s[j] = body[1 + j - 1] /\ 1 + j - 1 = j
        BY <2>2, <2>3
      <4>2. s[j] = body[j]
        BY <4>1
      <4> QED
        BY <1>3, <4>2
    <3> QED
      BY <3>1, <3>2
  <2>5. s = name
    BY <1>1, <2>2, <2>4, SeqEqual DEF n
  <2> QED
    BY <2>5 DEF s
<1>6. SubSeq(body, (n + 1) + 1, Len(body)) = value
  <2> DEFINE s == SubSeq(body, (n + 1) + 1, Len(body))
             b == n + v + 1
  <2>1. /\ b = Len(body) /\ b \in Nat /\ (n + 1) + 1 \in Int
        /\ \A j \in ((n + 1) + 1)..b : body[j] \in Tokens
    BY <1>1, <1>2
  <2>2. /\ s \in Seq(Tokens)
        /\ Len(s) = IF (n + 1) + 1 <= b THEN b - ((n + 1) + 1) + 1 ELSE 0
        /\ \A j \in 1..(b - ((n + 1) + 1) + 1) : s[j] = body[((n + 1) + 1) + j - 1]
    BY <2>1, SubSeqProperties
  <2>3. /\ (IF (n + 1) + 1 <= b THEN b - ((n + 1) + 1) + 1 ELSE 0) = v
        /\ b - ((n + 1) + 1) + 1 = v
        /\ \A j \in 1..v : ((n + 1) + 1) + j - 1 = n + 1 + j
    BY <1>1
  <2> HIDE DEF s, b
  <2>4. Len(s) = v /\ \A j \in 1..v : s[j] = value[j]
    BY <1>1, <1>3, <2>2, <2>3
  <2>5. s = value
    BY <1>1, <2>2, <2>4, SeqEqual DEF v
  <2> QED
    BY <2>5 DEF s
<1>7. "=" \in Range(body)
  <2>1. n + 1 \in DOMAIN body
    BY <1>1, <1>2
  <2> QED
    BY <1>3, <2>1 DEF Range
<1>8. Simple(body) = Comparison(name, value)
  BY <1>4, <1>5, <1>6, <1>7, Zenon DEF Simple
<1>9. Closes(text, 1, m)
  <2>1. m \in (1 + 1)..Len(text)
    BY <1>1 DEF m
  <2>2. ASSUME NEW j \in (1 + 1)..(m - 1) PROVE text[j] # ")"
    <3>1. CASE j <= n + 1
      <4>1. j - 1 \in 1..n /\ (j - 1) + 1 = j
        BY <1>1, <3>1
      <4> QED
        BY <1>1, <4>1 DEF n
    <3>2. CASE j = n + 2
      BY <1>1, <3>2
    <3>3. CASE j > n + 2
      <4>1. j - (n + 2) \in 1..v /\ n + 2 + (j - (n + 2)) = j
        BY <1>1, <3>3 DEF m
      <4> QED
        BY <1>1, <4>1 DEF v
    <3> QED
      BY <1>1, <3>1, <3>2, <3>3
  <2> QED
    BY <1>1, <2>1, <2>2 DEF Closes
<1>10. At(text, 1) = "(" /\ At(text, 1 + 1) \notin {"&", "|", "!"} /\ 1 \in 1..(Len(text) + 1)
  <2>1. 1 \in 1..Len(text) /\ 2 \in 1..Len(text) /\ 1 \in 1..n /\ 1 + 1 = 2
    BY <1>1 DEF m
  <2>2. text[1 + 1] = name[1]
    BY <1>1, <2>1
  <2> QED
    BY <1>1, <2>1, <2>2, AtPlace
<1>11. LET node == Simple(SubSeq(text, 1 + 1, m - 1)) IN
       IF node = Malformed THEN ReadClause(text, 1) = [next |-> 0, selects |-> {}]
       ELSE ReadClause(text, 1) = [next |-> m + 1, selects |-> Selecting(node)]
  BY <1>1, <1>9, <1>10, ReadsSimple, Zenon
<1>12. SubSeq(text, 1 + 1, m - 1) = body
  BY DEF body
<1>13. ReadClause(text, 1) = [next |-> m + 1, selects |-> Selecting(Comparison(name, value))]
  BY <1>8, <1>11, <1>12, Zenon
<1>14. m >= 1
  BY <1>1 DEF m
<1> QED
  BY <1>1, <1>13, <1>14 DEF Means

-----------------------------------------------------------------------------
(* What the builders write *)

\* The tokens the builders and the escape sequences are made of.
LEMMA TokensAre ==
    /\ {"(", ")", "&", "|", "!", "=", "*", IN_CHAIN, BIT_AND, "2", "person", "user",
        "objectCategory", "objectClass", "userAccountControl"} \subseteq Tokens
    /\ Range(Escapes) \subseteq Tokens
<1> DEFINE W == {"(", ")", "&", "|", "!", "=", "*", IN_CHAIN, BIT_AND, "2", "person", "user",
                 "objectCategory", "objectClass", "userAccountControl"}
<1>1. Tokens = STRING \cup Range(Escapes) \cup W
  BY Zenon DEF Tokens
<1> HIDE DEF W
<1>2. W \subseteq Tokens /\ Range(Escapes) \subseteq Tokens
  BY <1>1, Zenon
<1> QED
  BY <1>2 DEF W

\* What a clause may name: nothing that has a meaning in a filter.
Names == Tokens \ {"(", ")", "&", "|", "!", "=", "*", IN_CHAIN, BIT_AND}

\* No two characters have the same escape sequence.
LEMMA EscapesAre ==
    /\ DOMAIN Escapes = {"(", ")", "*", "\\", "NUL"}
    /\ Range(Escapes) = {"\\28", "\\29", "\\2a", "\\5c", "\\00"}
    /\ \A c \in DOMAIN Escapes, d \in DOMAIN Escapes : Escapes[c] = Escapes[d] => c = d
<1>1. /\ DOMAIN Escapes = {"(", ")", "*", "\\", "NUL"}
      /\ Escapes["("] = "\\28" /\ Escapes[")"] = "\\29" /\ Escapes["*"] = "\\2a"
      /\ Escapes["\\"] = "\\5c" /\ Escapes["NUL"] = "\\00"
  BY DEF Escapes
<1>2. Range(Escapes) = {Escapes[x] : x \in DOMAIN Escapes}
  BY DEF Range
<1>3. Range(Escapes) = {"\\28", "\\29", "\\2a", "\\5c", "\\00"}
  BY <1>1, <1>2
<1> QED
  BY <1>1, <1>3

\* An escaped value ends no clause and holds no wildcard, and is read as what it was.
LEMMA Escaped ==
    ASSUME NEW value \in Value
    PROVE  /\ value \in Seq(Tokens) /\ esc(value) \in Seq(Tokens)
           /\ Len(esc(value)) = Len(value)
           /\ \A k \in 1..Len(value) : esc(value)[k] \notin {"(", ")", "*"}
           /\ unescape(esc(value)) = value
<1> DEFINE E == esc(value)
<1>1. /\ value \in Seq(Tokens) /\ DOMAIN value = 1..Len(value) /\ Len(value) \in Nat
      /\ value = [k \in 1..Len(value) |-> value[k]]
      /\ \A k \in 1..Len(value) : value[k] \in Tokens \ Range(Escapes)
  BY DEF Value
<1>2. /\ DOMAIN E = 1..Len(value) /\ E = [k \in 1..Len(value) |-> E[k]]
      /\ \A k \in 1..Len(value) : E[k] = IF value[k] \in DOMAIN Escapes
                                         THEN Escapes[value[k]] ELSE value[k]
  BY <1>1 DEF esc
<1> HIDE DEF E
<1>3. ASSUME NEW k \in 1..Len(value)
      PROVE  /\ E[k] \in Tokens /\ E[k] \notin {"(", ")", "*"}
             /\ E[k] \in Range(Escapes) <=> value[k] \in DOMAIN Escapes
  <2>1. CASE value[k] \in DOMAIN Escapes
    <3>1. E[k] = Escapes[value[k]]
      BY <1>2, <2>1
    <3>2. Escapes[value[k]] \in Range(Escapes)
      BY <2>1 DEF Range
    <3>3. E[k] \in Range(Escapes)
      BY <3>1, <3>2, Zenon
    <3>4. E[k] \in {"\\28", "\\29", "\\2a", "\\5c", "\\00"}
      BY <3>3, EscapesAre, Zenon
    <3>5. E[k] \in Tokens
      BY <3>3, TokensAre, Zenon
    <3> QED
      BY <2>1, <3>3, <3>4, <3>5
  <2>2. CASE value[k] \notin DOMAIN Escapes
    <3>1. E[k] = value[k] /\ value[k] \in Tokens /\ value[k] \notin Range(Escapes)
      BY <1>1, <1>2, <2>2
    <3>2. value[k] \notin {"(", ")", "*", "\\", "NUL"}
      BY <2>2, EscapesAre
    <3> QED
      BY <2>2, <3>1, <3>2
  <2> QED
    BY <2>1, <2>2
<1>4. E \in Seq(Tokens) /\ Len(E) = Len(value)
  <2>1. \A k \in 1..Len(value) : E[k] \in Tokens
    BY <1>3
  <2> QED
    BY <1>1, <1>2, <2>1
<1>5. unescape(E) = [k \in 1..Len(value) |-> value[k]]
  <2> DEFINE U == unescape(E)
             Read(k) == IF E[k] \in Range(Escapes)
                        THEN CHOOSE c \in DOMAIN Escapes : Escapes[c] = E[k] ELSE E[k]
  <2>1. U = [k \in 1..Len(value) |-> Read(k)]
    BY <1>2, Zenon DEF unescape
  <2>2. ASSUME NEW k \in 1..Len(value) PROVE Read(k) = value[k]
    <3>1. CASE value[k] \in DOMAIN Escapes
      <4>1. E[k] = Escapes[value[k]] /\ E[k] \in Range(Escapes)
        BY <1>2, <1>3, <3>1
      <4>2. \A c \in DOMAIN Escapes : Escapes[c] = E[k] => c = value[k]
        BY <3>1, <4>1, EscapesAre, Zenon
      <4>3. (CHOOSE c \in DOMAIN Escapes : Escapes[c] = E[k]) = value[k]
        <5> DEFINE P(c) == Escapes[c] = E[k]
        <5>1. P(value[k]) /\ \A c \in DOMAIN Escapes : P(c) => c = value[k]
          BY <4>1, <4>2
        <5> HIDE DEF P
        <5>2. (CHOOSE c \in DOMAIN Escapes : P(c)) = value[k]
          BY <3>1, <5>1
        <5> QED
          BY <5>2 DEF P
      <4> QED
        BY <4>1, <4>3
    <3>2. CASE value[k] \notin DOMAIN Escapes
      BY <1>2, <1>3, <3>2
    <3> QED
      BY <3>1, <3>2
  <2> HIDE DEF Read
  <2> QED
    BY <2>1, <2>2
<1> QED
  BY <1>1, <1>3, <1>4, <1>5 DEF E

\* What a comparison is read as.
LEMMA Held ==
    ASSUME NEW e, NEW n
    PROVE  UNION {Range(e.values[m]) : m \in {m \in DOMAIN e.values : <<m>> = <<n>>}}
             = Range(Values(e, n))
<1>1. \A m : <<m>> = <<n>> <=> m = n
  BY <<n>>[1] = n
<1>2. {m \in DOMAIN e.values : <<m>> = <<n>>} = IF n \in DOMAIN e.values THEN {n} ELSE {}
  BY <1>1
<1>3. CASE n \in DOMAIN e.values
  BY <1>2, <1>3 DEF Values
<1>4. CASE n \notin DOMAIN e.values
  <2>1. Range(<<>>) = {}
    BY DEF Range
  <2> QED
    BY <1>2, <1>4, <2>1 DEF Values
<1> QED
  BY <1>3, <1>4

Holding(n, value) == {e \in Entries : value \in Range(Values(e, n))}
HoldingWithin(n, value) == {e \in Entries : \E v \in Range(Values(e, n)) : Within(value, v)}
Reaching(value) == {e \in Entries : value \in e.chain}
HoldingBit(n, bit) == {e \in Entries : \E v \in Range(Values(e, n)) : bit \in Range(v)}

\* What the nodes of the clauses that the builders write select.
LEMMA NodesSelect ==
    ASSUME NEW n, NEW value
    PROVE  /\ Selecting(Node("equal", <<n>>, value)) = Holding(n, value)
           /\ Selecting(Node("contains", <<n>>, value)) = HoldingWithin(n, value)
           /\ Selecting(Node(IN_CHAIN, <<n>>, value)) = Reaching(value)
<1>1. ASSUME NEW e, NEW op
      PROVE  /\ op = "equal" => (matches(Node(op, <<n>>, value), e)
                                   <=> value \in Range(Values(e, n)))
             /\ op = "contains" => (matches(Node(op, <<n>>, value), e)
                                   <=> \E v \in Range(Values(e, n)) : Within(value, v))
             /\ op = IN_CHAIN => (matches(Node(op, <<n>>, value), e) <=> value \in e.chain)
  <2> DEFINE node == Node(op, <<n>>, value)
             held == UNION {Range(e.values[m]) : m \in {m \in DOMAIN e.values : <<m>> = node.name}}
  <2>1. node.op = op /\ node.name = <<n>> /\ node.value = value
    BY DEF Node
  <2> HIDE DEF node
  <2>2. held = Range(Values(e, n))
    BY <2>1, Held
  <2> HIDE DEF held
  <2>3. matches(node, e) = CASE node.op = "present"  -> held # {}
                             [] node.op = "contains" -> \E v \in held : Within(node.value, v)
                             [] node.op = "equal"    -> node.value \in held
                             [] node.op = BIT_AND    -> \E v \in held : Range(node.value) \subseteq Range(v)
                             [] node.op = IN_CHAIN   -> node.value \in e.chain
                             [] OTHER                -> FALSE
    BY DEF matches, held
  <2>4. BIT_AND # IN_CHAIN /\ IN_CHAIN \notin {"present", "contains", "equal"}
        /\ BIT_AND \notin {"present", "contains", "equal"}
    BY DEF BIT_AND, IN_CHAIN
  <2>5. CASE op = "equal"
    BY <2>1, <2>2, <2>3, <2>4, <2>5 DEF node
  <2>6. CASE op = "contains"
    BY <2>1, <2>2, <2>3, <2>4, <2>6 DEF node
  <2>7. CASE op = IN_CHAIN
    BY <2>1, <2>2, <2>3, <2>4, <2>7 DEF node
  <2> QED
    BY <2>4, <2>5, <2>6, <2>7 DEF node
<1> QED
  BY <1>1 DEF Selecting, Holding, HoldingWithin, Reaching

\* Three texts one behind the other.
LEMMA Threefold ==
    ASSUME NEW a \in Seq(Tokens), NEW b \in Seq(Tokens), NEW c \in Seq(Tokens),
           NEW t, t = a \o b \o c
    PROVE  /\ t \in Seq(Tokens) /\ Len(t) = Len(a) + Len(b) + Len(c)
           /\ \A k \in 1..Len(a) : t[k] = a[k]
           /\ \A k \in 1..Len(b) : t[Len(a) + k] = b[k]
           /\ \A k \in 1..Len(c) : t[Len(a) + Len(b) + k] = c[k]
<1> DEFINE u == a \o b
<1>1. a \in Seq(Tokens) /\ b \in Seq(Tokens) /\ c \in Seq(Tokens) /\ t = u \o c
  OBVIOUS
<1>2. /\ u \in Seq(Tokens) /\ Len(u) = Len(a) + Len(b)
      /\ \A k \in 1..(Len(a) + Len(b)) : u[k] = IF k <= Len(a) THEN a[k] ELSE b[k - Len(a)]
  BY <1>1, ConcatProperties
<1> HIDE DEF u
<1>3. /\ t \in Seq(Tokens) /\ Len(t) = Len(u) + Len(c)
      /\ \A k \in 1..(Len(u) + Len(c)) : t[k] = IF k <= Len(u) THEN u[k] ELSE c[k - Len(u)]
  <2>1. /\ u \o c \in Seq(Tokens) /\ Len(u \o c) = Len(u) + Len(c)
        /\ \A k \in 1..(Len(u) + Len(c)) :
              (u \o c)[k] = IF k <= Len(u) THEN u[k] ELSE c[k - Len(u)]
    <3>1. u \in Seq(Tokens) /\ c \in Seq(Tokens)
      BY <1>1, <1>2
    <3> QED
      BY <3>1, ConcatProperties
  <2> QED
    BY <1>1, <2>1, Zenon
<1>4. Len(a) \in Nat /\ Len(b) \in Nat /\ Len(c) \in Nat
  BY <1>1
<1>5. ASSUME NEW k \in 1..Len(a) PROVE t[k] = a[k]
  <2>1. k \in 1..(Len(u) + Len(c)) /\ k <= Len(u) /\ k \in 1..(Len(a) + Len(b)) /\ k <= Len(a)
    BY <1>2, <1>4
  <2> QED
    BY <1>2, <1>3, <2>1
<1>6. ASSUME NEW k \in 1..Len(b) PROVE t[Len(a) + k] = b[k]
  <2> DEFINE j == Len(a) + k
  <2>1. /\ j \in 1..(Len(u) + Len(c)) /\ j <= Len(u) /\ j \in 1..(Len(a) + Len(b))
        /\ ~ (j <= Len(a)) /\ j - Len(a) = k
    BY <1>2, <1>4
  <2> HIDE DEF j
  <2>2. t[j] = b[k]
    BY <1>2, <1>3, <2>1
  <2> QED
    BY <2>2 DEF j
<1>7. ASSUME NEW k \in 1..Len(c) PROVE t[Len(a) + Len(b) + k] = c[k]
  <2> DEFINE j == Len(a) + Len(b) + k
  <2>1. j \in 1..(Len(u) + Len(c)) /\ ~ (j <= Len(u)) /\ j - Len(u) = k
    BY <1>2, <1>4
  <2> HIDE DEF j
  <2>2. t[j] = c[k]
    BY <1>3, <2>1
  <2> QED
    BY <2>2 DEF j
<1> QED
  BY <1>2, <1>3, <1>5, <1>6, <1>7

\* What a clause that compares begins with.
Opens(a, name) == /\ Len(a) = Len(name) + 2 /\ a[1] = "(" /\ a[Len(name) + 2] = "="
                  /\ \A k \in 1..Len(name) : a[k + 1] = name[k]

LEMMA ComparesTo ==
    ASSUME NEW a \in Seq(Tokens), NEW b \in Seq(Tokens), NEW c, c = <<")">>,
           NEW t, t = a \o b \o c, NEW name \in Seq(Tokens), Opens(a, name)
    PROVE  Compares(t, name, b)
<1>0. c \in Seq(Tokens) /\ Len(c) = 1 /\ c[1] = ")"
  BY TokensAre
<1>1. /\ t \in Seq(Tokens) /\ Len(t) = Len(a) + Len(b) + Len(c)
      /\ \A k \in 1..Len(a) : t[k] = a[k]
      /\ \A k \in 1..Len(b) : t[Len(a) + k] = b[k]
      /\ \A k \in 1..Len(c) : t[Len(a) + Len(b) + k] = c[k]
  BY <1>0, Threefold
<1>2. /\ Len(name) \in Nat /\ Len(b) \in Nat
      /\ Len(a) = Len(name) + 2 /\ a[1] = "(" /\ a[Len(name) + 2] = "="
      /\ \A k \in 1..Len(name) : a[k + 1] = name[k]
  BY DEF Opens
<1>3. t[1] = "(" /\ t[Len(name) + 2] = "="
  <2>1. 1 \in 1..Len(a) /\ Len(name) + 2 \in 1..Len(a)
    BY <1>2
  <2>2. t[1] = a[1] /\ t[Len(name) + 2] = a[Len(name) + 2]
    BY <1>1, <2>1
  <2> QED
    BY <1>2, <2>2
<1>4. Len(t) = Len(name) + Len(b) + 3 /\ t[Len(t)] = ")"
  <2>1. 1 \in 1..Len(c) /\ c[1] = ")" /\ Len(t) = Len(a) + Len(b) + 1 /\ Len(t) = Len(name) + Len(b) + 3
    BY <1>0, <1>1, <1>2
  <2> QED
    BY <1>1, <2>1
<1>5. ASSUME NEW k \in 1..Len(name) PROVE t[k + 1] = name[k]
  <2>1. k + 1 \in 1..Len(a) /\ a[k + 1] = name[k]
    BY <1>2
  <2> QED
    BY <1>1, <2>1
<1>6. ASSUME NEW k \in 1..Len(b) PROVE t[Len(name) + 2 + k] = b[k]
  BY <1>1, <1>2
<1> QED
  BY <1>1, <1>3, <1>4, <1>5, <1>6 DEF Compares

\* A clause that looks for a value.
LEMMA EqMeans ==
    ASSUME NEW n \in Names, NEW value \in Value
    PROVE  Means(eq(n, value), Holding(n, value))
<1> DEFINE a == <<"(", n, "=">>
           b == esc(value)
           c == <<")">>
           t == eq(n, value)
           name == <<n>>
<1>1. /\ a \in Seq(Tokens) /\ b \in Seq(Tokens) /\ c \in Seq(Tokens) /\ name \in Seq(Tokens)
      /\ t = a \o b \o c
  <2>1. "(" \in Tokens /\ ")" \in Tokens /\ "=" \in Tokens /\ n \in Tokens
    BY TokensAre DEF Names
  <2>2. a \in Seq(Tokens) /\ c \in Seq(Tokens) /\ name \in Seq(Tokens)
    BY <2>1
  <2>3. b \in Seq(Tokens)
    BY Escaped
  <2> QED
    BY <2>2, <2>3 DEF eq
<1>2. /\ Len(b) = Len(value) /\ Len(b) \in Nat /\ unescape(b) = value
      /\ \A k \in 1..Len(b) : b[k] \notin {"(", ")", "*"}
  <2>1. value \in Seq(Tokens)
    BY Escaped
  <2> QED
    BY <2>1, Escaped
<1>3. Opens(a, name) /\ c = <<")">> /\ Len(name) = 1 /\ name[1] = n
  BY DEF Opens
<1> HIDE DEF a, b, c, t, name
<1>4. Compares(t, name, b)
  BY <1>1, <1>3, ComparesTo
<1>5. Comparison(name, b) = Node("equal", name, value)
  <2>1. At(name, Len(name)) = n
    BY <1>1, <1>3 DEF At
  <2>2. n \notin {IN_CHAIN, BIT_AND}
    BY DEF Names
  <2>3. "*" \notin Range(b)
    BY <1>1, <1>2 DEF Range
  <2>4. b # <<"*">>
    BY <1>2, <<"*">>[1] = "*", Len(<<"*">>) = 1
  <2> QED
    BY <1>2, <2>1, <2>2, <2>3, <2>4, Zenon DEF Comparison
<1>6. Comparison(name, b) # Malformed
  BY <1>5 DEF Malformed, Node
<1>7. Means(t, Selecting(Comparison(name, b)))
  <2>1. /\ Len(name) >= 1 /\ name[1] \notin {"&", "|", "!"}
        /\ \A k \in 1..Len(name) : name[k] \notin {"=", ")"}
    BY <1>3 DEF Names
  <2> QED
    BY <1>2, <1>4, <1>6, <2>1, ComparesMeans
<1> QED
  BY <1>5, <1>7, NodesSelect, Zenon DEF t, name

\* An attribute with a matching rule, without the rule.
LEMMA FrontOfTwo ==
    ASSUME NEW n \in Tokens, NEW m \in Tokens
    PROVE  Front(<<n, m>>) = <<n>>
<1> DEFINE name == <<n, m>>
           s == SubSeq(name, 1, 1)
           h == <<n>>
<1>1. Len(name) - 1 = 1 /\ name[1] = n /\ \A k \in 1..1 : name[k] \in Tokens
  OBVIOUS
<1>2. h \in Seq(Tokens) /\ Len(h) = 1 /\ h[1] = n
  OBVIOUS
<1> HIDE DEF name, h
<1>3. s \in Seq(Tokens) /\ Len(s) = 1 /\ s[1] = n
  BY <1>1, SubSeqProperties
<1> HIDE DEF s
<1>4. s = h
  BY <1>2, <1>3, SeqEqual
<1>5. Front(name) = s
  BY <1>1, Zenon DEF Front, s
<1> QED
  BY <1>4, <1>5 DEF h, name

\* One that follows an attribute to a value.
LEMMA InChainMeans ==
    ASSUME NEW n \in Names, NEW value \in Value
    PROVE  Means(in_chain(n, value), Reaching(value))
<1> DEFINE a == <<"(", n, IN_CHAIN, "=">>
           b == esc(value)
           c == <<")">>
           t == in_chain(n, value)
           name == <<n, IN_CHAIN>>
<1>1. /\ a \in Seq(Tokens) /\ b \in Seq(Tokens) /\ c \in Seq(Tokens) /\ name \in Seq(Tokens)
      /\ t = a \o b \o c
  <2>1. "(" \in Tokens /\ ")" \in Tokens /\ "=" \in Tokens /\ n \in Tokens /\ IN_CHAIN \in Tokens
    BY TokensAre DEF Names
  <2>2. a \in Seq(Tokens) /\ c \in Seq(Tokens) /\ name \in Seq(Tokens)
    BY <2>1
  <2>3. b \in Seq(Tokens)
    BY Escaped
  <2> QED
    BY <2>2, <2>3 DEF in_chain
<1>2. /\ Len(b) = Len(value) /\ Len(b) \in Nat /\ unescape(b) = value
      /\ \A k \in 1..Len(b) : b[k] \notin {"(", ")", "*"}
  <2>1. value \in Seq(Tokens)
    BY Escaped
  <2> QED
    BY <2>1, Escaped
<1>3. /\ Opens(a, name) /\ c = <<")">>
      /\ Len(name) = 2 /\ name[1] = n /\ name[2] = IN_CHAIN
  BY DEF Opens
<1>4. Front(name) = <<n>>
  BY FrontOfTwo, TokensAre DEF Names
<1> HIDE DEF a, b, c, t, name
<1>5. Compares(t, name, b)
  BY <1>1, <1>3, ComparesTo
<1>6. Comparison(name, b) = Node(IN_CHAIN, <<n>>, value)
  <2>1. At(name, Len(name)) = IN_CHAIN
    BY <1>1, <1>3 DEF At
  <2> QED
    BY <1>2, <1>4, <2>1, Zenon DEF Comparison
<1>7. Comparison(name, b) # Malformed
  BY <1>6 DEF Malformed, Node, IN_CHAIN
<1>8. Means(t, Selecting(Comparison(name, b)))
  <2>1. /\ Len(name) >= 1 /\ name[1] \notin {"&", "|", "!"}
        /\ \A k \in 1..Len(name) : name[k] \notin {"=", ")"}
    <3>1. IN_CHAIN \notin {"=", ")"} /\ n \notin {"&", "|", "!", "=", ")"}
      BY DEF Names, IN_CHAIN
    <3> QED
      BY <1>3, <3>1
  <2> QED
    BY <1>2, <1>5, <1>7, <2>1, ComparesMeans
<1> QED
  BY <1>6, <1>8, NodesSelect, Zenon DEF t

\* One that looks for a part of a value.
LEMMA ContainsMeans ==
    ASSUME NEW n \in Names, NEW value \in Value
    PROVE  Means(contains(n, value), HoldingWithin(n, value))
<1> DEFINE a == <<"(", n, "=", "*">>
           e == esc(value)
           c == <<"*", ")">>
           t == contains(n, value)
           star == <<"*">>
           b == star \o e \o star
           name == <<n>>
<1>1. /\ a \in Seq(Tokens) /\ e \in Seq(Tokens) /\ c \in Seq(Tokens) /\ name \in Seq(Tokens)
      /\ star \in Seq(Tokens) /\ t = a \o e \o c /\ b = star \o e \o star
  <2>1. {"(", ")", "=", "*", n} \subseteq Tokens
    BY TokensAre DEF Names
  <2>2. a \in Seq(Tokens) /\ c \in Seq(Tokens) /\ name \in Seq(Tokens) /\ star \in Seq(Tokens)
    BY <2>1
  <2>3. e \in Seq(Tokens)
    BY Escaped
  <2> QED
    BY <2>2, <2>3 DEF contains
<1>2. /\ Len(e) = Len(value) /\ Len(e) \in Nat /\ unescape(e) = value
      /\ \A k \in 1..Len(e) : e[k] \notin {"(", ")", "*"}
  <2>1. value \in Seq(Tokens)
    BY Escaped
  <2> QED
    BY <2>1, Escaped
<1>3. /\ Len(a) = 4 /\ a[1] = "(" /\ a[2] = n /\ a[3] = "=" /\ a[4] = "*"
      /\ Len(c) = 2 /\ c[1] = "*" /\ c[2] = ")" /\ Len(name) = 1 /\ name[1] = n
      /\ Len(star) = 1 /\ star[1] = "*"
  OBVIOUS
<1> HIDE DEF a, e, c, t, star, b, name
<1>4. /\ t \in Seq(Tokens) /\ Len(t) = Len(e) + 6
      /\ t[1] = "(" /\ t[2] = n /\ t[3] = "=" /\ t[4] = "*"
      /\ \A k \in 1..Len(e) : t[4 + k] = e[k]
      /\ t[Len(e) + 5] = "*" /\ t[Len(e) + 6] = ")"
  <2>1. /\ t \in Seq(Tokens) /\ Len(t) = Len(a) + Len(e) + Len(c)
        /\ \A k \in 1..Len(a) : t[k] = a[k]
        /\ \A k \in 1..Len(e) : t[Len(a) + k] = e[k]
        /\ \A k \in 1..Len(c) : t[Len(a) + Len(e) + k] = c[k]
    <3>1. a \in Seq(Tokens) /\ e \in Seq(Tokens) /\ c \in Seq(Tokens)
      BY <1>1
    <3>2. t = a \o e \o c
      BY <1>1
    <3> QED
      BY <3>1, <3>2, Threefold
  <2>2. 1 \in 1..Len(a) /\ 2 \in 1..Len(a) /\ 3 \in 1..Len(a) /\ 4 \in 1..Len(a)
        /\ 1 \in 1..Len(c) /\ 2 \in 1..Len(c)
    BY <1>3
  <2>3. t[1] = "(" /\ t[2] = n /\ t[3] = "=" /\ t[4] = "*"
    BY <1>3, <2>1, <2>2
  <2>4. 4 + Len(e) + 1 = Len(e) + 5 /\ 4 + Len(e) + 2 = Len(e) + 6
    BY <1>2
  <2>5. t[Len(e) + 5] = "*" /\ t[Len(e) + 6] = ")"
    BY <1>3, <2>1, <2>2, <2>4
  <2> QED
    BY <1>2, <1>3, <2>1, <2>3, <2>5
<1>5. /\ b \in Seq(Tokens) /\ Len(b) = Len(e) + 2 /\ b[1] = "*"
      /\ \A k \in 1..Len(e) : b[1 + k] = e[k]
      /\ b[Len(e) + 2] = "*"
  <2>1. /\ b \in Seq(Tokens) /\ Len(b) = Len(star) + Len(e) + Len(star)
        /\ \A k \in 1..Len(star) : b[k] = star[k]
        /\ \A k \in 1..Len(e) : b[Len(star) + k] = e[k]
        /\ \A k \in 1..Len(star) : b[Len(star) + Len(e) + k] = star[k]
    <3>1. star \in Seq(Tokens) /\ e \in Seq(Tokens)
      BY <1>1
    <3>2. b = star \o e \o star
      BY <1>1
    <3> QED
      BY <3>1, <3>2, Threefold
  <2>2. 1 \in 1..Len(star) /\ 1 + Len(e) + 1 = Len(e) + 2
    BY <1>2, <1>3
  <2> QED
    BY <1>2, <1>3, <2>1, <2>2
<1>6. ASSUME NEW k \in 1..Len(b)
      PROVE  /\ t[3 + k] = b[k]
             /\ b[k] # ")"
  <2>1. CASE k = 1
    BY <1>4, <1>5, <2>1
  <2>2. CASE k = Len(e) + 2
    <3>1. 3 + k = Len(e) + 5
      BY <1>2, <2>2
    <3> QED
      BY <1>4, <1>5, <2>2, <3>1
  <2>3. CASE k # 1 /\ k # Len(e) + 2
    <3>1. k - 1 \in 1..Len(e) /\ 1 + (k - 1) = k /\ 4 + (k - 1) = 3 + k
      BY <1>2, <1>5, <2>3
    <3>2. t[4 + (k - 1)] = e[k - 1] /\ b[1 + (k - 1)] = e[k - 1] /\ e[k - 1] # ")"
      BY <1>2, <1>4, <1>5, <3>1
    <3> QED
      BY <3>1, <3>2
  <2> QED
    BY <2>1, <2>2, <2>3
<1>7. Compares(t, name, b)
  <2>1. Len(t) = Len(name) + Len(b) + 3 /\ Len(t) = Len(e) + 6 /\ Len(name) + 2 = 3
    BY <1>2, <1>3, <1>4, <1>5
  <2>2. \A k \in 1..Len(name) : t[k + 1] = name[k]
    BY <1>3, <1>4
  <2> QED
    BY <1>1, <1>4, <1>5, <1>6, <2>1, <2>2, ZenonT(40) DEF Compares
<1>8. Comparison(name, b) = Node("contains", name, value)
  <2>1. At(name, Len(name)) = n
    BY <1>1, <1>3 DEF At
  <2>2. n \notin {IN_CHAIN, BIT_AND}
    BY DEF Names
  <2>3. "*" \in Range(b)
    <3>1. 1 \in DOMAIN b
      BY <1>2, <1>5
    <3> QED
      BY <1>5, <3>1 DEF Range
  <2>4. b # <<"*">>
    BY <1>2, <1>5, Len(<<"*">>) = 1
  <2>5. b[1] = "*" /\ Last(b) = "*"
    BY <1>5 DEF Last
  <2>6. SubSeq(b, 2, Len(b) - 1) = e
    <3> DEFINE s == SubSeq(b, 2, Len(b) - 1)
    <3>1. \A k \in 2..(Len(b) - 1) : b[k] \in Tokens
      BY <1>2, <1>5
    <3>2. /\ s \in Seq(Tokens)
          /\ Len(s) = IF 2 <= Len(b) - 1 THEN (Len(b) - 1) - 2 + 1 ELSE 0
          /\ \A k \in 1..((Len(b) - 1) - 2 + 1) : s[k] = b[2 + k - 1]
      BY <1>2, <1>5, <3>1, SubSeqProperties
    <3> HIDE DEF s
    <3>3. (Len(b) - 1) - 2 + 1 = Len(e) /\ Len(s) = Len(e)
      BY <1>2, <1>5, <3>2
    <3>4. ASSUME NEW k \in 1..Len(e) PROVE s[k] = e[k]
      <4>1. s[k] = b[2 + k - 1] /\ 2 + k - 1 = 1 + k
        BY <3>2, <3>3
      <4>2. s[k] = b[1 + k]
        BY <4>1
      <4> QED
        BY <1>5, <4>2
    <3>5. s = e
      BY <1>1, <3>2, <3>3, <3>4, SeqEqual
    <3> QED
      BY <3>5 DEF s
  <2>7. (IF "*" \notin Range(b) THEN Node("equal", name, unescape(b))
         ELSE IF b[1] = "*" /\ Last(b) = "*"
              THEN Node("contains", name, unescape(SubSeq(b, 2, Len(b) - 1)))
              ELSE Malformed) = Node("contains", name, value)
    BY <1>2, <2>3, <2>5, <2>6, Zenon
  <2> QED
    BY <2>1, <2>2, <2>4, <2>7, Zenon DEF Comparison
<1>9. Comparison(name, b) # Malformed
  BY <1>8 DEF Malformed, Node
<1>10. Means(t, Selecting(Comparison(name, b)))
  <2>1. /\ Len(name) >= 1 /\ name[1] \notin {"&", "|", "!"}
        /\ \A k \in 1..Len(name) : name[k] \notin {"=", ")"}
    BY <1>3 DEF Names
  <2> QED
    BY <1>6, <1>7, <1>9, <2>1, ComparesMeans
<1> QED
  BY <1>8, <1>10, NodesSelect, Zenon DEF t, name

\* The negation of a clause.
LEMMA NotMeans ==
    ASSUME NEW clause, NEW S, Means(clause, S)
    PROVE  Means(none_of(clause), Entries \ S)
<1> DEFINE a == <<"(", "!">>
           c == <<")">>
           t == none_of(clause)
           L == Len(clause)
<1>1. /\ a \in Seq(Tokens) /\ clause \in Seq(Tokens) /\ c \in Seq(Tokens)
      /\ t = a \o clause \o c
  <2>1. "(" \in Tokens /\ "!" \in Tokens /\ ")" \in Tokens
    BY TokensAre
  <2> QED
    BY <2>1 DEF Means, none_of
<1>2. /\ Len(a) = 2 /\ a[1] = "(" /\ a[2] = "!" /\ Len(c) = 1 /\ c[1] = ")"
      /\ L \in Nat /\ L >= 1
  BY <1>1 DEF Means
<1> HIDE DEF a, c, t, L
<1>3. /\ t \in Seq(Tokens) /\ Len(t) = L + 3 /\ t[1] = "(" /\ t[2] = "!"
      /\ \A k \in 1..L : t[2 + k] = clause[k]
      /\ t[L + 3] = ")"
  <2>1. /\ t \in Seq(Tokens) /\ Len(t) = Len(a) + Len(clause) + Len(c)
        /\ \A k \in 1..Len(a) : t[k] = a[k]
        /\ \A k \in 1..Len(clause) : t[Len(a) + k] = clause[k]
        /\ \A k \in 1..Len(c) : t[Len(a) + Len(clause) + k] = c[k]
    <3>1. a \in Seq(Tokens) /\ clause \in Seq(Tokens) /\ c \in Seq(Tokens)
      BY <1>1
    <3>2. t = a \o clause \o c
      BY <1>1
    <3> QED
      BY <3>1, <3>2, Threefold
  <2>2. 1 \in 1..Len(a) /\ 2 \in 1..Len(a) /\ 1 \in 1..Len(c) /\ 2 + L + 1 = L + 3
    BY <1>2
  <2> QED
    BY <1>2, <2>1, <2>2 DEF L
<1>4. Stands(clause, 2, t)
  BY <1>1, <1>2, <1>3, SMTT(30) DEF Stands, L
<1>5. ReadClause(t, 3).next = L + 3 /\ ReadClause(t, 3).selects = S
  <2>1. 2 + 1 = 3 /\ 2 + L + 1 = L + 3
    BY <1>2
  <2> QED
    BY <1>4, <2>1, MeansThere DEF L
<1>6. At(t, 1) = "(" /\ At(t, 1 + 1) = "!" /\ At(t, L + 3) = ")" /\ 1 \in 1..(Len(t) + 1)
  BY <1>2, <1>3, AtPlace
<1>7. ReadClause(t, 1) = [next |-> (L + 3) + 1, selects |-> Entries \ S]
  <2>1. 1 + 2 = 3
    OBVIOUS
  <2> QED
    BY <1>3, <1>5, <1>6, <2>1, ReadsNot
<1>8. ReadClause(t, 1).next = Len(t) + 1 /\ ReadClause(t, 1).selects = Entries \ S
  BY <1>3, <1>7
<1> QED
  BY <1>2, <1>3, <1>8 DEF Means, t

\* The clause for accounts that are enabled: those without the bit 2.
LEMMA NotDisabledMeans ==
    Means(NOT_DISABLED, Entries \ HoldingBit("userAccountControl", "2"))
<1> DEFINE n == "userAccountControl"
           t == <<"(", n, BIT_AND, "=", "2", ")">>
           name == <<n, BIT_AND>>
           b == <<"2">>
<1>0. /\ {"(", ")", "=", n, BIT_AND, "2"} \subseteq Tokens /\ n \in Names
      /\ BIT_AND \notin {"=", ")"} /\ n \notin {"&", "|", "!", "=", ")"}
  BY TokensAre DEF Names, BIT_AND, IN_CHAIN
<1>1. Compares(t, name, b)
  BY <1>0 DEF Compares
<1>2. Front(name) = <<n>>
  BY <1>0, FrontOfTwo
<1>3. Len(name) = 2 /\ name[1] = n /\ name[2] = BIT_AND /\ Len(b) = 1 /\ b[1] = "2"
  OBVIOUS
<1>4. unescape(b) = b
  <2>1. "2" \notin Range(Escapes)
    BY EscapesAre
  <2> QED
    BY <2>1 DEF unescape
<1> HIDE DEF b, name
<1>5. Comparison(name, b) = Node(BIT_AND, <<n>>, b)
  <2>1. At(name, Len(name)) = BIT_AND
    BY <1>3 DEF At, name
  <2> QED
    BY <1>2, <1>4, <2>1, Zenon DEF Comparison
<1>6. Comparison(name, b) # Malformed
  BY <1>5 DEF Malformed, Node, BIT_AND
<1>7. Means(t, Selecting(Comparison(name, b)))
  <2>1. /\ Len(name) >= 1 /\ name[1] \notin {"&", "|", "!"}
        /\ \A k \in 1..Len(name) : name[k] \notin {"=", ")"}
        /\ \A k \in 1..Len(b) : b[k] # ")"
    BY <1>0, <1>3
  <2> QED
    BY <1>1, <1>6, <2>1, ComparesMeans
<1>8. Selecting(Node(BIT_AND, <<n>>, b)) = HoldingBit(n, "2")
  <2>1. Range(b) = {"2"}
    BY <1>3 DEF Range, b
  <2>2. ASSUME NEW e
        PROVE  matches(Node(BIT_AND, <<n>>, b), e)
                 <=> \E v \in Range(Values(e, n)) : "2" \in Range(v)
    <3> DEFINE node == Node(BIT_AND, <<n>>, b)
               held == UNION {Range(e.values[m]) : m \in {m \in DOMAIN e.values : <<m>> = node.name}}
    <3>1. node.op = BIT_AND /\ node.name = <<n>> /\ node.value = b
      BY DEF Node
    <3> HIDE DEF node
    <3>2. held = Range(Values(e, n))
      BY <3>1, Held
    <3> HIDE DEF held
    <3>3. matches(node, e) = CASE node.op = "present"  -> held # {}
                               [] node.op = "contains" -> \E v \in held : Within(node.value, v)
                               [] node.op = "equal"    -> node.value \in held
                               [] node.op = BIT_AND    -> \E v \in held : Range(node.value) \subseteq Range(v)
                               [] node.op = IN_CHAIN   -> node.value \in e.chain
                               [] OTHER                -> FALSE
      BY DEF matches, held
    <3>4. BIT_AND # IN_CHAIN /\ BIT_AND \notin {"present", "contains", "equal"}
      BY DEF BIT_AND, IN_CHAIN
    <3>5. matches(node, e) <=> \E v \in held : Range(b) \subseteq Range(v)
      BY <3>1, <3>3, <3>4
    <3> QED
      BY <2>1, <3>2, <3>5 DEF node
  <2> QED
    BY <2>2 DEF Selecting, HoldingBit
<1>9. Means(t, HoldingBit(n, "2"))
  BY <1>5, <1>7, <1>8, Zenon
<1> QED
  BY <1>9, NotMeans, Zenon DEF NOT_DISABLED

\* What stands behind one another in the text of several clauses.
LEMMA BehindExists ==
    ASSUME NEW cs, Len(cs) \in Nat
    PROVE  \E f : /\ f = [n \in 0..Len(cs) |-> f[n]]
                  /\ f[0] = <<>>
                  /\ \A n \in 1..Len(cs) : f[n] = IF cs[n] = None THEN f[n - 1]
                                                  ELSE f[n - 1] \o cs[n]
<1> DEFINE M == Len(cs)
           Upto(m, f) == /\ f = [n \in 0..M |-> f[n]] /\ f[0] = <<>>
                         /\ \A n \in 1..m : f[n] = IF cs[n] = None THEN f[n - 1]
                                                   ELSE f[n - 1] \o cs[n]
           T == {m \in Nat : m <= M => \E f : Upto(m, f)}
<1>1. 0 \in T
  <2> DEFINE g == [n \in 0..M |-> <<>>]
  <2>1. g = [n \in 0..M |-> g[n]] /\ g[0] = <<>>
    OBVIOUS
  <2> HIDE DEF g
  <2>2. Upto(0, g)
    BY <2>1
  <2> QED
    BY <2>2
<1>2. ASSUME NEW m \in Nat, m \in T PROVE m + 1 \in T
  <2>1. SUFFICES ASSUME m + 1 <= M PROVE \E g : Upto(m + 1, g)
    OBVIOUS
  <2>2. PICK f : Upto(m, f)
    BY <1>2, <2>1
  <2> DEFINE x == IF cs[m + 1] = None THEN f[m] ELSE f[m] \o cs[m + 1]
             g == [n \in 0..M |-> IF n = m + 1 THEN x ELSE f[n]]
  <2> HIDE DEF x
  <2>3. /\ g = [n \in 0..M |-> g[n]] /\ g[m + 1] = x /\ g[m] = f[m]
        /\ \A n \in 0..m : g[n] = f[n]
    BY <2>1
  <2> HIDE DEF g
  <2>4. g[0] = <<>>
    <3>1. 0 \in 0..m
      OBVIOUS
    <3>2. f[0] = <<>>
      BY <2>2, Zenon
    <3>3. g[0] = f[0]
      BY <2>3, <3>1, Zenon
    <3> QED
      BY <3>2, <3>3, Zenon
  <2>5. ASSUME NEW n \in 1..(m + 1)
        PROVE  g[n] = IF cs[n] = None THEN g[n - 1] ELSE g[n - 1] \o cs[n]
    <3>1. CASE n = m + 1
      <4>1. n - 1 = m
        BY <3>1
      <4> QED
        BY <2>3, <3>1, <4>1 DEF x
    <3>2. CASE n # m + 1
      <4>1. n \in 1..m /\ n \in 0..m /\ n - 1 \in 0..m
        BY <3>2
      <4>2. g[n] = f[n] /\ g[n - 1] = f[n - 1]
        BY <2>3, <4>1
      <4>3. f[n] = IF cs[n] = None THEN f[n - 1] ELSE f[n - 1] \o cs[n]
        BY <2>2, <4>1
      <4> QED
        BY <4>2, <4>3
    <3> QED
      BY <3>1, <3>2
  <2> QED
    BY <2>3, <2>4, <2>5
<1> HIDE DEF T
<1>3. M \in T
  BY <1>1, <1>2, HoldsAllNumbers
<1> QED
  BY <1>3 DEF T

\* The equation of Behind.
LEMMA BehindIs ==
    ASSUME NEW cs, Len(cs) \in Nat
    PROVE  /\ Behind(cs)[0] = <<>>
           /\ \A n \in 1..Len(cs) : Behind(cs)[n] = IF cs[n] = None THEN Behind(cs)[n - 1]
                                                    ELSE Behind(cs)[n - 1] \o cs[n]
<1> DEFINE Eq(h) == h = [n \in 0..Len(cs) |-> IF n = 0 THEN <<>>
                                              ELSE IF cs[n] = None THEN h[n - 1]
                                              ELSE h[n - 1] \o cs[n]]
           B == Behind(cs)
<1>1. PICK f : /\ f = [n \in 0..Len(cs) |-> f[n]]
               /\ f[0] = <<>>
               /\ \A n \in 1..Len(cs) : f[n] = IF cs[n] = None THEN f[n - 1]
                                               ELSE f[n - 1] \o cs[n]
  BY BehindExists
<1>2. Eq(f)
  <2>1. ASSUME NEW n \in 0..Len(cs)
        PROVE  f[n] = IF n = 0 THEN <<>> ELSE IF cs[n] = None THEN f[n - 1]
                      ELSE f[n - 1] \o cs[n]
    <3>1. CASE n = 0
      BY <1>1, <3>1
    <3>2. CASE n # 0
      <4>1. n \in 1..Len(cs)
        BY <3>2
      <4> QED
        BY <1>1, <3>2, <4>1, Zenon
    <3> QED
      BY <3>1, <3>2
  <2> QED
    BY <1>1, <2>1, Zenon
<1>3. B = CHOOSE h : Eq(h)
  BY DEF Behind
<1>4. Eq(B)
  <2> HIDE DEF Eq, B
  <2> QED
    BY <1>2, <1>3
<1> HIDE DEF B
<1>5. B[0] = <<>> /\ \A n \in 1..Len(cs) : B[n] = IF cs[n] = None THEN B[n - 1]
                                                  ELSE B[n - 1] \o cs[n]
  <2>1. \A n \in 0..Len(cs) : B[n] = IF n = 0 THEN <<>> ELSE IF cs[n] = None THEN B[n - 1]
                                     ELSE B[n - 1] \o cs[n]
    BY <1>4, Zenon
  <2>2. 0 \in 0..Len(cs) /\ \A n \in 1..Len(cs) : n \in 0..Len(cs) /\ n # 0
    OBVIOUS
  <2> QED
    BY <2>1, <2>2
<1> QED
  BY <1>5 DEF B

\* Texts to put behind one another, and those not given.
Parts(cs) == /\ Len(cs) \in Nat /\ DOMAIN cs = 1..Len(cs)
             /\ \A n \in 1..Len(cs) : cs[n] = None \/ cs[n] \in Seq(Tokens)

\* Texts behind one another are a text.
LEMMA BehindTexts ==
    ASSUME NEW cs, Parts(cs)
    PROVE  \A n \in 0..Len(cs) : Behind(cs)[n] \in Seq(Tokens)
<1> DEFINE B == Behind(cs)
           T == {n \in Nat : n <= Len(cs) => B[n] \in Seq(Tokens)}
<1>0. /\ Len(cs) \in Nat /\ B[0] = <<>>
      /\ \A n \in 1..Len(cs) : B[n] = IF cs[n] = None THEN B[n - 1] ELSE B[n - 1] \o cs[n]
      /\ \A n \in 1..Len(cs) : cs[n] = None \/ cs[n] \in Seq(Tokens)
  BY BehindIs DEF Parts
<1> HIDE DEF B
<1>1. 0 \in T
  <2>1. B[0] \in Seq(Tokens)
    BY <1>0, EmptySeq, Zenon
  <2> QED
    BY <2>1
<1>2. ASSUME NEW n \in Nat, n \in T PROVE n + 1 \in T
  <2>1. SUFFICES ASSUME n + 1 <= Len(cs) PROVE B[n + 1] \in Seq(Tokens)
    OBVIOUS
  <2>2. n + 1 \in 1..Len(cs) /\ (n + 1) - 1 = n /\ B[n] \in Seq(Tokens)
    BY <1>0, <1>2, <2>1
  <2>3. CASE cs[n + 1] = None
    BY <1>0, <2>2, <2>3
  <2>4. CASE cs[n + 1] # None
    <3>1. B[n + 1] = B[n] \o cs[n + 1] /\ cs[n + 1] \in Seq(Tokens)
      BY <1>0, <2>2, <2>4
    <3>2. B[n] \o cs[n + 1] \in Seq(Tokens)
      BY <2>2, <3>1, ConcatProperties
    <3> QED
      BY <3>1, <3>2
  <2> QED
    BY <2>3, <2>4
<1> HIDE DEF T
<1>3. Nat \subseteq T
  BY <1>1, <1>2, HoldsAllNumbers
<1> QED
  BY <1>0, <1>3 DEF T, B

\* Each clause stands behind those before it.
LEMMA BehindStep ==
    ASSUME NEW cs, Parts(cs), NEW n \in 1..Len(cs)
    PROVE  LET B == Behind(cs) IN
           /\ Stands(B[n - 1], 0, B[n])
           /\ cs[n] = None => B[n] = B[n - 1]
           /\ cs[n] # None => /\ Len(B[n]) = Len(B[n - 1]) + Len(cs[n])
                              /\ Stands(cs[n], Len(B[n - 1]), B[n])
<1> DEFINE B == Behind(cs)
           a == B[n - 1]
           b == cs[n]
<1>1. /\ Len(cs) \in Nat /\ B[n] = IF b = None THEN a ELSE a \o b
      /\ b = None \/ b \in Seq(Tokens)
  BY BehindIs DEF Parts
<1>2. n - 1 \in 0..Len(cs) /\ n \in 0..Len(cs)
  BY <1>1
<1>3. a \in Seq(Tokens) /\ B[n] \in Seq(Tokens)
  BY <1>2, BehindTexts
<1> HIDE DEF a, b, B
<1>4. CASE b = None
  <2>1. Stands(a, 0, a)
    BY <1>3 DEF Stands
  <2> QED
    BY <1>1, <1>4, <2>1, Zenon DEF a, b, B
<1>5. CASE b # None
  <2>1. b \in Seq(Tokens) /\ B[n] = a \o b
    BY <1>1, <1>5
  <2>2. /\ Len(a \o b) = Len(a) + Len(b)
        /\ \A k \in 1..(Len(a) + Len(b)) : (a \o b)[k] = IF k <= Len(a) THEN a[k] ELSE b[k - Len(a)]
    BY <1>3, <2>1, ConcatProperties
  <2>3. /\ Len(B[n]) = Len(a) + Len(b)
        /\ \A k \in 1..(Len(a) + Len(b)) : B[n][k] = IF k <= Len(a) THEN a[k] ELSE b[k - Len(a)]
    BY <2>1, <2>2, Zenon
  <2>4. Len(a) \in Nat /\ Len(b) \in Nat
    BY <1>3, <2>1
  <2>5. ASSUME NEW k \in 1..Len(b) PROVE B[n][Len(a) + k] = b[k]
    <3> DEFINE j == Len(a) + k
    <3>1. j \in 1..(Len(a) + Len(b)) /\ ~ (j <= Len(a)) /\ j - Len(a) = k
      BY <2>4
    <3> HIDE DEF j
    <3>2. B[n][j] = b[k]
      BY <2>3, <3>1
    <3> QED
      BY <3>2 DEF j
  <2>6. ASSUME NEW k \in 1..Len(a) PROVE B[n][k] = a[k]
    <3>1. k \in 1..(Len(a) + Len(b)) /\ k <= Len(a)
      BY <2>4
    <3> QED
      BY <2>3, <3>1
  <2>7. Len(a) <= Len(B[n]) /\ Len(a) + Len(b) <= Len(B[n])
    BY <2>3, <2>4
  <2>8. Stands(b, Len(a), B[n])
    BY <1>3, <2>1, <2>4, <2>5, <2>7 DEF Stands
  <2>9. Stands(a, 0, B[n])
    BY <1>3, <2>4, <2>6, <2>7 DEF Stands
  <2> QED
    BY <1>5, <2>3, <2>8, <2>9, Zenon DEF a, b, B
<1> QED
  BY <1>4, <1>5

\* What stands behind the first clauses begins what stands behind them all.
LEMMA BehindPrefix ==
    ASSUME NEW cs, Parts(cs), NEW m \in 0..Len(cs), NEW n \in m..Len(cs)
    PROVE  Stands(Behind(cs)[m], 0, Behind(cs)[n])
<1> DEFINE B == Behind(cs)
           T == {d \in Nat : m + d <= Len(cs) => Stands(B[m], 0, B[m + d])}
<1>0. Len(cs) \in Nat /\ \A j \in 0..Len(cs) : B[j] \in Seq(Tokens)
  BY BehindTexts DEF Parts
<1>1. 0 \in T
  <2>1. m + 0 = m
    OBVIOUS
  <2> QED
    BY <1>0, <2>1 DEF Stands
<1>2. ASSUME NEW d \in Nat, d \in T PROVE d + 1 \in T
  <2>1. SUFFICES ASSUME m + (d + 1) <= Len(cs) PROVE Stands(B[m], 0, B[m + (d + 1)])
    OBVIOUS
  <2> DEFINE a == B[m]
             b == B[m + d]
             c == B[m + (d + 1)]
  <2>2. m + (d + 1) \in 1..Len(cs) /\ (m + (d + 1)) - 1 = m + d /\ m + d <= Len(cs)
    BY <1>0, <2>1
  <2>3. Stands(a, 0, b)
    BY <1>2, <2>2
  <2>4. /\ b \in Seq(Tokens) /\ c \in Seq(Tokens) /\ Len(b) <= Len(c)
        /\ \A k \in 1..Len(b) : c[k] = b[k]
    <3> DEFINE j == m + (d + 1)
    <3>1. j \in 1..Len(cs) /\ j - 1 = m + d
      BY <2>2
    <3> HIDE DEF j
    <3>2. Stands(B[j - 1], 0, B[j])
      BY <3>1, BehindStep
    <3>3. b = B[j - 1] /\ c = B[j]
      BY <3>1 DEF j
    <3> HIDE DEF b, c
    <3> QED
      BY <3>2, <3>3 DEF Stands
  <2> HIDE DEF a, b, c
  <2>5. a \in Seq(Tokens) /\ Len(a) <= Len(b) /\ \A k \in 1..Len(a) : b[k] = a[k]
    BY <2>3, SMTT(30) DEF Stands
  <2>6. ASSUME NEW k \in 1..Len(a) PROVE c[k] = a[k]
    <3>1. k \in 1..Len(b)
      BY <2>4, <2>5
    <3> QED
      BY <2>4, <2>5, <3>1
  <2>7. Stands(a, 0, c)
    BY <2>4, <2>5, <2>6 DEF Stands
  <2> QED
    BY <2>7 DEF a, c
<1> HIDE DEF T
<1>3. Nat \subseteq T
  BY <1>1, <1>2, HoldsAllNumbers
<1>4. n - m \in T /\ m + (n - m) = n
  BY <1>0, <1>3
<1> QED
  BY <1>0, <1>4 DEF T

\* The text of a joined filter, and what is read behind its operator.
Encloses(T, operator, cs) ==
    T = <<"(", operator>> \o Behind(cs)[Len(cs)] \o <<")">>

\* How far the text of the joined filter goes up to the n-th clause.
Place(cs, n) == 2 + Len(Behind(cs)[n])

\* The joined text: its ends, and where in it each clause stands.
LEMMA EnclosedText ==
    ASSUME NEW cs, Parts(cs), NEW operator \in {"&", "|"}, NEW T, Encloses(T, operator, cs)
    PROVE  /\ T \in Seq(Tokens) /\ Len(cs) \in Nat
           /\ T[1] = "(" /\ T[2] = operator /\ T[Len(T)] = ")"
           /\ Len(T) = Place(cs, Len(cs)) + 1
           /\ Place(cs, 0) = 2
           /\ \A n \in 0..Len(cs) : Place(cs, n) \in 2..(Len(T) - 1)
           /\ \A n \in 1..Len(cs) :
                 IF cs[n] = None THEN Place(cs, n) = Place(cs, n - 1)
                 ELSE /\ Place(cs, n) = Place(cs, n - 1) + Len(cs[n])
                      /\ Stands(cs[n], Place(cs, n - 1), T)
<1> DEFINE B == Behind(cs)
           M == Len(cs)
           a == <<"(", operator>>
           c == <<")">>
<1>1. /\ M \in Nat /\ a \in Seq(Tokens) /\ c \in Seq(Tokens) /\ B[M] \in Seq(Tokens)
      /\ \A n \in 0..M : B[n] \in Seq(Tokens)
  <2>1. M \in Nat
    BY DEF Parts
  <2>2. "(" \in Tokens /\ ")" \in Tokens /\ operator \in Tokens
    BY TokensAre
  <2>3. \A n \in 0..M : B[n] \in Seq(Tokens)
    BY BehindTexts
  <2>4. a \in Seq(Tokens) /\ c \in Seq(Tokens)
    BY <2>2
  <2>5. M \in 0..M
    BY <2>1
  <2> QED
    BY <2>1, <2>3, <2>4, <2>5
<1>2. Len(a) = 2 /\ a[1] = "(" /\ a[2] = operator /\ Len(c) = 1 /\ c[1] = ")"
  OBVIOUS
<1> DEFINE w == B[M]
<1>3. T = a \o w \o c /\ w \in Seq(Tokens)
  BY <1>1 DEF Encloses
<1> HIDE DEF a, c, B, w
<1>4. /\ T \in Seq(Tokens) /\ Len(T) = Len(a) + Len(w) + Len(c)
      /\ \A k \in 1..Len(a) : T[k] = a[k]
      /\ \A k \in 1..Len(w) : T[Len(a) + k] = w[k]
      /\ \A k \in 1..Len(c) : T[Len(a) + Len(w) + k] = c[k]
  BY <1>1, <1>3, Threefold
<1>5. /\ Len(w) \in Nat /\ Len(T) = Len(w) + 3 /\ T[1] = "(" /\ T[2] = operator
      /\ T[Len(w) + 3] = ")" /\ \A k \in 1..Len(w) : T[2 + k] = w[k]
  <2>1. 1 \in 1..Len(a) /\ 2 \in 1..Len(a) /\ 1 \in 1..Len(c) /\ Len(w) \in Nat
    BY <1>2, <1>3
  <2>2. T[1] = "(" /\ T[2] = operator
    BY <1>2, <1>4, <2>1
  <2>3. T[Len(a) + Len(w) + 1] = ")" /\ Len(a) + Len(w) + 1 = Len(w) + 3
    BY <1>2, <1>4, <2>1
  <2> QED
    BY <1>2, <1>4, <2>1, <2>2, <2>3
<1>6. ASSUME NEW n \in 0..M
      PROVE  /\ B[n] \in Seq(Tokens) /\ Len(B[n]) \in Nat /\ Len(B[n]) <= Len(w)
             /\ \A k \in 1..Len(B[n]) : w[k] = B[n][k]
  <2>1. M \in n..M
    BY <1>1
  <2>2. Stands(B[n], 0, w)
    BY <2>1, BehindPrefix DEF B, w
  <2> HIDE DEF M
  <2> DEFINE b == B[n]
  <2>3. b \in Seq(Tokens) /\ Len(b) \in Nat /\ 0 + Len(b) <= Len(w)
    BY <2>2 DEF Stands
  <2>4. \A k \in 1..Len(b) : w[0 + k] = b[k]
    BY <2>2 DEF Stands
  <2> HIDE DEF b
  <2>5. Len(b) <= Len(w) /\ \A k \in 1..Len(b) : w[k] = b[k]
    BY <1>5, <2>3, <2>4
  <2> QED
    BY <2>3, <2>5 DEF b
<1>7. \A n \in 0..M : Place(cs, n) = 2 + Len(B[n]) /\ Place(cs, n) \in 2..(Len(T) - 1)
  BY <1>5, <1>6 DEF Place, B
<1>8. Place(cs, M) = 2 + Len(w) /\ Place(cs, 0) = 2
  <2>1. B[0] = <<>>
    BY <1>1, BehindIs DEF B
  <2>2. Len(B[0]) = 0
    <3>1. Len(<<>>) = 0
      OBVIOUS
    <3> QED
      BY <2>1, <3>1, Zenon
  <2> QED
    BY <2>2 DEF Place, B, w
<1>9. ASSUME NEW n \in 1..M
      PROVE  IF cs[n] = None THEN Place(cs, n) = Place(cs, n - 1)
             ELSE /\ Place(cs, n) = Place(cs, n - 1) + Len(cs[n])
                  /\ Stands(cs[n], Place(cs, n - 1), T)
  <2> DEFINE p == B[n - 1]
             q == B[n]
             d == cs[n]
  <2>1. /\ n - 1 \in 0..M /\ n \in 0..M
        /\ p \in Seq(Tokens) /\ q \in Seq(Tokens)
        /\ d = None => q = p
        /\ d # None => /\ d \in Seq(Tokens)
                       /\ Len(q) = Len(p) + Len(d)
                       /\ \A k \in 1..Len(d) : q[Len(p) + k] = d[k]
    <3>1. /\ q = IF d = None THEN p ELSE q
          /\ d # None => Len(q) = Len(p) + Len(d) /\ Stands(d, Len(p), q)
      BY BehindStep DEF B
    <3>2. n - 1 \in 0..M /\ n \in 0..M
      BY <1>1
    <3>3. p \in Seq(Tokens) /\ q \in Seq(Tokens)
      BY <1>1, <3>2
    <3> HIDE DEF p, q, d
    <3> QED
      BY <3>1, <3>2, <3>3, Zenon DEF Stands
  <2>2. Place(cs, n) = 2 + Len(q) /\ Place(cs, n - 1) = 2 + Len(p)
    BY <1>7, <2>1
  <2>3. Len(q) <= Len(w) /\ \A k \in 1..Len(q) : w[k] = q[k]
    BY <1>6, <2>1
  <2> HIDE DEF p, q, d
  <2>4. CASE d = None
    BY <2>1, <2>2, <2>4 DEF d
  <2>5. CASE d # None
    <3>1. Len(p) \in Nat /\ Len(d) \in Nat /\ Len(q) = Len(p) + Len(d) /\ d \in Seq(Tokens)
      BY <2>1, <2>5
    <3>2. ASSUME NEW k \in 1..Len(d) PROVE T[(2 + Len(p)) + k] = d[k]
      <4> DEFINE j == Len(p) + k
      <4>1. j \in 1..Len(q) /\ j \in 1..Len(w) /\ (2 + Len(p)) + k = 2 + j
        BY <1>5, <2>3, <3>1
      <4>2. q[j] = d[k]
        BY <2>1, <2>5
      <4> HIDE DEF j
      <4>3. T[2 + j] = w[j] /\ w[j] = q[j]
        BY <1>5, <2>3, <4>1
      <4> QED
        BY <4>1, <4>2, <4>3
    <3>3. Stands(d, 2 + Len(p), T)
      BY <1>4, <1>5, <2>3, <3>1, <3>2 DEF Stands
    <3> QED
      BY <2>2, <2>5, <3>1, <3>3 DEF d
  <2> QED
    BY <2>4, <2>5
<1>10. Len(T) = Place(cs, M) + 1 /\ T[Len(T)] = ")"
  BY <1>5, <1>8
<1> QED
  BY <1>1, <1>4, <1>5, <1>7, <1>8, <1>9, <1>10

\* The clauses up to the N-th are read one by one.
LEMMA ReadsClauses ==
    ASSUME NEW cs, Parts(cs), NEW operator \in {"&", "|"}, NEW T, Encloses(T, operator, cs),
           NEW S, NEW N \in 0..Len(cs),
           \A n \in 1..N : cs[n] # None => Means(cs[n], S[n])
    PROVE  LET rest == ReadRun(T, Place(cs, N) + 1) IN
           /\ ReadRun(T, 3).next = rest.next
           /\ rest.next # 0 => ReadRun(T, 3).parts =
                 rest.parts \cup {S[n] : n \in {n \in 1..N : cs[n] # None}}
<1> DEFINE Given1(m) == {S[n] : n \in {n \in 1..m : cs[n] # None}}
           Rest(m) == ReadRun(T, Place(cs, m) + 1)
           C(m) == /\ ReadRun(T, 3).next = Rest(m).next
                   /\ Rest(m).next # 0 => ReadRun(T, 3).parts = Rest(m).parts \cup Given1(m)
           X == {m \in Nat : m <= N => C(m)}
<1>0. /\ T \in Seq(Tokens) /\ Len(cs) \in Nat /\ N \in Nat /\ N <= Len(cs)
      /\ Place(cs, 0) = 2
      /\ \A n \in 0..Len(cs) : Place(cs, n) \in 2..(Len(T) - 1)
      /\ \A n \in 1..Len(cs) :
            IF cs[n] = None THEN Place(cs, n) = Place(cs, n - 1)
            ELSE /\ Place(cs, n) = Place(cs, n - 1) + Len(cs[n])
                 /\ Stands(cs[n], Place(cs, n - 1), T)
  BY EnclosedText
<1>1. 0 \in X
  <2>1. Given1(0) = {} /\ Place(cs, 0) + 1 = 3
    BY <1>0
  <2> HIDE DEF Given1
  <2>2. Rest(0) = ReadRun(T, 3)
    BY <2>1
  <2>3. C(0)
    BY <2>1, <2>2
  <2> QED
    BY <2>3
<1>2. ASSUME NEW m \in Nat, m \in X PROVE m + 1 \in X
  <2>1. SUFFICES ASSUME m + 1 <= N PROVE C(m + 1)
    OBVIOUS
  <2> DEFINE d == cs[m + 1]
             p == Place(cs, m)
             q == Place(cs, m + 1)
  <2>2. /\ m + 1 \in 1..Len(cs) /\ m + 1 \in 1..N /\ (m + 1) - 1 = m /\ m \in 0..Len(cs)
        /\ p \in 2..(Len(T) - 1) /\ q \in 2..(Len(T) - 1) /\ Len(T) \in Nat
        /\ C(m)
    BY <1>0, <1>2, <2>1, SMTT(30)
  <2>3. IF d = None THEN q = p ELSE q = p + Len(d) /\ Stands(d, p, T)
    BY <1>0, <2>2
  <2> HIDE DEF d, p, q
  <2>4. Rest(m) = ReadRun(T, p + 1) /\ Rest(m + 1) = ReadRun(T, q + 1)
    BY DEF p, q
  <2> HIDE DEF Rest
  <2>5. CASE d = None
    <3>1. Given1(m + 1) = Given1(m)
      <4>1. {n \in 1..(m + 1) : cs[n] # None} = {n \in 1..m : cs[n] # None}
        BY <2>5 DEF d
      <4> QED
        BY <4>1
    <3> HIDE DEF Given1
    <3> QED
      BY <2>2, <2>3, <2>4, <2>5, <3>1
  <2>6. CASE d # None
    <3>1. Means(d, S[m + 1])
      BY <2>2, <2>6 DEF d
    <3>2. /\ At(T, p + 1) = "("
          /\ ReadClause(T, p + 1).next = q + 1
          /\ ReadClause(T, p + 1).selects = S[m + 1]
      <4>1. Len(d) \in Nat
        BY <3>1 DEF Means
      <4>2. p + Len(d) + 1 = q + 1
        BY <2>2, <2>3, <2>6, <4>1
      <4>3. /\ At(T, p + 1) = "("
            /\ ReadClause(T, p + 1).next = p + Len(d) + 1
            /\ ReadClause(T, p + 1).selects = S[m + 1]
        BY <2>3, <2>6, <3>1, MeansThere
      <4> QED
        BY <4>2, <4>3
    <3>3. p + 1 \in 1..(Len(T) + 1) /\ q + 1 # 0
      BY <2>2
    <3>4. ReadRun(T, p + 1) = [next |-> ReadRun(T, q + 1).next,
                               parts |-> ReadRun(T, q + 1).parts \cup {S[m + 1]}]
      BY <1>0, <3>2, <3>3, ReadsRun
    <3>5. /\ Rest(m).next = Rest(m + 1).next
          /\ Rest(m).parts = Rest(m + 1).parts \cup {S[m + 1]}
      BY <2>4, <3>4
    <3>6. Given1(m + 1) = Given1(m) \cup {S[m + 1]}
      <4>1. {n \in 1..(m + 1) : cs[n] # None} = {n \in 1..m : cs[n] # None} \cup {m + 1}
        BY <2>6 DEF d
      <4> QED
        BY <4>1
    <3> HIDE DEF Given1
    <3> QED
      BY <2>2, <3>5, <3>6
  <2> QED
    BY <2>5, <2>6
<1> HIDE DEF X
<1>3. Nat \subseteq X
  BY <1>1, <1>2, HoldsAllNumbers
<1>4. C(N)
  BY <1>0, <1>3 DEF X
<1> QED
  BY <1>4

\* The joined text joins what its clauses select.
LEMMA EnclosedMeans ==
    ASSUME NEW cs, Parts(cs), NEW operator \in {"&", "|"}, NEW T, Encloses(T, operator, cs),
           NEW S, \A n \in 1..Len(cs) : cs[n] # None => Means(cs[n], S[n]),
           NEW g \in 1..Len(cs), cs[g] # None
    PROVE  Means(T, Joining(operator, {S[n] : n \in {n \in 1..Len(cs) : cs[n] # None}}))
<1> DEFINE P == {S[n] : n \in {n \in 1..Len(cs) : cs[n] # None}}
           N == Len(cs)
           q == Place(cs, N) + 1
<1>1. /\ T \in Seq(Tokens) /\ N \in Nat /\ T[1] = "(" /\ T[2] = operator /\ T[Len(T)] = ")"
      /\ Len(T) = q /\ Place(cs, N) \in 2..(Len(T) - 1)
  BY EnclosedText, SMTT(30)
<1>2. /\ Len(T) \in Nat /\ Len(T) >= 3 /\ q \in 1..(Len(T) + 1) /\ At(T, q) = ")"
      /\ At(T, 1) = "(" /\ At(T, 1 + 1) = operator /\ 1 \in 1..(Len(T) + 1)
  BY <1>1 DEF At
<1>3. ReadRun(T, q) = [next |-> q, parts |-> {}]
  BY <1>1, <1>2, ReadsNothing
<1>4. ReadRun(T, 3).next = ReadRun(T, q).next
      /\ (ReadRun(T, q).next # 0 => ReadRun(T, 3).parts = ReadRun(T, q).parts \cup P)
  <2>1. N \in 0..Len(cs)
    BY <1>1
  <2> QED
    BY <2>1, ReadsClauses
<1>5. S[g] \in P
  OBVIOUS
<1> HIDE DEF P, q
<1>6. ReadRun(T, 3).next = q /\ ReadRun(T, 3).parts = P
  <2>1. ReadRun(T, q).next = q /\ ReadRun(T, q).parts = {} /\ q # 0
    BY <1>2, <1>3
  <2>2. {} \cup P = P
    OBVIOUS
  <2> QED
    BY <1>4, <2>1, <2>2, Zenon
<1>7. ReadClause(T, 1) = [next |-> q + 1, selects |-> Joining(operator, P)]
  <2>1. 1 + 2 = 3 /\ P # {}
    BY <1>5
  <2> QED
    BY <1>1, <1>2, <1>6, <2>1, ReadsJoin
<1>8. ReadClause(T, 1).next = Len(T) + 1 /\ ReadClause(T, 1).selects = Joining(operator, P)
  BY <1>1, <1>7
<1> QED
  BY <1>1, <1>2, <1>8 DEF Means, P

\* A clause given alone is the text.
LEMMA BehindOne ==
    ASSUME NEW cs, Parts(cs), NEW g \in 1..Len(cs), cs[g] # None,
           \A n \in 1..Len(cs) : n # g => cs[n] = None
    PROVE  Behind(cs)[Len(cs)] = cs[g]
<1> DEFINE B == Behind(cs)
           T == {n \in Nat : n <= Len(cs) => B[n] = IF n < g THEN <<>> ELSE cs[g]}
<1>0. /\ Len(cs) \in Nat /\ B[0] = <<>> /\ cs[g] \in Seq(Tokens)
      /\ \A n \in 1..Len(cs) : B[n] = IF cs[n] = None THEN B[n - 1] ELSE B[n - 1] \o cs[n]
  BY BehindIs DEF Parts
<1> HIDE DEF B
<1>1. 0 \in T
  <2>1. 0 < g
    OBVIOUS
  <2> QED
    BY <1>0, <2>1, Zenon
<1>2. ASSUME NEW n \in Nat, n \in T PROVE n + 1 \in T
  <2>1. SUFFICES ASSUME n + 1 <= Len(cs)
                 PROVE  B[n + 1] = IF n + 1 < g THEN <<>> ELSE cs[g]
    OBVIOUS
  <2>2. n + 1 \in 1..Len(cs) /\ (n + 1) - 1 = n /\ n <= Len(cs)
    BY <1>0, <2>1
  <2>3. B[n] = IF n < g THEN <<>> ELSE cs[g]
    BY <1>2, <2>2, Zenon
  <2>4. B[n + 1] = IF cs[n + 1] = None THEN B[n] ELSE B[n] \o cs[n + 1]
    BY <1>0, <2>2
  <2>5. CASE n + 1 = g
    <3>1. n < g /\ ~ (n + 1 < g)
      BY <2>5
    <3>2. B[n + 1] = <<>> \o cs[g]
      BY <2>3, <2>4, <2>5, <3>1, Zenon
    <3>3. <<>> \o cs[g] = cs[g]
      BY <1>0, ConcatEmptySeq, Zenon
    <3> QED
      BY <3>1, <3>2, <3>3, Zenon
  <2>6. CASE n + 1 # g
    <3>1. n < g <=> n + 1 < g
      BY <2>6
    <3>2. B[n + 1] = B[n]
      BY <2>2, <2>4, <2>6, Zenon
    <3> QED
      BY <2>3, <3>1, <3>2, Zenon
  <2> QED
    BY <2>5, <2>6
<1> HIDE DEF T
<1>3. Nat \subseteq T
  BY <1>1, <1>2, HoldsAllNumbers
<1>4. Len(cs) \in T /\ Len(cs) <= Len(cs) /\ ~ (Len(cs) < g)
  BY <1>0, <1>3
<1> QED
  BY <1>4, Zenon DEF T, B

\* all_of and any_of of clauses that are filters.
LEMMA JoinedMeans ==
    ASSUME NEW cs, Parts(cs), NEW operator \in {"&", "|"},
           NEW S, \A n \in 1..Len(cs) : cs[n] # None => Means(cs[n], S[n]),
           Given(cs) # {}
    PROVE  Means(Joined(operator, cs), Joining(operator, {S[n] : n \in Given(cs)}))
<1> DEFINE B == Behind(cs)[Len(cs)]
           T == <<"(", operator>> \o B \o <<")">>
<1>0. Len(cs) \in Nat /\ Given(cs) = {n \in 1..Len(cs) : cs[n] # None}
  BY DEF Given, Parts
<1>1. PICK g \in 1..Len(cs) : cs[g] # None
  BY <1>0
<1>2. Joined(operator, cs) = IF Cardinality(Given(cs)) = 1 THEN B ELSE T
  BY Zenon DEF Joined
<1>3. CASE Cardinality(Given(cs)) = 1
  <2>1. IsFiniteSet(Given(cs))
    <3>1. Given(cs) \subseteq 1..Len(cs) /\ IsFiniteSet(1..Len(cs))
      BY <1>0, FS_Interval
    <3> QED
      BY <3>1, FS_Subset
  <2>2. Given(cs) = {g}
    <3>1. PICK x : Given(cs) = {x}
      BY <1>3, <2>1, FS_Singleton
    <3> QED
      BY <1>0, <1>1, <3>1
  <2>3. \A n \in 1..Len(cs) : n # g => cs[n] = None
    BY <1>0, <2>2
  <2>4. B = cs[g]
    BY <1>1, <2>3, BehindOne
  <2>5. Means(cs[g], S[g])
    BY <1>1
  <2>6. Joining(operator, {S[n] : n \in Given(cs)}) = S[g]
    <3>1. {S[n] : n \in Given(cs)} = {S[g]}
      BY <2>2
    <3>2. S[g] \subseteq Entries
      <4>1. cs[g] \in Seq(Tokens) /\ Len(cs[g]) \in Nat /\ ReadClause(cs[g], 1).selects = S[g]
        BY <2>5 DEF Means
      <4>2. 1 \in 1..(Len(cs[g]) + 1)
        BY <4>1
      <4> QED
        BY <4>1, <4>2, Reads
    <3> QED
      BY <3>1, <3>2 DEF Joining
  <2> QED
    BY <1>2, <1>3, <2>4, <2>5, <2>6, Zenon
<1>4. CASE Cardinality(Given(cs)) # 1
  <2>1. Encloses(T, operator, cs)
    BY DEF Encloses
  <2> HIDE DEF T
  <2>2. Means(T, Joining(operator, {S[n] : n \in {n \in 1..Len(cs) : cs[n] # None}}))
    BY <1>1, <2>1, EnclosedMeans
  <2> QED
    BY <1>0, <1>2, <1>4, <2>2, Zenon
<1> QED
  BY <1>3, <1>4

-----------------------------------------------------------------------------
(* The whole of an object class and category *)

\* A clause for a value of one token, as it is written in the two constants.
LEMMA LiteralMeans ==
    ASSUME NEW n \in Names, NEW v \in Tokens, v \notin {"(", ")", "*", "\\", "NUL"},
           v \notin Range(Escapes)
    PROVE  Means(<<"(", n, "=", v, ")">>, Holding(n, <<v>>))
<1> DEFINE a == <<"(", n, "=">>
           e == esc(<<v>>)
           b == <<v>>
           c == <<")">>
           t == <<"(", n, "=", v, ")">>
           w == eq(n, <<v>>)
<1>1. {"(", ")", "=", n, v} \subseteq Tokens
  BY TokensAre DEF Names
<1>2. e = b
  BY EscapesAre DEF esc
<1>3. /\ a \in Seq(Tokens) /\ b \in Seq(Tokens) /\ c \in Seq(Tokens) /\ t \in Seq(Tokens)
      /\ Len(a) = 3 /\ a[1] = "(" /\ a[2] = n /\ a[3] = "=" /\ Len(b) = 1 /\ b[1] = v
      /\ Len(c) = 1 /\ c[1] = ")" /\ Len(t) = 5
      /\ t[1] = "(" /\ t[2] = n /\ t[3] = "=" /\ t[4] = v /\ t[5] = ")"
  BY <1>1
<1>4. w = a \o b \o c
  BY <1>2, Zenon DEF eq
<1>5. <<v>> \in Value
  BY DEF Value
<1>6. Means(w, Holding(n, <<v>>))
  BY <1>5, EqMeans
<1> HIDE DEF a, b, c, t, w, e
<1>7. /\ w \in Seq(Tokens) /\ Len(w) = Len(a) + Len(b) + Len(c)
      /\ \A k \in 1..Len(a) : w[k] = a[k]
      /\ \A k \in 1..Len(b) : w[Len(a) + k] = b[k]
      /\ \A k \in 1..Len(c) : w[Len(a) + Len(b) + k] = c[k]
  <2>1. a \in Seq(Tokens) /\ b \in Seq(Tokens) /\ c \in Seq(Tokens)
    BY <1>3
  <2> QED
    BY <1>4, <2>1, Threefold
<1>8. Len(w) = 5 /\ w[1] = "(" /\ w[2] = n /\ w[3] = "=" /\ w[4] = v /\ w[5] = ")"
  <2>1. 1 \in 1..Len(a) /\ 2 \in 1..Len(a) /\ 3 \in 1..Len(a) /\ 1 \in 1..Len(b) /\ 1 \in 1..Len(c)
    BY <1>3
  <2> QED
    BY <1>3, <1>7, <2>1
<1>9. ASSUME NEW k \in 1..Len(w) PROVE w[k] = t[k]
  BY <1>3, <1>8
<1>10. w = t
  BY <1>3, <1>7, <1>8, <1>9, SeqEqual
<1> QED
  BY <1>6, <1>10, Zenon DEF t

People == Holding("objectCategory", <<"person">>) \cap Holding("objectClass", <<"user">>)

\* The clause for users.
LEMMA UserObjectMeans == Means(USER_OBJECT, People)
<1> DEFINE t == USER_OBJECT
           c == <<"(", "objectCategory", "=", "person", ")">>
           d == <<"(", "objectClass", "=", "user", ")">>
           C == Holding("objectCategory", <<"person">>)
           D == Holding("objectClass", <<"user">>)
<1>1. /\ {"(", ")", "=", "&", "objectCategory", "objectClass", "person", "user"} \subseteq Tokens
      /\ "objectCategory" \in Names /\ "objectClass" \in Names
      /\ {"person", "user"} \cap Range(Escapes) = {}
  BY TokensAre, EscapesAre DEF Names, IN_CHAIN, BIT_AND
<1>2. Means(c, C) /\ Means(d, D)
  <2>1. "person" \in Tokens /\ "user" \in Tokens
        /\ "person" \notin {"(", ")", "*", "\\", "NUL"} /\ "user" \notin {"(", ")", "*", "\\", "NUL"}
        /\ "person" \notin Range(Escapes) /\ "user" \notin Range(Escapes)
    BY <1>1
  <2> QED
    BY <1>1, <2>1, LiteralMeans
<1>3. /\ t \in Seq(Tokens) /\ Len(t) = 13 /\ t[1] = "(" /\ t[2] = "&" /\ t[13] = ")"
  BY <1>1 DEF USER_OBJECT
<1>4. Stands(c, 2, t)
  <2>1. c \in Seq(Tokens) /\ Len(c) = 5
    BY <1>1
  <2>2. ASSUME NEW k \in 1..5 PROVE t[2 + k] = c[k]
    BY DEF USER_OBJECT
  <2> HIDE DEF c, t
  <2> QED
    BY <1>3, <2>1, <2>2 DEF Stands
<1>5. Stands(d, 7, t)
  <2>1. d \in Seq(Tokens) /\ Len(d) = 5
    BY <1>1
  <2>2. ASSUME NEW k \in 1..5 PROVE t[7 + k] = d[k]
    BY DEF USER_OBJECT
  <2> HIDE DEF d, t
  <2> QED
    BY <1>3, <2>1, <2>2 DEF Stands
<1>6. Len(c) = 5 /\ Len(d) = 5
  OBVIOUS
<1> HIDE DEF c, d, t, C, D
<1>7. At(t, 3) = "(" /\ ReadClause(t, 3).next = 8 /\ ReadClause(t, 3).selects = C
  <2>1. 2 + 1 = 3 /\ 2 + Len(c) + 1 = 8
    BY <1>6
  <2> QED
    BY <1>2, <1>4, <2>1, MeansThere
<1>8. At(t, 8) = "(" /\ ReadClause(t, 8).next = 13 /\ ReadClause(t, 8).selects = D
  <2>1. 7 + 1 = 8 /\ 7 + Len(d) + 1 = 13
    BY <1>6
  <2> QED
    BY <1>2, <1>5, <2>1, MeansThere
<1>9. At(t, 13) = ")" /\ At(t, 1) = "(" /\ At(t, 1 + 1) = "&"
      /\ 1 \in 1..(Len(t) + 1) /\ 3 \in 1..(Len(t) + 1) /\ 8 \in 1..(Len(t) + 1)
      /\ 13 \in 1..(Len(t) + 1)
  BY <1>3 DEF At
<1>10. ReadRun(t, 13) = [next |-> 13, parts |-> {}]
  BY <1>3, <1>9, ReadsNothing
<1>11. ReadRun(t, 8).next = 13 /\ ReadRun(t, 8).parts = {D}
  <2>1. ReadRun(t, 13).next = 13 /\ ReadRun(t, 13).parts = {}
    BY <1>10
  <2>2. /\ ReadRun(t, 8).next = ReadRun(t, 13).next
        /\ ReadRun(t, 8).parts = ReadRun(t, 13).parts \cup {ReadClause(t, 8).selects}
    <3>1. 13 # 0 /\ 13 = ReadClause(t, 8).next
      BY <1>8
    <3> QED
      BY <1>3, <1>8, <1>9, <3>1, ReadsOn, Zenon
  <2> QED
    BY <1>8, <2>1, <2>2
<1>12. ReadRun(t, 3).next = 13 /\ ReadRun(t, 3).parts = {C, D}
  <2>1. /\ ReadRun(t, 3).next = ReadRun(t, 8).next
        /\ ReadRun(t, 3).parts = ReadRun(t, 8).parts \cup {ReadClause(t, 3).selects}
    <3>1. 8 # 0 /\ 8 = ReadClause(t, 3).next
      BY <1>7
    <3> QED
      BY <1>3, <1>7, <1>9, <3>1, ReadsOn, Zenon
  <2>2. {D} \cup {C} = {C, D}
    OBVIOUS
  <2> QED
    BY <1>7, <1>11, <2>1, <2>2
<1>13. ReadClause(t, 1) = [next |-> 13 + 1, selects |-> Joining("&", {C, D})]
  <2>1. 1 + 2 = 3 /\ ReadRun(t, 3).next = 13 /\ ReadRun(t, 3).parts = {C, D} /\ {C, D} # {}
    BY <1>12
  <2> QED
    BY <1>3, <1>9, <2>1, ReadsJoin
<1>14. Joining("&", {C, D}) = People
  BY DEF Joining, People, C, D, Holding
<1>15. ReadClause(t, 1).next = Len(t) + 1 /\ ReadClause(t, 1).selects = People
  BY <1>3, <1>13, <1>14
<1> QED
  BY <1>3, <1>15 DEF Means, t

-----------------------------------------------------------------------------
(* The caller's fragment *)

\* A filter is readable when it means something.
LEMMA ReadableMeans ==
    ASSUME NEW text \in Seq(Tokens)
    PROVE  /\ Readable(text) => Means(text, Selected(text))
           /\ \A S : Means(text, S) => Readable(text) /\ Selected(text) = S
           /\ Selected(text) \subseteq Entries
<1>1. Len(text) \in Nat /\ 1 \in 1..(Len(text) + 1)
  OBVIOUS
<1>2. /\ Readable(text) <=> ReadClause(text, 1).next = Len(text) + 1
      /\ Selected(text) = ReadClause(text, 1).selects
  BY DEF Readable, Selected, ReadClause
<1>3. /\ ReadClause(text, 1).next \in {0} \cup ((1 + 1)..(Len(text) + 1))
      /\ ReadClause(text, 1).selects \subseteq Entries
  BY <1>1, Reads
<1>4. ReadClause(text, 1).next = Len(text) + 1 => Len(text) >= 1
  BY <1>1, <1>3
<1> QED
  BY <1>2, <1>3, <1>4 DEF Means

\* A fragment that is the last clause is read as it is alone, or the whole cannot be
\* read: it neither ends before its last token nor takes in what stands behind it.
LEMMA FragmentLast ==
    ASSUME NEW cs, Parts(cs), NEW operator \in {"&", "|"}, NEW T, Encloses(T, operator, cs),
           NEW S, \A n \in 1..(Len(cs) - 1) : cs[n] # None => Means(cs[n], S[n]),
           NEW fragment, fragment = cs[Len(cs)], Len(cs) >= 1,
           fragment # None, valid_fragment(fragment),
           ReadClause(T, 1).next = Len(T) + 1
    PROVE  Readable(fragment)
<1> DEFINE M == Len(cs)
           L == Len(fragment)
           q == Place(cs, M - 1)
           r == ReadClause(T, q + 1).next
<1>1. /\ T \in Seq(Tokens) /\ M \in Nat /\ M >= 1 /\ T[1] = "(" /\ T[2] = operator
      /\ T[Len(T)] = ")"
      /\ Len(T) = Place(cs, M) + 1
      /\ q \in 2..(Len(T) - 1)
      /\ Place(cs, M) = q + L /\ Stands(fragment, q, T)
  <2>1. M \in Nat /\ M - 1 \in 0..Len(cs) /\ M \in 1..Len(cs)
    BY DEF Parts
  <2> QED
    BY <2>1, EnclosedText
<1>2. /\ fragment \in Seq(Tokens) /\ L \in Nat /\ L >= 3 /\ fragment[1] = "("
      /\ q \in Nat /\ Len(T) = q + L + 1
  BY <1>1 DEF Stands, valid_fragment
<1> HIDE DEF M, L, q, r
<1>3. At(T, 1) = "(" /\ At(T, 1 + 1) = operator /\ 1 \in 1..(Len(T) + 1)
      /\ 3 \in 1..(Len(T) + 1)
  <2>1. Len(T) \in Nat /\ Len(T) >= 3
    BY <1>1, <1>2
  <2> QED
    BY <1>1, <2>1 DEF At
<1>4. ReadRun(T, 3).next = Len(T)
  <2>1. ReadClause(T, 1).next # 0
    <3>1. Len(T) + 1 # 0
      BY <1>2
    <3> QED
      BY <3>1
  <2>2. ReadClause(T, 1).next = ReadRun(T, 1 + 2).next + 1
    BY <1>1, <1>3, <2>1, ReadsJoin
  <2>3. ReadRun(T, 3).next \in {0} \cup (3..(Len(T) + 1))
    BY <1>1, <1>3, Reads
  <2>4. Len(T) + 1 = ReadRun(T, 3).next + 1
    <3>1. 1 + 2 = 3
      OBVIOUS
    <3> QED
      BY <2>2, <3>1, Zenon
  <2>5. Len(T) \in Nat /\ ReadRun(T, 3).next \in Nat
    BY <1>2, <2>3
  <2> QED
    BY <2>4, <2>5
<1>5. ReadRun(T, q + 1).next = Len(T)
  <2>1. M - 1 \in 0..Len(cs) /\ \A n \in 1..(M - 1) : cs[n] # None => Means(cs[n], S[n])
    BY <1>1 DEF M
  <2> DEFINE N == M - 1
  <2>2. N \in 0..Len(cs) /\ \A n \in 1..N : cs[n] # None => Means(cs[n], S[n])
    BY <2>1
  <2> HIDE DEF N
  <2>3. ReadRun(T, 3).next = ReadRun(T, Place(cs, N) + 1).next
    BY <2>2, ReadsClauses
  <2> QED
    BY <1>4, <2>3 DEF N, q
<1>6. /\ At(T, q + 1) = "(" /\ q + 1 \in 1..(Len(T) + 1) /\ 1 \in 1..L
  <2>1. 1 \in 1..L
    BY <1>2
  <2> QED
    BY <1>1, <1>2, <2>1, AlikeAt DEF L
<1>7. r # 0 /\ ReadRun(T, r).next = Len(T)
  <2>1. Len(T) # 0
    BY <1>2
  <2>2. r = 0 => ReadRun(T, q + 1).next = 0
    BY <1>1, <1>6, ReadsOn DEF r
  <2>3. r # 0 => ReadRun(T, q + 1).next = ReadRun(T, r).next
    BY <1>1, <1>6, ReadsOn DEF r
  <2> QED
    BY <1>5, <2>1, <2>2, <2>3, Zenon
<1>8. r \in (q + 2)..(Len(T) + 1)
  <2>1. r \in {0} \cup ((q + 1 + 1)..(Len(T) + 1))
    BY <1>1, <1>6, Reads DEF r
  <2> QED
    BY <1>2, <1>7, <2>1
<1>9. r \in 1..(Len(T) + 1) /\ r <= Len(T)
  <2>1. r \in 1..(Len(T) + 1)
    BY <1>2, <1>8
  <2>2. ReadRun(T, r).next \in {0} \cup (r..(Len(T) + 1))
    BY <1>1, <2>1, Reads
  <2> QED
    BY <1>2, <1>7, <2>1, <2>2
<1>10. r = q + L + 1
  <2>1. SUFFICES ASSUME r < q + L + 1 PROVE FALSE
    BY <1>2, <1>8, <1>9
  <2> DEFINE k == (r - 1) - q
  <2>2. k \in 1..(L - 1) /\ r - 1 = q + k /\ k \in 0..L /\ L \in 0..L /\ Len(T) - 1 = q + L
    BY <1>2, <1>8, <2>1
  <2>3. Depth(fragment, k) >= 1 /\ Depth(fragment, L) = 0
    BY <1>2, <2>2, OpenWithin DEF L
  <2>4. /\ Depth(T, q + k) = Depth(T, q) + Depth(fragment, k)
        /\ Depth(T, q + L) = Depth(T, q) + Depth(fragment, L)
    BY <1>1, <2>2, DepthOfPart, ZenonT(40) DEF L
  <2>5. Depth(T, Len(T) - 1) >= Depth(T, r - 1)
    <3>1. ReadRun(T, r).next # 0
      BY <1>2, <1>7
    <3>2. Depth(T, ReadRun(T, r).next - 1) >= Depth(T, r - 1)
      BY <1>1, <1>9, <3>1, ReadsBalanced
    <3> QED
      BY <1>7, <3>2
  <2>6. Depth(T, q) \in Int /\ Depth(fragment, k) \in Int
    BY <1>2, <2>2, DepthNext
  <2> HIDE DEF k
  <2> QED
    BY <2>2, <2>3, <2>4, <2>5, <2>6
<1>11. ReadClause(fragment, 1).next = L + 1
  <2>1. Alike(fragment, q, T, 1)
    BY <1>1, <1>2, ReadsAlike DEF L
  <2>2. r \in 1..(q + L + 1)
    BY <1>2, <1>8, <1>10
  <2>3. ReadClause(fragment, 1).next # 0
    BY <2>1, <2>2 DEF Alike, r, L
  <2>4. r = q + ReadClause(fragment, 1).next
    BY <2>1, <2>3 DEF Alike, r
  <2>5. ReadClause(fragment, 1).next \in {0} \cup ((1 + 1)..(L + 1))
    BY <1>2, <1>6, Reads DEF L
  <2> QED
    BY <1>2, <1>10, <2>4, <2>5, SMTT(30)
<1> QED
  BY <1>11 DEF Readable, ReadClause, L

-----------------------------------------------------------------------------
(* The filter of a call *)

\* What the clauses of a call select.
Selections == <<People,
                Entries \ HoldingBit("userAccountControl", "2"),
                Holding(attrs.employee_id, call.employee_id),
                Holding(attrs.username, call.username),
                HoldingWithin(attrs.name, call.name_contains)
                   \cup HoldingWithin(attrs.cn, call.name_contains),
                Holding(attrs.cost_center, call.cost_center),
                Holding(attrs.manager, call.manager_dn),
                IF call.transitive THEN Reaching(call.group_dn)
                                   ELSE Holding(attrs.member_of, call.group_dn),
                Selected(call.extra_filter)>>

\* A clause that is not given is not a filter.
LEMMA NoneIsNoFilter == ASSUME NEW text, NEW S, Means(text, S) PROVE text # None
BY FiltersAssumption DEF Means, Text

\* The clause for a part of a name, which either name may hold.
LEMMA NameClauseMeans ==
    ASSUME NEW fragment \in Value, attrs.name \in Names, attrs.cn \in Names
    PROVE  Means(_name_clause(fragment),
                 HoldingWithin(attrs.name, fragment) \cup HoldingWithin(attrs.cn, fragment))
<1> DEFINE c == contains(attrs.name, fragment)
           d == contains(attrs.cn, fragment)
           C == HoldingWithin(attrs.name, fragment)
           D == HoldingWithin(attrs.cn, fragment)
           cs == <<c, d>>
           S == <<C, D>>
<1>1. Means(c, C) /\ Means(d, D)
  BY ContainsMeans
<1>2. C \subseteq Entries /\ D \subseteq Entries
  BY DEF HoldingWithin
<1>3. _name_clause(fragment) = Joined("|", cs)
  BY DEF _name_clause, any_of
<1> HIDE DEF c, d, C, D
<1>4. /\ Len(cs) = 2 /\ DOMAIN cs = 1..2 /\ cs[1] = c /\ cs[2] = d /\ S[1] = C /\ S[2] = D
      /\ c \in Seq(Tokens) /\ d \in Seq(Tokens) /\ c # None /\ d # None
  BY <1>1, NoneIsNoFilter DEF Means
<1> HIDE DEF cs, S
<1>5. Parts(cs)
  <2>1. \A n \in 1..2 : n = 1 \/ n = 2
    OBVIOUS
  <2> QED
    BY <1>4, <2>1 DEF Parts
<1>6. \A n \in 1..Len(cs) : cs[n] # None => Means(cs[n], S[n])
  <2>1. \A n \in 1..2 : n = 1 \/ n = 2
    OBVIOUS
  <2> QED
    BY <1>1, <1>4, <2>1
<1>7. Given(cs) = {1, 2}
  <2>1. 1..2 = {1, 2}
    OBVIOUS
  <2> QED
    BY <1>4, <2>1 DEF Given
<1>8. Means(Joined("|", cs), Joining("|", {S[n] : n \in Given(cs)}))
  BY <1>5, <1>6, <1>7, JoinedMeans
<1>9. Joining("|", {S[n] : n \in Given(cs)}) = C \cup D
  <2>1. {S[n] : n \in Given(cs)} = {C, D}
    BY <1>4, <1>7
  <2> QED
    BY <2>1 DEF Joining
<1> QED
  BY <1>3, <1>8, <1>9, Zenon DEF C, D

\* Each clause of a call that is accepted means its criterion.
LEMMA ClausesMean ==
    ASSUME call \in Calls, Acceptable
    PROVE  /\ Parts(clauses) /\ Len(clauses) = 9 /\ clauses[9] = call.extra_filter
           /\ \A n \in 1..8 : clauses[n] # None => Means(clauses[n], Selections[n])
           /\ clauses[1] # None
           /\ clauses[2] # None <=> ~ call.include_disabled
           /\ clauses[3] # None <=> call.employee_id # None
           /\ clauses[4] # None <=> call.username # None
           /\ clauses[5] # None <=> call.name_contains # None
           /\ clauses[6] # None <=> call.cost_center # None
           /\ clauses[7] # None <=> call.manager_dn # None
           /\ clauses[8] # None <=> call.group_dn # None
<1>1. /\ call.employee_id = None \/ call.employee_id \in Value
      /\ call.username = None \/ call.username \in Value
      /\ call.name_contains = None \/ call.name_contains \in Value
      /\ call.cost_center = None \/ call.cost_center \in Value
      /\ call.manager_dn = None \/ call.manager_dn \in Value
      /\ call.group_dn = None \/ call.group_dn \in Value
      /\ call.extra_filter = None \/ call.extra_filter \in Seq(Tokens)
      /\ call.transitive \in BOOLEAN /\ call.include_disabled \in BOOLEAN
  BY FindUsersAssumption DEF Text
<1>2. AttributeNames \subseteq Names
  BY FiltersAssumption DEF Names
<1>3. /\ call.employee_id # None => attrs.employee_id \in Names
      /\ call.username # None => attrs.username \in Names
      /\ call.name_contains # None => attrs.name \in Names /\ attrs.cn \in Names
      /\ call.cost_center # None => attrs.cost_center \in Names
      /\ call.manager_dn # None => attrs.manager \in Names
      /\ call.group_dn # None => attrs.member_of \in Names
  <2> DEFINE ok(f) == attrs[f] \in AttributeNames
  <2>1. \A c \in DOMAIN Naming : call[c] # None => \A f \in Naming[c] : ok(f)
    BY DEF Acceptable, IsGiven, is_valid_attr
  <2>2. /\ DOMAIN Naming = {"employee_id", "username", "name_contains", "cost_center",
                            "manager_dn", "group_dn"}
        /\ Naming["employee_id"] = {"employee_id"} /\ Naming["username"] = {"username"}
        /\ Naming["name_contains"] = {"name", "cn"} /\ Naming["cost_center"] = {"cost_center"}
        /\ Naming["manager_dn"] = {"manager"} /\ Naming["group_dn"] = {"member_of"}
    BY DEF Naming
  <2> HIDE DEF ok
  <2>3. /\ call.employee_id # None => ok("employee_id")
        /\ call.username # None => ok("username")
        /\ call.name_contains # None => ok("name") /\ ok("cn")
        /\ call.cost_center # None => ok("cost_center")
        /\ call.manager_dn # None => ok("manager")
        /\ call.group_dn # None => ok("member_of")
    BY <2>1, <2>2
  <2> QED
    BY <1>2, <2>3 DEF ok
<1> DEFINE c1 == USER_OBJECT
           c2 == IF call.include_disabled THEN None ELSE NOT_DISABLED
           c3 == Clause(call.employee_id, eq(attrs.employee_id, call.employee_id))
           c4 == Clause(call.username, eq(attrs.username, call.username))
           c5 == Clause(call.name_contains, _name_clause(call.name_contains))
           c6 == Clause(call.cost_center, eq(attrs.cost_center, call.cost_center))
           c7 == Clause(call.manager_dn, eq_dn(attrs.manager, call.manager_dn))
           c8 == Clause(call.group_dn, _group_clause(call.group_dn, call.transitive))
           c9 == call.extra_filter
           S == Selections
<1>4. /\ clauses = <<c1, c2, c3, c4, c5, c6, c7, c8, c9>>
      /\ Len(clauses) = 9 /\ DOMAIN clauses = 1..9
      /\ clauses[1] = c1 /\ clauses[2] = c2 /\ clauses[3] = c3 /\ clauses[4] = c4
      /\ clauses[5] = c5 /\ clauses[6] = c6 /\ clauses[7] = c7 /\ clauses[8] = c8
      /\ clauses[9] = c9
  <2>1. clauses = <<c1, c2, c3, c4, c5, c6, c7, c8, c9>>
    BY DEF clauses
  <2> HIDE DEF c1, c2, c3, c4, c5, c6, c7, c8, c9
  <2> QED
    BY <2>1
<1>5. Means(c1, S[1]) /\ c1 # None
  <2>1. S[1] = People
    BY DEF Selections
  <2> QED
    BY <2>1, UserObjectMeans, NoneIsNoFilter
<1>6. /\ c2 # None => Means(c2, S[2])
      /\ c2 # None <=> ~ call.include_disabled
  <2>1. S[2] = Entries \ HoldingBit("userAccountControl", "2")
    BY DEF Selections
  <2>2. Means(NOT_DISABLED, S[2]) /\ NOT_DISABLED # None
    BY <2>1, NotDisabledMeans, NoneIsNoFilter
  <2> QED
    BY <2>2
<1>7. /\ c3 # None => Means(c3, S[3])
      /\ c3 # None <=> call.employee_id # None
  <2>1. S[3] = Holding(attrs.employee_id, call.employee_id)
    BY DEF Selections
  <2> QED
    BY <1>1, <1>3, <2>1, EqMeans, NoneIsNoFilter DEF Clause, IsGiven
<1>8. /\ c4 # None => Means(c4, S[4])
      /\ c4 # None <=> call.username # None
  <2>1. S[4] = Holding(attrs.username, call.username)
    BY DEF Selections
  <2> QED
    BY <1>1, <1>3, <2>1, EqMeans, NoneIsNoFilter DEF Clause, IsGiven
<1>9. /\ c5 # None => Means(c5, S[5])
      /\ c5 # None <=> call.name_contains # None
  <2>1. S[5] = HoldingWithin(attrs.name, call.name_contains)
                  \cup HoldingWithin(attrs.cn, call.name_contains)
    BY DEF Selections
  <2> QED
    BY <1>1, <1>3, <2>1, NameClauseMeans, NoneIsNoFilter DEF Clause, IsGiven
<1>10. /\ c6 # None => Means(c6, S[6])
       /\ c6 # None <=> call.cost_center # None
  <2>1. S[6] = Holding(attrs.cost_center, call.cost_center)
    BY DEF Selections
  <2> QED
    BY <1>1, <1>3, <2>1, EqMeans, NoneIsNoFilter DEF Clause, IsGiven
<1>11. /\ c7 # None => Means(c7, S[7])
       /\ c7 # None <=> call.manager_dn # None
  <2>1. S[7] = Holding(attrs.manager, call.manager_dn)
    BY DEF Selections
  <2> QED
    BY <1>1, <1>3, <2>1, EqMeans, NoneIsNoFilter DEF Clause, IsGiven, eq_dn
<1>12. /\ c8 # None => Means(c8, S[8])
       /\ c8 # None <=> call.group_dn # None
  <2>1. S[8] = IF call.transitive THEN Reaching(call.group_dn)
               ELSE Holding(attrs.member_of, call.group_dn)
    BY DEF Selections
  <2>2. call.group_dn # None => Means(_group_clause(call.group_dn, call.transitive), S[8])
    <3>1. SUFFICES ASSUME call.group_dn # None
                   PROVE  Means(_group_clause(call.group_dn, call.transitive), S[8])
      OBVIOUS
    <3>2. CASE call.transitive
      BY <1>1, <1>3, <2>1, <3>1, <3>2, InChainMeans DEF _group_clause
    <3>3. CASE ~ call.transitive
      BY <1>1, <1>3, <2>1, <3>1, <3>3, EqMeans DEF _group_clause, eq_dn
    <3> QED
      BY <3>2, <3>3
  <2> QED
    BY <2>2, NoneIsNoFilter DEF Clause, IsGiven
<1> HIDE DEF c1, c2, c3, c4, c5, c6, c7, c8, S
<1>13. ASSUME NEW n \in 1..8, clauses[n] # None PROVE Means(clauses[n], S[n])
  <2>1. n \in {1, 2, 3, 4, 5, 6, 7, 8}
    OBVIOUS
  <2> QED
    BY <1>4, <1>5, <1>6, <1>7, <1>8, <1>9, <1>10, <1>11, <1>12, <1>13, <2>1, Zenon
<1>14. Parts(clauses)
  <2>1. ASSUME NEW n \in 1..9 PROVE clauses[n] = None \/ clauses[n] \in Seq(Tokens)
    <3>1. n = 9 \/ n \in 1..8
      OBVIOUS
    <3> QED
      BY <1>1, <1>4, <1>13, <3>1 DEF Means
  <2> QED
    BY <1>4, <2>1 DEF Parts
<1> QED
  BY <1>4, <1>5, <1>6, <1>7, <1>8, <1>9, <1>10, <1>11, <1>12, <1>13, <1>14 DEF S

\* What the filter of a call selects: the entries that meet its criteria.
Meeting(e) == \A n \in Given(clauses) : e \in Selections[n]

\* With a fragment that is a filter, or none, the filter of a call is one.
LEMMA CallSelects ==
    ASSUME call \in Calls, Acceptable,
           call.extra_filter # None => Readable(call.extra_filter)
    PROVE  Means(all_of(clauses), {e \in Entries : Meeting(e)})
<1> DEFINE cs == clauses
           S == Selections
<1>1. /\ Parts(cs) /\ Len(cs) = 9 /\ cs[9] = call.extra_filter
      /\ \A n \in 1..8 : cs[n] # None => Means(cs[n], S[n])
      /\ cs[1] # None
  BY ClausesMean
<1>2. cs[9] # None => Means(cs[9], S[9])
  <2>1. call.extra_filter # None => call.extra_filter \in Seq(Tokens)
    BY FindUsersAssumption DEF Text
  <2>2. S[9] = Selected(call.extra_filter)
    BY DEF Selections
  <2> QED
    BY <1>1, <2>1, <2>2, ReadableMeans
<1> HIDE DEF cs, S
<1>3. \A n \in 1..Len(cs) : cs[n] # None => Means(cs[n], S[n])
  <2>1. \A n \in 1..9 : n = 9 \/ n \in 1..8
    OBVIOUS
  <2> QED
    BY <1>1, <1>2, <2>1
<1>4. 1 \in Given(cs)
  BY <1>1 DEF Given, Parts
<1>5. Means(Joined("&", cs), Joining("&", {S[n] : n \in Given(cs)}))
  BY <1>1, <1>3, <1>4, JoinedMeans, ZenonT(40)
<1>6. Joining("&", {S[n] : n \in Given(cs)}) = {e \in Entries : \A n \in Given(cs) : e \in S[n]}
  BY DEF Joining
<1> QED
  BY <1>5, <1>6, Zenon DEF all_of, cs, S, Meeting

\* With a fragment that is none, the filter of a call is none.
LEMMA CallUnread ==
    ASSUME call \in Calls, Acceptable, call.extra_filter # None,
           Readable(all_of(clauses))
    PROVE  Readable(call.extra_filter)
<1> DEFINE cs == clauses
           S == Selections
           B == Behind(cs)[Len(cs)]
           T == <<"(", "&">> \o B \o <<")">>
           fragment == call.extra_filter
<1>1. /\ Parts(cs) /\ Len(cs) = 9 /\ cs[9] = fragment
      /\ \A n \in 1..8 : cs[n] # None => Means(cs[n], S[n])
      /\ cs[1] # None
  BY ClausesMean
<1>2. fragment # None /\ valid_fragment(fragment)
  BY DEF Acceptable
<1> HIDE DEF cs, S, fragment
<1>3. Cardinality(Given(cs)) # 1
  <2>1. 1 \in Given(cs) /\ 9 \in Given(cs)
    BY <1>1, <1>2 DEF Given, Parts
  <2>2. IsFiniteSet(Given(cs))
    <3>1. Given(cs) \subseteq 1..9
      BY <1>1 DEF Given, Parts
    <3>2. IsFiniteSet(1..9)
      <4>1. 1 \in Int /\ 9 \in Int
        OBVIOUS
      <4> QED
        BY <4>1, FS_Interval, Zenon
    <3> QED
      BY <3>1, <3>2, FS_Subset
  <2>3. SUFFICES ASSUME Cardinality(Given(cs)) = 1 PROVE FALSE
    OBVIOUS
  <2>4. PICK x : Given(cs) = {x}
    BY <2>2, <2>3, FS_Singleton
  <2> QED
    BY <2>1, <2>4
<1>4. Joined("&", cs) = T
  BY <1>3, Zenon DEF Joined
<1>5. Encloses(T, "&", cs)
  BY DEF Encloses
<1> HIDE DEF T, B
<1>6. ReadClause(T, 1).next = Len(T) + 1
  <2>1. Readable(T)
    BY <1>4, Zenon DEF all_of, cs
  <2> QED
    BY <2>1 DEF Readable, ReadClause
<1>7. \A n \in 1..(Len(cs) - 1) : cs[n] # None => Means(cs[n], S[n])
  <2>1. Len(cs) - 1 = 8
    BY <1>1
  <2> QED
    BY <1>1, <2>1
<1>8. fragment = cs[Len(cs)] /\ Len(cs) >= 1
  BY <1>1
<1> DEFINE op == "&"
<1>9. op \in {"&", "|"} /\ Encloses(T, op, cs)
  BY <1>5
<1> HIDE DEF op
<1>10. Readable(fragment)
  BY <1>1, <1>2, <1>6, <1>7, <1>8, <1>9, FragmentLast
<1> QED
  BY <1>10 DEF fragment

\* The entries that meet the criteria of a call are those it wants.
LEMMA MeetingIsWanted ==
    ASSUME call \in Calls, Acceptable, NEW e \in Entries
    PROVE  Wanted(e) <=> /\ Meeting(e)
                         /\ (IF call.base_dn = None THEN base_dn ELSE call.base_dn) \in e.under
<1> DEFINE G(n) == clauses[n] # None => e \in Selections[n]
<1>1. Meeting(e) <=> G(1) /\ G(2) /\ G(3) /\ G(4) /\ G(5) /\ G(6) /\ G(7) /\ G(8) /\ G(9)
  <2>1. Given(clauses) = {n \in 1..9 : clauses[n] # None}
    BY ClausesMean DEF Given, Parts
  <2>2. 1..9 = {1, 2, 3, 4, 5, 6, 7, 8, 9}
    OBVIOUS
  <2>3. Meeting(e) <=> \A n \in {1, 2, 3, 4, 5, 6, 7, 8, 9} : G(n)
    BY <2>1, <2>2, ZenonT(60) DEF Meeting
  <2> HIDE DEF G
  <2> QED
    BY <2>3
<1> DEFINE has(argument, f) == argument = None \/ argument \in Range(Values(e, attrs[f]))
<1>2. G(1) <=> /\ <<"person">> \in Range(Values(e, "objectCategory"))
               /\ <<"user">> \in Range(Values(e, "objectClass"))
  BY ClausesMean DEF Selections, People, Holding
<1>3. G(2) <=> call.include_disabled \/ \A v \in Range(Values(e, "userAccountControl")) :
                                            "2" \notin Range(v)
  BY ClausesMean DEF Selections, HoldingBit
<1>4. G(3) <=> has(call.employee_id, "employee_id")
  BY ClausesMean DEF Selections, Holding
<1>5. G(4) <=> has(call.username, "username")
  BY ClausesMean DEF Selections, Holding
<1>6. G(5) <=> \/ call.name_contains = None
               \/ \E f \in {"name", "cn"} : \E v \in Range(Values(e, attrs[f])) :
                     Within(call.name_contains, v)
  BY ClausesMean DEF Selections, HoldingWithin
<1>7. G(6) <=> has(call.cost_center, "cost_center")
  BY ClausesMean DEF Selections, Holding
<1>8. G(7) <=> has(call.manager_dn, "manager")
  BY ClausesMean DEF Selections, Holding
<1>9. G(8) <=> IF call.transitive THEN call.group_dn = None \/ call.group_dn \in e.chain
               ELSE has(call.group_dn, "member_of")
  BY ClausesMean DEF Selections, Holding, Reaching
<1>10. G(9) <=> call.extra_filter = None \/ e \in Selected(call.extra_filter)
  BY ClausesMean DEF Selections
<1> HIDE DEF G, has
<1> QED
  BY <1>1, <1>2, <1>3, <1>4, <1>5, <1>6, <1>7, <1>8, <1>9, <1>10, Zenon DEF Wanted, has

-----------------------------------------------------------------------------
(* The states of find_users *)

\* What was sent is what the call asks for.
Sent == /\ Acceptable
        /\ request = [base       |-> IF call.base_dn = None THEN base_dn ELSE call.base_dn,
                      text       |-> all_of(clauses),
                      attributes |-> _requested_attributes(call.attributes)]

\* The users are those the answer to it describes.
Described == \E blanks \in BOOLEAN :
                users = {to_user(Project(e, blanks)) : e \in
                           {e \in Selected(request.text) : request.base \in e.under}}

FInv == /\ call \in Calls
        /\ status \in {"called", "asked", "returned", "refused"}
        /\ request # Nothing => Sent
        /\ status \in {"asked", "returned"} => Sent
        /\ status = "called" => request = Nothing
        /\ IF status = "returned" THEN Readable(request.text) /\ Described ELSE users = {}

\* What the directory makes of it.
LEMMA RequestRead ==
    ASSUME call \in Calls, Sent
    PROVE  /\ Readable(request.text)
                <=> (call.extra_filter # None => Readable(call.extra_filter))
           /\ Readable(request.text) => Selected(request.text) = {e \in Entries : Meeting(e)}
<1>1. Acceptable /\ request.text = all_of(clauses)
  BY DEF Sent
<1>2. ASSUME call.extra_filter # None => Readable(call.extra_filter)
      PROVE  Readable(request.text) /\ Selected(request.text) = {e \in Entries : Meeting(e)}
  <2>1. Means(all_of(clauses), {e \in Entries : Meeting(e)})
    BY <1>1, <1>2, CallSelects
  <2>2. all_of(clauses) \in Seq(Tokens)
    BY <2>1 DEF Means
  <2> QED
    BY <1>1, <2>1, <2>2, ReadableMeans
<1>3. ASSUME Readable(request.text), call.extra_filter # None
      PROVE  Readable(call.extra_filter)
  BY <1>1, <1>3, CallUnread
<1> QED
  BY <1>2, <1>3, Zenon

\* It holds in every state.
LEMMA FInvInductive == Spec => []FInv
<1>1. Init => FInv
  BY DEF Init, FInv
<1>2. ASSUME FInv, [Next]_vars PROVE FInv'
  <2> USE <1>2
  <2>1. CASE Ask
    <3>1. /\ status = "called" /\ Acceptable /\ status' = "asked" /\ call' = call /\ users' = users
          /\ request' = [base       |-> IF call.base_dn = None THEN base_dn ELSE call.base_dn,
                         text       |-> all_of(clauses),
                         attributes |-> _requested_attributes(call.attributes)]
      BY <2>1 DEF Ask
    <3>2. Acceptable' <=> Acceptable
      BY <3>1, Zenon DEF Acceptable
    <3>3. clauses' = clauses
      BY <3>1, Zenon DEF clauses
    <3>4. Sent'
      BY <3>1, <3>2, <3>3, Zenon DEF Sent
    <3>5. users = {} /\ call \in Calls
      BY <3>1, Zenon DEF FInv
    <3> QED
      BY <3>1, <3>4, <3>5, Zenon DEF FInv
  <2>2. CASE Refuse
    BY <2>2 DEF Refuse, FInv, Sent, Acceptable, clauses
  <2>3. CASE Answer
    <3>1. /\ status = "asked" /\ status' = "returned" /\ call' = call /\ request' = request
          /\ Readable(request.text)
      BY <2>3 DEF Answer
    <3>2. Sent
      BY <3>1 DEF FInv
    <3>3. Sent'
      BY <3>1, <3>2 DEF Sent, Acceptable, clauses
    <3>4. PICK blanks \in BOOLEAN :
             users' = {to_user(Project(e, blanks)) : e \in
                         {e \in Selected(request.text) : request.base \in e.under}}
      BY <2>3 DEF Answer
    <3>5. users' = {to_user(Project(e, blanks))' : e \in
                      {e \in Selected(request'.text) : request'.base \in e.under}}
      BY <3>1, <3>4, ZenonT(40) DEF Project, to_user
    <3>6. Described'
      BY <3>5, Zenon DEF Described, to_user, Project
    <3> QED
      BY <3>1, <3>3, <3>6 DEF FInv
  <2>4. CASE RejectFilter
    BY <2>4 DEF RejectFilter, FInv, Sent, Acceptable, clauses
  <2>5. CASE UNCHANGED vars
    <3>1. call' = call /\ status' = status /\ request' = request /\ users' = users
      BY <2>5 DEF vars
    <3>2. Sent' <=> Sent
      BY <3>1 DEF Sent, Acceptable, clauses
    <3>3. Described' <=> Described
      BY <3>1 DEF Described, Project, to_user
    <3> QED
      BY <3>1, <3>2, <3>3 DEF FInv
  <2> QED
    BY <2>1, <2>2, <2>3, <2>4, <2>5 DEF Next
<1> QED
  BY <1>1, <1>2, PTL DEF Spec

\* The search base and the attributes that find_users sends are its caller's or the
\* configuration's, and checked when they are the caller's; a user is an entry.
THEOREM FindUsersTypeCorrect == Spec => []TypeOK
<1>1. FInv => TypeOK
  <2> SUFFICES ASSUME FInv PROVE TypeOK
    OBVIOUS
  <2>1. CASE request = Nothing
    <3>1. request.base = None /\ request.attributes = {}
      BY <2>1 DEF Nothing
    <3>2. users = {}
      <4>1. status # "returned" \/ Sent
        BY DEF FInv
      <4>2. Sent => request.attributes = _requested_attributes(call.attributes)
        BY DEF Sent
      <4>3. "name" \in Fields
        BY DEF Fields
      <4>4. attrs["name"] \in _requested_attributes(call.attributes)
        BY <4>3 DEF _requested_attributes, fetch_attributes
      <4> QED
        BY <3>1, <4>1, <4>2, <4>4 DEF FInv
    <3> QED
      BY <3>1, <3>2 DEF TypeOK, FInv
  <2>2. CASE request # Nothing
    <3>1. Sent
      BY <2>2 DEF FInv
    <3>2. request.base \in DNs \cup {None, base_dn}
      BY <3>1 DEF Sent, Acceptable, DNAcceptable, is_dn
    <3>3. request.attributes \subseteq AttributeNames \cup fetch_attributes
      BY <3>1 DEF Sent, Acceptable, _requested_attributes, is_valid_attr
    <3>4. \A u \in users : u.dn \in {e.dn : e \in Entries}
      <4>1. CASE status # "returned"
        BY <4>1 DEF FInv
      <4>2. CASE status = "returned"
        <5>1. PICK blanks \in BOOLEAN :
                users = {to_user(Project(e, blanks)) : e \in
                           {e \in Selected(request.text) : request.base \in e.under}}
          BY <4>2 DEF FInv, Described
        <5>2. Selected(request.text) \subseteq Entries
          <6>1. call \in Calls /\ Readable(request.text)
            BY <4>2 DEF FInv
          <6>2. Selected(request.text) = {e \in Entries : Meeting(e)}
            BY <3>1, <6>1, RequestRead
          <6> QED
            BY <6>2
        <5>3. \A e : to_user(Project(e, blanks)).dn = e.dn
          BY DEF to_user, Project
        <5> QED
          BY <5>1, <5>2, <5>3
      <4> QED
        BY <4>1, <4>2
    <3> QED
      BY <3>2, <3>3, <3>4 DEF TypeOK, FInv
  <2> QED
    BY <2>1, <2>2
<1> QED
  BY <1>1, FInvInductive, PTL

\* The query find_users sends can be read exactly when the caller's own filter can, and
\* always when there is none: the fragment stands in it as the one clause it is.
THEOREM FragmentsStandAlone == Spec => []FragmentStandsAlone
<1>1. FInv => FragmentStandsAlone
  <2> SUFFICES ASSUME FInv, request # Nothing
               PROVE  Readable(request.text)
                        <=> (call.extra_filter # None => Readable(call.extra_filter))
    BY DEF FragmentStandsAlone
  <2>1. Sent
    BY DEF FInv
  <2> QED
    BY <2>1, RequestRead DEF FInv
<1> QED
  BY <1>1, FInvInductive, PTL

\* find_users returns exactly the entries that meet every criterion given, taken
\* literally, whatever the values hold.
THEOREM FindsTheWanted == Spec => []ReturnsTheWanted
<1>1. FInv => ReturnsTheWanted
  <2> SUFFICES ASSUME FInv, status = "returned"
               PROVE  {u.dn : u \in users} = {e.dn : e \in {e \in Entries : Wanted(e)}}
    BY DEF ReturnsTheWanted
  <2>1. Sent /\ Readable(request.text) /\ call \in Calls
    BY DEF FInv
  <2>2. PICK blanks \in BOOLEAN :
          users = {to_user(Project(e, blanks)) : e \in
                     {e \in Selected(request.text) : request.base \in e.under}}
    BY DEF FInv, Described
  <2>3. Selected(request.text) = {e \in Entries : Meeting(e)}
    BY <2>1, RequestRead
  <2>4. request.base = IF call.base_dn = None THEN base_dn ELSE call.base_dn
    BY <2>1 DEF Sent
  <2>5. {e \in Selected(request.text) : request.base \in e.under}
          = {e \in Entries : Wanted(e)}
    <3>1. Acceptable
      BY <2>1 DEF Sent
    <3>2. \A e \in Entries : Wanted(e) <=> Meeting(e) /\ request.base \in e.under
      BY <2>1, <2>4, <3>1, MeetingIsWanted, Zenon
    <3> QED
      BY <2>3, <3>2, Zenon
  <2>6. \A e : to_user(Project(e, blanks)).dn = e.dn
    BY DEF to_user, Project
  <2>7. users = {to_user(Project(e, blanks)) : e \in {e \in Entries : Wanted(e)}}
    BY <2>2, <2>5, Zenon
  <2> QED
    BY <2>6, <2>7
<1> QED
  BY <1>1, FInvInductive, PTL

\* Every field of a user is what its entry holds, and no user is without a name.
THEOREM UsersAreFaithful == Spec => []FieldsFaithful
<1>1. FInv => FieldsFaithful
  <2> SUFFICES ASSUME FInv, NEW u \in users
               PROVE  \E e \in Entries :
                        LET held(f) == _first(Values(e, attrs[f])) IN
                        /\ u.dn = e.dn
                        /\ u.employee_id = held("employee_id")
                        /\ u.username = held("username")
                        /\ u.email = held("mail")
                        /\ u.name \notin {None, <<>>}
                        /\ u.name \in {held("name"), held("cn"), e.dn}
                        /\ u.name # held("name") => held("name") \in {None, <<>>}
                        /\ u.name \notin {held("name"), held("cn")} => held("cn") \in {None, <<>>}
                        /\ call.attributes # None =>
                              \A n \in call.attributes : Values(e, n) # <<>> =>
                                 n \in DOMAIN u.attributes /\ u.attributes[n] = Values(e, n)
    BY DEF FieldsFaithful
  <2>1. status = "returned" /\ Sent /\ Readable(request.text) /\ Described
    BY DEF FInv
  <2>2. PICK blanks \in BOOLEAN :
          users = {to_user(Project(e, blanks)) : e \in
                     {e \in Selected(request.text) : request.base \in e.under}}
    BY <2>1 DEF Described
  <2>3. Selected(request.text) \subseteq Entries
    BY <2>1, RequestRead DEF FInv
  <2>4. PICK e \in Entries : u = to_user(Project(e, blanks))
    BY <2>2, <2>3
  <2> DEFINE held(f) == _first(Values(e, attrs[f]))
             sent == {n \in request.attributes : blanks \/ Values(e, n) # <<>>}
             P == Project(e, blanks)
             field(f) == get(P.attributes, attrs[f])
  <2>5. /\ P.dn = e.dn /\ DOMAIN P.attributes = sent
        /\ \A n \in sent : P.attributes[n] = Values(e, n)
    BY DEF Project
  <2>6. request.attributes = fetch_attributes
                               \cup (IF call.attributes = None THEN {} ELSE call.attributes)
    BY <2>1 DEF Sent, _requested_attributes
  <2> HIDE DEF P
  <2>7. ASSUME NEW f \in Fields PROVE field(f) = held(f)
    <3>1. attrs[f] \in request.attributes
      BY <2>6 DEF fetch_attributes
    <3>2. CASE attrs[f] \in sent
      BY <2>5, <3>2 DEF get
    <3>3. CASE attrs[f] \notin sent
      <4>1. Values(e, attrs[f]) = <<>>
        BY <3>1, <3>3
      <4>2. held(f) = None
        BY <4>1, Zenon DEF _first
      <4> QED
        BY <2>5, <3>3, <4>2 DEF get
    <3> QED
      BY <3>2, <3>3
  <2> HIDE DEF field, held
  <2>8. {"name", "cn", "employee_id", "username", "mail"} \subseteq Fields
    BY DEF Fields
  <2>9. /\ u.dn = P.dn
        /\ u.name = FirstOf(<<field("name"), field("cn"), P.dn>>)
        /\ u.employee_id = field("employee_id")
        /\ u.username = field("username")
        /\ u.email = field("mail")
        /\ u.attributes = P.attributes
    BY <2>4 DEF to_user, field, P
  <2>10. /\ u.dn = e.dn /\ u.employee_id = held("employee_id")
         /\ u.username = held("username") /\ u.email = held("mail")
         /\ u.name = FirstOf(<<held("name"), held("cn"), e.dn>>)
    BY <2>5, <2>7, <2>8, <2>9
  <2>11. /\ u.name \notin {None, <<>>}
         /\ u.name \in {held("name"), held("cn"), e.dn}
         /\ u.name # held("name") => held("name") \in {None, <<>>}
         /\ u.name \notin {held("name"), held("cn")} => held("cn") \in {None, <<>>}
    <3>1. e.dn \notin {None, <<>>}
      BY FindUsersAssumption
    <3>2. u.name = IF held("name") \notin {None, <<>>} THEN held("name")
                   ELSE IF held("cn") \notin {None, <<>>} THEN held("cn") ELSE e.dn
      BY <2>10 DEF FirstOf
    <3> QED
      BY <3>1, <3>2, Zenon
  <2>12. ASSUME call.attributes # None, NEW n \in call.attributes, Values(e, n) # <<>>
         PROVE  n \in DOMAIN u.attributes /\ u.attributes[n] = Values(e, n)
    <3>1. n \in sent
      BY <2>6, <2>12
    <3> QED
      BY <2>5, <2>9, <3>1
  <2> QED
    BY <2>10, <2>11, <2>12, Zenon DEF held
<1> QED
  BY <1>1, FInvInductive, PTL

-----------------------------------------------------------------------------
(* Tables *)

\* Max of a set of numbers that has a bound and is not empty is its greatest element.
LEMMA Greatest ==
    ASSUME NEW S, S \subseteq Nat, S # {}, NEW m \in Nat, \A n \in S : n <= m
    PROVE  Max(S) \in S /\ \A n \in S : n <= Max(S)
<1> DEFINE R == {m - n : n \in S}
<1>1. R \subseteq Nat
  OBVIOUS
<1>2. R # {}
  OBVIOUS
<1>3. Min(R) \in R /\ \A r \in R : Min(R) <= r
  <2> HIDE DEF R
  <2> QED
    BY <1>1, <1>2, Least
<1>4. PICK g \in S : Min(R) = m - g
  BY <1>3
<1>5. ASSUME NEW n \in S PROVE g >= n
  <2>1. m - n \in R
    OBVIOUS
  <2> HIDE DEF R
  <2>2. m - g <= m - n
    BY <1>3, <1>4, <2>1
  <2> QED
    BY <2>2
<1>6. Max(S) \in S /\ \A y \in S : Max(S) >= y
  BY <1>5 DEF Max
<1> QED
  BY <1>6

\* What lines are made of.
Chars == Tokens \cup {Blank, "-"}

\* The text is blank behind its p-th character, which is none.
EndsAt(text, p) == /\ p \in 0..Len(text)
                   /\ \A i \in (p + 1)..Len(text) : text[i] = Blank
                   /\ p # 0 => text[p] # Blank

\* rstrip cuts a text behind its last character that is no blank.
LEMMA Stripped ==
    ASSUME NEW text \in Seq(Chars)
    PROVE  \E p : EndsAt(text, p) /\ rstrip(text) = SubSeq(text, 1, p)
<1> DEFINE S == {0} \cup {i \in DOMAIN text : text[i] # Blank}
           p == Max(S)
<1>1. Len(text) \in Nat /\ DOMAIN text = 1..Len(text)
  OBVIOUS
<1>2. S \subseteq Nat /\ S # {} /\ \A n \in S : n <= Len(text)
  BY <1>1
<1>3. p \in S /\ \A n \in S : n <= p
  <2> HIDE DEF S
  <2> QED
    BY <1>1, <1>2, Greatest
<1>4. rstrip(text) = SubSeq(text, 1, p)
  BY DEF rstrip
<1>5. EndsAt(text, p)
  <2> HIDE DEF p
  <2>1. p \in 0..Len(text)
    BY <1>1, <1>3
  <2>2. ASSUME NEW i \in (p + 1)..Len(text) PROVE text[i] = Blank
    <3>1. i \in 1..Len(text) /\ ~ (i <= p)
      BY <1>1, <2>1
    <3> QED
      BY <1>1, <1>3, <3>1
  <2>3. p # 0 => text[p] # Blank
    BY <1>3
  <2> QED
    BY <2>1, <2>2, <2>3 DEF EndsAt
<1> QED
  BY <1>4, <1>5

\* A text ends in one place only.
LEMMA StripIs ==
    ASSUME NEW text \in Seq(Chars), NEW p, EndsAt(text, p)
    PROVE  rstrip(text) = SubSeq(text, 1, p)
<1>1. PICK q : EndsAt(text, q) /\ rstrip(text) = SubSeq(text, 1, q)
  BY Stripped
<1>2. Len(text) \in Nat
  OBVIOUS
<1>3. p = q
  BY <1>1, <1>2 DEF EndsAt
<1> QED
  BY <1>1, <1>3

\* The cell stands in the line from s on, padded to the width w, and the line is blank
\* behind p; q is the column's end or the line's, whichever comes first.
ShowsCell(line, cell, s, w, p, q) ==
    /\ s \in Nat \ {0} /\ w \in Nat /\ Len(cell) <= w /\ (s + w) - 1 <= Len(line)
    /\ \A j \in 1..w : line[(s + j) - 1] = IF j <= Len(cell) THEN cell[j] ELSE Blank
    /\ p \in 0..Len(line) /\ \A i \in (p + 1)..Len(line) : line[i] = Blank
    /\ q = IF (s + w) - 1 <= p THEN (s + w) - 1 ELSE p

\* A column of a line that is cut behind its last character: stripped, it is the cell
\* that was padded to the width of the column, stripped.
LEMMA ColumnReadsBack ==
    ASSUME NEW line \in Seq(Chars), NEW cell \in Seq(Chars), NEW s, NEW w, NEW p, NEW q,
           ShowsCell(line, cell, s, w, p, q)
    PROVE  rstrip(SubSeq(SubSeq(line, 1, p), s, q)) = rstrip(cell)
<1>0. /\ s \in Nat \ {0} /\ w \in Nat /\ Len(cell) <= w /\ (s + w) - 1 <= Len(line)
      /\ \A j \in 1..w : line[(s + j) - 1] = IF j <= Len(cell) THEN cell[j] ELSE Blank
      /\ p \in 0..Len(line) /\ \A i \in (p + 1)..Len(line) : line[i] = Blank
      /\ q = IF (s + w) - 1 <= p THEN (s + w) - 1 ELSE p
  BY DEF ShowsCell
<1> USE <1>0
<1> DEFINE text == SubSeq(line, 1, p)
           part == SubSeq(text, s, q)
<1>1. Len(line) \in Nat /\ Len(cell) \in Nat /\ p \in Nat /\ q \in Nat /\ q <= p
  OBVIOUS
<1>2. text \in Seq(Chars) /\ Len(text) = p /\ \A i \in 1..p : text[i] = line[i]
  BY <1>1, SubSeqProperties
<1> HIDE DEF text
<1>3. /\ part \in Seq(Chars)
      /\ Len(part) = IF s <= q THEN (q - s) + 1 ELSE 0
      /\ \A j \in 1..Len(part) : part[j] = text[(s + j) - 1]
  <2>1. s \in Int /\ q \in Int /\ s \in Nat \ {0}
    BY <1>1
  <2>2. \A i \in s..q : text[i] \in Chars
    BY <1>1, <1>2
  <2>3. /\ part \in Seq(Chars)
        /\ Len(part) = IF s <= q THEN (q - s) + 1 ELSE 0
        /\ \A j \in 1..((q - s) + 1) : part[j] = text[(s + j) - 1]
    BY <2>1, <2>2, SubSeqProperties
  <2> HIDE DEF part
  <2>4. 1..Len(part) \subseteq 1..((q - s) + 1)
    BY <2>1, <2>3
  <2> QED
    BY <2>3, <2>4, Zenon
<1> HIDE DEF part
<1>4. PICK c : EndsAt(cell, c) /\ rstrip(cell) = SubSeq(cell, 1, c)
  BY Stripped
<1>5. c \in 0..Len(cell) /\ c \in Nat /\ c <= w
  BY <1>1, <1>4 DEF EndsAt
<1>6. ASSUME NEW j \in 1..Len(part)
      PROVE  j \in 1..w /\ part[j] = IF j <= Len(cell) THEN cell[j] ELSE Blank
  <2>1. s <= q /\ j <= (q - s) + 1
    BY <1>1, <1>3
  <2>2. j \in 1..w /\ (s + j) - 1 \in 1..p
    BY <1>1, <2>1
  <2> QED
    BY <1>2, <1>3, <2>2
<1>7. c <= Len(part)
  <2> SUFFICES ASSUME c # 0 PROVE c <= Len(part)
    BY <1>1, <1>3
  <2>1. line[(s + c) - 1] # Blank
    BY <1>4, <1>5 DEF EndsAt
  <2>2. (s + c) - 1 <= p
    <3> SUFFICES ASSUME ~ ((s + c) - 1 <= p) PROVE FALSE
      OBVIOUS
    <3>1. (s + c) - 1 \in (p + 1)..Len(line)
      BY <1>1, <1>5
    <3> QED
      BY <2>1, <3>1
  <2> QED
    BY <1>1, <1>3, <1>5, <2>2
<1>8. EndsAt(part, c)
  <2>1. ASSUME NEW j \in (c + 1)..Len(part) PROVE part[j] = Blank
    <3>1. j \in 1..Len(part) /\ j \in Nat /\ c + 1 <= j
      BY <1>1, <1>3, <1>5
    <3>2. j <= Len(cell) => cell[j] = Blank
      BY <1>1, <1>4, <1>5, <3>1 DEF EndsAt
    <3> QED
      BY <1>6, <3>1, <3>2
  <2>2. c # 0 => part[c] # Blank
    <3> SUFFICES ASSUME c # 0 PROVE part[c] # Blank
      OBVIOUS
    <3>1. c \in 1..Len(part) /\ c <= Len(cell)
      BY <1>1, <1>3, <1>5, <1>7
    <3> QED
      BY <1>4, <1>6, <3>1 DEF EndsAt
  <2>3. c \in 0..Len(part)
    BY <1>1, <1>3, <1>5, <1>7
  <2> QED
    BY <2>1, <2>2, <2>3 DEF EndsAt
<1>9. rstrip(part) = SubSeq(part, 1, c)
  BY <1>3, <1>8, StripIs
<1>10. SubSeq(part, 1, c) = SubSeq(cell, 1, c)
  <2>1. /\ SubSeq(part, 1, c) \in Seq(Chars) /\ Len(SubSeq(part, 1, c)) = c
        /\ SubSeq(cell, 1, c) \in Seq(Chars) /\ Len(SubSeq(cell, 1, c)) = c
        /\ \A j \in 1..c : SubSeq(part, 1, c)[j] = part[j] /\ SubSeq(cell, 1, c)[j] = cell[j]
    BY <1>1, <1>3, <1>5, <1>7, SubSeqProperties, SMTT(30)
  <2>2. \A j \in 1..c : part[j] = cell[j]
    BY <1>1, <1>3, <1>5, <1>6, <1>7, SMTT(30)
  <2> QED
    BY <2>1, <2>2, SeqEqual
<1> QED
  BY <1>4, <1>9, <1>10 DEF part, text

\* How many characters stand before the i-th of four columns of such widths.
Before(w, i) == CASE i = 1 -> 0
                  [] i = 2 -> w[1] + 2
                  [] i = 3 -> (w[1] + w[2]) + 4
                  [] i = 4 -> ((w[1] + w[2]) + w[3]) + 6

LEMMA BeforeIs ==
    ASSUME NEW w
    PROVE  /\ Before(w, 1) = 0 /\ Before(w, 2) = w[1] + 2
           /\ Before(w, 3) = (w[1] + w[2]) + 4 /\ Before(w, 4) = ((w[1] + w[2]) + w[3]) + 6
<1>1. Before(w, 1) = 0
  BY DEF Before
<1>2. Before(w, 2) = w[1] + 2
  BY DEF Before
<1>3. Before(w, 3) = (w[1] + w[2]) + 4
  BY DEF Before
<1>4. Before(w, 4) = ((w[1] + w[2]) + w[3]) + 6
  BY DEF Before
<1> QED
  BY <1>1, <1>2, <1>3, <1>4

\* The four parts of a line, one behind the other with two blanks between.
LEMMA JoinedOfFour ==
    ASSUME NEW cells, DOMAIN cells = 1..4, cells = [i \in 1..4 |-> cells[i]]
    PROVE  join(cells) = ((cells[1] \o (Blanks(2) \o cells[2])) \o (Blanks(2) \o cells[3]))
                            \o (Blanks(2) \o cells[4])
<1> DEFINE parts == [i \in DOMAIN cells |-> IF i = 1 THEN cells[i] ELSE Blanks(2) \o cells[i]]
           Eq(f) == f = [i \in 1..Len(parts) |-> IF i = 1 THEN parts[i] ELSE f[i - 1] \o parts[i]]
           g == [i \in 1..4 |-> IF i = 1 THEN parts[1]
                                 ELSE IF i = 2 THEN parts[1] \o parts[2]
                                 ELSE IF i = 3 THEN (parts[1] \o parts[2]) \o parts[3]
                                 ELSE ((parts[1] \o parts[2]) \o parts[3]) \o parts[4]]
<1>1. parts \in Seq({parts[1], parts[2], parts[3], parts[4]}) /\ Len(parts) = 4
  OBVIOUS
<1>2. /\ parts[1] = cells[1] /\ parts[2] = Blanks(2) \o cells[2]
      /\ parts[3] = Blanks(2) \o cells[3] /\ parts[4] = Blanks(2) \o cells[4]
  OBVIOUS
<1>3. join(cells) = FlattenSeq(parts)
  BY DEF join
<1> HIDE DEF parts
<1>4. Eq(g)
  BY <1>1
<1>5. FlattenSeq(parts) = (CHOOSE f : Eq(f))[4]
  BY <1>1 DEF FlattenSeq
<1> DEFINE f == CHOOSE f : Eq(f)
<1>6. Eq(f)
  <2> HIDE DEF Eq, g
  <2> QED
    BY <1>4
<1> HIDE DEF f, g
<1>7. f[4] = ((parts[1] \o parts[2]) \o parts[3]) \o parts[4]
  <2>1. \A i \in 1..4 : f[i] = IF i = 1 THEN parts[i] ELSE f[i - 1] \o parts[i]
    BY <1>1, <1>6
  <2>2. f[1] = parts[1]
    BY <2>1
  <2>3. f[2] = f[1] \o parts[2]
    BY <2>1, 2 \in 1..4, 2 # 1, 2 - 1 = 1, Zenon
  <2>4. f[3] = f[2] \o parts[3]
    BY <2>1, 3 \in 1..4, 3 # 1, 3 - 1 = 2, Zenon
  <2>5. f[4] = f[3] \o parts[4]
    BY <2>1, 4 \in 1..4, 4 # 1, 4 - 1 = 3, Zenon
  <2> QED
    BY <2>2, <2>3, <2>4, <2>5
<1> QED
  BY <1>2, <1>3, <1>5, <1>7 DEF f

\* The text t is a part c two blanks behind a.
Extends(t, a, c) == /\ t \in Seq(Chars) /\ Len(t) = (Len(a) + 2) + Len(c)
                    /\ \A j \in 1..Len(a) : t[j] = a[j]
                    /\ t[Len(a) + 1] = Blank /\ t[Len(a) + 2] = Blank
                    /\ \A j \in 1..Len(c) : t[(Len(a) + 2) + j] = c[j]

LEMMA Appended ==
    ASSUME NEW a \in Seq(Chars), NEW c \in Seq(Chars)
    PROVE  Extends(a \o (Blanks(2) \o c), a, c)
<1> DEFINE t == a \o (Blanks(2) \o c)
           b == Blanks(2)
           d == b \o c
<1>1. Blank \in Chars
  BY DEF Chars
<1>2. b \in Seq(Chars) /\ Len(b) = 2 /\ b[1] = Blank /\ b[2] = Blank
  BY <1>1 DEF Blanks
<1> HIDE DEF b
<1>3. /\ d \in Seq(Chars) /\ Len(d) = Len(b) + Len(c)
      /\ \A i \in 1..(Len(b) + Len(c)) : d[i] = IF i <= Len(b) THEN b[i] ELSE c[i - Len(b)]
  BY <1>2, ConcatProperties
<1> HIDE DEF d
<1>4. /\ t \in Seq(Chars) /\ Len(t) = Len(a) + Len(d)
      /\ \A i \in 1..(Len(a) + Len(d)) : t[i] = IF i <= Len(a) THEN a[i] ELSE d[i - Len(a)]
  BY <1>3, ConcatProperties DEF d, b
<1> HIDE DEF t
<1>5. Len(a) \in Nat /\ Len(c) \in Nat
  OBVIOUS
<1>6. Len(d) = 2 + Len(c) /\ Len(t) = (Len(a) + 2) + Len(c)
  BY <1>2, <1>3, <1>4, <1>5
<1>7. \A j \in 1..Len(a) : t[j] = a[j]
  BY <1>4, <1>5, <1>6
<1>8. ASSUME NEW k \in 1..Len(d) PROVE t[Len(a) + k] = d[k]
  <2>1. /\ Len(a) + k \in 1..(Len(a) + Len(d)) /\ ~ (Len(a) + k <= Len(a))
        /\ (Len(a) + k) - Len(a) = k
    BY <1>5, <1>6
  <2> QED
    BY <1>4, <2>1
<1>9. d[1] = Blank /\ d[2] = Blank /\ \A j \in 1..Len(c) : d[2 + j] = c[j]
  BY <1>2, <1>3, <1>5, <1>6
<1>10. t[Len(a) + 1] = Blank /\ t[Len(a) + 2] = Blank
  BY <1>5, <1>6, <1>8, <1>9
<1>11. ASSUME NEW j \in 1..Len(c) PROVE t[(Len(a) + 2) + j] = c[j]
  <2>1. 2 + j \in 1..Len(d) /\ Len(a) + (2 + j) = (Len(a) + 2) + j
    BY <1>5, <1>6
  <2> QED
    BY <1>8, <1>9, <2>1
<1> QED
  BY <1>4, <1>6, <1>7, <1>10, <1>11 DEF Extends, t

\* The line is four parts, of which these are the first two and three.
Composed(line, two, three, a, b, c, d) ==
    /\ line \in Seq(Chars) /\ Len(two) = (Len(a) + 2) + Len(b)
    /\ Len(three) = (Len(two) + 2) + Len(c) /\ Len(line) = (Len(three) + 2) + Len(d)
    /\ \A j \in 1..Len(a) : line[j] = a[j]
    /\ \A j \in 1..Len(b) : line[(Len(a) + 2) + j] = b[j]
    /\ \A j \in 1..Len(c) : line[(Len(two) + 2) + j] = c[j]
    /\ \A j \in 1..Len(d) : line[(Len(three) + 2) + j] = d[j]
    /\ line[Len(a) + 1] = Blank /\ line[Len(a) + 2] = Blank
    /\ line[Len(two) + 1] = Blank /\ line[Len(two) + 2] = Blank
    /\ line[Len(three) + 1] = Blank /\ line[Len(three) + 2] = Blank

LEMMA FourParts ==
    ASSUME NEW a \in Seq(Chars), NEW b \in Seq(Chars), NEW c \in Seq(Chars), NEW d \in Seq(Chars)
    PROVE  \A two, three, line :
              two = a \o (Blanks(2) \o b) /\ three = two \o (Blanks(2) \o c)
                 /\ line = three \o (Blanks(2) \o d) => Composed(line, two, three, a, b, c, d)
<1> SUFFICES ASSUME NEW two, NEW three, NEW line, two = a \o (Blanks(2) \o b),
                    three = two \o (Blanks(2) \o c), line = three \o (Blanks(2) \o d)
             PROVE  Composed(line, two, three, a, b, c, d)
  OBVIOUS
<1>1. /\ two \in Seq(Chars) /\ Len(two) = (Len(a) + 2) + Len(b)
      /\ \A j \in 1..Len(a) : two[j] = a[j]
      /\ two[Len(a) + 1] = Blank /\ two[Len(a) + 2] = Blank
      /\ \A j \in 1..Len(b) : two[(Len(a) + 2) + j] = b[j]
  <2>1. Extends(two, a, b)
    BY Appended, Zenon
  <2> QED
    BY <2>1, Zenon DEF Extends
<1>2. /\ three \in Seq(Chars) /\ Len(three) = (Len(two) + 2) + Len(c)
      /\ \A j \in 1..Len(two) : three[j] = two[j]
      /\ three[Len(two) + 1] = Blank /\ three[Len(two) + 2] = Blank
      /\ \A j \in 1..Len(c) : three[(Len(two) + 2) + j] = c[j]
  <2>1. Extends(three, two, c)
    BY <1>1, Appended, Zenon
  <2> QED
    BY <2>1, Zenon DEF Extends
<1>3. /\ line \in Seq(Chars) /\ Len(line) = (Len(three) + 2) + Len(d)
      /\ \A j \in 1..Len(three) : line[j] = three[j]
      /\ line[Len(three) + 1] = Blank /\ line[Len(three) + 2] = Blank
      /\ \A j \in 1..Len(d) : line[(Len(three) + 2) + j] = d[j]
  <2>1. Extends(line, three, d)
    BY <1>2, Appended, Zenon
  <2> QED
    BY <2>1, Zenon DEF Extends
<1>4. /\ Len(a) \in Nat /\ Len(b) \in Nat /\ Len(c) \in Nat /\ Len(d) \in Nat
      /\ Len(two) \in Nat /\ Len(three) \in Nat /\ Len(line) \in Nat
  BY <1>1, <1>2, <1>3, LenProperties, Zenon
<1>5. 1..Len(a) \subseteq 1..Len(two) /\ 1..Len(two) \subseteq 1..Len(three)
  BY <1>1, <1>2, <1>4, SMTT(30)
<1>6. \A j \in 1..Len(two) : line[j] = two[j]
  BY <1>2, <1>3, <1>5, Zenon
<1>7. \A j \in 1..Len(a) : line[j] = a[j]
  BY <1>1, <1>5, <1>6, Zenon
<1>8. ASSUME NEW j \in 1..Len(b) PROVE line[(Len(a) + 2) + j] = b[j]
  <2>1. (Len(a) + 2) + j \in 1..Len(two)
    BY <1>1, <1>4, SMTT(30)
  <2> QED
    BY <1>1, <1>6, <2>1, Zenon
<1>9. ASSUME NEW j \in 1..Len(c) PROVE line[(Len(two) + 2) + j] = c[j]
  <2>1. (Len(two) + 2) + j \in 1..Len(three)
    BY <1>2, <1>4, SMTT(30)
  <2> QED
    BY <1>2, <1>3, <2>1, ZenonT(40)
<1>10. line[Len(a) + 1] = Blank /\ line[Len(a) + 2] = Blank
  <2>1. Len(a) + 1 \in 1..Len(two) /\ Len(a) + 2 \in 1..Len(two)
    BY <1>1, <1>4
  <2> QED
    BY <1>1, <1>6, <2>1, Zenon
<1>11. line[Len(two) + 1] = Blank /\ line[Len(two) + 2] = Blank
  <2>1. Len(two) + 1 \in 1..Len(three) /\ Len(two) + 2 \in 1..Len(three)
    BY <1>2, <1>4
  <2> QED
    BY <1>2, <1>3, <2>1, Zenon
<1> QED
  BY <1>1, <1>2, <1>3, <1>7, <1>8, <1>9, <1>10, <1>11, Zenon DEF Composed

\* Four texts, as long as that.
FourCells(cells, w) == /\ DOMAIN cells = 1..4 /\ cells = [i \in 1..4 |-> cells[i]]
                       /\ \A i \in 1..4 : cells[i] \in Seq(Chars) /\ w[i] = Len(cells[i])

\* A line of four columns: the i-th stands behind Before, and two blanks before each
\* but the first.
HasColumns(line, cells, w) ==
    /\ line \in Seq(Chars) /\ Len(line) = Before(w, 4) + w[4]
    /\ \A i \in 1..4 : \A j \in 1..w[i] : line[Before(w, i) + j] = cells[i][j]
    /\ \A i \in 2..4 : line[Before(w, i) - 1] = Blank /\ line[Before(w, i)] = Blank

LEMMA FourColumns ==
    \A cells, w : FourCells(cells, w) => HasColumns(join(cells), cells, w)
<1> SUFFICES ASSUME NEW cells, NEW w, FourCells(cells, w)
             PROVE  HasColumns(join(cells), cells, w)
  OBVIOUS
<1>0. /\ DOMAIN cells = 1..4 /\ cells = [i \in 1..4 |-> cells[i]]
      /\ \A i \in 1..4 : cells[i] \in Seq(Chars) /\ w[i] = Len(cells[i])
  BY DEF FourCells
<1> DEFINE a == cells[1]
           b == cells[2]
           c == cells[3]
           d == cells[4]
           two == a \o (Blanks(2) \o b)
           three == two \o (Blanks(2) \o c)
           line == three \o (Blanks(2) \o d)
<1>1. a \in Seq(Chars) /\ b \in Seq(Chars) /\ c \in Seq(Chars) /\ d \in Seq(Chars)
  BY <1>0
<1>2. join(cells) = line
  BY <1>0, JoinedOfFour
<1>3. w[1] = Len(a) /\ w[2] = Len(b) /\ w[3] = Len(c) /\ w[4] = Len(d)
  BY <1>0
<1>4. Composed(line, two, three, a, b, c, d)
  <2>1. two = a \o (Blanks(2) \o b) /\ three = two \o (Blanks(2) \o c)
           /\ line = three \o (Blanks(2) \o d)
    OBVIOUS
  <2> HIDE DEF a, b, c, d, two, three, line
  <2> QED
    BY <1>1, <2>1, FourParts, Zenon
<1>5. cells[1] = a /\ cells[2] = b /\ cells[3] = c /\ cells[4] = d
  OBVIOUS
<1> HIDE DEF a, b, c, d, two, three, line
<1>6. Len(a) \in Nat /\ Len(b) \in Nat /\ Len(c) \in Nat /\ Len(d) \in Nat
  BY <1>1
<1>7. /\ Before(w, 1) = 0 /\ Before(w, 2) = Len(a) + 2
      /\ Before(w, 3) = Len(two) + 2 /\ Before(w, 4) = Len(three) + 2
  <2>1. Len(two) = (Len(a) + 2) + Len(b) /\ Len(three) = (Len(two) + 2) + Len(c)
    BY <1>4, Zenon DEF Composed
  <2>2. /\ Before(w, 1) = 0 /\ Before(w, 2) = Len(a) + 2
        /\ Before(w, 3) = (Len(a) + Len(b)) + 4
        /\ Before(w, 4) = ((Len(a) + Len(b)) + Len(c)) + 6
    BY <1>3, BeforeIs, Zenon
  <2>3. /\ Len(two) + 2 = (Len(a) + Len(b)) + 4
        /\ Len(three) + 2 = ((Len(a) + Len(b)) + Len(c)) + 6
    BY <1>6, <2>1
  <2> QED
    BY <2>2, <2>3, Zenon
<1>8. /\ line[Before(w, 2) - 1] = Blank /\ line[Before(w, 2)] = Blank
      /\ line[Before(w, 3) - 1] = Blank /\ line[Before(w, 3)] = Blank
      /\ line[Before(w, 4) - 1] = Blank /\ line[Before(w, 4)] = Blank
  <2>1. /\ (Len(a) + 2) - 1 = Len(a) + 1 /\ (Len(two) + 2) - 1 = Len(two) + 1
        /\ (Len(three) + 2) - 1 = Len(three) + 1
    BY <1>4, <1>6 DEF Composed
  <2> QED
    BY <1>4, <1>7, <2>1, Zenon DEF Composed
<1>9. \A i \in 2..4 : line[Before(w, i) - 1] = Blank /\ line[Before(w, i)] = Blank
  <2>1. \A i \in 2..4 : i = 2 \/ i = 3 \/ i = 4
    OBVIOUS
  <2> QED
    BY <1>8, <2>1, Zenon
<1>10. \A j \in 1..w[1] : line[Before(w, 1) + j] = a[j]
  <2>1. \A j \in 1..w[1] : 0 + j = j
    BY <1>3, <1>6
  <2> QED
    BY <1>3, <1>4, <1>7, <2>1 DEF Composed
<1>11. \A i \in 1..4 : \A j \in 1..w[i] : line[Before(w, i) + j] = cells[i][j]
  <2>1. \A i \in 1..4 : i = 1 \/ i = 2 \/ i = 3 \/ i = 4
    OBVIOUS
  <2>2. \A j \in 1..w[2] : line[Before(w, 2) + j] = cells[2][j]
    BY <1>3, <1>4, <1>5, <1>7, Zenon DEF Composed
  <2>3. \A j \in 1..w[3] : line[Before(w, 3) + j] = cells[3][j]
    BY <1>3, <1>4, <1>5, <1>7, Zenon DEF Composed
  <2>4. \A j \in 1..w[4] : line[Before(w, 4) + j] = cells[4][j]
    BY <1>3, <1>4, <1>5, <1>7, Zenon DEF Composed
  <2> QED
    BY <1>5, <1>10, <2>1, <2>2, <2>3, <2>4, Zenon
<1>12. Len(line) = Before(w, 4) + w[4]
  BY <1>3, <1>4, <1>7 DEF Composed
<1> QED
  BY <1>2, <1>4, <1>9, <1>11, <1>12, Zenon DEF Composed, HasColumns

\* What is padded is as wide as its column.
LEMMA Padded ==
    ASSUME NEW text \in Seq(Chars), NEW width \in Nat, Len(text) <= width
    PROVE  /\ ljust(text, width) \in Seq(Chars) /\ Len(ljust(text, width)) = width
           /\ \A j \in 1..width : ljust(text, width)[j] =
                                     IF j <= Len(text) THEN text[j] ELSE Blank
<1> DEFINE n == width - Len(text)
           b == Blanks(n)
<1>1. Len(text) \in Nat /\ n \in Nat /\ Blank \in Chars
  BY DEF Chars
<1>2. CASE Len(text) >= width
  BY <1>1, <1>2 DEF ljust
<1>3. CASE ~ (Len(text) >= width)
  <2>1. ljust(text, width) = text \o b
    BY <1>3 DEF ljust
  <2>2. b \in Seq(Chars) /\ Len(b) = n /\ \A j \in 1..n : b[j] = Blank
    <3> HIDE DEF n
    <3> QED
      BY <1>1 DEF Blanks
  <2>3. Len(text) + n = width
    BY <1>1
  <2> HIDE DEF b, n
  <2>4. /\ text \o b \in Seq(Chars) /\ Len(text \o b) = Len(text) + n
        /\ \A j \in 1..(Len(text) + n) :
              (text \o b)[j] = IF j <= Len(text) THEN text[j] ELSE b[j - Len(text)]
    BY <2>2, ConcatProperties
  <2>5. ASSUME NEW j \in 1..width, ~ (j <= Len(text)) PROVE b[j - Len(text)] = Blank
    <3>1. j - Len(text) \in 1..n
      BY <1>1, <2>3, <2>5
    <3> QED
      BY <2>2, <3>1
  <2> QED
    BY <2>1, <2>3, <2>4, <2>5
<1> QED
  BY <1>2, <1>3

\* A row of a table: a text for each of the four columns.
IsRow(r) == /\ DOMAIN r = 1..4 /\ r = [i \in 1..4 |-> r[i]]
            /\ \A i \in 1..4 : r[i] \in Seq(Chars)

\* Columns wide enough for a row.
Fit(w, r) == \A i \in 1..4 : w[i] \in Nat /\ Len(r[i]) <= w[i]

\* Its line, before rstrip.
PaddedLine(r, w) == join([i \in DOMAIN r |-> ljust(r[i], w[i])])

\* Each cell stands at the beginning of its column, which it fills with blanks.
LEMMA LineOfRow ==
    ASSUME NEW r, IsRow(r), NEW w, Fit(w, r)
    PROVE  /\ PaddedLine(r, w) \in Seq(Chars)
           /\ Len(PaddedLine(r, w)) = Before(w, 4) + w[4]
           /\ \A i \in 1..4 : \A j \in 1..w[i] : PaddedLine(r, w)[Before(w, i) + j] =
                                IF j <= Len(r[i]) THEN r[i][j] ELSE Blank
<1> DEFINE cells == [i \in DOMAIN r |-> ljust(r[i], w[i])]
<1>1. /\ DOMAIN r = 1..4
      /\ \A i \in 1..4 : w[i] \in Nat /\ r[i] \in Seq(Chars) /\ Len(r[i]) <= w[i]
  BY DEF IsRow, Fit
<1>2. \A i \in 1..4 : /\ ljust(r[i], w[i]) \in Seq(Chars) /\ Len(ljust(r[i], w[i])) = w[i]
                      /\ \A j \in 1..w[i] : ljust(r[i], w[i])[j] =
                            IF j <= Len(r[i]) THEN r[i][j] ELSE Blank
  BY <1>1, Padded, Zenon
<1>3. /\ DOMAIN cells = 1..4 /\ cells = [i \in 1..4 |-> cells[i]]
      /\ \A i \in 1..4 : cells[i] = ljust(r[i], w[i])
  BY <1>1
<1>4. PaddedLine(r, w) = join(cells)
  BY DEF PaddedLine
<1> HIDE DEF cells
<1>5. FourCells(cells, w)
  BY <1>2, <1>3, Zenon DEF FourCells
<1>6. HasColumns(join(cells), cells, w)
  BY <1>5, FourColumns, Zenon
<1>7. ASSUME NEW i \in 1..4, NEW j \in 1..w[i]
      PROVE  join(cells)[Before(w, i) + j] = IF j <= Len(r[i]) THEN r[i][j] ELSE Blank
  <2>1. join(cells)[Before(w, i) + j] = cells[i][j]
    BY <1>6, Zenon DEF HasColumns
  <2>2. cells[i][j] = ljust(r[i], w[i])[j]
    BY <1>3, Zenon
  <2>3. ljust(r[i], w[i])[j] = IF j <= Len(r[i]) THEN r[i][j] ELSE Blank
    BY <1>2, Zenon
  <2> QED
    BY <2>1, <2>2, <2>3, Zenon
<1> QED
  BY <1>4, <1>6, <1>7, ZenonT(40) DEF HasColumns

\* The columns are wide enough for every row, and no wider than a row needs.
LEMMA WidthsFit ==
    ASSUME NEW rows, Len(rows) \in Nat \ {0}, DOMAIN rows = 1..Len(rows),
           \A k \in 1..Len(rows) : IsRow(rows[k])
    PROVE  /\ DOMAIN define_column_widths(rows) = 1..4
           /\ \A k \in 1..Len(rows) : Fit(define_column_widths(rows), rows[k])
<1> DEFINE M == Len(rows)
           w == define_column_widths(rows)
<1>1. M \in Nat /\ 1 \in 1..M
  OBVIOUS
<1>2. DOMAIN rows[1] = 1..4
  BY <1>1 DEF IsRow
<1>3. DOMAIN w = 1..4
  BY <1>2 DEF define_column_widths
<1>4. ASSUME NEW i \in 1..4
      PROVE  w[i] \in Nat /\ \A k \in 1..M : Len(rows[k][i]) <= w[i]
  <2> DEFINE L(k) == Len(rows[k][i])
             T == {n \in Nat : n <= M => \E m \in Nat : \A k \in 1..n : L(k) <= m}
             S == {0} \cup {Len(rows[k][i]) : k \in DOMAIN rows}
  <2>1. \A k \in 1..M : L(k) \in Nat
    BY DEF IsRow
  <2>2. w[i] = Max(S)
    BY <1>2 DEF define_column_widths
  <2> HIDE DEF L
  <2>3. 0 \in T
    OBVIOUS
  <2>4. ASSUME NEW n \in Nat, n \in T PROVE n + 1 \in T
    <3> SUFFICES ASSUME n + 1 <= M PROVE \E m \in Nat : \A k \in 1..(n + 1) : L(k) <= m
      OBVIOUS
    <3>1. PICK m \in Nat : \A k \in 1..n : L(k) <= m
      BY <1>1, <2>4
    <3>2. n + 1 \in 1..M /\ L(n + 1) \in Nat
      BY <1>1, <2>1
    <3>3. \A k \in 1..(n + 1) : L(k) <= m + L(n + 1)
      <4> TAKE k \in 1..(n + 1)
      <4>1. CASE k = n + 1
        BY <3>2, <4>1
      <4>2. CASE k # n + 1
        <5>1. k \in 1..n /\ k \in 1..M
          BY <1>1, <3>2, <4>2
        <5>2. L(k) <= m /\ L(k) \in Nat
          BY <2>1, <3>1, <5>1
        <5> QED
          BY <3>2, <5>2
      <4> QED
        BY <4>1, <4>2
    <3>4. m + L(n + 1) \in Nat
      BY <3>2
    <3> QED
      BY <3>3, <3>4, Zenon
  <2>5. PICK m \in Nat : \A k \in 1..M : L(k) <= m
    <3> HIDE DEF T
    <3>1. M \in T
      BY <1>1, <2>3, <2>4, HoldsAllNumbers
    <3> QED
      BY <1>1, <3>1 DEF T
  <2>6. S = {0} \cup {L(k) : k \in 1..M}
    BY DEF L
  <2> HIDE DEF S
  <2>7. S \subseteq Nat /\ S # {} /\ \A n \in S : n <= m
    BY <2>1, <2>5, <2>6
  <2>8. Max(S) \in S /\ \A n \in S : n <= Max(S)
    BY <2>7, Greatest
  <2>9. \A k \in 1..M : L(k) \in S
    BY <2>6
  <2> QED
    BY <2>2, <2>7, <2>8, <2>9 DEF L
<1> HIDE DEF w
<1> QED
  BY <1>3, <1>4 DEF Fit, w

\* The ruler of columns of such widths: every column is full of dashes.
RulerOf(w) == join([i \in DOMAIN w |-> [n \in 1..w[i] |-> "-"]])

Wide(w) == DOMAIN w = 1..4 /\ \A i \in 1..4 : w[i] \in Nat \ {0}

LEMMA RulerIs ==
    ASSUME NEW w, Wide(w)
    PROVE  /\ Len(RulerOf(w)) = Before(w, 4) + w[4] /\ DOMAIN RulerOf(w) = 1..Len(RulerOf(w))
           /\ \A i \in 1..4 : \A j \in 1..w[i] : RulerOf(w)[Before(w, i) + j] = "-"
           /\ \A i \in 2..4 : /\ RulerOf(w)[Before(w, i) - 1] = Blank
                              /\ RulerOf(w)[Before(w, i)] = Blank
<1> DEFINE cells == [i \in DOMAIN w |-> [n \in 1..w[i] |-> "-"]]
<1>1. DOMAIN w = 1..4 /\ \A i \in 1..4 : w[i] \in Nat
  BY DEF Wide
<1>2. "-" \in Chars
  BY DEF Chars
<1>3. ASSUME NEW i \in 1..4
      PROVE  /\ cells[i] \in Seq(Chars) /\ w[i] = Len(cells[i])
             /\ \A j \in 1..w[i] : cells[i][j] = "-"
  <2>1. cells[i] = [n \in 1..w[i] |-> "-"] /\ w[i] \in Nat
    BY <1>1
  <2> HIDE DEF cells
  <2> QED
    BY <1>2, <2>1
<1>4. DOMAIN cells = 1..4 /\ cells = [i \in 1..4 |-> cells[i]]
  BY <1>1
<1>5. RulerOf(w) = join(cells)
  BY DEF RulerOf
<1> HIDE DEF cells
<1>6. FourCells(cells, w)
  BY <1>3, <1>4, Zenon DEF FourCells
<1>7. HasColumns(RulerOf(w), cells, w)
  BY <1>5, <1>6, FourColumns, Zenon
<1>8. RulerOf(w) \in Seq(Chars)
  BY <1>7, Zenon DEF HasColumns
<1>9. DOMAIN RulerOf(w) = 1..Len(RulerOf(w))
  <2>1. \A s \in Seq(Chars) : DOMAIN s = 1..Len(s)
    OBVIOUS
  <2> QED
    BY <1>8, <2>1, Zenon
<1>10. ASSUME NEW i \in 1..4, NEW j \in 1..w[i] PROVE RulerOf(w)[Before(w, i) + j] = "-"
  <2>1. RulerOf(w)[Before(w, i) + j] = cells[i][j]
    BY <1>7, Zenon DEF HasColumns
  <2> QED
    BY <1>3, <2>1
<1> QED
  BY <1>7, <1>9, <1>10, Zenon DEF HasColumns

\* A dash behind a blank, or behind nothing.
Begins(text, p) == text[p] = "-" /\ (p = 1 \/ text[p - 1] = Blank)

\* Columns begin behind what is before them, and nowhere else.
LEMMA RulerBegins ==
    ASSUME NEW w, Wide(w)
    PROVE  {p \in DOMAIN RulerOf(w) : Begins(RulerOf(w), p)} =
              {1, Before(w, 2) + 1, Before(w, 3) + 1, Before(w, 4) + 1}
<1> DEFINE t == RulerOf(w)
           S == {p \in DOMAIN t : Begins(t, p)}
<1>1. w[1] \in Nat \ {0} /\ w[2] \in Nat \ {0} /\ w[3] \in Nat \ {0} /\ w[4] \in Nat \ {0}
  BY DEF Wide
<1>2. Blank # "-"
  BY Zenon DEF Blank
<1>3. /\ Len(t) = Before(w, 4) + w[4] /\ DOMAIN t = 1..Len(t)
      /\ \A i \in 1..4 : \A j \in 1..w[i] : t[Before(w, i) + j] = "-"
      /\ \A i \in 2..4 : t[Before(w, i) - 1] = Blank /\ t[Before(w, i)] = Blank
  BY RulerIs
<1> HIDE DEF t
<1>4. /\ Before(w, 1) = 0 /\ Before(w, 2) = w[1] + 2
      /\ Before(w, 3) = (w[1] + w[2]) + 4 /\ Before(w, 4) = ((w[1] + w[2]) + w[3]) + 6
  BY BeforeIs, Zenon
<1>5. ASSUME NEW i \in 1..4, NEW j \in 1..w[i], j # 1 PROVE ~ Begins(t, Before(w, i) + j)
  <2>1. Before(w, i) \in Nat /\ w[i] \in Nat
    BY <1>1, <1>4
  <2>2. j - 1 \in 1..w[i] /\ (Before(w, i) + j) - 1 = Before(w, i) + (j - 1)
        /\ Before(w, i) + j # 1
    BY <1>5, <2>1
  <2>3. t[(Before(w, i) + j) - 1] = "-"
    BY <1>3, <2>2, Zenon
  <2> QED
    BY <1>2, <2>2, <2>3, Zenon DEF Begins
<1>6. ASSUME NEW i \in 2..4
      PROVE  ~ Begins(t, Before(w, i) - 1) /\ ~ Begins(t, Before(w, i))
  <2>1. t[Before(w, i) - 1] # "-" /\ t[Before(w, i)] # "-"
    BY <1>2, <1>3
  <2> QED
    BY <2>1 DEF Begins
<1>7. ASSUME NEW i \in 1..4
      PROVE  Before(w, i) + 1 \in DOMAIN t /\ Begins(t, Before(w, i) + 1)
  <2>1. 1 \in 1..w[i] /\ Before(w, i) + 1 \in 1..Len(t)
    <3>1. Len(t) = Before(w, 4) + w[4]
      BY <1>3
    <3>2. /\ Before(w, 1) + 1 \in 1..Len(t) /\ Before(w, 2) + 1 \in 1..Len(t)
          /\ Before(w, 3) + 1 \in 1..Len(t) /\ Before(w, 4) + 1 \in 1..Len(t)
      <4>1. \A p, q, r, s \in Nat \ {0} :
              /\ 0 + 1 \in 1..((((p + q) + r) + 6) + s)
              /\ (p + 2) + 1 \in 1..((((p + q) + r) + 6) + s)
              /\ ((p + q) + 4) + 1 \in 1..((((p + q) + r) + 6) + s)
              /\ (((p + q) + r) + 6) + 1 \in 1..((((p + q) + r) + 6) + s)
        OBVIOUS
      <4> QED
        BY <1>1, <1>4, <3>1, <4>1, ZenonT(40)
    <3>3. 1 \in 1..w[1] /\ 1 \in 1..w[2] /\ 1 \in 1..w[3] /\ 1 \in 1..w[4]
      BY <1>1
    <3>4. i = 1 \/ i = 2 \/ i = 3 \/ i = 4
      OBVIOUS
    <3> QED
      BY <3>2, <3>3, <3>4, Zenon
  <2>2. t[Before(w, i) + 1] = "-"
    BY <1>3, <2>1, Zenon
  <2>3. CASE i = 1
    <3>1. Before(w, i) + 1 = 1
      BY <1>4, <2>3
    <3> QED
      BY <1>3, <2>1, <2>2, <3>1, Zenon DEF Begins
  <2>4. CASE i # 1
    <3>1. i \in 2..4
      BY <2>4
    <3>2. Before(w, i) \in Nat
      BY <1>1, <1>4
    <3>3. (Before(w, i) + 1) - 1 = Before(w, i)
      BY <3>2
    <3> QED
      BY <1>3, <2>1, <2>2, <3>1, <3>3, Zenon DEF Begins
  <2> QED
    BY <2>3, <2>4
<1>8. ASSUME NEW p \in DOMAIN t
      PROVE  \/ \E i \in 1..4 : \E j \in 1..w[i] : p = Before(w, i) + j
             \/ \E i \in 2..4 : p = Before(w, i) - 1 \/ p = Before(w, i)
  <2>1. p \in 1..(Before(w, 4) + w[4])
    BY <1>3
  <2>2. CASE p <= w[1]
    <3>1. p \in 1..w[1] /\ p = Before(w, 1) + p
      BY <1>1, <1>4, <2>1, <2>2
    <3> QED
      BY <3>1
  <2>3. CASE p > Before(w, 2) /\ p <= Before(w, 2) + w[2]
    <3>1. p - Before(w, 2) \in 1..w[2] /\ p = Before(w, 2) + (p - Before(w, 2))
      BY <1>1, <1>4, <2>1, <2>3
    <3> QED
      BY <3>1
  <2>4. CASE p > Before(w, 3) /\ p <= Before(w, 3) + w[3]
    <3>1. p - Before(w, 3) \in 1..w[3] /\ p = Before(w, 3) + (p - Before(w, 3))
      BY <1>1, <1>4, <2>1, <2>4
    <3> QED
      BY <3>1
  <2>5. CASE p > Before(w, 4)
    <3>1. p - Before(w, 4) \in 1..w[4] /\ p = Before(w, 4) + (p - Before(w, 4))
      BY <1>1, <1>4, <2>1, <2>5
    <3> QED
      BY <3>1
  <2>6. CASE ~ (p <= w[1]) /\ ~ (p > Before(w, 2) /\ p <= Before(w, 2) + w[2])
             /\ ~ (p > Before(w, 3) /\ p <= Before(w, 3) + w[3]) /\ ~ (p > Before(w, 4))
    <3>1. \/ p = Before(w, 2) - 1 \/ p = Before(w, 2) \/ p = Before(w, 3) - 1
          \/ p = Before(w, 3) \/ p = Before(w, 4) - 1 \/ p = Before(w, 4)
      BY <1>1, <1>4, <2>1, <2>6
    <3> QED
      BY <3>1
  <2> QED
    BY <2>2, <2>3, <2>4, <2>5, <2>6
<1>9. \A p \in S : \E i \in 1..4 : p = Before(w, i) + 1
  BY <1>5, <1>6, <1>8, Zenon
<1>10. \A i \in 1..4 : i = 1 \/ i = 2 \/ i = 3 \/ i = 4
  OBVIOUS
<1>11. Before(w, 1) + 1 = 1
  BY <1>4
<1>12. \A p \in S : p \in {1, Before(w, 2) + 1, Before(w, 3) + 1, Before(w, 4) + 1}
  BY <1>9, <1>10, <1>11, Zenon
<1>13. /\ 1 \in S /\ Before(w, 2) + 1 \in S /\ Before(w, 3) + 1 \in S /\ Before(w, 4) + 1 \in S
  <2>1. 1 \in 1..4 /\ 2 \in 1..4 /\ 3 \in 1..4 /\ 4 \in 1..4
    OBVIOUS
  <2> QED
    BY <1>7, <1>11, <2>1, Zenon
<1> QED
  BY <1>12, <1>13, Zenon DEF t

\* Of four numbers in their order, which has how many before it.
InOrder(S, a, b, c, d) ==
    /\ Cardinality(S) = 4
    /\ Cardinality({q \in S : q < a}) = 0 /\ Cardinality({q \in S : q < b}) = 1
    /\ Cardinality({q \in S : q < c}) = 2 /\ Cardinality({q \in S : q < d}) = 3

LEMMA FourInOrder ==
    \A a, b, c, d \in Nat : a < b /\ b < c /\ c < d => InOrder({a, b, c, d}, a, b, c, d)
<1> SUFFICES ASSUME NEW a \in Nat, NEW b \in Nat, NEW c \in Nat, NEW d \in Nat, a < b, b < c, c < d
             PROVE  InOrder({a, b, c, d}, a, b, c, d)
  OBVIOUS
<1> DEFINE S == {a, b, c, d}
<1>1. /\ {q \in S : q < a} = {} /\ {q \in S : q < b} = {} \cup {a}
      /\ {q \in S : q < c} = {a} \cup {b} /\ {q \in S : q < d} = {a, b} \cup {c}
      /\ S = {a, b, c} \cup {d}
  OBVIOUS
<1>2. IsFiniteSet({}) /\ Cardinality({}) = 0
  BY FS_EmptySet
<1>3. IsFiniteSet({a}) /\ Cardinality({a}) = 1
  BY FS_Singleton, Zenon
<1>4. IsFiniteSet({a} \cup {b}) /\ Cardinality({a} \cup {b}) = 2
  BY <1>3, FS_AddElement
<1>5. {a} \cup {b} = {a, b} /\ {a, b} \cup {c} = {a, b, c} /\ {} \cup {a} = {a}
  OBVIOUS
<1>6. IsFiniteSet({a, b} \cup {c}) /\ Cardinality({a, b} \cup {c}) = 3
  <2>1. IsFiniteSet({a, b}) /\ Cardinality({a, b}) = 2 /\ c \notin {a, b}
    BY <1>4, <1>5
  <2> DEFINE T == {a, b}
  <2> HIDE DEF T
  <2>2. IsFiniteSet(T) /\ Cardinality(T) = 2 /\ c \notin T
    BY <2>1 DEF T
  <2>3. IsFiniteSet(T \cup {c}) /\ Cardinality(T \cup {c}) = 3
    BY <2>2, FS_AddElement
  <2> QED
    BY <2>3 DEF T
<1>7. Cardinality({a, b, c} \cup {d}) = 4
  <2>1. IsFiniteSet({a, b, c}) /\ Cardinality({a, b, c}) = 3 /\ d \notin {a, b, c}
    BY <1>5, <1>6
  <2> DEFINE T == {a, b, c}
  <2> HIDE DEF T
  <2>2. IsFiniteSet(T) /\ Cardinality(T) = 3 /\ d \notin T
    BY <2>1 DEF T
  <2>3. Cardinality(T \cup {d}) = 4
    BY <2>2, FS_AddElement
  <2> QED
    BY <2>3 DEF T
<1> QED
  BY <1>1, <1>2, <1>3, <1>4, <1>5, <1>6, <1>7, Zenon DEF InOrder

\* A reader finds the columns where build_table put them.
LEMMA StartsAre ==
    ASSUME NEW w, Wide(w), Ruler = RulerOf(w)
    PROVE  Cardinality(Starts) = 4 /\ \A i \in 1..4 : Start(i) = Before(w, i) + 1
<1> DEFINE b == Before(w, 2) + 1
           c == Before(w, 3) + 1
           d == Before(w, 4) + 1
           N(p) == Cardinality({q \in Starts : q < p})
<1>1. Starts = {1, b, c, d}
  <2>1. Starts = {p \in DOMAIN RulerOf(w) : Begins(RulerOf(w), p)}
    BY DEF Starts, Begins
  <2> QED
    BY <2>1, RulerBegins, Zenon
<1>2. /\ Before(w, 1) = 0 /\ Before(w, 2) = w[1] + 2
      /\ Before(w, 3) = (w[1] + w[2]) + 4 /\ Before(w, 4) = ((w[1] + w[2]) + w[3]) + 6
  BY BeforeIs, Zenon
<1>3. b \in Nat /\ c \in Nat /\ d \in Nat /\ 1 < b /\ b < c /\ c < d /\ Before(w, 1) + 1 = 1
  <2>1. w[1] \in Nat \ {0} /\ w[2] \in Nat \ {0} /\ w[3] \in Nat \ {0} /\ w[4] \in Nat \ {0}
    BY DEF Wide
  <2> QED
    BY <1>2, <2>1
<1> HIDE DEF b, c, d
<1>4. Cardinality(Starts) = 4 /\ N(1) = 0 /\ N(b) = 1 /\ N(c) = 2 /\ N(d) = 3
  <2>1. InOrder({1, b, c, d}, 1, b, c, d)
    BY <1>3, FourInOrder
  <2> QED
    BY <1>1, <2>1, Zenon DEF InOrder
<1> HIDE DEF N
<1>5. \A i \in 1..4 : Start(i) = CHOOSE p \in Starts : N(p) = i - 1
  BY DEF Start, N
<1>6. /\ Start(1) = 1 /\ Start(2) = b /\ Start(3) = c /\ Start(4) = d
  <2>1. /\ Start(1) = CHOOSE p \in Starts : N(p) = 0
        /\ Start(2) = CHOOSE p \in Starts : N(p) = 1
        /\ Start(3) = CHOOSE p \in Starts : N(p) = 2
        /\ Start(4) = CHOOSE p \in Starts : N(p) = 3
    <3>1. /\ 1 \in 1..4 /\ 2 \in 1..4 /\ 3 \in 1..4 /\ 4 \in 1..4
          /\ 1 - 1 = 0 /\ 2 - 1 = 1 /\ 3 - 1 = 2 /\ 4 - 1 = 3
      OBVIOUS
    <3> QED
      BY <1>5, <3>1, Zenon
  <2>2. \A p \in Starts : /\ (N(p) = 0 <=> p = 1) /\ (N(p) = 1 <=> p = b)
                          /\ (N(p) = 2 <=> p = c) /\ (N(p) = 3 <=> p = d)
    BY <1>1, <1>3, <1>4
  <2>3. 1 \in Starts /\ b \in Starts /\ c \in Starts /\ d \in Starts
    BY <1>1
  <2> QED
    BY <2>1, <2>2, <2>3
<1>7. \A i \in 1..4 : i = 1 \/ i = 2 \/ i = 3 \/ i = 4
  OBVIOUS
<1> QED
  BY <1>3, <1>4, <1>6, <1>7, Zenon DEF b, c, d

\* Cut at the columns, a row's line gives back the row.
LEMMA CellReads ==
    ASSUME NEW w, Wide(w), Ruler = RulerOf(w), NEW r, IsRow(r), Fit(w, r), NEW i \in 1..4
    PROVE  CellOf(rstrip(PaddedLine(r, w)), i) = rstrip(r[i])
<1> DEFINE line == PaddedLine(r, w)
           text == rstrip(line)
           s == Before(w, i) + 1
           end == IF i = Cardinality(Starts) THEN Len(text) ELSE Start(i + 1) - 3
           q == Min({end, Len(text)})
<1>1. /\ line \in Seq(Chars) /\ Len(line) = Before(w, 4) + w[4]
      /\ \A j \in 1..w[i] : line[Before(w, i) + j] = IF j <= Len(r[i]) THEN r[i][j] ELSE Blank
  BY LineOfRow
<1>2. r[i] \in Seq(Chars) /\ Len(r[i]) <= w[i]
  BY DEF IsRow, Fit
<1>3. w[1] \in Nat \ {0} /\ w[2] \in Nat \ {0} /\ w[3] \in Nat \ {0} /\ w[4] \in Nat \ {0}
  BY DEF Wide
<1>4. /\ Before(w, 1) = 0 /\ Before(w, 2) = w[1] + 2
      /\ Before(w, 3) = (w[1] + w[2]) + 4 /\ Before(w, 4) = ((w[1] + w[2]) + w[3]) + 6
  BY BeforeIs, Zenon
<1>5. Cardinality(Starts) = 4 /\ \A k \in 1..4 : Start(k) = Before(w, k) + 1
  BY StartsAre
<1>6. CellOf(text, i) = rstrip(SubSeq(text, s, q))
  <2>1. Start(i) = s
    BY <1>5
  <2> QED
    BY <2>1, Zenon DEF CellOf
<1>7. PICK p : EndsAt(line, p) /\ text = SubSeq(line, 1, p)
  BY <1>1, Stripped
<1> HIDE DEF line
<1>8. p \in 0..Len(line) /\ \A k \in (p + 1)..Len(line) : line[k] = Blank
  BY <1>7 DEF EndsAt
<1>9. Len(text) = p /\ Len(line) \in Nat
  <2>1. Len(line) \in Nat
    BY <1>1
  <2>2. Len(SubSeq(line, 1, p)) = p
    BY <1>1, <1>8, <2>1, SubSeqProperties
  <2> QED
    BY <1>7, <2>1, <2>2
<1>10. s \in Nat \ {0} /\ (s + w[i]) - 1 \in Nat /\ (s + w[i]) - 1 <= Len(line) /\ w[i] \in Nat
  <2>1. i = 1 \/ i = 2 \/ i = 3 \/ i = 4
    OBVIOUS
  <2> DEFINE Inside(m, v, n) == /\ m + 1 \in Nat \ {0} /\ ((m + 1) + v) - 1 \in Nat
                                /\ ((m + 1) + v) - 1 <= n /\ v \in Nat
  <2>2. \A x, y, z, u \in Nat \ {0} :
          /\ Inside(0, x, (((x + y) + z) + 6) + u)
          /\ Inside(x + 2, y, (((x + y) + z) + 6) + u)
          /\ Inside((x + y) + 4, z, (((x + y) + z) + 6) + u)
          /\ Inside(((x + y) + z) + 6, u, (((x + y) + z) + 6) + u)
    OBVIOUS
  <2> HIDE DEF Inside
  <2>3. /\ Inside(Before(w, 1), w[1], Len(line)) /\ Inside(Before(w, 2), w[2], Len(line))
        /\ Inside(Before(w, 3), w[3], Len(line)) /\ Inside(Before(w, 4), w[4], Len(line))
    <3>1. Len(line) = (((w[1] + w[2]) + w[3]) + 6) + w[4]
      BY <1>1, <1>4
    <3> DEFINE n == (((w[1] + w[2]) + w[3]) + 6) + w[4]
    <3>2. /\ Inside(0, w[1], n) /\ Inside(w[1] + 2, w[2], n)
          /\ Inside((w[1] + w[2]) + 4, w[3], n) /\ Inside(((w[1] + w[2]) + w[3]) + 6, w[4], n)
      BY <1>3, <2>2, Zenon
    <3> HIDE DEF n
    <3> QED
      BY <1>4, <3>1, <3>2, Zenon DEF n
  <2>4. Inside(Before(w, i), w[i], Len(line))
    BY <2>1, <2>3, Zenon
  <2> QED
    BY <2>4 DEF Inside
<1>11. end = (s + w[i]) - 1 \/ (i = 4 /\ end = p /\ p <= (s + w[i]) - 1)
  <2>1. CASE i = 4
    <3>1. end = p
      BY <1>5, <1>9, <2>1
    <3>2. Len(line) = (s + w[i]) - 1
      <4>1. Len(line) = Before(w, 4) + w[4] /\ s = Before(w, 4) + 1 /\ w[i] = w[4]
        BY <1>1, <2>1
      <4>2. Before(w, 4) \in Nat /\ w[4] \in Nat
        BY <1>3, <1>4
      <4> HIDE DEF s
      <4> QED
        BY <4>1, <4>2
    <3> QED
      BY <1>8, <1>9, <2>1, <3>1, <3>2
  <2>2. CASE i # 4
    <3>1. i + 1 \in 1..4 /\ end = Start(i + 1) - 3
      BY <1>5, <2>2
    <3>2. end = (Before(w, i + 1) + 1) - 3
      BY <1>5, <3>1
    <3> DEFINE Follows(m, v, n) == (n + 1) - 3 = ((m + 1) + v) - 1
    <3>3. \A x, y, z \in Nat \ {0} : /\ Follows(0, x, x + 2) /\ Follows(x + 2, y, (x + y) + 4)
                                     /\ Follows((x + y) + 4, z, ((x + y) + z) + 6)
      OBVIOUS
    <3> HIDE DEF Follows, end
    <3>4. /\ Follows(Before(w, 1), w[1], Before(w, 2))
          /\ Follows(Before(w, 2), w[2], Before(w, 3))
          /\ Follows(Before(w, 3), w[3], Before(w, 4))
      BY <1>3, <1>4, <3>3, Zenon
    <3>5. (i = 1 /\ i + 1 = 2) \/ (i = 2 /\ i + 1 = 3) \/ (i = 3 /\ i + 1 = 4)
      BY <2>2
    <3>6. Follows(Before(w, i), w[i], Before(w, i + 1))
      BY <3>4, <3>5, Zenon
    <3> QED
      BY <3>2, <3>6 DEF Follows
  <2> QED
    BY <2>1, <2>2
<1> DEFINE e == (s + w[i]) - 1
<1>12. q = IF e <= p THEN e ELSE p
  <2>1. end \in Nat /\ p \in Nat
    BY <1>8, <1>9, <1>10, <1>11
  <2>2. q = Min({end, p})
    BY <1>9, Zenon
  <2> HIDE DEF q, end
  <2>3. Min({end, p}) = IF end <= p THEN end ELSE p
    <3>1. {end, p} \subseteq Nat /\ {end, p} # {}
      BY <2>1
    <3>2. Min({end, p}) \in {end, p} /\ \A n \in {end, p} : Min({end, p}) <= n
      BY <3>1, Least
    <3> QED
      BY <2>1, <3>2
  <2> HIDE DEF s
  <2> QED
    BY <1>10, <1>11, <2>1, <2>2, <2>3
<1>13. ASSUME NEW j \in 1..w[i]
       PROVE  line[(s + j) - 1] = IF j <= Len(r[i]) THEN r[i][j] ELSE Blank
  <2>1. (s + j) - 1 = Before(w, i) + j
    <3>1. Before(w, i) \in Int
      BY <1>3, <1>4
    <3> QED
      BY <1>10, <3>1
  <2> QED
    BY <1>1, <2>1, Zenon DEF line
<1> HIDE DEF s, q, text
<1>14. ShowsCell(line, r[i], s, w[i], p, q)
  BY <1>2, <1>8, <1>10, <1>12, <1>13 DEF ShowsCell
<1>15. rstrip(SubSeq(SubSeq(line, 1, p), s, q)) = rstrip(r[i])
  <2>1. line \in Seq(Chars)
    BY <1>1
  <2> QED
    BY <1>2, <1>14, <2>1, ColumnReadsBack
<1>16. CellOf(text, i) = rstrip(SubSeq(SubSeq(line, 1, p), s, q))
  BY <1>6, <1>7, Zenon
<1> QED
  BY <1>15, <1>16, Zenon DEF text, line

\* What is printed begins with the table of these rows.
TableOf(out, rows, w) ==
    /\ out[1].of = rstrip(PaddedLine(rows[1], w)) /\ out[2].of = RulerOf(w)
    /\ \A k \in 1..(Len(rows) - 1) : out[k + 2].of = rstrip(PaddedLine(rows[k + 1], w))

\* The lines of a table, whatever is printed behind it.
LEMMA TableIs ==
    ASSUME NEW rows, Len(rows) \in Nat \ {0}, NEW w, NEW x, NEW y
    PROVE  /\ TableOf(build_table(rows, w), rows, w)
           /\ TableOf(build_table(rows, w) \o <<x, y>>, rows, w)
<1> DEFINE n == Len(rows) - 1
           L(k) == rstrip(PaddedLine(rows[k], w))
           front == <<L(1), RulerOf(w)>>
           rest == [k \in 1..n |-> L(k + 1)]
           lines == front \o rest
           table == [k \in DOMAIN lines |-> [is |-> "line", of |-> lines[k]]]
           T == {L(1), RulerOf(w)} \cup {L(k + 1) : k \in 1..n}
<1>1. build_table(rows, w) = table
  BY Zenon DEF build_table, PaddedLine, RulerOf
<1>2. n \in Nat
  OBVIOUS
<1> HIDE DEF n, L
<1>3. /\ front \in Seq(T) /\ Len(front) = 2 /\ front[1] = L(1) /\ front[2] = RulerOf(w)
      /\ rest \in Seq(T) /\ Len(rest) = n /\ \A k \in 1..n : rest[k] = L(k + 1)
  <2>1. L(1) \in T /\ RulerOf(w) \in T /\ \A k \in 1..n : L(k + 1) \in T
    OBVIOUS
  <2> HIDE DEF T
  <2>2. /\ front \in Seq(T) /\ Len(front) = 2 /\ front[1] = L(1) /\ front[2] = RulerOf(w)
    BY <2>1
  <2>3. /\ rest \in Seq(T) /\ Len(rest) = n /\ \A k \in 1..n : rest[k] = L(k + 1)
    BY <1>2, <2>1
  <2> QED
    BY <2>2, <2>3
<1> HIDE DEF front, rest, T
<1>4. /\ lines \in Seq(T) /\ Len(lines) = 2 + n /\ DOMAIN lines = 1..(2 + n)
      /\ \A i \in 1..(2 + n) : lines[i] = IF i <= 2 THEN front[i] ELSE rest[i - 2]
  <2>1. /\ front \o rest \in Seq(T) /\ Len(front \o rest) = Len(front) + Len(rest)
        /\ \A i \in 1..(Len(front) + Len(rest)) : (front \o rest)[i] =
               IF i <= Len(front) THEN front[i] ELSE rest[i - Len(front)]
    BY <1>3, ConcatProperties
  <2> HIDE DEF lines
  <2>2. /\ lines \in Seq(T) /\ Len(lines) = 2 + n
        /\ \A i \in 1..(2 + n) : lines[i] = IF i <= 2 THEN front[i] ELSE rest[i - 2]
    BY <1>3, <2>1, Zenon DEF lines
  <2> QED
    BY <2>2
<1> HIDE DEF lines
<1>5. /\ lines[1] = L(1) /\ lines[2] = RulerOf(w)
      /\ \A k \in 1..n : k + 2 \in 1..(2 + n) /\ lines[k + 2] = L(k + 1)
  <2>1. lines[1] = L(1) /\ lines[2] = RulerOf(w)
    BY <1>2, <1>3, <1>4
  <2>2. ASSUME NEW k \in 1..n PROVE k + 2 \in 1..(2 + n) /\ lines[k + 2] = L(k + 1)
    <3>1. k + 2 \in 1..(2 + n) /\ ~ (k + 2 <= 2) /\ (k + 2) - 2 = k
      BY <1>2
    <3> QED
      BY <1>3, <1>4, <3>1
  <2> QED
    BY <2>1, <2>2
<1> DEFINE R == {[is |-> "line", of |-> l] : l \in T}
<1>6. /\ DOMAIN table = 1..(2 + n) /\ table \in Seq(R) /\ Len(table) = 2 + n
      /\ \A i \in 1..(2 + n) : table[i] = [is |-> "line", of |-> lines[i]]
  <2>1. \A i \in 1..(2 + n) : lines[i] \in T
    BY <1>4
  <2> QED
    BY <1>2, <1>4, <2>1
<1> HIDE DEF table, R
<1>7. TableOf(table, rows, w)
  <2>1. \A i \in 1..(2 + n) : table[i].of = lines[i]
    BY <1>6
  <2>2. 1 \in 1..(2 + n) /\ 2 \in 1..(2 + n)
    BY <1>2
  <2>3. n = Len(rows) - 1 /\ \A k : L(k) = rstrip(PaddedLine(rows[k], w))
    BY Zenon DEF n, L
  <2> QED
    BY <1>5, <2>1, <2>2, <2>3, Zenon DEF TableOf
<1> DEFINE more == table \o <<x, y>>
           all == R \cup {x, y}
<1>8. \A i \in 1..(2 + n) : more[i] = table[i]
  <2>1. table \in Seq(all) /\ <<x, y>> \in Seq(all)
    BY <1>2, <1>6
  <2> DEFINE tail == <<x, y>>
  <2> HIDE DEF all, tail
  <2>2. Len(tail) = 2 /\ tail \in Seq(all) /\ Len(table) = 2 + n
    BY <1>6, <2>1 DEF tail
  <2>3. \A i \in 1..(Len(table) + Len(tail)) :
           (table \o tail)[i] = IF i <= Len(table) THEN table[i] ELSE tail[i - Len(table)]
    BY <2>1, <2>2, ConcatProperties
  <2> QED
    BY <1>2, <2>2, <2>3 DEF tail
<1> HIDE DEF more
<1>9. TableOf(more, rows, w)
  <2>1. 1 \in 1..(2 + n) /\ 2 \in 1..(2 + n)
    BY <1>2
  <2>2. n = Len(rows) - 1
    BY Zenon DEF n
  <2>3. \A k \in 1..n : k + 2 \in 1..(2 + n)
    BY <1>2
  <2> QED
    BY <1>7, <1>8, <2>1, <2>2, <2>3, Zenon DEF TableOf
<1> QED
  BY <1>1, <1>7, <1>9, Zenon DEF more

\* A table of rows, the first without an empty cell, reads back.
LEMMA RowsReadBack ==
    ASSUME NEW rows, Len(rows) \in Nat \ {0}, DOMAIN rows = 1..Len(rows),
           \A k \in 1..Len(rows) : IsRow(rows[k]), \A i \in 1..4 : rows[1][i] # <<>>,
           TableOf(printed, rows, define_column_widths(rows))
    PROVE  /\ Cardinality(Starts) = 4
           /\ \A i \in 1..4 :
                /\ CellOf(printed[1].of, i) = rstrip(rows[1][i])
                /\ \A k \in 1..(Len(rows) - 1) :
                      CellOf(printed[k + 2].of, i) = rstrip(rows[k + 1][i])
<1> DEFINE w == define_column_widths(rows)
<1>1. DOMAIN w = 1..4 /\ \A k \in 1..Len(rows) : Fit(w, rows[k])
  BY WidthsFit
<1> HIDE DEF w
<1>2. 1 \in 1..Len(rows) /\ \A k \in 1..(Len(rows) - 1) : k + 1 \in 1..Len(rows)
  OBVIOUS
<1>3. Wide(w)
  <2>1. ASSUME NEW i \in 1..4 PROVE w[i] \in Nat \ {0}
    <3>1. w[i] \in Nat /\ Len(rows[1][i]) <= w[i]
      BY <1>1, <1>2 DEF Fit
    <3>2. rows[1][i] \in Seq(Chars) /\ rows[1][i] # <<>>
      BY <1>2 DEF IsRow
    <3>3. Len(rows[1][i]) \in Nat \ {0}
      BY <3>2
    <3> QED
      BY <3>1, <3>3
  <2> QED
    BY <1>1, <2>1 DEF Wide
<1>4. TableOf(printed, rows, w)
  BY DEF w
<1>5. Ruler = RulerOf(w)
  BY <1>4, Zenon DEF TableOf, Ruler
<1>6. Cardinality(Starts) = 4
  BY <1>3, <1>5, StartsAre
<1>7. ASSUME NEW i \in 1..4, NEW k \in 1..Len(rows)
      PROVE  CellOf(rstrip(PaddedLine(rows[k], w)), i) = rstrip(rows[k][i])
  <2>1. IsRow(rows[k]) /\ Fit(w, rows[k])
    BY <1>1
  <2> QED
    BY <1>3, <1>5, <2>1, CellReads, Zenon
<1> QED
  BY <1>2, <1>4, <1>6, <1>7, Zenon DEF TableOf

\* A text that is empty, or does not end in a blank, is what rstrip leaves.
LEMMA StrippedAlready ==
    ASSUME NEW text \in Seq(Chars), text # <<>> => text[Len(text)] # Blank
    PROVE  rstrip(text) = text
<1>1. Len(text) \in Nat /\ (Len(text) # 0 => text # <<>>)
  OBVIOUS
<1>2. EndsAt(text, Len(text))
  BY <1>1 DEF EndsAt
<1>3. SubSeq(text, 1, Len(text)) = text
  OBVIOUS
<1> QED
  BY <1>2, <1>3, StripIs

\* The columns of a table of users.
Columns == {"username", "name", "employee_id", "email"}

LEMMA ColumnsAre ==
    /\ DOMAIN _TABLE_COLUMNS = 1..4 /\ Len(_TABLE_COLUMNS) = 4
    /\ \A i \in 1..4 : _TABLE_COLUMNS[i] \in Columns
BY DEF _TABLE_COLUMNS, Columns

\* In every column a user has a text or nothing.
Worded(u) == \A c \in Columns : u[c] \in Text \cup {None}

LEMMA UsersWorded == ASSUME FieldsFaithful, NEW u \in users PROVE Worded(u)
<1> DEFINE held(e, f) == _first(Values(e, attrs[f]))
<1>1. PICK e \in Entries :
         /\ u.employee_id = held(e, "employee_id") /\ u.username = held(e, "username")
         /\ u.email = held(e, "mail") /\ u.name \in {held(e, "name"), held(e, "cn"), e.dn}
  BY Zenon DEF FieldsFaithful
<1>2. ASSUME NEW f PROVE held(e, f) \in Text \cup {None}
  <2>1. Values(e, attrs[f]) \in Seq(Text)
    BY RenderingAssumption DEF Values
  <2> DEFINE v == Values(e, attrs[f])
  <2> HIDE DEF v
  <2>2. v \in Seq(Text) => v = <<>> \/ v[1] \in Text
    OBVIOUS
  <2> QED
    BY <2>1, <2>2 DEF _first, v
<1>3. e.dn \in Text
  BY RenderingAssumption
<1> HIDE DEF held
<1>4. /\ u["employee_id"] \in Text \cup {None} /\ u["username"] \in Text \cup {None}
      /\ u["email"] \in Text \cup {None} /\ u["name"] \in Text \cup {None}
  BY <1>1, <1>2, <1>3
<1> QED
  BY <1>4, Zenon DEF Worded, Columns

\* The users are finitely many, so there is a list of them.
LEMMA UsersListed ==
    ASSUME FInv
    PROVE  listing \in Seq(users)
<1>1. IsFiniteSet(users)
  <2>1. CASE status # "returned"
    <3>1. users = {}
      BY <2>1, Zenon DEF FInv
    <3> QED
      BY <3>1, FS_EmptySet, Zenon
  <2>2. CASE status = "returned"
    <3>1. Sent /\ Readable(request.text) /\ Described /\ call \in Calls
      BY <2>2, Zenon DEF FInv
    <3>2. PICK blanks \in BOOLEAN :
            users = {to_user(Project(e, blanks)) : e \in
                       {e \in Selected(request.text) : request.base \in e.under}}
      BY <3>1, Zenon DEF Described
    <3> DEFINE Found == {e \in Selected(request.text) : request.base \in e.under}
               f == [e \in Found |-> to_user(Project(e, blanks))]
    <3>3. Found \in SUBSET Entries
      BY <3>1, RequestRead
    <3>4. IsFiniteSet(Found)
      <4>1. IsFiniteSet(Entries)
        BY RenderingAssumption
      <4> HIDE DEF Found
      <4> QED
        BY <3>3, <4>1, FS_Subset
    <3>5. users = {f[e] : e \in Found}
      BY <3>2, Zenon
    <3>6. f \in [Found -> users] /\ \A u \in users : \E e \in Found : f[e] = u
      <4>1. f = [e \in Found |-> f[e]]
        OBVIOUS
      <4> HIDE DEF f, Found
      <4> QED
        BY <3>5, <4>1
    <3> HIDE DEF f, Found
    <3>7. f \in Surjection(Found, users)
      BY <3>6, Zenon DEF Surjection
    <3> QED
      BY <3>4, <3>7, FS_Surjection
  <2> QED
    BY <2>1, <2>2
<1> DEFINE n == Cardinality(users)
<1>2. n \in Nat /\ ExistsBijection(1..n, users)
  BY <1>1, FS_CardinalityType
<1>3. \E g \in [1..n -> users] : IsInjective(g)
  BY <1>2 DEF ExistsBijection, Bijection, Injection
<1>4. listing \in [1..n -> users]
  BY <1>3 DEF SetToSeq, listing
<1> HIDE DEF n
<1> QED
  BY <1>2, <1>4

\* The rows of the table: the titles, and each user's texts.
LEMMA RowsAre ==
    ASSUME listing \in Seq(users), FieldsFaithful
    PROVE  /\ Len(populate_rows) = Len(listing) + 1
           /\ DOMAIN populate_rows = 1..(Len(listing) + 1)
           /\ \A k \in 1..(Len(listing) + 1) : IsRow(populate_rows[k])
           /\ \A i \in 1..4 : populate_rows[1][i] = Title[_TABLE_COLUMNS[i]]
           /\ \A k \in 1..Len(listing) : \A i \in 1..4 :
                 populate_rows[k + 1][i] =
                    IF listing[k][_TABLE_COLUMNS[i]] = None THEN <<>>
                    ELSE listing[k][_TABLE_COLUMNS[i]]
<1> DEFINE n == Len(listing)
           titles == [i \in DOMAIN _TABLE_COLUMNS |-> Title[_TABLE_COLUMNS[i]]]
           front == <<titles>>
           rest == [k \in DOMAIN listing |-> Cells(listing[k])]
           T == {titles} \cup {Cells(u) : u \in users}
<1>1. n \in Nat /\ DOMAIN listing = 1..n /\ \A k \in 1..n : listing[k] \in users
  OBVIOUS
<1>2. Text \subseteq Seq(Chars)
  BY DEF Text, Chars
<1>3. IsRow(titles) /\ \A i \in 1..4 : titles[i] = Title[_TABLE_COLUMNS[i]]
  <2>1. \A i \in 1..4 : Title[_TABLE_COLUMNS[i]] \in Text
    BY ColumnsAre, RenderingAssumption
  <2>2. DOMAIN _TABLE_COLUMNS = 1..4
    BY ColumnsAre
  <2> QED
    BY <1>2, <2>1, <2>2 DEF IsRow
<1>4. ASSUME NEW u \in users
      PROVE  /\ IsRow(Cells(u))
             /\ \A i \in 1..4 : Cells(u)[i] = IF u[_TABLE_COLUMNS[i]] = None THEN <<>>
                                             ELSE u[_TABLE_COLUMNS[i]]
  <2>1. \A i \in 1..4 : u[_TABLE_COLUMNS[i]] \in Text \cup {None}
    BY UsersWorded, ColumnsAre, Zenon DEF Worded
  <2>2. DOMAIN _TABLE_COLUMNS = 1..4
    BY ColumnsAre
  <2>3. DOMAIN Cells(u) = 1..4 /\ Cells(u) = [i \in 1..4 |-> Cells(u)[i]]
    BY <2>2 DEF Cells
  <2>4. \A i \in 1..4 : Cells(u)[i] = IF u[_TABLE_COLUMNS[i]] = None THEN <<>>
                                      ELSE u[_TABLE_COLUMNS[i]]
    BY <2>2 DEF Cells
  <2>5. <<>> \in Seq(Chars)
    OBVIOUS
  <2>6. \A i \in 1..4 : Cells(u)[i] \in Seq(Chars)
    BY <1>2, <2>1, <2>4, <2>5
  <2> QED
    BY <2>3, <2>4, <2>6, Zenon DEF IsRow
<1>5. populate_rows = front \o rest
  BY Zenon DEF populate_rows
<1>6. titles \in T /\ \A u \in users : Cells(u) \in T
  OBVIOUS
<1> HIDE DEF T, titles, n
<1>7. /\ front \in Seq(T) /\ Len(front) = 1 /\ front[1] = titles
      /\ rest \in Seq(T) /\ Len(rest) = n /\ \A k \in 1..n : rest[k] = Cells(listing[k])
  BY <1>1, <1>6
<1> HIDE DEF front, rest
<1>8. /\ populate_rows \in Seq(T) /\ Len(populate_rows) = 1 + n
      /\ \A k \in 1..(1 + n) : populate_rows[k] = IF k <= 1 THEN front[k] ELSE rest[k - 1]
  <2>1. /\ front \o rest \in Seq(T) /\ Len(front \o rest) = Len(front) + Len(rest)
        /\ \A k \in 1..(Len(front) + Len(rest)) : (front \o rest)[k] =
               IF k <= Len(front) THEN front[k] ELSE rest[k - Len(front)]
    BY <1>7, ConcatProperties
  <2> QED
    BY <1>5, <1>7, <2>1, Zenon
<1>9. 1 + n = n + 1 /\ DOMAIN populate_rows = 1..(n + 1)
  <2>1. \A s \in Seq(T) : DOMAIN s = 1..Len(s)
    OBVIOUS
  <2>2. 1 + n = n + 1
    BY <1>1
  <2> QED
    BY <1>8, <2>1, <2>2, Zenon
<1>10. populate_rows[1] = titles
  <2>1. 1 \in 1..(1 + n) /\ 1 <= 1
    BY <1>1
  <2> QED
    BY <1>7, <1>8, <2>1
<1>11. ASSUME NEW k \in 1..n PROVE populate_rows[k + 1] = Cells(listing[k])
  <2>1. k + 1 \in 1..(1 + n) /\ ~ (k + 1 <= 1) /\ (k + 1) - 1 = k
    BY <1>1
  <2> QED
    BY <1>7, <1>8, <2>1
<1>12. ASSUME NEW k \in 1..(n + 1) PROVE IsRow(populate_rows[k])
  <2>1. CASE k = 1
    BY <1>3, <1>10, <2>1
  <2>2. CASE k # 1
    <3>1. k - 1 \in 1..n /\ (k - 1) + 1 = k
      BY <1>1, <2>2
    <3> QED
      BY <1>1, <1>4, <1>11, <3>1, Zenon
  <2> QED
    BY <2>1, <2>2
<1>13. ASSUME NEW k \in 1..n, NEW i \in 1..4
       PROVE  populate_rows[k + 1][i] =
                 IF listing[k][_TABLE_COLUMNS[i]] = None THEN <<>>
                 ELSE listing[k][_TABLE_COLUMNS[i]]
  BY <1>1, <1>4, <1>11, Zenon
<1> QED
  BY <1>3, <1>8, <1>9, <1>10, <1>12, <1>13, Zenon DEF n

\* What is printed is what the call's outcome renders to.
RInv == printed # NotYet => /\ status = "returned"
                            /\ printed = IF how.reports THEN render_reports ELSE render_users

\* It holds in every state, and find_users runs in the script as it does alone.
LEMMA RInvInductive == RenderSpec => []FInv /\ []FieldsFaithful /\ []RInv
<1>1. RenderSpec => Spec
  <2>1. RenderInit => Init
    BY DEF RenderInit
  <2>2. [RenderNext]_<<vars, renderVars>> => [Next]_vars
    BY DEF RenderNext, Output
  <2> QED
    BY <2>1, <2>2, PTL DEF RenderSpec, Spec
<1>2. RenderInit => RInv
  BY DEF RenderInit, RInv
<1>3. ASSUME RInv, [RenderNext]_<<vars, renderVars>> PROVE RInv'
  <2> USE <1>3
  <2>1. CASE Output
    <3>1. /\ status = "returned" /\ printed' = IF how.reports THEN render_reports ELSE render_users
          /\ status' = status /\ users' = users /\ how' = how
      BY <2>1 DEF Output, vars
    <3>2. listing' = listing
      BY <3>1, Zenon DEF listing
    <3>3. populate_rows' = populate_rows
      BY <3>2, Zenon DEF populate_rows
    <3>4. format_users' = format_users /\ format_raw' = format_raw
      BY <3>1, <3>2, <3>3, Zenon DEF format_users, format_raw
    <3>5. render_users' = render_users
      BY <3>1, <3>4, Zenon DEF render_users
    <3>6. render_reports' = render_reports
      BY <3>2, <3>5, Zenon DEF render_reports
    <3> QED
      BY <3>1, <3>5, <3>6, Zenon DEF RInv
  <2>2. CASE Next /\ UNCHANGED renderVars
    <3>1. status # "returned"
      BY <2>2 DEF Next, Ask, Refuse, Answer, RejectFilter
    <3> QED
      BY <2>2, <3>1, Zenon DEF RInv, renderVars, NotYet
  <2>3. CASE UNCHANGED <<vars, renderVars>>
    <3>1. /\ status' = status /\ users' = users /\ how' = how /\ printed' = printed
      BY <2>3 DEF vars, renderVars
    <3>2. listing' = listing
      BY <3>1, Zenon DEF listing
    <3>3. populate_rows' = populate_rows
      BY <3>2, Zenon DEF populate_rows
    <3>4. format_users' = format_users /\ format_raw' = format_raw
      BY <3>1, <3>2, <3>3, Zenon DEF format_users, format_raw
    <3>5. render_users' = render_users
      BY <3>1, <3>4, Zenon DEF render_users
    <3>6. render_reports' = render_reports
      BY <3>2, <3>5, Zenon DEF render_reports
    <3> QED
      BY <3>1, <3>5, <3>6, Zenon DEF RInv, NotYet
  <2> QED
    BY <2>1, <2>2, <2>3, Zenon DEF RenderNext
<1>4. RenderSpec => []RInv
  BY <1>2, <1>3, PTL DEF RenderSpec
<1> QED
  BY <1>1, <1>4, FInvInductive, UsersAreFaithful, PTL

\* A printed table can be read: cut where its ruler's columns begin, its lines give
\* back every title and every user's fields, whatever their lengths, and blank,
\* empty or missing values too.
THEOREM TablesReadBack == RenderSpec => []TableReadsBack
<1>1. FInv /\ FieldsFaithful /\ RInv => TableReadsBack
  <2> SUFFICES ASSUME FInv, FieldsFaithful, RInv, printed # NotYet, how.fmt = "table", ~ how.raw
               PROVE  /\ Cardinality(Starts) = Len(_TABLE_COLUMNS)
                      /\ \A i \in DOMAIN _TABLE_COLUMNS :
                            LET column == _TABLE_COLUMNS[i] IN
                            /\ CellOf(printed[1].of, i) = Title[column]
                            /\ \A k \in DOMAIN listing :
                                  CellOf(printed[k + 2].of, i) =
                                      IF listing[k][column] = None THEN <<>>
                                      ELSE rstrip(listing[k][column])
    BY Zenon DEF TableReadsBack
  <2> DEFINE rows == populate_rows
             w == define_column_widths(rows)
             n == Len(listing)
             line == [is |-> "line", of |-> <<>>]
             count == [is |-> "count", of |-> Len(listing)]
  <2>1. render_users = build_table(rows, w)
    <3>1. how.fmt # "csv" /\ how.fmt # "json"
      OBVIOUS
    <3> QED
      BY <3>1, Zenon DEF render_users, format_users
  <2>2. \/ printed = build_table(rows, w)
        \/ printed = build_table(rows, w) \o <<line, count>>
    BY <2>1, Zenon DEF RInv, render_reports
  <2>3. listing \in Seq(users)
    BY UsersListed
  <2>4. n \in Nat /\ DOMAIN listing = 1..n
    BY <2>3
  <2>5. /\ Len(rows) = n + 1 /\ DOMAIN rows = 1..(n + 1)
        /\ \A k \in 1..(n + 1) : IsRow(rows[k])
        /\ \A i \in 1..4 : rows[1][i] = Title[_TABLE_COLUMNS[i]]
        /\ \A k \in 1..n : \A i \in 1..4 :
              rows[k + 1][i] = IF listing[k][_TABLE_COLUMNS[i]] = None THEN <<>>
                               ELSE listing[k][_TABLE_COLUMNS[i]]
    BY <2>3, RowsAre, Zenon
  <2> HIDE DEF rows, w, n, line, count
  <2>6. Len(rows) \in Nat \ {0} /\ Len(rows) - 1 = n
    BY <2>4, <2>5
  <2>7. TableOf(printed, rows, w)
    BY <2>2, <2>6, TableIs, Zenon
  <2>8. \A i \in 1..4 : /\ Title[_TABLE_COLUMNS[i]] \in Seq(Chars)
                        /\ Title[_TABLE_COLUMNS[i]] # <<>>
                        /\ rstrip(Title[_TABLE_COLUMNS[i]]) = Title[_TABLE_COLUMNS[i]]
    <3> TAKE i \in 1..4
    <3> DEFINE title == Title[_TABLE_COLUMNS[i]]
    <3>1. title \in Text /\ title # <<>> /\ title[Len(title)] # Blank
      BY ColumnsAre, RenderingAssumption
    <3> HIDE DEF title
    <3>2. title \in Seq(Chars)
      BY <3>1 DEF Text, Chars
    <3>3. rstrip(title) = title
      BY <3>1, <3>2, StrippedAlready
    <3> QED
      BY <3>1, <3>2, <3>3 DEF title
  <2>9. /\ Cardinality(Starts) = 4
        /\ \A i \in 1..4 :
             /\ CellOf(printed[1].of, i) = rstrip(rows[1][i])
             /\ \A k \in 1..n : CellOf(printed[k + 2].of, i) = rstrip(rows[k + 1][i])
    <3>1. \A i \in 1..4 : rows[1][i] # <<>>
      BY <2>5, <2>8
    <3>2. DOMAIN rows = 1..Len(rows) /\ \A k \in 1..Len(rows) : IsRow(rows[k])
      BY <2>5
    <3>3. TableOf(printed, rows, define_column_widths(rows))
      BY <2>7 DEF w
    <3> QED
      BY <2>6, <3>1, <3>2, <3>3, RowsReadBack
  <2>10. rstrip(<<>>) = <<>>
    <3>1. <<>> \in Seq(Chars)
      OBVIOUS
    <3> QED
      BY <3>1, StrippedAlready
  <2>11. ASSUME NEW i \in 1..4, NEW k \in 1..n
         PROVE  CellOf(printed[k + 2].of, i) =
                   IF listing[k][_TABLE_COLUMNS[i]] = None THEN <<>>
                   ELSE rstrip(listing[k][_TABLE_COLUMNS[i]])
    <3>1. CellOf(printed[k + 2].of, i) = rstrip(rows[k + 1][i])
      BY <2>9
    <3>2. rows[k + 1][i] = IF listing[k][_TABLE_COLUMNS[i]] = None THEN <<>>
                           ELSE listing[k][_TABLE_COLUMNS[i]]
      BY <2>5
    <3> QED
      BY <2>10, <3>1, <3>2, Zenon
  <2>12. \A i \in 1..4 : CellOf(printed[1].of, i) = Title[_TABLE_COLUMNS[i]]
    BY <2>5, <2>8, <2>9, Zenon
  <2>13. DOMAIN _TABLE_COLUMNS = 1..4 /\ Len(_TABLE_COLUMNS) = 4
    BY ColumnsAre
  <2> QED
    BY <2>4, <2>9, <2>11, <2>12, <2>13, Zenon
<1> QED
  BY <1>1, RInvInductive, PTL
=============================================================================
