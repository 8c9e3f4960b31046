-------------------------- MODULE PagedSearchProofs --------------------------
(***************************************************************************)
(* Proofs about PagedSearch, for every page size, cap, number of referrals *)
(* and changes.  The inductive invariant says that what the server sent is *)
(* what was kept and what waits in the page, each entry once, and that a   *)
(* server without more to send has sent all that matched throughout.       *)
(***************************************************************************)
EXTENDS PagedSearch, TLAPS, FiniteSetTheorems

\* No two places of a list hold the same entry.
Once(s) == \A i, j \in DOMAIN s : s[i] = s[j] /\ IsEntry(s[i]) => i = j

Accounted ==
    /\ sent = Listed(results) \cup EntriesOf(page)
    /\ Listed(results) \cap EntriesOf(page) = {}
    /\ Once(results)
    /\ Once(page)

Matched ==
    /\ always \subseteq matching
    /\ matching \subseteq ever
    /\ sent \subseteq ever
    /\ ~ cookie => always \subseteq sent

Capped ==
    /\ limit \in Nat => Len(results) <= limit
    /\ op = "_find_one" => limit = 2

Fresh ==
    /\ status = "start" => results = <<>> /\ page = <<>>
    /\ status \in {"start", "pulling"} => outcome = "pending" /\ answer = <<>>
    /\ status = "pulling" => limit \notin BadLimits

IInv == TypeOK /\ Accounted /\ Matched /\ Capped /\ Fresh /\ StopsPaging /\ OnlyLibraryErrors

-----------------------------------------------------------------------------
(* Lists *)

\* What a list holds after an item is looked at and kept or dropped.
LEMMA TakeSplits ==
    ASSUME NEW s \in Seq(Item), s # <<>>, Once(s)
    PROVE  /\ Head(s) \in Item /\ Tail(s) \in Seq(Item) /\ Once(Tail(s))
           /\ IsEntry(Head(s)) => /\ EntriesOf(s) = {Head(s)} \cup EntriesOf(Tail(s))
                                  /\ Head(s) \notin EntriesOf(Tail(s))
           /\ ~ IsEntry(Head(s)) => EntriesOf(s) = EntriesOf(Tail(s))
  <1>1. /\ 1 \in DOMAIN s /\ s[1] = Head(s) /\ Head(s) \in Item
        /\ Tail(s) \in Seq(Item)
    OBVIOUS
  <1>2. \A i \in DOMAIN Tail(s) : /\ i + 1 \in DOMAIN s /\ i + 1 # 1
                                  /\ Tail(s)[i] = s[i + 1]
    OBVIOUS
  <1>3. \A i \in DOMAIN s : i = 1 \/ (i - 1 \in DOMAIN Tail(s) /\ Tail(s)[i - 1] = s[i])
    OBVIOUS
  <1>4. Once(Tail(s))
    <2>1. SUFFICES ASSUME NEW i \in DOMAIN Tail(s), NEW j \in DOMAIN Tail(s),
                          Tail(s)[i] = Tail(s)[j], IsEntry(Tail(s)[i])
                   PROVE  i = j
      BY DEF Once
    <2>2. i + 1 = j + 1
      BY <1>2, <2>1 DEF Once
    <2> QED
      BY <2>2
  <1>5. EntriesOf(Tail(s)) \subseteq EntriesOf(s)
    BY <1>2 DEF EntriesOf
  <1>6. ASSUME NEW e \in EntriesOf(s) PROVE e = Head(s) \/ e \in EntriesOf(Tail(s))
    <2>1. PICK i \in DOMAIN s : e = s[i] /\ IsEntry(s[i])
      BY DEF EntriesOf
    <2>2. CASE i - 1 \in DOMAIN Tail(s) /\ Tail(s)[i - 1] = s[i]
      BY <2>1, <2>2 DEF EntriesOf
    <2> QED
      BY <1>1, <1>3, <2>1, <2>2
  <1>7. IsEntry(Head(s)) => Head(s) \in EntriesOf(s)
    BY <1>1 DEF EntriesOf
  <1>8. \A e \in EntriesOf(s) : IsEntry(e)
    BY DEF EntriesOf
  <1>9. ASSUME IsEntry(Head(s)), Head(s) \in EntriesOf(Tail(s)) PROVE FALSE
    <2>1. PICK i \in DOMAIN Tail(s) : Head(s) = Tail(s)[i]
      BY <1>9 DEF EntriesOf
    <2> QED
      BY <1>1, <1>2, <1>9, <2>1 DEF Once
  <1> QED
    BY <1>1, <1>4, <1>5, <1>6, <1>7, <1>8, <1>9

\* A list with one more entry.
LEMMA KeepEntry ==
    ASSUME NEW s \in Seq(Entry), NEW e \in Entry, Once(s), e \notin Listed(s)
    PROVE  /\ s \o <<e>> \in Seq(Entry)
           /\ Len(s \o <<e>>) = Len(s) + 1
           /\ Listed(s \o <<e>>) = Listed(s) \cup {e}
           /\ Once(s \o <<e>>)
  <1> DEFINE t == s \o <<e>>
  <1>1. t \in Seq(Entry) /\ Len(t) = Len(s) + 1
    OBVIOUS
  <1>2. \A i \in DOMAIN t : \/ i \in DOMAIN s /\ t[i] = s[i]
                            \/ i = Len(s) + 1 /\ t[i] = e
    OBVIOUS
  <1>3. \A i \in DOMAIN s : i \in DOMAIN t /\ t[i] = s[i]
    OBVIOUS
  <1>4. Len(s) + 1 \in DOMAIN t /\ t[Len(s) + 1] = e
    OBVIOUS
  <1> HIDE DEF t
  <1>5. Listed(t) = Listed(s) \cup {e}
    BY <1>2, <1>3, <1>4 DEF Listed
  <1>6. Once(t)
    BY <1>2 DEF Once, Listed
  <1> QED
    BY <1>1, <1>5, <1>6 DEF t

\* A list holds no more entries than it has places.
LEMMA ListedBound ==
    ASSUME NEW n \in Nat, NEW s, DOMAIN s = 1..n, NEW T, T \subseteq Listed(s)
    PROVE  IsFiniteSet(T) /\ Cardinality(T) <= n
  <1> DEFINE f == [i \in 1..n |-> s[i]]
  <1>1. f \in Surjection(1..n, Listed(s))
    BY DEF Surjection, Listed
  <1>2. IsFiniteSet(1..n) /\ Cardinality(1..n) = n
    BY FS_Interval
  <1>3. IsFiniteSet(Listed(s)) /\ Cardinality(Listed(s)) <= n
    BY <1>1, <1>2, FS_Surjection
  <1>4. /\ IsFiniteSet(T) /\ Cardinality(T) <= Cardinality(Listed(s))
        /\ Cardinality(T) \in Nat /\ Cardinality(Listed(s)) \in Nat
    BY <1>3, FS_Subset, FS_CardinalityType
  <1> QED
    BY <1>3, <1>4

-----------------------------------------------------------------------------
(* The invariant *)

\* What the translation makes of the exceptions a site may meet.
LEMMA Translated ==
    /\ \A exc \in BindSite :
          translated(exc, BindFallback) \in {"LDAPAuthError", "LDAPConnectionError"}
    /\ \A exc \in QuerySite :
          translated(exc, "LDAPQueryError") \in {"LDAPConnectionError", "LDAPQueryError"}
  <1>1. \A exc \in BindSite : "LDAPException" \in Bases[exc]
    BY DEF BindSite, Bases
  <1>2. \A exc \in BindSite : ~ Catches(QUERY_ERRORS, exc)
    BY DEF BindSite, Bases, Catches, QUERY_ERRORS
  <1>3. \A exc \in QuerySite : "LDAPException" \in Bases[exc]
    BY DEF QuerySite, Bases
  <1>4. \A exc \in QuerySite : ~ Catches(AUTH_ERRORS, exc)
    BY DEF QuerySite, Bases, Catches, AUTH_ERRORS
  <1>5. \A exc \in BindSite \cup QuerySite : Catches({"LDAPException"}, exc)
    BY <1>1, <1>3 DEF Catches
  <1> QED
    BY <1>2, <1>4, <1>5 DEF translated, BindFallback

\* It lets an exception through that is not ldap3's.
LEMMA ForeignPasses == translated("foreign", "LDAPQueryError") = "foreign"
  <1>1. Bases["foreign"] = {}
    BY DEF Bases
  <1> QED
    BY <1>1 DEF translated, Catches

LEMMA IInvInit == Init => IInv
  <1> SUFFICES ASSUME Init PROVE IInv
    OBVIOUS
  <1> USE SearchAssumption, PagedSearchAssumption
  <1>1. Listed(<<>>) = {} /\ EntriesOf(<<>>) = {} /\ Once(<<>>)
    BY DEF Listed, EntriesOf, Once
  <1>2. Cardinality({}) = 0
    BY FS_EmptySet
  <1>3. TypeOK
    <2>1. /\ matching \subseteq Entry /\ ever \subseteq Entry /\ always \subseteq Entry
          /\ changes \in 0..MaxChanges
      BY MaxChanges \in Nat, 0 \in 0..MaxChanges DEF Init, MatchInit
    <2>2. op \in {"find_users", "_find_one"} /\ limit \in Nat \cup {NoLimit} \cup BadLimits
      <3>1. CASE op = "find_users" /\ limit \in Limits \cup {NoLimit} \cup BadLimits
        BY <3>1
      <3>2. CASE op = "_find_one" /\ limit = 2
        BY <3>2
      <3> QED
        BY <3>1, <3>2 DEF Init, CallInit
    <2>3. /\ outcome \in Outcomes /\ answer \in Seq(Entry)
          /\ status \in {"start", "pulling", "ended"}
          /\ page \in Seq(Item) /\ cookie \in BOOLEAN /\ sent \subseteq Entry
          /\ refs \in 0..MaxReferrals /\ results \in Seq(Entry)
      BY DEF Init, Outcomes
    <2> QED
      BY <2>1, <2>2, <2>3 DEF TypeOK
  <1>4. Accounted /\ Matched /\ Fresh
    BY <1>1 DEF Init, MatchInit, Accounted, Matched, Fresh
  <1>5. Capped
    BY DEF Init, CallInit, Capped
  <1>6. StopsPaging
    BY <1>2 DEF Init, CallInit, StopsPaging
  <1>7. OnlyLibraryErrors
    BY DEF Init, OnlyLibraryErrors
  <1> QED
    BY <1>3, <1>4, <1>5, <1>6, <1>7 DEF IInv

LEMMA IInvStep == IInv /\ [Next]_vars => IInv'
  <1> SUFFICES ASSUME IInv, [Next]_vars PROVE IInv'
    OBVIOUS
  <1> USE SearchAssumption, PagedSearchAssumption
  <1> USE DEF IInv
  <1>1. CASE BindFails \/ RefuseLimit \/ FetchFails
    <2>1. PICK error \in {"LDAPAuthError", "LDAPConnectionError", "LDAPQueryError", "foreign"} :
             RaisesAs(error) /\ (error = "foreign" => limit \in BadLimits)
      <3>1. CASE BindFails
        BY <3>1, Translated DEF BindFails
      <3>2. CASE RefuseLimit
        BY <3>2, ForeignPasses DEF RefuseLimit
      <3>3. CASE FetchFails
        BY <3>3, Translated DEF FetchFails
      <3> QED
        BY <1>1, <3>1, <3>2, <3>3
    <2>2. /\ status' = "ended" /\ outcome' = error /\ (error = "foreign" => limit \in BadLimits)
          /\ UNCHANGED <<matchVars, op, limit, answer, page, cookie, sent, refs, results>>
      BY <2>1 DEF RaisesAs
    <2>3. TypeOK'
      BY <2>2 DEF TypeOK, matchVars, Outcomes, LibraryErrors
    <2>4. Accounted' /\ Matched' /\ Capped' /\ Fresh' /\ StopsPaging'
      BY <2>2 DEF Accounted, Matched, Capped, Fresh, StopsPaging, matchVars
    <2>5. OnlyLibraryErrors'
      BY <2>2 DEF OnlyLibraryErrors, LibraryErrors
    <2> QED
      BY <2>3, <2>4, <2>5
  <1>2. CASE Start
    <2>1. /\ status = "start" /\ status' = "pulling" /\ limit \notin BadLimits
          /\ UNCHANGED <<matchVars, op, limit, outcome, answer, page, cookie, sent, refs, results>>
      BY <1>2 DEF Start
    <2>2. TypeOK'
      BY <2>1 DEF TypeOK, matchVars
    <2>3. Accounted' /\ Matched' /\ Capped' /\ Fresh' /\ StopsPaging'
          /\ OnlyLibraryErrors'
      BY <2>1 DEF Accounted, Matched, Capped, Fresh, StopsPaging, matchVars,
                  OnlyLibraryErrors
    <2> QED
      BY <2>2, <2>3
  <1>3. CASE FetchPage
    <2>1. /\ status = "pulling" /\ ~ Full /\ page = <<>> /\ cookie
          /\ UNCHANGED <<matchVars, op, limit, outcome, answer, status, results>>
      BY <1>3 DEF FetchPage
    <2>0. PICK n \in 0..PageSize : \E p \in Pages(n), more \in BOOLEAN :
             /\ ~ more => always \subseteq sent \cup EntriesOf(p)
             /\ page' = p
             /\ cookie' = more
             /\ sent' = sent \cup EntriesOf(p)
             /\ refs' = refs + Cardinality({i \in 1..n : ~ IsEntry(p[i])})
      BY <1>3 DEF FetchPage
    <2>2. PICK p \in Pages(n), more \in BOOLEAN :
             /\ ~ more => always \subseteq sent \cup EntriesOf(p)
             /\ page' = p
             /\ cookie' = more
             /\ sent' = sent \cup EntriesOf(p)
             /\ refs' = refs + Cardinality({i \in 1..n : ~ IsEntry(p[i])})
      BY <2>0
    <2> DEFINE R == {i \in 1..n : ~ IsEntry(p[i])}
    <2>3. /\ p \in [1..n -> (matching \ sent) \cup {Referral}]
          /\ \A i, j \in 1..n : p[i] = p[j] /\ IsEntry(p[i]) => i = j
          /\ refs + Cardinality(R) <= MaxReferrals
      BY DEF Pages
    <2>4. n \in Nat /\ p \in Seq(Item) /\ DOMAIN p = 1..n
      BY <2>3 DEF Item, TypeOK
    <2>5. /\ EntriesOf(p) \subseteq matching \ sent
          /\ EntriesOf(p) \subseteq Listed(p)
      BY <2>3, <2>4 DEF EntriesOf, Listed, IsEntry
    <2>6. Cardinality(R) \in Nat
      <3>1. IsFiniteSet(1..n) /\ R \in SUBSET (1..n)
        BY <2>4, FS_Interval
      <3> HIDE DEF R
      <3> QED
        BY <3>1, FS_Subset, FS_CardinalityType
    <2>7. TypeOK'
      <3>1. refs' \in 0..MaxReferrals
        BY <2>2, <2>3, <2>6 DEF TypeOK
      <3> QED
        BY <2>1, <2>2, <2>4, <2>5, <3>1 DEF TypeOK, matchVars
    <2>8. EntriesOf(<<>>) = {}
      BY DEF EntriesOf
    <2>9. Once(p)
      BY <2>3, <2>4 DEF Once
    <2>10. Accounted'
      BY <2>1, <2>2, <2>5, <2>8, <2>9 DEF Accounted
    <2>11. Matched' /\ Capped' /\ Fresh' /\ OnlyLibraryErrors'
      BY <2>1, <2>2, <2>5 DEF Matched, Capped, Fresh, OnlyLibraryErrors, matchVars
    <2>12. StopsPaging'
      <3>1. SUFFICES ASSUME limit \in Nat
                     PROVE  /\ limit # 0
                            /\ Cardinality(sent') <= limit - 1 + PageSize
        BY <2>1 DEF StopsPaging
      <3>2. Len(results) \in Nat /\ Len(results) < limit
        BY <2>1, <3>1 DEF Full, Capped, TypeOK
      <3>3. sent = Listed(results)
        BY <2>1, <2>8 DEF Accounted
      <3>4. IsFiniteSet(sent) /\ Cardinality(sent) <= Len(results)
        <4>1. DOMAIN results = 1..Len(results)
          BY DEF TypeOK
        <4> QED
          BY <3>2, <3>3, <4>1, ListedBound
      <3>5. IsFiniteSet(EntriesOf(p)) /\ Cardinality(EntriesOf(p)) <= n
        BY <2>4, <2>5, ListedBound
      <3>6. /\ Cardinality(sent \cup EntriesOf(p))
                 = Cardinality(sent) + Cardinality(EntriesOf(p))
                   - Cardinality(sent \cap EntriesOf(p))
            /\ Cardinality(sent) \in Nat /\ Cardinality(EntriesOf(p)) \in Nat
        BY <3>4, <3>5, FS_Union, FS_CardinalityType
      <3>7. sent \cap EntriesOf(p) = {} /\ Cardinality({}) = 0
        BY <2>5, FS_EmptySet
      <3>8. Cardinality(sent') = Cardinality(sent) + Cardinality(EntriesOf(p))
        <4>1. Cardinality(sent \cap EntriesOf(p)) = 0
          BY <3>7
        <4> QED
          BY <2>2, <3>6, <4>1
      <3> HIDE DEF R
      <3> QED
        BY <2>4, <3>1, <3>2, <3>4, <3>5, <3>6, <3>8
    <2> QED
      BY <2>7, <2>10, <2>11, <2>12
  <1>4. CASE TakeItem
    <2> DEFINE x == Head(page)
    <2>1. /\ status = "pulling" /\ ~ Full /\ page # <<>>
          /\ results' = results \o Kept(x) /\ page' = Tail(page)
          /\ UNCHANGED <<matchVars, op, limit, outcome, answer, status, cookie, sent, refs>>
      BY <1>4 DEF TakeItem, Advance
    <2>2. /\ x \in Item /\ Tail(page) \in Seq(Item) /\ Once(Tail(page))
          /\ IsEntry(x) => /\ EntriesOf(page) = {x} \cup EntriesOf(Tail(page))
                           /\ x \notin EntriesOf(Tail(page))
          /\ ~ IsEntry(x) => EntriesOf(page) = EntriesOf(Tail(page))
      BY <2>1, TakeSplits DEF TypeOK, Accounted
    <2>3. Matched' /\ Fresh' /\ StopsPaging' /\ OnlyLibraryErrors'
      BY <2>1 DEF Matched, Fresh, StopsPaging, OnlyLibraryErrors, matchVars
    <2>4. CASE ~ IsEntry(x)
      <3>1. results' = results
        BY <2>1, <2>4 DEF Kept, TypeOK
      <3>2. TypeOK' /\ Accounted' /\ Capped'
        BY <2>1, <2>2, <2>4, <3>1 DEF TypeOK, Accounted, Capped, matchVars
      <3> QED
        BY <2>3, <3>2
    <2>5. CASE IsEntry(x)
      <3>1. x \in Entry /\ results' = results \o <<x>> /\ results \in Seq(Entry)
        BY <2>1, <2>2, <2>5 DEF Kept, Item, IsEntry, TypeOK
      <3>2. x \notin Listed(results)
        BY <2>2, <2>5 DEF Accounted
      <3>3. /\ results' \in Seq(Entry) /\ Len(results') = Len(results) + 1
            /\ Listed(results') = Listed(results) \cup {x} /\ Once(results')
        BY <3>1, <3>2, KeepEntry DEF Accounted
      <3>4. TypeOK'
        BY <2>1, <2>2, <3>3 DEF TypeOK, matchVars
      <3>5. Accounted'
        BY <2>1, <2>2, <2>5, <3>2, <3>3 DEF Accounted
      <3>6. Capped'
        BY <2>1, <3>1, <3>3 DEF Capped, Full
      <3> QED
        BY <2>3, <3>4, <3>5, <3>6
    <2> QED
      BY <2>4, <2>5
  <1>5. CASE End
    <2>1. /\ status = "pulling" /\ status' = "ended" /\ outcome' = Verdict
          /\ answer' = IF Verdict = "returned"
                       THEN IF op = "_find_one" THEN <<results[1]>> ELSE results
                       ELSE <<>>
          /\ UNCHANGED <<matchVars, op, limit, page, cookie, sent, refs, results>>
      BY <1>5 DEF End
    <2>2. answer' \in Seq(Entry)
      <3>1. CASE Verdict = "returned" /\ op = "_find_one"
        <4>1. results # <<>>
          BY <3>1 DEF Verdict
        <4>2. results[1] \in Entry
          BY <4>1 DEF TypeOK
        <4> QED
          BY <2>1, <3>1, <4>2
      <3> QED
        BY <2>1, <3>1 DEF TypeOK
    <2>3. TypeOK'
      BY <2>1, <2>2 DEF TypeOK, matchVars, Verdict, Outcomes
    <2>4. Accounted' /\ Matched' /\ Capped' /\ Fresh' /\ StopsPaging'
      BY <2>1 DEF Accounted, Matched, Capped, Fresh, StopsPaging, matchVars
    <2>5. OnlyLibraryErrors'
      BY <2>1 DEF OnlyLibraryErrors, Verdict
    <2> QED
      BY <2>3, <2>4, <2>5
  <1>6. CASE DirectoryChange
    <2>1. MatchChange /\ UNCHANGED <<searchVars, answer>>
      BY <1>6 DEF DirectoryChange
    <2>2. PICK e \in Entry :
             matching' = IF e \in matching THEN matching \ {e} ELSE matching \cup {e}
      BY <2>1 DEF MatchChange
    <2>3. /\ changes < MaxChanges /\ changes' = changes + 1
          /\ ever' = ever \cup matching' /\ always' = always \cap matching'
      BY <2>1 DEF MatchChange
    <2>4. TypeOK'
      BY <2>1, <2>2, <2>3 DEF TypeOK, searchVars
    <2>5. Accounted' /\ Capped' /\ Fresh' /\ StopsPaging' /\ OnlyLibraryErrors'
      BY <2>1 DEF Accounted, Capped, Fresh, StopsPaging, OnlyLibraryErrors, searchVars
    <2>6. Matched'
      BY <2>1, <2>3 DEF Matched, searchVars
    <2> QED
      BY <2>4, <2>5, <2>6
  <1>7. CASE UNCHANGED vars
    <2>1. UNCHANGED <<matchVars, answer, searchVars>>
      BY <1>7 DEF vars
    <2>2. TypeOK'
      BY <2>1 DEF TypeOK, matchVars, searchVars
    <2>3. Accounted' /\ Matched' /\ Capped' /\ Fresh' /\ StopsPaging'
      BY <2>1 DEF Accounted, Matched, Capped, Fresh, StopsPaging, matchVars, searchVars
    <2>4. OnlyLibraryErrors'
      BY <2>1 DEF OnlyLibraryErrors, searchVars
    <2> QED
      BY <2>2, <2>3, <2>4
  <1> QED
    BY <1>1, <1>2, <1>3, <1>4, <1>5, <1>6, <1>7 DEF Next, Search

LEMMA IInvHolds == PagedSpec => []IInv
  BY IInvInit, IInvStep, PTL DEF PagedSpec

-----------------------------------------------------------------------------
(* What follows *)

\* Every variable of the search keeps its type.
THEOREM TypeCorrect == PagedSpec => []TypeOK
  <1>1. IInv => TypeOK
    BY DEF IInv
  <1> QED
    BY <1>1, IInvHolds, PTL

\* Less than a page is received beyond the cap, whatever the cap, the page size
\* and the referrals between the entries.
THEOREM CapStopsPaging == PagedSpec => []StopsPaging
  <1>1. IInv => StopsPaging
    BY DEF IInv
  <1> QED
    BY <1>1, IInvHolds, PTL

\* No exception but this library's leaves a search whose cap is a cap.
THEOREM NothingElseEscapes == PagedSpec => []OnlyLibraryErrors
  <1>1. IInv => OnlyLibraryErrors
    BY DEF IInv
  <1> QED
    BY <1>1, IInvHolds, PTL

\* A failure to bind is never reported as a query error.
THEOREM BindNeverQuery == PagedSpec => BindIsNoQuery
  <1>1. ASSUME IInv, [Next]_vars
        PROVE  [status = "start" => outcome' # "LDAPQueryError"]_vars
    <2> SUFFICES ASSUME Next, status = "start" PROVE outcome' # "LDAPQueryError"
      BY <1>1
    <2>1. outcome = "pending"
      BY <1>1 DEF IInv, Fresh
    <2>2. CASE BindFails
      BY <2>2, Translated DEF BindFails, RaisesAs
    <2>3. CASE RefuseLimit
      BY <2>3, ForeignPasses DEF RefuseLimit, RaisesAs
    <2>4. CASE Start \/ DirectoryChange
      BY <2>1, <2>4 DEF Start, DirectoryChange, searchVars
    <2>5. CASE FetchPage \/ FetchFails \/ TakeItem \/ End
      BY <2>5 DEF FetchPage, FetchFails, TakeItem, End
    <2> QED
      BY <2>2, <2>3, <2>4, <2>5 DEF Next, Search
  <1> QED
    BY <1>1, IInvHolds, PTL DEF PagedSpec, BindIsNoQuery

-----------------------------------------------------------------------------
(* Refinement *)

\* The finished list is as complete and as sound as the cap allows.
LEMMA EndIsGood ==
    ASSUME IInv, status = "pulling", Full \/ (page = <<>> /\ ~ cookie)
    PROVE  Good(results)
  <1>1. EntriesOf(<<>>) = {}
    BY DEF EntriesOf
  <1>2. \A i, j \in DOMAIN results : results[i] = results[j] => i = j
    <2>1. \A i \in DOMAIN results : IsEntry(results[i])
      BY PagedSearchAssumption DEF IInv, TypeOK, IsEntry
    <2> QED
      BY <2>1 DEF IInv, Accounted, Once
  <1>3. Listed(results) \subseteq ever
    BY DEF IInv, Accounted, Matched
  <1>4. limit # NoLimit => Len(results) <= limit
    BY PagedSearchAssumption DEF IInv, TypeOK, Capped, Fresh
  <1>5. CASE Full
    BY <1>2, <1>3, <1>4, <1>5 DEF Full, Good
  <1>6. CASE page = <<>> /\ ~ cookie
    BY <1>1, <1>2, <1>3, <1>4, <1>6 DEF IInv, Accounted, Matched, Good
  <1> QED
    BY <1>5, <1>6

LEMMA EndMeetsSpec == ASSUME IInv, End PROVE Finish
  <1>1. /\ status = "pulling" /\ outcome = "pending" /\ outcome' = Verdict
        /\ Full \/ (page = <<>> /\ ~ cookie)
        /\ answer' = IF Verdict = "returned"
                     THEN IF op = "_find_one" THEN <<results[1]>> ELSE results
                     ELSE <<>>
        /\ answer = <<>>
        /\ UNCHANGED <<matchVars, op, limit>>
    BY DEF IInv, Fresh, End
  <1>2. Good(results)
    BY <1>1, EndIsGood
  <1>3. results \in Seq(Entry)
    BY DEF IInv, TypeOK
  <1>4. CASE op = "find_users"
    <2>1. Verdict = "returned"
      BY <1>4 DEF Verdict
    <2>2. Return
      BY <1>1, <1>2, <1>3, <1>4, <2>1 DEF Return, Good, Listed, matchVars, IInv, Fresh
    <2> QED
      BY <1>1, <2>2 DEF Finish
  <1>5. CASE op = "_find_one"
    <2>1. limit = 2 /\ limit # NoLimit
      BY <1>5, SearchAssumption DEF IInv, Capped
    <2>2. CASE results = <<>>
      <3>1. Verdict = "no match"
        BY <1>5, <2>2 DEF Verdict
      <3>2. always = {}
        BY <1>2, <2>1, <2>2 DEF Good, Listed
      <3>3. RaiseNone
        BY <1>1, <1>5, <3>1, <3>2 DEF RaiseNone
      <3> QED
        BY <1>1, <3>3 DEF Finish
    <2>3. CASE Len(results) > 1
      <3>1. Verdict = "many matches"
        BY <1>3, <1>5, <2>3 DEF Verdict
      <3>2. 1 \in DOMAIN results /\ 2 \in DOMAIN results
        BY <1>3, <2>3
      <3>3. results[1] # results[2] /\ results[1] \in ever /\ results[2] \in ever
        BY <1>2, <3>2 DEF Good, Listed
      <3>4. RaiseMany
        BY <1>1, <1>5, <3>1, <3>3 DEF RaiseMany
      <3> QED
        BY <1>1, <3>4 DEF Finish
    <2>4. CASE Len(results) = 1
      <3>1. Verdict = "returned"
        BY <1>3, <2>4 DEF Verdict
      <3>2. DOMAIN results = {1}
        BY <1>3, <2>4
      <3>3. Listed(results) = {results[1]}
        BY <3>2 DEF Listed
      <3>4. results[1] \in ever /\ always \subseteq {results[1]}
        BY <1>2, <2>1, <2>4, <3>3 DEF Good
      <3>5. ReturnOne
        BY <1>1, <1>5, <3>1, <3>4 DEF ReturnOne
      <3> QED
        BY <1>1, <3>5 DEF Finish
    <2>5. Len(results) \in Nat
      BY <1>3
    <2>6. CASE Len(results) = 0
      <3>1. results = <<>>
        BY <1>3, <2>6
      <3> QED
        BY <2>2, <3>1
    <2>7. Len(results) = 0 \/ Len(results) = 1 \/ Len(results) > 1
      <3>1. \A n \in Nat : n = 0 \/ n = 1 \/ n > 1
        OBVIOUS
      <3> QED
        BY <2>5, <3>1
    <2> QED
      BY <2>3, <2>4, <2>6, <2>7, Zenon
  <1> QED
    BY <1>4, <1>5 DEF IInv, TypeOK

LEMMA StepMeetsSpec ==
    ASSUME IInv, [Next]_vars
    PROVE  [Finish \/ SpecChange]_specVars
  <1> USE DEF specVars
  <1>1. CASE BindFails \/ RefuseLimit \/ FetchFails
    <2>1. PICK error \in {"LDAPAuthError", "LDAPConnectionError", "LDAPQueryError", "foreign"} :
             /\ RaisesAs(error) /\ status \in {"start", "pulling"}
             /\ error = "foreign" => limit \in BadLimits
      <3>1. CASE BindFails
        BY <3>1, Translated DEF BindFails
      <3>2. CASE RefuseLimit
        BY <3>2, ForeignPasses DEF RefuseLimit
      <3>3. CASE FetchFails
        BY <3>3, Translated DEF FetchFails
      <3> QED
        BY <1>1, <3>1, <3>2, <3>3
    <2>2. Raise \/ Refuse
      BY <2>1 DEF RaisesAs, Raise, Refuse
    <2>3. outcome = "pending" /\ UNCHANGED <<matchVars, op, limit>>
      BY <2>1 DEF IInv, Fresh, RaisesAs
    <2> QED
      BY <2>2, <2>3 DEF Finish
  <1>2. CASE Start \/ FetchPage \/ TakeItem
    <2>1. UNCHANGED <<matchVars, op, limit, outcome, answer>>
      BY <1>2 DEF Start, FetchPage, TakeItem
    <2> QED
      BY <2>1
  <1>3. CASE End
    BY <1>3, EndMeetsSpec
  <1>4. CASE DirectoryChange
    BY <1>4 DEF DirectoryChange, SpecChange, searchVars
  <1>5. CASE UNCHANGED vars
    BY <1>5 DEF vars, searchVars
  <1> QED
    BY <1>1, <1>2, <1>3, <1>4, <1>5 DEF Next, Search

\* A paged search implements its specification: with any page size, any mix of
\* referrals and any changes between pages it returns an answer as complete as
\* the cap allows, or one exception and nothing else.
THEOREM Refinement == PagedSpec => MeetsSpec
  <1>1. Init => SpecInit
    BY DEF Init, SpecInit
  <1>2. IInv /\ [Next]_vars => [Finish \/ SpecChange]_specVars
    BY StepMeetsSpec
  <1> QED
    BY <1>1, <1>2, IInvHolds, PTL DEF PagedSpec, MeetsSpec, Spec
=============================================================================
