-------------------------- MODULE GroupMembersProofs --------------------------
(***************************************************************************)
(* Proofs about GroupMembers, for any directory and any number of changes: *)
(* by_group keeps its types and implements GroupSpec.  The inductive       *)
(* invariant ties what the running query has seen (Seen) and the DN that   *)
(* was resolved (Named) to the histories of the specification, which hold  *)
(* what the directory says now (Current).                                  *)
(***************************************************************************)
EXTENDS GroupMembers, TLAPS

\* What the directory says now is in the histories, and a DN names itself.
Current ==
    /\ NamedNow \subseteq named.ever /\ named.always \subseteq NamedNow
    /\ MemberNow \subseteq member.ever /\ member.always \subseteq MemberNow
    /\ is_dn(call.group) => named.ever = {call.group}

\* The users that a history says may and must be listed for a DN.
Of(pairs, d) == {u \in User : <<u, d>> \in pairs}

\* What the running query may and must return, in terms of the histories.
Seen ==
    /\ status = "resolving" =>
         /\ ~ is_dn(call.group)
         /\ window.ever \subseteq named.ever /\ named.always \subseteq window.always
    /\ status = "listing" =>
         /\ window.ever \subseteq Of(member.ever, group_dn)
         /\ Of(member.always, group_dn) \subseteq window.always

\* The DN that was resolved was named at some moment, and no other throughout.
Named == status \in {"resolved", "listing"} =>
            group_dn \in named.ever /\ named.always \subseteq {group_dn}

IInv == /\ TypeOK
        /\ status # "ended" => outcome = "pending" /\ answer = {}
        /\ Current
        /\ Seen
        /\ Named

-----------------------------------------------------------------------------
\* What a name is looked up by, and below what a listing selects, are what the
\* specification means by them.
LEMMA NowTypes ==
    ASSUME TypeOK
    PROVE  /\ LookedUpNow \subseteq DN
           /\ ~ is_dn(call.group) => LookedUpNow = NamedNow
BY GroupAssumption DEF NamedNow, LookedUpNow, is_dn

LEMMA ListedIsMember == \A d \in DN : ListedNow(d) = Of(MemberNow, d)
<1> SUFFICES ASSUME NEW d \in DN PROVE ListedNow(d) = Of(MemberNow, d)
  OBVIOUS
<1>1. ASSUME NEW u \in User
      PROVE  u \in ListedNow(d) <=> <<u, d>> \in MemberNow
  <2>1. ("not disabled" \in Clauses => u \notin disabled) <=> Wanted(u)
    BY DEF Clauses, Wanted
  <2>2. ASSUME NEW g \in Group
        PROVE  (g \in IF GroupClause = "equal" THEN memberOf[u] ELSE Chain(u))
                 <=> Belongs(u, g)
    BY DEF GroupClause, Belongs
  <2>3. u \in ListedNow(d) <=> Wanted(u) /\ \E g \in Group : dn[g] = d /\ Belongs(u, g)
    BY <2>1, <2>2 DEF ListedNow
  <2>4. <<u, d>> \in MemberNow <=> Wanted(u) /\ \E g \in Group : dn[g] = d /\ Belongs(u, g)
    BY DEF MemberNow
  <2> QED
    BY <2>3, <2>4
<1>2. ListedNow(d) \subseteq User
  BY DEF ListedNow
<1> QED
  BY <1>1, <1>2 DEF Of

-----------------------------------------------------------------------------
LEMMA InitInv == ASSUME Init PROVE IInv
<1> USE DEF Init, SpecInit, DirInit
<1>1. /\ NamedNow \subseteq DN /\ MemberNow \subseteq User \X DN
  BY GroupAssumption DEF NamedNow, MemberNow, is_dn
<1>2. /\ named.ever = NamedNow /\ named.always = NamedNow
      /\ member.ever = MemberNow /\ member.always = MemberNow
      /\ named \in [ever : SUBSET DN, always : SUBSET DN]
      /\ member \in [ever : SUBSET (User \X DN), always : SUBSET (User \X DN)]
      /\ window \in [ever : SUBSET (DN \cup User), always : SUBSET (DN \cup User)]
  BY <1>1 DEF History, Closed
<1>3. memberOf \in [User \cup Group -> SUBSET Group]
  OBVIOUS
<1>4. TypeOK
  BY <1>1, <1>2, <1>3, GroupAssumption DEF TypeOK
<1>5. Current
  BY <1>2 DEF Current, NamedNow
<1> QED
  BY <1>4, <1>5 DEF IInv, Seen, Named

\* While no moment passes, the histories and what they say stay.
LEMMA CurrentStays ==
    ASSUME IInv, UNCHANGED dirVars
    PROVE  /\ Current'
           /\ LookedUpNow' = LookedUpNow /\ MemberNow' = MemberNow
<1>1. /\ NamedNow' = NamedNow /\ MemberNow' = MemberNow /\ LookedUpNow' = LookedUpNow
  BY DEF NamedNow, MemberNow, LookedUpNow, Wanted, Belongs, Chain, is_dn, dirVars
<1> QED
  BY <1>1 DEF IInv, Current, dirVars, is_dn

LEMMA TakeDNInv == ASSUME IInv, TakeDN PROVE IInv'
<1> USE DEF TakeDN, specVars
<1>1. Current'
  BY CurrentStays
<1>2. TypeOK'
  BY DEF IInv, TypeOK, dirVars, is_dn
<1>3. Named'
  BY DEF IInv, Current, Named, NamedNow, dirVars, is_dn
<1> QED
  BY <1>1, <1>2, <1>3 DEF IInv, Seen

LEMMA SendLookupInv == ASSUME IInv, SendLookup PROVE IInv'
<1> USE DEF SendLookup, specVars
<1>1. Current'
  BY CurrentStays
<1>2. LookedUpNow \subseteq DN /\ LookedUpNow = NamedNow
  BY NowTypes DEF IInv
<1>3. window'.ever = LookedUpNow /\ window'.always = LookedUpNow
      /\ window' \in [ever : SUBSET (DN \cup User), always : SUBSET (DN \cup User)]
  BY <1>2 DEF History
<1>4. TypeOK'
  BY <1>3 DEF IInv, TypeOK, dirVars
<1>5. Seen'
  BY <1>2, <1>3 DEF IInv, Current, Seen, dirVars, is_dn
<1> QED
  BY <1>1, <1>4, <1>5 DEF IInv, Named

\* An empty window has the type of windows.
LEMMA ClosedType ==
    Closed \in [ever : SUBSET (DN \cup User), always : SUBSET (DN \cup User)]
BY DEF Closed, History

LEMMA ResolvedInv == ASSUME IInv, Resolved PROVE IInv'
<1> USE DEF Resolved, specVars
<1>1. Current'
  BY CurrentStays
<1>2. TypeOK'
  BY ClosedType DEF IInv, TypeOK, dirVars
<1>3. Named'
  BY DEF IInv, Seen, Named, OneFound, dirVars
<1> QED
  BY <1>1, <1>2, <1>3 DEF IInv, Seen

LEMMA SendListingInv == ASSUME IInv, SendListing PROVE IInv'
<1> USE DEF SendListing, specVars
<1>1. Current'
  BY CurrentStays
<1>2. group_dn \in DN
  BY DEF IInv, TypeOK, Named
<1>3. ListedNow(group_dn) = Of(MemberNow, group_dn)
  BY <1>2, ListedIsMember
<1>4. window'.ever = Of(MemberNow, group_dn) /\ window'.always = Of(MemberNow, group_dn)
      /\ window' \in [ever : SUBSET (DN \cup User), always : SUBSET (DN \cup User)]
  BY <1>3 DEF History, Of
<1>5. TypeOK'
  BY <1>4 DEF IInv, TypeOK, dirVars
<1>6. Seen'
  BY <1>4 DEF IInv, Current, Seen, dirVars, Of
<1>7. Named'
  BY DEF IInv, Named, dirVars
<1> QED
  BY <1>1, <1>5, <1>6, <1>7 DEF IInv

\* The call ends, in any of the three ways.
LEMMA EndsInv ==
    ASSUME IInv, NEW how \in {"answer", "not found", "error"}, NEW us \in SUBSET User,
           Ends(how, us)
    PROVE  IInv'
<1> USE DEF Ends
<1>1. Current'
  BY CurrentStays
<1>2. TypeOK'
  BY ClosedType DEF IInv, TypeOK, dirVars
<1> QED
  BY <1>1, <1>2 DEF IInv, Seen, Named

\* What a listing returns are users.
LEMMA ListsUsers ==
    ASSUME IInv, status = "listing"
    PROVE  /\ group_dn \in DN
           /\ window.ever \subseteq Of(member.ever, group_dn)
           /\ window.ever \subseteq User
BY DEF IInv, TypeOK, Named, Seen, Of

LEMMA CallInv == ASSUME IInv, ByGroup PROVE IInv'
<1>1. CASE ResolveNotFound
  BY <1>1, EndsInv DEF ResolveNotFound
<1>2. CASE Listed
  BY <1>2, EndsInv, ListsUsers DEF Listed
<1>3. CASE Fails
  BY <1>3, EndsInv DEF Fails, AfterFailure
<1> QED
  BY <1>1, <1>2, <1>3, TakeDNInv, SendLookupInv, ResolvedInv, SendListingInv DEF ByGroup

-----------------------------------------------------------------------------
\* A change keeps the objects of the directory what they are.
LEMMA ChangeTypes ==
    ASSUME IInv, Change
    PROVE  /\ dn' \in [Group -> DN \cup {Gone}]
           /\ memberOf' \in [User \cup Group -> SUBSET Group]
           /\ disabled' \subseteq User
           /\ changes' \in 0..MaxChanges
           /\ call' = call
<1>0. /\ dn \in [Group -> DN \cup {Gone}]
      /\ memberOf \in [User \cup Group -> SUBSET Group]
      /\ disabled \subseteq User /\ changes \in 0..MaxChanges
  BY DEF IInv, TypeOK
<1>1. changes' \in 0..MaxChanges /\ call' = call
  BY <1>0, GroupAssumption DEF Change
<1>2. CASE \E g \in Group, d \in DN : Place(g, d)
  BY <1>0, <1>1, <1>2 DEF Place
<1>3. CASE \E g \in Group : Delete(g)
  BY <1>0, <1>1, <1>3 DEF Delete
<1>4. CASE \E o \in User \cup Group, g \in Group : Link(o, g)
  <2>1. PICK o \in User \cup Group, g \in Group : Link(o, g)
    BY <1>4
  <2>2. \E G \in SUBSET Group : memberOf' = [memberOf EXCEPT ![o] = G]
    BY <1>0, <2>1 DEF Link
  <2> QED
    BY <1>0, <1>1, <2>1, <2>2 DEF Link
<1>5. CASE \E u \in User : Toggle(u)
  BY <1>0, <1>1, <1>5 DEF Toggle
<1> QED
  BY <1>2, <1>3, <1>4, <1>5 DEF Change

LEMMA ChangeInv == ASSUME IInv, DirectoryChange PROVE IInv'
<1> USE DEF DirectoryChange
<1>1. /\ dn' \in [Group -> DN \cup {Gone}]
      /\ memberOf' \in [User \cup Group -> SUBSET Group]
      /\ disabled' \subseteq User /\ changes' \in 0..MaxChanges /\ call' = call
  BY ChangeTypes
<1>2. /\ NamedNow' \subseteq DN /\ MemberNow' \subseteq User \X DN
      /\ LookedUpNow' \subseteq DN
      /\ ~ is_dn(call.group) => LookedUpNow' = NamedNow'
      /\ is_dn(call.group) => NamedNow' = {call.group}
  BY <1>1, GroupAssumption DEF NamedNow, MemberNow, LookedUpNow, is_dn
<1>3. /\ named'.ever = named.ever \cup NamedNow'
      /\ named'.always = named.always \cap NamedNow'
      /\ named' \in [ever : SUBSET DN, always : SUBSET DN]
  BY <1>2 DEF IInv, TypeOK, Change, Extend
<1>4. /\ member'.ever = member.ever \cup MemberNow'
      /\ member'.always = member.always \cap MemberNow'
      /\ member' \in [ever : SUBSET (User \X DN), always : SUBSET (User \X DN)]
  <2>1. member' = Extend(member, MemberNow')
    BY DEF Change
  <2> QED
    BY <1>2, <2>1 DEF IInv, TypeOK, Extend
<1>5. Current'
  BY <1>1, <1>2, <1>3, <1>4 DEF IInv, Current, is_dn
<1>6. ASSUME status = "listing"
      PROVE  ListedNow(group_dn)' = Of(MemberNow', group_dn)
  <2>1. group_dn' = group_dn /\ group_dn \in DN
    BY <1>6, ListsUsers
  <2>2. (\A d \in DN : ListedNow(d) = Of(MemberNow, d))'
    BY ListedIsMember, PTL
  <2>3. \A d \in DN : ListedNow(d)' = Of(MemberNow', d)
    BY <2>2 DEF Of
  <2> QED
    BY <2>1, <2>3 DEF ListedNow
<1>7. CASE ~ Running
  <2>1. window' = window
    BY <1>7
  <2>2. TypeOK'
    BY <1>1, <1>3, <1>4, <2>1 DEF IInv, TypeOK, Change
  <2>3. Seen'
    BY <1>7 DEF Running, Seen
  <2>4. Named'
    BY <1>3 DEF IInv, Named
  <2> QED
    BY <1>5, <2>2, <2>3, <2>4 DEF IInv
<1>8. CASE status = "resolving"
  <2>1. window' = Extend(window, LookedUpNow') /\ ~ is_dn(call.group)
    BY <1>8 DEF Running, SelectedNow, IInv, Seen
  <2>2. /\ window' \in [ever : SUBSET (DN \cup User), always : SUBSET (DN \cup User)]
        /\ window'.ever = window.ever \cup NamedNow'
        /\ window'.always = window.always \cap NamedNow'
    <3>1. window \in [ever : SUBSET (DN \cup User), always : SUBSET (DN \cup User)]
      BY DEF IInv, TypeOK
    <3>2. LookedUpNow' = NamedNow' /\ NamedNow' \subseteq DN
      BY <1>2, <2>1
    <3> QED
      BY <2>1, <3>1, <3>2 DEF Extend
  <2>3. TypeOK'
    BY <1>1, <1>3, <1>4, <2>2 DEF IInv, TypeOK, Change
  <2>4. Seen'
    BY <1>1, <1>3, <1>8, <2>1, <2>2 DEF IInv, Seen, is_dn
  <2> QED
    BY <1>5, <1>8, <2>3, <2>4 DEF IInv, Named
<1>9. CASE status = "listing"
  <2>1. window' = Extend(window, Of(MemberNow', group_dn))
    BY <1>6, <1>9 DEF Running, SelectedNow
  <2>2. /\ window' \in [ever : SUBSET (DN \cup User), always : SUBSET (DN \cup User)]
        /\ window'.ever = window.ever \cup Of(MemberNow', group_dn)
        /\ window'.always = window.always \cap Of(MemberNow', group_dn)
    <3>1. Of(MemberNow', group_dn) \in SUBSET (DN \cup User)
      BY DEF Of
    <3>2. window \in [ever : SUBSET (DN \cup User), always : SUBSET (DN \cup User)]
      BY DEF IInv, TypeOK
    <3> QED
      BY <2>1, <3>1, <3>2 DEF Extend
  <2>3. TypeOK'
    BY <1>1, <1>3, <1>4, <2>2 DEF IInv, TypeOK, Change
  <2>4. Seen'
    BY <1>4, <1>9, <2>2 DEF IInv, Seen, Of
  <2>5. Named'
    BY <1>3, <1>9 DEF IInv, Named
  <2> QED
    BY <1>5, <1>9, <2>3, <2>4, <2>5 DEF IInv
<1> QED
  BY <1>7, <1>8, <1>9 DEF Running

LEMMA Inductive == GroupsSpec => []IInv
<1>1. IInv /\ [Next]_vars => IInv'
  <2> SUFFICES ASSUME IInv, [Next]_vars PROVE IInv'
    OBVIOUS
  <2>1. CASE UNCHANGED vars
    <3>1. Current'
      BY <2>1, CurrentStays DEF vars, specVars
    <3>2. TypeOK' /\ Seen' /\ Named'
      BY <2>1 DEF IInv, TypeOK, Seen, Named, vars, specVars, dirVars, is_dn
    <3> QED
      BY <2>1, <3>1, <3>2 DEF IInv, vars, specVars
  <2> QED
    BY <2>1, CallInv, ChangeInv DEF Next
<1> QED
  BY <1>1, InitInv, PTL DEF GroupsSpec

-----------------------------------------------------------------------------
\* by_group keeps its types.
THEOREM TypeCorrect == GroupsSpec => []TypeOK
BY Inductive, PTL DEF IInv

\* A step of the call is a step of the specification, or none of its business.
LEMMA StepSimulation ==
    ASSUME IInv, Next
    PROVE  [Finish \/ SpecChange]_specVars
<1>1. CASE TakeDN \/ SendLookup \/ Resolved \/ SendListing
  BY <1>1 DEF TakeDN, SendLookup, Resolved, SendListing
<1>2. CASE ResolveNotFound
  <2>1. Ends("not found", {}) /\ status = "resolving"
    BY <1>2 DEF ResolveNotFound
  <2>2. outcome' = "not found" /\ UNCHANGED dirVars /\ outcome = "pending"
    BY <2>1 DEF Ends, IInv
  <2>3. ~ is_dn(call.group) /\ (named.always = {} \/ \E c, d \in named.ever : c # d)
    BY <1>2 DEF ResolveNotFound, IInv, Seen
  <2>4. answer' = answer
    BY <2>1 DEF Ends, IInv
  <2> QED
    BY <2>2, <2>3, <2>4 DEF Finish, NotFound
<1>3. CASE Listed
  <2>1. PICK us \in SUBSET window.ever : window.always \subseteq us /\ Ends("answer", us)
    BY <1>3 DEF Listed
  <2>2. status = "listing"
    BY <1>3 DEF Listed
  <2>3. group_dn \in named.ever /\ named.always \subseteq {group_dn}
    BY <2>2 DEF IInv, Named
  <2>4. /\ us \subseteq Of(member.ever, group_dn)
        /\ Of(member.always, group_dn) \subseteq us
    BY <2>1, <2>2 DEF IInv, Seen
  <2>5. member.ever \subseteq User \X DN /\ group_dn \in DN
    BY <2>2, ListsUsers DEF IInv, TypeOK
  <2>6. us \in SUBSET {m[1] : m \in {p \in member.ever : p[2] = group_dn}}
    <3>1. ASSUME NEW u \in us
          PROVE  \E m \in {p \in member.ever : p[2] = group_dn} : u = m[1]
      <4>1. <<u, group_dn>> \in member.ever
        BY <2>4 DEF Of
      <4> QED
        BY <4>1
    <3> QED
      BY <3>1
  <2>7. \A u \in User : <<u, group_dn>> \in member.always => u \in us
    BY <2>4 DEF Of
  <2>8. Answer
    BY <2>1, <2>3, <2>6, <2>7 DEF Ends, Answer
  <2> QED
    BY <2>1, <2>2, <2>8 DEF Ends, Finish, IInv
<1>4. CASE Fails
  BY <1>4 DEF Fails, AfterFailure, Ends, IInv, Finish, Raise
<1>5. CASE DirectoryChange
  BY <1>5 DEF DirectoryChange, SpecChange
<1> QED
  BY <1>1, <1>2, <1>3, <1>4, <1>5 DEF Next, ByGroup

\* by_group implements its specification: whatever the directory does between
\* its two queries and during them, its answer is about one group the argument
\* named, complete and sound, and two groups of one name are never guessed among.
THEOREM Refinement == GroupsSpec => MeetsSpec
<1>1. Init => SpecInit
  BY DEF Init
<1>2. IInv /\ [Next]_vars => [Finish \/ SpecChange]_specVars
  BY StepSimulation DEF vars
<1> QED
  BY <1>1, <1>2, Inductive, PTL DEF GroupsSpec, MeetsSpec, Spec
=============================================================================
