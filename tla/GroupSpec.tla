------------------------------- MODULE GroupSpec ------------------------------
(***************************************************************************)
(* What LDAPSearch.by_group promises (README.md, DESIGN.md 8.6 and 8.8),   *)
(* over a directory whose groups and memberships change during the call.   *)
(* The directory is external, modelled from how search.py and              *)
(* tests/fake_directory.py use it.                                         *)
(*                                                                         *)
(* A group is an object that keeps its identity; its DN may change, and    *)
(* its common name is the first part of its DN.  `memberOf' links follow a *)
(* group that is moved, and go when it is deleted.  Groups nest, also in   *)
(* circles.  The group asked for is given by a DN or by a common name, and *)
(* a name is looked up under the group search base only.                   *)
(*                                                                         *)
(* named and member are histories, as pairs of what held at some moment of *)
(* the call and what held at every moment.  MaxChanges bounds the changes  *)
(* made during the call.                                                   *)
(***************************************************************************)
EXTENDS Naturals, FiniteSets

CONSTANTS Group, User,  \* the objects of the directory
          DN, CN,       \* distinguished names, and the common name of each
          Gone,         \* the DN of a group that is not there
          SearchBase,   \* the DNs under LDAPConfig.group_search_base
          MaxChanges    \* bound on concurrent changes

ASSUME GroupAssumption ==
    /\ Gone \notin DN
    /\ DOMAIN CN = DN
    /\ SearchBase \subseteq DN
    /\ MaxChanges \in Nat

VARIABLES dn,           \* where each group is
          memberOf,     \* the groups each object belongs to directly
          disabled,     \* the users whose accounts are disabled
          changes,      \* number of changes so far
          call,         \* the arguments of by_group
          named,        \* DNs of groups the argument names
          member,       \* users a query for a DN would select
          outcome,      \* "pending", "answer", "not found" or "error"
          answer        \* the users returned

dirVars == <<dn, memberOf, disabled, changes, call, named, member>>
specVars == <<dirVars, outcome, answer>>

Calls == [group : DN \cup {CN[d] : d \in DN},
          transitive : BOOLEAN, include_disabled : BOOLEAN]

\* filters.is_dn
is_dn(group) == group \in DN

\* The groups an object belongs to through nested groups: the least set that
\* holds its own and, with a group, the groups that one belongs to.
Chain(o) == {g \in Group : \A S \in SUBSET Group :
                /\ memberOf[o] \subseteq S
                /\ \A h \in S : memberOf[h] \subseteq S
                => g \in S}

\* Who is in a group, and whom the caller wants, as by_group's arguments say.
Belongs(u, g) == g \in IF call.transitive THEN Chain(u) ELSE memberOf[u]
Wanted(u) == call.include_disabled \/ u \notin disabled

\* The DNs the argument names now.
NamedNow == IF is_dn(call.group) THEN {call.group}
            ELSE {d \in SearchBase : CN[d] = call.group /\ \E g \in Group : dn[g] = d}

\* The users a listing of the group at each DN selects now.
MemberNow == {m \in User \X DN : /\ Wanted(m[1])
                                 /\ \E g \in Group : dn[g] = m[2] /\ Belongs(m[1], g)}

History(now) == [ever |-> now, always |-> now]
Extend(history, now) == [ever   |-> history.ever \cup now,
                         always |-> history.always \cap now]

DirInit ==
    /\ dn \in [Group -> DN \cup {Gone}]
    /\ \A g, h \in Group : dn[g] = dn[h] /\ dn[g] # Gone => g = h
    /\ memberOf \in [User \cup Group -> SUBSET {g \in Group : dn[g] # Gone}]
    /\ \A g \in Group : dn[g] = Gone => memberOf[g] = {}
    /\ disabled \in SUBSET User
    /\ changes = 0
    /\ call \in Calls
    /\ named = History(NamedNow)
    /\ member = History(MemberNow)

-----------------------------------------------------------------------------
(* What administrators do meanwhile *)

\* A group is renamed, moved to another container, or created.
Place(g, d) ==
    /\ \A h \in Group : dn[h] # d
    /\ dn' = [dn EXCEPT ![g] = d]
    /\ UNCHANGED <<memberOf, disabled>>

Delete(g) ==
    /\ dn[g] # Gone
    /\ dn' = [dn EXCEPT ![g] = Gone]
    /\ memberOf' = [o \in User \cup Group |-> IF o = g THEN {} ELSE memberOf[o] \ {g}]
    /\ UNCHANGED disabled

\* A user or a group joins a group, or leaves it.
Link(o, g) ==
    /\ dn[g] # Gone /\ (o \in Group => dn[o] # Gone)
    /\ memberOf' = [memberOf EXCEPT ![o] = IF g \in @ THEN @ \ {g} ELSE @ \cup {g}]
    /\ UNCHANGED <<dn, disabled>>

\* An account is disabled, or enabled.
Toggle(u) ==
    /\ disabled' = IF u \in disabled THEN disabled \ {u} ELSE disabled \cup {u}
    /\ UNCHANGED <<dn, memberOf>>

Change ==
    /\ changes < MaxChanges
    /\ changes' = changes + 1
    /\ UNCHANGED call
    /\ \/ \E g \in Group, d \in DN : Place(g, d)
       \/ \E g \in Group : Delete(g)
       \/ \E o \in User \cup Group, g \in Group : Link(o, g)
       \/ \E u \in User : Toggle(u)
    /\ named' = Extend(named, NamedNow')
    /\ member' = Extend(member, MemberNow')

-----------------------------------------------------------------------------
(* What the call may do *)

SpecInit == DirInit /\ outcome = "pending" /\ answer = {}

\* A list: of one DN that the argument named, when it named no other
\* throughout; with everybody a query for it would have selected throughout,
\* and nobody it would never have selected.
Answer ==
    /\ outcome' = "answer"
    /\ \E d \in named.ever :
         /\ named.always \subseteq {d}
         /\ answer' \in SUBSET {m[1] : m \in {p \in member.ever : p[2] = d}}
         /\ \A u \in User : <<u, d>> \in member.always => u \in answer'

\* A name that no group held throughout, or that two groups held.
NotFound ==
    /\ ~ is_dn(call.group)
    /\ outcome' = "not found"
    /\ named.always = {} \/ \E c, d \in named.ever : c # d
    /\ UNCHANGED answer

Raise == outcome' = "error" /\ UNCHANGED answer

Finish ==
    /\ outcome = "pending"
    /\ Answer \/ NotFound \/ Raise
    /\ UNCHANGED dirVars

SpecChange == Change /\ UNCHANGED <<outcome, answer>>

Spec == SpecInit /\ [][Finish \/ SpecChange]_specVars
=============================================================================
