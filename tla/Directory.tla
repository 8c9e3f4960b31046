------------------------------ MODULE Directory ------------------------------
(***************************************************************************)
(* The Active Directory the library queries, as far as reporting lines go: *)
(* an environment that other administrators change while an operation of   *)
(* adsearch runs.  It is outside src/ and modelled from how src/ and       *)
(* tests/fake_directory.py use it.                                         *)
(*                                                                         *)
(* An entry is a user object (filters.USER_OBJECT); contacts and the like  *)
(* are selected by no query of the operations modelled here, so they are   *)
(* left out.  An Id is a distinguished name up to upper and lower case,    *)
(* which is how the directory compares names.  `manager' holds DNs: the    *)
(* directory keeps them pointing at the entry when the entry is renamed,   *)
(* and removes them when the entry is deleted.  Active Directory allows    *)
(* one manager per user, but nothing in the walk relies on it, and the     *)
(* tests give a user two.                                                  *)
(*                                                                         *)
(* `ever' and `always' are history variables: the reporting lines that     *)
(* held at some moment, and at every moment, since the operation began.    *)
(* MaxChanges bounds the changes made while the operation runs.            *)
(***************************************************************************)
EXTENDS Naturals, FiniteSets

CONSTANTS Id,          \* distinguished names, up to case
          NoRoot,      \* no username has been resolved yet
          NamedInit,   \* which entries may hold the username asked for
          ManagerSets, \* what a manager attribute may hold
          MaxChanges   \* bound on concurrent changes

ASSUME DirectoryAssumption ==
    /\ IsFiniteSet(Id)
    /\ NoRoot \notin Id
    /\ NamedInit \subseteq SUBSET Id
    /\ ManagerSets \subseteq SUBSET Id
    /\ MaxChanges \in Nat

VARIABLES entries,  \* the user objects that exist
          manager,  \* the values of the manager attribute of each
          named,    \* the entries whose username is the one asked for
          ever,     \* reporting lines that held at some moment
          always,   \* reporting lines that held at every moment
          changes   \* number of changes so far

dirVars == <<entries, manager, named, ever, always, changes>>

\* The reporting lines <<manager, report>> of an assignment m of managers.
LinesOf(m) == {l \in Id \X Id : l[1] \in m[l[2]]}

\* The entries the filter (|(manager=d1)...(manager=dn)) selects, for the DNs
\* whose folded forms are M.
ReportsOf(M) == {d \in Id : manager[d] \cap M # {}}

(***************************************************************************)
(* Everything below a root: the least set that holds the root and is       *)
(* closed under the reporting lines L.  Written without recursion so that  *)
(* it can be proved about.                                                 *)
(***************************************************************************)
ClosedUnder(S, L) == \A l \in L : l[1] \in S => l[2] \in S
Below(r, L) == {d \in Id : \A S \in SUBSET Id :
                              r \in S /\ ClosedUnder(S, L) => d \in S}

\* The users at most n hops below the root r, for each n.
Hops(r) == LET H[n \in 0..Cardinality(Id)] ==
                 IF n = 0 THEN {r}
                 ELSE LET near == H[n - 1] IN near \cup ReportsOf(near)
           IN  H

\* The values a manager attribute may have, when the entries are E.
Managers(E) == {M \in ManagerSets : M \subseteq E}

DirTypeOK ==
    /\ entries \subseteq Id
    /\ manager \in [Id -> SUBSET Id]
    /\ named \subseteq Id
    /\ ever \subseteq Id \X Id
    /\ always \subseteq Id \X Id
    /\ changes \in 0..MaxChanges

DirInit ==
    /\ entries \in SUBSET Id
    /\ manager \in [Id -> Managers(entries)]
    /\ \A d \in Id \ entries : manager[d] = {}
    /\ named \in NamedInit
    /\ named \subseteq entries
    /\ ever = LinesOf(manager)
    /\ always = LinesOf(manager)
    /\ changes = 0

-----------------------------------------------------------------------------
\* What every change does to the histories.
Record ==
    /\ changes < MaxChanges
    /\ changes' = changes + 1
    /\ ever' = ever \cup LinesOf(manager')
    /\ always' = always \cap LinesOf(manager')

\* The managers of d become M.
Reassign(d, M) ==
    /\ d \in entries
    /\ M # manager[d]
    /\ manager' = [manager EXCEPT ![d] = M]
    /\ UNCHANGED <<entries, named>>
    /\ Record

\* The entry d is renamed, or moved to another container: its DN becomes e,
\* and the manager attributes that named it follow.
Rename(d, e) ==
    /\ d \in entries
    /\ e \in Id \ entries
    /\ LET renamed(S) == {IF x = d THEN e ELSE x : x \in S} IN
       /\ entries' = renamed(entries)
       /\ named' = renamed(named)
       /\ manager' = [x \in Id |-> IF x = e THEN renamed(manager[d])
                                   ELSE IF x = d THEN {}
                                   ELSE renamed(manager[x])]
    /\ Record

\* The entry d is deleted.
Delete(d) ==
    /\ d \in entries
    /\ entries' = entries \ {d}
    /\ manager' = [x \in Id |-> IF x = d THEN {} ELSE manager[x] \ {d}]
    /\ named' = named \ {d}
    /\ Record

\* A user d joins, reporting to M.
Create(d, M) ==
    /\ d \in Id \ entries
    /\ entries' = entries \cup {d}
    /\ manager' = [manager EXCEPT ![d] = M]
    /\ UNCHANGED named
    /\ Record

Change ==
    \/ \E d \in Id, M \in Managers(entries) : Reassign(d, M) \/ Create(d, M)
    \/ \E d, e \in Id : Rename(d, e)
    \/ \E d \in Id : Delete(d)
=============================================================================
