----------------------------- MODULE GroupMembers -----------------------------
(***************************************************************************)
(* LDAPSearch.by_group (src/adsearch/search.py): the group is resolved to  *)
(* a DN, by a query unless the argument is a DN already, and a second      *)
(* query lists its members.  A query takes time: it starts, the directory  *)
(* may change, it ends.  What it may return then is what SearchSpec        *)
(* promises of every search and PagedSearch implements: nothing that       *)
(* matched at no moment since it started, everything that matched at every *)
(* one.  Any query may raise instead.                                      *)
(***************************************************************************)
EXTENDS GroupSpec

VARIABLES status,    \* where the call is
          group_dn,  \* the resolved DN, or Gone
          window     \* what the running query's filter selects: ever and always

vars == <<specVars, status, group_dn, window>>

\* Mutant: the matching rule for nested groups is always used.
GroupClauseChain == "in chain"
\* _group_clause: how the filter compares memberOf with the group's DN.
GroupClause == IF call.transitive THEN "in chain" ELSE "equal"

\* The other clauses of the listing.
Clauses == {"user"} \cup IF call.include_disabled THEN {} ELSE {"not disabled"}

\* The users the filter of the listing selects now, when d was resolved: the
\* directory evaluates the clauses.
ListedNow(d) ==
    {u \in User : /\ "not disabled" \in Clauses => u \notin disabled
                  /\ \E g \in Group :
                        /\ dn[g] = d
                        /\ g \in IF GroupClause = "equal" THEN memberOf[u] ELSE Chain(u)}

\* The groups the filter of resolve_group_dn selects now.
LookedUpNow == {d \in SearchBase : CN[d] = call.group /\ \E g \in Group : dn[g] = d}

Running == status \in {"resolving", "listing"}
SelectedNow == IF status = "resolving" THEN LookedUpNow ELSE ListedNow(group_dn)
Closed == History({})

TypeOK ==
    /\ dn \in [Group -> DN \cup {Gone}]
    /\ memberOf \in [User \cup Group -> SUBSET Group]
    /\ disabled \subseteq User
    /\ changes \in 0..MaxChanges
    /\ call \in Calls
    /\ named \in [ever : SUBSET DN, always : SUBSET DN]
    /\ member \in [ever : SUBSET (User \X DN), always : SUBSET (User \X DN)]
    /\ outcome \in {"pending", "answer", "not found", "error"}
    /\ answer \subseteq User
    /\ status \in {"called", "resolving", "resolved", "listing", "ended"}
    /\ group_dn \in DN \cup {Gone}
    /\ window \in [ever : SUBSET (DN \cup User), always : SUBSET (DN \cup User)]

Init ==
    /\ SpecInit
    /\ status = "called"
    /\ group_dn = Gone
    /\ window = Closed

-----------------------------------------------------------------------------
\* resolve_group_dn returns a DN as it came.
TakeDN ==
    /\ status = "called"
    /\ is_dn(call.group)
    /\ status' = "resolved"
    /\ group_dn' = call.group
    /\ UNCHANGED <<specVars, window>>

\* A name is searched for under the group search base.
SendLookup ==
    /\ status = "called"
    /\ ~ is_dn(call.group)
    /\ status' = "resolving"
    /\ window' = History(LookedUpNow)
    /\ UNCHANGED <<specVars, group_dn>>

\* Mutant: the first of several groups is taken.
OneFoundFirst(d) == d \in window.ever
\* _find_one returns d: the search met it and no second match.
OneFound(d) == d \in window.ever /\ window.always \subseteq {d}

Resolved ==
    /\ status = "resolving"
    /\ \E d \in DN : OneFound(d) /\ group_dn' = d
    /\ status' = "resolved"
    /\ window' = Closed
    /\ UNCHANGED specVars

\* The call ends, with the users us or without any.
Ends(how, us) ==
    /\ status' = "ended"
    /\ outcome' = how
    /\ answer' = us
    /\ window' = Closed
    /\ UNCHANGED <<dirVars, group_dn>>

\* _find_one met nothing, or two.
ResolveNotFound ==
    /\ status = "resolving"
    /\ window.always = {} \/ \E c, d \in window.ever : c # d
    /\ Ends("not found", {})

\* find_users sends the query for the members.
SendListing ==
    /\ status = "resolved"
    /\ status' = "listing"
    /\ window' = History(ListedNow(group_dn))
    /\ UNCHANGED <<specVars, group_dn>>

Listed ==
    /\ status = "listing"
    /\ \E us \in SUBSET window.ever : window.always \subseteq us /\ Ends("answer", us)

\* Mutant: a listing that fails counts as an empty group.
AfterFailureEmpty == IF status = "listing" THEN "answer" ELSE "error"
\* What becomes of the call when a query raises, or the attribute names the
\* caller asked for are refused after the group was resolved.
AfterFailure == "error"

Fails == status # "ended" /\ Ends(AfterFailure, {})

ByGroup == \/ TakeDN \/ SendLookup \/ Resolved \/ ResolveNotFound
           \/ SendListing \/ Listed \/ Fails

DirectoryChange ==
    /\ Change
    /\ UNCHANGED <<outcome, answer, status, group_dn>>
    /\ window' = IF Running THEN Extend(window, SelectedNow') ELSE window

Next == ByGroup \/ DirectoryChange

GroupsSpec == Init /\ [][Next]_vars

-----------------------------------------------------------------------------
\* by_group meets its specification: whatever changes between its two queries
\* and during them, it lists one group the argument named, completely for what
\* held throughout and soundly for what held at some moment, leaves disabled
\* accounts out unless they are asked for, and never guesses among two groups.
MeetsSpec == Spec
=============================================================================
