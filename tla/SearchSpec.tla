----------------------------- MODULE SearchSpec ------------------------------
(***************************************************************************)
(* What one search promises (DESIGN.md 6.3, 8.3): an answer that is as     *)
(* complete as the cap allows, or an exception.  The entries that match    *)
(* change while the search runs, so "complete" is relative to what matched *)
(* throughout, and "sound" to what matched at some moment.                 *)
(*                                                                         *)
(* The operations are find_users, which returns the entries, and _find_one *)
(* (behind resolve_user_dn, resolve_group_dn and describe_user), which     *)
(* returns one entry or says why there is not exactly one.                 *)
(***************************************************************************)
EXTENDS Naturals, Sequences, FiniteSets

CONSTANTS Entry,      \* the entries the search base holds
          Limits,     \* caps a caller may ask for
          NoLimit,    \* limit=None
          BadLimits,  \* caps that are none: negative ones
          MaxChanges  \* bound on concurrent changes

ASSUME SearchAssumption ==
    /\ IsFiniteSet(Entry)
    /\ Limits \subseteq Nat
    /\ NoLimit \notin Nat
    /\ BadLimits \cap (Nat \cup {NoLimit}) = {}
    /\ MaxChanges \in Nat

VARIABLES matching,  \* entries that match the filter now
          ever,      \* entries that matched at some moment of the search
          always,    \* entries that matched at every moment
          changes,   \* number of changes so far
          op,        \* the operation
          limit,     \* its cap
          outcome,   \* how it ended
          answer     \* the entries its caller got

matchVars == <<matching, ever, always, changes>>
specVars == <<matchVars, op, limit, outcome, answer>>

MatchInit ==
    /\ matching \in SUBSET Entry
    /\ ever = matching
    /\ always = matching
    /\ changes = 0

\* An entry starts or stops matching: it is modified, created or deleted.
MatchChange ==
    /\ changes < MaxChanges
    /\ changes' = changes + 1
    /\ \E e \in Entry :
         matching' = IF e \in matching THEN matching \ {e} ELSE matching \cup {e}
    /\ ever' = ever \cup matching'
    /\ always' = always \cap matching'

Listed(s) == {s[i] : i \in DOMAIN s}

CallInit ==
    \/ op = "find_users" /\ limit \in Limits \cup {NoLimit} \cup BadLimits
    \/ op = "_find_one" /\ limit = 2

\* No entry twice, none that never matched, and none left out that matched
\* throughout, unless the cap was reached.
Good(s) ==
    /\ \A i, j \in DOMAIN s : s[i] = s[j] => i = j
    /\ Listed(s) \subseteq ever
    /\ limit # NoLimit => Len(s) <= limit
    /\ always \subseteq Listed(s) \/ (limit # NoLimit /\ Len(s) = limit)

SpecInit ==
    /\ MatchInit
    /\ CallInit
    /\ outcome = "pending"
    /\ answer = <<>>

Return ==
    /\ op = "find_users"
    /\ limit \notin BadLimits
    /\ outcome' = "returned"
    /\ answer' \in Seq(Entry)
    /\ Good(answer')

\* The one entry: no other matched throughout.
ReturnOne ==
    /\ op = "_find_one"
    /\ outcome' = "returned"
    /\ \E e \in ever : answer' = <<e>> /\ always \subseteq {e}

\* NotFoundError: nothing matched throughout ...
RaiseNone ==
    /\ op = "_find_one"
    /\ outcome' = "no match"
    /\ always = {}
    /\ UNCHANGED answer

\* ... or two entries did match.
RaiseMany ==
    /\ op = "_find_one"
    /\ outcome' = "many matches"
    /\ \E d, e \in ever : d # e
    /\ UNCHANGED answer

\* A translated exception, with nothing returned.
Raise ==
    /\ outcome' \in {"LDAPAuthError", "LDAPConnectionError", "LDAPQueryError"}
    /\ UNCHANGED answer

\* An exception that is none of the library's, over a cap that is none.
Refuse ==
    /\ limit \in BadLimits
    /\ outcome' = "foreign"
    /\ UNCHANGED answer

Finish ==
    /\ outcome = "pending"
    /\ Return \/ ReturnOne \/ RaiseNone \/ RaiseMany \/ Raise \/ Refuse
    /\ UNCHANGED <<matchVars, op, limit>>

SpecChange == MatchChange /\ UNCHANGED <<op, limit, outcome, answer>>

Spec == SpecInit /\ [][Finish \/ SpecChange]_specVars
=============================================================================
