-------------------------- MODULE ReportingTreeSpec --------------------------
(***************************************************************************)
(* What LDAPSearch.reporting_tree promises its caller (DESIGN.md 8.7):     *)
(* one answer or one exception.  The answer is a list of users, each once  *)
(* and never the root, that holds everybody who was below the root for the *)
(* whole of the call, and nobody who was not below it through lines that   *)
(* held at some moment of the call.  When nothing changes during the call  *)
(* the two bounds meet, and the answer is exactly the tree.                *)
(***************************************************************************)
EXTENDS Directory

VARIABLES outcome,  \* "pending", "answer" or "error"
          root,     \* the DN the username resolved to, once it has
          answer    \* the users returned

specVars == <<dirVars, outcome, root, answer>>

SpecInit ==
    /\ DirInit
    /\ outcome = "pending"
    /\ root = NoRoot
    /\ answer = {}

\* The username is resolved to the one entry that holds it at that moment.
Locate ==
    /\ outcome = "pending"
    /\ root = NoRoot
    /\ \E d \in Id : named = {d} /\ root' = d
    /\ UNCHANGED <<dirVars, outcome, answer>>

\* The call returns, with at least everybody who was below the root
\* throughout and at most everybody who may have been.
Answer ==
    /\ outcome = "pending"
    /\ root \in Id
    /\ outcome' = "answer"
    /\ answer' \in SUBSET (Below(root, ever) \ {root})
    /\ Below(root, always) \ {root} \subseteq answer'
    /\ UNCHANGED <<dirVars, root>>

\* The call raises: nothing is returned.
Raise ==
    /\ outcome = "pending"
    /\ outcome' = "error"
    /\ UNCHANGED <<dirVars, root, answer>>

SpecChange == Change /\ UNCHANGED <<outcome, root, answer>>

SpecNext == Locate \/ Answer \/ Raise \/ SpecChange

Spec == SpecInit /\ [][SpecNext]_specVars
=============================================================================
