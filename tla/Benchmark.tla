------------------------------- MODULE Benchmark ------------------------------
(***************************************************************************)
(* benchmark_manager_traversal (scripts/benchmark.py): the reporting tree  *)
(* of one user counted three times over, by the library's walk, by a       *)
(* single query with the in-chain matching rule, and by a walk of its own, *)
(* walk_tree_shape, that asks one manager at a time and also measures the  *)
(* depth.  The directory may change between any two queries.               *)
(*                                                                         *)
(* The library's walk is one step, with an answer that ReportingTreeSpec   *)
(* allows.  DNs are folded: a spelling is an Id here.  A list is kept in   *)
(* one order, on which neither count depends.                              *)
(***************************************************************************)
EXTENDS Directory, SequencesExt

VARIABLES status,    \* the part that is running
          manager_dn,
          walked,    \* len(walk_result)
          chained,   \* len(chain_result)
          level,     \* the managers of the level not yet asked about
          new,       \* the level below, as far as it is known
          seen,
          size, depth

benchVars == <<status, manager_dn, walked, chained, level, new, seen, size, depth>>
vars == <<dirVars, benchVars>>

TypeOK ==
    /\ DirTypeOK
    /\ status \in {"resolve", "walk", "chain", "shape", "done", "failed"}
    /\ manager_dn \in Id \cup {NoRoot}
    /\ walked \in 0..Cardinality(Id) /\ chained \in 0..Cardinality(Id)
    /\ level \in Seq(Id) /\ new \in Seq(Id) /\ seen \subseteq Id
    /\ size \in 0..Cardinality(Id) /\ depth \in 0..Cardinality(Id)

Init ==
    /\ DirInit
    /\ status = "resolve"
    /\ manager_dn = NoRoot
    /\ walked = 0 /\ chained = 0
    /\ level = <<>> /\ new = <<>> /\ seen = {}
    /\ size = 0 /\ depth = 0

-----------------------------------------------------------------------------
Resolve ==
    /\ status = "resolve"
    /\ \E d \in Id : named = {d} /\ manager_dn' = d
    /\ status' = "walk"
    /\ UNCHANGED <<dirVars, walked, chained, level, new, seen, size, depth>>

\* reporting_tree resolves the username again.
Walk ==
    /\ status = "walk"
    /\ \E d \in Id : \E tree \in SUBSET (Below(d, ever) \ {d}) :
         /\ named = {d}
         /\ Below(d, always) \ {d} \subseteq tree
         /\ walked' = Cardinality(tree)
    /\ status' = "chain"
    /\ UNCHANGED <<dirVars, manager_dn, chained, level, new, seen, size, depth>>

\* Mutant: the matching rule is taken to leave the user asked about out.
ChainedBelow == Below(manager_dn, LinesOf(manager)) \ {manager_dn}
\* Whom the in-chain query selects: everybody with the manager up their chain,
\* the manager too when the lines lead back.
Chained == UNION {Below(d, LinesOf(manager)) : d \in ReportsOf({manager_dn})}

\* The query, and the start of walk_tree_shape.
Chain ==
    /\ status = "chain"
    /\ chained' = Cardinality(Chained)
    /\ level' = <<manager_dn>>
    /\ seen' = {manager_dn}
    /\ status' = "shape"
    /\ UNCHANGED <<dirVars, manager_dn, walked, new, size, depth>>

\* Mutant: reports are compared with the levels above theirs only.
UnseenLater(reports) == reports \ (seen \ Range(new))
\* The reports not met before.
Unseen(reports) == reports \ seen

\* find_users(manager_dn=dn), and the loop over its answer.
AskOne ==
    /\ status = "shape"
    /\ level # <<>>
    /\ LET reports == ReportsOf({Head(level)}) IN
       /\ new' = new \o SetToSeq(Unseen(reports))
       /\ seen' = seen \cup reports
    /\ level' = Tail(level)
    /\ UNCHANGED <<dirVars, status, manager_dn, walked, chained, size, depth>>

\* Mutant: the empty level at the end counts.
DeeperAlways == depth + 1
\* The depth behind a level.
Deeper == IF new = <<>> THEN depth ELSE depth + 1

\* The end of a level; the loop ends with an empty one.
EndLevel ==
    /\ status = "shape"
    /\ level = <<>>
    /\ size' = size + Len(new)
    /\ depth' = Deeper
    /\ level' = new
    /\ new' = <<>>
    /\ status' = IF new = <<>> THEN "done" ELSE "shape"
    /\ UNCHANGED <<dirVars, manager_dn, walked, chained, seen>>

\* Any query may raise, and a username may not name one user.
Fails ==
    /\ status \notin {"done", "failed"}
    /\ status' = "failed"
    /\ UNCHANGED <<dirVars, manager_dn, walked, chained, level, new, seen, size, depth>>

DirectoryChange == Change /\ UNCHANGED benchVars

Next == Resolve \/ Walk \/ Chain \/ AskOne \/ EndLevel \/ Fails \/ DirectoryChange

Spec == Init /\ [][Next]_vars

-----------------------------------------------------------------------------
counts_agree == walked = chained

\* The root reports, through others, to itself.
InCycle == \E d \in ReportsOf({manager_dn}) : manager_dn \in Below(d, LinesOf(manager))

\* While nothing changes, the two counts differ exactly when the manager is in a
\* cycle: the matching rule then selects the manager too, and the walk never
\* lists its root.  A disagreement says nothing else about the walk.
AgreeUnlessCyclic ==
    status = "done" /\ changes = 0 => (counts_agree <=> ~ InCycle)

\* The shape is the tree's: its size is what the library's walk lists, and its
\* depth is how far the last user is, cycles and shared reports regardless.
ShapeIsTheTrees ==
    status = "done" /\ changes = 0 =>
        /\ size = walked
        /\ Hops(manager_dn)[depth] = Below(manager_dn, LinesOf(manager))
        /\ depth > 0 => Hops(manager_dn)[depth - 1] # Hops(manager_dn)[depth]

\* Whatever changes, the own walk counts nobody twice, and nobody who was below
\* the manager at no moment.
SizeCountsUsers ==
    status \in {"shape", "done"} =>
        /\ size + Len(new) = Cardinality(seen) - 1
        /\ seen \subseteq Below(manager_dn, ever)
=============================================================================
