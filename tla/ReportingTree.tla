---------------------------- MODULE ReportingTree ----------------------------
(***************************************************************************)
(* LDAPSearch.reporting_tree (src/adsearch/search.py): resolve a username  *)
(* to a DN, then walk the reporting lines below it breadth first, one      *)
(* level at a time, asking for the reports of a batch of managers per      *)
(* query (_walk_reports over _reports_of).  The directory may change       *)
(* between any two queries, and any query may fail.  LDAPConfig does not   *)
(* check its batch_size.                                                   *)
(*                                                                         *)
(* A DN is a spelling of a name; Fold is str.casefold, and two spellings   *)
(* with one folded form are the same entry.  The directory answers with    *)
(* whichever spelling it stores, in whichever order.  One query is one     *)
(* step: PagedSearch.tla is about what happens inside it.                  *)
(***************************************************************************)
EXTENDS Directory, Integers, Sequences

CONSTANTS DN,         \* spellings of distinguished names
          Fold,       \* str.casefold
          BatchSizes  \* what LDAPConfig.batch_size may be

ASSUME ReportingTreeAssumption ==
    /\ Fold \in [DN -> Id]
    /\ BatchSizes \subseteq Int

VARIABLES batch_size,  \* LDAPConfig.batch_size
          status,  \* where the call is
          root,    \* root_dn
          rest,    \* the DNs of `level' not yet asked about
          found,   \* what _reports_of has collected, less what is merged
          new,     \* the level being built
          seen,    \* folded DNs met so far
          tree,    \* the list to be returned
          asked,   \* history: folded DNs some query asked about
          terms    \* history: manager clauses sent, over all queries

walkVars == <<batch_size, status, root, rest, found, new, seen, tree, asked, terms>>
vars == <<dirVars, walkVars>>

\* The folded DNs of a list.
Ids(s) == {Fold[s[i]] : i \in DOMAIN s}

\* No two places of a list are the same entry.
Distinct(s) == \A i, j \in DOMAIN s : Fold[s[i]] = Fold[s[j]] => i = j

\* The ways a query that selects the entries M may be answered.
AnswersOf(M) == {ans \in [1..Cardinality(M) -> {x \in DN : Fold[x] \in M}] :
                   Ids(ans) = M}

\* The first batch of a list of managers, and what is left.
BatchLen(s) == IF Len(s) < batch_size THEN Len(s) ELSE batch_size
Batch(s) == SubSeq(s, 1, BatchLen(s))
\* Mutant: the first manager behind every batch is skipped.
UnaskedSkipping(s) == SubSeq(s, BatchLen(s) + 2, Len(s))
Unasked(s) == SubSeq(s, BatchLen(s) + 1, Len(s))

Status == {"resolving", "asking", "merging", "done", "not found", "failed", "crashed"}

TypeOK ==
    /\ DirTypeOK
    /\ batch_size \in BatchSizes
    /\ status \in Status
    /\ root \in Id \cup {NoRoot}
    /\ rest \in Seq(DN)
    /\ found \in Seq(DN)
    /\ new \in Seq(DN)
    /\ seen \subseteq Id
    /\ tree \in Seq(DN)
    /\ asked \subseteq Id
    /\ terms \in Nat

Init ==
    /\ DirInit
    /\ batch_size \in BatchSizes
    /\ status = "resolving"
    /\ root = NoRoot
    /\ rest = <<>>
    /\ found = <<>>
    /\ new = <<>>
    /\ seen = {}
    /\ tree = <<>>
    /\ asked = {}
    /\ terms = 0

-----------------------------------------------------------------------------
\* Mutant: DNs are compared as they are spelled.
KeyAsSpelled(d) == d
\* What the seen-set keeps of a DN.
Key(d) == Fold[d]

\* Mutant: the seen-set starts empty.
SeenFirstEmpty(d) == {}
\* The seen-set when the walk starts from d.
SeenFirst(d) == {Key(d)}

\* Mutant: the clauses go the other way, and select the managers of the batch.
SelectedUpwards == UNION {manager[d] : d \in Ids(Batch(rest))}
\* The entries the query for the next batch selects.
Selected == ReportsOf(Ids(Batch(rest)))

\* Mutant: a report is compared with the levels above it only.
AlreadySeenAbove(d) == Key(d) \in seen \ Ids(new)
\* A report the walk has met before.
AlreadySeen(d) == Key(d) \in seen

\* Mutant: a new level goes before the levels above it.
TreeReversed == new \o tree
\* The tree once the new level is in it.
Extended == tree \o new

\* Mutant: the next level is everybody listed so far.
NextLevelWhole == tree \o new
\* The users whose reports are asked for next.
NextLevel == new

\* Mutant: a level of one user is taken for a leaf.
GoesOnPastOne == Len(new) > 1
\* Mutant: the loop does not end with an empty level.
GoesOnForever == TRUE
\* The condition of `while level', for the level just built.
GoesOn == new # <<>>

\* Mutant: a failing batch ends the walk with what was collected before it.
AfterFailurePartial == IF status = "asking" THEN "done" ELSE "failed"
\* What becomes of the call when a query raises.
AfterFailure == "failed"

\* Mutant: a batch size below one makes no batches.
AfterRefusalEmpty == "done"
\* What becomes of it when itertools.batched raises ValueError, which is no error
\* of this library.
AfterRefusal == "crashed"

-----------------------------------------------------------------------------
\* resolve_user_dn finds exactly one user, and the walk starts from its DN.
Resolve ==
    /\ status = "resolving"
    /\ \E d \in DN :
         /\ named = {Fold[d]}
         /\ root' = Fold[d]
         /\ rest' = <<d>>
         /\ seen' = SeenFirst(d)
    /\ status' = "asking"
    /\ UNCHANGED <<dirVars, batch_size, found, new, tree, asked, terms>>

\* No user, or more than one, holds the username: NotFoundError.
ResolveNotFound ==
    /\ status = "resolving"
    /\ Cardinality(named) # 1
    /\ status' = "not found"
    /\ UNCHANGED <<dirVars, batch_size, root, rest, found, new, seen, tree, asked, terms>>

\* One iteration of the loop of _reports_of: the next batch is asked about,
\* and everything the query selects is added to `found'.
AskBatch ==
    /\ status = "asking"
    /\ rest # <<>>
    /\ batch_size >= 1
    /\ \E ans \in AnswersOf(Selected) : found' = found \o ans
    /\ rest' = Unasked(rest)
    /\ asked' = asked \cup Ids(Batch(rest))
    /\ terms' = terms + BatchLen(rest)
    /\ UNCHANGED <<dirVars, batch_size, status, root, new, seen, tree>>

\* A query (the resolving one or a batch) raises, and so does the call: what
\* was collected so far is lost.
QueryFails ==
    /\ status = "resolving" \/ (status = "asking" /\ rest # <<>> /\ batch_size >= 1)
    /\ status' = AfterFailure
    /\ UNCHANGED <<dirVars, batch_size, root, rest, found, new, seen, tree, asked, terms>>

\* The level is not cut into batches of a size below one.
BatchRefused ==
    /\ status = "asking"
    /\ batch_size < 1
    /\ status' = AfterRefusal
    /\ UNCHANGED <<dirVars, batch_size, root, rest, found, new, seen, tree, asked, terms>>

\* _reports_of returns: the whole level has been asked about.
LevelAsked ==
    /\ status = "asking"
    /\ rest = <<>>
    /\ status' = "merging"
    /\ UNCHANGED <<dirVars, batch_size, root, rest, found, new, seen, tree, asked, terms>>

\* One iteration of `for report in self._reports_of(level)': a report seen
\* before is skipped, any other joins the level being built.
MergeReport ==
    /\ status = "merging"
    /\ found # <<>>
    /\ LET report == Head(found) IN
       \/ AlreadySeen(report) /\ UNCHANGED <<seen, new>>
       \/ /\ ~ AlreadySeen(report)
          /\ seen' = seen \cup {Key(report)}
          /\ new' = Append(new, report)
    /\ found' = Tail(found)
    /\ UNCHANGED <<dirVars, batch_size, status, root, rest, tree, asked, terms>>

\* The end of the body of `while level': the new level joins the tree and is
\* the next to be asked about; the walk returns when it is empty.
EndLevel ==
    /\ status = "merging"
    /\ found = <<>>
    /\ tree' = Extended
    /\ rest' = NextLevel
    /\ new' = <<>>
    /\ status' = IF GoesOn THEN "asking" ELSE "done"
    /\ UNCHANGED <<dirVars, batch_size, root, found, seen, asked, terms>>

DirectoryChange == Change /\ UNCHANGED walkVars

Walk == \/ Resolve
        \/ ResolveNotFound
        \/ AskBatch
        \/ QueryFails
        \/ BatchRefused
        \/ LevelAsked
        \/ MergeReport
        \/ EndLevel

Next == Walk \/ DirectoryChange

Spec == Init /\ [][Next]_vars

\* Nothing in the walk waits for anybody but the server, and every query is
\* answered or given up on: LDAPConfig.receive_timeout bounds the wait.
FairSpec == Spec /\ WF_vars(Walk)

-----------------------------------------------------------------------------
Returned == status \in {"done", "not found", "failed", "crashed"}

\* Nobody is listed twice, whatever spellings the server uses, however many
\* managers a user has had during the walk, and however the lines loop.
EachUserOnce == Distinct(tree \o new)

\* The user asked about is never among its own reports, not even when the
\* reporting lines lead back to it.
RootNotListed == root \notin Ids(tree \o new)

\* No manager is ever asked about twice: the clauses sent, over all batches of
\* all levels, are as many as the managers asked about.
NoManagerAskedTwice == terms = Cardinality(asked)

\* When the call returns a tree, the reports of everybody in it were asked
\* for: no batch of no level was skipped.
EveryoneAsked == status = "done" => asked = {root} \cup Ids(tree)

\* Nobody is listed who was not below the root through lines that held at some
\* moment of the call.
OnlyReports == Ids(tree) \subseteq Below(root, ever)

\* Everybody who was below the root for the whole of the call is listed.
NobodyMissed == status = "done" =>
                   Below(root, always) \ {root} \subseteq Ids(tree)

\* The walk is breadth first: while nothing changes, nobody is listed before
\* somebody nearer the root.
BreadthFirst ==
    status = "done" /\ changes = 0 =>
        \A n \in DOMAIN Hops(root) :
            LET near == Hops(root)[n] IN
            \A j \in DOMAIN tree : \A i \in 1..(j - 1) :
                Fold[tree[j]] \in near => Fold[tree[i]] \in near

\* The call ends: cycles in the reporting lines do not keep the walk going.
Terminates == <>Returned

\* The walk meets its abstract specification: an answer between the two
\* bounds, or an exception; never a part of the tree.
Abstract == INSTANCE ReportingTreeSpec WITH
               outcome <- CASE status = "done" -> "answer"
                            [] status \in {"not found", "failed", "crashed"} -> "error"
                            [] OTHER -> "pending",
               answer  <- IF status = "done" THEN Ids(tree) ELSE {}

MeetsSpec == Abstract!Spec
=============================================================================
