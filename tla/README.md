# A verification development for adsearch

`adsearch` is a Python library for querying Active Directory over LDAP, with a
thin console script over it. This directory holds TLA+ modules that model the
library's own logic, TLC configurations that check them on small instances, and
TLAPS proofs of the results that matter most. Everything is translated from the
source under `src/adsearch/`; a line reference such as `search.py:504` is to that
file. `PROJECT.json` lists every run, the mutant that shows each property can
fail, the source lines of every definition, the hazards and the theorems.

## 1. The system

| Part | State it keeps | Operations | What makes it correct |
|---|---|---|---|
| Reporting-tree walk (`search.py:468-513`) | `seen`, `tree`, `level`, `new`, `found` | `reporting_tree`, `_walk_reports`, `_reports_of` | the tree holds everybody who was below the root throughout and nobody who never was; nobody twice, never the root; ends in spite of cycles; all or nothing |
| Paged search (`search.py:229-280, 307-371`) | the generator of ldap3 and the list being filled | `_search`, `find_users`, `_find_one` | complete up to the cap, no referral counted or returned, no page fetched in vain, a lookup never picks among several |
| Error translation (`search.py:72-114`, `errors.py`) | none | `translated` | nothing of ldap3's escapes, and the class names the fault |
| Session (`search.py:144-226, 388-398`) | `_conn` | `conn`, `close`, `__enter__`, `__exit__`, `server_info` | every bound session is released, `_conn` is never half open, teardown neither hides an error nor adds one |
| Composed operations (`search.py:374-490`) | none between calls | `by_group`, `direct_reports`, `describe_user`, `resolve_*` | one group or manager answers, completely for what held throughout; a name that resolves to none or several raises |
| Filters (`filters.py`) | none | builders and validators | a filter selects what the criteria mean, whatever characters the values hold; a raw fragment stands as one clause |
| Configuration (`config.py`) | frozen fields | `from_env`, `__post_init__` | an invalid configuration never reaches the network |
| User mapping (`models.py`) | none | `to_user`, `fetch_attributes` | every field is its entry's, whatever else is asked for; no user without a name |
| Console script (`cli.py`) | one run | `main`, `dispatch`, the commands | results or nothing, one exit code and one message per fault, session released first |
| Rendering (`cli.py:341-440`) | none | `build_table`, `format_users`, `format_raw`, `render_*` | a table can be read back, column by column |
| Benchmark (`scripts/benchmark.py`) | none | `benchmark_manager_traversal`, `walk_tree_shape` | its counts disagree with the walk's in cycles only; its size and depth are the tree's |

How they interact: the script builds a configuration and one `LDAPSearch`, calls
one operation in a `with` block, renders after the block and maps exceptions to
exit codes. Each operation is one or more calls of `_search` over `conn`, which
binds on first use. `_search` pulls pages from the server through an ldap3
generator, inside the translation boundary. The walk calls `_search` once per
batch of managers.

What is hard here is not threads, of which there are none, but a server that is
shared and fallible: the directory changes between any two queries and between
two pages of one; any request may fail, also after a part of the answer was
used; names come back in other spellings; sessions drop; cleanup runs while an
exception is on its way out; and the user may press Ctrl-C.

## 2. The modules

```
Directory <- ReportingTree <- MCReportingTree
    |             |  implements ReportingTreeSpec
    |             `- DirectReports <- MCDirectReports, ReportingTreeProofs
    |- Benchmark <- MCBenchmark, BenchmarkProofs
    `- DirectoryProofs <- ReportingTreeProofs, BenchmarkProofs
SearchSpec, Errors <- PagedSearch <- MCPagedSearch, PagedSearchProofs
                          implements SearchSpec
GroupSpec <- GroupMembers <- MCGroupMembers, GroupMembersProofs
                          implements GroupSpec
Errors <- Session <- MCSession
Session, Config <- Cli <- MCCli, CliProofs
Filters <- FilterReader <- FindUsers <- Rendering <- MCFindUsers, FindUsersProofs
Fragment <- MCFragment, FragmentProofs
```

**Directory** is the environment of the walk: which user objects exist, the DNs
in their `manager` attribute, and who holds the username that is asked for.
`Reassign`, `Rename`, `Delete` and `Create` are what administrators do. It is
external, modelled from how the library queries it. The history variables
`ever` and `always` keep the reporting lines that held at some moment of the call
and at every moment of it. An `Id` is a DN up to case. `Below` is everybody below a
manager, as the least closed set; `Hops` is who is within how many hops of one, the
reference for the order of the walk and for the benchmark's depth.

**ReportingTreeSpec** states what `reporting_tree` promises where the directory
may change: one answer, between what was below the root throughout and what was
below it through lines that held at some moment; or one exception.

**ReportingTree** is the code: `Resolve`/`ResolveNotFound` (`resolve_user_dn`),
`AskBatch` and `LevelAsked` (the loop of `_reports_of`), `MergeReport` and
`EndLevel` (the loops of `_walk_reports`), `QueryFails`, and `DirectoryChange`
between any two of them. `seen`, `tree`, `new` and `found` are the variables of the
code; `rest` is the part of `level` not yet asked about. A `DN` is a spelling and
`Fold` is `str.casefold`. One query is one step. `batch_size` is any integer, since
`LDAPConfig` checks none: below one, `itertools.batched` raises (`BatchRefused`).

**DirectReports** is `direct_reports`: the same resolution and one pass of
`_reports_of`, whose list is returned as it is (`ReturnFound`).

**GroupSpec** and **GroupMembers** are `by_group`. A group is an object that keeps its
identity while its DN, its members and its existence change; groups nest, also in
circles; accounts are disabled and enabled. The argument is a DN (`TakeDN`) or a
name looked up below `group_search_base` (`SendLookup`), and a second query lists
the members. A query is a start and an end with changes between: `window` records
what its filter selected at some moment and at every moment of it, and it returns
anything between the two, which is what SearchSpec promises. The filter is compared
clause by clause (`GroupClause`, `Clauses`) with the membership the caller meant,
which for a transitive listing is the least closed set of groups.

**SearchSpec** and **PagedSearch** look inside one query. The abstract search
returns a good answer (nothing twice, nothing that never matched, nothing missing
that matched throughout unless the cap is reached) or raises. `PagedSearch` is
`_search` with the lazily bound connection, the generator that fetches a page only
when the last is used up, the referral filter, `islice`, and what `find_users` and
`_find_one` do with the list. The server may cut pages anywhere, and may send an
empty last page.

**Errors** is the translation boundary: the handlers in their order, and for each
kind of ldap3 exception the classes it is an instance of.

**Session** is one `LDAPSearch` over its life: `_conn`, the throwaway connection of
`server_info`, the sessions bound and unbound, and each operation as its sequence
of argument checks and queries (`Plan`). The caller may catch an exception and go
on, close and go on, leave the block and enter another. A failed query over a
dropped session is a socket error, and `_conn` keeps the dead connection, as the
code does.

Cleanup is in steps, because an unbind may raise while another exception is on its way
out, and Python then lets the new one replace the old. `CleanUp` begins one, for `close`,
`__exit__` (`Exit`) or the finally clause of `server_info` (`InfoCleanUp`): the session
goes to `_unbind_quietly` (`unbinding`) and Python puts aside the exception that was
leaving (`saved`). `Unbind` ends the session and may raise a socket error or something
that is not ldap3's at all (`thrown`); `Swallow` is the handler of `_unbind_quietly`; and
`CloseEnds`, `ExitEnds` and `InfoEnds` go on with what `Surfaces`: the exception of the
unbind if nobody caught it, else the one put aside. That the first never happens is
what `BlockKeepsItsError` says, and a handler for ldap3's exceptions alone breaks it.

**Config** and **Cli** are one run of the script. `Cli` extends `Session`: its with
block takes Session's own steps, so a run has every interleaving of failures that
Session has, with parsing, configuration, rendering, the handler of `main` and the
exit code around it. `err` is all that is written to stderr, as a set: the usage or the
help, the warning that the second `__post_init__` of an `--insecure` run gives
(`Warns`), the traceback of `--debug` or of an interrupt nobody caught, and the
message of `report_failure`, which is named by its exception. An exception that is
not ldap3's unwinds a call (`Unwinds`), and waits, if it is `server_info`, for the cleanup
of its connection (`Unwound`); the block is left in two steps, `LeaveBlock` and
`BlockLeft`, with the unbind between them.

**Filters**, **FilterReader** and **FindUsers** are `find_users` from its arguments to
its users. `Filters` is the text each builder of `filters.py` makes, as a sequence of
tokens in which every character of a value is one; `FilterReader` is the parser and
the matching of the directory the tests run on, so that what a filter selects is read
from the text and not assumed: the recursive descent is a recursive function of the
place in the text (`Readings`), which for every place gives the clause and the run of
clauses that begin there, where each ends and what it selects. A clause that raises
`FilterSyntaxError` ends at 0; `FindUsers` puts the clauses together in the code's
order, validates what the code validates, asks, and maps the entries that come back
with `to_user` of `models.py`. **Rendering** goes on from there to what the script
prints of the users, the table character by character.

**Benchmark** is `benchmark_manager_traversal`: the library's walk (one step, with an
answer ReportingTreeSpec allows), the single in-chain query, and `walk_tree_shape`
manager by manager, against a directory that changes in between.

**Fragment** is `valid_fragment`, one character per step, against a definition of
a single clause that counts parentheses.

Every module holds beside a definition the mutated form its property is tried
against, in a comment that begins with "Mutant".

## 3. The runs

| Run | Configuration | Question |
|---|---|---|
| `tree_changing` | `ReportingTreeChanging.cfg` | one change anywhere in the walk, one or two managers per query: bounds on the answer, no repetition, refinement; a batch size of zero leaves no part of a tree |
| `tree_frozen` | `ReportingTreeFrozen.cfg` | no change, users with two managers, batches of two and three: breadth first, ends |
| `direct_reports` | `DirectReports.cfg` | two changes between its two queries: complete and sound for the DN resolved |
| `group_members` | `GroupSafety.cfg` | two changes between and during the queries of `by_group`: refinement |
| `paged_safety` | `PagedSearchSafety.cfg` | caps, pages, referrals, changes and failures: refinement, cap, error classes, and the search ends |
| `session_safety` | `SessionSafety.cfg` | any history of calls: sessions, errors, an unbind that raises in any cleanup, and every session is unbound in the end |
| `cli_run` | `CliRun.cfg` | one run of the script: stdout, stderr, code, cleanup, flags |
| `find_users` | `FindUsers.cfg` | arguments to users to table: the right users, the right fields, a query that can be read exactly when the fragment can, a readable table |
| `fragment` | `Fragment.cfg` | the scan decides what a single clause is |
| `benchmark` | `Benchmark.cfg` | when the counts agree, and what size and depth mean |
| `paged_negative_limit` | `PagedSearchNegativeLimit.cfg` | finding: a negative cap escapes untranslated |
| `session_validation` | `SessionValidation.cfg` | finding: arguments are validated after a query |

### Bounds, and why they are enough

* `tree_changing`: four entries (root and three others), any assignment of at most
  one manager each, so chains of three levels, cycles through and beside the
  root, and self-managers all occur; one DN has a second spelling. Batches of
  one make every level of two users two queries, so a change falls between the
  batches of a level as well as between levels; batches of two leave a short one
  behind on a level of three. One change suffices to move a
  user between an asked and an unasked part; that any number changes nothing is
  proved. The username is held by nobody, by one entry or by two.
* `tree_frozen`: batches of two and three over up to three users give a full batch,
  a short one, both, and an exact multiple; two managers for one user make it come
  back from two batches.
* `direct_reports`: three entries, the root in two spellings, and two changes, so
  that a report may come and go, and another user take a DN that was left.
* `group_members`: two groups that may nest in each other, one user who may be in
  either and disabled, two DNs of one name under the search base and one outside it,
  and two changes: a group moves away and another takes its DN, or a membership
  starts and ends while the members are listed. Every user is treated alike, so one
  suffices for completeness and soundness.
* `paged_safety`: four entries, pages of up to two items, two referrals, two
  changes, caps 0 to 3, none and a negative one. The cap falls inside a page, at its
  end and before any page.
* `find_users`: seven entries that differ in what one criterion can tell apart, values
  with each special character, the empty one, and one shared by two entries; a DN with
  live parentheses and one that is no DN; fragments that are one clause, two, none,
  or only pass for one. The arguments are combined in the pairs and triples that share
  a clause or a check, rather than all at once, because each contributes a clause of
  its own. The users returned are none to six, and the values they print are missing,
  empty, blank, shorter and longer than the titles and with blanks inside and at the
  ends.
* `benchmark`: four users with one manager or the same two, and one change: cycles
  through and beside the manager, and users met twice on one level or on two.
* `session_safety`: three sessions: the lazily bound one, that of `server_info`,
  and a rebind after a close or a second block. A tree of two levels stands for
  any depth: further levels repeat the same pair of steps.
* `cli_run`: one session is all an operation of a fresh instance can bind. Every
  combination of flags on either side; `cost-center` is left out because it calls
  what `employee` calls.
* `fragment`: all 3280 strings of up to seven of `(`, `)` and another character; the
  proof covers every length.

`MaxChanges`, `MaxReferrals` and `MaxSessions` are the only bounds on behaviour,
and they appear in guards under these names. Deadlock is not checked: a call, a
search, a benchmark, a run of the script and a scan all really end, and an instance out of
sessions (`MaxSessions`) has nothing left to do.

### Fairness

`ReportingTree` and `PagedSearch` assume weak fairness of their own steps, never of
the directory's: the code waits for nobody but the server, and `connect_timeout`
and `receive_timeout` bound each wait, after which ldap3 raises. `Session` assumes
weak fairness of the steps of a call and of a cleanup (an unbind sends without waiting
for an answer) for the same reason, and strong fairness of leaving the with block: a caller may make calls between, but a block ends. A
caller that never leaves its block keeps its session, as the documentation says.

## 4. What is proved

All proofs hold for every value of the constants under the named assumptions of
the modules.

**ReportingTreeProofs.** `TypeCorrect`; `ListsEachUserOnce`, `NeverListsRoot`,
`AsksOnce`, `AsksAboutEveryone`; `ListsOnlyReports` (soundness) and `MissesNobody`
(completeness); `Refinement` of ReportingTreeSpec. Neither bound is inductive
alone. The invariant says that `seen` is the root with what is listed and what is
being listed, without repetition; that those whose reports were asked for and
those still to be asked for make up what is listed; that everybody met was below
the root in `ever`; and that a report, by a line in `always`, of somebody asked
about is in `seen` or still in `found`. When nothing is left to ask or merge, the
listed set with the root is closed under `always`, hence contains everything below
the root. `Below` is defined as the least closed set, so closure is all that is
needed and no induction over paths.

`ListsBreadthFirst` is about a directory that does not change. Its invariant
(`LevelInv`) says that the walk is at some level `k`: the tree with the root is
everybody within `k` hops, sorted by distance, and what is found or new is one hop
further (`AtLevel`). A level that is not empty enlarges the set, so `k` stays below
the number of entries and the next level is a `Hops` too.

`ListsOneHop` is `direct_reports`, over any directory and number of changes: until
the one query is answered the DN is in hand and nothing is found, and from then on
what was found is the hop, which no later change disturbs. A query's answer holds each
entry once because it is a surjection between sets of one size.

**DirectoryProofs** has what both walks need: that `Below` is closed, the least such
set, and larger for more lines; what a change of the directory does to the histories
(`ChangeEffect`); and that `Hops` satisfies the equation it is defined by
(`HopsEquation`) and grows (`HopsGrow`).

**BenchmarkProofs.** `BenchmarkTypeCorrect`, `CountsEachOnce`, `MeasuresTheTree` and
`DifferOnlyByTheCycle`. Whatever changes, those the shape walk has met are the manager
and those it has counted or is about to (`Books`), each in a reporting line that held
at some moment. While nothing changes, a level is one more hop (`AtDepth`), so at the
end `depth` is the last hop that found somebody; and the two counts are the sizes of
`Below` with and without the manager (`Counts`), which differ exactly if the manager
is below themselves.

**PagedSearchProofs.** `TypeCorrect`, `CapStopsPaging`, `NothingElseEscapes`,
`BindNeverQuery` and `Refinement` of SearchSpec, negative caps included: SearchSpec
lets such a call raise what is no exception of the library, which is a finding below,
and forbids it an answer. The invariant
relates `sent`, the page in hand and `results`: what was sent is what was taken and
what is still in the page, without repetition.

**FragmentProofs.** `TypeCorrect` and `ScanDecides`: the counter of the scan is the
difference of two cardinalities, which gives the equivalence for any length.

**GroupMembersProofs.** `TypeCorrect` and `Refinement` of GroupSpec. The invariant says
that the histories contain what the directory says now (`Current`); that the running
query's `window` lies within them, for the DN it is about (`Seen`); and that the DN
resolved was named at some moment, with no other named throughout (`Named`). The
listing's clauses are first shown to select exactly the members the specification
means, now; the histories carry that over the query.

**CliProofs**, on Session: `TypeCorrect`, `ForgetsNoSession`, `IsNeverHalfOpen`,
`UsesOneConnection`, `TellsCause`, `KeepsItsError`. The invariant says where an open
session can be (`Held`), which steps belong to which operation (`Planned`), that
the queries of a running call went over the connection there is (`Uses`), and who waits
for a cleanup with which exception put aside (`Cleans`): without `Planned`, `server_info`
could lose its connection to another operation, and without `Cleans` what `ExitEnds`
raises again could be another than what ended the block. `KeepsItsError` rests on
`NothingSurfaces`: of what an unbind can raise nothing passes the handler, so a cleanup
that is over goes on with what was put aside.

On the script: `CliTypeCorrect`, `PrintsAllOrNothing`, `ReleasesFirst`,
`TellsFaultByCode`, `InterruptPasses` and `HonoursFlags`: every property of the run,
for any environment, subcommands and number of sessions. It keeps Session's invariant
through the steps that unwind a call, and adds what the last exception tells
(`Excepts`), what holds in each phase (`Phases`), that stderr has the warning exactly
of a configuration that does not validate, and nothing else before the run says how it
ended (`Warned`), that flags and configuration are as typed (`Typed`) and how a run may
have ended (`Ended`).

**FindUsersProofs.** `FindsTheWanted`: find_users returns exactly the entries that meet
every criterion given, taken literally, for any calls, entries and attribute names,
values of any length with any characters, and any fragment `valid_fragment` accepts.
`FragmentsStandAlone`, `UsersAreFaithful` and `FindUsersTypeCorrect` with it. The
argument goes through the text that is sent:

* *The reader has an equation.* `Readings` looks only at later places, so a reading
  exists from the last place backwards and the recursive function satisfies its
  definition (`Reads`).
* *Reading is local.* A text read alone and where it stands in a longer one is read the
  same, from any of its places, unless the reading in the longer one leaves it
  (`ReadsAlike`, from `ClauseAlike` and `RunAlike`). Hence `all_of` and `any_of` of
  clauses that mean something mean the intersection and the union (`JoinedMeans`).
* *Escaping is sound.* An escaped value holds no parenthesis and no wildcard, and is
  unescaped to itself because no two characters share an escape sequence (`Escaped`).
  So each builder's text means what its name says: `EqMeans`, `ContainsMeans`,
  `InChainMeans`, `NotMeans`, and the constants `UserObjectMeans` and
  `NotDisabledMeans`.
* *A fragment stands alone.* Whatever the reader accepts closes no more parentheses than
  it opens (`ReadsBalanced`); within a fragment that passed the scan one is open at
  every place but the last (`OpenWithin`). The fragment is the last clause, so only a
  closing parenthesis follows it, and a query that can be read reads the fragment to
  its end (`FragmentLast`). That it is last is used: this is not shown for a fragment
  with clauses behind it. The converse is `JoinedMeans`: if the fragment can be read, or
  there is none, every clause of the query can, and so can the query. `RequestRead` has
  both directions.
* *The states.* `FInv` says what was sent and that the users are what the answer to it
  describes.

`TablesReadBack` goes on to what is printed (`RInv`: the rendering of those users, whose
list exists because an answer is finite). A joined line is four parts two blanks apart,
and `Before` tells where each begins (`FourColumns`). Hence the dashes behind a blank in
the ruler are the columns' beginnings and no others, because no column is without a dash
(`RulerBegins`); and as every column is as wide as its widest cell (`WidthsFit`), a row's
line holds each cell where its column begins (`LineOfRow`). `rstrip` cuts a line short,
in the middle of a column or before several; what it takes away is blank, so the cut
column and the cell strip to the same text (`ColumnReadsBack`).

Induction here is over a set of numbers: a set that holds 0 and with every number the
next holds all (`HoldsAllNumbers`). It follows from the library's theorem that `<` is
well-founded on `Nat`; DirectoryProofs has it from the cardinality of finite sets
instead. The library's induction theorems take an operator as their parameter, which
the provers cannot instantiate.

Assumed of the constants: the pattern for attribute names accepts nothing that has a
meaning in a filter, a value is made of single characters, an argument not given is not
a text, and an entry has a DN; for the table also that the directory is finite, that what it
holds are texts, and that no title is empty or ends in a blank (the four titles are
constants of the script). The names of the attribute map need no assumption: one
that the pattern refuses is refused by the builder that is given it, before anything is
sent.

Only model-checked: the liveness properties (`Terminates`, `SearchEnds`,
`EverySessionReleased`), because the prover has no reasoning about fairness and
ENABLED. The type invariants of `Fragment` and `GroupMembers` are proved and no
longer run.

## 5. Findings

* A negative `limit` makes `islice` raise `ValueError` (`search.py:262`), which leaves
  the library untranslated, where `docs/DESIGN.md:355-356` promises that one
  `except LDAPSearchError` catches everything.
* `direct_reports`, `reporting_tree` and `by_group` validate the caller's attribute
  names after the resolving query was sent (`search.py:484`), where
  `docs/DESIGN.md:573-574` says that binding lazily keeps argument validation off the
  network.

Disagreements met while modelling for which no run is kept; the models contain each
of them as the code does it:

* `direct_reports` returns `[]` for a manager who is renamed between its two queries
  (`search.py:484`), and `by_group` for a group that is moved between them
  (`search.py:460`), although the reports and members were there throughout.
  `docs/DESIGN.md:420-425` says that `[]` means that nobody matches, and that a resolve
  step which comes to nothing must raise because the caller could not tell the
  difference. The bounds of `OneHop` and `GroupSpec` are by DN, and allow it.
* `LDAPConfig` does not check `batch_size`; `itertools.batched` raises `ValueError` for one
  below one (`search.py:474`), untranslated (`docs/DESIGN.md:355-356`). In the models it
  is the status "crashed", which counts as an exception.
* `LDAPConfig` only asks that `base_dn` is not empty (`config.py:31`), where
  `docs/DESIGN.md:349` lists a malformed DN among what it raises `LDAPConfigError` for.
* `manager --raw` prints the count of reports behind the JSON document
  (`cli.py:440`), where `README.md:359` says the output is always JSON;
  `docs/DESIGN.md:836-837` asks for the count, so the two cannot both hold.
* The comment in `tests/test_errors.py:232-234` says that `describe_user` caps its search
  at one match; `_find_one` caps at two (`search.py:365`) and has to, to refuse several.

## 6. What is not modelled

* Which strings `parse_dn` and the pattern for attribute names accept: constants of
  `Filters`.
* The standard library's JSON and CSV writers, with `DirectoryEncoder` and
  `format_dict`, which only feed them; values with a line break in a table; logging.
* What the transport does with its settings (`Config` says which it is given), and the
  values of the timeouts: they make every wait end.
* A KeyboardInterrupt inside a single assignment (between a bind and the
  assignment of `_conn`), while a session is being unbound (the handler of
  `_unbind_quietly` does not catch it), while a failure is being reported or argparse
  runs, and a reader of stdout that goes away.
* Filters for warnings other than the interpreter's own (`PYTHONWARNINGS`, `-W`): one
  that hides the warning of `--insecure` leaves `err` without it, and one that makes it
  an exception makes a failed run of it.
* Of `scripts/benchmark.py`, the timing, `benchmark_group`, `probe_filter_complexity` and
  the script's `main`; the packaging scripts; the fake directory's record of queries
  and its scripted failures. They keep no state the library depends on.

## 7. Plan

Done: the walk, one hop, one search, `by_group`, translation, session, script,
filters, `find_users`, the mapper, the table, the benchmark. Every safety property that a
run checks is proved.

1. Composition of PagedSearch's guarantee into the one-step query of ReportingTree,
   as GroupMembers does with `window`, so that a change may fall within a query of
   the walk; its bounds should carry over with the same invariant.
2. `format_dict` and `DirectoryEncoder`, if they come to hold logic of their own.
