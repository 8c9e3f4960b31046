----------------------------- MODULE PagedSearch -----------------------------
(***************************************************************************)
(* LDAPSearch._search (src/adsearch/search.py): one paged search, its      *)
(* result loop, the referral filter, the cap and the translation of        *)
(* failures; and what find_users and _find_one make of its result.         *)
(*                                                                         *)
(* ldap3's paged_search(generator=True) is external.  It sends nothing     *)
(* until its generator is first advanced, and asks for a page only when    *)
(* the page before is used up and the server's cookie said there is more.  *)
(* A server builds each page from what matches at that moment, sends no    *)
(* entry twice, and says a page is the last only when everything that      *)
(* matched throughout has been sent.  Every request may raise.             *)
(*                                                                         *)
(* MaxReferrals bounds the referrals a server adds to its answer.          *)
(***************************************************************************)
EXTENDS SearchSpec, Errors

CONSTANTS PageSize,      \* LDAPConfig.page_size
          MaxReferrals,  \* bound on the referrals of an answer
          Referral       \* an item of type searchResRef

ASSUME PagedSearchAssumption ==
    /\ PageSize \in Nat \ {0}
    /\ MaxReferrals \in Nat
    /\ Referral \notin Entry

VARIABLES status,   \* "start", "pulling" or "ended"
          page,     \* items of the current page not yet consumed
          cookie,   \* the server may have more
          sent,     \* entries the server has sent
          refs,     \* referrals it has sent
          results   \* the list islice is filling

searchVars == <<op, limit, outcome, status, page, cookie, sent, refs, results>>
vars == <<matchVars, answer, searchVars>>

Item == Entry \cup {Referral}
IsEntry(item) == item # Referral
EntriesOf(s) == {s[i] : i \in {j \in DOMAIN s : IsEntry(s[j])}}

Outcomes == LibraryErrors \cup
            {"pending", "returned", "no match", "many matches", "foreign"}

TypeOK ==
    /\ matching \subseteq Entry /\ ever \subseteq Entry /\ always \subseteq Entry
    /\ changes \in 0..MaxChanges
    /\ op \in {"find_users", "_find_one"}
    /\ limit \in Nat \cup {NoLimit} \cup BadLimits
    /\ outcome \in Outcomes
    /\ answer \in Seq(Entry)
    /\ status \in {"start", "pulling", "ended"}
    /\ page \in Seq(Item)
    /\ cookie \in BOOLEAN
    /\ sent \subseteq Entry
    /\ refs \in 0..MaxReferrals
    /\ results \in Seq(Entry)

Init ==
    /\ MatchInit
    /\ CallInit
    /\ outcome = "pending"
    /\ answer = <<>>
    /\ status = "start"
    /\ page = <<>>
    /\ cookie = TRUE
    /\ sent = {}
    /\ refs = 0
    /\ results = <<>>

-----------------------------------------------------------------------------
\* The call raises: what was collected is dropped.
RaisesAs(error) ==
    /\ status' = "ended"
    /\ outcome' = error
    /\ UNCHANGED <<matchVars, op, limit, answer, page, cookie, sent, refs, results>>

\* Mutant: conn has no handler of its own, and the search's translates.
BindFallbackQuery == "LDAPQueryError"
\* What an ldap3 exception without a name becomes at the bind.
BindFallback == "LDAPConnectionError"

\* self.conn: the bind is refused or fails.  The property translates with its
\* own fallback, and the block around the search lets the result through.
BindFails ==
    /\ status = "start"
    /\ \E exc \in BindSite : RaisesAs(translated(exc, BindFallback))

\* islice refuses a negative cap, before anything is sent.
RefuseLimit ==
    /\ status = "start"
    /\ limit \in BadLimits
    /\ RaisesAs(translated("foreign", "LDAPQueryError"))

\* paged_search returns its generator: nothing has been sent yet.
Start ==
    /\ status = "start"
    /\ limit \notin BadLimits
    /\ status' = "pulling"
    /\ UNCHANGED <<matchVars, op, limit, outcome, answer, page, cookie, sent, refs, results>>

\* Mutant: the cap trims the list instead of stopping the generator.
FullNever == FALSE
\* islice has its fill and advances the generator no more.
Full == limit # NoLimit /\ Len(results) = limit

\* The pages a server may answer with: entries that match now and were not
\* sent yet, and referrals, in any order.
Pages(n) == {p \in [1..n -> (matching \ sent) \cup {Referral}] :
               /\ \A i, j \in 1..n : p[i] = p[j] /\ IsEntry(p[i]) => i = j
               /\ refs + Cardinality({i \in 1..n : ~ IsEntry(p[i])}) <= MaxReferrals}

\* The generator is advanced past the end of a page, and fetches the next.
FetchPage ==
    /\ status = "pulling"
    /\ ~ Full
    /\ page = <<>>
    /\ cookie
    /\ \E n \in 0..PageSize : \E p \in Pages(n), more \in BOOLEAN :
         /\ more => n > 0
         /\ ~ more => always \subseteq sent \cup EntriesOf(p)
         /\ page' = p
         /\ cookie' = more
         /\ sent' = sent \cup EntriesOf(p)
         /\ refs' = refs + Cardinality({i \in 1..n : ~ IsEntry(p[i])})
    /\ UNCHANGED <<matchVars, op, limit, outcome, answer, status, results>>

\* Mutant: a request that raises counts as the end of the answer.
FetchFailsQuietly ==
    /\ status = "pulling" /\ ~ Full /\ page = <<>> /\ cookie
    /\ cookie' = FALSE
    /\ UNCHANGED <<matchVars, op, limit, outcome, answer, status, page, sent, refs, results>>
\* The request for a page raises: the server reports an error, drops the
\* session, or does not answer within receive_timeout.  The result loop is
\* inside the handler, so a failure partway is translated like any other.
FetchFails ==
    /\ status = "pulling"
    /\ ~ Full
    /\ page = <<>>
    /\ cookie
    /\ \E exc \in QuerySite : RaisesAs(translated(exc, "LDAPQueryError"))

\* Mutant: referrals are not told from entries.
KeptAll(item) == <<item>>
\* What the generator expression passes on of an item.
Kept(item) == IF IsEntry(item) THEN <<item>> ELSE <<>>

\* Mutant: a skipped referral is not consumed.
AdvanceOnEntry(s) == IF IsEntry(Head(s)) THEN Tail(s) ELSE s
\* The generator behind the item just looked at.
Advance(s) == Tail(s)

\* One item is consumed.
TakeItem ==
    /\ status = "pulling"
    /\ ~ Full
    /\ page # <<>>
    /\ results' = results \o Kept(Head(page))
    /\ page' = Advance(page)
    /\ UNCHANGED <<matchVars, op, limit, outcome, answer, status, cookie, sent, refs>>

\* Mutant: the first of several matches is picked.
VerdictFirst ==
    IF op = "_find_one" /\ results = <<>> THEN "no match" ELSE "returned"
\* What the operation makes of the finished list.
Verdict ==
    CASE op = "_find_one" /\ results = <<>>    -> "no match"
      [] op = "_find_one" /\ Len(results) > 1  -> "many matches"
      [] OTHER                                 -> "returned"

\* islice has its fill, or the generator is exhausted.
End ==
    /\ status = "pulling"
    /\ Full \/ (page = <<>> /\ ~ cookie)
    /\ status' = "ended"
    /\ outcome' = Verdict
    /\ answer' = IF Verdict = "returned"
                 THEN IF op = "_find_one" THEN <<results[1]>> ELSE results
                 ELSE <<>>
    /\ UNCHANGED <<matchVars, op, limit, page, cookie, sent, refs, results>>

DirectoryChange == MatchChange /\ UNCHANGED <<searchVars, answer>>

Search == \/ BindFails
          \/ RefuseLimit
          \/ Start
          \/ FetchPage
          \/ FetchFails
          \/ TakeItem
          \/ End

Next == Search \/ DirectoryChange

PagedSpec == Init /\ [][Next]_vars

\* The search waits for nobody but the server, and receive_timeout makes every
\* request end.
FairSpec == PagedSpec /\ WF_vars(Search)

-----------------------------------------------------------------------------
\* The search meets its specification: a capped answer that is complete and
\* sound whatever the pages, referrals and changes, or an exception; a lookup
\* returns an entry only when no other matched throughout.
MeetsSpec == Spec

\* The cap stops the paging: no page is requested that the cap did not need,
\* so less than a page is received beyond it, and a cap of zero sends nothing.
StopsPaging ==
    limit \in Nat => Cardinality(sent) <= IF limit = 0 THEN 0
                                         ELSE limit - 1 + PageSize

\* Nothing but this library's own exceptions leaves a search whose cap is a
\* cap: "no match" and "many matches" are NotFoundError.
OnlyLibraryErrors ==
    limit \notin BadLimits => outcome \in LibraryErrors \cup {"pending", "returned", "no match", "many matches"}

\* A bind issues no query: a failure to bind is never reported as a query
\* error, not even one ldap3 has no name for (DESIGN.md 6.2).
BindIsNoQuery == [][status = "start" => outcome' # "LDAPQueryError"]_vars

\* The search ends, however the pages are cut.
SearchEnds == <>(status = "ended")

\* DESIGN.md 6.1: `except LDAPSearchError' catches whatever leaves a search.
NothingEscapes == outcome # "foreign"
=============================================================================
