---------------------------- MODULE DirectReports ----------------------------
(***************************************************************************)
(* LDAPSearch.direct_reports (src/adsearch/search.py): the username is     *)
(* resolved as for the reporting tree, and one pass of _reports_of, whose  *)
(* list is returned as it is, asks about the one DN.                       *)
(***************************************************************************)
EXTENDS ReportingTree

\* Mutant: the first answer of the directory is taken for all of them.
ListedFirst == SubSeq(found, 1, IF Len(found) = 0 THEN 0 ELSE 1)
\* What direct_reports returns.
Listed == found

ReturnFound ==
    /\ status = "asking"
    /\ rest = <<>>
    /\ tree' = Listed
    /\ status' = "done"
    /\ UNCHANGED <<dirVars, batch_size, root, rest, found, new, seen, asked, terms>>

Direct == \/ Resolve \/ ResolveNotFound
          \/ AskBatch \/ QueryFails \/ BatchRefused
          \/ ReturnFound

DirectNext == Direct \/ DirectoryChange

DirectSpec == Init /\ [][DirectNext]_vars

-----------------------------------------------------------------------------
\* The answer holds everybody who reported to the resolved DN for the whole of
\* the call and nobody who never did, each once; a query that failed is never
\* an answer, so a short list is not half a list.
OneHop ==
    status = "done" =>
        /\ {d \in Id : <<root, d>> \in always} \subseteq Ids(tree)
        /\ Ids(tree) \subseteq {d \in Id : <<root, d>> \in ever}
        /\ Distinct(tree)
=============================================================================
