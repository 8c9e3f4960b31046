------------------------------- MODULE CliProofs ------------------------------
(***************************************************************************)
(* Proofs about Session, and about Cli, which runs on it, for any set of   *)
(* subcommands, any environments and any number of sessions.               *)
(*                                                                         *)
(* Session: the inductive invariant (IInv) says where the sessions that    *)
(* are still open can be (Held), which steps belong to which operation     *)
(* (Planned), over which connection the queries of a running call went     *)
(* (Uses), and who waits for a cleanup with which exception put aside      *)
(* (Cleans).                                                               *)
(*                                                                         *)
(* Cli: a run keeps that invariant, since each of its steps is one of      *)
(* Session's, leaves the instance alone, or unwinds a running call         *)
(* (Unwinds).  On top of it the invariant says what the exceptions of a    *)
(* call tell (Excepts), what holds in each phase (Phases), that flags and  *)
(* configuration are as typed (Typed), and how a run may have ended        *)
(* (Ended).                                                                *)
(***************************************************************************)
EXTENDS Cli, FiniteSetTheorems, TLAPS

-----------------------------------------------------------------------------
(* Session *)

\* An open session is _conn's, that of a running server_info, or being unbound,
\* and these are different sessions.
Held ==
    /\ Sessions \ released \subseteq {conn, scratch, unbinding}
    /\ conn # None => conn \in Sessions \ released
    /\ scratch # None => scratch \in Sessions \ released /\ scratch # conn
    /\ unbinding # None => /\ unbinding \in Sessions \ released
                          /\ unbinding # conn /\ unbinding # scratch
    /\ block = "out" => conn = None /\ scratch = None

\* Steps are left only while a call runs, inside the block; the throwaway
\* connection belongs to server_info, which has no other step.
Planned ==
    /\ call # "none" => block = "in"
    /\ call = "none" => todo = <<>>
    /\ todo \in Seq({"check", "query"}) \/ (call = "server_info" /\ todo = <<"info">>)
    /\ scratch # None => todo = <<"info">>

\* The queries of a running call went over the connection there is, and it has
\* raised nothing.
Uses == call # "none" => /\ used \subseteq {conn} \ {None}
                         /\ error = "none" /\ cause = "none"

\* The cleanup of server_info is the last thing a call does; the others run
\* between calls, and that of the with block has put aside what ended its body.
Cleans ==
    /\ cleanup = "none" => unbinding = None /\ saved = "none" /\ thrown = "none"
    /\ cleanup # "none" => block = "in" /\ todo = <<>>
    /\ cleanup \in {"close", "exit"} => call = "none"
    /\ cleanup = "info" => call # "none"
    /\ cleanup = "exit" => conn = None /\ saved = ended

IInv == /\ TypeOK
        /\ Held
        /\ Planned
        /\ Uses
        /\ Cleans
        /\ ErrorTellsCause
        /\ BlockKeepsItsError

-----------------------------------------------------------------------------
\* What the handlers make of each exception, at the bind and at the query.
LEMMA TranslatedBind ==
    ASSUME NEW exc \in BindSite
    PROVE  LET e == translated(exc, "LDAPConnectionError") IN
           /\ e \in LibraryErrors
           /\ e = IF exc \in {"rejected", "password"} THEN "LDAPAuthError"
                  ELSE "LDAPConnectionError"
BY DEF BindSite, translated, Catches, Bases, AUTH_ERRORS, CONNECTION_ERRORS,
       QUERY_ERRORS, LibraryErrors

LEMMA TranslatedQuery ==
    ASSUME NEW exc \in QuerySite
    PROVE  LET e == translated(exc, "LDAPQueryError") IN
           /\ e \in LibraryErrors
           /\ e = IF exc \in {"socket", "timeout"} THEN "LDAPConnectionError"
                  ELSE "LDAPQueryError"
BY DEF QuerySite, translated, Catches, Bases, AUTH_ERRORS, CONNECTION_ERRORS,
       QUERY_ERRORS, LibraryErrors

\* The steps of an operation are checks and queries, or server_info's one step.
LEMMA PlanSteps ==
    ASSUME NEW op \in DOMAIN Plan
    PROVE  /\ op # "none"
           /\ Plan[op] \in Seq({"check", "query"})
                \/ (op = "server_info" /\ Plan[op] = <<"info">>)
<1> DEFINE S == {"check", "query"}
<1>1. /\ <<>> \in Seq(S)
      /\ <<"query">> \in Seq(S)
      /\ <<"check", "query">> \in Seq(S)
      /\ <<"query", "check", "query">> \in Seq(S)
      /\ <<"query", "check", "query", "check", "query">> \in Seq(S)
  OBVIOUS
<1>2. DOMAIN Plan = {"find_users", "describe_user", "resolve_user_dn",
                     "resolve_group_dn_by_dn", "resolve_group_dn", "by_group_dn",
                     "by_group", "direct_reports", "reporting_tree", "server_info"}
  BY DEF Plan
<1>3. op # "none"
  BY <1>2
<1>4. /\ Plan["find_users"] \in Seq(S) /\ Plan["describe_user"] \in Seq(S)
      /\ Plan["resolve_user_dn"] \in Seq(S) /\ Plan["by_group_dn"] \in Seq(S)
      /\ Plan["resolve_group_dn_by_dn"] \in Seq(S) /\ Plan["resolve_group_dn"] \in Seq(S)
      /\ Plan["by_group"] \in Seq(S) /\ Plan["direct_reports"] \in Seq(S)
  <2>1. /\ Plan["find_users"] = <<"check", "query">>
        /\ Plan["describe_user"] = <<"check", "query">>
        /\ Plan["resolve_user_dn"] = <<"check", "query">>
        /\ Plan["by_group_dn"] = <<"check", "query">>
        /\ Plan["resolve_group_dn_by_dn"] = <<>>
        /\ Plan["resolve_group_dn"] = <<"query">>
    BY DEF Plan
  <2>2. /\ Plan["by_group"] = <<"query", "check", "query">>
        /\ Plan["direct_reports"] = <<"query", "check", "query">>
    BY DEF Plan
  <2> QED
    BY <1>1, <2>1, <2>2
<1>5. Plan["reporting_tree"] \in Seq(S)
  <2>1. Plan["reporting_tree"] = <<"query", "check", "query", "check", "query">>
    BY DEF Plan
  <2> QED
    BY <1>1, <2>1
<1>6. Plan["server_info"] = <<"info">>
  BY DEF Plan
<1> QED
  BY <1>2, <1>3, <1>4, <1>5, <1>6

\* Taking the first step away leaves steps of the same kinds.
LEMMA StepTaken ==
    ASSUME NEW S, NEW t \in Seq(S), t # <<>>
    PROVE  Head(t) \in S /\ Tail(t) \in Seq(S)
OBVIOUS

\* Nothing an unbind raises gets past _unbind_quietly: a cleanup goes on as it
\* would have without it.
LEMMA NothingSurfaces ==
    ASSUME IInv, Unbound
    PROVE  thrown = "none" /\ unbinding = None /\ Surfaces = saved
<1>1. UnbindSite \subseteq DOMAIN Bases
  BY DEF UnbindSite, Bases
<1>2. thrown = "none"
  BY <1>1 DEF IInv, TypeOK, Unbound, Swallows
<1> QED
  BY <1>2 DEF Unbound, Surfaces

\* While the caller's code runs no session is open but _conn's.
LEMMA CallersView ==
    ASSUME IInv, CallersTurn
    PROVE  /\ block = "in" /\ call = "none" /\ cleanup = "none" /\ todo = <<>>
           /\ scratch = None /\ unbinding = None /\ saved = "none" /\ thrown = "none"
           /\ Sessions \ released \subseteq {conn}
<1>1. /\ block = "in" /\ call = "none" /\ cleanup = "none" /\ todo = <<>>
      /\ scratch = None /\ unbinding = None /\ saved = "none" /\ thrown = "none"
  BY DEF CallersTurn, IInv, Planned, Cleans
<1>2. None \notin Sessions
  BY DEF Sessions, None
<1> QED
  BY <1>1, <1>2 DEF IInv, Held

-----------------------------------------------------------------------------
LEMMA InitInv == ASSUME Init PROVE IInv
<1>1. TypeOK
  <2>1. todo \in Seq({"check", "query", "info"})
    BY DEF Init
  <2>2. /\ conn \in 0..MaxSessions /\ scratch \in 0..MaxSessions
        /\ opened \in 0..MaxSessions /\ unbinding \in 0..MaxSessions
    BY SessionAssumption DEF Init, None
  <2> QED
    BY <2>1, <2>2 DEF Init, TypeOK, Raisable
<1>2. Held /\ Planned /\ Uses /\ Cleans
  BY DEF Init, Held, Planned, Uses, Cleans, Sessions, None
<1>3. ErrorTellsCause /\ BlockKeepsItsError
  BY DEF Init, ErrorTellsCause, BlockKeepsItsError, UnbindSite
<1> QED
  BY <1>1, <1>2, <1>3 DEF IInv

LEMMA EnterInv == ASSUME IInv, Enter PROVE IInv'
<1>1. /\ block = "out" /\ block' = "in"
      /\ error' = "none" /\ cause' = "none" /\ ended' = "none" /\ escaped' = "none"
      /\ UNCHANGED <<conn, scratch, opened, released, lost, call, bad, todo, used,
                     cleanup, unbinding, saved, thrown>>
  BY DEF Enter, serverVars, cleanupVars
<1>2. TypeOK'
  BY <1>1 DEF IInv, TypeOK, Sessions, Raisable
<1>3. Held' /\ Planned' /\ Uses' /\ Cleans'
  BY <1>1 DEF IInv, Held, Planned, Uses, Cleans, Sessions
<1>4. ErrorTellsCause' /\ BlockKeepsItsError'
  BY <1>1 DEF ErrorTellsCause, BlockKeepsItsError, UnbindSite
<1> QED
  BY <1>2, <1>3, <1>4 DEF IInv

LEMMA CallInv ==
    ASSUME IInv, NEW op \in DOMAIN Plan, Call(op)
    PROVE  IInv'
<1>1. /\ CallersTurn /\ call' = op /\ bad' \in BOOLEAN /\ todo' = Plan[op] /\ used' = {}
      /\ error' = "none" /\ cause' = "none"
      /\ UNCHANGED <<conn, scratch, opened, released, lost, cleanup, unbinding, saved,
                     thrown, block, ended, escaped>>
  BY DEF Call, serverVars, cleanupVars, blockVars
<1>2. block = "in" /\ cleanup = "none" /\ scratch = None
  BY <1>1, CallersView
<1>3. TypeOK'
  <2>1. todo' \in Seq({"check", "query", "info"})
    <3>1. <<"info">> \in Seq({"check", "query", "info"})
      OBVIOUS
    <3>2. \A t \in Seq({"check", "query"}) : t \in Seq({"check", "query", "info"})
      OBVIOUS
    <3> QED
      BY <1>1, <3>1, <3>2, PlanSteps
  <2> QED
    BY <1>1, <2>1 DEF IInv, TypeOK, Sessions
<1>4. Held'
  BY <1>1 DEF IInv, Held, Sessions
<1>5. Planned' /\ Cleans'
  BY <1>1, <1>2, PlanSteps DEF IInv, Planned, Cleans
<1>6. Uses'
  BY <1>1 DEF Uses
<1>7. ErrorTellsCause' /\ BlockKeepsItsError'
  BY <1>1, <1>2 DEF ErrorTellsCause, BlockKeepsItsError, UnbindSite
<1> QED
  BY <1>3, <1>4, <1>5, <1>6, <1>7 DEF IInv

LEMMA ReturnInv == ASSUME IInv, Return PROVE IInv'
<1>1. /\ call # "none" /\ todo = <<>> /\ cleanup = "none" /\ call' = "none"
      /\ UNCHANGED <<conn, scratch, opened, released, lost, bad, todo, used, error,
                     cause, cleanup, unbinding, saved, thrown, block, ended, escaped>>
  BY DEF Return, serverVars, cleanupVars, blockVars
<1>2. TypeOK'
  BY <1>1 DEF IInv, TypeOK, Sessions
<1>3. Held' /\ Planned' /\ Uses' /\ Cleans'
  BY <1>1 DEF IInv, Held, Planned, Uses, Cleans, Sessions
<1>4. ErrorTellsCause' /\ BlockKeepsItsError'
  BY <1>1 DEF IInv, ErrorTellsCause, BlockKeepsItsError
<1> QED
  BY <1>2, <1>3, <1>4 DEF IInv

-----------------------------------------------------------------------------
(* Cleaning up *)

LEMMA CloseInv == ASSUME IInv, Close PROVE IInv'
<1>1. /\ CallersTurn /\ conn # None /\ conn' = None
      /\ cleanup' = "close" /\ unbinding' = conn /\ saved' = "none"
      /\ UNCHANGED <<scratch, opened, released, lost, call, bad, todo, used, error,
                     cause, thrown, block, ended, escaped>>
  BY DEF Close, CleanUp, serverVars, callVars, blockVars
<1>2. TypeOK'
  BY <1>1, SessionAssumption DEF IInv, TypeOK, Sessions, Raisable, None
<1>3. Held'
  BY <1>1, CallersView DEF IInv, Held, Sessions
<1>4. Planned' /\ Uses' /\ Cleans'
  BY <1>1, CallersView DEF IInv, Planned, Uses, Cleans
<1>5. ErrorTellsCause' /\ BlockKeepsItsError'
  BY <1>1 DEF IInv, ErrorTellsCause, BlockKeepsItsError
<1> QED
  BY <1>2, <1>3, <1>4, <1>5 DEF IInv

LEMMA ExitInv ==
    ASSUME IInv, NEW e \in Raisable, Exit(e)
    PROVE  IInv'
<1>1. /\ CallersTurn /\ conn' = None
      /\ cleanup' = "exit" /\ unbinding' = conn /\ saved' = e /\ ended' = e
      /\ UNCHANGED <<scratch, opened, released, lost, call, bad, todo, used, error,
                     cause, thrown, block, escaped>>
  BY DEF Exit, CleanUp, serverVars, callVars
<1>2. TypeOK'
  BY <1>1, SessionAssumption DEF IInv, TypeOK, Sessions, None
<1>3. Held'
  BY <1>1, CallersView DEF IInv, Held, Sessions
<1>4. Planned' /\ Uses' /\ Cleans'
  BY <1>1, CallersView DEF IInv, Planned, Uses, Cleans
<1>5. ErrorTellsCause' /\ BlockKeepsItsError'
  BY <1>1, CallersView DEF IInv, ErrorTellsCause, BlockKeepsItsError
<1> QED
  BY <1>2, <1>3, <1>4, <1>5 DEF IInv

\* server_info's connection goes to the cleanup, whatever becomes of the call.
LEMMA InfoCleanUpInv ==
    ASSUME IInv, NEW e \in Raisable, InfoCleanUp(e), scratch # None, cleanup = "none",
           todo' = <<>>,
           UNCHANGED <<conn, serverVars, call, bad, used, error, cause, blockVars>>
    PROVE  IInv'
<1>1. /\ scratch' = None /\ cleanup' = "info" /\ unbinding' = scratch /\ saved' = e
      /\ UNCHANGED <<conn, opened, released, lost, call, bad, used, error, cause, thrown,
                     block, ended, escaped>>
  BY DEF InfoCleanUp, CleanUp, serverVars, blockVars
<1>2. call # "none" /\ block = "in" /\ unbinding = None
  <2>1. todo # <<>>
    BY DEF IInv, Planned
  <2> QED
    BY <2>1 DEF IInv, Planned, Cleans
<1>3. TypeOK'
  <2>1. todo' \in Seq({"check", "query", "info"}) /\ todo' \in Seq({"check", "query"})
    OBVIOUS
  <2> QED
    BY <1>1, <2>1, SessionAssumption DEF IInv, TypeOK, Sessions, None
<1>4. Held'
  BY <1>1, <1>2 DEF IInv, Held, Sessions
<1>5. Planned' /\ Uses' /\ Cleans'
  <2>1. todo' \in Seq({"check", "query"})
    OBVIOUS
  <2> QED
    BY <1>1, <1>2, <2>1 DEF IInv, Planned, Uses, Cleans
<1>6. ErrorTellsCause' /\ BlockKeepsItsError'
  BY <1>1 DEF IInv, ErrorTellsCause, BlockKeepsItsError
<1> QED
  BY <1>3, <1>4, <1>5, <1>6 DEF IInv

LEMMA UnbindInv == ASSUME IInv, Unbind PROVE IInv'
<1>1. /\ unbinding # None /\ released' = released \cup {unbinding} /\ unbinding' = None
      /\ thrown' \in UnbindSite \cup {"none"}
      /\ UNCHANGED <<conn, scratch, opened, lost, call, bad, todo, used, error, cause,
                     cleanup, saved, block, ended, escaped>>
  BY DEF Unbind, callVars, blockVars
<1>2. TypeOK'
  BY <1>1, SessionAssumption DEF IInv, TypeOK, Held, Sessions, None
<1>3. Held'
  BY <1>1 DEF IInv, Held, Sessions
<1>4. Planned' /\ Uses' /\ Cleans'
  BY <1>1 DEF IInv, Planned, Uses, Cleans
<1>5. ErrorTellsCause' /\ BlockKeepsItsError'
  BY <1>1 DEF IInv, ErrorTellsCause, BlockKeepsItsError
<1> QED
  BY <1>2, <1>3, <1>4, <1>5 DEF IInv

LEMMA SwallowInv == ASSUME IInv, Swallow PROVE IInv'
<1>1. /\ thrown # "none" /\ thrown' = "none"
      /\ UNCHANGED <<conn, scratch, opened, released, lost, call, bad, todo, used, error,
                     cause, cleanup, unbinding, saved, block, ended, escaped>>
  BY DEF Swallow, serverVars, callVars, blockVars
<1>2. TypeOK'
  BY <1>1 DEF IInv, TypeOK, Sessions
<1>3. Held' /\ Planned' /\ Uses' /\ Cleans'
  BY <1>1 DEF IInv, Held, Planned, Uses, Cleans, Sessions
<1>4. ErrorTellsCause' /\ BlockKeepsItsError'
  BY <1>1 DEF IInv, ErrorTellsCause, BlockKeepsItsError
<1> QED
  BY <1>2, <1>3, <1>4 DEF IInv

LEMMA CloseEndsInv == ASSUME IInv, CloseEnds PROVE IInv'
<1>1. /\ cleanup = "close" /\ Unbound
      /\ cleanup' = "none" /\ saved' = "none" /\ thrown' = "none"
      /\ error' = IF thrown = "none" THEN error ELSE thrown
      /\ UNCHANGED <<conn, scratch, opened, released, lost, call, bad, todo, used, cause,
                     unbinding, block, ended, escaped>>
  BY DEF CloseEnds, CleanUpEnds, serverVars, blockVars
<1>2. unbinding = None /\ error' = error
  BY <1>1, NothingSurfaces
<1>3. TypeOK'
  BY <1>1, <1>2 DEF IInv, TypeOK, Sessions, Raisable
<1>4. Held' /\ Planned' /\ Uses' /\ Cleans'
  BY <1>1, <1>2 DEF IInv, Held, Planned, Uses, Cleans, Sessions
<1>5. ErrorTellsCause' /\ BlockKeepsItsError'
  BY <1>1, <1>2 DEF IInv, ErrorTellsCause, BlockKeepsItsError
<1> QED
  BY <1>3, <1>4, <1>5 DEF IInv

LEMMA ExitEndsInv == ASSUME IInv, ExitEnds PROVE IInv'
<1>1. /\ cleanup = "exit" /\ Unbound
      /\ cleanup' = "none" /\ saved' = "none" /\ thrown' = "none"
      /\ block' = "out" /\ escaped' = Surfaces
      /\ UNCHANGED <<conn, scratch, opened, released, lost, call, bad, todo, used, error,
                     cause, unbinding, ended>>
  BY DEF ExitEnds, CleanUpEnds, serverVars, callVars
<1>2. unbinding = None /\ escaped' = saved
  BY <1>1, NothingSurfaces
<1>3. conn = None /\ scratch = None /\ call = "none" /\ saved = ended
  BY <1>1 DEF IInv, Planned, Cleans
<1>4. TypeOK'
  BY <1>1, <1>2 DEF IInv, TypeOK, Sessions, Raisable
<1>5. Held' /\ Planned' /\ Uses' /\ Cleans'
  BY <1>1, <1>2, <1>3 DEF IInv, Held, Planned, Uses, Cleans, Sessions
<1>6. ErrorTellsCause' /\ BlockKeepsItsError'
  BY <1>1, <1>2, <1>3 DEF IInv, ErrorTellsCause, BlockKeepsItsError
<1> QED
  BY <1>4, <1>5, <1>6 DEF IInv

LEMMA InfoEndsInv ==
    ASSUME IInv, InfoEnds
    PROVE  IInv' /\ call # "none" /\ call' = call /\ error' = "none"
<1>1. /\ cleanup = "info" /\ saved = "none" /\ Unbound
      /\ cleanup' = "none" /\ saved' = "none" /\ thrown' = "none"
      /\ error' = Surfaces /\ call' = IF error' = "none" THEN call ELSE "none"
      /\ UNCHANGED <<conn, scratch, opened, released, lost, bad, todo, used, cause,
                     unbinding, block, ended, escaped>>
  BY DEF InfoEnds, CleanUpEnds, serverVars, blockVars
<1>2. unbinding = None /\ error' = "none" /\ call' = call
  BY <1>1, NothingSurfaces
<1>3. call # "none" /\ error = "none"
  BY <1>1 DEF IInv, Cleans, Uses
<1>4. TypeOK'
  BY <1>1, <1>2 DEF IInv, TypeOK, Sessions, Raisable
<1>5. Held' /\ Planned' /\ Uses' /\ Cleans'
  BY <1>1, <1>2, <1>3 DEF IInv, Held, Planned, Uses, Cleans, Sessions
<1>6. ErrorTellsCause' /\ BlockKeepsItsError'
  BY <1>1, <1>2, <1>3 DEF IInv, ErrorTellsCause, BlockKeepsItsError
<1> QED
  BY <1>2, <1>3, <1>4, <1>5, <1>6 DEF IInv

-----------------------------------------------------------------------------
\* A call that raises leaves the connections as they are.
LEMMA RaisesInv ==
    ASSUME IInv, call # "none", NEW e \in LibraryErrors,
           NEW exc \in BindSite \cup QuerySite \cup {"none"}, RaisesAs(e, exc),
           \/ exc = "none" /\ e \in {"LDAPQueryError", "NotFoundError"}
           \/ exc \in BindSite /\ e = translated(exc, "LDAPConnectionError")
           \/ exc \in QuerySite /\ e = translated(exc, "LDAPQueryError"),
           UNCHANGED <<conn, opened, released>>,
           lost' \subseteq Sessions, scratch' = None, scratch = None, cleanup = "none"
    PROVE  IInv'
<1>1. /\ call' = "none" /\ todo' = <<>> /\ error' = e /\ cause' = exc /\ block = "in"
      /\ UNCHANGED <<bad, used, cleanup, unbinding, saved, thrown, block, ended, escaped>>
  BY DEF IInv, Planned, RaisesAs, cleanupVars, blockVars
<1>2. TypeOK'
  <2>1. todo' \in Seq({"check", "query", "info"})
    BY <1>1
  <2> QED
    BY <1>1, <2>1 DEF IInv, TypeOK, Sessions, None
<1>3. Held'
  BY <1>1 DEF IInv, Held, Sessions, None
<1>4. Planned' /\ Uses' /\ Cleans'
  <2>1. todo' \in Seq({"check", "query"})
    BY <1>1
  <2> QED
    BY <1>1, <2>1 DEF IInv, Planned, Uses, Cleans
<1>5. ErrorTellsCause'
  BY <1>1, TranslatedBind, TranslatedQuery DEF ErrorTellsCause, BindSite, QuerySite
<1>6. BlockKeepsItsError'
  BY <1>1 DEF BlockKeepsItsError, LibraryErrors, UnbindSite
<1> QED
  BY <1>2, <1>3, <1>4, <1>5, <1>6 DEF IInv

\* The next step tells whether server_info runs.
LEMMA NextStepRuns ==
    ASSUME IInv, NEW step, NextStep(step)
    PROVE  /\ call # "none" /\ block = "in" /\ cleanup = "none" /\ unbinding = None
           /\ step = "info" => call = "server_info" /\ todo = <<"info">>
           /\ step \in {"check", "query"} =>
                /\ todo \in Seq({"check", "query"}) /\ Tail(todo) \in Seq({"check", "query"})
                /\ scratch = None
<1>1. todo # <<>> /\ Head(todo) = step
  BY DEF NextStep
<1>2. call # "none" /\ block = "in" /\ cleanup = "none" /\ unbinding = None
  BY <1>1 DEF IInv, Planned, Cleans
<1>3. CASE todo \in Seq({"check", "query"})
  <2>1. Head(todo) \in {"check", "query"} /\ Tail(todo) \in Seq({"check", "query"})
    BY <1>1, <1>3, StepTaken
  <2>2. todo # <<"info">>
    BY <2>1
  <2> QED
    BY <1>1, <1>2, <1>3, <2>1, <2>2 DEF IInv, Planned
<1>4. CASE call = "server_info" /\ todo = <<"info">>
  BY <1>1, <1>2, <1>4
<1> QED
  BY <1>3, <1>4 DEF IInv, Planned

LEMMA CheckInv == ASSUME IInv, Check PROVE IInv'
<1>1. NextStep("check")
  BY DEF Check
<1>2. /\ call # "none" /\ block = "in" /\ scratch = None /\ cleanup = "none"
      /\ Tail(todo) \in Seq({"check", "query"})
  BY <1>1, NextStepRuns
<1>3. /\ UNCHANGED <<conn, scratch, opened, released, lost>> /\ lost \subseteq Sessions
  BY DEF IInv, TypeOK, Check, serverVars
<1>4. CASE RaisesAs("LDAPQueryError", "none")
  BY <1>2, <1>3, <1>4, RaisesInv DEF LibraryErrors
<1>5. CASE /\ todo' = Tail(todo)
           /\ UNCHANGED <<call, bad, used, error, cause, cleanupVars, blockVars>>
  <2>0. UNCHANGED <<cleanup, unbinding, saved, thrown, block, ended, escaped>>
    BY <1>5 DEF cleanupVars, blockVars
  <2>1. TypeOK'
    <3>1. Tail(todo) \in Seq({"check", "query", "info"})
      BY <1>2
    <3> QED
      BY <1>3, <1>5, <2>0, <3>1 DEF IInv, TypeOK, Sessions
  <2>2. Held' /\ Uses'
    BY <1>3, <1>5, <2>0 DEF IInv, Held, Uses, Sessions
  <2>3. Planned'
    BY <1>2, <1>3, <1>5, <2>0 DEF IInv, Planned
  <2>4. Cleans' /\ ErrorTellsCause' /\ BlockKeepsItsError'
    BY <1>2, <1>5, <2>0 DEF IInv, Cleans, ErrorTellsCause, BlockKeepsItsError
  <2> QED
    BY <2>1, <2>2, <2>3, <2>4 DEF IInv
<1> QED
  BY <1>4, <1>5 DEF Check

LEMMA BindInv == ASSUME IInv, Bind PROVE IInv'
<1>1. /\ NextStep("query") /\ conn = None /\ opened < MaxSessions
      /\ opened' = opened + 1 /\ conn' = opened + 1
      /\ UNCHANGED <<scratch, released, lost, call, bad, todo, used, error, cause,
                     cleanup, unbinding, saved, thrown, block, ended, escaped>>
  BY DEF Bind, MustBind, callVars, cleanupVars, blockVars
<1>2. /\ call # "none" /\ block = "in" /\ scratch = None /\ cleanup = "none"
      /\ unbinding = None
  BY <1>1, NextStepRuns
<1>3. opened \in Nat /\ released \subseteq 1..opened /\ lost \subseteq 1..opened
  BY DEF IInv, TypeOK, Sessions
<1>4. Sessions' = Sessions \cup {opened + 1} /\ opened + 1 \notin Sessions
  BY <1>1, <1>3 DEF Sessions
<1>5. TypeOK'
  <2>1. opened' \in 0..MaxSessions /\ conn' \in 0..MaxSessions
    BY <1>1, <1>3, SessionAssumption
  <2>2. released' \subseteq Sessions' /\ lost' \subseteq Sessions' /\ used' \subseteq Sessions'
    BY <1>1, <1>4 DEF IInv, TypeOK
  <2> QED
    BY <1>1, <2>1, <2>2 DEF IInv, TypeOK
<1>6. Held'
  <2>1. Sessions \ released = {}
    BY <1>1, <1>2, <1>3 DEF IInv, Held, None, Sessions
  <2>2. opened + 1 # None /\ opened + 1 \notin released
    BY <1>3 DEF None
  <2> QED
    BY <1>1, <1>2, <1>4, <2>1, <2>2 DEF Held
<1>7. Planned'
  BY <1>1, <1>2 DEF IInv, Planned
<1>8. Uses'
  BY <1>1, <1>2 DEF IInv, Uses
<1>9. Cleans' /\ ErrorTellsCause' /\ BlockKeepsItsError'
  BY <1>1, <1>2 DEF IInv, Cleans, ErrorTellsCause, BlockKeepsItsError
<1> QED
  BY <1>5, <1>6, <1>7, <1>8, <1>9 DEF IInv

LEMMA BindFailsInv == ASSUME IInv, BindFails PROVE IInv'
<1>1. NextStep("query") /\ conn = None /\ conn' = None
      /\ UNCHANGED <<scratch, opened, released, lost>>
  BY DEF BindFails, MustBind, ConnAfterFailure, serverVars
<1>2. call # "none" /\ scratch = None /\ cleanup = "none"
  BY <1>1, NextStepRuns
<1>3. PICK exc \in BindSite : RaisesAs(translated(exc, "LDAPConnectionError"), exc)
  BY DEF BindFails
<1>4. lost' \subseteq Sessions
  BY <1>1 DEF IInv, TypeOK
<1> QED
  BY <1>1, <1>2, <1>3, <1>4, TranslatedBind, RaisesInv

LEMMA QueryInv == ASSUME IInv, Query PROVE IInv'
<1>1. /\ NextStep("query") /\ conn # None
      /\ used' = used \cup {conn} /\ todo' = Tail(todo)
      /\ UNCHANGED <<conn, scratch, opened, released, lost, call, bad, error, cause,
                     cleanup, unbinding, saved, thrown, block, ended, escaped>>
  BY DEF Query, MustBind, serverVars, cleanupVars, blockVars
<1>2. /\ call # "none" /\ block = "in" /\ scratch = None /\ cleanup = "none"
      /\ Tail(todo) \in Seq({"check", "query"})
  BY <1>1, NextStepRuns
<1>3. TypeOK'
  <2>1. Tail(todo) \in Seq({"check", "query", "info"})
    BY <1>2
  <2>2. used' \subseteq Sessions
    BY <1>1 DEF IInv, TypeOK, Held
  <2> QED
    BY <1>1, <2>1, <2>2 DEF IInv, TypeOK, Sessions
<1>4. Held' /\ Uses'
  BY <1>1, <1>2 DEF IInv, Held, Uses, Sessions
<1>5. Planned'
  BY <1>1, <1>2 DEF IInv, Planned
<1>6. Cleans' /\ ErrorTellsCause' /\ BlockKeepsItsError'
  BY <1>1 DEF IInv, Cleans, ErrorTellsCause, BlockKeepsItsError
<1> QED
  BY <1>3, <1>4, <1>5, <1>6 DEF IInv

LEMMA QueryNotFoundInv == ASSUME IInv, QueryNotFound PROVE IInv'
<1>1. NextStep("query") /\ RaisesAs("NotFoundError", "none")
      /\ UNCHANGED <<conn, scratch, opened, released, lost>>
  BY DEF QueryNotFound, serverVars
<1>2. call # "none" /\ scratch = None /\ cleanup = "none"
  BY <1>1, NextStepRuns
<1>3. lost' \subseteq Sessions
  BY <1>1 DEF IInv, TypeOK
<1> QED
  BY <1>1, <1>2, <1>3, RaisesInv DEF LibraryErrors

LEMMA QueryFailsInv == ASSUME IInv, QueryFails PROVE IInv'
<1>1. NextStep("query") /\ conn # None /\ UNCHANGED <<conn, scratch, opened, released>>
  BY DEF QueryFails, MustBind
<1>2. call # "none" /\ scratch = None /\ cleanup = "none"
  BY <1>1, NextStepRuns
<1>3. PICK exc \in QuerySite :
        /\ RaisesAs(translated(exc, "LDAPQueryError"), exc)
        /\ lost' = IF exc = "socket" THEN lost \cup {conn} ELSE lost
  BY DEF QueryFails
<1>4. lost' \subseteq Sessions
  BY <1>1, <1>3 DEF IInv, TypeOK, Held
<1> QED
  BY <1>1, <1>2, <1>3, <1>4, TranslatedQuery, RaisesInv

LEMMA InfoBindInv == ASSUME IInv, InfoBind PROVE IInv'
<1>1. /\ NextStep("info") /\ scratch = None /\ opened < MaxSessions
      /\ opened' = opened + 1 /\ scratch' = opened + 1
      /\ UNCHANGED <<conn, released, lost, call, bad, todo, used, error, cause,
                     cleanup, unbinding, saved, thrown, block, ended, escaped>>
  BY DEF InfoBind, callVars, cleanupVars, blockVars
<1>2. call = "server_info" /\ todo = <<"info">> /\ block = "in"
      /\ unbinding = None
  BY <1>1, NextStepRuns
<1>3. opened \in Nat /\ released \subseteq 1..opened /\ lost \subseteq 1..opened
  BY DEF IInv, TypeOK, Sessions
<1>4. Sessions' = Sessions \cup {opened + 1} /\ opened + 1 \notin Sessions
  BY <1>1, <1>3 DEF Sessions
<1>5. TypeOK'
  <2>1. opened' \in 0..MaxSessions /\ scratch' \in 0..MaxSessions
    BY <1>1, <1>3, SessionAssumption
  <2>2. released' \subseteq Sessions' /\ lost' \subseteq Sessions' /\ used' \subseteq Sessions'
    BY <1>1, <1>4 DEF IInv, TypeOK
  <2> QED
    BY <1>1, <2>1, <2>2 DEF IInv, TypeOK
<1>6. Held'
  <2>1. Sessions \ released \subseteq {conn} /\ (conn # None => conn \in Sessions \ released)
    BY <1>1, <1>2, <1>3 DEF IInv, Held, None, Sessions
  <2>2. opened + 1 # None /\ opened + 1 \notin released
    BY <1>3 DEF None
  <2>3. opened + 1 # conn
    BY <1>4, <2>1, <2>2
  <2> QED
    BY <1>1, <1>2, <1>4, <2>1, <2>2, <2>3 DEF Held
<1>7. Planned' /\ Uses'
  BY <1>1, <1>2 DEF IInv, Planned, Uses
<1>8. Cleans' /\ ErrorTellsCause' /\ BlockKeepsItsError'
  BY <1>1, <1>2 DEF IInv, Cleans, ErrorTellsCause, BlockKeepsItsError
<1> QED
  BY <1>5, <1>6, <1>7, <1>8 DEF IInv

LEMMA InfoBindFailsInv == ASSUME IInv, InfoBindFails PROVE IInv'
<1>1. NextStep("info") /\ scratch = None
      /\ UNCHANGED <<conn, scratch, opened, released, lost>>
  BY DEF InfoBindFails, serverVars
<1>2. call # "none" /\ cleanup = "none"
  BY <1>1, NextStepRuns
<1>3. PICK exc \in BindSite : RaisesAs(translated(exc, "LDAPConnectionError"), exc)
  BY DEF InfoBindFails
<1>4. lost' \subseteq Sessions
  BY <1>1 DEF IInv, TypeOK
<1> QED
  BY <1>1, <1>2, <1>3, <1>4, TranslatedBind, RaisesInv

LEMMA InfoReadInv == ASSUME IInv, InfoRead PROVE IInv'
<1>1. /\ NextStep("info") /\ scratch # None /\ InfoCleanUp("none") /\ todo' = Tail(todo)
      /\ UNCHANGED <<conn, serverVars, call, bad, used, error, cause, blockVars>>
  BY DEF InfoRead
<1>2. todo = <<"info">> /\ cleanup = "none"
  BY <1>1, NextStepRuns
<1>3. todo' = <<>>
  BY <1>1, <1>2
<1>4. "none" \in Raisable
  BY DEF Raisable
<1> QED
  BY <1>1, <1>2, <1>3, <1>4, InfoCleanUpInv

LEMMA SessionDropsInv == ASSUME IInv, SessionDrops PROVE IInv'
<1>1. /\ conn # None /\ lost' = lost \cup {conn}
      /\ UNCHANGED <<conn, scratch, opened, released, call, bad, todo, used, error, cause,
                     cleanup, unbinding, saved, thrown, block, ended, escaped>>
  BY DEF SessionDrops, callVars, cleanupVars, blockVars
<1>2. TypeOK'
  BY <1>1 DEF IInv, TypeOK, Held, Sessions
<1>3. Held' /\ Planned' /\ Uses'
  BY <1>1 DEF IInv, Held, Planned, Uses, Sessions
<1>4. Cleans' /\ ErrorTellsCause' /\ BlockKeepsItsError'
  BY <1>1 DEF IInv, Cleans, ErrorTellsCause, BlockKeepsItsError
<1> QED
  BY <1>2, <1>3, <1>4 DEF IInv

-----------------------------------------------------------------------------
LEMMA Inductive == ASSUME IInv, [Next]_vars PROVE IInv'
<1>1. CASE Enter \/ Close \/ SessionDrops
  BY <1>1, EnterInv, CloseInv, SessionDropsInv
<1>2. CASE \E op \in DOMAIN Plan : Call(op)
  BY <1>2, CallInv
<1>3. CASE CallStep
  BY <1>3, ReturnInv, CheckInv, BindInv, BindFailsInv, QueryInv, QueryNotFoundInv,
     QueryFailsInv, InfoBindInv, InfoBindFailsInv, InfoReadInv, InfoEndsInv DEF CallStep
<1>4. CASE \E e \in {"none", error} : Exit(e)
  <2>1. {"none", error} \subseteq Raisable
    BY DEF IInv, TypeOK, Raisable
  <2> QED
    BY <1>4, <2>1, ExitInv
<1>5. CASE UnbindStep \/ CloseEnds \/ ExitEnds
  BY <1>5, UnbindInv, SwallowInv, CloseEndsInv, ExitEndsInv DEF UnbindStep
<1>6. CASE UNCHANGED vars
  <2>1. UNCHANGED <<conn, scratch, opened, released, lost, call, bad, todo, used, error,
                    cause, cleanup, unbinding, saved, thrown, block, ended, escaped>>
    BY <1>6 DEF vars, serverVars, callVars, cleanupVars, blockVars
  <2> QED
    BY <2>1 DEF IInv, TypeOK, Held, Planned, Uses, Cleans, Sessions, ErrorTellsCause,
                BlockKeepsItsError
<1> QED
  BY <1>1, <1>2, <1>3, <1>4, <1>5, <1>6 DEF Next

LEMMA InvHolds == Spec => []IInv
<1>1. Init => IInv
  BY InitInv
<1>2. IInv /\ [Next]_vars => IInv'
  BY Inductive
<1> QED
  BY <1>1, <1>2, PTL DEF Spec

\* Every variable of the instance keeps its type; only exceptions of the
\* library leave its operations.
THEOREM TypeCorrect == Spec => []TypeOK
<1>1. IInv => TypeOK
  BY DEF IInv
<1> QED
  BY <1>1, InvHolds, PTL

\* Whatever is called, fails and drops in whatever order, an open session is
\* _conn's or that of a running server_info, and none outlives the with block.
THEOREM ForgetsNoSession == Spec => []NoSessionForgotten
<1>1. IInv => NoSessionForgotten
  <2>1. ASSUME IInv PROVE NoSessionForgotten
    <3>1. scratch # None => call = "server_info"
      <4>1. <<"info">> # <<>> /\ <<"info">> \notin Seq({"check", "query"})
        <5>1. <<"info">>[1] = "info" /\ Len(<<"info">>) = 1
          OBVIOUS
        <5>2. \A t \in Seq({"check", "query"}) : Len(t) = 1 => t[1] \in {"check", "query"}
          OBVIOUS
        <5> QED
          BY <5>1, <5>2
      <4> QED
        BY <2>1, <4>1 DEF IInv, Planned
    <3>2. block = "out" => Sessions = released
      <4>1. released \subseteq Sessions /\ None \notin Sessions
        BY <2>1 DEF IInv, TypeOK, Sessions, None
      <4> QED
        BY <2>1, <4>1 DEF IInv, Held, Cleans
    <3> QED
      BY <2>1, <3>1, <3>2 DEF IInv, Held, NoSessionForgotten
  <2> QED
    BY <2>1
<1> QED
  BY <1>1, InvHolds, PTL

\* _conn is None or a bound connection that was not unbound.
THEOREM IsNeverHalfOpen == Spec => []NeverHalfOpen
<1>1. IInv => NeverHalfOpen
  <2>1. IInv /\ conn # None => conn # unbinding
    BY DEF IInv, Held
  <2> QED
    BY <2>1 DEF IInv, Held, NeverHalfOpen
<1> QED
  BY <1>1, InvHolds, PTL

\* One call never mixes two connections, so its queries see one bind.
THEOREM UsesOneConnection == Spec => []OneConnectionPerCall
<1>1. IInv => OneConnectionPerCall
  <2>1. ASSUME IInv, call # "none" PROVE Cardinality(used) <= 1
    <3>1. used \subseteq {conn}
      BY <2>1 DEF IInv, Uses
    <3>2. IsFiniteSet({conn}) /\ Cardinality({conn}) = 1
      BY FS_Singleton
    <3> QED
      BY <3>1, <3>2, FS_Subset, FS_CardinalityType
  <2> QED
    BY <2>1 DEF OneConnectionPerCall
<1> QED
  BY <1>1, InvHolds, PTL

\* A caller who catches an exception can act on its class alone.
THEOREM TellsCause == Spec => []ErrorTellsCause
<1>1. IInv => ErrorTellsCause
  BY DEF IInv
<1> QED
  BY <1>1, InvHolds, PTL

\* Whatever an unbind raises on the way, what leaves a with block is the exception
\* that ended its body, and close and server_info raise nothing of an unbind.
THEOREM KeepsItsError == Spec => []BlockKeepsItsError
<1>1. IInv => BlockKeepsItsError
  BY DEF IInv
<1> QED
  BY <1>1, InvHolds, PTL

-----------------------------------------------------------------------------
(* Cli *)

\* A running call has raised nothing yet, and the exception of the last one
\* tells whose fault it was.
Excepts ==
    /\ call # "none" => error = "none"
    /\ error = "none" => cause = "none"
    /\ error # "LDAPConfigError"
    /\ error = "LDAPQueryError" /\ cause = "none" => bad
    /\ error = "NotFoundError" => opened > 0

CliTypes ==
    /\ phase \in {"parsing", "configuring", "opening", "entered", "working",
                  "leaving", "rendering", "failed", "exited"}
    /\ argv \in Argv
    /\ env \in Envs
    /\ args \in [Flag -> BOOLEAN]
    /\ raised \in Raisable
    /\ out \in {"nothing", "results", "help"}
    /\ err \subseteq Written
    /\ code \in {0, 1, 2, 3, 4, 5, 6, 7, 130, NoCode}

Phases ==
    /\ phase \in {"parsing", "configuring", "opening"} =>
         /\ block = "out" /\ cleanup = "none" /\ opened = 0
         /\ error = "none" /\ raised = "none"
    /\ phase \in {"parsing", "configuring"} => config = NoConfig
    /\ phase \in {"opening", "entered", "working", "leaving", "rendering"} =>
         config # NoConfig /\ argv.command # NoCommand
    /\ phase = "entered" =>
         /\ block = "in" /\ call = "none" /\ error = "none" /\ cleanup = "none"
         /\ raised \in {"none", "interrupt"}
    /\ phase = "working" =>
         /\ block = "in"
         /\ cleanup \in {"none", "info"}
         /\ saved \in {"none", "interrupt", "other"}
         /\ raised \in {"none", "interrupt", "other"}
         /\ raised # "none" => call = "none" /\ error = "none"
    /\ phase = "leaving" =>
         /\ block = "in" /\ cleanup = "exit"
         /\ raised \in {"none", "interrupt", "other"}
         /\ raised # "none" => error = "none"
         /\ ended = IF raised = "none" THEN error ELSE raised
    /\ phase \in {"rendering", "failed", "exited"} => block = "out"
    /\ phase = "rendering" => raised = "none" /\ error = "none"
    /\ phase = "failed" => raised # "none"
    /\ phase # "exited" => out = "nothing" /\ code = NoCode

\* Before a run says how it ended, stderr has the warning of an unvalidated
\* configuration at most.
Warned ==
    /\ phase # "exited" => err \subseteq {"warning"}
    /\ "warning" \in err <=> config # NoConfig /\ ~ config.validate_cert

Typed ==
    /\ phase \notin {"parsing", "exited"} => \A f \in Flag : args[f] <=> Asked(f)
    /\ config # NoConfig => Valid(config) /\ (config.validate_cert <=> ~ Asked("insecure"))
    /\ opened > 0 => config # NoConfig

Ended ==
    /\ phase \in {"failed", "exited"} =>
         /\ raised \in {"none", "interrupt", "other"} => cause = "none"
         /\ raised \in LibraryErrors =>
              \/ raised = error
              \/ raised = "LDAPConfigError" /\ error = "none" /\ opened = 0
                   /\ config = NoConfig
    /\ phase = "exited" =>
         \/ /\ code = exit_code_for(raised) /\ raised \notin {"none", "interrupt"}
            /\ out = "nothing" /\ err \ {"warning", "traceback"} = {raised}
            /\ "traceback" \in err <=> Asked("debug")
         \/ /\ code = 130 /\ raised = "interrupt" /\ out = "nothing"
            /\ err \ {"warning"} = {"traceback"}
         \/ /\ code = 0 /\ raised = "none" /\ out # "nothing"
            /\ err \subseteq {"warning"}
         \/ /\ code = 2 /\ raised = "none" /\ out = "nothing"
            /\ err = {"usage"} \/ err = {"help"}
            /\ opened = 0 /\ config = NoConfig

Run == CliTypes /\ Phases /\ Warned /\ Typed /\ Ended

CInv == IInv /\ Excepts /\ Run

-----------------------------------------------------------------------------
(* What a run does to the instance *)

\* An exception that unwinds a call leaves the invariant alone, whether the
\* cleanup of server_info is on its way or not ...
LEMMA UnwindsInv ==
    ASSUME IInv, Excepts, NEW e \in Raisable, Unwinds(e)
    PROVE  IInv' /\ Excepts'
<1>1. /\ cleanup = "none" /\ todo' = <<>>
      /\ UNCHANGED <<conn, opened, released, lost, bad, used, error, cause, block, ended,
                     escaped>>
  BY DEF Unwinds, serverVars, blockVars
<1>2. CASE scratch # None
  <2>1. InfoCleanUp(e) /\ call' = call
    BY <1>2 DEF Unwinds
  <2>2. UNCHANGED <<conn, serverVars, call, bad, used, error, cause, blockVars>>
    BY <1>1, <2>1 DEF serverVars, blockVars
  <2>3. IInv'
    BY <1>1, <1>2, <2>1, <2>2, InfoCleanUpInv
  <2> QED
    BY <1>1, <2>1, <2>3 DEF Excepts
<1>3. CASE scratch = None
  <2>1. /\ call' = "none" /\ UNCHANGED <<scratch, cleanup, unbinding, saved, thrown>>
    BY <1>3 DEF Unwinds, cleanupVars
  <2>2. TypeOK'
    <3>1. todo' \in Seq({"check", "query", "info"})
      BY <1>1
    <3> QED
      BY <1>1, <2>1, <3>1 DEF IInv, TypeOK, Sessions
  <2>3. Held' /\ Uses' /\ Cleans'
    BY <1>1, <2>1 DEF IInv, Held, Uses, Cleans, Sessions
  <2>4. Planned'
    <3>1. todo' \in Seq({"check", "query"})
      BY <1>1
    <3> QED
      BY <1>1, <1>3, <2>1, <3>1 DEF Planned
  <2>5. ErrorTellsCause' /\ BlockKeepsItsError' /\ Excepts'
    BY <1>1, <2>1 DEF IInv, ErrorTellsCause, BlockKeepsItsError, Excepts
  <2> QED
    BY <2>2, <2>3, <2>4, <2>5 DEF IInv
<1> QED
  BY <1>2, <1>3

\* ... and the cleanup goes on with it.
LEMMA UnwoundInv ==
    ASSUME IInv, Excepts, Unwound
    PROVE  IInv' /\ Excepts' /\ raised' = saved
<1>1. /\ cleanup = "info" /\ Unbound /\ call' = "none" /\ raised' = Surfaces
      /\ cleanup' = "none" /\ saved' = "none" /\ thrown' = "none"
      /\ UNCHANGED <<conn, scratch, opened, released, lost, bad, todo, used, error, cause,
                     unbinding, block, ended, escaped>>
  BY DEF Unwound, CleanUpEnds, serverVars, blockVars
<1>2. unbinding = None /\ raised' = saved /\ todo = <<>>
  BY <1>1, NothingSurfaces DEF IInv, Cleans
<1>3. TypeOK'
  BY <1>1, <1>2 DEF IInv, TypeOK, Sessions, Raisable
<1>4. Held' /\ Planned' /\ Uses' /\ Cleans'
  BY <1>1, <1>2 DEF IInv, Held, Planned, Uses, Cleans, Sessions
<1>5. ErrorTellsCause' /\ BlockKeepsItsError' /\ Excepts'
  BY <1>1 DEF IInv, ErrorTellsCause, BlockKeepsItsError, Excepts
<1> QED
  BY <1>2, <1>3, <1>4, <1>5 DEF IInv

\* A step of a call is one of a call that runs, and raises what tells the fault.
LEMMA CallStepExcepts ==
    ASSUME IInv, Excepts, CallStep
    PROVE  call # "none" /\ Excepts' /\ UNCHANGED <<block, ended, bad>>
<1>1. CASE Return
  BY <1>1 DEF Return, Excepts, serverVars, blockVars
<1>2. CASE InfoEnds
  BY <1>2, InfoEndsInv DEF InfoEnds, Excepts, serverVars, blockVars
<1>3. CASE \E step \in {"check", "query", "info"} : NextStep(step)
  <2>1. call # "none" /\ error = "none"
    BY <1>3, NextStepRuns DEF Excepts
  <2>2. CASE Check
    BY <2>1, <2>2 DEF Check, RaisesAs, Excepts, serverVars, blockVars
  <2>3. CASE Bind \/ Query \/ InfoBind \/ InfoRead
    BY <2>1, <2>3 DEF Bind, Query, InfoBind, InfoRead, Excepts, callVars, serverVars,
       blockVars
  <2>4. CASE BindFails \/ InfoBindFails
    <3>1. PICK exc \in BindSite : RaisesAs(translated(exc, "LDAPConnectionError"), exc)
      BY <2>4 DEF BindFails, InfoBindFails
    <3> QED
      BY <2>1, <3>1, TranslatedBind DEF RaisesAs, Excepts, BindSite, blockVars
  <2>5. CASE QueryNotFound
    <3>1. opened > 0
      BY <2>5 DEF QueryNotFound, MustBind, IInv, TypeOK, Held, Sessions
    <3> QED
      BY <2>1, <2>5, <3>1 DEF QueryNotFound, RaisesAs, Excepts, serverVars, blockVars
  <2>6. CASE QueryFails
    <3>1. PICK exc \in QuerySite : RaisesAs(translated(exc, "LDAPQueryError"), exc)
      BY <2>6 DEF QueryFails
    <3> QED
      BY <2>1, <3>1, TranslatedQuery DEF RaisesAs, Excepts, QuerySite, blockVars
  <2>7. CASE Return \/ InfoEnds
    BY <1>1, <1>2, <2>7
  <2> QED
    BY <2>2, <2>3, <2>4, <2>5, <2>6, <2>7 DEF CallStep
<1> QED
  BY <1>1, <1>3, <1>2 DEF CallStep, Check, Bind, BindFails, Query, QueryNotFound,
                    QueryFails, InfoBind, InfoBindFails, InfoRead

\* What the script asks for is an operation of the instance.
LEMMA Operations ==
    ASSUME argv \in Argv, argv.command # NoCommand
    PROVE  OperationsOf(argv.command) \subseteq DOMAIN Plan
<1>1. argv.command \in {"server-info", "employee", "manager", "cost-center",
                        "group", "describe", "resolve-dn"}
  BY CliAssumption DEF Argv
<1>2. DOMAIN Plan = {"find_users", "describe_user", "resolve_user_dn",
                     "resolve_group_dn_by_dn", "resolve_group_dn", "by_group_dn",
                     "by_group", "direct_reports", "reporting_tree", "server_info"}
  BY DEF Plan
<1> QED
  BY <1>1, <1>2 DEF OperationsOf

-----------------------------------------------------------------------------
(* The steps outside the with block *)

LEMMA CliInitInv == ASSUME CliInit PROVE CInv
<1>1. IInv
  BY InitInv DEF CliInit
<1>2. Excepts
  BY DEF CliInit, Init, Excepts
<1>3. CliTypes
  BY DEF CliInit, CliTypes, Raisable
<1>4. Phases /\ Warned /\ Typed /\ Ended
  BY DEF CliInit, Init, Phases, Warned, Typed, Ended, LibraryErrors
<1> QED
  BY <1>1, <1>2, <1>3, <1>4 DEF CInv, Run

\* While the instance is left alone, its invariant holds.
LEMMA InstanceStays ==
    ASSUME CInv, UNCHANGED vars
    PROVE  /\ IInv' /\ Excepts'
           /\ UNCHANGED <<opened, block, call, bad, error, cause, cleanup, saved, ended>>
<1>1. UNCHANGED <<opened, block, call, bad, error, cause, cleanup, saved, ended>>
  BY DEF vars, serverVars, callVars, cleanupVars, blockVars
<1> QED
  BY <1>1, Inductive DEF CInv, Excepts

LEMMA ParsingInv ==
    ASSUME CInv, ParseExits \/ Parse \/ NoSubcommand
    PROVE  CInv'
<1>1. /\ UNCHANGED vars /\ UNCHANGED <<argv, env, config, raised>>
  BY DEF ParseExits, Parse, NoSubcommand
<1>2. IInv' /\ Excepts' /\ UNCHANGED <<opened, block, call, bad, error, cause, cleanup, saved, ended>>
  BY <1>1, InstanceStays
<1>3. CASE ParseExits
  <2>1. /\ phase = "parsing" /\ phase' = "exited" /\ UNCHANGED args
        /\ \/ code' = 2 /\ err' = err \cup {"usage"} /\ out' = out
           \/ code' = 0 /\ err' = err /\ out' = "help"
    BY <1>3 DEF ParseExits, Exits, Writes
  <2>2. /\ opened = 0 /\ raised = "none" /\ config = NoConfig /\ out = "nothing"
        /\ err = {} /\ cause = "none" /\ block = "out"
    BY <2>1 DEF CInv, Run, CliTypes, Phases, Warned, Excepts
  <2>3. CliTypes'
    BY <1>1, <2>1, <2>2 DEF CInv, Run, CliTypes, Written
  <2>4. Phases' /\ Warned' /\ Typed'
    BY <1>1, <1>2, <2>1, <2>2 DEF Phases, Warned, Typed
  <2>5. Ended'
    BY <1>1, <1>2, <2>1, <2>2 DEF CInv, Excepts, Ended, LibraryErrors
  <2> QED
    BY <1>2, <2>3, <2>4, <2>5 DEF CInv, Run
<1>4. CASE Parse
  <2>1. args' \in [Flag -> BOOLEAN] /\ \A f \in Flag : args'[f] <=> Asked(f)
    <3>1. argv.before \subseteq Flag /\ argv.after \subseteq Flag
      BY DEF CInv, Run, CliTypes, Argv
    <3>2. DOMAIN SubNamespace(argv.after) = argv.after
          /\ \A f \in argv.after : SubNamespace(argv.after)[f] = TRUE
      BY DEF SubNamespace
    <3>3. args' = [f \in Flag |-> IF f \in argv.after THEN TRUE ELSE f \in argv.before]
      BY <1>4, <3>2 DEF Parse
    <3>4. \A f \in Flag : (f \in argv.before) \in BOOLEAN
      OBVIOUS
    <3> QED
      BY <3>1, <3>3, <3>4 DEF Asked
  <2> QED
    BY <1>1, <1>2, <1>4, <2>1 DEF Parse, CInv, Run, CliTypes, Phases, Warned, Typed, Ended, Asked
<1>5. CASE NoSubcommand
  <2>1. /\ phase = "configuring" /\ phase' = "exited" /\ UNCHANGED <<args, out>>
        /\ code' = 2 /\ err' = err \cup {"help"}
    BY <1>5 DEF NoSubcommand, Exits, Writes
  <2>2. /\ opened = 0 /\ raised = "none" /\ config = NoConfig /\ out = "nothing"
        /\ err = {} /\ cause = "none" /\ block = "out"
    BY <2>1 DEF CInv, Run, CliTypes, Phases, Warned, Excepts
  <2>3. CliTypes'
    BY <1>1, <2>1, <2>2 DEF CInv, Run, CliTypes, Written
  <2>4. Phases' /\ Warned' /\ Typed'
    BY <1>1, <1>2, <2>1, <2>2 DEF Phases, Warned, Typed
  <2>5. Ended'
    BY <1>1, <1>2, <2>1, <2>2 DEF CInv, Excepts, Ended, LibraryErrors
  <2> QED
    BY <1>2, <2>3, <2>4, <2>5 DEF CInv, Run
<1> QED
  BY <1>3, <1>4, <1>5

\* A configuration that from_env accepts is one that __post_init__ accepts, with
\* or without the override.
LEMMA Accepted ==
    ASSUME NEW e \in Env, FromEnvSucceeds(e), NEW insecure \in BOOLEAN
    PROVE  LET c == Overridden(from_env(e), insecure) IN
           /\ c # NoConfig /\ Valid(c)
           /\ c.validate_cert <=> ~ insecure
           /\ Warns(c) <=> insecure
BY DEF FromEnvSucceeds, Overridden, from_env, Valid, NoConfig, Warns

LEMMA ConfiguringInv ==
    ASSUME CInv, Configure \/ ConfigureFails
    PROVE  CInv'
<1>1. /\ UNCHANGED vars /\ UNCHANGED <<argv, env, args, out, code>>
      /\ phase = "configuring"
  BY DEF Configure, ConfigureFails
<1>2. /\ IInv' /\ Excepts'
      /\ UNCHANGED <<opened, block, call, bad, error, cause, cleanup, saved, ended>>
  BY <1>1, InstanceStays
<1>3. CASE Configure
  <2>1. env \in Env /\ args["insecure"] \in BOOLEAN /\ (args["insecure"] <=> Asked("insecure"))
    BY <1>1, CliAssumption DEF CInv, Run, CliTypes, Typed, Flag
  <2>2. /\ config' # NoConfig /\ Valid(config')
        /\ config'.validate_cert <=> ~ Asked("insecure")
        /\ Warns(config') <=> Asked("insecure")
    BY <1>3, <2>1, Accepted DEF Configure
  <2>3. err = {} /\ err' = IF Asked("insecure") THEN {"warning"} ELSE {}
    <3>1. err = {}
      BY <1>1 DEF CInv, Run, Phases, Warned
    <3> QED
      BY <1>3, <2>2, <3>1 DEF Configure, Writes
  <2>4. Warned' /\ err' \subseteq Written
    BY <1>3, <2>2, <2>3 DEF Configure, Warned, Written
  <2> QED
    BY <1>1, <1>2, <1>3, <2>2, <2>4 DEF Configure, CInv, Run, CliTypes, Phases, Typed, Ended,
       Asked, Valid
<1>4. CASE ConfigureFails
  BY <1>1, <1>2, <1>4 DEF ConfigureFails, CInv, Run, CliTypes, Phases, Warned, Typed, Ended,
     Excepts, Asked, Raisable, LibraryErrors
<1> QED
  BY <1>3, <1>4

LEMMA OutputInv ==
    ASSUME CInv, PrintResults \/ RenderFails \/ ReportFailure \/ DieInterrupted
    PROVE  CInv'
<1>1. /\ UNCHANGED vars /\ UNCHANGED <<argv, env, args, config>>
  BY DEF PrintResults, RenderFails, ReportFailure, DieInterrupted
<1>2. IInv' /\ Excepts' /\ UNCHANGED <<opened, block, call, bad, error, cause, cleanup, saved, ended>>
  BY <1>1, InstanceStays
<1>3. CASE PrintResults
  <2>1. /\ phase = "rendering" /\ phase' = "exited" /\ code' = 0 /\ out' = "results"
        /\ UNCHANGED <<raised, err>>
    BY <1>3 DEF PrintResults, Exits
  <2>2. raised = "none" /\ error = "none" /\ cause = "none" /\ err \subseteq {"warning"}
    BY <2>1 DEF CInv, Run, Phases, Warned, Excepts
  <2>3. CliTypes' /\ Phases' /\ Typed'
    BY <1>1, <1>2, <2>1 DEF CInv, Run, CliTypes, Phases, Typed, Asked
  <2>4. Warned'
    BY <1>1, <2>1 DEF CInv, Run, Warned
  <2>5. Ended'
    BY <1>2, <2>1, <2>2 DEF Ended, LibraryErrors
  <2> QED
    BY <1>2, <2>3, <2>4, <2>5 DEF CInv, Run
<1>4. CASE RenderFails
  BY <1>1, <1>2, <1>4 DEF RenderFails, WrittenByFailure, CInv, Run, CliTypes, Phases, Warned,
     Typed, Ended, Excepts, Asked, Raisable, LibraryErrors
<1>5. CASE ReportFailure
  <2>1. /\ phase = "failed" /\ raised # "interrupt" /\ raised # "none" /\ raised' = raised
        /\ err' = err \cup ({raised} \cup IF args["debug"] THEN {"traceback"} ELSE {})
        /\ phase' = "exited" /\ code' = exit_code_for(raised)
        /\ out' = out /\ out = "nothing" /\ err \subseteq {"warning"}
    BY <1>5 DEF ReportFailure, Handles, Exits, Writes, CInv, Run, Phases, Warned
  <2>2. (args["debug"] <=> Asked("debug")) /\ args["debug"] \in BOOLEAN
    BY <2>1 DEF CInv, Run, CliTypes, Typed, Flag
  <2>3. exit_code_for(raised) \in {1, 3, 4, 5, 6, 7}
    BY DEF exit_code_for
  <2>4. raised \in Messages /\ raised \notin {"warning", "traceback"}
    BY <2>1 DEF CInv, Run, CliTypes, Messages, Raisable, LibraryErrors
  <2>5. /\ err' \subseteq Written
        /\ err' \ {"warning", "traceback"} = {raised}
        /\ "traceback" \in err' <=> Asked("debug")
        /\ "warning" \in err' <=> "warning" \in err
    BY <2>1, <2>2, <2>4 DEF Written
  <2>6. CliTypes'
    BY <1>1, <2>1, <2>3, <2>5 DEF CInv, Run, CliTypes
  <2>7. Phases' /\ Typed'
    BY <1>1, <1>2, <2>1 DEF CInv, Run, Phases, Typed, Asked
  <2>8. Warned'
    BY <1>1, <2>1, <2>5 DEF CInv, Run, Warned
  <2>9. Ended'
    <3>1. /\ raised \in {"none", "interrupt", "other"} => cause = "none"
          /\ raised \in LibraryErrors =>
               \/ raised = error
               \/ raised = "LDAPConfigError" /\ error = "none" /\ opened = 0
                    /\ config = NoConfig
      BY <2>1 DEF CInv, Run, Ended
    <3> QED
      BY <1>1, <1>2, <2>1, <2>5, <3>1 DEF Ended, Asked, exit_code_for
  <2> QED
    BY <1>2, <2>6, <2>7, <2>8, <2>9 DEF CInv, Run
<1>6. CASE DieInterrupted
  <2>1. /\ phase = "failed" /\ raised = "interrupt" /\ raised' = raised
        /\ err' = err \cup {"traceback"} /\ phase' = "exited" /\ code' = 130
        /\ out' = out /\ out = "nothing" /\ err \subseteq {"warning"}
    BY <1>6 DEF DieInterrupted, Handles, Exits, Writes, CInv, Run, Phases, Warned
  <2>2. /\ err' \subseteq Written /\ err' \ {"warning"} = {"traceback"}
        /\ "warning" \in err' <=> "warning" \in err
    BY <2>1 DEF Written
  <2>3. CliTypes' /\ Phases' /\ Typed'
    BY <1>1, <1>2, <2>1, <2>2 DEF CInv, Run, CliTypes, Phases, Typed, Asked
  <2>4. Warned'
    BY <1>1, <2>1, <2>2 DEF CInv, Run, Warned
  <2>5. Ended'
    BY <1>1, <1>2, <2>1, <2>2 DEF CInv, Run, Ended, LibraryErrors
  <2> QED
    BY <1>2, <2>3, <2>4, <2>5 DEF CInv, Run
<1> QED
  BY <1>3, <1>4, <1>5, <1>6

-----------------------------------------------------------------------------
(* The with block *)

LEMMA EnterBlockInv == ASSUME CInv, EnterBlock PROVE CInv'
<1>1. /\ phase = "opening" /\ phase' = "entered" /\ Enter
      /\ UNCHANGED <<argv, env, args, config, raised, out, err, code>>
  BY DEF EnterBlock
<1>2. IInv'
  BY <1>1, EnterInv DEF CInv
<1>3. block' = "in" /\ error' = "none" /\ cause' = "none"
      /\ UNCHANGED <<opened, call, bad, cleanup, saved>>
  BY <1>1 DEF Enter, serverVars, cleanupVars
<1>4. call = "none" /\ Excepts'
  BY <1>1, <1>3 DEF CInv, Run, IInv, Planned, Phases, Excepts
<1>5. Run'
  BY <1>1, <1>3, <1>4 DEF CInv, Run, CliTypes, Phases, Warned, Typed, Ended, Asked, Valid
<1> QED
  BY <1>2, <1>4, <1>5 DEF CInv

LEMMA BeginInv == ASSUME CInv, Begin PROVE CInv'
<1>1. /\ phase = "entered" /\ phase' = "working" /\ raised = "none"
      /\ UNCHANGED <<argv, env, args, config, raised, out, err, code>>
  BY DEF Begin
<1>2. PICK op \in DOMAIN Plan : Call(op)
  BY <1>1, Operations DEF Begin, CInv, Run, CliTypes, Phases
<1>3. IInv'
  BY <1>2, CallInv DEF CInv
<1>4. error' = "none" /\ cause' = "none" /\ cleanup' = "none" /\ saved' = "none"
      /\ UNCHANGED <<block, opened>>
  BY <1>2, CallersView DEF Call, serverVars, cleanupVars, blockVars, CInv
<1>5. Excepts'
  BY <1>4 DEF Excepts
<1>6. Run'
  BY <1>1, <1>4 DEF CInv, Run, CliTypes, Phases, Warned, Typed, Ended, Asked, Valid
<1> QED
  BY <1>3, <1>5, <1>6 DEF CInv

LEMMA WorkInv == ASSUME CInv, Work PROVE CInv'
<1>1. /\ phase \in {"working", "leaving"}
      /\ UNCHANGED <<phase, argv, env, args, config, raised, out, err, code>>
  BY DEF Work, cliVars
<1>2. IInv'
  BY Inductive DEF Work, Next, CInv
<1>3. config # NoConfig /\ argv.command # NoCommand /\ block = "in"
  BY <1>1 DEF CInv, Run, Phases
<1>4. CASE CallStep
  <2>1. call # "none" /\ Excepts' /\ UNCHANGED <<block, ended, bad>>
    BY <1>4, CallStepExcepts DEF CInv
  <2>2. phase = "working" /\ raised = "none"
    BY <1>1, <2>1 DEF CInv, Run, Phases, IInv, Cleans
  <2>3. cleanup' \in {"none", "info"} /\ saved' \in {"none", "interrupt", "other"}
    <3>1. cleanup \in {"none", "info"} /\ saved \in {"none", "interrupt", "other"}
      BY <2>2 DEF CInv, Run, Phases
    <3>2. CASE InfoRead \/ InfoEnds
      BY <3>2 DEF InfoRead, InfoCleanUp, CleanUp, InfoEnds, CleanUpEnds
    <3>3. CASE ~ (InfoRead \/ InfoEnds)
      <4>1. UNCHANGED <<cleanup, saved>>
        BY <1>4, <3>3 DEF CallStep, Return, Check, Bind, BindFails, Query, QueryNotFound,
           QueryFails, InfoBind, InfoBindFails, RaisesAs, cleanupVars
      <4> QED
        BY <3>1, <4>1
    <3> QED
      BY <3>2, <3>3
  <2>4. Run'
    BY <1>1, <1>3, <2>1, <2>2, <2>3 DEF CInv, Run, CliTypes, Phases, Warned, Typed, Ended,
       Asked, Valid
  <2> QED
    BY <1>2, <2>1, <2>4 DEF CInv
<1>5. CASE UnbindStep \/ SessionDrops
  <2>1. UNCHANGED <<block, opened, call, bad, error, cause, cleanup, saved, ended>>
    BY <1>5 DEF UnbindStep, Unbind, Swallow, SessionDrops, serverVars, callVars, cleanupVars,
       blockVars
  <2>2. Excepts' /\ Run'
    BY <1>1, <2>1 DEF CInv, Excepts, Run, CliTypes, Phases, Warned, Typed, Ended, Asked, Valid
  <2> QED
    BY <1>2, <2>2 DEF CInv
<1> QED
  BY <1>4, <1>5 DEF Work

\* An exception of the script's own, or Ctrl-C, unwinds the block's body ...
LEMMA UnwindingInv ==
    ASSUME CInv, NEW e \in {"other", "interrupt"}, Unwinds(e),
           \/ phase = "working" /\ call # "none"
           \/ phase = "entered" /\ e = "interrupt"
    PROVE  CInv'
<1>1. /\ UNCHANGED <<opened, block, ended, bad, error, cause, phase, argv, env, args, config,
                     out, err, code>>
      /\ cleanup = "none"
  BY DEF Unwinds, serverVars, blockVars
<1>2. IInv' /\ Excepts'
  BY UnwindsInv DEF CInv, Raisable
<1>3. error = "none" /\ raised = "none" /\ config # NoConfig /\ argv.command # NoCommand
  BY DEF CInv, Excepts, Run, Phases, Unwinds
<1>4. CASE scratch # None
  <2>1. cleanup' = "info" /\ saved' = e /\ UNCHANGED <<call, raised>>
    BY <1>4 DEF Unwinds, InfoCleanUp, CleanUp
  <2>2. phase = "working"
    <3>1. todo # <<>>
      BY <1>4 DEF CInv, IInv, Planned
    <3>2. call # "none"
      BY <3>1 DEF CInv, IInv, Planned
    <3> QED
      BY <3>2 DEF CInv, Run, Phases
  <2>3. Run'
    BY <1>1, <1>3, <2>1, <2>2 DEF CInv, Run, CliTypes, Phases, Warned, Typed, Ended, Asked,
       Valid
  <2> QED
    BY <1>2, <2>3 DEF CInv
<1>5. CASE scratch = None
  <2>1. raised' = e /\ call' = "none" /\ UNCHANGED <<cleanup, saved>>
    BY <1>5 DEF Unwinds, cleanupVars
  <2>2. Run'
    BY <1>1, <1>3, <2>1 DEF CInv, Run, CliTypes, Phases, Warned, Typed, Ended, Asked, Valid,
       Raisable
  <2> QED
    BY <1>2, <2>2 DEF CInv
<1> QED
  BY <1>4, <1>5

\* ... and goes on past the cleanup of server_info.
LEMMA UnwoundRunInv == ASSUME CInv, Unwound PROVE CInv'
<1>1. /\ cleanup = "info" /\ saved # "none" /\ call' = "none" /\ cleanup' = "none"
      /\ saved' = "none"
      /\ UNCHANGED <<opened, block, ended, bad, error, cause, phase, argv, env, args, config,
                     out, err, code>>
  BY DEF Unwound, CleanUpEnds, serverVars, blockVars
<1>2. IInv' /\ Excepts' /\ raised' = saved
  BY UnwoundInv DEF CInv
<1>3. call # "none" /\ error = "none" /\ block = "in"
  BY <1>1 DEF CInv, IInv, Cleans, Excepts
<1>4. phase = "working"
  BY <1>1, <1>3 DEF CInv, Run, CliTypes, Phases
<1>5. saved \in {"interrupt", "other"} /\ config # NoConfig /\ argv.command # NoCommand
  BY <1>1, <1>4 DEF CInv, Run, Phases
<1>6. Run'
  BY <1>1, <1>2, <1>3, <1>4, <1>5 DEF CInv, Run, CliTypes, Phases, Warned, Typed, Ended, Asked,
     Valid, Raisable
<1> QED
  BY <1>2, <1>6 DEF CInv

LEMMA LeaveBlockInv == ASSUME CInv, LeaveBlock PROVE CInv'
<1> DEFINE e == IF raised = "none" THEN error ELSE raised
<1>1. /\ phase = "working" \/ (phase = "entered" /\ raised # "none")
      /\ Exit(e) /\ phase' = "leaving"
      /\ UNCHANGED <<argv, env, args, config, raised, out, err, code>>
  BY DEF LeaveBlock
<1>2. e \in Raisable
  BY DEF CInv, IInv, TypeOK, Run, CliTypes, Raisable
<1>3. IInv'
  BY <1>1, <1>2, ExitInv DEF CInv
<1>4. /\ cleanup' = "exit" /\ ended' = e
      /\ UNCHANGED <<opened, block, call, bad, error, cause>>
  BY <1>1 DEF Exit, CleanUp, serverVars, callVars
<1>5. Excepts'
  BY <1>4 DEF CInv, Excepts
<1>6. /\ raised \in {"none", "interrupt", "other"}
      /\ raised # "none" => error = "none"
      /\ config # NoConfig /\ argv.command # NoCommand /\ block = "in"
  BY <1>1 DEF CInv, Run, Phases
<1>7. Run'
  BY <1>1, <1>4, <1>6 DEF CInv, Run, CliTypes, Phases, Warned, Typed, Ended, Asked, Valid
<1> QED
  BY <1>3, <1>5, <1>7 DEF CInv

LEMMA BlockLeftInv == ASSUME CInv, BlockLeft PROVE CInv'
<1>1. /\ phase = "leaving" /\ ExitEnds /\ raised' = escaped'
      /\ phase' = IF raised' = "none" THEN "rendering" ELSE "failed"
      /\ UNCHANGED <<argv, env, args, config, out, err, code>>
  BY DEF BlockLeft
<1>2. IInv'
  BY <1>1, ExitEndsInv DEF CInv
<1>3. /\ Unbound /\ cleanup = "exit" /\ escaped' = Surfaces
      /\ block' = "out" /\ cleanup' = "none" /\ saved' = "none"
      /\ UNCHANGED <<opened, call, bad, error, cause, ended>>
  BY <1>1 DEF ExitEnds, CleanUpEnds, serverVars, callVars
<1>4. raised' = ended /\ ended \in Raisable
  BY <1>1, <1>3, NothingSurfaces DEF CInv, IInv, Cleans, TypeOK
<1>5. Excepts'
  BY <1>3 DEF CInv, Excepts
<1>6. /\ raised \in {"none", "interrupt", "other"}
      /\ raised # "none" => error = "none"
      /\ ended = IF raised = "none" THEN error ELSE raised
      /\ out = "nothing" /\ code = NoCode /\ config # NoConfig /\ argv.command # NoCommand
      /\ err \subseteq {"warning"}
  BY <1>1 DEF CInv, Run, Phases, Warned
<1>7. /\ raised' = "none" => error = "none"
      /\ raised' \in {"interrupt", "other"} => error = "none"
      /\ raised' \in LibraryErrors => raised' = error
  BY <1>4, <1>6 DEF CInv, IInv, TypeOK, LibraryErrors
<1>8. CliTypes' /\ Phases'
  BY <1>1, <1>3, <1>4, <1>6, <1>7 DEF CInv, Run, CliTypes, Phases
<1>9. Typed' /\ Warned'
  BY <1>1, <1>3, <1>6 DEF CInv, Run, Typed, Warned, Asked, Valid
<1>10. Ended'
  BY <1>1, <1>3, <1>5, <1>7 DEF Ended, Excepts
<1> QED
  BY <1>2, <1>5, <1>8, <1>9, <1>10 DEF CInv, Run

LEMMA InterruptInv == ASSUME CInv, Interrupt PROVE CInv'
<1>1. CASE phase \in {"configuring", "opening", "rendering"}
  <2>1. /\ raised' = "interrupt" /\ phase' = "failed" /\ UNCHANGED vars
        /\ UNCHANGED <<argv, env, args, config, out, err, code>>
    BY <1>1 DEF Interrupt
  <2>2. IInv' /\ Excepts' /\ UNCHANGED <<opened, block, call, bad, error, cause, cleanup, saved, ended>>
    BY <2>1, InstanceStays
  <2>3. error = "none" /\ block = "out"
    BY <1>1 DEF CInv, Run, Phases
  <2>4. Run'
    BY <1>1, <2>1, <2>2, <2>3 DEF CInv, Excepts, Run, CliTypes, Phases, Warned, Typed, Ended,
       Asked, Valid, Raisable, LibraryErrors
  <2> QED
    BY <2>2, <2>4 DEF CInv
<1>2. CASE phase \notin {"configuring", "opening", "rendering"}
  BY <1>2, UnwindingInv DEF Interrupt
<1> QED
  BY <1>1, <1>2

LEMMA CliInductive == ASSUME CInv, [CliNext]_allVars PROVE CInv'
<1>1. CASE CliStep
  <2>1. CASE Crash
    BY <2>1, UnwindingInv DEF Crash
  <2> QED
    BY <1>1, <2>1, ParsingInv, ConfiguringInv, OutputInv, EnterBlockInv, BeginInv,
       WorkInv, UnwoundRunInv, LeaveBlockInv, BlockLeftInv DEF CliStep
<1>2. CASE Interrupt
  BY <1>2, InterruptInv
<1>3. CASE UNCHANGED allVars
  <2>1. UNCHANGED vars /\ UNCHANGED cliVars
    BY <1>3 DEF allVars
  <2>2. IInv' /\ Excepts' /\ UNCHANGED <<opened, block, call, bad, error, cause, cleanup, saved, ended>>
    BY <2>1, InstanceStays
  <2>3. Run'
    BY <2>1, <2>2 DEF CInv, Run, CliTypes, Phases, Warned, Typed, Ended, Asked, Valid, cliVars
  <2> QED
    BY <2>2, <2>3 DEF CInv
<1> QED
  BY <1>1, <1>2, <1>3 DEF CliNext

LEMMA CInvHolds == CliSpec => []CInv
BY CliInitInv, CliInductive, PTL DEF CliSpec

-----------------------------------------------------------------------------
\* Every variable of a run keeps its type: no exit code but the documented
\* ones, and no configuration that was not accepted.
THEOREM CliTypeCorrect == CliSpec => []CliTypeOK
<1>1. CInv => CliTypeOK
  BY DEF CInv, IInv, Run, CliTypes, Typed, CliTypeOK
<1> QED
  BY <1>1, CInvHolds, PTL

\* A run prints its result, or says once why not, and never both; only a run
\* that was asked not to validate the certificate prints a warning besides.
THEOREM PrintsAllOrNothing == CliSpec => []ResultsOrNothing
<1>1. CInv => ResultsOrNothing
  <2>1. ASSUME CInv, phase = "exited" PROVE ResultsOrNothing
    <3>1. \A m : Cardinality({m}) = 1
      BY FS_Singleton
    <3>2. exit_code_for(raised) # 0
      BY DEF exit_code_for
    <3>3. code = 0 => out # "nothing" /\ err \subseteq {"warning"}
      BY <2>1, <3>2 DEF CInv, Run, Ended
    <3>4. ASSUME code \in 1..7
          PROVE  out = "nothing" /\ \E m : err \ {"warning", "traceback"} = {m}
      <4>1. {"usage"} \ {"warning", "traceback"} = {"usage"}
            /\ {"help"} \ {"warning", "traceback"} = {"help"}
        OBVIOUS
      <4> QED
        BY <2>1, <3>4, <4>1 DEF CInv, Run, Ended
    <3> QED
      BY <3>1, <3>3, <3>4 DEF ResultsOrNothing
  <2>2. ASSUME CInv, phase # "exited" PROVE ResultsOrNothing
    BY <2>2 DEF CInv, Run, Phases, ResultsOrNothing, NoCode
  <2> QED
    BY <2>1, <2>2
<1> QED
  BY <1>1, CInvHolds, PTL

\* However the block of a run ends, its sessions are released before the run
\* writes anything.
THEOREM ReleasesFirst == CliSpec => []ReleasedBeforeOutput
<1>1. CInv => ReleasedBeforeOutput
  <2>1. ASSUME CInv, phase \in {"rendering", "failed", "exited"}
        PROVE  Sessions = released
    <3>1. Sessions \ released = {} /\ released \subseteq Sessions
      <4>1. conn = None /\ scratch = None /\ unbinding = None /\ None \notin Sessions
        BY <2>1 DEF CInv, Run, Phases, IInv, Held, Cleans, Sessions, None
      <4> QED
        BY <2>1, <4>1 DEF CInv, IInv, Held, TypeOK
    <3> QED
      BY <3>1
  <2> QED
    BY <2>1 DEF ReleasedBeforeOutput
<1> QED
  BY <1>1, CInvHolds, PTL

\* The exit code alone tells which fault ended a run.
THEOREM TellsFaultByCode == CliSpec => []CodeTellsFault
<1>1. CInv => CodeTellsFault
  <2>1. ASSUME CInv, phase = "exited"
        PROVE  /\ code = 4 <=> cause \in {"rejected", "password"}
               /\ cause \in {"socket", "timeout", "tls"} => code = 5
               /\ cause \in {"filter", "sizelimit"} => code = 6
               /\ code \in {5, 6} /\ cause = "none" => bad
               /\ code = 7 => cause = "none" /\ opened > 0
               /\ code \in {2, 3} => opened = 0 /\ config = NoConfig
    <3>1. CASE raised \in LibraryErrors /\ raised = error
      BY <2>1, <3>1 DEF CInv, IInv, TypeOK, ErrorTellsCause, Excepts, Run, Ended,
         exit_code_for, LibraryErrors, BindSite, QuerySite
    <3>2. CASE ~ (raised \in LibraryErrors /\ raised = error)
      <4>1. cause = "none" /\ (raised \in LibraryErrors =>
                raised = "LDAPConfigError" /\ opened = 0 /\ config = NoConfig)
        BY <2>1, <3>2 DEF CInv, Excepts, Run, CliTypes, Raisable, Ended
      <4> QED
        BY <2>1, <4>1 DEF CInv, Run, CliTypes, Raisable, Ended, exit_code_for, LibraryErrors
    <3> QED
      BY <3>1, <3>2
  <2> QED
    BY <2>1 DEF CodeTellsFault
<1> QED
  BY <1>1, CInvHolds, PTL

\* An interrupted run prints no message of the tool's and has none of its codes:
\* what stderr has is the interpreter's traceback, after a warning at most.
THEOREM InterruptPasses == CliSpec => []InterruptIsNoFailure
<1>1. CInv => InterruptIsNoFailure
  BY DEF CInv, Run, Ended, InterruptIsNoFailure
<1> QED
  BY <1>1, CInvHolds, PTL

\* A flag does what it says on whichever side of the subcommand it was typed,
\* and no session with a password goes without SSL.
THEOREM HonoursFlags == CliSpec => []FlagsHonoured
<1>1. CInv => FlagsHonoured
  <2>1. ASSUME CInv, code \in {1} \cup 3..7
        PROVE  "traceback" \in err <=> Asked("debug")
    BY <2>1 DEF CInv, Run, Phases, Ended, NoCode
  <2>2. ASSUME CInv, opened > 0
        PROVE  LET connection == open_connection(config)
               IN /\ connection.server.validate =
                       IF Asked("insecure") THEN "CERT_NONE" ELSE "CERT_REQUIRED"
                  /\ connection.server.validate = "CERT_NONE" <=> "warning" \in err
                  /\ connection.password # "absent" => connection.server.use_ssl
    BY <2>2 DEF CInv, Run, Typed, Warned, Valid, open_connection, build_server
  <2> QED
    BY <2>1, <2>2 DEF FlagsHonoured
<1> QED
  BY <1>1, CInvHolds, PTL
=============================================================================
