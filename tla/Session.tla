------------------------------- MODULE Session -------------------------------
(***************************************************************************)
(* An LDAPSearch instance (src/adsearch/search.py) and the sessions it     *)
(* holds with the server: the lazily bound `conn', close, the with block,  *)
(* server_info's throwaway connection, and the operations as the steps     *)
(* they take over a connection, in the order they take them.  What the     *)
(* queries return is the business of PagedSearch and ReportingTree.        *)
(*                                                                         *)
(* The caller uses the instance inside a with block, makes one call at a   *)
(* time, may catch an exception and go on, may close and go on, and may    *)
(* enter a block again.  The server may refuse a bind, fail a query, or    *)
(* drop the session at any moment.                                         *)
(*                                                                         *)
(* A connection is unbound in cleanup code: close, which __exit__ calls    *)
(* while an exception may be leaving the with block, and the finally       *)
(* clause of server_info.  The unbind may raise, and Python lets what a    *)
(* cleanup raises replace what was on its way out; so the cleanup is       *)
(* modelled in steps, with the exception put aside and the one raised.     *)
(*                                                                         *)
(* MaxSessions bounds the sessions an instance opens.                      *)
(***************************************************************************)
EXTENDS Errors, Sequences

CONSTANT MaxSessions  \* bound on the sessions opened

ASSUME SessionAssumption == MaxSessions \in Nat

VARIABLES conn,      \* _conn: a session, or None
          scratch,   \* the session of a running server_info, or None
          opened,    \* sessions bound so far, numbered from 1
          released,  \* sessions that unbind was called on
          lost,      \* sessions the server dropped
          block,     \* "in" or "out" of the with block
          call,      \* the operation running, or "none"
          bad,       \* whether one of its arguments is malformed
          todo,      \* the steps it has left
          used,      \* history: sessions its queries went over
          error,     \* the exception the last call raised, or "none"
          cause,     \* the ldap3 exception behind it, or "none"
          cleanup,   \* the cleanup running: "close", "exit", "info" or "none"
          unbinding, \* the session _unbind_quietly has yet to unbind, or None
          saved,     \* what Python raises again after the cleanup, or "none"
          thrown,    \* what the unbind raised and nobody caught, or "none"
          ended,     \* history: the exception that ended the last block's body
          escaped    \* the exception that left the last with block, or "none"

serverVars == <<opened, released, lost>>
callVars == <<call, bad, todo, used, error, cause>>
cleanupVars == <<cleanup, unbinding, saved, thrown>>
blockVars == <<block, ended, escaped>>
vars == <<conn, scratch, serverVars, callVars, cleanupVars, blockVars>>

None == 0
Sessions == 1..opened

\* The steps of each operation.  "check" validates the arguments that become
\* part of the next filter or attribute list; "query" is _search; "info" is
\* server_info's throwaway connection.  A tree of two levels stands for a tree
\* of any depth.  resolve_group_dn returns a DN as it came, without a query.
Plan == [find_users             |-> <<"check", "query">>,
         describe_user          |-> <<"check", "query">>,
         resolve_user_dn        |-> <<"check", "query">>,
         resolve_group_dn_by_dn |-> << >>,
         resolve_group_dn       |-> <<"query">>,
         by_group_dn            |-> <<"check", "query">>,
         by_group               |-> <<"query", "check", "query">>,
         direct_reports         |-> <<"query", "check", "query">>,
         reporting_tree         |-> <<"query", "check", "query", "check", "query">>,
         server_info            |-> <<"info">>]

\* The operations that resolve a name first, and raise NotFoundError when it
\* names nothing.
Resolves == {"describe_user", "resolve_user_dn", "resolve_group_dn", "by_group",
             "direct_reports", "reporting_tree"}

\* What an unbind may raise: a failed send, and what is not ldap3's at all.
UnbindSite == {"socket", "foreign"}

\* What may leave a with block: an exception of this library, any other, and a
\* KeyboardInterrupt.
Raisable == LibraryErrors \cup {"none", "other", "interrupt"}

TypeOK ==
    /\ opened \in 0..MaxSessions
    /\ conn \in 0..MaxSessions /\ scratch \in 0..MaxSessions
    /\ released \subseteq Sessions /\ lost \subseteq Sessions
    /\ block \in {"in", "out"}
    /\ call \in DOMAIN Plan \cup {"none"}
    /\ bad \in BOOLEAN
    /\ todo \in Seq({"check", "query", "info"})
    /\ used \subseteq Sessions
    /\ error \in LibraryErrors \cup {"none"}
    /\ cause \in BindSite \cup QuerySite \cup {"none"}
    /\ cleanup \in {"close", "exit", "info", "none"}
    /\ unbinding \in 0..MaxSessions
    /\ thrown \in UnbindSite \cup {"none"}
    /\ saved \in Raisable /\ ended \in Raisable /\ escaped \in Raisable

\* __init__ does no I/O.
Init ==
    /\ conn = None
    /\ scratch = None
    /\ opened = 0
    /\ released = {}
    /\ lost = {}
    /\ block = "out"
    /\ call = "none"
    /\ bad = FALSE
    /\ todo = <<>>
    /\ used = {}
    /\ error = "none"
    /\ cause = "none"
    /\ cleanup = "none"
    /\ unbinding = None
    /\ saved = "none"
    /\ thrown = "none"
    /\ ended = "none"
    /\ escaped = "none"

-----------------------------------------------------------------------------
(* The caller *)

\* __enter__
Enter ==
    /\ block = "out"
    /\ block' = "in"
    /\ error' = "none" /\ cause' = "none" /\ ended' = "none" /\ escaped' = "none"
    /\ UNCHANGED <<conn, scratch, serverVars, call, bad, todo, used, cleanupVars>>

\* The caller's code runs: inside the block, no call, no cleanup.
CallersTurn == block = "in" /\ call = "none" /\ cleanup = "none"

Call(op) ==
    /\ CallersTurn
    /\ call' = op
    /\ bad' \in BOOLEAN
    /\ todo' = Plan[op]
    /\ used' = {}
    /\ error' = "none" /\ cause' = "none"
    /\ UNCHANGED <<conn, scratch, serverVars, cleanupVars, blockVars>>

\* The call returns.
Return ==
    /\ call # "none"
    /\ todo = <<>>
    /\ cleanup = "none"
    /\ call' = "none"
    /\ UNCHANGED <<conn, scratch, serverVars, bad, todo, used, error, cause,
                   cleanupVars, blockVars>>

\* The call raises e, because of the ldap3 exception exc or of none.
RaisesAs(e, exc) ==
    /\ call' = "none"
    /\ todo' = <<>>
    /\ error' = e
    /\ cause' = exc
    /\ UNCHANGED <<bad, used, cleanupVars, blockVars>>

-----------------------------------------------------------------------------
(* Cleaning up *)

\* Mutant: the connection is forgotten, and left to the garbage collector.
CleanUpForgetting(who, session, e) ==
    cleanup' = who /\ unbinding' = None /\ saved' = e /\ UNCHANGED thrown
\* A cleanup begins: Python puts aside e, the exception on its way out, and
\* session, if there is one, goes to _unbind_quietly.
CleanUp(who, session, e) ==
    cleanup' = who /\ unbinding' = session /\ saved' = e /\ UNCHANGED thrown

\* close(), by the caller: the connection is forgotten before it is unbound.
\* Without a connection close does nothing.
Close ==
    /\ CallersTurn
    /\ conn # None
    /\ conn' = None
    /\ CleanUp("close", conn, "none")
    /\ UNCHANGED <<scratch, serverVars, callVars, blockVars>>

\* The block's body ends, by the exception e or by itself, and __exit__ closes.
Exit(e) ==
    /\ CallersTurn
    /\ conn' = None
    /\ CleanUp("exit", conn, e)
    /\ ended' = e
    /\ UNCHANGED <<scratch, serverVars, callVars, block, escaped>>

\* conn.unbind() returns, or raises.
Unbind ==
    /\ unbinding # None
    /\ released' = released \cup {unbinding}
    /\ unbinding' = None
    /\ thrown' \in UnbindSite \cup {"none"}
    /\ UNCHANGED <<conn, scratch, opened, lost, callVars, cleanup, saved, blockVars>>

\* Mutant: only an exception of ldap3 is swallowed.
SwallowsLdap3(exc) == Catches({"LDAPException"}, exc)
\* `except Exception' swallows all that an unbind raises.
Swallows(exc) == exc \in DOMAIN Bases

\* The handler of _unbind_quietly.
Swallow ==
    /\ thrown # "none"
    /\ Swallows(thrown)
    /\ thrown' = "none"
    /\ UNCHANGED <<conn, scratch, serverVars, callVars, cleanup, unbinding, saved, blockVars>>

\* _unbind_quietly is left: by itself, or by what its handler did not catch.
Unbound == unbinding = None /\ (thrown # "none" => ~ Swallows(thrown))

\* What goes on after a cleanup: the exception it raised, else the one put aside.
Surfaces == IF thrown = "none" THEN saved ELSE thrown

CleanUpEnds ==
    /\ Unbound
    /\ cleanup' = "none" /\ saved' = "none" /\ thrown' = "none"
    /\ UNCHANGED unbinding

\* close() returns to the caller, or raises.
CloseEnds ==
    /\ cleanup = "close"
    /\ CleanUpEnds
    /\ error' = IF thrown = "none" THEN error ELSE thrown
    /\ UNCHANGED <<conn, scratch, serverVars, call, bad, todo, used, cause, blockVars>>

\* __exit__ returns None, so the with statement raises again what ended its
\* body; or it raises.
ExitEnds ==
    /\ cleanup = "exit"
    /\ CleanUpEnds
    /\ block' = "out"
    /\ escaped' = Surfaces
    /\ UNCHANGED <<conn, scratch, serverVars, callVars, ended>>

-----------------------------------------------------------------------------
(* The steps of a call *)

NextStep(step) == todo # <<>> /\ Head(todo) = step

\* attr, valid_dn, valid_fragment: a malformed argument raises.
Check ==
    /\ NextStep("check")
    /\ \/ bad /\ RaisesAs("LDAPQueryError", "none")
       \/ /\ ~ bad
          /\ todo' = Tail(todo)
          /\ UNCHANGED <<call, bad, used, error, cause, cleanupVars, blockVars>>
    /\ UNCHANGED <<conn, scratch, serverVars>>

\* Mutant: a dropped session is replaced without telling anybody.
MustBindAfresh == conn = None \/ conn \in lost
\* The property `conn' binds.
MustBind == conn = None

\* The property `conn', when it has to open the connection.
Bind ==
    /\ NextStep("query")
    /\ MustBind
    /\ opened < MaxSessions
    /\ opened' = opened + 1
    /\ conn' = opened'
    /\ UNCHANGED <<scratch, released, lost, callVars, cleanupVars, blockVars>>

\* Mutant: the connection is stored before it is bound.
ConnAfterFailureStored == opened + 1
\* _conn when the bind has failed.
ConnAfterFailure == None

\* The bind fails, and _conn stays None.
BindFails ==
    /\ NextStep("query")
    /\ MustBind
    /\ conn' = ConnAfterFailure
    /\ \E exc \in BindSite : RaisesAs(translated(exc, "LDAPConnectionError"), exc)
    /\ UNCHANGED <<scratch, serverVars>>

\* The query is answered.
Query ==
    /\ NextStep("query")
    /\ ~ MustBind
    /\ conn \notin lost
    /\ used' = used \cup {conn}
    /\ todo' = Tail(todo)
    /\ UNCHANGED <<conn, scratch, serverVars, call, bad, error, cause, cleanupVars,
                   blockVars>>

\* The query is answered, and _find_one refuses what it found.
QueryNotFound ==
    /\ NextStep("query")
    /\ ~ MustBind
    /\ conn \notin lost
    /\ call \in Resolves
    /\ used = {}
    /\ RaisesAs("NotFoundError", "none")
    /\ UNCHANGED <<conn, scratch, serverVars>>

\* The query fails.  A socket failure means that the session is gone; _conn
\* keeps the dead connection, and every later query over it fails this way.
QueryFails ==
    /\ NextStep("query")
    /\ ~ MustBind
    /\ \E exc \in QuerySite :
         /\ conn \in lost => exc = "socket"
         /\ RaisesAs(translated(exc, "LDAPQueryError"), exc)
         /\ lost' = IF exc = "socket" THEN lost \cup {conn} ELSE lost
    /\ UNCHANGED <<conn, scratch, opened, released>>

\* server_info binds a connection of its own ...
InfoBind ==
    /\ NextStep("info")
    /\ scratch = None
    /\ opened < MaxSessions
    /\ opened' = opened + 1
    /\ scratch' = opened'
    /\ UNCHANGED <<conn, released, lost, callVars, cleanupVars, blockVars>>

InfoBindFails ==
    /\ NextStep("info")
    /\ scratch = None
    /\ \E exc \in BindSite : RaisesAs(translated(exc, "LDAPConnectionError"), exc)
    /\ UNCHANGED <<conn, scratch, serverVars>>

\* Mutant: server_info has no finally clause.
InfoCleanUpMissing(e) == scratch' = None /\ CleanUp("info", None, e)
\* The finally clause of server_info, entered by the exception e or by the return.
InfoCleanUp(e) == scratch' = None /\ CleanUp("info", scratch, e)

\* ... reads what the bind fetched ...
InfoRead ==
    /\ NextStep("info")
    /\ scratch # None
    /\ InfoCleanUp("none")
    /\ todo' = Tail(todo)
    /\ UNCHANGED <<conn, serverVars, call, bad, used, error, cause, blockVars>>

\* ... and has unbound it: it returns what it read, or raises.
InfoEnds ==
    /\ cleanup = "info"
    /\ saved = "none"
    /\ CleanUpEnds
    /\ error' = Surfaces
    /\ call' = IF error' = "none" THEN call ELSE "none"
    /\ UNCHANGED <<conn, scratch, serverVars, bad, todo, used, cause, blockVars>>

-----------------------------------------------------------------------------
\* The server drops the session: idle too long, restarted, unreachable.
SessionDrops ==
    /\ conn # None
    /\ conn \notin lost
    /\ lost' = lost \cup {conn}
    /\ UNCHANGED <<conn, scratch, opened, released, callVars, cleanupVars, blockVars>>

CallStep == \/ Return \/ Check \/ Bind \/ BindFails \/ Query \/ QueryNotFound
            \/ QueryFails \/ InfoBind \/ InfoBindFails \/ InfoRead \/ InfoEnds

\* _unbind_quietly, whoever called it.
UnbindStep == Unbind \/ Swallow

Next == \/ Enter
        \/ \E op \in DOMAIN Plan : Call(op)
        \/ Close
        \/ \E e \in {"none", error} : Exit(e)
        \/ CallStep
        \/ UnbindStep \/ CloseEnds \/ ExitEnds
        \/ SessionDrops

Spec == Init /\ [][Next]_vars

\* Calls and cleanups end, because every wait for the server does
\* (connect_timeout, receive_timeout), and so do with blocks: cli.py runs one
\* operation in each.
Fairness ==
    /\ WF_vars(CallStep)
    /\ WF_vars(UnbindStep \/ CloseEnds \/ ExitEnds)
    /\ SF_vars(\E e \in {"none", error} : Exit(e))

FairSpec == Spec /\ Fairness

-----------------------------------------------------------------------------
\* No session is forgotten: one that was bound and not unbound is _conn's, that
\* of a server_info still running, or being unbound.  Outside the block none is
\* left.
NoSessionForgotten ==
    /\ Sessions \ released \subseteq {conn, scratch, unbinding}
    /\ scratch # None => call = "server_info"
    /\ block = "out" => Sessions = released

\* _conn never holds a connection whose bind failed, or that was or is being
\* unbound, whether or not the unbind raises.
NeverHalfOpen == conn # None => conn \in Sessions \ (released \cup {unbinding})

\* All the queries of one call go over one connection, although the session may
\* drop, and a caller may close, at any moment between calls.
OneConnectionPerCall == call # "none" => Cardinality(used) <= 1

\* The exception a caller gets names the fault: a refused bind is never taken
\* for a network fault that is worth retrying, nor a network fault for a query
\* the caller got wrong.
ErrorTellsCause ==
    /\ cause \in {"rejected", "password"} <=> error = "LDAPAuthError"
    /\ cause \in {"socket", "timeout", "tls"} => error = "LDAPConnectionError"
    /\ cause \in {"filter", "sizelimit"} => error = "LDAPQueryError"
    /\ cause = "other" => error \in {"LDAPConnectionError", "LDAPQueryError"}
    /\ error \in {"LDAPConnectionError", "LDAPAuthError"} => cause # "none"

\* Cleaning up hides no error and adds none: the exception that leaves a with
\* block is the one that ended its body, although an unbind on the way out may
\* have raised another, and no exception of an unbind comes out of close or of
\* server_info.
BlockKeepsItsError ==
    /\ block = "out" => escaped = ended
    /\ error \notin UnbindSite

\* Every session the instance binds is unbound in the end.
EverySessionReleased ==
    \A s \in 1..MaxSessions : s \in Sessions ~> s \in released

\* DESIGN.md 8.1 says that binding lazily keeps argument validation off the
\* network: a call that is refused for its arguments has asked the server
\* nothing.
ValidationOffline == bad /\ error = "LDAPQueryError" /\ cause = "none" => used = {}
=============================================================================
