------------------------------- MODULE FindUsers ------------------------------
(***************************************************************************)
(* LDAPSearch.find_users (src/adsearch/search.py) from its arguments to    *)
(* its users: the filter, the search base and the list of attributes it    *)
(* sends, and what to_user (src/adsearch/models.py) makes of the entries   *)
(* that come back.  PagedSearch is about the transfer in between, which is *)
(* one step here.  An argument that is not given is None.                  *)
(***************************************************************************)
EXTENDS FilterReader

CONSTANTS Calls,     \* the calls considered: records of find_users's arguments
          attrs,     \* the AttributeMap: from field to attribute name
          base_dn    \* LDAPConfig.base_dn

\* A criterion is a value or not given; an extra filter is any text; an entry has a
\* name to be found by.
ASSUME FindUsersAssumption ==
    /\ \A c \in Calls :
         /\ {c.employee_id, c.username, c.name_contains, c.cost_center, c.manager_dn,
             c.group_dn} \subseteq Value \cup {None}
         /\ c.extra_filter \in Text \cup {None}
         /\ {c.transitive, c.include_disabled} \subseteq BOOLEAN
    /\ \A e \in Entries : e.dn \notin {None, <<>>}

VARIABLES call,      \* the arguments
          status,    \* "called", "asked", "returned" or "refused"
          request,   \* what is sent: [base, text, attributes]
          users      \* what the caller gets

vars == <<call, status, request, users>>

Nothing == [base |-> None, text |-> <<>>, attributes |-> {}]
Fields == {"name", "cn", "employee_id", "username", "upn", "mail", "manager",
           "member_of", "cost_center"}

\* AttributeMap.fetch_attributes
fetch_attributes == {attrs[f] : f \in Fields} \cup attrs.extra

TypeOK ==
    /\ call \in Calls
    /\ status \in {"called", "asked", "returned", "refused"}
    /\ request.base \in DNs \cup {None, base_dn}
    /\ request.attributes \subseteq AttributeNames \cup fetch_attributes
    /\ \A u \in users : u.dn \in {e.dn : e \in Entries}

Init == call \in Calls /\ status = "called" /\ request = Nothing /\ users = {}

-----------------------------------------------------------------------------
\* Mutant: an empty value counts as an argument that is not given.
GivenTruthy(argument) == argument # None /\ argument # <<>>
\* An argument contributes a clause.
IsGiven(argument) == argument # None

Clause(argument, text) == IF IsGiven(argument) THEN text ELSE None

_name_clause(fragment) == any_of(<<contains(attrs.name, fragment),
                                   contains(attrs.cn, fragment)>>)

_group_clause(dn, transitive) == IF transitive THEN in_chain(attrs.member_of, dn)
                                 ELSE eq_dn(attrs.member_of, dn)

clauses == <<USER_OBJECT,
             IF call.include_disabled THEN None ELSE NOT_DISABLED,
             Clause(call.employee_id, eq(attrs.employee_id, call.employee_id)),
             Clause(call.username, eq(attrs.username, call.username)),
             Clause(call.name_contains, _name_clause(call.name_contains)),
             Clause(call.cost_center, eq(attrs.cost_center, call.cost_center)),
             Clause(call.manager_dn, eq_dn(attrs.manager, call.manager_dn)),
             Clause(call.group_dn, _group_clause(call.group_dn, call.transitive)),
             call.extra_filter>>

\* Mutant: the caller's attributes replace the map's.
RequestedOnly(requested) == IF requested = None THEN fetch_attributes ELSE requested
_requested_attributes(requested) ==
    fetch_attributes \cup (IF requested = None THEN {} ELSE requested)

\* Mutant: DNs and search bases are sent as they come.
DNUnchecked(dn) == TRUE
\* valid_dn, where there is a DN to look at.
DNAcceptable(dn) == dn = None \/ is_dn(dn)

\* The fields whose attributes the clause of each criterion names.
Naming == [employee_id |-> {"employee_id"}, username |-> {"username"},
           name_contains |-> {"name", "cn"}, cost_center |-> {"cost_center"},
           manager_dn |-> {"manager"}, group_dn |-> {"member_of"}]

\* No check raises.
Acceptable ==
    /\ \A c \in DOMAIN Naming : IsGiven(call[c]) =>
          \A f \in Naming[c] : is_valid_attr(attrs[f])
    /\ DNAcceptable(call.manager_dn)
    /\ DNAcceptable(call.group_dn)
    /\ call.extra_filter # None => valid_fragment(call.extra_filter)
    /\ DNAcceptable(call.base_dn)
    /\ call.attributes # None => \A name \in call.attributes : is_valid_attr(name)

Ask ==
    /\ status = "called"
    /\ Acceptable
    /\ request' = [base       |-> IF call.base_dn = None THEN base_dn ELSE call.base_dn,
                   text       |-> all_of(clauses),
                   attributes |-> _requested_attributes(call.attributes)]
    /\ status' = "asked"
    /\ UNCHANGED <<call, users>>

\* A check raises LDAPQueryError: nothing has been sent.
Refuse ==
    /\ status = "called"
    /\ ~ Acceptable
    /\ status' = "refused"
    /\ UNCHANGED <<call, request, users>>

-----------------------------------------------------------------------------
\* An entry as it comes back: the attributes asked for that it has, and perhaps
\* an empty list for each that it has not.
Project(entry, blanks) ==
    LET sent == {n \in request.attributes : blanks \/ Values(entry, n) # <<>>}
    IN  [dn |-> entry.dn, attributes |-> [n \in sent |-> Values(entry, n)]]

_first(values) == IF values = <<>> THEN None ELSE values[1]
get(projected, name) == IF name \in DOMAIN projected THEN _first(projected[name])
                        ELSE None

\* Mutant: an empty display name is a name.
NamedByFirst(tried) == IF tried[1] # None THEN tried[1]
                       ELSE IF tried[2] # None THEN tried[2] ELSE tried[3]
\* The chain of `or': the first that is neither None nor empty, or the last.
FirstOf(tried) == IF tried[1] \notin {None, <<>>} THEN tried[1]
                  ELSE IF tried[2] \notin {None, <<>>} THEN tried[2] ELSE tried[3]

to_user(entry) ==
    LET field(f) == get(entry.attributes, attrs[f]) IN
    [dn          |-> entry.dn,
     name        |-> FirstOf(<<field("name"), field("cn"), entry.dn>>),
     employee_id |-> field("employee_id"),
     username    |-> field("username"),
     email       |-> field("mail"),
     attributes  |-> entry.attributes]

\* The directory answers with what it reads in the filter ...
Answer ==
    /\ status = "asked"
    /\ Readable(request.text)
    /\ \E blanks \in BOOLEAN :
         users' = {to_user(Project(e, blanks)) : e \in
                     {e \in Selected(request.text) : request.base \in e.under}}
    /\ status' = "returned"
    /\ UNCHANGED <<call, request>>

\* ... or refuses a filter it cannot read: LDAPQueryError, as Errors has it.
RejectFilter ==
    /\ status = "asked"
    /\ ~ Readable(request.text)
    /\ status' = "refused"
    /\ UNCHANGED <<call, request, users>>

Next == Ask \/ Refuse \/ Answer \/ RejectFilter

Spec == Init /\ [][Next]_vars

-----------------------------------------------------------------------------
\* The entry is one the caller asked for: it meets every criterion given, with
\* the caller's values taken literally.
Wanted(e) ==
    LET has(argument, f) == argument = None \/ argument \in Range(Values(e, attrs[f])) IN
    /\ <<"person">> \in Range(Values(e, "objectCategory"))
    /\ <<"user">> \in Range(Values(e, "objectClass"))
    /\ call.include_disabled \/ \A v \in Range(Values(e, "userAccountControl")) :
                                   "2" \notin Range(v)
    /\ has(call.employee_id, "employee_id")
    /\ has(call.username, "username")
    /\ has(call.cost_center, "cost_center")
    /\ has(call.manager_dn, "manager")
    /\ IF call.transitive THEN call.group_dn = None \/ call.group_dn \in e.chain
       ELSE has(call.group_dn, "member_of")
    /\ \/ call.name_contains = None
       \/ \E f \in {"name", "cn"} : \E v \in Range(Values(e, attrs[f])) :
             Within(call.name_contains, v)
    /\ call.extra_filter = None \/ e \in Selected(call.extra_filter)
    /\ (IF call.base_dn = None THEN base_dn ELSE call.base_dn) \in e.under

\* The users returned are exactly those who meet all the criteria given:
\* whatever the values hold, they end no clause, open none and match nothing but
\* themselves; an empty value is a criterion too; and no criterion is lost.
ReturnsTheWanted ==
    status = "returned" => {u.dn : u \in users} = {e.dn : e \in {e \in Entries : Wanted(e)}}

\* The caller's own filter stands in the query as the one clause it is: the
\* query can be read exactly when the fragment can, and always when there is
\* none.  No value opens or closes a clause on the way.
FragmentStandsAlone ==
    status # "called" /\ request # Nothing =>
        (Readable(request.text) <=> (call.extra_filter # None => Readable(call.extra_filter)))

\* Every field of a user is what its entry holds, whatever else the caller asked
\* for and however the directory reports what an entry has not; no user is
\* without a name.
FieldsFaithful ==
    \A u \in users : \E e \in Entries :
        LET held(f) == _first(Values(e, attrs[f])) IN
        /\ u.dn = e.dn
        /\ u.employee_id = held("employee_id")
        /\ u.username = held("username")
        /\ u.email = held("mail")
        /\ u.name \notin {None, <<>>}
        /\ u.name \in {held("name"), held("cn"), e.dn}
        /\ u.name # held("name") => held("name") \in {None, <<>>}
        /\ u.name \notin {held("name"), held("cn")} => held("cn") \in {None, <<>>}
        /\ call.attributes # None =>
              \A n \in call.attributes : Values(e, n) # <<>> =>
                 n \in DOMAIN u.attributes /\ u.attributes[n] = Values(e, n)
=============================================================================
