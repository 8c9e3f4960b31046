------------------------------ MODULE MCFindUsers ------------------------------
(***************************************************************************)
(* A small instance of FindUsers, with what the script prints of its       *)
(* answers, for TLC.  A value is a sequence of characters; the values      *)
(* below hold each character a filter treats specially, an empty value, a  *)
(* DN with live parentheses, and values that are blank, longer than the    *)
(* titles, or have blanks inside and at their ends.                        *)
(***************************************************************************)
EXTENDS Rendering

x == <<"x">>
star == <<"*">>
open == <<"x", ")", "(">>
slash == <<"\\">>
root == <<"R", "=">>          \* LDAPConfig.base_dn
unit == <<"U", "=">>          \* an organizational unit
team == <<"T", "=", "(", ")">> \* the DN of a group and of a manager

MCAttrs == [name |-> "displayName", cn |-> "cn", employee_id |-> "employeeID",
            username |-> "sAMAccountName", upn |-> "userPrincipalName",
            mail |-> "mail", manager |-> "manager", member_of |-> "memberOf",
            cost_center |-> "departmentNumber", extra |-> {"title"}]
MCNames == {MCAttrs[f] : f \in Fields} \cup {"title", "info"}
MCDNs == {root, unit, team}

\* Entries that differ in what one call can tell apart.
Entry(i, v) ==
    [dn     |-> <<"E", "=", i>>,
     under  |-> IF i \in {"1", "2", "3"} THEN {root, unit} ELSE {root},
     chain  |-> IF i \in {"2", "5", "7"} THEN {team} ELSE {},
     values |-> v @@ [objectCategory |-> <<<<"person">>>>,
                      objectClass |-> <<<<"user">>>>,
                      userAccountControl |-> <<<<"512">>>>]]

MCEntries == {
  Entry("1", [displayName |-> <<open>>, cn |-> <<x>>, employeeID |-> <<x>>,
              sAMAccountName |-> <<x>>, manager |-> <<team>>, info |-> <<x, open>>]),
  Entry("2", [cn |-> <<star>>, employeeID |-> <<star>>, sAMAccountName |-> <<star>>,
              memberOf |-> <<team>>, departmentNumber |-> <<x>>,
              mail |-> <<<<" ", "x">>>>]),
  Entry("3", [displayName |-> <<<<>>>>, cn |-> <<open>>, employeeID |-> <<open>>,
              sAMAccountName |-> <<open>>, manager |-> <<team>>, mail |-> <<x>>]),
  Entry("4", [displayName |-> <<<<>>>>, employeeID |-> <<<<>>>>,
              sAMAccountName |-> <<x>>, userAccountControl |-> <<>>,
              departmentNumber |-> <<x, star>>]),
  Entry("5", [displayName |-> <<slash>>, employeeID |-> <<slash>>,
              sAMAccountName |-> <<slash>>, departmentNumber |-> <<slash>>,
              mail |-> <<<<" ">>>>]),
  Entry("6", [displayName |-> <<x>>, employeeID |-> <<x>>, memberOf |-> <<team>>,
              mail |-> <<<<"x", " ", " ", "x", " ">>>>,
              userAccountControl |-> <<<<"512", "2">>>>]),
  Entry("7", [cn |-> <<x>>, memberOf |-> <<team>>, manager |-> <<team>>,
              objectCategory |-> <<<<"group">>>>, objectClass |-> <<<<"group">>>>])}

Values1 == {None, <<>>, x, star, open, slash}
Values2 == {None, <<>>, star}

\* Fragments that are filters, that are two, and that are none though they pass
\* for one clause.
clause == <<"(", "info", "=", "x", ")">>
Fragments ==
    {None, clause, <<"(", "!">> \o clause \o <<")">>,
     <<"(", "|">> \o clause \o <<"(", "mail", "=", "*", ")", ")">>,
     clause \o clause, <<"(", ")">>, <<"(", "x", ")">>, <<"(">> \o clause \o <<")">>,
     <<"(", "info", "=", "x", "(", "mail", "=", "x", ")", ")">>,
     <<"(", "&", ")">>, <<"info", "=", "x">>, clause \o <<")">>}

Plain == [employee_id |-> None, username |-> None, name_contains |-> None,
          cost_center |-> None, manager_dn |-> None, group_dn |-> None,
          transitive |-> FALSE, include_disabled |-> FALSE, base_dn |-> None,
          extra_filter |-> None, attributes |-> None]

\* Every pair of kinds of argument, rather than every combination of all.
MCCalls ==
    {[Plain EXCEPT !.employee_id = i, !.username = u, !.name_contains = n, !.include_disabled = d]
        : i \in Values1, u \in Values2, n \in Values1, d \in BOOLEAN}
    \cup {[Plain EXCEPT !.manager_dn = m, !.group_dn = g, !.transitive = t, !.cost_center = c]
        : m \in {None, team, x}, g \in {None, team, x}, t \in BOOLEAN, c \in Values2}
    \cup {[Plain EXCEPT !.name_contains = n, !.extra_filter = f, !.base_dn = b, !.include_disabled = d]
        : n \in {None, open}, f \in Fragments, b \in {None, unit, x}, d \in BOOLEAN}
    \cup {[Plain EXCEPT !.attributes = a, !.employee_id = i, !.base_dn = b]
        : a \in {None, {}, {"info"}, {"cn", "mail"}, {"info", "a b"}},
          i \in {None, x}, b \in {None, unit}}

MCTitle == [username |-> <<"u", "n">>, name |-> <<"n">>,
            employee_id |-> <<"i", "d">>, email |-> <<"m", "a", "i">>]
=============================================================================
