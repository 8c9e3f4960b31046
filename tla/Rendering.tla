------------------------------- MODULE Rendering ------------------------------
(***************************************************************************)
(* What cli.py prints of a list of users: render_users and render_reports, *)
(* down to the characters where the script lays them out itself (the       *)
(* table), and as documents where a library does (csv, json).  What is     *)
(* printed is a sequence of lines and documents, [is |-> "line" | "csv" |  *)
(* "json" | "count", of].  The list is what a query of FindUsers returned; *)
(* the users of every other query are made by the same to_user.            *)
(*                                                                         *)
(* The values a table shows hold no line break.                            *)
(***************************************************************************)
EXTENDS FindUsers

CONSTANT Title  \* the columns' names, as texts

Blank == " "

_COLUMNS == <<"username", "dn", "name", "employee_id", "email">>
_TABLE_COLUMNS == <<"username", "name", "employee_id", "email">>

\* No title is empty or ends in a blank; what a directory holds is finite, and its
\* values are texts.
ASSUME RenderingAssumption ==
    /\ \A i \in DOMAIN _TABLE_COLUMNS :
         LET title == Title[_TABLE_COLUMNS[i]]
         IN  title \in Text /\ title # <<>> /\ title[Len(title)] # Blank
    /\ IsFiniteSet(Entries)
    /\ \A e \in Entries : e.dn \in Text /\ \A n \in DOMAIN e.values : e.values[n] \in Seq(Text)

VARIABLES how,      \* what is to be printed, and how: [reports, fmt, raw]
          printed   \* what is on stdout, or NotYet

renderVars == <<how, printed>>
NotYet == <<>>

RenderInit ==
    /\ Init
    /\ how \in [reports : BOOLEAN, fmt : {"table", "csv", "json"}, raw : BOOLEAN]
    /\ printed = NotYet

\* The users in the order they came, which is any.
listing == SetToSeq(users)

Blanks(n) == [i \in 1..n |-> Blank]
ljust(text, width) == IF Len(text) >= width THEN text ELSE text \o Blanks(width - Len(text))
rstrip(text) == SubSeq(text, 1, Max({0} \cup {i \in DOMAIN text : text[i] # Blank}))
\* "  ".join
join(cells) == FlattenSeq([i \in DOMAIN cells |->
                              IF i = 1 THEN cells[i] ELSE Blanks(2) \o cells[i]])

Cells(user) == [i \in DOMAIN _TABLE_COLUMNS |->
                   IF user[_TABLE_COLUMNS[i]] = None THEN <<>> ELSE user[_TABLE_COLUMNS[i]]]

populate_rows == <<[i \in DOMAIN _TABLE_COLUMNS |-> Title[_TABLE_COLUMNS[i]]]>>
                    \o [k \in DOMAIN listing |-> Cells(listing[k])]

\* Mutant: the columns are as wide as their values.
WidthsOfValues(rows) == [i \in DOMAIN rows[1] |->
                            Max({1} \cup {Len(rows[k][i]) : k \in 2..Len(rows)})]
define_column_widths(rows) == [i \in DOMAIN rows[1] |->
                                  Max({0} \cup {Len(rows[k][i]) : k \in DOMAIN rows})]

build_table(rows, widths) ==
    LET line(row) == rstrip(join([i \in DOMAIN row |-> ljust(row[i], widths[i])]))
        ruler == join([i \in DOMAIN widths |-> [n \in 1..widths[i] |-> "-"]])
        lines == <<line(rows[1]), ruler>> \o [k \in 1..(Len(rows) - 1) |-> line(rows[k + 1])]
    IN  [k \in DOMAIN lines |-> [is |-> "line", of |-> lines[k]]]

format_users ==
    CASE how.fmt = "csv"   -> <<[is |-> "csv", of |-> [k \in DOMAIN listing |->
                                 [i \in DOMAIN _COLUMNS |-> listing[k][_COLUMNS[i]]]]]>>
      [] how.fmt = "json"  -> <<[is |-> "json", of |-> listing]>>
      [] how.fmt = "table" -> build_table(populate_rows, define_column_widths(populate_rows))

format_raw == <<[is |-> "json", of |-> [k \in DOMAIN listing |->
                    [dn |-> listing[k].dn, attributes |-> listing[k].attributes]]]>>

render_users == IF how.raw THEN format_raw ELSE format_users

\* The manager subcommand says how many reports were found.
render_reports == render_users \o <<[is |-> "line", of |-> <<>>],
                                    [is |-> "count", of |-> Len(listing)]>>

Output ==
    /\ status = "returned"
    /\ printed = NotYet
    /\ printed' = IF how.reports THEN render_reports ELSE render_users
    /\ UNCHANGED <<vars, how>>

RenderNext == Output \/ (Next /\ UNCHANGED renderVars)
RenderSpec == RenderInit /\ [][RenderNext]_<<vars, renderVars>>

-----------------------------------------------------------------------------
\* A table as its reader sees it: the ruler's dashes say where columns begin.
Ruler == printed[2].of
Starts == {p \in DOMAIN Ruler : Ruler[p] = "-" /\ (p = 1 \/ Ruler[p - 1] = Blank)}
Start(i) == CHOOSE p \in Starts : Cardinality({q \in Starts : q < p}) = i - 1
CellOf(text, i) ==
    LET end == IF i = Cardinality(Starts) THEN Len(text) ELSE Start(i + 1) - 3
    IN  rstrip(SubSeq(text, Start(i), Min({end, Len(text)})))

\* A table can be read: its ruler has a column for each title, and cut at the
\* ruler its lines give back every title and every user's fields, in order, up to
\* blanks at their ends, however long, short, blank or missing the values are.
TableReadsBack ==
    printed # NotYet /\ how.fmt = "table" /\ ~ how.raw =>
        /\ Cardinality(Starts) = Len(_TABLE_COLUMNS)
        /\ \A i \in DOMAIN _TABLE_COLUMNS :
              LET column == _TABLE_COLUMNS[i] IN
              /\ CellOf(printed[1].of, i) = Title[column]
              /\ \A k \in DOMAIN listing :
                    CellOf(printed[k + 2].of, i) =
                        IF listing[k][column] = None THEN <<>> ELSE rstrip(listing[k][column])
=============================================================================
