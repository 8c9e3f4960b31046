------------------------------ MODULE FilterReader ----------------------------
(***************************************************************************)
(* How a directory reads a filter and what the filter selects, from the    *)
(* stand-in for one the tests run on (tests/fake_directory.py): recursive  *)
(* descent over the part of RFC 4515 the library uses.                     *)
(*                                                                         *)
(* An entry is [dn, under, values, chain]: the bases it lies under, the    *)
(* values of each attribute it has, and, for an attribute that holds DNs,  *)
(* those reached by following it through other entries.  The value of      *)
(* userAccountControl is the sequence of the bits that are set in it.      *)
(***************************************************************************)
EXTENDS Filters

CONSTANT Entries  \* what is in the directory

At(text, i) == IF i \in DOMAIN text THEN text[i] ELSE "end"

unescape(value) ==
    [i \in DOMAIN value |-> IF value[i] \in Range(Escapes)
                            THEN CHOOSE c \in DOMAIN Escapes : Escapes[c] = value[i]
                            ELSE value[i]]

Values(entry, name) == IF name \in DOMAIN entry.values THEN entry.values[name] ELSE <<>>

\* The part is a run of the whole.
Within(part, whole) == \E k \in 0..(Len(whole) - Len(part)) :
                          \A i \in DOMAIN part : whole[k + i] = part[i]

-----------------------------------------------------------------------------
\* The nodes of the clauses that join no others.
Node(op, name, value) == [op |-> op, name |-> name, value |-> value]
Malformed == Node("malformed", <<>>, <<>>)

\* The node of a clause that compares; wildcards are read before escape sequences.
Comparison(name, value) ==
    LET rule == At(name, Len(name))
    IN  IF rule \in {IN_CHAIN, BIT_AND} THEN Node(rule, Front(name), unescape(value))
        ELSE IF value = <<"*">> THEN Node("present", name, <<>>)
        ELSE IF "*" \notin Range(value) THEN Node("equal", name, unescape(value))
        ELSE IF value[1] = "*" /\ Last(value) = "*"
             THEN Node("contains", name, unescape(SubSeq(value, 2, Len(value) - 1)))
        ELSE Malformed

\* The node between two parentheses.
Simple(body) ==
    LET split == CHOOSE k \in DOMAIN body :
                    body[k] = "=" /\ \A j \in 1..(k - 1) : body[j] # "="
    IN  IF "=" \notin Range(body) THEN Malformed
        ELSE Comparison(SubSeq(body, 1, split - 1), SubSeq(body, split + 1, Len(body)))

\* The entry is one the node selects.  An attribute's name is one token.
matches(node, entry) ==
    LET held == UNION {Range(entry.values[n]) :
                          n \in {n \in DOMAIN entry.values : <<n>> = node.name}}
    IN  CASE node.op = "present"  -> held # {}
          [] node.op = "contains" -> \E v \in held : Within(node.value, v)
          [] node.op = "equal"    -> node.value \in held
          [] node.op = BIT_AND    -> \E v \in held : Range(node.value) \subseteq Range(v)
          [] node.op = IN_CHAIN   -> node.value \in entry.chain
          [] OTHER                -> FALSE

-----------------------------------------------------------------------------
\* What has been read of a text: the place behind it, which is 0 if it is none,
\* and the entries it selects; of a run of clauses, those each of them selects.
Reading(next, selects) == [next |-> next, selects |-> selects]
Unread == Reading(0, {})

\* The clauses from the i-th token on, of which clause is the first.
RunAt(text, i, clause, behind) ==
    IF At(text, i) # "(" THEN [next |-> i, parts |-> {}]
    ELSE IF clause.next = 0 THEN [next |-> 0, parts |-> {}]
    ELSE LET rest == behind[clause.next].run
         IN  [next |-> rest.next, parts |-> rest.parts \cup {clause.selects}]

Joining(operator, parts) == IF operator = "&" THEN {e \in Entries : \A p \in parts : e \in p}
                            ELSE UNION parts

\* The clause whose opening parenthesis is the i-th token.
ClauseAt(text, i, behind) ==
    LET run     == behind[i + 2].run
        negated == behind[i + 2].clause
        ends    == {j \in (i + 1)..Len(text) : text[j] = ")"}
        node    == Simple(SubSeq(text, i + 1, Min(ends) - 1))
    IN  CASE At(text, i) # "(" -> Unread
          [] At(text, i) = "(" /\ At(text, i + 1) \in {"&", "|"} ->
                IF run.parts = {} \/ At(text, run.next) # ")" THEN Unread
                ELSE Reading(run.next + 1, Joining(text[i + 1], run.parts))
          [] At(text, i) = "(" /\ At(text, i + 1) = "!" ->
                IF At(text, negated.next) # ")" THEN Unread
                ELSE Reading(negated.next + 1, Entries \ negated.selects)
          [] OTHER ->
                IF ends = {} \/ node = Malformed THEN Unread
                ELSE Reading(Min(ends) + 1, {e \in Entries : matches(node, e)})

\* What can be read from each place on.
Readings(text) ==
    LET behind[i \in 1..(Len(text) + 1)] ==
            LET clause == ClauseAt(text, i, behind)
            IN  [clause |-> clause, run |-> RunAt(text, i, clause, behind)]
    IN  behind

\* The whole text is one filter, and the entries it selects.
Readable(text) == Readings(text)[1].clause.next = Len(text) + 1
Selected(text) == Readings(text)[1].clause.selects
=============================================================================
