-------------------------------- MODULE Filters -------------------------------
(***************************************************************************)
(* src/adsearch/filters.py: the text of a filter, as it is sent.  A text   *)
(* is a sequence of tokens: an attribute name, a matching rule with its    *)
(* colons and an escape sequence are one token each, and every other       *)
(* character of a value is one.  A builder that raises is a condition      *)
(* here, is_valid_attr, is_dn or valid_fragment, and its caller's.         *)
(***************************************************************************)
EXTENDS Integers, Sequences, FiniteSets, SequencesExt

CONSTANTS None,           \* an argument that is not given
          AttributeNames, \* what the pattern for attribute names accepts
          DNs             \* the values parse_dn accepts

USER_OBJECT == <<"(", "&", "(", "objectCategory", "=", "person", ")",
                 "(", "objectClass", "=", "user", ")", ")">>
IN_CHAIN == ":1.2.840.113556.1.4.1941:"
BIT_AND == ":1.2.840.113556.1.4.803:"

Escapes == [c \in {"(", ")", "*", "\\", "NUL"} |->
              CASE c = "(" -> "\\28" [] c = ")" -> "\\29" [] c = "*" -> "\\2a"
                [] c = "\\" -> "\\5c" [] c = "NUL" -> "\\00"]

\* Mutant: wildcards are left to the caller.
escNoWildcard(value) ==
    [i \in DOMAIN value |-> IF value[i] \in DOMAIN Escapes \ {"*"}
                            THEN Escapes[value[i]] ELSE value[i]]
esc(value) ==
    [i \in DOMAIN value |-> IF value[i] \in DOMAIN Escapes
                            THEN Escapes[value[i]] ELSE value[i]]

\* What a text is made of: strings, those the builders write among them.
Tokens == STRING \cup Range(Escapes) \cup
          {"(", ")", "&", "|", "!", "=", "*", IN_CHAIN, BIT_AND, "2", "person", "user",
           "objectCategory", "objectClass", "userAccountControl"}
Text == Seq(Tokens)

\* A value: a text of single characters.
Value == Seq(Tokens \ Range(Escapes))

\* The pattern for attribute names, [A-Za-z][A-Za-z0-9-]*, matches nothing with a
\* meaning in a filter, and None is no text.
ASSUME FiltersAssumption ==
    /\ AttributeNames \subseteq Tokens \ {"(", ")", "&", "|", "!", "=", "*", IN_CHAIN, BIT_AND}
    /\ None \notin Text

is_valid_attr(name) == name \in AttributeNames
is_dn(value) == value \in DNs

eq(name, value) == <<"(", name, "=">> \o esc(value) \o <<")">>
contains(name, value) == <<"(", name, "=", "*">> \o esc(value) \o <<"*", ")">>
none_of(clause) == <<"(", "!">> \o clause \o <<")">>
\* Mutant: a DN counts as escaped once it is known to be one.
eq_dnRaw(name, value) == <<"(", name, "=">> \o value \o <<")">>
\* eq_dn of a value that is_dn holds of.
eq_dn(name, value) == eq(name, value)
\* in_chain of such a value.
in_chain(name, value) == <<"(", name, IN_CHAIN, "=">> \o esc(value) \o <<")">>

NOT_DISABLED == none_of(<<"(", "userAccountControl", BIT_AND, "=", "2", ")">>)

Given(clauses) == {i \in DOMAIN clauses : clauses[i] # None}

\* The text of the clauses that are given, up to the n-th.
Behind(clauses) ==
    LET upTo[n \in 0..Len(clauses)] ==
            IF n = 0 THEN <<>>
            ELSE IF clauses[n] = None THEN upTo[n - 1]
            ELSE upTo[n - 1] \o clauses[n]
    IN  upTo

\* all_of and any_of, of at least one clause that is given.
Joined(operator, clauses) ==
    LET joined == Behind(clauses)[Len(clauses)]
    IN  IF Cardinality(Given(clauses)) = 1 THEN joined
        ELSE <<"(", operator>> \o joined \o <<")">>
all_of(clauses) == Joined("&", clauses)
any_of(clauses) == Joined("|", clauses)

\* How many parentheses are open behind the n-th token.
Depth(text, n) == Cardinality({i \in 1..n : text[i] = "("})
                  - Cardinality({i \in 1..n : text[i] = ")"})

\* Mutant: only the ends and the final depth are looked at.
valid_fragmentEnds(text) ==
    /\ Len(text) >= 3 /\ text[1] = "(" /\ text[Len(text)] = ")"
    /\ Depth(text, Len(text)) = 0
\* What Fragment.tla scans for, token by token.
valid_fragment(text) ==
    /\ Len(text) >= 3 /\ text[1] = "(" /\ text[Len(text)] = ")"
    /\ \A n \in 1..(Len(text) - 1) : text[n] = ")" => Depth(text, n) # 0
    /\ Depth(text, Len(text)) = 0
=============================================================================
