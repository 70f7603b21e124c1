-------------------------------- MODULE Query --------------------------------
(***************************************************************************)
(* internal/query: the nodes of a syntax tree.                             *)
(*                                                                         *)
(* What walks a tree is a recursive function over Nodes, a set of trees    *)
(* that has the sub-trees of its elements.  Each such function is written  *)
(* as one step, an operator that is given the function to recurse with.    *)
(***************************************************************************)
EXTENDS Integers, SequencesExt

CONSTANTS
    Nodes,      \* the trees at hand, with their sub-trees
    Size(_)     \* the number of nodes of a tree

Wild == {"*", "?"}

\* Symbols that unicode.IsSpace holds for: a blank, a tab or line break, a feed.
White == {"space", "tab", "feed"}

Term(v)             == [kind |-> "term", value |-> v]
Phrase(v)           == [kind |-> "phrase", value |-> v]
Interval(lo, hi, b) == [kind |-> "range", low |-> lo, high |-> hi, incl |-> b]
Group(n)            == [kind |-> "group", query |-> n]
Boolean(cs)         == [kind |-> "boolean", clauses |-> cs]
Clause(o, f, n)     == [kind |-> "clause", occur |-> o, field |-> f, term |-> n]

LeafKinds == {"term", "phrase", "range"}
Kinds     == LeafKinds \cup {"group", "boolean", "clause"}
Occurs    == {"should", "must", "must_not"}

\* Of every tree Parse can return: groups, clauses and booleans are made of
\* smaller trees, and a boolean of clauses.
ASSUME NodesAssumption ==
    \A n \in Nodes :
        /\ n.kind \in Kinds
        /\ Size(n) \in Nat
        /\ n.kind \in {"term", "phrase"} => n.value \in Seq(STRING)
        /\ n.kind = "term" => n.value # <<>>
        /\ n.kind = "group" => n.query \in Nodes /\ Size(n.query) < Size(n)
        /\ n.kind = "clause" => /\ n.occur \in Occurs
                                /\ n.term \in Nodes /\ Size(n.term) < Size(n)
        /\ n.kind = "boolean" =>
              /\ n.clauses \in Seq(Nodes)
              /\ \A c \in Range(n.clauses) : c.kind = "clause" /\ Size(c) < Size(n)

\* What a parse function returns: a node and the position after it, or an error.
Got(n, i)   == [ok |-> TRUE, node |-> n, next |-> i]
SyntaxError == [ok |-> FALSE]

\* The field of a clause that names none, and all that are named.
NoField == <<>>
Fields  == {NoField} \cup {c.field : c \in {n \in Nodes : n.kind = "clause"}}

Wildcard(v) == \E i \in DOMAIN v : v[i] \in Wild
Prefix(v)   == Last(v) = "*" /\ ~ Wildcard(Front(v))

\* Texts side by side, as a boolean is written and explanations are joined.
Spaced(texts) ==
    FlattenSeq([i \in DOMAIN texts |-> IF i = 1 THEN texts[i] ELSE <<"space">> \o texts[i]])

\* The leaves of a tree, each with the field of the clause it is the term of
\* and whether a negation stands over it.
LeavesIn(leaves, n, field, negated) ==
    CASE n.kind \in LeafKinds -> {[leaf |-> n, field |-> field, negated |-> negated]}
      [] n.kind = "group"     -> leaves[<<n.query, field, negated>>]
      [] n.kind = "clause"    -> leaves[<<n.term, n.field, negated \/ n.occur = "must_not">>]
      [] n.kind = "boolean"   -> UNION {leaves[<<c, NoField, negated>>] : c \in Range(n.clauses)}

Leaves[at \in Nodes \X Fields \X BOOLEAN] == LeavesIn(Leaves, at[1], at[2], at[3])

LeavesOf(n) == Leaves[<<n, NoField, FALSE>>]
=============================================================================
