------------------------------ MODULE QueryCost ------------------------------
(***************************************************************************)
(* internal/cost: what a parsed query costs, and which features it shows.  *)
(*                                                                         *)
(* Costs are integers: one point is Point units, which keeps field weights *)
(* (tenths) and the tenth of a negated clause exact.  A model is a record  *)
(* of points: term, phrase, leading, matchAll, range, openRange, orClause, *)
(* depth, and the factors wildcard, keywordWildcard, noField, with weights *)
(* of fields in tenths, by field, and the weight of fields unlisted there. *)
(*                                                                         *)
(* Of the breakdown only the keys count whose sum is positive: rules read  *)
(* nothing else.  No price is negative, so a sum is positive when one of   *)
(* its entries is.                                                         *)
(***************************************************************************)
EXTENDS Query

CONSTANT Models     \* the cost models at hand

Prices == {"term", "phrase", "wildcard", "leading", "matchAll", "range", "openRange",
           "orClause", "depth", "keywordWildcard", "noField", "unlisted"}

ASSUME ModelsAssumption ==
    \A m \in Models :
        /\ \A p \in Prices : m[p] \in Nat
        /\ \A f \in DOMAIN m.weights : m.weights[f] \in Nat

Point == 10000

Tenths(cost, w) == (cost * w) \div 10

\* fieldWeight.
Weight(m, field) ==
    IF field = NoField THEN 10
    ELSE IF field \in DOMAIN m.weights THEN m.weights[field]
    ELSE m.unlisted

Unfielded(m, field) == IF field = NoField THEN m.noField ELSE 1

IsKeyword(field) == field # NoField /\ Last(field) = ".keyword"

Entry(key, cost) == [cost |-> cost, keys |-> IF cost > 0 THEN {key} ELSE {}]

\* The key of a wildcard term; a prefix is no leading wildcard.
WildcardKey(v, field) ==
    IF IsKeyword(field)
    THEN IF Prefix(v) THEN "prefix_wildcard_keyword"
         ELSE IF v[1] \in Wild THEN "leading_wildcard_keyword"
         ELSE "wildcard_keyword"
    ELSE IF Prefix(v) THEN "prefix_wildcard"
         ELSE IF v[1] \in Wild THEN "leading_wildcard"
         ELSE "wildcard"

TermCost(v, m, field) ==
    LET base    == Tenths(m.term * Point, Weight(m, field)) * Unfielded(m, field)
        leading == IF v[1] \in Wild THEN m.leading * Point ELSE 0
        keyword == IF IsKeyword(field) THEN m.keywordWildcard ELSE 1
    IN  IF v = <<"*">> THEN Entry("match_all", m.matchAll * Point)
        ELSE IF ~ Wildcard(v) THEN Entry("term", base)
        ELSE Entry(WildcardKey(v, field), (base * m.wildcard + leading) * keyword)

\* strings.Fields, and one at least.
Words(v) ==
    LET begins == {i \in DOMAIN v : v[i] \notin White /\ (i = 1 \/ v[i - 1] \in White)}
    IN  IF begins = {} THEN 1 ELSE Cardinality(begins)

PhraseCost(v, m, field) ==
    Entry("phrase", Tenths(m.phrase * Point, Weight(m, field)) * Words(v) * Unfielded(m, field))

RangeCost(n, m, field) ==
    IF n.low = <<"*">> /\ n.high = <<"*">>
    THEN Entry("open_range", Tenths(m.openRange * Point, Weight(m, field)))
    ELSE Entry("range", Tenths(m.range * Point, Weight(m, field)) * Unfielded(m, field))

\* What booleanCost holds while it walks its clauses.
NoClauses == [must |-> 0, should |-> 0, optional |-> 0]

BrokenAddClause(sum, occur, cost) ==
    CASE occur = "must"     -> [sum EXCEPT !.must = cost]
      [] occur = "should"   -> [sum EXCEPT !.should = @ + cost, !.optional = @ + 1]
      [] occur = "must_not" -> [sum EXCEPT !.must = @ + Tenths(cost, 1)]

\* One clause: a must is compared with all that was held before, the tenths of
\* negated clauses included.
AddClause(sum, occur, cost) ==
    CASE occur = "must"     -> [sum EXCEPT !.must = IF cost > @ THEN cost ELSE @]
      [] occur = "should"   -> [sum EXCEPT !.should = @ + cost, !.optional = @ + 1]
      [] occur = "must_not" -> [sum EXCEPT !.must = @ + Tenths(cost, 1)]

\* The walk: cs[i] costs costs[i].
Summed(cs, costs) ==
    LET sum[i \in 0 .. Len(cs)] ==
            IF i = 0 THEN NoClauses ELSE AddClause(sum[i - 1], cs[i].occur, costs[i])
    IN  sum[Len(cs)]

BrokenKeysOf(occur, keys) == IF occur = "must_not" THEN {} ELSE keys

\* A clause shows what its term shows, negated or not.
KeysOf(occur, keys) == keys

\* clauseCost: the weight of the field counts again, on top of the term's own.
ClauseCost(child, occur, weight) ==
    LET denied == Entry("must_not", IF occur = "must_not" THEN 2 * Point ELSE 0)
    IN  [cost |-> Tenths(child.cost, weight) + denied.cost,
         keys |-> KeysOf(occur, child.keys) \cup denied.keys]

\* What the clauses show together.
Shown(cs, children) == UNION {children[i].keys : i \in DOMAIN cs}

\* booleanCost, of what its clauses cost.
BooleanCost(cs, m, children) ==
    LET sum    == Summed(cs, [i \in DOMAIN cs |-> children[i].cost])
        either == Entry("or_clauses", sum.optional * m.orClause * Point)
    IN  [cost |-> sum.must + sum.should + either.cost,
         keys |-> Shown(cs, children) \cup either.keys]

\* What a group adds for being one level deeper.
GroupCost(inner, m, depth) ==
    LET deeper == Entry("depth", m.depth * (depth + 1) * Point)
    IN  [cost |-> inner.cost + deeper.cost, keys |-> inner.keys \cup deeper.keys]

\* estimate.  A boolean is not told the field of a clause around it.
EstimateIn(estimated, n, m, field, depth) ==
    CASE n.kind = "term"    -> TermCost(n.value, m, field)
      [] n.kind = "phrase"  -> PhraseCost(n.value, m, field)
      [] n.kind = "range"   -> RangeCost(n, m, field)
      [] n.kind = "group"   -> GroupCost(estimated[<<n.query, m, field, depth + 1>>], m, depth)
      [] n.kind = "clause"  ->
            ClauseCost(estimated[<<n.term, m, n.field, depth>>], n.occur, Weight(m, n.field))
      [] n.kind = "boolean" ->
            BooleanCost(n.clauses, m,
                        [i \in DOMAIN n.clauses |-> estimated[<<n.clauses[i], m, NoField, depth>>]])

Estimated[at \in Nodes \X Models \X Fields \X Nat] ==
    EstimateIn(Estimated, at[1], at[2], at[3], at[4])

\* Round: to hundredths of a point.
Round(cost) ==
    LET hundredth == Point \div 100 IN ((cost + hundredth \div 2) \div hundredth) * hundredth

\* Estimate.
Estimate(n, m) ==
    LET e == Estimated[<<n, m, NoField, 0>>] IN [cost |-> Round(e.cost), keys |-> e.keys]
-----------------------------------------------------------------------------
(* The same without an order of clauses.                                   *)

Total(amounts) ==
    LET sum[i \in 0 .. Len(amounts)] == IF i = 0 THEN 0 ELSE sum[i - 1] + amounts[i]
    IN  sum[Len(amounts)]

Only(cs, occur, amounts) == [i \in DOMAIN cs |-> IF cs[i].occur = occur THEN amounts[i] ELSE 0]

\* The dearest required clause, all the optional ones with a penalty for each,
\* a tenth of each negated one.  The weight of a field counts twice here too.
Combined(cs, m, costs) ==
    Max({0} \cup {costs[i] : i \in {j \in DOMAIN cs : cs[j].occur = "must"}})
    + Total(Only(cs, "should", [i \in DOMAIN cs |-> costs[i] + m.orClause * Point]))
    + Total(Only(cs, "must_not", [i \in DOMAIN cs |-> Tenths(costs[i], 1)]))

OrderlessIn(orderless, n, m, field, depth) ==
    CASE n.kind \in LeafKinds -> Estimated[<<n, m, field, depth>>].cost
      [] n.kind = "group"     -> orderless[<<n.query, m, field, depth + 1>>] + m.depth * (depth + 1) * Point
      [] n.kind = "clause"    -> Tenths(orderless[<<n.term, m, n.field, depth>>], Weight(m, n.field))
                                 + (IF n.occur = "must_not" THEN 2 * Point ELSE 0)
      [] n.kind = "boolean"   ->
            Combined(n.clauses, m, [i \in DOMAIN n.clauses |-> orderless[<<n.clauses[i], m, NoField, depth>>]])

Orderless[at \in Nodes \X Models \X Fields \X Nat] ==
    OrderlessIn(Orderless, at[1], at[2], at[3], at[4])

\* The negated clauses that stand before a required one, of cs and of a tree.
Early(cs) ==
    {cs[i] : i \in {j \in DOMAIN cs : /\ cs[j].occur = "must_not"
                                     /\ \E k \in DOMAIN cs : j < k /\ cs[k].occur = "must"}}

EarlyIn(early, n) ==
    CASE n.kind \in LeafKinds -> {}
      [] n.kind = "group"     -> early[n.query]
      [] n.kind = "clause"    -> early[n.term]
      [] n.kind = "boolean"   -> Early(n.clauses) \cup UNION {early[c] : c \in Range(n.clauses)}

EarlyNegations[n \in Nodes] == EarlyIn(EarlyNegations, n)
=============================================================================
