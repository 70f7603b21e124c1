---------------------------- MODULE QueryPromises ----------------------------
(***************************************************************************)
(* What the repository's documents and comments say of one request and the *)
(* code does not do.  Each property quotes its promise; the runs find what *)
(* breaks it.                                                              *)
(***************************************************************************)
EXTENDS QueryText

\* "MustNot excludes matches (matches '-', 'NOT')" (ast.go) and "proxies the
\* original request unchanged" (README): a word the client negated, and wrote
\* nowhere else, is negated in what is sent.
NegationKept ==
    LET t == request.text
        once(w) == Cardinality({i \in DOMAIN t : t[i] = w}) = 1
        written == {t[i + 2] : i \in {j \in 1 .. Len(t) - 2 : t[j] = "NOT" /\ t[j + 1] = "space"}}
    IN  (Forwarded /\ Parse(t).ok) =>
            \A w \in written : \A l \in LeavesOf(used) :
                once(w) /\ l.leaf = Term(<<w>>) => l.negated

\* "Proxies the original request to an upstream Elasticsearch unchanged"
\* (README): the phrases of a query the gate can read are sent as the client
\* wrote them between its quotes (Phrase.String).
PhrasesKept ==
    (Forwarded /\ Parse(request.text).ok) =>
        \A l \in LeavesOf(used) :
            l.leaf.kind = "phrase" => <<"quote">> \o l.leaf.value \o <<"quote">> \in SubSeqs(sent.text)

-----------------------------------------------------------------------------
\* The pattern a leaf is an instance of, as written.
Pattern(leaf) ==
    IF leaf.kind = "term" /\ leaf.value = <<"*">> THEN "match_all"
    ELSE IF leaf.kind = "term" /\ leaf.value[1] \in Wild THEN "leading_wildcard"
    ELSE IF leaf.kind = "range" /\ leaf.low = <<"*">> /\ leaf.high = <<"*">> THEN "open_range"
    ELSE "none"

\* "ForbiddenFeature rejects queries that contain forbidden patterns such as
\* leading wildcards or match-all terms" (rules.go), on whatever field and at
\* whatever price.
ForbiddenRejected ==
    Forwarded => \A l \in LeavesOf(used) : Pattern(l.leaf) \notin config.forbidden

\* What matches n is inside a range of n on one of the fields.
RECURSIVE Constrains(_, _)
Constrains(n, fields) ==
    CASE n.kind = "group"   -> Constrains(n.query, fields)
      [] n.kind = "clause"  -> \/ n.term.kind = "range" /\ n.field \in fields
                               \/ Constrains(n.term, fields)
      [] n.kind = "boolean" ->
            LET those(occur) == {c \in Range(n.clauses) : c.occur = occur}
            IN  \/ \E c \in those("must") : Constrains(c, fields)
                \/ /\ those("must") = {} /\ those("should") # {}
                   /\ \A c \in those("should") : Constrains(c, fields)
      [] OTHER -> FALSE

\* "If the query already constrains one of the configured date_fields, the
\* existing window is used.  Otherwise" it is rejected or gets the plan's
\* (README): what is sent without an added window constrains one itself, not in
\* an alternative and not in a negation.
WindowlessConstrains ==
    (Forwarded /\ sent.window = NoNode) => Constrains(used, config.dateFields)

\* "Each plan defines a maximum query window" (README): the range a query is
\* admitted with, taken at its word, is no longer than that, whatever its
\* amounts are.
PlanWindowIsMaximum ==
    (Forwarded /\ sent.window = NoNode) =>
        LET window == FindWindow[<<used, config.dateFields>>]
        IN  TrueAt(window.high) - TrueAt(window.low) <= WindowLimit(config, plan)

-----------------------------------------------------------------------------
\* "asn:AS13335" on a field of weight 0.5, at a point a term, has "cost": 0.5
\* (README, /validate): a term of a field costs a term's price times the weight
\* of the field.
WeightCountsOnce ==
    (/\ report # NotScored
     /\ used.kind = "clause" /\ used.field # NoField /\ used.occur # "must_not"
     /\ used.term.kind = "term" /\ ~ Wildcard(used.term.value)) =>
        report.cost = Round(Tenths(config.model.term * Point, Weight(config.model, used.field)))

\* "MUST_NOT adds a fixed penalty" (README, and booleanCost's comment): a last
\* clause that is negated adds the 2 points that the breakdown has for it,
\* whatever it negates.
NegationAddsFixed ==
    (report # NotScored /\ used.kind = "boolean" /\ used.clauses # <<>>) =>
        LET before == Front(used.clauses)
            costs  == [i \in DOMAIN before |-> Estimated[<<before[i], config.model, NoField, 0>>]]
        IN  Last(used.clauses).occur = "must_not" =>
                report.cost = Round(BooleanCost(before, config.model, costs).cost + 2 * Point)

-----------------------------------------------------------------------------
\* "The rightmost non-proxy address becomes client_ip" (README): of all that
\* X-Forwarded-For says, however many lines it takes.
RightmostIsLogged ==
    (stage = "logged" /\ request.origin.peer \in config.trusted) =>
        LET entries == FlattenSeq(request.origin.forwardedFor)
            clients == Candidates(entries, config.trusted)
        IN  clients # {} => logged = entries[Max(clients)]
=============================================================================
