----------------------------- MODULE QueryPolicy -----------------------------
(***************************************************************************)
(* From the real query to the one Gate works with: what of a syntax tree   *)
(* and of a configuration Policy sees, and that it decides alike.          *)
(***************************************************************************)
EXTENDS QueryPath

\* Policy, in units of cost and minutes.
Abstract == INSTANCE Policy WITH
    DefaultPlan <- "default", NoPlan <- "", EmptyPlan <- "",
    DefaultLimit <- Point * DefaultLimit, DefaultWindow <- Length(DefaultWindow)

\* The prices of a clause on a field of weight 1, by what it is.
Charges(m) ==
    [term             |-> m.term * Point,
     match_all        |-> m.matchAll * Point,
     leading_wildcard |-> (m.term * m.wildcard + m.leading) * Point,
     range            |-> m.range * Point,
     open_range       |-> m.openRange * Point]

AbstractWindow(window) ==
    IF window = "" THEN Abstract!EmptyWindow
    ELSE IF window \in DOMAIN Amounts THEN Abstract!Days(Length(window))
    ELSE Abstract!BadWindow

AbstractConfig(c) ==
    [plans         |-> [p \in DOMAIN c.plans |->
                           [limit |-> Point * c.plans[p].limit, window |-> AbstractWindow(c.plans[p].window)]],
     requireWindow |-> c.requireWindow,
     dateFields    |-> c.dateFields,
     dateField     |-> c.dateField,
     forbidden     |-> c.forbidden,
     termCost      |-> Charges(c.model).term,
     rangeCost     |-> Charges(c.model).range,
     orClauseCost  |-> c.model.orClause * Point,
     price         |-> Charges(c.model)]

\* What the cost model and the rules tell clauses apart by.
ClassOf(c) ==
    LET feature == FeatureOf([leaf |-> c.term, field |-> c.field])
    IN  IF feature = "none" THEN c.term.kind ELSE feature

\* The clauses of a query, and the positions of those of a class.
ClausesOf(n) == IF n.kind = "clause" THEN <<n>> ELSE n.clauses

Among(cs, class) == {i \in DOMAIN cs : ClassOf(cs[i]) = class}

AbstractRange(c) ==
    LET span == Span(c.term)
    IN  [field |-> c.field,
         kind  |-> IF ClassOf(c) = "open_range" THEN "unbounded" ELSE span.kind,
         days  |-> IF span.kind = "closed" THEN span.length ELSE 0]

AbstractQuery(n) ==
    LET cs == ClausesOf(n)
    IN  [parses   |-> TRUE,
         terms    |-> Cardinality(Among(cs, "term")),
         features |-> [f \in Abstract!Features |-> Cardinality(Among(cs, f))],
         ranges   |-> [i \in Among(cs, "range") \cup Among(cs, "open_range") |-> AbstractRange(cs[i])]]

\* The queries that abstraction is meant for: one clause, or a union of optional
\* ones (the parser makes a boolean of no single clause), on fields of weight 1,
\* no wildcards but a leading one.
Plain(c, m) ==
    /\ c.occur = "should"
    /\ Weight(m, c.field) = 10
    /\ c.field # NoField /\ ~ IsKeyword(c.field)
    /\ c.term.kind \in {"term", "range"}
    /\ c.term.kind = "term" /\ Wildcard(c.term.value) => c.term.value[1] \in Wild

Union(n, m) ==
    /\ n.kind \in {"clause", "boolean"}
    /\ n.kind = "boolean" => Len(n.clauses) # 1
    /\ \A i \in DOMAIN ClausesOf(n) : Plain(ClausesOf(n)[i], m)

\* The features that ForbiddenFeature names ("Forbidden can contain any of:
\* leading_wildcard, match_all, open_range", rules.go).
Forbiddable == Abstract!Features \cup {"open_range"}

\* What Gate is told of a query is enough: on such queries Policy, which sees
\* counts and abstract ranges only, decides what the parser, the estimate and
\* the rules decide, for the same reason, and adds a window when they do, the
\* one of the plan (QueryWindow.FindWindow, Engine.Evaluate, injectDefaultWindow).
PolicyAbstracts ==
    (report # NotScored /\ Union(used, config.model) /\ config.forbidden \subseteq Forbiddable) =>
        LET c     == AbstractConfig(config)
            q     == AbstractQuery(used)
            added == Abstract!InjectedWindow(q, c, plan).window
        IN  /\ Verdict(config, plan, used, report) = Abstract!Evaluate(q, c, plan)
            /\ Forwarded =>
                  added = IF sent.window = NoNode
                          THEN Abstract!EmptyWindow
                          ELSE AbstractWindow(sent.window.low[3])
=============================================================================
