------------------------------- MODULE Policy -------------------------------
(***************************************************************************)
(* What one configuration says about one request: who is asking            *)
(* (internal/auth, mergeContext), whether the rule engine admits the query *)
(* (internal/rules) and which date window is added to a query that has     *)
(* none (injectDefaultWindow).                                             *)
(*                                                                         *)
(* A query is abstracted to what those decisions read of its AST:          *)
(*   parses    the local parser accepts it                                 *)
(*   terms     how many plain terms are among the optional clauses it unites*)
(*   features  how many clauses raise a cost breakdown key of their own,   *)
(*             for each such key (Features)                                *)
(*   ranges    its range clauses, by position: FindWindow visits them in   *)
(*             that order.  Each is [field, kind, days], kind closed, open *)
(*             (one end), unbounded (both) or bad (unparsable)             *)
(* A configuration is a record of the settings that serverState derives its*)
(* engine, cost model, validator and authenticator from.  A definition     *)
(* named Broken... is a wrong variant of the one that follows it, which the*)
(* properties must reject.                                                 *)
(***************************************************************************)
EXTENDS Naturals, Sequences, FiniteSetsExt

CONSTANTS
    DefaultPlan,     \* rules.PlanFromContext without a user.plan
    NoPlan,          \* a request body that names no plan, a credential unknown
    EmptyPlan,       \* "", the plan of a good token in which none was found
    DefaultLimit,    \* cost limit of a plan the configuration does not list (100)
    DefaultWindow,   \* days of window of a plan without a usable one (30)
    DefaultField     \* "@timestamp", injected into when date_field is empty

Allowed == "allowed"
Refused == "refused"

\* The window text of a plan: a number of days, left out, or no duration.
Days(n)     == [kind |-> "days", days |-> n]
EmptyWindow == [kind |-> "empty", days |-> 0]
BadWindow   == [kind |-> "bad", days |-> 0]

NoRange == [field |-> "none", window |-> EmptyWindow]

\* The keys of the cost breakdown that stand for one kind of term alone.
Features == {"match_all", "leading_wildcard"}

-----------------------------------------------------------------------------
(* Who is asking.                                                          *)

BodyPlan(in) == IF in.bodyPlan = NoPlan THEN DefaultPlan ELSE in.bodyPlan

\* APIKey.Authenticate: the key's context, or an error.
KeyPlan(c, in) == IF c.planOf[in.cred] = NoPlan THEN Refused ELSE c.planOf[in.cred]

BrokenIdentities(c, in) ==
    IF c.auth # "none" /\ in.bodyPlan # NoPlan /\ KeyPlan(c, in) # Refused
    THEN {in.bodyPlan}
    ELSE {IF c.auth = "none" THEN BodyPlan(in) ELSE KeyPlan(c, in)}

\* What authenticating in under c may yield: the plan rules see after
\* mergeContext, or Refused.  Without authentication the body names the plan;
\* with it the credential's context overrides the body's, an empty plan too.
\* A JWKS authenticator may also refuse a good token, when it cannot fetch its
\* keys, or lose the token's plan, when another request is setting it up and
\* the name of the plan's claim is not stored yet (JwksAuth).
Identities(c, in) ==
    CASE c.auth = "none" -> {BodyPlan(in)}
      [] c.auth = "keys" -> {KeyPlan(c, in)}
      [] c.auth = "jwks" -> {KeyPlan(c, in), Refused}
                            \cup (IF KeyPlan(c, in) = Refused THEN {} ELSE {EmptyPlan})

-----------------------------------------------------------------------------
(* The rule engine.                                                        *)

\* A range clause: [* TO *] raises a key of its own, the others cost the same.
Unbounded(q) == {i \in DOMAIN q.ranges : q.ranges[i].kind = "unbounded"}

RangeCost(q, c) ==
    Cardinality(Unbounded(q)) * c.price["open_range"]
    + Cardinality(DOMAIN q.ranges \ Unbounded(q)) * c.rangeCost

\* cost.Estimate on a union of optional clauses (fields weigh 1): each pays for
\* itself and, unless it is the only one, the OR penalty.
Cost(q, c) ==
    LET clauses == q.terms + q.features["match_all"] + q.features["leading_wildcard"]
                   + Cardinality(DOMAIN q.ranges)
    IN  q.terms * c.termCost
        + q.features["match_all"] * c.price["match_all"]
        + q.features["leading_wildcard"] * c.price["leading_wildcard"]
        + RangeCost(q, c)
        + (IF clauses > 1 THEN clauses * c.orClauseCost ELSE 0)

\* The keys of the cost breakdown that rules can forbid.
Raised(q) ==
    {f \in Features : q.features[f] > 0} \cup (IF Unbounded(q) # {} THEN {"open_range"} ELSE {})

\* ForbiddenFeature.Evaluate reads the breakdown, so a feature the cost model
\* prices at zero is not seen.
ForbiddenFeature(q, c) ==
    IF \E f \in Raised(q) \cap c.forbidden : c.price[f] > 0
    THEN "forbidden_feature"
    ELSE Allowed

CostLimit(c, plan) ==
    IF plan \in DOMAIN c.plans THEN c.plans[plan].limit ELSE DefaultLimit

PlanLimit(q, c, plan) == IF Cost(q, c) > CostLimit(c, plan) THEN "cost" ELSE Allowed

\* BuildEngine: a plan's window text that is no duration leaves the default.
WindowLimit(c, plan) ==
    IF plan \in DOMAIN c.plans /\ c.plans[plan].window.kind = "days"
    THEN c.plans[plan].window.days
    ELSE DefaultWindow

\* The position of the range clause that ends FindWindow's walk: the first one
\* on a date field, or the first one on any field whose bounds do not parse.
Hits(q, c) ==
    {i \in DOMAIN q.ranges : q.ranges[i].kind = "bad" \/ q.ranges[i].field \in c.dateFields}

\* QueryWindow.Evaluate.
QueryWindow(q, c, plan) ==
    IF Hits(q, c) = {}
    THEN IF c.requireWindow THEN "no_window" ELSE Allowed
    ELSE LET hit == q.ranges[Min(Hits(q, c))]
         IN  CASE hit.kind = "bad"  -> "bad_date"
               [] hit.kind \in {"open", "unbounded"} -> "open_window"
               [] OTHER -> IF hit.days > WindowLimit(c, plan) THEN "long_window" ELSE Allowed

\* Engine.Evaluate: the first denial in the order BuildEngine lists the rules.
Evaluate(q, c, plan) ==
    LET verdicts == <<ForbiddenFeature(q, c), PlanLimit(q, c, plan), QueryWindow(q, c, plan)>>
        denials  == {i \in DOMAIN verdicts : verdicts[i] # Allowed}
    IN  IF denials = {} THEN Allowed ELSE verdicts[Min(denials)]

-----------------------------------------------------------------------------
(* The window added on the way to Elasticsearch.                           *)

BrokenPlanWindow(c, plan) == Days(DefaultWindow)

\* PlanWindow: the text of the plan's window, parsable or not, 30d without one.
PlanWindow(c, plan) ==
    IF plan \in DOMAIN c.plans /\ c.plans[plan].window # EmptyWindow
    THEN c.plans[plan].window
    ELSE Days(DefaultWindow)

\* FindWindow's found result as injectDefaultWindow reads it (errors dropped:
\* a bad range inside a Boolean is reported as "not found").
WindowFound(q, c) ==
    Hits(q, c) # {} /\ q.ranges[Min(Hits(q, c))].kind # "bad"

\* injectDefaultWindow: the range conjoined to the query, or NoRange.
InjectedWindow(q, c, plan) ==
    IF c.requireWindow \/ WindowFound(q, c)
    THEN NoRange
    ELSE [field  |-> IF c.dateField = "" THEN DefaultField ELSE c.dateField,
          window |-> PlanWindow(c, plan)]
=============================================================================
