------------------------------ MODULE QueryPath ------------------------------
(***************************************************************************)
(* One search request from its text to Elasticsearch and back: who asks,   *)
(* what the parser makes of the text, what that costs, what the rules say, *)
(* which text is sent and what is logged.  Gate has many requests and      *)
(* reloads but abstracts a query to what Policy reads of it; here one      *)
(* configuration and one request are followed through the real text.       *)
(* Read and Write are the parser and its inverse: Parse and String of      *)
(* Lucene in the runs, any operators in the proofs.                        *)
(*                                                                         *)
(* A configuration is a record: auth and credentials (Identity), plans, by *)
(* name a cost limit in points and a window (an amount, "" or anything     *)
(* else), requireWindow, dateFields, dateField, forbidden, validator, model*)
(* (QueryCost), trusted (ClientAddress).  There is no clock: any call may  *)
(* fail or time out.                                                       *)
(***************************************************************************)
EXTENDS QueryCost, DateMath, Identity, ClientAddress

CONSTANTS
    Configs,       \* configurations in force
    Requests,      \* [text, scheme, key, body, origin]
    Replies,       \* what _validate/query may answer, see Valid
    Read(_),       \* what the parser makes of a text: Got or SyntaxError
    Write(_),      \* the text of an AST
    DefaultLimit,  \* cost limit of a plan that is not listed
    DefaultWindow, \* window of a plan without one
    DefaultField   \* the date field injected when none is configured

VARIABLES
    config,     \* the configuration in force
    request,    \* what the client sent
    stage,      \* where its handler is
    plan,       \* the plan the rules see
    used,       \* the AST that is scored
    report,     \* its cost and the features it shows
    sent,       \* the text that goes upstream and the window added to it
    answer,     \* what the client is told
    logged      \* the address in the access log

vars == <<config, request, stage, plan, used, report, sent, answer, logged>>

Allowed   == "allowed"
NoNode    == [kind |-> "none"]
NotSent   == [text |-> <<>>, window |-> NoNode, field |-> <<>>]
NotScored == [cost |-> 0, keys |-> {}]

TypeOK ==
    /\ stage \in {"arrived", "identified", "validating", "resolved", "admitted", "sent", "answered", "logged"}
    /\ used.kind \in {"none", "term", "phrase", "range", "group", "boolean", "clause"}
    /\ report.cost \in Nat
    /\ answer \in {"none", "unauthorised", "invalid_query", "denied", "passed_through", "bad_gateway"}
    /\ answer # "none" <=> stage \in {"answered", "logged"}

Init ==
    /\ config \in Configs
    /\ request \in Requests
    /\ stage = "arrived"
    /\ plan = ""
    /\ used = NoNode
    /\ report = NotScored
    /\ sent = NotSent
    /\ answer = "none"
    /\ logged = None

Goto(s)   == stage' = s /\ UNCHANGED answer

BrokenFinish(a) == stage' = "answered" /\ UNCHANGED answer

Finish(a) == stage' = "answered" /\ answer' = a

-----------------------------------------------------------------------------
\* Validate's reading of a reply: it came, with status 200 and JSON, no shard
\* failed for a reason, no explanation is invalid and the whole is valid.
Valid(reply) ==
    /\ reply.decoded
    /\ ~ reply.shardFailed
    /\ \A i \in DOMAIN reply.explanations : reply.explanations[i].valid
    /\ reply.valid

\* The explanations of all indices, one after the other.
Explanation(reply) ==
    Spaced([i \in DOMAIN reply.explanations |-> reply.explanations[i].text])

\* validate.NoOp.
Unvalidated ==
    [decoded |-> TRUE, shardFailed |-> FALSE, explanations |-> <<>>, valid |-> TRUE]

\* A request is what net/http hands over, with an address for its peer.
ASSUME RequestsAssumption ==
    \A rq \in Requests :
        /\ rq = [text |-> rq.text, scheme |-> rq.scheme, key |-> rq.key, body |-> rq.body,
                 origin |-> rq.origin]
        /\ IsOrigin(rq.origin)

\* The parser returns trees at hand.
ASSUME ReadAssumption ==
    \A text \in {rq.text : rq \in Requests} \cup {Explanation(reply) : reply \in Replies \cup {Unvalidated}} :
        Read(text).ok \in BOOLEAN /\ (Read(text).ok => Read(text).node \in Nodes)

ASSUME ConfigsAssumption == \A c \in Configs : c.model \in Models

ASSUME DefaultWindowAssumption == DefaultWindow \in DOMAIN Amounts

\* resolveQuery after Validate: what the local parser read, own, or else the
\* explanation, if the parser reads that.
Resolved(own, explained, reply) ==
    IF ~ Valid(reply) THEN SyntaxError
    ELSE IF own.ok THEN own
    ELSE IF Explanation(reply) = <<>> THEN SyntaxError
    ELSE explained

\* FindWindow: the first range on a date field, or the first that does not parse.
FindIn(find, n, dateFields) ==
    CASE n.kind \in {"term", "phrase"} -> NoNode
      [] n.kind = "range"  -> IF Span(n).kind = "bad" THEN n ELSE NoNode
      [] n.kind = "clause" ->
            IF n.field \in dateFields /\ n.term.kind = "range" THEN n.term ELSE find[<<n.term, dateFields>>]
      [] n.kind = "group"  -> find[<<n.query, dateFields>>]
      [] n.kind = "boolean" ->
            LET hits == {i \in DOMAIN n.clauses : find[<<n.clauses[i], dateFields>>] # NoNode}
            IN  IF hits = {} THEN NoNode ELSE find[<<n.clauses[Min(hits)], dateFields>>]

FindWindow[at \in Nodes \X {c.dateFields : c \in Configs}] == FindIn(FindWindow, at[1], at[2])

CostLimit(c, p) == Point * (IF p \in DOMAIN c.plans THEN c.plans[p].limit ELSE DefaultLimit)

\* BuildEngine leaves a plan out whose window is no duration.
WindowLimit(c, p) ==
    Length(IF p \in DOMAIN c.plans /\ c.plans[p].window \in DOMAIN Amounts
           THEN c.plans[p].window
           ELSE DefaultWindow)

\* PlanWindow does not.
PlanWindow(c, p) ==
    IF p \in DOMAIN c.plans /\ c.plans[p].window # "" THEN c.plans[p].window ELSE DefaultWindow

\* QueryWindow.Evaluate.
WindowVerdict(c, p, n) ==
    LET window == FindWindow[<<n, c.dateFields>>]
        span   == Span(window)
    IN  IF window = NoNode
        THEN IF c.requireWindow THEN "no_window" ELSE Allowed
        ELSE IF span.kind = "bad" THEN "bad_date"
        ELSE IF span.kind = "open" THEN "open_window"
        ELSE IF span.length > WindowLimit(c, p) THEN "long_window"
        ELSE Allowed

BrokenVerdict(c, p, n, r) ==
    IF r.cost > CostLimit(c, p) THEN "cost"
    ELSE IF r.keys \cap c.forbidden # {} THEN "forbidden_feature"
    ELSE WindowVerdict(c, p, n)

\* Engine.Evaluate: the rules in the order BuildEngine lists them.
Verdict(c, p, n, r) ==
    IF r.keys \cap c.forbidden # {} THEN "forbidden_feature"
    ELSE IF r.cost > CostLimit(c, p) THEN "cost"
    ELSE WindowVerdict(c, p, n)

\* injectDefaultWindow: the range to add, if any.
WindowToAdd(c, p, n) ==
    IF c.requireWindow \/ FindWindow[<<n, c.dateFields>>] # NoNode
    THEN NoNode
    ELSE Interval(<<"now", "-", PlanWindow(c, p)>>, <<"now">>, TRUE)

DateField(c) == IF c.dateField = <<>> THEN DefaultField ELSE c.dateField

BrokenToSend(c, p, n) ==
    LET window == WindowToAdd(c, p, n)
    IN  IF window = NoNode THEN n
        ELSE Boolean(<<Clause("must", <<>>, n), Clause("must", DateField(c), window)>>)

\* The query that goes upstream: the AST, in a group beside the window.
ToSend(c, p, n) ==
    LET window == WindowToAdd(c, p, n)
    IN  IF window = NoNode THEN n
        ELSE Boolean(<<Clause("must", <<>>, Group(n)), Clause("must", DateField(c), window)>>)

-----------------------------------------------------------------------------
\* parseAndAuth: the body is read and the caller identified.
Identify ==
    /\ stage = "arrived"
    /\ \/ /\ ~ Authenticates(config, request)
          /\ Finish("unauthorised")
          /\ UNCHANGED plan
       \/ /\ Authenticates(config, request)
          /\ plan' = PlanFromContext(ContextOf(config, request))
          /\ Goto("identified")
    /\ UNCHANGED <<config, request, used, report, sent, logged>>

Readable(rq) == Read(rq.text).ok

\* resolveQuery returns an AST or an error.
Use(q) ==
    \/ /\ q.ok
       /\ used' = q.node
       /\ Goto("resolved")
    \/ /\ ~ q.ok
       /\ Finish("invalid_query")
       /\ UNCHANGED used

\* resolveQuery, when the local parser is enough.
Parsed ==
    /\ stage = "identified"
    /\ Readable(request)
    /\ config.validator # "elasticsearch"
    /\ Use(Read(request.text))
    /\ UNCHANGED <<config, request, plan, report, sent, logged>>

\* resolveQuery, when it is not.
AskValidator ==
    /\ stage = "identified"
    /\ ~ Readable(request) \/ config.validator = "elasticsearch"
    /\ Goto("validating")
    /\ UNCHANGED <<config, request, plan, used, report, sent, logged>>

\* Elasticsearch (or NoOp) says what it thinks of the query.
Validated ==
    /\ stage = "validating"
    /\ \E reply \in IF config.validator = "elasticsearch" THEN Replies ELSE {Unvalidated} :
          Use(Resolved(Read(request.text), Read(Explanation(reply)), reply))
    /\ UNCHANGED <<config, request, plan, report, sent, logged>>

\* evaluate: the query is priced and judged.
Judge ==
    /\ stage = "resolved"
    /\ report' = Estimate(used, config.model)
    /\ IF Verdict(config, plan, used, report') = Allowed THEN Goto("admitted") ELSE Finish("denied")
    /\ UNCHANGED <<config, request, plan, used, sent, logged>>

\* handleSearch sends the AST's text, not the client's.
Forward ==
    /\ stage = "admitted"
    /\ sent' = [text   |-> Write(ToSend(config, plan, used)),
                window |-> WindowToAdd(config, plan, used),
                field  |-> DateField(config)]
    /\ Goto("sent")
    /\ UNCHANGED <<config, request, plan, used, report, logged>>

\* Elasticsearch begins to answer and is passed through, to its end or not, or
\* client.Do fails or times out before.
Relay ==
    /\ stage = "sent"
    /\ \E a \in {"passed_through", "bad_gateway"} : Finish(a)
    /\ UNCHANGED <<config, request, plan, used, report, sent, logged>>

\* The middleware around it all writes the access log.
Log ==
    /\ stage = "answered"
    /\ logged' = LoggedIP(Sanitised(request.origin, config.trusted))
    /\ stage' = "logged"
    /\ UNCHANGED <<config, request, plan, used, report, sent, answer>>

Next == Identify \/ Parsed \/ AskValidator \/ Validated \/ Judge \/ Forward \/ Relay \/ Log

Finished == stage = "logged" /\ UNCHANGED vars

Spec == Init /\ [][Next \/ Finished]_vars
-----------------------------------------------------------------------------
Forwarded == sent # NotSent

\* The feature of a leaf that rules can forbid.
FeatureOf(l) ==
    IF l.leaf.kind = "term" /\ l.leaf.value = <<"*">> THEN "match_all"
    ELSE IF l.leaf.kind = "range" /\ l.leaf.low = <<"*">> /\ l.leaf.high = <<"*">> THEN "open_range"
    ELSE IF l.leaf.kind = "term" /\ l.leaf.value[1] \in Wild /\ ~ IsKeyword(l.field) THEN "leading_wildcard"
    ELSE "none"

\* The rules look for a feature among what a query is charged for.
Charged(l, m) == Estimated[<<l.leaf, m, l.field, 0>>].cost > 0

\* No forwarded query has a forbidden feature anywhere, however deep, optional
\* or negated ("rejects queries that contain forbidden patterns", rules.go),
\* but for one that costs nothing, and for leading wildcards on keyword fields,
\* which get a key of their own.
ForbiddenNowhere ==
    Forwarded =>
        \A l \in LeavesOf(used) :
            Charged(l, config.model) /\ FeatureOf(l) # "none" => FeatureOf(l) \notin config.forbidden

\* The walk over the clauses of a query (booleanCost) finds the cost they would
\* have in any order, except that a negated clause before a required one may go
\* unpaid: the order of clauses never makes a query dearer.
OrderNeverDearer ==
    report # NotScored =>
        LET orderless == Round(Orderless[<<used, config.model, NoField, 0>>])
        IN  /\ report.cost <= orderless
            /\ EarlyNegations[used] = {} => report.cost = orderless

\* A query sent without an added window has a range of its own on a date field
\* whose bounds, taken at their word but for a rounding suffix, are no further
\* apart than the plan's window and the fractions that truncation drops
\* (QueryWindow).  Amounts a time.Duration cannot hold are left out, and so is
\* the window that no difference can exceed.
OwnWindowShort ==
    (Forwarded /\ sent.window = NoNode /\ WindowLimit(config, plan) < Longest) =>
        \E l \in LeavesOf(used) :
            /\ l.leaf.kind = "range"
            /\ l.field \in config.dateFields
            /\ (Holds(l.leaf.low) /\ Holds(l.leaf.high)) =>
                  TrueAt(l.leaf.high) - TrueAt(l.leaf.low)
                      <= WindowLimit(config, plan) + Fraction(l.leaf.low) + Fraction(l.leaf.high)

\* "Auth values must override anything supplied in the request body"
\* (parseAndAuth): with authentication, the plan is the one the credential
\* alone gives, whatever context the body brings.
BodyNeverCounts ==
    (config.auth # "none" /\ stage \notin {"arrived", "answered", "logged"}) =>
        plan = PlanFromContext(ContextOf(config, [request EXCEPT !.body = <<>>]))

\* The log names the address that is also sent upstream, and that address is
\* vouched for: the peer's own, or one a trusted peer reports with nothing but
\* trusted proxies behind it ("the rightmost non-proxy address", README), as
\* long as nobody but proxies is named in a second X-Forwarded-For line.
LoggedAddressVouched ==
    (stage = "logged" /\ request.origin.peer # Unparsable
       /\ OneLineMatters(request.origin, config.trusted)) =>
        /\ Sanitised(request.origin, config.trusted).forwardedFor = << <<logged>> >>
        /\ Vouched(logged, request.origin, config.trusted)
=============================================================================
