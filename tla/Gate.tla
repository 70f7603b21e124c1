-------------------------------- MODULE Gate --------------------------------
(***************************************************************************)
(* The gate's request handlers (internal/proxy) running while the          *)
(* configuration is reloaded.                                              *)
(*                                                                         *)
(* Each request is a goroutine of net/http.  A handler loads Server.state  *)
(* up to three times: handleSearch keeps one snapshot for the injected     *)
(* window and the upstream client (snap.entry), parseAndAuth takes one     *)
(* before it reads the body (snap.parse), evaluate takes one for the       *)
(* validator, cost model and rules (snap.eval).  A reload may fall between *)
(* any two of them.  What runs between two loads, or between a load and a  *)
(* wait (body, validator, upstream), touches nothing shared but counters   *)
(* and is one action.                                                      *)
(***************************************************************************)
EXTENDS ConfigSwap, Policy, FiniteSets

CONSTANTS
    Requests,       \* identities of the requests of one behaviour
    Inputs,         \* what a request can carry, see RequestFields
    Explanations    \* normalised queries Elasticsearch may explain a query with

VARIABLES
    mounted,    \* generation whose authenticator Handler() captured, 0 before
    pc,         \* per request: where its goroutine is
    input,      \* per request: what the client sent
    since,      \* per request: the generation in force when it was accepted
    snap,       \* per request: the generations of its three snapshots, 0 before
    plan,       \* per request: the plan the rules see
    used,       \* per request: the query that was scored
    sent,       \* per request: the window added to what went upstream
    answer,     \* per request: what the client is told
    counts      \* the Prometheus counters and histogram counts

reqVars == <<mounted, pc, input, since, snap, plan, used, sent, answer, counts>>
vars == <<swapVars, reqVars>>

Counters == {"requests", "denials", "evals", "costs", "proxied"}

RequestPCs == {"new", "accepted", "entered", "reading", "authenticated",
               "validating", "resolved", "admitted", "upstream", "done"}

BodyAnswers == {"bad_body", "body_too_large", "invalid_json", "query_is_required"}

Answers == BodyAnswers \cup
           {"none", "method_not_allowed", "unauthorised", "invalid_query", "denied",
            "allowed", "bad_request", "internal_server_error", "passed_through",
            "bad_gateway", "metrics"}

\* A request before its client has sent anything, and a query not yet resolved.
NoInput == [endpoint |-> "none"]
NoQuery == [parses |-> FALSE]
NotSent == [field |-> "not_sent", window |-> EmptyWindow]

ASSUME GateAssumption ==
    /\ \A c \in Configs : c.auth \in {"none", "keys", "jwks"}
    /\ NoInput \notin Inputs

Queries == {in.query : in \in Inputs} \cup Explanations \cup {NoQuery}

\* What Policy says of a query that parses, and of windows.
ASSUME QueryAssumption ==
    /\ \A q \in Queries : q.parses =>
          /\ DOMAIN q.ranges \subseteq Nat
          /\ \A i \in DOMAIN q.ranges :
                /\ q.ranges[i].kind \in {"closed", "open", "unbounded", "bad"}
                /\ q.ranges[i].days \in Nat
    /\ DefaultWindow \in Nat
    /\ \A c \in Configs : \A p \in DOMAIN c.plans : c.plans[p].window.days \in Nat

ReqTypeOK ==
    /\ mounted \in Generations \cup {0}
    /\ pc \in [Requests -> RequestPCs]
    /\ input \in [Requests -> Inputs \cup {NoInput}]
    /\ since \in [Requests -> Generations \cup {0}]
    /\ snap \in [Requests -> [entry : Generations \cup {0},
                              parse : Generations \cup {0},
                              eval  : Generations \cup {0}]]
    /\ used \in [Requests -> Queries]
    /\ answer \in [Requests -> Answers]
    /\ counts \in [Counters -> Nat]
    /\ \A r \in Requests : /\ input[r] = NoInput => pc[r] = "new"
                           /\ answer[r] # "none" <=> pc[r] = "done"

TypeOK == SwapTypeOK /\ ReqTypeOK

Init ==
    /\ SwapInit
    /\ mounted = 0
    /\ pc = [r \in Requests |-> "new"]
    /\ input = [r \in Requests |-> NoInput]
    /\ since = [r \in Requests |-> 0]
    /\ snap = [r \in Requests |-> [entry |-> 0, parse |-> 0, eval |-> 0]]
    /\ plan = [r \in Requests |-> NoPlan]
    /\ used = [r \in Requests |-> NoQuery]
    /\ sent = [r \in Requests |-> NotSent]
    /\ answer = [r \in Requests |-> "none"]
    /\ counts = [k \in Counters |-> 0]

-----------------------------------------------------------------------------
\* Request r moves on to p.
Goto(r, p) == pc' = [pc EXCEPT ![r] = p] /\ UNCHANGED answer

BrokenFinish(r, a) == UNCHANGED pc /\ answer' = [answer EXCEPT ![r] = a]

\* An error or a response is written and the handler returns.
Finish(r, a) == /\ pc' = [pc EXCEPT ![r] = "done"]
                /\ answer' = [answer EXCEPT ![r] = a]

Count(ks) == counts' = [k \in Counters |-> IF k \in ks THEN counts[k] + 1 ELSE counts[k]]

\* The configurations behind the snapshots of r.
EntryConfig(r) == installed[snap[r].entry]

BrokenParseConfig(r) == installed[mounted]

ParseConfig(r) == installed[snap[r].parse]
EvalConfig(r)  == installed[snap[r].eval]

-----------------------------------------------------------------------------
\* main calls Handler(): the metrics endpoint keeps the authenticator of now.
Mount ==
    /\ phase = "serving"
    /\ mounted = 0
    /\ mounted' = Current
    /\ UNCHANGED <<pc, input, since, snap, plan, used, sent, answer, counts>>

\* net/http reads a request's header and starts its handler.
Accept(r, in) ==
    /\ phase = "serving"
    /\ mounted # 0
    /\ pc[r] = "new"
    /\ input' = [input EXCEPT ![r] = in]
    /\ since' = [since EXCEPT ![r] = Current]
    /\ Goto(r, "accepted")
    /\ UNCHANGED <<mounted, snap, plan, used, sent, counts>>

\* requireAuth around the metrics handler.
Scrape(r) ==
    /\ pc[r] = "accepted"
    /\ input[r].endpoint = "metrics"
    /\ \E id \in Identities(installed[mounted], input[r]) :
          Finish(r, IF id = Refused THEN "unauthorised" ELSE "metrics")
    /\ UNCHANGED <<mounted, input, since, snap, plan, used, sent, counts>>

\* handleSearch and handleValidate up to parseAndAuth.
Enter(r) ==
    /\ pc[r] = "accepted"
    /\ input[r].endpoint \in {"search", "validate"}
    /\ \/ /\ ~ input[r].post
          /\ Finish(r, "method_not_allowed")
          /\ UNCHANGED <<snap, counts>>
       \/ /\ input[r].post
          /\ Count({"requests"})
          /\ snap' = IF input[r].endpoint = "search"
                     THEN [snap EXCEPT ![r].entry = Current]
                     ELSE snap
          /\ Goto(r, "entered")
    /\ UNCHANGED <<mounted, input, since, plan, used, sent>>

BrokenSnapshot(r) == 1

\* The generation parseAndAuth and evaluate load: the one current now.
Snapshot(r) == Current

\* parseAndAuth loads the state, then starts to read the body.
LoadParse(r) ==
    /\ pc[r] = "entered"
    /\ snap' = [snap EXCEPT ![r].parse = Snapshot(r)]
    /\ Goto(r, "reading")
    /\ UNCHANGED <<mounted, input, since, plan, used, sent, counts>>

\* The body cannot be read, is too large, is not the JSON expected or names no query.
RejectBody(r) ==
    /\ pc[r] = "reading"
    /\ input[r].body \in BodyAnswers
    /\ Finish(r, input[r].body)
    /\ UNCHANGED <<mounted, input, since, snap, plan, used, sent, counts>>

\* The snapshot's authenticator, whatever happened to it meanwhile, identifies
\* the caller; the contexts are merged.
Authenticate(r) ==
    /\ pc[r] = "reading"
    /\ input[r].body = "ok"
    /\ \E id \in Identities(ParseConfig(r), input[r]) :
          \/ /\ id = Refused
             /\ Count({"denials"})
             /\ Finish(r, "unauthorised")
             /\ UNCHANGED plan
          \/ /\ id # Refused
             /\ plan' = [plan EXCEPT ![r] = id]
             /\ Goto(r, "authenticated")
             /\ UNCHANGED counts
    /\ UNCHANGED <<mounted, input, since, snap, used, sent>>

\* evaluate loads the state; resolveQuery needs the validator when it is
\* Elasticsearch or when the local parser failed.
BeginEvaluate(r) ==
    /\ pc[r] = "authenticated"
    /\ snap' = [snap EXCEPT ![r].eval = Snapshot(r)]
    /\ \/ /\ input[r].query.parses
          /\ installed[Snapshot(r)].validator # "elasticsearch"
          /\ used' = [used EXCEPT ![r] = input[r].query]
          /\ Goto(r, "resolved")
       \/ /\ \/ ~ input[r].query.parses
             \/ installed[Snapshot(r)].validator = "elasticsearch"
          /\ Goto(r, "validating")
          /\ UNCHANGED used
    /\ UNCHANGED <<mounted, input, since, plan, sent, counts>>

BrokenRejectQuery(r) ==
    /\ pc[r] = "validating"
    /\ EvalConfig(r).validator = "elasticsearch"
    /\ Count({"denials", "evals"})
    /\ Finish(r, "invalid_query")
    /\ UNCHANGED <<mounted, input, since, snap, plan, used, sent>>

\* The validator fails, times out or rejects the query, or accepts one that
\* neither the query nor its explanation lets the local parser score.
RejectQuery(r) ==
    /\ pc[r] = "validating"
    /\ Count({"denials", "evals"})
    /\ Finish(r, "invalid_query")
    /\ UNCHANGED <<mounted, input, since, snap, plan, used, sent>>

\* Elasticsearch accepts: the parsed query is scored, or else the explanation.
AcceptQuery(r) ==
    /\ pc[r] = "validating"
    /\ EvalConfig(r).validator = "elasticsearch"
    /\ \/ /\ input[r].query.parses
          /\ used' = [used EXCEPT ![r] = input[r].query]
       \/ /\ ~ input[r].query.parses
          /\ \E e \in Explanations : e.parses /\ used' = [used EXCEPT ![r] = e]
    /\ Goto(r, "resolved")
    /\ UNCHANGED <<mounted, input, since, snap, plan, sent, counts>>

\* evaluate prices the query and asks the engine; the handler answers, or
\* handleSearch goes on to forward.
Judge(r) ==
    /\ pc[r] = "resolved"
    /\ \/ /\ Evaluate(used[r], EvalConfig(r), plan[r]) # Allowed
          /\ Count({"evals", "costs", "denials"})
          /\ Finish(r, "denied")
       \/ /\ Evaluate(used[r], EvalConfig(r), plan[r]) = Allowed
          /\ Count({"evals", "costs"})
          /\ IF input[r].endpoint = "validate"
             THEN Finish(r, "allowed")
             ELSE Goto(r, "admitted")
    /\ UNCHANGED <<mounted, input, since, snap, plan, used, sent>>

\* handleSearch from injectDefaultWindow to client.Do, with the first snapshot:
\* the client's parameters do not make a search request, or its address does not
\* make a URL.
Forward(r) ==
    /\ pc[r] = "admitted"
    /\ \/ /\ ~ input[r].builds
          /\ \E a \in {"bad_request", "internal_server_error"} : Finish(r, a)
          /\ UNCHANGED sent
       \/ /\ input[r].builds
          /\ sent' = [sent EXCEPT ![r] = InjectedWindow(used[r], EntryConfig(r), plan[r])]
          /\ Goto(r, "upstream")
    /\ UNCHANGED <<mounted, input, since, snap, plan, used, counts>>

BrokenProxyCounters(a) == IF a = "passed_through" THEN {"proxied"} ELSE {}

\* What is observed of an upstream call: its duration, whether it failed or not.
ProxyCounters(a) == {"proxied"}

\* Elasticsearch answers, or the call fails or times out.
UpstreamReplies(r) ==
    /\ pc[r] = "upstream"
    /\ \E a \in {"passed_through", "bad_gateway"} :
          Count(ProxyCounters(a)) /\ Finish(r, a)
    /\ UNCHANGED <<mounted, input, since, snap, plan, used, sent>>

-----------------------------------------------------------------------------
\* The steps of a handler once its request is accepted.
Step(r) ==
    /\ Running
    /\ \/ Scrape(r) \/ Enter(r) \/ LoadParse(r) \/ RejectBody(r) \/ Authenticate(r)
       \/ BeginEvaluate(r) \/ RejectQuery(r) \/ AcceptQuery(r) \/ Judge(r)
       \/ Forward(r) \/ UpstreamReplies(r)

ReqNext ==
    \/ Mount
    \/ \E r \in Requests : Step(r) \/ \E in \in Inputs : Accept(r, in)

Next ==
    \/ SwapNext /\ UNCHANGED reqVars
    \/ ReqNext /\ UNCHANGED swapVars

Stopped == Exited /\ UNCHANGED reqVars

\* A handler never waits for ever: the server's ReadTimeout bounds the body,
\* the validator's client times out after 10s, the upstream client after
\* proxy_timeout, and the Go scheduler runs it otherwise.  No handler waits for
\* a reload, so the loaders owe nothing here.
Fairness == \A r \in Requests : WF_vars(Step(r) /\ UNCHANGED swapVars)

SafeSpec == Init /\ [][Next \/ Stopped]_vars
Spec == SafeSpec /\ Fairness

-----------------------------------------------------------------------------
(* What the gate promises.                                                 *)

Forwarded(r) == sent[r] # NotSent

\* What the configuration document says of a query, rule by rule and without
\* the engine's order: no priced forbidden feature, a cost within the limit,
\* and a walk over the ranges that meets a closed one no longer than the
\* plan's window before any that is bad or open, or meets none that counts.
Within(q, c, p) ==
    /\ \A f \in Raised(q) \cap c.forbidden : ~ (c.price[f] > 0)
    /\ ~ (Cost(q, c) > CostLimit(c, p))
    /\ \/ /\ ~ c.requireWindow
          /\ \A i \in DOMAIN q.ranges :
                q.ranges[i].kind # "bad" /\ q.ranges[i].field \notin c.dateFields
       \/ \E i \in DOMAIN q.ranges :
             /\ q.ranges[i].field \in c.dateFields
             /\ q.ranges[i].kind = "closed"
             /\ q.ranges[i].days <= WindowLimit(c, p)
             /\ \A j \in DOMAIN q.ranges :
                   j < i => q.ranges[j].kind # "bad" /\ q.ranges[j].field \notin c.dateFields

\* The plan p of a request carrying in comes, under c, from where the code says:
\* from the body without authentication, otherwise from a credential c knows
\* and never from the body ("auth values must override anything supplied in the
\* request body").  A token read through JWKS may have lost its plan on the way
\* (PlanIsRead of JwksAuth), and then it is the empty one.
Vouched(c, in, p) ==
    CASE c.auth = "none" -> p \in {in.bodyPlan, DefaultPlan}
      [] c.auth = "keys" -> p = c.planOf[in.cred] /\ p # NoPlan
      [] c.auth = "jwks" -> p \in {c.planOf[in.cred], EmptyPlan} /\ c.planOf[in.cred] # NoPlan

\* A query reaches Elasticsearch only if the snapshot parseAndAuth took vouches
\* for the caller's plan and the configuration evaluate loaded allows the query
\* to that plan, whatever was reloaded while the handler waited.
AdmissionSound ==
    \A r \in Requests : Forwarded(r) =>
        /\ Vouched(ParseConfig(r), input[r], plan[r])
        /\ used[r].parses
        /\ Within(used[r], EvalConfig(r), plan[r])

\* No handler works with a configuration older than the one in force when its
\* request was accepted, and the later of its snapshots is never the older one:
\* a reload that was complete before a request cannot be missed by it.
NoStaleSnapshot ==
    \A r \in Requests :
        /\ snap[r].parse # 0 => snap[r].parse >= since[r] /\ snap[r].parse >= snap[r].entry
        /\ snap[r].eval # 0 => snap[r].eval >= snap[r].parse

\* The configuration does not know the credential.
Refuses(c, in) == c.auth # "none" /\ c.planOf[in.cred] = NoPlan

\* Answers that tell the caller something of the index or of a policy.
Disclosing == {"invalid_query", "denied", "allowed", "bad_request", "internal_server_error",
               "passed_through", "bad_gateway"}

\* Every configuration that was in force between acceptance and now refuses
\* the credential of r.
RevokedThroughout(r) ==
    \A g \in since[r] .. Current :
        Refuses(installed[g], input[r])

\* A key a reload has taken away opens nothing to requests accepted after it
\* (the reload test expects 401 with the old key): such a request is neither
\* admitted nor told whether it would be.
RevokedStaysOut ==
    \A r \in Requests :
        (input[r] # NoInput /\ RevokedThroughout(r)) =>
            answer[r] \notin Disclosing

\* The settings of c that decide where a query of plan p gets its window from.
WindowPolicy(c, p) ==
    <<c.requireWindow, c.dateFields, WindowLimit(c, p), PlanWindow(c, p)>>

\* What goes upstream for r is confined, by its own first date range or by the
\* one added, to the window evaluate's configuration grants the plan.
Confined(r) ==
    \/ /\ sent[r].window.kind = "days"
       /\ sent[r].window.days <= WindowLimit(EvalConfig(r), plan[r])
    \/ \E i \in DOMAIN used[r].ranges :
          /\ used[r].ranges[i].field \in EvalConfig(r).dateFields
          /\ used[r].ranges[i].kind = "closed"
          /\ used[r].ranges[i].days <= WindowLimit(EvalConfig(r), plan[r])

\* While the window settings of the plan stay as they are, and its window text
\* is a duration, no query goes upstream without a window, even though the
\* rule and the injection decide it from two different snapshots.
ConfinedUnlessPolicyChanges ==
    \A r \in Requests :
        /\ Forwarded(r)
        /\ WindowPolicy(EntryConfig(r), plan[r]) = WindowPolicy(EvalConfig(r), plan[r])
        /\ PlanWindow(EvalConfig(r), plan[r]).kind = "days"
        => Confined(r)

\* README "Date windows": a query that does not constrain a date field itself is
\* rejected (require_window) or gets the plan window; it is never forwarded as
\* it is.
NeverWindowless ==
    \A r \in Requests :
        (Forwarded(r) /\ sent[r] = NoRange) =>
            \E i \in DOMAIN used[r].ranges :
                used[r].ranges[i].field \in EntryConfig(r).dateFields \cup EvalConfig(r).dateFields

\* README "Metrics" and "Hot reload": the metrics endpoint is protected by the
\* configured authenticator, which a reload replaces.
MetricsGuarded ==
    \A r \in Requests :
        answer[r] = "metrics" =>
            \E g \in since[r] .. Current : Identities(installed[g], input[r]) # {Refused}

\* The requests that were answered one of as.
Answered(as) == Cardinality({r \in Requests : answer[r] \in as})

\* The counters agree with what the clients were told: nobody is counted as
\* denied who was not, no denial, evaluation or upstream call is missed or
\* counted twice, however handlers and reloads interleave.
CountersAgree ==
    LET gated  == {r \in Requests : pc[r] \notin {"new", "accepted"}
                                    /\ input[r].endpoint # "metrics"}
        judged == {r \in Requests : pc[r] \in {"admitted", "upstream"}}
        scored == Cardinality(judged)
                  + Answered({"denied", "allowed", "bad_request", "internal_server_error",
                              "passed_through", "bad_gateway"})
    IN  /\ counts["requests"] = Cardinality(gated) - Answered({"method_not_allowed"})
        /\ counts["denials"] =
              Answered({"invalid_query", "denied"})
              + Cardinality({r \in gated : answer[r] = "unauthorised"})
        /\ counts["costs"] = scored
        /\ counts["evals"] = scored + Answered({"invalid_query"})
        /\ counts["proxied"] = Answered({"passed_through", "bad_gateway"})

Contract == INSTANCE GateContract WITH serving <- Running

\* The handlers, whatever snapshots they mix, implement the contract's safety:
\* an accepted request gets one answer, which configurations in force while it
\* was open justify.
AnswersJustified == Contract!SafeSpec

\* And all of the contract: every request is answered unless the process exits.
KeepsContract == Contract!Spec
=============================================================================
