------------------------------- MODULE GateMC -------------------------------
(* Configurations and requests chosen so that every rule denies something,  *)
(* every reload changes an answer and every handler branch is taken.        *)
EXTENDS Gate, TLC

CONSTANTS r1, r2, l1, k1, k2, free, pro, at, made

Plans(f, p) == (free :> [limit |-> 2, window |-> Days(f)]) @@ (pro :> [limit |-> 6, window |-> p])

\* Key k1 belongs to a free user; a missing window is injected.
Lenient ==
    [buildable |-> TRUE, auth |-> "keys", planOf |-> (k1 :> free) @@ (k2 :> pro),
     plans |-> Plans(7, Days(60)), requireWindow |-> FALSE, dateFields |-> {at, made},
     dateField |-> "", forbidden |-> {"match_all"}, validator |-> "none",
     price |-> ("match_all" :> 1) @@ ("leading_wildcard" :> 2) @@ ("open_range" :> 2),
     termCost |-> 1, rangeCost |-> 1, orClauseCost |-> 0]

\* k1 is gone, windows are required, Elasticsearch validates.
Strict ==
    [Lenient EXCEPT !.planOf = (k1 :> NoPlan) @@ (k2 :> pro), !.requireWindow = TRUE,
                    !.dateFields = {at}, !.validator = "elasticsearch", !.auth = "jwks",
                    !.termCost = 2, !.forbidden = {"match_all", "open_range"}]

\* No authentication; match_all is forbidden but costs nothing.
Open ==
    [Lenient EXCEPT !.auth = "none", !.dateField = made, !.price["match_all"] = 0, !.orClauseCost = 1,
                    !.plans = Plans(3, EmptyWindow)]

Unusable == [Lenient EXCEPT !.buildable = FALSE]

Closed(f, d) == [field |-> f, kind |-> "closed", days |-> d]

Plain(n)  == [parses |-> TRUE, terms |-> n, features |-> [f \in Features |-> 0], ranges |-> <<>>]
Dated     == [Plain(1) EXCEPT !.ranges = <<Closed(made, 5), Closed(at, 30)>>]
All       == [Plain(0) EXCEPT !.features["match_all"] = 1]
Unparsed  == [Plain(0) EXCEPT !.parses = FALSE]
OpenEnded == [Plain(1) EXCEPT !.ranges = <<[field |-> at, kind |-> "open", days |-> 0]>>]
Endless   == [Plain(0) EXCEPT !.ranges = <<[field |-> made, kind |-> "unbounded", days |-> 0]>>]
BadDate   == [Plain(1) EXCEPT !.ranges = <<[field |-> made, kind |-> "bad", days |-> 0]>>]

Search(q, k) ==
    [endpoint |-> "search", post |-> TRUE, body |-> "ok", query |-> q, cred |-> k,
     bodyPlan |-> NoPlan, builds |-> TRUE]

MCConfigs == {Lenient, Strict, Open, Unusable}

\* The queries, one for each outcome of the rules, and the refusals on the way.
MCInputs ==
    {Search(q, k1) : q \in {Plain(2), All, Unparsed}}
    \cup {Search(q, k2) : q \in {Plain(3), Plain(5), Dated, OpenEnded, Endless, BadDate}}
    \cup {[Search(Plain(1), k1) EXCEPT !.bodyPlan = pro],
          [Search(Plain(1), k2) EXCEPT !.builds = FALSE],
          [Search(Plain(3), k1) EXCEPT !.endpoint = "validate", !.bodyPlan = pro],
          [Search(Plain(1), k1) EXCEPT !.endpoint = "metrics"],
          [Search(Plain(1), k1) EXCEPT !.post = FALSE]}
    \cup {[Search(Plain(1), k1) EXCEPT !.body = b] : b \in BodyAnswers}

\* Two of them, to interleave two requests.
FewInputs ==
    {Search(Plain(2), k1), [Search(Unparsed, k2) EXCEPT !.endpoint = "validate"]}

FewConfigs == {Lenient, Strict}

MCExplanations == {Dated, Unparsed}

OneRequest  == {r1}
TwoRequests == {r1, r2}
MCLoaders   == {l1}

=============================================================================
