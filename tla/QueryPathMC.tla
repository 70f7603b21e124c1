----------------------------- MODULE QueryPathMC -----------------------------
(* Texts of up to three clauses joined in every way the parser tells apart, *)
(* date ranges of every kind, and texts the parser cuts in odd places; then *)
(* a few requests that differ in who asks and from where.                   *)
EXTENDS QueryPromises

sp == <<"space">>
Joins == {<<>>, sp, <<"space", "AND", "space">>, <<"space", "OR", "space">>, <<"space", "-">>,
          <<"space", "AND", "space", "NOT", "space">>, <<"space", "+">>}

InRange(f, lo, hi) == f \o <<":", "[">> \o lo \o <<"space", "TO", "space">> \o hi \o <<"]">>

at    == <<"at">>
now   == <<"now">>
Ago(a) == <<"now", "-", a>>
day   == InRange(at, Ago("1d"), now)

\* One clause each, or half of a group.
Pieces == {<<"a">>, <<"asn", ":", "b">>, <<"host", ":", "a">>, <<"url", ".keyword", ":", "*", "b">>, <<"host", ":", "*", "b">>,
           <<"*">>, <<"a", "*">>, <<"quote", "a", "space", ")", "quote">>, <<"(">>, <<")">>, day}

FewPieces == {<<"a">>, <<"asn", ":", "b">>, <<"b", ")">>, <<"(", "b">>}

\* Bounds and ranges.
Lows  == {Ago("1d"), Ago("1h"), Ago("9d"), Ago("1d") \o <<"/d">>, Ago("1d") \o <<"/y">>, Ago("1.5h"), Ago("600y"),
          Ago("2w") \o <<"/w">>, <<"2024", "-", "01">>, <<"*">>, now, <<"now", "+", "9d">>}
Highs == {now, <<"*">>, <<"now", "+", "1d">>, now \o <<"/d">>, <<"b">>}
Dated == {InRange(f, lo, hi) : f \in {at, <<"host">>}, lo \in Lows, hi \in Highs}

\* Escapes, letters that end in an odd byte, tabs and what does not print, words
\* that begin like operators, ranges that end early, brackets of two kinds,
\* hyphens.
Odd == {<<"a", "escape", ")">>, <<"*", "escape">>, <<"*", "space", "a", "escape">>, <<"quote", "escape", "quote", ")", "quote">>,
        <<"a", "odd">>, <<"quote", "a", "odd", "quote">>, <<"quote", "a", "tab", "b", "quote">>, <<"a", "tab", "OR", "tab", "b", "hidden">>,
        <<"quote", "a", "feed", "hidden", "quote">>, <<"a", "feed", "b">>, <<"a", "escape", "tab", "b">>, <<"a", "space", "OR", "ange">>, <<"a", "space", "OR", "space", "OR", "space", "b">>,
        <<"a", "space", "OR", "space", "OR", ":", "b">>, <<"a", "space", "AND", "space", "OR", ":", "(", "a", "space", "b", ")">>,
        <<"(", "NOT", ")", "space", "a">>, <<"NOT", "(", "a", ")">>, <<"cat", "-", "dog">>, <<"a", "~">>, <<"host", ":", "-", "5">>,
        <<"at", ":", "[", "b", "space", "TO">>, <<"at", ":", "[", "now", "TO", "space", "now", "]">>,
        <<"at", ":", "[", "now", "space", "TO", "space", "now", "}">>, <<"at", ":", "{", "now", "space", "TO", "now", "}">>,
        <<"at", ":", "(">> \o day \o <<")">>, <<":", "a">>, <<"space">>, <<"quote", "a">>, <<"a", "space", "AND">>,
        <<"(", ")">>, <<"-", "a", "space", "+", "asn", ":", "(", "a", "space", "b", "space", "-", "b", ")">>}

Texts ==
    {s \o x \o j \o y : s \in {<<>>, <<"NOT", "space">>, <<"(">>}, x \in Pieces, j \in Joins, y \in Pieces}
    \cup {x \o j \o y \o k \o z : x \in FewPieces, j \in Joins, y \in FewPieces, k \in Joins, z \in FewPieces}
    \cup Dated \cup {d \o sp \o e : d \in Dated, e \in {<<"host", ":", "a">>, day}} \cup Odd

-----------------------------------------------------------------------------
Amount(n, u) == [tenths |-> n, unit |-> u]
MCAmounts ==
    ("1d" :> Amount(10, "d")) @@ ("1h" :> Amount(10, "h")) @@ ("9d" :> Amount(90, "d")) @@ ("1.5h" :> Amount(15, "h"))
    @@ ("600y" :> Amount(6000, "y")) @@ ("2w" :> Amount(20, "w"))
MCCalendar == <<"2024", "-", "01">> :> (- 2000)

User(p)  == "user" :> {p}
Model == [term |-> 1, phrase |-> 2, wildcard |-> 4, leading |-> 6, matchAll |-> 20, range |-> 2, openRange |-> 9,
          orClause |-> 1, depth |-> 1, keywordWildcard |-> 3, noField |-> 2, weights |-> <<"asn">> :> 5, unlisted |-> 10]

Lenient ==
    [auth |-> "none", credentials |-> <<>>, requireWindow |-> FALSE, dateFields |-> {at}, dateField |-> <<>>,
     plans |-> ("free" :> [limit |-> 12, window |-> "1d"]) @@ ("pro" :> [limit |-> 60, window |-> "9d"])
               @@ ("odd" :> [limit |-> 60, window |-> "soon"]) @@ ("bare" :> [limit |-> 60, window |-> ""]) @@ ("hour" :> [limit |-> 60, window |-> "1h"]),
     forbidden |-> {"match_all"}, validator |-> "none", model |-> Model, trusted |-> {"proxy"}]

Strict ==
    [Lenient EXCEPT !.auth = "keys", !.requireWindow = TRUE, !.validator = "elasticsearch",
                    !.credentials = "k" :> [plan |-> "pro", extra |-> <<>>], !.dateFields = {at, <<"host">>},
                    !.forbidden = {"match_all", "open_range", "leading_wildcard"}]

Tokens ==
    [Lenient EXCEPT !.auth = "jwt", !.dateField = <<"made">>, !.forbidden = {"open_range"},
                    !.model.openRange = 0, !.model.noField = 1, !.model.unlisted = 15,
                    !.credentials = ("k" :> [plan |-> "bare", extra |-> "team" :> {"red"}])
                                    @@ ("t" :> [plan |-> "free", extra |-> User("odd")]) @@ ("u" :> [plan |-> "", extra |-> "user" :> {}])]

MCConfigs == {Lenient, Strict, Tokens}

Home == [peer |-> "client", forwardedFor |-> <<>>, realIP |-> None]
Ask(t) == [text |-> t, scheme |-> "apikey", key |-> "k", body |-> User("pro"), origin |-> Home]
Usual == Ask(<<"host", ":", "a">>)

Addresses == {"client", "proxy", "other", Unparsable}
Lines     == {<<>>} \cup {<< <<x, y>> >> : x, y \in Addresses} \cup {<< <<x>>, <<y>> >> : x, y \in Addresses}
Origins   == [peer : Addresses, forwardedFor : Lines, realIP : {None, Unparsable, "other", "proxy"}]

\* Unions of optional clauses that a cheap plan cannot pay for.
Dear == {<<"host", ":", "*">>, <<"host", ":", "*", "b", "space", "host", ":", "a">>, day \o sp \o <<"host", ":", "*", "b">>, <<"host", ":", "*", "b">>}

MCRequests ==
    {Ask(t) : t \in Texts}
    \cup {[Ask(day) EXCEPT !.text = InRange(at, lo, now), !.body = User("hour")] : lo \in {Ago("1h"), Ago("1.5h"), Ago("1d")}}
    \cup {[Ask(t) EXCEPT !.body = User("free")] : t \in Dear}
    \cup {[Usual EXCEPT !.scheme = s, !.key = k, !.body = b] :
             s \in {"apikey", "bearer", "none"}, k \in {"k", "t", "u", "no"},
             b \in {<<>>, User("pro"), User("free"), "user" :> {}, "team" :> {"red"}}}
    \cup {[Usual EXCEPT !.origin = o] : o \in Origins}

Says(t) == [decoded |-> TRUE, shardFailed |-> FALSE, valid |-> TRUE, explanations |-> <<[valid |-> TRUE, text |-> t]>>]
MCReplies ==
    {Says(<<"+", "host", ":", "a">>), Says(day \o sp \o <<"host", ":", "a">>), Says(<<"a", "odd">>),
     [Says(<<"*", "escape">>) EXCEPT !.explanations = @ \o @], [Says(<<"a">>) EXCEPT !.shardFailed = TRUE],
     [Says(<<"a">>) EXCEPT !.explanations = Append(@, [valid |-> FALSE, text |-> <<"b">>])],
     [Says(<<"a">>) EXCEPT !.explanations = <<>>], [Says(<<"a">>) EXCEPT !.valid = FALSE], [Says(<<"a">>) EXCEPT !.decoded = FALSE]}

-----------------------------------------------------------------------------
\* The trees of these texts.
RECURSIVE Subtrees(_), MCSize(_)
Subtrees(n) ==
    {n} \cup CASE n.kind = "group"   -> Subtrees(n.query)
               [] n.kind = "clause"  -> Subtrees(n.term)
               [] n.kind = "boolean" -> UNION {Subtrees(n.clauses[i]) : i \in DOMAIN n.clauses}
               [] OTHER              -> {}

MCSize(n) ==
    1 + CASE n.kind = "group"   -> MCSize(n.query)
          [] n.kind = "clause"  -> MCSize(n.term)
          [] n.kind = "boolean" -> FoldSeq(LAMBDA c, s : MCSize(c) + s, 0, n.clauses)
          [] OTHER              -> 0

Heard == {rq.text : rq \in MCRequests} \cup {Explanation(reply) : reply \in MCReplies}

Trees   == UNION {Subtrees(q.node) : q \in {p \in {Parse(t) : t \in Heard} : p.ok}}
MCNodes  == Trees
MCModels == {c.model : c \in MCConfigs}
=============================================================================
