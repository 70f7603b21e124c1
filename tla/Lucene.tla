------------------------------- MODULE Lucene -------------------------------
(***************************************************************************)
(* internal/query: Parse, which reads a query text into an AST, and String,*)
(* which writes an AST as a query text again.                              *)
(*                                                                         *)
(* A text is a sequence of symbols.  Punctuation is itself, except "quote",*)
(* "escape" (a backslash) and "space"; every other symbol is a run of      *)
(* characters the parser never has to cut.  AND, OR, NOT and TO stand for  *)
(* those letters in either case, wherever they are followed by a cut, so   *)
(* <<"OR", "ange">> is one word.  "tab" is a tab or a line break, which    *)
(* skipSpace skips like a space; "feed" a white space it does not skip (a  *)
(* form feed); "odd" a byte that unicode.IsSpace holds for in the middle of*)
(* a letter (0x85 and 0xA0, the last bytes of many: the parser reads bytes *)
(* as runes); "hidden" any other character that strconv.Quote does not     *)
(* print (a zero width space).  "~" stands for the punctuation that belongs*)
(* to a word but has to be quoted.                                         *)
(*                                                                         *)
(* A definition named Broken... is a wrong variant of the one that follows *)
(* it, which the properties must reject.                                   *)
(***************************************************************************)
EXTENDS Query

Special == {"(", ")", "[", "]", "{", "}", "quote", ":", "+", "-"}
Skipped == {"space", "tab"}
WordEnd == Special \cup White \cup {"odd"}

-----------------------------------------------------------------------------
(* Parse.                                                                  *)

\* peek: the symbol at position i.
At(t, i) == IF i \in DOMAIN t THEN t[i] ELSE "eof"

\* The first position from i on that holds a symbol of S, or the end.
Find(t, i, S) == Min({j \in i .. Len(t) + 1 : At(t, j) \in S \cup {"eof"}})

SkipSpace(t, i) == Min({j \in i .. Len(t) + 1 : At(t, j) \notin Skipped})

\* The symbol at j belongs to the backslash before it, in a token begun at i.
RECURSIVE Escaped(_, _, _)
Escaped(t, i, j) == j > i /\ t[j - 1] = "escape" /\ ~ Escaped(t, i, j - 1)

FindBare(t, i, S) ==
    Min({j \in i .. Len(t) + 1 : At(t, j) = "eof" \/ (At(t, j) \in S /\ ~ Escaped(t, i, j))})

\* parsePhrase: the value keeps its backslashes.
ParsePhrase(t, i) ==
    LET close == FindBare(t, i + 1, {"quote"})
    IN  IF At(t, close) = "eof" THEN SyntaxError
        ELSE Got(Phrase(SubSeq(t, i + 1, close - 1)), close + 1)

ParseWord(t, i) ==
    LET end == FindBare(t, i, WordEnd)
    IN  IF end = i THEN SyntaxError ELSE Got(Term(SubSeq(t, i, end - 1)), end)

\* parseRangeToken ends before a TO only when the text does.
RangeTokenEnd(t, i) ==
    Min({j \in i .. Len(t) + 1 :
            \/ At(t, j) \in White \cup {"eof", "odd", "]", "}"}
            \/ At(t, j) = "TO" /\ j = Len(t)})

ParseRange(t, i) ==
    LET lo    == SkipSpace(t, i + 1)
        loEnd == RangeTokenEnd(t, lo)
        to    == SkipSpace(t, loEnd)
        hi    == SkipSpace(t, to + 1)
        hiEnd == RangeTokenEnd(t, hi)
        close == SkipSpace(t, hiEnd)
    IN  IF loEnd = lo \/ At(t, to) # "TO" \/ hiEnd = hi
           \/ At(t, close) # (IF t[i] = "[" THEN "]" ELSE "}")
        THEN SyntaxError
        ELSE Got(Interval(SubSeq(t, lo, loEnd - 1), SubSeq(t, hi, hiEnd - 1), t[i] = "["), close + 1)

\* A clause's occur and where its field begins.  NOT needs a blank behind it.
Occurrence(t, i) ==
    CASE At(t, i) = "+" -> <<"must", i + 1>>
      [] At(t, i) = "-" -> <<"must_not", i + 1>>
      [] At(t, i) = "NOT" /\ At(t, i + 1) = "space" -> <<"must_not", SkipSpace(t, i + 1)>>
      [] OTHER -> <<"should", i>>

\* parseField: no backslash keeps a colon from ending a field.
ParseField(t, i) ==
    LET end == Find(t, i, WordEnd)
    IN  IF At(t, end) = ":" THEN <<SubSeq(t, i, end - 1), end + 1>> ELSE << <<>>, i>>

\* AND makes a must of the clause before it and of the one after, whatever they were.
And(read, c) ==
    (IF read = <<>> THEN <<>> ELSE Append(Front(read), [Last(read) EXCEPT !.occur = "must"]))
    \o <<[c EXCEPT !.occur = "must"]>>

\* A single clause without a field is its term: its occur is dropped.
Lone(cs) ==
    IF Len(cs) # 1 THEN Boolean(cs)
    ELSE IF cs[1].field = <<>> THEN cs[1].term ELSE cs[1]

RECURSIVE ParseTerm(_, _), ParseClauses(_, _, _, _)

\* parseGroup, when the boolean inside has been read.
Closed(t, q) ==
    IF ~ q.ok \/ At(t, q.next) # ")" THEN SyntaxError ELSE Got(Group(Lone(q.node)), q.next + 1)

ParseGroup(t, i) == Closed(t, ParseClauses(t, i + 1, <<>>, FALSE))

ParseTerm(t, i) ==
    CASE At(t, i) = "eof"         -> SyntaxError
      [] At(t, i) = "quote"       -> ParsePhrase(t, i)
      [] At(t, i) \in {"[", "{"}  -> ParseRange(t, i)
      [] At(t, i) = "("           -> ParseGroup(t, i)
      [] OTHER                    -> ParseWord(t, i)

Signed(occur, field, term) ==
    IF term.ok THEN Got(Clause(occur, field, term.node), term.next) ELSE SyntaxError

ParseClause(t, i) ==
    LET occur == Occurrence(t, i)
        field == ParseField(t, occur[2])
    IN  Signed(occur[1], field[1], ParseTerm(t, SkipSpace(t, field[2])))

\* The operator between two clauses is recognised wherever a clause ended, also
\* as the prefix of a word.
AfterClause(t, i, read) ==
    ParseClauses(t, IF At(t, i) \in {"AND", "OR"} THEN i + 1 ELSE i, read, At(t, i) = "AND")

AddedClause(t, read, must, c) ==
    IF c.ok
    THEN AfterClause(t, SkipSpace(t, c.next), IF must THEN And(read, c.node) ELSE Append(read, c.node))
    ELSE SyntaxError

\* parseBoolean's loop: what was read so far, and whether AND came last.
ParseClauses(t, i, read, must) ==
    LET start == SkipSpace(t, i)
    IN  IF At(t, start) \in {"eof", ")"}
        THEN Got(read, start)
        ELSE AddedClause(t, read, must, ParseClause(t, start))

\* The whole text is one boolean; nothing may be left, such as a ")".
Whole(t, q) ==
    IF ~ q.ok \/ At(t, q.next) # "eof" THEN SyntaxError ELSE Got(Lone(q.node), q.next)

Parse(t) == Whole(t, ParseClauses(t, 1, <<>>, FALSE))

-----------------------------------------------------------------------------
(* String.                                                                 *)

NeedsQuote(v) ==
    v = <<>> \/ \E i \in DOMAIN v : v[i] \in Special \cup White \cup {"escape", "~"}

\* What Quote writes behind a backslash: quotes and backslashes themselves, and
\* letters for what it does not print ("t" for a tab).
Escape == [quote |-> "quote", escape |-> "escape", tab |-> "t", feed |-> "f", hidden |-> "u200b"]

\* strconv.Quote: what is escaped already is escaped once more.
Quote(v) ==
    <<"quote">>
    \o FlattenSeq([i \in DOMAIN v |->
                      IF v[i] \in DOMAIN Escape THEN <<"escape", Escape[v[i]]>> ELSE <<v[i]>>])
    \o <<"quote">>

TermString(v) == IF Wildcard(v) \/ ~ NeedsQuote(v) THEN v ELSE Quote(v)

RangeString(n) ==
    (IF n.incl THEN <<"[">> ELSE <<"{">>) \o n.low \o <<"space", "TO", "space">> \o n.high
    \o (IF n.incl THEN <<"]">> ELSE <<"}">>)

Sign(occur) == [should |-> <<>>, must |-> <<"+">>, must_not |-> <<"-">>][occur]

BrokenParenthesised(text) == text

Parenthesised(text) == <<"(">> \o text \o <<")">>

RECURSIVE String(_)
String(n) ==
    CASE n.kind = "term"    -> TermString(n.value)
      [] n.kind = "phrase"  -> Quote(n.value)
      [] n.kind = "range"   -> RangeString(n)
      [] n.kind = "group"   -> Parenthesised(String(n.query))
      [] n.kind = "boolean" -> Spaced([i \in DOMAIN n.clauses |-> String(n.clauses[i])])
      [] n.kind = "clause"  ->
            Sign(n.occur) \o (IF n.field = <<>> THEN <<>> ELSE n.field \o <<":">>) \o String(n.term)

=============================================================================
