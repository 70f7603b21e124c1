------------------------------ MODULE QueryText ------------------------------
(***************************************************************************)
(* The parser and its inverse in the path of a request: QueryPath with     *)
(* Parse for Read and String for Write, and what depends on the two.  The  *)
(* definitions here are recursive operators, which only the runs use.      *)
(***************************************************************************)
EXTENDS QueryPolicy, Lucene

\* What reading a text written by String gives back: a term that had to be
\* quoted has become a phrase.
RECURSIVE Reread(_)
Reread(n) ==
    CASE n.kind = "term" /\ ~ Wildcard(n.value) /\ NeedsQuote(n.value) -> Phrase(n.value)
      [] n.kind = "group"   -> Group(Reread(n.query))
      [] n.kind = "clause"  -> [n EXCEPT !.term = Reread(n.term)]
      [] n.kind = "boolean" -> Boolean([i \in DOMAIN n.clauses |-> Reread(n.clauses[i])])
      [] OTHER -> n

\* The fields an AST names.
RECURSIVE FieldsOf(_)
FieldsOf(n) ==
    CASE n.kind = "group"   -> FieldsOf(n.query)
      [] n.kind = "clause"  -> {n.field} \cup FieldsOf(n.term)
      [] n.kind = "boolean" -> UNION {FieldsOf(n.clauses[i]) : i \in DOMAIN n.clauses}
      [] OTHER -> {}

\* Texts String does not write back faithfully: inside quotes a backslash is
\* doubled and what does not print becomes a backslash and letters, and a word
\* or a field that reads as an operator becomes one when the OR between it and
\* the clause before is no longer written.
Delicate(n) ==
    \/ \E f \in FieldsOf(n) : f # <<>> /\ f[1] \in {"AND", "OR"}
    \/ \E l \in LeavesOf(n) :
           \/ l.leaf.kind # "range" /\ \E i \in DOMAIN l.leaf.value : l.leaf.value[i] \in DOMAIN Escape
           \/ l.leaf.kind = "term" /\ l.leaf.value[1] \in {"AND", "OR", "NOT"}

\* The query that was scored is the one that is sent (evaluate, astToString):
\* read again, the text that goes upstream is the AST that was priced and
\* judged, beside the added window.  Structure may not be lost in between:
\* grouping, signs, fields, bounds.
SentAsScored ==
    (Forwarded /\ ~ Delicate(used)) =>
        Parse(sent.text) = Got(Reread(ToSend(config, plan, used)), Len(sent.text) + 1)

\* The text reads as a required group and the required window, or not at all.
Joined(again, text, last) ==
    \/ /\ again.ok
       /\ again.node.kind = "boolean"
       /\ Len(again.node.clauses) = 2
       /\ again.node.clauses[1].occur = "must"
       /\ again.node.clauses[1].term.kind = "group"
       /\ again.node.clauses[2] = Clause("must", text.field, text.window)
    \/ ~ again.ok /\ last = "escape"

\* "User-supplied punctuation cannot break out of the injected date-window
\* clause" (injectDefaultWindow), delicate texts included: what is sent reads
\* as one required group beside the required window, or does not read at all
\* (a wildcard that ends in a backslash swallows the group's parenthesis).
WindowSurvives ==
    sent.window # NoNode => Joined(Parse(sent.text), sent, Last(String(used)))
=============================================================================
