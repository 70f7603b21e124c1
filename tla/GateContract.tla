---------------------------- MODULE GateContract ----------------------------
(***************************************************************************)
(* What a client of the gate may rely on while operators reload the        *)
(* configuration, with no word of handlers, snapshots or loaders: a request*)
(* is open from the moment it is accepted until it is answered, and the    *)
(* answer is one that configurations in force during that time justify.    *)
(* One configuration may say who asks and a later one what that plan is    *)
(* allowed: the contract does not promise that both come from the same.    *)
(* What a configuration says is given from outside (Policy, in Gate).      *)
(***************************************************************************)
EXTENDS Naturals, Sequences

CONSTANTS
    Configs, Requests, Inputs, Explanations, NoInput,
    Identities(_, _),   \* who may be asking, of a configuration and an input
    Refused,            \* nobody
    Evaluate(_, _, _),  \* the verdict on a query, of a configuration for a plan
    Allowed             \* the good one

VARIABLES
    installed,   \* configurations in force so far, the last one now
    input,       \* what each open or answered request carries
    since,       \* the configuration in force when it was accepted
    answer,      \* what it was told, "none" while it is open
    serving      \* the process has not exited

vars == <<installed, input, since, answer, serving>>

Init ==
    /\ \E c \in Configs : installed = <<c>>
    /\ input = [r \in Requests |-> NoInput]
    /\ since = [r \in Requests |-> 0]
    /\ answer = [r \in Requests |-> "none"]
    /\ serving = TRUE

Install(c) ==
    /\ serving
    /\ installed' = Append(installed, c)
    /\ UNCHANGED <<input, since, answer, serving>>

Accept(r, in) ==
    /\ serving
    /\ input[r] = NoInput
    /\ input' = [input EXCEPT ![r] = in]
    /\ since' = [since EXCEPT ![r] = Len(installed)]
    /\ UNCHANGED <<installed, answer, serving>>

\* A plan that a configuration in force while r is open gives its caller
\* satisfies P with a configuration that was in force no earlier.
Judged(r, P(_, _)) ==
    \E g \in since[r] .. Len(installed) : \E h \in g .. Len(installed) :
        \E p \in Identities(installed[g], input[r]) : P(p, installed[h])

\* The query, or an explanation that stands for one that does not parse.
Scorable(r) == {q \in {input[r].query} \cup Explanations : q.parses}

\* An answer that depends on the configuration is justified by those in force.
Justified(r, a) ==
    LET refused(p, c)  == p = Refused
        admitted(p, c) == p # Refused /\ \E q \in Scorable(r) : Evaluate(q, c, p) = Allowed
        denied(p, c)   == p # Refused /\ \E q \in Scorable(r) : Evaluate(q, c, p) # Allowed
        invalid(p, c)  ==
            p # Refused /\ (c.validator = "elasticsearch" \/ ~ input[r].query.parses)
    IN  CASE a = "unauthorised"  -> Judged(r, refused)
          [] a = "denied"        -> Judged(r, denied)
          [] a = "invalid_query" -> Judged(r, invalid)
          [] a \in {"allowed", "passed_through", "bad_gateway", "bad_request",
                   "internal_server_error"} ->
                Judged(r, admitted)
          [] OTHER -> TRUE

\* Requests of the metrics endpoint are answered, that is all.
Reply(r, a) ==
    /\ serving
    /\ input[r] # NoInput
    /\ answer[r] = "none"
    /\ answer' = [answer EXCEPT ![r] = a]
    /\ input[r].endpoint = "metrics" \/ Justified(r, a)
    /\ UNCHANGED <<installed, input, since, serving>>

Exit ==
    /\ serving' = FALSE
    /\ UNCHANGED <<installed, input, since, answer>>

ReplyTo(r) == \E a \in {"method_not_allowed", "bad_body", "body_too_large", "invalid_json",
                        "query_is_required", "unauthorised", "invalid_query", "denied",
                        "allowed", "bad_request", "internal_server_error",
                        "passed_through", "bad_gateway", "metrics"} : Reply(r, a)

Next ==
    \/ \E c \in Configs : Install(c)
    \/ \E r \in Requests : ReplyTo(r) \/ \E in \in Inputs : Accept(r, in)
    \/ Exit

SafeSpec == Init /\ [][Next]_vars

\* Every accepted request is answered unless the process exits.
Spec == SafeSpec /\ \A r \in Requests : WF_vars(ReplyTo(r))
=============================================================================
