---------------------------- MODULE ContractProofs ----------------------------
(***************************************************************************)
(* Proofs about Gate seen from outside, for any configurations, inputs,    *)
(* number of requests and of reloads.  Gate implements the safety of       *)
(* GateContract: a client who knows nothing of handlers and snapshots gets *)
(* one answer, which configurations in force while its request was open    *)
(* justify.  And the counters an operator reads agree with those answers.  *)
(***************************************************************************)
EXTENDS AdmissionProofs

\* What the answers of r will be justified by.
Answerable(r) ==
    /\ pc[r] = "new" => input[r] = NoInput
    /\ pc[r] \in Identified => plan[r] \in Identities(ParseConfig(r), input[r]) \ {Refused}
    /\ pc[r] = "validating" =>
          EvalConfig(r).validator = "elasticsearch" \/ ~ input[r].query.parses
    /\ pc[r] \in {"resolved", "admitted", "upstream"} =>
          used[r] \in {input[r].query} \cup Explanations

ContractInv == AdmissionInv /\ \A r \in Requests : Answerable(r)

-----------------------------------------------------------------------------
(* The invariant.                                                          *)

\* A request that keeps its data and its stage, or finishes, stays answerable.
LEMMA AnswerableKept ==
    ASSUME AdmissionInv, Remembers, NEW r \in Requests, Answerable(r), Keeps(r),
           pc'[r] \in {pc[r], "done"}
    PROVE  Answerable(r)'
<1>1. SnapOrder(r) /\ Progress(r)
      BY Holding
<1>2. /\ snap[r].parse \in Nat /\ snap[r].eval \in Nat /\ Current \in Nat
      /\ snap[r].parse <= Current /\ snap[r].eval <= Current
      BY <1>1, RequestTypes, SwapFacts DEF AdmissionInv, GateInv, SnapOrder
<1>3. /\ pc[r] \in Identified => ParseConfig(r)' = ParseConfig(r)
      /\ pc[r] = "validating" => EvalConfig(r)' = EvalConfig(r)
      BY <1>1, <1>2 DEF Progress, Remembers, Keeps, ParseConfig, EvalConfig
<1>4. QED
      BY <1>3 DEF Answerable, Keeps, Identified

\* Before any request is accepted.
LEMMA ContractInit == Init => ContractInv
<1> SUFFICES ASSUME Init PROVE ContractInv
    OBVIOUS
<1>1. \A r \in Requests : Answerable(r)
      BY DEF Init, Answerable, Identified
<1>2. QED
      BY <1>1, AdmissionInit DEF ContractInv

\* Up to authentication nothing is claimed of a request that was accepted.
LEMMA EarlyAnswerable ==
    ASSUME AdmissionInv, NEW r \in Requests,
           Enter(r) \/ LoadParse(r) \/ \E in \in Inputs : Accept(r, in)
    PROVE  Answerable(r)'
<1>1. pc'[r] \in {"accepted", "entered", "reading", "done"}
      BY Holding DEF Enter, LoadParse, Accept, Goto, Finish
<1>2. QED
      BY <1>1 DEF Answerable, Identified

\* The plan comes from what the snapshot's authenticator may answer.
LEMMA AuthenticateAnswerable ==
    ASSUME AdmissionInv, NEW r \in Requests, Authenticate(r), UNCHANGED swapVars
    PROVE  Answerable(r)'
<1>1. UNCHANGED <<input, snap, installed>>
      BY DEF Authenticate, swapVars
<1>2. CASE pc'[r] = "done"
      BY <1>2 DEF Answerable, Identified
<1>3. CASE pc'[r] # "done"
   <2>1. PICK id \in Identities(ParseConfig(r), input[r]) :
            id # Refused /\ plan' = [plan EXCEPT ![r] = id] /\ Goto(r, "authenticated")
         BY <1>3, Holding DEF Authenticate, Finish
   <2>2. pc'[r] = "authenticated" /\ plan'[r] = id
         BY <2>1, Holding DEF Goto
   <2>3. QED
         BY <1>1, <2>1, <2>2 DEF Answerable, ParseConfig
<1>4. QED
      BY <1>2, <1>3

\* evaluate asks the validator only if it must.
LEMMA BeginEvaluateAnswerable ==
    ASSUME AdmissionInv, NEW r \in Requests, Answerable(r), BeginEvaluate(r), UNCHANGED swapVars
    PROVE  Answerable(r)'
<1>1. pc[r] = "authenticated" /\ UNCHANGED <<input, plan, installed>>
      BY DEF BeginEvaluate, swapVars
<1>2. snap' = [snap EXCEPT ![r].eval = Current]
      BY DEF BeginEvaluate, Snapshot
<1>3. snap'[r].eval = Current /\ snap'[r].parse = snap[r].parse
      BY <1>2, Holding
<1>4. \/ pc'[r] = "resolved" /\ used'[r] = input[r].query
      \/ /\ pc'[r] = "validating"
         /\ ~ input[r].query.parses \/ installed[Current].validator = "elasticsearch"
      BY Holding DEF BeginEvaluate, Goto, Snapshot
<1>5. plan'[r] \in Identities(ParseConfig(r)', input'[r]) \ {Refused}
      BY <1>1, <1>3 DEF Answerable, Identified, ParseConfig
<1>6. pc'[r] = "validating" => EvalConfig(r)'.validator = "elasticsearch" \/ ~ input'[r].query.parses
      BY <1>1, <1>3, <1>4 DEF EvalConfig
<1>7. QED
      BY <1>1, <1>4, <1>5, <1>6 DEF Answerable

\* The later stages keep the plan, and score the query or an explanation of it.
LEMMA LaterAnswerable ==
    ASSUME AdmissionInv, NEW r \in Requests, Answerable(r), UNCHANGED swapVars,
           AcceptQuery(r) \/ Judge(r) \/ Forward(r)
    PROVE  Answerable(r)'
<1>1. /\ UNCHANGED <<input, snap, plan, installed>>
      /\ pc[r] \in {"validating", "resolved", "admitted"}
      BY DEF AcceptQuery, Judge, Forward, swapVars
<1>2. pc'[r] \in {"resolved", "admitted", "upstream", "done"}
      BY Holding DEF AcceptQuery, Judge, Forward, Goto, Finish
<1>3. pc'[r] # "done" => used'[r] \in {input[r].query} \cup Explanations
   <2>1. CASE AcceptQuery(r)
         BY <2>1, Holding DEF AcceptQuery
   <2>2. CASE Judge(r) \/ Forward(r)
         BY <2>2 DEF Judge, Forward, Answerable
   <2>3. QED
         BY <2>1, <2>2
<1>4. plan'[r] \in Identities(ParseConfig(r)', input'[r]) \ {Refused}
      BY <1>1 DEF Answerable, Identified, ParseConfig
<1>5. QED
      BY <1>1, <1>2, <1>3, <1>4 DEF Answerable

\* Every step of the gate keeps the invariant.
LEMMA ContractStep == ContractInv /\ [Next \/ Stopped]_vars => ContractInv'
<1> SUFFICES ASSUME ContractInv, [Next \/ Stopped]_vars PROVE ContractInv'
    OBVIOUS
<1>1. AdmissionInv' /\ AdmissionInv /\ \A r \in Requests : Answerable(r)
      BY AdmissionStep DEF ContractInv
<1>2. CASE SwapStep /\ UNCHANGED reqVars
   <2>1. Remembers
         BY <1>1, <1>2, StepGrows, SwapStepInv DEF AdmissionInv, GateInv, Grows, Remembers
   <2>2. \A r \in Requests : Keeps(r) /\ pc'[r] = pc[r]
         BY <1>2 DEF Keeps, reqVars
   <2>3. QED
         BY <1>1, <2>1, <2>2, AnswerableKept DEF ContractInv
<1>3. CASE Mount /\ UNCHANGED swapVars
   <2>1. Remembers /\ \A r \in Requests : Keeps(r) /\ pc'[r] = pc[r]
         BY <1>3 DEF Mount, swapVars, Remembers, Keeps
   <2>2. QED
         BY <1>1, <2>1, AnswerableKept DEF ContractInv
<1>4. ASSUME NEW r \in Requests, UNCHANGED swapVars, Step(r) \/ \E in \in Inputs : Accept(r, in)
      PROVE  ContractInv'
   <2>1. \A k \in Requests \ {r} : Keeps(k) /\ pc'[k] = pc[k]
         BY <1>1, <1>4, StepOfR
   <2>2. Remembers
         BY <1>4 DEF swapVars, Remembers
   <2>3. ASSUME Scrape(r) \/ RejectBody(r) \/ RejectQuery(r) \/ UpstreamReplies(r)
         PROVE  Answerable(r)'
      <3>1. pc'[r] = "done"
         <4>1. \E a : Finish(r, a)
               BY <2>3 DEF Scrape, RejectBody, RejectQuery, UpstreamReplies
         <4>2. QED
               BY <1>1, <4>1, Holding DEF Finish
      <3>2. QED
            BY <3>1 DEF Answerable, Identified
   <2>4. Answerable(r)'
         BY <1>1, <1>4, <2>3, EarlyAnswerable, AuthenticateAnswerable, BeginEvaluateAnswerable,
            LaterAnswerable DEF Step
   <2>5. QED
         BY <1>1, <2>1, <2>2, <2>4, AnswerableKept DEF ContractInv
<1>5. QED
      BY <1>2, <1>3, <1>4 DEF Next, ReqNext, SwapStep, Stopped, Exited, vars
\* ContractInv is an invariant of the gate.
LEMMA ContractInvariant == SafeSpec => []ContractInv
<1>1. Init => ContractInv
      BY ContractInit
<1>2. ContractInv /\ [Next \/ Stopped]_vars => ContractInv'
      BY ContractStep
<1>3. QED
      BY <1>1, <1>2, PTL DEF SafeSpec

-----------------------------------------------------------------------------
(* The mapping, step by step.                                              *)

\* What the contract calls judged: the plan comes from the parse snapshot and
\* the verdict from the last one, both in force since r was accepted.
LEMMA WhoWasAsked ==
    ASSUME ContractInv, NEW r \in Requests, pc[r] \in Identified
    PROVE  /\ snap[r].parse \in since[r] .. Len(installed)
           /\ plan[r] \in Identities(installed[snap[r].parse], input[r])
           /\ plan[r] # Refused
           /\ snap[r].eval # 0 => snap[r].eval \in snap[r].parse .. Len(installed)
<1>1. AdmissionInv /\ Answerable(r)
      BY DEF ContractInv
<1>2. SnapOrder(r) /\ snap[r].parse # 0
      BY <1>1, Holding DEF Progress
<1>3. /\ snap[r].parse \in Nat /\ snap[r].eval \in Nat /\ since[r] \in Nat /\ Len(installed) \in Nat
      BY <1>1, RequestTypes, SwapFacts DEF AdmissionInv, GateInv, Current
<1>4. QED
      BY <1>1, <1>2, <1>3 DEF SnapOrder, Answerable, ParseConfig, Current

\* A refusal of parseAndAuth.
LEMMA UnauthorisedJustified ==
    ASSUME ContractInv, NEW r \in Requests, pc[r] = "reading",
           Refused \in Identities(ParseConfig(r), input[r])
    PROVE  Contract!Justified(r, "unauthorised")
<1> DEFINE g == snap[r].parse
<1>1. SnapOrder(r)
      BY Holding DEF ContractInv
<1>2. g \in Nat /\ since[r] \in Nat /\ Len(installed) \in Nat
      BY RequestTypes, SwapFacts DEF ContractInv, AdmissionInv, GateInv, Current
<1>3. g \in since[r] .. Len(installed) /\ g \in g .. Len(installed)
      BY <1>1, <1>2 DEF SnapOrder, Current
<1>4. Refused \in Identities(installed[g], input[r])
      BY DEF ParseConfig
<1> HIDE DEF g
<1>5. QED
      BY <1>3, <1>4 DEF Contract!Justified, Contract!Judged
\* A query the validator does not take.
LEMMA InvalidJustified ==
    ASSUME ContractInv, NEW r \in Requests, pc[r] = "validating"
    PROVE  Contract!Justified(r, "invalid_query")
<1> DEFINE g == snap[r].parse
           h == snap[r].eval
<1>1. g \in since[r] .. Len(installed) /\ plan[r] \in Identities(installed[g], input[r]) /\ plan[r] # Refused
      BY WhoWasAsked DEF Identified
<1>2. h \in g .. Len(installed)
      BY WhoWasAsked, Holding DEF Identified, Progress, ContractInv
<1>3. installed[h].validator = "elasticsearch" \/ ~ input[r].query.parses
      BY DEF ContractInv, Answerable, EvalConfig
<1> HIDE DEF g, h
<1>4. QED
      BY <1>1, <1>2, <1>3 DEF Contract!Justified, Contract!Judged

\* A verdict of the rules, and what follows from a good one.
LEMMA VerdictJustified ==
    ASSUME ContractInv, NEW r \in Requests, pc[r] \in {"resolved", "admitted", "upstream"},
           NEW a,
           \/ /\ a = "denied"
              /\ Evaluate(used[r], EvalConfig(r), plan[r]) # Allowed
           \/ /\ a \in {"allowed", "passed_through", "bad_gateway", "bad_request", "internal_server_error"}
              /\ Evaluate(used[r], EvalConfig(r), plan[r]) = Allowed
    PROVE  Contract!Justified(r, a)
<1> DEFINE g == snap[r].parse
           h == snap[r].eval
<1>1. g \in since[r] .. Len(installed) /\ plan[r] \in Identities(installed[g], input[r]) /\ plan[r] # Refused
      BY WhoWasAsked DEF Identified
<1>2. h \in g .. Len(installed)
      BY WhoWasAsked, Holding DEF Identified, Progress, ContractInv
<1>3. used[r] \in Contract!Scorable(r)
      BY Holding DEF ContractInv, Answerable, Progress, Contract!Scorable
<1>4. EvalConfig(r) = installed[h]
      BY DEF EvalConfig
<1> HIDE DEF g, h
<1>5. CASE a = "denied"
      BY <1>1, <1>2, <1>3, <1>4, <1>5 DEF Contract!Justified, Contract!Judged
<1>6. CASE a \in {"allowed", "passed_through", "bad_gateway", "bad_request", "internal_server_error"}
      BY <1>1, <1>2, <1>3, <1>4, <1>6 DEF Contract!Justified, Contract!Judged
<1>7. QED
      BY <1>5, <1>6

\* Whoever finishes a request that is open, with an answer that is justified or
\* that says nothing, replies.
LEMMA FinishReplies ==
    ASSUME ContractInv, NEW r \in Requests, Running, UNCHANGED swapVars, UNCHANGED <<input, since>>,
           pc[r] \notin {"new", "done"}, NEW a \in Answers \ {"none"}, Finish(r, a),
           input[r].endpoint = "metrics" \/ Contract!Justified(r, a)
    PROVE  Contract!Next
<1>1. input[r] # NoInput /\ answer[r] = "none"
   <2>1. pc[r] # "done" /\ (answer[r] # "none" <=> pc[r] = "done")
         BY DEF ContractInv, AdmissionInv, GateInv, ReqInv, ReqTypeOK
   <2>2. input[r] \in Inputs
         BY Holding DEF ContractInv
   <2>3. QED
         BY <2>1, <2>2, GateAssumption
<1>2. answer' = [answer EXCEPT ![r] = a] /\ UNCHANGED <<installed, input, since, Running>>
      BY DEF Finish, swapVars, Running
<1>3. Contract!Reply(r, a)
      BY <1>1, <1>2 DEF Contract!Reply
<1>4. Contract!ReplyTo(r)
      BY <1>3 DEF Contract!ReplyTo, Answers, BodyAnswers
<1>5. QED
      BY <1>4 DEF Contract!Next

\* A handler's step replies, or is none of the client's business.
LEMMA StepReplies ==
    ASSUME ContractInv, NEW r \in Requests, Step(r), UNCHANGED swapVars
    PROVE  Contract!Next \/ UNCHANGED Contract!vars
<1>1. Running /\ Running' = Running /\ installed' = installed
      BY DEF Step, swapVars, Running
<1>2. UNCHANGED <<input, since>>
      BY DEF Step, Scrape, Enter, LoadParse, RejectBody, Authenticate, BeginEvaluate, RejectQuery,
             AcceptQuery, Judge, Forward, UpstreamReplies
<1>3. ASSUME NEW p, Goto(r, p) PROVE UNCHANGED Contract!vars
      BY <1>1, <1>2, <1>3 DEF Goto, Contract!vars
<1>4. ASSUME NEW a \in {"method_not_allowed", "metrics"} \cup BodyAnswers
      PROVE  Contract!Justified(r, a)
      BY DEF Contract!Justified, BodyAnswers
<1>5. ASSUME NEW a \in Answers \ {"none"}, Finish(r, a), pc[r] \notin {"new", "done"},
             input[r].endpoint = "metrics" \/ Contract!Justified(r, a)
      PROVE  Contract!Next
      BY <1>1, <1>2, <1>5, FinishReplies
<1>6. CASE Scrape(r)
   <2>1. PICK a \in {"unauthorised", "metrics"} : Finish(r, a)
         BY <1>6 DEF Scrape
   <2>2. QED
         BY <1>5, <1>6, <2>1 DEF Scrape, Answers
<1>7. CASE Enter(r)
      BY <1>3, <1>4, <1>5, <1>7 DEF Enter, Answers
<1>8. CASE LoadParse(r) \/ BeginEvaluate(r) \/ AcceptQuery(r)
      BY <1>3, <1>8 DEF LoadParse, BeginEvaluate, AcceptQuery
<1>9. CASE RejectBody(r)
      BY <1>4, <1>5, <1>9 DEF RejectBody, Answers, BodyAnswers
<1>10. CASE Authenticate(r)
      BY <1>3, <1>5, <1>10, UnauthorisedJustified DEF Authenticate, Answers
<1>11. CASE RejectQuery(r)
      BY <1>5, <1>11, InvalidJustified DEF RejectQuery, Answers
<1>12. CASE Judge(r)
   <2>1. pc[r] = "resolved"
         BY <1>12 DEF Judge
   <2>2. CASE Finish(r, "denied") /\ Evaluate(used[r], EvalConfig(r), plan[r]) # Allowed
         BY <1>5, <2>1, <2>2, VerdictJustified DEF Answers
   <2>3. CASE Finish(r, "allowed") /\ Evaluate(used[r], EvalConfig(r), plan[r]) = Allowed
         BY <1>5, <2>1, <2>3, VerdictJustified DEF Answers
   <2>4. QED
         BY <1>3, <1>12, <2>2, <2>3 DEF Judge
<1>13. CASE Forward(r) \/ UpstreamReplies(r)
   <2>1. pc[r] \in {"admitted", "upstream"} /\ Evaluate(used[r], EvalConfig(r), plan[r]) = Allowed
         BY <1>13, Holding DEF Forward, UpstreamReplies, Progress, ContractInv
   <2>2. ASSUME NEW a \in {"bad_request", "internal_server_error", "passed_through", "bad_gateway"}, Finish(r, a)
         PROVE  Contract!Next
         BY <1>5, <2>1, <2>2, VerdictJustified DEF Answers
   <2>3. QED
         BY <1>3, <1>13, <2>2 DEF Forward, UpstreamReplies
<1>14. QED
      BY <1>6, <1>7, <1>8, <1>9, <1>10, <1>11, <1>12, <1>13 DEF Step

\* A step of the configuration's life installs a configuration, ends the
\* process or is none of the client's business.
LEMMA SwapInstalls ==
    ASSUME ContractInv, SwapStep, UNCHANGED reqVars
    PROVE  Contract!Next \/ UNCHANGED Contract!vars
<1>1. UNCHANGED <<input, since, answer>>
      BY DEF reqVars
<1>2. ASSUME NEW l \in Loaders, StoreUpdate(l)
      PROVE  Contract!Next
   <2>1. loader[l].config \in Configs
      <3>1. loader[l] \in {Idle} \cup Updating /\ loader[l].pc = "updating"
            BY <1>2 DEF StoreUpdate, ContractInv, AdmissionInv, GateInv, SwapInv, SwapTypeOK
      <3>2. QED
            BY <3>1 DEF Idle, Updating
   <2>2. Contract!Install(loader[l].config)
         BY <1>1, <1>2 DEF StoreUpdate, Contract!Install, Running
   <2>3. QED
         BY <2>1, <2>2 DEF Contract!Next
<1>3. CASE CancelWatch \/ FailServe
   <2>1. Contract!Exit
         BY <1>1, <1>3 DEF CancelWatch, FailServe, Contract!Exit, Running
   <2>2. QED
         BY <2>1 DEF Contract!Next
<1>4. ASSUME \/ \E l \in Loaders : FailUpdate(l) \/ \E c \in Configs : BeginUpdate(l, c)
             \/ \E g \in Generations : CloseRetired(g)
             \/ Drain \/ CloseServer \/ UNCHANGED swapVars
      PROVE  UNCHANGED Contract!vars
   <2>1. installed' = installed /\ Running' = Running
         BY <1>4 DEF FailUpdate, BeginUpdate, CloseRetired, Drain, CloseServer, swapVars, Running
   <2>2. QED
         BY <1>1, <2>1 DEF Contract!vars
<1>5. QED
      BY <1>2, <1>3, <1>4 DEF SwapStep, SwapNext, Exited

\* A request is accepted.
LEMMA AcceptAccepts ==
    ASSUME ContractInv, NEW r \in Requests, NEW in \in Inputs, Accept(r, in), UNCHANGED swapVars
    PROVE  Contract!Next
<1>1. input[r] = NoInput /\ Running
      BY DEF Accept, ContractInv, Answerable, Running
<1>2. Contract!Accept(r, in)
      BY <1>1 DEF Accept, Goto, swapVars, Contract!Accept, Current, Running
<1>3. QED
      BY <1>2 DEF Contract!Next

\* The handlers implement the safety of the contract, however many requests and
\* reloads there are and whatever snapshots a handler mixes: every answer is
\* justified by configurations in force while its request was open, none is
\* given twice or to a request nobody sent.
THEOREM AnswersAreJustified == SafeSpec => AnswersJustified
<1>1. Init => Contract!Init
      BY DEF Init, SwapInit, Contract!Init, Running
<1>2. ContractInv /\ [Next \/ Stopped]_vars => [Contract!Next]_(Contract!vars)
   <2> SUFFICES ASSUME ContractInv, [Next \/ Stopped]_vars
                PROVE  Contract!Next \/ UNCHANGED Contract!vars
       OBVIOUS
   <2>1. CASE SwapStep /\ UNCHANGED reqVars
         BY <2>1, SwapInstalls
   <2>2. CASE Mount /\ UNCHANGED swapVars
         BY <2>2 DEF Mount, swapVars, Contract!vars, Running
   <2>3. ASSUME NEW r \in Requests, Step(r) \/ \E in \in Inputs : Accept(r, in), UNCHANGED swapVars
         PROVE  Contract!Next \/ UNCHANGED Contract!vars
         BY <2>3, StepReplies, AcceptAccepts
   <2>4. QED
         BY <2>1, <2>2, <2>3 DEF Next, ReqNext, SwapStep, Stopped, Exited, vars
<1>3. QED
      BY <1>1, <1>2, ContractInvariant, PTL DEF SafeSpec, AnswersJustified, Contract!SafeSpec
-----------------------------------------------------------------------------
(* The counters.                                                           *)

\* Whether counter k has been, and must have been, incremented for r.
Due(r, k) ==
    \/ /\ k = "requests"
       /\ pc[r] \notin {"new", "accepted"}
       /\ input[r].endpoint # "metrics"
       /\ answer[r] # "method_not_allowed"
    \/ /\ k = "denials"
       /\ \/ answer[r] \in {"invalid_query", "denied"}
          \/ answer[r] = "unauthorised" /\ input[r].endpoint # "metrics"
    \/ /\ k = "costs"
       /\ \/ pc[r] \in {"admitted", "upstream"}
          \/ answer[r] \in {"denied", "allowed", "bad_request", "internal_server_error",
                        "passed_through", "bad_gateway"}
    \/ /\ k = "evals"
       /\ \/ pc[r] \in {"admitted", "upstream"}
          \/ answer[r] \in {"invalid_query", "denied", "allowed", "bad_request", "internal_server_error",
                        "passed_through", "bad_gateway"}
    \/ /\ k = "proxied"
       /\ answer[r] \in {"passed_through", "bad_gateway"}

Charged(k) == {r \in Requests : Due(r, k)}

Accepted == {r \in Requests : pc[r] # "new"}

\* Only finitely many requests have been accepted, however many there may be,
\* and each counter is the number of requests that owe it an increment.
Tally ==
    /\ IsFiniteSet(Accepted)
    /\ \A k \in Counters : counts[k] = Cardinality(Charged(k))

\* The metrics endpoint does not look at the method.
MethodChecked ==
    \A r \in Requests : answer[r] = "method_not_allowed" => input[r].endpoint # "metrics"

CountInv == AdmissionInv /\ MethodChecked /\ Tally

\* Who owes an increment has been accepted.
LEMMA ChargedAreAccepted ==
    ASSUME ReqTypeOK, NEW k \in Counters
    PROVE  Charged(k) \subseteq Accepted
<1> SUFFICES ASSUME NEW r \in Requests, pc[r] = "new" PROVE ~ Due(r, k)
    BY DEF Charged, Accepted
<1>1. answer[r] = "none"
      BY DEF ReqTypeOK
<1>2. QED
      BY <1>1 DEF Due

\* A step that increments the counters of ks, moves r and leaves all other
\* requests alone keeps the tally if it makes r owe just these increments.
LEMMA ChargeOne ==
    ASSUME CountInv, ReqTypeOK', NEW r \in Requests, NEW ks \in SUBSET Counters,
           Count(ks), pc'[r] # "new",
           \A k \in Requests \ {r} : UNCHANGED <<pc[k], input[k], answer[k]>>,
           \A k \in Counters : Due(r, k)' <=> (Due(r, k) \/ k \in ks),
           \A k \in ks : ~ Due(r, k)
    PROVE  Tally'
<1>1. ReqTypeOK /\ Tally
      BY DEF CountInv, AdmissionInv, GateInv, ReqInv
<1>2. IsFiniteSet(Accepted')
   <2>1. Accepted' = Accepted \cup {r}
         BY DEF Accepted
   <2>2. QED
         BY <1>1, <2>1, FS_AddElement DEF Tally
<1>3. ASSUME NEW k \in Counters
      PROVE  counts'[k] = Cardinality(Charged(k)')
   <2>1. IsFiniteSet(Charged(k)) /\ counts[k] = Cardinality(Charged(k))
         BY <1>1, ChargedAreAccepted, FS_Subset DEF Tally
   <2>2. \A j \in Requests \ {r} : Due(j, k)' <=> Due(j, k)
         BY DEF Due
   <2>3. CASE k \in ks
      <3>1. Charged(k)' = Charged(k) \cup {r} /\ r \notin Charged(k)
            BY <2>2, <2>3 DEF Charged
      <3>2. counts'[k] = counts[k] + 1
            BY <2>3 DEF Count
      <3>3. Cardinality(Charged(k) \cup {r}) = Cardinality(Charged(k)) + 1
            BY <2>1, <3>1, FS_AddElement
      <3>4. QED
            BY <2>1, <3>1, <3>2, <3>3
   <2>4. CASE k \notin ks
      <3>1. Charged(k)' = Charged(k)
            BY <2>2, <2>4 DEF Charged
      <3>2. counts'[k] = counts[k]
            BY <2>4 DEF Count
      <3>3. QED
            BY <2>1, <3>1, <3>2
   <2>5. QED
         BY <2>3, <2>4
<1>4. QED
      BY <1>2, <1>3 DEF Tally

\* What a handler's step increments is what it makes r owe.
Settles(r, ks) ==
    /\ Count(ks)
    /\ \A k \in Counters : Due(r, k)' <=> (Due(r, k) \/ k \in ks)
    /\ \A k \in ks : ~ Due(r, k)

\* A handler that goes on to p, and one that ends with a.
LEMMA Moves ==
    ASSUME CountInv, NEW r \in Requests
    PROVE  /\ \A p : Goto(r, p) => pc'[r] = p /\ answer'[r] = answer[r]
           /\ \A a : Finish(r, a) => pc'[r] = "done" /\ answer'[r] = a
           /\ pc[r] # "done" => answer[r] = "none"
           /\ pc[r] \in {"entered", "reading"} \cup Identified => input[r].endpoint # "metrics"
           /\ Count({}) <=> UNCHANGED counts
<1>1. ReqTypeOK /\ EntryHeld(r)
      BY DEF CountInv, AdmissionInv, GateInv, ReqInv
<1>2. input[r].endpoint # "metrics" \/ pc[r] \notin {"entered", "reading"} \cup Identified
      BY <1>1 DEF EntryHeld
<1>3. Count({}) <=> UNCHANGED counts
      BY <1>1 DEF ReqTypeOK, Count
<1>4. QED
      BY <1>1, <1>2, <1>3 DEF ReqTypeOK, Goto, Finish

LEMMA EarlySettle ==
    ASSUME CountInv, NEW r \in Requests, UNCHANGED input,
           Scrape(r) \/ Enter(r) \/ LoadParse(r) \/ RejectBody(r)
    PROVE  \E ks \in SUBSET Counters : Settles(r, ks)
<1>1. CASE Scrape(r)
   <2>1. /\ pc[r] = "accepted" /\ answer[r] = "none" /\ input[r].endpoint = "metrics" /\ counts' = counts
         /\ pc'[r] = "done" /\ answer'[r] \in {"unauthorised", "metrics"}
         BY <1>1, Moves DEF Scrape
   <2>2. Settles(r, {})
         BY <2>1, Moves DEF Settles, Due
   <2>3. QED
         BY <2>2
<1>2. CASE Enter(r) /\ ~ input[r].post
   <2>1. /\ pc[r] = "accepted" /\ answer[r] = "none" /\ counts' = counts
         /\ pc'[r] = "done" /\ answer'[r] = "method_not_allowed"
         BY <1>2, Moves DEF Enter
   <2>2. Settles(r, {})
         BY <2>1, Moves DEF Settles, Due
   <2>3. QED
         BY <2>2
<1>3. CASE Enter(r) /\ input[r].post
   <2>1. /\ pc[r] = "accepted" /\ answer[r] = "none" /\ input[r].endpoint # "metrics"
         /\ Count({"requests"}) /\ pc'[r] = "entered" /\ answer'[r] = "none"
         BY <1>3, Moves DEF Enter
   <2>2. Settles(r, {"requests"})
         BY <2>1 DEF Settles, Due
   <2>3. QED
         BY <2>2 DEF Counters
<1>4. CASE LoadParse(r)
   <2>1. /\ pc[r] = "entered" /\ answer[r] = "none" /\ counts' = counts
         /\ pc'[r] = "reading" /\ answer'[r] = "none"
         BY <1>4, Moves DEF LoadParse
   <2>2. Settles(r, {})
         BY <2>1, Moves DEF Settles, Due
   <2>3. QED
         BY <2>2
<1>5. CASE RejectBody(r)
   <2>1. /\ pc[r] = "reading" /\ answer[r] = "none" /\ counts' = counts
         /\ pc'[r] = "done" /\ answer'[r] \in BodyAnswers
         BY <1>5, Moves DEF RejectBody
   <2>2. Settles(r, {})
         BY <2>1, Moves DEF Settles, Due, BodyAnswers
   <2>3. QED
         BY <2>2
<1>6. QED
      BY <1>1, <1>2, <1>3, <1>4, <1>5 DEF Enter

LEMMA JudgementSettles ==
    ASSUME CountInv, NEW r \in Requests, UNCHANGED input,
           Authenticate(r) \/ BeginEvaluate(r) \/ RejectQuery(r) \/ AcceptQuery(r) \/ Judge(r)
    PROVE  \E ks \in SUBSET Counters : Settles(r, ks)
<1>1. answer[r] = "none" /\ input[r].endpoint # "metrics"
      BY Moves DEF Authenticate, BeginEvaluate, RejectQuery, AcceptQuery, Judge, Identified
<1>2. CASE Authenticate(r)
   <2>1. pc[r] = "reading"
         BY <1>2 DEF Authenticate
   <2>2. CASE Count({"denials"}) /\ Finish(r, "unauthorised")
      <3>1. pc'[r] = "done" /\ answer'[r] = "unauthorised"
            BY <2>2, Moves
      <3>2. Settles(r, {"denials"})
            BY <1>1, <2>1, <2>2, <3>1 DEF Settles, Due
      <3>3. QED
            BY <3>2 DEF Counters
   <2>3. CASE Goto(r, "authenticated") /\ UNCHANGED counts
      <3>1. pc'[r] = "authenticated" /\ answer'[r] = "none"
            BY <1>1, <2>3, Moves
      <3>2. Settles(r, {})
            BY <1>1, <2>1, <2>3, <3>1, Moves DEF Settles, Due
      <3>3. QED
            BY <3>2
   <2>4. QED
         BY <1>2, <2>2, <2>3 DEF Authenticate
<1>3. CASE BeginEvaluate(r) \/ AcceptQuery(r)
   <2>1. pc[r] \in {"authenticated", "validating"} /\ counts' = counts
         BY <1>3 DEF BeginEvaluate, AcceptQuery
   <2>2. pc'[r] \in {"validating", "resolved"} /\ answer'[r] = "none"
         BY <1>1, <1>3, Moves DEF BeginEvaluate, AcceptQuery
   <2>3. Settles(r, {})
         BY <1>1, <2>1, <2>2, Moves DEF Settles, Due
   <2>4. QED
         BY <2>3
<1>4. CASE RejectQuery(r)
   <2>1. pc[r] = "validating" /\ pc'[r] = "done" /\ answer'[r] = "invalid_query" /\ Count({"denials", "evals"})
         BY <1>4, Moves DEF RejectQuery
   <2>2. Settles(r, {"denials", "evals"})
         BY <1>1, <2>1 DEF Settles, Due
   <2>3. QED
         BY <2>2 DEF Counters
<1>5. CASE Judge(r)
   <2>1. pc[r] = "resolved"
         BY <1>5 DEF Judge
   <2>2. CASE Count({"evals", "costs", "denials"}) /\ Finish(r, "denied")
      <3>1. pc'[r] = "done" /\ answer'[r] = "denied"
            BY <2>2, Moves
      <3>2. Settles(r, {"evals", "costs", "denials"})
            BY <1>1, <2>1, <2>2, <3>1 DEF Settles, Due
      <3>3. QED
            BY <3>2 DEF Counters
   <2>3. CASE Count({"evals", "costs"}) /\ (Finish(r, "allowed") \/ Goto(r, "admitted"))
      <3>1. \/ pc'[r] = "done" /\ answer'[r] = "allowed"
            \/ pc'[r] = "admitted" /\ answer'[r] = "none"
            BY <1>1, <2>3, Moves
      <3>2. Settles(r, {"evals", "costs"})
            BY <1>1, <2>1, <2>3, <3>1 DEF Settles, Due
      <3>3. QED
            BY <3>2 DEF Counters
   <2>4. QED
         BY <1>5, <2>2, <2>3 DEF Judge
<1>6. QED
      BY <1>2, <1>3, <1>4, <1>5

LEMMA ForwardSettles ==
    ASSUME CountInv, NEW r \in Requests, UNCHANGED input,
           Forward(r) \/ UpstreamReplies(r)
    PROVE  \E ks \in SUBSET Counters : Settles(r, ks)
<1>1. answer[r] = "none"
      BY Moves DEF Forward, UpstreamReplies
<1>2. CASE Forward(r)
   <2>1. pc[r] = "admitted" /\ counts' = counts
         BY <1>2 DEF Forward
   <2>2. \/ pc'[r] = "done" /\ answer'[r] \in {"bad_request", "internal_server_error"}
         \/ pc'[r] = "upstream" /\ answer'[r] = "none"
         BY <1>1, <1>2, Moves DEF Forward
   <2>3. Settles(r, {})
         BY <1>1, <2>1, <2>2, Moves DEF Settles, Due
   <2>4. QED
         BY <2>3
<1>3. CASE UpstreamReplies(r)
   <2>1. /\ pc[r] = "upstream" /\ pc'[r] = "done" /\ Count({"proxied"})
         /\ answer'[r] \in {"passed_through", "bad_gateway"}
         BY <1>3, Moves DEF UpstreamReplies, ProxyCounters
   <2>2. Settles(r, {"proxied"})
         BY <1>1, <2>1 DEF Settles, Due
   <2>3. QED
         BY <2>2 DEF Counters
<1>4. QED
      BY <1>2, <1>3

-----------------------------------------------------------------------------
\* Nothing is counted before the first request.
LEMMA CountInit == Init => CountInv
<1> SUFFICES ASSUME Init PROVE CountInv
    OBVIOUS
<1>1. Accepted = {} /\ \A k \in Counters : Charged(k) = {}
      BY DEF Init, Accepted, Charged, Due
<1>2. Tally
      BY <1>1, FS_EmptySet DEF Tally, Init
<1>3. MethodChecked
      BY DEF Init, MethodChecked
<1>4. QED
      BY <1>2, <1>3, AdmissionInit DEF CountInv

\* A step of r leaves the other requests' answers alone, and r past acceptance.
LEMMA OthersKeepAnswers ==
    ASSUME CountInv, NEW r \in Requests, Step(r) \/ \E in \in Inputs : Accept(r, in)
    PROVE  /\ \A k \in Requests \ {r} : UNCHANGED <<pc[k], input[k], answer[k]>>
           /\ pc'[r] # "new"
<1>1. \A k \in Requests \ {r} : Keeps(k) /\ pc'[k] = pc[k]
      BY StepOfR DEF CountInv
<1>2. answer' = answer \/ \E a : answer' = [answer EXCEPT ![r] = a]
      BY DEF Step, Scrape, Enter, LoadParse, RejectBody, Authenticate, BeginEvaluate, RejectQuery,
             AcceptQuery, Judge, Forward, UpstreamReplies, Accept, Goto, Finish
<1>3. answer \in [Requests -> Answers] /\ pc \in [Requests -> RequestPCs]
      BY DEF CountInv, AdmissionInv, GateInv, ReqInv, ReqTypeOK
<1>4. \E p : pc' = [pc EXCEPT ![r] = p] /\ p # "new"
      BY DEF Step, Scrape, Enter, LoadParse, RejectBody, Authenticate, BeginEvaluate, RejectQuery,
             AcceptQuery, Judge, Forward, UpstreamReplies, Accept, Goto, Finish
<1>5. QED
      BY <1>1, <1>2, <1>3, <1>4 DEF Keeps

\* Every step of the gate keeps the tally.
LEMMA CountStep == CountInv /\ [Next \/ Stopped]_vars => CountInv'
<1> SUFFICES ASSUME CountInv, [Next \/ Stopped]_vars PROVE CountInv'
    OBVIOUS
<1>1. AdmissionInv /\ AdmissionInv' /\ ReqTypeOK'
      BY AdmissionStep DEF CountInv, AdmissionInv, GateInv, ReqInv
<1>2. CASE UNCHANGED <<pc, input, answer, counts>>
   <2>1. Accepted' = Accepted /\ \A k \in Counters : Charged(k)' = Charged(k)
         BY <1>2 DEF Accepted, Charged, Due
   <2>2. QED
         BY <1>1, <1>2, <2>1 DEF CountInv, Tally, MethodChecked
<1>3. ASSUME NEW r \in Requests, UNCHANGED swapVars, Step(r) \/ \E in \in Inputs : Accept(r, in)
      PROVE  CountInv'
   <2>1. /\ \A k \in Requests \ {r} : UNCHANGED <<pc[k], input[k], answer[k]>>
         /\ pc'[r] # "new"
         BY <1>3, OthersKeepAnswers
   <2>2. \E ks \in SUBSET Counters : Settles(r, ks)
      <3>1. CASE Step(r)
         <4>1. UNCHANGED input
               BY <3>1 DEF Step, Scrape, Enter, LoadParse, RejectBody, Authenticate, BeginEvaluate,
                  RejectQuery, AcceptQuery, Judge, Forward, UpstreamReplies
         <4>2. QED
               BY <3>1, <4>1, EarlySettle, JudgementSettles, ForwardSettles DEF Step
      <3>2. ASSUME NEW in \in Inputs, Accept(r, in) PROVE Settles(r, {})
         <4>1. pc[r] = "new" /\ answer[r] = "none" /\ pc'[r] = "accepted" /\ answer'[r] = "none" /\ counts' = counts
               BY <3>2, Moves DEF Accept
         <4>2. QED
               BY <4>1, Moves DEF Settles, Due
      <3>3. QED
            BY <1>3, <3>1, <3>2
   <2>3. Tally'
         BY <1>1, <2>1, <2>2, ChargeOne DEF Settles
   <2>4. answer'[r] = "method_not_allowed" => input'[r].endpoint # "metrics"
      <3>1. CASE Enter(r)
            BY <3>1 DEF Enter
      <3>2. CASE ~ Enter(r)
         <4>1. answer[r] = "none"
               BY <1>3, <3>2, Moves DEF Step, Scrape, LoadParse, RejectBody, Authenticate, BeginEvaluate,
                  RejectQuery, AcceptQuery, Judge, Forward, UpstreamReplies, Accept
         <4>2. \E a \in Answers \ {"method_not_allowed"} : answer'[r] = answer[r] \/ Finish(r, a)
               BY <1>3, <3>2 DEF Step, Scrape, LoadParse, RejectBody, Authenticate, BeginEvaluate, RejectQuery,
                  AcceptQuery, Judge, Forward, UpstreamReplies, Accept, Goto, Answers, BodyAnswers
         <4>3. QED
               BY <4>1, <4>2, Moves
      <3>3. QED
            BY <3>1, <3>2
   <2>5. MethodChecked'
         BY <2>1, <2>4 DEF CountInv, MethodChecked
   <2>6. QED
         BY <1>1, <2>3, <2>5 DEF CountInv
<1>4. QED
      BY <1>2, <1>3 DEF Next, ReqNext, Stopped, vars, reqVars, Mount

\* The inductive invariant of the counters.
LEMMA CountInvariant == SafeSpec => []CountInv
BY CountInit, CountStep, PTL DEF SafeSpec

\* Two disjoint finite sets count apart.
LEMMA CountApart ==
    ASSUME NEW S, NEW T, IsFiniteSet(S), IsFiniteSet(T), S \cap T = {}
    PROVE  Cardinality(S \cup T) = Cardinality(S) + Cardinality(T)
<1>1. Cardinality(S \cap T) = 0
      BY FS_EmptySet
<1>2. Cardinality(S \cup T) = Cardinality(S) + Cardinality(T) - Cardinality(S \cap T)
      BY FS_Union
<1>3. Cardinality(S) \in Nat /\ Cardinality(T) \in Nat
      BY FS_CardinalityType
<1>4. QED
      BY <1>1, <1>2, <1>3

\* What the counters are owed is what the clients were told.
LEMMA TallyAgrees ==
    ASSUME CountInv
    PROVE  CountersAgree
<1> DEFINE gated  == {r \in Requests : pc[r] \notin {"new", "accepted"} /\ input[r].endpoint # "metrics"}
           judged == {r \in Requests : pc[r] \in {"admitted", "upstream"}}
           told(as) == {r \in Requests : answer[r] \in as}
           ended  == {"denied", "allowed", "bad_request", "internal_server_error",
                        "passed_through", "bad_gateway"}
           refused == {r \in gated : answer[r] = "unauthorised"}
<1>1. /\ ReqTypeOK /\ MethodChecked /\ IsFiniteSet(Accepted)
      /\ \A k \in Counters : counts[k] = Cardinality(Charged(k))
      BY DEF CountInv, AdmissionInv, GateInv, ReqInv, Tally
<1>2. \A r \in Requests : answer[r] # "none" <=> pc[r] = "done"
      BY <1>1 DEF ReqTypeOK
<1>3. /\ IsFiniteSet(gated) /\ IsFiniteSet(judged) /\ IsFiniteSet(refused)
      /\ \A as : "none" \notin as => IsFiniteSet(told(as))
   <2>1. gated \subseteq Accepted /\ judged \subseteq Accepted /\ refused \subseteq Accepted
         BY DEF Accepted
   <2>2. ASSUME NEW as, "none" \notin as PROVE told(as) \subseteq Accepted
         BY <1>2, <2>2 DEF Accepted
   <2>3. QED
         BY <1>1, <2>1, <2>2, FS_Subset
<1>4. counts["requests"] = Cardinality(gated) - Answered({"method_not_allowed"})
   <2>1. told({"method_not_allowed"}) \subseteq gated
         BY <1>1, <1>2 DEF MethodChecked
   <2>2. gated = Charged("requests") \cup told({"method_not_allowed"})
         BY <2>1 DEF Charged, Due
   <2>3. Charged("requests") \cap told({"method_not_allowed"}) = {} /\ IsFiniteSet(Charged("requests"))
         BY <1>3, <2>2, FS_Subset DEF Charged, Due
   <2>4. Cardinality(gated) = Cardinality(Charged("requests")) + Cardinality(told({"method_not_allowed"}))
         BY <1>3, <2>2, <2>3, CountApart
   <2>5. /\ Cardinality(Charged("requests")) \in Nat
         /\ Cardinality(told({"method_not_allowed"})) \in Nat
         BY <1>3, <2>3, FS_CardinalityType
   <2>6. Answered({"method_not_allowed"}) = Cardinality(told({"method_not_allowed"}))
         BY DEF Answered
   <2>7. counts["requests"] = Cardinality(Charged("requests"))
         BY <1>1 DEF Counters
   <2>8. QED
         BY <2>4, <2>5, <2>6, <2>7
<1>5. counts["denials"] = Answered({"invalid_query", "denied"}) + Cardinality(refused)
   <2>1. Charged("denials") = told({"invalid_query", "denied"}) \cup refused
         BY <1>2 DEF Charged, Due
   <2>2. told({"invalid_query", "denied"}) \cap refused = {}
         OBVIOUS
   <2>3. Cardinality(Charged("denials"))
            = Cardinality(told({"invalid_query", "denied"})) + Cardinality(refused)
         BY <1>3, <2>1, <2>2, CountApart
   <2>4. Answered({"invalid_query", "denied"}) = Cardinality(told({"invalid_query", "denied"}))
         BY DEF Answered
   <2>5. counts["denials"] = Cardinality(Charged("denials"))
         BY <1>1 DEF Counters
   <2>6. QED
         BY <2>3, <2>4, <2>5
<1>6. judged \cap told(ended) = {}
      BY <1>2
<1>7. counts["costs"] = Cardinality(judged) + Answered(ended)
   <2>1. Charged("costs") = judged \cup told(ended)
         BY DEF Charged, Due
   <2>2. Cardinality(judged \cup told(ended)) = Cardinality(judged) + Cardinality(told(ended))
         BY <1>3, <1>6, CountApart
   <2>3. Answered(ended) = Cardinality(told(ended))
         BY DEF Answered
   <2>4. counts["costs"] = Cardinality(Charged("costs"))
         BY <1>1 DEF Counters
   <2>5. QED
         BY <2>1, <2>2, <2>3, <2>4
<1>8. counts["evals"] = Cardinality(judged) + Answered(ended) + Answered({"invalid_query"})
   <2>1. Charged("evals") = Charged("costs") \cup told({"invalid_query"})
         BY DEF Charged, Due
   <2>2. Charged("costs") \cap told({"invalid_query"}) = {} /\ IsFiniteSet(Charged("costs"))
         BY <1>1, <1>2, ChargedAreAccepted, FS_Subset DEF Charged, Due, Counters
   <2>3. Cardinality(Charged("evals"))
            = Cardinality(Charged("costs")) + Cardinality(told({"invalid_query"}))
         BY <1>3, <2>1, <2>2, CountApart
   <2>4. Answered({"invalid_query"}) = Cardinality(told({"invalid_query"}))
         BY DEF Answered
   <2>5. counts["costs"] = Cardinality(Charged("costs")) /\ counts["evals"] = Cardinality(Charged("evals"))
         BY <1>1 DEF Counters
   <2>6. QED
         BY <1>7, <2>3, <2>4, <2>5
<1>9. counts["proxied"] = Answered({"passed_through", "bad_gateway"})
   <2>1. Charged("proxied") = told({"passed_through", "bad_gateway"})
         BY DEF Charged, Due
   <2>2. QED
         BY <1>1, <2>1 DEF Counters, Answered
<1>10. QED
       BY <1>4, <1>5, <1>7, <1>8, <1>9 DEF CountersAgree

\* The counters always agree with what the clients were told, however many
\* requests there are and however handlers and reloads interleave.
THEOREM CountersAlwaysAgree == SafeSpec => []CountersAgree
BY CountInvariant, TallyAgrees, PTL
=============================================================================
