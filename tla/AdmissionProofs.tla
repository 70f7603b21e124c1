--------------------------- MODULE AdmissionProofs ---------------------------
(***************************************************************************)
(* Proofs about Gate: what reaches Elasticsearch was allowed to the caller *)
(* by the configurations its handler used, and is confined to the plan's   *)
(* window unless a reload changed the window settings in between.          *)
(***************************************************************************)
EXTENDS GateProofs, FiniteSetTheorems, WellFoundedInduction

-----------------------------------------------------------------------------
(* Policy.                                                                 *)

\* A set of numbers has a least element, and Min is it.
LEMMA MinIsLeast ==
    ASSUME NEW S \in SUBSET Nat, S # {}
    PROVE  Min(S) \in S /\ \A y \in S : Min(S) <= y
<1> DEFINE below == {0 .. x : x \in S}
<1>1. below \subseteq FiniteSubsetsOf(Nat)
   <2>1. \A x \in S : IsFiniteSet(0 .. x)
         BY FS_Interval
   <2>2. QED
         BY <2>1 DEF FiniteSubsetsOf
<1>2. IsWellFoundedOn(StrictSubsetOrdering(Nat), FiniteSubsetsOf(Nat))
      BY FS_StrictSubsetOrderingWellFounded
<1>3. PICK b \in below : \A y \in below : ~ (<<y, b>> \in StrictSubsetOrdering(Nat))
   <2> HIDE DEF below
   <2>1. below # {}
         BY DEF below
   <2>2. QED
         BY <1>1, <1>2, <2>1, WFMin
<1>4. PICK x \in S : b = 0 .. x
      BY <1>3
<1>5. ASSUME NEW y \in S, y < x PROVE FALSE
   <2>1. 0 .. y \in below /\ 0 .. y \subseteq 0 .. x /\ x \notin 0 .. y /\ x \in 0 .. x
         BY <1>5
   <2>2. <<0 .. y, 0 .. x>> \in StrictSubsetOrdering(Nat)
         BY <2>1 DEF StrictSubsetOrdering
   <2>3. QED
         BY <1>3, <1>4, <2>1, <2>2
<1>6. \A y \in S : x <= y
      BY <1>5
<1>7. QED
      BY <1>6 DEF Min

\* What a query must be for the rules to judge it.
Scorable(q) ==
    /\ q \in Queries
    /\ q.parses

\* The windows rules compare are numbers of days.
LEMMA WindowLimits ==
    ASSUME NEW c \in Configs, NEW p
    PROVE  WindowLimit(c, p) \in Nat
BY QueryAssumption DEF WindowLimit

\* The engine allows a query only if no rule denies it.
LEMMA NoRuleDenies ==
    ASSUME NEW q, NEW c, NEW p, Evaluate(q, c, p) = Allowed
    PROVE  /\ ForbiddenFeature(q, c) = Allowed
           /\ PlanLimit(q, c, p) = Allowed
           /\ QueryWindow(q, c, p) = Allowed
<1> DEFINE verdicts == <<ForbiddenFeature(q, c), PlanLimit(q, c, p), QueryWindow(q, c, p)>>
           denials  == {i \in DOMAIN verdicts : verdicts[i] # Allowed}
<1>1. Evaluate(q, c, p) = IF denials = {} THEN Allowed ELSE verdicts[Min(denials)]
      BY DEF Evaluate
<1>2. DOMAIN verdicts = 1 .. 3
      OBVIOUS
<1>3. denials = {}
   <2>1. SUFFICES ASSUME denials # {} PROVE FALSE
         OBVIOUS
   <2>2. denials \in SUBSET Nat
         BY <1>2
   <2>3. Min(denials) \in denials
         BY <2>1, <2>2, MinIsLeast
   <2>4. QED
         BY <1>1, <2>1, <2>3
<1>4. 1 \notin denials /\ 2 \notin denials /\ 3 \notin denials
      BY <1>3
<1>5. verdicts[1] = Allowed /\ verdicts[2] = Allowed /\ verdicts[3] = Allowed
      BY <1>2, <1>4
<1>6. QED
      BY <1>5

\* A query the window rule allows has no range that counts, or the first one
\* that counts is closed and short.
LEMMA WindowRule ==
    ASSUME NEW q, Scorable(q), NEW c \in Configs, NEW p, QueryWindow(q, c, p) = Allowed
    PROVE  \/ /\ ~ c.requireWindow
              /\ \A i \in DOMAIN q.ranges :
                    q.ranges[i].kind # "bad" /\ q.ranges[i].field \notin c.dateFields
           \/ \E i \in DOMAIN q.ranges :
                 /\ q.ranges[i].field \in c.dateFields
                 /\ q.ranges[i].kind = "closed"
                 /\ q.ranges[i].days <= WindowLimit(c, p)
                 /\ \A j \in DOMAIN q.ranges :
                       j < i => q.ranges[j].kind # "bad" /\ q.ranges[j].field \notin c.dateFields
<1>1. CASE Hits(q, c) = {}
   <2>1. ~ c.requireWindow
         BY <1>1 DEF QueryWindow, Allowed
   <2>2. QED
         BY <1>1, <2>1 DEF Hits
<1>2. CASE Hits(q, c) # {}
   <2> DEFINE i == Min(Hits(q, c))
   <2>1. /\ DOMAIN q.ranges \subseteq Nat
         /\ \A k \in DOMAIN q.ranges : /\ q.ranges[k].kind \in {"closed", "open", "unbounded", "bad"}
                                       /\ q.ranges[k].days \in Nat
         BY QueryAssumption DEF Scorable
   <2>2. Hits(q, c) \in SUBSET Nat
         BY <2>1 DEF Hits
   <2>3. i \in Hits(q, c) /\ \A y \in Hits(q, c) : i <= y
         BY <1>2, <2>2, MinIsLeast
   <2> HIDE DEF i
   <2>4. i \in DOMAIN q.ranges
         BY <2>3 DEF Hits
   <2>5. /\ q.ranges[i].kind \notin {"bad", "open", "unbounded"}
         /\ ~ (q.ranges[i].days > WindowLimit(c, p))
         BY <1>2 DEF QueryWindow, Allowed, i
   <2>6. q.ranges[i].kind = "closed" /\ q.ranges[i].field \in c.dateFields
         BY <2>1, <2>3, <2>4, <2>5 DEF Hits
   <2>7. q.ranges[i].days <= WindowLimit(c, p)
         BY <2>1, <2>4, <2>5, WindowLimits
   <2>8. ASSUME NEW j \in DOMAIN q.ranges, j < i
         PROVE  q.ranges[j].kind # "bad" /\ q.ranges[j].field \notin c.dateFields
      <3>1. i \in Nat /\ j \in Nat
            BY <2>1, <2>4
      <3>2. ~ (i <= j)
            BY <2>8, <3>1
      <3>3. j \notin Hits(q, c)
            BY <2>3, <3>2
      <3>4. QED
            BY <3>3 DEF Hits
   <2>9. QED
         BY <2>4, <2>6, <2>7, <2>8
<1>3. QED
      BY <1>1, <1>2

\* The engine's order of rules makes no difference: what it allows is within
\* the configuration, rule by rule.
LEMMA AllowedIsWithin ==
    ASSUME NEW q, Scorable(q), NEW c \in Configs, NEW p, Evaluate(q, c, p) = Allowed
    PROVE  Within(q, c, p)
<1>1. \A f \in Raised(q) \cap c.forbidden : ~ (c.price[f] > 0)
      BY NoRuleDenies DEF ForbiddenFeature, Allowed
<1>2. ~ (Cost(q, c) > CostLimit(c, p))
      BY NoRuleDenies DEF PlanLimit, Allowed
<1>3. QED
      BY <1>1, <1>2, NoRuleDenies, WindowRule DEF Within

-----------------------------------------------------------------------------
(* The invariant.                                                          *)

\* The first snapshot vouches for the caller's plan.
PlanSound(r) == Vouched(ParseConfig(r), input[r], plan[r])

\* A handler beyond its method check serves a search, and then it holds its
\* first snapshot, or a validation.
EntryHeld(r) ==
    pc[r] \in {"entered", "reading"} \cup Identified =>
        /\ input[r].endpoint \in {"search", "validate"}
        /\ input[r].endpoint = "search" => snap[r].entry # 0

\* What is known of r by the time it is admitted, and remains true of what it sent.
Progress(r) ==
    /\ (pc[r] \in Identified \/ Forwarded(r)) => snap[r].parse # 0 /\ PlanSound(r)
    /\ (pc[r] \in {"validating", "resolved", "admitted", "upstream"} \/ Forwarded(r)) => snap[r].eval # 0
    /\ (pc[r] \in {"resolved", "admitted", "upstream"} \/ Forwarded(r)) => used[r].parses
    /\ (pc[r] \in {"admitted", "upstream"} \/ Forwarded(r)) =>
          snap[r].entry # 0 /\ Evaluate(used[r], EvalConfig(r), plan[r]) = Allowed
    /\ Forwarded(r) =>
          /\ pc[r] \in {"upstream", "done"}
          /\ sent[r] = InjectedWindow(used[r], EntryConfig(r), plan[r])

Shape ==
    /\ plan = [r \in Requests |-> plan[r]]
    /\ sent = [r \in Requests |-> sent[r]]

AdmissionInv == GateInv /\ Shape /\ \A r \in Requests : EntryHeld(r) /\ Progress(r)

\* What Progress reads of r, but for its stage.
Keeps(r) == UNCHANGED <<input[r], snap[r], plan[r], used[r], sent[r]>>

\* Generations that were in force are what they were.
Remembers == \A g \in 1 .. Current : installed'[g] = installed[g]

-----------------------------------------------------------------------------
\* A request that keeps its data and its stage, or finishes, keeps its progress.
LEMMA Undisturbed ==
    ASSUME AdmissionInv, Remembers, NEW r \in Requests, Keeps(r), pc'[r] \in {pc[r], "done"}
    PROVE  EntryHeld(r)' /\ Progress(r)'
<1>1. EntryHeld(r) /\ Progress(r) /\ SnapOrder(r)
      BY DEF AdmissionInv, GateInv, ReqInv
<1>2. /\ snap[r].entry \in Nat /\ snap[r].parse \in Nat /\ snap[r].eval \in Nat /\ Current \in Nat
      /\ snap[r].entry <= Current /\ snap[r].parse <= Current /\ snap[r].eval <= Current
      BY <1>1, RequestTypes, SwapFacts DEF AdmissionInv, GateInv, SnapOrder
<1>3. /\ snap[r].entry # 0 => EntryConfig(r)' = EntryConfig(r)
      /\ snap[r].parse # 0 => ParseConfig(r)' = ParseConfig(r)
      /\ snap[r].eval # 0 => EvalConfig(r)' = EvalConfig(r)
      BY <1>2 DEF Remembers, Keeps, EntryConfig, ParseConfig, EvalConfig
<1>4. Forwarded(r)' <=> Forwarded(r)
      BY DEF Keeps, Forwarded
<1>5. snap[r].parse # 0 /\ PlanSound(r) => PlanSound(r)'
      BY <1>3 DEF Keeps, PlanSound
<1>6. EntryHeld(r)'
      BY <1>1 DEF EntryHeld, Keeps, Identified
<1>7. Progress(r)'
   <2>1. ASSUME pc'[r] \in Identified \/ Forwarded(r)
         PROVE  snap'[r].parse # 0 /\ PlanSound(r)'
         BY <1>1, <1>5, <2>1 DEF Keeps, Progress, Identified
   <2>2. ASSUME pc'[r] \in {"validating", "resolved", "admitted", "upstream"} \/ Forwarded(r)
         PROVE  snap'[r].eval # 0
         BY <1>1, <2>2 DEF Keeps, Progress
   <2>3. ASSUME pc'[r] \in {"resolved", "admitted", "upstream"} \/ Forwarded(r)
         PROVE  used'[r].parses
         BY <1>1, <2>3 DEF Keeps, Progress
   <2>4. ASSUME pc'[r] \in {"admitted", "upstream"} \/ Forwarded(r)
         PROVE  snap'[r].entry # 0 /\ Evaluate(used[r], EvalConfig(r), plan[r])' = Allowed
         BY <1>1, <1>3, <2>4 DEF Keeps, Progress
   <2>5. ASSUME Forwarded(r)
         PROVE  pc'[r] \in {"upstream", "done"} /\ sent'[r] = InjectedWindow(used[r], EntryConfig(r), plan[r])'
         BY <1>1, <1>3, <2>5 DEF Keeps, Progress
   <2>6. QED
         BY <1>4, <2>1, <2>2, <2>3, <2>4, <2>5 DEF Progress
<1>8. QED
      BY <1>6, <1>7

\* Before any request is accepted.
LEMMA AdmissionInit == Init => AdmissionInv
<1> SUFFICES ASSUME Init PROVE AdmissionInv
    OBVIOUS
<1>1. Shape
      BY DEF Init, Shape
<1>2. \A r \in Requests : EntryHeld(r) /\ Progress(r)
      BY DEF Init, EntryHeld, Progress, Identified, Forwarded
<1>3. QED
      BY <1>1, <1>2, GateInitInv DEF AdmissionInv

\* A step of the configuration's life moves no request.
LEMMA SwapKeepsProgress ==
    ASSUME AdmissionInv, SwapStep, UNCHANGED reqVars
    PROVE  AdmissionInv'
<1>1. GateInv'
      BY SwapKeepsReqInv DEF AdmissionInv
<1>2. Remembers
      BY StepGrows, SwapStepInv DEF AdmissionInv, GateInv, Grows, Remembers
<1>3. Shape'
      BY DEF AdmissionInv, Shape, reqVars
<1>4. \A r \in Requests : Keeps(r) /\ pc'[r] = pc[r]
      BY DEF Keeps, reqVars
<1>5. QED
      BY <1>1, <1>2, <1>3, <1>4, Undisturbed DEF AdmissionInv

\* A step of r leaves every other request alone, and the shape of all.
LEMMA StepOfR ==
    ASSUME AdmissionInv, NEW r \in Requests,
           Step(r) \/ \E in \in Inputs : Accept(r, in)
    PROVE  Shape' /\ \A k \in Requests \ {r} : Keeps(k) /\ pc'[k] = pc[k]
<1>1. /\ pc = [k \in Requests |-> pc[k]] /\ input = [k \in Requests |-> input[k]]
      /\ snap = [k \in Requests |-> snap[k]] /\ used = [k \in Requests |-> used[k]]
      /\ plan = [k \in Requests |-> plan[k]] /\ sent = [k \in Requests |-> sent[k]]
      BY DEF AdmissionInv, Shape, GateInv, ReqInv, ReqTypeOK
<1>2. \/ pc' = pc
      \/ \E p : pc' = [pc EXCEPT ![r] = p]
      BY DEF Step, Scrape, Enter, LoadParse, RejectBody, Authenticate, BeginEvaluate, RejectQuery,
             AcceptQuery, Judge, Forward, UpstreamReplies, Accept, Goto, Finish
<1>3. input' = input \/ \E x : input' = [input EXCEPT ![r] = x]
      BY DEF Step, Scrape, Enter, LoadParse, RejectBody, Authenticate, BeginEvaluate, RejectQuery,
             AcceptQuery, Judge, Forward, UpstreamReplies, Accept
<1>4. snap' = snap \/ \E x : snap' = [snap EXCEPT ![r] = x]
   <2>1. CASE Enter(r)
         BY <2>1 DEF Enter
   <2>2. CASE LoadParse(r)
         BY <2>2 DEF LoadParse
   <2>3. CASE BeginEvaluate(r)
         BY <2>3 DEF BeginEvaluate
   <2>4. QED
         BY <2>1, <2>2, <2>3
         DEF Step, Scrape, RejectBody, Authenticate, RejectQuery, AcceptQuery, Judge, Forward,
             UpstreamReplies, Accept
<1>5. used' = used \/ \E x : used' = [used EXCEPT ![r] = x]
      BY DEF Step, Scrape, Enter, LoadParse, RejectBody, Authenticate, BeginEvaluate, RejectQuery,
             AcceptQuery, Judge, Forward, UpstreamReplies, Accept
<1>6. plan' = plan \/ \E x : plan' = [plan EXCEPT ![r] = x]
      BY DEF Step, Scrape, Enter, LoadParse, RejectBody, Authenticate, BeginEvaluate, RejectQuery,
             AcceptQuery, Judge, Forward, UpstreamReplies, Accept
<1>7. sent' = sent \/ \E x : sent' = [sent EXCEPT ![r] = x]
      BY DEF Step, Scrape, Enter, LoadParse, RejectBody, Authenticate, BeginEvaluate, RejectQuery,
             AcceptQuery, Judge, Forward, UpstreamReplies, Accept
<1>8. ASSUME NEW k \in Requests \ {r} PROVE Keeps(k) /\ pc'[k] = pc[k]
      BY <1>1, <1>2, <1>3, <1>4, <1>5, <1>6, <1>7 DEF Keeps
<1>9. Shape'
      BY <1>1, <1>6, <1>7 DEF Shape
<1>10. QED
       BY <1>8, <1>9

-----------------------------------------------------------------------------
\* What the steps of r use of what r holds.
LEMMA Holding ==
    ASSUME AdmissionInv, NEW r \in Requests
    PROVE  /\ EntryHeld(r) /\ Progress(r) /\ SnapOrder(r)
           /\ pc[r] \notin {"upstream", "done"} => ~ Forwarded(r)
           /\ pc[r] # "new" => input[r] \in Inputs
           /\ pc \in [Requests -> RequestPCs]
           /\ snap \in [Requests -> [entry : Generations \cup {0}, parse : Generations \cup {0},
                                     eval : Generations \cup {0}]]
           /\ DOMAIN used = Requests /\ DOMAIN plan = Requests /\ DOMAIN sent = Requests
           /\ DOMAIN input = Requests
           /\ Current # 0
           /\ \A g \in Generations : g <= Current => installed[g] \in Configs
<1>1. EntryHeld(r) /\ Progress(r) /\ SnapOrder(r)
      BY DEF AdmissionInv, GateInv, ReqInv
<1>2. pc[r] \notin {"upstream", "done"} => ~ Forwarded(r)
      BY <1>1 DEF Progress
<1>3. pc[r] # "new" => input[r] \in Inputs
      BY RequestTypes DEF AdmissionInv
<1>4. DOMAIN used = Requests /\ DOMAIN plan = Requests /\ DOMAIN sent = Requests /\ DOMAIN input = Requests
      BY DEF AdmissionInv, Shape, GateInv, ReqInv, ReqTypeOK
<1>5. Current # 0 /\ \A g \in Generations : g <= Current => installed[g] \in Configs
      BY SwapFacts DEF AdmissionInv, GateInv
<1>6. QED
      BY <1>1, <1>2, <1>3, <1>4, <1>5 DEF AdmissionInv, GateInv, ReqInv, ReqTypeOK

\* The early steps: nothing has been asked of the caller yet.
LEMMA EarlySteps ==
    ASSUME AdmissionInv, NEW r \in Requests,
           Enter(r) \/ LoadParse(r) \/ \E in \in Inputs : Accept(r, in)
    PROVE  EntryHeld(r)' /\ Progress(r)'
<1>1. pc[r] \in {"new", "accepted", "entered"} /\ ~ Forwarded(r) /\ sent' = sent
      BY Holding DEF Enter, LoadParse, Accept
<1>2. ~ Forwarded(r)'
      BY <1>1 DEF Forwarded
<1>3. pc'[r] \in {"accepted", "entered", "reading", "done"}
      BY Holding DEF Enter, LoadParse, Accept, Goto, Finish
<1>4. Progress(r)'
      BY <1>2, <1>3 DEF Progress, Identified
<1>5. EntryHeld(r)'
   <2>1. CASE \E in \in Inputs : Accept(r, in)
         BY <2>1, Holding DEF Accept, Goto, EntryHeld, Identified
   <2>2. CASE Enter(r)
      <3>1. CASE pc'[r] = "done"
            BY <3>1 DEF EntryHeld, Identified
      <3>2. CASE snap' = IF input[r].endpoint = "search" THEN [snap EXCEPT ![r].entry = Current] ELSE snap
         <4>1. input[r].endpoint = "search" => snap'[r].entry = Current
               BY <3>2, Holding
         <4>2. QED
               BY <2>2, <4>1, Holding DEF Enter, EntryHeld
      <3>3. QED
            BY <2>2, <3>1, <3>2, Holding DEF Enter, Finish
   <2>3. CASE LoadParse(r)
      <3>1. snap'[r].entry = snap[r].entry
            BY <2>3, Holding DEF LoadParse
      <3>2. pc[r] = "entered" /\ input' = input
            BY <2>3 DEF LoadParse
      <3>3. QED
            BY <3>1, <3>2, Holding DEF EntryHeld
   <2>4. QED
         BY <2>1, <2>2, <2>3
<1>6. QED
      BY <1>4, <1>5

\* Authentication yields a plan the configuration vouches for.
LEMMA IdentityIsSound ==
    ASSUME NEW c \in Configs, NEW in, NEW id \in Identities(c, in), id # Refused
    PROVE  Vouched(c, in, id)
<1>1. c.auth \in {"none", "keys", "jwks"}
      BY GateAssumption
<1>2. CASE c.auth = "none"
      BY <1>2 DEF Identities, BodyPlan, Vouched
<1>3. CASE c.auth = "keys"
      BY <1>3 DEF Identities, KeyPlan, Vouched
<1>4. CASE c.auth = "jwks"
      BY <1>4 DEF Identities, KeyPlan, Vouched
<1>5. QED
      BY <1>1, <1>2, <1>3, <1>4

\* Authentication: the plan is the snapshot's.
LEMMA AuthenticateProgress ==
    ASSUME AdmissionInv, NEW r \in Requests, Authenticate(r), UNCHANGED swapVars
    PROVE  EntryHeld(r)' /\ Progress(r)'
<1>1. pc[r] = "reading" /\ ~ Forwarded(r) /\ UNCHANGED <<input, snap, used, sent, installed>>
      BY Holding DEF Authenticate, swapVars
<1>2. ~ Forwarded(r)'
      BY <1>1 DEF Forwarded
<1>3. CASE pc'[r] = "done"
      BY <1>2, <1>3 DEF EntryHeld, Progress, Identified
<1>4. CASE pc'[r] # "done"
   <2>1. PICK id \in Identities(ParseConfig(r), input[r]) :
            id # Refused /\ plan' = [plan EXCEPT ![r] = id] /\ Goto(r, "authenticated")
         BY <1>4, Holding DEF Authenticate, Finish
   <2>2. pc'[r] = "authenticated" /\ plan'[r] = id
         BY <2>1, Holding DEF Goto
   <2>3. snap[r].parse # 0 /\ snap[r].parse \in Generations /\ snap[r].parse <= Current
         BY <1>1, Holding DEF SnapOrder
   <2>4. ParseConfig(r) \in Configs
         BY <2>3, Holding DEF ParseConfig
   <2>5. PlanSound(r)'
         BY <1>1, <2>1, <2>2, <2>4, IdentityIsSound DEF PlanSound, ParseConfig
   <2>6. QED
         BY <1>1, <1>2, <2>2, <2>3, <2>5, Holding DEF EntryHeld, Progress, Identified
<1>5. QED
      BY <1>3, <1>4

\* evaluate takes its snapshot; what is scored has been parsed.
LEMMA BeginEvaluateProgress ==
    ASSUME AdmissionInv, NEW r \in Requests, BeginEvaluate(r), UNCHANGED swapVars
    PROVE  EntryHeld(r)' /\ Progress(r)'
<1>1. pc[r] = "authenticated" /\ ~ Forwarded(r) /\ UNCHANGED <<input, plan, sent, installed>>
      BY Holding DEF BeginEvaluate, swapVars
<1>2. snap' = [snap EXCEPT ![r].eval = Current]
      BY DEF BeginEvaluate, Snapshot
<1>3. snap'[r].eval # 0 /\ snap'[r].parse = snap[r].parse /\ snap'[r].entry = snap[r].entry
      BY <1>2, Holding
<1>4. \/ pc'[r] = "validating"
      \/ pc'[r] = "resolved" /\ used'[r].parses
      BY Holding DEF BeginEvaluate, Goto
<1>5. ~ Forwarded(r)'
      BY <1>1 DEF Forwarded
<1>6. PlanSound(r)'
      BY <1>1, <1>3, Holding DEF Progress, Identified, PlanSound, ParseConfig
<1>7. EntryHeld(r)'
      BY <1>1, <1>3, Holding DEF EntryHeld, Identified
<1>8. QED
      BY <1>1, <1>3, <1>4, <1>5, <1>6, <1>7, Holding DEF Progress, Identified

\* Elasticsearch accepts: the query or its explanation has been parsed.
LEMMA AcceptQueryProgress ==
    ASSUME AdmissionInv, NEW r \in Requests, AcceptQuery(r), UNCHANGED swapVars
    PROVE  EntryHeld(r)' /\ Progress(r)'
<1>1. pc[r] = "validating" /\ ~ Forwarded(r) /\ UNCHANGED <<input, snap, plan, sent, installed>>
      BY Holding DEF AcceptQuery, swapVars
<1>2. pc'[r] = "resolved" /\ used'[r].parses
      BY Holding DEF AcceptQuery, Goto
<1>3. ~ Forwarded(r)'
      BY <1>1 DEF Forwarded
<1>4. PlanSound(r)'
      BY <1>1, Holding DEF Progress, Identified, PlanSound, ParseConfig
<1>5. QED
      BY <1>1, <1>2, <1>3, <1>4, Holding DEF EntryHeld, Progress, Identified

\* The rules allow the query, and it is a search.
LEMMA JudgeProgress ==
    ASSUME AdmissionInv, NEW r \in Requests, Judge(r), UNCHANGED swapVars
    PROVE  EntryHeld(r)' /\ Progress(r)'
<1>1. /\ pc[r] = "resolved" /\ ~ Forwarded(r)
      /\ UNCHANGED <<input, snap, plan, used, sent, installed>>
      BY Holding DEF Judge, swapVars
<1>2. ~ Forwarded(r)'
      BY <1>1 DEF Forwarded
<1>3. CASE pc'[r] = "done"
      BY <1>2, <1>3 DEF EntryHeld, Progress, Identified
<1>4. CASE pc'[r] # "done"
   <2>1. /\ Evaluate(used[r], EvalConfig(r), plan[r]) = Allowed
         /\ input[r].endpoint # "validate" /\ pc'[r] = "admitted"
         BY <1>4, Holding DEF Judge, Goto, Finish
   <2>2. snap[r].entry # 0
         BY <1>1, <2>1, Holding DEF EntryHeld, Identified
   <2>3. PlanSound(r)' /\ Evaluate(used[r], EvalConfig(r), plan[r])' = Allowed
         BY <1>1, <2>1, Holding DEF Progress, Identified, PlanSound, ParseConfig, EvalConfig
   <2>4. QED
         BY <1>1, <1>2, <2>1, <2>2, <2>3, Holding DEF EntryHeld, Progress, Identified
<1>5. QED
      BY <1>3, <1>4

\* The query goes upstream with the window of the first snapshot.
LEMMA ForwardProgress ==
    ASSUME AdmissionInv, NEW r \in Requests, Forward(r), UNCHANGED swapVars
    PROVE  EntryHeld(r)' /\ Progress(r)'
<1>1. /\ pc[r] = "admitted" /\ ~ Forwarded(r)
      /\ UNCHANGED <<input, snap, plan, used, installed>>
      BY Holding DEF Forward, swapVars
<1>2. CASE pc'[r] = "done"
   <2>1. sent' = sent
         BY <1>2, Holding DEF Forward, Goto
   <2>2. QED
         BY <1>1, <1>2, <2>1 DEF EntryHeld, Progress, Identified, Forwarded
<1>3. CASE pc'[r] # "done"
   <2>1. pc'[r] = "upstream" /\ sent'[r] = InjectedWindow(used[r], EntryConfig(r), plan[r])
         BY <1>3, Holding DEF Forward, Goto, Finish
   <2>2. /\ PlanSound(r)' /\ Evaluate(used[r], EvalConfig(r), plan[r])' = Allowed
         /\ sent'[r] = InjectedWindow(used[r], EntryConfig(r), plan[r])'
         BY <1>1, <2>1, Holding DEF Progress, Identified, PlanSound, ParseConfig, EvalConfig, EntryConfig
   <2>3. QED
         BY <1>1, <2>1, <2>2, Holding DEF EntryHeld, Progress, Identified
<1>4. QED
      BY <1>2, <1>3

\* A handler that only ends keeps what is known of it.
LEMMA EndProgress ==
    ASSUME AdmissionInv, NEW r \in Requests, UNCHANGED swapVars,
           Scrape(r) \/ RejectBody(r) \/ RejectQuery(r) \/ UpstreamReplies(r)
    PROVE  EntryHeld(r)' /\ Progress(r)'
<1>1. UNCHANGED <<input, snap, plan, used, sent, installed>>
      BY DEF Scrape, RejectBody, RejectQuery, UpstreamReplies, swapVars
<1>2. pc'[r] = "done"
   <2>1. \E a : Finish(r, a)
         BY DEF Scrape, RejectBody, RejectQuery, UpstreamReplies
   <2>2. QED
         BY <2>1, Holding DEF Finish
<1>3. Keeps(r) /\ Remembers
      BY <1>1 DEF Keeps, Remembers
<1>4. QED
      BY <1>2, <1>3, Undisturbed

-----------------------------------------------------------------------------
\* Every step of the gate keeps the invariant.
LEMMA AdmissionStep == AdmissionInv /\ [Next \/ Stopped]_vars => AdmissionInv'
<1> SUFFICES ASSUME AdmissionInv, [Next \/ Stopped]_vars PROVE AdmissionInv'
    OBVIOUS
<1>1. GateInv'
      BY GateStepInv DEF AdmissionInv
<1>2. CASE SwapNext /\ UNCHANGED reqVars
      BY <1>2, SwapKeepsProgress DEF SwapStep
<1>3. CASE Stopped \/ UNCHANGED vars
      BY <1>3, SwapKeepsProgress DEF Stopped, Exited, SwapStep, vars
<1>4. CASE Mount /\ UNCHANGED swapVars
   <2>1. Remembers /\ Shape' /\ \A r \in Requests : Keeps(r) /\ pc'[r] = pc[r]
         BY <1>4 DEF Mount, swapVars, Remembers, AdmissionInv, Shape, Keeps
   <2>2. QED
         BY <1>1, <2>1, Undisturbed DEF AdmissionInv
<1>5. ASSUME NEW r \in Requests, UNCHANGED swapVars, Step(r) \/ \E in \in Inputs : Accept(r, in)
      PROVE  AdmissionInv'
   <2>1. Shape' /\ \A k \in Requests \ {r} : Keeps(k) /\ pc'[k] = pc[k]
         BY <1>5, StepOfR
   <2>2. Remembers
         BY <1>5 DEF swapVars, Remembers
   <2>3. EntryHeld(r)' /\ Progress(r)'
         BY <1>5, EarlySteps, AuthenticateProgress, BeginEvaluateProgress, AcceptQueryProgress,
            JudgeProgress, ForwardProgress, EndProgress DEF Step
   <2>4. \A k \in Requests : EntryHeld(k)' /\ Progress(k)'
         BY <2>1, <2>2, <2>3, Undisturbed
   <2>5. QED
         BY <1>1, <2>1, <2>4 DEF AdmissionInv
<1>6. QED
      BY <1>2, <1>3, <1>4, <1>5 DEF Next, ReqNext

\* AdmissionInv is an invariant of the gate.
THEOREM AdmissionInvariant == SafeSpec => []AdmissionInv
<1>1. Init => AdmissionInv
      BY AdmissionInit
<1>2. AdmissionInv /\ [Next \/ Stopped]_vars => AdmissionInv'
      BY AdmissionStep
<1>3. QED
      BY <1>1, <1>2, PTL DEF SafeSpec

\* What a forwarded request rests on.
LEMMA ForwardedFacts ==
    ASSUME AdmissionInv, NEW r \in Requests, Forwarded(r)
    PROVE  /\ PlanSound(r)
           /\ Scorable(used[r])
           /\ EvalConfig(r) \in Configs
           /\ EntryConfig(r) \in Configs
           /\ Evaluate(used[r], EvalConfig(r), plan[r]) = Allowed
           /\ sent[r] = InjectedWindow(used[r], EntryConfig(r), plan[r])
<1>1. /\ PlanSound(r) /\ used[r].parses /\ snap[r].eval # 0 /\ snap[r].entry # 0
      /\ Evaluate(used[r], EvalConfig(r), plan[r]) = Allowed
      /\ sent[r] = InjectedWindow(used[r], EntryConfig(r), plan[r])
      BY Holding DEF Progress
<1>2. used[r] \in Queries
      BY DEF AdmissionInv, GateInv, ReqInv, ReqTypeOK
<1>3. /\ snap[r].eval \in Generations /\ snap[r].eval <= Current
      /\ snap[r].entry \in Generations /\ snap[r].entry <= Current
      BY <1>1, Holding DEF SnapOrder
<1>4. EvalConfig(r) \in Configs /\ EntryConfig(r) \in Configs
      BY <1>3, Holding DEF EvalConfig, EntryConfig
<1>5. QED
      BY <1>1, <1>2, <1>4 DEF Scorable

\* A query reaches Elasticsearch only for a caller the credential vouches for,
\* and only within the configuration that judged it, however many reloads and
\* requests there are.
THEOREM AdmissionIsSound == SafeSpec => []AdmissionSound
<1>1. AdmissionInv => AdmissionSound
   <2> SUFFICES ASSUME AdmissionInv, NEW r \in Requests, Forwarded(r)
                PROVE  /\ Vouched(ParseConfig(r), input[r], plan[r])
                       /\ used[r].parses
                       /\ Within(used[r], EvalConfig(r), plan[r])
       BY DEF AdmissionSound
   <2>1. QED
         BY ForwardedFacts, AllowedIsWithin DEF Scorable, PlanSound
<1>2. QED
      BY <1>1, AdmissionInvariant, PTL

\* A window PlanWindow can add is the window the rule compares with.
LEMMA InjectedIsLimit ==
    ASSUME NEW c, NEW p, PlanWindow(c, p).kind = "days"
    PROVE  PlanWindow(c, p).days = WindowLimit(c, p)
BY DEF PlanWindow, WindowLimit, Days, EmptyWindow

\* While the window settings stay, what goes upstream has a window no longer
\* than the plan's, its own or the one added.
THEOREM ConfinedBetweenReloads == SafeSpec => []ConfinedUnlessPolicyChanges
<1>1. AdmissionInv => ConfinedUnlessPolicyChanges
   <2> SUFFICES ASSUME AdmissionInv, NEW r \in Requests, Forwarded(r),
                       WindowPolicy(EntryConfig(r), plan[r]) = WindowPolicy(EvalConfig(r), plan[r]),
                       PlanWindow(EvalConfig(r), plan[r]).kind = "days"
                PROVE  Confined(r)
       BY DEF ConfinedUnlessPolicyChanges
   <2> DEFINE entry == EntryConfig(r)
              eval  == EvalConfig(r)
              p     == plan[r]
   <2>1. /\ entry.requireWindow = eval.requireWindow /\ entry.dateFields = eval.dateFields
         /\ PlanWindow(entry, p) = PlanWindow(eval, p)
         BY DEF WindowPolicy
   <2>2. Within(used[r], eval, p)
         BY ForwardedFacts, AllowedIsWithin
   <2>3. CASE /\ ~ eval.requireWindow
              /\ \A i \in DOMAIN used[r].ranges :
                    used[r].ranges[i].kind # "bad" /\ used[r].ranges[i].field \notin eval.dateFields
      <3>1. Hits(used[r], entry) = {} /\ ~ entry.requireWindow
            BY <2>1, <2>3 DEF Hits
      <3>2. sent[r].window = PlanWindow(eval, p)
         <4>1. sent[r] = InjectedWindow(used[r], entry, p)
               BY ForwardedFacts
         <4>2. ~ WindowFound(used[r], entry)
               BY <3>1 DEF WindowFound
         <4>3. InjectedWindow(used[r], entry, p).window = PlanWindow(entry, p)
            <5> HIDE DEF entry, p
            <5>1. QED
                  BY <3>1, <4>2 DEF InjectedWindow
         <4>4. QED
               BY <2>1, <4>1, <4>3
      <3>3. WindowLimit(eval, p) \in Nat
            BY ForwardedFacts, WindowLimits
      <3>4. sent[r].window.kind = "days" /\ sent[r].window.days <= WindowLimit(eval, p)
            BY <3>2, <3>3, InjectedIsLimit
      <3>5. QED
            BY <3>4 DEF Confined
   <2>4. CASE \E i \in DOMAIN used[r].ranges :
                 /\ used[r].ranges[i].field \in eval.dateFields
                 /\ used[r].ranges[i].kind = "closed"
                 /\ used[r].ranges[i].days <= WindowLimit(eval, p)
         BY <2>4 DEF Confined
   <2>5. QED
         BY <2>2, <2>3, <2>4 DEF Within
<1>2. QED
      BY <1>1, AdmissionInvariant, PTL
=============================================================================
