----------------------------- MODULE GateProofs -----------------------------
(***************************************************************************)
(* Proofs about Gate, for any configurations, inputs, number of requests   *)
(* and of reloads: no handler uses a configuration older than its request, *)
(* and a credential that every configuration in force refuses gets no      *)
(* answer that discloses anything.                                         *)
(***************************************************************************)
EXTENDS Gate, ConfigSwapProofs

\* Where a request is once its caller has been identified.
Identified == {"authenticated", "validating", "resolved", "admitted", "upstream"}

\* The snapshots of r, in the order its handler takes them.
SnapOrder(r) ==
    /\ since[r] <= Current
    /\ snap[r].entry <= Current
    /\ snap[r].parse <= Current
    /\ snap[r].eval <= Current
    /\ pc[r] \in {"new", "accepted"} => snap[r].entry = 0
    /\ pc[r] \in {"new", "accepted", "entered"} => snap[r].parse = 0
    /\ pc[r] \in {"new", "accepted", "entered", "reading", "authenticated"} => snap[r].eval = 0
    /\ pc[r] \in {"reading"} \cup Identified => snap[r].parse # 0
    /\ snap[r].parse # 0 => snap[r].parse >= since[r] /\ snap[r].parse >= snap[r].entry
    /\ snap[r].eval # 0 => snap[r].eval >= snap[r].parse

\* A request that got past authentication got there under a configuration that
\* knows its credential and was in force while the request was open.
CallerKnown(r) ==
    (pc[r] \in Identified \/ answer[r] \in Disclosing) =>
        /\ snap[r].parse # 0
        /\ ~ Refuses(installed[snap[r].parse], input[r])

ReqInv == ReqTypeOK /\ \A r \in Requests : SnapOrder(r) /\ CallerKnown(r)

GateInv == SwapInv /\ ReqInv

-----------------------------------------------------------------------------
\* What the steps of a handler need of the state they leave alone.
LEMMA SwapFacts ==
    ASSUME SwapInv
    PROVE  /\ Current \in Generations
           /\ Generations \subseteq Nat
           /\ 0 \notin Generations
           /\ Current \in Nat
           /\ Current >= 1
           /\ \A g \in Generations : g <= Current => installed[g] \in Configs
<1>1. MaxReloads \in Nat
      BY ConfigSwapAssumption
<1>2. Current \in Generations /\ installed \in Seq(Configs) /\ Current = Len(installed)
      BY DEF SwapInv, SwapTypeOK, Current
<1>3. QED
      BY <1>1, <1>2 DEF Generations

\* The query of an accepted request, and any explanation, is a query.
LEMMA QueriesOfInputs ==
    /\ \A in \in Inputs : in.query \in Queries
    /\ Explanations \subseteq Queries
    /\ NoQuery \in Queries
BY DEF Queries

\* Whoever a configuration gives a plan is not refused by it.
LEMMA IdentifiedIsKnown ==
    ASSUME NEW c \in Configs, NEW in, NEW id \in Identities(c, in), id # Refused
    PROVE  ~ Refuses(c, in)
<1>1. c.auth \in {"none", "keys", "jwks"}
      BY GateAssumption
<1>2. CASE c.auth = "none"
      BY <1>2 DEF Refuses
<1>3. CASE c.auth = "keys"
      BY <1>3 DEF Refuses, Identities, KeyPlan
<1>4. CASE c.auth = "jwks"
      BY <1>4 DEF Refuses, Identities, KeyPlan
<1>5. QED
      BY <1>1, <1>2, <1>3, <1>4

-----------------------------------------------------------------------------
\* Initially no request has been accepted.
LEMMA GateInitInv == Init => GateInv
<1> SUFFICES ASSUME Init PROVE GateInv
    OBVIOUS
<1>1. SwapInv
      BY SwapInitInv DEF Init
<1>2. ReqTypeOK
      BY QueriesOfInputs DEF Init, ReqTypeOK, Counters, RequestPCs, Answers, BodyAnswers
<1>3. \A r \in Requests : SnapOrder(r) /\ CallerKnown(r)
      BY <1>1, SwapFacts DEF Init, SnapOrder, CallerKnown, Identified, Disclosing
<1>4. QED
      BY <1>1, <1>2, <1>3 DEF GateInv, ReqInv

\* A reload, a close or the shutdown moves no request, and the generations the
\* requests hold are what they were.
LEMMA SwapKeepsReqInv ==
    ASSUME GateInv, SwapStep, UNCHANGED reqVars
    PROVE  GateInv'
<1>1. SwapInv' /\ Grows
      BY SwapStepInv, StepGrows DEF GateInv
<1>2. ReqTypeOK'
      BY DEF GateInv, ReqInv, ReqTypeOK, reqVars
<1>3. ASSUME NEW r \in Requests
      PROVE  SnapOrder(r)' /\ CallerKnown(r)'
   <2>1. /\ since[r] \in Nat /\ snap[r].entry \in Nat /\ snap[r].parse \in Nat
         /\ snap[r].eval \in Nat /\ Current \in Nat /\ Current' \in Nat /\ Current <= Current'
      <3>1. since[r] \in Nat /\ snap[r].entry \in Nat /\ snap[r].parse \in Nat /\ snap[r].eval \in Nat
            BY SwapFacts DEF GateInv, ReqInv, ReqTypeOK
      <3>2. QED
            BY <1>1, <3>1, SwapFacts DEF GateInv, Grows
   <2>2. SnapOrder(r) /\ CallerKnown(r)
         BY DEF GateInv, ReqInv
   <2>3. UNCHANGED <<since[r], snap[r], pc[r], answer[r], input[r]>>
         BY DEF reqVars
   <2>4. SnapOrder(r)'
         BY <2>1, <2>2, <2>3 DEF SnapOrder
   <2>5. snap[r].parse # 0 => installed'[snap[r].parse] = installed[snap[r].parse]
         BY <1>1, <2>1, <2>2 DEF Grows, SnapOrder
   <2>6. CallerKnown(r)'
         BY <2>2, <2>3, <2>5 DEF CallerKnown, Refuses
   <2>7. QED
         BY <2>4, <2>6
<1>4. QED
      BY <1>1, <1>2, <1>3 DEF GateInv, ReqInv

-----------------------------------------------------------------------------
\* A handler's step changes nothing of the configuration's life.
LEMMA SwapUnchanged ==
    ASSUME GateInv, UNCHANGED swapVars
    PROVE  SwapInv' /\ Current' = Current /\ installed' = installed
<1>1. SwapStep
      BY DEF SwapStep
<1>2. QED
      BY <1>1, SwapStepInv DEF GateInv, swapVars, Current

\* Counting keeps counters natural.
LEMMA CountType ==
    ASSUME ReqTypeOK, NEW ks, Count(ks)
    PROVE  counts' \in [Counters -> Nat]
BY DEF ReqTypeOK, Count

\* What a request holds is well-typed.
LEMMA RequestTypes ==
    ASSUME GateInv, NEW r \in Requests
    PROVE  /\ since[r] \in Nat /\ snap[r].entry \in Nat
           /\ snap[r].parse \in Nat /\ snap[r].eval \in Nat
           /\ pc[r] \in RequestPCs
           /\ answer[r] \in Answers
           /\ pc[r] # "new" => input[r] \in Inputs
<1>1. since[r] \in Nat /\ snap[r].entry \in Nat /\ snap[r].parse \in Nat /\ snap[r].eval \in Nat
      BY SwapFacts DEF GateInv, ReqInv, ReqTypeOK
<1>2. pc[r] \in RequestPCs /\ answer[r] \in Answers /\ (pc[r] # "new" => input[r] \in Inputs)
      BY DEF GateInv, ReqInv, ReqTypeOK
<1>3. QED
      BY <1>1, <1>2

\* A request that keeps its snapshots and its input keeps its invariants when
\* it finishes, or moves on among the stages after authentication; only an
\* identified caller gets an answer that discloses anything.
LEMMA AdvanceKeeps ==
    ASSUME GateInv, UNCHANGED <<installed, since, snap, input>>, Current' = Current,
           NEW r \in Requests, NEW p, NEW a,
           pc' = [pc EXCEPT ![r] = p],
           answer' = [answer EXCEPT ![r] = a],
           p = "done" \/ (p \in {"resolved", "admitted", "upstream"} /\ pc[r] \in Identified),
           a \in Disclosing => pc[r] \in Identified \/ answer[r] \in Disclosing
    PROVE  \A k \in Requests : SnapOrder(k)' /\ CallerKnown(k)'
<1> SUFFICES ASSUME NEW k \in Requests PROVE SnapOrder(k)' /\ CallerKnown(k)'
    OBVIOUS
<1>1. SnapOrder(k) /\ CallerKnown(k)
      BY DEF GateInv, ReqInv
<1>2. pc \in [Requests -> RequestPCs] /\ answer \in [Requests -> Answers]
      BY DEF GateInv, ReqInv, ReqTypeOK
<1>3. k # r => pc'[k] = pc[k] /\ answer'[k] = answer[k]
      BY <1>2
<1>4. pc'[r] = p /\ answer'[r] = a
      BY <1>2
<1>5. SnapOrder(k)'
   <2>1. CASE k = r
         BY <2>1, <1>1, <1>4 DEF SnapOrder, Identified
   <2>2. CASE k # r
         BY <2>2, <1>1, <1>3 DEF SnapOrder
   <2>3. QED
         BY <2>1, <2>2
<1>6. CallerKnown(k)'
   <2>1. CASE k = r
         BY <2>1, <1>1, <1>4 DEF CallerKnown, Identified, Refuses
   <2>2. CASE k # r
         BY <2>2, <1>1, <1>3 DEF CallerKnown, Refuses
   <2>3. QED
         BY <2>1, <2>2
<1>7. QED
      BY <1>5, <1>6

-----------------------------------------------------------------------------
\* Handler() is mounted.
LEMMA MountInv ==
    ASSUME GateInv, Mount, UNCHANGED swapVars
    PROVE  GateInv'
<1>1. SwapInv' /\ Current' = Current /\ installed' = installed
      BY SwapUnchanged
<1>2. ReqTypeOK'
      BY SwapFacts DEF Mount, GateInv, ReqInv, ReqTypeOK
<1>3. \A r \in Requests : SnapOrder(r)' /\ CallerKnown(r)'
      BY <1>1 DEF Mount, GateInv, ReqInv, SnapOrder, CallerKnown, Refuses
<1>4. QED
      BY <1>1, <1>2, <1>3 DEF GateInv, ReqInv

\* A request is accepted: it holds the generation in force and no snapshot.
LEMMA AcceptInv ==
    ASSUME GateInv, NEW r \in Requests, NEW in \in Inputs, Accept(r, in), UNCHANGED swapVars
    PROVE  GateInv'
<1>1. SwapInv' /\ Current' = Current /\ installed' = installed
      BY SwapUnchanged
<1>2. ReqTypeOK'
      BY SwapFacts, GateAssumption DEF Accept, Goto, GateInv, ReqInv, ReqTypeOK, RequestPCs
<1>3. ASSUME NEW k \in Requests
      PROVE  SnapOrder(k)' /\ CallerKnown(k)'
   <2>1. SnapOrder(k) /\ CallerKnown(k)
         BY DEF GateInv, ReqInv
   <2>2. CASE k = r
      <3>1. /\ pc[r] = "new" /\ pc'[r] = "accepted" /\ since'[r] = Current
            /\ snap'[r] = snap[r] /\ answer'[r] = "none"
            BY DEF Accept, Goto, GateInv, ReqInv, ReqTypeOK
      <3>2. Current \in Nat
            BY SwapFacts DEF GateInv
      <3>3. SnapOrder(r)'
            BY <1>1, <2>1, <2>2, <3>1, <3>2 DEF SnapOrder, Identified
      <3>4. CallerKnown(r)'
            BY <3>1 DEF CallerKnown, Identified, Disclosing
      <3>5. QED
            BY <2>2, <3>3, <3>4
   <2>3. CASE k # r
      <3>1. UNCHANGED <<pc[k], since[k], snap[k], answer[k], input[k]>>
            BY <2>3 DEF Accept, Goto, GateInv, ReqInv, ReqTypeOK
      <3>2. QED
            BY <1>1, <2>1, <3>1 DEF SnapOrder, CallerKnown, Refuses
   <2>4. QED
         BY <2>2, <2>3
<1>4. QED
      BY <1>1, <1>2, <1>3 DEF GateInv, ReqInv

\* A request finishes, or moves on after authentication, with its snapshots.
LEMMA AdvanceInv ==
    ASSUME GateInv, UNCHANGED swapVars, UNCHANGED <<mounted, input, since, snap>>,
           NEW r \in Requests, NEW p, NEW a,
           pc' = [pc EXCEPT ![r] = p],
           answer' = [answer EXCEPT ![r] = a],
           \/ p = "done" /\ a \in Answers \ {"none"} /\ pc[r] # "new"
           \/ p \in {"resolved", "admitted", "upstream"} /\ pc[r] \in Identified /\ a = answer[r],
           a \in Disclosing => pc[r] \in Identified,
           used' \in [Requests -> Queries],
           counts' \in [Counters -> Nat]
    PROVE  GateInv'
<1>1. SwapInv' /\ Current' = Current /\ installed' = installed
      BY SwapUnchanged
<1>2. pc[r] \in RequestPCs /\ answer[r] \in Answers /\ p \in RequestPCs /\ a \in Answers
      BY RequestTypes DEF RequestPCs
<1>3. /\ pc' \in [Requests -> RequestPCs] /\ answer' \in [Requests -> Answers]
      /\ mounted' \in Generations \cup {0}
      /\ input' \in [Requests -> Inputs \cup {NoInput}]
      /\ since' \in [Requests -> Generations \cup {0}]
      /\ snap' \in [Requests -> [entry : Generations \cup {0},
                                 parse : Generations \cup {0},
                                 eval  : Generations \cup {0}]]
      BY <1>2 DEF GateInv, ReqInv, ReqTypeOK
<1>4. ASSUME NEW k \in Requests
      PROVE  /\ input'[k] = NoInput => pc'[k] = "new"
             /\ answer'[k] # "none" <=> pc'[k] = "done"
   <2>1. /\ input[k] = NoInput => pc[k] = "new"
         /\ answer[k] # "none" <=> pc[k] = "done"
         /\ pc \in [Requests -> RequestPCs] /\ answer \in [Requests -> Answers]
         BY DEF GateInv, ReqInv, ReqTypeOK
   <2>2. CASE k = r
      <3>1. pc[r] # "new" /\ (a # "none" <=> p = "done")
            BY <2>1, <2>2 DEF Identified
      <3>2. QED
            BY <2>1, <2>2, <3>1
   <2>3. CASE k # r
         BY <2>1, <2>3
   <2>4. QED
         BY <2>2, <2>3
<1>5. ReqTypeOK'
      BY <1>3, <1>4 DEF ReqTypeOK
<1>6. \A k \in Requests : SnapOrder(k)' /\ CallerKnown(k)'
   <2>1. p = "done" \/ (p \in {"resolved", "admitted", "upstream"} /\ pc[r] \in Identified)
         OBVIOUS
   <2>2. UNCHANGED <<installed, since, snap, input>>
         BY <1>1
   <2>3. QED
         BY <1>1, <2>1, <2>2, AdvanceKeeps
<1>7. QED
      BY <1>1, <1>5, <1>6 DEF GateInv, ReqInv

\* The handlers' endings: a scrape, a rejected body or query, an answer.
LEMMA EndInv ==
    ASSUME GateInv, UNCHANGED swapVars, NEW r \in Requests,
           \/ Scrape(r) \/ RejectBody(r) \/ RejectQuery(r) \/ UpstreamReplies(r)
    PROVE  GateInv'
<1>1. UNCHANGED <<mounted, input, since, snap, used>> /\ pc[r] # "new"
      BY DEF Scrape, RejectBody, RejectQuery, UpstreamReplies
<1>2. used' \in [Requests -> Queries]
      BY <1>1 DEF GateInv, ReqInv, ReqTypeOK
<1>3. counts' \in [Counters -> Nat]
   <2>1. ReqTypeOK
         BY DEF GateInv, ReqInv
   <2>2. counts' = counts \/ \E ks : Count(ks)
         BY DEF Scrape, RejectBody, RejectQuery, UpstreamReplies
   <2>3. QED
         BY <2>1, <2>2, CountType DEF ReqTypeOK
<1>4. PICK a : /\ Finish(r, a)
               /\ a \in Answers \ {"none"}
               /\ a \in Disclosing => pc[r] \in Identified
   <2>1. CASE Scrape(r)
      <3>1. PICK id : Finish(r, IF id = Refused THEN "unauthorised" ELSE "metrics")
            BY <2>1 DEF Scrape
      <3>2. QED
            BY <3>1 DEF Answers, Disclosing
   <2>2. CASE RejectBody(r)
         BY <2>2 DEF RejectBody, Answers, Disclosing, BodyAnswers
   <2>3. CASE RejectQuery(r)
         BY <2>3 DEF RejectQuery, Answers, Identified
   <2>4. CASE UpstreamReplies(r)
      <3>1. PICK b \in {"passed_through", "bad_gateway"} : Finish(r, b)
            BY <2>4 DEF UpstreamReplies
      <3>2. pc[r] = "upstream"
            BY <2>4 DEF UpstreamReplies
      <3>3. QED
            BY <3>1, <3>2 DEF Answers, Identified
   <2>5. QED
         BY <2>1, <2>2, <2>3, <2>4
<1>5. QED
      BY <1>1, <1>2, <1>3, <1>4, AdvanceInv DEF Finish

\* A step of r that keeps the types and the invariants of r keeps them all.
LEMMA StepOfOne ==
    ASSUME GateInv, UNCHANGED swapVars, UNCHANGED <<mounted, input, since, answer>>,
           NEW r \in Requests,
           NEW p \in RequestPCs \ {"new", "done"}, pc' = [pc EXCEPT ![r] = p],
           pc[r] \notin {"new", "done"},
           NEW t \in [entry : Generations \cup {0}, parse : Generations \cup {0},
                      eval : Generations \cup {0}],
           snap' = [snap EXCEPT ![r] = t],
           used' \in [Requests -> Queries],
           counts' \in [Counters -> Nat],
           SnapOrder(r)',
           CallerKnown(r)'
    PROVE  GateInv'
<1>1. SwapInv' /\ Current' = Current /\ installed' = installed
      BY SwapUnchanged
<1>2. ReqTypeOK'
   <2>1. /\ pc' \in [Requests -> RequestPCs]
         /\ snap' \in [Requests -> [entry : Generations \cup {0},
                                    parse : Generations \cup {0},
                                    eval  : Generations \cup {0}]]
         BY DEF GateInv, ReqInv, ReqTypeOK
   <2>2. ASSUME NEW k \in Requests
         PROVE  /\ input'[k] = NoInput => pc'[k] = "new"
                /\ answer'[k] # "none" <=> pc'[k] = "done"
         BY DEF GateInv, ReqInv, ReqTypeOK
   <2>3. QED
         BY <2>1, <2>2 DEF GateInv, ReqInv, ReqTypeOK
<1>3. ASSUME NEW k \in Requests
      PROVE  SnapOrder(k)' /\ CallerKnown(k)'
   <2>1. SnapOrder(k) /\ CallerKnown(k)
         BY DEF GateInv, ReqInv
   <2>2. CASE k = r
         BY <2>2
   <2>3. CASE k # r
      <3>1. UNCHANGED <<pc[k], since[k], snap[k], answer[k], input[k]>>
            BY <2>3 DEF GateInv, ReqInv, ReqTypeOK
      <3>2. QED
            BY <1>1, <2>1, <3>1 DEF SnapOrder, CallerKnown, Refuses
   <2>4. QED
         BY <2>2, <2>3
<1>4. QED
      BY <1>1, <1>2, <1>3 DEF GateInv, ReqInv

\* A handler starts: a search takes its first snapshot.
LEMMA EnterInv ==
    ASSUME GateInv, NEW r \in Requests, Enter(r), UNCHANGED swapVars
    PROVE  GateInv'
<1>1. /\ pc[r] = "accepted" /\ used' = used /\ UNCHANGED <<mounted, input, since>>
      /\ used' \in [Requests -> Queries]
      BY DEF Enter, GateInv, ReqInv, ReqTypeOK
<1>2. CASE ~ input[r].post
   <2>1. Finish(r, "method_not_allowed") /\ UNCHANGED <<snap, counts>>
         BY <1>2 DEF Enter
   <2>2. counts' \in [Counters -> Nat]
         BY <2>1 DEF GateInv, ReqInv, ReqTypeOK
   <2>3. "method_not_allowed" \in Answers \ {"none"} /\ "method_not_allowed" \notin Disclosing
         BY DEF Answers, Disclosing
   <2>4. QED
         BY <1>1, <2>1, <2>2, <2>3, AdvanceInv DEF Finish
<1>3. CASE input[r].post
   <2>1. /\ Goto(r, "entered")
         /\ Count({"requests"})
         /\ snap' = IF input[r].endpoint = "search"
                    THEN [snap EXCEPT ![r].entry = Current]
                    ELSE snap
         BY <1>3 DEF Enter
   <2>2. counts' \in [Counters -> Nat]
         BY <2>1, CountType DEF GateInv, ReqInv
   <2>3. PICK t \in {snap[r], [snap[r] EXCEPT !.entry = Current]} :
               snap' = [snap EXCEPT ![r] = t]
         BY <2>1 DEF GateInv, ReqInv, ReqTypeOK
   <2>4. /\ snap[r] \in [entry : Generations \cup {0}, parse : Generations \cup {0},
                         eval : Generations \cup {0}]
         /\ t \in [entry : Generations \cup {0}, parse : Generations \cup {0},
                   eval : Generations \cup {0}]
         /\ t.parse = snap[r].parse /\ t.eval = snap[r].eval
         /\ t.entry \in {snap[r].entry, Current}
         BY <2>3, SwapFacts DEF GateInv, ReqInv, ReqTypeOK
   <2>5. snap'[r] = t /\ pc'[r] = "entered" /\ answer' = answer /\ Current' = Current
      <3>1. Current' = Current
            BY SwapUnchanged
      <3>2. QED
            BY <3>1, <2>1, <2>3, <2>4 DEF GateInv, ReqInv, ReqTypeOK, Goto
   <2>6. SnapOrder(r)'
      <3>1. SnapOrder(r)
            BY DEF GateInv, ReqInv
      <3>2. Current \in Nat
            BY SwapFacts DEF GateInv
      <3>3. QED
            BY <1>1, <2>4, <2>5, <3>1, <3>2 DEF SnapOrder, Identified
   <2>7. answer[r] = "none"
         BY <1>1 DEF GateInv, ReqInv, ReqTypeOK
   <2>8. CallerKnown(r)'
         BY <2>5, <2>7 DEF CallerKnown, Identified, Disclosing
   <2>9. "entered" \in RequestPCs \ {"new", "done"}
         BY DEF RequestPCs
   <2>10. QED
         BY <1>1, <2>1, <2>2, <2>3, <2>4, <2>5, <2>6, <2>8, <2>9, StepOfOne DEF Goto
<1>4. QED
      BY <1>2, <1>3

\* parseAndAuth takes its snapshot: it is the generation in force, so it is no
\* older than the request and no older than the search's first snapshot.
LEMMA LoadParseInv ==
    ASSUME GateInv, NEW r \in Requests, LoadParse(r), UNCHANGED swapVars
    PROVE  GateInv'
<1> DEFINE t == [snap[r] EXCEPT !.parse = Current]
<1>1. /\ pc[r] = "entered" /\ Goto(r, "reading")
      /\ snap' = [snap EXCEPT ![r] = t]
      /\ UNCHANGED <<mounted, input, since, used, counts>>
      BY DEF LoadParse, Snapshot, GateInv, ReqInv, ReqTypeOK
<1>2. /\ t \in [entry : Generations \cup {0}, parse : Generations \cup {0},
                eval : Generations \cup {0}]
      /\ t.parse = Current /\ t.eval = snap[r].eval /\ t.entry = snap[r].entry
      BY SwapFacts DEF GateInv, ReqInv, ReqTypeOK
<1>3. snap'[r] = t /\ pc'[r] = "reading" /\ answer' = answer /\ Current' = Current
   <2>1. Current' = Current
         BY SwapUnchanged
   <2>2. QED
         BY <2>1, <1>1 DEF GateInv, ReqInv, ReqTypeOK, Goto
<1>4. SnapOrder(r)'
   <2>1. SnapOrder(r)
         BY DEF GateInv, ReqInv
   <2>2. Current \in Nat /\ Current >= 1
         BY SwapFacts DEF GateInv
   <2>3. QED
         BY <1>1, <1>2, <1>3, <2>1, <2>2 DEF SnapOrder, Identified
<1>5. answer[r] = "none"
      BY <1>1 DEF GateInv, ReqInv, ReqTypeOK
<1>6. CallerKnown(r)'
      BY <1>3, <1>5 DEF CallerKnown, Identified, Disclosing
<1>7. used' \in [Requests -> Queries] /\ counts' \in [Counters -> Nat]
      BY <1>1 DEF GateInv, ReqInv, ReqTypeOK
<1>8. "reading" \in RequestPCs \ {"new", "done"}
      BY DEF RequestPCs
<1>9. QED
      BY <1>1, <1>2, <1>3, <1>4, <1>6, <1>7, <1>8, StepOfOne DEF Goto

\* The caller is identified by the snapshot's authenticator, or refused.
LEMMA AuthenticateInv ==
    ASSUME GateInv, NEW r \in Requests, Authenticate(r), UNCHANGED swapVars
    PROVE  GateInv'
<1>1. /\ pc[r] = "reading" /\ UNCHANGED <<mounted, input, since, snap, used>>
      /\ used' \in [Requests -> Queries]
      BY DEF Authenticate, GateInv, ReqInv, ReqTypeOK
<1>2. PICK id \in Identities(ParseConfig(r), input[r]) :
         \/ id = Refused /\ Count({"denials"}) /\ Finish(r, "unauthorised")
         \/ id # Refused /\ Goto(r, "authenticated") /\ UNCHANGED counts
      BY DEF Authenticate
<1>3. CASE id = Refused
   <2>1. Count({"denials"}) /\ Finish(r, "unauthorised")
         BY <1>2, <1>3
   <2>2. counts' \in [Counters -> Nat]
         BY <2>1, CountType DEF GateInv, ReqInv
   <2>3. "unauthorised" \in Answers \ {"none"} /\ "unauthorised" \notin Disclosing
         BY DEF Answers, Disclosing
   <2>4. QED
         BY <1>1, <2>1, <2>2, <2>3, AdvanceInv DEF Finish
<1>4. CASE id # Refused
   <2>1. Goto(r, "authenticated") /\ UNCHANGED counts
         BY <1>2, <1>4
   <2>2. SnapOrder(r) /\ snap[r].parse # 0 /\ snap[r].parse \in Generations
      <3>1. SnapOrder(r) /\ snap[r].parse \in Generations \cup {0}
            BY DEF GateInv, ReqInv, ReqTypeOK
      <3>2. snap[r].parse # 0
            BY <1>1, <3>1 DEF SnapOrder
      <3>3. QED
            BY <3>1, <3>2
   <2>3. ParseConfig(r) \in Configs
         BY <2>2, SwapFacts DEF GateInv, SnapOrder, ParseConfig
   <2>4. ~ Refuses(ParseConfig(r), input[r])
         BY <1>2, <1>4, <2>3, IdentifiedIsKnown
   <2>5. /\ pc'[r] = "authenticated" /\ answer' = answer /\ Current' = Current
         /\ installed' = installed
      <3>1. Current' = Current /\ installed' = installed
            BY SwapUnchanged
      <3>2. QED
            BY <2>1, <3>1 DEF GateInv, ReqInv, ReqTypeOK, Goto
   <2>6. SnapOrder(r)'
         BY <1>1, <2>2, <2>5 DEF SnapOrder, Identified
   <2>7. CallerKnown(r)'
         BY <1>1, <2>2, <2>4, <2>5 DEF CallerKnown, ParseConfig, Refuses
   <2>8. counts' \in [Counters -> Nat] /\ snap' = [snap EXCEPT ![r] = snap[r]]
         /\ snap[r] \in [entry : Generations \cup {0}, parse : Generations \cup {0},
                         eval : Generations \cup {0}]
         BY <1>1, <2>1 DEF GateInv, ReqInv, ReqTypeOK
   <2>9. "authenticated" \in RequestPCs \ {"new", "done"}
         BY DEF RequestPCs
   <2>10. QED
         BY <1>1, <2>1, <2>5, <2>6, <2>7, <2>8, <2>9, StepOfOne DEF Goto
<1>5. QED
      BY <1>3, <1>4

\* evaluate takes its snapshot: it is no older than parseAndAuth's.
LEMMA BeginEvaluateInv ==
    ASSUME GateInv, NEW r \in Requests, BeginEvaluate(r), UNCHANGED swapVars
    PROVE  GateInv'
<1> DEFINE t == [snap[r] EXCEPT !.eval = Current]
<1>1. /\ pc[r] = "authenticated"
      /\ snap' = [snap EXCEPT ![r] = t]
      /\ UNCHANGED <<mounted, input, since, counts>>
      BY DEF BeginEvaluate, Snapshot, GateInv, ReqInv, ReqTypeOK
<1>2. PICK p \in {"resolved", "validating"} : Goto(r, p)
      BY DEF BeginEvaluate
<1>3. used' \in [Requests -> Queries]
   <2>1. input[r] \in Inputs
         BY <1>1, RequestTypes
   <2>2. used' = used \/ used' = [used EXCEPT ![r] = input[r].query]
         BY DEF BeginEvaluate
   <2>3. QED
         BY <2>1, <2>2, QueriesOfInputs DEF GateInv, ReqInv, ReqTypeOK
<1>4. /\ t \in [entry : Generations \cup {0}, parse : Generations \cup {0},
                eval : Generations \cup {0}]
      /\ t.parse = snap[r].parse /\ t.eval = Current /\ t.entry = snap[r].entry
      BY SwapFacts DEF GateInv, ReqInv, ReqTypeOK
<1>5. /\ snap'[r] = t /\ pc'[r] = p /\ answer' = answer /\ Current' = Current
      /\ installed' = installed
   <2>1. Current' = Current /\ installed' = installed
         BY SwapUnchanged
   <2>2. QED
         BY <2>1, <1>1, <1>2 DEF GateInv, ReqInv, ReqTypeOK, Goto
<1>6. SnapOrder(r)'
   <2>1. SnapOrder(r)
         BY DEF GateInv, ReqInv
   <2>2. Current \in Nat /\ snap[r].parse \in Nat
         BY SwapFacts, RequestTypes DEF GateInv
   <2>3. QED
         BY <1>1, <1>2, <1>4, <1>5, <2>1, <2>2 DEF SnapOrder, Identified
<1>7. CallerKnown(r)'
   <2>1. CallerKnown(r)
         BY DEF GateInv, ReqInv
   <2>2. pc[r] \in Identified
         BY <1>1 DEF Identified
   <2>3. QED
         BY <1>1, <1>4, <1>5, <2>1, <2>2 DEF CallerKnown, Refuses
<1>8. counts' \in [Counters -> Nat]
      BY <1>1 DEF GateInv, ReqInv, ReqTypeOK
<1>9. p \in RequestPCs \ {"new", "done"}
      BY <1>2 DEF RequestPCs
<1>10. QED
      BY <1>1, <1>2, <1>3, <1>4, <1>5, <1>6, <1>7, <1>8, <1>9, StepOfOne DEF Goto

\* The validator accepts, the engine decides, the query is forwarded: all from
\* the snapshots already taken.
LEMMA DecideInv ==
    ASSUME GateInv, UNCHANGED swapVars, NEW r \in Requests,
           AcceptQuery(r) \/ Judge(r) \/ Forward(r)
    PROVE  GateInv'
<1>1. /\ UNCHANGED <<mounted, input, since, snap>>
      /\ pc[r] \in {"validating", "resolved", "admitted"}
      BY DEF AcceptQuery, Judge, Forward
<1>2. pc[r] \in Identified /\ pc[r] # "new"
      BY <1>1 DEF Identified
<1>3. used' \in [Requests -> Queries]
   <2>1. input[r] \in Inputs
         BY <1>2, RequestTypes
   <2>2. \/ used' = used
         \/ used' = [used EXCEPT ![r] = input[r].query]
         \/ \E e \in Explanations : used' = [used EXCEPT ![r] = e]
         BY DEF AcceptQuery, Judge, Forward
   <2>3. QED
         BY <2>1, <2>2, QueriesOfInputs DEF GateInv, ReqInv, ReqTypeOK
<1>4. counts' \in [Counters -> Nat]
   <2>1. counts' = counts \/ \E ks : Count(ks)
         BY DEF AcceptQuery, Judge, Forward
   <2>2. QED
         BY <2>1, CountType DEF GateInv, ReqInv, ReqTypeOK
<1>5. \/ \E p \in {"resolved", "admitted", "upstream"} : Goto(r, p)
      \/ \E a \in {"denied", "allowed", "bad_request", "internal_server_error"} : Finish(r, a)
      BY DEF AcceptQuery, Judge, Forward
<1>6. ASSUME NEW p \in {"resolved", "admitted", "upstream"}, Goto(r, p)
      PROVE  GateInv'
   <2>1. answer' = [answer EXCEPT ![r] = answer[r]] /\ pc' = [pc EXCEPT ![r] = p]
         BY <1>6 DEF Goto, GateInv, ReqInv, ReqTypeOK
   <2>2. answer[r] \notin Disclosing
      <3>1. answer[r] = "none"
            BY <1>1 DEF GateInv, ReqInv, ReqTypeOK
      <3>2. QED
            BY <3>1 DEF Disclosing
   <2>3. QED
         BY <1>1, <1>2, <1>3, <1>4, <2>1, <2>2, AdvanceInv
<1>7. ASSUME NEW a \in {"denied", "allowed", "bad_request", "internal_server_error"}, Finish(r, a)
      PROVE  GateInv'
   <2>1. a \in Answers \ {"none"}
         BY DEF Answers
   <2>2. QED
         BY <1>1, <1>2, <1>3, <1>4, <1>7, <2>1, AdvanceInv DEF Finish
<1>8. QED
      BY <1>5, <1>6, <1>7

-----------------------------------------------------------------------------
\* Every step of the gate keeps the invariant.
LEMMA GateStepInv == GateInv /\ [Next \/ Stopped]_vars => GateInv'
<1> SUFFICES ASSUME GateInv, [Next \/ Stopped]_vars PROVE GateInv'
    OBVIOUS
<1>1. CASE SwapNext /\ UNCHANGED reqVars
      BY <1>1, SwapKeepsReqInv DEF SwapStep
<1>2. CASE Mount /\ UNCHANGED swapVars
      BY <1>2, MountInv
<1>3. ASSUME NEW r \in Requests, NEW in \in Inputs, Accept(r, in), UNCHANGED swapVars
      PROVE  GateInv'
      BY <1>3, AcceptInv
<1>4. ASSUME NEW r \in Requests, Step(r), UNCHANGED swapVars
      PROVE  GateInv'
      BY <1>4, EndInv, EnterInv, LoadParseInv, AuthenticateInv, BeginEvaluateInv, DecideInv
      DEF Step
<1>5. CASE Stopped
      BY <1>5, SwapKeepsReqInv DEF Stopped, Exited, SwapStep
<1>6. CASE UNCHANGED vars
      BY <1>6, SwapKeepsReqInv DEF vars, SwapStep
<1>7. QED
      BY <1>1, <1>2, <1>3, <1>4, <1>5, <1>6 DEF Next, ReqNext

\* GateInv is an invariant of the gate.
THEOREM GateInvariant == SafeSpec => []GateInv
<1>1. Init => GateInv
      BY GateInitInv
<1>2. GateInv /\ [Next \/ Stopped]_vars => GateInv'
      BY GateStepInv
<1>3. QED
      BY <1>1, <1>2, PTL DEF SafeSpec

\* Every variable of the gate and of the configuration swap keeps its type, a
\* request has an answer exactly when its handler is done, and only an accepted
\* request carries an input.
THEOREM GateTypeCorrect == SafeSpec => []TypeOK
<1>1. GateInv => TypeOK
      BY DEF GateInv, SwapInv, ReqInv, TypeOK
<1>2. QED
      BY <1>1, GateInvariant, PTL

\* A handler never works with a configuration older than the one in force when
\* its request was accepted, nor with a later snapshot older than an earlier.
THEOREM SnapshotsFresh == SafeSpec => []NoStaleSnapshot
<1>1. GateInv => NoStaleSnapshot
      BY DEF GateInv, ReqInv, SnapOrder, NoStaleSnapshot
<1>2. QED
      BY <1>1, GateInvariant, PTL

\* A credential that no configuration in force since the request was accepted
\* knows gets no verdict, no validation result and no answer of the upstream.
THEOREM RevokedGetsNothing == SafeSpec => []RevokedStaysOut
<1>1. GateInv => RevokedStaysOut
   <2> SUFFICES ASSUME GateInv, NEW r \in Requests, RevokedThroughout(r),
                       answer[r] \in Disclosing
                PROVE  FALSE
       BY DEF RevokedStaysOut
   <2>1. SnapOrder(r) /\ CallerKnown(r)
         BY DEF GateInv, ReqInv
   <2>2. snap[r].parse # 0 /\ ~ Refuses(installed[snap[r].parse], input[r])
         BY <2>1 DEF CallerKnown
   <2>3. snap[r].parse \in since[r] .. Current
      <3>1. since[r] \in Nat /\ snap[r].parse \in Nat /\ Current \in Nat
            BY RequestTypes, SwapFacts DEF GateInv
      <3>2. QED
            BY <2>1, <2>2, <3>1 DEF SnapOrder
   <2>4. QED
         BY <2>2, <2>3 DEF RevokedThroughout
<1>2. QED
      BY <1>1, GateInvariant, PTL

\* In the running gate, too, every authenticator a reload replaced is closed by
\* a reload exactly once and the one in force by none.
THEOREM GateRetiresOnce == SafeSpec => []AuthLedger
<1>1. GateInv => AuthLedger
      BY DEF GateInv, SwapInv
<1>2. QED
      BY <1>1, GateInvariant, PTL
=============================================================================
