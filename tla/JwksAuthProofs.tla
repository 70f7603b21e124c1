--------------------------- MODULE JwksAuthProofs ---------------------------
(***************************************************************************)
(* Proofs about JwksAuth, for any number of requests: what is published is *)
(* complete and keeps refreshing until Close, and Close stops an           *)
(* authenticator whose set-ups never overlapped it or one another.         *)
(***************************************************************************)
EXTENDS JwksAuth, TLAPS

\* How far each request's own set-up has got, whatever the others do.
OwnSetUp(r) ==
    /\ pc[r] \in {"fetching", "publishing"} => r \in created
    /\ pc[r] = "publishing" => r \in refreshing
    /\ r \in created => pc[r] \notin {"idle", "naming", "defaulting", "creating"}
    /\ r \in refreshing => pc[r] \notin {"idle", "naming", "defaulting", "creating", "fetching"}
    /\ pc[r] \in {"fetching", "publishing"} => (r \in cancelled => closed)

\* What the authenticator verifies with was published by a set-up that is over
\* and has been cancelled by nobody but Close.
Published ==
    /\ cancelFunc # Nobody => cancelFunc \in created
    /\ keyfunc # Nobody => /\ keyfunc \in refreshing
                           /\ pc[keyfunc] \in {"verifying", "verified", "done", "planless", "failed"}
                           /\ keyfunc \in cancelled => closed
    /\ parsed => keyfunc # Nobody

\* The claim's name is in place once a set-up has stored both of its values,
\* but for another that has stored only the first.
NameStands ==
    (parsed \/ \E r \in Requests : pc[r] \in {"creating", "fetching", "publishing"}) =>
        named \/ \E r \in Requests : pc[r] = "defaulting"

\* While no set-up has overlapped another or Close: one set-up at a time, none
\* after a publication or Close, its context the one Close would cancel, and
\* no other refresher alive.
Orderly ==
    ~ raced =>
        /\ \A r, o \in Requests : InSetUp(r) /\ InSetUp(o) => r = o
        /\ \A r \in Requests : InSetUp(r) => ~ parsed /\ ~ closed
        /\ \A r \in Requests : pc[r] \in {"fetching", "publishing"} => cancelFunc = r
        /\ \A q \in Live : cancelFunc = q /\ (parsed \/ pc[q] = "publishing")
        /\ closed => Live = {}

JwksInv == TypeOK /\ (\A r \in Requests : OwnSetUp(r)) /\ Published /\ NameStands /\ Orderly

-----------------------------------------------------------------------------
\* Nothing has been set up initially.
LEMMA JwksInitInv == Init => JwksInv
<1> SUFFICES ASSUME Init PROVE JwksInv
    OBVIOUS
<1> USE JwksAssumption DEF Init
<1>1. TypeOK
      BY DEF TypeOK, PCs
<1>2. \A r \in Requests : OwnSetUp(r)
      BY DEF OwnSetUp
<1>3. Published
      BY DEF Published
<1>4. \A r \in Requests : ~ InSetUp(r)
      BY DEF InSetUp
<1>5. Orderly
      BY <1>4 DEF Orderly, Live
<1>6. NameStands
      BY DEF NameStands
<1>7. QED
      BY <1>1, <1>2, <1>3, <1>5, <1>6 DEF JwksInv

\* FindSet: a request that finds the authenticator set up stores nothing.
LEMMA FindSetInv ==
    ASSUME JwksInv, NEW r \in Requests, FindSet(r)
    PROVE  JwksInv'
<1> USE JwksAssumption DEF FindSet, Goto, PCs, InSetUp
<1>1. TypeOK'
      BY DEF JwksInv, TypeOK
<1>2. \A q \in Requests : OwnSetUp(q)'
      BY DEF JwksInv, TypeOK, OwnSetUp
<1>3. Published'
      BY DEF JwksInv, TypeOK, OwnSetUp, Published
<1>4. Orderly'
      BY DEF JwksInv, TypeOK, OwnSetUp, Published, Orderly, Live
<1>5. NameStands'
      BY DEF JwksInv, TypeOK, NameStands
<1>6. QED
      BY <1>1, <1>2, <1>3, <1>4, <1>5 DEF JwksInv

\* FindUnset: a set-up begins; it is recorded if it overlaps another or Close.
LEMMA FindUnsetInv ==
    ASSUME JwksInv, NEW r \in Requests, FindUnset(r)
    PROVE  JwksInv'
<1> USE JwksAssumption DEF FindUnset, Goto, PCs, InSetUp
<1>1. TypeOK'
      BY DEF JwksInv, TypeOK
<1>2. \A q \in Requests : OwnSetUp(q)'
      BY DEF JwksInv, TypeOK, OwnSetUp
<1>3. Published'
      BY DEF JwksInv, TypeOK, OwnSetUp, Published
<1>4. Orderly'
      BY DEF JwksInv, TypeOK, OwnSetUp, Published, Orderly, Live
<1>5. NameStands'
      BY DEF JwksInv, TypeOK, NameStands
<1>6. QED
      BY <1>1, <1>2, <1>3, <1>4, <1>5 DEF JwksInv

\* NameClaim: from here on another store is due.
LEMMA NameClaimInv ==
    ASSUME JwksInv, NEW r \in Requests, NameClaim(r)
    PROVE  JwksInv'
<1> USE JwksAssumption DEF NameClaim, Goto, PCs, InSetUp
<1>1. TypeOK'
      BY DEF JwksInv, TypeOK
<1>2. \A q \in Requests : OwnSetUp(q)'
      BY DEF JwksInv, TypeOK, OwnSetUp
<1>3. Published'
      BY DEF JwksInv, TypeOK, OwnSetUp, Published
<1>4. Orderly'
      BY DEF JwksInv, TypeOK, OwnSetUp, Published, Orderly, Live
<1>5. NameStands'
      BY DEF JwksInv, TypeOK, NameStands
<1>6. QED
      BY <1>1, <1>2, <1>3, <1>4, <1>5 DEF JwksInv

\* DefaultClaim: the name is in place again, whoever emptied it.
LEMMA DefaultClaimInv ==
    ASSUME JwksInv, NEW r \in Requests, DefaultClaim(r)
    PROVE  JwksInv'
<1> USE JwksAssumption DEF DefaultClaim, Goto, PCs, InSetUp
<1>1. TypeOK'
      BY DEF JwksInv, TypeOK
<1>2. \A q \in Requests : OwnSetUp(q)'
      BY DEF JwksInv, TypeOK, OwnSetUp
<1>3. Published'
      BY DEF JwksInv, TypeOK, OwnSetUp, Published
<1>4. Orderly'
      BY DEF JwksInv, TypeOK, OwnSetUp, Published, Orderly, Live
<1>5. NameStands'
      BY DEF JwksInv, TypeOK, NameStands
<1>6. QED
      BY <1>1, <1>2, <1>3, <1>4, <1>5 DEF JwksInv

\* CreateContext: the new context replaces one whose refresher, without overlaps, is dead.
LEMMA CreateContextInv ==
    ASSUME JwksInv, NEW r \in Requests, CreateContext(r)
    PROVE  JwksInv'
<1> USE JwksAssumption DEF CreateContext, StoredCancel, Goto, PCs, InSetUp
<1>1. TypeOK'
      BY DEF JwksInv, TypeOK
<1>2. \A q \in Requests : OwnSetUp(q)'
      BY DEF JwksInv, TypeOK, OwnSetUp
<1>3. Published'
      BY DEF JwksInv, TypeOK, OwnSetUp, Published
<1>4. Orderly'
      BY DEF JwksInv, TypeOK, OwnSetUp, Published, Orderly, Live
<1>5. NameStands'
      BY DEF JwksInv, TypeOK, NameStands
<1>6. QED
      BY <1>1, <1>2, <1>3, <1>4, <1>5 DEF JwksInv

\* FetchKeys: the refresher started is the one Close would stop.
LEMMA FetchKeysInv ==
    ASSUME JwksInv, NEW r \in Requests, FetchKeys(r)
    PROVE  JwksInv'
<1> USE JwksAssumption DEF FetchKeys, Goto, PCs, InSetUp
<1>1. TypeOK'
      BY DEF JwksInv, TypeOK, OwnSetUp
<1>2. \A q \in Requests : OwnSetUp(q)'
  <2>1. r \in Requests /\ pc[r] = "fetching" /\ pc' = [pc EXCEPT ![r] = "publishing"]
        OBVIOUS
  <2>2. r \notin refreshing /\ (r \in cancelled => closed)
        BY DEF JwksInv, OwnSetUp
  <2> USE DEF JwksInv, TypeOK, OwnSetUp
  <2>3. OwnSetUp(r)'
        BY <2>1, <2>2
  <2>4. \A q \in Requests \ {r} : OwnSetUp(q)'
        BY <2>1
  <2>5. QED
        BY <2>3, <2>4
<1>3. Published'
      BY DEF JwksInv, TypeOK, OwnSetUp, Published
<1>4. Orderly'
      BY DEF JwksInv, TypeOK, OwnSetUp, Published, Orderly, Live
<1>5. NameStands'
      BY DEF JwksInv, TypeOK, NameStands
<1>6. QED
      BY <1>1, <1>2, <1>3, <1>4, <1>5 DEF JwksInv

\* FetchFails: a failing set-up cancels its own context only.
LEMMA FetchFailsInv ==
    ASSUME JwksInv, NEW r \in Requests, FetchFails(r)
    PROVE  JwksInv'
<1> USE JwksAssumption DEF FetchFails, FailedContext, Goto, PCs, InSetUp
<1>1. TypeOK'
      BY DEF JwksInv, TypeOK, OwnSetUp
<1>2. \A q \in Requests : OwnSetUp(q)'
      BY DEF JwksInv, TypeOK, OwnSetUp
<1>3. Published'
      BY DEF JwksInv, TypeOK, OwnSetUp, Published
<1>4. Orderly'
      BY DEF JwksInv, TypeOK, OwnSetUp, Published, Orderly, Live
<1>5. NameStands'
      BY DEF JwksInv, TypeOK, NameStands
<1>6. QED
      BY <1>1, <1>2, <1>3, <1>4, <1>5 DEF JwksInv

\* Publish: what is published is the publisher's own, refreshing keyfunc.
LEMMA PublishInv ==
    ASSUME JwksInv, NEW r \in Requests, Publish(r)
    PROVE  JwksInv'
<1> USE JwksAssumption DEF Publish, Goto, PCs, InSetUp
<1>1. TypeOK'
      BY DEF JwksInv, TypeOK
<1>2. \A q \in Requests : OwnSetUp(q)'
      BY DEF JwksInv, TypeOK, OwnSetUp
<1>3. Published'
      BY DEF JwksInv, TypeOK, OwnSetUp, Published
<1>4. Orderly'
      BY DEF JwksInv, TypeOK, OwnSetUp, Published, Orderly, Live
<1>5. NameStands'
      BY DEF JwksInv, TypeOK, NameStands
<1>6. QED
      BY <1>1, <1>2, <1>3, <1>4, <1>5 DEF JwksInv

\* Verify: a request stores nothing once it is set up.
LEMMA VerifyInv ==
    ASSUME JwksInv, NEW r \in Requests, Verify(r)
    PROVE  JwksInv'
<1> USE JwksAssumption DEF Verify, Goto, PCs, InSetUp
<1>1. TypeOK'
      BY DEF JwksInv, TypeOK
<1>2. \A q \in Requests : OwnSetUp(q)'
      BY DEF JwksInv, TypeOK, OwnSetUp
<1>3. Published'
      BY DEF JwksInv, TypeOK, OwnSetUp, Published
<1>4. Orderly'
      BY DEF JwksInv, TypeOK, OwnSetUp, Published, Orderly, Live
<1>5. NameStands'
      BY DEF JwksInv, TypeOK, NameStands
<1>6. QED
      BY <1>1, <1>2, <1>3, <1>4, <1>5 DEF JwksInv

\* ReadPlan: nor does it here.
LEMMA ReadPlanInv ==
    ASSUME JwksInv, NEW r \in Requests, ReadPlan(r)
    PROVE  JwksInv'
<1> USE JwksAssumption DEF ReadPlan, Goto, PCs, InSetUp
<1>1. TypeOK'
      BY DEF JwksInv, TypeOK
<1>2. \A q \in Requests : OwnSetUp(q)'
      BY DEF JwksInv, TypeOK, OwnSetUp
<1>3. Published'
      BY DEF JwksInv, TypeOK, OwnSetUp, Published
<1>4. Orderly'
      BY DEF JwksInv, TypeOK, OwnSetUp, Published, Orderly, Live
<1>5. NameStands'
      BY DEF JwksInv, TypeOK, NameStands
<1>6. QED
      BY <1>1, <1>2, <1>3, <1>4, <1>5 DEF JwksInv

\* Close: Close cancels the context stored last.
LEMMA CloseInv ==
    ASSUME JwksInv, Close
    PROVE  JwksInv'
<1> USE JwksAssumption DEF Close, Cancellable, Goto, PCs, InSetUp
<1>1. TypeOK'
      BY DEF JwksInv, TypeOK, Published
<1>2. \A q \in Requests : OwnSetUp(q)'
      BY DEF JwksInv, TypeOK, OwnSetUp
<1>3. Published'
      BY DEF JwksInv, TypeOK, OwnSetUp, Published
<1>4. Orderly'
  <2>1. SUFFICES ASSUME ~ raced'
                 PROVE  /\ Live' = {}
                        /\ \A q \in Requests : ~ InSetUp(q)'
        BY DEF Orderly
  <2>2. ~ raced /\ \A q \in Requests : ~ InSetUp(q)
        BY <2>1 DEF JwksInv, TypeOK
  <2>3. \A q \in Live : q = cancelFunc
        BY <2>2 DEF JwksInv, Orderly
  <2>4. Live \subseteq Cancellable
        BY <2>3 DEF Live, JwksInv, TypeOK
  <2>5. Live' = {}
        BY <2>4 DEF Live
  <2>6. QED
        BY <2>2, <2>5
<1>5. NameStands'
      BY DEF JwksInv, TypeOK, NameStands
<1>6. QED
      BY <1>1, <1>2, <1>3, <1>4, <1>5 DEF JwksInv

-----------------------------------------------------------------------------
LEMMA JwksStepInv == JwksInv /\ [Next]_vars => JwksInv'
<1> SUFFICES ASSUME JwksInv, [Next]_vars PROVE JwksInv'
    OBVIOUS
<1>1. CASE Close
      BY <1>1, CloseInv
<1>2. ASSUME NEW r \in Requests, Authenticate(r) PROVE JwksInv'
      BY <1>2, FindSetInv, FindUnsetInv, NameClaimInv, DefaultClaimInv, CreateContextInv,
         FetchKeysInv, FetchFailsInv, PublishInv, VerifyInv, ReadPlanInv DEF Authenticate
<1>3. CASE UNCHANGED vars
  <2> USE <1>3 DEF vars
  <2>1. TypeOK'
        BY DEF JwksInv, TypeOK
  <2>2. \A q \in Requests : OwnSetUp(q)'
        BY DEF JwksInv, OwnSetUp
  <2>3. Published'
        BY DEF JwksInv, Published
  <2>4. Orderly'
        BY DEF JwksInv, Orderly, InSetUp, Live
  <2>5. NameStands'
        BY DEF JwksInv, NameStands
  <2>6. QED
        BY <2>1, <2>2, <2>3, <2>4, <2>5 DEF JwksInv
<1>4. QED
      BY <1>1, <1>2, <1>3 DEF Next

\* The inductive invariant holds for any number of requests.
THEOREM JwksInvariant == Spec => []JwksInv
<1>1. QED
      BY JwksInitInv, JwksStepInv, PTL DEF Spec

\* Every field keeps its type, and only created contexts are cancelled or
\* refreshed.
THEOREM JwksTypeCorrect == Spec => []TypeOK
<1>1. JwksInv => TypeOK
      BY DEF JwksInv
<1>2. QED
      BY <1>1, JwksInvariant, PTL

\* The keys in use are being refreshed until Close, whatever set-ups overlap
\* and fail (init, jwks.go).
THEOREM KeysRefreshUntilClose == Spec => []PublishedKeysRefresh
<1>1. JwksInv => PublishedKeysRefresh
      BY DEF JwksInv, Published, PublishedKeysRefresh, Live
<1>2. QED
      BY <1>1, JwksInvariant, PTL

\* Once parsed is set there are keys, and the plan claim has its name but for a
\* while in which an overlapping set-up has stored the configured one and not yet
\* the default (init, jwks.go:92-99).
THEOREM PublishedWhole == Spec => []SetUpIsComplete
<1>1. JwksInv => SetUpIsComplete
  <2> SUFFICES ASSUME JwksInv, parsed
               PROVE  /\ keyfunc # Nobody
                      /\ named \/ (raced /\ \E r \in Requests : pc[r] = "defaulting")
      BY DEF SetUpIsComplete
  <2>1. keyfunc # Nobody /\ (named \/ \E r \in Requests : pc[r] = "defaulting")
        BY DEF JwksInv, Published, NameStands
  <2>2. ASSUME NEW r \in Requests, pc[r] = "defaulting" PROVE raced
        BY <2>2 DEF JwksInv, Orderly, InSetUp
  <2>3. QED
        BY <2>1, <2>2
<1>2. QED
      BY <1>1, JwksInvariant, PTL

\* Close stops an authenticator whose set-ups were never concurrent with it or
\* with one another.
THEOREM CloseStopsQuietUse == Spec => []QuietUseStops
<1>1. JwksInv => QuietUseStops
      BY DEF JwksInv, Orderly, QuietUseStops
<1>2. QED
      BY <1>1, JwksInvariant, PTL
=============================================================================
