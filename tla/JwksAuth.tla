------------------------------ MODULE JwksAuth ------------------------------
(***************************************************************************)
(* One JWKS authenticator (internal/auth/jwks.go): requests that call      *)
(* Authenticate, the first of which sets the authenticator up, and the     *)
(* Close that retires it, possibly while requests still hold it.           *)
(*                                                                         *)
(* init() has no lock.  Its fields are read and written by every handler   *)
(* that finds parsed unset, and by handlers that find it set without       *)
(* having written it.  Each set-up stores the name of the plan claim twice,*)
(* first as configured and then, that being empty, as "plan"; it creates a *)
(* context, and the keyfunc library starts a refresher, a goroutine that   *)
(* fetches the key set again until that context is cancelled.  A context   *)
(* and its refresher are named by the request that created them.           *)
(*                                                                         *)
(* The user claim is stored and read like the plan claim and left out: no  *)
(* rule reads the user id.                                                 *)
(***************************************************************************)
EXTENDS Naturals, FiniteSets

CONSTANTS
    Requests,   \* requests that authenticate with this authenticator
    Nobody,     \* a nil pointer: no context, no keyfunc
    Configured, \* the configuration names the plan claim (jwt_plan_claim)
    InOrder     \* the machine lets nobody see parsed before what was stored earlier

ASSUME JwksAssumption ==
    /\ Nobody \notin Requests
    /\ Configured \in BOOLEAN
    /\ InOrder \in BOOLEAN

VARIABLES
    parsed,     \* j.parsed
    named,      \* j.planClaim holds the claim's name, not ""
    cancelFunc, \* j.cancelFunc, by the context it cancels
    keyfunc,    \* j.keyfunc, by its context
    created,    \* contexts created
    cancelled,  \* contexts cancelled
    refreshing, \* contexts whose refresher was started
    pc,         \* per request: idle, naming, defaulting, creating, fetching,
                \* publishing, verifying, verified, done, planless, failed
    closed,     \* Close() was called
    raced       \* two set-ups overlapped, or one went on after Close

vars == <<parsed, named, cancelFunc, keyfunc, created, cancelled, refreshing, pc, closed, raced>>

PCs == {"idle", "naming", "defaulting", "creating", "fetching", "publishing",
        "verifying", "verified", "done", "planless", "failed"}

TypeOK ==
    /\ parsed \in BOOLEAN
    /\ named \in BOOLEAN
    /\ cancelFunc \in Requests \cup {Nobody}
    /\ keyfunc \in Requests \cup {Nobody}
    /\ created \subseteq Requests
    /\ cancelled \subseteq created
    /\ refreshing \subseteq created
    /\ pc \in [Requests -> PCs]
    /\ closed \in BOOLEAN
    /\ raced \in BOOLEAN

Init ==
    /\ parsed = FALSE
    /\ named = FALSE
    /\ cancelFunc = Nobody
    /\ keyfunc = Nobody
    /\ created = {}
    /\ cancelled = {}
    /\ refreshing = {}
    /\ pc = [r \in Requests |-> "idle"]
    /\ closed = FALSE
    /\ raced = FALSE

-----------------------------------------------------------------------------
InSetUp(r) == pc[r] \in {"naming", "defaulting", "creating", "fetching", "publishing"}

Goto(r, p) == pc' = [pc EXCEPT ![r] = p]

\* The refreshers that run.
Live == refreshing \ cancelled

\* init() finds parsed set.
FindSet(r) ==
    /\ pc[r] = "idle"
    /\ parsed
    /\ Goto(r, "verifying")
    /\ UNCHANGED <<parsed, named, cancelFunc, keyfunc, created, cancelled, refreshing, closed, raced>>

\* init() finds parsed unset.
FindUnset(r) ==
    /\ pc[r] = "idle"
    /\ ~ parsed
    /\ Goto(r, "naming")
    /\ raced' = (raced \/ closed \/ \E o \in Requests : InSetUp(o))
    /\ UNCHANGED <<parsed, named, cancelFunc, keyfunc, created, cancelled, refreshing, closed>>

\* The claim's name is stored as it is configured: empty, if it is not.
NameClaim(r) ==
    /\ pc[r] = "naming"
    /\ named' = Configured
    /\ Goto(r, "defaulting")
    /\ UNCHANGED <<parsed, cancelFunc, keyfunc, created, cancelled, refreshing, closed, raced>>

BrokenDefaultClaim(r) ==
    /\ pc[r] = "defaulting"
    /\ Goto(r, "creating")
    /\ UNCHANGED <<parsed, named, cancelFunc, keyfunc, created, cancelled, refreshing, closed, raced>>

\* An empty name becomes "plan".
DefaultClaim(r) ==
    /\ pc[r] = "defaulting"
    /\ named' = TRUE
    /\ Goto(r, "creating")
    /\ UNCHANGED <<parsed, cancelFunc, keyfunc, created, cancelled, refreshing, closed, raced>>

BrokenStoredCancel(r) == cancelFunc

\* What init() leaves in j.cancelFunc for Close.
StoredCancel(r) == r

\* context.WithCancel, and its cancel function stored for Close.
CreateContext(r) ==
    /\ pc[r] = "creating"
    /\ created' = created \cup {r}
    /\ cancelFunc' = StoredCancel(r)
    /\ Goto(r, "fetching")
    /\ UNCHANGED <<parsed, named, keyfunc, cancelled, refreshing, closed, raced>>

\* keyfunc.NewDefaultCtx starts the refresher of the context and fetches.
FetchKeys(r) ==
    /\ pc[r] = "fetching"
    /\ refreshing' = refreshing \cup {r}
    /\ Goto(r, "publishing")
    /\ UNCHANGED <<parsed, named, cancelFunc, keyfunc, created, cancelled, closed, raced>>

BrokenFailedContext(r) == cancelFunc

\* cancel(), the local variable of init().
FailedContext(r) == r

\* NewDefaultCtx fails: init() cancels its own context, Authenticate fails and
\* the next request tries again.
FetchFails(r) ==
    /\ pc[r] = "fetching"
    /\ cancelled' = cancelled \cup {FailedContext(r)}
    /\ Goto(r, "failed")
    /\ UNCHANGED <<parsed, named, cancelFunc, keyfunc, created, refreshing, closed, raced>>

\* j.keyfunc and j.parsed are stored.
Publish(r) ==
    /\ pc[r] = "publishing"
    /\ keyfunc' = r
    /\ parsed' = TRUE
    /\ Goto(r, "verifying")
    /\ UNCHANGED <<named, cancelFunc, created, cancelled, refreshing, closed, raced>>

\* What request r may find in a field that holds now.  Who set the
\* authenticator up finds own, what it stored itself, or what an overlapping
\* set-up stored since.  For the others nothing orders the reading after the
\* writing: unless the machine does, on arm64 say, the field may look unset.
Seen(r, now, own, unset) ==
    {now} \cup (IF r \in created THEN {own} ELSE IF InOrder THEN {} ELSE {unset})

\* ParseWithClaims reads j.keyfunc: without one no token is valid, with one the
\* token decides.
Verify(r) ==
    /\ pc[r] = "verifying"
    /\ \/ /\ \E k \in Seen(r, keyfunc, r, Nobody) : k # Nobody
          /\ Goto(r, "verified")
       \/ Goto(r, "failed")
    /\ UNCHANGED <<parsed, named, cancelFunc, keyfunc, created, cancelled, refreshing, closed, raced>>

\* The token is good and names a plan.  j.planClaim is read now: under an empty
\* name no claim is found, and the caller is let in without a plan.
ReadPlan(r) ==
    /\ pc[r] = "verified"
    /\ \E n \in Seen(r, named, TRUE, FALSE) : Goto(r, IF n THEN "done" ELSE "planless")
    /\ UNCHANGED <<parsed, named, cancelFunc, keyfunc, created, cancelled, refreshing, closed, raced>>

BrokenCancellable == {cancelFunc}

\* The context Close cancels, if a set-up has stored one.
Cancellable == {cancelFunc} \ {Nobody}

\* Close(), from UpdateConfig's goroutine or Server.Close.
Close ==
    /\ ~ closed
    /\ closed' = TRUE
    /\ cancelled' = cancelled \cup Cancellable
    /\ raced' = (raced \/ \E r \in Requests : InSetUp(r))
    /\ UNCHANGED <<parsed, named, cancelFunc, keyfunc, created, refreshing, pc>>

Authenticate(r) ==
    \/ FindSet(r) \/ FindUnset(r) \/ NameClaim(r) \/ DefaultClaim(r) \/ CreateContext(r)
    \/ FetchKeys(r) \/ FetchFails(r) \/ Publish(r) \/ Verify(r) \/ ReadPlan(r)

Next == Close \/ \E r \in Requests : Authenticate(r)

Spec == Init /\ [][Next]_vars

-----------------------------------------------------------------------------
\* Close stops the refresher of an authenticator whose set-up was never
\* entered twice at once nor after Close, whatever set-ups failed before.
QuietUseStops == (closed /\ ~ raced) => Live = {}

\* The keys requests verify with are being refreshed until Close: a set-up that
\* fails beside another never takes the refresher of the one that is used.
PublishedKeysRefresh == (keyfunc # Nobody /\ ~ closed) => keyfunc \in Live

\* parsed promises a complete set-up to whoever finds it set: keys, and the name
\* of the plan claim, which is away only while another set-up, begun before
\* parsed was set, is between its two stores.  However set-ups overlap and fail,
\* the name is back when they are over.
SetUpIsComplete ==
    parsed => /\ keyfunc # Nobody
              /\ named \/ (raced /\ \E r \in Requests : pc[r] = "defaulting")

\* "PlanClaim is the JWT claim containing the plan.  Defaults to "plan"": a good
\* token whose plan claim has the name it should is never taken for one without.
PlanIsRead == \A r \in Requests : pc[r] # "planless"

\* "Close stops the background JWKS refresh goroutine": once Close was called
\* and no call is setting the authenticator up, no refresher runs.
CloseStops == (closed /\ \A r \in Requests : ~ InSetUp(r)) => Live = {}
=============================================================================
