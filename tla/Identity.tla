------------------------------ MODULE Identity ------------------------------
(***************************************************************************)
(* Whom the rules take a request to come from: internal/auth's static      *)
(* authenticators, Context.ToMap, the merge with the body's context and    *)
(* rules.PlanFromContext.                                                  *)
(*                                                                         *)
(* A context is a function from keys to values; the value of "user" is a   *)
(* set of at most one plan, {} when it is no object or names none.  What   *)
(* a credential stands for is [plan, extra]: the plan of an API key or of  *)
(* the plan claim, and the other claims, a context.  A request's           *)
(* Authorization is [scheme, key], its body's context is body.             *)
(***************************************************************************)
EXTENDS FiniteSets

\* One function over another.
Over(f, g) == [k \in DOMAIN f \cup DOMAIN g |-> IF k \in DOMAIN f THEN f[k] ELSE g[k]]

\* The plan a user names.
PlanOf(user) == IF user = {} THEN "default" ELSE CHOOSE p \in user : TRUE

\* PlanFromContext.
PlanFromContext(ctx) == IF "user" \in DOMAIN ctx THEN PlanOf(ctx["user"]) ELSE "default"

\* ToMap: extra claims are written after the user and may replace it.
ToMap(cred) == Over(cred.extra, [user |-> {cred.plan}])

BrokenMergeContext(base, override) == Over(base, override)

\* mergeContext: a key of override hides the base's whole value.
MergeContext(base, override) == Over(override, base)

\* extractBearer asks for the scheme of the authenticator, in any case.
Scheme == [keys |-> "apikey", jwt |-> "bearer"]

\* Authenticate of APIKey and JWT: the key is known, or the token is signed and good.
Authenticates(c, rq) ==
    c.auth # "none" => rq.scheme = Scheme[c.auth] /\ rq.key \in DOMAIN c.credentials

\* parseAndAuth: NoOp's default plan gives way to the body, a credential does not.
ContextOf(c, rq) ==
    IF c.auth = "none"
    THEN MergeContext(ToMap([plan |-> "default", extra |-> <<>>]), rq.body)
    ELSE MergeContext(rq.body, ToMap(c.credentials[rq.key]))
=============================================================================
