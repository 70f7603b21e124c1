# A TLA+ model of es-querycost

es-querycost is an HTTP gate in front of Elasticsearch. It authenticates a
caller, parses the caller's Lucene query, prices it, asks a rule engine whether
the caller's plan allows it, and forwards it with a date window. Two things are
hard. The configuration every decision rests on is replaced while requests run,
by goroutines that a file watcher starts, and authenticators own goroutines that
must be stopped. And what is priced and judged is a syntax tree, while what is
sent is a text written from it, which another parser reads. This directory
models both, checks them with TLC and proves with TLAPS what can be proved of them.

File names below are relative to `src/internal` unless they start with `src/`.

## Inventory

| Component | State it keeps | Operations | Interacts with |
| --- | --- | --- | --- |
| `proxy.Server`: configuration swap | `state`, an `atomic.Value` of `serverState` (config, cost model, engine, validator, authenticator, client, target) | `NewServer`, `current`, `UpdateConfig`, `Close` | called by the watcher's loaders and by main; starts goroutines that close authenticators |
| `proxy.Server`: handlers | none of its own but locals: up to three snapshots of `state`, the request, its context, the AST | `handleSearch`, `handleValidate`, `parseAndAuth`, `evaluate`, `resolveQuery`, `injectDefaultWindow`, `requireAuth` | authenticator, validator, engine, metrics, upstream client |
| `config.Watch` | `pending`, `cancelled`, a mutex, the fsnotify watcher | event loop, `scheduleLoad`, `load`, cancel | the file system; `Server.UpdateConfig` through `onChange` |
| `auth.JWKS` | `parsed`, claim names, `keyfunc`, `cancelFunc`; a refresher goroutine in a library | `Authenticate`, `init`, `Close` | handlers, closers |
| `auth.APIKey`, `auth.JWT`, `auth.NoOp` | immutable | `Authenticate` | handlers |
| `rules` | immutable | `Engine.Evaluate` and three rules, `FindWindow` | reads the cost report and the AST |
| `cost` | immutable | `Estimate` | reads the AST |
| `query` | none | `Parse`, `String` | handlers |
| `datemath` | none | `ParseDateMath`, `ParseWindow`, `ParseDurationHuman` | rules, config |
| `validate.ES` | an HTTP client with a 10 s timeout | `Validate` | Elasticsearch |
| `config` loading | none | `loadWith`, `loadFromReader`, `Build*`, `PlanWindow` | main, loaders |
| `metrics` | counters, histograms | `Record*`, `Observe*` | handlers |
| main | the HTTP server, the signal channel | start, shutdown | all of the above |
| client IP, logger | none; the request's header map, which they share | `resolveClientIP`, `sanitizeClientIP`, `Middleware` | handlers, upstream |
| OpenAPI, health | none | | |

What is hard, component by component, and what makes each one correct:

- **Swap.** `UpdateConfig` reads the authenticator it will retire long before it
  stores the new state, without a lock of its own; the close runs in a goroutine
  at any later time; main closes the server before it cancels the watch.
  Correct: every replaced authenticator is closed, none twice by reloads, and
  never the one in force.
- **Handlers.** A reload may fall between any two of a request's snapshots.
  Correct: what is forwarded was allowed under configurations in force while the
  request was open; a revoked key is of no use to later requests; each request is
  answered and counted once.
- **Watcher.** Debouncing can drop the event of the last save; loads can overtake
  each other; files are replaced or read half-written. Correct: the last complete
  save is applied, and nothing after cancel.
- **JWKS.** `init` runs in several handlers at once, without a lock, possibly
  after `Close`. Correct: what is published is complete, keeps refreshing until
  `Close`, and stops then.
- **Rules, cost, query, datemath.** Sequential. Correct: the verdict is what the
  configuration document says of the query, and the query forwarded means what
  the query judged means, added window included.
- **Loading.** Two functions load, one at start, one on reload. Correct: what a
  reload brings is what the file says, and a file that cannot be applied changes
  nothing.
- **Client IP, logger.** Correct: the address logged is the one sent upstream,
  and nobody but a trusted proxy can name it.

`PROJECT.json` lists every hazard with its line.

## Modules

| Module | Models |
| --- | --- |
| `ConfigSwap` | `Server.state` as the sequence of all states ever stored (generations), loaders inside `UpdateConfig` under the watcher's mutex, closing goroutines, main's shutdown, a failing listener |
| `ConfigLoad` | from defaults, file, environment and flags to a configuration, at start and on reload. No variables |
| `Process` | `ConfigSwap` and `ConfigLoad` with the file beside them: starts, saves, loads. Implements `ConfigSwap` |
| `Policy` | one configuration's word on one abstract request: who asks, what the engine says, which window is added. No variables |
| `Gate` | the request handlers, step by step between snapshots, extending `ConfigSwap` and `Policy` |
| `GateContract` | what a client may rely on, without handlers, snapshots or loaders, for whatever policy it is given as constants; `Gate` implements it |
| `ConfigWatch` | `config.Watch`, editors and fsnotify |
| `JwksAuth` | one JWKS authenticator |
| `Query` | the nodes of a syntax tree, its leaves, and what is assumed of the trees at hand |
| `Lucene` | `Parse` and `String` of `internal/query`, over texts of symbols |
| `DateMath` | bounds and amounts of time, with truncation and overflow, and what the same bounds say at their word |
| `QueryCost` | `cost.Estimate` over syntax trees, and beside it the cost the same clauses have in any order |
| `Identity` | credentials, contexts and their merging |
| `ClientAddress` | which address a request is attributed to, upstream and in the log, from the lines of its headers |
| `QueryPath` | one request from its text to the access log under one configuration, composing `QueryCost`, `DateMath`, `Identity` and `ClientAddress` with the rules and the validator, for any parser and writer |
| `QueryPolicy` | what of a syntax tree and of a configuration `Policy` sees, and that it decides alike |
| `QueryText` | `QueryPath` with `Lucene` for parser and writer, and the properties that are about texts |
| `QueryPromises` | what documents and comments say of one request and the code does not do; its properties are violated |
| `ConfigSwapProofs`, `ProcessProofs`, `GateProofs`, `AdmissionProofs`, `ContractProofs`, `ConfigWatchProofs`, `JwksAuthProofs`, `RequestProofs` | theorems |
| `ProcessMC`, `GateMC`, `ConfigWatchMC`, `JwksAuthMC`, `QueryPathMC` | the small instances TLC checks |

`Gate` and `QueryPath` are two views of the same handlers. `Gate` has many
requests, reloads and shutdown, and knows of a query what `Policy` reads of it;
`QueryPath` has one request and the whole of its text. The property
`PolicyAbstracts` of `QueryPolicy` instantiates `Policy` and says that the two
agree on the queries `Policy` is meant for, verdict and added window alike: one
clause or a union of optional ones, on fields of weight 1, with no wildcards but
leading ones, under rules that forbid nothing but what `rules.go` says can be
forbidden (`Union`, `Forbiddable`). It is checked by `query` and proved.

A definition named `Broken...` stands before the one it is a wrong variant of.
It is used by nothing: substituted for the right one it makes a property fail,
which `PROJECT.json` lists as `mutants`.

### How the modules correspond to the code

`ConfigSwap` and `Gate`. `installed[g]` is the configuration of the g-th
`serverState` stored; `Current == Len(installed)` is what `current()` loads. The
authenticator of generation g is called g too: `closers[g]` counts goroutines
started to close it, `closes[g]` the calls of `Close` made. A load of
`Server.state` and a store into it are single steps, as `atomic.Value` makes
them. `UpdateConfig` is two steps, `BeginUpdate` (read `oldAuth`) and
`StoreUpdate` or `FailUpdate`, because another update could run between; building
clients and validators in between touches nothing shared. A handler's steps end
where it waits or loads the state: `Enter` (first snapshot of a search),
`LoadParse`, `RejectBody`/`Authenticate` (after the body), `BeginEvaluate`,
`RejectQuery`/`AcceptQuery` (after the validator), `Judge`, `Forward`,
`UpstreamReplies`. `snap[r]` holds the generations of the three snapshots;
`counts` holds the Prometheus counters and histogram counts.

`Policy` abstracts a query to what rules read: how many plain optional terms it
unites, how many clauses of each special kind it has, and its range clauses by
the position at which `FindWindow` visits them. A configuration is a record of the settings
`serverState` is built from; prices, limits and windows are small naturals.

`ConfigWatch` has one number per save and whether its content is complete. An
event is a write reported for the watched file. A loader sleeps, wakes (clears
`pending`), locks, reads, applies or discards. Time is abstracted: a sleep ends
at some moment. With `FastSaves` a save that was under way when a sleep began is
over when it ends, which is what the 200 ms are for.

`JwksAuth` names a context and its refresher by the request that created them.
A set-up stores the name of the plan claim as configured (`NameClaim`) and then
its default (`DefaultClaim`); `named` says whether the field holds a name. What a
handler reads of the fields is `Seen`: what was stored last, what it stored itself,
or, unless `InOrder`, the zero value though `parsed` was found set, which the Go
memory model allows and arm64 builds can show. A good token whose claim has no
name is accepted without its plan (`ReadPlan`). `Requests` call `Authenticate` once
each, as several handlers do. `Policy` has the outcomes as `Identities`: a JWKS
authenticator refuses, gives the plan, or gives `EmptyPlan`, for which the default
limits hold.

`Process` says what `ConfigSwap` leaves open: which configuration a loader brings.
Settings are a few keys, one per way of failing or of taking precedence; a
configuration is what `loadWith` (`Loaded`) or `loadFromReader` (`Reloaded`) makes
of flags, environment and file. A loader reads whatever the file holds, so that
every loss or delay `ConfigWatch` can produce is allowed for.

`Lucene` has an operator for each parse function: it takes a text and a position
and returns a node and the position after it, or an error. A text is a sequence
of symbols: every character that cuts a text is a symbol of its own, the runs in
between are words, and the operator words stand for themselves so that cutting
them off the front of a longer word (`<<"OR", "ange">>`) can be expressed. The
bytes the parser takes for blanks in one place and not in another are the symbols
`feed` and, inside a letter, `odd`; `tab` stands for tabs and line breaks and
`hidden` for what does not print, because `strconv.Quote` rewrites these (`Escape`).
`QueryCost` works in ten-thousandths of a point, which is exact for
weights in tenths. `DateMath` works in minutes; 2^64 nanoseconds are 307445735 of
them, and an amount wraps there as `time.Duration` does.

What walks a tree (`Leaves`, `FindWindow`, `Estimated`, and `Orderless`, the cost
in any order that `Estimated` is compared with) is a recursive function
over `Nodes`, the trees at hand with their sub-trees, written as one step
(`LeavesIn`, `FindIn`, `EstimateIn`) that is given the function to recurse with:
the step is the body of the Go function, and the proofs are about it. The parser,
the writer and the properties about texts are recursive operators, in modules that
only the runs use.

`QueryPath` has one action per stage of a handler: `Identify` (`parseAndAuth`),
`Parsed`, `AskValidator`, `Validated` (`resolveQuery`), `Judge` (`evaluate`),
`Forward` and `Relay` (`handleSearch`), `Log` (the middleware). There is no
clock: the validator and the upstream may fail or time out whenever they are asked.

## Runs

| Run | Instance | Shows |
| --- | --- | --- |
| `swap` | 2 loaders, 2 reloads, 3 ways to start, 7 contents of the file or none | `OldIsCurrent`, `AuthLedger`, `CurrentAuthOpen`, `LastGoodInForce`, `OpensWhenTold`; `RetiredAuthCloses` under fairness |
| `gate` | 1 request out of 18, 4 configurations, 2 reloads, 1 loader | `AdmissionSound`, `NoStaleSnapshot`, `RevokedStaysOut`, `ConfinedUnlessPolicyChanges`, `AnswersJustified`: `Gate` implements the safety of `GateContract` |
| `gate_pair` | 2 requests, 2 configurations, 1 reload, fairness | `CountersAgree`; `Gate` implements `GateContract` (`KeepsContract`), which includes that accepted requests are answered |
| `watch` | 3 loaders, 4 saves of either kind | `NoLostUpdate`, `AppliesLastRead`, `NeverBackwards`, `QuietAfterCancel`, `Converges` |
| `jwks` | 3 requests, symmetric | `QuietUseStops`, `PublishedKeysRefresh`, `SetUpIsComplete` |
| `query` | 3 configurations, 6658 requests: texts, callers, origins; 9 replies of the validator | `SentAsScored`, `WindowSurvives`, `OrderNeverDearer`, `ForbiddenNowhere`, `OwnWindowShort`, `PolicyAbstracts`, `BodyNeverCounts`, `LoggedAddressVouched` |
| `gate_window`, `watch_rename`, `watch_truncate`, `jwks_leak`, `jwks_plan`, `query_negation` | as above, some smaller | violations, see Findings |

Why the bounds are enough. Reloads: a request takes three snapshots, so two
reloads give every pattern of equal and different snapshots, and the
configurations differ in every setting a decision reads. In `swap` two reloads
let a retired authenticator wait through another reload and a shutdown, and a bad
file come between two good ones; three reloads pass as well, with 443,346 states.
One request suffices where the property is about one request, since handlers
share nothing but counters; the counters and the contract are checked with two.
Loaders: the mutex admits one, so `Gate` has one, `swap` two that contend.
`watch` needs two loaders past their sleep and a third asleep. Three requests in
`jwks` are a failing set-up, an overlapping one and a reader. The files of `swap`
are one for each thing a loader can meet: nothing given, keys with a placeholder,
a setting that does not build, an unknown type of authentication, what only a
start refuses, another format, a mangled file.

The texts of `query` are all joins (blank, none, `AND`, `OR`, `+`, `-`, `AND NOT`)
of two clauses out of eleven, plain, after a `NOT` or in an opened group, and of
three clauses out of four; all date ranges from twelve lower and five upper
bounds on two fields, alone and beside others; and twenty-odd texts in which the
parser cuts in an unexpected place. Three clauses are what it takes for `AND` to
reach back over a clause it has read, and for the order of negated and required
clauses to matter. The configurations differ in each setting a request depends on.

`MaxReloads` and `MaxSaves` are the only bounds on behaviour; they are guards of
`BeginUpdate`, `Truncate` and `Rename`. `swap`, `query` and the gate runs check
for deadlock (what has ended stutters: `Ended`, `Exited`, `Finished`); the watch
and JWKS runs do not, because a file is saved finitely often and requests end.

### Fairness

- `SwapFairness`: a loader inside `UpdateConfig` leaves it and a started closer
  runs, because neither blocks on anything and the Go scheduler is fair.
- `Gate!Fairness`: a handler goes on, because each of its waits is bounded by the
  server's `ReadTimeout` (body), the validator client's 10 s and the upstream
  client's `proxy_timeout`. This assumes `proxy_timeout` is positive: Go takes
  `0s` for no limit.
- `ConfigWatch!Fairness`: the event loop runs; a loader that wants the mutex gets
  it though others take it again and again (strong fairness), because Go's mutex
  hands over to a waiter that starves.
- Nothing is assumed of editors, operators, signals, clients or of Elasticsearch.

## Findings

1. `gate_window`: a search takes its first snapshot under `require_window: true`;
   a reload turns it off; `evaluate` no longer demands a window and
   `injectDefaultWindow`, with the first snapshot, does not add one. The query is
   forwarded without any, against `src/README.md:336-341`. `gate` shows the
   converse: while the plan's window settings are the same in both snapshots this
   cannot happen.
2. `watch_rename`: after a rename over the path nothing is applied any more
   (`config/watcher.go:60-69`), against the comment at `config/watcher.go:15-16`.
3. `watch_truncate`: a file caught between truncation and write is applied,
   although each save is shorter than the debounce (`config/watcher.go:50-58`),
   against the same comment.
4. `jwks_leak`: overlapping set-ups, or one after `Close`, leave a refresher that
   cannot be stopped (`auth/jwks.go:101-102`), against `auth/jwks.go:120`.
5. `jwks_plan`: a set-up that overlaps one that has published resets the name of
   the plan claim to the empty one before it stores the default (`auth/jwks.go:92-95`);
   a good token read in between loses its plan and is judged by the default limits,
   against `auth/jwks.go:20`. This needs no weak memory: the run has `InOrder`. In
   `jwks`, which has not, `SetUpIsComplete` shows that nothing else takes the name
   away and that it is back when the set-ups are over.
6. `query_negation`: a negated clause that is alone in its group or text, or
   joined by `AND`, loses its negation (`query/parser.go:74-79`, `99-103`), against
   `query/ast.go:71`: `a AND NOT b` is sent as `+a +b`.

Other promises of the repository that the code does not keep. Each is stated as a
property that TLC finds violated with the configuration named; these are kept
beside the runs that `PROJECT.json` lists.

| Property, configuration | Promise | What the code does |
| --- | --- | --- |
| `MetricsGuarded`, `GateMetrics.cfg` | the metrics endpoint is protected by the configured authenticator, which is reloaded (`src/README.md:309`, `384-386`) | keeps the one of the start (`proxy/proxy.go:166-180`) |
| `FlagsHold`, `ProcessFlags.cfg` | flags have the highest precedence (`src/README.md:121-126`) | a reload is not told them (`config/config.go:362`) |
| `ShutdownCloses`, `ProcessShutdown.cfg` | a shutdown closes the authenticators (`src/README.md:388-389`) | one that a reload installs between `server.Close` and the cancel of the watch stays open (`src/cmd/es-querycost/main.go:90`) |
| `PhrasesKept`, `QueryPhrases.cfg` | the request is proxied unchanged (`src/README.md:20-21`) | `strconv.Quote` doubles backslashes and rewrites tabs and what does not print (`query/ast.go:90`, `120`) |
| `ForbiddenRejected`, `QueryForbidden.cfg` | forbidden patterns are rejected (`rules/rules.go:47-48`) | not if they cost nothing, nor a leading wildcard on a `.keyword` field (`rules/rules.go:54-57`, `cost/cost.go:159-162`) |
| `WindowlessConstrains`, `QueryWindow.cfg` | a query without a window constrains a date field itself (`src/README.md:336-341`) | a range that is optional or negated counts (`rules/rules.go:109-132`) |
| `PlanWindowIsMaximum`, `QueryLength.cfg` | a plan's window is the longest (`src/README.md:336`) | `now-1.5h` passes one of an hour (`datemath/datemath.go:147`) |
| `WeightCountsOnce`, `QueryWeight.cfg` | `asn:AS13335` costs 0.5 (`src/README.md:349-357`) | 0.25: the weight is applied twice (`cost/cost.go:96`, `138`) |
| `NegationAddsFixed`, `QueryPenalty.cfg` | a negation adds a fixed penalty (`src/README.md:329`, `cost/cost.go:118`) | a tenth of what is negated (`cost/cost.go:119`) |
| `RightmostIsLogged`, `QueryClient.cfg` | the right-most non-proxy address is logged (`src/README.md:302`) | of several `X-Forwarded-For` lines only the first is read (`proxy/clientip.go:68`) |

Met while modelling and not stated as properties: a TOML file is not read on
reload (`config/config.go:365`); a reload validates less than a start, and an
unknown type of authentication becomes none (`config/config.go:82-111`); a fuzzy
word, or a letter that ends in byte 0x85 or 0xA0, does not survive the way through
the parser and back (`query/ast.go:86-120`), and neither does a word or field that
begins with an operator and follows another clause: `a OR OR:b` is a field named
`OR`, is sent as `a OR:b`, and reads as `a` and a field without a name. Where a
property that holds leaves such a case out, its definition names it (`Delicate`,
`FeatureOf`, `Charged`, `Valid`, `OneLineMatters`, `Holds`).

What holds beside them. `OrderNeverDearer` is no statement about the documented
cost, from which the code departs as above: it says that the walk over clauses, a
running maximum that negations are added to, never comes to more than the same
clauses would in another order, and when it comes to less. `ForbiddenNowhere` is
about features that are charged for, wherever they stand in the tree.
`LoggedAddressVouched` is about headers in which no later line names a client.

How far `OwnWindowShort` goes: a range's rounding suffix is removed before it is
parsed (`Unrounded`), so what Elasticsearch makes of the bounds may be longer by
the unit it rounds to; a fraction of an amount is truncated, which hides less than
an hour of each bound (`Fraction`): `now-1.5h` passes a window of one hour; an
amount that overflows a `time.Duration` may pass as a short one (`Holds`), and a
window as long as the longest duration is no window; and a date range in an
optional or negated clause counts as the query's window, because `FindWindow` does
not look at signs.

## Proofs

TLAPS proves, for every set of configurations, inputs, requests, loaders, files
and ways to start and every bound on reloads and saves:

| Module | Theorem | Property |
| --- | --- | --- |
| `ConfigSwapProofs` | `RetiresWhatItReplaces` | `OldIsCurrent` |
| | `EveryAuthRetiredOnce` | `AuthLedger` |
| | `AuthInForceOpen` | `CurrentAuthOpen` |
| `ProcessProofs` | `ProcessIsSwap` | `Spec => SwapSpec`: the process implements the swap |
| | `LastGoodHolds`, `OpensOnlyWhenTold` | `LastGoodInForce`, `OpensWhenTold` |
| `GateProofs` | `SnapshotsFresh` | `NoStaleSnapshot` |
| | `RevokedGetsNothing` | `RevokedStaysOut` |
| | `GateRetiresOnce` | `AuthLedger` with requests running |
| `AdmissionProofs` | `AdmissionIsSound` | `AdmissionSound` |
| | `ConfinedBetweenReloads` | `ConfinedUnlessPolicyChanges` |
| `ContractProofs` | `AnswersAreJustified` | `AnswersJustified`: `Gate` implements the safety of the contract |
| | `CountersAlwaysAgree` | `CountersAgree` |
| `ConfigWatchProofs` | `NoSaveIsLost`, `AppliedIsLastRead`, `NeverGoesBack`, `CancelIsFinal` | `NoLostUpdate`, `AppliesLastRead`, `NeverBackwards`, `QuietAfterCancel` |
| `JwksAuthProofs` | `KeysRefreshUntilClose`, `PublishedWhole`, `CloseStopsQuietUse` | `PublishedKeysRefresh`, `SetUpIsComplete`, `QuietUseStops` |
| `RequestProofs` | `ForbiddenIsNowhere` | `ForbiddenNowhere` |
| | `OwnWindowIsShort` | `OwnWindowShort` |
| | `CostNeverAboveOrderless` | `OrderNeverDearer` |
| | `PolicyIsAbstraction` | `PolicyAbstracts`: what `Gate` is told of a query suffices |
| | `BodyNeverDecides`, `LogNamesVouched` | `BodyNeverCounts`, `LoggedAddressVouched` |
| | `FindWindowDefined`, `EstimatedDefined` | the recursive functions exist and obey their equations |

and the type invariant of each of the specifications. The assumptions are the `ASSUME`s
of the modules, which TLC evaluates on every run: a configuration builds or does
not, no loader is the free mutex, bounds are naturals (`ConfigSwapAssumption`); an
authenticator is none, key-based or JWKS (`GateAssumption`); saves are counted by
a natural (`ConfigWatchAssumption`) and nobody is no request (`JwksAssumption`); a query is a record
with finitely many ranges (`QueryAssumption`); defaults give every key
(`ConfigLoadAssumption`), and the environment does not set the type of
authentication (`ProcessAssumption`).

Those of the path of a request are about its data. A tree is made of smaller trees,
and its terms are not empty, as `Parse` makes them (`NodesAssumption`). No price is
negative (`ModelsAssumption`), which the code does not check: a negative price in
the file would make a query cheaper the more of it there is, and hide a feature
from the rules. Amounts have a unit the regular expression knows, absolute dates
are instants (`AmountsAssumption`, `CalendarAssumption`), the empty text is no
amount (`EmptyTextAssumption`), the plans' default
window is an amount, as the constant in the code is (`DefaultWindowAssumption`),
a configuration has one of the cost models (`ConfigsAssumption`). A request has an address for its peer or an unparsable text
for it (`RequestsAssumption`, `IsOrigin`). Of the parser only that it returns trees (`ReadAssumption`),
of the writer nothing: the theorems hold of any.

The argument for the swap. `AuthLedger` alone is not inductive: a store retires
the generation a loader *read*, which must be the one it *replaces*. That is
`OldIsCurrent`, which needs the mutex: only its holder is inside `UpdateConfig`,
so no other store falls between its read and its store. `SwapInv` joins both with
types, with the fact that the store stays within the bound, that installed
configurations built, and that `shutAt` is set by the shutdown only.

The argument for the process. Its invariant adds to `SwapInv` that a loader inside
`UpdateConfig` carries what the file `good` makes if that builds, and that the
configuration in force is that of `good` while nobody is inside. The refinement
then gives every theorem of the swap for the process.

The argument for the gate. `GateInv` is `SwapInv` with `ReqInv`: for each request
`SnapOrder` (which snapshots exist at which stage, none older than the request or
than an earlier one, none newer than the current generation) and `CallerKnown`
(who is past authentication, or got an answer that discloses anything, is known
to the configuration of the parse snapshot). A reload only appends to `installed`
(`StepGrows`), so a snapshot's configuration never changes under a request.
`RevokedGetsNothing` follows: the parse snapshot lies between acceptance and now,
and its configuration knows the caller, so not all configurations in that
interval refuse it. `AdmissionProofs` adds what a handler past `Judge` knows: the
verdict of its last snapshot was `Allowed`. A lemma about `Policy`, that a query
the engine allows is `Within` the plan, turns that into `AdmissionSound`;
`ConfinedBetweenReloads` needs in addition that the injection, which reads the
first snapshot, decides as the rule would have if the window settings agree.

The argument for the contract. The mapping forgets handlers and snapshots and
keeps what was accepted, when, and what was told. `ContractInv` adds to what
`AdmissionProofs` knows that the plan of an identified caller is one its parse
snapshot's configuration gives it (`Answerable`), and that the query that is
judged is the client's or an explanation of one that does not parse or goes to the
validator. Each answer is then justified by the generations of the snapshots,
which `SnapOrder` puts between acceptance and now. Every step of `Gate` is an
`Accept`, an `Install`, a `Reply`, the exit or a stutter.

The argument for the counters. `Due` says of one request which counters have been
incremented for it; `Tally` that finitely many requests have been accepted and
that each counter is the number of those that owe it an increment. A step changes
what one request owes, and a counter by as much. `CountersAgree` adds up sets of
requests by their answers; that the sums are the sizes of the sets `Tally` counts
needs these to be finite and apart (`CountApart`).

The argument for the watcher. A complete save that is not yet applied is stood for
by an event, by a loader that has still to read, or by an earlier stage of the
event loop; the invariant says which, and that `pending` is set only while a
loader is asleep, so that a dropped event always has a loader that reads later.

The argument for the JWKS authenticator. What is published belongs to a request
whose context only `Close` can cancel; set-ups that fail cancel their own. The
claim's name is away only while some set-up stands between its two stores, and
there are two set-ups if that one is not the first.

The argument for the path of a request. No property of a forwarded query is
inductive: all of them are about what an earlier stage decided. `PathInv` carries
that along: the plan is the one the caller's context names (`PlanIsCallers`), the
tree is one the parser returned (`UsedIsRead`), nothing is sent before the verdict
(`NotYetSent`), what is sent was allowed at its own price (`WasJudged`), a report
is the price of the tree in hand (`NotYetScored`, `Scored`), what is sent has the
window the injection chose (`SentWindow`), and the log has what the headers say (`LogsResolved`). Each
property then follows in one state, from a lemma about the operators:

- `TreeShows`: a leaf with a feature, charged for, shows the feature in the keys of
  every tree around it, negated or not, whatever the depth. The rules refuse such
  keys, so `ForbiddenNowhere`.
- `FoundIsOwn`: a window `FindWindow` returns is bad or the range of a clause on a
  date field in the tree. `ShortSpan`: if the difference of what the gate reads
  of the bounds passes, the bounds themselves are no further apart than that and
  their fractions; `TruncationLoses` and `LengthInRange` bound what truncation and
  wrapping do. Hence `OwnWindowShort`.
- `WalkIsOrderless`: `booleanCost` walks its clauses once and keeps three sums.
  After each clause the required part is at most the dearest required clause so far
  and the tenths of the negated ones, and equal to their sum as long as no required
  clause has come after a negated one; the optional part is the plain sum.
  Costs of clauses enter through `Tenths`, which is monotone (`TenthsGrows`), and so
  is rounding (`RoundGrows`). `EstimateIsOrderless` carries this up the tree.
- `UnionPriced` and `AbstractCost`: both sides of `PolicyAbstracts` come to one
  number, each class of clauses counted and multiplied by its price, and the OR
  penalty (`ByClass`, `Penalty`). `booleanCost` adds clause after clause, `Policy`
  counts; `ClassesAdd` says that this is the same, because counts grow by one at the
  clause's class and stay elsewhere (`UptoGrows`). Whole prices make the sum one
  that `Round` leaves alone (`CostInPoints`). `SameHit`: the clause at which
  `FindWindow` stops is the least of Policy's `Hits`, so the windows and their
  verdicts are the same (`SameWindow`), and with the other two rules the first
  denial (`SameVerdict`) and, of what is admitted, the window that is added
  (`SameInjection`).
- `BodyIsOverridden`, `LogIsVouched`: the merge hides the body's user; the
  right-most candidate of the line that is read is the greatest (`MaxIsGreatest`,
  `PickedIsCandidate`, `LineRead`), so that everything behind it is a proxy or noise.

The functions over trees are defined by recursion, and that such a function exists
has to be proved. The library states this with operators as parameters, which no
installed prover instantiates; `SizeRecursion` states it with functions. A step is
a function from functions to functions that looks at smaller arguments only
(`IsLocal`); iterating it as often as an argument's size gives values that no
longer change, and they make the fixed point. `TreeInduction` is induction on the
size, stated for a set of trees for the same reason.

Only model-checked: `SentAsScored` and `WindowSurvives`, whose statements need
recursive operators (the parser and the writer), which the provers do not take;
liveness (`RetiredAuthCloses`, `Converges`, and that accepted requests are answered
in `KeepsContract`); and `ENABLED`, which is out of reach as well. `TLC` has checked
`PathInv` on the instance of `query`, apart from `Given`, before it was proved.

## Abstractions and what is not modelled

- In `Policy` and `Gate` a query's ranges are one flat walk; its clauses are
  optional and weigh 1, and a JWT yields the plan of its credential. `QueryPath`
  and `Identity` have them in full.
- In `QueryPath` the configuration does not change under the request; `Gate` has
  that. Costs are exact where the code uses `float64`.
- White space that `strings.Fields` knows and a byte does not show, such as a
  no-break space in a phrase.
- Signatures, expiry and algorithms of tokens, user ids, and the wording of
  reasons and reports.
- Metrics are enabled; `metrics.path` is an endpoint of its own.
- `input.builds` stands for everything that makes the outgoing request fail to
  build: the source fields, the index, the URL.
- Seconds and absolute layouts in date bounds; the reference time does not pass
  between the rule and the injection.
- Time. A call may fail or time out at any moment; the server's write deadline,
  which is fixed at start (`src/cmd/es-querycost/main.go:54-66`), is left out.
- The two lists of defaults (`config/config.go:248-270`, `371-392`) are one constant
  `Defaults`. Both are made from `Defaults()` and name the same keys, and what is
  decoded is laid over `Defaults()` again.
- Environment variables for keys inside a section the loaders list only as a
  whole (`auth`, `limits`), and where a file is looked for. `src/README.md:219` shows
  `ESQUERY_AUTH_TYPE`: `OpensWhenTold` assumes that it is not set, since what it does
  is viper's matter.
- fsnotify's errors and an overflow of the kernel's queue; connection pools;
  metric labels; log levels, trace ids and the recorded status; the OpenAPI,
  documentation and health endpoints, which are constant.

## What could come next

The parser as a recursive function, over the positions of a text; `QueryPath`
with a reload between its stages; a clock for the write deadline; the user id and
the claims of a token.

## Running

    tlc -config ProcessMC.cfg ProcessMC.tla    # ProcessFlags.cfg, ProcessShutdown.cfg
    tlc -config GateMC.cfg GateMC.tla          # GatePair.cfg, GateWindow.cfg, GateMetrics.cfg
    tlc -config ConfigWatchMC.cfg ConfigWatchMC.tla    # ConfigWatchRename.cfg, ConfigWatchTruncate.cfg
    tlc -config JwksAuthMC.cfg JwksAuthMC.tla  # JwksAuthLeak.cfg, JwksAuthPlan.cfg
    tlc -config QueryPathMC.cfg QueryPathMC.tla        # and the other Query....cfg
    tlapm ConfigSwapProofs.tla                 # and each of the other ...Proofs modules
