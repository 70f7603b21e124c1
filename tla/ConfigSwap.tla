----------------------------- MODULE ConfigSwap -----------------------------
(***************************************************************************)
(* The life of the gate's mutable configuration: internal/proxy's Server,  *)
(* whose serverState is one atomic.Value that UpdateConfig replaces, driven*)
(* by the loader goroutines of internal/config's Watch, and main's         *)
(* shutdown.                                                               *)
(*                                                                         *)
(* Every value ever stored in Server.state is a GENERATION: generation g   *)
(* runs under installed[g] and owns an authenticator of its own, also      *)
(* called g.  The last generation is the one current() returns.  A reload  *)
(* retires the authenticator of the generation it replaces by starting a   *)
(* goroutine that closes it.                                               *)
(***************************************************************************)
EXTENDS Naturals, Sequences

CONSTANTS
    Configs,     \* configurations a config file can hold, records with a field "buildable"
    Loaders,     \* goroutines started by scheduleLoad (watcher.go)
    NoLoader,    \* the watcher's mutex is free
    MaxReloads   \* bound: reloads that reach Server.state in one behaviour

ASSUME ConfigSwapAssumption ==
    /\ \A c \in Configs : c.buildable \in BOOLEAN
    /\ NoLoader \notin Loaders
    /\ MaxReloads \in Nat

Generations == 1 .. (MaxReloads + 1)

VARIABLES
    installed,   \* every serverState stored so far, oldest first
    mu,          \* holder of Watch's mutex
    loader,      \* per loader: is it inside onChange, with which configuration, over which generation
    closers,     \* per authenticator: goroutines started to close it that have not run
    closes,      \* per authenticator: calls of Close that were made
    shutAt,      \* generation whose authenticator Server.Close closed, 0 before
    phase        \* main: serving, draining (srv.Shutdown), closed (server.Close), exited

swapVars == <<installed, mu, loader, closers, closes, shutAt, phase>>

Idle == [pc |-> "idle", old |-> 0]

Updating == [pc : {"updating"}, config : Configs, old : Generations]

SwapTypeOK ==
    /\ installed \in Seq(Configs)
    /\ Len(installed) \in Generations
    /\ mu \in Loaders \cup {NoLoader}
    /\ loader \in [Loaders -> {Idle} \cup Updating]
    /\ closers \in [Generations -> Nat]
    /\ closes \in [Generations -> Nat]
    /\ shutAt \in 0 .. (MaxReloads + 1)
    /\ phase \in {"serving", "draining", "closed", "exited"}

\* Server.current: the generation an atomic load returns now.
Current == Len(installed)

Running == phase # "exited"

SwapInit ==
    /\ \E c \in Configs : c.buildable /\ installed = <<c>>
    /\ mu = NoLoader
    /\ loader = [l \in Loaders |-> Idle]
    /\ closers = [g \in Generations |-> 0]
    /\ closes = [g \in Generations |-> 0]
    /\ shutAt = 0
    /\ phase = "serving"

-----------------------------------------------------------------------------
(* The decisions of the reload path.  A definition named Broken... is a wrong*)
(* variant of the one that follows it, which the properties must reject.   *)

BrokenNoMutex == TRUE

\* mu.Lock() returns: nobody else is inside load().
MutexFree == mu = NoLoader

BrokenAcceptAll(c) == TRUE

\* UpdateConfig builds c: timeout, URL, CA file and validator are all good.
Builds(c) == c.buildable

BrokenRetireLate(l) == Current + 1

BrokenRetireFirst(l) == 1

\* The authenticator UpdateConfig hands to the closing goroutine: the one it
\* read before it stored the new state.
Retired(l) == loader[l].old

BrokenCloseAgain(g) == TRUE

\* A goroutine started to close authenticator g has not run yet.
CloserWaits(g) == closers[g] > 0

\* load() up to UpdateConfig's read of the authenticator it will retire: the
\* file held c.  A load that cannot read or decode the file, or that finds
\* the watch cancelled, changes nothing and is a stuttering step.
BeginUpdate(l, c) ==
    /\ Running
    /\ MutexFree
    /\ Current <= MaxReloads
    /\ mu' = l
    /\ loader' = [loader EXCEPT ![l] = [pc |-> "updating", config |-> c, old |-> Current]]
    /\ UNCHANGED <<installed, closers, closes, shutAt, phase>>

\* A variant that retires the old authenticator before all is built.
BrokenFailUpdate(l) ==
    /\ Running
    /\ loader[l].pc = "updating"
    /\ ~ Builds(loader[l].config)
    /\ closers' = [closers EXCEPT ![Retired(l)] = @ + 1]
    /\ mu' = NoLoader
    /\ loader' = [loader EXCEPT ![l] = Idle]
    /\ UNCHANGED <<installed, closes, shutAt, phase>>

\* UpdateConfig returns an error: bad timeout, URL, CA file or validator.
FailUpdate(l) ==
    /\ Running
    /\ loader[l].pc = "updating"
    /\ ~ Builds(loader[l].config)
    /\ mu' = NoLoader
    /\ loader' = [loader EXCEPT ![l] = Idle]
    /\ UNCHANGED <<installed, closers, closes, shutAt, phase>>

\* UpdateConfig stores the new state and starts the goroutine that closes
\* the authenticator it read before, then load() unlocks.
StoreUpdate(l) ==
    /\ Running
    /\ loader[l].pc = "updating"
    /\ Builds(loader[l].config)
    /\ installed' = Append(installed, loader[l].config)
    /\ closers' = [closers EXCEPT ![Retired(l)] = @ + 1]
    /\ mu' = NoLoader
    /\ loader' = [loader EXCEPT ![l] = Idle]
    /\ UNCHANGED <<closes, shutAt, phase>>

\* One goroutine started by UpdateConfig runs oldAuth.Close().
CloseRetired(g) ==
    /\ Running
    /\ CloserWaits(g)
    /\ closers' = [closers EXCEPT ![g] = @ - 1]
    /\ closes' = [closes EXCEPT ![g] = @ + 1]
    /\ UNCHANGED <<installed, mu, loader, shutAt, phase>>

-----------------------------------------------------------------------------
\* SIGINT or SIGTERM: srv.Shutdown stops the listener and waits for the
\* handlers, for 10 seconds at most.
Drain ==
    /\ phase = "serving"
    /\ phase' = "draining"
    /\ UNCHANGED <<installed, mu, loader, closers, closes, shutAt>>

\* main calls server.Close(): the current authenticator is closed.
CloseServer ==
    /\ phase = "draining"
    /\ closes' = [closes EXCEPT ![Current] = @ + 1]
    /\ shutAt' = Current
    /\ phase' = "closed"
    /\ UNCHANGED <<installed, mu, loader, closers>>

\* main's deferred cancel() of the watch takes the mutex; then main returns
\* and the process is gone with every goroutine.
CancelWatch ==
    /\ phase = "closed"
    /\ MutexFree
    /\ phase' = "exited"
    /\ UNCHANGED <<installed, mu, loader, closers, closes, shutAt>>

\* srv.ListenAndServe fails: main logs it and exits there and then.
FailServe ==
    /\ phase = "serving"
    /\ phase' = "exited"
    /\ UNCHANGED <<installed, mu, loader, closers, closes, shutAt>>

SwapNext ==
    \/ \E l \in Loaders :
          \/ \E c \in Configs : BeginUpdate(l, c)
          \/ FailUpdate(l)
          \/ StoreUpdate(l)
    \/ \E g \in Generations : CloseRetired(g)
    \/ Drain
    \/ CloseServer
    \/ CancelWatch
    \/ FailServe

\* The process has ended.
Exited == phase = "exited" /\ UNCHANGED swapVars

\* The Go scheduler runs every goroutine that can run: a loader inside
\* UpdateConfig blocks on nothing and leaves it, a started closer runs.
\* Nothing makes a file change or a signal happen.
SwapFairness ==
    /\ \A l \in Loaders : WF_swapVars(FailUpdate(l) \/ StoreUpdate(l))
    /\ \A g \in Generations : WF_swapVars(CloseRetired(g))

SwapSpec == SwapInit /\ [][SwapNext \/ Exited]_swapVars /\ SwapFairness

-----------------------------------------------------------------------------
\* The invariant that makes the accounting below inductive: only the holder
\* of the watcher's mutex is inside UpdateConfig, and the generation it read
\* there is still the current one (proxy.go reads oldAuth well before it
\* stores; only the mutex of watcher.go keeps another reload out between).
OldIsCurrent ==
    \A l \in Loaders :
        loader[l].pc = "updating" => mu = l /\ loader[l].old = Current

\* How often authenticator g has been closed or is about to be.
Retirements(g) == closers[g] + closes[g]

\* Every authenticator a reload replaced is closed exactly once by a reload
\* (none is forgotten, none closed twice), the current one is never closed by
\* a reload, and Server.Close adds one call for the generation it found.
AuthLedger ==
    \A g \in Generations :
        Retirements(g) = (IF g < Current THEN 1 ELSE 0) + (IF g = shutAt THEN 1 ELSE 0)

\* While the gate serves or drains, the authenticator requests are about to
\* load has not been closed and nothing has been started that will close it.
CurrentAuthOpen ==
    phase \in {"serving", "draining"} => Retirements(Current) = 0

\* README "Hot reload and graceful shutdown": a process that was told to stop
\* closes its authenticators.  When it is gone, each of them has been closed or a
\* goroutine had been started to close it, the one of a last-minute reload too.
ShutdownCloses ==
    (phase = "exited" /\ shutAt # 0) => \A g \in 1 .. Current : Retirements(g) > 0

\* Every authenticator that was replaced is closed in the end, unless the
\* process exits first (proxy.go starts the close in a goroutine).
RetiredAuthCloses ==
    \A g \in Generations : (g < Current) ~> (closes[g] > 0 \/ phase = "exited")
=============================================================================
