--------------------------- MODULE ProcessProofs ---------------------------
(***************************************************************************)
(* Proofs about Process, for any files, flags and environments: it is a    *)
(* ConfigSwap, so all that ConfigSwapProofs says of one holds of it, and   *)
(* what is in force is what the last good file says.                       *)
(***************************************************************************)
EXTENDS Process, ConfigSwapProofs

\* What is in force between two reloads.
InForce == installed[Current] = IF Current = 1 THEN Loaded(how, good) ELSE Reloaded(how, good)

\* A loader inside UpdateConfig carries the last good file's configuration, or
\* one that cannot be built, and then what is in force still stands.
Carries ==
    \A l \in Loaders :
        loader[l].pc = "updating" =>
            IF loader[l].config.buildable
            THEN loader[l].config = Reloaded(how, good) /\ Decodes(good)
            ELSE InForce /\ (Current > 1 => Decodes(good))

BetweenReloads == MutexFree => InForce /\ (Current > 1 => Decodes(good))

ProcessInv ==
    /\ SwapInv
    /\ TypeOK
    /\ Carries
    /\ BetweenReloads

Step == [Next \/ Ended]_vars

-----------------------------------------------------------------------------
\* There is always a generation in force.
LEMMA CurrentPositive == ASSUME SwapTypeOK PROVE Current \in Nat \ {0} /\ Current \in 1 .. Current
BY ConfigSwapAssumption DEF SwapTypeOK, Current, Generations

\* Every step of a process is one of its ConfigSwap, or none.
LEMMA StepIsSwap == ASSUME TypeOK, Step PROVE SwapStep
<1>1. CASE UNCHANGED swapVars
      BY <1>1 DEF SwapStep
<1>2. CASE \E l \in Loaders : Load(l)
   <2>1. PICK l \in Loaders : Load(l)
         BY <1>2
   <2>2. Reloaded(how, file) \in Configs
         BY ProcessAssumption DEF TypeOK
   <2>3. QED
         BY <2>1, <2>2 DEF Load, SwapStep, SwapNext
<1>3. CASE Rest
      BY <1>3 DEF Rest, SwapStep, SwapNext
<1>4. QED
      BY <1>1, <1>2, <1>3 DEF Step, Next, Ended, Save, LoadNothing, Exited, vars, swapVars

\* The state main builds.
LEMMA InitInv == Init => ProcessInv
<1> SUFFICES ASSUME Init PROVE ProcessInv
    OBVIOUS
<1>1. SwapInv
      BY SwapInitInv DEF Init
<1>2. TypeOK
      BY <1>1 DEF Init, TypeOK, SwapInv
<1>3. Current = 1 /\ InForce
      BY DEF Init, Current, InForce
<1>4. Carries
      BY DEF Init, SwapInit, Carries, Idle
<1>5. BetweenReloads
      BY <1>3 DEF BetweenReloads
<1>6. QED
      BY <1>1, <1>2, <1>4, <1>5 DEF ProcessInv

\* Nothing but the file changes.
LEMMA SaveInv == ASSUME ProcessInv, SwapInv', Save PROVE ProcessInv'
<1>1. UNCHANGED <<installed, mu, loader, how, good>>
      BY DEF Save, swapVars
<1>2. TypeOK'
      BY <1>1 DEF ProcessInv, TypeOK, Save, SwapInv
<1>3. Carries' /\ BetweenReloads'
      BY <1>1 DEF ProcessInv, Carries, BetweenReloads, InForce, Current, MutexFree
<1>4. QED
      BY <1>2, <1>3 DEF ProcessInv

\* A loader reads the file and begins UpdateConfig.
LEMMA LoadInv == ASSUME ProcessInv, SwapInv', NEW l \in Loaders, Load(l) PROVE ProcessInv'
<1> DEFINE c == Reloaded(how, file)
<1>1. /\ MutexFree /\ mu' = l /\ l # NoLoader
      /\ loader' = [loader EXCEPT ![l] = [pc |-> "updating", config |-> c, old |-> Current]]
      /\ UNCHANGED <<installed, how, file>>
      /\ Decodes(file)
      /\ good' = IF c.buildable THEN file ELSE good
      BY ConfigSwapAssumption DEF Load, BeginUpdate
<1>2. TypeOK'
      BY <1>1 DEF ProcessInv, TypeOK, SwapInv, Load
<1>3. InForce /\ (Current > 1 => Decodes(good)) /\ Current' = Current
      BY <1>1 DEF ProcessInv, BetweenReloads, Current
<1>4. \A m \in Loaders : m # l => loader'[m].pc # "updating"
      BY <1>1 DEF SwapInv, OldIsCurrent
<1>5. loader'[l].config = c
      BY <1>1 DEF ProcessInv, SwapInv, SwapTypeOK
<1>6. CASE c.buildable
      BY <1>1, <1>4, <1>5, <1>6, <1>2 DEF ProcessInv, Carries, BetweenReloads, MutexFree, Reloaded
<1>7. CASE ~ c.buildable
   <2>1. InForce' /\ (Current > 1 => Decodes(good))'
         BY <1>1, <1>3, <1>7 DEF InForce, Reloaded, Loaded
   <2>2. QED
         BY <1>1, <1>4, <1>5, <1>7, <1>2, <2>1 DEF ProcessInv, Carries, BetweenReloads, MutexFree
<1>8. QED
      BY <1>6, <1>7

\* UpdateConfig ends, either way, and the mutex is free again.
LEMMA UpdateEnds ==
    ASSUME ProcessInv, SwapInv', NEW l \in Loaders, FailUpdate(l) \/ StoreUpdate(l),
           UNCHANGED <<how, watched, file, good>>
    PROVE  ProcessInv'
<1>1. mu' = NoLoader /\ NoLoader \notin Loaders
      BY ConfigSwapAssumption DEF FailUpdate, StoreUpdate
<1>2. TypeOK'
      BY DEF ProcessInv, TypeOK, SwapInv
<1>3. Carries'
      BY <1>1 DEF SwapInv, OldIsCurrent, Carries
<1>4. loader[l].pc = "updating"
      BY DEF FailUpdate, StoreUpdate
<1>5. CASE FailUpdate(l)
   <2>1. UNCHANGED installed /\ ~ loader[l].config.buildable
         BY <1>5 DEF FailUpdate, Builds
   <2>2. InForce /\ (Current > 1 => Decodes(good))
         BY <1>4, <2>1 DEF ProcessInv, Carries
   <2>3. QED
         BY <1>2, <1>3, <2>1, <2>2 DEF ProcessInv, BetweenReloads, InForce, Current
<1>6. CASE StoreUpdate(l)
   <2>1. installed' = Append(installed, loader[l].config) /\ loader[l].config.buildable
         BY <1>6 DEF StoreUpdate, Builds
   <2>2. loader[l].config = Reloaded(how, good) /\ Decodes(good)
         BY <1>4, <2>1 DEF ProcessInv, Carries
   <2>3. installed \in Seq(Configs) /\ Len(installed) \in Nat \ {0} /\ loader[l].config \in Configs
         BY <1>4, CurrentPositive DEF ProcessInv, SwapInv, SwapTypeOK, Current, Idle, Updating
   <2>4. Current' = Current + 1 /\ Current' # 1 /\ installed'[Current'] = loader[l].config
         BY <2>1, <2>3 DEF Current
   <2>5. InForce'
         BY <2>2, <2>4 DEF InForce
   <2>6. QED
         BY <1>2, <1>3, <2>2, <2>5 DEF ProcessInv, BetweenReloads
<1>7. QED
      BY <1>5, <1>6

\* The steps that leave generations, loaders and files alone.
LEMMA OtherInv ==
    ASSUME ProcessInv, SwapInv', UNCHANGED <<installed, mu, loader, how, watched, file, good>>
    PROVE  ProcessInv'
<1>1. TypeOK'
      BY DEF ProcessInv, TypeOK, SwapInv
<1>2. Carries' /\ BetweenReloads'
      BY DEF ProcessInv, Carries, BetweenReloads, InForce, Current, MutexFree
<1>3. QED
      BY <1>1, <1>2 DEF ProcessInv

\* Every step keeps the invariant.
LEMMA StepInv == ProcessInv /\ Step => ProcessInv'
<1> SUFFICES ASSUME ProcessInv, Step PROVE ProcessInv'
    OBVIOUS
<1>1. SwapInv'
      BY StepIsSwap, SwapStepInv DEF ProcessInv
<1>2. CASE Save
      BY <1>1, <1>2, SaveInv
<1>3. ASSUME NEW l \in Loaders, Load(l) PROVE ProcessInv'
      BY <1>1, <1>3, LoadInv
<1>4. CASE Rest
   <2>1. ASSUME NEW l \in Loaders, FailUpdate(l) \/ StoreUpdate(l) PROVE ProcessInv'
         BY <1>1, <1>4, <2>1, UpdateEnds DEF Rest
   <2>2. ASSUME \/ \E g \in Generations : CloseRetired(g)
                \/ Drain \/ CloseServer \/ CancelWatch \/ FailServe
         PROVE  ProcessInv'
      <3>1. UNCHANGED <<installed, mu, loader, how, watched, file, good>>
            BY <1>4, <2>2 DEF Rest, CloseRetired, Drain, CloseServer, CancelWatch, FailServe
      <3>2. QED
            BY <1>1, <3>1, OtherInv
   <2>3. QED
         BY <1>4, <2>1, <2>2 DEF Rest
<1>5. CASE UNCHANGED vars
      BY <1>1, <1>5, OtherInv DEF vars
<1>6. QED
      BY <1>2, <1>3, <1>4, <1>5 DEF Step, Next, Ended, LoadNothing

-----------------------------------------------------------------------------
\* The inductive invariant holds throughout.
THEOREM ProcessInvariant == Spec => []ProcessInv
<1>1. Init => ProcessInv
      BY InitInv
<1>2. ProcessInv /\ [Next \/ Ended]_vars => ProcessInv'
      BY StepInv DEF Step
<1>3. QED
      BY <1>1, <1>2, PTL DEF Spec

\* A process is a ConfigSwap (initial state, steps and fairness), whatever the
\* file holds and however often it is saved: the theorems about authenticators
\* and generations in ConfigSwapProofs are about the process.
THEOREM ProcessIsSwap == Spec => SwapSpec
<1>1. Init => SwapInit
      BY DEF Init
<1>2. ProcessInv /\ [Next \/ Ended]_vars => [SwapNext \/ Exited]_swapVars
      BY StepIsSwap DEF ProcessInv, Step, SwapStep
<1>3. QED
      BY <1>1, <1>2, ProcessInvariant, PTL DEF Spec, SwapSpec

\* Type correctness, files and flags included.
THEOREM ProcessTypeCorrect == Spec => []TypeOK
<1>1. ProcessInv => TypeOK
      BY DEF ProcessInv
<1>2. QED
      BY <1>1, ProcessInvariant, PTL

\* What is in force is what the last good file says.
THEOREM LastGoodHolds == Spec => []LastGoodInForce
<1>1. ProcessInv => LastGoodInForce
      BY DEF ProcessInv, BetweenReloads, InForce, LastGoodInForce
<1>2. QED
      BY <1>1, ProcessInvariant, PTL

\* The two configurations a step stands between, when the first asks for
\* credentials and the second does not.
LEMMA OpensByStore ==
    ASSUME ProcessInv, Step, ~ Open(installed[Current]), Open(installed'[Current'])
    PROVE  /\ good.format = "yaml"
           /\ "auth" \in DOMAIN good.given =>
                 Expanded(good.given, how.vars)["auth"] \notin {"apikey", "jwt", "jwks"}
<1>1. installed' # installed
      BY DEF Current
<1>2. PICK l \in Loaders : StoreUpdate(l)
      BY <1>1 DEF Step, Next, Ended, Save, LoadNothing, Load, Rest, Exited, vars, swapVars, BeginUpdate,
                  FailUpdate, CloseRetired, Drain, CloseServer, CancelWatch, FailServe
<1>3. installed' = Append(installed, loader[l].config) /\ loader[l].config.buildable /\ loader[l].pc = "updating"
      BY <1>2 DEF StoreUpdate, Builds
<1>4. loader[l].config = Reloaded(how, good) /\ Decodes(good)
      BY <1>3 DEF ProcessInv, Carries
<1>5. installed'[Current'] = Reloaded(how, good)
   <2>1. installed \in Seq(Configs) /\ loader[l].config \in Configs
         BY <1>3 DEF ProcessInv, SwapInv, SwapTypeOK, Idle, Updating
   <2>2. QED
         BY <1>3, <1>4, <2>1 DEF Current
<1>6. ASSUME "auth" \in DOMAIN good.given
      PROVE  Layered(<<>>, how, good)["auth"] = Expanded(good.given, how.vars)["auth"]
   <2>1. "auth" \notin DOMAIN how.env
         BY ProcessAssumption DEF ProcessInv, TypeOK
   <2>2. "auth" \notin DOMAIN <<>>
         OBVIOUS
   <2>3. "auth" \in DOMAIN Expanded(good.given, how.vars)
         BY <1>6 DEF Expanded
   <2>4. QED
         BY <2>1, <2>2, <2>3 DEF Layered, Over
<1>7. QED
      BY <1>4, <1>5, <1>6 DEF Open, Reloaded, Config, Decodes

\* A gate that asks for credentials stops asking only when a file tells it.
THEOREM OpensOnlyWhenTold == Spec => OpensWhenTold
<1> DEFINE A == (~ Open(installed[Current]) /\ Open(installed'[Current'])) =>
                   /\ good.format = "yaml"
                   /\ "auth" \in DOMAIN good.given =>
                         Expanded(good.given, how.vars)["auth"] \notin {"apikey", "jwt", "jwks"}
<1>1. ProcessInv /\ [Next \/ Ended]_vars => [A]_vars
      BY OpensByStore DEF Step
<1>2. QED
      BY <1>1, ProcessInvariant, PTL DEF Spec, OpensWhenTold
=============================================================================
