-------------------------- MODULE ConfigSwapProofs --------------------------
(***************************************************************************)
(* Proofs about ConfigSwap, for any set of configurations and loaders and  *)
(* any number of reloads: the watcher's mutex makes UpdateConfig's early   *)
(* read of the old authenticator safe, so every replaced authenticator is  *)
(* closed exactly once and the one in force never.                         *)
(***************************************************************************)
EXTENDS ConfigSwap, TLAPS

\* The steps whose invariance the theorems need.
SwapStep == [SwapNext \/ Exited]_swapVars

\* A reload that has begun has a generation left to store.
RoomToStore == \A l \in Loaders : loader[l].pc = "updating" => Current <= MaxReloads

\* Only Server.Close sets shutAt, when draining ends.
NotShutYet == phase \in {"serving", "draining"} => shutAt = 0

\* Only configurations that build are ever stored.
AllBuildable == \A g \in 1 .. Current : installed[g].buildable

SwapInv ==
    /\ SwapTypeOK
    /\ OldIsCurrent
    /\ RoomToStore
    /\ NotShutYet
    /\ AllBuildable
    /\ AuthLedger

-----------------------------------------------------------------------------
\* The state NewServer builds satisfies the invariant.
LEMMA SwapInitInv == SwapInit => SwapInv
<1> USE ConfigSwapAssumption
<1> SUFFICES ASSUME SwapInit PROVE SwapInv
    OBVIOUS
<1>1. PICK c \in Configs : c.buildable /\ installed = <<c>>
      BY DEF SwapInit
<1>2. Current = 1 /\ 1 \in Generations /\ installed \in Seq(Configs) /\ Len(installed) = 1
      BY <1>1 DEF Current, Generations
<1>3. SwapTypeOK
      BY <1>2 DEF SwapInit, SwapTypeOK, Idle, Generations
<1>4. OldIsCurrent /\ RoomToStore /\ NotShutYet
      BY DEF SwapInit, OldIsCurrent, RoomToStore, NotShutYet, Idle
<1>5. AllBuildable
      BY <1>1, <1>2 DEF AllBuildable
<1>6. AuthLedger
      BY <1>2 DEF SwapInit, AuthLedger, Retirements, Generations
<1>7. QED
      BY <1>3, <1>4, <1>5, <1>6 DEF SwapInv

-----------------------------------------------------------------------------
\* Lock, read the file, read the authenticator to retire.
LEMMA BeginUpdateInv ==
    ASSUME SwapInv, NEW l \in Loaders, NEW c \in Configs, BeginUpdate(l, c)
    PROVE  SwapInv'
<1> USE ConfigSwapAssumption DEF SwapInv, BeginUpdate, MutexFree
<1>1. Current' = Current /\ Current \in Generations /\ Current <= MaxReloads
      BY DEF Current, SwapTypeOK
<1>2. [pc |-> "updating", config |-> c, old |-> Current] \in Updating
      BY <1>1 DEF Updating
<1>3. SwapTypeOK'
      BY <1>2 DEF SwapTypeOK
<1>4. \A k \in Loaders : loader[k].pc # "updating"
      BY DEF OldIsCurrent
<1>5. OldIsCurrent' /\ RoomToStore'
      BY <1>1, <1>4 DEF OldIsCurrent, RoomToStore, SwapTypeOK
<1>6. NotShutYet' /\ AllBuildable' /\ AuthLedger'
      BY <1>1 DEF NotShutYet, AllBuildable, AuthLedger, Retirements
<1>7. QED
      BY <1>3, <1>5, <1>6

\* UpdateConfig fails: only the lock is given back.
LEMMA FailUpdateInv ==
    ASSUME SwapInv, NEW l \in Loaders, FailUpdate(l)
    PROVE  SwapInv'
<1> USE ConfigSwapAssumption DEF SwapInv, FailUpdate
<1>1. Current' = Current
      BY DEF Current
<1>2. SwapTypeOK'
      BY DEF SwapTypeOK
<1>3. \A k \in Loaders : loader'[k].pc # "updating"
      BY DEF OldIsCurrent, SwapTypeOK, Idle
<1>4. OldIsCurrent' /\ RoomToStore'
      BY <1>3 DEF OldIsCurrent, RoomToStore
<1>5. NotShutYet' /\ AllBuildable' /\ AuthLedger'
      BY <1>1 DEF NotShutYet, AllBuildable, AuthLedger, Retirements
<1>6. QED
      BY <1>2, <1>4, <1>5

\* UpdateConfig stores: the authenticator it retires is the one in force,
\* because no other loader held the mutex since it was read.
LEMMA StoreUpdateInv ==
    ASSUME SwapInv, NEW l \in Loaders, StoreUpdate(l)
    PROVE  SwapInv'
<1> USE ConfigSwapAssumption DEF SwapInv, StoreUpdate
<1>1. /\ loader[l].old = Current
      /\ mu = l
      /\ Current <= MaxReloads
      BY DEF OldIsCurrent, RoomToStore
<1>2. loader[l] \in Updating
      BY DEF SwapTypeOK, Idle
<1>3. loader[l].config \in Configs /\ loader[l].config.buildable
      BY <1>2 DEF Updating, Builds
<1>4. Current \in Generations /\ Current \in Nat
      BY DEF SwapTypeOK, Current, Generations
<1>5. /\ Current' = Current + 1
      /\ installed' \in Seq(Configs)
      /\ \A g \in 1 .. Current : installed'[g] = installed[g]
      /\ installed'[Current + 1] = loader[l].config
      BY <1>3 DEF SwapTypeOK, Current
<1>6. Current' \in Generations
      BY <1>1, <1>4, <1>5 DEF Generations
<1>7. SwapTypeOK'
      BY <1>4, <1>5, <1>6, <1>1 DEF SwapTypeOK, Current, Retired
<1>8. \A k \in Loaders : loader'[k].pc # "updating"
      BY <1>1 DEF OldIsCurrent, SwapTypeOK, Idle
<1>9. OldIsCurrent' /\ RoomToStore'
      BY <1>8 DEF OldIsCurrent, RoomToStore
<1>10. NotShutYet'
      BY DEF NotShutYet
<1>11. AllBuildable'
   <2> SUFFICES ASSUME NEW g \in 1 .. (Current + 1) PROVE installed'[g].buildable
       BY <1>5 DEF AllBuildable
   <2>1. CASE g \in 1 .. Current
         BY <2>1, <1>5 DEF AllBuildable
   <2>2. CASE g = Current + 1
         BY <2>2, <1>3, <1>5
   <2>3. g \in 1 .. Current \/ g = Current + 1
         BY <1>4
   <2>4. QED
         BY <2>1, <2>2, <2>3
<1>12. closers' = [closers EXCEPT ![Current] = @ + 1] /\ closes' = closes /\ shutAt' = shutAt
      BY <1>1 DEF Retired
<1>13. ASSUME NEW g \in Generations
       PROVE  Retirements(g)' = (IF g < Current' THEN 1 ELSE 0) + (IF g = shutAt' THEN 1 ELSE 0)
   <2>1. g \in Nat /\ closers[g] \in Nat /\ closes[g] \in Nat /\ shutAt \in Nat
         BY DEF SwapTypeOK, Generations
   <2>2. Retirements(g) = (IF g < Current THEN 1 ELSE 0) + (IF g = shutAt THEN 1 ELSE 0)
         BY DEF AuthLedger
   <2>3. CASE g = Current
         BY <2>1, <2>2, <2>3, <1>4, <1>5, <1>12 DEF Retirements, SwapTypeOK
   <2>4. CASE g # Current
      <3>1. closers'[g] = closers[g] /\ closes'[g] = closes[g]
            BY <2>4, <1>4, <1>12 DEF SwapTypeOK
      <3>2. (g < Current + 1) <=> (g < Current)
            BY <2>1, <2>4, <1>4
      <3>3. QED
            BY <3>1, <3>2, <2>2, <1>5, <1>12 DEF Retirements
   <2>5. QED
         BY <2>3, <2>4
<1>14. AuthLedger'
      BY <1>13 DEF AuthLedger
<1>15. QED
      BY <1>7, <1>9, <1>10, <1>11, <1>14

\* A closing goroutine runs: the call moves from due to done.
LEMMA CloseRetiredInv ==
    ASSUME SwapInv, NEW g \in Generations, CloseRetired(g)
    PROVE  SwapInv'
<1> USE ConfigSwapAssumption DEF SwapInv, CloseRetired
<1>1. Current' = Current
      BY DEF Current
<1>2. closers[g] - 1 \in Nat /\ closes[g] + 1 \in Nat
      BY DEF SwapTypeOK, CloserWaits
<1>3. SwapTypeOK'
      BY <1>2 DEF SwapTypeOK
<1>4. OldIsCurrent' /\ RoomToStore' /\ NotShutYet' /\ AllBuildable'
      BY <1>1 DEF OldIsCurrent, RoomToStore, NotShutYet, AllBuildable
<1>5. \A h \in Generations : Retirements(h)' = Retirements(h)
      BY DEF Retirements, SwapTypeOK
<1>6. AuthLedger'
      BY <1>1, <1>5 DEF AuthLedger
<1>7. QED
      BY <1>3, <1>4, <1>6

\* Server.Close adds its one call for the generation in force.
LEMMA CloseServerInv ==
    ASSUME SwapInv, CloseServer
    PROVE  SwapInv'
<1> USE ConfigSwapAssumption DEF SwapInv, CloseServer
<1>1. Current' = Current /\ Current \in Generations /\ Current \in Nat
      BY DEF Current, SwapTypeOK, Generations
<1>2. SwapTypeOK'
   <2>1. closes' \in [Generations -> Nat]
         BY <1>1 DEF SwapTypeOK
   <2>2. Current \in 0 .. (MaxReloads + 1)
         BY <1>1 DEF Generations
   <2>3. QED
         BY <2>1, <2>2 DEF SwapTypeOK
<1>3. OldIsCurrent' /\ RoomToStore' /\ NotShutYet' /\ AllBuildable'
      BY <1>1 DEF OldIsCurrent, RoomToStore, NotShutYet, AllBuildable
<1>4. shutAt = 0
      BY DEF NotShutYet
<1>5. ASSUME NEW g \in Generations
      PROVE  Retirements(g)' = (IF g < Current' THEN 1 ELSE 0) + (IF g = shutAt' THEN 1 ELSE 0)
   <2>1. g \in Nat /\ g # 0 /\ closers[g] \in Nat /\ closes[g] \in Nat
         BY DEF SwapTypeOK, Generations
   <2>2. closers[g] + closes[g] = (IF g < Current THEN 1 ELSE 0)
         BY <1>4, <2>1 DEF AuthLedger, Retirements
   <2>3. closes'[g] = closes[g] + (IF g = Current THEN 1 ELSE 0)
         BY <1>1, <2>1 DEF SwapTypeOK
   <2>4. QED
         BY <1>1, <2>1, <2>2, <2>3 DEF Retirements
<1>6. AuthLedger'
      BY <1>5 DEF AuthLedger
<1>7. QED
      BY <1>2, <1>3, <1>6

\* Signals and the end of the process touch neither states nor authenticators.
LEMMA PhaseInv ==
    ASSUME SwapInv, Drain \/ CancelWatch \/ FailServe
    PROVE  SwapInv'
<1>1. Current' = Current /\ UNCHANGED <<installed, mu, loader, closers, closes, shutAt>>
      BY DEF Drain, CancelWatch, FailServe, Current
<1>2. SwapTypeOK' /\ NotShutYet'
      BY <1>1 DEF SwapInv, SwapTypeOK, NotShutYet, Drain, CancelWatch, FailServe
<1>3. OldIsCurrent' /\ RoomToStore' /\ AllBuildable' /\ AuthLedger'
      BY <1>1 DEF SwapInv, OldIsCurrent, RoomToStore, AllBuildable, AuthLedger, Retirements
<1>4. QED
      BY <1>2, <1>3 DEF SwapInv

\* Every step of the configuration's life preserves the invariant.
LEMMA SwapStepInv == SwapInv /\ SwapStep => SwapInv'
<1> SUFFICES ASSUME SwapInv, SwapStep PROVE SwapInv'
    OBVIOUS
<1>1. CASE UNCHANGED swapVars
      BY <1>1 DEF swapVars, SwapInv, SwapTypeOK, OldIsCurrent, RoomToStore, NotShutYet,
                  AllBuildable, AuthLedger, Retirements, Current
<1>2. ASSUME NEW l \in Loaders, NEW c \in Configs, BeginUpdate(l, c) PROVE SwapInv'
      BY <1>2, BeginUpdateInv
<1>3. ASSUME NEW l \in Loaders, FailUpdate(l) PROVE SwapInv'
      BY <1>3, FailUpdateInv
<1>4. ASSUME NEW l \in Loaders, StoreUpdate(l) PROVE SwapInv'
      BY <1>4, StoreUpdateInv
<1>5. ASSUME NEW g \in Generations, CloseRetired(g) PROVE SwapInv'
      BY <1>5, CloseRetiredInv
<1>6. CASE Drain \/ CancelWatch \/ FailServe
      BY <1>6, PhaseInv
<1>7. CASE CloseServer
      BY <1>7, CloseServerInv
<1>8. QED
      BY <1>1, <1>2, <1>3, <1>4, <1>5, <1>6, <1>7 DEF SwapStep, SwapNext, Exited

-----------------------------------------------------------------------------
\* The inductive invariant holds throughout.
THEOREM SwapInvariant == SwapSpec => []SwapInv
<1>1. SwapInit => SwapInv
      BY SwapInitInv
<1>2. SwapInv /\ [SwapNext \/ Exited]_swapVars => SwapInv'
      BY SwapStepInv DEF SwapStep
<1>3. QED
      BY <1>1, <1>2, PTL DEF SwapSpec

\* Type correctness of the configuration's life.
THEOREM SwapTypeCorrect == SwapSpec => []SwapTypeOK
<1>1. SwapInv => SwapTypeOK
      BY DEF SwapInv
<1>2. QED
      BY <1>1, SwapInvariant, PTL

\* UpdateConfig's early read of the authenticator to retire is never stale.
THEOREM RetiresWhatItReplaces == SwapSpec => []OldIsCurrent
<1>1. SwapInv => OldIsCurrent
      BY DEF SwapInv
<1>2. QED
      BY <1>1, SwapInvariant, PTL

\* Every replaced authenticator is closed by exactly one reload.
THEOREM EveryAuthRetiredOnce == SwapSpec => []AuthLedger
<1>1. SwapInv => AuthLedger
      BY DEF SwapInv
<1>2. QED
      BY <1>1, SwapInvariant, PTL

\* The authenticator in force is open while the gate serves or drains.
THEOREM AuthInForceOpen == SwapSpec => []CurrentAuthOpen
<1>1. SwapInv => CurrentAuthOpen
   <2> SUFFICES ASSUME SwapInv, phase \in {"serving", "draining"}
                PROVE  Retirements(Current) = 0
       BY DEF CurrentAuthOpen
   <2>1. Current \in Generations /\ Current \in Nat /\ Current # 0
         BY ConfigSwapAssumption DEF SwapInv, SwapTypeOK, Current, Generations
   <2>2. shutAt = 0
         BY DEF SwapInv, NotShutYet
   <2>3. QED
         BY <2>1, <2>2 DEF SwapInv, AuthLedger
<1>2. QED
      BY <1>1, SwapInvariant, PTL

\* What one step may do to the generations.
Grows ==
    /\ Current' \in {Current, Current + 1}
    /\ \A g \in 1 .. Current : installed'[g] = installed[g]
    /\ installed'[Current'].buildable

\* A step adds at most one generation, one that builds, and changes none.
LEMMA StepGrows == SwapInv /\ SwapInv' /\ SwapStep => Grows
<1> SUFFICES ASSUME SwapInv, SwapInv', SwapStep PROVE Grows
    OBVIOUS
<1>1. Current \in Nat /\ Current' \in 1 .. Current'
      BY ConfigSwapAssumption DEF SwapInv, SwapTypeOK, Current, Generations
<1>2. installed'[Current'].buildable
      BY <1>1 DEF SwapInv, AllBuildable
<1>3. CASE installed' = installed
      BY <1>2, <1>3 DEF Current, Grows
<1>4. CASE \E l \in Loaders : StoreUpdate(l)
   <2>1. PICK l \in Loaders : StoreUpdate(l)
         BY <1>4
   <2>2. installed' = Append(installed, loader[l].config) /\ installed \in Seq(Configs)
         BY <2>1 DEF StoreUpdate, SwapInv, SwapTypeOK
   <2>3. loader[l].config \in Configs
         BY <2>1 DEF StoreUpdate, SwapInv, SwapTypeOK, Idle, Updating
   <2>4. QED
         BY <1>2, <2>2, <2>3 DEF Current, Grows
<1>5. QED
      BY <1>3, <1>4 DEF SwapStep, SwapNext, Exited, swapVars, BeginUpdate, FailUpdate,
                        CloseRetired, Drain, CloseServer, CancelWatch, FailServe
=============================================================================
