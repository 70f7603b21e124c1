-------------------------- MODULE ConfigWatchProofs --------------------------
(***************************************************************************)
(* Proofs about ConfigWatch, for any number of loaders, saves and kinds of *)
(* save, fast or slow: no save of a watched file is lost, what is read is  *)
(* what is applied, never backwards, and nothing is applied after cancel.  *)
(***************************************************************************)
EXTENDS ConfigWatch, TLAPS

\* The mutex: its holder is the one loader between Lock and its unlock, and
\* nobody takes it once the watch is cancelled.
Exclusive ==
    /\ \A l \in Loaders : loader[l] \in {"locked", "loaded"} => mu = l
    /\ cancelled => mu = NoLoader

\* A loader past its read holds what was read last.
HoldsLastRead == \A l \in Loaders : loader[l] = "loaded" => buffer[l] = lastRead

\* What is applied was read, what was read was on disk, in that order.
Ordered == applied.save <= lastRead.save /\ lastRead.save <= disk.save

\* The flag is set only while a loader sleeps: an event that finds it set is
\* answered by the read that loader has still to make.
PendingSleeps == pending = 1 => \E l \in Loaders : loader[l] = "asleep"

WatchInv ==
    /\ TypeOK
    /\ Exclusive
    /\ HoldsLastRead
    /\ Ordered
    /\ PendingSleeps
    /\ AppliesLastRead
    /\ NoLostUpdate

-----------------------------------------------------------------------------
\* At the start the file is the one main read and nobody watches it.
LEMMA WatchInitInv == Init => WatchInv
<1> SUFFICES ASSUME Init PROVE WatchInv
    OBVIOUS
<1> USE ConfigWatchAssumption DEF Init, First, Unwatched
<1>1. First \in Contents /\ Unwatched \in Contents
      BY DEF Contents
<1>2. TypeOK
  <2>1. disk \in Contents /\ lastRead \in Contents /\ applied \in Contents /\ atAdd \in Contents
        BY <1>1
  <2>2. loader \in [Loaders -> LoaderPCs] /\ mu \in Loaders \cup {NoLoader}
        BY DEF LoaderPCs
  <2>3. begun \in [Loaders -> 0 .. MaxSaves] /\ buffer \in [Loaders -> Contents]
        BY <1>1
  <2>4. QED
        BY <2>1, <2>2, <2>3 DEF TypeOK
<1>3. Exclusive /\ HoldsLastRead /\ Ordered /\ PendingSleeps
      BY DEF Exclusive, HoldsLastRead, Ordered, PendingSleeps
<1>4. AppliesLastRead /\ NoLostUpdate
      BY DEF AppliesLastRead, NoLostUpdate
<1>5. QED
      BY <1>2, <1>3, <1>4 DEF WatchInv

\* Truncate: a save that begins is reported to whoever watches the file.
LEMMA TruncateInv ==
    ASSUME WatchInv, Truncate
    PROVE  WatchInv'
<1> USE ConfigWatchAssumption DEF Truncate, Report
<1>1. TypeOK'
  <2>1. disk' \in Contents
        BY DEF WatchInv, TypeOK, Contents
  <2>2. events' \in Nat
        BY DEF WatchInv, TypeOK
  <2>3. QED
        BY <2>1, <2>2 DEF WatchInv, TypeOK
<1>2. Exclusive'
      BY DEF WatchInv, TypeOK, LoaderPCs, Exclusive
<1>3. HoldsLastRead'
      BY DEF WatchInv, TypeOK, LoaderPCs, Exclusive, HoldsLastRead
<1>4. Ordered'
      BY DEF WatchInv, TypeOK, Contents, HoldsLastRead, Ordered
<1>5. PendingSleeps'
      BY DEF WatchInv, TypeOK, LoaderPCs, PendingSleeps
<1>6. AppliesLastRead'
      BY DEF WatchInv, TypeOK, LoaderPCs, Exclusive, HoldsLastRead, AppliesLastRead
<1>7. NoLostUpdate'
      BY DEF WatchInv, TypeOK, LoaderPCs, PendingSleeps, NoLostUpdate, ReadDue
<1>8. QED
      BY <1>1, <1>2, <1>3, <1>4, <1>5, <1>6, <1>7 DEF WatchInv

\* Complete: so is its completion.
LEMMA CompleteInv ==
    ASSUME WatchInv, Complete
    PROVE  WatchInv'
<1> USE ConfigWatchAssumption DEF Complete, Report
<1>1. TypeOK'
  <2>1. disk' \in Contents
        BY DEF WatchInv, TypeOK, Contents
  <2>2. events' \in Nat
        BY DEF WatchInv, TypeOK
  <2>3. QED
        BY <2>1, <2>2 DEF WatchInv, TypeOK
<1>2. Exclusive'
      BY DEF WatchInv, TypeOK, LoaderPCs, Exclusive
<1>3. HoldsLastRead'
      BY DEF WatchInv, TypeOK, LoaderPCs, Exclusive, HoldsLastRead
<1>4. Ordered'
      BY DEF WatchInv, TypeOK, Contents, HoldsLastRead, Ordered
<1>5. PendingSleeps'
      BY DEF WatchInv, TypeOK, LoaderPCs, PendingSleeps
<1>6. AppliesLastRead'
      BY DEF WatchInv, TypeOK, LoaderPCs, Exclusive, HoldsLastRead, AppliesLastRead
<1>7. NoLostUpdate'
      BY DEF WatchInv, TypeOK, LoaderPCs, PendingSleeps, NoLostUpdate, ReadDue
<1>8. QED
      BY <1>1, <1>2, <1>3, <1>4, <1>5, <1>6, <1>7 DEF WatchInv

\* Rename: a rename ends the watch, and with it what the watch promised.
LEMMA RenameInv ==
    ASSUME WatchInv, Rename
    PROVE  WatchInv'
<1> USE ConfigWatchAssumption DEF Rename
<1>1. TypeOK'
  <2>1. disk' \in Contents
        BY DEF WatchInv, TypeOK, Contents
  <2>2. events' \in Nat
        BY DEF WatchInv, TypeOK
  <2>3. QED
        BY <2>1, <2>2 DEF WatchInv, TypeOK
<1>2. Exclusive'
      BY DEF WatchInv, TypeOK, LoaderPCs, Exclusive
<1>3. HoldsLastRead'
      BY DEF WatchInv, TypeOK, LoaderPCs, Exclusive, HoldsLastRead
<1>4. Ordered'
      BY DEF WatchInv, TypeOK, Contents, HoldsLastRead, Ordered
<1>5. PendingSleeps'
      BY DEF WatchInv, TypeOK, LoaderPCs, PendingSleeps
<1>6. AppliesLastRead'
      BY DEF WatchInv, TypeOK, LoaderPCs, Exclusive, HoldsLastRead, AppliesLastRead
<1>7. NoLostUpdate'
      BY DEF WatchInv, TypeOK, LoaderPCs, PendingSleeps, NoLostUpdate, ReadDue
<1>8. QED
      BY <1>1, <1>2, <1>3, <1>4, <1>5, <1>6, <1>7 DEF WatchInv

\* Add: the watch begins with what the path holds.
LEMMA AddInv ==
    ASSUME WatchInv, Add
    PROVE  WatchInv'
<1> USE ConfigWatchAssumption DEF Add, First, Unwatched
<1>1. TypeOK'
      BY DEF WatchInv, TypeOK, Contents, LoaderPCs
<1>2. Exclusive'
      BY DEF WatchInv, TypeOK, LoaderPCs, Exclusive
<1>3. HoldsLastRead'
      BY DEF WatchInv, TypeOK, LoaderPCs, Exclusive, HoldsLastRead
<1>4. Ordered'
      BY DEF WatchInv, TypeOK, Contents, HoldsLastRead, Ordered
<1>5. PendingSleeps'
      BY DEF WatchInv, TypeOK, LoaderPCs, PendingSleeps
<1>6. AppliesLastRead'
      BY DEF WatchInv, TypeOK, LoaderPCs, Exclusive, HoldsLastRead, AppliesLastRead
<1>7. NoLostUpdate'
      BY DEF WatchInv, TypeOK, LoaderPCs, PendingSleeps, NoLostUpdate, ReadDue
<1>8. QED
      BY <1>1, <1>2, <1>3, <1>4, <1>5, <1>6, <1>7 DEF WatchInv

\* TakeEvent: an event becomes a sleeping loader, or finds one asleep.
LEMMA TakeEventInv ==
    ASSUME WatchInv, TakeEvent
    PROVE  WatchInv'
<1> USE ConfigWatchAssumption DEF TakeEvent, EventReady
<1>1. TypeOK'
      BY DEF WatchInv, TypeOK, Contents, LoaderPCs
<1>2. Exclusive'
      BY DEF WatchInv, TypeOK, LoaderPCs, Exclusive
<1>3. HoldsLastRead'
      BY DEF WatchInv, TypeOK, LoaderPCs, Exclusive, HoldsLastRead
<1>4. Ordered'
      BY DEF WatchInv, TypeOK, Contents, HoldsLastRead, Ordered
<1>5. PendingSleeps'
      BY DEF WatchInv, TypeOK, LoaderPCs, PendingSleeps
<1>6. AppliesLastRead'
      BY DEF WatchInv, TypeOK, LoaderPCs, Exclusive, HoldsLastRead, AppliesLastRead
<1>7. NoLostUpdate'
      BY DEF WatchInv, TypeOK, LoaderPCs, PendingSleeps, NoLostUpdate, ReadDue
<1>8. QED
      BY <1>1, <1>2, <1>3, <1>4, <1>5, <1>6, <1>7 DEF WatchInv

\* Wake: the flag is cleared before the file is read.
LEMMA WakeInv ==
    ASSUME WatchInv, NEW l \in Loaders, Wake(l)
    PROVE  WatchInv'
<1> USE ConfigWatchAssumption DEF Wake, PendingAwake
<1>1. TypeOK'
      BY DEF WatchInv, TypeOK, Contents, LoaderPCs
<1>2. Exclusive'
      BY DEF WatchInv, TypeOK, LoaderPCs, Exclusive
<1>3. HoldsLastRead'
      BY DEF WatchInv, TypeOK, LoaderPCs, Exclusive, HoldsLastRead
<1>4. Ordered'
      BY DEF WatchInv, TypeOK, Contents, HoldsLastRead, Ordered
<1>5. PendingSleeps'
      BY DEF WatchInv, TypeOK, LoaderPCs, PendingSleeps
<1>6. AppliesLastRead'
      BY DEF WatchInv, TypeOK, LoaderPCs, Exclusive, HoldsLastRead, AppliesLastRead
<1>7. NoLostUpdate'
      BY DEF WatchInv, TypeOK, LoaderPCs, PendingSleeps, NoLostUpdate, ReadDue
<1>8. QED
      BY <1>1, <1>2, <1>3, <1>4, <1>5, <1>6, <1>7 DEF WatchInv

\* Lock: the mutex goes to one loader, and to none once cancelled.
LEMMA LockInv ==
    ASSUME WatchInv, NEW l \in Loaders, Lock(l)
    PROVE  WatchInv'
<1> USE ConfigWatchAssumption DEF Lock, LockFree, MayLoad
<1>1. TypeOK'
      BY DEF WatchInv, TypeOK, Contents, LoaderPCs
<1>2. Exclusive'
      BY DEF WatchInv, TypeOK, LoaderPCs, Exclusive
<1>3. HoldsLastRead'
      BY DEF WatchInv, TypeOK, LoaderPCs, Exclusive, HoldsLastRead
<1>4. Ordered'
      BY DEF WatchInv, TypeOK, Contents, HoldsLastRead, Ordered
<1>5. PendingSleeps'
      BY DEF WatchInv, TypeOK, LoaderPCs, PendingSleeps
<1>6. AppliesLastRead'
      BY DEF WatchInv, TypeOK, LoaderPCs, Exclusive, HoldsLastRead, AppliesLastRead
<1>7. NoLostUpdate'
      BY DEF WatchInv, TypeOK, LoaderPCs, PendingSleeps, NoLostUpdate, ReadDue
<1>8. QED
      BY <1>1, <1>2, <1>3, <1>4, <1>5, <1>6, <1>7 DEF WatchInv

\* Read: what is read is at least as new as what was read before.
LEMMA ReadInv ==
    ASSUME WatchInv, NEW l \in Loaders, Read(l)
    PROVE  WatchInv'
<1> USE ConfigWatchAssumption DEF Read
<1>1. TypeOK'
      BY DEF WatchInv, TypeOK, Contents, LoaderPCs
<1>2. Exclusive'
      BY DEF WatchInv, TypeOK, LoaderPCs, Exclusive
<1>3. HoldsLastRead'
      BY DEF WatchInv, TypeOK, LoaderPCs, Exclusive, HoldsLastRead
<1>4. Ordered'
      BY DEF WatchInv, TypeOK, Contents, HoldsLastRead, Ordered
<1>5. PendingSleeps'
      BY DEF WatchInv, TypeOK, LoaderPCs, PendingSleeps
<1>6. AppliesLastRead'
      BY DEF WatchInv, TypeOK, LoaderPCs, Exclusive, HoldsLastRead, AppliesLastRead
<1>7. NoLostUpdate'
      BY DEF WatchInv, TypeOK, LoaderPCs, PendingSleeps, NoLostUpdate, ReadDue
<1>8. QED
      BY <1>1, <1>2, <1>3, <1>4, <1>5, <1>6, <1>7 DEF WatchInv

\* Apply: the loader inside the mutex applies what was read last.
LEMMA ApplyInv ==
    ASSUME WatchInv, NEW l \in Loaders, Apply(l)
    PROVE  WatchInv'
<1> USE ConfigWatchAssumption DEF Apply, First
<1>1. TypeOK'
      BY DEF WatchInv, TypeOK, Contents, LoaderPCs
<1>2. Exclusive'
      BY DEF WatchInv, TypeOK, LoaderPCs, Exclusive
<1>3. HoldsLastRead'
      BY DEF WatchInv, TypeOK, LoaderPCs, Exclusive, HoldsLastRead
<1>4. Ordered'
      BY DEF WatchInv, TypeOK, Contents, HoldsLastRead, Ordered
<1>5. PendingSleeps'
      BY DEF WatchInv, TypeOK, LoaderPCs, PendingSleeps
<1>6. AppliesLastRead'
      BY DEF WatchInv, TypeOK, LoaderPCs, Exclusive, HoldsLastRead, AppliesLastRead
<1>7. NoLostUpdate'
      BY DEF WatchInv, TypeOK, LoaderPCs, PendingSleeps, NoLostUpdate, ReadDue
<1>8. QED
      BY <1>1, <1>2, <1>3, <1>4, <1>5, <1>6, <1>7 DEF WatchInv

\* Discard: only a half-saved content is thrown away.
LEMMA DiscardInv ==
    ASSUME WatchInv, NEW l \in Loaders, Discard(l)
    PROVE  WatchInv'
<1> USE ConfigWatchAssumption DEF Discard, First
<1>1. TypeOK'
      BY DEF WatchInv, TypeOK, Contents, LoaderPCs
<1>2. Exclusive'
      BY DEF WatchInv, TypeOK, LoaderPCs, Exclusive
<1>3. HoldsLastRead'
      BY DEF WatchInv, TypeOK, LoaderPCs, Exclusive, HoldsLastRead
<1>4. Ordered'
      BY DEF WatchInv, TypeOK, Contents, HoldsLastRead, Ordered
<1>5. PendingSleeps'
      BY DEF WatchInv, TypeOK, LoaderPCs, PendingSleeps
<1>6. AppliesLastRead'
      BY DEF WatchInv, TypeOK, LoaderPCs, Exclusive, HoldsLastRead, AppliesLastRead
<1>7. NoLostUpdate'
      BY DEF WatchInv, TypeOK, LoaderPCs, PendingSleeps, NoLostUpdate, ReadDue
<1>8. QED
      BY <1>1, <1>2, <1>3, <1>4, <1>5, <1>6, <1>7 DEF WatchInv

\* Cancel: no loader holds the mutex when the watch is cancelled.
LEMMA CancelInv ==
    ASSUME WatchInv, Cancel
    PROVE  WatchInv'
<1> USE ConfigWatchAssumption DEF Cancel, LockFree
<1>1. TypeOK'
      BY DEF WatchInv, TypeOK, Contents, LoaderPCs
<1>2. Exclusive'
      BY DEF WatchInv, TypeOK, LoaderPCs, Exclusive
<1>3. HoldsLastRead'
      BY DEF WatchInv, TypeOK, LoaderPCs, Exclusive, HoldsLastRead
<1>4. Ordered'
      BY DEF WatchInv, TypeOK, Contents, HoldsLastRead, Ordered
<1>5. PendingSleeps'
      BY DEF WatchInv, TypeOK, LoaderPCs, PendingSleeps
<1>6. AppliesLastRead'
      BY DEF WatchInv, TypeOK, LoaderPCs, Exclusive, HoldsLastRead, AppliesLastRead
<1>7. NoLostUpdate'
      BY DEF WatchInv, TypeOK, LoaderPCs, PendingSleeps, NoLostUpdate, ReadDue
<1>8. QED
      BY <1>1, <1>2, <1>3, <1>4, <1>5, <1>6, <1>7 DEF WatchInv

\* CloseWatcher: the watcher closes when nothing is promised any more.
LEMMA CloseWatcherInv ==
    ASSUME WatchInv, CloseWatcher
    PROVE  WatchInv'
<1> USE ConfigWatchAssumption DEF CloseWatcher
<1>1. TypeOK'
      BY DEF WatchInv, TypeOK, Contents, LoaderPCs
<1>2. Exclusive'
      BY DEF WatchInv, TypeOK, LoaderPCs, Exclusive
<1>3. HoldsLastRead'
      BY DEF WatchInv, TypeOK, LoaderPCs, Exclusive, HoldsLastRead
<1>4. Ordered'
      BY DEF WatchInv, TypeOK, Contents, HoldsLastRead, Ordered
<1>5. PendingSleeps'
      BY DEF WatchInv, TypeOK, LoaderPCs, PendingSleeps
<1>6. AppliesLastRead'
      BY DEF WatchInv, TypeOK, LoaderPCs, Exclusive, HoldsLastRead, AppliesLastRead
<1>7. NoLostUpdate'
      BY DEF WatchInv, TypeOK, LoaderPCs, PendingSleeps, NoLostUpdate, ReadDue
<1>8. QED
      BY <1>1, <1>2, <1>3, <1>4, <1>5, <1>6, <1>7 DEF WatchInv

-----------------------------------------------------------------------------
\* Every step of the editors, the event loop, the loaders and cancel preserves
\* the inductive invariant.
LEMMA WatchStepInv == WatchInv /\ [Next]_vars => WatchInv'
<1> SUFFICES ASSUME WatchInv, [Next]_vars PROVE WatchInv'
    OBVIOUS
<1>1. CASE Editor
      BY <1>1, TruncateInv, CompleteInv, RenameInv DEF Editor
<1>2. CASE Add
      BY <1>2, AddInv
<1>3. CASE TakeEvent
      BY <1>3, TakeEventInv
<1>4. CASE Cancel
      BY <1>4, CancelInv
<1>5. CASE CloseWatcher
      BY <1>5, CloseWatcherInv
<1>6. ASSUME NEW l \in Loaders, Load(l) PROVE WatchInv'
      BY <1>6, WakeInv, LockInv, ReadInv, ApplyInv, DiscardInv DEF Load
<1>7. CASE UNCHANGED vars
  <2> USE <1>7 DEF vars, WatchInv
  <2>1. TypeOK' /\ Exclusive' /\ HoldsLastRead' /\ Ordered' /\ PendingSleeps'
        BY DEF TypeOK, Exclusive, HoldsLastRead, Ordered, PendingSleeps
  <2>2. AppliesLastRead' /\ NoLostUpdate'
        BY DEF AppliesLastRead, NoLostUpdate, ReadDue
  <2>3. QED
        BY <2>1, <2>2
<1>8. QED
      BY <1>1, <1>2, <1>3, <1>4, <1>5, <1>6, <1>7 DEF Next

\* The inductive invariant holds for every instance.
THEOREM WatchInvariant == Spec => []WatchInv
<1>1. QED
      BY WatchInitInv, WatchStepInv, PTL DEF Spec

\* Every variable of the watch keeps its type.
THEOREM WatchTypeCorrect == Spec => []TypeOK
<1>1. WatchInv => TypeOK
      BY DEF WatchInv
<1>2. QED
      BY <1>1, WatchInvariant, PTL

\* No save of a watched file is lost to the pending flag (scheduleLoad clears
\* it before load reads the file).
THEOREM NoSaveIsLost == Spec => []NoLostUpdate
<1>1. WatchInv => NoLostUpdate
      BY DEF WatchInv
<1>2. QED
      BY <1>1, WatchInvariant, PTL

\* Read and onChange are one unit: no loader's read is overtaken by another's.
THEOREM AppliedIsLastRead == Spec => []AppliesLastRead
<1>1. WatchInv => AppliesLastRead
      BY DEF WatchInv
<1>2. QED
      BY <1>1, WatchInvariant, PTL

\* A step that applies something is the Apply of a loader that holds what was
\* read last, inside the mutex.
LEMMA AppliedStep ==
    ASSUME WatchInv, [Next]_vars
    PROVE  applied' = applied \/ (applied' = lastRead /\ ~ cancelled)
<1>1. ASSUME NEW l \in Loaders, Apply(l) PROVE applied' = lastRead /\ ~ cancelled
      BY <1>1, ConfigWatchAssumption DEF Apply, WatchInv, HoldsLastRead, Exclusive
<1>2. ASSUME NEW l \in Loaders, Load(l) PROVE applied' = applied \/ (applied' = lastRead /\ ~ cancelled)
      BY <1>1, <1>2 DEF Load, Wake, Lock, Read, Discard
<1>3. QED
      BY <1>2 DEF Next, Editor, Truncate, Complete, Rename, Add, TakeEvent, Cancel, CloseWatcher, vars

\* The configuration in force never goes back to an earlier save.
THEOREM NeverGoesBack == Spec => NeverBackwards
<1>1. WatchInv /\ [Next]_vars => [applied'.save >= applied.save]_vars
      BY AppliedStep DEF WatchInv, TypeOK, Contents, Ordered
<1>2. QED
      BY <1>1, WatchInvariant, PTL DEF Spec, NeverBackwards

\* onChange is not called once cancel() has returned.
THEOREM CancelIsFinal == Spec => QuietAfterCancel
<1>1. WatchInv /\ [Next]_vars => [cancelled => applied' = applied]_vars
      BY AppliedStep
<1>2. QED
      BY <1>1, WatchInvariant, PTL DEF Spec, QuietAfterCancel
=============================================================================
