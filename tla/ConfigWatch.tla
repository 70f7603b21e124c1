----------------------------- MODULE ConfigWatch -----------------------------
(***************************************************************************)
(* internal/config's Watch: how a saved config file becomes a call of      *)
(* onChange.                                                               *)
(*                                                                         *)
(* fsnotify reports writes to the watched file; the event loop answers a   *)
(* report by starting a goroutine, unless one is already asleep (pending); *)
(* the goroutine sleeps 200 ms, clears pending, and under the mutex reads  *)
(* the file and calls onChange.  cancel() stops it all.                    *)
(*                                                                         *)
(* Time is abstracted: the sleep ends at some moment after it began, and a *)
(* save may fall anywhere around it.  A file's content is the number of    *)
(* the save that made it and whether that save is complete; a save that    *)
(* stays incomplete also stands for one that does not decode.              *)
(***************************************************************************)
EXTENDS Naturals

CONSTANTS
    Loaders,    \* goroutines scheduleLoad may have alive at once
    NoLoader,   \* the mutex is free
    SaveKinds,  \* how editors save: "in_place" (truncate, write), "rename" (over the path)
    MaxSaves,   \* bound: saves in one behaviour
    FastSaves   \* every save completes within 200 ms of the event it begins with

ASSUME ConfigWatchAssumption ==
    /\ NoLoader \notin Loaders
    /\ SaveKinds \subseteq {"in_place", "rename"}
    /\ MaxSaves \in Nat
    /\ FastSaves \in BOOLEAN

VARIABLES
    disk,       \* what the path holds
    watching,   \* the fsnotify watcher is open and watches the file the path names
    atAdd,      \* what the path held when the watcher was told to watch it
    events,     \* write events not yet taken by the event loop
    pending,    \* the flag scheduleLoad compares and swaps
    loader,     \* per goroutine: none, asleep, awake (before the lock), locked, loaded
    begun,      \* per goroutine: the save under way when it was started
    buffer,     \* per goroutine: what ReadFile returned
    mu,         \* holder of the mutex
    cancelled,  \* the flag cancel() sets
    lastRead,   \* what the latest ReadFile returned
    applied     \* what the latest onChange was called with

vars == <<disk, watching, atAdd, events, pending, loader, begun, buffer, mu, cancelled, lastRead, applied>>

Contents == [save : 0 .. MaxSaves, whole : BOOLEAN]

LoaderPCs == {"none", "asleep", "awake", "locked", "loaded"}

TypeOK ==
    /\ disk \in Contents
    /\ watching \in BOOLEAN
    /\ atAdd \in Contents
    /\ events \in Nat
    /\ pending \in {0, 1}
    /\ loader \in [Loaders -> LoaderPCs]
    /\ begun \in [Loaders -> 0 .. MaxSaves]
    /\ buffer \in [Loaders -> Contents]
    /\ mu \in Loaders \cup {NoLoader}
    /\ cancelled \in BOOLEAN
    /\ lastRead \in Contents
    /\ applied \in Contents

\* The configuration the process started with, which main read before Watch.
First == [save |-> 0, whole |-> TRUE]

\* The value of atAdd before the path is watched: the path never holds it.
Unwatched == [save |-> 0, whole |-> FALSE]

Init ==
    /\ disk = First
    /\ watching = FALSE
    /\ atAdd = Unwatched
    /\ events = 0
    /\ pending = 0
    /\ loader = [l \in Loaders |-> "none"]
    /\ begun = [l \in Loaders |-> 0]
    /\ buffer = [l \in Loaders |-> First]
    /\ mu = NoLoader
    /\ cancelled = FALSE
    /\ lastRead = First
    /\ applied = First

-----------------------------------------------------------------------------
(* Editors and fsnotify.                                                   *)

\* The kernel reports a write to whoever watches the file.
Report == events' = IF watching THEN events + 1 ELSE events

\* A save in place begins: the file is truncated.
Truncate ==
    /\ "in_place" \in SaveKinds
    /\ FastSaves => disk.whole
    /\ disk.save < MaxSaves
    /\ disk' = [save |-> disk.save + 1, whole |-> FALSE]
    /\ Report
    /\ UNCHANGED <<watching, atAdd, pending, loader, begun, buffer, mu, cancelled, lastRead, applied>>

\* The save's content is written.
Complete ==
    /\ ~ disk.whole
    /\ disk' = [disk EXCEPT !.whole = TRUE]
    /\ Report
    /\ UNCHANGED <<watching, atAdd, pending, loader, begun, buffer, mu, cancelled, lastRead, applied>>

\* A new file is renamed over the path.  The watch was on the file that is
\* gone; fsnotify drops it and reports Chmod and Remove, which the event loop
\* passes over.
Rename ==
    /\ "rename" \in SaveKinds
    /\ FastSaves => disk.whole
    /\ disk.save < MaxSaves
    /\ disk' = [save |-> disk.save + 1, whole |-> TRUE]
    /\ watching' = FALSE
    /\ UNCHANGED <<atAdd, events, pending, loader, begun, buffer, mu, cancelled, lastRead, applied>>

-----------------------------------------------------------------------------
(* Watch.  A definition named Broken... is a wrong variant of the one that *)
(* follows it, which the properties must reject.                           *)

BrokenPendingAwake == pending

\* atomic.StoreInt32(&pending, 0), before load().
PendingAwake == 0

BrokenLockFree == TRUE

\* mu.Lock() returns.
LockFree == mu = NoLoader

BrokenMayLoad == TRUE

\* load() returns at once when the watch is cancelled.
MayLoad == ~ cancelled

BrokenEventReady == TRUE

\* A receive from watcher.Events yields an event, not the close of the channel.
EventReady == events > 0

\* watcher.Add(path), an error of which is ignored: a file saved since main
\* read it is not looked at again.
Add ==
    /\ atAdd = Unwatched
    /\ atAdd' = disk
    /\ watching' = TRUE
    /\ UNCHANGED <<disk, events, pending, loader, begun, buffer, mu, cancelled, lastRead, applied>>

\* The event loop takes a write event: scheduleLoad starts a goroutine, or
\* finds one asleep and does nothing.
TakeEvent ==
    /\ EventReady
    /\ events' = events - 1
    /\ \/ /\ pending = 0
          /\ \E l \in Loaders :
                /\ loader[l] = "none"
                /\ loader' = [loader EXCEPT ![l] = "asleep"]
                /\ begun' = [begun EXCEPT ![l] = disk.save]
          /\ pending' = 1
       \/ /\ pending = 1
          /\ UNCHANGED <<pending, loader, begun>>
    /\ UNCHANGED <<disk, watching, atAdd, buffer, mu, cancelled, lastRead, applied>>

\* The 200 ms are over; a fast save that was under way when they began is over
\* too.  Events since have not prolonged them.
Wake(l) ==
    /\ loader[l] = "asleep"
    /\ FastSaves => disk.whole \/ disk.save # begun[l]
    /\ loader' = [loader EXCEPT ![l] = "awake"]
    /\ begun' = [begun EXCEPT ![l] = 0]
    /\ pending' = PendingAwake
    /\ UNCHANGED <<disk, watching, atAdd, events, buffer, mu, cancelled, lastRead, applied>>

\* load() takes the mutex, or takes it, finds the watch cancelled and lets go.
Lock(l) ==
    /\ loader[l] = "awake"
    /\ LockFree
    /\ \/ /\ MayLoad
          /\ mu' = l
          /\ loader' = [loader EXCEPT ![l] = "locked"]
       \/ /\ ~ MayLoad
          /\ loader' = [loader EXCEPT ![l] = "none"]
          /\ UNCHANGED mu
    /\ UNCHANGED <<disk, watching, atAdd, events, pending, begun, buffer, cancelled, lastRead, applied>>

\* os.ReadFile.  A truncated file is read like any other.
Read(l) ==
    /\ loader[l] = "locked"
    /\ buffer' = [buffer EXCEPT ![l] = disk]
    /\ lastRead' = disk
    /\ loader' = [loader EXCEPT ![l] = "loaded"]
    /\ UNCHANGED <<disk, watching, atAdd, events, pending, begun, mu, cancelled, applied>>

\* The content, expanded and decoded over the defaults, goes to onChange; the
\* deferred unlock follows.
Apply(l) ==
    /\ loader[l] = "loaded"
    /\ applied' = buffer[l]
    /\ buffer' = [buffer EXCEPT ![l] = First]
    /\ mu' = NoLoader
    /\ loader' = [loader EXCEPT ![l] = "none"]
    /\ UNCHANGED <<disk, watching, atAdd, events, pending, begun, cancelled, lastRead>>

\* A half-saved content may fail to decode: load() returns without onChange.
Discard(l) ==
    /\ loader[l] = "loaded"
    /\ ~ buffer[l].whole
    /\ buffer' = [buffer EXCEPT ![l] = First]
    /\ mu' = NoLoader
    /\ loader' = [loader EXCEPT ![l] = "none"]
    /\ UNCHANGED <<disk, watching, atAdd, events, pending, begun, cancelled, lastRead, applied>>

\* The function Watch returns, up to its unlock: it waits for a load to finish.
Cancel ==
    /\ atAdd # Unwatched
    /\ ~ cancelled
    /\ LockFree
    /\ cancelled' = TRUE
    /\ UNCHANGED <<disk, watching, atAdd, events, pending, loader, begun, buffer, mu, lastRead, applied>>

\* It then closes the fsnotify watcher, which ends the event loop.
CloseWatcher ==
    /\ cancelled
    /\ watching \/ events > 0
    /\ watching' = FALSE
    /\ events' = 0
    /\ UNCHANGED <<disk, atAdd, pending, loader, begun, buffer, mu, cancelled, lastRead, applied>>

Editor == Truncate \/ Complete \/ Rename

Load(l) == Wake(l) \/ Lock(l) \/ Read(l) \/ Apply(l) \/ Discard(l)

Next == Editor \/ Add \/ TakeEvent \/ Cancel \/ CloseWatcher \/ \E l \in Loaders : Load(l)

\* The event loop and the loaders run when they can; a lock that is free again
\* and again is had in the end (Go's mutex hands over to a waiter that
\* starves).  Editors and main owe nothing.
Fairness == WF_vars(TakeEvent) /\ \A l \in Loaders : SF_vars(Load(l))

Spec == Init /\ [][Next]_vars /\ Fairness

-----------------------------------------------------------------------------
\* Somebody is on the way to read the file.
ReadDue == events > 0 \/ \E l \in Loaders : loader[l] \in {"asleep", "awake", "locked"}

\* No save of a file that is still watched is lost: if the path holds something
\* else than was last read, or than it held when it was first watched, a read
\* is due.  The hazard is the flag: an event
\* that arrives while a loader is past its read and the flag still set would
\* be dropped.
NoLostUpdate == (~ cancelled /\ watching /\ disk \notin {lastRead, atAdd}) => ReadDue

\* What was read is applied before another read: with no loader between its
\* read and its onChange, the configuration in force is the one last read.
AppliesLastRead ==
    (lastRead.whole /\ \A l \in Loaders : loader[l] # "loaded") => applied = lastRead

\* The configuration in force never goes back to an earlier save (two loads do
\* not overtake each other between read and onChange).
NeverBackwards == [][applied'.save >= applied.save]_vars

\* Once cancel() has returned, onChange is not called any more.
QuietAfterCancel == [][cancelled => applied' = applied]_vars

\* The gate ends up with the last complete save, as long as the watch is on
\* (not cancelled, its file not replaced), the save completes and came after
\* the watch began.
Converges == []<>(~ watching \/ cancelled \/ ~ disk.whole \/ disk \in {applied, atAdd})

\* "The watcher handles common editor behaviours such as atomic renames [...]":
\* the gate ends up with the last complete save made since the watch began,
\* however it was made.
FollowsRenames ==
    []<>(cancelled \/ ~ disk.whole \/ atAdd = Unwatched \/ disk \in {applied, atAdd})

\* "The watcher handles common editor behaviours such as [...] truncations by
\* debouncing events": what is applied is never a file caught half-saved.
AppliesWholeFiles == applied.whole
=============================================================================
