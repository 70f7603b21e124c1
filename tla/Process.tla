------------------------------ MODULE Process ------------------------------
(***************************************************************************)
(* cmd/es-querycost with the configuration file beside it: main loads, the *)
(* file is saved again and again, Watch's loader goroutines read it and    *)
(* hand it to UpdateConfig, which is ConfigSwap's.  A process that refuses *)
(* its configuration at the start has ended before it has any state here.  *)
(*                                                                         *)
(* What of a save reaches a loader, and when, is ConfigWatch's matter; here*)
(* a loader reads whatever the file holds at some time.                    *)
(***************************************************************************)
EXTENDS ConfigSwap, ConfigLoad

CONSTANTS
    Files,    \* contents the file may have, NoFile not among them
    Hows      \* ways to start the process

VARIABLES
    how,      \* the flags and environment of this process
    watched,  \* main has started Watch, there being a file
    file,     \* what the file holds now
    good      \* history: the last file read that could be applied

vars == <<installed, mu, loader, closers, closes, shutAt, phase, how, watched, file, good>>

ASSUME ProcessAssumption ==
    /\ NoFile \notin Files
    /\ \A h \in Hows : /\ h = [flags |-> h.flags, env |-> h.env, vars |-> h.vars]
                      /\ "auth" \notin DOMAIN h.env
    /\ \A h \in Hows, f \in Files \cup {NoFile} : {Loaded(h, f), Reloaded(h, f)} \subseteq Configs

TypeOK ==
    /\ SwapTypeOK
    /\ how \in Hows
    /\ watched \in BOOLEAN
    /\ file \in Files \cup {NoFile}
    /\ good \in Files \cup {NoFile}

\* main up to the running server: loadWith, NewServer, Watch if there is a file.
Init ==
    /\ how \in Hows
    /\ file \in Files \cup {NoFile}
    /\ Starts(how, file)
    /\ watched = (file # NoFile)
    /\ good = file
    /\ SwapInit
    /\ installed = <<Loaded(how, file)>>

\* Somebody saves the file.
Save ==
    /\ Running
    /\ file # NoFile
    /\ file' \in Files
    /\ UNCHANGED <<swapVars, how, watched, good>>

\* load() reads a file it cannot decode and leaves all as it is.
LoadNothing ==
    /\ Running
    /\ watched
    /\ MutexFree
    /\ ~ Decodes(file)
    /\ UNCHANGED vars

\* load() decodes the file and calls onChange with what it holds.
Load(l) ==
    /\ watched
    /\ Decodes(file)
    /\ BeginUpdate(l, Reloaded(how, file))
    /\ good' = IF Reloaded(how, file).buildable THEN file ELSE good
    /\ UNCHANGED <<how, watched, file>>

\* The rest of UpdateConfig, the closing goroutines and main's shutdown.
Rest ==
    /\ \/ \E l \in Loaders : FailUpdate(l) \/ StoreUpdate(l)
       \/ \E g \in Generations : CloseRetired(g)
       \/ Drain
       \/ CloseServer
       \/ CancelWatch
       \/ FailServe
    /\ UNCHANGED <<how, watched, file, good>>

Next == Save \/ LoadNothing \/ (\E l \in Loaders : Load(l)) \/ Rest

Ended == Exited /\ UNCHANGED vars

Spec == Init /\ [][Next \/ Ended]_vars /\ SwapFairness
-----------------------------------------------------------------------------
\* The configuration in force is what was loaded of the last file that could be
\* applied: a file that cannot be decoded or built leaves it alone ("return",
\* watcher.go; UpdateConfig's errors), whatever is saved and read in between,
\* and nothing of an older file survives a newer one.
LastGoodInForce ==
    MutexFree =>
        installed[Current] = IF Current = 1 THEN Loaded(how, good) ELSE Reloaded(how, good)

\* README "Configuration": command-line flags take precedence over the file and
\* the environment, in whatever configuration is in force, the reloaded ones too.
FlagsHold ==
    \A k \in DOMAIN how.flags : installed[Current].settings[k] = how.flags[k]

\* A gate that asks for credentials stops asking only because a file that was
\* applied names no type of authentication it knows: not because a file was bad,
\* a reload failed or a reload and a shutdown met.  The type is the file's to
\* say: whether ESQUERY_AUTH_TYPE counts is left to viper (ConfigLoad).
OpensWhenTold ==
    [][(~ Open(installed[Current]) /\ Open(installed'[Current'])) =>
          /\ good.format = "yaml"
          /\ "auth" \in DOMAIN good.given =>
                Expanded(good.given, how.vars)["auth"] \notin {"apikey", "jwt", "jwks"}]_vars
=============================================================================
