----------------------------- MODULE ConfigLoad -----------------------------
(***************************************************************************)
(* internal/config: from defaults, a file, the environment and flags to a  *)
(* configuration, twice: loadWith when the process starts, loadFromReader  *)
(* on every reload.                                                        *)
(*                                                                         *)
(* Settings are functions from keys to texts: "listen", "upstream",        *)
(* "timeout", "ca", "trusted", "auth" (its type), "secret" (what the type  *)
(* asks for: keys, a secret or the URL of a key set; "" when missing), and *)
(* "limits", which stands for everything else a reload replaces.  A file is*)
(* [format, given], how the process is started [flags, env, vars]: env are *)
(* the ESQUERY_ variables of settings, vars what a file's placeholders     *)
(* stand for.  Variables for keys inside a section that both loaders list  *)
(* as a whole, such as auth, are left out: what they do is viper's matter, *)
(* and so whether ESQUERY_AUTH_TYPE of the README does anything.           *)
(*                                                                         *)
(* One constant stands for both lists of defaults (loadWith's and          *)
(* loadFromReader's): each is made from Defaults(), the two name the same  *)
(* keys, and what is decoded is laid over Defaults() again, so that nothing*)
(* but an environment variable could tell a key missing from one of them.  *)
(*                                                                         *)
(* A definition named Broken... is a wrong variant of the one that follows *)
(* it, which the properties must reject.                                   *)
(***************************************************************************)
CONSTANTS
    Keys,           \* the keys settings have
    Defaults,       \* settings of Defaults(), all keys
    Placeholders,   \* texts that os.Expand replaces
    BadTimeouts,    \* texts time.ParseDuration refuses, but for ""
    BadURLs,        \* texts url.Parse refuses
    BadFiles,       \* names of CA files that are not there or hold no certificate
    BadNetworks,    \* trusted_proxies with an entry that is empty or no CIDR
    PlainURLs       \* key set URLs without https or without a host

ASSUME ConfigLoadAssumption == DOMAIN Defaults = Keys

\* The path is empty: no --config and no file where the process looks.
NoFile == [format |-> "none", given |-> <<>>]

\* os.Expand, before the text is decoded; an unset variable is nothing.
Expanded(given, vars) ==
    [k \in DOMAIN given |->
        IF given[k] \notin Placeholders THEN given[k]
        ELSE IF given[k] \in DOMAIN vars THEN vars[given[k]]
        ELSE ""]

\* What loadWith can decode: the format goes by the file's name.
Readable(file) == file.format \in {"none", "yaml", "toml"}

BrokenDecodes(file) == file.format # "none"

\* loadFromReader takes every file for YAML.
Decodes(file) == file.format = "yaml"

Over(f, g) == [k \in DOMAIN f \cup DOMAIN g |-> IF k \in DOMAIN f THEN f[k] ELSE g[k]]

\* Which of the sources has the say: the first that gives a key.
Layered(flags, how, file) ==
    Over(flags, Over(how.env, Over(Expanded(file.given, how.vars), Defaults)))

\* validateTrustedProxies and validateAuth, of which only loadWith makes use.
Valid(s) ==
    /\ s["trusted"] \notin BadNetworks
    /\ \/ s["auth"] \in {"none", ""}
       \/ s["auth"] \in {"apikey", "jwt"} /\ s["secret"] # ""
       \/ s["auth"] = "jwks" /\ s["secret"] \notin PlainURLs \cup {""}

\* What newServer and UpdateConfig have to build: the timeout, the URL and the
\* client of the upstream, and the validator, which reads the same CA file.
Buildable(s) ==
    /\ s["timeout"] \notin BadTimeouts
    /\ s["upstream"] \notin BadURLs
    /\ s["ca"] \notin BadFiles

Config(s) == [settings |-> s, buildable |-> Buildable(s)]

\* loadWith.
Loaded(how, file) == Config(Layered(how.flags, how, file))

\* main gets as far as serving.
Starts(how, file) ==
    /\ Readable(file)
    /\ Valid(Loaded(how, file).settings)
    /\ Loaded(how, file).buildable

\* loadFromReader, which is not told the flags.
Reloaded(how, file) == Config(Layered(<<>>, how, file))

\* BuildAuthenticator: any type it does not know lets everybody in.
Open(c) == c.settings["auth"] \notin {"apikey", "jwt", "jwks"}
=============================================================================
