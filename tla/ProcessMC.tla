------------------------------ MODULE ProcessMC ------------------------------
(* Three ways to start, seven contents of the file: empty, open to a group, *)
(* asking for keys, undecodable, unbuildable, TOML, and two a start refuses. *)
EXTENDS Process

CONSTANTS l1, l2

MCLoaders == {l1, l2}

MCKeys == {"listen", "upstream", "timeout", "ca", "trusted", "auth", "secret", "limits"}

MCDefaults ==
    [listen |-> ":8080", upstream |-> "here", timeout |-> "30s", ca |-> "", trusted |-> "",
     auth |-> "none", secret |-> "", limits |-> "usual"]

Yaml(given) == [format |-> "yaml", given |-> given]

Keyed == [auth |-> "apikey", secret |-> "k", upstream |-> "${ES}"]

MCFiles ==
    {Yaml(<<>>), Yaml(Keyed), Yaml([limits |-> "low", timeout |-> "soon"]), Yaml([auth |-> "ldap"]),
     Yaml([auth |-> "jwks", secret |-> "http:", trusted |-> "everyone"]),
     [format |-> "toml", given |-> Keyed], [format |-> "mangled", given |-> <<>>]}

MCHows ==
    {[flags |-> <<>>, env |-> <<>>, vars |-> [x \in {"${ES}"} |-> "far"]],
     [flags |-> [upstream |-> "near"], env |-> <<>>, vars |-> <<>>],
     [flags |-> [listen |-> ":80"], env |-> [upstream |-> "near", ca |-> "good.pem"], vars |-> <<>>]}

MCConfigs == {Loaded(h, f) : h \in MCHows, f \in MCFiles \cup {NoFile}}
             \cup {Reloaded(h, f) : h \in MCHows, f \in MCFiles \cup {NoFile}}
=============================================================================
