---------------------------- MODULE ClientAddress ----------------------------
(***************************************************************************)
(* Which address a request is attributed to: sanitizeClientIP around the   *)
(* handlers (internal/proxy), and the access log around it all             *)
(* (internal/logger), which looks in the request's context first and in    *)
(* its header next.                                                        *)
(*                                                                         *)
(* A request's origin is a record: peer, the address the connection comes  *)
(* from or Unparsable; forwardedFor, the X-Forwarded-For lines of its      *)
(* header in order, each a list of entries, an address or Unparsable;      *)
(* realIP, an address, Unparsable or None.                                 *)
(* BrokenPick is a wrong variant of Pick, which the properties must reject.*)
(***************************************************************************)
EXTENDS Naturals, Sequences, FiniteSetsExt

CONSTANTS
    Unparsable,   \* text that net.ParseIP refuses, blank entries included
    None          \* no such header, no address

\* What the headers and the connection of a request can be.
IsOrigin(o) ==
    /\ o = [peer |-> o.peer, forwardedFor |-> o.forwardedFor, realIP |-> o.realIP]
    /\ Len(o.forwardedFor) \in Nat
    /\ \A k \in 1 .. Len(o.forwardedFor) :
          LET line == o.forwardedFor[k]
          IN  /\ Len(line) \in Nat
              /\ DOMAIN line = 1 .. Len(line)
              /\ \A i \in DOMAIN line : line[i] # None
    /\ o.peer # None

\* What Header.Get returns: the first line only, if there is one.
Get(lines) == IF Len(lines) = 0 THEN <<>> ELSE lines[1]

\* The entry a chain of trusted proxies vouches for: the right-most that is
\* an address and no proxy's.
Candidates(entries, trusted) ==
    {i \in DOMAIN entries : entries[i] \notin trusted \cup {Unparsable}}

BrokenPick(S) == Min(S)

\* The direction resolveClientIP walks the list in.
Pick(S) == Max(S)

\* resolveClientIP: only a trusted peer's headers are read.
ResolveClientIP(origin, trusted) ==
    LET entries == Get(origin.forwardedFor)
        clients == Candidates(entries, trusted)
    IN  IF origin.peer = Unparsable THEN None
        ELSE IF origin.peer \notin trusted THEN origin.peer
        ELSE IF clients # {} THEN entries[Pick(clients)]
        ELSE IF origin.realIP \notin trusted \cup {Unparsable, None} THEN origin.realIP
        ELSE origin.peer

\* sanitizeClientIP: what is left of the headers for the handlers, for the
\* request that goes upstream and, the header being shared, for the logger.
Sanitised(origin, trusted) ==
    LET ip == ResolveClientIP(origin, trusted)
    IN  [origin EXCEPT !.forwardedFor = IF ip = None THEN <<>> ELSE << <<ip>> >>, !.realIP = None]

\* Middleware: the context sanitizeClientIP made belongs to a request of its
\* own, so the logger falls back to clientIP of the header it was handed.
LoggedIP(origin) ==
    IF origin.forwardedFor # <<>> THEN Get(origin.forwardedFor)[1]
    ELSE IF origin.realIP # None THEN origin.realIP
    ELSE origin.peer

\* An address the gate may take for the client's: the peer's own, or one that a
\* trusted peer reports with nothing but trusted proxies and noise behind it, in
\* the rest of its line and in all later ones, or names in X-Real-IP.
Vouched(ip, origin, trusted) ==
    LET lines == origin.forwardedFor
        proxies == trusted \cup {Unparsable}
    IN  \/ ip = origin.peer
        \/ /\ origin.peer \in trusted
           /\ ip \notin trusted
           /\ \/ \E k \in 1 .. Len(lines) : \E i \in DOMAIN lines[k] :
                    /\ lines[k][i] = ip
                    /\ \A j \in i + 1 .. Len(lines[k]) : lines[k][j] \in proxies
                    /\ \A m \in k + 1 .. Len(lines) : \A j \in DOMAIN lines[m] : lines[m][j] \in proxies
              \/ ip = origin.realIP

\* No line behind the first names a client.
OneLineMatters(origin, trusted) ==
    \A k \in 2 .. Len(origin.forwardedFor) : Candidates(origin.forwardedFor[k], trusted) = {}
=============================================================================
